----------------------------- MODULE Workspace -----------------------------
(***************************************************************************)
(* The files of an agent's workspace and the tools that change them        *)
(* (tools/builtins.go), in a directory of the host or in the volume of the *)
(* agent's container (sandbox/docker.go), which the dashboard may stop or  *)
(* reset at any time (http/sandbox_admin.go).  A run and its sub-agents,   *)
(* and other runs of the agent, use the same files at once.  There is one  *)
(* folder; the text of a file is the set of calls whose text is in it, and *)
(* a folder's is that of the files in it that have no name here.           *)
(***************************************************************************)
EXTENDS Fleet

CONSTANTS
  Folder, Inside, Outside,  (* a folder, paths in it, paths beside it       *)
  Tooling                   (* calls of the tools                           *)

VARIABLES
  tree,          (* per path, what is there                                 *)
  container,     (* "host" without one                                      *)
  tooling,       (* what each call is about to do                           *)
  kept,          (* calls whose text nothing has been asked to take away    *)
  overwritten    (* of these, what an edit or an append took nevertheless   *)

workspaceVars == <<tree, container, tooling, kept, overwritten>>

\* resolvePath refuses a path that leaves the workspace by its name or by a
\* link: those calls have are inside of it.
Files == Inside \cup Outside
Paths == {Folder} \cup Files

ASSUME WorkspaceAssumption == None \notin Paths /\ Folder \notin Files

Absent == [kind |-> "none", text |-> {}]
NoTool == [pc |-> "idle", op |-> None, path |-> None, src |-> None, text |-> {}, dir |-> FALSE]
Spent  == [NoTool EXCEPT !.pc = "done"]

WorkspaceInit ==
    /\ tree = [p \in Paths |-> Absent] /\ container \in {"host", "none"}
    /\ tooling = [c \in Tooling |-> NoTool] /\ kept = {}
    /\ overwritten = [op \in {"edit", "append"} |-> {}]

OnHost == container = "host"
Ready  == container \in {"host", "running"}

\* Policy and system ask for the folder of a path; fs.write and the container
\* make it, unless a file has its name by now.
HasFolder(p) == p \in Inside => tree[Folder].kind = "dir"
MayMake(p) == p \in Inside => tree[Folder].kind # "file"
Made(p) == IF p \in Inside THEN [tree EXCEPT ![Folder].kind = "dir"] ELSE tree

Under(p) == IF p = Folder THEN {Folder} \cup Inside ELSE {p}

\* Files being written stay open: their text goes where they are moved to.
Open(P)  == {c \in Tooling : tooling[c].pc = "put" /\ tooling[c].path \in P}
Text(P)  == (UNION {tree[p].text : p \in P}) \cup (UNION {tooling[c].text : c \in Open(P)})

\* Registry.Execute lets the call through: its arguments are there, the agent
\* may use the tool, and its rate limit is not reached.
Begins(c, what) == tooling[c].pc = "idle" /\ tooling' = [tooling EXCEPT ![c] = what]

-----------------------------------------------------------------------------
\* fs.mkdir
MakeFolder(c) ==
    /\ Ready /\ tree[Folder].kind # "file" /\ Begins(c, Spent)
    /\ tree' = [tree EXCEPT ![Folder].kind = "dir"]
    /\ UNCHANGED <<container, kept, overwritten>> /\ NoFault

\* fs.write
WriteFile(c, p) ==
    /\ Ready /\ MayMake(p)
    /\ Begins(c, [NoTool EXCEPT !.pc = "open", !.op = "write", !.path = p, !.text = {c}])
    /\ tree' = Made(p)
    /\ UNCHANGED <<container, kept, overwritten>> /\ NoFault

\* What an edit leaves of the text: all, or not what it replaces (TextEdits has
\* the lines).
Edited(p) == {tree[p].text, {}}

\* fs.edit, and fs.append in the container, read the file first.
ReadFile(c, p, op) ==
    /\ Ready /\ (op = "append" => ~OnHost) /\ tree[p].kind = "file"
    /\ \E rest \in IF op = "edit" THEN Edited(p) ELSE {tree[p].text} :
         /\ Begins(c, [NoTool EXCEPT !.pc = "open", !.op = op, !.path = p, !.text = rest \cup {c}])
         /\ kept' = kept \ (tree[p].text \ rest)
    /\ UNCHANGED <<tree, container, overwritten>> /\ NoFault

\* Mutant of AppendFile: on the host, too, the file is read and written whole.
AppendByRewriting(c, p) ==
    /\ OnHost /\ tree[p].kind = "file"
    /\ Begins(c, [NoTool EXCEPT !.pc = "open", !.op = "append", !.path = p, !.text = tree[p].text \cup {c}])
    /\ UNCHANGED <<tree, container, kept, overwritten>> /\ NoFault

\* fs.append on the host: O_APPEND and O_CREATE.
AppendFile(c, p) ==
    /\ OnHost /\ HasFolder(p) /\ tree[p].kind # "dir" /\ Begins(c, Spent)
    /\ tree' = [tree EXCEPT ![p] = [kind |-> "file", text |-> tree[p].text \cup {c}]]
    /\ kept' = kept \cup {c}
    /\ UNCHANGED <<container, overwritten>> /\ NoFault

\* The file of c has only the text left by now.  fs.write is asked to replace
\* what there was; an edit, and an append in the container, overwrite what came
\* after they read it.
Replaces(c, left, told) ==
    LET gone == tree[tooling[c].path].text \ left IN
    IF tooling[c].op = "write" THEN kept' = (kept \ gone) \cup told /\ UNCHANGED overwritten
    ELSE /\ kept' = kept \cup told
         /\ overwritten' = [overwritten EXCEPT ![tooling[c].op] = @ \cup (kept \cap gone)]

\* os.WriteFile opens and truncates, then writes ...
TruncateFile(c) ==
    /\ OnHost /\ tooling[c].pc = "open"
    /\ LET p == tooling[c].path IN
         IF HasFolder(p) /\ tree[p].kind # "dir"
         THEN /\ tree' = [tree EXCEPT ![p] = [kind |-> "file", text |-> {}]]
              /\ tooling' = [tooling EXCEPT ![c].pc = "put"] /\ Replaces(c, tooling[c].text, {})
         ELSE /\ tooling' = [tooling EXCEPT ![c] = Spent] /\ UNCHANGED <<tree, kept, overwritten>>
    /\ UNCHANGED container /\ NoFault

\* ... from the start of the file, over what was written there meanwhile.
PutText(c) ==
    /\ tooling[c].pc = "put"
    /\ IF tooling[c].path = None THEN UNCHANGED <<tree, kept, overwritten>>
       ELSE \E rest \in {{}, tree[tooling[c].path].text} :
              /\ tree' = [tree EXCEPT ![tooling[c].path].text = rest \cup tooling[c].text]
              /\ Replaces(c, rest \cup tooling[c].text, {c})
    /\ tooling' = [tooling EXCEPT ![c] = Spent]
    /\ UNCHANGED container /\ NoFault

\* A file is copied into the container as a whole.
CopyToContainer(c) ==
    /\ container = "running" /\ tooling[c].pc = "open"
    /\ LET p == tooling[c].path IN
         IF MayMake(p)
         THEN /\ tree' = [Made(p) EXCEPT ![p] = [kind |-> "file", text |-> tooling[c].text]]
              /\ Replaces(c, tooling[c].text, {c})
         ELSE UNCHANGED <<tree, kept, overwritten>>
    /\ tooling' = [tooling EXCEPT ![c] = Spent]
    /\ UNCHANGED container /\ NoFault

-----------------------------------------------------------------------------
(* fs.delete and fs.move look first and act later.                         *)

DeletePath(c, p) ==
    /\ Ready /\ tree[p].kind # "none"
    /\ Begins(c, [NoTool EXCEPT !.pc = "remove", !.op = "delete", !.path = p, !.dir = (tree[p].kind = "dir")])
    /\ UNCHANGED <<tree, container, kept, overwritten>> /\ NoFault

\* What is at the destination is removed before, if the call allows it.
MovePath(c, p, q) ==
    /\ Ready /\ p # q /\ tree[p].kind = "file" /\ (OnHost => HasFolder(q))
    /\ Begins(c, [NoTool EXCEPT !.pc = IF tree[q].kind = "none" THEN "rename" ELSE "remove",
                                !.op = "move", !.src = p, !.path = q, !.dir = (tree[q].kind = "dir")])
    /\ UNCHANGED <<tree, container, kept, overwritten>> /\ NoFault

\* A folder goes with all that is in it by now, the source of a move as well.
\* Only the call that saw a folder removes one, and what is gone already is
\* an error on the host, unless it was a folder.
RemovePath(c) ==
    /\ Ready /\ tooling[c].pc = "remove"
    /\ LET p == tooling[c].path
           fine == tooling[c].dir \/ (tree[p].kind = "none" /\ ~OnHost) \/ tree[p].kind = "file"
       IN IF fine
          THEN /\ tree' = [x \in Paths |-> IF x \in Under(p) THEN Absent ELSE tree[x]]
               /\ kept' = kept \ Text(Under(p))
               /\ tooling' = [d \in Tooling |->
                    IF d = c THEN IF tooling[c].op = "move" THEN [tooling[c] EXCEPT !.pc = "rename"] ELSE Spent
                    ELSE IF d \in Open(Under(p)) THEN [tooling[d] EXCEPT !.path = None] ELSE tooling[d]]
          ELSE tooling' = [tooling EXCEPT ![c] = Spent] /\ UNCHANGED <<tree, kept>>
    /\ UNCHANGED <<container, overwritten>> /\ NoFault

\* A file that came to the destination meanwhile is replaced.  A folder that
\* did is an error on the host, while mv puts the file into it.
RenamePath(c) ==
    /\ Ready /\ tooling[c].pc = "rename"
    /\ LET p == tooling[c].src
           q == tooling[c].path
           landed == IF tree[q].kind = "dir" THEN [tree[q] EXCEPT !.text = tree[q].text \cup tree[p].text]
                     ELSE tree[p]
           moved == [tooling EXCEPT ![c] = Spent]
       IN IF tree[p].kind = "file" /\ HasFolder(q) /\ (tree[q].kind = "dir" => ~OnHost /\ p \notin Under(q))
          THEN /\ tree' = [tree EXCEPT ![p] = Absent, ![q] = landed]
               /\ kept' = IF tree[q].kind = "dir" THEN kept ELSE kept \ Text({q})
               /\ tooling' = [d \in Tooling |->
                    IF d \in Open({p}) THEN [tooling[d] EXCEPT !.path = q]
                    ELSE IF d \in Open({q}) THEN [tooling[d] EXCEPT !.path = None] ELSE moved[d]]
          ELSE tooling' = moved /\ UNCHANGED <<tree, kept>>
    /\ UNCHANGED <<container, overwritten>> /\ NoFault

-----------------------------------------------------------------------------
\* A call fails, as all do without the container, or the process ends: a file
\* that was to be written stays truncated, which is what an edit overwrites then.
Fails(C) ==
    /\ tooling' = [c \in Tooling |-> IF c \in C /\ tooling[c].pc # "idle" THEN Spent ELSE tooling[c]]
    /\ overwritten' = [overwritten EXCEPT !["edit"] = @ \cup
                         (kept \cap UNION {tooling[c].text : c \in {d \in C : tooling[d].pc = "put"}})]
    /\ UNCHANGED <<tree, container, kept>>

ToolFails ==
    \/ Fault /\ Fails(Tooling)
    \/ \E c \in Tooling : /\ tooling[c].pc \notin {"idle", "done"} /\ Fails({c})
                          /\ IF Ready THEN Fault ELSE NoFault

\* A run that starts, or the dashboard, makes the container go; the dashboard
\* stops or resets it; the volume stays.
SetContainer(from, to) ==
    /\ container \in from /\ container' = to
    /\ UNCHANGED <<tree, tooling, kept, overwritten>> /\ NoFault

StartContainer == SetContainer({"none", "stopped"}, "running")
StopContainer  == SetContainer({"running"}, "stopped")
ResetContainer == SetContainer({"running", "stopped"}, "none")

WorkspaceNext ==
    \/ \E c \in Tooling :
         \/ MakeFolder(c) \/ TruncateFile(c) \/ PutText(c) \/ CopyToContainer(c)
         \/ RemovePath(c) \/ RenamePath(c)
         \/ \E p \in Files : WriteFile(c, p) \/ AppendFile(c, p)
                             \/ \E op \in {"edit", "append"} : ReadFile(c, p, op)
                             \/ \E q \in Paths : MovePath(c, p, q)
         \/ \E p \in Paths : DeletePath(c, p)
    \/ ToolFails \/ StartContainer \/ StopContainer \/ ResetContainer

-----------------------------------------------------------------------------
WorkspaceTypeOK ==
    /\ \A p \in Paths : /\ tree[p].kind \in {"none", "dir", "file"}
                        /\ tree[p].kind = "none" => tree[p].text = {}
    /\ \A p \in Inside : tree[p].kind # "none" => tree[Folder].kind = "dir"
    /\ container \in {"host", "none", "stopped", "running"}

\* Text a call was told is stored stays in the workspace until a call writes
\* over its file, deletes it or moves something onto it, whatever fails and
\* however containers are reset in between (fsAppend, fsMove).  The exception is
\* text an edit overwrites, for it came after the edit had read the file or the
\* edit failed half-way, and in the container so does an append; on the host an
\* append overwrites nothing.
StoredKept ==
    /\ kept \subseteq Text(Paths) \cup overwritten["edit"] \cup overwritten["append"]
    /\ OnHost => overwritten["append"] = {}
=============================================================================
