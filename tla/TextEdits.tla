----------------------------- MODULE TextEdits -----------------------------
(***************************************************************************)
(* fs.edit by ranges of lines and by the hunks of a unified diff           *)
(* (tools/builtins.go): the edits are taken in order, each copies what is  *)
(* before it from the original and puts its own lines; one that does not   *)
(* fit refuses them all.  A line of the original is known by its number;   *)
(* the edits come one at a time, so that each meets every state of the     *)
(* ones before it.                                                         *)
(***************************************************************************)
EXTENDS Fleet

CONSTANTS
  MaxLines,      (* bound: lines of the file                                *)
  MaxEdits,      (* bound: edits, or hunks, of a call                       *)
  Shapes         (* the sequences of row prefixes a hunk may have           *)

ASSUME EditAssumption ==
    {MaxLines, MaxEdits} \subseteq Nat /\ Shapes \subseteq Seq({" ", "-", "+"})

VARIABLES
  original,      (* the lines of the file                                   *)
  asked,         (* history: the ranges replaced so far and by what         *)
  edited         (* mode, the lines put out, and the next one to be copied  *)

editVars == <<original, asked, edited>>

EditInit ==
    /\ original \in {[i \in 1..n |-> i] : n \in 0..MaxLines}
    /\ asked = <<>>
    /\ edited = [mode |-> None, out |-> <<>>, next |-> 1, state |-> "open"]

Lines == Len(original)
\* A new line has number 0.
Texts == 0..MaxLines

\* One edit more: the lines up to it are copied, its range is passed over.
Put(mode, before, new, next) ==
    edited' = [mode |-> mode, out |-> edited.out \o SubSeq(original, edited.next, before) \o new,
               next |-> next, state |-> "open"]
Refuse(mode) == edited' = [mode |-> mode, out |-> <<>>, next |-> 1, state |-> "refused"]
Note(from, to, new) == asked' = Append(asked, [from |-> from, to |-> to, new |-> new])

MayEdit(mode) ==
    edited.state = "open" /\ edited.mode \in {None, mode} /\ Len(asked) < MaxEdits

\* parseLineEdits sorts the edits by their first lines and refuses overlaps;
\* applyLineEdits refuses a range beyond the end.  (An empty file has a line.)
EditLines(from, to, new) ==
    /\ MayEdit("edits") /\ original # <<>> /\ from <= to
    /\ asked # <<>> => LastOf(asked).from <= from
    /\ Note(from, to, new)
    /\ IF to > Lines \/ (asked # <<>> /\ from <= LastOf(asked).to) THEN Refuse("edits")
       ELSE Put("edits", from - 1, new, to + 1)

-----------------------------------------------------------------------------
(* A hunk: the line its header names and its rows.                         *)

\* How many lines it is about, and the lines it leaves for them.
OldCount(rows) == Cardinality({i \in DOMAIN rows : rows[i].op # "+"})
New(rows) ==
    LET new[i \in 0..Len(rows)] ==
            IF i = 0 THEN <<>>
            ELSE IF rows[i].op = "-" THEN new[i - 1] ELSE Append(new[i - 1], rows[i].text)
    IN  new[Len(rows)]

\* A hunk for an empty file names line 0.
Target(start, rows) == IF start = 0 /\ OldCount(rows) = 0 THEN 1 ELSE start

\* Mutant of Walk: an added row moves the cursor, too.
WalkAll(rows, from) ==
    LET after[i \in 0..Len(rows)] ==
            IF i = 0 THEN [cursor |-> from, out |-> <<>>, fits |-> TRUE]
            ELSE LET w == after[i - 1] IN
                 [cursor |-> w.cursor + 1,
                  out  |-> IF rows[i].op = "-" THEN w.out ELSE Append(w.out, rows[i].text),
                  fits |-> w.fits /\ (rows[i].op # "+" =>
                              w.cursor <= Lines /\ original[w.cursor] = rows[i].text)]
    IN after[Len(rows)]

\* The rows one by one: a context row and a removed one must be the next line.
Walk(rows, from) ==
    LET after[i \in 0..Len(rows)] ==
            IF i = 0 THEN [cursor |-> from, out |-> <<>>, fits |-> TRUE]
            ELSE LET w == after[i - 1] IN
                 [cursor |-> IF rows[i].op = "+" THEN w.cursor ELSE w.cursor + 1,
                  out  |-> IF rows[i].op = "-" THEN w.out ELSE Append(w.out, rows[i].text),
                  fits |-> w.fits /\ (rows[i].op # "+" =>
                              w.cursor <= Lines /\ original[w.cursor] = rows[i].text)]
    IN after[Len(rows)]

ApplyHunk(start, rows) ==
    /\ MayEdit("patch")
    /\ LET at == Target(start, rows)
           walk == Walk(rows, at)
       IN /\ Note(at, (at + OldCount(rows)) - 1, New(rows))
          /\ IF at \in edited.next..(Lines + 1) /\ walk.fits
             THEN Put("patch", at - 1, walk.out, walk.cursor)
             ELSE Refuse("patch")

\* What is left is copied, and the file written.
WriteEdited ==
    /\ edited.state = "open" /\ asked # <<>>
    /\ edited' = [edited EXCEPT !.state = "written", !.out = edited.out \o SubSeq(original, edited.next, Lines)]
    /\ UNCHANGED asked

\* Rows of a shape at line from: those of the file, with one of them spoilt
\* perhaps, and added ones.
Rows(shape, from, spoilt) ==
    [i \in DOMAIN shape |->
        [op |-> shape[i],
         text |-> IF shape[i] = "+" \/ i = spoilt THEN 0
                  ELSE from + Cardinality({j \in 1..(i - 1) : shape[j] # "+"})]]

EditNext ==
    /\ \/ \E from, to \in 1..(MaxLines + 1), n \in 0..2 : EditLines(from, to, [i \in 1..n |-> 0])
       \/ \E start \in 0..(MaxLines + 2), shape \in Shapes : \E spoilt \in 0..Len(shape) :
            ApplyHunk(start, Rows(shape, start, spoilt))
       \/ WriteEdited
    /\ UNCHANGED original /\ NoFault

-----------------------------------------------------------------------------
EditTypeOK ==
    /\ SetOf(edited.out) \subseteq Texts
    /\ edited.state \in {"open", "written", "refused"} /\ edited.next \in 1..(Lines + 1)

\* The reference: before each line what replaces the ranges that begin there,
\* and the line itself unless a range has it.
PutAt(p) ==
    LET put[i \in 0..Len(asked)] ==
            IF i = 0 THEN <<>>
            ELSE IF asked[i].from = p THEN put[i - 1] \o asked[i].new ELSE put[i - 1]
    IN  put[Len(asked)]
Covered(p) == p > Lines \/ \E i \in DOMAIN asked : p \in asked[i].from..asked[i].to
Replaced ==
    LET upTo[p \in 0..(Lines + 1)] ==
            IF p = 0 THEN <<>>
            ELSE upTo[p - 1] \o PutAt(p) \o (IF Covered(p) THEN <<>> ELSE <<original[p]>>)
    IN  upTo[Lines + 1]

Disjoint == \A i, j \in DOMAIN asked : i < j => asked[i].to < asked[j].from
InFile   == \A i \in DOMAIN asked : 1 <= asked[i].from /\ asked[i].to <= Lines
                                    /\ asked[i].from <= Lines + 1

\* A file is written only with edits that lie in it and apart from each other,
\* and then nothing but the ranges they name is changed: no line beside them
\* is lost, doubled or moved (applyLineEdits, applyUnifiedDiff).
EditsExact == edited.state = "written" => Disjoint /\ InFile /\ edited.out = Replaced
=============================================================================
