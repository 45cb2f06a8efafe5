----------------------------- MODULE MCServices -----------------------------
EXTENDS Services, TLC

CONSTANTS boss, aide, m1, i1, i2, l1, l2, e1, run1, t1, t2, tool, dir, inner, outer, c1, c2, c3, w1, w2

\* Three calls, or two, of the same kind may change places.
ServiceSymmetry == Permutations({c1, c2, c3}) \cup Permutations({w1, w2})
-----------------------------------------------------------------------------
(* The replies: two names of one tool, two spellings of its arguments, a   *)
(* name that is none; every notation, in the open and in thinking.         *)

Object(n, a) == [name |-> n, args |-> a]
Part(k, h, f, os) == [kind |-> k, hidden |-> h, form |-> f, objects |-> os]

MCAliases   == [bash |-> "shell.exec", shell |-> "shell.exec", read |-> "fs.read", odd |-> None]
MCMeaning   == [cmd |-> "command", command |-> "command", path |-> "path"]
MCPermitted == {{}, {"fs.read"}, {"fs.read", "shell.exec"}}
MCNatives   == {Object("bash", "cmd"), Object("odd", "path"), Object("read", None)}
MCParts ==
    {Part("fence", FALSE, "sound", <<Object("bash", "cmd"), Object("read", "path")>>),
     Part("fence", FALSE, "cut", <<Object("shell", "command")>>),
     Part("fence", TRUE, "commas", <<Object("read", "path"), Object("shell", "command")>>),
     Part("fence", FALSE, "broken", <<Object("read", "path")>>),
     Part("fence", FALSE, "sound", <<Object("odd", "path")>>),
     Part("bare", FALSE, "sound", <<Object("shell", "command")>>),
     Part("bare", TRUE, "commas", <<Object("read", "path")>>),
     Part("bare", FALSE, "cut", <<Object("read", "path")>>),
     Part("bare", FALSE, "sound", <<Object("read", None)>>),
     Part("tag", FALSE, "sound", <<Object("bash", "cmd")>>),
     Part("tag", TRUE, "sound", <<Object("read", "path")>>),
     Part("tag", FALSE, "broken", <<Object("read", "path")>>),
     Part("tag", FALSE, "cut", <<Object("read", "path")>>),
     Part("tag", FALSE, "sound", <<Object("read", None)>>),
     Part("quote", FALSE, "sound", <<>>),
     Part("quote", TRUE, "sound", <<>>)}

\* The rows of a hunk: context, removed, added, and two of them.
MCShapes == {<<" ">>, <<"-">>, <<"+">>, <<" ", "+">>, <<"-", "+">>, <<"+", " ">>, <<"+", "-">>}
=============================================================================
