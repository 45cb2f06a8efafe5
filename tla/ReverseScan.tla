---------------------------- MODULE ReverseScan ----------------------------
(***************************************************************************)
(* Reading the last messages of a session (chatstore/reverse_scanner.go,   *)
(* chatstore/store.go): messages.jsonl is read in chunks from its end, and *)
(* a line that spans chunks is put together from its pieces.  A byte of    *)
(* the file is known by its position, a line by the positions of its       *)
(* bytes; every line parses as a message unless it is empty.  The file     *)
(* does not change meanwhile: both readers hold the session's lock.        *)
(***************************************************************************)
EXTENDS Fleet

Seqs == INSTANCE SequencesExt
Sets == INSTANCE FiniteSetsExt

CONSTANTS
  ChunkSize,     (* bufSize                                                 *)
  MaxLine,       (* maxSize: bytes a line may be put together from          *)
  MaxFile,       (* bound: bytes of the file                                *)
  Limits         (* numbers of messages asked for                           *)

ASSUME ScanAssumption ==
    /\ {ChunkSize, MaxLine} \subseteq Nat \ {0} /\ ChunkSize <= MaxLine
    /\ MaxFile \in Nat /\ Limits \subseteq Nat \ {0}

VARIABLES
  history,       (* the file: its size and the positions of its newlines    *)
  limit,
  scanner,       (* position, leftover pieces, pending lines and error      *)
  recent         (* ReadRecentMessages: the messages found, newest first    *)

scanVars == <<history, limit, scanner, recent>>

ScanInit ==
    /\ \E n \in 0..MaxFile, nl \in SUBSET (1..MaxFile) :
        nl \subseteq 1..n /\ history = [size |-> n, newlines |-> nl]
    /\ limit \in Limits
    /\ scanner = [pos |-> history.size, leftover |-> <<>>, pending |-> <<>>, err |-> FALSE]
    /\ recent = <<>>

\* The bytes after position from, up to position to.
Slice(from, to) == [i \in 1..(to - from) |-> from + i]

-----------------------------------------------------------------------------
(* One chunk.                                                              *)

\* Mutant of JoinLeftover: the pieces in the order they were read.
JoinAsRead(prefix, leftover) ==
    LET joined[i \in 0..Len(leftover)] == IF i = 0 THEN <<>> ELSE joined[i - 1] \o leftover[i]
    IN  prefix \o joined[Len(leftover)]

\* joinLeftover: what was read last comes first.
JoinLeftover(prefix, leftover) ==
    LET joined[i \in 0..Len(leftover)] == IF i = 0 THEN <<>> ELSE leftover[i] \o joined[i - 1]
    IN  prefix \o joined[Len(leftover)]

Size(leftover) == Len(JoinLeftover(<<>>, leftover))

\* The file's last byte is a newline: no line begins after it.
Trailing(w, p) == p = history.size /\ w.right = p /\ Size(w.leftover) = 0

\* What byte p of a chunk, looked at from its right end, makes of the lines
\* completed so far, the pieces of the one begun, and the right end of the next.
Look(w, p) ==
    IF p \notin history.newlines THEN w
    ELSE IF Trailing(w, p) THEN [w EXCEPT !.right = p - 1]
    ELSE [lines    |-> Append(w.lines, JoinLeftover(Slice(p, w.right), w.leftover)),
          leftover |-> <<>>, right |-> p - 1]

\* Chunk (c.from, c.to]: the lines it completes, and the pieces of the one it
\* begins in the middle of.
Split(c) ==
    LET begin == [lines |-> <<>>, leftover |-> scanner.leftover, right |-> c.to]
        look[k \in 0..(c.to - c.from)] == IF k = 0 THEN begin ELSE Look(look[k - 1], c.to - (k - 1))
        w == look[c.to - c.from]
    IN  [lines |-> w.lines, leftover |-> IF w.right = c.from THEN w.leftover
                                         ELSE Append(w.leftover, Slice(c.from, w.right))]

Chunk == [from |-> IF scanner.pos > ChunkSize THEN scanner.pos - ChunkSize ELSE 0,
          to   |-> scanner.pos]

-----------------------------------------------------------------------------
(* Scan, called until the limit is reached, the file read, or an error.    *)

Reading   == Len(recent) < limit /\ ~scanner.err
Over      == scanner.pos = 0 /\ scanner.pending = <<>> /\ scanner.leftover = <<>>
ScanDone  == ~Reading \/ Over
\* An empty line is passed over.
Collect(line) == recent' = IF line = <<>> THEN recent ELSE Append(recent, line)

NextPending ==
    /\ Reading /\ scanner.pending # <<>>
    /\ Collect(Head(scanner.pending))
    /\ scanner' = [scanner EXCEPT !.pending = Tail(@)]

FirstLine ==
    /\ Reading /\ scanner.pending = <<>> /\ scanner.pos = 0 /\ scanner.leftover # <<>>
    /\ Collect(JoinLeftover(<<>>, scanner.leftover))
    /\ scanner' = [scanner EXCEPT !.leftover = <<>>]

ReadChunk ==
    /\ Reading /\ scanner.pending = <<>> /\ scanner.pos > 0
    /\ LET split == Split(Chunk) IN
        scanner' = [pos |-> Chunk.from, leftover |-> split.leftover, pending |-> split.lines,
                    err |-> Size(split.leftover) > MaxLine]
    /\ UNCHANGED recent

ScanNext == (NextPending \/ FirstLine \/ ReadChunk) /\ UNCHANGED <<history, limit>> /\ NoFault

-----------------------------------------------------------------------------
ScanTypeOK ==
    /\ history.size \in 0..MaxFile /\ history.newlines \subseteq 1..history.size
    /\ limit \in Limits /\ Len(recent) <= limit
    /\ scanner.pos \in 0..history.size /\ scanner.err \in BOOLEAN

\* The lines of the file that are not empty, newest first.
Borders == {0, history.size + 1} \cup history.newlines
LineAfter(b) == Slice(b, Sets!Min({x \in Borders : x > b}) - 1)
LinesFromEnd ==
    LET lines[k \in 0..(history.size + 1)] ==
            IF k = 0 THEN <<>>
            ELSE LET b == (history.size + 1) - k IN
                 IF b \in Borders /\ b + 1 \notin Borders THEN Append(lines[k - 1], LineAfter(b))
                 ELSE lines[k - 1]
    IN  lines[history.size + 1]

\* What is read is the end of the history, whole lines in their order, however
\* the chunks cut them; all that was asked for or is there, unless a line is
\* too long to be put together (ReverseScanner.Scan, ReadRecentMessages).
TailExact ==
    /\ Seqs!IsPrefix(recent, LinesFromEnd)
    /\ ScanDone /\ ~scanner.err => Len(recent) = limit \/ recent = LinesFromEnd
    /\ scanner.err => \E i \in DOMAIN LinesFromEnd : Len(LinesFromEnd[i]) > MaxLine
=============================================================================
