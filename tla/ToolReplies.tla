---------------------------- MODULE ToolReplies ----------------------------
(***************************************************************************)
(* What tool calls an answer of a model is read as: the calls a provider   *)
(* hands over as such, or those found in the text (toolparse/parser.go,    *)
(* parseToolCallsFromResponse of runtime/model.go) in fenced blocks, in    *)
(* bare JSON and behind <tool_call> tags, some of it between markers of    *)
(* thinking.  A text is the sequence of its parts; JSON is known by the    *)
(* objects in it and by what it takes to read it.                          *)
(***************************************************************************)
EXTENDS Fleet
Lists == INSTANCE SequencesExt

CONSTANTS
  Aliases,       (* the tool each written name stands for, or None          *)
  Meaning,       (* the arguments each spelling stands for                  *)
  Permitted,     (* the tools a run may be allowed                          *)
  Parts,         (* the parts a text may have                               *)
  Natives,       (* the calls a provider or the user may hand over          *)
  MaxParts,      (* bound: parts of a text, calls handed over               *)
  JsonCap,       (* defaultMaxToolCallsPerReply (6)                         *)
  ReplyCap       (* maxToolCallsPerReply (12)                               *)

(***************************************************************************)
(* A part is a fenced block, bare JSON, a tag or an odd quotation mark in  *)
(* prose.  Its JSON is sound, has trailing commas, is cut off in its end   *)
(* or beyond repair, each object of it alike; nothing that follows closes  *)
(* what is cut off.  An object has the name of a tool and a spelling of    *)
(* arguments, None if that is missing or no object.  A tag has the name    *)
(* and a comma, and its object is behind the comma or, with None, missing. *)
(***************************************************************************)
Forms   == {"sound", "commas", "cut", "broken"}
Objects == [name : DOMAIN Aliases, args : DOMAIN Meaning \cup {None}]
ASSUME RepliesAssumption ==
    /\ \A p \in Parts :
        /\ DOMAIN p = {"kind", "hidden", "form", "objects"}
        /\ p.kind \in {"fence", "bare", "tag", "quote"} /\ p.hidden \in BOOLEAN /\ p.form \in Forms
        /\ p.objects \in Seq(Objects)
        /\ p.kind = "tag" => Len(p.objects) = 1
        /\ p.kind = "tag" /\ p.form # "sound" => p.objects[1].args # None
        /\ p.kind = "quote" => p.objects = <<>>
    /\ Natives \subseteq [name : DOMAIN Aliases, args : DOMAIN Meaning \cup {None}]
    /\ None \notin DOMAIN Aliases /\ \A tools \in Permitted : None \notin tools
    /\ MaxParts \in Nat /\ JsonCap \in Nat \ {0} /\ ReplyCap \in Nat /\ JsonCap <= ReplyCap

VARIABLES
  text, natives, (* the answer: its parts, and the calls handed over        *)
  reading        (* what it is read as                                      *)

replyVars == <<text, natives, reading>>

RepliesInit ==
    /\ text = <<>> /\ natives = <<>>
    /\ reading \in [pc : {"writing"}, permitted : Permitted, calls : {<<>>}, failure : {FALSE},
                    from : {"none"}]

-----------------------------------------------------------------------------
(* One object.                                                             *)

Canonical(name) == Aliases[name]

\* The two tests differ for a run that is allowed nothing.
TextPermits(tool)   == reading.permitted = {} \/ tool \in reading.permitted
NativePermits(tool) == tool \in reading.permitted

\* A call with the arguments of o.  (inner is None but where the arguments are
\* a whole object, which calls the tool it names inner.)
CallOf(o) == [tool |-> Canonical(o.name), args |-> o.args, inner |-> None]

\* What an object is read as: a call, or nothing.
ReadObject(o) ==
    IF Canonical(o.name) # None /\ TextPermits(Canonical(o.name)) /\ o.args # None
    THEN <<CallOf(o)>> ELSE <<>>

\* Arguments that must be JSON as they are; none at all are no arguments.
ReadNative(o) ==
    IF Canonical(o.name) # None /\ NativePermits(Canonical(o.name)) /\ o.args # None
    THEN <<CallOf(o)>> ELSE <<>>

-----------------------------------------------------------------------------
(* The parts of a text ps that are looked at.                              *)

\* The entries of s at the places in P, in their order.
Picked(s, P) == Lists!FlattenSeq([i \in DOMAIN s |-> IF i \in P THEN <<s[i]>> ELSE <<>>])

Fences(ps) == Picked(ps, {i \in DOMAIN ps : ps[i].kind = "fence"})

\* Bare JSON is found by counting braces outside of quotation marks: an odd
\* mark hides what follows up to the next one, an open brace all that follows.
Quoted(ps, i) == Cardinality({j \in 1..(i - 1) : ps[j].kind = "quote"}) % 2 = 1
Opens(ps, i)  == ps[i].kind \in {"bare", "tag"} /\ ps[i].form = "cut" /\ ~Quoted(ps, i)
HasObject(p)  == p.objects # <<>> /\ (p.kind = "tag" => p.objects[1].args # None)
Found(ps, i) ==
    /\ ps[i].kind = "bare" \/ (ps[i].kind = "tag" /\ HasObject(ps[i]))
    /\ ps[i].form # "cut"
    /\ ~Quoted(ps, i) /\ \A j \in 1..(i - 1) : ~Opens(ps, j)

Bare(ps) == Picked(ps, {i \in DOMAIN ps : Found(ps, i)})

Candidates(ps) == Fences(ps) \o Bare(ps)

\* Commas are dropped, and what is open in a fenced block is closed.
Trimmed(p) == p.form = "commas"
Closed(p)  == p.form = "cut" /\ p.kind = "fence"
Decodes(p) == p.form = "sound" \/ Trimmed(p) \/ Closed(p)

\* An object, an array of objects, or nothing.  That of a tag names no tool.
ReadPart(p) ==
    IF ~Decodes(p) \/ p.kind = "tag" THEN <<>>
    ELSE Lists!FlattenSeq([i \in DOMAIN p.objects |-> ReadObject(p.objects[i])])

Rejects(p) == Len(ReadPart(p)) < Len(p.objects) \/ p.objects = <<>>

-----------------------------------------------------------------------------
(* A whole text.                                                           *)

Limit(s, n) == SubSeq(s, 1, IF Len(s) < n THEN Len(s) ELSE n)

JsonCalls(ps) ==
    LET cs == Candidates(ps)
    IN Limit(Lists!FlattenSeq([i \in DOMAIN cs |-> ReadPart(cs[i])]), JsonCap)

\* A tag takes the first object behind its comma, whosever that is, and what is
\* before the end of it is skipped, other tags included.
Takes(ps, i, j) ==
    /\ ps[i].kind = "tag" /\ j \in i..Len(ps)
    /\ HasObject(ps[j]) /\ ps[j].form # "cut"
    /\ \A k \in i..(j - 1) : ~HasObject(ps[k])

Tags(ps) == {i \in DOMAIN ps :
                /\ ps[i].kind = "tag"
                /\ ~ \E k \in 1..(i - 1) : \E j \in i..Len(ps) : Takes(ps, k, j)}

\* Of a tag the object are the arguments, of a block it is all there is in it.
Lent(p) == IF p.kind = "tag" THEN CallOf(p.objects[1])
           ELSE [CallOf(p.objects[1]) EXCEPT !.inner = p.objects[1].name]

ReadTag(ps, i) ==
    LET asked == Canonical(ps[i].objects[1].name)
        Sound == {j \in DOMAIN ps : Takes(ps, i, j) /\ ps[j].form = "sound"} IN
    IF asked # None /\ NativePermits(asked) /\ Sound # {}
    THEN <<[Lent(ps[CHOOSE j \in Sound : TRUE]) EXCEPT !.tool = asked]>> ELSE <<>>

TagCalls(ps) ==
    Lists!FlattenSeq([i \in DOMAIN ps |-> IF i \in Tags(ps) THEN ReadTag(ps, i) ELSE <<>>])

\* Each call once, at its first place.
Deduped(calls) ==
    Picked(calls, {i \in DOMAIN calls : \A j \in 1..(i - 1) : calls[j] # calls[i]})

\* Another name of an argument is taken for the one the tool knows.
Spelled(c) == IF c.inner = None THEN [c EXCEPT !.args = Meaning[c.args]] ELSE c

\* Mutant of Normalized: repetitions are looked for before the spellings are
\* made one.
NormalizedLate(calls) ==
    LET ds == Deduped(calls) IN [i \in DOMAIN ds |-> Spelled(ds[i])]

Normalized(calls) == Deduped([i \in DOMAIN calls |-> Spelled(calls[i])])

TextCalls(ps) ==
    LET json == JsonCalls(ps)
    IN Limit(Normalized(IF json # <<>> THEN json ELSE TagCalls(ps)), ReplyCap)

\* Mutant of TextFailure: only what was no JSON at all counts.
TextFailureUndecoded(ps) ==
    /\ TextCalls(ps) = <<>>
    /\ \E i \in DOMAIN Candidates(ps) : ~Decodes(Candidates(ps)[i])

\* Something was meant to be a call and none was read.
TextFailure(ps) ==
    /\ TextCalls(ps) = <<>>
    /\ \/ \E i \in DOMAIN Candidates(ps) : Rejects(Candidates(ps)[i])
       \/ \E i \in Tags(ps) : ReadTag(ps, i) = <<>>

\* ExtractThinking: the text without what is between the markers.
Visible(ps) == Picked(ps, {i \in DOMAIN ps : ~ps[i].hidden})
Thinking(ps) == \E i \in DOMAIN ps : ps[i].hidden

-----------------------------------------------------------------------------
WritePart(p) ==
    /\ reading.pc = "writing" /\ natives = <<>> /\ Len(text) < MaxParts
    /\ text' = Append(text, p)
    /\ UNCHANGED <<natives, reading>> /\ NoFault

WriteNative(o) ==
    /\ reading.pc = "writing" /\ text = <<>> /\ Len(natives) < MaxParts
    /\ natives' = Append(natives, o)
    /\ UNCHANGED <<text, reading>> /\ NoFault

ReadAs(calls, failure, from) ==
    /\ reading.pc = "writing"
    /\ reading' = [reading EXCEPT !.pc = "read", !.calls = calls, !.failure = failure, !.from = from]
    /\ UNCHANGED <<text, natives>> /\ NoFault

\* Whatever text comes with calls that are handed over is not read, even if
\* none of them is taken.
ReadNatives ==
    LET calls == Lists!FlattenSeq([i \in DOMAIN natives |-> ReadNative(natives[i])]) IN
    natives # <<>> /\ ReadAs(calls, calls = <<>>, "natives")

\* The whole text, thinking included; what is visible if there was nothing.
ReadText ==
    /\ natives = <<>> /\ text # <<>>
    /\ IF TextCalls(text) = <<>> /\ Thinking(text)
       THEN ReadAs(TextCalls(Visible(text)),
                   (TextFailure(text) \/ TextFailure(Visible(text))) /\ TextCalls(Visible(text)) = <<>>,
                   "text")
       ELSE ReadAs(TextCalls(text), TextFailure(text), "text")

\* "/tool name {...}" of the user is a call without a model's doing, its
\* arguments mended like those of a fenced block; if that fails it is an error.
Relaxed(form) == form # "broken"
ReadDirective(o, form) ==
    /\ natives = <<>> /\ text = <<>>
    /\ LET calls == IF Relaxed(form) THEN ReadObject(o) ELSE <<>>
       IN ReadAs([i \in DOMAIN calls |-> Spelled(calls[i])], FALSE, "directive")

RepliesNext ==
    \/ \E p \in Parts : WritePart(p)
    \/ \E o \in Natives : WriteNative(o) \/ \E form \in Forms : ReadDirective(o, form)
    \/ ReadNatives \/ ReadText

-----------------------------------------------------------------------------
RepliesTypeOK ==
    /\ SetOf(text) \subseteq Parts /\ Len(text) <= MaxParts
    /\ SetOf(natives) \subseteq Natives
    /\ reading.failure \in BOOLEAN /\ reading.permitted \in Permitted

\* The objects of the fenced blocks that can be read and may be called.
Places == UNION {{<<i, k>> : k \in DOMAIN text[i].objects} : i \in DOMAIN text}
ObjectAt(x) == text[x[1]].objects[x[2]]
MeaningAt(x) == Spelled(CallOf(ObjectAt(x)))
Callable(x) == Canonical(ObjectAt(x).name) \in reading.permitted /\ ObjectAt(x).args # None
InFence(x)  == text[x[1]].kind = "fence" /\ text[x[1]].form # "broken" /\ Callable(x)
Before(x, y) == x[1] < y[1] \/ (x[1] = y[1] /\ x[2] < y[2])

\* c was written at x.
WrittenAt(c, x) ==
    ObjectAt(x).args # None /\ MeaningAt(x) = c /\ (reading.permitted # {} => Callable(x))

\* c was written by nobody: a tag at x without an object of its own took that of
\* part j, which comes after it.
BorrowedAt(c, x, j) ==
    /\ text[x[1]].kind = "tag" /\ ObjectAt(x).args = None /\ x[1] < j /\ HasObject(text[j])
    /\ Canonical(ObjectAt(x).name) \in reading.permitted
    /\ c = Spelled([Lent(text[j]) EXCEPT !.tool = Canonical(ObjectAt(x).name)])

First(c, x) == InFence(x) /\ MeaningAt(x) = c
                 /\ ~ \E y \in Places : InFence(y) /\ MeaningAt(y) = c /\ Before(y, x)

\* However a model mixes the ways to call a tool, in its thinking too, and
\* whatever prose surrounds them: what is executed was written or, for a tag that
\* lacks its arguments, borrowed from what comes after it (parseTaggedToolCalls),
\* and, if the run is allowed any tool, allowed; no call comes twice for having
\* two spellings; of the fenced blocks none is lost but beyond the cap, and they
\* keep their order; and a reply with a fenced block is never taken for a final
\* answer.
CallsAsWritten == reading.pc = "read" /\ reading.from = "text" =>
    LET cs == reading.calls IN
    /\ Len(cs) <= ReplyCap /\ Cardinality(SetOf(cs)) = Len(cs)
    /\ \A c \in SetOf(cs) : \E x \in Places :
          WrittenAt(c, x) \/ \E j \in DOMAIN text : BorrowedAt(c, x, j)
    /\ \A x \in Places : InFence(x) =>
          \/ MeaningAt(x) \in SetOf(cs)
          \/ Cardinality({y \in Places : InFence(y) /\ Before(y, x)}) >= JsonCap
    /\ \A i, j \in DOMAIN cs : \A x, y \in Places :
          First(cs[i], x) /\ First(cs[j], y) /\ Before(x, y) => i < j
    /\ cs = <<>> /\ Fences(text) # <<>> => reading.failure
    /\ reading.failure => cs = <<>>
=============================================================================
