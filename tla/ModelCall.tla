----------------------------- MODULE ModelCall -----------------------------
(***************************************************************************)
(* One call of a model (ProviderModel.Generate, runtime/model.go): the     *)
(* request, its retries, and the answer, at once or as a stream of events  *)
(* of which the text goes to the listener of the run as it arrives.  The   *)
(* text of an answer is a sequence of pieces, each named by the attempt it *)
(* came in: every attempt asks the model anew.  Tools are called by pieces *)
(* as well, which providers tell apart by an index or by the id of a call, *)
(* or as items, or all of them in the event that gives the whole answer.   *)
(***************************************************************************)
EXTENDS Fleet

CONSTANTS
  ToolCalls,     (* ids of the calls a model may make in one answer         *)
  MaxAttempts,   (* providerMaxAttempts                                     *)
  MaxPieces      (* bound: pieces in an answer                              *)

ASSUME CallAssumption == MaxAttempts \in Nat \ {0} /\ MaxPieces \in Nat \ {0}

VARIABLES
  call,          (* how far the call is, and what came of it                *)
  answer,        (* the text received in this attempt                       *)
  heard,         (* all the text the listener was given                     *)
  sent,          (* the pieces of tool calls received in this attempt       *)
  slots          (* the tool calls put together from them                   *)

callVars == <<call, answer, heard, sent, slots>>

NoSlots == [id |-> <<>>, pieces |-> <<>>]

CallInit ==
    /\ call = [pc |-> "idle", stream |-> FALSE, style |-> "index", attempt |-> 0, result |-> None,
                whole |-> 0, late |-> FALSE]
    /\ answer = <<>> /\ heard = <<>> /\ sent = <<>> /\ slots = NoSlots

-----------------------------------------------------------------------------
(* The tool calls of a stream (consumeProviderSSE).  Slots are numbered     *)
(* from 1 here; slots.id and slots.pieces are indexed by the slot.          *)

\* The slot of a piece: the index it has, or the slot its id was seen at, or
\* the next one.
SlotOf(index, id) ==
    IF index > 0 THEN index
    ELSE IF \E k \in DOMAIN slots.id : slots.id[k] = id
         THEN CHOOSE k \in DOMAIN slots.id : slots.id[k] = id
         ELSE Len(slots.id) + 1

\* Mutant of AddPiece: a piece without an index always starts a call.
AddAsNew(index, id, piece) ==
    slots' = [id |-> Append(slots.id, id), pieces |-> Append(slots.pieces, <<piece>>)]

AddPiece(index, id, piece) ==
    LET k == SlotOf(index, id) IN
    slots' = IF k \in DOMAIN slots.id
             THEN [slots EXCEPT !.pieces[k] = Append(slots.pieces[k], piece)]
             ELSE [id |-> Append(slots.id, id), pieces |-> Append(slots.pieces, <<piece>>)]

\* The calls sent so far, in the order they began.
WithCall(ids, t) == IF t \in SetOf(ids) THEN ids ELSE Append(ids, t)
BegunIn(ps) == LET upTo[i \in 0..Len(ps)] == IF i = 0 THEN <<>> ELSE WithCall(upTo[i - 1], ps[i].id)
               IN upTo[Len(ps)]
Begun == BegunIn(sent)
PiecesOf(t) == LET is == {i \in DOMAIN sent : sent[i].id = t} IN Cardinality(is)

\* The position of a call, 0 if it has not begun.
Position(t) == IF t \in SetOf(Begun) THEN CHOOSE k \in DOMAIN Begun : Begun[k] = t ELSE 0

-----------------------------------------------------------------------------
(* The attempts.                                                           *)

\* What an answer is read as: text, tool calls, or what reads like a tool call
\* and is none (parseNativeProviderToolCalls, parseToolCallsFromResponse).
Readings == {"text", "tools", "parse_failure"}

\* The ways providers give the calls of an answer in a stream.
Styles == {"index", "id", "items", "response"}

StartCall(stream, style) ==
    /\ call.pc = "idle"
    /\ call' = [pc |-> "request", stream |-> stream, style |-> style, attempt |-> 1, result |-> None,
                whole |-> 0, late |-> FALSE]
    /\ UNCHANGED <<answer, heard, sent, slots>> /\ NoFault

\* Mutant of Failed: what the listener has heard does not matter.
FailedAnyhow(retryable) ==
    call' = IF ~retryable \/ call.attempt = MaxAttempts
            THEN [call EXCEPT !.pc = "done", !.result = "error"]
            ELSE [call EXCEPT !.pc = "backoff"]

\* Mutant of Failed: one attempt too many.
FailedLate(retryable) ==
    call' = IF ~retryable \/ call.attempt > MaxAttempts \/ answer # <<>>
            THEN [call EXCEPT !.pc = "done", !.result = "error"]
            ELSE [call EXCEPT !.pc = "backoff"]

\* An attempt failed.  Once text was given to the listener none follows.
Failed(retryable) ==
    call' = IF ~retryable \/ call.attempt = MaxAttempts \/ answer # <<>>
            THEN [call EXCEPT !.pc = "done", !.result = "error"]
            ELSE [call EXCEPT !.pc = "backoff"]

\* No connection, a timeout, a status, an answer that cannot be decoded.
RequestFailed ==
    /\ call.pc = "request"
    /\ \E retryable \in BOOLEAN : Failed(retryable)
    /\ UNCHANGED <<answer, heard, sent, slots>> /\ NoFault

\* The answer of a call without a listener.
AnswerAtOnce ==
    /\ call.pc = "request" /\ ~call.stream
    /\ \E r \in Readings \cup {"error"} :
         call' = [call EXCEPT !.pc = "done", !.result = r]
    /\ UNCHANGED <<answer, heard, sent, slots>> /\ NoFault

StreamBegins ==
    /\ call.pc = "request" /\ call.stream
    /\ call' = [call EXCEPT !.pc = "stream", !.whole = 0, !.late = FALSE]
    /\ answer' = <<>> /\ sent' = <<>> /\ slots' = NoSlots
    /\ UNCHANGED heard /\ NoFault

\* Text goes to the answer and then to the listener, which has the last word: if
\* it fails, so does the call.
Hear(text) ==
    /\ answer' = answer \o text
    /\ \/ heard' = heard \o text /\ UNCHANGED call
       \/ UNCHANGED heard /\ call' = [call EXCEPT !.pc = "done", !.result = "error"]

\* Piece i of an answer: after the pieces the whole message begins again.
Piece(i) == <<call.attempt, IF i > call.whole THEN i - call.whole - 1 ELSE i - 1>>

TextDelta ==
    /\ call.pc = "stream" /\ Len(answer) < call.whole + MaxPieces
    /\ Hear(<<Piece(Len(answer) + 1)>>)
    /\ UNCHANGED <<sent, slots>> /\ NoFault

\* A provider gives every piece an index, and the id with the first only; or
\* no index and the id with every piece.
ToolDelta(t) ==
    /\ call.pc = "stream" /\ call.style \in {"index", "id"} /\ Len(sent) < MaxPieces
    /\ sent' = Append(sent, [id |-> t, n |-> PiecesOf(t)])
    /\ LET k == Position(t)
           index == IF call.style # "index" THEN 0 ELSE IF k > 0 THEN k ELSE Len(Begun) + 1
       IN AddPiece(index, t, PiecesOf(t))
    /\ UNCHANGED <<call, answer, heard>> /\ NoFault

\* Some providers end with the whole message.  Its calls replace the pieces ...
FullMessage ==
    /\ call.pc = "stream" /\ call.style \in {"index", "id"} /\ sent # <<>>
    /\ slots' = [id |-> Begun,
                 pieces |-> [k \in DOMAIN Begun |-> [i \in 1..PiecesOf(Begun[k]) |-> i - 1]]]
    /\ UNCHANGED <<call, answer, heard, sent>> /\ NoFault

\* ... but its text is one more delta, all of it again.  (An event with both is
\* the one above, then this one.)
FullText(k) ==
    /\ call.pc = "stream" /\ answer # <<>> /\ call.whole = 0 /\ k \in Len(answer)..MaxPieces
    /\ LET text == [i \in 1..k |-> <<call.attempt, i - 1>>] IN
         /\ answer' = answer \o text
         /\ \/ heard' = heard \o text /\ call' = [call EXCEPT !.whole = Len(answer)]
            \/ /\ UNCHANGED heard
               /\ call' = [call EXCEPT !.whole = Len(answer), !.pc = "done", !.result = "error"]
    /\ UNCHANGED <<sent, slots>> /\ NoFault

\* A whole call in an event of its own, of which only the first is kept, or
\* all calls in one event, read here one by one.
ToolItem(t) ==
    /\ call.pc = "stream" /\ call.style \in {"items", "response"}
    /\ t \notin SetOf(Begun) /\ Len(sent) < MaxPieces
    /\ sent' = Append(sent, [id |-> t, n |-> 0])
    /\ IF call.style = "items" /\ slots # NoSlots THEN UNCHANGED slots ELSE AddPiece(0, t, 0)
    /\ UNCHANGED <<call, answer, heard>> /\ NoFault

\* The text of such an event is the answer if no delta came.
TextItem ==
    /\ call.pc = "stream" /\ call.style \in {"items", "response"}
    /\ call' = [call EXCEPT !.late = TRUE]
    /\ UNCHANGED <<answer, heard, sent, slots>> /\ NoFault

StreamBreaks ==
    /\ call.pc = "stream"
    /\ \E retryable \in BOOLEAN : Failed(retryable)
    /\ UNCHANGED <<answer, heard, sent, slots>> /\ NoFault

\* [DONE], or the end of the connection wherever it comes.
StreamEnds ==
    /\ call.pc = "stream"
    /\ answer' = IF answer = <<>> /\ call.late THEN <<Piece(1)>> ELSE answer
    /\ \E r \in IF slots.id # <<>> THEN {"tools", "parse_failure"}
              ELSE IF answer' = <<>> THEN {"error"} ELSE Readings :
         call' = [call EXCEPT !.pc = "done", !.result = r]
    /\ UNCHANGED <<heard, sent, slots>> /\ NoFault

\* The context of the run is looked at while the call waits ...
RetryRequest ==
    /\ call.pc = "backoff"
    /\ \/ call' = [call EXCEPT !.pc = "request", !.attempt = @ + 1]
       \/ call' = [call EXCEPT !.pc = "done", !.result = "error"]
    /\ UNCHANGED <<answer, heard, sent, slots>> /\ NoFault

NextCall ==
    /\ call.pc = "done"
    /\ call' = [call EXCEPT !.pc = "idle", !.attempt = 0, !.result = None, !.stream = FALSE,
                          !.whole = 0, !.late = FALSE]
    /\ answer' = <<>> /\ heard' = <<>> /\ sent' = <<>> /\ slots' = NoSlots /\ NoFault

CallNext ==
    \/ \E stream \in BOOLEAN, style \in Styles : StartCall(stream, style)
    \/ RequestFailed \/ AnswerAtOnce \/ StreamBegins \/ TextDelta \/ FullMessage
    \/ \E k \in 1..MaxPieces : FullText(k)
    \/ TextItem \/ StreamBreaks \/ StreamEnds \/ RetryRequest \/ NextCall
    \/ \E t \in ToolCalls : ToolDelta(t) \/ ToolItem(t)

-----------------------------------------------------------------------------
CallTypeOK ==
    /\ call.attempt \in 0..MaxAttempts
    /\ call.result \in Readings \cup {None, "error"}
    /\ call.whole <= MaxPieces /\ Len(answer) <= call.whole + MaxPieces /\ Len(sent) <= MaxPieces
    /\ DOMAIN slots.pieces = DOMAIN slots.id

\* The answer is of one attempt, and begins again only with a whole message.
HeardIsAnswer ==
    call.pc \in {"stream", "done"} =>
        /\ \A i \in DOMAIN answer : answer[i] = Piece(i)
        /\ DOMAIN heard \subseteq DOMAIN answer /\ \A i \in DOMAIN heard : heard[i] = answer[i]
        /\ call.result \notin {None, "error"} => heard = answer \/ (heard = <<>> /\ call.late)

\* Of calls given as items the first is kept.
ToolCallsWhole ==
    call.pc = "done" /\ call.result # "error" =>
        /\ slots.id = IF call.style = "items" /\ Begun # <<>> THEN <<Begun[1]>> ELSE Begun
        /\ \A k \in DOMAIN slots.id :
             slots.pieces[k] = [i \in 1..PiecesOf(slots.id[k]) |-> i - 1]

\* What the listener heard is the answer, from the beginning and of one
\* attempt: however often the request is tried again, none of an answer that
\* was given up is heard (DeltaEmitted).  Two cases are the code's own: pieces
\* are heard twice when the provider gives the text of the whole message after
\* them (extractStreamingDeltaText), and none is when the text came only as an
\* item or a response at the end.  Tool calls whose pieces come mixed are put
\* together as they were sent; of calls that come as items of their own only
\* the first is kept (extractStreamingFallbackResponse).
StreamFaithful == HeardIsAnswer /\ ToolCallsWhole
=============================================================================
