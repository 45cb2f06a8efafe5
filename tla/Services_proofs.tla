--------------------------- MODULE Services_proofs ---------------------------
(***************************************************************************)
(* Theorems about what the services take and hand on: the mail of agents,  *)
(* the answer of a model and the calls it is read as, and the edits of a   *)
(* file, for every set of calls, every size and any number of failures.    *)
(* As in Histories_proofs, an invariant is shown for the steps of its own  *)
(* service.  The last part has the types of them all.                      *)
(***************************************************************************)
EXTENDS Histories_proofs

-----------------------------------------------------------------------------
(* The inbox.  While the entry that says a letter runs is the latest, the   *)
(* call that runs it will write a later one, or could not.                  *)

Marks == {"queued", "acknowledged", "running"} \cup Settled
Letter == [letter : Letters, status : Marks, run : Mailers \cup {None}, ts : Nat \ {0}]
Calls  == [pc : {"idle", "done", "executing"} \cup Marks, letter : Letters \cup {None},
           run : Mailers \cup {None}, ts : Nat, executes : BOOLEAN]

CallOK(w, clock) ==
    /\ w \in Calls /\ w.ts <= clock
    /\ w.pc \notin {"idle", "done"} => w.letter \in Letters
    /\ w.ts # 0 => w.pc \in Marks

\* A call w will settle what entry e says, and later than e said it.
Answers(w, e) ==
    /\ w.letter = e.letter /\ w.pc \in {"executing"} \cup Settled
    /\ w.ts = 0 \/ e.ts < w.ts

Answered(i) == \E j \in DOMAIN mailbox :
    /\ i < j /\ mailbox[i].ts < mailbox[j].ts
    /\ mailbox[j].letter = mailbox[i].letter /\ mailbox[j].status \in Settled

MailInv ==
    /\ mailbox \in Seq(Letter) /\ mailClock \in Nat
    /\ \A i \in DOMAIN mailbox : mailbox[i].ts <= mailClock
    /\ unsettled \subseteq Letters
    /\ DOMAIN mailer = Mailers /\ \A p \in Mailers : CallOK(mailer[p], mailClock)
    /\ \A i \in DOMAIN mailbox : mailbox[i].status = "running" =>
         \/ mailbox[i].letter \in unsettled
         \/ \E p \in Mailers : Answers(mailer[p], mailbox[i])
         \/ Answered(i)

\* What the dashboard has put together of a letter's entries up to the k-th: the
\* status of the latest, and a run if one of them has one.
Shows(m, k, x) ==
    LET es == {i \in Entries(m) : i <= k} IN
    /\ x.run \in Mailers \cup {None} /\ x.ts \in Nat
    /\ \A i \in es : mailbox[i].ts <= x.ts /\ (mailbox[i].run # None => x.run # None)
    /\ \/ es = {} /\ x = NoMessage
       \/ \E i \in es : x.status = mailbox[i].status /\ x.ts = mailbox[i].ts

Seen == [letter : Letters \cup {None}, status : Marks \cup {None}, run : Mailers \cup {None}, ts : Nat]

LEMMA MergeShows ==
    ASSUME mailbox \in Seq(Letter), NEW m, NEW k \in 1..Len(mailbox), NEW x \in Seen, Shows(m, k - 1, x),
           NEW y, y = IF k \in Entries(m) THEN MergeStatus(x, mailbox[k]) ELSE x
    PROVE  y \in Seen /\ Shows(m, k, y)
<1> DEFINE e == mailbox[k]
<1>1. Len(mailbox) \in Nat /\ DOMAIN mailbox = 1..Len(mailbox) /\ e \in Letter /\ k \in Nat
  OBVIOUS
<1>2. Entries(m) \subseteq 1..Len(mailbox)
  BY <1>1 DEF Entries
<1>3. \A i \in Entries(m) : i <= k <=> i <= k - 1 \/ i = k
  BY <1>1, <1>2
<1>4. CASE k \notin Entries(m)
  <2>1. {i \in Entries(m) : i <= k} = {i \in Entries(m) : i <= k - 1}
    BY <1>3, <1>4
  <2>2. QED
    BY <1>4, <2>1 DEF Shows
<1>5. CASE k \in Entries(m)
  <2> DEFINE late == IF e.ts > x.ts THEN e ELSE x
             old  == IF e.ts > x.ts THEN x ELSE e
             run  == IF late.run # None THEN late.run ELSE old.run
  <2>1. y = [late EXCEPT !.run = run]
    BY <1>5 DEF MergeStatus
  <2>2. /\ e.letter \in Letters /\ e.status \in Marks /\ e.run \in Mailers \cup {None} /\ e.ts \in Nat \ {0}
        /\ x.ts \in Nat /\ x.run \in Mailers \cup {None}
    BY <1>1 DEF Letter, Seen
  <2>3. e \in Seen
    BY <1>1, <2>2 DEF Letter, Seen
  <2>4. late \in Seen /\ run \in Mailers \cup {None}
    BY <2>2, <2>3
  <2>5. late.ts \in Nat /\ e.ts <= late.ts /\ x.ts <= late.ts
    BY <2>2
  <2>6. (e.run # None => run # None) /\ (x.run # None => run # None)
    OBVIOUS
  <2>7. late = e \/ (late = x /\ e.ts <= x.ts)
    BY <2>2
  <2> HIDE DEF run, late, old
  <2>8. y \in Seen /\ y.run = run /\ y.ts = late.ts /\ y.status = late.status
    BY <2>1, <2>4 DEF Seen
  <2>9. ASSUME NEW i \in Entries(m), i <= k
        PROVE  mailbox[i].ts <= y.ts /\ (mailbox[i].run # None => y.run # None)
    <3>1. CASE i = k
      BY <2>5, <2>6, <2>8, <3>1
    <3>2. CASE i <= k - 1
      <4>1. mailbox[i].ts <= x.ts /\ (mailbox[i].run # None => x.run # None) /\ mailbox[i].ts \in Nat
        <5>1. i \in 1..Len(mailbox) /\ mailbox[i] \in Letter
          BY <1>1, <1>2
        <5>2. mailbox[i].ts \in Nat
          BY <5>1 DEF Letter
        <5>3. QED
          BY <3>2, <5>2 DEF Shows
      <4>2. QED
        BY <2>2, <2>5, <2>6, <2>8, <4>1
    <3>3. QED
      BY <1>3, <2>9, <3>1, <3>2
  <2>10. \E i \in Entries(m) : i <= k /\ y.status = mailbox[i].status /\ y.ts = mailbox[i].ts
    <3>1. CASE late = e
      BY <1>1, <1>5, <2>8, <3>1
    <3>2. CASE late = x /\ e.ts <= x.ts
      <4>1. x # NoMessage
        BY <2>2, <3>2 DEF NoMessage
      <4>2. PICK i \in Entries(m) : i <= k - 1 /\ x.status = mailbox[i].status /\ x.ts = mailbox[i].ts
        BY <4>1 DEF Shows
      <4>3. QED
        BY <1>3, <2>8, <3>2, <4>2
    <3>3. QED
      BY <2>7, <3>1, <3>2
  <2>11. QED
    BY <2>4, <2>5, <2>8, <2>9, <2>10 DEF Shows
<1>6. QED
  BY <1>4, <1>5

LEMMA InboxShows ==
    ASSUME mailbox \in Seq(Letter), NEW m
    PROVE  InboxMessage(m) \in Seen /\ Shows(m, Len(mailbox), InboxMessage(m))
<1> DEFINE n == Len(mailbox)
           next(i, x) == IF i \in Entries(m) THEN MergeStatus(x, mailbox[i]) ELSE x
           SeenBy(f) == f = [i \in 0..n |-> IF i = 0 THEN NoMessage ELSE next(i, f[i - 1])]
           g == [ix \in Nat \X Seen |-> IF next(ix[1], ix[2]) \in Seen THEN next(ix[1], ix[2]) ELSE NoMessage]
<1>1. n \in Nat /\ NoMessage \in Seen
  BY DEF NoMessage, Seen
<1>2. g \in [Nat \X Seen -> Seen]
  BY <1>1
<1>3. \A i \in Nat, x \in Seen : next(i, x) \in Seen => g[<<i, x>>] = next(i, x)
  OBVIOUS
<1>4. Entries(m) \subseteq 1..n /\ \A i \in Entries(m) : mailbox[i] \in Seen
  <2>1. Entries(m) \subseteq DOMAIN mailbox /\ DOMAIN mailbox = 1..n
    BY DEF Entries
  <2>2. \A i \in 1..n : mailbox[i] \in Letter
    BY <2>1
  <2>3. QED
    BY <2>1, <2>2 DEF Letter, Seen
<1>5. ASSUME NEW i \in Nat, NEW x \in Seen PROVE next(i, x) \in Seen
  <2>1. CASE i \in Entries(m)
    <3> DEFINE e == mailbox[i]
    <3>1. e \in Seen
      BY <1>4, <2>1
    <3>2. e.run \in Mailers \cup {None} /\ x.run \in Mailers \cup {None}
      BY <3>1 DEF Seen
    <3> HIDE DEF e
    <3>3. MergeStatus(x, e) \in Seen
      BY <3>1, <3>2 DEF MergeStatus, Seen
    <3>4. QED
      BY <2>1, <3>3 DEF e
  <2>2. CASE i \notin Entries(m)
    BY <2>2
  <2>3. QED
    BY <2>1, <2>2
<1> HIDE DEF g
<1>6. PICK f0 : Solves(f0, n, Seen, NoMessage, g)
  BY <1>1, <1>2, Recursion
<1>7. ASSUME NEW i \in 1..n PROVE f0[i] = next(i, f0[i - 1])
  <2>1. i \in Nat /\ i - 1 \in 0..n
    BY <1>1
  <2>2. f0[i - 1] \in Seen
    BY <1>6, <2>1 DEF Solves
  <2>3. g[<<i, f0[i - 1]>>] = next(i, f0[i - 1])
    BY <1>3, <1>5, <2>1, <2>2
  <2>4. QED
    BY <1>6, <2>3 DEF Solves
<1> HIDE DEF next
<1>8. SeenBy(f0)
  <2>1. \A i \in 0..n : f0[i] = IF i = 0 THEN NoMessage ELSE next(i, f0[i - 1])
    BY <1>1, <1>6, <1>7 DEF Solves
  <2>2. f0 = [i \in 0..n |-> f0[i]]
    BY <1>6 DEF Solves
  <2>3. QED
    BY <2>1, <2>2
<1>9. InboxMessage(m) = (CHOOSE f : SeenBy(f))[n]
  BY DEF InboxMessage, next
<1> HIDE DEF SeenBy
<1>10. PICK f : SeenBy(f) /\ InboxMessage(m) = f[n]
  BY <1>8, <1>9
<1>11. f[0] = NoMessage /\ \A i \in 1..n : f[i] = next(i, f[i - 1])
  BY <1>1, <1>10 DEF SeenBy
<1> DEFINE S == {k \in Nat : k <= n => f[k] \in Seen /\ Shows(m, k, f[k])}
<1>12. 0 \in S
  BY <1>1, <1>4, <1>11 DEF Shows, NoMessage
<1>13. ASSUME NEW k \in S, k < n PROVE k + 1 \in S
  <2>1. k + 1 \in 1..n /\ f[(k + 1) - 1] \in Seen /\ Shows(m, (k + 1) - 1, f[(k + 1) - 1])
    BY <1>1, <1>13
  <2>2. f[k + 1] = IF k + 1 \in Entries(m) THEN MergeStatus(f[(k + 1) - 1], mailbox[k + 1])
                                           ELSE f[(k + 1) - 1]
    BY <1>11, <2>1 DEF next
  <2>3. f[k + 1] \in Seen /\ Shows(m, k + 1, f[k + 1])
    BY <2>1, <2>2, MergeShows
  <2>4. QED
    BY <2>1, <2>3
<1>14. n \in S
  <2>1. S \in SUBSET Nat
    OBVIOUS
  <2> HIDE DEF S
  <2>2. 0..n \subseteq S
    BY <1>1, <1>12, <1>13, <2>1, UpTo
  <2>3. QED
    BY <1>1, <2>2
<1>15. QED
  BY <1>10, <1>14

\* A call moves on and writes nothing; what it owed it still owes, or the letter
\* is known to be unsettled.
LEMMA CallMoves ==
    ASSUME MailInv, NEW p \in Mailers, NEW w, mailer' = [mailer EXCEPT ![p] = w], UNCHANGED mailbox,
           mailClock' \in Nat, mailClock <= mailClock',
           unsettled \subseteq unsettled', unsettled' \subseteq Letters, CallOK(w, mailClock'),
           \A i \in DOMAIN mailbox :
               Answers(mailer[p], mailbox[i]) => Answers(w, mailbox[i]) \/ mailbox[i].letter \in unsettled'
    PROVE  MailInv'
<1>1. mailer'[p] = w /\ DOMAIN mailer' = Mailers /\ \A q \in Mailers \ {p} : mailer'[q] = mailer[q]
  BY DEF MailInv
<1>2. ASSUME NEW q \in Mailers PROVE CallOK(mailer'[q], mailClock')
  <2>1. CASE q = p
    BY <1>1, <2>1
  <2>2. CASE q # p
    <3>1. mailer'[q] = mailer[q] /\ CallOK(mailer[q], mailClock) /\ mailClock \in Nat
      BY <1>1, <2>2 DEF MailInv
    <3>2. mailer[q].ts \in Nat
      BY <3>1 DEF CallOK, Calls
    <3>3. QED
      BY <3>1, <3>2 DEF CallOK
  <2>3. QED
    BY <2>1, <2>2
<1>3. ASSUME NEW i \in DOMAIN mailbox, mailbox[i].status = "running", mailbox[i].letter \notin unsettled'
      PROVE  (\E q \in Mailers : Answers(mailer'[q], mailbox[i])) \/ Answered(i)
  <2>1. (\E q \in Mailers : Answers(mailer[q], mailbox[i])) \/ Answered(i)
    BY <1>3 DEF MailInv
  <2>2. ASSUME NEW q \in Mailers, Answers(mailer[q], mailbox[i]) PROVE Answers(mailer'[q], mailbox[i])
    BY <1>1, <1>3, <2>2
  <2>3. QED
    BY <2>1, <2>2
<1>4. \A i \in DOMAIN mailbox : mailbox[i].ts \in Nat /\ mailbox[i].ts <= mailClock'
  <2>1. \A i \in DOMAIN mailbox : mailbox[i] \in Letter /\ mailbox[i].ts <= mailClock /\ mailClock \in Nat
    BY DEF MailInv
  <2>2. QED
    BY <2>1 DEF Letter
<1>5. \A i : Answered(i)' = Answered(i)
  BY DEF Answered
<1>6. QED
  BY <1>1, <1>2, <1>3, <1>4, <1>5 DEF MailInv

\* The fields of a call.
LEMMA CallFields ==
    ASSUME MailInv, NEW p \in Mailers
    PROVE  /\ CallOK(mailer[p], mailClock) /\ mailer[p] \in Calls /\ mailClock \in Nat /\ unsettled \subseteq Letters
           /\ mailer[p].letter \in Letters \cup {None} /\ mailer[p].run \in Mailers \cup {None}
           /\ mailer[p].ts \in Nat /\ mailer[p].executes \in BOOLEAN
  BY DEF MailInv, CallOK, Calls

\* An idle call owes nothing.
LEMMA TakeKeeps ==
    ASSUME MailInv, NEW p \in Mailers, NEW w, Take(p, w), UNCHANGED <<mailbox, unsettled>>,
           mailClock' \in Nat, mailClock <= mailClock', CallOK(w, mailClock')
    PROVE  MailInv'
<1>1. \A i \in DOMAIN mailbox : ~Answers(mailer[p], mailbox[i])
  BY DEF Take, Answers, Settled
<1>2. mailer' = [mailer EXCEPT ![p] = w] /\ unsettled \subseteq Letters
  BY DEF Take, MailInv
<1>3. QED
  BY <1>1, <1>2, CallMoves

LEMMA SendKeeps ==
    ASSUME MailInv, NEW p \in Mailers, NEW m \in Letters, SendMessage(p, m)
    PROVE  MailInv'
<1>1. PICK auto \in BOOLEAN :
        Take(p, [pc |-> "queued", letter |-> m, run |-> None, ts |-> mailClock', executes |-> auto])
  BY DEF SendMessage
<1> DEFINE w == [pc |-> "queued", letter |-> m, run |-> None, ts |-> mailClock', executes |-> auto]
<1>2. mailClock' \in Nat /\ mailClock <= mailClock' /\ UNCHANGED <<mailbox, unsettled>>
  BY DEF SendMessage, MailInv
<1>3. w \in Calls
  BY <1>2 DEF Calls, Marks
<1>4. w.pc = "queued" /\ w.letter \in Letters /\ w.ts = mailClock'
  OBVIOUS
<1>5. Take(p, w)
  BY <1>1
<1> HIDE DEF w
<1>6. CallOK(w, mailClock')
  BY <1>2, <1>3, <1>4 DEF CallOK, Marks
<1>7. QED
  BY <1>2, <1>5, <1>6, TakeKeeps

LEMMA BeginCallKeeps ==
    ASSUME MailInv, NEW p \in Mailers, NEW m \in Letters, NEW pc \in {"acknowledged", "running"},
           NEW run \in Mailers \cup {None}, BeginCall(p, pc, m, run)
    PROVE  MailInv'
<1> DEFINE w == [NoMail EXCEPT !.pc = pc, !.letter = m, !.run = run, !.executes = (pc = "running")]
<1>1. Take(p, w) /\ UNCHANGED <<mailbox, mailClock, unsettled>> /\ mailClock \in Nat
  BY DEF BeginCall, MailInv
<1>2. w \in Calls /\ w.pc = pc /\ w.letter = m /\ w.ts = 0
  BY DEF Calls, Marks, NoMail
<1> HIDE DEF w
<1>3. CallOK(w, mailClock')
  BY <1>1, <1>2 DEF CallOK
<1>4. QED
  BY <1>1, <1>3, TakeKeeps

LEMMA StampKeeps == ASSUME MailInv, NEW p \in Mailers, Stamp(p) PROVE MailInv'
<1> DEFINE w == [mailer[p] EXCEPT !.ts = mailClock']
<1>1. /\ CallOK(mailer[p], mailClock) /\ mailer[p] \in Calls /\ mailClock \in Nat
      /\ mailer[p].pc \in {"acknowledged", "running"} \cup Settled /\ mailer[p].ts = 0
      /\ mailClock' = mailClock + 1 /\ UNCHANGED <<mailbox, unsettled>>
      /\ mailer' = [mailer EXCEPT ![p] = w]
  BY CallFields DEF Stamp
<1>2. w \in Calls /\ w.pc = mailer[p].pc /\ w.letter = mailer[p].letter /\ w.ts = mailClock + 1
  BY <1>1 DEF Calls
<1> HIDE DEF w
<1>3. CallOK(w, mailClock')
  BY <1>1, <1>2 DEF CallOK, Marks
<1>4. \A i \in DOMAIN mailbox : Answers(mailer[p], mailbox[i]) => Answers(w, mailbox[i])
  <2>1. \A i \in DOMAIN mailbox : mailbox[i] \in Letter /\ mailbox[i].ts <= mailClock
    BY DEF MailInv
  <2>2. QED
    BY <1>1, <1>2, <2>1 DEF Answers, Letter
<1>5. mailClock' \in Nat /\ mailClock <= mailClock' /\ unsettled' \subseteq Letters
  BY <1>1 DEF MailInv
<1>6. QED
  BY <1>1, <1>3, <1>4, <1>5, CallMoves

LEMMA ExecuteKeeps == ASSUME MailInv, NEW p \in Mailers, ExecuteMessage(p) PROVE MailInv'
<1>1. PICK pc \in Settled, r \in Mailers \cup {None} :
        mailer' = [mailer EXCEPT ![p] = [mailer[p] EXCEPT !.pc = pc, !.run = r]]
  <2>1. CASE mailer' = [mailer EXCEPT ![p].pc = "completed", ![p].run = p]
    <3>1. mailer' = [mailer EXCEPT ![p] = [mailer[p] EXCEPT !.pc = "completed", !.run = p]]
      BY <2>1 DEF MailInv
    <3>2. QED
      BY <3>1 DEF Settled
  <2>2. CASE \E r \in {p, None} : mailer' = [mailer EXCEPT ![p].pc = "failed", ![p].run = r]
    <3>1. PICK r \in {p, None} : mailer' = [mailer EXCEPT ![p] = [mailer[p] EXCEPT !.pc = "failed", !.run = r]]
      BY <2>2 DEF MailInv
    <3>2. QED
      BY <3>1 DEF Settled
  <2>3. QED
    BY <2>1, <2>2 DEF ExecuteMessage
<1> DEFINE w == [mailer[p] EXCEPT !.pc = pc, !.run = r]
<1>2. /\ CallOK(mailer[p], mailClock) /\ mailer[p] \in Calls /\ mailClock \in Nat /\ mailer[p].pc = "executing"
      /\ UNCHANGED <<mailbox, mailClock, unsettled>> /\ mailer' = [mailer EXCEPT ![p] = w]
  BY <1>1, CallFields DEF ExecuteMessage
<1>3. mailer[p].ts = 0 /\ mailer[p].letter \in Letters
  BY <1>2 DEF CallOK, Marks, Settled
<1>4. w \in Calls /\ w.pc = pc /\ w.letter = mailer[p].letter /\ w.ts = 0
  BY <1>2, <1>3 DEF Calls, Marks
<1> HIDE DEF w
<1>5. CallOK(w, mailClock')
  BY <1>2, <1>3, <1>4 DEF CallOK
<1>6. \A i \in DOMAIN mailbox : Answers(mailer[p], mailbox[i]) => Answers(w, mailbox[i])
  BY <1>2, <1>3, <1>4 DEF Answers
<1>7. mailClock' \in Nat /\ mailClock <= mailClock' /\ unsettled' \subseteq Letters
  BY <1>2 DEF MailInv
<1>8. QED
  BY <1>2, <1>5, <1>6, <1>7, CallMoves

\* What follows an entry, written or not.
LEMMA AfterOK ==
    ASSUME NEW clock \in Nat, NEW x, CallOK(x, clock), x.ts > 0, NEW w, w = After(x) \/ w = Done(x)
    PROVE  /\ CallOK(w, clock) /\ w.ts = 0
           /\ w = After(x) /\ x.pc = "running" => w.pc = "executing" /\ w.letter = x.letter
<1>1. x \in Calls /\ x.letter \in Letters /\ x.pc \in Marks /\ x.ts \in Nat /\ x.executes \in BOOLEAN
  BY DEF CallOK, Marks, Settled, Calls
<1>2. CASE w = Done(x)
  <2>1. w = [pc |-> "done", letter |-> None, run |-> None, ts |-> 0, executes |-> x.executes]
    BY <1>2 DEF Done, NoMail
  <2>2. w \in Calls /\ w.pc = "done" /\ w.ts = 0
    BY <1>1, <2>1 DEF Calls
  <2>3. w = After(x) /\ x.pc = "running" => FALSE
    <3>1. SUFFICES ASSUME w = After(x), x.pc = "running" PROVE FALSE
      OBVIOUS
    <3>2. w = [x EXCEPT !.pc = "executing", !.ts = 0]
      BY <3>1 DEF After
    <3>3. w.pc = "executing"
      BY <1>1, <3>2 DEF Calls
    <3>4. QED
      BY <2>2, <3>3
  <2>4. QED
    BY <2>2, <2>3 DEF CallOK
<1>3. CASE w = After(x)
  <2>1. CASE w = Done(x) /\ x.pc # "running"
    <3>1. w = [pc |-> "done", letter |-> None, run |-> None, ts |-> 0, executes |-> x.executes]
      BY <2>1 DEF Done, NoMail
    <3>2. w \in Calls /\ w.pc = "done" /\ w.ts = 0
      BY <1>1, <3>1 DEF Calls
    <3>3. QED
      BY <2>1, <3>2 DEF CallOK
  <2>2. CASE \E pc \in {"acknowledged", "running", "executing"} :
               w = [x EXCEPT !.pc = pc, !.ts = 0] /\ (x.pc = "running" => pc = "executing")
    <3>1. PICK pc \in {"acknowledged", "running", "executing"} :
            w = [x EXCEPT !.pc = pc, !.ts = 0] /\ (x.pc = "running" => pc = "executing")
      BY <2>2
    <3>2. w \in Calls /\ w.pc = pc /\ w.ts = 0 /\ w.letter = x.letter
      BY <1>1, <3>1 DEF Calls, Marks
    <3>3. QED
      BY <1>1, <3>1, <3>2 DEF CallOK
  <2>3. QED
    BY <1>1, <1>3, <2>1, <2>2 DEF After
<1>4. QED
  BY <1>2, <1>3

LEMMA AppendFailsKeeps == ASSUME MailInv, NEW p \in Mailers, AppendFails(p) PROVE MailInv'
<1> DEFINE w == IF mailer[p].pc = "queued" THEN Done(mailer[p]) ELSE After(mailer[p])
<1>1. /\ CallOK(mailer[p], mailClock) /\ mailer[p] \in Calls /\ mailer[p].ts > 0 /\ mailClock \in Nat
      /\ unsettled \subseteq Letters /\ UNCHANGED <<mailbox, mailClock>>
      /\ mailer' = [mailer EXCEPT ![p] = w]
      /\ unsettled' = IF mailer[p].pc \in Settled THEN unsettled \cup {mailer[p].letter} ELSE unsettled
  BY CallFields DEF AppendFails
<1>2. w = After(mailer[p]) \/ w = Done(mailer[p])
  OBVIOUS
<1> HIDE DEF w
<1>3. CallOK(w, mailClock)
  BY <1>1, <1>2, AfterOK
<1>4. CallOK(w, mailClock')
  BY <1>1, <1>3 DEF CallOK
<1>5. mailer[p].ts # 0 /\ mailer[p].letter \in Letters
  BY <1>1 DEF CallOK, Marks, Settled, Calls
<1>6. unsettled \subseteq unsettled' /\ unsettled' \subseteq Letters
  BY <1>1, <1>5
<1>7. \A i \in DOMAIN mailbox : Answers(mailer[p], mailbox[i]) => mailbox[i].letter \in unsettled'
  BY <1>1, <1>5 DEF Answers, CallOK, Marks
<1>8. mailClock' \in Nat /\ mailClock <= mailClock'
  BY <1>1
<1>9. QED
  BY <1>1, <1>4, <1>6, <1>7, <1>8, CallMoves

\* An entry is written: what it settles it settles later than it was said, and an
\* entry that says a letter runs is owed an answer by the call that wrote it.
LEMMA AppendKeeps == ASSUME MailInv, NEW p \in Mailers, AppendStatus(p) PROVE MailInv'
<1> DEFINE x == mailer[p]
           e == [letter |-> x.letter, status |-> x.pc, run |-> x.run, ts |-> x.ts]
           w == After(x)
           l == Len(mailbox) + 1
<1>1. /\ CallOK(x, mailClock) /\ x \in Calls /\ x.ts \in Nat /\ x.ts > 0 /\ x.run \in Mailers \cup {None}
      /\ mailClock \in Nat /\ UNCHANGED <<mailClock, unsettled>>
      /\ mailbox' = Append(mailbox, e) /\ mailer' = [mailer EXCEPT ![p] = w]
  BY CallFields DEF AppendStatus
<1>2. x.letter \in Letters /\ x.pc \in Marks /\ x.ts <= mailClock
  BY <1>1 DEF CallOK, Marks, Settled
<1>3. e \in Letter /\ e.letter = x.letter /\ e.status = x.pc /\ e.ts = x.ts
  BY <1>1, <1>2 DEF Letter
<1>4. CallOK(w, mailClock) /\ w.ts = 0 /\ (x.pc = "running" => w.pc = "executing" /\ w.letter = x.letter)
  BY <1>1, AfterOK
<1>5. CallOK(w, mailClock')
  BY <1>1, <1>4 DEF CallOK
<1> HIDE DEF e, w
<1>6. /\ mailbox' \in Seq(Letter) /\ l \in Nat
      /\ DOMAIN mailbox = 1..(l - 1) /\ DOMAIN mailbox' = 1..l
      /\ mailbox'[l] = e /\ \A i \in 1..(l - 1) : mailbox'[i] = mailbox[i]
  BY <1>1, <1>3, AppendProperties DEF MailInv
<1> HIDE DEF l
<1>7. mailer'[p] = w /\ DOMAIN mailer' = Mailers /\ \A q \in Mailers \ {p} : mailer'[q] = mailer[q]
  BY <1>1 DEF MailInv
<1>8. ASSUME NEW i \in 1..l PROVE mailbox'[i].ts <= mailClock'
  <2>1. CASE i = l
    BY <1>1, <1>2, <1>3, <1>6, <2>1
  <2>2. CASE i # l
    <3>1. i \in DOMAIN mailbox
      BY <1>6, <2>2
    <3>2. QED
      BY <1>1, <1>6, <3>1 DEF MailInv
  <2>3. QED
    BY <2>1, <2>2
<1>9. ASSUME NEW q \in Mailers PROVE CallOK(mailer'[q], mailClock')
  <2>1. CASE q = p
    BY <1>5, <1>7, <2>1
  <2>2. CASE q # p
    BY <1>1, <1>7, <2>2 DEF MailInv, CallOK
  <2>3. QED
    BY <2>1, <2>2
<1>10. ASSUME NEW i \in 1..l, mailbox'[i].status = "running", mailbox'[i].letter \notin unsettled'
       PROVE  (\E q \in Mailers : Answers(mailer'[q], mailbox'[i])) \/ Answered(i)'
  <2>1. CASE i = l
    <3>1. Answers(mailer'[p], mailbox'[i])
      BY <1>3, <1>4, <1>6, <1>7, <1>10, <2>1 DEF Answers
    <3>2. QED
      BY <3>1
  <2>2. CASE i # l
    <3>1. i \in DOMAIN mailbox /\ mailbox'[i] = mailbox[i] /\ i < l
      BY <1>6, <2>2
    <3>2. (\E q \in Mailers : Answers(mailer[q], mailbox[i])) \/ Answered(i)
      BY <1>1, <1>10, <3>1 DEF MailInv
    <3>3. CASE Answered(i)
      <4>1. PICK j \in DOMAIN mailbox :
              /\ i < j /\ mailbox[i].ts < mailbox[j].ts
              /\ mailbox[j].letter = mailbox[i].letter /\ mailbox[j].status \in Settled
        BY <3>3 DEF Answered
      <4>2. j \in DOMAIN mailbox' /\ mailbox'[j] = mailbox[j]
        BY <1>6
      <4>3. QED
        BY <3>1, <4>1, <4>2 DEF Answered
    <3>4. CASE \E q \in Mailers \ {p} : Answers(mailer[q], mailbox[i])
      <4>1. PICK q \in Mailers \ {p} : Answers(mailer[q], mailbox[i])
        BY <3>4
      <4>2. Answers(mailer'[q], mailbox'[i])
        BY <1>7, <3>1, <4>1 DEF Answers
      <4>3. QED
        BY <4>2
    <3>5. CASE Answers(x, mailbox[i])
      <4>1. x.letter = mailbox[i].letter /\ x.pc \in Settled /\ mailbox[i].ts < x.ts
        BY <1>1, <1>2, <3>5 DEF Answers, Marks, Settled
      <4>2. l \in DOMAIN mailbox'
        BY <1>6
      <4>3. QED
        BY <1>3, <1>6, <3>1, <4>1, <4>2 DEF Answered
    <3>6. QED
      BY <3>2, <3>3, <3>4, <3>5
  <2>3. QED
    BY <2>1, <2>2
<1>11. unsettled' \subseteq Letters /\ mailClock' \in Nat
  BY <1>1 DEF MailInv
<1>12. QED
  BY <1>6, <1>7, <1>8, <1>9, <1>10, <1>11 DEF MailInv

LEMMA MailCrashKeeps == ASSUME MailInv, MailCrash PROVE MailInv'
<1>1. /\ UNCHANGED <<mailbox, mailClock>> /\ mailer' = [p \in Mailers |-> Done(mailer[p])]
      /\ unsettled' = unsettled \cup {m \in Letters : Executing(m) # {}}
  BY DEF MailCrash
<1>2. ASSUME NEW p \in Mailers PROVE CallOK(mailer'[p], mailClock')
  <2>1. mailer'[p] = Done(mailer[p]) /\ mailer[p].executes \in BOOLEAN /\ mailClock' \in Nat
    BY <1>1, CallFields
  <2>2. Done(mailer[p]) \in Calls /\ Done(mailer[p]).pc = "done" /\ Done(mailer[p]).ts = 0
    BY <2>1 DEF Done, NoMail, Calls
  <2>3. QED
    BY <2>1, <2>2 DEF CallOK
<1>3. ASSUME NEW i \in DOMAIN mailbox, mailbox[i].status = "running", mailbox[i].letter \notin unsettled'
      PROVE  Answered(i)
  <2>1. mailbox[i].letter \in Letters
    <3>1. mailbox[i] \in Letter
      BY DEF MailInv
    <3>2. QED
      BY <3>1 DEF Letter
  <2>2. \A p \in Mailers : ~Answers(mailer[p], mailbox[i])
    BY <1>1, <1>3, <2>1 DEF Answers, Executing
  <2>3. QED
    BY <1>1, <1>3, <2>2 DEF MailInv
<1>4. \A i : Answered(i)' = Answered(i)
  BY <1>1 DEF Answered
<1>5. QED
  BY <1>1, <1>2, <1>3, <1>4 DEF MailInv

LEMMA MailStep == ASSUME MailInv, MailNext PROVE MailInv'
<1>1. CASE MailCrash
  BY <1>1, MailCrashKeeps
<1>2. ASSUME NEW p \in Mailers, Stamp(p) \/ AppendStatus(p) \/ AppendFails(p) \/ ExecuteMessage(p)
      PROVE  MailInv'
  BY <1>2, StampKeeps, AppendKeeps, AppendFailsKeeps, ExecuteKeeps
<1>3. ASSUME NEW p \in Mailers, NEW m \in Letters,
             SendMessage(p, m) \/ Acknowledge(p, m) \/ RunMessage(p, m)
      PROVE  MailInv'
  <2>1. InboxMessage(m).run \in Mailers \cup {None}
    BY InboxShows DEF MailInv, Seen
  <2>2. QED
    BY <1>3, <2>1, SendKeeps, BeginCallKeeps DEF Acknowledge, RunMessage
<1>4. QED
  BY <1>1, <1>2, <1>3 DEF MailNext

\* The latest entry of a letter, in time and in the file, does not say that it
\* runs unless somebody is at it or its end could not be written.
LEMMA MailTold == MailInv => StatusesTruthful
<1> SUFFICES ASSUME MailInv, NEW m \in Letters
             PROVE  /\ Delivered(m) /\ Executing(m) = {} /\ m \notin unsettled =>
                         InboxMessage(m).status # "running" /\ ToolInboxMessage(m).status # "running"
                    /\ (\E i \in Entries(m) : mailbox[i].run # None) => InboxMessage(m).run # None
  BY DEF StatusesTruthful, MailSettles, RunLinkKept
<1> DEFINE x == InboxMessage(m)
<1>1. mailbox \in Seq(Letter) /\ Shows(m, Len(mailbox), x)
  BY InboxShows DEF MailInv
<1>2. Entries(m) \subseteq 1..Len(mailbox) /\ Len(mailbox) \in Nat /\ \A i \in Entries(m) : mailbox[i].letter = m
  BY <1>1 DEF Entries
<1>3. {i \in Entries(m) : i <= Len(mailbox)} = Entries(m)
  BY <1>2
<1>4. \A i \in Entries(m) : mailbox[i].ts <= x.ts /\ (mailbox[i].run # None => x.run # None)
  BY <1>1, <1>3 DEF Shows
<1>5. ASSUME Delivered(m), Executing(m) = {}, m \notin unsettled
      PROVE  x.status # "running" /\ ToolInboxMessage(m).status # "running"
  <2>1. ASSUME NEW i \in Entries(m), mailbox[i].status = "running"
        PROVE  \E j \in Entries(m) : i < j /\ mailbox[i].ts < mailbox[j].ts
    <3>1. i \in DOMAIN mailbox /\ mailbox[i].letter = m
      BY DEF Entries
    <3>2. \A p \in Mailers : ~Answers(mailer[p], mailbox[i])
      BY <1>5, <3>1 DEF Answers, Executing
    <3>3. Answered(i)
      BY <1>5, <2>1, <3>1, <3>2 DEF MailInv
    <3>4. QED
      BY <3>1, <3>3 DEF Answered, Entries
  <2>2. PICK i \in Entries(m) : x.status = mailbox[i].status /\ x.ts = mailbox[i].ts
    BY <1>1, <1>3, <1>5 DEF Shows, Delivered
  <2>3. \A j \in Entries(m) : mailbox[j].ts \in Nat
    <3>1. \A j \in Entries(m) : mailbox[j] \in Letter
      BY <1>1, <1>2
    <3>2. QED
      BY <3>1 DEF Letter
  <2>4. x.status # "running"
    BY <1>4, <2>1, <2>2, <2>3
  <2>5. PICK k \in Entries(m) : (\A j \in Entries(m) : j <= k) /\ ToolInboxMessage(m) = mailbox[k]
    <3> DEFINE T == {n \in Nat : \E j \in Entries(m) : n = Len(mailbox) - j}
    <3>1. T \in SUBSET Nat /\ T # {}
      <4>1. Len(mailbox) - i \in Nat
        BY <1>2
      <4>2. QED
        BY <4>1
    <3>2. PICK n \in T : \A k \in T : n <= k
      <4> HIDE DEF T
      <4>1. QED
        BY <3>1, LeastNatural
    <3>3. PICK k \in Entries(m) : n = Len(mailbox) - k
      BY <3>2
    <3>4. ASSUME NEW j \in Entries(m) PROVE j <= k
      <4>1. Len(mailbox) - j \in T
        BY <1>2
      <4>2. n <= Len(mailbox) - j
        BY <3>2, <4>1
      <4>3. QED
        BY <1>2, <3>3, <4>2
    <3> HIDE DEF T
    <3>5. \E y \in Entries(m) : \A j \in Entries(m) : j <= y
      BY <3>4
    <3>6. QED
      BY <3>5 DEF ToolInboxMessage
  <2>6. ToolInboxMessage(m).status # "running"
    BY <1>2, <2>1, <2>5
  <2>7. QED
    BY <2>4, <2>6
<1>6. QED
  BY <1>4, <1>5

LEMMA MailStarts == MailInit => MailInv
  BY DEF MailInit, MailInv, NoMail, CallOK, Calls, Marks

\* The invariant holds throughout.
LEMMA MailHolds == Spec => []MailInv
<1>1. Init => MailInv
  BY MailStarts DEF Init
<1>2. MailInv /\ [Next]_vars => MailInv'
  <2> SUFFICES ASSUME MailInv, [Next]_vars PROVE MailInv'
    OBVIOUS
  <2>1. MailNext \/ UNCHANGED mailVars
    BY DEF Next, vars, Rest
  <2>2. CASE UNCHANGED mailVars
    BY <2>2 DEF mailVars, MailInv, Answered
  <2>3. QED
    BY <2>1, <2>2, MailStep
<1>3. QED
  BY <1>1, <1>2, PTL DEF Spec

\* Once nobody works on a letter, neither inbox shows it as "running", and the
\* dashboard forgets no run of it, in whatever order the calls wrote their
\* entries (tools/agent_tools.go, dashboard/instances_api.go).
THEOREM MailStaysTruthful == Spec => []StatusesTruthful
  BY MailHolds, MailTold, PTL

-----------------------------------------------------------------------------
(* The answer of a model.  Text that was heard is never of an attempt that  *)
(* is tried again; each call has one slot, in the order the calls began,    *)
(* with all its pieces so far, or the first call has one if they are items. *)

Stage == [pc : {"idle", "request", "stream", "backoff", "done"}, stream : BOOLEAN,
          style : Styles, attempt : Nat, result : Readings \cup {None, "error"},
          whole : Nat, late : BOOLEAN]
ToolPiece == [id : ToolCalls, n : Nat]

OneSlotEach ==
    /\ Begun \in Seq(ToolCalls)
    /\ \A j, k \in DOMAIN Begun : Begun[j] = Begun[k] => j = k
    /\ \A i \in DOMAIN sent : sent[i].id \in SetOf(Begun)

PiecesIn(ps, u) == Cardinality({i \in DOMAIN ps : ps[i].id = u})
Whole(m) == [i \in 1..m |-> i - 1]
WholeSlots(ids, ps) == [id |-> ids, pieces |-> [k \in DOMAIN ids |-> Whole(PiecesIn(ps, ids[k]))]]

FirstSlot(ids) == IF ids = <<>> THEN NoSlots ELSE [id |-> <<ids[1]>>, pieces |-> <<<<0>>>>]

HeardSoFar ==
    /\ answer \in Seq(Nat \X Nat) /\ heard \in Seq(Nat \X Nat)
    /\ \A i \in DOMAIN answer : answer[i] = Piece(i)
    /\ Len(heard) <= Len(answer) /\ \A i \in DOMAIN heard : heard[i] = answer[i]
    /\ call.pc \in {"idle", "request", "backoff"} => answer = <<>>
    /\ call.pc = "stream" => heard = answer
    /\ call.pc = "done" /\ call.result # "error" => heard = answer \/ (heard = <<>> /\ call.late)

SlotsInv ==
    /\ sent \in Seq(ToolPiece) /\ OneSlotEach
    /\ call.pc = "idle" => sent = <<>> /\ slots = NoSlots
    /\ call.style # "items" => slots = WholeSlots(Begun, sent)
    /\ call.style = "items" =>
         slots = FirstSlot(Begun) /\ (Begun # <<>> => PiecesIn(sent, Begun[1]) = 1)

CallInv == call \in Stage /\ HeardSoFar /\ SlotsInv

BegunBy(f, ps) == f = [i \in 0..Len(ps) |-> IF i = 0 THEN <<>> ELSE WithCall(f[i - 1], ps[i].id)]

LEMMA BegunSolves ==
    ASSUME NEW ps \in Seq(ToolPiece)
    PROVE  \E f : BegunBy(f, ps) /\ BegunIn(ps) = f[Len(ps)]
<1> DEFINE n == Len(ps)
           V == Seq(ToolCalls)
           g == [ix \in Nat \X V |-> IF ix[1] \in 1..n THEN WithCall(ix[2], ps[ix[1]].id) ELSE ix[2]]
<1>1. n \in Nat /\ <<>> \in V
  OBVIOUS
<1>2. ASSUME NEW i \in 1..n, NEW x \in V PROVE WithCall(x, ps[i].id) \in V
  <2>1. ps[i] \in ToolPiece
    OBVIOUS
  <2>2. ps[i].id \in ToolCalls
    BY <2>1 DEF ToolPiece
  <2>3. QED
    BY <2>2 DEF WithCall
<1>3. g \in [Nat \X V -> V]
  BY <1>2
<1>4. \A i \in 1..n, x \in V : g[<<i, x>>] = WithCall(x, ps[i].id)
  BY <1>1
<1> HIDE DEF g, V
<1>5. PICK f : Solves(f, n, V, <<>>, g)
  BY <1>1, <1>3, Recursion
<1>6. f \in [0..n -> V] /\ f[0] = <<>> /\ \A i \in 1..n : f[i] = WithCall(f[i - 1], ps[i].id)
  <2>1. f \in [0..n -> V] /\ f[0] = <<>> /\ \A i \in 1..n : f[i] = g[<<i, f[i - 1]>>]
    BY <1>5 DEF Solves
  <2>2. \A i \in 1..n : f[i - 1] \in V
    BY <1>1, <2>1
  <2>3. QED
    BY <1>4, <2>1, <2>2
<1>7. BegunBy(f, ps)
  <2>1. \A i \in 0..n : f[i] = IF i = 0 THEN <<>> ELSE WithCall(f[i - 1], ps[i].id)
    BY <1>1, <1>6
  <2>2. f = [i \in 0..n |-> f[i]]
    BY <1>6
  <2>3. QED
    BY <2>1, <2>2 DEF BegunBy
<1>8. BegunIn(ps) = (CHOOSE h : BegunBy(h, ps))[Len(ps)]
  BY DEF BegunIn, BegunBy
<1>9. QED
  BY <1>7, <1>8

\* One more piece begins its call, unless it has begun.
LEMMA BegunStep ==
    ASSUME NEW ps \in Seq(ToolPiece), NEW e \in ToolPiece
    PROVE  BegunIn(Append(ps, e)) = WithCall(BegunIn(ps), e.id)
<1> DEFINE n  == Len(ps)
           qs == Append(ps, e)
<1>1. n \in Nat /\ qs \in Seq(ToolPiece) /\ Len(qs) = n + 1 /\ qs[n + 1] = e /\ \A i \in 1..n : qs[i] = ps[i]
  OBVIOUS
<1> HIDE DEF qs
<1>2. PICK f : BegunBy(f, ps) /\ BegunIn(ps) = f[n]
  BY BegunSolves
<1>3. PICK h : BegunBy(h, qs) /\ BegunIn(qs) = h[n + 1]
  BY <1>1, BegunSolves
<1>4. f[0] = <<>> /\ \A i \in 1..n : f[i] = WithCall(f[i - 1], ps[i].id)
  BY <1>1, <1>2 DEF BegunBy
<1>5. h[0] = <<>> /\ \A i \in 1..(n + 1) : h[i] = WithCall(h[i - 1], qs[i].id)
  BY <1>1, <1>3 DEF BegunBy
<1> DEFINE S == {k \in Nat : k <= n => f[k] = h[k]}
<1>6. 0 \in S
  BY <1>4, <1>5
<1>7. ASSUME NEW k \in S, k < n PROVE k + 1 \in S
  <2>1. k \in Nat /\ k + 1 \in 1..n /\ (k + 1) - 1 = k /\ f[k] = h[k]
    BY <1>1, <1>7
  <2>2. f[k + 1] = WithCall(f[k], ps[k + 1].id) /\ h[k + 1] = WithCall(h[k], qs[k + 1].id)
    <3>1. k + 1 \in 1..(n + 1)
      BY <1>1, <2>1
    <3>2. QED
      BY <1>4, <1>5, <2>1, <3>1
  <2>3. QED
    BY <1>1, <2>1, <2>2
<1>8. n \in S
  <2>1. S \in SUBSET Nat
    OBVIOUS
  <2> HIDE DEF S
  <2>2. 0..n \subseteq S
    BY <1>1, <1>6, <1>7, <2>1, UpTo
  <2>3. QED
    BY <1>1, <2>2
<1>9. h[n + 1] = WithCall(h[n], qs[n + 1].id)
  BY <1>1, <1>5
<1>10. QED
  BY <1>1, <1>2, <1>3, <1>8, <1>9 DEF qs

LEMMA PiecesFinite == ASSUME NEW ps \in Seq(ToolPiece), NEW u PROVE PiecesIn(ps, u) \in Nat
<1>1. Len(ps) \in Nat /\ DOMAIN ps = 1..Len(ps)
  OBVIOUS
<1>2. IsFiniteSet(1..Len(ps))
  BY <1>1, FS_Interval
<1>3. IsFiniteSet({i \in DOMAIN ps : ps[i].id = u})
  BY <1>1, <1>2, FS_Subset
<1>4. QED
  BY <1>3, FS_CardinalityType DEF PiecesIn

LEMMA PiecesStep ==
    ASSUME NEW ps \in Seq(ToolPiece), NEW e \in ToolPiece, NEW u
    PROVE  PiecesIn(Append(ps, e), u) = IF u = e.id THEN PiecesIn(ps, u) + 1 ELSE PiecesIn(ps, u)
<1>0. IsFiniteSet(1..Len(ps))
  <2>1. Len(ps) \in Nat
    OBVIOUS
  <2>2. QED
    BY <2>1, FS_Interval
<1> DEFINE n == Len(ps)
           qs == Append(ps, e)
           before == {i \in DOMAIN ps : ps[i].id = u}
           now    == {i \in DOMAIN qs : qs[i].id = u}
<1>1. /\ n \in Nat /\ DOMAIN ps = 1..n /\ DOMAIN qs = 1..(n + 1)
      /\ qs[n + 1] = e /\ \A i \in 1..n : qs[i] = ps[i]
  OBVIOUS
<1>2. PiecesIn(ps, u) = Cardinality(before) /\ PiecesIn(qs, u) = Cardinality(now)
  BY DEF PiecesIn
<1> HIDE DEF qs
<1>3. IsFiniteSet(before) /\ n + 1 \notin before
  <2>1. before \subseteq 1..n
    BY <1>1
  <2>2. QED
    BY <1>0, <1>1, <2>1, FS_Subset
<1>4. CASE u = e.id
  <2>1. now = before \cup {n + 1}
    BY <1>1, <1>4
  <2> HIDE DEF now, before
  <2>2. Cardinality(now) = Cardinality(before) + 1
    BY <1>3, <2>1, FS_AddElement
  <2>3. QED
    BY <1>2, <1>4, <2>2 DEF qs
<1>5. CASE u # e.id
  <2>1. now = before
    BY <1>1, <1>5
  <2>2. QED
    BY <1>2, <1>5, <2>1 DEF qs
<1>6. QED
  BY <1>4, <1>5

\* The slot a piece of call t is added to.
LEMMA SlotIs ==
    ASSUME OneSlotEach, slots.id = Begun, NEW t \in ToolCalls, NEW index \in Nat,
           index = 0 \/ index = IF Position(t) > 0 THEN Position(t) ELSE Len(Begun) + 1
    PROVE  /\ t \in SetOf(Begun) => SlotOf(index, t) \in DOMAIN Begun /\ Begun[SlotOf(index, t)] = t
           /\ t \notin SetOf(Begun) => SlotOf(index, t) \notin DOMAIN Begun
<1>1. Begun \in Seq(ToolCalls) /\ slots.id = Begun /\ Len(Begun) \in Nat /\ DOMAIN Begun = 1..Len(Begun)
  BY DEF OneSlotEach
<1>2. CASE t \in SetOf(Begun)
  <2>1. \E k \in DOMAIN Begun : Begun[k] = t
    BY <1>2 DEF SetOf
  <2>2. Position(t) \in DOMAIN Begun /\ Begun[Position(t)] = t
    BY <1>2, <2>1 DEF Position
  <2>3. (CHOOSE k \in DOMAIN Begun : Begun[k] = t) \in DOMAIN Begun
        /\ Begun[CHOOSE k \in DOMAIN Begun : Begun[k] = t] = t
    BY <2>1
  <2>4. SlotOf(index, t) \in DOMAIN Begun /\ Begun[SlotOf(index, t)] = t
    <3>1. CASE index = 0
      BY <1>1, <2>1, <2>3, <3>1 DEF SlotOf
    <3>2. CASE index # 0
      BY <1>1, <2>2, <3>2 DEF SlotOf
    <3>3. QED
      BY <3>1, <3>2
  <2>5. QED
    BY <1>2, <2>4
<1>3. CASE t \notin SetOf(Begun)
  <2>1. ~\E k \in DOMAIN Begun : Begun[k] = t
    BY <1>3 DEF SetOf
  <2>2. Position(t) = 0
    BY <1>3 DEF Position
  <2>3. SlotOf(index, t) = Len(Begun) + 1
    BY <1>1, <2>1, <2>2 DEF SlotOf
  <2>4. QED
    BY <1>1, <1>3, <2>3
<1>4. QED
  BY <1>2, <1>3

\* A piece of a call, wherever it is added.
LEMMA PieceKeeps ==
    ASSUME CallInv, call.pc = "stream", call.style # "items", NEW t \in ToolCalls, NEW index,
           index = 0 \/ index = IF Position(t) > 0 THEN Position(t) ELSE Len(Begun) + 1,
           sent' = Append(sent, [id |-> t, n |-> PiecesOf(t)]), AddPiece(index, t, PiecesOf(t)),
           UNCHANGED <<call, answer, heard>>
    PROVE  CallInv'
<1> DEFINE e == [id |-> t, n |-> PiecesOf(t)]
           B == Begun
           k == SlotOf(index, t)
<1>1. /\ sent \in Seq(ToolPiece) /\ B \in Seq(ToolCalls) /\ slots = WholeSlots(B, sent) /\ Len(B) \in Nat
      /\ DOMAIN B = 1..Len(B) /\ \A i, j \in DOMAIN B : B[i] = B[j] => i = j
      /\ \A i \in DOMAIN sent : sent[i].id \in SetOf(B)
  BY DEF CallInv, SlotsInv, OneSlotEach
<1>2. e \in ToolPiece /\ e.id = t /\ e.n = PiecesOf(t) /\ PiecesOf(t) \in Nat
  BY <1>1, PiecesFinite DEF ToolPiece, PiecesOf, PiecesIn
<1>3. sent' = Append(sent, e) /\ AddPiece(index, t, PiecesOf(t)) /\ UNCHANGED <<call, answer, heard>>
  OBVIOUS
<1>0. HeardSoFar' /\ call' \in Stage /\ call'.pc = "stream" /\ call'.style # "items"
  BY <1>3 DEF CallInv, HeardSoFar, Piece
<1>4. index \in Nat
  <2>1. Position(t) \in Nat
    <3>1. CASE t \in SetOf(B)
      BY <1>1, <3>1 DEF Position, SetOf
    <3>2. CASE t \notin SetOf(B)
      BY <3>2 DEF Position
    <3>3. QED
      BY <3>1, <3>2
  <2>2. QED
    BY <1>1, <2>1
<1>5. /\ t \in SetOf(B) => k \in DOMAIN B /\ B[k] = t
      /\ t \notin SetOf(B) => k \notin DOMAIN B
  BY <1>1, <1>4, SlotIs DEF CallInv, SlotsInv, WholeSlots
<1>6. slots' = IF k \in DOMAIN slots.id
               THEN [slots EXCEPT !.pieces[k] = Append(slots.pieces[k], PiecesOf(t))]
               ELSE [id |-> Append(slots.id, t), pieces |-> Append(slots.pieces, <<PiecesOf(t)>>)]
  BY <1>3 DEF AddPiece
<1>7. sent' \in Seq(ToolPiece) /\ DOMAIN sent' = 1..(Len(sent) + 1) /\ sent'[Len(sent) + 1] = e
      /\ \A i \in DOMAIN sent : sent'[i] = sent[i]
  BY <1>1, <1>2, <1>3
<1>8. Begun' = WithCall(B, t)
  BY <1>1, <1>2, <1>3, BegunStep DEF Begun
<1> DEFINE P(u) == PiecesIn(sent, u)
           N(u) == PiecesIn(sent', u)
<1>9. \A u : N(u) = IF u = t THEN P(u) + 1 ELSE P(u)
  BY <1>1, <1>2, <1>3, PiecesStep
<1>10. P(t) = PiecesOf(t) /\ \A u : P(u) \in Nat
  BY <1>1, PiecesFinite DEF PiecesOf, PiecesIn
<1> USE DEF Whole
<1>11. ASSUME NEW m \in Nat PROVE Append(Whole(m), m) = Whole(m + 1) /\ Whole(m) \in Seq(Nat)
  <2>1. Whole(m) \in Seq(Nat) /\ Len(Whole(m)) = m
    OBVIOUS
  <2>2. Append(Whole(m), m) \in Seq(Nat) /\ Whole(m + 1) \in Seq(Nat) /\ Len(Append(Whole(m), m)) = m + 1
        /\ Len(Whole(m + 1)) = m + 1
    BY <2>1
  <2>3. \A i \in 1..(m + 1) : Append(Whole(m), m)[i] = Whole(m + 1)[i]
    BY <2>1
  <2>4. QED
    BY <2>1, <2>2, <2>3, SeqEqual
<1>12. Whole(1) = <<0>>
  OBVIOUS
<1> DEFINE Q == [j \in DOMAIN B |-> Whole(P(B[j]))]
<1>13. slots = [id |-> B, pieces |-> Q] /\ WholeSlots(Begun, sent)' = [id |-> Begun', pieces |->
                 [j \in DOMAIN Begun' |-> Whole(N(Begun'[j]))]]
  BY <1>1 DEF WholeSlots
<1> HIDE DEF e, B, k, Whole, P, N
<1>14. Q \in Seq(Seq(Nat)) /\ Len(Q) = Len(B) /\ DOMAIN Q = DOMAIN B
  <2>1. \A j \in DOMAIN B : Whole(P(B[j])) \in Seq(Nat)
    BY <1>10, <1>11
  <2>2. Q \in [1..Len(B) -> Seq(Nat)]
    BY <1>1, <2>1
  <2>3. QED
    BY <1>1, <2>2, IsASeq, LenProperties
<1>15. CASE t \in SetOf(B)
  <2>1. Begun' = B /\ k \in DOMAIN B /\ B[k] = t
    BY <1>5, <1>8, <1>15 DEF WithCall
  <2>2. slots' = [id |-> B, pieces |-> [Q EXCEPT ![k] = Append(Q[k], P(t))]]
    BY <1>6, <1>10, <1>13, <2>1
  <2>3. Q[k] = Whole(P(t)) /\ Append(Q[k], P(t)) = Whole(P(t) + 1)
    BY <1>10, <1>11, <2>1
  <2>4. [Q EXCEPT ![k] = Append(Q[k], P(t))] = [j \in DOMAIN B |-> Whole(N(B[j]))]
    <3>1. ASSUME NEW j \in DOMAIN B PROVE [Q EXCEPT ![k] = Append(Q[k], P(t))][j] = Whole(N(B[j]))
      <4>1. CASE j = k
        <5>1. N(B[j]) = P(t) + 1
          BY <1>9, <2>1, <4>1
        <5>2. QED
          BY <2>3, <4>1, <5>1
      <4>2. CASE j # k
        <5>1. B[j] # t
          BY <1>1, <2>1, <4>2
        <5>2. N(B[j]) = P(B[j])
          BY <1>9, <5>1
        <5>3. QED
          BY <4>2, <5>2
      <4>3. QED
        BY <4>1, <4>2
    <3>2. QED
      BY <3>1
  <2>5. slots' = WholeSlots(Begun, sent)'
    BY <1>13, <2>1, <2>2, <2>4
  <2>6. OneSlotEach'
    <3>1. \A i \in DOMAIN sent' : sent'[i].id \in SetOf(B)
      BY <1>1, <1>2, <1>7, <1>15
    <3>2. QED
      BY <1>1, <2>1, <3>1 DEF OneSlotEach, SetOf
  <2>7. QED
    BY <1>0, <1>7, <2>5, <2>6 DEF CallInv, SlotsInv
<1>16. CASE t \notin SetOf(B)
  <2>1. Begun' = Append(B, t) /\ k \notin DOMAIN B
    BY <1>5, <1>8, <1>16 DEF WithCall
  <2>2. /\ Begun' \in Seq(ToolCalls) /\ DOMAIN Begun' = 1..(Len(B) + 1) /\ Begun'[Len(B) + 1] = t
        /\ \A j \in DOMAIN B : Begun'[j] = B[j] /\ B[j] # t
    BY <1>1, <1>16, <2>1 DEF SetOf
  <2>3. P(t) = 0
    <3>1. {i \in DOMAIN sent : sent[i].id = t} = {}
      BY <1>1, <1>16
    <3>2. QED
      BY <3>1, FS_EmptySet DEF P, PiecesIn
  <2>4. slots' = [id |-> Begun', pieces |-> Append(Q, <<0>>)]
    BY <1>6, <1>10, <1>13, <2>1, <2>3
  <2>5. Append(Q, <<0>>) = [j \in DOMAIN Begun' |-> Whole(N(Begun'[j]))]
    <3>1. ASSUME NEW j \in DOMAIN Begun' PROVE Append(Q, <<0>>)[j] = Whole(N(Begun'[j]))
      <4>1. CASE j = Len(B) + 1
        <5>1. N(Begun'[j]) = 1
          BY <1>9, <2>2, <2>3, <4>1
        <5>2. Append(Q, <<0>>)[j] = <<0>>
          BY <1>14, <4>1
        <5>3. QED
          BY <1>12, <5>1, <5>2
      <4>2. CASE j # Len(B) + 1
        <5>1. j \in DOMAIN B /\ Begun'[j] = B[j] /\ B[j] # t
          BY <1>1, <2>2, <4>2
        <5>2. N(Begun'[j]) = P(B[j])
          BY <1>9, <5>1
        <5>3. Append(Q, <<0>>)[j] = Q[j]
          BY <1>1, <1>14, <5>1
        <5>4. QED
          BY <5>1, <5>2, <5>3
      <4>3. QED
        BY <4>1, <4>2
    <3>2. DOMAIN Append(Q, <<0>>) = DOMAIN Begun' /\ Append(Q, <<0>>) \in Seq(Seq(Nat))
      BY <1>14, <2>2
    <3> DEFINE R == Append(Q, <<0>>)
    <3> HIDE DEF R
    <3>3. R = [j \in DOMAIN R |-> R[j]]
      BY <3>2 DEF R
    <3>4. QED
      BY <3>1, <3>2, <3>3 DEF R
  <2>6. slots' = WholeSlots(Begun, sent)'
    BY <1>13, <2>4, <2>5
  <2>7. OneSlotEach'
    <3>1. ASSUME NEW i \in DOMAIN sent' PROVE sent'[i].id \in SetOf(Begun')
      <4>1. CASE i \in DOMAIN sent
        <5>1. PICK j \in DOMAIN B : sent[i].id = B[j]
          BY <1>1, <4>1 DEF SetOf
        <5>2. QED
          BY <1>1, <1>7, <2>2, <4>1, <5>1 DEF SetOf
      <4>2. CASE i \notin DOMAIN sent
        <5>1. i = Len(sent) + 1
          BY <1>1, <1>7, <4>2
        <5>2. sent'[i].id = t
          BY <1>2, <1>7, <5>1
        <5>3. QED
          BY <1>1, <2>2, <5>2 DEF SetOf
      <4>3. QED
        BY <4>1, <4>2
    <3>2. ASSUME NEW i \in DOMAIN Begun', NEW j \in DOMAIN Begun', Begun'[i] = Begun'[j] PROVE i = j
      BY <1>1, <2>2, <3>2
    <3>3. QED
      BY <2>2, <3>1, <3>2 DEF OneSlotEach, SetOf
  <2>8. QED
    BY <1>0, <1>7, <2>6, <2>7 DEF CallInv, SlotsInv
<1>17. QED
  BY <1>15, <1>16

LEMMA ToolDeltaKeeps == ASSUME CallInv, NEW t \in ToolCalls, ToolDelta(t) PROVE CallInv'
  BY PieceKeeps DEF ToolDelta

\* Of a call that has not begun nothing was sent.
LEMMA NotBegun ==
    ASSUME OneSlotEach, sent \in Seq(ToolPiece), NEW t, t \notin SetOf(Begun) PROVE PiecesIn(sent, t) = 0
<1>1. {i \in DOMAIN sent : sent[i].id = t} = {}
  BY DEF OneSlotEach
<1>2. QED
  BY <1>1, FS_EmptySet DEF PiecesIn

LEMMA ItemKeeps == ASSUME CallInv, NEW t \in ToolCalls, ToolItem(t) PROVE CallInv'
<1> DEFINE e == [id |-> t, n |-> 0]
           B == Begun
<1>1. /\ call.pc = "stream" /\ t \notin SetOf(B) /\ sent' = Append(sent, e) /\ UNCHANGED <<call, answer, heard>>
      /\ call.style \in {"items", "response"}
  BY DEF ToolItem
<1>2. /\ sent \in Seq(ToolPiece) /\ OneSlotEach /\ B \in Seq(ToolCalls) /\ Len(B) \in Nat /\ DOMAIN B = 1..Len(B)
      /\ PiecesIn(sent, t) = 0
  BY <1>1, NotBegun DEF CallInv, SlotsInv, OneSlotEach
<1>3. CASE call.style = "response"
  BY <1>1, <1>2, <1>3, PieceKeeps DEF ToolItem, PiecesOf, PiecesIn
<1>4. CASE call.style = "items"
  <2>1. e \in ToolPiece /\ e.id = t /\ sent' \in Seq(ToolPiece)
    BY <1>1, <1>2 DEF ToolPiece
  <2>2. Begun' = Append(B, t)
    BY <1>1, <1>2, <2>1, BegunStep DEF Begun, WithCall
  <2>3. /\ Begun' \in Seq(ToolCalls) /\ Begun' # <<>> /\ DOMAIN Begun' = 1..(Len(B) + 1) /\ Begun'[Len(B) + 1] = t
        /\ \A j \in DOMAIN B : Begun'[j] = B[j] /\ B[j] # t
    <3>1. \A j \in DOMAIN B : B[j] # t
      BY <1>1 DEF SetOf
    <3> HIDE DEF B
    <3>2. QED
      BY <1>2, <2>2, <3>1
  <2>4. OneSlotEach'
    <3>1. ASSUME NEW i \in DOMAIN sent' PROVE sent'[i].id \in SetOf(Begun')
      <4>1. CASE i \in DOMAIN sent
        <5>1. PICK j \in DOMAIN B : sent[i].id = B[j]
          BY <1>2, <4>1 DEF OneSlotEach, SetOf
        <5>2. sent'[i] = sent[i]
          BY <1>1, <1>2, <4>1
        <5>3. QED
          BY <1>2, <2>3, <5>1, <5>2 DEF SetOf
      <4>2. CASE i \notin DOMAIN sent
        <5>1. sent'[i] = e
          BY <1>1, <1>2, <4>2
        <5>2. QED
          BY <1>2, <2>1, <2>3, <5>1 DEF SetOf
      <4>3. QED
        BY <4>1, <4>2
    <3>2. ASSUME NEW i \in DOMAIN Begun', NEW j \in DOMAIN Begun', Begun'[i] = Begun'[j] PROVE i = j
      BY <1>2, <2>3, <3>2 DEF OneSlotEach
    <3>3. QED
      BY <2>3, <3>1, <3>2 DEF OneSlotEach
  <2>5. \A u : PiecesIn(sent', u) = IF u = t THEN PiecesIn(sent, u) + 1 ELSE PiecesIn(sent, u)
    BY <1>1, <1>2, <2>1, PiecesStep
  <2>6. slots' = FirstSlot(Begun') /\ PiecesIn(sent', Begun'[1]) = 1
    <3>1. CASE B = <<>>
      <4>1. slots = NoSlots /\ Begun'[1] = t /\ Begun' = <<t>>
        BY <1>2, <1>4, <2>2, <2>3, <3>1 DEF CallInv, SlotsInv, FirstSlot
      <4>2. AddPiece(0, t, 0)
        BY <4>1 DEF ToolItem
      <4>3. SlotOf(0, t) = 1 /\ 1 \notin DOMAIN slots.id
        BY <4>1 DEF SlotOf, NoSlots
      <4>4. slots' = [id |-> <<t>>, pieces |-> <<<<0>>>>]
        BY <4>1, <4>2, <4>3 DEF AddPiece, NoSlots
      <4>5. QED
        BY <1>2, <2>5, <4>1, <4>4 DEF FirstSlot
    <3>2. CASE B # <<>>
      <4>1. slots = FirstSlot(B) /\ PiecesIn(sent, B[1]) = 1 /\ 1 \in DOMAIN B /\ Begun'[1] = B[1] /\ B[1] # t
        BY <1>2, <1>4, <2>3, <3>2 DEF CallInv, SlotsInv
      <4>2. slots # NoSlots
        BY <3>2, <4>1 DEF FirstSlot, NoSlots
      <4>3. slots' = slots
        BY <1>4, <4>2 DEF ToolItem
      <4>4. QED
        BY <2>3, <2>5, <3>2, <4>1, <4>3 DEF FirstSlot
    <3>3. QED
      BY <3>1, <3>2
  <2>7. HeardSoFar' /\ call' \in Stage
    BY <1>1 DEF CallInv, HeardSoFar, Piece
  <2>8. QED
    BY <1>1, <1>4, <2>1, <2>4, <2>6, <2>7 DEF CallInv, SlotsInv
<1>5. QED
  BY <1>1, <1>3, <1>4

\* Without a piece nothing has begun.
LEMMA NoneBegun ==
    BegunIn(<<>>) = <<>> /\ WholeSlots(<<>>, <<>>) = NoSlots /\ FirstSlot(<<>>) = NoSlots
<1>1. <<>> \in Seq(ToolPiece) /\ Len(<<>>) = 0 /\ DOMAIN <<>> = {}
  OBVIOUS
<1>2. PICK f : BegunBy(f, <<>>) /\ BegunIn(<<>>) = f[0]
  BY <1>1, BegunSolves
<1>3. f[0] = <<>>
  BY <1>1, <1>2 DEF BegunBy
<1>4. [k \in DOMAIN <<>> |-> Whole(PiecesIn(<<>>, <<>>[k]))] = <<>>
  BY <1>1
<1>5. QED
  BY <1>2, <1>3, <1>4 DEF WholeSlots, NoSlots, FirstSlot

LEMMA SlotsCleared == ASSUME sent' = <<>>, slots' = NoSlots PROVE SlotsInv'
<1>1. Begun' = <<>>
  BY NoneBegun DEF Begun
<1>2. OneSlotEach'
  BY <1>1 DEF OneSlotEach
<1>3. QED
  BY <1>1, <1>2, NoneBegun DEF SlotsInv

LEMMA SlotsStay ==
    ASSUME CallInv, UNCHANGED <<sent, slots>>, call'.style = call.style,
           call'.pc = "idle" => call.pc = "idle"
    PROVE  SlotsInv'
<1>1. Begun' = Begun
  BY DEF Begun
<1>2. QED
  BY <1>1 DEF CallInv, SlotsInv, OneSlotEach

LEMMA CallFacts ==
    ASSUME CallInv
    PROVE  /\ call \in Stage /\ answer \in Seq(Nat \X Nat) /\ heard \in Seq(Nat \X Nat)
           /\ Len(answer) \in Nat /\ Len(heard) \in Nat
           /\ answer = <<>> => heard = <<>>
           /\ call.pc \in {"idle", "request", "backoff"} => answer = <<>> /\ heard = <<>>
           /\ call.pc = "stream" => heard = answer
<1>1. answer \in Seq(Nat \X Nat) /\ heard \in Seq(Nat \X Nat) /\ call \in Stage /\ Len(heard) <= Len(answer)
  BY DEF CallInv, HeardSoFar
<1>2. Len(heard) \in Nat /\ Len(answer) \in Nat
  BY <1>1
<1>3. ASSUME answer = <<>> PROVE heard = <<>>
  <2>1. Len(answer) = 0
    BY <1>3
  <2>2. Len(heard) = 0
    BY <1>1, <1>2, <2>1
  <2>3. QED
    BY <1>1, <2>2
<1>4. QED
  BY <1>1, <1>2, <1>3 DEF CallInv, HeardSoFar

\* A step of the call that neither receives nor tells anything.
LEMMA StageMoves ==
    ASSUME CallInv, NEW c \in Stage, call' = c, UNCHANGED <<answer, heard, sent, slots>>,
           c.style = call.style, c.pc # "idle",
           answer = <<>> \/ (c.attempt = call.attempt /\ c.whole = call.whole),
           c.pc \in {"request", "backoff"} => answer = <<>>,
           c.pc = "stream" \/ (c.pc = "done" /\ c.result # "error") => heard = answer
    PROVE  CallInv'
<1>1. \A i \in DOMAIN answer : answer[i] = Piece(i)'
  BY DEF CallInv, HeardSoFar, Piece
<1>2. HeardSoFar'
  BY <1>1 DEF CallInv, HeardSoFar
<1>3. QED
  BY <1>2, SlotsStay DEF CallInv

LEMMA FailedKeeps ==
    ASSUME CallInv, NEW retryable \in BOOLEAN, Failed(retryable), UNCHANGED <<answer, heard, sent, slots>>
    PROVE  CallInv'
<1>1. call \in Stage
  BY CallFacts
<1>2. CASE call' = [call EXCEPT !.pc = "done", !.result = "error"]
  <2> DEFINE c == [call EXCEPT !.pc = "done", !.result = "error"]
  <2>1. /\ c \in Stage /\ c.pc = "done" /\ c.result = "error" /\ c.style = call.style
        /\ c.attempt = call.attempt /\ c.whole = call.whole
    BY <1>1 DEF Stage
  <2> HIDE DEF c
  <2>2. QED
    BY <1>2, <2>1, StageMoves DEF c
<1>3. CASE call' = [call EXCEPT !.pc = "backoff"] /\ answer = <<>>
  <2> DEFINE c == [call EXCEPT !.pc = "backoff"]
  <2>1. c \in Stage /\ c.pc = "backoff" /\ c.style = call.style
    BY <1>1 DEF Stage
  <2>2. call' = c
    BY <1>3
  <2> HIDE DEF c
  <2>3. QED
    BY <1>3, <2>1, <2>2, StageMoves
<1>4. QED
  BY <1>2, <1>3 DEF Failed

LEMMA StartKeeps ==
    ASSUME CallInv, NEW stream \in BOOLEAN, NEW style \in Styles, StartCall(stream, style)
    PROVE  CallInv'
<1> DEFINE c == [pc |-> "request", stream |-> stream, style |-> style, attempt |-> 1, result |-> None,
                 whole |-> 0, late |-> FALSE]
<1>1. /\ c \in Stage /\ c.pc = "request" /\ call' = c /\ UNCHANGED <<answer, heard, sent, slots>>
      /\ call.pc = "idle"
  BY DEF StartCall, Stage
<1> HIDE DEF c
<1>2. answer = <<>> /\ heard = <<>> /\ sent = <<>> /\ slots = NoSlots
  BY <1>1, CallFacts DEF CallInv, SlotsInv
<1>3. SlotsInv'
  BY <1>1, <1>2, SlotsCleared
<1>4. HeardSoFar'
  BY <1>1, <1>2 DEF HeardSoFar
<1>5. QED
  BY <1>1, <1>3, <1>4 DEF CallInv

LEMMA AnswerAtOnceKeeps == ASSUME CallInv, AnswerAtOnce PROVE CallInv'
<1>1. PICK r \in Readings \cup {"error"} : call' = [call EXCEPT !.pc = "done", !.result = r]
  BY DEF AnswerAtOnce
<1> DEFINE c == [call EXCEPT !.pc = "done", !.result = r]
<1>2. call.pc = "request" /\ UNCHANGED <<answer, heard, sent, slots>>
  BY DEF AnswerAtOnce
<1>3. heard = answer /\ answer = <<>> /\ call \in Stage
  BY <1>2, CallFacts
<1>4. c \in Stage /\ c.pc = "done" /\ call' = c /\ c.style = call.style
  BY <1>1, <1>3 DEF Stage
<1> HIDE DEF c
<1>5. QED
  BY <1>2, <1>3, <1>4, StageMoves

\* The end of a stream: all of the answer was heard, or it came late.
LEMMA StreamEndsKeeps == ASSUME CallInv, StreamEnds PROVE CallInv'
<1>1. PICK r \in Readings \cup {"error"} : call' = [call EXCEPT !.pc = "done", !.result = r]
  BY DEF StreamEnds, Readings
<1> DEFINE c == [call EXCEPT !.pc = "done", !.result = r]
           V == Nat \X Nat
<1>2. /\ call.pc = "stream" /\ UNCHANGED <<heard, sent, slots>> /\ heard = answer /\ call \in Stage
      /\ answer \in Seq(V) /\ Len(answer) \in Nat
  BY CallFacts DEF StreamEnds
<1>3. /\ c \in Stage /\ c.pc = "done" /\ call' = c /\ c.style = call.style /\ c.late = call.late
      /\ c.attempt = call.attempt /\ c.whole = call.whole
  BY <1>1, <1>2 DEF Stage
<1> HIDE DEF c
<1>4. \A i : Piece(i)' = Piece(i)
  BY <1>3 DEF Piece
<1>5. CASE answer = <<>> /\ call.late
  <2>1. answer' = <<Piece(1)>> /\ heard' = <<>>
    BY <1>2, <1>5 DEF StreamEnds
  <2>2. Piece(1) \in V
    BY <1>2 DEF Piece, Stage
  <2> HIDE DEF V
  <2>3. answer' \in Seq(V) /\ DOMAIN answer' = {1} /\ answer'[1] = Piece(1)' /\ Len(answer') = 1
    BY <1>4, <2>1, <2>2
  <2>4. <<>> \in Seq(V) /\ Len(<<>>) = 0 /\ DOMAIN <<>> = {}
    OBVIOUS
  <2>5. QED
    BY <1>2, <1>3, <1>5, <2>1, <2>3, <2>4, SlotsStay DEF CallInv, HeardSoFar, V
<1>6. CASE ~(answer = <<>> /\ call.late)
  <2>1. answer' = answer
    BY <1>6 DEF StreamEnds
  <2>2. QED
    BY <1>2, <1>3, <2>1, StageMoves
<1>7. QED
  BY <1>5, <1>6

LEMMA RetryKeeps == ASSUME CallInv, RetryRequest PROVE CallInv'
<1>1. call \in Stage /\ answer = <<>> /\ UNCHANGED <<answer, heard, sent, slots>>
  BY CallFacts DEF RetryRequest
<1>2. PICK c \in Stage : /\ call' = c /\ (c.pc = "request" \/ (c.pc = "done" /\ c.result = "error"))
                        /\ c.style = call.style
  <2>1. CASE call' = [call EXCEPT !.pc = "request", !.attempt = @ + 1]
    <3> DEFINE n == call.attempt + 1
               c == [call EXCEPT !.pc = "request", !.attempt = n]
    <3>0. n \in Nat
      <4>1. call.attempt \in Nat
        BY <1>1 DEF Stage
      <4>2. QED
        BY <4>1
    <3>1. c \in Stage /\ c.pc = "request" /\ c.style = call.style
      <4> HIDE DEF n
      <4>1. QED
        BY <1>1, <3>0 DEF Stage
    <3>2. call' = c
      BY <2>1
    <3> HIDE DEF c
    <3>3. QED
      BY <3>1, <3>2
  <2>2. CASE call' = [call EXCEPT !.pc = "done", !.result = "error"]
    <3> DEFINE c == [call EXCEPT !.pc = "done", !.result = "error"]
    <3>1. c \in Stage /\ c.pc = "done" /\ c.result = "error" /\ c.style = call.style
      BY <1>1 DEF Stage
    <3>2. call' = c
      BY <2>2
    <3> HIDE DEF c
    <3>3. QED
      BY <3>1, <3>2
  <2>3. QED
    BY <2>1, <2>2 DEF RetryRequest
<1>3. QED
  BY <1>1, <1>2, StageMoves

LEMMA StreamBeginsKeeps == ASSUME CallInv, StreamBegins PROVE CallInv'
<1>1. /\ call \in Stage /\ call' = [call EXCEPT !.pc = "stream", !.whole = 0, !.late = FALSE]
      /\ heard = <<>> /\ heard' = <<>> /\ answer' = <<>> /\ sent' = <<>> /\ slots' = NoSlots
  BY CallFacts DEF StreamBegins
<1>2. call' \in Stage /\ call'.pc = "stream"
  BY <1>1 DEF Stage
<1>3. HeardSoFar'
  BY <1>1, <1>2 DEF HeardSoFar
<1>4. QED
  BY <1>1, <1>2, <1>3, SlotsCleared DEF CallInv

LEMMA NextCallKeeps == ASSUME CallInv, NextCall PROVE CallInv'
<1>1. /\ call \in Stage /\ heard' = <<>> /\ answer' = <<>> /\ sent' = <<>> /\ slots' = NoSlots
      /\ call' = [call EXCEPT !.pc = "idle", !.attempt = 0, !.result = None, !.stream = FALSE,
                             !.whole = 0, !.late = FALSE]
  BY CallFacts DEF NextCall
<1>2. call' \in Stage
  BY <1>1 DEF Stage
<1>3. HeardSoFar'
  BY <1>1 DEF HeardSoFar
<1>4. QED
  BY <1>1, <1>2, <1>3, SlotsCleared DEF CallInv

\* The number of piece i when the whole message came after w pieces.
NumberOf(w, i) == IF i > w THEN i - w - 1 ELSE i - 1

LEMMA Numbered == \A i : Piece(i) = <<call.attempt, NumberOf(call.whole, i)>>
  BY DEF Piece, NumberOf

\* Text that arrives goes to the listener too, or the call ends.
LEMMA HearKeeps ==
    ASSUME CallInv, call.pc = "stream", NEW delta \in Seq(Nat \X Nat), NEW c \in Stage,
           answer' = answer \o delta, UNCHANGED <<sent, slots>>,
           c.attempt = call.attempt, c.style = call.style,
           c.whole = call.whole \/ (c.whole = Len(answer) /\ call.whole = 0),
           \A i \in 1..Len(delta) :
               delta[i] = <<call.attempt, NumberOf(c.whole, Len(answer) + i)>>,
           call' = c,
           \/ heard' = heard \o delta /\ c.pc = "stream"
           \/ heard' = heard /\ c.pc = "done" /\ c.result = "error"
    PROVE  CallInv'
<1> DEFINE V == Nat \X Nat
           n == Len(answer)
<1>1. answer \in Seq(V) /\ n \in Nat /\ heard = answer /\ \A i \in 1..n : answer[i] = Piece(i)
  BY CallFacts DEF CallInv, HeardSoFar
<1> HIDE DEF V, n
<1>2. /\ answer' \in Seq(V) /\ Len(answer') = n + Len(delta) /\ Len(delta) \in Nat
      /\ \A i \in 1..(n + Len(delta)) : answer'[i] = IF i <= n THEN answer[i] ELSE delta[i - n]
  <2>1. delta \in Seq(V)
    BY DEF V
  <2>2. QED
    BY <1>1, <2>1 DEF n
<1>3. ASSUME NEW i \in DOMAIN answer' PROVE answer'[i] = Piece(i)'
  <2>1. i \in 1..(n + Len(delta)) /\ c.whole \in Nat /\ call.whole \in Nat
    BY <1>2, CallFacts DEF Stage
  <2>2. CASE i <= n
    <3>1. Piece(i)' = Piece(i)
      BY <1>1, <2>1, <2>2 DEF Piece, n
    <3>2. QED
      BY <1>1, <1>2, <2>1, <2>2, <3>1
  <2>3. CASE i > n
    <3> DEFINE j == i - n
    <3>1. j \in 1..Len(delta) /\ n + j = i /\ answer'[i] = delta[j]
      <4> DEFINE m == Len(delta)
      <4>0. n \in Nat /\ m \in Nat /\ i \in 1..(n + m)
        BY <1>1, <1>2, <2>1
      <4>1. i - n \in 1..m /\ n + (i - n) = i
        <5> HIDE DEF m
        <5>1. QED
          BY <4>0, <2>3
      <4>2. answer'[i] = delta[i - n]
        BY <1>1, <1>2, <2>1, <2>3
      <4>3. QED
        BY <4>1, <4>2
    <3> HIDE DEF j
    <3>2. delta[j] = <<call.attempt, NumberOf(c.whole, i)>>
      BY <3>1 DEF n
    <3>3. Piece(i)' = <<call.attempt, NumberOf(c.whole, i)>>
      BY DEF Piece, NumberOf
    <3>4. QED
      BY <3>1, <3>2, <3>3
  <2>4. QED
    BY <1>1, <2>1, <2>2, <2>3
<1>4. heard' = answer' \/ heard' = answer
  BY <1>1
<1>5. heard' \in Seq(V) /\ Len(heard') <= Len(answer') /\ \A i \in DOMAIN heard' : heard'[i] = answer'[i]
  <2>1. CASE heard' = answer'
    BY <1>1, <1>2, <2>1
  <2>2. CASE heard' = answer
    <3>1. DOMAIN answer = 1..n /\ Len(answer) = n
      BY <1>1 DEF n
    <3>2. n <= n + Len(delta) /\ \A i \in 1..n : answer'[i] = answer[i]
      BY <1>1, <1>2
    <3>3. QED
      BY <1>1, <1>2, <2>2, <3>1, <3>2
  <2>3. QED
    BY <1>4, <2>1, <2>2
<1>6. HeardSoFar'
  BY <1>1, <1>2, <1>3, <1>5 DEF HeardSoFar, V
<1>7. QED
  BY <1>6, SlotsStay DEF CallInv

LEMMA TextDeltaKeeps == ASSUME CallInv, TextDelta PROVE CallInv'
<1> DEFINE n == Len(answer)
           delta == <<Piece(n + 1)>>
<1>1. /\ call \in Stage /\ call.pc = "stream" /\ n \in Nat /\ UNCHANGED <<sent, slots>>
      /\ Hear(delta)
  BY CallFacts DEF TextDelta
<1>2. /\ answer' = answer \o delta
      /\ \/ heard' = heard \o delta /\ UNCHANGED call
         \/ UNCHANGED heard /\ call' = [call EXCEPT !.pc = "done", !.result = "error"]
  BY <1>1 DEF Hear
<1>3. Piece(n + 1) \in Nat \X Nat
  BY <1>1 DEF Piece, Stage
<1>4. /\ delta \in Seq(Nat \X Nat)
      /\ \A i \in 1..Len(delta) :
           delta[i] = <<call.attempt, NumberOf(call.whole, n + i)>>
  <2>1. delta \in Seq(Nat \X Nat) /\ Len(delta) = 1 /\ delta[1] = Piece(n + 1)
    BY <1>3
  <2> HIDE DEF delta
  <2>2. ASSUME NEW i \in 1..Len(delta)
        PROVE  delta[i] = <<call.attempt, NumberOf(call.whole, n + i)>>
    <3>1. i = 1
      BY <2>1
    <3>2. QED
      BY <2>1, <3>1, Numbered
  <2>3. QED
    BY <2>1, <2>2
<1> HIDE DEF delta, n
<1>5. CASE heard' = heard \o delta /\ UNCHANGED call
  BY <1>1, <1>2, <1>4, <1>5, HearKeeps DEF n
<1>6. CASE UNCHANGED heard /\ call' = [call EXCEPT !.pc = "done", !.result = "error"]
  <2> DEFINE c == [call EXCEPT !.pc = "done", !.result = "error"]
  <2>1. /\ c \in Stage /\ c.pc = "done" /\ c.result = "error" /\ c.style = call.style
        /\ c.attempt = call.attempt /\ c.whole = call.whole
    BY <1>1 DEF Stage
  <2>2. call' = c
    BY <1>6
  <2> HIDE DEF c
  <2>3. QED
    BY <1>1, <1>2, <1>4, <1>6, <2>1, <2>2, HearKeeps DEF n
<1>7. QED
  BY <1>2, <1>5, <1>6

LEMMA FullTextKeeps == ASSUME CallInv, NEW k \in 1..MaxPieces, FullText(k) PROVE CallInv'
<1> DEFINE n == Len(answer)
           delta == [i \in 1..k |-> <<call.attempt, i - 1>>]
<1>0. k \in Nat
  BY CallAssumption
<1>1. call \in Stage /\ call.pc = "stream" /\ n \in Nat /\ UNCHANGED <<sent, slots>> /\ call.whole = 0
  BY CallFacts DEF FullText
<1>2. /\ answer' = answer \o delta
      /\ \/ heard' = heard \o delta /\ call' = [call EXCEPT !.whole = n]
         \/ UNCHANGED heard /\ call' = [call EXCEPT !.whole = n, !.pc = "done", !.result = "error"]
  BY DEF FullText
<1>3. \A i \in 1..k : <<call.attempt, i - 1>> \in Nat \X Nat
  BY <1>0, <1>1 DEF Stage
<1>4. delta \in Seq(Nat \X Nat) /\ Len(delta) = k /\ \A i \in 1..k : delta[i] = <<call.attempt, i - 1>>
  <2>1. delta \in [1..k -> Nat \X Nat]
    BY <1>3
  <2> HIDE DEF delta
  <2>2. delta \in Seq(Nat \X Nat) /\ Len(delta) = k
    BY <1>0, <2>1, IsASeq, LenProperties
  <2>3. QED
    BY <2>2 DEF delta
<1>5. \A i \in 1..Len(delta) :
         delta[i] = <<call.attempt, NumberOf(n, n + i)>>
  <2>1. \A i \in 1..k : NumberOf(n, n + i) = i - 1
    BY <1>0, <1>1 DEF NumberOf
  <2>2. QED
    BY <1>4, <2>1
<1> HIDE DEF delta, n
<1>6. CASE heard' = heard \o delta /\ call' = [call EXCEPT !.whole = n]
  <2> DEFINE c == [call EXCEPT !.whole = n]
  <2>1. /\ c \in Stage /\ c.pc = "stream" /\ c.style = call.style
        /\ c.attempt = call.attempt /\ c.whole = n
    BY <1>1 DEF Stage
  <2>2. call' = c
    BY <1>6
  <2> HIDE DEF c
  <2>3. \A i \in 1..Len(delta) : delta[i] = <<call.attempt, NumberOf(c.whole, Len(answer) + i)>>
    BY <1>5, <2>1 DEF n
  <2>4. c.whole = Len(answer) /\ answer' = answer \o delta
    BY <1>2, <2>1 DEF n
  <2>5. QED
    BY <1>1, <1>4, <1>6, <2>1, <2>2, <2>3, <2>4, HearKeeps
<1>7. CASE UNCHANGED heard /\ call' = [call EXCEPT !.whole = n, !.pc = "done", !.result = "error"]
  <2> DEFINE c == [call EXCEPT !.whole = n, !.pc = "done", !.result = "error"]
  <2>1. /\ c \in Stage /\ c.pc = "done" /\ c.result = "error" /\ c.style = call.style
        /\ c.attempt = call.attempt /\ c.whole = n
    BY <1>1 DEF Stage
  <2>2. call' = c
    BY <1>7
  <2> HIDE DEF c
  <2>3. \A i \in 1..Len(delta) : delta[i] = <<call.attempt, NumberOf(c.whole, Len(answer) + i)>>
    BY <1>5, <2>1 DEF n
  <2>4. c.whole = Len(answer) /\ answer' = answer \o delta
    BY <1>2, <2>1 DEF n
  <2>5. QED
    BY <1>1, <1>4, <1>7, <2>1, <2>2, <2>3, <2>4, HearKeeps
<1>8. QED
  BY <1>2, <1>6, <1>7

LEMMA FullMessageKeeps == ASSUME CallInv, FullMessage PROVE CallInv'
<1>1. slots' = WholeSlots(Begun, sent) /\ UNCHANGED <<call, answer, heard, sent>> /\ call.style # "items"
      /\ call.pc = "stream"
  BY DEF FullMessage, WholeSlots, Whole, PiecesOf, PiecesIn
<1>2. Begun' = Begun
  BY <1>1 DEF Begun
<1>3. QED
  BY <1>1, <1>2 DEF CallInv, HeardSoFar, Piece, SlotsInv, OneSlotEach

LEMMA TextItemKeeps == ASSUME CallInv, TextItem PROVE CallInv'
<1> DEFINE c == [call EXCEPT !.late = TRUE]
<1>1. call \in Stage /\ call.pc = "stream" /\ heard = answer /\ call' = c /\ UNCHANGED <<answer, heard, sent, slots>>
  BY CallFacts DEF TextItem
<1>2. c \in Stage /\ c.pc = "stream" /\ c.style = call.style /\ c.attempt = call.attempt /\ c.whole = call.whole
  BY <1>1 DEF Stage
<1> HIDE DEF c
<1>3. QED
  BY <1>1, <1>2, StageMoves

LEMMA CallStep == ASSUME CallInv, CallNext PROVE CallInv'
<1>1. CASE RequestFailed \/ StreamBreaks
  BY <1>1, FailedKeeps DEF RequestFailed, StreamBreaks
<1>2. CASE \E stream \in BOOLEAN, style \in Styles : StartCall(stream, style)
  BY <1>2, StartKeeps
<1>3. CASE \E t \in ToolCalls : ToolDelta(t) \/ ToolItem(t)
  BY <1>3, ToolDeltaKeeps, ItemKeeps
<1>4. CASE \E k \in 1..MaxPieces : FullText(k)
  BY <1>4, FullTextKeeps
<1>5. QED
  BY <1>1, <1>2, <1>3, <1>4, AnswerAtOnceKeeps, StreamEndsKeeps, RetryKeeps, StreamBeginsKeeps, NextCallKeeps,
     TextDeltaKeeps, FullMessageKeeps, TextItemKeeps DEF CallNext

LEMMA CallTold == CallInv => StreamFaithful
<1> SUFFICES ASSUME CallInv PROVE StreamFaithful
  OBVIOUS
<1>1. HeardIsAnswer
  <2>1. DOMAIN heard \subseteq DOMAIN answer
    BY CallFacts DEF CallInv, HeardSoFar
  <2>2. QED
    BY <2>1 DEF CallInv, HeardSoFar, HeardIsAnswer
<1>2. ToolCallsWhole
  <2>1. CASE call.style # "items"
    <3>1. slots.id = Begun /\ slots.pieces = [k \in DOMAIN Begun |-> Whole(PiecesIn(sent, Begun[k]))]
      BY <2>1 DEF CallInv, SlotsInv, WholeSlots
    <3>2. QED
      BY <2>1, <3>1 DEF ToolCallsWhole, Whole, PiecesOf, PiecesIn
  <2>2. CASE call.style = "items" /\ Begun = <<>>
    BY <2>2 DEF CallInv, SlotsInv, FirstSlot, NoSlots, ToolCallsWhole
  <2>3. CASE call.style = "items" /\ Begun # <<>>
    <3>1. slots = [id |-> <<Begun[1]>>, pieces |-> <<<<0>>>>] /\ PiecesOf(Begun[1]) = 1
      BY <2>3 DEF CallInv, SlotsInv, FirstSlot, PiecesOf, PiecesIn
    <3>2. [i \in 1..1 |-> i - 1] = <<0>>
      OBVIOUS
    <3>3. QED
      BY <2>3, <3>1, <3>2 DEF ToolCallsWhole
  <2>4. QED
    BY <2>1, <2>2, <2>3
<1>3. QED
  BY <1>1, <1>2 DEF StreamFaithful

LEMMA CallStarts == CallInit => CallInv
<1> SUFFICES ASSUME CallInit PROVE CallInv
  OBVIOUS
<1>1. call \in Stage /\ HeardSoFar
  BY DEF CallInit, Stage, HeardSoFar, Styles
<1>2. sent = <<>> /\ slots = NoSlots /\ Begun = <<>>
  BY NoneBegun DEF CallInit, Begun
<1>3. QED
  BY <1>1, <1>2, NoneBegun DEF CallInv, SlotsInv, OneSlotEach

\* The invariant holds throughout.
LEMMA CallHolds == Spec => []CallInv
<1>1. Init => CallInv
  BY CallStarts DEF Init
<1>2. CallInv /\ [Next]_vars => CallInv'
  <2> SUFFICES ASSUME CallInv, [Next]_vars PROVE CallInv'
    OBVIOUS
  <2>1. CallNext \/ UNCHANGED callVars
    BY DEF Next, vars, Rest
  <2>2. CASE UNCHANGED callVars
    BY <2>2, SlotsStay DEF callVars, CallInv, HeardSoFar, Piece
  <2>3. QED
    BY <2>1, <2>2, CallStep
<1>3. QED
  BY <1>1, <1>2, PTL DEF Spec

\* What the listener heard is the answer, from the beginning and of one attempt,
\* and tool calls whose pieces come mixed are put together as they were sent,
\* however often a request is tried again (runtime/model.go:
\* doStreamingChatCompletionWithRetry, consumeProviderSSE).
THEOREM StreamsStayFaithful == Spec => []StreamFaithful
  BY CallHolds, CallTold, PTL

-----------------------------------------------------------------------------
(* The edits of a file, made of lines known by their numbers.               *)

Passage == Seq(Nat)
Edit == [from : Nat, to : Int, new : Passage]

PutBy(f, es, p) ==
    f = [i \in 0..Len(es) |->
            IF i = 0 THEN <<>> ELSE IF es[i].from = p THEN f[i - 1] \o es[i].new ELSE f[i - 1]]
PutIn(es, p) == (CHOOSE f : PutBy(f, es, p))[Len(es)]
Puts(f, es, p) ==
    /\ f[0] = <<>> /\ \A i \in 0..Len(es) : f[i] \in Passage
    /\ \A i \in 1..Len(es) : f[i] = IF es[i].from = p THEN f[i - 1] \o es[i].new ELSE f[i - 1]

LEMMA PutSolves ==
    ASSUME NEW es \in Seq(Edit), NEW p
    PROVE  \E f : Puts(f, es, p) /\ PutIn(es, p) = f[Len(es)]
<1> DEFINE n == Len(es)
           V == Passage
           g == [ix \in Nat \X V |->
                    IF ix[1] \in 1..n /\ es[ix[1]].from = p THEN ix[2] \o es[ix[1]].new ELSE ix[2]]
<1>1. n \in Nat /\ <<>> \in V /\ \A i \in 1..n : es[i] \in Edit
  BY DEF Passage
<1>2. \A i \in 1..n, x \in V : x \o es[i].new \in V
  <2> SUFFICES ASSUME NEW i \in 1..n, NEW x \in V PROVE x \o es[i].new \in V
    OBVIOUS
  <2>1. es[i].new \in Passage
    BY <1>1 DEF Edit
  <2>2. QED
    BY <2>1, ConcatProperties DEF Passage
<1> HIDE DEF V
<1>3. g \in [Nat \X V -> V]
  BY <1>2
<1>4. ASSUME NEW i \in 1..n, NEW x \in V
      PROVE  g[<<i, x>>] = IF es[i].from = p THEN x \o es[i].new ELSE x
  <2>1. <<i, x>> \in Nat \X V
    BY <1>1
  <2>2. QED
    BY <2>1
<1> HIDE DEF g
<1>5. PICK f : Solves(f, n, V, <<>>, g)
  BY <1>1, <1>3, Recursion
<1>6. /\ f \in [0..n -> V] /\ f[0] = <<>>
      /\ \A i \in 1..n : f[i] = IF es[i].from = p THEN f[i - 1] \o es[i].new ELSE f[i - 1]
  <2>1. f \in [0..n -> V] /\ f[0] = <<>> /\ \A i \in 1..n : f[i] = g[<<i, f[i - 1]>>]
    BY <1>5 DEF Solves
  <2>2. \A i \in 1..n : f[i - 1] \in V
    BY <1>1, <2>1
  <2>3. QED
    BY <1>4, <2>1, <2>2
<1>7. PutBy(f, es, p)
  <2>1. \A i \in 0..n : f[i] = IF i = 0 THEN <<>>
                               ELSE IF es[i].from = p THEN f[i - 1] \o es[i].new ELSE f[i - 1]
    BY <1>1, <1>6
  <2>2. f = [i \in 0..n |-> f[i]]
    BY <1>6
  <2>3. QED
    BY <2>1, <2>2 DEF PutBy
<1>8. PICK h : h = CHOOSE hh : PutBy(hh, es, p)
  OBVIOUS
<1>9. PutBy(h, es, p) /\ PutIn(es, p) = h[n]
  BY <1>7, <1>8 DEF PutIn
<1>10. /\ h[0] = <<>>
       /\ \A i \in 1..n : h[i] = IF es[i].from = p THEN h[i - 1] \o es[i].new ELSE h[i - 1]
  BY <1>1, <1>9 DEF PutBy
<1>11. \A i \in 1..n : h[i - 1] \in V => h[i] \in V
  BY <1>2, <1>10
<1>12. h[0] \in V
  BY <1>1, <1>10
<1>13. \A i \in 0..n : h[i] \in V
  <2>1. n \in Nat
    BY <1>1
  <2> HIDE DEF n
  <2>2. QED
    BY <1>11, <1>12, <2>1, AllTyped
<1>14. Puts(h, es, p)
  BY <1>10, <1>13 DEF Puts, V
<1>15. QED
  BY <1>9, <1>14

LEMMA PutTyped == ASSUME NEW es \in Seq(Edit), NEW p PROVE PutIn(es, p) \in Passage
<1>1. PICK f : Puts(f, es, p) /\ PutIn(es, p) = f[Len(es)]
  BY PutSolves
<1>2. Len(es) \in 0..Len(es)
  OBVIOUS
<1>3. QED
  BY <1>1, <1>2 DEF Puts

\* Nothing is put where no range begins.
LEMMA PutNone ==
    ASSUME NEW es \in Seq(Edit), NEW p, \A i \in 1..Len(es) : es[i].from # p
    PROVE  PutIn(es, p) = <<>>
<1>1. PICK f : Puts(f, es, p) /\ PutIn(es, p) = f[Len(es)]
  BY PutSolves
<1> DEFINE V == {<<>>}
<1>2. f[0] \in V /\ \A i \in 1..Len(es) : f[i - 1] \in V => f[i] \in V
  BY <1>1 DEF Puts
<1>3. Len(es) \in Nat /\ Len(es) \in 0..Len(es)
  OBVIOUS
<1> HIDE DEF V
<1>4. \A k \in 0..Len(es) : f[k] \in V
  BY <1>2, <1>3, AllTyped
<1>5. QED
  BY <1>1, <1>3, <1>4 DEF V

LEMMA PutStep ==
    ASSUME NEW es \in Seq(Edit), NEW e \in Edit, NEW p
    PROVE  PutIn(Append(es, e), p) = IF e.from = p THEN PutIn(es, p) \o e.new ELSE PutIn(es, p)
<1> DEFINE n  == Len(es)
           ds == Append(es, e)
<1>1. n \in Nat /\ ds \in Seq(Edit) /\ Len(ds) = n + 1 /\ ds[n + 1] = e /\ \A i \in 1..n : ds[i] = es[i]
  OBVIOUS
<1> HIDE DEF ds
<1>2. PICK f : Puts(f, es, p) /\ PutIn(es, p) = f[n]
  BY PutSolves
<1> HIDE DEF n
<1>3. PICK h : Puts(h, ds, p) /\ PutIn(ds, p) = h[n + 1]
  BY <1>1, PutSolves
<1>4. f[0] = <<>> /\ \A i \in 1..n : f[i] = IF es[i].from = p THEN f[i - 1] \o es[i].new ELSE f[i - 1]
  BY <1>2 DEF Puts, n
<1>5. h[0] = <<>> /\ \A i \in 1..(n + 1) : h[i] = IF ds[i].from = p THEN h[i - 1] \o ds[i].new ELSE h[i - 1]
  BY <1>1, <1>3 DEF Puts
<1>6. ASSUME NEW i \in 1..n, f[i - 1] = h[i - 1] PROVE f[i] = h[i]
  <2>1. f[i] = (IF es[i].from = p THEN f[i - 1] \o es[i].new ELSE f[i - 1]) /\ ds[i] = es[i]
    BY <1>1, <1>4
  <2>2. i \in 1..(n + 1)
    BY <1>1
  <2>3. h[i] = IF ds[i].from = p THEN h[i - 1] \o ds[i].new ELSE h[i - 1]
    BY <1>5, <2>2
  <2>4. QED
    BY <1>6, <2>1, <2>3
<1>7. f[0] = h[0] /\ n \in Nat
  BY <1>1, <1>4, <1>5
<1>8. \A k \in 0..n : f[k] = h[k]
  <2>1. Agree(f, h, n)
    BY <1>6, <1>7 DEF Agree
  <2>2. QED
    BY <1>7, <2>1, AllSame
<1>9. h[n + 1] = IF e.from = p THEN h[n] \o e.new ELSE h[n]
  <2>1. n + 1 \in 1..(n + 1) /\ (n + 1) - 1 = n
    BY <1>1
  <2>2. h[n + 1] = IF ds[n + 1].from = p THEN h[(n + 1) - 1] \o ds[n + 1].new ELSE h[(n + 1) - 1]
    BY <1>5, <2>1
  <2>3. QED
    BY <1>1, <2>1, <2>2
<1>10. f[n] = h[n]
  BY <1>7, <1>8
<1>11. PutIn(ds, p) = IF e.from = p THEN PutIn(es, p) \o e.new ELSE PutIn(es, p)
  BY <1>2, <1>3, <1>9, <1>10
<1>12. QED
  BY <1>11 DEF ds

\* The lines o edited by es, up to line p; beyond the last no line is left.
CoveredIn(o, es, p) == p > Len(o) \/ \E i \in DOMAIN es : p \in es[i].from..es[i].to
LeftOf(o, es, p) == IF CoveredIn(o, es, p) THEN <<>> ELSE <<o[p]>>
UpBy(f, o, es) ==
    f = [p \in 0..(Len(o) + 1) |-> IF p = 0 THEN <<>> ELSE f[p - 1] \o PutIn(es, p) \o LeftOf(o, es, p)]
Up(o, es, p) == (CHOOSE f : UpBy(f, o, es))[p]

LEMMA PassagesJoin ==
    ASSUME NEW x \in Passage, NEW y \in Passage, NEW z \in Passage
    PROVE  (x \o y) \o z = x \o (y \o z)
<1> DEFINE V == Nat
<1>1. x \in Seq(V) /\ y \in Seq(V) /\ z \in Seq(V)
  BY DEF Passage
<1> HIDE DEF V
<1>2. QED
  BY <1>1, ConcatAssociative

LEMMA LeftTyped ==
    ASSUME NEW o \in Passage, NEW es, NEW p \in Nat \ {0}
    PROVE  LeftOf(o, es, p) \in Passage
<1>1. CASE CoveredIn(o, es, p)
  BY <1>1 DEF LeftOf, Passage
<1>2. CASE ~CoveredIn(o, es, p)
  <2>1. p \in 1..Len(o)
    BY <1>2 DEF CoveredIn, Passage
  <2>2. o[p] \in Nat
    BY <2>1 DEF Passage
  <2>3. QED
    BY <1>2, <2>2 DEF LeftOf, Passage
<1>3. QED
  BY <1>1, <1>2

LEMMA UpIs ==
    ASSUME NEW o \in Passage, NEW es \in Seq(Edit)
    PROVE  /\ Up(o, es, 0) = <<>>
           /\ \A p \in 0..(Len(o) + 1) : Up(o, es, p) \in Passage
           /\ \A p \in 1..(Len(o) + 1) :
                 Up(o, es, p) = Up(o, es, p - 1) \o PutIn(es, p) \o LeftOf(o, es, p)
<1> DEFINE n == Len(o) + 1
           V == Passage
           add(p, x) == x \o PutIn(es, p) \o LeftOf(o, es, p)
           g == [ix \in Nat \X V |-> IF ix[1] \in 1..n THEN add(ix[1], ix[2]) ELSE ix[2]]
<1>1. n \in Nat /\ <<>> \in V
  BY DEF Passage
<1>2. ASSUME NEW p \in 1..n, NEW x \in V PROVE add(p, x) \in V
  <2>1. PutIn(es, p) \in Passage /\ LeftOf(o, es, p) \in Passage
    BY PutTyped, LeftTyped
  <2>2. x \o PutIn(es, p) \in Passage
    BY <2>1, ConcatProperties DEF Passage
  <2>3. QED
    BY <2>1, <2>2, ConcatProperties DEF Passage
<1> HIDE DEF V, add
<1>3. g \in [Nat \X V -> V]
  BY <1>2
<1>4. ASSUME NEW p \in 1..n, NEW x \in V PROVE g[<<p, x>>] = add(p, x)
  <2>1. <<p, x>> \in Nat \X V
    BY <1>1
  <2>2. QED
    BY <2>1
<1> HIDE DEF g
<1>5. PICK f : Solves(f, n, V, <<>>, g)
  <2> HIDE DEF n
  <2>1. QED
    BY <1>1, <1>3, Recursion
<1>6. f \in [0..n -> V] /\ f[0] = <<>> /\ \A p \in 1..n : f[p] = add(p, f[p - 1])
  <2>1. f \in [0..n -> V] /\ f[0] = <<>> /\ \A p \in 1..n : f[p] = g[<<p, f[p - 1]>>]
    BY <1>5 DEF Solves
  <2>2. \A p \in 1..n : f[p - 1] \in V
    BY <1>1, <2>1
  <2>3. QED
    BY <1>4, <2>1, <2>2
<1>7. UpBy(f, o, es)
  <2>1. \A p \in 0..n : f[p] = IF p = 0 THEN <<>> ELSE add(p, f[p - 1])
    BY <1>1, <1>6
  <2>2. f = [p \in 0..n |-> f[p]]
    BY <1>6
  <2>3. f = [p \in 0..n |-> IF p = 0 THEN <<>> ELSE add(p, f[p - 1])]
    BY <2>1, <2>2
  <2>4. QED
    BY <2>3 DEF UpBy, add
<1>8. PICK h : h = CHOOSE hh : UpBy(hh, o, es)
  OBVIOUS
<1>9. UpBy(h, o, es)
  BY <1>7, <1>8
<1>10. h[0] = <<>> /\ \A p \in 1..n : h[p] = add(p, h[p - 1])
  <2>1. h = [p \in 0..n |-> IF p = 0 THEN <<>> ELSE add(p, h[p - 1])]
    BY <1>9 DEF UpBy, add
  <2>2. QED
    BY <1>1, <2>1
<1>11. \A p \in 0..n : h[p] \in V
  <2>1. \A p \in 1..n : h[p - 1] \in V => h[p] \in V
    BY <1>2, <1>10
  <2>2. h[0] \in V
    BY <1>1, <1>10
  <2> HIDE DEF n
  <2>3. QED
    BY <1>1, <2>1, <2>2, AllTyped
<1>12. \A p : Up(o, es, p) = h[p]
  BY <1>8 DEF Up
<1>13. QED
  BY <1>10, <1>11, <1>12 DEF V, add

\* Edits that agree on the lines up to m make the same of them.
LEMMA UpSame ==
    ASSUME NEW o \in Passage, NEW es \in Seq(Edit), NEW ds \in Seq(Edit), NEW m \in 0..Len(o),
           \A p \in 1..m : PutIn(es, p) = PutIn(ds, p) /\ LeftOf(o, es, p) = LeftOf(o, ds, p)
    PROVE  Up(o, es, m) = Up(o, ds, m)
<1> DEFINE S == {p \in Nat : p <= m => Up(o, es, p) = Up(o, ds, p)}
<1>1. 0 \in S
  <2>1. Up(o, es, 0) = <<>> /\ Up(o, ds, 0) = <<>>
    BY UpIs
  <2>2. QED
    BY <2>1
<1>2. ASSUME NEW k \in S, k < m PROVE k + 1 \in S
  <2>1. PICK p : p = k + 1
    OBVIOUS
  <2>2. p \in 1..m /\ p \in 1..(Len(o) + 1) /\ p - 1 = k /\ p \in Nat /\ Up(o, es, k) = Up(o, ds, k)
    BY <1>2, <2>1
  <2>3. Up(o, es, p) = Up(o, es, p - 1) \o PutIn(es, p) \o LeftOf(o, es, p)
    BY <2>2, UpIs
  <2>4. Up(o, ds, p) = Up(o, ds, p - 1) \o PutIn(ds, p) \o LeftOf(o, ds, p)
    BY <2>2, UpIs
  <2>5. Up(o, es, p) = Up(o, ds, p)
    BY <2>2, <2>3, <2>4
  <2>6. QED
    BY <2>1, <2>2, <2>5
<1>3. 0..m \subseteq S
  <2>1. S \in SUBSET Nat /\ m \in Nat
    OBVIOUS
  <2> HIDE DEF S
  <2>2. QED
    BY <1>1, <1>2, <2>1, UpTo
<1>4. m \in 0..m
  OBVIOUS
<1>5. QED
  BY <1>3, <1>4

\* What has been put out when line k is next.
OutUpTo(o, es, k) == Up(o, es, k - 1) \o PutIn(es, k)

LEMMA OutTyped ==
    ASSUME NEW o \in Passage, NEW es \in Seq(Edit), NEW k \in 1..(Len(o) + 1)
    PROVE  OutUpTo(o, es, k) \in Passage
<1>1. k - 1 \in 0..(Len(o) + 1)
  OBVIOUS
<1>2. Up(o, es, k - 1) \in Passage /\ PutIn(es, k) \in Passage
  BY <1>1, UpIs, PutTyped
<1>3. QED
  BY <1>2, ConcatProperties DEF OutUpTo, Passage

LEMMA OutStep ==
    ASSUME NEW o \in Passage, NEW es \in Seq(Edit), NEW k \in 1..Len(o), PutIn(es, k + 1) = <<>>
    PROVE  OutUpTo(o, es, k + 1) = OutUpTo(o, es, k) \o LeftOf(o, es, k)
<1>1. k \in 1..(Len(o) + 1) /\ (k + 1) - 1 = k /\ k \in 0..(Len(o) + 1) /\ k \in Nat \ {0}
  OBVIOUS
<1>2. Up(o, es, k) = Up(o, es, k - 1) \o PutIn(es, k) \o LeftOf(o, es, k)
  BY <1>1, UpIs
<1>3. Up(o, es, k) = OutUpTo(o, es, k) \o LeftOf(o, es, k)
  BY <1>2 DEF OutUpTo
<1>4. Up(o, es, k) \in Passage
  BY <1>1, UpIs
<1>5. Up(o, es, k) \o <<>> = Up(o, es, k)
  BY <1>4, ConcatEmptySeq DEF Passage
<1>6. OutUpTo(o, es, k + 1) = Up(o, es, k) \o <<>>
  BY <1>1 DEF OutUpTo
<1>7. QED
  BY <1>3, <1>5, <1>6

\* Lines that no range has and before which nothing is put are copied.
LEMMA OutCopies ==
    ASSUME NEW o \in Passage, NEW es \in Seq(Edit), NEW k \in 1..(Len(o) + 1), NEW j \in k..(Len(o) + 1),
           \A p \in (k + 1)..j : PutIn(es, p) = <<>>, \A p \in k..(j - 1) : ~CoveredIn(o, es, p)
    PROVE  OutUpTo(o, es, j) = OutUpTo(o, es, k) \o SubSeq(o, k, j - 1)
<1>1. PICK u : u = OutUpTo(o, es, k)
  OBVIOUS
<1>2. u \in Passage
  BY <1>1, OutTyped
<1> DEFINE S == {d \in Nat : k + d <= j => OutUpTo(o, es, k + d) = u \o SubSeq(o, k, (k + d) - 1)}
<1>3. 0 \in S
  <2>1. k + 0 = k /\ SubSeq(o, k, k - 1) = <<>>
    BY DEF Passage
  <2>2. u \o <<>> = u
    BY <1>2, ConcatEmptySeq DEF Passage
  <2>3. QED
    BY <1>1, <2>1, <2>2
<1>4. ASSUME NEW d \in S, d < j - k PROVE d + 1 \in S
  <2>1. PICK p : p = k + d
    OBVIOUS
  <2>2. d \in Nat /\ p \in 1..Len(o) /\ p \in k..(j - 1) /\ p + 1 \in (k + 1)..j
        /\ k + (d + 1) = p + 1 /\ (p + 1) - 1 = p /\ k + d <= j
    BY <1>4, <2>1
  <2>3. OutUpTo(o, es, p) = u \o SubSeq(o, k, p - 1)
    BY <2>1, <2>2
  <2>4. PutIn(es, p + 1) = <<>> /\ LeftOf(o, es, p) = <<o[p]>>
    BY <2>2 DEF LeftOf
  <2>5. OutUpTo(o, es, p + 1) = (u \o SubSeq(o, k, p - 1)) \o <<o[p]>>
    BY <2>2, <2>3, <2>4, OutStep
  <2>6. SubSeq(o, k, p - 1) \in Passage /\ <<o[p]>> \in Passage
    <3>1. \A i \in k..(p - 1) : o[i] \in Nat
      <4>1. \A i \in 1..Len(o) : o[i] \in Nat
        BY DEF Passage
      <4>2. \A i \in k..(p - 1) : i \in 1..Len(o)
        BY <2>2
      <4>3. QED
        BY <4>1, <4>2
    <3>2. k \in Int /\ p - 1 \in Int /\ o[p] \in Nat
      BY <2>2 DEF Passage
    <3>3. SubSeq(o, k, p - 1) \in Seq(Nat)
      BY <3>1, <3>2, SubSeqProperties
    <3>4. QED
      BY <3>2, <3>3 DEF Passage
  <2>7. (u \o SubSeq(o, k, p - 1)) \o <<o[p]>> = u \o (SubSeq(o, k, p - 1) \o <<o[p]>>)
    BY <1>2, <2>6, PassagesJoin
  <2>8. SubSeq(o, k, p - 1) \o <<o[p]>> = SubSeq(o, k, p)
    <3>1. k \in 1..Len(o) /\ p \in k..Len(o) /\ o \in Seq(Nat)
      BY <2>2 DEF Passage
    <3>2. QED
      BY <3>1, SubSeqRecursiveSecond
  <2>9. OutUpTo(o, es, k + (d + 1)) = u \o SubSeq(o, k, (k + (d + 1)) - 1)
    BY <2>2, <2>5, <2>7, <2>8
  <2>10. d + 1 \in Nat
    BY <2>2
  <2>11. QED
    BY <2>9, <2>10
<1>5. j - k \in Nat /\ k + (j - k) = j
  OBVIOUS
<1>6. 0..(j - k) \subseteq S
  <2>1. S \in SUBSET Nat
    OBVIOUS
  <2> HIDE DEF S
  <2>2. QED
    BY <1>3, <1>4, <1>5, <2>1, UpTo
<1>7. j - k \in S
  <2>1. j - k \in 0..(j - k)
    BY <1>5
  <2> HIDE DEF S
  <2>2. QED
    BY <1>6, <2>1
<1>8. QED
  BY <1>1, <1>5, <1>7

\* Lines a range has are passed over.
LEMMA OutPasses ==
    ASSUME NEW o \in Passage, NEW es \in Seq(Edit), NEW k \in 1..(Len(o) + 1), NEW j \in k..(Len(o) + 1),
           \A p \in (k + 1)..j : PutIn(es, p) = <<>>, \A p \in k..(j - 1) : CoveredIn(o, es, p)
    PROVE  OutUpTo(o, es, j) = OutUpTo(o, es, k)
<1>1. PICK u : u = OutUpTo(o, es, k)
  OBVIOUS
<1>2. u \in Passage
  BY <1>1, OutTyped
<1> DEFINE S == {d \in Nat : k + d <= j => OutUpTo(o, es, k + d) = u}
<1>3. 0 \in S
  <2>1. k + 0 = k
    OBVIOUS
  <2>2. QED
    BY <1>1, <2>1
<1>4. ASSUME NEW d \in S, d < j - k PROVE d + 1 \in S
  <2>1. PICK p : p = k + d
    OBVIOUS
  <2>2. d \in Nat /\ p \in 1..Len(o) /\ p \in k..(j - 1) /\ p + 1 \in (k + 1)..j
        /\ k + (d + 1) = p + 1 /\ k + d <= j
    BY <1>4, <2>1
  <2>3. OutUpTo(o, es, p) = u
    BY <2>1, <2>2
  <2>4. PutIn(es, p + 1) = <<>> /\ LeftOf(o, es, p) = <<>>
    BY <2>2 DEF LeftOf
  <2>5. OutUpTo(o, es, p + 1) = u \o <<>>
    BY <2>2, <2>3, <2>4, OutStep
  <2>6. u \o <<>> = u
    BY <1>2, ConcatEmptySeq DEF Passage
  <2>7. QED
    BY <2>2, <2>5, <2>6
<1>5. j - k \in Nat /\ k + (j - k) = j
  OBVIOUS
<1>6. 0..(j - k) \subseteq S
  <2>1. S \in SUBSET Nat
    OBVIOUS
  <2> HIDE DEF S
  <2>2. QED
    BY <1>3, <1>4, <1>5, <2>1, UpTo
<1>7. j - k \in S
  <2>1. j - k \in 0..(j - k)
    BY <1>5
  <2> HIDE DEF S
  <2>2. QED
    BY <1>6, <2>1
<1>8. QED
  BY <1>1, <1>5, <1>7

\* The edits so far lie before the next line, apart, and made what is put out.
Fit(o, es, next) ==
    /\ next \in 1..(Len(o) + 1)
    /\ \A i \in 1..Len(es) : /\ es[i].from \in 1..next /\ es[i].to < next /\ es[i].to <= Len(o)
                             /\ \A j \in 1..Len(es) : i < j => es[i].to < es[j].from
    /\ next = IF es = <<>> THEN 1 ELSE es[Len(es)].to + 1

LEMMA FitStep ==
    ASSUME NEW o \in Passage, NEW es \in Seq(Edit), NEW next, NEW e \in Edit, Fit(o, es, next),
           next <= e.from, e.from <= Len(o) + 1, e.from - 1 <= e.to, e.to <= Len(o)
    PROVE  /\ Fit(o, Append(es, e), e.to + 1)
           /\ OutUpTo(o, Append(es, e), e.to + 1) =
                OutUpTo(o, es, next) \o SubSeq(o, next, e.from - 1) \o e.new
<1>1. PICK n : n = Len(o)
  OBVIOUS
<1>2. PICK m : m = Len(es)
  OBVIOUS
<1>3. PICK ds : ds = Append(es, e)
  OBVIOUS
<1>4. n \in Nat /\ m \in Nat /\ e.from \in Nat /\ e.to \in Int /\ e.new \in Passage
  BY <1>1, <1>2 DEF Edit, Passage
<1>5. ds \in Seq(Edit) /\ Len(ds) = m + 1 /\ ds[m + 1] = e /\ ds # <<>> /\ \A i \in 1..m : ds[i] = es[i]
  BY <1>2, <1>3
<1>6. next \in 1..(n + 1)
  BY <1>1 DEF Fit
<1>7. \A i \in 1..m : es[i].from \in 1..next /\ es[i].to < next /\ es[i].to <= n
  BY <1>1, <1>2 DEF Fit
<1>8. \A i, j \in 1..m : i < j => es[i].to < es[j].from
  BY <1>2 DEF Fit
<1>9. \A i \in 1..m : es[i].from \in Nat /\ es[i].to \in Int
  <2>1. \A i \in 1..m : es[i] \in Edit
    BY <1>2
  <2>2. QED
    BY <2>1 DEF Edit
<1>10. e.from \in 1..(n + 1) /\ e.to + 1 \in 1..(n + 1) /\ e.from <= e.to + 1
  BY <1>1, <1>4, <1>6
<1>11. Fit(o, ds, e.to + 1)
  <2>1. ASSUME NEW i \in 1..(m + 1)
        PROVE  /\ ds[i].from \in 1..(e.to + 1) /\ ds[i].to < e.to + 1 /\ ds[i].to <= n
               /\ \A j \in 1..(m + 1) : i < j => ds[i].to < ds[j].from
    <3>1. CASE i = m + 1
      BY <1>1, <1>4, <1>5, <1>10, <3>1
    <3>2. CASE i # m + 1
      <4>1. i \in 1..m /\ ds[i] = es[i]
        BY <1>4, <1>5, <3>2
      <4>2. es[i].from \in 1..next /\ es[i].to < next /\ es[i].to <= n /\ es[i].to \in Int
        BY <1>7, <1>9, <4>1
      <4>3. ASSUME NEW j \in 1..(m + 1), i < j PROVE ds[i].to < ds[j].from
        <5>1. CASE j = m + 1
          BY <1>4, <1>5, <1>6, <4>1, <4>2, <5>1
        <5>2. CASE j # m + 1
          <6>1. j \in 1..m /\ ds[j] = es[j]
            BY <1>4, <1>5, <5>2
          <6>2. QED
            BY <1>8, <4>1, <4>3, <6>1
        <5>3. QED
          BY <5>1, <5>2
      <4>4. ds[i].from \in 1..(e.to + 1) /\ ds[i].to < e.to + 1
        <5>1. next <= e.to + 1 /\ next \in Nat /\ e.to + 1 \in Nat
          BY <1>4, <1>6, <1>10
        <5>2. QED
          BY <4>1, <4>2, <5>1
      <4>5. QED
        BY <4>1, <4>2, <4>3, <4>4
    <3>3. QED
      BY <3>1, <3>2
  <2>2. e.to + 1 = IF ds = <<>> THEN 1 ELSE ds[Len(ds)].to + 1
    BY <1>5
  <2>3. QED
    BY <1>1, <1>5, <1>10, <2>1, <2>2 DEF Fit
<1>12. PICK x : x = SubSeq(o, next, e.from - 1)
  OBVIOUS
<1>13. OutUpTo(o, es, e.from) = OutUpTo(o, es, next) \o x
  <2>1. e.from \in next..(n + 1)
    BY <1>1, <1>4, <1>6
  <2>2. ASSUME NEW p \in (next + 1)..e.from PROVE PutIn(es, p) = <<>>
    <3>1. \A i \in 1..m : es[i].from # p
      BY <1>6, <1>7
    <3>2. QED
      BY <1>2, <3>1, PutNone
  <2>3. ASSUME NEW p \in next..(e.from - 1) PROVE ~CoveredIn(o, es, p)
    <3>1. p <= n /\ p \in Nat
      BY <1>4, <1>6, <1>10
    <3>2. \A i \in 1..m : ~(p \in es[i].from..es[i].to)
      BY <1>6, <1>7, <1>9
    <3>3. DOMAIN es = 1..m
      BY <1>2
    <3>4. QED
      BY <1>1, <1>4, <3>1, <3>2, <3>3 DEF CoveredIn
  <2>4. QED
    BY <1>1, <1>6, <1>12, <2>1, <2>2, <2>3, OutCopies
<1>14. OutUpTo(o, ds, e.from) = OutUpTo(o, es, e.from) \o e.new
  <2>1. e.from - 1 \in 0..n
    BY <1>4, <1>10
  <2>2. ASSUME NEW p \in 1..(e.from - 1)
        PROVE  PutIn(es, p) = PutIn(ds, p) /\ LeftOf(o, es, p) = LeftOf(o, ds, p)
    <3>1. e.from # p /\ ~(p \in e.from..e.to)
      BY <1>4
    <3>2. PutIn(ds, p) = PutIn(es, p)
      BY <1>3, <3>1, PutStep
    <3>3. DOMAIN es = 1..m /\ DOMAIN ds = 1..(m + 1)
      BY <1>2, <1>5
    <3>4. (\E i \in DOMAIN ds : p \in ds[i].from..ds[i].to) <=> (\E i \in DOMAIN es : p \in es[i].from..es[i].to)
      <4>1. \A i \in 1..(m + 1) : i \in 1..m \/ i = m + 1
        BY <1>4
      <4>2. \A i \in 1..m : i \in 1..(m + 1)
        BY <1>4
      <4>3. QED
        BY <1>5, <3>1, <3>3, <4>1, <4>2
    <3>5. QED
      BY <3>2, <3>4 DEF LeftOf, CoveredIn
  <2>3. Up(o, es, e.from - 1) = Up(o, ds, e.from - 1)
    BY <1>1, <1>5, <2>1, <2>2, UpSame
  <2>4. PutIn(ds, e.from) = PutIn(es, e.from) \o e.new
    BY <1>3, PutStep
  <2>5. Up(o, es, e.from - 1) \in Passage /\ PutIn(es, e.from) \in Passage
    <3>1. e.from - 1 \in 0..(Len(o) + 1)
      BY <1>1, <2>1
    <3>2. QED
      BY <3>1, UpIs, PutTyped
  <2>6. Up(o, es, e.from - 1) \o (PutIn(es, e.from) \o e.new)
          = (Up(o, es, e.from - 1) \o PutIn(es, e.from)) \o e.new
    BY <1>4, <2>5, PassagesJoin
  <2>7. QED
    BY <2>3, <2>4, <2>6 DEF OutUpTo
<1>15. OutUpTo(o, ds, e.to + 1) = OutUpTo(o, ds, e.from)
  <2>1. e.to + 1 \in e.from..(n + 1) /\ (e.to + 1) - 1 = e.to
    BY <1>4, <1>10
  <2>2. ASSUME NEW p \in (e.from + 1)..(e.to + 1) PROVE PutIn(ds, p) = <<>>
    <3>1. ASSUME NEW i \in 1..(m + 1) PROVE ds[i].from # p
      <4>1. CASE i = m + 1
        <5>1. ds[i].from = e.from /\ e.from \in Nat /\ e.to \in Int
          BY <1>4, <1>5, <4>1
        <5>2. QED
          BY <5>1
      <4>2. CASE i # m + 1
        <5>1. i \in 1..m /\ ds[i] = es[i]
          BY <1>4, <1>5, <4>2
        <5>2. es[i].from \in 1..next
          BY <1>7, <5>1
        <5>3. es[i].from <= e.from /\ es[i].from \in Nat
          <6>1. es[i].from <= next /\ next \in Nat /\ es[i].from \in Nat
            BY <1>4, <1>6, <5>2
          <6>2. PICK a \in Nat, b \in Nat : a = es[i].from /\ b = e.from
            BY <1>4, <6>1
          <6>3. QED
            BY <6>1, <6>2
        <5>4. QED
          BY <1>4, <5>1, <5>3
      <4>3. QED
        BY <4>1, <4>2
    <3>2. QED
      BY <1>5, <3>1, PutNone
  <2>3. ASSUME NEW p \in e.from..((e.to + 1) - 1) PROVE CoveredIn(o, ds, p)
    <3>1. p \in e.from..e.to
      BY <2>1
    <3>2. m + 1 \in DOMAIN ds
      BY <1>4, <1>5
    <3>3. QED
      BY <1>5, <3>1, <3>2 DEF CoveredIn
  <2>4. QED
    BY <1>1, <1>5, <1>10, <2>1, <2>2, <2>3, OutPasses
<1>16. QED
  BY <1>3, <1>11, <1>12, <1>13, <1>14, <1>15

-----------------------------------------------------------------------------
(* The rows of a hunk.                                                      *)

RowMarks == {" ", "-", "+"}
Row == [op : RowMarks, text : Nat]
NewBy(f, rows) ==
    f = [i \in 0..Len(rows) |->
            IF i = 0 THEN <<>> ELSE IF rows[i].op = "-" THEN f[i - 1] ELSE Append(f[i - 1], rows[i].text)]
News(f, rows) ==
    /\ f[0] = <<>> /\ \A i \in 0..Len(rows) : f[i] \in Passage
    /\ \A i \in 1..Len(rows) : f[i] = IF rows[i].op = "-" THEN f[i - 1] ELSE Append(f[i - 1], rows[i].text)

LEMMA NewSolves ==
    ASSUME NEW rows \in Seq(Row)
    PROVE  \E f : News(f, rows) /\ New(rows) = f[Len(rows)]
<1> DEFINE n == Len(rows)
           V == Passage
           add(i, x) == IF rows[i].op = "-" THEN x ELSE Append(x, rows[i].text)
           g == [ix \in Nat \X V |-> IF ix[1] \in 1..n THEN add(ix[1], ix[2]) ELSE ix[2]]
<1>1. n \in Nat /\ <<>> \in V /\ \A i \in 1..n : rows[i] \in Row
  BY DEF Passage
<1>2. ASSUME NEW i \in 1..n, NEW x \in V PROVE add(i, x) \in V
  <2>1. rows[i].text \in Nat
    BY <1>1 DEF Row
  <2>2. QED
    BY <2>1 DEF Passage
<1> HIDE DEF V, add
<1>3. g \in [Nat \X V -> V]
  BY <1>2
<1>4. ASSUME NEW i \in 1..n, NEW x \in V PROVE g[<<i, x>>] = add(i, x)
  <2>1. <<i, x>> \in Nat \X V
    BY <1>1
  <2>2. QED
    BY <2>1
<1> HIDE DEF g
<1>5. PICK f : Solves(f, n, V, <<>>, g)
  BY <1>1, <1>3, Recursion
<1>6. f \in [0..n -> V] /\ f[0] = <<>> /\ \A i \in 1..n : f[i] = add(i, f[i - 1])
  <2>1. f \in [0..n -> V] /\ f[0] = <<>> /\ \A i \in 1..n : f[i] = g[<<i, f[i - 1]>>]
    BY <1>5 DEF Solves
  <2>2. \A i \in 1..n : f[i - 1] \in V
    BY <1>1, <2>1
  <2>3. QED
    BY <1>4, <2>1, <2>2
<1>7. NewBy(f, rows)
  <2>1. \A i \in 0..n : f[i] = IF i = 0 THEN <<>> ELSE add(i, f[i - 1])
    BY <1>1, <1>6
  <2>2. f = [i \in 0..n |-> f[i]]
    BY <1>6
  <2>3. f = [i \in 0..n |-> IF i = 0 THEN <<>> ELSE add(i, f[i - 1])]
    BY <2>1, <2>2
  <2>4. QED
    BY <2>3 DEF NewBy, add
<1>8. PICK h : h = CHOOSE hh : NewBy(hh, rows)
  OBVIOUS
<1>9. NewBy(h, rows)
  BY <1>7, <1>8
<1>10. New(rows) = h[n]
  BY <1>8 DEF New, NewBy
<1>11. h[0] = <<>> /\ \A i \in 1..n : h[i] = add(i, h[i - 1])
  <2>1. h = [i \in 0..n |-> IF i = 0 THEN <<>> ELSE add(i, h[i - 1])]
    BY <1>9 DEF NewBy, add
  <2>2. QED
    BY <1>1, <2>1
<1>12. \A i \in 0..n : h[i] \in V
  <2>1. \A i \in 1..n : h[i - 1] \in V => h[i] \in V
    BY <1>2, <1>11
  <2>2. h[0] \in V /\ n \in Nat
    BY <1>1, <1>11
  <2> HIDE DEF n
  <2>3. QED
    BY <2>1, <2>2, AllTyped
<1>13. News(h, rows)
  BY <1>11, <1>12 DEF News, V, add
<1>14. QED
  BY <1>10, <1>13

WalkFrom(from) == [cursor |-> from, out |-> <<>>, fits |-> TRUE]
WalkRow(r, w) ==
    [cursor |-> IF r.op = "+" THEN w.cursor ELSE w.cursor + 1,
     out  |-> IF r.op = "-" THEN w.out ELSE Append(w.out, r.text),
     fits |-> w.fits /\ (r.op # "+" => w.cursor <= Lines /\ original[w.cursor] = r.text)]
WalkBy(f, rows, from) ==
    f = [i \in 0..Len(rows) |-> IF i = 0 THEN WalkFrom(from) ELSE WalkRow(rows[i], f[i - 1])]
WalkType == [cursor : Nat, out : Passage, fits : BOOLEAN]

LEMMA WalkRowTyped ==
    ASSUME NEW r \in Row, NEW w \in WalkType
    PROVE  WalkRow(r, w) \in WalkType
<1>1. w.cursor \in Nat /\ w.out \in Passage /\ r.text \in Nat
  BY DEF WalkType, Row
<1>2. w.cursor + 1 \in Nat /\ Append(w.out, r.text) \in Passage
  BY <1>1 DEF Passage
<1>3. PICK b : b = (w.fits /\ (r.op # "+" => w.cursor <= Lines /\ original[w.cursor] = r.text))
  OBVIOUS
<1>4. b \in BOOLEAN
  BY <1>3
<1>5. WalkRow(r, w) = [cursor |-> IF r.op = "+" THEN w.cursor ELSE w.cursor + 1,
                       out  |-> IF r.op = "-" THEN w.out ELSE Append(w.out, r.text), fits |-> b]
  BY <1>3 DEF WalkRow
<1>6. QED
  BY <1>1, <1>2, <1>4, <1>5 DEF WalkType

LEMMA WalkSolves ==
    ASSUME NEW rows \in Seq(Row), NEW from \in Nat
    PROVE  \E f : /\ Walk(rows, from) = f[Len(rows)] /\ f[0] = WalkFrom(from)
                  /\ \A i \in 0..Len(rows) : f[i] \in WalkType
                  /\ \A i \in 1..Len(rows) : f[i] = WalkRow(rows[i], f[i - 1])
<1> DEFINE n == Len(rows)
           V == WalkType
           g == [ix \in Nat \X V |-> IF ix[1] \in 1..n THEN WalkRow(rows[ix[1]], ix[2]) ELSE ix[2]]
<1>1. n \in Nat /\ \A i \in 1..n : rows[i] \in Row
  OBVIOUS
<1>2. WalkFrom(from) \in V
  BY DEF WalkFrom, WalkType, Passage
<1>3. \A i \in 1..n, x \in V : WalkRow(rows[i], x) \in V
  BY <1>1, WalkRowTyped
<1> HIDE DEF V
<1>4. g \in [Nat \X V -> V]
  BY <1>3
<1>5. ASSUME NEW i \in 1..n, NEW x \in V PROVE g[<<i, x>>] = WalkRow(rows[i], x)
  <2>1. <<i, x>> \in Nat \X V
    BY <1>1
  <2>2. QED
    BY <2>1
<1> HIDE DEF g
<1>6. PICK a : a = WalkFrom(from)
  OBVIOUS
<1>7. PICK f : Solves(f, n, V, a, g)
  BY <1>1, <1>2, <1>4, <1>6, Recursion
<1>8. f \in [0..n -> V] /\ f[0] = a /\ \A i \in 1..n : f[i] = WalkRow(rows[i], f[i - 1])
  <2>1. f \in [0..n -> V] /\ f[0] = a /\ \A i \in 1..n : f[i] = g[<<i, f[i - 1]>>]
    BY <1>7 DEF Solves
  <2>2. \A i \in 1..n : f[i - 1] \in V
    BY <1>1, <2>1
  <2>3. QED
    BY <1>5, <2>1, <2>2
<1>9. WalkBy(f, rows, from)
  <2>1. \A i \in 0..n : f[i] = IF i = 0 THEN WalkFrom(from) ELSE WalkRow(rows[i], f[i - 1])
    BY <1>1, <1>6, <1>8
  <2>2. f = [i \in 0..n |-> f[i]]
    BY <1>8
  <2>3. QED
    BY <2>1, <2>2 DEF WalkBy
<1>10. PICK h : h = CHOOSE hh : WalkBy(hh, rows, from)
  OBVIOUS
<1>11. WalkBy(h, rows, from)
  BY <1>9, <1>10
<1>12. Walk(rows, from) = h[n]
  BY <1>10 DEF Walk, WalkBy, WalkFrom, WalkRow
<1>13. h[0] = WalkFrom(from) /\ \A i \in 1..n : h[i] = WalkRow(rows[i], h[i - 1])
  BY <1>1, <1>11 DEF WalkBy
<1>14. \A i \in 0..n : h[i] \in V
  <2>1. \A i \in 1..n : h[i - 1] \in V => h[i] \in V
    BY <1>3, <1>13
  <2>2. h[0] \in V /\ n \in Nat
    BY <1>1, <1>2, <1>13
  <2> HIDE DEF n
  <2>3. QED
    BY <2>1, <2>2, AllTyped
<1>15. QED
  BY <1>12, <1>13, <1>14 DEF V

\* The rows that are walked past: as many lines as the hunk is about.
CountTo(rows, k) == Cardinality({j \in 1..k : rows[j].op # "+"})
WalkedPast(rows, from, f, h, k) ==
    /\ f[k].out = h[k] /\ f[k].cursor = from + CountTo(rows, k)
    /\ f[k].fits /\ from <= Lines + 1 => f[k].cursor <= Lines + 1

LEMMA CountStep ==
    ASSUME NEW rows, NEW k \in Nat
    PROVE  /\ CountTo(rows, k) \in Nat /\ CountTo(rows, 0) = 0
           /\ CountTo(rows, k + 1) = IF rows[k + 1].op # "+" THEN CountTo(rows, k) + 1 ELSE CountTo(rows, k)
<1> DEFINE K(m) == {j \in 1..m : rows[j].op # "+"}
<1>1. IsFiniteSet(K(k))
  <2>1. IsFiniteSet(1..k)
    BY FS_Interval
  <2>2. K(k) \subseteq 1..k
    OBVIOUS
  <2> HIDE DEF K
  <2>3. QED
    BY <2>1, <2>2, FS_Subset
<1>2. K(k + 1) = IF rows[k + 1].op # "+" THEN K(k) \cup {k + 1} ELSE K(k)
  <2>1. \A j : j \in 1..(k + 1) <=> j \in 1..k \/ j = k + 1
    OBVIOUS
  <2>2. QED
    BY <2>1
<1>3. k + 1 \notin K(k) /\ K(0) = {}
  OBVIOUS
<1>4. \A m : CountTo(rows, m) = Cardinality(K(m))
  BY DEF CountTo
<1> HIDE DEF K
<1>5. Cardinality(K(k)) \in Nat /\ Cardinality(K(k) \cup {k + 1}) = Cardinality(K(k)) + 1
  BY <1>1, <1>3, FS_CardinalityType, FS_AddElement
<1>6. Cardinality(K(0)) = 0
  BY <1>3, FS_EmptySet
<1>7. QED
  BY <1>2, <1>4, <1>5, <1>6

LEMMA WalkIs ==
    ASSUME NEW rows \in Seq(Row), NEW from \in Nat, original \in Passage
    PROVE  /\ Walk(rows, from) \in WalkType /\ OldCount(rows) \in Nat
           /\ Walk(rows, from).out = New(rows) /\ Walk(rows, from).cursor = from + OldCount(rows)
           /\ Walk(rows, from).fits /\ from <= Lines + 1 => Walk(rows, from).cursor <= Lines + 1
<1>1. PICK n : n = Len(rows)
  OBVIOUS
<1>2. PICK f : /\ Walk(rows, from) = f[n] /\ f[0] = WalkFrom(from)
               /\ \A i \in 0..n : f[i] \in WalkType
               /\ \A i \in 1..n : f[i] = WalkRow(rows[i], f[i - 1])
  BY <1>1, WalkSolves
<1>3. PICK h : News(h, rows) /\ New(rows) = h[n]
  BY <1>1, NewSolves
<1>4. h[0] = <<>> /\ \A i \in 1..n : h[i] = IF rows[i].op = "-" THEN h[i - 1] ELSE Append(h[i - 1], rows[i].text)
  BY <1>1, <1>3 DEF News
<1>5. n \in Nat /\ Lines \in Nat
  BY <1>1 DEF Lines, Passage
<1> DEFINE S == {k \in Nat : k <= n => WalkedPast(rows, from, f, h, k)}
<1>6. 0 \in S
  <2>1. f[0].out = <<>> /\ f[0].cursor = from
    BY <1>2 DEF WalkFrom
  <2>2. CountTo(rows, 0) = 0
    BY CountStep
  <2>3. WalkedPast(rows, from, f, h, 0)
    BY <1>4, <2>1, <2>2 DEF WalkedPast
  <2>4. QED
    BY <2>3
<1>7. ASSUME NEW k \in S, k < n PROVE k + 1 \in S
  <2>1. PICK i : i = k + 1
    OBVIOUS
  <2>2. k \in Nat /\ i \in 1..n /\ i - 1 = k /\ i \in Nat /\ k \in 0..n /\ WalkedPast(rows, from, f, h, k)
    BY <1>5, <1>7, <2>1
  <2>3. PICK w : w = f[k]
    OBVIOUS
  <2>4. PICK v : v = f[i]
    OBVIOUS
  <2>5. PICK r : r = rows[i]
    OBVIOUS
  <2>6. w \in WalkType /\ v = WalkRow(r, w) /\ r \in Row
    BY <1>1, <1>2, <2>2, <2>3, <2>4, <2>5
  <2>7. /\ v.cursor = (IF r.op = "+" THEN w.cursor ELSE w.cursor + 1)
        /\ v.out = (IF r.op = "-" THEN w.out ELSE Append(w.out, r.text))
        /\ v.fits => w.fits /\ (r.op # "+" => w.cursor <= Lines)
    BY <2>6 DEF WalkRow
  <2>8. w.out = h[k] /\ w.cursor = from + CountTo(rows, k) /\ w.cursor \in Nat
        /\ (w.fits /\ from <= Lines + 1 => w.cursor <= Lines + 1)
    BY <2>2, <2>3, <2>6 DEF WalkedPast, WalkType
  <2>9. h[i] = IF r.op = "-" THEN h[k] ELSE Append(h[k], r.text)
    BY <1>4, <2>2, <2>5
  <2>10. CountTo(rows, k) \in Nat /\ CountTo(rows, i) = IF r.op # "+" THEN CountTo(rows, k) + 1 ELSE CountTo(rows, k)
    BY <2>1, <2>2, <2>5, CountStep
  <2>11. v.out = h[i]
    BY <2>7, <2>8, <2>9
  <2>12. v.cursor = from + CountTo(rows, i)
    BY <2>7, <2>8, <2>10
  <2>13. v.fits /\ from <= Lines + 1 => v.cursor <= Lines + 1
    BY <1>5, <2>7, <2>8
  <2>14. WalkedPast(rows, from, f, h, i)
    BY <2>4, <2>11, <2>12, <2>13 DEF WalkedPast
  <2>15. QED
    BY <2>1, <2>2, <2>14
<1>8. 0..n \subseteq S
  <2>1. S \in SUBSET Nat
    OBVIOUS
  <2> HIDE DEF S
  <2>2. QED
    BY <1>5, <1>6, <1>7, <2>1, UpTo
<1>9. WalkedPast(rows, from, f, h, n) /\ n \in 0..n
  BY <1>5, <1>8
<1>10. OldCount(rows) = CountTo(rows, n)
  <2>1. DOMAIN rows = 1..n
    BY <1>1
  <2>2. QED
    BY <2>1 DEF OldCount, CountTo
<1>11. CountTo(rows, n) \in Nat
  BY <1>5, CountStep
<1>12. QED
  BY <1>2, <1>3, <1>9, <1>10, <1>11 DEF WalkedPast

-----------------------------------------------------------------------------
(* An edit that is open has put out what its edits so far make of the lines *)
(* up to the next; one that is written, of all.                             *)

Editing == [mode : {None, "edits", "patch"}, out : Passage, next : Nat,
            state : {"open", "refused", "written"}]

EditedOK(o, es, ed) ==
    /\ o \in Passage /\ es \in Seq(Edit) /\ ed \in Editing
    /\ ed.state = "open" => Fit(o, es, ed.next) /\ ed.out = OutUpTo(o, es, ed.next)
    /\ ed.state = "written" => (\E next : Fit(o, es, next)) /\ ed.out = Up(o, es, Len(o) + 1)

EditInv == EditedOK(original, asked, edited)

LEMMA LinesBound == MaxLines \in Nat
  BY EditAssumption

LEMMA ShapesAre == ASSUME NEW shape \in Shapes PROVE shape \in Seq(RowMarks)
  BY EditAssumption DEF RowMarks

LEMMA EditStarts == EditInit => EditInv
<1> SUFFICES ASSUME EditInit PROVE EditInv
  OBVIOUS
<1>1. original \in Passage
  <2>1. PICK n \in 0..MaxLines : original = [i \in 1..n |-> i]
    BY DEF EditInit
  <2>2. n \in Nat /\ \A i \in 1..n : i \in Nat
    BY LinesBound
  <2>3. QED
    BY <2>1, <2>2, IsASeq DEF Passage
<1>2. asked = <<>> /\ edited = [mode |-> None, out |-> <<>>, next |-> 1, state |-> "open"]
  BY DEF EditInit
<1>3. <<>> \in Seq(Edit) /\ <<>> \in Passage /\ Len(original) \in Nat
  BY <1>1 DEF Passage
<1>4. edited \in Editing /\ edited.out = <<>> /\ edited.next = 1 /\ edited.state = "open"
  BY <1>2, <1>3 DEF Editing
<1>5. Fit(original, <<>>, 1)
  BY <1>3 DEF Fit
<1>6. OutUpTo(original, <<>>, 1) = <<>>
  <2>1. Up(original, <<>>, 0) = <<>>
    BY <1>1, <1>3, UpIs
  <2>2. PutIn(<<>>, 1) = <<>>
    <3>1. \A i \in 1..Len(<<>>) : <<>>[i].from # 1
      OBVIOUS
    <3>2. PICK es : es = <<>>
      OBVIOUS
    <3>3. es \in Seq(Edit) /\ \A i \in 1..Len(es) : es[i].from # 1
      BY <1>3, <3>1, <3>2
    <3>4. QED
      BY <3>2, <3>3, PutNone
  <2>3. QED
    BY <1>3, <2>1, <2>2, ConcatEmptySeq DEF OutUpTo, Passage
<1>7. QED
  BY <1>1, <1>2, <1>3, <1>4, <1>5, <1>6 DEF EditInv, EditedOK

\* One edit more that fits.
LEMMA PuttingKeeps ==
    ASSUME EditInv, edited.state = "open", UNCHANGED original, NEW mode \in {None, "edits", "patch"},
           NEW e \in Edit, edited.next <= e.from, e.from <= Lines + 1, e.from - 1 <= e.to, e.to <= Lines,
           asked' = Append(asked, e), Put(mode, e.from - 1, e.new, e.to + 1)
    PROVE  EditInv'
<1>1. PICK next : next = edited.next
  OBVIOUS
<1>2. original \in Passage /\ asked \in Seq(Edit) /\ edited \in Editing
      /\ Fit(original, asked, next) /\ edited.out = OutUpTo(original, asked, next)
  BY <1>1 DEF EditInv, EditedOK
<1>3. PICK out : out = OutUpTo(original, asked, next) \o SubSeq(original, next, e.from - 1) \o e.new
  OBVIOUS
<1>4. edited' = [mode |-> mode, out |-> out, next |-> e.to + 1, state |-> "open"]
  BY <1>1, <1>2, <1>3 DEF Put
<1>5. PICK es : es = Append(asked, e)
  OBVIOUS
<1>6. es \in Seq(Edit) /\ Fit(original, es, e.to + 1) /\ out = OutUpTo(original, es, e.to + 1)
  <2>1. Fit(original, es, e.to + 1) /\ OutUpTo(original, es, e.to + 1) = out
    BY <1>1, <1>2, <1>3, <1>5, FitStep DEF Lines
  <2>2. QED
    BY <1>2, <1>5, <2>1
<1>7. e.to + 1 \in 1..(Len(original) + 1) /\ e.to + 1 \in Nat
  BY <1>6 DEF Fit
<1>8. out \in Passage
  BY <1>2, <1>6, <1>7, OutTyped
<1>9. edited' \in Editing /\ edited'.state = "open" /\ edited'.next = e.to + 1 /\ edited'.out = out
  BY <1>4, <1>7, <1>8 DEF Editing
<1>10. EditedOK(original, es, edited')
  BY <1>2, <1>6, <1>9 DEF EditedOK
<1>11. QED
  BY <1>5, <1>10 DEF EditInv

LEMMA RefuseKeeps ==
    ASSUME EditInv, UNCHANGED original, NEW mode \in {None, "edits", "patch"}, NEW e \in Edit,
           asked' = Append(asked, e), Refuse(mode)
    PROVE  EditInv'
<1>1. original \in Passage /\ asked \in Seq(Edit)
  BY DEF EditInv, EditedOK
<1>2. PICK es : es = Append(asked, e)
  OBVIOUS
<1>3. es \in Seq(Edit) /\ <<>> \in Passage
  BY <1>1, <1>2 DEF Passage
<1>4. edited' = [mode |-> mode, out |-> <<>>, next |-> 1, state |-> "refused"]
  BY DEF Refuse
<1>5. edited' \in Editing /\ edited'.state = "refused"
  BY <1>3, <1>4 DEF Editing
<1>6. EditedOK(original, es, edited')
  BY <1>1, <1>3, <1>5 DEF EditedOK
<1>7. QED
  BY <1>2, <1>6 DEF EditInv

LEMMA EditLinesStep ==
    ASSUME EditInv, NEW from \in 1..(MaxLines + 1), NEW to \in 1..(MaxLines + 1), NEW new \in Passage,
           EditLines(from, to, new), UNCHANGED original
    PROVE  EditInv'
<1>1. PICK e : e = [from |-> from, to |-> to, new |-> new]
  OBVIOUS
<1>2. from \in Nat /\ to \in Nat /\ from >= 1
  BY LinesBound
<1>3. e \in Edit /\ e.from = from /\ e.to = to /\ e.new = new
  BY <1>1, <1>2 DEF Edit
<1>4. asked' = Append(asked, e) /\ edited.state = "open" /\ from <= to
  BY <1>1 DEF EditLines, Note, MayEdit
<1>5. CASE to > Lines \/ (asked # <<>> /\ from <= LastOf(asked).to)
  <2>1. Refuse("edits")
    BY <1>5 DEF EditLines
  <2>2. QED
    BY <1>3, <1>4, <2>1, RefuseKeeps
<1>6. CASE ~(to > Lines \/ (asked # <<>> /\ from <= LastOf(asked).to))
  <2>1. Put("edits", from - 1, new, to + 1)
    BY <1>6 DEF EditLines
  <2>2. original \in Passage /\ asked \in Seq(Edit) /\ Fit(original, asked, edited.next)
    BY <1>4 DEF EditInv, EditedOK
  <2>3. Lines \in Nat
    BY <2>2 DEF Lines, Passage
  <2>4. edited.next = IF asked = <<>> THEN 1 ELSE asked[Len(asked)].to + 1
    BY <2>2 DEF Fit
  <2>5. edited.next <= from
    <3>1. CASE asked = <<>>
      BY <1>2, <2>4, <3>1
    <3>2. CASE asked # <<>>
      <4>1. Len(asked) \in 1..Len(asked)
        BY <2>2, <3>2
      <4>2. asked[Len(asked)] \in Edit
        BY <2>2, <4>1
      <4>3. asked[Len(asked)].to \in Int
        BY <4>2 DEF Edit
      <4>4. ~(from <= asked[Len(asked)].to)
        BY <1>6, <3>2 DEF LastOf
      <4>5. QED
        BY <1>2, <2>4, <3>2, <4>3, <4>4
    <3>3. QED
      BY <3>1, <3>2
  <2>6. from <= Lines + 1 /\ from - 1 <= to /\ to <= Lines
    BY <1>2, <1>4, <1>6, <2>3
  <2>7. QED
    BY <1>3, <1>4, <2>1, <2>5, <2>6, PuttingKeeps
<1>7. QED
  BY <1>5, <1>6

LEMMA ApplyHunkStep ==
    ASSUME EditInv, NEW start \in Nat, NEW rows \in Seq(Row), ApplyHunk(start, rows), UNCHANGED original
    PROVE  EditInv'
<1>1. PICK at : at = Target(start, rows)
  OBVIOUS
<1>2. PICK walk : walk = Walk(rows, at)
  OBVIOUS
<1>3. original \in Passage /\ asked \in Seq(Edit) /\ edited.state = "open" /\ Fit(original, asked, edited.next)
  BY DEF ApplyHunk, MayEdit, EditInv, EditedOK
<1>4. at \in Nat /\ Lines \in Nat
  BY <1>1, <1>3 DEF Target, Lines, Passage
<1>5. /\ walk \in WalkType /\ OldCount(rows) \in Nat
      /\ walk.out = New(rows) /\ walk.cursor = at + OldCount(rows)
      /\ walk.fits /\ at <= Lines + 1 => walk.cursor <= Lines + 1
  BY <1>2, <1>3, <1>4, WalkIs
<1>6. walk.out \in Passage
  BY <1>5 DEF WalkType
<1>7. PICK e : e = [from |-> at, to |-> (at + OldCount(rows)) - 1, new |-> New(rows)]
  OBVIOUS
<1>8. (at + OldCount(rows)) - 1 \in Int
  BY <1>4, <1>5
<1>9. e \in Edit /\ e.from = at /\ e.to = (at + OldCount(rows)) - 1 /\ e.new = New(rows)
  BY <1>4, <1>5, <1>6, <1>7, <1>8 DEF Edit
<1>10. asked' = Append(asked, e)
  BY <1>1, <1>7 DEF ApplyHunk, Note
<1>11. CASE ~(at \in edited.next..(Lines + 1) /\ walk.fits)
  <2>1. Refuse("patch")
    BY <1>1, <1>2, <1>11 DEF ApplyHunk
  <2>2. QED
    BY <1>9, <1>10, <2>1, RefuseKeeps
<1>12. CASE at \in edited.next..(Lines + 1) /\ walk.fits
  <2>1. Put("patch", at - 1, walk.out, walk.cursor)
    BY <1>1, <1>2, <1>12 DEF ApplyHunk
  <2>2. edited.next \in Nat
    BY <1>3, <1>4 DEF Fit, Lines
  <2>3. edited.next <= at /\ at <= Lines + 1 /\ at - 1 <= e.to /\ e.to <= Lines /\ walk.cursor = e.to + 1
    BY <1>4, <1>5, <1>9, <1>12, <2>2
  <2>4. Put("patch", e.from - 1, e.new, e.to + 1)
    BY <1>5, <1>9, <2>1, <2>3
  <2>5. QED
    BY <1>3, <1>9, <1>10, <2>3, <2>4, PuttingKeeps
<1>13. QED
  BY <1>11, <1>12

LEMMA WriteEditedStep == ASSUME EditInv, WriteEdited, UNCHANGED original PROVE EditInv'
<1>1. PICK next : next = edited.next
  OBVIOUS
<1>2. original \in Passage /\ asked \in Seq(Edit) /\ edited \in Editing
      /\ Fit(original, asked, next) /\ edited.out = OutUpTo(original, asked, next)
  BY <1>1 DEF EditInv, EditedOK, WriteEdited
<1>3. PICK n : n = Len(original)
  OBVIOUS
<1>4. n \in Nat /\ next \in 1..(n + 1)
  BY <1>2, <1>3 DEF Fit, Passage
<1>5. ASSUME NEW i \in 1..Len(asked)
      PROVE  asked[i].from \in 1..next /\ asked[i].to < next /\ asked[i].to \in Int
  <2>1. asked[i] \in Edit
    BY <1>2
  <2>2. QED
    BY <1>2, <2>1 DEF Fit, Edit
<1>6. PICK out : out = edited.out \o SubSeq(original, next, n)
  OBVIOUS
<1>7. OutUpTo(original, asked, n + 1) = out
  <2>1. n + 1 \in next..(n + 1) /\ (n + 1) - 1 = n
    BY <1>4
  <2>2. ASSUME NEW p \in (next + 1)..(n + 1) PROVE PutIn(asked, p) = <<>>
    <3>1. \A i \in 1..Len(asked) : asked[i].from # p
      BY <1>4, <1>5
    <3>2. QED
      BY <1>2, <3>1, PutNone
  <2>3. ASSUME NEW p \in next..((n + 1) - 1) PROVE ~CoveredIn(original, asked, p)
    <3>1. p \in Nat /\ p <= n /\ next <= p
      BY <1>4
    <3>2. \A i \in 1..Len(asked) : ~(p \in asked[i].from..asked[i].to)
      BY <1>4, <1>5, <3>1
    <3>3. DOMAIN asked = 1..Len(asked)
      BY <1>2
    <3>4. QED
      BY <1>3, <3>1, <3>2, <3>3 DEF CoveredIn
  <2>4. OutUpTo(original, asked, n + 1) = OutUpTo(original, asked, next) \o SubSeq(original, next, (n + 1) - 1)
    BY <1>2, <1>3, <1>4, <2>1, <2>2, <2>3, OutCopies
  <2>5. QED
    BY <1>2, <1>6, <2>1, <2>4
<1>8. out \in Passage
  <2>1. n + 1 \in 1..(n + 1)
    BY <1>4
  <2>2. QED
    BY <1>2, <1>3, <1>7, <2>1, OutTyped
<1>9. Up(original, asked, n + 1) = out
  <2>1. n + 1 \in 1..(n + 1) /\ (n + 1) - 1 = n /\ n + 1 > n
    BY <1>4
  <2>2. Up(original, asked, n + 1)
          = Up(original, asked, n) \o PutIn(asked, n + 1) \o LeftOf(original, asked, n + 1)
    BY <1>2, <1>3, <2>1, UpIs
  <2>3. LeftOf(original, asked, n + 1) = <<>>
    BY <1>3, <2>1 DEF LeftOf, CoveredIn
  <2>4. out \o <<>> = out
    BY <1>8, ConcatEmptySeq DEF Passage
  <2>5. QED
    BY <1>7, <2>1, <2>2, <2>3, <2>4 DEF OutUpTo
<1>10. PICK ed : ed = [edited EXCEPT !.state = "written", !.out = out]
  OBVIOUS
<1>11. edited' = ed /\ asked' = asked
  BY <1>1, <1>3, <1>6, <1>10 DEF WriteEdited, Lines
<1>12. ed \in Editing /\ ed.state = "written" /\ ed.out = out
  BY <1>2, <1>8, <1>10 DEF Editing
<1>13. EditedOK(original, asked, ed)
  BY <1>2, <1>3, <1>9, <1>12 DEF EditedOK
<1>14. QED
  BY <1>11, <1>13 DEF EditInv

\* The rows of a hunk are rows, whatever its shape.
LEMMA RowsTyped ==
    ASSUME NEW shape \in Shapes, NEW from \in Nat, NEW spoilt
    PROVE  Rows(shape, from, spoilt) \in Seq(Row)
<1>1. PICK n : n = Len(shape)
  OBVIOUS
<1>2. n \in Nat /\ DOMAIN shape = 1..n /\ \A i \in 1..n : shape[i] \in RowMarks
  <2>1. shape \in Seq(RowMarks)
    BY ShapesAre
  <2>2. QED
    BY <1>1, <2>1
<1>3. PICK rows : rows = Rows(shape, from, spoilt)
  OBVIOUS
<1>4. DOMAIN rows = 1..n
  BY <1>2, <1>3 DEF Rows
<1>5. ASSUME NEW i \in 1..n PROVE rows[i] \in Row
  <2>1. PICK c : c = Cardinality({j \in 1..(i - 1) : shape[j] # "+"})
    OBVIOUS
  <2>2. c \in Nat
    <3>1. IsFiniteSet(1..(i - 1))
      BY FS_Interval
    <3>2. {j \in 1..(i - 1) : shape[j] # "+"} \subseteq 1..(i - 1)
      OBVIOUS
    <3>3. IsFiniteSet({j \in 1..(i - 1) : shape[j] # "+"})
      BY <3>1, <3>2, FS_Subset
    <3>4. QED
      BY <2>1, <3>3, FS_CardinalityType
  <2>3. rows[i] = [op |-> shape[i], text |-> IF shape[i] = "+" \/ i = spoilt THEN 0 ELSE from + c]
    BY <1>2, <1>3, <2>1 DEF Rows
  <2>4. from + c \in Nat
    BY <2>2
  <2>5. QED
    BY <1>2, <2>3, <2>4 DEF Row
<1>6. rows = [i \in 1..n |-> rows[i]]
  BY <1>2, <1>3, <1>4 DEF Rows
<1>7. rows \in Seq(Row)
  BY <1>2, <1>5, <1>6, IsASeq
<1>8. QED
  BY <1>3, <1>7

LEMMA EditStep == ASSUME EditInv, EditNext PROVE EditInv'
<1>1. UNCHANGED original
  BY DEF EditNext
<1>2. CASE \E from, to \in 1..(MaxLines + 1), n \in 0..2 : EditLines(from, to, [i \in 1..n |-> 0])
  <2>1. PICK from \in 1..(MaxLines + 1), to \in 1..(MaxLines + 1), n \in 0..2 :
          EditLines(from, to, [i \in 1..n |-> 0])
    BY <1>2
  <2>2. PICK new : new = [i \in 1..n |-> 0]
    OBVIOUS
  <2>3. n \in Nat /\ \A i \in 1..n : 0 \in Nat
    OBVIOUS
  <2>4. new \in Passage
    BY <2>2, <2>3, IsASeq DEF Passage
  <2>5. QED
    BY <1>1, <2>1, <2>2, <2>4, EditLinesStep
<1>3. CASE \E start \in 0..(MaxLines + 2), shape \in Shapes : \E spoilt \in 0..Len(shape) :
             ApplyHunk(start, Rows(shape, start, spoilt))
  <2>1. PICK start \in 0..(MaxLines + 2), shape \in Shapes : \E spoilt \in 0..Len(shape) :
          ApplyHunk(start, Rows(shape, start, spoilt))
    BY <1>3
  <2> PICK spoilt \in 0..Len(shape) : ApplyHunk(start, Rows(shape, start, spoilt))
    BY <2>1
  <2>2. start \in Nat
    BY LinesBound
  <2>3. PICK rows : rows = Rows(shape, start, spoilt)
    OBVIOUS
  <2>4. rows \in Seq(Row)
    BY <2>2, <2>3, RowsTyped
  <2>5. QED
    BY <1>1, <2>1, <2>2, <2>3, <2>4, ApplyHunkStep
<1>4. QED
  BY <1>1, <1>2, <1>3, WriteEditedStep DEF EditNext

LEMMA ReplacedIs == Replaced = Up(original, asked, Lines + 1)
  BY DEF Replaced, Up, UpBy, LeftOf, CoveredIn, PutAt, Covered, PutIn, PutBy, Lines

LEMMA EditTold == EditInv => EditsExact
<1> SUFFICES ASSUME EditInv, edited.state = "written" PROVE Disjoint /\ InFile /\ edited.out = Replaced
  BY DEF EditsExact
<1>1. original \in Passage /\ asked \in Seq(Edit) /\ edited.out = Up(original, asked, Len(original) + 1)
  BY DEF EditInv, EditedOK
<1>2. PICK next : Fit(original, asked, next)
  BY DEF EditInv, EditedOK
<1>3. Len(original) \in Nat /\ Lines = Len(original) /\ DOMAIN asked = 1..Len(asked)
  BY <1>1 DEF Passage, Lines
<1>4. next \in 1..(Lines + 1)
  BY <1>2, <1>3 DEF Fit
<1>5. Disjoint
  BY <1>2, <1>3 DEF Fit, Disjoint
<1>6. ASSUME NEW i \in DOMAIN asked
      PROVE  1 <= asked[i].from /\ asked[i].to <= Lines /\ asked[i].from <= Lines + 1
  <2>1. asked[i].from \in 1..next /\ asked[i].to <= Lines
    BY <1>2, <1>3 DEF Fit
  <2>2. QED
    BY <1>3, <1>4, <2>1
<1>7. InFile
  BY <1>6 DEF InFile
<1>8. edited.out = Replaced
  BY <1>1, <1>3, ReplacedIs
<1>9. QED
  BY <1>5, <1>7, <1>8

\* The invariant holds throughout.
LEMMA EditsHold == Spec => []EditInv
<1>1. Init => EditInv
  BY EditStarts DEF Init
<1>2. EditInv /\ [Next]_vars => EditInv'
  <2> SUFFICES ASSUME EditInv, [Next]_vars PROVE EditInv'
    OBVIOUS
  <2>1. EditNext \/ UNCHANGED editVars
    BY DEF Next, vars, Rest
  <2>2. CASE UNCHANGED editVars
    BY <2>2 DEF editVars, EditInv
  <2>3. QED
    BY <2>1, <2>2, EditStep
<1>3. QED
  BY <1>1, <1>2, PTL DEF Spec

\* A file is written with edits that lie in it and apart, and but for their
\* ranges is what it was, for files and edits of any number
\* (applyLineEdits, applyUnifiedDiff).
THEOREM EditsStayExact == Spec => []EditsExact
  BY EditsHold, EditTold, PTL

-----------------------------------------------------------------------------
(* The calls an answer is read as.  First a sequence made of sequences put  *)
(* one after the other, as whatever is read of a text is.                   *)

FlatBy(f, ss) == f = [i \in 1..Len(ss) |-> IF i = 1 THEN ss[i] ELSE f[i - 1] \o ss[i]]

LEMMA FlatSolves ==
    ASSUME NEW T, NEW ss \in Seq(Seq(T))
    PROVE  \E f : /\ f \in [0..Len(ss) -> Seq(T)] /\ f[0] = <<>> /\ Lists!FlattenSeq(ss) = f[Len(ss)]
                  /\ \A i \in 1..Len(ss) : f[i] = f[i - 1] \o ss[i]
<1> DEFINE n == Len(ss)
           V == Seq(T)
           g == [ix \in Nat \X V |-> IF ix[1] \in 1..n THEN ix[2] \o ss[ix[1]] ELSE ix[2]]
<1>1. n \in Nat /\ <<>> \in V /\ \A i \in 1..n : ss[i] \in V
  OBVIOUS
<1>2. \A x, y \in V : x \o y \in V /\ <<>> \o x = x
  OBVIOUS
<1>20. Lists!FlattenSeq(ss) = IF n = 0 THEN ss ELSE (CHOOSE f : FlatBy(f, ss))[n]
  BY DEF Lists!FlattenSeq, FlatBy
<1> HIDE DEF V, n
<1>3. g \in [Nat \X V -> V]
  BY <1>1, <1>2
<1>4. \A i \in 1..n : \A x \in V : g[<<i, x>>] = x \o ss[i]
  <2> SUFFICES ASSUME NEW i \in 1..n, NEW x \in V PROVE g[<<i, x>>] = x \o ss[i]
    OBVIOUS
  <2>1. <<i, x>> \in Nat \X V
    BY <1>1
  <2>2. QED
    BY <2>1
<1> HIDE DEF g
<1>50. PICK f : Solves(f, n, V, <<>>, g)
  BY <1>1, <1>3, Recursion
<1>5. f \in [0..n -> V] /\ f[0] = <<>> /\ \A i \in 1..n : f[i] = g[<<i, f[i - 1]>>]
  BY <1>50 DEF Solves
<1>6. \A i \in 1..n : f[i] = f[i - 1] \o ss[i]
  <2>1. \A i \in 1..n : f[i - 1] \in V
    BY <1>1, <1>5
  <2>2. QED
    BY <1>4, <1>5, <2>1
<1>7. CASE n = 0
  BY <1>1, <1>5, <1>6, <1>7, <1>20 DEF n, V
<1>8. CASE n # 0
  <2>1. FlatBy([i \in 1..n |-> f[i]], ss)
    <3> DEFINE h == [i \in 1..n |-> f[i]]
    <3>1. \A i \in 1..n : h[i] = IF i = 1 THEN ss[i] ELSE h[i - 1] \o ss[i]
      <4> SUFFICES ASSUME NEW i \in 1..n PROVE h[i] = IF i = 1 THEN ss[i] ELSE h[i - 1] \o ss[i]
        OBVIOUS
      <4>1. CASE i = 1
        <5>1. f[1] = f[0] \o ss[1] /\ ss[1] \in V
          <6>1. 1 \in 1..n /\ 1 - 1 = 0
            BY <1>1, <4>1
          <6>2. QED
            BY <1>1, <1>6, <6>1
        <5>2. QED
          BY <1>2, <1>5, <4>1, <5>1
      <4>2. CASE i # 1
        <5>1. i - 1 \in 1..n
          BY <1>1, <4>2
        <5>2. QED
          BY <1>6, <4>2, <5>1
      <4>3. QED
        BY <4>1, <4>2
    <3>2. h = [i \in 1..n |-> h[i]]
      OBVIOUS
    <3> HIDE DEF h
    <3>3. h = [i \in 1..n |-> IF i = 1 THEN ss[i] ELSE h[i - 1] \o ss[i]]
      BY <3>1, <3>2
    <3>4. QED
      BY <3>3 DEF FlatBy, h, n
  <2>2. PICK h : h = CHOOSE hh : FlatBy(hh, ss)
    OBVIOUS
  <2>3. FlatBy(h, ss)
    BY <2>1, <2>2
  <2>4. h = [i \in 1..n |-> IF i = 1 THEN ss[i] ELSE h[i - 1] \o ss[i]]
    BY <2>3 DEF FlatBy, n
  <2> DEFINE k == [i \in 0..n |-> IF i = 0 THEN <<>> ELSE h[i]]
  <2>5. k[0] = <<>> /\ k[n] = h[n]
    BY <1>1, <1>8
  <2>6. \A i \in 1..n : k[i] = k[i - 1] \o ss[i]
    <3> SUFFICES ASSUME NEW i \in 1..n PROVE k[i] = k[i - 1] \o ss[i]
      OBVIOUS
    <3>1. i \in 0..n /\ i - 1 \in 0..n /\ k[i] = h[i]
      BY <1>1
    <3>2. CASE i = 1
      <4>1. h[i] = ss[i] /\ k[i - 1] = <<>>
        BY <2>4, <2>5, <3>2
      <4>2. QED
        BY <1>1, <1>2, <3>1, <4>1
    <3>3. CASE i # 1
      <4>1. i - 1 \in 1..n /\ k[i - 1] = h[i - 1]
        BY <1>1, <3>1, <3>3
      <4>2. h[i] = h[i - 1] \o ss[i]
        BY <2>4, <3>3
      <4>3. QED
        BY <3>1, <4>1, <4>2
    <3>4. QED
      BY <3>2, <3>3
  <2>7. DOMAIN k = 0..n /\ k = [i \in 0..n |-> k[i]]
    OBVIOUS
  <2> HIDE DEF k
  <2>8. \A i \in 0..n : k[i] \in V
    <3>1. k[0] \in V /\ \A i \in 1..n : k[i - 1] \in V => k[i] \in V
      BY <1>1, <1>2, <2>5, <2>6
    <3>2. QED
      BY <1>1, <3>1, AllTyped
  <2>9. k \in [0..n -> V]
    BY <2>7, <2>8
  <2>10. Lists!FlattenSeq(ss) = k[n]
    BY <1>8, <1>20, <2>2, <2>5
  <2>11. QED
    BY <2>5, <2>6, <2>9, <2>10 DEF n, V
<1>9. QED
  BY <1>7, <1>8

LEMMA Climbs ==
    ASSUME NEW n \in Nat, NEW L \in [0..n -> Nat], \A i \in 1..n : L[i - 1] <= L[i]
    PROVE  \A i, j \in 0..n : i <= j => L[i] <= L[j]
<1> SUFFICES ASSUME NEW i \in 0..n PROVE \A j \in 0..n : i <= j => L[i] <= L[j]
  OBVIOUS
<1> DEFINE S == {j \in Nat : j <= n /\ i <= j => L[i] <= L[j]}
<1>1. 0 \in S
  OBVIOUS
<1>2. ASSUME NEW k \in S, k < n PROVE k + 1 \in S
  <2>1. k \in Nat /\ k + 1 \in 1..n /\ (k + 1) - 1 = k /\ L[k] \in Nat /\ L[k + 1] \in Nat /\ L[i] \in Nat
    BY <1>2
  <2>2. L[k] <= L[k + 1]
    BY <2>1
  <2>3. i <= k \/ i = k + 1 \/ i > k + 1
    BY <2>1
  <2>4. QED
    BY <2>1, <2>2, <2>3
<1>3. 0..n \subseteq S
  <2>1. S \in SUBSET Nat
    OBVIOUS
  <2> HIDE DEF S
  <2>2. QED
    BY <1>1, <1>2, <2>1, UpTo
<1>4. QED
  BY <1>3

\* What is put at place n of F is entry x[2] of the sequence ss[x[1]].
IsPlace(ss, x) == x \in Nat \X Nat /\ x[1] \in 1..Len(ss) /\ x[2] \in 1..Len(ss[x[1]])
Origin(g, ss, F) ==
    /\ DOMAIN g = 1..Len(F)
    /\ \A n \in 1..Len(F) : IsPlace(ss, g[n]) /\ F[n] = ss[g[n][1]][g[n][2]]
    /\ \A n, m \in 1..Len(F) : n < m => Before(g[n], g[m])
    /\ \A x : IsPlace(ss, x) => \E n \in 1..Len(F) : g[n] = x

LEMMA OriginIs ==
    ASSUME NEW T, NEW ss \in Seq(Seq(T))
    PROVE  /\ Lists!FlattenSeq(ss) \in Seq(T)
           /\ \E g : Origin(g, ss, Lists!FlattenSeq(ss))
<1> DEFINE m == Len(ss)
<1>1. PICK f : /\ f \in [0..m -> Seq(T)] /\ f[0] = <<>> /\ Lists!FlattenSeq(ss) = f[m]
               /\ \A i \in 1..m : f[i] = f[i - 1] \o ss[i]
  BY FlatSolves
<1>2. PICK F : F = Lists!FlattenSeq(ss)
  OBVIOUS
<1> DEFINE L == [i \in 0..m |-> Len(f[i])]
<1>3. m \in Nat /\ F \in Seq(T) /\ F = f[m] /\ \A i \in 1..m : ss[i] \in Seq(T) /\ Len(ss[i]) \in Nat
  <2>1. m \in Nat /\ \A i \in 1..m : ss[i] \in Seq(T)
    OBVIOUS
  <2>2. \A s \in Seq(T) : Len(s) \in Nat
    OBVIOUS
  <2> HIDE DEF m
  <2>3. QED
    BY <1>1, <1>2, <2>1, <2>2
<1>4. L \in [0..m -> Nat] /\ L[0] = 0 /\ L[m] = Len(F)
  BY <1>1, <1>3
<1> HIDE DEF m
<1>21. \A i \in 1..m : i - 1 \in 0..m /\ L[i - 1] = Len(f[i - 1]) /\ L[i] = Len(f[i]) /\ f[i - 1] \in Seq(T)
  BY <1>1, <1>3
<1>22. \A s, t \in Seq(T) : Len(s \o t) = Len(s) + Len(t)
  OBVIOUS
<1>5. \A i \in 1..m : L[i] = L[i - 1] + Len(ss[i])
  <2> SUFFICES ASSUME NEW i \in 1..m PROVE L[i] = L[i - 1] + Len(ss[i])
    OBVIOUS
  <2> HIDE DEF L
  <2>1. f[i - 1] \in Seq(T) /\ ss[i] \in Seq(T) /\ f[i] = f[i - 1] \o ss[i]
    BY <1>1, <1>3, <1>21
  <2>2. Len(f[i]) = Len(f[i - 1]) + Len(ss[i])
    BY <1>22, <2>1
  <2>3. QED
    BY <1>21, <2>2
<1>6. \A i \in 1..m, k \in Nat : k \in 1..Len(ss[i]) => f[i][L[i - 1] + k] = ss[i][k]
  <2> SUFFICES ASSUME NEW i \in 1..m, NEW k \in 1..Len(ss[i]) PROVE f[i][L[i - 1] + k] = ss[i][k]
    BY <1>3
  <2>1. L[i - 1] = Len(f[i - 1]) /\ f[i - 1] \in Seq(T) /\ ss[i] \in Seq(T)
    BY <1>3, <1>21
  <2> HIDE DEF L
  <2>2. f[i] = f[i - 1] \o ss[i]
    BY <1>1
  <2>4. PICK s, t : s = f[i - 1] /\ t = ss[i]
    OBVIOUS
  <2>5. s \in Seq(T) /\ t \in Seq(T) /\ f[i] = s \o t /\ L[i - 1] = Len(s) /\ k \in 1..Len(t)
    BY <2>1, <2>2, <2>4
  <2>60. Len(s) \in Nat /\ Len(t) \in Nat /\ k \in Nat
    BY <2>5
  <2>61. Len(s) + k \in 1..(Len(s) + Len(t)) /\ Len(s) + k > Len(s) /\ (Len(s) + k) - Len(s) = k
    BY <2>5, <2>60
  <2>6. (s \o t)[Len(s) + k] = t[k]
    BY <2>5, <2>61, ConcatProperties
  <2>3. QED
    BY <2>4, <2>5, <2>6
<1>7. \A i \in 1..m : \A j \in 1..L[i - 1] : f[i][j] = f[i - 1][j]
  <2> SUFFICES ASSUME NEW i \in 1..m, NEW j \in 1..L[i - 1] PROVE f[i][j] = f[i - 1][j]
    OBVIOUS
  <2>1. L[i - 1] = Len(f[i - 1]) /\ f[i - 1] \in Seq(T) /\ ss[i] \in Seq(T)
    BY <1>3, <1>21
  <2> HIDE DEF L
  <2>2. f[i] = f[i - 1] \o ss[i]
    BY <1>1
  <2>4. PICK s, t : s = f[i - 1] /\ t = ss[i]
    OBVIOUS
  <2>5. s \in Seq(T) /\ t \in Seq(T) /\ f[i] = s \o t /\ j \in 1..Len(s)
    BY <2>1, <2>2, <2>4
  <2>6. (s \o t)[j] = s[j]
    BY <2>5
  <2>3. QED
    BY <2>4, <2>5, <2>6
<1> HIDE DEF L
<1>8. \A i, j \in 0..m : i <= j => L[i] <= L[j]
  <2>1. \A i \in 1..m : L[i - 1] <= L[i]
    <3> SUFFICES ASSUME NEW i \in 1..m PROVE L[i - 1] <= L[i]
      OBVIOUS
    <3>1. i - 1 \in 0..m /\ L[i - 1] \in Nat /\ Len(ss[i]) \in Nat
      BY <1>3, <1>4
    <3>2. QED
      BY <1>5, <3>1
  <2>2. QED
    BY <1>3, <1>4, <2>1, Climbs
<1>9. \A i \in 0..m : \A j \in 1..L[i] : F[j] = f[i][j]
  <2> SUFFICES ASSUME NEW i \in 0..m, NEW j \in 1..L[i] PROVE F[j] = f[i][j]
    OBVIOUS
  <2> DEFINE S == {k \in Nat : k <= m /\ i <= k => f[k][j] = f[i][j]}
  <2>1. 0 \in S
    BY <1>3
  <2>2. ASSUME NEW k \in S, k < m PROVE k + 1 \in S
    <3>1. k \in Nat /\ k + 1 \in 1..m /\ (k + 1) - 1 = k /\ k \in 0..m
      BY <1>3, <2>2
    <3>2. i <= k => f[k + 1][j] = f[k][j]
      <4> SUFFICES ASSUME i <= k PROVE f[k + 1][j] = f[k][j]
        OBVIOUS
      <4>1. L[i] <= L[k] /\ L[i] \in Nat /\ L[k] \in Nat
        BY <1>4, <1>8, <3>1
      <4>2. j \in 1..L[k]
        BY <4>1
      <4>3. QED
        BY <1>7, <3>1, <4>2
    <3>3. i <= k \/ i = k + 1 \/ i > k + 1
      BY <3>1
    <3>4. QED
      BY <2>2, <3>1, <3>2, <3>3
  <2>3. 0..m \subseteq S
    <3>1. S \in SUBSET Nat
      OBVIOUS
    <3> HIDE DEF S
    <3>2. QED
      BY <1>3, <2>1, <2>2, <3>1, UpTo
  <2>4. QED
    BY <1>3, <2>3
<1> DEFINE at(x) == L[x[1] - 1] + x[2]
<1>10. \A x : IsPlace(ss, x) => at(x) \in 1..Len(F) /\ F[at(x)] = ss[x[1]][x[2]]
  <2> SUFFICES ASSUME NEW x, IsPlace(ss, x) PROVE at(x) \in 1..Len(F) /\ F[at(x)] = ss[x[1]][x[2]]
    OBVIOUS
  <2>1. PICK i \in 1..m : x[1] = i /\ x[2] \in 1..Len(ss[i])
    BY DEF IsPlace, m
  <2> DEFINE k == x[2]
  <2>20. i \in 0..m /\ i - 1 \in 0..m /\ m \in 0..m
    BY <1>3
  <2>21. k \in 1..Len(ss[i]) /\ Len(ss[i]) \in Nat
    BY <1>3, <2>1
  <2> HIDE DEF k
  <2>2. L[i - 1] \in Nat /\ L[i] \in Nat /\ Len(ss[i]) \in Nat /\ k \in Nat /\ L[m] \in Nat
    <3>1. L[i - 1] \in Nat /\ L[i] \in Nat /\ L[m] \in Nat
      BY <1>4, <2>20
    <3>2. k \in Nat
      BY <2>21
    <3>3. QED
      BY <2>21, <3>1, <3>2
  <2>30. i <= m
    BY <1>3
  <2>3. L[i] = L[i - 1] + Len(ss[i]) /\ L[i] <= L[m] /\ L[m] = Len(F)
    BY <1>4, <1>5, <1>8, <2>20, <2>30
  <2>4. L[i - 1] + k \in 1..L[i] /\ L[i - 1] + k \in 1..Len(F)
    BY <2>2, <2>21, <2>3
  <2>5. f[i][L[i - 1] + k] = ss[i][k]
    BY <1>6, <2>2, <2>21
  <2>7. F[L[i - 1] + k] = f[i][L[i - 1] + k]
    BY <1>9, <2>4, <2>20
  <2>8. at(x) = L[i - 1] + k
    BY <2>1 DEF k
  <2>6. QED
    BY <2>1, <2>4, <2>5, <2>7, <2>8 DEF k
<1>11. \A n \in 1..Len(F) : \E x : IsPlace(ss, x) /\ at(x) = n
  <2> SUFFICES ASSUME NEW n \in 1..Len(F) PROVE \E x : IsPlace(ss, x) /\ at(x) = n
    OBVIOUS
  <2> DEFINE S == {i \in 0..m : n <= L[i]}
  <2>1. S \in SUBSET Nat /\ m \in S
    BY <1>3, <1>4
  <2> HIDE DEF S
  <2>2. PICK i \in S : \A j \in S : i <= j
    BY <2>1, LeastNatural
  <2>3. i \in 0..m /\ n <= L[i] /\ n \in Nat /\ n # 0
    BY <1>3, <2>2 DEF S
  <2>4. i \in 1..m
    BY <1>4, <2>3
  <2>5. i - 1 \in 0..m /\ i - 1 \notin S
    BY <1>3, <2>2, <2>4
  <2>6. L[i - 1] \in Nat /\ Len(ss[i]) \in Nat /\ L[i] = L[i - 1] + Len(ss[i]) /\ ~(n <= L[i - 1])
    BY <1>3, <1>4, <1>5, <2>4, <2>5 DEF S
  <2>7. n - L[i - 1] \in 1..Len(ss[i]) /\ L[i - 1] + (n - L[i - 1]) = n
    BY <2>3, <2>6
  <2>8. IsPlace(ss, <<i, n - L[i - 1]>>) /\ at(<<i, n - L[i - 1]>>) = n
    BY <1>3, <2>4, <2>7 DEF IsPlace, m
  <2>9. QED
    BY <2>8
<1>12. \A x, y : IsPlace(ss, x) /\ IsPlace(ss, y) /\ x[1] < y[1] => at(x) < at(y)
  <2> SUFFICES ASSUME NEW x, NEW y, IsPlace(ss, x), IsPlace(ss, y), x[1] < y[1] PROVE at(x) < at(y)
    OBVIOUS
  <2>1. PICK i \in 1..m : x[1] = i /\ x[2] \in 1..Len(ss[i])
    BY DEF IsPlace, m
  <2>2. PICK j \in 1..m : y[1] = j /\ y[2] \in 1..Len(ss[j])
    BY DEF IsPlace, m
  <2>3. i \in 0..m /\ i - 1 \in 0..m /\ j - 1 \in 0..m /\ i <= j - 1
    BY <1>3, <2>1, <2>2
  <2>4. L[i] = L[i - 1] + Len(ss[i]) /\ L[i] <= L[j - 1]
    BY <1>5, <1>8, <2>3
  <2>5. /\ Len(ss[i]) \in Nat /\ Len(ss[j]) \in Nat
        /\ L[i - 1] \in Nat /\ L[j - 1] \in Nat /\ L[i] \in Nat
    BY <1>3, <1>4, <2>3
  <2> DEFINE k == x[2]
           l == y[2]
  <2>7. k \in 1..Len(ss[i]) /\ l \in 1..Len(ss[j]) /\ at(x) = L[i - 1] + k /\ at(y) = L[j - 1] + l
    BY <2>1, <2>2
  <2> HIDE DEF k, l, at
  <2>8. L[i - 1] + k < L[j - 1] + l
    <3>1. k \in Nat /\ l \in Nat /\ k <= Len(ss[i]) /\ 1 <= l
      BY <2>5, <2>7
    <3>2. L[i - 1] + k <= L[j - 1]
      BY <2>4, <2>5, <3>1
    <3>3. QED
      BY <2>5, <3>1, <3>2
  <2>6. QED
    BY <2>7, <2>8
<1> HIDE DEF at
<1> DEFINE g == [n \in 1..Len(F) |-> CHOOSE x : IsPlace(ss, x) /\ at(x) = n]
<1>13. \A n \in 1..Len(F) : IsPlace(ss, g[n]) /\ at(g[n]) = n
  BY <1>11
<1>14. DOMAIN g = 1..Len(F)
  OBVIOUS
<1> HIDE DEF g
<1>15. \A n \in 1..Len(F) : F[n] = ss[g[n][1]][g[n][2]]
  BY <1>10, <1>13
<1>16. \A n, q \in 1..Len(F) : n < q => Before(g[n], g[q])
  <2> SUFFICES ASSUME NEW n \in 1..Len(F), NEW q \in 1..Len(F), n < q PROVE Before(g[n], g[q])
    OBVIOUS
  <2>1. PICK x : x = g[n] /\ IsPlace(ss, x) /\ at(x) = n
    BY <1>13
  <2>2. PICK y : y = g[q] /\ IsPlace(ss, y) /\ at(y) = q
    BY <1>13
  <2>3. ~(y[1] < x[1])
    BY <1>3, <1>12, <2>1, <2>2
  <2>4. x[1] \in 1..m /\ x[2] \in Nat /\ y[1] \in 1..m /\ y[2] \in Nat
    BY <2>1, <2>2 DEF IsPlace, m
  <2>5. x[1] = y[1] => x[2] < y[2]
    <3> SUFFICES ASSUME x[1] = y[1] PROVE x[2] < y[2]
      OBVIOUS
    <3>1. L[x[1] - 1] \in Nat
      BY <1>3, <1>4, <2>4
    <3>2. QED
      BY <2>1, <2>2, <2>4, <3>1 DEF at
  <2>6. x[1] < y[1] \/ (x[1] = y[1] /\ x[2] < y[2])
    BY <1>3, <2>3, <2>4, <2>5
  <2>7. QED
    BY <2>1, <2>2, <2>6 DEF Before
<1>17. \A x : IsPlace(ss, x) => \E n \in 1..Len(F) : g[n] = x
  <2> SUFFICES ASSUME NEW x, IsPlace(ss, x) PROVE \E n \in 1..Len(F) : g[n] = x
    OBVIOUS
  <2>1. PICK n \in 1..Len(F) : n = at(x)
    BY <1>10
  <2>2. IsPlace(ss, g[n]) /\ at(g[n]) = n
    BY <1>13
  <2>3. PICK y : y = g[n] /\ IsPlace(ss, y) /\ at(y) = n
    BY <2>2
  <2>4. ~(x[1] < y[1]) /\ ~(y[1] < x[1])
    <3>1. ~(at(x) < at(y)) /\ ~(at(y) < at(x))
      BY <1>3, <2>1, <2>3
    <3>2. QED
      BY <1>12, <2>3, <3>1
  <2>5. /\ x[1] \in 1..m /\ x[2] \in Nat /\ y[1] \in 1..m /\ y[2] \in Nat
        /\ x = <<x[1], x[2]>> /\ y = <<y[1], y[2]>>
    BY <2>3 DEF IsPlace, m
  <2>6. x[1] = y[1]
    BY <1>3, <2>4, <2>5
  <2>7. x[2] = y[2]
    <3>1. L[x[1] - 1] \in Nat
      BY <1>3, <1>4, <2>5
    <3>2. L[x[1] - 1] + x[2] = L[x[1] - 1] + y[2]
      BY <2>1, <2>3, <2>6 DEF at
    <3>3. QED
      BY <2>5, <3>1, <3>2
  <2>8. QED
    BY <2>3, <2>5, <2>6, <2>7
<1>18. Origin(g, ss, F)
  BY <1>13, <1>14, <1>15, <1>16, <1>17 DEF Origin
<1>19. QED
  BY <1>2, <1>3, <1>18

\* Of each place nothing comes or one entry: those of the places g, in order.
Chosen(g, ss, F) ==
    /\ DOMAIN g = 1..Len(F)
    /\ \A n \in 1..Len(F) : g[n] \in 1..Len(ss) /\ ss[g[n]] = <<F[n]>>
    /\ \A n, m \in 1..Len(F) : n < m => g[n] < g[m]
    /\ \A i \in 1..Len(ss) : ss[i] # <<>> => \E n \in 1..Len(F) : g[n] = i

LEMMA ChosenIs ==
    ASSUME NEW T, NEW ss \in Seq(Seq(T)), \A i \in 1..Len(ss) : ss[i] = <<>> \/ \E c \in T : ss[i] = <<c>>
    PROVE  /\ Lists!FlattenSeq(ss) \in Seq(T)
           /\ \E g : Chosen(g, ss, Lists!FlattenSeq(ss))
<1>1. PICK F : F = Lists!FlattenSeq(ss)
  OBVIOUS
<1>2. F \in Seq(T) /\ \E h : Origin(h, ss, F)
  BY <1>1, OriginIs
<1>3. PICK h : Origin(h, ss, F)
  BY <1>2
<1>4. \A x : IsPlace(ss, x) => x[1] \in 1..Len(ss) /\ x[2] = 1 /\ \E c \in T : ss[x[1]] = <<c>>
  <2> SUFFICES ASSUME NEW x, IsPlace(ss, x)
               PROVE  x[1] \in 1..Len(ss) /\ x[2] = 1 /\ \E c \in T : ss[x[1]] = <<c>>
    OBVIOUS
  <2>1. PICK i \in 1..Len(ss) : x[1] = i /\ x[2] \in 1..Len(ss[i])
    BY DEF IsPlace
  <2>2. ss[i] # <<>>
    BY <2>1
  <2>3. PICK c \in T : ss[i] = <<c>>
    BY <2>2
  <2>4. Len(ss[i]) = 1
    BY <2>3
  <2>5. QED
    BY <2>1, <2>3, <2>4
<1> DEFINE g == [n \in 1..Len(F) |-> h[n][1]]
<1>5. \A n \in 1..Len(F) : g[n] \in 1..Len(ss) /\ ss[g[n]] = <<F[n]>>
  <2> SUFFICES ASSUME NEW n \in 1..Len(F) PROVE g[n] \in 1..Len(ss) /\ ss[g[n]] = <<F[n]>>
    OBVIOUS
  <2>1. PICK x : x = h[n] /\ IsPlace(ss, x) /\ F[n] = ss[x[1]][x[2]]
    BY <1>3 DEF Origin
  <2>2. PICK c \in T : ss[x[1]] = <<c>>
    BY <1>4, <2>1
  <2>3. QED
    BY <1>4, <2>1, <2>2
<1>6. \A n, m \in 1..Len(F) : n < m => g[n] < g[m]
  <2> SUFFICES ASSUME NEW n \in 1..Len(F), NEW m \in 1..Len(F), n < m PROVE g[n] < g[m]
    OBVIOUS
  <2>1. IsPlace(ss, h[n]) /\ IsPlace(ss, h[m]) /\ Before(h[n], h[m])
    BY <1>3 DEF Origin
  <2>2. h[n][2] = 1 /\ h[m][2] = 1
    BY <1>4, <2>1
  <2>3. QED
    BY <2>1, <2>2 DEF Before
<1>7. \A i \in 1..Len(ss) : ss[i] # <<>> => \E n \in 1..Len(F) : g[n] = i
  <2> SUFFICES ASSUME NEW i \in 1..Len(ss), ss[i] # <<>> PROVE \E n \in 1..Len(F) : g[n] = i
    OBVIOUS
  <2>1. PICK c \in T : ss[i] = <<c>>
    OBVIOUS
  <2>2. Len(ss[i]) = 1
    BY <2>1
  <2>3. IsPlace(ss, <<i, 1>>)
    BY <2>2 DEF IsPlace
  <2>4. PICK n \in 1..Len(F) : h[n] = <<i, 1>>
    BY <1>3, <2>3 DEF Origin
  <2>5. QED
    BY <2>4
<1>8. Chosen(g, ss, F)
  <2>1. DOMAIN g = 1..Len(F)
    OBVIOUS
  <2> HIDE DEF g
  <2>2. QED
    BY <1>5, <1>6, <1>7, <2>1 DEF Chosen
<1>9. QED
  BY <1>1, <1>2, <1>8

\* The entries of s at the places in P are those at the places g.
Picks(g, s, P, F) ==
    /\ DOMAIN g = 1..Len(F)
    /\ \A n \in 1..Len(F) : g[n] \in 1..Len(s) /\ g[n] \in P /\ F[n] = s[g[n]]
    /\ \A n, m \in 1..Len(F) : n < m => g[n] < g[m]
    /\ \A i \in 1..Len(s) : i \in P => \E n \in 1..Len(F) : g[n] = i

LEMMA PickedIs ==
    ASSUME NEW T, NEW s \in Seq(T), NEW P
    PROVE  Picked(s, P) \in Seq(T) /\ \E g : Picks(g, s, P, Picked(s, P))
<1> DEFINE ss == [i \in 1..Len(s) |-> IF i \in P THEN <<s[i]>> ELSE <<>>]
<1>1. Len(s) \in Nat /\ DOMAIN s = 1..Len(s) /\ \A i \in 1..Len(s) : s[i] \in T
  OBVIOUS
<1>2. \A i \in 1..Len(s) : ss[i] \in Seq(T) /\ (ss[i] = <<>> \/ \E c \in T : ss[i] = <<c>>)
  BY <1>1
<1>3. ss \in Seq(Seq(T)) /\ Len(ss) = Len(s)
  BY <1>1, <1>2, IsASeq, LenProperties
<1>4. PICK F : F = Picked(s, P)
  OBVIOUS
<1>5. F = Lists!FlattenSeq(ss)
  BY <1>1, <1>4 DEF Picked
<1>6. \A i \in 1..Len(s) : (i \in P => ss[i] = <<s[i]>>) /\ (i \notin P => ss[i] = <<>>)
  OBVIOUS
<1> HIDE DEF ss
<1>7. \A i \in 1..Len(ss) : ss[i] = <<>> \/ \E c \in T : ss[i] = <<c>>
  BY <1>2, <1>3
<1>70. Lists!FlattenSeq(ss) \in Seq(T) /\ \E g : Chosen(g, ss, Lists!FlattenSeq(ss))
  BY <1>3, <1>7, ChosenIs
<1>8. F \in Seq(T) /\ \E g : Chosen(g, ss, F)
  BY <1>5, <1>70
<1>9. PICK g : Chosen(g, ss, F)
  BY <1>8
<1>10. \A n \in 1..Len(F) : g[n] \in 1..Len(s) /\ g[n] \in P /\ F[n] = s[g[n]]
  <2> SUFFICES ASSUME NEW n \in 1..Len(F) PROVE g[n] \in 1..Len(s) /\ g[n] \in P /\ F[n] = s[g[n]]
    OBVIOUS
  <2>1. g[n] \in 1..Len(s) /\ ss[g[n]] = <<F[n]>>
    BY <1>3, <1>9 DEF Chosen
  <2>2. <<F[n]>> # <<>>
    OBVIOUS
  <2>3. g[n] \in P /\ <<s[g[n]]>> = <<F[n]>>
    BY <1>6, <2>1, <2>2
  <2>4. QED
    BY <2>1, <2>3
<1>11. \A i \in 1..Len(s) : i \in P => \E n \in 1..Len(F) : g[n] = i
  <2> SUFFICES ASSUME NEW i \in 1..Len(s), i \in P PROVE \E n \in 1..Len(F) : g[n] = i
    OBVIOUS
  <2>1. ss[i] # <<>>
    BY <1>6
  <2>2. QED
    BY <1>3, <1>9, <2>1 DEF Chosen
<1>12. Picks(g, s, P, F)
  BY <1>9, <1>10, <1>11 DEF Chosen, Picks
<1>13. QED
  BY <1>4, <1>8, <1>12

\* A map of places that goes upwards has at least the place it comes from.
LEMMA UpwardsIs ==
    ASSUME NEW n \in Nat, NEW m \in Nat, NEW g, \A i \in 1..n : g[i] \in 1..m,
           \A i, j \in 1..n : i < j => g[i] < g[j]
    PROVE  n <= m /\ \A i, j \in 1..n : g[i] = g[j] => i = j
<1> DEFINE S == {i \in Nat : i <= n /\ i # 0 => i <= g[i]}
<1>1. 0 \in S
  OBVIOUS
<1>2. ASSUME NEW k \in S, k < n PROVE k + 1 \in S
  <2>1. k \in Nat /\ k + 1 \in 1..n /\ k + 1 # 0
    BY <1>2
  <2>2. g[k + 1] \in 1..m
    BY <2>1
  <2>3. CASE k = 0
    BY <2>1, <2>2, <2>3
  <2>4. CASE k # 0
    <3>1. k \in 1..n /\ k < k + 1
      BY <1>2, <2>1, <2>4
    <3>2. g[k] \in 1..m /\ g[k] < g[k + 1] /\ k <= g[k]
      BY <2>1, <3>1
    <3>3. k + 1 <= g[k + 1]
      BY <2>1, <2>2, <3>2
    <3>4. QED
      BY <2>1, <3>3
  <2>5. QED
    BY <2>3, <2>4
<1>3. 0..n \subseteq S
  <2>1. S \in SUBSET Nat
    OBVIOUS
  <2> HIDE DEF S
  <2>2. QED
    BY <1>1, <1>2, <2>1, UpTo
<1>4. n <= m
  <2>1. CASE n = 0
    BY <2>1
  <2>2. CASE n # 0
    <3>1. n \in S /\ n \in 1..n
      BY <1>3, <2>2
    <3>2. n <= g[n] /\ g[n] \in 1..m
      BY <2>2, <3>1
    <3>3. QED
      BY <3>2
  <2>3. QED
    BY <2>1, <2>2
<1>5. \A i, j \in 1..n : g[i] = g[j] => i = j
  <2> SUFFICES ASSUME NEW i \in 1..n, NEW j \in 1..n, g[i] = g[j] PROVE i = j
    OBVIOUS
  <2>1. g[i] \in Nat /\ g[j] \in Nat /\ ~(g[i] < g[j]) /\ ~(g[j] < g[i])
    <3>1. g[i] \in 1..m /\ g[j] \in 1..m
      OBVIOUS
    <3>2. QED
      BY <3>1
  <2>2. QED
    BY <2>1
<1>6. QED
  BY <1>4, <1>5

\* Of calls that are the same the first is left, in the order of the first ones.
Firsts(g, s, D) ==
    /\ \A n \in 1..Len(D) : /\ g[n] \in 1..Len(s) /\ D[n] = s[g[n]]
                            /\ \A j \in 1..Len(s) : j < g[n] => s[j] # s[g[n]]
    /\ \A n, m \in 1..Len(D) : n < m => g[n] < g[m]

LEMMA DedupedIs ==
    ASSUME NEW T, NEW s \in Seq(T)
    PROVE  /\ Deduped(s) \in Seq(T) /\ Len(Deduped(s)) <= Len(s)
           /\ \E g : Firsts(g, s, Deduped(s))
           /\ \A i \in 1..Len(s) : \E n \in 1..Len(Deduped(s)) : Deduped(s)[n] = s[i]
           /\ \A i, j \in 1..Len(Deduped(s)) : Deduped(s)[i] = Deduped(s)[j] => i = j
<1> DEFINE P == {i \in DOMAIN s : \A j \in 1..(i - 1) : s[j] # s[i]}
<1>1. PICK D : D = Deduped(s)
  OBVIOUS
<1>2. D = Picked(s, P)
  BY <1>1 DEF Deduped
<1>3. DOMAIN s = 1..Len(s) /\ Len(s) \in Nat
  OBVIOUS
<1>4. \A i \in P : i \in 1..Len(s) /\ \A j \in 1..Len(s) : j < i => s[j] # s[i]
  <2> SUFFICES ASSUME NEW i \in P, NEW j \in 1..Len(s), j < i PROVE s[j] # s[i]
    BY <1>3
  <2>1. j \in 1..(i - 1)
    BY <1>3
  <2>2. QED
    BY <2>1
<1>5. \A i \in 1..Len(s) : (\A j \in 1..Len(s) : j < i => s[j] # s[i]) => i \in P
  <2> SUFFICES ASSUME NEW i \in 1..Len(s), \A j \in 1..Len(s) : j < i => s[j] # s[i] PROVE i \in P
    OBVIOUS
  <2>1. \A j \in 1..(i - 1) : j \in 1..Len(s) /\ j < i
    BY <1>3
  <2>2. QED
    BY <1>3, <2>1
<1> HIDE DEF P
<1>6. Picked(s, P) \in Seq(T) /\ \E g : Picks(g, s, P, Picked(s, P))
  BY PickedIs
<1>7. PICK g : Picks(g, s, P, D)
  BY <1>2, <1>6
<1>8. D \in Seq(T) /\ Len(D) \in Nat
  BY <1>2, <1>6
<1>9. /\ \A n \in 1..Len(D) : g[n] \in 1..Len(s) /\ g[n] \in P /\ D[n] = s[g[n]]
      /\ \A n, m \in 1..Len(D) : n < m => g[n] < g[m]
      /\ \A i \in 1..Len(s) : i \in P => \E n \in 1..Len(D) : g[n] = i
  BY <1>7 DEF Picks
<1>10. Firsts(g, s, D)
  BY <1>4, <1>9 DEF Firsts
<1>11. Len(D) <= Len(s) /\ \A i, j \in 1..Len(D) : g[i] = g[j] => i = j
  <2>1. PICK n, m : n = Len(D) /\ m = Len(s)
    OBVIOUS
  <2>2. n \in Nat /\ m \in Nat /\ (\A i \in 1..n : g[i] \in 1..m) /\ \A i, j \in 1..n : i < j => g[i] < g[j]
    BY <1>3, <1>8, <1>9, <2>1
  <2>3. n <= m /\ \A i, j \in 1..n : g[i] = g[j] => i = j
    BY <2>2, UpwardsIs
  <2>4. QED
    BY <2>1, <2>3
<1>12. \A i \in 1..Len(s) : \E n \in 1..Len(D) : D[n] = s[i]
  <2> SUFFICES ASSUME NEW i \in 1..Len(s) PROVE \E n \in 1..Len(D) : D[n] = s[i]
    OBVIOUS
  <2> DEFINE S == {j \in 1..Len(s) : s[j] = s[i]}
  <2>1. S \in SUBSET Nat /\ i \in S
    OBVIOUS
  <2>2. PICK j \in S : \A k \in S : j <= k
    <3> HIDE DEF S
    <3>1. QED
      BY <2>1, LeastNatural
  <2>3. \A k \in 1..Len(s) : k < j => s[k] # s[j]
    BY <1>3, <2>2
  <2>4. j \in P
    BY <1>5, <2>3
  <2>5. QED
    BY <1>9, <2>4
<1>13. \A i, j \in 1..Len(D) : D[i] = D[j] => i = j
  <2> SUFFICES ASSUME NEW i \in 1..Len(D), NEW j \in 1..Len(D), D[i] = D[j] PROVE i = j
    OBVIOUS
  <2>1. g[i] \in P /\ g[j] \in P /\ g[i] \in 1..Len(s) /\ g[j] \in 1..Len(s) /\ s[g[i]] = s[g[j]]
    BY <1>9
  <2>2. ~(g[i] < g[j]) /\ ~(g[j] < g[i])
    BY <1>4, <2>1
  <2>3. g[i] = g[j]
    BY <1>3, <2>1, <2>2
  <2>4. QED
    BY <1>11, <2>3
<1>14. QED
  BY <1>1, <1>8, <1>10, <1>11, <1>12, <1>13

LEMMA LimitIs ==
    ASSUME NEW T, NEW s \in Seq(T), NEW n \in Nat
    PROVE  /\ Limit(s, n) \in Seq(T) /\ Len(Limit(s, n)) = IF Len(s) < n THEN Len(s) ELSE n
           /\ \A i \in 1..Len(Limit(s, n)) : i \in 1..Len(s) /\ Limit(s, n)[i] = s[i]
<1> DEFINE m == IF Len(s) < n THEN Len(s) ELSE n
<1>1. m \in 0..Len(s) /\ Len(s) \in Nat /\ 1 <= m + 1 /\ 1 \in 1..(Len(s) + 1)
  OBVIOUS
<1>2. Limit(s, n) = SubSeq(s, 1, m)
  BY DEF Limit
<1> HIDE DEF m
<1>3. SubSeq(s, 1, m) \in Seq(T) /\ Len(SubSeq(s, 1, m)) = m /\ \A i \in 1..m : SubSeq(s, 1, m)[i] = s[i]
  <2>1. \A i \in 1..m : i \in 1..Len(s) /\ s[i] \in T
    BY <1>1
  <2>2. QED
    BY <1>1, <2>1
<1>4. QED
  BY <1>1, <1>2, <1>3 DEF m

LEMMA ImageCount ==
    ASSUME NEW n \in Nat, NEW g, \A i, j \in 1..n : g[i] = g[j] => i = j
    PROVE  Cardinality({g[i] : i \in 1..n}) = n
<1> DEFINE S == {g[i] : i \in 1..n}
           f == [i \in 1..n |-> g[i]]
<1>1. f \in [1..n -> S] /\ (\A i, j \in 1..n : f[i] = f[j] => i = j) /\ \A t \in S : \E i \in 1..n : f[i] = t
  OBVIOUS
<1> HIDE DEF f, S
<1>2. f \in Bijection(1..n, S)
  BY <1>1 DEF Bijection, Injection, Surjection, IsInjective
<1>3. ExistsBijection(1..n, S)
  BY <1>2 DEF ExistsBijection
<1>4. IsFiniteSet(1..n) /\ Cardinality(1..n) = n
  <2>1. IsFiniteSet(1..n) /\ Cardinality(1..n) = IF 1 > n THEN 0 ELSE n - 1 + 1
    BY FS_Interval
  <2>2. QED
    BY <2>1
<1>5. Cardinality(S) = n
  BY <1>3, <1>4, FS_Bijection
<1>6. QED
  BY <1>5 DEF S

LEMMA DistinctCount ==
    ASSUME NEW T, NEW s \in Seq(T), \A i, j \in 1..Len(s) : s[i] = s[j] => i = j
    PROVE  Cardinality(SetOf(s)) = Len(s)
<1>1. Len(s) \in Nat /\ SetOf(s) = {s[i] : i \in 1..Len(s)}
  BY DEF SetOf
<1>2. QED
  BY <1>1, ImageCount

\* Calls as they are found, and as they are executed.
CallRead  == [tool : {Aliases[n] : n \in DOMAIN Aliases}, args : DOMAIN Meaning \cup {None},
              inner : DOMAIN Aliases \cup {None}]
CallMeant == {Spelled(c) : c \in CallRead}

\* The calls cs are those at the places g of J, each for the first time.
Distinct(g, J, cs) ==
    /\ \A n \in 1..Len(cs) : /\ g[n] \in 1..Len(J) /\ cs[n] = Spelled(J[g[n]])
                             /\ \A j \in 1..Len(J) : j < g[n] => Spelled(J[j]) # Spelled(J[g[n]])
    /\ \A n, m \in 1..Len(cs) : n < m => g[n] < g[m]

LEMMA CapsAre == /\ MaxParts \in Nat /\ JsonCap \in Nat \ {0} /\ ReplyCap \in Nat /\ JsonCap <= ReplyCap
                 /\ None \notin DOMAIN Aliases /\ \A ts \in Permitted : None \notin ts
  BY RepliesAssumption

LEMMA FinishIs ==
    ASSUME NEW J \in Seq(CallRead), NEW cs, cs = Limit(Normalized(J), ReplyCap)
    PROVE  /\ cs \in Seq(CallMeant) /\ Len(cs) <= ReplyCap /\ Cardinality(SetOf(cs)) = Len(cs)
           /\ \E g : Distinct(g, J, cs)
           /\ Len(J) <= ReplyCap => \A i \in 1..Len(J) : \E n \in 1..Len(cs) : cs[n] = Spelled(J[i])
           /\ J # <<>> => cs # <<>>
<1> DEFINE s == [i \in DOMAIN J |-> Spelled(J[i])]
<1>1. DOMAIN J = 1..Len(J) /\ Len(J) \in Nat /\ \A i \in 1..Len(J) : Spelled(J[i]) \in CallMeant
  <2>1. \A c \in CallRead : Spelled(c) \in CallMeant
    BY DEF CallMeant
  <2>2. QED
    BY <2>1
<1>2. s \in Seq(CallMeant) /\ Len(s) = Len(J) /\ \A i \in 1..Len(J) : s[i] = Spelled(J[i])
  BY <1>1, IsASeq, LenProperties
<1>3. PICK D : D = Deduped(s)
  OBVIOUS
<1>4. cs = Limit(D, ReplyCap)
  BY <1>3 DEF Normalized
<1> HIDE DEF s
<1>5. /\ D \in Seq(CallMeant) /\ Len(D) <= Len(J)
      /\ \E g : Firsts(g, s, D)
      /\ \A i \in 1..Len(J) : \E n \in 1..Len(D) : D[n] = s[i]
      /\ \A i, j \in 1..Len(D) : D[i] = D[j] => i = j
  <2>1. /\ Deduped(s) \in Seq(CallMeant) /\ Len(Deduped(s)) <= Len(s)
        /\ \E g : Firsts(g, s, Deduped(s))
        /\ \A i \in 1..Len(s) : \E n \in 1..Len(Deduped(s)) : Deduped(s)[n] = s[i]
        /\ \A i, j \in 1..Len(Deduped(s)) : Deduped(s)[i] = Deduped(s)[j] => i = j
    BY <1>2, DedupedIs
  <2>2. QED
    BY <1>2, <1>3, <2>1
<1>6. PICK g : Firsts(g, s, D)
  BY <1>5
<1>7. /\ cs \in Seq(CallMeant) /\ Len(cs) = IF Len(D) < ReplyCap THEN Len(D) ELSE ReplyCap
      /\ \A i \in 1..Len(cs) : i \in 1..Len(D) /\ cs[i] = D[i]
  BY <1>4, <1>5, CapsAre, LimitIs
<1>8. Len(cs) \in Nat /\ Len(D) \in Nat /\ Len(cs) <= ReplyCap /\ ReplyCap \in Nat /\ ReplyCap # 0
  <2>1. Len(cs) \in Nat /\ Len(D) \in Nat
    BY <1>5, <1>7
  <2>2. QED
    BY <1>7, <2>1, CapsAre
<1>9. Cardinality(SetOf(cs)) = Len(cs)
  <2>1. \A i, j \in 1..Len(cs) : cs[i] = cs[j] => i = j
    BY <1>5, <1>7
  <2>2. QED
    BY <1>7, <2>1, DistinctCount
<1>10. Distinct(g, J, cs)
  BY <1>2, <1>6, <1>7 DEF Firsts, Distinct
<1>11. Len(J) <= ReplyCap => \A i \in 1..Len(J) : \E n \in 1..Len(cs) : cs[n] = Spelled(J[i])
  <2> SUFFICES ASSUME Len(J) <= ReplyCap, NEW i \in 1..Len(J) PROVE \E n \in 1..Len(cs) : cs[n] = Spelled(J[i])
    OBVIOUS
  <2>1. Len(cs) = Len(D)
    BY <1>1, <1>5, <1>7, <1>8
  <2>2. PICK n \in 1..Len(D) : D[n] = s[i]
    BY <1>5
  <2>3. QED
    BY <1>2, <1>7, <2>1, <2>2
<1>12. J # <<>> => cs # <<>>
  <2> SUFFICES ASSUME J # <<>> PROVE cs # <<>>
    OBVIOUS
  <2>1. 1 \in 1..Len(J)
    BY <1>1
  <2>2. PICK n \in 1..Len(D) : D[n] = s[1]
    BY <1>5, <2>1
  <2>3. Len(cs) # 0
    BY <1>7, <1>8, <2>2
  <2>4. QED
    BY <2>3
<1>13. QED
  BY <1>7, <1>8, <1>9, <1>10, <1>11, <1>12

LEMMA CallOfIs == ASSUME NEW o \in Objects PROVE CallOf(o) \in CallRead /\ CallOf(o).tool = Canonical(o.name)
  BY DEF Objects, CallOf, CallRead, Canonical

\* One object: it is read if it names a tool the run may use and has arguments.
LEMMA ObjectIs ==
    ASSUME NEW o \in Objects
    PROVE  /\ ReadObject(o) = <<>> \/ \E c \in CallRead : ReadObject(o) = <<c>>
           /\ \A c : ReadObject(o) = <<c>> =>
                  /\ o.args # None /\ c = CallOf(o)
                  /\ reading.permitted # {} => Canonical(o.name) \in reading.permitted
           /\ reading.permitted \in Permitted /\ Canonical(o.name) \in reading.permitted /\ o.args # None
                  => ReadObject(o) # <<>>
<1> DEFINE c0 == CallOf(o)
           taken == Canonical(o.name) # None /\ TextPermits(Canonical(o.name)) /\ o.args # None
<1>1. o.name \in DOMAIN Aliases /\ o.args \in DOMAIN Meaning \cup {None}
  BY DEF Objects
<1>2. ReadObject(o) = IF taken THEN <<c0>> ELSE <<>>
  BY DEF ReadObject
<1>3. taken => c0 \in CallRead
  BY <1>1, CallOfIs
<1>4. ReadObject(o) = <<>> \/ \E c \in CallRead : ReadObject(o) = <<c>>
  BY <1>2, <1>3
<1>5. ASSUME NEW c, ReadObject(o) = <<c>>
      PROVE  /\ o.args # None /\ c = CallOf(o)
             /\ reading.permitted # {} => Canonical(o.name) \in reading.permitted
  <2>1. taken /\ c = c0
    <3>1. <<c>> # <<>>
      OBVIOUS
    <3> HIDE DEF taken, c0
    <3>2. QED
      BY <1>2, <1>5, <3>1
  <2>2. QED
    BY <2>1 DEF TextPermits
<1>6. reading.permitted \in Permitted /\ Canonical(o.name) \in reading.permitted /\ o.args # None
          => ReadObject(o) # <<>>
  <2> SUFFICES ASSUME reading.permitted \in Permitted, Canonical(o.name) \in reading.permitted, o.args # None
               PROVE  ReadObject(o) # <<>>
    OBVIOUS
  <2>1. taken
    BY CapsAre DEF TextPermits
  <2>2. QED
    BY <1>2, <2>1
<1>7. QED
  BY <1>4, <1>5, <1>6

LEMMA PartIs ==
    ASSUME NEW p \in Parts
    PROVE  /\ p.objects \in Seq(Objects)
           /\ p.kind = "tag" => Len(p.objects) = 1
           /\ p.kind = "fence" => (Decodes(p) <=> p.form # "broken")
<1>1. p.objects \in Seq(Objects) /\ (p.kind = "tag" => Len(p.objects) = 1) /\ p.form \in Forms
  BY RepliesAssumption
<1>2. QED
  BY <1>1 DEF Forms, Decodes, Trimmed, Closed

\* The objects of part p that are read are those at the places h.
PartReads(h, p) ==
    /\ \A k \in 1..Len(ReadPart(p)) :
          h[k] \in 1..Len(p.objects) /\ ReadObject(p.objects[h[k]]) = <<ReadPart(p)[k]>>
    /\ \A k, l \in 1..Len(ReadPart(p)) : k < l => h[k] < h[l]
    /\ Decodes(p) /\ p.kind # "tag" =>
          \A o \in 1..Len(p.objects) : ReadObject(p.objects[o]) # <<>> =>
              \E k \in 1..Len(ReadPart(p)) : h[k] = o

LEMMA ReadPartIs ==
    ASSUME NEW p \in Parts
    PROVE  ReadPart(p) \in Seq(CallRead) /\ \E h : PartReads(h, p)
<1>1. CASE ~Decodes(p) \/ p.kind = "tag"
  <2>1. ReadPart(p) = <<>> /\ Len(<<>>) = 0
    BY <1>1 DEF ReadPart
  <2>2. PartReads(<<>>, p)
    BY <1>1, <2>1 DEF PartReads
  <2>3. QED
    BY <2>1, <2>2
<1>2. CASE Decodes(p) /\ p.kind # "tag"
  <2>1. PICK os : os = p.objects /\ os \in Seq(Objects)
    BY PartIs
  <2> DEFINE ss == [i \in DOMAIN os |-> ReadObject(os[i])]
  <2>2. DOMAIN os = 1..Len(os) /\ Len(os) \in Nat /\ \A i \in 1..Len(os) : os[i] \in Objects
    BY <2>1
  <2>3. \A i \in 1..Len(os) : ReadObject(os[i]) = <<>> \/ \E c \in CallRead : ReadObject(os[i]) = <<c>>
    BY <2>2, ObjectIs
  <2>4. \A i \in 1..Len(os) : ReadObject(os[i]) \in Seq(CallRead)
    <3>1. <<>> \in Seq(CallRead) /\ \A c \in CallRead : <<c>> \in Seq(CallRead)
      OBVIOUS
    <3> HIDE DEF CallRead
    <3>2. QED
      BY <2>3, <3>1
  <2>5. ss \in Seq(Seq(CallRead)) /\ Len(ss) = Len(os) /\ \A i \in 1..Len(os) : ss[i] = ReadObject(os[i])
    BY <2>2, <2>4, IsASeq, LenProperties
  <2>6. PICK R : R = ReadPart(p)
    OBVIOUS
  <2>7. R = Lists!FlattenSeq(ss)
    BY <1>2, <2>1, <2>6 DEF ReadPart
  <2> HIDE DEF ss
  <2>8. \A i \in 1..Len(ss) : ss[i] = <<>> \/ \E c \in CallRead : ss[i] = <<c>>
    BY <2>3, <2>5
  <2>9. Lists!FlattenSeq(ss) \in Seq(CallRead) /\ \E g : Chosen(g, ss, Lists!FlattenSeq(ss))
    BY <2>5, <2>8, ChosenIs
  <2>10. PICK h : Chosen(h, ss, R)
    BY <2>7, <2>9
  <2>11. PartReads(h, p)
    BY <2>1, <2>5, <2>6, <2>10 DEF Chosen, PartReads
  <2>12. QED
    BY <2>6, <2>7, <2>9, <2>11
<1>3. QED
  BY <1>1, <1>2

\* The candidates cs of a text are parts of it, the fenced blocks first.
Looks(q, ps, cs) ==
    /\ \A i \in 1..Len(cs) : q[i] \in 1..Len(ps) /\ cs[i] = ps[q[i]]
    /\ \A i, j \in 1..Len(cs) : i < j /\ cs[j].kind = "fence" => cs[i].kind = "fence" /\ q[i] < q[j]
    /\ \A r \in 1..Len(ps) : ps[r].kind = "fence" => \E i \in 1..Len(cs) : q[i] = r

LEMMA CandidatesAre ==
    ASSUME NEW ps \in Seq(Parts)
    PROVE  Candidates(ps) \in Seq(Parts) /\ \E q : Looks(q, ps, Candidates(ps))
<1> DEFINE P == {i \in DOMAIN ps : ps[i].kind = "fence"}
           Q == {i \in DOMAIN ps : Found(ps, i)}
<1>1. PICK A : A = Fences(ps)
  OBVIOUS
<1>2. PICK B : B = Bare(ps)
  OBVIOUS
<1>3. A \in Seq(Parts) /\ \E g : Picks(g, ps, P, A)
  BY <1>1, PickedIs DEF Fences
<1>4. B \in Seq(Parts) /\ \E g : Picks(g, ps, Q, B)
  BY <1>2, PickedIs DEF Bare
<1>5. \A i \in 1..Len(ps) : i \in P <=> ps[i].kind = "fence"
  OBVIOUS
<1>6. \A i \in Q : ps[i].kind # "fence"
  BY DEF Found
<1> HIDE DEF P, Q
<1>7. PICK a : Picks(a, ps, P, A)
  BY <1>3
<1>8. PICK b : Picks(b, ps, Q, B)
  BY <1>4
<1>9. PICK cs : cs = Candidates(ps) /\ cs = A \o B
  BY <1>1, <1>2 DEF Candidates
<1>10. /\ cs \in Seq(Parts) /\ Len(A) \in Nat /\ Len(B) \in Nat /\ Len(cs) = Len(A) + Len(B)
       /\ \A i \in 1..Len(A) : cs[i] = A[i]
  BY <1>3, <1>4, <1>9
<1>11. \A i \in 1..Len(cs) : i > Len(A) => i - Len(A) \in 1..Len(B) /\ cs[i] = B[i - Len(A)]
  BY <1>3, <1>4, <1>9, <1>10, ConcatProperties
<1> DEFINE q == [i \in 1..Len(cs) |-> IF i <= Len(A) THEN a[i] ELSE b[i - Len(A)]]
<1>12. \A i \in 1..Len(A) : i \in 1..Len(cs) /\ q[i] = a[i]
  BY <1>10
<1>13. \A i \in 1..Len(cs) : i > Len(A) => q[i] = b[i - Len(A)]
  BY <1>10
<1> HIDE DEF q
<1>14. \A i \in 1..Len(cs) : q[i] \in 1..Len(ps) /\ cs[i] = ps[q[i]] /\ (cs[i].kind = "fence" <=> i <= Len(A))
  <2> SUFFICES ASSUME NEW i \in 1..Len(cs)
               PROVE  q[i] \in 1..Len(ps) /\ cs[i] = ps[q[i]] /\ (cs[i].kind = "fence" <=> i <= Len(A))
    OBVIOUS
  <2>1. CASE i <= Len(A)
    <3>1. i \in 1..Len(A)
      BY <1>10, <2>1
    <3>2. a[i] \in 1..Len(ps) /\ a[i] \in P /\ A[i] = ps[a[i]]
      BY <1>7, <3>1 DEF Picks
    <3>3. QED
      BY <1>5, <1>10, <1>12, <2>1, <3>1, <3>2
  <2>2. CASE i > Len(A)
    <3>1. i - Len(A) \in 1..Len(B)
      BY <1>11, <2>2
    <3>2. b[i - Len(A)] \in 1..Len(ps) /\ b[i - Len(A)] \in Q /\ B[i - Len(A)] = ps[b[i - Len(A)]]
      BY <1>8, <3>1 DEF Picks
    <3>3. ~(i <= Len(A))
      BY <1>10, <2>2
    <3>4. QED
      BY <1>6, <1>11, <1>13, <2>2, <3>2, <3>3
  <2>3. QED
    BY <1>10, <2>1, <2>2
<1>15. \A i, j \in 1..Len(cs) : i < j /\ cs[j].kind = "fence" => cs[i].kind = "fence" /\ q[i] < q[j]
  <2> SUFFICES ASSUME NEW i \in 1..Len(cs), NEW j \in 1..Len(cs), i < j, cs[j].kind = "fence"
               PROVE  cs[i].kind = "fence" /\ q[i] < q[j]
    OBVIOUS
  <2>1. i \in 1..Len(A) /\ j \in 1..Len(A)
    BY <1>10, <1>14
  <2>2. a[i] < a[j]
    BY <1>7, <2>1 DEF Picks
  <2>3. QED
    BY <1>12, <1>14, <2>1, <2>2
<1>16. \A r \in 1..Len(ps) : ps[r].kind = "fence" => \E i \in 1..Len(cs) : q[i] = r
  <2> SUFFICES ASSUME NEW r \in 1..Len(ps), ps[r].kind = "fence" PROVE \E i \in 1..Len(cs) : q[i] = r
    OBVIOUS
  <2>1. PICK i \in 1..Len(A) : a[i] = r
    BY <1>5, <1>7 DEF Picks
  <2>2. QED
    BY <1>12, <2>1
<1>17. Looks(q, ps, cs)
  BY <1>14, <1>15, <1>16 DEF Looks
<1>18. QED
  BY <1>9, <1>10, <1>17

\* The calls found in JSON, before the cap: call J[n] is the object at loc[n].
FoundIn(ps) ==
    LET cs == Candidates(ps) IN Lists!FlattenSeq([i \in DOMAIN cs |-> ReadPart(cs[i])])

ObjectOf(ps, x) == ps[x[1]].objects[x[2]]
Located(loc, ps, J) ==
    /\ \A n \in 1..Len(J) :
          /\ loc[n] \in Nat \X Nat /\ loc[n][1] \in 1..Len(ps) /\ loc[n][2] \in 1..Len(ps[loc[n][1]].objects)
          /\ ReadObject(ObjectOf(ps, loc[n])) = <<J[n]>> /\ Decodes(ps[loc[n][1]])
    /\ \A n, m \in 1..Len(J) : n < m /\ ps[loc[m][1]].kind = "fence" =>
          ps[loc[n][1]].kind = "fence" /\ Before(loc[n], loc[m])
    /\ \A r, o \in Nat :
          /\ r \in 1..Len(ps) /\ o \in 1..Len(ps[r].objects)
          /\ ps[r].kind = "fence" /\ Decodes(ps[r]) /\ ReadObject(ObjectOf(ps, <<r, o>>)) # <<>>
          => \E n \in 1..Len(J) : loc[n] = <<r, o>>

LEMMA FoundIs ==
    ASSUME NEW ps \in Seq(Parts)
    PROVE  /\ FoundIn(ps) \in Seq(CallRead) /\ \E loc : Located(loc, ps, FoundIn(ps))
           /\ FoundIn(ps) = <<>> => \A i \in 1..Len(Candidates(ps)) : ReadPart(Candidates(ps)[i]) = <<>>
<1>1. PICK cs : cs = Candidates(ps)
  OBVIOUS
<1>2. cs \in Seq(Parts) /\ \E q : Looks(q, ps, cs)
  BY <1>1, CandidatesAre
<1>3. PICK q : Looks(q, ps, cs)
  BY <1>2
<1>4. DOMAIN cs = 1..Len(cs) /\ Len(cs) \in Nat /\ \A i \in 1..Len(cs) : cs[i] \in Parts
  BY <1>2
<1>5. \A i \in 1..Len(cs) : ReadPart(cs[i]) \in Seq(CallRead) /\ \E h : PartReads(h, cs[i])
  BY <1>4, ReadPartIs
<1> DEFINE ss == [i \in DOMAIN cs |-> ReadPart(cs[i])]
<1>6. ss \in Seq(Seq(CallRead)) /\ Len(ss) = Len(cs) /\ \A i \in 1..Len(cs) : ss[i] = ReadPart(cs[i])
  BY <1>4, <1>5, IsASeq, LenProperties
<1>7. PICK J : J = FoundIn(ps) /\ J = Lists!FlattenSeq(ss)
  BY <1>1 DEF FoundIn
<1> HIDE DEF ss
<1>8. Lists!FlattenSeq(ss) \in Seq(CallRead) /\ \E g : Origin(g, ss, Lists!FlattenSeq(ss))
  BY <1>6, OriginIs
<1>9. PICK g : Origin(g, ss, J)
  BY <1>7, <1>8
<1> DEFINE H == [i \in 1..Len(cs) |-> CHOOSE h : PartReads(h, cs[i])]
<1>10. \A i \in 1..Len(cs) : PartReads(H[i], cs[i])
  BY <1>5
<1> HIDE DEF H
<1> DEFINE loc == [n \in 1..Len(J) |-> <<q[g[n][1]], H[g[n][1]][g[n][2]]>>]
<1>11. ASSUME NEW n \in 1..Len(J)
       PROVE  \E i \in 1..Len(cs), k \in Nat :
                /\ g[n] = <<i, k>> /\ k \in 1..Len(ReadPart(cs[i])) /\ J[n] = ReadPart(cs[i])[k]
                /\ loc[n] = <<q[i], H[i][k]>>
  <2>1. IsPlace(ss, g[n]) /\ J[n] = ss[g[n][1]][g[n][2]]
    BY <1>9 DEF Origin
  <2>2. PICK i, k : g[n] = <<i, k>> /\ i \in Nat /\ k \in Nat
    BY <2>1 DEF IsPlace
  <2>3. g[n][1] = i /\ g[n][2] = k
    BY <2>2
  <2>4. i \in 1..Len(ss) /\ k \in 1..Len(ss[i]) /\ J[n] = ss[i][k]
    BY <2>1, <2>3 DEF IsPlace
  <2>5. loc[n] = <<q[i], H[i][k]>>
    BY <2>3
  <2>6. QED
    BY <1>6, <2>2, <2>4, <2>5
<1> HIDE DEF loc
<1>12. \A i \in 1..Len(cs) : q[i] \in 1..Len(ps) /\ cs[i] = ps[q[i]]
  BY <1>3 DEF Looks
<1>13. ASSUME NEW n \in 1..Len(J)
       PROVE  /\ loc[n] \in Nat \X Nat /\ loc[n][1] \in 1..Len(ps)
              /\ loc[n][2] \in 1..Len(ps[loc[n][1]].objects)
              /\ ReadObject(ObjectOf(ps, loc[n])) = <<J[n]>> /\ Decodes(ps[loc[n][1]])
  <2>1. PICK i \in 1..Len(cs), k \in Nat :
           /\ k \in 1..Len(ReadPart(cs[i])) /\ J[n] = ReadPart(cs[i])[k] /\ loc[n] = <<q[i], H[i][k]>>
    BY <1>11
  <2>2. loc[n][1] = q[i] /\ loc[n][2] = H[i][k] /\ ps[q[i]] = cs[i] /\ q[i] \in 1..Len(ps)
    BY <1>12, <2>1
  <2>3. H[i][k] \in 1..Len(cs[i].objects) /\ ReadObject(cs[i].objects[H[i][k]]) = <<ReadPart(cs[i])[k]>>
    BY <1>10, <2>1 DEF PartReads
  <2>4. Decodes(cs[i])
    <3>1. ReadPart(cs[i]) # <<>>
      BY <2>1
    <3>2. QED
      BY <3>1 DEF ReadPart
  <2>5. H[i][k] \in Nat /\ q[i] \in Nat
    BY <2>2, <2>3
  <2>6. QED
    BY <2>1, <2>2, <2>3, <2>4, <2>5 DEF ObjectOf
<1>14. ASSUME NEW n \in 1..Len(J), NEW m \in 1..Len(J), n < m, ps[loc[m][1]].kind = "fence"
       PROVE  ps[loc[n][1]].kind = "fence" /\ Before(loc[n], loc[m])
  <2>1. PICK i \in 1..Len(cs), k \in Nat :
           g[n] = <<i, k>> /\ k \in 1..Len(ReadPart(cs[i])) /\ loc[n] = <<q[i], H[i][k]>>
    BY <1>11
  <2>2. PICK j \in 1..Len(cs), l \in Nat :
           g[m] = <<j, l>> /\ l \in 1..Len(ReadPart(cs[j])) /\ loc[m] = <<q[j], H[j][l]>>
    BY <1>11
  <2>3. loc[n][1] = q[i] /\ loc[n][2] = H[i][k] /\ loc[m][1] = q[j] /\ loc[m][2] = H[j][l]
    BY <2>1, <2>2
  <2>4. Before(<<i, k>>, <<j, l>>)
    BY <1>9, <1>14, <2>1, <2>2 DEF Origin
  <2>5. i < j \/ (i = j /\ k < l)
    BY <2>4 DEF Before
  <2>6. cs[j].kind = "fence" /\ ps[q[i]] = cs[i]
    BY <1>12, <1>14, <2>3
  <2>7. CASE i < j
    <3>1. cs[i].kind = "fence" /\ q[i] < q[j]
      BY <1>3, <2>6, <2>7 DEF Looks
    <3>2. QED
      BY <2>3, <2>6, <3>1 DEF Before
  <2>8. CASE i = j /\ k < l
    <3>1. H[i][k] < H[j][l]
      BY <1>10, <2>1, <2>2, <2>8 DEF PartReads
    <3>2. QED
      BY <2>3, <2>6, <2>8, <3>1 DEF Before
  <2>9. QED
    BY <2>5, <2>7, <2>8
<1>15. ASSUME NEW r \in Nat, NEW o \in Nat, r \in 1..Len(ps), o \in 1..Len(ps[r].objects),
              ps[r].kind = "fence", Decodes(ps[r]), ReadObject(ObjectOf(ps, <<r, o>>)) # <<>>
       PROVE  \E n \in 1..Len(J) : loc[n] = <<r, o>>
  <2>1. PICK i \in 1..Len(cs) : q[i] = r
    BY <1>3, <1>15 DEF Looks
  <2>2. cs[i] = ps[r] /\ ReadObject(cs[i].objects[o]) # <<>>
    BY <1>12, <1>15, <2>1 DEF ObjectOf
  <2>3. PICK k \in 1..Len(ReadPart(cs[i])) : H[i][k] = o
    BY <1>10, <1>15, <2>2 DEF PartReads
  <2>4. IsPlace(ss, <<i, k>>)
    BY <1>6, <2>3 DEF IsPlace
  <2>5. PICK n \in 1..Len(J) : g[n] = <<i, k>>
    BY <1>9, <2>4 DEF Origin
  <2>6. loc[n] = <<q[i], H[i][k]>>
    BY <1>11, <2>5
  <2>7. QED
    BY <2>1, <2>3, <2>6
<1>16. Located(loc, ps, J)
  BY <1>13, <1>14, <1>15 DEF Located
<1>17. J = <<>> => \A i \in 1..Len(cs) : ReadPart(cs[i]) = <<>>
  <2> SUFFICES ASSUME J = <<>>, NEW i \in 1..Len(cs), ReadPart(cs[i]) # <<>> PROVE FALSE
    OBVIOUS
  <2>1. 1 \in 1..Len(ss[i])
    BY <1>5, <1>6
  <2>2. IsPlace(ss, <<i, 1>>)
    BY <1>6, <2>1 DEF IsPlace
  <2>3. PICK n \in 1..Len(J) : g[n] = <<i, 1>>
    BY <1>9, <2>2 DEF Origin
  <2>4. Len(J) = 0
    OBVIOUS
  <2>5. QED
    BY <2>3, <2>4
<1>18. QED
  BY <1>1, <1>7, <1>8, <1>16, <1>17

\* The object o stands for the call c, and the run may make it.
StandsFor(o, c) ==
    /\ o.args # None /\ c = Spelled(CallOf(o))
    /\ reading.permitted # {} => Canonical(o.name) \in reading.permitted
\* The tag p without an object borrows that of q for the call c.
Borrows(p, q, c) ==
    /\ p.kind = "tag" /\ p.objects[1].args = None /\ HasObject(q)
    /\ Canonical(p.objects[1].name) \in reading.permitted
    /\ c = Spelled([Lent(q) EXCEPT !.tool = Canonical(p.objects[1].name)])
WrittenIn(ps, c) ==
    \/ \E r \in 1..Len(ps) : \E o \in 1..Len(ps[r].objects) : StandsFor(ObjectOf(ps, <<r, o>>), c)
    \/ \E r, s \in 1..Len(ps) : r < s /\ Borrows(ps[r], ps[s], c)

LEMMA FoundWritten ==
    ASSUME NEW ps \in Seq(Parts), NEW n \in 1..Len(FoundIn(ps))
    PROVE  WrittenIn(ps, Spelled(FoundIn(ps)[n]))
<1>1. PICK loc : Located(loc, ps, FoundIn(ps))
  BY FoundIs
<1>2. PICK c : c = FoundIn(ps)[n]
  OBVIOUS
<1>3. PICK r \in Nat, o \in Nat : loc[n] = <<r, o>>
  <2>1. loc[n] \in Nat \X Nat
    BY <1>1 DEF Located
  <2>2. QED
    BY <2>1
<1>30. loc[n][1] = r /\ loc[n][2] = o
  BY <1>3
<1>4. r \in 1..Len(ps) /\ o \in 1..Len(ps[r].objects) /\ ReadObject(ObjectOf(ps, <<r, o>>)) = <<c>>
  <2>1. /\ loc[n][1] \in 1..Len(ps) /\ loc[n][2] \in 1..Len(ps[loc[n][1]].objects)
        /\ ReadObject(ObjectOf(ps, loc[n])) = <<FoundIn(ps)[n]>>
    BY <1>1 DEF Located
  <2>2. QED
    BY <1>2, <1>3, <1>30, <2>1
<1>5. PICK ob : ob = ObjectOf(ps, <<r, o>>) /\ ob \in Objects
  <2>1. ps[r].objects \in Seq(Objects)
    BY <1>4, PartIs
  <2>2. QED
    BY <1>4, <2>1 DEF ObjectOf
<1>6. /\ ob.args # None /\ c = CallOf(ob)
      /\ reading.permitted # {} => Canonical(ob.name) \in reading.permitted
  BY <1>4, <1>5, ObjectIs
<1>7. QED
  BY <1>2, <1>4, <1>5, <1>6 DEF WrittenIn, StandsFor

\* The object a part lends to a tag.
LEMMA LentIs ==
    ASSUME NEW p \in Parts, HasObject(p)
    PROVE  /\ Lent(p) \in CallRead
           /\ p.kind = "tag" => Lent(p) = CallOf(p.objects[1]) /\ p.objects[1].args # None
<1>1. PICK os : os = p.objects /\ os \in Seq(Objects) /\ os # <<>>
  BY PartIs DEF HasObject
<1>2. PICK o : o = p.objects[1] /\ o \in Objects
  BY <1>1
<1>3. CallOf(o) \in CallRead /\ o.name \in DOMAIN Aliases
  BY <1>2, CallOfIs DEF Objects
<1>4. [CallOf(o) EXCEPT !.inner = o.name] \in CallRead
  BY <1>3 DEF CallRead
<1>5. QED
  BY <1>2, <1>3, <1>4 DEF Lent, HasObject

LEMMA ReadTagIs ==
    ASSUME NEW ps \in Seq(Parts), NEW i \in 1..Len(ps), ps[i].kind = "tag"
    PROVE  /\ ReadTag(ps, i) = <<>> \/ \E c \in CallRead : ReadTag(ps, i) = <<c>>
           /\ \A c : ReadTag(ps, i) = <<c>> => WrittenIn(ps, Spelled(c))
<1>1. PICK p : p = ps[i] /\ p \in Parts
  OBVIOUS
<1>2. p.kind = "tag" /\ p.objects \in Seq(Objects) /\ Len(p.objects) = 1
  BY <1>1, PartIs
<1>3. PICK o : o = p.objects[1] /\ o \in Objects
  BY <1>2
<1> DEFINE tool  == Canonical(o.name)
           SoundOnes == {j \in DOMAIN ps : Takes(ps, i, j) /\ ps[j].form = "sound"}
           taken == tool # None /\ NativePermits(tool) /\ SoundOnes # {}
<1>4. PICK j : j = CHOOSE k \in SoundOnes : TRUE
  OBVIOUS
<1>5. PICK c0 : c0 = [Lent(ps[j]) EXCEPT !.tool = tool]
  OBVIOUS
<1>6. ReadTag(ps, i) = IF taken THEN <<c0>> ELSE <<>>
  BY <1>1, <1>3, <1>4, <1>5 DEF ReadTag
<1>7. ASSUME taken PROVE c0 \in CallRead /\ WrittenIn(ps, Spelled(c0))
  <2>1. j \in SoundOnes
    BY <1>4, <1>7
  <2>2. j \in i..Len(ps) /\ HasObject(ps[j]) /\ \A k \in i..(j - 1) : ~HasObject(ps[k])
    BY <2>1 DEF Takes
  <2>3. PICK q : q = ps[j] /\ q \in Parts /\ HasObject(q) /\ j \in 1..Len(ps)
    BY <2>2
  <2>4. Lent(q) \in CallRead /\ (q.kind = "tag" => Lent(q) = CallOf(q.objects[1]) /\ q.objects[1].args # None)
    BY <2>3, LentIs
  <2>5. tool \in {Aliases[n] : n \in DOMAIN Aliases} /\ tool \in reading.permitted
    BY <1>3, <1>7 DEF Objects, Canonical, NativePermits
  <2>6. c0 \in CallRead
    BY <1>5, <2>3, <2>4, <2>5 DEF CallRead
  <2>7. CASE j = i
    <3>1. q = p /\ c0 = CallOf(o) /\ o.args # None
      BY <1>1, <1>2, <1>3, <1>5, <2>3, <2>4, <2>7 DEF CallOf
    <3>2. StandsFor(o, Spelled(c0)) /\ ObjectOf(ps, <<i, 1>>) = o /\ 1 \in 1..Len(ps[i].objects)
      BY <1>1, <1>2, <1>3, <2>5, <3>1 DEF StandsFor, ObjectOf
    <3>3. QED
      BY <2>6, <3>2 DEF WrittenIn
  <2>8. CASE j # i
    <3>1. i < j /\ ~HasObject(p)
      BY <1>1, <2>2, <2>8
    <3>2. o.args = None
      BY <1>2, <1>3, <3>1 DEF HasObject
    <3>3. Borrows(ps[i], ps[j], Spelled(c0))
      BY <1>1, <1>2, <1>3, <1>5, <2>2, <2>5, <3>2 DEF Borrows
    <3>4. QED
      BY <2>3, <2>6, <3>1, <3>3 DEF WrittenIn
  <2>9. QED
    BY <2>7, <2>8
<1> HIDE DEF taken
<1>8. \A c : ReadTag(ps, i) = <<c>> => taken /\ c = c0
  <2>1. \A c : <<c>> # <<>> /\ (<<c0>> = <<c>> => c = c0)
    OBVIOUS
  <2>2. CASE taken
    BY <1>6, <2>1, <2>2
  <2>3. CASE ~taken
    BY <1>6, <2>1, <2>3
  <2>4. QED
    BY <2>2, <2>3
<1>9. QED
  BY <1>6, <1>7, <1>8

LEMMA TagsWritten ==
    ASSUME NEW ps \in Seq(Parts)
    PROVE  /\ TagCalls(ps) \in Seq(CallRead)
           /\ \A n \in 1..Len(TagCalls(ps)) : WrittenIn(ps, Spelled(TagCalls(ps)[n]))
<1> DEFINE ss == [i \in DOMAIN ps |-> IF i \in Tags(ps) THEN ReadTag(ps, i) ELSE <<>>]
<1>1. DOMAIN ps = 1..Len(ps) /\ Len(ps) \in Nat
  OBVIOUS
<1>2. \A i \in 1..Len(ps) : i \in Tags(ps) => ps[i].kind = "tag"
  BY DEF Tags
<1>3. \A i \in 1..Len(ps) : \/ ss[i] = <<>>
                            \/ ps[i].kind = "tag" /\ ss[i] = ReadTag(ps, i)
  BY <1>1, <1>2
<1>4. DOMAIN ss = 1..Len(ps)
  BY <1>1
<1>5. PICK F : F = TagCalls(ps) /\ F = Lists!FlattenSeq(ss)
  BY DEF TagCalls
<1> HIDE DEF ss
<1>6. \A i \in 1..Len(ps) : ss[i] = <<>> \/ \E c \in CallRead : ss[i] = <<c>>
  BY <1>3, ReadTagIs
<1>7. \A i \in 1..Len(ps) : ss[i] \in Seq(CallRead)
  <2>1. <<>> \in Seq(CallRead) /\ \A c \in CallRead : <<c>> \in Seq(CallRead)
    OBVIOUS
  <2> HIDE DEF CallRead
  <2>2. QED
    BY <1>6, <2>1
<1>8. ss \in Seq(Seq(CallRead)) /\ Len(ss) = Len(ps)
  <2>1. ss = [i \in 1..Len(ps) |-> ss[i]]
    BY <1>1 DEF ss
  <2>2. QED
    BY <1>1, <1>4, <1>7, <2>1, IsASeq, LenProperties
<1>9. Lists!FlattenSeq(ss) \in Seq(CallRead) /\ \E g : Chosen(g, ss, Lists!FlattenSeq(ss))
  BY <1>6, <1>8, ChosenIs
<1>10. PICK g : Chosen(g, ss, F)
  BY <1>5, <1>9
<1>11. ASSUME NEW n \in 1..Len(F) PROVE WrittenIn(ps, Spelled(F[n]))
  <2>1. PICK i \in 1..Len(ps) : ss[i] = <<F[n]>>
    BY <1>8, <1>10 DEF Chosen
  <2>2. ps[i].kind = "tag" /\ ReadTag(ps, i) = <<F[n]>>
    <3>1. <<F[n]>> # <<>>
      OBVIOUS
    <3>2. QED
      BY <1>3, <2>1, <3>1
  <2>3. QED
    BY <2>2, ReadTagIs
<1>12. QED
  BY <1>5, <1>9, <1>11

LEMMA TextCallsAre ==
    ASSUME NEW ps \in Seq(Parts), NEW cs, cs = TextCalls(ps)
    PROVE  /\ cs \in Seq(CallMeant) /\ Len(cs) <= ReplyCap /\ Cardinality(SetOf(cs)) = Len(cs)
           /\ \A i \in 1..Len(cs) : WrittenIn(ps, cs[i])
           /\ cs = <<>> => FoundIn(ps) = <<>>
           /\ FoundIn(ps) # <<>> => cs = Limit(Normalized(JsonCalls(ps)), ReplyCap)
<1>1. PICK J : J = FoundIn(ps)
  OBVIOUS
<1>2. PICK R : R = JsonCalls(ps)
  OBVIOUS
<1>3. R = Limit(J, JsonCap)
  BY <1>1, <1>2 DEF JsonCalls, FoundIn
<1>4. J \in Seq(CallRead) /\ \A n \in 1..Len(J) : WrittenIn(ps, Spelled(J[n]))
  BY <1>1, FoundIs, FoundWritten
<1>5. /\ R \in Seq(CallRead) /\ Len(R) = IF Len(J) < JsonCap THEN Len(J) ELSE JsonCap
      /\ \A i \in 1..Len(R) : i \in 1..Len(J) /\ R[i] = J[i]
  BY <1>3, <1>4, CapsAre, LimitIs
<1>6. R = <<>> <=> J = <<>>
  <2>1. Len(R) \in Nat /\ Len(J) \in Nat /\ JsonCap \in Nat \ {0}
    BY <1>4, <1>5, CapsAre
  <2>2. Len(R) = 0 <=> Len(J) = 0
    BY <1>5, <2>1
  <2>3. (Len(R) = 0 <=> R = <<>>) /\ (Len(J) = 0 <=> J = <<>>)
    BY <1>4, <1>5, EmptySeq
  <2>4. QED
    BY <2>2, <2>3
<1>7. PICK T : T = IF R # <<>> THEN R ELSE TagCalls(ps)
  OBVIOUS
<1>8. cs = Limit(Normalized(T), ReplyCap)
  BY <1>2, <1>7 DEF TextCalls
<1>9. T \in Seq(CallRead) /\ \A n \in 1..Len(T) : WrittenIn(ps, Spelled(T[n]))
  <2>1. CASE R # <<>>
    BY <1>4, <1>5, <1>7, <2>1
  <2>2. CASE R = <<>>
    BY <1>7, <2>2, TagsWritten
  <2>3. QED
    BY <2>1, <2>2
<1>10. /\ cs \in Seq(CallMeant) /\ Len(cs) <= ReplyCap /\ Cardinality(SetOf(cs)) = Len(cs)
       /\ \E g : Distinct(g, T, cs)
       /\ T # <<>> => cs # <<>>
  BY <1>8, <1>9, FinishIs
<1>11. PICK g : Distinct(g, T, cs)
  BY <1>10
<1>12. \A i \in 1..Len(cs) : WrittenIn(ps, cs[i])
  BY <1>9, <1>11 DEF Distinct
<1>13. cs = <<>> => J = <<>>
  BY <1>6, <1>7, <1>10
<1>14. J # <<>> => cs = Limit(Normalized(R), ReplyCap)
  BY <1>6, <1>7, <1>8
<1>15. QED
  BY <1>1, <1>2, <1>10, <1>12, <1>13, <1>14

LEMMA PlacesAre ==
    ASSUME text \in Seq(Parts)
    PROVE  \A x : x \in Places <=> /\ x \in Nat \X Nat /\ x[1] \in 1..Len(text)
                                   /\ x[2] \in 1..Len(text[x[1]].objects)
<1> SUFFICES ASSUME NEW x
             PROVE  x \in Places <=> /\ x \in Nat \X Nat /\ x[1] \in 1..Len(text)
                                     /\ x[2] \in 1..Len(text[x[1]].objects)
  OBVIOUS
<1>1. DOMAIN text = 1..Len(text) /\ Len(text) \in Nat
  OBVIOUS
<1>2. \A i \in 1..Len(text) : DOMAIN text[i].objects = 1..Len(text[i].objects)
  <2> SUFFICES ASSUME NEW i \in 1..Len(text) PROVE DOMAIN text[i].objects = 1..Len(text[i].objects)
    OBVIOUS
  <2>1. text[i].objects \in Seq(Objects)
    BY PartIs
  <2>2. QED
    BY <2>1
<1>3. x \in Places <=> \E i \in 1..Len(text) : \E k \in 1..Len(text[i].objects) : x = <<i, k>>
  BY <1>1, <1>2 DEF Places
<1>4. ASSUME NEW i \in 1..Len(text), NEW k \in 1..Len(text[i].objects), x = <<i, k>>
      PROVE  x \in Nat \X Nat /\ x[1] \in 1..Len(text) /\ x[2] \in 1..Len(text[x[1]].objects)
  <2>1. x[1] = i /\ x[2] = k /\ i \in Nat /\ k \in Nat
    BY <1>4
  <2>2. QED
    BY <1>4, <2>1
<1>5. QED
  BY <1>3, <1>4

LEMMA FencesAt ==
    ASSUME text \in Seq(Parts), reading.permitted \in Permitted, NEW J, NEW loc, Located(loc, text, J)
    PROVE  /\ \A n \in 1..Len(J) : loc[n] \in Places /\ MeaningAt(loc[n]) = Spelled(J[n])
           /\ \A x \in Places : InFence(x) => \E n \in 1..Len(J) : loc[n] = x
           /\ \A n, m \in 1..Len(J) : n < m /\ InFence(loc[m]) => InFence(loc[n]) /\ Before(loc[n], loc[m])
<1>1. ASSUME NEW n \in 1..Len(J)
      PROVE  /\ loc[n] \in Places /\ MeaningAt(loc[n]) = Spelled(J[n])
             /\ reading.permitted # {} /\ text[loc[n][1]].kind = "fence" => InFence(loc[n])
  <2>1. /\ loc[n] \in Nat \X Nat /\ loc[n][1] \in 1..Len(text) /\ loc[n][2] \in 1..Len(text[loc[n][1]].objects)
        /\ ReadObject(ObjectOf(text, loc[n])) = <<J[n]>> /\ Decodes(text[loc[n][1]])
    BY DEF Located
  <2>2. PICK p : p = text[loc[n][1]] /\ p \in Parts
    BY <2>1
  <2>3. PICK o : o = ObjectOf(text, loc[n]) /\ o = p.objects[loc[n][2]]
    BY <2>2 DEF ObjectOf
  <2>4. o \in Objects /\ o = ObjectAt(loc[n])
    <3>1. p.objects \in Seq(Objects)
      BY <2>2, PartIs
    <3>2. QED
      BY <2>1, <2>2, <2>3, <3>1 DEF ObjectAt
  <2>5. /\ o.args # None /\ J[n] = CallOf(o)
        /\ reading.permitted # {} => Canonical(o.name) \in reading.permitted
    BY <2>1, <2>3, <2>4, ObjectIs
  <2>6. p.kind = "fence" => p.form # "broken"
    BY <2>1, <2>2, PartIs
  <2>7. QED
    BY <2>1, <2>2, <2>4, <2>5, <2>6, PlacesAre DEF MeaningAt, InFence, Callable
<1>2. ASSUME NEW x \in Places, InFence(x) PROVE \E n \in 1..Len(J) : loc[n] = x
  <2>1. PICK r \in Nat, k \in Nat : x = <<r, k>>
    BY PlacesAre
  <2>2. x[1] = r /\ x[2] = k /\ r \in 1..Len(text) /\ k \in 1..Len(text[r].objects)
    BY <2>1, PlacesAre
  <2>3. PICK p : p = text[r] /\ p \in Parts
    BY <2>2
  <2>4. PICK o : o = ObjectAt(x) /\ o = p.objects[k]
    BY <2>2, <2>3 DEF ObjectAt
  <2>5. o \in Objects /\ o = ObjectOf(text, <<r, k>>)
    <3>1. p.objects \in Seq(Objects)
      BY <2>3, PartIs
    <3>2. QED
      BY <2>2, <2>3, <2>4, <3>1 DEF ObjectOf
  <2>6. p.kind = "fence" /\ p.form # "broken" /\ Canonical(o.name) \in reading.permitted /\ o.args # None
    BY <1>2, <2>2, <2>3, <2>4 DEF InFence, Callable
  <2>7. Decodes(p) /\ ReadObject(o) # <<>>
    BY <2>3, <2>5, <2>6, PartIs, ObjectIs
  <2>8. QED
    BY <2>1, <2>2, <2>3, <2>5, <2>6, <2>7 DEF Located
<1>3. ASSUME NEW n \in 1..Len(J), NEW m \in 1..Len(J), n < m, InFence(loc[m])
      PROVE  InFence(loc[n]) /\ Before(loc[n], loc[m])
  <2>1. text[loc[m][1]].kind = "fence" /\ reading.permitted # {}
    BY <1>3 DEF InFence, Callable
  <2>2. text[loc[n][1]].kind = "fence" /\ Before(loc[n], loc[m])
    BY <1>3, <2>1 DEF Located
  <2>3. QED
    BY <1>1, <2>1, <2>2
<1>4. QED
  BY <1>1, <1>2, <1>3

\* Two places are before each other in one way only.
LEMMA BeforeIs ==
    \A x, y \in Nat \X Nat : Before(x, y) => x # y /\ ~Before(y, x)
  BY DEF Before

\* So many readable objects of fenced blocks are before that of call J[a].
LEMMA CountBefore ==
    ASSUME text \in Seq(Parts), reading.permitted \in Permitted, NEW J, Len(J) \in Nat, NEW loc,
           Located(loc, text, J), NEW a \in 1..Len(J), InFence(loc[a])
    PROVE  Cardinality({y \in Places : InFence(y) /\ Before(y, loc[a])}) = a - 1
<1>1. /\ \A n \in 1..Len(J) : loc[n] \in Places
      /\ \A x \in Places : InFence(x) => \E n \in 1..Len(J) : loc[n] = x
      /\ \A n, m \in 1..Len(J) : n < m /\ InFence(loc[m]) => InFence(loc[n]) /\ Before(loc[n], loc[m])
  BY FencesAt
<1>2. \A x \in Places : x \in Nat \X Nat
  BY PlacesAre
<1>3. a - 1 \in Nat /\ \A i \in 1..(a - 1) : i \in 1..Len(J) /\ i < a
  OBVIOUS
<1>4. {y \in Places : InFence(y) /\ Before(y, loc[a])} = {loc[i] : i \in 1..(a - 1)}
  <2>1. ASSUME NEW y \in Places, InFence(y), Before(y, loc[a]) PROVE \E i \in 1..(a - 1) : loc[i] = y
    <3>1. PICK i \in 1..Len(J) : loc[i] = y
      BY <1>1, <2>1
    <3>2. loc[a] \in Nat \X Nat /\ y \in Nat \X Nat
      BY <1>1, <1>2
    <3>3. ~Before(loc[a], y) /\ loc[a] # y
      BY <2>1, <3>2, BeforeIs
    <3>4. ~(a < i) /\ a # i
      BY <1>1, <2>1, <3>1, <3>3
    <3>5. i \in 1..(a - 1)
      BY <3>4
    <3>6. QED
      BY <3>1, <3>5
  <2>2. \A i \in 1..(a - 1) : loc[i] \in Places /\ InFence(loc[i]) /\ Before(loc[i], loc[a])
    BY <1>1, <1>3
  <2>3. QED
    BY <2>1, <2>2
<1>5. \A i, j \in 1..(a - 1) : loc[i] = loc[j] => i = j
  <2> SUFFICES ASSUME NEW i \in 1..(a - 1), NEW j \in 1..(a - 1), loc[i] = loc[j] PROVE i = j
    OBVIOUS
  <2>1. i \in 1..Len(J) /\ j \in 1..Len(J) /\ InFence(loc[i]) /\ InFence(loc[j])
    BY <1>1, <1>3
  <2>2. loc[i] \in Nat \X Nat /\ ~Before(loc[i], loc[j]) /\ ~Before(loc[j], loc[i])
    BY <1>1, <1>2, <2>1, BeforeIs
  <2>3. ~(i < j) /\ ~(j < i)
    BY <1>1, <2>1, <2>2
  <2>4. QED
    BY <2>3
<1>6. Cardinality({loc[i] : i \in 1..(a - 1)}) = a - 1
  <2>1. PICK n \in Nat : n = a - 1
    BY <1>3
  <2>2. \A i, j \in 1..n : loc[i] = loc[j] => i = j
    BY <1>5, <2>1
  <2>3. Cardinality({loc[i] : i \in 1..n}) = n
    BY <2>2, ImageCount
  <2>4. QED
    BY <2>1, <2>3
<1>7. QED
  BY <1>4, <1>6

FencesKept(cs) == \A x \in Places : InFence(x) =>
    \/ MeaningAt(x) \in SetOf(cs)
    \/ Cardinality({y \in Places : InFence(y) /\ Before(y, x)}) >= JsonCap
FencesOrdered(cs) == \A i, j \in DOMAIN cs : \A x, y \in Places :
    First(cs[i], x) /\ First(cs[j], y) /\ Before(x, y) => i < j

\* Of the fenced blocks none is lost but beyond the cap, and they keep their order.
LEMMA FencesTold ==
    ASSUME text \in Seq(Parts), reading.permitted \in Permitted, NEW cs, cs = TextCalls(text)
    PROVE  FencesKept(cs) /\ FencesOrdered(cs)
<1>1. PICK J : J = FoundIn(text)
  OBVIOUS
<1>2. J \in Seq(CallRead) /\ \E loc : Located(loc, text, J)
  BY <1>1, FoundIs
<1>3. PICK loc : Located(loc, text, J)
  BY <1>2
<1>4. /\ \A n \in 1..Len(J) : loc[n] \in Places /\ MeaningAt(loc[n]) = Spelled(J[n])
      /\ \A x \in Places : InFence(x) => \E n \in 1..Len(J) : loc[n] = x
      /\ \A n, m \in 1..Len(J) : n < m /\ InFence(loc[m]) => InFence(loc[n]) /\ Before(loc[n], loc[m])
  BY <1>3, FencesAt
<1>5. Len(J) \in Nat /\ JsonCap \in Nat /\ ReplyCap \in Nat /\ JsonCap <= ReplyCap
  BY <1>2, CapsAre
<1>6. PICK R : R = JsonCalls(text) /\ R = Limit(J, JsonCap)
  BY <1>1 DEF JsonCalls, FoundIn
<1>7. /\ R \in Seq(CallRead) /\ Len(R) = IF Len(J) < JsonCap THEN Len(J) ELSE JsonCap
      /\ \A i \in 1..Len(R) : i \in 1..Len(J) /\ R[i] = J[i]
  BY <1>2, <1>5, <1>6, LimitIs
<1>8. Len(R) \in Nat /\ Len(R) <= ReplyCap /\ Len(R) <= JsonCap
  BY <1>5, <1>7
<1>9. J # <<>> => cs = Limit(Normalized(R), ReplyCap)
  BY <1>1, <1>6, TextCallsAre
<1>10. cs \in Seq(CallMeant)
  BY TextCallsAre
<1>11. DOMAIN cs = 1..Len(cs) /\ SetOf(cs) = {cs[i] : i \in 1..Len(cs)}
  BY <1>10 DEF SetOf
<1>12. ASSUME NEW x \in Places, InFence(x)
       PROVE  \/ MeaningAt(x) \in SetOf(cs)
              \/ Cardinality({y \in Places : InFence(y) /\ Before(y, x)}) >= JsonCap
  <2>1. PICK a \in 1..Len(J) : loc[a] = x
    BY <1>4, <1>12
  <2>2. J # <<>>
    BY <1>2, <2>1
  <2>3. cs = Limit(Normalized(R), ReplyCap)
    BY <1>9, <2>2
  <2>4. \A i \in 1..Len(R) : \E n \in 1..Len(cs) : cs[n] = Spelled(R[i])
    BY <1>7, <1>8, <2>3, FinishIs
  <2>5. CASE a <= JsonCap
    <3>1. a \in 1..Len(R) /\ R[a] = J[a]
      BY <1>5, <1>7, <2>5
    <3>2. PICK n \in 1..Len(cs) : cs[n] = Spelled(J[a])
      BY <2>4, <3>1
    <3>3. QED
      BY <1>4, <1>11, <2>1, <3>2
  <2>6. CASE a > JsonCap
    <3>1. Cardinality({y \in Places : InFence(y) /\ Before(y, x)}) = a - 1
      BY <1>3, <1>5, <1>12, <2>1, CountBefore
    <3>2. a - 1 >= JsonCap
      BY <1>5, <2>6
    <3>3. QED
      BY <3>1, <3>2
  <2>7. QED
    BY <1>5, <2>5, <2>6
<1>13. ASSUME NEW i \in 1..Len(cs), NEW j \in 1..Len(cs), NEW x \in Places, NEW y \in Places,
              First(cs[i], x), First(cs[j], y), Before(x, y)
       PROVE  i < j
  <2>1. /\ InFence(x) /\ MeaningAt(x) = cs[i] /\ InFence(y) /\ MeaningAt(y) = cs[j]
        /\ \A z \in Places : InFence(z) /\ MeaningAt(z) = cs[i] => ~Before(z, x)
        /\ \A z \in Places : InFence(z) /\ MeaningAt(z) = cs[j] => ~Before(z, y)
    BY <1>13 DEF First
  <2>2. PICK a \in 1..Len(J) : loc[a] = x
    BY <1>4, <2>1
  <2>3. PICK b \in 1..Len(J) : loc[b] = y
    BY <1>4, <2>1
  <2>4. J # <<>>
    BY <1>2, <2>2
  <2>5. cs = Limit(Normalized(R), ReplyCap)
    BY <1>9, <2>4
  <2>6. \E g : Distinct(g, R, cs)
    BY <1>7, <2>5, FinishIs
  <2>7. PICK g : Distinct(g, R, cs)
    BY <2>6
  <2>8. \A n \in 1..Len(cs) : g[n] \in 1..Len(R) /\ cs[n] = Spelled(R[g[n]])
    BY <2>7 DEF Distinct
  <2>9. \A n \in 1..Len(cs), c \in 1..Len(J) :
           First(cs[n], loc[c]) => c = g[n]
    <3> SUFFICES ASSUME NEW n \in 1..Len(cs), NEW c \in 1..Len(J), First(cs[n], loc[c]) PROVE c = g[n]
      OBVIOUS
    <3>1. /\ InFence(loc[c]) /\ MeaningAt(loc[c]) = cs[n]
          /\ \A z \in Places : InFence(z) /\ MeaningAt(z) = cs[n] => ~Before(z, loc[c])
      BY DEF First
    <3>2. g[n] \in 1..Len(R) /\ g[n] \in 1..Len(J) /\ cs[n] = Spelled(J[g[n]])
      BY <1>7, <2>8
    <3>3. Spelled(J[c]) = cs[n]
      BY <1>4, <3>1
    <3>4. ~(c < g[n])
      <4> SUFFICES ASSUME c < g[n] PROVE FALSE
        OBVIOUS
      <4>1. c \in 1..Len(R) /\ R[c] = J[c]
        <5>1. c \in 1..Len(R)
          BY <1>8, <3>2
        <5>2. QED
          BY <1>7, <5>1
      <4>2. Spelled(R[c]) # Spelled(R[g[n]])
        BY <2>7, <4>1 DEF Distinct
      <4>3. QED
        BY <2>8, <3>3, <4>1, <4>2
    <3>5. ~(g[n] < c)
      <4> SUFFICES ASSUME g[n] < c PROVE FALSE
        OBVIOUS
      <4>1. InFence(loc[g[n]]) /\ Before(loc[g[n]], loc[c])
        BY <1>4, <3>1, <3>2
      <4>2. loc[g[n]] \in Places /\ MeaningAt(loc[g[n]]) = cs[n]
        BY <1>4, <3>2
      <4>3. QED
        BY <3>1, <4>1, <4>2
    <3>6. QED
      BY <1>5, <3>2, <3>4, <3>5
  <2>10. a = g[i] /\ b = g[j]
    BY <1>13, <2>2, <2>3, <2>9
  <2>11. x \in Nat \X Nat /\ y \in Nat \X Nat
    BY PlacesAre
  <2>12. ~Before(y, x) /\ x # y
    BY <1>13, <2>11, BeforeIs
  <2>13. a < b
    <3>1. ~(b < a) /\ a # b
      BY <1>4, <2>1, <2>2, <2>3, <2>12
    <3>2. QED
      BY <3>1
  <2>14. ~(j < i) /\ i # j
    <3>1. j < i => g[j] < g[i]
      BY <2>7 DEF Distinct
    <3>2. QED
      BY <1>5, <2>10, <2>13, <3>1
  <2>15. i \in Nat /\ j \in Nat
    OBVIOUS
  <2>16. QED
    BY <2>14, <2>15
<1>14. FencesKept(cs)
  BY <1>12 DEF FencesKept
<1>15. FencesOrdered(cs)
  BY <1>11, <1>13 DEF FencesOrdered
<1>16. QED
  BY <1>14, <1>15

\* The call c is written in the text, or borrowed by a tag.
Sourced(c) == \E x \in Places : WrittenAt(c, x) \/ \E j \in DOMAIN text : BorrowedAt(c, x, j)

LEMMA TextSources ==
    ASSUME text \in Seq(Parts), NEW c, WrittenIn(text, c)
    PROVE  Sourced(c)
<1>1. ASSUME NEW r \in 1..Len(text), NEW o \in 1..Len(text[r].objects), StandsFor(ObjectOf(text, <<r, o>>), c)
      PROVE  Sourced(c)
  <2>1. PICK x : x = <<r, o>>
    OBVIOUS
  <2>2. x \in Places
    BY <2>1, PlacesAre
  <2>3. ObjectAt(x) = ObjectOf(text, <<r, o>>)
    BY <2>1 DEF ObjectAt, ObjectOf
  <2>4. WrittenAt(c, x)
    BY <1>1, <2>3 DEF StandsFor, WrittenAt, MeaningAt, Callable
  <2>5. QED
    BY <2>2, <2>4 DEF Sourced
<1>2. ASSUME NEW r \in 1..Len(text), NEW s \in 1..Len(text), r < s, Borrows(text[r], text[s], c)
      PROVE  Sourced(c)
  <2>1. PICK x : x = <<r, 1>>
    OBVIOUS
  <2>2. x[1] = r /\ x[2] = 1 /\ x \in Nat \X Nat
    BY <2>1
  <2>3. text[r] \in Parts /\ text[r].kind = "tag"
    BY <1>2 DEF Borrows
  <2>4. 1 \in 1..Len(text[r].objects)
    <3>1. Len(text[r].objects) = 1
      BY <2>3, PartIs
    <3>2. QED
      BY <3>1
  <2>5. x \in Places
    BY <2>2, <2>4, PlacesAre
  <2>6. ObjectAt(x) = text[r].objects[1]
    BY <2>2 DEF ObjectAt
  <2>7. BorrowedAt(c, x, s) /\ s \in DOMAIN text
    BY <1>2, <2>2, <2>6 DEF Borrows, BorrowedAt
  <2>8. QED
    BY <2>5, <2>7 DEF Sourced
<1>3. QED
  BY <1>1, <1>2 DEF WrittenIn

LEMMA VisibleWritten ==
    ASSUME text \in Seq(Parts)
    PROVE  Visible(text) \in Seq(Parts) /\ \A c : WrittenIn(Visible(text), c) => WrittenIn(text, c)
<1> DEFINE P == {i \in DOMAIN text : ~text[i].hidden}
<1>1. PICK V : V = Visible(text)
  OBVIOUS
<1>2. V \in Seq(Parts) /\ \E q : Picks(q, text, P, V)
  BY <1>1, PickedIs DEF Visible
<1>3. PICK q : Picks(q, text, P, V)
  BY <1>2
<1>4. /\ \A r \in 1..Len(V) : q[r] \in 1..Len(text) /\ V[r] = text[q[r]]
      /\ \A r, s \in 1..Len(V) : r < s => q[r] < q[s]
  BY <1>3 DEF Picks
<1>5. ASSUME NEW c, NEW r \in 1..Len(V), NEW o \in 1..Len(V[r].objects), StandsFor(ObjectOf(V, <<r, o>>), c)
      PROVE  WrittenIn(text, c)
  <2>1. PICK i \in 1..Len(text) : i = q[r] /\ V[r] = text[i]
    BY <1>4
  <2>2. ObjectOf(V, <<r, o>>) = ObjectOf(text, <<i, o>>) /\ o \in 1..Len(text[i].objects)
    BY <2>1 DEF ObjectOf
  <2>3. QED
    BY <1>5, <2>2 DEF WrittenIn
<1>6. ASSUME NEW c, NEW r \in 1..Len(V), NEW s \in 1..Len(V), r < s, Borrows(V[r], V[s], c)
      PROVE  WrittenIn(text, c)
  <2>1. q[r] \in 1..Len(text) /\ q[s] \in 1..Len(text) /\ q[r] < q[s]
    BY <1>4, <1>6
  <2>2. Borrows(text[q[r]], text[q[s]], c)
    BY <1>4, <1>6
  <2>3. QED
    BY <2>1, <2>2 DEF WrittenIn
<1>7. \A c : WrittenIn(V, c) => WrittenIn(text, c)
  <2> SUFFICES ASSUME NEW c, WrittenIn(V, c) PROVE WrittenIn(text, c)
    OBVIOUS
  <2>1. \/ \E r \in 1..Len(V) : \E o \in 1..Len(V[r].objects) : StandsFor(ObjectOf(V, <<r, o>>), c)
        \/ \E r, s \in 1..Len(V) : r < s /\ Borrows(V[r], V[s], c)
    BY DEF WrittenIn
  <2>2. QED
    BY <1>5, <1>6, <2>1
<1>8. QED
  BY <1>1, <1>2, <1>7

\* A text of which no call is read has no readable object in a fenced block.
LEMMA NoneInFence ==
    ASSUME text \in Seq(Parts), reading.permitted \in Permitted, TextCalls(text) = <<>>
    PROVE  \A x \in Places : ~InFence(x)
<1>1. PICK J : J = FoundIn(text) /\ J = <<>>
  BY TextCallsAre
<1>2. PICK loc : Located(loc, text, J)
  BY <1>1, FoundIs
<1>3. Len(J) = 0
  BY <1>1
<1>4. QED
  BY <1>2, <1>3, FencesAt

LEMMA FenceFails ==
    ASSUME text \in Seq(Parts), TextCalls(text) = <<>>, Fences(text) # <<>>
    PROVE  TextFailure(text)
<1>1. FoundIn(text) = <<>>
  BY TextCallsAre
<1>2. PICK cs : cs = Candidates(text)
  OBVIOUS
<1>3. cs \in Seq(Parts) /\ \A i \in 1..Len(cs) : ReadPart(cs[i]) = <<>>
  BY <1>1, <1>2, CandidatesAre, FoundIs
<1>4. Fences(text) \in Seq(Parts) /\ Bare(text) \in Seq(Parts)
  BY PickedIs DEF Fences, Bare
<1>5. cs = Fences(text) \o Bare(text)
  BY <1>2 DEF Candidates
<1>6. 1 \in DOMAIN cs /\ 1 \in 1..Len(cs)
  <2>1. PICK A, B : A = Fences(text) /\ B = Bare(text)
    OBVIOUS
  <2>2. A \in Seq(Parts) /\ B \in Seq(Parts) /\ cs = A \o B /\ A # <<>>
    BY <1>4, <1>5, <2>1
  <2>3. Len(A) \in Nat \ {0} /\ Len(B) \in Nat /\ Len(cs) = Len(A) + Len(B)
    BY <2>2
  <2>4. QED
    BY <1>3, <2>3
<1>7. PICK p : p = cs[1] /\ p \in Parts /\ ReadPart(p) = <<>>
  BY <1>3, <1>6
<1>8. Rejects(p)
  <2>1. PICK os : os = p.objects /\ os \in Seq(Objects)
    BY <1>7, PartIs
  <2>2. os = <<>> \/ Len(<<>>) < Len(os)
    BY <2>1
  <2>3. QED
    BY <1>7, <2>1, <2>2 DEF Rejects
<1>9. QED
  BY <1>2, <1>6, <1>7, <1>8 DEF TextFailure

\* What CallsAsWritten says of the calls cs of a text.
Told(cs, failure) ==
    /\ Len(cs) <= ReplyCap /\ Cardinality(SetOf(cs)) = Len(cs)
    /\ \A c \in SetOf(cs) : Sourced(c)
    /\ FencesKept(cs) /\ FencesOrdered(cs)
    /\ cs = <<>> /\ Fences(text) # <<>> => failure
    /\ failure => cs = <<>>

LEMMA TextTold ==
    ASSUME text \in Seq(Parts), reading.permitted \in Permitted
    PROVE  Told(TextCalls(text), TextFailure(text))
<1>1. PICK cs : cs = TextCalls(text)
  OBVIOUS
<1>2. /\ cs \in Seq(CallMeant) /\ Len(cs) <= ReplyCap /\ Cardinality(SetOf(cs)) = Len(cs)
      /\ \A i \in 1..Len(cs) : WrittenIn(text, cs[i])
  BY <1>1, TextCallsAre
<1>3. \A c \in SetOf(cs) : WrittenIn(text, c)
  BY <1>2 DEF SetOf
<1>4. FencesKept(cs) /\ FencesOrdered(cs)
  BY <1>1, FencesTold
<1>5. cs = <<>> /\ Fences(text) # <<>> => TextFailure(text)
  BY <1>1, FenceFails
<1>6. TextFailure(text) => cs = <<>>
  BY <1>1 DEF TextFailure
<1>7. \A c \in SetOf(cs) : Sourced(c)
  BY <1>3, TextSources
<1>8. Told(cs, TextFailure(text))
  BY <1>2, <1>4, <1>5, <1>6, <1>7 DEF Told
<1>9. QED
  BY <1>1, <1>8

LEMMA VisibleTold ==
    ASSUME text \in Seq(Parts), reading.permitted \in Permitted, TextCalls(text) = <<>>
    PROVE  Told(TextCalls(Visible(text)),
                (TextFailure(text) \/ TextFailure(Visible(text))) /\ TextCalls(Visible(text)) = <<>>)
<1>1. PICK V : V = Visible(text)
  OBVIOUS
<1>2. V \in Seq(Parts) /\ \A c : WrittenIn(V, c) => WrittenIn(text, c)
  BY <1>1, VisibleWritten
<1>3. PICK cs : cs = TextCalls(V)
  OBVIOUS
<1>4. /\ cs \in Seq(CallMeant) /\ Len(cs) <= ReplyCap /\ Cardinality(SetOf(cs)) = Len(cs)
      /\ \A i \in 1..Len(cs) : WrittenIn(V, cs[i])
  BY <1>2, <1>3, TextCallsAre
<1>5. \A c \in SetOf(cs) : WrittenIn(text, c)
  BY <1>2, <1>4 DEF SetOf
<1>6. \A c \in SetOf(cs) : Sourced(c)
  BY <1>5, TextSources
<1>7. FencesKept(cs) /\ FencesOrdered(cs)
  BY NoneInFence DEF FencesKept, FencesOrdered, First
<1>8. Fences(text) # <<>> => TextFailure(text)
  BY FenceFails
<1>9. Told(cs, (TextFailure(text) \/ TextFailure(V)) /\ cs = <<>>)
  BY <1>4, <1>6, <1>7, <1>8 DEF Told
<1>10. QED
  BY <1>1, <1>3, <1>9

LEMMA ToldSame ==
    ASSUME NEW cs, NEW failure, Told(cs, failure), UNCHANGED text, reading'.permitted = reading.permitted
    PROVE  Told(cs, failure)'
<1>1. Places' = Places
  BY DEF Places
<1>2. \A x : ObjectAt(x)' = ObjectAt(x) /\ MeaningAt(x)' = MeaningAt(x) /\ (Callable(x)' <=> Callable(x))
  BY DEF ObjectAt, MeaningAt, Callable
<1>3. \A x : InFence(x)' <=> InFence(x)
  BY <1>2 DEF InFence
<1>4. \A c, x : First(c, x)' <=> First(c, x)
  BY <1>1, <1>2, <1>3 DEF First
<1>5. FencesOrdered(cs)'
  BY <1>1, <1>4 DEF Told, FencesOrdered
<1>6. FencesKept(cs)'
  <2>1. \A x : {y \in Places' : InFence(y)' /\ Before(y, x)} = {y \in Places : InFence(y) /\ Before(y, x)}
    BY <1>1, <1>3
  <2>2. QED
    BY <1>1, <1>2, <1>3, <2>1 DEF Told, FencesKept
<1>7. \A c : Sourced(c) => Sourced(c)'
  <2>1. \A c, x : WrittenAt(c, x) => WrittenAt(c, x)'
    BY <1>2 DEF WrittenAt
  <2>2. \A c, x, j : BorrowedAt(c, x, j) => BorrowedAt(c, x, j)'
    BY <1>2 DEF BorrowedAt
  <2>3. QED
    BY <1>1, <2>1, <2>2 DEF Sourced
<1>8. QED
  BY <1>5, <1>6, <1>7 DEF Told

Fields == {"pc", "permitted", "calls", "failure", "from"}
RepliesInv ==
    /\ text \in Seq(Parts) /\ reading.permitted \in Permitted /\ DOMAIN reading = Fields
    /\ reading.pc = "read" /\ reading.from = "text" => Told(reading.calls, reading.failure)

LEMMA ReadAsIs ==
    ASSUME DOMAIN reading = Fields, NEW calls, NEW failure, NEW from, ReadAs(calls, failure, from)
    PROVE  /\ reading'.calls = calls /\ reading'.failure = failure /\ reading'.from = from
           /\ reading'.permitted = reading.permitted /\ DOMAIN reading' = Fields /\ UNCHANGED text
<1>1. "calls" \in DOMAIN reading /\ "failure" \in DOMAIN reading /\ "from" \in DOMAIN reading
  BY DEF Fields
<1>2. QED
  BY <1>1 DEF ReadAs

LEMMA ReadTextKeeps == ASSUME RepliesInv, ReadText PROVE RepliesInv'
<1>1. PICK cs, failure : Told(cs, failure) /\ ReadAs(cs, failure, "text")
  <2>1. CASE TextCalls(text) = <<>> /\ Thinking(text)
    BY <2>1, VisibleTold DEF ReadText, RepliesInv
  <2>2. CASE ~(TextCalls(text) = <<>> /\ Thinking(text))
    BY <2>2, TextTold DEF ReadText, RepliesInv
  <2>3. QED
    BY <2>1, <2>2
<1>2. /\ reading'.calls = cs /\ reading'.failure = failure
      /\ reading'.permitted = reading.permitted /\ DOMAIN reading' = Fields /\ UNCHANGED text
  BY <1>1, ReadAsIs DEF RepliesInv
<1>3. Told(cs, failure)'
  BY <1>1, <1>2, ToldSame
<1>4. QED
  BY <1>2, <1>3 DEF RepliesInv

LEMMA OtherwiseKeeps ==
    ASSUME RepliesInv, NEW calls, NEW failure, NEW from, from # "text", ReadAs(calls, failure, from)
    PROVE  RepliesInv'
<1>1. reading'.from = from /\ reading'.permitted = reading.permitted /\ DOMAIN reading' = Fields /\ UNCHANGED text
  BY ReadAsIs DEF RepliesInv
<1>2. QED
  BY <1>1 DEF RepliesInv

LEMMA RepliesStep == ASSUME RepliesInv, RepliesNext PROVE RepliesInv'
<1>1. ASSUME NEW p \in Parts, WritePart(p) PROVE RepliesInv'
  <2>1. text' \in Seq(Parts) /\ reading' = reading /\ reading.pc = "writing"
    BY <1>1 DEF WritePart, RepliesInv
  <2>2. QED
    BY <2>1 DEF RepliesInv
<1>2. ASSUME NEW o \in Natives, WriteNative(o) PROVE RepliesInv'
  <2>1. text' = text /\ reading' = reading /\ reading.pc = "writing"
    BY <1>2 DEF WriteNative
  <2>2. QED
    BY <2>1 DEF RepliesInv
<1>3. ASSUME NEW o \in Natives, NEW form \in Forms, ReadDirective(o, form) PROVE RepliesInv'
  <2>1. PICK calls : ReadAs(calls, FALSE, "directive")
    BY <1>3 DEF ReadDirective
  <2>2. QED
    BY <2>1, OtherwiseKeeps
<1>4. CASE ReadNatives
  <2>1. PICK calls, failure : ReadAs(calls, failure, "natives")
    BY <1>4 DEF ReadNatives
  <2>2. QED
    BY <2>1, OtherwiseKeeps
<1>5. CASE ReadText
  BY <1>5, ReadTextKeeps
<1>6. QED
  BY <1>1, <1>2, <1>3, <1>4, <1>5 DEF RepliesNext

LEMMA RepliesStart == RepliesInit => RepliesInv
<1> SUFFICES ASSUME RepliesInit PROVE RepliesInv
  OBVIOUS
<1>1. text = <<>> /\ reading.pc = "writing" /\ reading.permitted \in Permitted /\ DOMAIN reading = Fields
  BY DEF RepliesInit, Fields
<1>2. QED
  BY <1>1 DEF RepliesInv

LEMMA RepliesHold == Spec => []RepliesInv
<1>1. Init => RepliesInv
  BY RepliesStart DEF Init
<1>2. RepliesInv /\ [Next]_vars => RepliesInv'
  <2> SUFFICES ASSUME RepliesInv, [Next]_vars PROVE RepliesInv'
    OBVIOUS
  <2>1. RepliesNext \/ UNCHANGED replyVars
    BY DEF Next, vars, Rest
  <2>2. CASE UNCHANGED replyVars
    <3>1. text' = text /\ reading' = reading
      BY <2>2 DEF replyVars
    <3>2. PICK cs, failure : cs = reading.calls /\ failure = reading.failure
      OBVIOUS
    <3>3. Told(cs, failure) => Told(cs, failure)'
      BY <3>1, ToldSame
    <3>4. QED
      BY <3>1, <3>2, <3>3 DEF RepliesInv
  <2>3. CASE RepliesNext
    BY <2>3, RepliesStep
  <2>4. QED
    BY <2>1, <2>2, <2>3
<1>3. QED
  BY <1>1, <1>2, PTL DEF Spec

LEMMA RepliesTold == RepliesInv => CallsAsWritten
<1> SUFFICES ASSUME RepliesInv, reading.pc = "read", reading.from = "text" PROVE CallsAsWritten
  BY DEF CallsAsWritten
<1>1. Told(reading.calls, reading.failure)
  BY DEF RepliesInv
<1>2. QED
  BY <1>1 DEF Told, Sourced, FencesKept, FencesOrdered, CallsAsWritten

\* What is executed of an answer was written in it or, for a tag that lacks its
\* arguments, borrowed from what comes after it, and allowed, no call twice,
\* of the fenced blocks none is lost but beyond the cap and in their order, and
\* an answer with a fenced block is no final one if no call of it can be read,
\* for texts of any length with any parts (parseToolCallsFromResponse,
\* normalizeParsedToolCalls, dedupeToolCalls, ExtractThinking).
THEOREM CallsStayAsWritten == Spec => []CallsAsWritten
  BY RepliesHold, RepliesTold, PTL

-----------------------------------------------------------------------------
(* Both of what is read, and what is kept of texts.                        *)

\* What an agent reads of its mail and what a reader gets of a history is what
\* is there (InboxMessage, ReadRecentMessages).
THEOREM ReadsStayTruthful == Spec => []ReadsTruthful
<1>1. StatusesTruthful /\ TailExact => ReadsTruthful
  BY DEF ReadsTruthful
<1>2. QED
  BY <1>1, MailStaysTruthful, HistoryTailStaysExact, PTL

\* The text an answer streams, the text tools store and the file an edit leaves
\* are neither lost nor mixed (ModelCall, Workspace, TextEdits).
THEOREM TextStaysFaithful == Spec => []TextFaithful
<1>1. StreamFaithful /\ StoredKept /\ EditsExact => TextFaithful
  BY DEF TextFaithful
<1>2. QED
  BY <1>1, StreamsStayFaithful, StoredTextStays, EditsStayExact, PTL

-----------------------------------------------------------------------------
(* The types of the rest, and of all the services.                          *)

LEMMA MailStaysTyped == Spec => []MailTypeOK
<1>1. MailInv => MailTypeOK
  <2> SUFFICES ASSUME MailInv, NEW i \in DOMAIN mailbox
               PROVE  /\ mailbox[i].letter \in Letters /\ mailbox[i].run \in Mailers \cup {None}
                      /\ mailbox[i].status \in Marks /\ mailbox[i].ts \in 1..mailClock
    BY DEF MailTypeOK, MailInv, Marks
  <2>1. mailbox[i] \in Letter /\ mailbox[i].ts <= mailClock /\ mailClock \in Nat
    BY DEF MailInv
  <2>2. QED
    BY <2>1 DEF Letter
<1>2. QED
  BY <1>1, MailHolds, PTL

LEMMA CallStaysTyped == Spec => []CallTypeOK
<1> DEFINE Attempts == /\ call.attempt <= MaxAttempts
                       /\ call.pc = "backoff" => call.attempt < MaxAttempts
           Bounds   == /\ call.whole <= MaxPieces /\ Len(answer) <= call.whole + MaxPieces
                       /\ Len(sent) <= MaxPieces
           Typed    == Attempts /\ Bounds
<1>1. Init => Typed
  BY CallAssumption DEF Init, CallInit
<1>2. Typed /\ CallInv /\ [Next]_vars => Typed'
  <2> SUFFICES ASSUME Typed, CallInv, [Next]_vars PROVE Typed'
    OBVIOUS
  <2>1. CallNext \/ UNCHANGED callVars
    BY DEF Next, vars, Rest
  <2>2. /\ call \in Stage /\ call.attempt \in Nat /\ MaxAttempts \in Nat /\ 1 <= MaxAttempts
        /\ MaxPieces \in Nat /\ 1 <= MaxPieces /\ call.whole \in Nat
    BY CallAssumption DEF CallInv, Stage
  <2>3. Len(answer) \in Nat /\ Len(sent) \in Nat /\ Len(<<>>) = 0
    BY CallFacts DEF CallInv, SlotsInv
  <2>4. CASE UNCHANGED callVars
    BY <2>4 DEF callVars
  <2>5. ASSUME NEW retryable, Failed(retryable) PROVE Attempts' /\ call'.whole = call.whole
    BY <2>2, <2>5 DEF Failed, Stage
  <2>6. CASE \E stream \in BOOLEAN, style \in Styles : StartCall(stream, style)
    <3>1. PICK stream \in BOOLEAN, style \in Styles : StartCall(stream, style)
      BY <2>6
    <3>2. answer = <<>> /\ UNCHANGED <<answer, sent>>
      BY <3>1, CallFacts DEF StartCall
    <3>3. QED
      BY <2>2, <2>3, <3>1, <3>2 DEF StartCall
  <2>7. CASE RequestFailed \/ StreamBreaks
    <3>1. Attempts' /\ call'.whole = call.whole
      BY <2>5, <2>7 DEF RequestFailed, StreamBreaks
    <3>2. QED
      BY <2>7, <3>1 DEF RequestFailed, StreamBreaks
  <2>8. CASE AnswerAtOnce
    BY <2>2, <2>8 DEF AnswerAtOnce, Stage
  <2>16. CASE StreamEnds
    <3>1. Len(answer') = 1 \/ answer' = answer
      BY <2>16 DEF StreamEnds
    <3>2. call'.pc = "done" /\ call'.attempt = call.attempt /\ call'.whole = call.whole /\ UNCHANGED sent
      BY <2>2, <2>16 DEF StreamEnds, Stage
    <3>3. Len(answer') <= call.whole + MaxPieces
      <4>1. CASE Len(answer') = 1
        BY <2>2, <4>1
      <4>2. CASE answer' = answer
        BY <4>2
      <4>3. QED
        BY <3>1, <4>1, <4>2
    <3>4. QED
      BY <3>2, <3>3
  <2>9. CASE StreamBegins
    BY <2>2, <2>3, <2>9 DEF StreamBegins, Stage
  <2>10. CASE TextDelta
    <3>1. Len(answer') = Len(answer) + 1 /\ Len(answer) < call.whole + MaxPieces /\ UNCHANGED sent
      BY <2>10, CallFacts DEF TextDelta, Hear
    <3>2. Attempts' /\ call'.whole = call.whole
      BY <2>2, <2>10 DEF TextDelta, Hear, Stage
    <3>3. QED
      BY <2>2, <2>3, <3>1, <3>2
  <2>11. CASE FullMessage
    BY <2>11 DEF FullMessage
  <2>17. CASE TextItem
    BY <2>2, <2>17 DEF TextItem, Stage
  <2>18. CASE \E k \in 1..MaxPieces : FullText(k)
    <3>1. PICK k \in 1..MaxPieces : FullText(k)
      BY <2>18
    <3>2. answer \in Seq(Nat \X Nat) /\ call.whole = 0 /\ UNCHANGED sent /\ k \in Nat /\ k <= MaxPieces
      BY <2>2, <3>1, CallFacts DEF FullText
    <3>3. Len(answer') = Len(answer) + k
      <4> DEFINE whole == [i \in 1..k |-> <<call.attempt, i - 1>>]
      <4>1. \A i \in 1..k : <<call.attempt, i - 1>> \in Nat \X Nat
        BY <2>2, <3>2
      <4>2. whole \in [1..k -> Nat \X Nat]
        BY <4>1
      <4>3. answer' = answer \o whole
        BY <3>1 DEF FullText
      <4> HIDE DEF whole
      <4>4. whole \in Seq(Nat \X Nat) /\ Len(whole) = k
        BY <3>2, <4>2, IsASeq, LenProperties
      <4> DEFINE V == Nat \X Nat
      <4>5. answer \in Seq(V) /\ whole \in Seq(V)
        BY <3>2, <4>4
      <4> HIDE DEF V
      <4>6. Len(answer \o whole) = Len(answer) + Len(whole)
        BY <4>5
      <4>7. QED
        BY <4>3, <4>4, <4>6
    <3>4. Attempts' /\ call'.whole = Len(answer)
      BY <2>2, <3>1 DEF FullText, Stage
    <3>5. QED
      BY <2>2, <2>3, <3>2, <3>3, <3>4
  <2>12. CASE RetryRequest
    <3>1. /\ \/ call'.attempt = call.attempt + 1 /\ call'.pc = "request"
             \/ call'.attempt = call.attempt /\ call'.pc = "done"
          /\ call'.whole = call.whole
      BY <2>2, <2>12 DEF RetryRequest, Stage
    <3>2. call.attempt < MaxAttempts /\ UNCHANGED <<answer, sent>>
      BY <2>12 DEF RetryRequest
    <3>3. QED
      BY <2>2, <3>1, <3>2
  <2>13. CASE NextCall
    <3>1. Attempts'
      BY <2>2, <2>13 DEF NextCall, Stage
    <3>2. QED
      BY <2>2, <2>3, <2>13, <3>1 DEF NextCall
  <2>14. CASE \E t \in ToolCalls : ToolDelta(t) \/ ToolItem(t)
    <3>1. Len(sent') = Len(sent) + 1 /\ Len(sent) < MaxPieces /\ UNCHANGED <<call, answer>>
      BY <2>14 DEF ToolDelta, ToolItem, CallInv, SlotsInv
    <3>2. QED
      BY <2>2, <2>3, <3>1
  <2>15. QED
    BY <2>1, <2>4, <2>6, <2>7, <2>8, <2>9, <2>10, <2>11, <2>12, <2>13, <2>14, <2>16, <2>17, <2>18 DEF CallNext
<1>3. Typed /\ CallInv => CallTypeOK
  <2> SUFFICES ASSUME Typed, CallInv PROVE CallTypeOK
    OBVIOUS
  <2>1. call \in Stage /\ MaxAttempts \in Nat
    BY CallAssumption DEF CallInv
  <2>2. DOMAIN slots.pieces = DOMAIN slots.id
    <3>1. CASE call.style = "items"
      BY <3>1 DEF CallInv, SlotsInv, FirstSlot, NoSlots
    <3>2. CASE call.style # "items"
      BY <3>2 DEF CallInv, SlotsInv, WholeSlots
    <3>3. QED
      BY <3>1, <3>2
  <2>3. QED
    BY <2>1, <2>2 DEF CallTypeOK, Stage
<1> HIDE DEF Typed
<1>4. QED
  BY <1>1, <1>2, <1>3, CallHolds, PTL DEF Spec

LEMMA RepliesBound == MaxParts \in Nat
  BY RepliesAssumption

LEMMA RepliesStayTyped == Spec => []RepliesTypeOK
<1> DEFINE Typed == /\ text \in Seq(Parts) /\ Len(text) <= MaxParts /\ natives \in Seq(Natives)
                    /\ reading.failure \in BOOLEAN /\ reading.permitted \in Permitted
<1>1. Init => Typed
  <2>1. ASSUME Init
        PROVE  text = <<>> /\ natives = <<>> /\ reading.failure = FALSE /\ reading.permitted \in Permitted
    BY <2>1 DEF Init, RepliesInit
  <2>2. <<>> \in Seq(Parts) /\ <<>> \in Seq(Natives) /\ Len(<<>>) <= MaxParts
    BY RepliesBound
  <2>3. QED
    BY <2>1, <2>2
<1>2. Typed /\ [Next]_vars => Typed'
  <2> SUFFICES ASSUME Typed, [Next]_vars PROVE Typed'
    OBVIOUS
  <2>1. RepliesNext \/ UNCHANGED replyVars
    BY DEF Next, vars, Rest
  <2>2. CASE UNCHANGED replyVars
    BY <2>2 DEF replyVars
  <2>3. ASSUME NEW p \in Parts, WritePart(p) PROVE Typed'
    BY <2>3, RepliesBound DEF WritePart
  <2>4. ASSUME NEW o \in Natives, WriteNative(o) PROVE Typed'
    BY <2>4 DEF WriteNative
  <2>5. ASSUME NEW calls, NEW failure \in BOOLEAN, NEW from, ReadAs(calls, failure, from) PROVE Typed'
    <3>1. reading'.failure \in {failure, reading.failure} /\ reading'.permitted = reading.permitted
      BY <2>5 DEF ReadAs
    <3>2. QED
      BY <2>5, <3>1 DEF ReadAs
  <2>6. ASSUME NEW o, NEW form, ReadDirective(o, form) PROVE Typed'
    BY <2>5, <2>6 DEF ReadDirective
  <2>7. CASE ReadNatives
    <3>1. PICK calls : ReadAs(calls, calls = <<>>, "natives")
      BY <2>7 DEF ReadNatives
    <3>2. (calls = <<>>) \in BOOLEAN
      OBVIOUS
    <3>3. QED
      BY <2>5, <3>1, <3>2
  <2>8. CASE ReadText
    <3>1. \/ ReadAs(TextCalls(Visible(text)),
                    (TextFailure(text) \/ TextFailure(Visible(text))) /\ TextCalls(Visible(text)) = <<>>, "text")
          \/ ReadAs(TextCalls(text), TextFailure(text), "text")
      BY <2>8 DEF ReadText
    <3>2. /\ ((TextFailure(text) \/ TextFailure(Visible(text))) /\ TextCalls(Visible(text)) = <<>>) \in BOOLEAN
          /\ TextFailure(text) \in BOOLEAN
      BY DEF TextFailure
    <3>3. QED
      BY <2>5, <3>1, <3>2
  <2>9. QED
    BY <2>1, <2>2, <2>3, <2>4, <2>6, <2>7, <2>8 DEF RepliesNext
<1>3. Typed => RepliesTypeOK
  BY DEF RepliesTypeOK, SetOf
<1> HIDE DEF Typed
<1>4. QED
  BY <1>1, <1>2, <1>3, PTL DEF Spec

LEMMA ScanStaysTyped == Spec => []ScanTypeOK
<1> DEFINE Asked == limit \in Limits /\ history.size <= MaxFile
<1>1. Init => Asked
  BY ScanAssumption DEF Init, ScanInit
<1>2. Asked /\ [Next]_vars => Asked'
  <2>1. [Next]_vars => UNCHANGED <<limit, history>>
    BY DEF Next, vars, Rest, scanVars, ScanNext
  <2>2. QED
    BY <2>1
<1>3. Asked /\ ScanInv => ScanTypeOK
  <2> SUFFICES ASSUME Asked, ScanInv PROVE ScanTypeOK
    OBVIOUS
  <2>1. history.size \in 0..MaxFile /\ history.newlines \subseteq 1..history.size
    BY ScanAssumption DEF ScanInv
  <2>2. Len(recent) <= limit /\ scanner \in Scanning /\ scanner.pos <= history.size
    BY DEF ScanInv, ScanOK
  <2>3. scanner.pos \in 0..history.size /\ scanner.err \in BOOLEAN
    BY <2>1, <2>2 DEF Scanning
  <2>4. QED
    BY <2>1, <2>2, <2>3 DEF ScanTypeOK
<1> HIDE DEF Asked
<1>4. QED
  BY <1>1, <1>2, <1>3, ScanHolds, PTL DEF Spec

\* What a hunk that fits puts out are lines of the file, and new ones.
AddsNew(rows) == \A i \in 1..Len(rows) : rows[i].op = "+" => rows[i].text = 0
WalkedIn(from, w) == from <= w.cursor /\ (w.fits => w.out \in Seq(Texts))

LEMMA WalkRowIn ==
    ASSUME NEW r \in Row, NEW w \in WalkType, NEW from \in Nat, 1 <= from, WalkedIn(from, w),
           original \in Seq(Texts), r.op = "+" => r.text = 0
    PROVE  WalkedIn(from, WalkRow(r, w))
<1>1. PICK v : v = WalkRow(r, w)
  OBVIOUS
<1>2. /\ v.cursor = (IF r.op = "+" THEN w.cursor ELSE w.cursor + 1)
      /\ v.out = (IF r.op = "-" THEN w.out ELSE Append(w.out, r.text))
      /\ v.fits => w.fits /\ (r.op # "+" => w.cursor <= Lines /\ original[w.cursor] = r.text)
  BY <1>1 DEF WalkRow
<1>3. w.cursor \in Nat /\ from <= w.cursor /\ Lines = Len(original)
  BY DEF WalkType, WalkedIn, Lines
<1>4. ASSUME v.fits PROVE v.out \in Seq(Texts)
  <2>1. r.text \in Texts
    <3>1. CASE r.op = "+"
      BY <3>1, LinesBound DEF Texts
    <3>2. CASE r.op # "+"
      <4>1. w.cursor \in 1..Len(original) /\ original[w.cursor] = r.text
        BY <1>2, <1>3, <1>4, <3>2
      <4>2. QED
        BY <4>1
    <3>3. QED
      BY <3>1, <3>2
  <2>2. w.out \in Seq(Texts)
    BY <1>2, <1>4 DEF WalkedIn
  <2>3. QED
    BY <1>2, <2>1, <2>2
<1>5. from <= v.cursor
  BY <1>2, <1>3
<1>6. QED
  BY <1>1, <1>4, <1>5 DEF WalkedIn

LEMMA WalkIn ==
    ASSUME NEW rows \in Seq(Row), AddsNew(rows), NEW from \in Nat, 1 <= from, original \in Seq(Texts)
    PROVE  Walk(rows, from).fits => Walk(rows, from).out \in Seq(Texts)
<1>1. PICK n : n = Len(rows)
  OBVIOUS
<1>2. PICK f : /\ Walk(rows, from) = f[n] /\ f[0] = WalkFrom(from)
               /\ \A i \in 0..n : f[i] \in WalkType
               /\ \A i \in 1..n : f[i] = WalkRow(rows[i], f[i - 1])
  BY <1>1, WalkSolves
<1> DEFINE S == {k \in Nat : k <= n => WalkedIn(from, f[k])}
<1>3. n \in Nat
  BY <1>1
<1>4. 0 \in S
  <2>1. f[0].cursor = from /\ f[0].out = <<>> /\ <<>> \in Seq(Texts)
    BY <1>2 DEF WalkFrom
  <2>2. WalkedIn(from, f[0])
    BY <2>1 DEF WalkedIn
  <2>3. QED
    BY <2>2
<1>5. ASSUME NEW k \in S, k < n PROVE k + 1 \in S
  <2>1. PICK i : i = k + 1
    OBVIOUS
  <2>2. k \in Nat /\ i \in 1..n /\ i - 1 = k /\ i \in Nat /\ k \in 0..n /\ WalkedIn(from, f[k])
    BY <1>3, <1>5, <2>1
  <2>3. rows[i] \in Row /\ (rows[i].op = "+" => rows[i].text = 0) /\ f[k] \in WalkType
        /\ f[i] = WalkRow(rows[i], f[k])
    BY <1>1, <1>2, <2>2 DEF AddsNew
  <2>4. WalkedIn(from, f[i])
    BY <2>2, <2>3, WalkRowIn
  <2>5. QED
    BY <2>1, <2>2, <2>4
<1>6. 0..n \subseteq S
  <2>1. S \in SUBSET Nat
    OBVIOUS
  <2> HIDE DEF S
  <2>2. QED
    BY <1>3, <1>4, <1>5, <2>1, UpTo
<1>7. WalkedIn(from, f[n])
  BY <1>3, <1>6
<1>8. QED
  BY <1>2, <1>7 DEF WalkedIn

LEMMA RowsAddNew ==
    ASSUME NEW shape \in Shapes, NEW from \in Nat, NEW spoilt
    PROVE  AddsNew(Rows(shape, from, spoilt))
<1>1. PICK rows : rows = Rows(shape, from, spoilt)
  OBVIOUS
<1>2. shape \in Seq(RowMarks) /\ rows \in Seq(Row)
  BY <1>1, ShapesAre, RowsTyped
<1>3. DOMAIN rows = DOMAIN shape
  BY <1>1 DEF Rows
<1>4. ASSUME NEW i \in DOMAIN rows, rows[i].op = "+" PROVE rows[i].text = 0
  BY <1>1, <1>3, <1>4 DEF Rows
<1>5. DOMAIN rows = 1..Len(rows)
  BY <1>2
<1>6. QED
  BY <1>1, <1>4, <1>5 DEF AddsNew

TextsOK == /\ original \in Seq(Texts) /\ edited.out \in Seq(Texts)
           /\ edited.next \in 1..(Lines + 1)

LEMMA TextsStart == EditInit => TextsOK
<1> SUFFICES ASSUME EditInit PROVE TextsOK
  OBVIOUS
<1>1. PICK n \in 0..MaxLines : original = [i \in 1..n |-> i]
  BY DEF EditInit
<1>2. n \in Nat /\ \A i \in 1..n : i \in Texts
  BY LinesBound DEF Texts
<1>3. original \in Seq(Texts)
  BY <1>1, <1>2, IsASeq
<1>4. <<>> \in Seq(Texts) /\ edited.out = <<>> /\ edited.next = 1
  BY DEF EditInit
<1>5. Lines \in Nat
  BY <1>3 DEF Lines
<1>6. QED
  BY <1>3, <1>4, <1>5 DEF TextsOK

LEMMA PuttingTyped ==
    ASSUME TextsOK, UNCHANGED original, EditInv', NEW mode, NEW before \in Int, NEW new \in Seq(Texts), NEW next,
           before <= Lines, Put(mode, before, new, next)
    PROVE  TextsOK'
<1>1. PICK from : from = edited.next
  OBVIOUS
<1>2. from \in 1..(Lines + 1) /\ Lines \in Nat /\ Lines = Len(original) /\ original \in Seq(Texts)
  BY <1>1 DEF TextsOK, Lines
<1>3. PICK copied : copied = SubSeq(original, from, before)
  OBVIOUS
<1>4. copied \in Seq(Texts)
  BY <1>2, <1>3
<1>5. edited'.out = edited.out \o copied \o new /\ edited'.state = "open"
  BY <1>1, <1>3 DEF Put
<1>6. edited'.out \in Seq(Texts)
  BY <1>4, <1>5 DEF TextsOK
<1>7. edited'.next \in 1..(Lines + 1)
  BY <1>5 DEF EditInv, EditedOK, Fit, Lines
<1>8. QED
  BY <1>2, <1>6, <1>7 DEF TextsOK, Lines

LEMMA RefusingTyped ==
    ASSUME TextsOK, UNCHANGED original, NEW mode, Refuse(mode)
    PROVE  TextsOK'
<1>1. edited'.out = <<>> /\ edited'.next = 1
  BY DEF Refuse
<1>2. original \in Seq(Texts) /\ Lines \in Nat /\ <<>> \in Seq(Texts)
  BY DEF TextsOK, Lines
<1>3. QED
  BY <1>1, <1>2 DEF TextsOK, Lines

LEMMA EditTyped == ASSUME EditInv, TextsOK, EditNext PROVE TextsOK'
<1>1. EditInv' /\ UNCHANGED original
  BY EditStep DEF EditNext
<1>2. Lines \in Nat /\ original \in Seq(Texts) /\ edited.next \in 1..(Lines + 1)
  BY DEF TextsOK, Lines
<1>3. CASE \E from, to \in 1..(MaxLines + 1), n \in 0..2 : EditLines(from, to, [i \in 1..n |-> 0])
  <2>1. PICK from \in 1..(MaxLines + 1), to \in 1..(MaxLines + 1), n \in 0..2 :
          EditLines(from, to, [i \in 1..n |-> 0])
    BY <1>3
  <2>2. PICK new : new = [i \in 1..n |-> 0]
    OBVIOUS
  <2>3. new \in Seq(Texts)
    <3>1. n \in Nat /\ \A i \in 1..n : 0 \in Texts
      BY LinesBound DEF Texts
    <3>2. QED
      BY <2>2, <3>1, IsASeq
  <2>4. from \in Int /\ to \in Int /\ from <= to
    BY <2>1, LinesBound DEF EditLines
  <2>5. Refuse("edits") \/ (to <= Lines /\ Put("edits", from - 1, new, to + 1))
    BY <1>2, <2>1, <2>2, <2>4 DEF EditLines
  <2>6. to <= Lines => from - 1 <= Lines /\ from - 1 \in Int
    BY <1>2, <2>4
  <2>7. QED
    BY <1>1, <2>3, <2>5, <2>6, PuttingTyped, RefusingTyped
<1>4. CASE \E start \in 0..(MaxLines + 2), shape \in Shapes : \E spoilt \in 0..Len(shape) :
             ApplyHunk(start, Rows(shape, start, spoilt))
  <2>1. PICK start \in 0..(MaxLines + 2), shape \in Shapes : \E spoilt \in 0..Len(shape) :
          ApplyHunk(start, Rows(shape, start, spoilt))
    BY <1>4
  <2> PICK spoilt \in 0..Len(shape) : ApplyHunk(start, Rows(shape, start, spoilt))
    BY <2>1
  <2>2. start \in Nat
    BY LinesBound
  <2>3. PICK rows : rows = Rows(shape, start, spoilt)
    OBVIOUS
  <2>4. rows \in Seq(Row) /\ AddsNew(rows) /\ ApplyHunk(start, rows)
    BY <2>2, <2>3, RowsTyped, RowsAddNew
  <2>5. PICK at : at = Target(start, rows)
    OBVIOUS
  <2>6. at \in Nat
    BY <2>2, <2>5 DEF Target
  <2>7. PICK walk : walk = Walk(rows, at)
    OBVIOUS
  <2>8. Refuse("patch") \/ (at \in edited.next..(Lines + 1) /\ walk.fits /\ Put("patch", at - 1, walk.out, walk.cursor))
    BY <2>4, <2>5, <2>7 DEF ApplyHunk
  <2>9. CASE at \in edited.next..(Lines + 1) /\ walk.fits /\ Put("patch", at - 1, walk.out, walk.cursor)
    <3>1. 1 <= at /\ at - 1 <= Lines /\ at - 1 \in Int
      BY <1>2, <2>6, <2>9
    <3>2. walk.out \in Seq(Texts)
      BY <1>2, <2>4, <2>6, <2>7, <2>9, <3>1, WalkIn
    <3>3. QED
      BY <1>1, <2>9, <3>1, <3>2, PuttingTyped
  <2>10. QED
    BY <1>1, <2>8, <2>9, RefusingTyped
<1>5. CASE WriteEdited
  <2>1. PICK left : left = SubSeq(original, edited.next, Lines)
    OBVIOUS
  <2>2. left \in Seq(Texts)
    BY <1>2, <2>1 DEF Lines
  <2>3. edited'.out = edited.out \o left /\ edited'.next = edited.next
    BY <1>5, <2>1 DEF WriteEdited, EditInv, EditedOK, Editing
  <2>4. edited'.out \in Seq(Texts)
    BY <2>2, <2>3 DEF TextsOK
  <2>5. QED
    BY <1>1, <1>2, <2>3, <2>4 DEF TextsOK, Lines
<1>6. QED
  BY <1>3, <1>4, <1>5 DEF EditNext

LEMMA EditsStayTyped == Spec => []EditTypeOK
<1>1. Init => TextsOK
  BY TextsStart DEF Init
<1>2. EditInv /\ TextsOK /\ [Next]_vars => TextsOK'
  <2> SUFFICES ASSUME EditInv, TextsOK, [Next]_vars PROVE TextsOK'
    OBVIOUS
  <2>1. EditNext \/ UNCHANGED editVars
    BY DEF Next, vars, Rest
  <2>2. CASE UNCHANGED editVars
    BY <2>2 DEF editVars, TextsOK, Lines
  <2>3. QED
    BY <2>1, <2>2, EditTyped
<1>3. EditInv /\ TextsOK => EditTypeOK
  BY DEF EditInv, EditedOK, Editing, TextsOK, EditTypeOK, SetOf
<1>4. QED
  BY <1>1, <1>2, <1>3, EditsHold, PTL DEF Spec

\* Each step meets a failure or none.
LEMMA FailuresCounted == ASSUME Next PROVE Fault \/ NoFault
<1>1. MailNext => Fault \/ NoFault
  BY DEF MailNext, Stamp, AppendStatus, AppendFails, ExecuteMessage, SendMessage, Acknowledge, RunMessage,
     BeginCall, MailCrash
<1>2. InstanceNext => Fault \/ NoFault
  BY DEF InstanceNext, CreateInstance, BootstrapFromCurrent, UpdateInstance, DeleteInstance, DeleteInstanceFails,
     ActivateInstance, CloneInstance, PersistInstanceAgent, DeleteInstanceAgent, WizardInstance, WizardAgent,
     SaveListed, Save, WriteManifest, FinishSave, RequestFails, WriteAgent, DropAgent,
     BootstrapDefaultInstance, BootstrapFails
<1>3. PromptNext => Fault \/ NoFault
  BY DEF PromptNext, ReadLayer, WriteLayer, WriteLayerFails, UpdateLayer, ResolveStack, RollbackRequest,
     ReadTimeline, RestoreSnapshot, EndRequest, UpdateRequest, BeginRequest
<1>4. CallNext => Fault \/ NoFault
  BY DEF CallNext, StartCall, RequestFailed, AnswerAtOnce, StreamBegins, TextDelta, FullMessage, FullText,
     StreamBreaks, StreamEnds, RetryRequest, NextCall, ToolDelta, ToolItem, TextItem
<1>5. RepliesNext => Fault \/ NoFault
  BY DEF RepliesNext, WritePart, WriteNative, ReadDirective, ReadNatives, ReadText, ReadAs
<1>6. EventsNext \/ ItemsNext => Fault \/ NoFault
  BY DEF EventsNext, IngestEvent, WriteEventFails, CloseWriter, WriteEvent, ProcessEnds, ItemsNext, UpdateItem,
     SyncVector, ListForMaintenance, ArchiveItem, WriteItem, CheckpointItem, ReadItem, ForgetItem
<1>7. MonitorNext => Fault \/ NoFault
  BY DEF MonitorNext, QueueStored, TrackQueued, BeginExecution, LogStart, FailEarly, Untrack, RunAgain,
     FileVerdict, LeaveQueue, GrowOld, CancelFromMonitor, NoteExpires, OpenMonitor, LogEnd, MonitorCrash,
     ReadAuditLine, ReadRunStore, ReconcileRecords
<1>8. ConfigNext \/ PolicyNext => Fault \/ NoFault
  BY DEF ConfigNext, SetFields, KeepFields, ReplaceConfig, InitConfig, Setup, RestoreConfig, ReadForBackup,
     WriteBackup, WriteConfig, Prepare, TakeSnapshot, SaveFails, PolicyNext, EndSession, SaveGrants,
     SaveGrantsFails, StartSession, LoadGrants
<1>9. WorkspaceNext => Fault \/ NoFault
  BY DEF WorkspaceNext, MakeFolder, WriteFile, ReadFile, AppendFile, TruncateFile, PutText, CopyToContainer,
     DeletePath, MovePath, RemovePath, RenamePath, ToolFails, StartContainer, StopContainer, ResetContainer,
     SetContainer
<1>10. EditNext \/ ScanNext => Fault \/ NoFault
  BY DEF EditNext, ScanNext
<1>11. QED
  BY <1>1, <1>2, <1>3, <1>4, <1>5, <1>6, <1>7, <1>8, <1>9, <1>10 DEF Next

\* What is on file and in memory has the shape the code gives it, whatever the
\* services do and whichever failures they meet.
THEOREM ServicesStayTyped == Spec => []TypeOK
<1> DEFINE Counted == workload \in Workloads /\ faults \in 0..MaxFaults
<1>1. Init => Counted
  BY FleetAssumption DEF Init
<1>2. Counted /\ [Next]_vars => Counted'
  <2> SUFFICES ASSUME Counted, [Next]_vars PROVE Counted'
    OBVIOUS
  <2>1. UNCHANGED workload
    BY DEF Next, vars, Rest
  <2>2. Fault \/ UNCHANGED faults
    BY FailuresCounted DEF vars, NoFault
  <2>3. QED
    BY <2>1, <2>2, FleetAssumption DEF Fault
<1>3. /\ MailTypeOK /\ CallTypeOK /\ RepliesTypeOK /\ ScanTypeOK /\ WorkspaceTypeOK /\ EditTypeOK
      /\ SettingsTypeOK /\ MemoryTypeOK /\ InstanceTypeOK /\ PromptTypeOK /\ MonitorTypeOK /\ Counted
      => TypeOK
  BY DEF TypeOK
<1> HIDE DEF Counted
<1>4. QED
  BY <1>1, <1>2, <1>3, MailStaysTyped, CallStaysTyped, RepliesStayTyped, ScanStaysTyped,
     WorkspaceStaysTyped, EditsStayTyped, SettingsStayTyped, MemoryStaysTyped, TheRestStaysTyped, PTL DEF Spec
=============================================================================
