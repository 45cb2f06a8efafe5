--------------------------- MODULE RunEvents_proofs ---------------------------
(***************************************************************************)
(* Theorems about the run event bus, for every set of runs and clients and *)
(* every limit of the bus.  What a state keeps and what a channel holds are *)
(* both the newest events of their key without a hole; where the goroutine *)
(* carrying a run stands says whether the state of a key has taken its     *)
(* last event.                                                             *)
(***************************************************************************)
EXTENDS RunEvents, FiniteSetTheorems, SequenceTheorems, TLAPS

State  == [known : BOOLEAN, next : Nat, replay : Seq(Event), terminal : BOOLEAN, verdict : Nat]
Client == [on : BOOLEAN, subscribed : BOOLEAN, chan : Seq(Event), room : Nat, told : BOOLEAN,
           key : Keys, seen : Nat, connects : Nat]
Places == {"queued", "status", "executing", "progress", "verdict",
           "closing", "closingBare", "over"}

Types ==
    /\ states \in [Keys -> State] /\ client \in [Clients -> Client]
    /\ order \in Seq(Keys)
    /\ at \in [Runs -> Places] /\ left \in [Runs -> 0..MaxProgress]
    /\ pruned \subseteq Keys

\* Consecutive events up to number n, of which the one numbered v is the
\* terminal one: what publishing, dropping and receiving keep.
Newest(s, n, v) ==
    \A i \in DOMAIN s : s[i].id = n - Len(s) + i /\ (s[i].last <=> s[i].id = v)

\* No further event comes under the key, ...
Ended(k) == \/ at[k.run] \in {"closing", "closingBare", "over"}
            \/ k.form = "bare" /\ at[k.run] = "verdict"

\* ... and the last one was the verdict, if the verdict is published under it.
Announced(k) == k \in {Bare(k.run), ResolvedKey(k.run)}

OrderInv ==
    /\ \A i \in DOMAIN order : order[i] \in Known
    /\ \A k \in Known : \E i \in DOMAIN order : order[i] = k
    /\ \A i, j \in DOMAIN order : order[i] = order[j] => i = j

StateInv(k) ==
    LET s == states[k]
    IN  /\ ~s.known => s = NoState
        /\ Newest(s.replay, s.next, s.verdict)
        /\ Len(s.replay) <= ReplayLimit
        /\ s.next > 0 => s.replay # <<>>
        /\ s.verdict \in {0, s.next}
        /\ s.verdict # 0 => s.terminal
        /\ s.terminal \/ k \in pruned => Ended(k)
        /\ Announced(k) /\ Ended(k) /\ k \notin pruned => s.verdict # 0

\* A handler has passed on everything older than what its channel holds, of a
\* state that ended all of it.
Caught(x, s) ==
    /\ Newest(x.chan, s.next, s.verdict)
    /\ x.chan = <<>> => x.seen = s.next /\ (s.verdict # 0 => x.told)
    /\ x.chan # <<>> => x.seen <= x.chan[1].id
    /\ ~x.subscribed => s.terminal

\* The addresses of a run that clients use.
Addresses == UNION {{Bare(r), QueuedKey(r), ResolvedKey(r)} : r \in Runs}

ClientInv(c) ==
    LET x == client[c]
        s == states[x.key]
    IN  /\ x.key \in Addresses
        /\ Len(x.chan) <= x.room
        /\ x.on => x.room > 0
        /\ x.subscribed => x.on /\ s.known
        /\ x.key \notin pruned => x.seen <= s.next /\ (x.on => Caught(x, s))

EventsInv ==
    Types /\ OrderInv /\ (\A k \in Keys : StateInv(k)) /\ (\A c \in Clients : ClientInv(c))

-----------------------------------------------------------------------------
(* What a loop leaves of a sequence.                                       *)

LEMMA NthInterval ==
    ASSUME NEW a \in Nat, NEW b \in Nat, NEW k \in 1..(b - a)
    PROVE  Nth((a + 1)..b, k) = a + k
<1> DEFINE D == (a + 1)..b
<1>1. ASSUME NEW i \in D PROVE Cardinality({j \in D : j <= i}) = i - a
  <2>1. {j \in D : j <= i} = (a + 1)..i
    OBVIOUS
  <2>2. a + 1 \in Int /\ i \in Int /\ ~(a + 1 > i)
    OBVIOUS
  <2>3. Cardinality((a + 1)..i) = i - (a + 1) + 1
    BY <2>2, FS_Interval
  <2>4. i - (a + 1) + 1 = i - a
    BY <2>2
  <2>5. QED
    BY <2>1, <2>3, <2>4
<1>2. a + k \in D
  OBVIOUS
<1>3. \A i \in D : Cardinality({j \in D : j <= i}) = k <=> i = a + k
  BY <1>1
<1> HIDE DEF D
<1>4. Nth(D, k) = a + k
  BY <1>2, <1>3 DEF Nth
<1>5. QED
  BY <1>4 DEF D

\* The n-th place is one of the places, no other number names it, and every
\* place has a number.
LEMMA NthPlaces ==
    ASSUME NEW N \in Nat, NEW D \in SUBSET (1..N)
    PROVE  /\ Cardinality(D) \in Nat
           /\ \A n \in 1..Cardinality(D) : Nth(D, n) \in D
           /\ \A n, m \in 1..Cardinality(D) : Nth(D, n) = Nth(D, m) => n = m
           /\ \A i \in D : \E n \in 1..Cardinality(D) : Nth(D, n) = i
<1> DEFINE Upto(i) == {j \in D : j <= i}
           count   == [i \in D |-> Cardinality(Upto(i))]
           C       == Cardinality(D)
<1>1. IsFiniteSet(D) /\ C \in Nat
  <2>1. IsFiniteSet(1..N)
    BY FS_Interval
  <2>2. IsFiniteSet(D)
    BY <2>1, FS_Subset
  <2>3. QED
    BY <2>2, FS_CardinalityType
<1>2. ASSUME NEW i \in D PROVE IsFiniteSet(Upto(i)) /\ count[i] \in 1..C
  <2>1. Upto(i) \subseteq D /\ i \in Upto(i)
    OBVIOUS
  <2>2. Cardinality(Upto(i)) \in Nat /\ Cardinality(Upto(i)) <= C /\ IsFiniteSet(Upto(i))
    BY <1>1, <2>1, FS_Subset, FS_CardinalityType
  <2>3. Cardinality(Upto(i)) # 0
    BY <2>1, <2>2, FS_EmptySet
  <2>4. QED
    BY <1>1, <2>2, <2>3
<1>3. ASSUME NEW i \in D, NEW j \in D, i < j PROVE count[i] # count[j]
  <2>1. Upto(i) \subseteq Upto(j) /\ j \in Upto(j) /\ j \notin Upto(i)
    <3>1. \A m \in D : m \in Nat
      OBVIOUS
    <3>2. i \in Nat /\ j \in Nat /\ i < j
      BY <1>3, <3>1
    <3>3. \A m \in D : m <= i => m <= j
      BY <3>1, <3>2
    <3>4. ~(j <= i) /\ j <= j
      BY <3>2
    <3>5. QED
      BY <3>3, <3>4
  <2>2. Upto(i) # Upto(j)
    BY <2>1
  <2>3. QED
    BY <1>2, <2>1, <2>2, FS_Subset
<1>4. \A i, j \in D : count[i] = count[j] => i = j
  BY <1>3
<1>5. count \in [D -> 1..C]
  BY <1>2
<1>6. count \in Injection(D, 1..C)
  BY <1>4, <1>5 DEF Injection, IsInjective
<1>7. Cardinality(1..C) = C /\ IsFiniteSet(1..C)
  BY <1>1, FS_Interval
<1>8. count \in Surjection(D, 1..C)
  BY <1>6, <1>7, FS_Injection
<1>9. \A n \in 1..C : \E i \in D : Cardinality(Upto(i)) = n
  BY <1>8 DEF Surjection
<1>10. \A n \in 1..C : Nth(D, n) \in D /\ Cardinality(Upto(Nth(D, n))) = n
  BY <1>9 DEF Nth
<1>11. \A i \in D : Nth(D, count[i]) = i
  BY <1>2, <1>4, <1>10
<1>12. \A n, m \in 1..C : Nth(D, n) = Nth(D, m) => n = m
  BY <1>10
<1>13. QED
  BY <1>1, <1>2, <1>10, <1>11, <1>12

LEMMA EventsTyped ==
    ASSUME NEW s \in Seq(Event), NEW i \in DOMAIN s
    PROVE  i \in 1..Len(s) /\ s[i] \in Event /\ s[i].id \in Nat \ {0} /\ s[i].last \in BOOLEAN
<1>1. i \in 1..Len(s) /\ s[i] \in Event
  OBVIOUS
<1>2. QED
  BY <1>1 DEF Event

\* Of the newest events those a client has not seen are the newest ones.
LEMMA NewerIsNewest ==
    ASSUME NEW s \in State, Newest(s.replay, s.next, s.verdict), NEW seen \in Nat
    PROVE  /\ Newer(s, seen) \in Seq(Event)
           /\ Newest(Newer(s, seen), s.next, s.verdict)
           /\ \A i \in DOMAIN Newer(s, seen) : Newer(s, seen)[i].id > seen
           /\ Newer(s, seen) = <<>> => s.replay = <<>> \/ s.next <= seen
<1> DEFINE r == s.replay
           L == Len(r)
           n == s.next
           D == {i \in DOMAIN r : r[i].id > seen}
           a == IF seen - n + L <= 0 THEN 0 ELSE IF seen - n + L >= L THEN L ELSE seen - n + L
<1>1. r \in Seq(Event) /\ L \in Nat /\ n \in Nat /\ DOMAIN r = 1..L /\ s.verdict \in Nat
  BY DEF State
<1>2. \A i \in 1..L : r[i] \in Event /\ r[i].id = n - L + i /\ (r[i].last <=> r[i].id = s.verdict)
  BY <1>1 DEF Newest
<1>3. /\ a \in 0..L
      /\ a < L => a >= seen - n + L
      /\ a = L => L = 0 \/ n <= seen
      /\ \A i \in 1..L : i > seen - n + L <=> i >= a + 1
  BY <1>1
<1> HIDE DEF a
<1>4. D = (a + 1)..L
  <2>1. \A i \in 1..L : r[i].id > seen <=> i > seen - n + L
    BY <1>1, <1>2
  <2>2. \A i \in 1..L : i > seen - n + L <=> i >= a + 1
    BY <1>3
  <2>3. D = {i \in 1..L : i >= a + 1}
    BY <1>1, <2>1, <2>2
  <2>4. QED
    BY <1>1, <1>3, <2>3
<1> HIDE DEF D
<1>5. Cardinality(D) = L - a
  <2>1. Cardinality((a + 1)..L) = IF a + 1 > L THEN 0 ELSE L - (a + 1) + 1
    <3>1. a + 1 \in Int /\ L \in Int
      BY <1>1, <1>3
    <3>2. QED
      BY <3>1, FS_Interval
  <2>2. QED
    BY <1>1, <1>3, <1>4, <2>1
<1>6. Newer(s, seen) = [k \in 1..(L - a) |-> r[Nth(D, k)]]
  BY <1>5 DEF Newer, Chosen, D
<1>7. \A k \in 1..(L - a) : Nth(D, k) = a + k
  <2>1. a \in Nat
    BY <1>3
  <2>2. QED
    BY <1>1, <1>4, <2>1, NthInterval
<1> DEFINE w == Newer(s, seen)
<1>8. w = [k \in 1..(L - a) |-> r[a + k]]
  BY <1>6, <1>7
<1> HIDE DEF w
<1>9. w \in Seq(Event) /\ Len(w) = L - a /\ DOMAIN w = 1..(L - a)
  <2>1. L - a \in Nat
    BY <1>1, <1>3
  <2>2. \A k \in 1..(L - a) : r[a + k] \in Event
    BY <1>1, <1>2, <1>3
  <2>3. QED
    BY <1>8, <2>1, <2>2
<1>10. ASSUME NEW k \in 1..(L - a)
       PROVE  /\ w[k].id = n - (L - a) + k
              /\ w[k].last <=> w[k].id = s.verdict
              /\ w[k].id > seen
  <2>1. a \in Nat /\ k \in Nat /\ a < L /\ a + k \in 1..L /\ a >= seen - n + L /\ k >= 1
    BY <1>1, <1>3
  <2>2. w[k] = r[a + k]
    BY <1>8
  <2>3. w[k].id = n - L + (a + k) /\ (w[k].last <=> w[k].id = s.verdict)
    BY <1>2, <2>1, <2>2
  <2>4. n - L + (a + k) = n - (L - a) + k /\ n - L + (a + k) > seen
    BY <1>1, <2>1
  <2>5. QED
    BY <2>3, <2>4
<1>11. Newest(w, n, s.verdict)
  BY <1>9, <1>10 DEF Newest
<1>12. \A k \in 1..(L - a) : w[k].id > seen
  BY <1>10
<1>13. w = <<>> => r = <<>> \/ n <= seen
  <2>1. ASSUME w = <<>> PROVE L = 0 \/ n <= seen
    <3>1. a = L
      BY <1>1, <1>3, <1>9, <2>1
    <3>2. QED
      BY <1>3, <3>1
  <2>2. L = 0 => r = <<>>
    BY <1>1
  <2>3. QED
    BY <2>1, <2>2
<1>14. QED
  BY <1>9, <1>11, <1>12, <1>13 DEF w

-----------------------------------------------------------------------------
(* The states of the bus.                                                  *)

\* Only ended runs without subscribers are given up, and none for a key there.
LEMMA GivenEnded ==
    ASSUME Types, OrderInv, NEW k \in Keys
    PROVE  /\ \A q \in Given(k) : q \in Known /\ Prunable(q)
           /\ k \notin Given(k)
           /\ k \in Known => Given(k) = {}
<1>1. CASE k \in Known
  BY <1>1 DEF Given
<1>2. CASE k \notin Known
  <2>1. ASSUME NEW q \in Given(k)
        PROVE  \E i \in DOMAIN order : q = order[i] /\ Prunable(order[i])
    BY <1>2, <2>1 DEF Given
  <2>2. QED
    BY <1>2, <2>1 DEF OrderInv
<1>3. QED
  BY <1>1, <1>2

\* What becomes of the state of key q when the state of another key is needed.
Spared(q) == states'[q] = states[q] /\ (q \in pruned' <=> q \in pruned)
Dropped(q) == Prunable(q) /\ states'[q] = NoState /\ q \in pruned'

LEMMA OrderKept ==
    ASSUME Types, OrderInv, NEW k \in Keys, NEW s \in State, s.known, Ensure(k, s)
    PROVE  order' \in Seq(Keys) /\ OrderInv'
<1> DEFINE kept == {i \in DOMAIN order : order[i] \notin Given(k)}
           C    == Cardinality(kept)
           w    == Chosen(order, kept)
<1>1. \A q \in Keys : q \in Known' <=> q = k \/ (q \in Known /\ q \notin Given(k))
  BY GivenEnded DEF Ensure, Known, NoState
<1>2. CASE k \in Known
  <2>1. order' = order
    BY <1>2 DEF Ensure
  <2>2. Known' = Known
    BY <1>1, <1>2, GivenEnded DEF Known
  <2>3. QED
    BY <2>1, <2>2 DEF OrderInv, Types
<1>3. CASE k \notin Known
  <2>1. order' = Append(w, k)
    BY <1>3 DEF Ensure
  <2>2. order \in Seq(Keys) /\ Len(order) \in Nat /\ kept \in SUBSET (1..Len(order))
    BY DEF Types
  <2>3. /\ C \in Nat
        /\ \A n \in 1..C : Nth(kept, n) \in kept
        /\ \A n, m \in 1..C : Nth(kept, n) = Nth(kept, m) => n = m
        /\ \A i \in kept : \E n \in 1..C : Nth(kept, n) = i
    BY <2>2, NthPlaces
  <2>4. w = [n \in 1..C |-> order[Nth(kept, n)]]
    BY DEF Chosen
  <2>5. \A n \in 1..C : w[n] \in Keys /\ w[n] \in Known /\ w[n] \notin Given(k)
    BY <2>2, <2>3, <2>4 DEF OrderInv
  <2>6. w \in Seq(Keys) /\ Len(w) = C
    <3>1. w \in [1..C -> Keys]
      BY <2>4, <2>5
    <3> HIDE DEF w, C
    <3>2. QED
      BY <2>3, <3>1
  <2>7. \A n, m \in 1..C : w[n] = w[m] => n = m
    BY <2>3, <2>4 DEF OrderInv
  <2>8. ASSUME NEW q \in Known, q \notin Given(k) PROVE \E n \in 1..C : w[n] = q
    <3>1. PICK i \in DOMAIN order : order[i] = q
      BY DEF OrderInv
    <3>2. i \in kept
      BY <2>8, <3>1
    <3>3. PICK n \in 1..C : Nth(kept, n) = i
      BY <2>3, <3>2
    <3>4. w[n] = q
      BY <2>4, <3>1, <3>3
    <3>5. QED
      BY <3>4
  <2> HIDE DEF w, C
  <2>9. /\ order' \in Seq(Keys) /\ Len(order') = C + 1
        /\ \A n \in 1..C : order'[n] = w[n]
        /\ order'[C + 1] = k
    BY <2>1, <2>6, AppendProperties
  <2>10. DOMAIN order' = 1..(C + 1)
    BY <2>9
  <2>11. \A n \in 1..(C + 1) : n \in 1..C \/ n = C + 1
    BY <2>3
  <2>12. \A n \in 1..(C + 1) : order'[n] \in Known'
    BY <1>1, <2>5, <2>9, <2>11
  <2>13. \A q \in Known' : \E n \in 1..(C + 1) : order'[n] = q
    <3>1. SUFFICES ASSUME NEW q \in Known' PROVE \E n \in 1..(C + 1) : order'[n] = q
      OBVIOUS
    <3>2. q \in Keys
      BY DEF Known
    <3>3. CASE q = k
      BY <2>3, <2>9, <3>3
    <3>4. CASE q # k
      <4>1. PICK n \in 1..C : w[n] = q
        BY <1>1, <2>8, <3>2, <3>4
      <4>2. n \in 1..(C + 1)
        BY <2>3
      <4>3. QED
        BY <2>9, <4>1, <4>2
    <3>5. QED
      BY <3>3, <3>4
  <2>14. \A n, m \in 1..(C + 1) : order'[n] = order'[m] => n = m
    BY <1>3, <2>5, <2>7, <2>9, <2>11
  <2>15. QED
    BY <2>9, <2>10, <2>12, <2>13, <2>14 DEF OrderInv
<1>4. QED
  BY <1>2, <1>3

LEMMA Ensuring ==
    ASSUME Types, OrderInv, NEW k \in Keys, NEW s \in State, s.known, Ensure(k, s)
    PROVE  /\ states' \in [Keys -> State] /\ states'[k] = s
           /\ pruned \subseteq pruned' /\ pruned' \subseteq Keys
           /\ k \in pruned' <=> k \in pruned
           /\ \A q \in Keys \ {k} : Spared(q) \/ Dropped(q)
<1>1. states' = [q \in Keys |-> IF q = k THEN s ELSE IF q \in Given(k) THEN NoState ELSE states[q]]
  BY DEF Ensure
<1>2. NoState \in State
  BY DEF NoState, State
<1>3. states' \in [Keys -> State] /\ states'[k] = s
  BY <1>1, <1>2 DEF Types
<1>4. /\ pruned \subseteq pruned' /\ pruned' \subseteq Keys
      /\ k \in pruned' <=> k \in pruned
  BY GivenEnded DEF Ensure, Types, Known
<1>5. ASSUME NEW q \in Keys \ {k} PROVE Spared(q) \/ Dropped(q)
  <2>1. CASE q \in Given(k)
    BY <1>1, <2>1, GivenEnded DEF Dropped, Ensure
  <2>2. CASE q \notin Given(k)
    BY <1>1, <2>2 DEF Spared, Ensure
  <2>3. QED
    BY <2>1, <2>2
<1>6. QED
  BY <1>3, <1>4, <1>5

-----------------------------------------------------------------------------
(* Publishing into what is kept and into a channel.                        *)

\* A later stretch of the newest events is one too.
LEMMA NewestTail ==
    ASSUME NEW w \in Seq(Event), NEW n \in Nat, NEW v \in Nat, Newest(w, n, v), w # <<>>
    PROVE  /\ Tail(w) \in Seq(Event) /\ Len(Tail(w)) = Len(w) - 1 /\ Newest(Tail(w), n, v)
           /\ Head(w) = w[1] /\ w[1] \in Event /\ w[1].id = n - Len(w) + 1
           /\ w[1].id \in Nat \ {0}
           /\ w[1].last <=> w[1].id = v
<1>1. /\ Tail(w) \in Seq(Event) /\ Len(Tail(w)) = Len(w) - 1
      /\ \A i \in 1..Len(Tail(w)) : Tail(w)[i] = w[i + 1]
  BY HeadTailProperties
<1>2. 1 \in DOMAIN w /\ Head(w) = w[1] /\ w[1] \in Event /\ Len(w) \in Nat \ {0}
  OBVIOUS
<1>3. ASSUME NEW i \in DOMAIN Tail(w)
      PROVE  Tail(w)[i].id = n - Len(Tail(w)) + i /\ (Tail(w)[i].last <=> Tail(w)[i].id = v)
  <2>1. i \in 1..Len(Tail(w)) /\ i + 1 \in DOMAIN w
    BY <1>1, <1>2
  <2>2. w[i + 1].id = n - Len(w) + (i + 1) /\ (w[i + 1].last <=> w[i + 1].id = v)
    BY <2>1 DEF Newest
  <2>3. n - Len(w) + (i + 1) = n - Len(Tail(w)) + i
    BY <1>1, <1>2, <2>1
  <2>4. QED
    BY <1>1, <2>1, <2>2, <2>3
<1>4. w[1].id \in Nat \ {0}
  BY <1>2, EventsTyped
<1>5. QED
  BY <1>1, <1>2, <1>3, <1>4 DEF Newest

Verdict(n, l) == IF l THEN n ELSE 0

LEMMA VerdictNat == ASSUME NEW n \in Nat, NEW l \in BOOLEAN PROVE Verdict(n, l) \in Nat
  BY DEF Verdict

\* An event published under a key without a verdict joins them.
LEMMA NewestAppend ==
    ASSUME NEW w \in Seq(Event), NEW n \in Nat, NEW l \in BOOLEAN, Newest(w, n, 0),
           NEW event, event = [id |-> n + 1, last |-> l]
    PROVE  /\ event \in Event /\ event.id = n + 1
           /\ Append(w, event) \in Seq(Event)
           /\ Len(Append(w, event)) = Len(w) + 1 /\ Append(w, event) # <<>>
           /\ Newest(Append(w, event), n + 1, Verdict(n + 1, l))
           /\ Append(w, event)[1] = IF w = <<>> THEN event ELSE w[1]
<1> DEFINE z == Append(w, event)
           L == Len(w)
<1>1. event \in Event /\ event.id = n + 1 /\ event.last = l
  BY DEF Event
<1>2. /\ z \in Seq(Event) /\ z # <<>> /\ Len(z) = L + 1 /\ L \in Nat
      /\ \A i \in 1..L : z[i] = w[i]
      /\ z[L + 1] = event
  BY <1>1, AppendProperties
<1>3. ASSUME NEW i \in DOMAIN z
      PROVE  z[i].id = n + 1 - Len(z) + i /\ (z[i].last <=> z[i].id = Verdict(n + 1, l))
  <2>1. CASE i = L + 1
    BY <1>1, <1>2, <2>1 DEF Verdict
  <2>2. CASE i # L + 1
    <3>1. i \in DOMAIN w /\ i \in 1..L
      BY <1>2, <2>2
    <3>2. w[i].id = n - L + i /\ (w[i].last <=> w[i].id = 0) /\ w[i].id \in Nat \ {0}
      BY <3>1, EventsTyped DEF Newest
    <3>3. n - L + i = n + 1 - (L + 1) + i /\ n - L + i # n + 1
      BY <1>2, <3>1
    <3>4. QED
      BY <1>2, <3>1, <3>2, <3>3 DEF Verdict
  <2>3. QED
    BY <2>1, <2>2
<1>4. z[1] = IF w = <<>> THEN event ELSE w[1]
  <2>1. CASE w = <<>>
    BY <1>2, <2>1
  <2>2. CASE w # <<>>
    BY <1>2, <2>2
  <2>3. QED
    BY <2>1, <2>2
<1>5. Newest(z, n + 1, Verdict(n + 1, l))
  BY <1>3 DEF Newest
<1>6. QED
  BY <1>1, <1>2, <1>4, <1>5

LEMMA Keeping ==
    ASSUME NEW w \in Seq(Event), NEW n \in Nat, NEW l \in BOOLEAN, Newest(w, n, 0),
           Len(w) <= ReplayLimit, NEW event, event = [id |-> n + 1, last |-> l]
    PROVE  /\ Kept(w, event) \in Seq(Event) /\ Len(Kept(w, event)) <= ReplayLimit
           /\ Kept(w, event) # <<>>
           /\ Newest(Kept(w, event), n + 1, Verdict(n + 1, l))
<1>1. ReplayLimit \in Nat /\ ReplayLimit # 0 /\ Len(w) \in Nat
  BY RunEventsAssumption
<1>2. CASE Len(w) >= ReplayLimit
  <2> DEFINE u == Tail(w)
  <2>1. w # <<>> /\ 0 \in Nat
    BY <1>1, <1>2
  <2>2. u \in Seq(Event) /\ Len(u) = Len(w) - 1 /\ Newest(u, n, 0)
    BY <2>1, NewestTail
  <2>3. Kept(w, event) = Append(u, event)
    BY <1>2 DEF Kept
  <2> HIDE DEF u
  <2>4. /\ Append(u, event) \in Seq(Event) /\ Append(u, event) # <<>>
        /\ Len(Append(u, event)) = Len(u) + 1
        /\ Newest(Append(u, event), n + 1, Verdict(n + 1, l))
    BY <2>2, NewestAppend
  <2>5. Len(Append(u, event)) <= ReplayLimit
    BY <1>1, <2>2, <2>4
  <2>6. QED
    BY <2>3, <2>4, <2>5
<1>3. CASE ~(Len(w) >= ReplayLimit)
  <2>1. Kept(w, event) = Append(w, event)
    BY <1>3 DEF Kept
  <2>2. /\ Append(w, event) \in Seq(Event) /\ Append(w, event) # <<>>
        /\ Len(Append(w, event)) = Len(w) + 1
        /\ Newest(Append(w, event), n + 1, Verdict(n + 1, l))
    BY NewestAppend
  <2>3. Len(Append(w, event)) <= ReplayLimit
    BY <1>1, <1>3, <2>2
  <2>4. QED
    BY <2>1, <2>2, <2>3
<1>4. QED
  BY <1>2, <1>3

\* A client whose handler has been given all but what its channel holds.
Behind(x, n) ==
    /\ x \in Client /\ Len(x.chan) <= x.room /\ x.room > 0
    /\ Newest(x.chan, n, 0)
    /\ x.chan = <<>> => x.seen = n
    /\ x.chan # <<>> => x.seen <= x.chan[1].id

LEMMA Enqueuing ==
    ASSUME NEW x, NEW n \in Nat, NEW l \in BOOLEAN, NEW raced \in BOOLEAN, Behind(x, n),
           raced => Len(x.chan) = x.room,
           NEW event, event = [id |-> n + 1, last |-> l],
           NEW y, y = Enqueued(x, event, raced)
    PROVE  /\ y \in Client
           /\ y.key = x.key /\ y.on = x.on /\ y.subscribed = x.subscribed
           /\ Len(y.chan) <= y.room /\ y.room = x.room /\ y.chan # <<>>
           /\ Newest(y.chan, n + 1, Verdict(n + 1, l))
           /\ y.seen >= x.seen /\ y.seen <= y.chan[1].id
<1> DEFINE w == x.chan
           L == Len(w)
<1>1. /\ x \in Client /\ w \in Seq(Event) /\ L \in Nat
      /\ x.room \in Nat /\ x.seen \in Nat /\ L <= x.room
  BY DEF Behind, Client
<1>2. event \in Event /\ event.id = n + 1
  BY DEF Event
<1>3. /\ Newest(w, n, 0)
      /\ w = <<>> => x.seen = n
      /\ w # <<>> => x.seen <= w[1].id
      /\ x.room > 0 /\ 0 \in Nat
  BY DEF Behind
<1>4. CASE L < x.room
  <2> DEFINE z == Append(w, event)
  <2>1. y = [x EXCEPT !.chan = z]
    BY <1>4 DEF Enqueued
  <2> HIDE DEF w
  <2>2. /\ z \in Seq(Event) /\ Len(z) = L + 1 /\ z # <<>>
        /\ Newest(z, n + 1, Verdict(n + 1, l))
        /\ z[1] = IF w = <<>> THEN event ELSE w[1]
    BY <1>1, <1>3, NewestAppend
  <2> HIDE DEF z
  <2>3. y \in Client /\ y.chan = z /\ y.room = x.room /\ y.seen = x.seen /\ y.key = x.key
        /\ y.on = x.on /\ y.subscribed = x.subscribed
    BY <1>1, <2>1, <2>2 DEF Client
  <2>4. x.seen <= z[1].id
    BY <1>1, <1>2, <1>3, <2>2
  <2>5. QED
    BY <1>1, <1>4, <2>2, <2>3, <2>4
<1>5. CASE ~(L < x.room)
  <2>1. L = x.room /\ w # <<>>
    BY <1>1, <1>3, <1>5
  <2>2. CASE ~raced
    <3> DEFINE u == Tail(w)
               z == Append(u, event)
    <3>1. y = [x EXCEPT !.chan = z]
      BY <1>5, <2>2 DEF Enqueued
    <3> HIDE DEF w
    <3>2. /\ u \in Seq(Event) /\ Len(u) = L - 1 /\ Newest(u, n, 0)
          /\ w[1].id = n - L + 1 /\ w[1].id \in Nat
      BY <1>1, <1>3, <2>1, NewestTail
    <3> HIDE DEF u
    <3>3. /\ z \in Seq(Event) /\ Len(z) = Len(u) + 1 /\ z # <<>>
          /\ Newest(z, n + 1, Verdict(n + 1, l))
      BY <3>2, NewestAppend
    <3> HIDE DEF z
    <3>4. y \in Client /\ y.chan = z /\ y.room = x.room /\ y.seen = x.seen /\ y.key = x.key
          /\ y.on = x.on /\ y.subscribed = x.subscribed
      BY <1>1, <3>1, <3>3 DEF Client
    <3>5. z[1].id = (n + 1) - Len(z) + 1 /\ z[1].id \in Nat
      <4>1. n + 1 \in Nat /\ Verdict(n + 1, l) \in Nat
        BY VerdictNat
      <4>2. QED
        BY <3>3, <4>1, NewestTail
    <3>6. x.seen <= z[1].id /\ Len(z) = L
      <4>1. Len(z) = L
        BY <1>1, <3>2, <3>3
      <4>2. x.seen <= n - L + 1
        BY <1>3, <2>1, <3>2
      <4>3. n - L + 1 <= (n + 1) - L + 1
        BY <1>1
      <4>4. QED
        BY <1>1, <3>5, <4>1, <4>2, <4>3
    <3>7. QED
      BY <1>1, <2>1, <3>3, <3>4, <3>6
  <2>3. CASE raced
    <3> DEFINE u == SubSeq(w, 3, Len(w))
               z == Append(u, event)
    <3>1. w[1].id = n - L + 1 /\ w[1].id \in Nat /\ Head(w) = w[1] /\ w[1] \in Event
      <4> HIDE DEF w
      <4>1. QED
        BY <1>1, <1>3, <2>1, NewestTail
    <3>2. y = [Received(x, w[1]) EXCEPT !.chan = z]
      BY <1>5, <2>3, <3>1 DEF Enqueued, Received
    <3> HIDE DEF w
    <3>3. u \in Seq(Event) /\ Newest(u, n, 0) /\ Len(u) = IF L >= 3 THEN L - 2 ELSE 0
      <4>1. /\ u \in Seq(Event) /\ Len(u) = IF 3 <= L THEN L - 3 + 1 ELSE 0
            /\ \A i \in 1..(L - 3 + 1) : u[i] = w[3 + i - 1]
        BY <1>1, SubSeqProperties
      <4> HIDE DEF u
      <4>2. ASSUME NEW i \in DOMAIN u
            PROVE  u[i].id = n - Len(u) + i /\ (u[i].last <=> u[i].id = 0)
        <5>1. i \in Nat /\ i >= 1 /\ i <= L - 2 /\ 3 <= L /\ Len(u) = L - 2
          BY <1>1, <4>1
        <5>2. u[i] = w[i + 2] /\ i + 2 \in DOMAIN w
          BY <1>1, <4>1, <5>1
        <5>3. \A j \in DOMAIN w : w[j].id = n - Len(w) + j /\ (w[j].last <=> w[j].id = 0)
          BY <1>3 DEF Newest
        <5>4. w[i + 2].id = n - L + (i + 2) /\ (w[i + 2].last <=> w[i + 2].id = 0)
          BY <5>2, <5>3
        <5>5. n - L + (i + 2) = n - Len(u) + i
          BY <1>1, <5>1
        <5>6. QED
          BY <5>2, <5>4, <5>5
      <4>3. QED
        BY <1>1, <4>1, <4>2 DEF Newest
    <3> HIDE DEF u
    <3>4. /\ z \in Seq(Event) /\ Len(z) = Len(u) + 1 /\ z # <<>>
          /\ Newest(z, n + 1, Verdict(n + 1, l))
      <4>1. u \in Seq(Event) /\ Newest(u, n, 0)
        BY <3>3
      <4>2. QED
        BY <4>1, NewestAppend
    <3> HIDE DEF z
    <3>5. y.seen = w[1].id /\ y.chan = z /\ y.room = x.room /\ y.key = x.key
          /\ y.on = x.on /\ y.subscribed = x.subscribed /\ y \in Client
      BY <1>1, <3>1, <3>2, <3>4 DEF Client, Received, Event
    <3>6. z[1].id = (n + 1) - Len(z) + 1 /\ z[1].id \in Nat
      <4>1. n + 1 \in Nat /\ Verdict(n + 1, l) \in Nat
        BY VerdictNat
      <4>2. QED
        BY <3>4, <4>1, NewestTail
    <3>7. z[1].id >= w[1].id /\ w[1].id >= x.seen /\ Len(z) <= x.room
      <4>1. Len(z) <= L /\ Len(z) \in Nat
        BY <1>1, <1>3, <2>1, <3>3, <3>4
      <4>2. n - L + 1 <= (n + 1) - Len(z) + 1
        BY <1>1, <4>1
      <4>3. x.seen <= w[1].id
        BY <1>3, <2>1
      <4>4. QED
        BY <1>1, <2>1, <3>1, <3>6, <4>1, <4>2, <4>3
    <3>8. QED
      BY <3>4, <3>5, <3>7
  <2>4. QED
    BY <2>2, <2>3
<1>6. QED
  BY <1>4, <1>5

-----------------------------------------------------------------------------
(* The steps.                                                              *)

\* What the state a key has, or is given, holds.
LEMMA StateOfKey ==
    ASSUME EventsInv, NEW k \in Keys
    PROVE  LET s == StateOf(k)
           IN  /\ s \in State /\ s.known
               /\ k \in Known => s = states[k]
               /\ k \notin Known => states[k] = NoState /\ s = Fresh
               /\ s.next = states[k].next /\ s.replay = states[k].replay
               /\ s.verdict = states[k].verdict /\ s.terminal = states[k].terminal
<1>1. states[k] \in State /\ (~states[k].known => states[k] = NoState)
  BY DEF EventsInv, Types, StateInv
<1>2. /\ NoState \in State /\ Fresh \in State /\ Fresh.known
      /\ Fresh.next = NoState.next /\ Fresh.replay = NoState.replay
      /\ Fresh.verdict = NoState.verdict /\ Fresh.terminal = NoState.terminal
  <2>1. /\ NoState.known = FALSE /\ NoState.next = 0 /\ NoState.replay = <<>>
        /\ NoState.terminal = FALSE /\ NoState.verdict = 0
        /\ NoState \in [known : BOOLEAN, next : Nat, replay : {<<>>}, terminal : BOOLEAN, verdict : Nat]
    BY DEF NoState
  <2>2. <<>> \in Seq(Event)
    OBVIOUS
  <2>3. NoState \in State
    BY <2>1, <2>2 DEF State
  <2>4. QED
    BY <2>3 DEF Fresh, State
<1>3. QED
  BY <1>1, <1>2 DEF StateOf, Known

\* No run becomes live again, and a key whose run ends now takes its verdict.
NoNewEnd(k) == /\ \A q \in Keys : Ended(q) => Ended(q)'
               /\ \A q \in Keys \ {k} : Announced(q) /\ Ended(q)' => Ended(q)

LEMMA OtherStates ==
    ASSUME EventsInv, NEW k \in Keys, NEW s \in State, s.known, Ensure(k, s), NoNewEnd(k),
           NEW q \in Keys \ {k}
    PROVE  StateInv(q)'
<1>1. StateInv(q) /\ Types /\ OrderInv
  BY DEF EventsInv
<1>2. Spared(q) \/ Dropped(q)
  BY <1>1, Ensuring
<1>3. CASE Spared(q)
  BY <1>1, <1>3 DEF Spared, StateInv, NoNewEnd
<1>4. CASE Dropped(q)
  <2>1. Ended(q)'
    BY <1>1, <1>4 DEF Dropped, Prunable, StateInv, NoNewEnd
  <2>2. ReplayLimit \in Nat
    BY RunEventsAssumption
  <2>3. Newest(NoState.replay, NoState.next, NoState.verdict) /\ Len(NoState.replay) <= ReplayLimit
    BY <2>2 DEF NoState, Newest
  <2>4. states'[q] = NoState /\ q \in pruned'
    BY <1>4 DEF Dropped
  <2>5. NoState.next = 0 /\ NoState.verdict = 0
    BY DEF NoState
  <2>6. QED
    BY <2>1, <2>3, <2>4, <2>5 DEF StateInv
<1>5. QED
  BY <1>2, <1>3, <1>4

LEMMA OtherClients ==
    ASSUME EventsInv, NEW k \in Keys, NEW s \in State, s.known, Ensure(k, s),
           NEW c \in Clients, client[c].key # k, client'[c] = client[c]
    PROVE  ClientInv(c)'
<1> DEFINE q == client[c].key
<1>1. ClientInv(c) /\ Types /\ OrderInv /\ q \in Keys \ {k}
  BY DEF EventsInv, Types, Client
<1>2. Spared(q) \/ Dropped(q)
  BY <1>1, Ensuring
<1>3. CASE Spared(q)
  BY <1>1, <1>3 DEF Spared, ClientInv
<1>4. CASE Dropped(q)
  <2>1. ~client[c].subscribed
    BY <1>1, <1>4 DEF Dropped, Prunable, Subscribers
  <2>2. q \in pruned'
    BY <1>4 DEF Dropped
  <2>3. QED
    BY <1>1, <2>1, <2>2 DEF ClientInv
<1>5. QED
  BY <1>2, <1>3, <1>4

LEMMA Publishing ==
    ASSUME EventsInv, NEW k \in Keys, NEW last \in BOOLEAN, Publish(k, last),
           ~Ended(k), Ended(k)' <=> last, NoNewEnd(k),
           at' \in [Runs -> Places], left' \in [Runs -> 0..MaxProgress]
    PROVE  EventsInv' /\ \A c \in Clients : client'[c].seen >= client[c].seen
<1> DEFINE s     == StateOf(k)
           event == [id |-> s.next + 1, last |-> last]
           t     == [s EXCEPT !.next = @ + 1, !.replay = Kept(@, event), !.terminal = @ \/ last,
                              !.verdict = IF last THEN event.id ELSE @]
<1>1. Types /\ OrderInv /\ StateInv(k)
  BY DEF EventsInv
<1>2. /\ s \in State /\ s.known /\ s.next \in Nat /\ s.replay \in Seq(Event)
      /\ s.next = states[k].next /\ s.replay = states[k].replay
      /\ s.verdict = states[k].verdict /\ s.terminal = states[k].terminal
  BY StateOfKey DEF State
<1>3. k \notin pruned /\ ~states[k].terminal /\ states[k].verdict = 0
  BY <1>1 DEF StateInv
<1>4. Newest(s.replay, s.next, 0) /\ Len(s.replay) <= ReplayLimit
  BY <1>1, <1>2, <1>3 DEF StateInv
<1>5. PICK raced \in SUBSET {c \in Subscribers(k) : Len(client[c].chan) = client[c].room} :
        client' = [c \in Clients |->
            IF c \in Subscribers(k) THEN Enqueued(client[c], event, c \in raced) ELSE client[c]]
  BY DEF Publish
<1>6. Ensure(k, t)
  BY DEF Publish
<1> HIDE DEF s, event
<1>7. LET w == Kept(s.replay, event)
      IN  /\ w \in Seq(Event) /\ Len(w) <= ReplayLimit /\ w # <<>>
          /\ Newest(w, s.next + 1, Verdict(s.next + 1, last))
  BY <1>2, <1>4, Keeping DEF event
<1>8. /\ t \in State /\ t.known /\ t.next = s.next + 1 /\ t.replay = Kept(s.replay, event)
      /\ t.terminal = last /\ t.verdict = Verdict(s.next + 1, last)
  <2>1. event.id = s.next + 1 /\ s.verdict = 0 /\ s.terminal = FALSE /\ s.next + 1 \in Nat
    BY <1>2, <1>3 DEF event, State
  <2>2. (IF last THEN event.id ELSE s.verdict) = Verdict(s.next + 1, last)
    BY <2>1 DEF Verdict
  <2>3. (s.terminal \/ last) = last
    BY <2>1
  <2>4. t = [s EXCEPT !.next = s.next + 1, !.replay = Kept(s.replay, event), !.terminal = last,
                      !.verdict = Verdict(s.next + 1, last)]
    BY <2>2, <2>3
  <2> HIDE DEF t
  <2>5. QED
    BY <1>2, <1>7, <2>1, <2>4, VerdictNat DEF State
<1> HIDE DEF t
<1>9. /\ states' \in [Keys -> State] /\ states'[k] = t
      /\ pruned' \subseteq Keys /\ k \notin pruned'
  BY <1>1, <1>3, <1>6, <1>8, Ensuring
<1>10. order' \in Seq(Keys) /\ OrderInv'
  BY <1>1, <1>6, <1>8, OrderKept
<1>11. StateInv(k)'
  BY <1>2, <1>7, <1>8, <1>9 DEF StateInv, Verdict
<1>12. \A q \in Keys : StateInv(q)'
  BY <1>6, <1>8, <1>11, OtherStates
<1>13. ASSUME NEW c \in Clients
       PROVE  client'[c] \in Client /\ ClientInv(c)' /\ client'[c].seen >= client[c].seen
  <2>1. client[c] \in Client /\ ClientInv(c) /\ client[c].seen \in Nat /\ client[c].key \in Keys
    BY DEF EventsInv, Types, Client
  <2>2. CASE c \in Subscribers(k)
    <3> DEFINE x == client[c]
               y == client'[c]
    <3>1. y = Enqueued(x, event, c \in raced)
      BY <1>5, <2>2
    <3>2. x.subscribed /\ x.key = k
      BY <2>2 DEF Subscribers
    <3>3. Behind(x, s.next)
      BY <1>2, <1>3, <2>1, <3>2 DEF Behind, ClientInv, Caught
    <3>4. c \in raced => Len(x.chan) = x.room
      BY <1>5
    <3> HIDE DEF x, y
    <3>5. /\ y \in Client
          /\ y.key = x.key /\ y.on = x.on /\ y.subscribed = x.subscribed
          /\ Len(y.chan) <= y.room /\ y.room = x.room /\ y.chan # <<>>
          /\ Newest(y.chan, s.next + 1, Verdict(s.next + 1, last))
          /\ y.seen >= x.seen /\ y.seen <= y.chan[1].id
      <4>1. PICK b \in BOOLEAN : b <=> c \in raced
        OBVIOUS
      <4>2. y = Enqueued(x, event, b)
        BY <3>1, <4>1 DEF Enqueued
      <4>3. event = [id |-> s.next + 1, last |-> last]
        BY DEF event
      <4>4. QED
        BY <1>2, <3>3, <3>4, <4>1, <4>2, <4>3, Enqueuing
    <3>6. y.seen <= t.next
      <4>1. y.chan \in Seq(Event) /\ y.seen \in Nat /\ t.next \in Nat
        BY <1>2, <1>8, <3>5 DEF Client
      <4>2. y.chan[1].id = t.next - Len(y.chan) + 1 /\ Len(y.chan) \in Nat /\ Len(y.chan) # 0
        <5>1. s.next + 1 \in Nat /\ Verdict(s.next + 1, last) \in Nat
          BY <1>2, VerdictNat
        <5>2. QED
          BY <1>8, <3>5, <4>1, <5>1, NewestTail
      <4>3. QED
        BY <3>5, <4>1, <4>2
    <3>7. x.on /\ x.room > 0
      BY <2>1, <3>2 DEF ClientInv, x
    <3>8. Caught(y, t)
      BY <1>8, <3>2, <3>5 DEF Caught, x
    <3>9. ClientInv(c)'
      BY <1>8, <1>9, <2>1, <3>2, <3>5, <3>6, <3>7, <3>8 DEF ClientInv, x, y
    <3>10. QED
      BY <3>5, <3>9 DEF x, y
  <2>3. CASE c \notin Subscribers(k)
    <3>1. client'[c] = client[c]
      BY <1>5, <2>3
    <3>2. CASE client[c].key # k
      BY <1>6, <1>8, <2>1, <3>1, <3>2, OtherClients
    <3>3. CASE client[c].key = k
      <4>1. ~client[c].subscribed /\ ~client[c].on
        BY <1>3, <2>1, <2>3, <3>3 DEF Subscribers, ClientInv, Caught
      <4>2. client[c].seen <= t.next
        BY <1>2, <1>3, <1>8, <2>1, <3>3 DEF ClientInv
      <4>3. ClientInv(c)'
        BY <1>9, <2>1, <3>1, <3>3, <4>1, <4>2 DEF ClientInv
      <4>4. QED
        BY <2>1, <3>1, <4>3
    <3>4. QED
      BY <3>2, <3>3
  <2>4. QED
    BY <2>2, <2>3
<1>14. client' \in [Clients -> Client]
  <2>1. DOMAIN client' = Clients /\ client' = [c \in Clients |-> client'[c]]
    BY <1>5
  <2>2. QED
    BY <1>13, <2>1
<1>15. Types'
  BY <1>9, <1>10, <1>14 DEF Types
<1>16. QED
  BY <1>10, <1>12, <1>13, <1>15 DEF EventsInv

LEMMA Closing ==
    ASSUME EventsInv, NEW k \in Keys, CloseKey(k), Ended(k),
           \A q \in Keys : Ended(q)' <=> Ended(q), at' \in [Runs -> Places]
    PROVE  EventsInv' /\ \A c \in Clients : client'[c].seen = client[c].seen
<1>1. Types /\ OrderInv /\ UNCHANGED <<order, pruned, left>>
  BY DEF EventsInv, CloseKey
<1>2. states' = IF k \in Known THEN [states EXCEPT ![k] = [@ EXCEPT !.terminal = TRUE]] ELSE states
  BY DEF CloseKey
<1>3. /\ states' \in [Keys -> State]
      /\ \A q \in Keys : /\ states'[q].known = states[q].known
                         /\ states'[q].next = states[q].next
                         /\ states'[q].replay = states[q].replay
                         /\ states'[q].verdict = states[q].verdict
                         /\ states[q].terminal => states'[q].terminal
                         /\ q # k => states'[q] = states[q]
      /\ states[k].known => states'[k].terminal
      /\ ~states[k].known => states'[k] = states[k]
  BY <1>1, <1>2 DEF Types, State, Known
<1>4. OrderInv'
  <2>1. Known' = Known
    <3>1. \A q \in Keys : states'[q].known <=> states[q].known
      BY <1>3
    <3>2. QED
      BY <3>1 DEF Known
  <2>2. QED
    BY <1>1, <2>1 DEF OrderInv
<1>5. ASSUME NEW q \in Keys PROVE StateInv(q)'
  <2>1. StateInv(q)
    BY DEF EventsInv
  <2>2. CASE q # k
    <3>1. states'[q] = states[q] /\ pruned' = pruned /\ (Ended(q)' <=> Ended(q))
      BY <1>1, <1>3, <2>2
    <3>2. QED
      BY <2>1, <3>1 DEF StateInv
  <2>3. CASE q = k
    <3>1. states'[k].known \/ states'[k] = states[k]
      BY <1>3
    <3>2. states'[k].verdict # 0 => states'[k].terminal
      BY <1>3, <2>1, <2>3 DEF StateInv
    <3>3. QED
      BY <1>1, <1>3, <2>1, <2>3, <3>1, <3>2 DEF StateInv
  <2>4. QED
    BY <2>2, <2>3
<1>6. ASSUME NEW c \in Clients
      PROVE  client'[c] \in Client /\ ClientInv(c)' /\ client'[c].seen = client[c].seen
  <2> DEFINE x == client[c]
             y == client'[c]
  <2>1. x \in Client /\ ClientInv(c) /\ x.key \in Keys
    BY DEF EventsInv, Types, Client
  <2>2. y = [x EXCEPT !.subscribed = @ /\ c \notin Subscribers(k)]
    BY DEF CloseKey
  <2>3. /\ y \in Client /\ y.on = x.on /\ y.chan = x.chan /\ y.room = x.room /\ y.told = x.told
        /\ y.key = x.key /\ y.seen = x.seen
        /\ y.subscribed <=> x.subscribed /\ c \notin Subscribers(k)
    BY <2>1, <2>2 DEF Client
  <2>4. x.subscribed /\ ~y.subscribed => states'[x.key].terminal
    BY <1>3, <2>1, <2>3 DEF Subscribers, ClientInv
  <2>5. ASSUME x.key \notin pruned PROVE y.seen <= states'[y.key].next /\ (y.on => Caught(y, states'[y.key]))
    BY <1>3, <2>1, <2>3, <2>4, <2>5 DEF ClientInv, Caught
  <2> HIDE DEF y
  <2>6. ClientInv(c)'
    BY <1>1, <1>3, <2>1, <2>3, <2>5 DEF ClientInv, y
  <2>7. QED
    BY <2>3, <2>6 DEF y
<1>7. client' \in [Clients -> Client]
  <2>1. client' = [c \in Clients |-> client'[c]]
    BY DEF CloseKey
  <2>2. QED
    BY <1>6, <2>1
<1>8. QED
  BY <1>1, <1>3, <1>4, <1>5, <1>6, <1>7 DEF EventsInv, Types

\* What a client is replayed when it comes, and what that makes of it.
LEMMA Replaying ==
    ASSUME NEW s \in State, NEW seen \in Nat, seen <= s.next,
           Newest(s.replay, s.next, s.verdict),
           s.next > 0 => s.replay # <<>>, s.verdict \in {0, s.next}, s.verdict # 0 => s.terminal
    PROVE  /\ Replay(s, seen) \in Seq(Event) /\ Newest(Replay(s, seen), s.next, s.verdict)
           /\ Replay(s, seen) = <<>> => seen = s.next /\ s.verdict = 0
           /\ Replay(s, seen) # <<>> => seen <= Replay(s, seen)[1].id
<1> DEFINE w == Newer(s, seen)
<1>1. /\ w \in Seq(Event) /\ Newest(w, s.next, s.verdict)
      /\ \A i \in DOMAIN w : w[i].id > seen
      /\ w = <<>> => s.replay = <<>> \/ s.next <= seen
  BY NewerIsNewest
<1> HIDE DEF w
<1>2. s.next \in Nat /\ s.verdict \in Nat /\ s.terminal \in BOOLEAN
  BY DEF State
<1>3. w = <<>> => seen = s.next
  BY <1>1, <1>2
<1>4. CASE s.terminal /\ w = <<>> /\ s.verdict # 0
  <2> DEFINE e == [id |-> s.verdict, last |-> TRUE]
  <2>1. Replay(s, seen) = <<e>>
    BY <1>4 DEF Replay, w
  <2>2. e \in Event /\ e.id = s.next /\ e.last = TRUE /\ s.verdict = s.next
    BY <1>2, <1>4 DEF Event
  <2> HIDE DEF e
  <2>3. <<e>> \in Seq(Event) /\ Len(<<e>>) = 1 /\ <<e>>[1] = e /\ DOMAIN <<e>> = {1} /\ <<e>> # <<>>
    BY <2>2
  <2>4. Newest(<<e>>, s.next, s.verdict)
    <3>1. \A i \in DOMAIN <<e>> : i = 1
      BY <2>3
    <3>2. <<e>>[1].id = s.next - Len(<<e>>) + 1
      BY <1>2, <2>2, <2>3
    <3>3. <<e>>[1].last <=> <<e>>[1].id = s.verdict
      BY <2>2, <2>3
    <3>4. QED
      BY <3>1, <3>2, <3>3 DEF Newest
  <2>5. seen <= <<e>>[1].id
    BY <1>2, <2>2, <2>3
  <2>6. QED
    BY <2>1, <2>3, <2>4, <2>5
<1>5. CASE ~(s.terminal /\ w = <<>> /\ s.verdict # 0)
  <2>1. Replay(s, seen) = w
    BY <1>5 DEF Replay, w
  <2>2. w # <<>> => seen <= w[1].id
    <3>1. w # <<>> => 1 \in DOMAIN w
      BY <1>1
    <3>2. ASSUME w # <<>> PROVE w[1].id > seen /\ w[1].id \in Nat
      BY <1>1, <3>1, <3>2, EventsTyped
    <3>3. QED
      BY <3>2
  <2>3. w = <<>> => s.verdict = 0
    BY <1>5
  <2>4. QED
    BY <1>1, <1>3, <2>1, <2>2, <2>3
<1>6. QED
  BY <1>4, <1>5

LEMMA Subscribing ==
    ASSUME EventsInv, NEW c \in Clients, Subscribe(c), NEW k, k = client[c].key
    PROVE  EventsInv' /\ \A d \in Clients : client'[d].seen = client[d].seen
<1> DEFINE x == client[c]
           s == StateOf(x.key)
           w == Replay(s, x.seen)
           y == client'[c]
<1>1. Types /\ OrderInv /\ x \in Client /\ k \in Keys /\ StateInv(k) /\ ClientInv(c)
  BY DEF EventsInv, Types, Client
<1>2. ~x.on /\ Ensure(k, s) /\ s = StateOf(k) /\ UNCHANGED <<at, left>>
  BY DEF Subscribe
<1>3. /\ y = [x EXCEPT !.on = TRUE, !.subscribed = ~s.terminal, !.connects = @ + 1,
                       !.chan = w, !.room = Len(w) + Buffer, !.told = FALSE]
      /\ client' = [client EXCEPT ![c] = y] /\ \A d \in Clients \ {c} : client'[d] = client[d]
  <2> DEFINE z == [x EXCEPT !.on = TRUE, !.subscribed = ~s.terminal, !.connects = @ + 1,
                            !.chan = w, !.room = Len(w) + Buffer, !.told = FALSE]
  <2>1. client' = [client EXCEPT ![c] = z]
    BY Zenon DEF Subscribe
  <2>2. client \in [Clients -> Client]
    BY <1>1 DEF Types
  <2> HIDE DEF z
  <2>3. y = z /\ \A d \in Clients \ {c} : client'[d] = client[d]
    BY <2>1, <2>2
  <2>4. QED
    BY <2>1, <2>3 DEF z
<1>4. /\ s \in State /\ s.known
      /\ k \in Known => s = states[k]
      /\ k \notin Known => states[k] = NoState /\ s = Fresh
      /\ s.next = states[k].next /\ s.replay = states[k].replay
      /\ s.verdict = states[k].verdict /\ s.terminal = states[k].terminal
  BY <1>1, <1>2, StateOfKey
<1>5. /\ Newest(s.replay, s.next, s.verdict)
      /\ s.next > 0 => s.replay # <<>>
      /\ s.verdict \in {0, s.next}
      /\ s.verdict # 0 => s.terminal
      /\ Len(s.replay) <= ReplayLimit
  BY <1>1, <1>4 DEF StateInv
<1>6. x.seen \in Nat /\ x.connects \in Nat /\ (k \notin pruned => x.seen <= s.next)
  BY <1>1, <1>4 DEF Client, ClientInv
<1> HIDE DEF s
<1>7. /\ states' \in [Keys -> State] /\ states'[k] = s
      /\ pruned' \subseteq Keys /\ (k \in pruned' <=> k \in pruned)
  BY <1>1, <1>2, <1>4, Ensuring
<1>8. order' \in Seq(Keys) /\ OrderInv'
  BY <1>1, <1>2, <1>4, OrderKept
<1>9. \A q \in Keys : Ended(q)' <=> Ended(q)
  BY <1>2 DEF Ended
<1>10. NoNewEnd(k)
  BY <1>9 DEF NoNewEnd
<1>11. StateInv(k)'
  BY <1>1, <1>4, <1>5, <1>7, <1>9 DEF StateInv
<1>12. \A q \in Keys : StateInv(q)'
  BY <1>1, <1>2, <1>4, <1>10, <1>11, OtherStates
<1>13. w \in Seq(Event)
  <2>1. Newer(s, x.seen) \in Seq(Event)
    <3> HIDE DEF x
    <3>1. s \in State /\ x.seen \in Nat /\ Newest(s.replay, s.next, s.verdict)
      BY <1>4, <1>5, <1>6
    <3>2. QED
      BY <3>1, NewerIsNewest
  <2>2. s.verdict # 0 => [id |-> s.verdict, last |-> TRUE] \in Event
    BY <1>4 DEF State, Event
  <2>3. QED
    BY <2>1, <2>2 DEF Replay
<1>14. /\ y \in Client /\ y.on /\ (y.subscribed <=> ~s.terminal) /\ y.chan = w
       /\ y.room = Len(w) + Buffer /\ y.key = k /\ y.seen = x.seen
  <2>1. Len(w) + Buffer \in Nat /\ x.connects + 1 \in Nat /\ (~s.terminal) \in BOOLEAN
    BY <1>4, <1>6, <1>13, RunEventsAssumption DEF State
  <2> HIDE DEF w, y
  <2>2. QED
    BY <1>1, <1>3, <1>13, <2>1 DEF Client
<1>15. ClientInv(c)'
  <2>1. Len(y.chan) <= y.room /\ y.room > 0
    <3>1. Len(w) \in Nat /\ Buffer \in Nat /\ Buffer # 0
      BY <1>13, RunEventsAssumption
    <3>2. QED
      BY <1>14, <3>1
  <2>2. ASSUME k \notin pruned PROVE y.seen <= s.next /\ Caught(y, s)
    <3>1. /\ Newest(w, s.next, s.verdict)
          /\ w = <<>> => x.seen = s.next /\ s.verdict = 0
          /\ w # <<>> => x.seen <= w[1].id
      <4> HIDE DEF x
      <4>1. /\ s \in State /\ x.seen \in Nat /\ x.seen <= s.next
            /\ Newest(s.replay, s.next, s.verdict)
            /\ s.next > 0 => s.replay # <<>>
            /\ s.verdict \in {0, s.next}
            /\ s.verdict # 0 => s.terminal
        BY <1>4, <1>5, <1>6, <2>2
      <4>2. QED
        BY <4>1, Replaying
    <3> HIDE DEF w, y
    <3>2. QED
      BY <1>6, <1>14, <2>2, <3>1 DEF Caught
  <2> HIDE DEF w
  <2>3. QED
    BY <1>1, <1>4, <1>7, <1>14, <2>1, <2>2 DEF ClientInv
<1>16. ASSUME NEW d \in Clients \ {c} PROVE ClientInv(d)'
  <2>1. client'[d] = client[d] /\ ClientInv(d) /\ client[d] \in Client
    BY <1>3 DEF EventsInv, Types
  <2>2. CASE client[d].key # k
    BY <1>1, <1>2, <1>4, <2>1, <2>2, OtherClients
  <2>3. CASE client[d].key = k /\ k \in Known
    BY <1>4, <1>7, <2>1, <2>3 DEF ClientInv
  <2>4. CASE client[d].key = k /\ k \notin Known
    <3>1. ~states[k].known /\ ~states[k].terminal
      BY <1>1, <1>4, <2>4 DEF Known, NoState
    <3>2. ~client[d].subscribed /\ (k \notin pruned => ~client[d].on /\ client[d].seen <= s.next)
      BY <1>4, <2>1, <2>4, <3>1 DEF ClientInv, Caught
    <3>3. QED
      BY <1>7, <2>1, <2>4, <3>2 DEF ClientInv
  <2>5. QED
    BY <2>2, <2>3, <2>4
<1>17. client' \in [Clients -> Client] /\ \A d \in Clients : client'[d].seen = client[d].seen
  <2> HIDE DEF y
  <2>1. QED
    BY <1>1, <1>3, <1>14 DEF Types, y
<1>18. QED
  BY <1>1, <1>2, <1>7, <1>8, <1>12, <1>15, <1>16, <1>17 DEF EventsInv, Types

\* A step of one client's handler that leaves the bus alone.
LEMMA Handling ==
    ASSUME EventsInv, NEW c \in Clients, NEW y, y \in Client, ClientInv(c)',
           client' = [client EXCEPT ![c] = y],
           UNCHANGED <<states, order, at, left, pruned>>
    PROVE  EventsInv'
<1>1. Types /\ OrderInv /\ Known' = Known
  BY DEF EventsInv, Known
<1>2. Types' /\ OrderInv'
  BY <1>1 DEF Types, OrderInv
<1>3. \A q \in Keys : StateInv(q)'
  BY DEF EventsInv, StateInv, Ended
<1>4. ASSUME NEW d \in Clients \ {c} PROVE ClientInv(d)'
  <2>1. client'[d] = client[d] /\ ClientInv(d)
    BY <1>1 DEF EventsInv, Types
  <2>2. QED
    BY <2>1 DEF ClientInv
<1>5. QED
  BY <1>2, <1>3, <1>4 DEF EventsInv

LEMMA Receiving ==
    ASSUME EventsInv, NEW c \in Clients, Receive(c)
    PROVE  /\ EventsInv'
           /\ client[c].key \notin pruned => client'[c].seen >= client[c].seen
           /\ \A d \in Clients \ {c} : client'[d] = client[d]
<1> DEFINE x == client[c]
           w == x.chan
           y == client'[c]
           s == states[x.key]
<1>1. Types /\ x \in Client /\ ClientInv(c) /\ w \in Seq(Event) /\ w # <<>> /\ x.on /\ x.seen \in Nat
  BY DEF EventsInv, Types, Client, Receive
<1>2. /\ Tail(w) \in Seq(Event) /\ Len(Tail(w)) = Len(w) - 1 /\ Head(w) = w[1] /\ w[1] \in Event
      /\ w[1].id \in Nat /\ w[1].last \in BOOLEAN
  BY <1>1, HeadTailProperties, EventsTyped
<1>3. /\ y = [Received(x, w[1]) EXCEPT !.chan = Tail(w)]
      /\ client' = [client EXCEPT ![c] = y]
      /\ UNCHANGED <<states, order, at, left, pruned>>
  <2>1. client' = [client EXCEPT ![c] = [Received(x, w[1]) EXCEPT !.chan = Tail(w)]]
    BY <1>2 DEF Receive, Received
  <2>2. client \in [Clients -> Client]
    BY <1>1 DEF Types
  <2> HIDE DEF x, w
  <2>3. y = [Received(x, w[1]) EXCEPT !.chan = Tail(w)]
    BY <2>1, <2>2
  <2>4. QED
    BY <2>1, <2>3 DEF Receive
<1>4. /\ y \in Client /\ y.on = x.on /\ y.subscribed = x.subscribed /\ y.chan = Tail(w)
      /\ y.room = x.room /\ y.key = x.key /\ y.seen = w[1].id
      /\ y.told <=> x.told \/ w[1].last
  <2> HIDE DEF y, w
  <2>1. QED
    BY <1>1, <1>2, <1>3 DEF Client, Received
<1>5. \A d \in Clients \ {c} : client'[d] = client[d]
  BY <1>1, <1>3 DEF Types
<1>6. x.key \in Keys /\ s \in State /\ s.next \in Nat /\ s.verdict \in Nat /\ s.verdict \in {0, s.next}
  BY <1>1 DEF EventsInv, Types, Client, State, StateInv
<1>7. ASSUME x.key \notin pruned
      PROVE  y.seen <= s.next /\ Caught(y, s) /\ y.seen >= x.seen
  <2>1. /\ Newest(w, s.next, s.verdict) /\ x.seen <= w[1].id
        /\ ~x.subscribed => s.terminal
    BY <1>1, <1>7 DEF ClientInv, Caught
  <2>2. /\ Newest(Tail(w), s.next, s.verdict)
        /\ w[1].id = s.next - Len(w) + 1
        /\ w[1].last <=> w[1].id = s.verdict
    BY <1>1, <1>6, <2>1, NewestTail
  <2>3. Len(w) \in Nat /\ Len(w) # 0
    BY <1>1
  <2>4. w[1].id <= s.next
    BY <1>2, <1>6, <2>2, <2>3
  <2>5. ASSUME Tail(w) = <<>> PROVE w[1].id = s.next /\ (s.verdict # 0 => w[1].last)
    <3>1. Len(w) = 1
      <4>1. Len(Tail(w)) = Len(<<>>) /\ Len(<<>>) = 0
        BY <1>4, <2>5
      <4>2. QED
        BY <1>2, <2>3, <4>1
    <3>2. w[1].id = s.next
      BY <1>6, <2>2, <3>1
    <3>3. QED
      BY <1>6, <2>2, <3>2
  <2>6. ASSUME Tail(w) # <<>> PROVE w[1].id <= Tail(w)[1].id
    <3>1. Tail(w)[1].id = s.next - Len(Tail(w)) + 1
      BY <1>2, <1>6, <2>2, <2>6, NewestTail
    <3>2. s.next - Len(w) + 1 <= s.next - (Len(w) - 1) + 1
      BY <1>6, <2>3
    <3>3. QED
      BY <1>2, <2>2, <3>1, <3>2
  <2> HIDE DEF y
  <2>7. Caught(y, s)
    BY <1>4, <2>1, <2>2, <2>5, <2>6 DEF Caught
  <2>8. QED
    BY <1>4, <2>1, <2>4, <2>7
<1>8. ClientInv(c)'
  <2>1. Len(y.chan) <= y.room
    <3>1. Len(w) \in Nat /\ x.room \in Nat /\ Len(w) <= x.room
      BY <1>1 DEF ClientInv, Client
    <3>2. QED
      BY <1>2, <1>4, <3>1
  <2>2. x.room > 0 /\ (x.subscribed => s.known) /\ (x.key \notin pruned => Caught(y, s) /\ y.seen <= s.next)
    BY <1>1, <1>7 DEF ClientInv
  <2>3. states'[y.key] = s /\ pruned' = pruned
    BY <1>3, <1>4
  <2>4. QED
    BY <1>1, <1>4, <2>1, <2>2, <2>3 DEF ClientInv
<1>9. EventsInv'
  <2> HIDE DEF y
  <2>1. QED
    BY <1>3, <1>4, <1>8, Handling
<1>10. QED
  BY <1>5, <1>7, <1>9

LEMMA Leaving ==
    ASSUME EventsInv, NEW c \in Clients, Leave(c), UNCHANGED <<states, order, at, left, pruned>>
    PROVE  EventsInv' /\ \A d \in Clients : client'[d].seen = client[d].seen
<1> DEFINE x == client[c]
           y == [x EXCEPT !.on = FALSE, !.subscribed = FALSE, !.chan = <<>>, !.room = 0, !.told = FALSE]
<1>1. Types /\ x \in Client /\ ClientInv(c) /\ client' = [client EXCEPT ![c] = y]
  BY DEF EventsInv, Types, Leave
<1>2. <<>> \in Seq(Event) /\ Len(<<>>) = 0
  OBVIOUS
<1>3. /\ y \in Client /\ ~y.on /\ ~y.subscribed /\ y.chan = <<>> /\ y.room = 0
      /\ y.key = x.key /\ y.seen = x.seen
  BY <1>1, <1>2 DEF Client
<1> HIDE DEF y
<1>4. client'[c] = y /\ \A d \in Clients \ {c} : client'[d] = client[d]
  BY <1>1 DEF Types
<1>5. ClientInv(c)'
  BY <1>1, <1>2, <1>3, <1>4 DEF ClientInv
<1>6. EventsInv'
  BY <1>1, <1>3, <1>5, Handling
<1>7. QED
  BY <1>3, <1>4, <1>6

-----------------------------------------------------------------------------
(* The goroutine carrying a run.                                           *)

LEMMA KeysOfRuns ==
    ASSUME NEW r \in Runs
    PROVE  {Bare(r), QueuedKey(r), ResolvedKey(r)} \subseteq Keys
  BY DEF Bare, QueuedKey, ResolvedKey, Keys

LEMMA PublishingBare ==
    ASSUME EventsInv, NEW r \in Runs, NEW kind \in {"status", "progress", "verdict"}, PublishBare(r, kind)
    PROVE  EventsInv' /\ \A c \in Clients : client'[c].seen >= client[c].seen
<1> DEFINE k == Bare(r)
<1>1. Types /\ k \in Keys /\ k.run = r /\ k.form = "bare" /\ \A q \in Keys : q.run \in Runs
  BY KeysOfRuns DEF EventsInv, Bare, Keys
<1>2. at[r] \in {"queued", "executing"} /\ at' = [at EXCEPT ![r] = kind]
  BY DEF PublishBare
<1>3. at' \in [Runs -> Places] /\ at'[r] = kind /\ \A q \in Runs \ {r} : at'[q] = at[q]
  BY <1>1, <1>2 DEF Types, Places
<1>4. left' \in [Runs -> 0..MaxProgress]
  <2>1. CASE left' = left
    BY <1>1, <2>1 DEF Types
  <2>2. CASE left[r] > 0 /\ left' = [left EXCEPT ![r] = @ - 1]
    <3>1. left \in [Runs -> 0..MaxProgress] /\ MaxProgress \in Nat
      BY <1>1, RunEventsAssumption DEF Types
    <3>2. left[r] - 1 \in 0..MaxProgress
      BY <2>2, <3>1
    <3>3. QED
      BY <2>2, <3>1, <3>2
  <2>3. QED
    BY <2>1, <2>2 DEF PublishBare
<1>5. ~Ended(k) /\ (Ended(k)' <=> kind = "verdict")
  BY <1>1, <1>2, <1>3 DEF Ended
<1>6. \A q \in Keys \ {k} : q.run = r => q.form # "bare"
  BY DEF Keys, Bare
<1>7. ASSUME NEW q \in Keys
      PROVE  (Ended(q) => Ended(q)') /\ (q # k /\ Ended(q)' => Ended(q))
  <2>1. CASE q.run = r
    BY <1>1, <1>2, <1>3, <1>6, <2>1 DEF Ended
  <2>2. CASE q.run # r
    BY <1>1, <1>3, <2>2 DEF Ended
  <2>3. QED
    BY <2>1, <2>2
<1>8. NoNewEnd(k)
  BY <1>7 DEF NoNewEnd
<1>9. PICK last \in BOOLEAN : last <=> kind = "verdict"
  OBVIOUS
<1>10. Publish(k, last)
  <2>1. Publish(k, kind = "verdict")
    BY DEF PublishBare
  <2>2. (kind = "verdict") = last
    BY <1>9
  <2>3. QED
    BY <2>1, <2>2
<1> HIDE DEF k
<1>11. QED
  BY <1>1, <1>3, <1>4, <1>5, <1>8, <1>9, <1>10, Publishing

LEMMA PublishingComposite ==
    ASSUME EventsInv, NEW r \in Runs, PublishComposite(r)
    PROVE  EventsInv' /\ \A c \in Clients : client'[c].seen >= client[c].seen
<1> DEFINE k == IF at[r] = "verdict" THEN ResolvedKey(r) ELSE QueuedKey(r)
<1>1. PICK h : h = k
  OBVIOUS
<1>2. /\ Types /\ h \in Keys /\ h.run = r /\ h.form # "bare" /\ \A q \in Keys : q.run \in Runs
      /\ at[r] = "verdict" => h = ResolvedKey(r)
  BY <1>1, KeysOfRuns DEF EventsInv, ResolvedKey, QueuedKey, Keys
<1>3. PICK last \in BOOLEAN : last <=> at[r] = "verdict"
  OBVIOUS
<1>4. /\ at[r] \in {"status", "progress", "verdict"} /\ UNCHANGED left
      /\ at' = [at EXCEPT ![r] = IF last THEN "closing" ELSE "executing"]
  BY <1>3 DEF PublishComposite
<1>5. /\ at' \in [Runs -> Places] /\ \A q \in Runs \ {r} : at'[q] = at[q]
      /\ at'[r] = IF last THEN "closing" ELSE "executing"
      /\ left' \in [Runs -> 0..MaxProgress]
  BY <1>2, <1>4 DEF Types, Places
<1>6. ~Ended(h) /\ (Ended(h)' <=> last)
  <2>1. at[h.run] \in {"status", "progress", "verdict"} /\ at'[h.run] = IF last THEN "closing" ELSE "executing"
    BY <1>2, <1>4, <1>5
  <2>2. CASE last
    <3>1. at'[h.run] = "closing"
      BY <2>1, <2>2
    <3>2. QED
      BY <1>2, <2>1, <2>2, <3>1 DEF Ended
  <2>3. CASE ~last
    <3>1. at'[h.run] = "executing"
      BY <2>1, <2>3
    <3>2. QED
      BY <1>2, <2>1, <2>3, <3>1 DEF Ended
  <2>4. QED
    BY <2>2, <2>3
<1>7. ASSUME NEW q \in Keys
      PROVE  (Ended(q) => Ended(q)') /\ (q # h /\ Announced(q) /\ Ended(q)' => Ended(q))
  <2>1. CASE q.run = r
    <3>1. Ended(q) => at[r] = "verdict"
      BY <1>4, <2>1 DEF Ended
    <3>2. at[r] = "verdict" => Ended(q)'
      <4>1. at[r] = "verdict" => at'[q.run] = "closing"
        BY <1>3, <1>5, <2>1
      <4>2. QED
        BY <4>1 DEF Ended
    <3>3. ASSUME q # h, Announced(q), Ended(q)' PROVE Ended(q)
      <4>1. at[r] = "verdict"
        BY <1>3, <1>4, <1>5, <2>1, <3>3 DEF Ended
      <4>2. q = Bare(r)
        BY <1>2, <2>1, <3>3, <4>1 DEF Announced
      <4>3. QED
        BY <4>1, <4>2 DEF Ended, Bare
    <3>4. QED
      BY <3>1, <3>2, <3>3
  <2>2. CASE q.run # r
    BY <1>2, <1>5, <2>2 DEF Ended
  <2>3. QED
    BY <2>1, <2>2
<1>8. NoNewEnd(h)
  BY <1>7 DEF NoNewEnd
<1>9. Publish(h, last)
  <2>1. Publish(k, at[r] = "verdict")
    BY DEF PublishComposite
  <2>2. (at[r] = "verdict") = last
    BY <1>3
  <2> HIDE DEF k
  <2>3. QED
    BY <1>1, <2>1, <2>2
<1>10. QED
  BY <1>2, <1>5, <1>6, <1>8, <1>9, Publishing

LEMMA ClosingKeys ==
    ASSUME EventsInv, NEW r \in Runs, CloseComposite(r) \/ CloseBare(r)
    PROVE  EventsInv' /\ \A c \in Clients : client'[c].seen = client[c].seen
<1>1. PICK k \in {QueuedKey(r), Bare(r)}, place \in {"closingBare", "over"} :
         /\ CloseKey(k) /\ at[r] \in {"closing", "closingBare"} /\ at' = [at EXCEPT ![r] = place]
  BY DEF CloseComposite, CloseBare
<1>2. Types /\ k \in Keys /\ k.run = r /\ \A q \in Keys : q.run \in Runs
  BY KeysOfRuns DEF EventsInv, QueuedKey, Bare, Keys
<1>3. at' \in [Runs -> Places] /\ at'[r] = place /\ \A q \in Runs \ {r} : at'[q] = at[q]
  BY <1>1, <1>2 DEF Types, Places
<1>4. ASSUME NEW q \in Keys PROVE Ended(q)' <=> Ended(q)
  <2>1. CASE q.run = r
    BY <1>1, <1>3, <2>1 DEF Ended
  <2>2. CASE q.run # r
    BY <1>2, <1>3, <2>2 DEF Ended
  <2>3. QED
    BY <2>1, <2>2
<1>5. Ended(k)
  <2>1. at[k.run] \in {"closing", "closingBare"}
    BY <1>1, <1>2
  <2>2. QED
    BY <2>1 DEF Ended
<1>6. QED
  BY <1>1, <1>2, <1>3, <1>4, <1>5, Closing

-----------------------------------------------------------------------------
(* The theorems.                                                           *)

LEMMA EventsInit == ASSUME Init PROVE EventsInv
<1>1. /\ states = [k \in Keys |-> NoState] /\ order = <<>> /\ pruned = {}
      /\ at = [r \in Runs |-> "queued"] /\ left = [r \in Runs |-> MaxProgress]
  BY DEF Init
<1>2. PICK key \in [Clients -> UNION {{Bare(r), QueuedKey(r), ResolvedKey(r)} : r \in Runs}] :
         client = [c \in Clients |-> [on |-> FALSE, subscribed |-> FALSE, chan |-> <<>>, room |-> 0,
                                      told |-> FALSE, key |-> key[c], seen |-> 0, connects |-> 0]]
  BY DEF Init
<1>3. \A c \in Clients : key[c] \in Addresses /\ key[c] \in Keys
  BY KeysOfRuns DEF Addresses
<1>4. <<>> \in Seq(Event) /\ <<>> \in Seq(Keys) /\ DOMAIN <<>> = {} /\ Len(<<>>) = 0
  OBVIOUS
<1>5. /\ NoState \in State /\ ~NoState.known /\ NoState.replay = <<>> /\ NoState.next = 0
      /\ NoState.verdict = 0 /\ ~NoState.terminal
  BY <1>4 DEF NoState, State
<1>6. \A c \in Clients : /\ client[c] \in Client /\ client[c].key \in Keys
                         /\ client[c].key \in Addresses
                         /\ ~client[c].on /\ ~client[c].subscribed /\ client[c].chan = <<>>
                         /\ client[c].room = 0 /\ client[c].seen = 0
  BY <1>2, <1>3, <1>4 DEF Client
<1>7. client \in [Clients -> Client]
  <2>1. client = [c \in Clients |-> client[c]]
    BY <1>2
  <2>2. QED
    BY <1>6, <2>1
<1>8. Types
  <2>1. MaxProgress \in 0..MaxProgress
    BY RunEventsAssumption
  <2>2. QED
    BY <1>1, <1>4, <1>5, <1>7, <2>1 DEF Types, Places
<1>9. OrderInv
  BY <1>1, <1>4, <1>5 DEF OrderInv, Known
<1>10. ASSUME NEW k \in Keys PROVE StateInv(k)
  <2>1. states[k] = NoState /\ ReplayLimit \in Nat /\ k.run \in Runs
    BY <1>1, RunEventsAssumption DEF Keys
  <2>2. ~Ended(k)
    BY <1>1, <2>1 DEF Ended
  <2>3. Newest(<<>>, 0, 0)
    BY DEF Newest
  <2>4. QED
    BY <1>1, <1>4, <1>5, <2>1, <2>2, <2>3 DEF StateInv
<1>11. ASSUME NEW c \in Clients PROVE ClientInv(c)
  <2>1. states[client[c].key] = NoState
    BY <1>1, <1>6
  <2>2. QED
    BY <1>4, <1>5, <1>6, <2>1 DEF ClientInv
<1>12. QED
  BY <1>8, <1>9, <1>10, <1>11 DEF EventsInv

\* No step but the opening of a new state under a forgotten key takes a client back.
Forward == \A c \in Clients : client[c].key \notin pruned => client'[c].seen >= client[c].seen

LEMMA EventsStep == ASSUME EventsInv, [Next]_vars PROVE EventsInv' /\ Forward
<1>1. \A c \in Clients : client[c] \in Client /\ client[c].seen \in Nat
  BY DEF EventsInv, Types, Client
<1>2. ASSUME NEW r \in Runs, Carry(r) PROVE EventsInv' /\ Forward
  <2>1. ASSUME NEW kind \in {"status", "progress", "verdict"}, PublishBare(r, kind)
        PROVE  EventsInv' /\ Forward
    BY <2>1, PublishingBare DEF Forward
  <2>2. CASE PublishComposite(r)
    BY <2>2, PublishingComposite DEF Forward
  <2>3. CASE CloseComposite(r) \/ CloseBare(r)
    <3>1. EventsInv' /\ \A c \in Clients : client'[c].seen = client[c].seen
      BY <2>3, ClosingKeys
    <3>2. QED
      BY <1>1, <3>1 DEF Forward
  <2>4. QED
    BY <1>2, <2>1, <2>2, <2>3 DEF Carry
<1>3. ASSUME NEW c \in Clients, Serve(c) \/ Subscribe(c) \/ Disconnect(c) PROVE EventsInv' /\ Forward
  <2>1. CASE Receive(c)
    <3>1. /\ EventsInv'
          /\ client[c].key \notin pruned => client'[c].seen >= client[c].seen
          /\ \A d \in Clients \ {c} : client'[d] = client[d]
      BY <2>1, Receiving
    <3>2. \A d \in Clients \ {c} : client'[d].seen >= client[d].seen
      BY <1>1, <3>1
    <3>3. QED
      BY <3>1, <3>2 DEF Forward
  <2>2. CASE Finish(c) \/ Disconnect(c)
    <3>1. Leave(c) /\ UNCHANGED <<states, order, at, left, pruned>>
      BY <2>2 DEF Finish, Disconnect
    <3>2. EventsInv' /\ \A d \in Clients : client'[d].seen = client[d].seen
      BY <3>1, Leaving
    <3>3. QED
      BY <1>1, <3>2 DEF Forward
  <2>3. CASE Subscribe(c)
    <3>1. EventsInv' /\ \A d \in Clients : client'[d].seen = client[d].seen
      BY <2>3, Subscribing
    <3>2. QED
      BY <1>1, <3>1 DEF Forward
  <2>4. QED
    BY <1>3, <2>1, <2>2, <2>3 DEF Serve
<1>4. CASE UNCHANGED vars
  <2>1. UNCHANGED <<states, order, at, left, client, pruned>>
    BY <1>4 DEF vars
  <2>2. Types' /\ OrderInv'
    BY <2>1 DEF EventsInv, Types, OrderInv, Known
  <2>3. \A k \in Keys : StateInv(k)'
    BY <2>1 DEF EventsInv, StateInv, Ended
  <2>4. \A c \in Clients : ClientInv(c)'
    BY <2>1 DEF EventsInv, ClientInv
  <2>5. Forward
    BY <1>1, <2>1 DEF Forward
  <2>6. QED
    BY <2>2, <2>3, <2>4, <2>5 DEF EventsInv
<1>5. QED
  BY <1>2, <1>3, <1>4 DEF Next

LEMMA EventsInvariance == Spec => []EventsInv
<1>1. EventsInv /\ [Next]_vars => EventsInv'
  BY EventsStep
<1>2. QED
  BY <1>1, EventsInit, PTL DEF Spec

\* Every variable of the bus and of its clients keeps its type, channels their
\* capacity and the replay its limit, and the order lists each state once.
THEOREM EventsTypeCorrect == Spec => []TypeOK
<1>1. ASSUME EventsInv PROVE TypeOK
  <2>1. Types /\ OrderInv
    BY <1>1 DEF EventsInv
  <2>2. ASSUME NEW k \in Keys
        PROVE  /\ {states[k].known, states[k].terminal} \subseteq BOOLEAN
               /\ states[k].next \in Nat /\ states[k].verdict \in 0..states[k].next
               /\ ToSet(states[k].replay) \subseteq Event
               /\ Len(states[k].replay) <= ReplayLimit
    <3>1. states[k] \in State /\ StateInv(k)
      BY <1>1, <2>1 DEF EventsInv, Types
    <3>2. states[k].next \in Nat /\ states[k].verdict \in {0, states[k].next} /\ states[k].replay \in Seq(Event)
      BY <3>1 DEF State, StateInv
    <3>3. ToSet(states[k].replay) \subseteq Event
      BY <3>2 DEF ToSet
    <3>4. states[k].known \in BOOLEAN /\ states[k].terminal \in BOOLEAN
      BY <3>1 DEF State
    <3>5. QED
      BY <3>1, <3>2, <3>3, <3>4 DEF StateInv
  <2>3. ToSet(order) = Known /\ Len(order) = Cardinality(Known)
    <3>1. order \in Seq(Keys) /\ Len(order) \in Nat /\ DOMAIN order = 1..Len(order)
      BY <2>1 DEF Types
    <3>2. ToSet(order) = Known
      BY <2>1 DEF ToSet, OrderInv
    <3>3. order \in [1..Len(order) -> Known]
      <4>1. order \in [1..Len(order) -> Keys]
        BY <3>1
      <4>2. QED
        BY <2>1, <3>1, <4>1 DEF OrderInv
    <3>4. order \in Surjection(1..Len(order), Known)
      BY <2>1, <3>1, <3>3 DEF Surjection, OrderInv
    <3>5. order \in Injection(1..Len(order), Known)
      BY <2>1, <3>1, <3>3 DEF Injection, IsInjective, OrderInv
    <3>6. IsFiniteSet(1..Len(order)) /\ Cardinality(1..Len(order)) = Len(order)
      BY <3>1, FS_Interval
    <3>7. QED
      BY <3>2, <3>4, <3>5, <3>6, FS_Surjection
  <2>4. ASSUME NEW c \in Clients
        PROVE  /\ ToSet(client[c].chan) \subseteq Event
               /\ Len(client[c].chan) <= client[c].room
               /\ client[c].key \in Keys /\ client[c].seen \in Nat
    <3>1. client[c] \in Client /\ ClientInv(c)
      BY <1>1, <2>1 DEF EventsInv, Types
    <3>2. client[c].chan \in Seq(Event) /\ client[c].key \in Keys /\ client[c].seen \in Nat
      BY <3>1 DEF Client
    <3>3. ToSet(client[c].chan) \subseteq Event
      BY <3>2 DEF ToSet
    <3>4. QED
      BY <3>1, <3>2, <3>3 DEF ClientInv
  <2>5. QED
    BY <2>1, <2>2, <2>3, <2>4 DEF TypeOK, Types, Places
<1>2. QED
  BY <1>1, EventsInvariance, PTL

\* A subscriber's channel holds the newest stretch of its key's events without
\* a hole, however often it overflowed (enqueueRunEvent drops the oldest).
THEOREM ChannelsHoldTheNewest == Spec => []NewestPending
<1>1. ASSUME EventsInv, NEW c \in Clients, client[c].subscribed, client[c].key \notin pruned
      PROVE  LET chan == client[c].chan
                 next == states[client[c].key].next
             IN  /\ \A i \in DOMAIN chan : chan[i].id = next - Len(chan) + i
                 /\ chan = <<>> => client[c].seen = next
  BY <1>1 DEF EventsInv, ClientInv, Caught, Newest
<1>2. EventsInv => NewestPending
  BY <1>1 DEF NewestPending
<1>3. QED
  BY <1>2, EventsInvariance, PTL

\* Nothing a client is given is older than what it was given before, on one
\* connection or across its returns with the Last-Event-ID it holds.
THEOREM ClientsNeverGoBack == Spec => NeverBackwards
<1>1. EventsInv /\ [Next]_vars =>
        [\A c \in Clients : client[c].key \notin pruned => client'[c].seen >= client[c].seen]_vars
  BY EventsStep DEF Forward
<1>2. QED
  BY <1>1, EventsInvariance, PTL DEF Spec, NeverBackwards

\* A stream the server ends under a key that the verdict is published under
\* has told its client how the run ended, unless the bus gave up the state of
\* the key.
AnnouncedVerdicts ==
    \A c \in Clients :
        Announced(client[c].key) /\ client[c].on /\ ~client[c].subscribed /\ client[c].chan = <<>>
            => client[c].told \/ client[c].key \in pruned

LEMMA EventsTold == EventsInv => AnnouncedVerdicts
<1>1. ASSUME EventsInv, NEW c \in Clients, Announced(client[c].key),
             client[c].on, ~client[c].subscribed, client[c].chan = <<>>, client[c].key \notin pruned
      PROVE  client[c].told
  <2>1. client[c].key \in Keys
    BY <1>1 DEF EventsInv, Types, Client
  <2>2. Caught(client[c], states[client[c].key]) /\ StateInv(client[c].key)
    BY <1>1, <2>1 DEF EventsInv, ClientInv
  <2>3. states[client[c].key].verdict # 0
    BY <1>1, <2>2 DEF Caught, StateInv
  <2>4. QED
    BY <1>1, <2>2, <2>3 DEF Caught
<1>2. QED
  BY <1>1 DEF AnnouncedVerdicts

\* So it is for every stream under a bare key or under the identity the engine
\* resolved, whatever the run was queued with (publishQueueRunEvent).
THEOREM AnnouncedStreamsEndWithVerdict == Spec => []AnnouncedVerdicts
  BY EventsTold, EventsInvariance, PTL

\* When every run is queued with its instance, the composite key fixed at the
\* start is the one the verdict goes to, and every stream the server ends has
\* told its client how the run ended.  (Of a run queued without one, a stream
\* under the key it was queued with need not have: the run events_unnamed.)
THEOREM NamedStreamsEndWithVerdict == ASSUME Unnamed = {} PROVE Spec => []EndsWithVerdict
<1>1. \A k \in Addresses : Announced(k)
  <2>1. ASSUME NEW r \in Runs
        PROVE  Announced(Bare(r)) /\ Announced(QueuedKey(r)) /\ ResolvedKey(r) = QueuedKey(r)
    BY DEF Announced, Bare, QueuedKey, ResolvedKey
  <2>2. QED
    BY <2>1 DEF Addresses
<1>2. EventsInv => EndsWithVerdict
  BY <1>1, EventsTold DEF EventsInv, ClientInv, AnnouncedVerdicts, EndsWithVerdict
<1>3. QED
  BY <1>2, EventsInvariance, PTL
=============================================================================
