--------------------------- MODULE RunSlots_proofs ---------------------------
(***************************************************************************)
(* Theorems about admission, for every set of callers, every limits and    *)
(* any number of edits.  Where a caller stands says which of its three     *)
(* variables name a channel; with that, each step moves the balance of one *)
(* channel only.                                                           *)
(***************************************************************************)
EXTENDS RunSlots, FiniteSetTheorems, TLAPS

\* What a caller's variables name, by its place.
Names(r) ==
    /\ pc[r] \in Places
    /\ ref[r] \in IF pc[r] \in {"engineRef", "instanceRef"} THEN Pools ELSE {NoPool}
    /\ engineSlot[r] \in IF pc[r] \in {"idle", "resolved", "engineRef"} THEN {NoPool} ELSE Pools
    /\ instanceSlot[r] \in IF pc[r] = "running" THEN Pools \cup {NoPool} ELSE {NoPool}

Types ==
    /\ pc \in [Runs -> Places]
    /\ ref \in [Runs -> Pools \cup {NoPool}]
    /\ engineSlot \in [Runs -> Pools \cup {NoPool}]
    /\ instanceSlot \in [Runs -> Pools \cup {NoPool}]
    /\ current \in Pools \cup {NoPool}
    /\ cap \in [Pools -> Nat] /\ used \in [Pools -> Nat]
    /\ config \in Limits /\ want \in [Runs -> Limits \cup {NoLimits}]
    /\ edits \in 0..MaxEdits
    /\ \A r \in Runs : Names(r)

SlotsInv == Types /\ SlotsBalanced

\* A caller holds one limit for both channels or has read none.
LEMMA WantsNat ==
    ASSUME Types, NEW r \in Runs
    PROVE  /\ want[r].engine \in Nat /\ want[r].instance \in Nat
           /\ Effective(want[r].engine) \in Nat \ {0} /\ Effective(want[r].instance) \in Nat \ {0}
<1>1. want[r] \in Limits \/ want[r] = NoLimits
  BY DEF Types
<1>2. want[r].engine \in Nat /\ want[r].instance \in Nat
  <2>1. CASE want[r] \in Limits
    BY <2>1, PoolsAssumption DEF Limits
  <2>2. CASE want[r] = NoLimits
    BY <2>2 DEF NoLimits
  <2>3. QED
    BY <1>1, <2>1, <2>2
<1>3. \A n \in Nat : Effective(n) \in Nat \ {0}
  BY DEF Effective
<1>4. QED
  BY <1>2, <1>3

-----------------------------------------------------------------------------
(* Counting holders.                                                       *)

LEMMA HoldersFinite ==
    ASSUME NEW s, NEW p
    PROVE  IsFiniteSet(Holders(s, p)) /\ Cardinality(Holders(s, p)) \in Nat
  BY PoolsAssumption, FS_Subset, FS_CardinalityType DEF Holders

\* Between s and t, caller r comes to hold p and nothing else changes.
Gains(s, t, r, p) == s[r] = NoPool /\ t[r] = p /\ \A q \in Runs \ {r} : t[q] = s[q]

LEMMA HolderComes ==
    ASSUME NEW s, NEW t, NEW r \in Runs, NEW p \in Pools, Gains(s, t, r, p)
    PROVE  /\ Cardinality(Holders(t, p)) = Cardinality(Holders(s, p)) + 1
           /\ \A q \in Pools \ {p} : Holders(t, q) = Holders(s, q)
<1>1. Holders(t, p) = Holders(s, p) \cup {r} /\ r \notin Holders(s, p)
  BY PoolsAssumption DEF Holders, Gains
<1>2. \A q \in Pools \ {p} : Holders(t, q) = Holders(s, q)
  BY PoolsAssumption DEF Holders, Gains
<1>3. QED
  BY <1>1, <1>2, HoldersFinite, FS_AddElement

\* The slots of a channel that the callers hold.
Count(e, i, p) == Cardinality(Holders(e, p)) + Cardinality(Holders(i, p))

LEMMA CountNat == ASSUME NEW e, NEW i, NEW p PROVE Count(e, i, p) \in Nat
<1>1. Cardinality(Holders(e, p)) \in Nat /\ Cardinality(Holders(i, p)) \in Nat
  BY HoldersFinite
<1>2. QED
  BY <1>1 DEF Count

LEMMA CountMoves ==
    ASSUME NEW s, NEW t, NEW i, NEW r \in Runs, NEW p \in Pools, Gains(s, t, r, p)
    PROVE  /\ Count(t, i, p) = Count(s, i, p) + 1 /\ Count(i, t, p) = Count(i, s, p) + 1
           /\ \A q \in Pools \ {p} : Count(t, i, q) = Count(s, i, q) /\ Count(i, t, q) = Count(i, s, q)
<1>1. /\ Cardinality(Holders(t, p)) = Cardinality(Holders(s, p)) + 1
      /\ \A q \in Pools \ {p} : Holders(t, q) = Holders(s, q)
  BY HolderComes
<1>2. Cardinality(Holders(s, p)) \in Nat /\ Cardinality(Holders(i, p)) \in Nat
  BY HoldersFinite
<1>3. \A q \in Pools \ {p} : Count(t, i, q) = Count(s, i, q) /\ Count(i, t, q) = Count(i, s, q)
  BY <1>1 DEF Count
<1>4. Count(t, i, p) = Count(s, i, p) + 1 /\ Count(i, t, p) = Count(i, s, p) + 1
  BY <1>1, <1>2 DEF Count
<1>5. QED
  BY <1>3, <1>4

\* Some channel is out of everyone's reach.
LEMMA NamedFew ==
    ASSUME NEW s, DOMAIN s = Runs
    PROVE  LET N == {s[r] : r \in Runs} IN IsFiniteSet(N) /\ Cardinality(N) <= Cardinality(Runs)
<1> DEFINE N == {s[r] : r \in Runs}
           f == [r \in Runs |-> s[r]]
<1>1. f \in [Runs -> N] /\ \A x \in N : \E r \in Runs : f[r] = x
  OBVIOUS
<1> HIDE DEF f, N
<1>2. f \in Surjection(Runs, N)
  BY <1>1 DEF Surjection
<1>3. QED
  BY <1>2, PoolsAssumption, FS_Surjection DEF N

LEMMA FreshPool ==
    ASSUME Types
    PROVE  \E p \in Pools : p \notin Reachable
<1> DEFINE A == {ref[r] : r \in Runs}
           B == {engineSlot[r] : r \in Runs}
           C == {instanceSlot[r] : r \in Runs}
           n == Cardinality(Runs)
<1>1. /\ IsFiniteSet(A) /\ Cardinality(A) <= n
      /\ IsFiniteSet(B) /\ Cardinality(B) <= n
      /\ IsFiniteSet(C) /\ Cardinality(C) <= n
  BY NamedFew DEF Types
<1>2. n \in Nat
  BY PoolsAssumption, FS_CardinalityType
<1>3. Reachable = (((A \cup B) \cup C) \cup {current})
  BY DEF Reachable
<1> HIDE DEF A, B, C, n
<1>4. IsFiniteSet(A \cup B) /\ Cardinality(A \cup B) <= 2 * n
  <2>1. IsFiniteSet(A \cap B) /\ Cardinality(A \cap B) \in Nat
    BY <1>1, FS_Subset, FS_CardinalityType
  <2>2. Cardinality(A) \in Nat /\ Cardinality(B) \in Nat
    BY <1>1, FS_CardinalityType
  <2>3. QED
    <3>1. /\ IsFiniteSet(A \cup B)
          /\ Cardinality(A \cup B) = Cardinality(A) + Cardinality(B) - Cardinality(A \cap B)
      BY <1>1, FS_Union
    <3>2. QED
      BY <1>1, <1>2, <2>1, <2>2, <3>1
<1>5. IsFiniteSet((A \cup B) \cup C) /\ Cardinality((A \cup B) \cup C) <= 3 * n
  <2>1. IsFiniteSet((A \cup B) \cap C) /\ Cardinality((A \cup B) \cap C) \in Nat
    BY <1>4, FS_Subset, FS_CardinalityType
  <2>2. Cardinality(A \cup B) \in Nat /\ Cardinality(C) \in Nat
    BY <1>1, <1>4, FS_CardinalityType
  <2>3. QED
    <3>1. /\ IsFiniteSet((A \cup B) \cup C)
          /\ Cardinality((A \cup B) \cup C) = Cardinality(A \cup B) + Cardinality(C) - Cardinality((A \cup B) \cap C)
      BY <1>1, <1>4, FS_Union
    <3>2. QED
      BY <1>1, <1>2, <1>4, <2>1, <2>2, <3>1
<1>6. IsFiniteSet(Reachable) /\ Cardinality(Reachable) <= 3 * n + 1
  <2>1. Cardinality((A \cup B) \cup C) \in Nat
    BY <1>5, FS_CardinalityType
  <2>2. QED
    BY <1>2, <1>3, <1>5, <2>1, FS_AddElement
<1>7. ~(Pools \subseteq Reachable)
  <2>1. SUFFICES ASSUME Pools \subseteq Reachable PROVE FALSE
    OBVIOUS
  <2>2. Cardinality(Pools) <= Cardinality(Reachable)
    BY <1>6, <2>1, FS_Subset
  <2>3. Cardinality(Pools) \in Nat /\ Cardinality(Reachable) \in Nat
    BY <1>6, PoolsAssumption, FS_CardinalityType
  <2>4. QED
    BY <1>2, <1>6, <2>2, <2>3, PoolsAssumption DEF n
<1>8. QED
  BY <1>7

-----------------------------------------------------------------------------
(* The steps.                                                              *)

\* What a look-up finds is empty and new, or the channel it was.
LEMMA LookUpKeeps ==
    ASSUME SlotsInv, NEW r \in Runs, NEW limit \in Nat \ {0}, LookUp(r, limit),
           UNCHANGED <<engineSlot, instanceSlot>>
    PROVE  /\ current' \in Pools /\ ref' = [ref EXCEPT ![r] = current']
           /\ cap' \in [Pools -> Nat] /\ used' \in [Pools -> Nat]
           /\ SlotsBalanced'
<1> USE DEF SlotsInv, Types
<1>1. CASE current = NoPool \/ (cap[current] # limit /\ used[current] = 0)
  <2> DEFINE p == CHOOSE x \in Pools : x \notin Reachable
  <2>1. p \in Pools /\ p \notin Reachable
    BY FreshPool
  <2>2. /\ current' = p /\ ref' = [ref EXCEPT ![r] = p]
        /\ cap' = [q \in Pools |-> IF q = p THEN limit ELSE IF q \in Reachable THEN cap[q] ELSE 0]
        /\ used' = [used EXCEPT ![p] = 0]
    BY <1>1 DEF LookUp
  <2> HIDE DEF p
  <2>3. Reachable' \subseteq Reachable \cup {p}
    BY <2>2 DEF Reachable
  <2>4. Holders(engineSlot, p) = {} /\ Holders(instanceSlot, p) = {}
    BY <2>1 DEF Reachable, Holders
  <2>5. ASSUME NEW q \in Pools, q \in Reachable'
        PROVE  /\ used'[q] = Cardinality(Holders(engineSlot, q)) + Cardinality(Holders(instanceSlot, q))
               /\ used'[q] <= cap'[q]
    <3>1. CASE q = p
      <4>1. used'[q] = 0 /\ cap'[q] = limit
        BY <2>2, <3>1
      <4>2. Cardinality(Holders(engineSlot, q)) = 0 /\ Cardinality(Holders(instanceSlot, q)) = 0
        BY <2>4, <3>1, FS_EmptySet
      <4>3. QED
        BY <4>1, <4>2
    <3>2. CASE q # p
      BY <2>2, <2>3, <2>5, <3>2 DEF SlotsBalanced
    <3>3. QED
      BY <3>1, <3>2
  <2>6. SlotsBalanced'
    BY <2>5 DEF SlotsBalanced, Holders
  <2>7. QED
    BY <2>1, <2>2, <2>6
<1>2. CASE ~(current = NoPool \/ (cap[current] # limit /\ used[current] = 0))
  <2>1. ref' = [ref EXCEPT ![r] = current] /\ UNCHANGED poolVars
    BY <1>2 DEF LookUp
  <2>2. Reachable' \subseteq Reachable
    BY <2>1 DEF Reachable, poolVars
  <2>3. SlotsBalanced'
    BY <2>1, <2>2 DEF SlotsBalanced, Holders, poolVars
  <2>4. QED
    BY <1>2, <2>1, <2>3 DEF poolVars
<1>3. QED
  BY <1>1, <1>2

\* A send and a receive move the count of one channel with its holders.
LEMMA SendKeeps ==
    ASSUME SlotsInv, NEW r \in Runs, NEW p \in Pools, ref[r] = p, UNCHANGED <<current, cap>>,
           ref' = [ref EXCEPT ![r] = NoPool], HasRoom(p), used' = [used EXCEPT ![p] = @ + 1],
           \/ Gains(engineSlot, engineSlot', r, p) /\ UNCHANGED instanceSlot
           \/ Gains(instanceSlot, instanceSlot', r, p) /\ UNCHANGED engineSlot
    PROVE  SlotsBalanced' /\ used' \in [Pools -> Nat]
<1>0. /\ DOMAIN engineSlot = Runs /\ DOMAIN instanceSlot = Runs /\ DOMAIN ref = Runs
      /\ used \in [Pools -> Nat] /\ cap \in [Pools -> Nat] /\ SlotsBalanced
  BY DEF SlotsInv, Types
<1>1. p \in Reachable /\ \A q \in Pools : q \in Reachable' => q \in Reachable
  BY <1>0, PoolsAssumption DEF Reachable, Gains
<1>2. \A q \in Pools : Count(engineSlot', instanceSlot', q)
                         = IF q = p THEN Count(engineSlot, instanceSlot, q) + 1
                                    ELSE Count(engineSlot, instanceSlot, q)
  <2>1. CASE Gains(engineSlot, engineSlot', r, p) /\ UNCHANGED instanceSlot
    <3>1. /\ Count(engineSlot', instanceSlot, p) = Count(engineSlot, instanceSlot, p) + 1
          /\ \A q \in Pools \ {p} : Count(engineSlot', instanceSlot, q) = Count(engineSlot, instanceSlot, q)
      BY <2>1, CountMoves
    <3>2. QED
      BY <2>1, <3>1
  <2>2. CASE Gains(instanceSlot, instanceSlot', r, p) /\ UNCHANGED engineSlot
    <3>1. /\ Count(engineSlot, instanceSlot', p) = Count(engineSlot, instanceSlot, p) + 1
          /\ \A q \in Pools \ {p} : Count(engineSlot, instanceSlot', q) = Count(engineSlot, instanceSlot, q)
      BY <2>2, CountMoves
    <3>2. QED
      BY <2>2, <3>1
  <2>3. QED
    BY <2>1, <2>2
<1>3. \A q \in Pools : q \in Reachable =>
                         used[q] = Count(engineSlot, instanceSlot, q) /\ used[q] <= cap[q]
  BY <1>0 DEF SlotsBalanced, Count
<1>4. \A q \in Pools : q \in Reachable' =>
                         used'[q] = Count(engineSlot', instanceSlot', q) /\ used'[q] <= cap'[q]
  BY <1>0, <1>1, <1>2, <1>3 DEF HasRoom
<1>5. SlotsBalanced'
  BY <1>4 DEF SlotsBalanced, Count
<1>6. QED
  BY <1>0, <1>5

LEMMA ReceiveKeeps ==
    ASSUME SlotsInv, NEW r \in Runs, NEW p \in Pools, UNCHANGED <<current, cap, ref>>,
           used' = [used EXCEPT ![p] = @ - 1],
           \/ Gains(engineSlot', engineSlot, r, p) /\ UNCHANGED instanceSlot
           \/ Gains(instanceSlot', instanceSlot, r, p) /\ UNCHANGED engineSlot
    PROVE  SlotsBalanced' /\ used' \in [Pools -> Nat]
<1>0. /\ DOMAIN engineSlot = Runs /\ DOMAIN instanceSlot = Runs /\ DOMAIN ref = Runs
      /\ used \in [Pools -> Nat] /\ cap \in [Pools -> Nat] /\ SlotsBalanced
  BY DEF SlotsInv, Types
<1>1. p \in Reachable /\ \A q \in Pools : q \in Reachable' => q \in Reachable
  BY <1>0, PoolsAssumption DEF Reachable, Gains
<1>2. \A q \in Pools : Count(engineSlot, instanceSlot, q)
                         = IF q = p THEN Count(engineSlot', instanceSlot', q) + 1
                                    ELSE Count(engineSlot', instanceSlot', q)
  <2>1. CASE Gains(engineSlot', engineSlot, r, p) /\ UNCHANGED instanceSlot
    <3>1. /\ Count(engineSlot, instanceSlot, p) = Count(engineSlot', instanceSlot, p) + 1
          /\ \A q \in Pools \ {p} : Count(engineSlot, instanceSlot, q) = Count(engineSlot', instanceSlot, q)
      BY <2>1, CountMoves
    <3>2. QED
      BY <2>1, <3>1
  <2>2. CASE Gains(instanceSlot', instanceSlot, r, p) /\ UNCHANGED engineSlot
    <3>1. /\ Count(engineSlot, instanceSlot, p) = Count(engineSlot, instanceSlot', p) + 1
          /\ \A q \in Pools \ {p} : Count(engineSlot, instanceSlot, q) = Count(engineSlot, instanceSlot', q)
      BY <2>2, CountMoves
    <3>2. QED
      BY <2>2, <3>1
  <2>3. QED
    BY <2>1, <2>2
<1>3. \A q \in Pools : q \in Reachable =>
                         used[q] = Count(engineSlot, instanceSlot, q) /\ used[q] <= cap[q]
  BY <1>0 DEF SlotsBalanced, Count
<1>4. \A q \in Pools : q \in Reachable' =>
                         used'[q] = Count(engineSlot', instanceSlot', q) /\ used'[q] <= cap'[q]
  BY <1>0, <1>1, <1>2, <1>3, CountNat
<1>5. SlotsBalanced'
  BY <1>4 DEF SlotsBalanced, Count
<1>6. QED
  BY <1>0, <1>1, <1>2, <1>3, <1>5, CountNat

-----------------------------------------------------------------------------
(* Each step keeps the invariant.                                          *)

\* The other callers stand where they stood and name what they named.
LEMMA NamesKept ==
    ASSUME Types, NEW r \in Runs, NEW place,
           pc' = [pc EXCEPT ![r] = place], Names(r)',
           \A q \in Runs \ {r} : /\ ref'[q] = ref[q] /\ engineSlot'[q] = engineSlot[q]
                                 /\ instanceSlot'[q] = instanceSlot[q]
    PROVE  pc' \in [Runs -> Places] /\ \A q \in Runs : Names(q)'
<1>1. pc'[r] = place /\ \A q \in Runs \ {r} : pc'[q] = pc[q]
  BY DEF Types
<1>2. \A q \in Runs \ {r} : Names(q)'
  BY <1>1 DEF Types, Names
<1>3. pc' \in [Runs -> Places]
  BY <1>1 DEF Types, Names
<1>4. QED
  BY <1>2, <1>3

LEMMA ResolveKeeps == ASSUME SlotsInv, NEW r \in Runs, Resolve(r) PROVE SlotsInv'
<1>1. /\ pc[r] = "idle" /\ pc' = [pc EXCEPT ![r] = "resolved"]
      /\ want' = [want EXCEPT ![r] = config]
      /\ UNCHANGED <<config, current, cap, used, ref, engineSlot, instanceSlot, edits>>
  BY DEF Resolve, Goto, poolVars
<1>2. pc'[r] = "resolved" /\ Names(r)
  BY <1>1 DEF SlotsInv, Types
<1>3. Names(r)'
  BY <1>1, <1>2 DEF Names, Places
<1>4. pc' \in [Runs -> Places] /\ \A q \in Runs : Names(q)'
  BY <1>1, <1>3, NamesKept DEF SlotsInv
<1>5. SlotsBalanced'
  BY <1>1 DEF SlotsInv, SlotsBalanced, Reachable, Holders
<1>6. want' \in [Runs -> Limits \cup {NoLimits}]
  BY <1>1 DEF SlotsInv, Types
<1>7. QED
  BY <1>1, <1>4, <1>5, <1>6 DEF SlotsInv, Types

LEMMA LookUpsKeep ==
    ASSUME SlotsInv, NEW r \in Runs, LookUpEngine(r) \/ LookUpInstance(r)
    PROVE  SlotsInv'
<1>1. UNCHANGED <<want, engineSlot, instanceSlot, config, edits>>
  BY DEF LookUpEngine, LookUpInstance
<1>2. PICK limit \in Nat \ {0} : LookUp(r, limit)
  BY WantsNat DEF SlotsInv, LookUpEngine, LookUpInstance
<1>3. /\ current' \in Pools /\ ref' = [ref EXCEPT ![r] = current']
      /\ cap' \in [Pools -> Nat] /\ used' \in [Pools -> Nat] /\ SlotsBalanced'
  BY <1>1, <1>2, LookUpKeeps
<1>4. \/ pc[r] = "resolved" /\ pc' = [pc EXCEPT ![r] = "engineRef"]
      \/ pc[r] = "engineHeld" /\ pc' = [pc EXCEPT ![r] = "instanceRef"]
  BY DEF LookUpEngine, LookUpInstance, Goto
<1>5. Names(r) /\ ref'[r] = current' /\ \A q \in Runs \ {r} : ref'[q] = ref[q]
  BY <1>3 DEF SlotsInv, Types
<1>6. Names(r)'
  BY <1>1, <1>3, <1>4, <1>5 DEF SlotsInv, Types, Names, Places
<1>7. pc' \in [Runs -> Places] /\ \A q \in Runs : Names(q)'
  BY <1>1, <1>4, <1>5, <1>6, NamesKept DEF SlotsInv
<1>8. ref' \in [Runs -> Pools \cup {NoPool}]
  BY <1>3 DEF SlotsInv, Types
<1>9. QED
  BY <1>1, <1>3, <1>7, <1>8 DEF SlotsInv, Types

LEMMA TakesKeep ==
    ASSUME SlotsInv, NEW r \in Runs, TakeEngine(r) \/ TakeInstance(r)
    PROVE  SlotsInv'
<1> DEFINE p == ref[r]
<1>1. /\ pc[r] \in {"engineRef", "instanceRef"} /\ UNCHANGED <<current, cap, config, edits>>
      /\ ref' = [ref EXCEPT ![r] = NoPool]
  BY DEF TakeEngine, TakeInstance, Take
<1>2. Names(r) /\ p \in Pools
  BY <1>1 DEF SlotsInv, Types, Names
<1>3. /\ ref' \in [Runs -> Pools \cup {NoPool}] /\ ref'[r] = NoPool
      /\ \A q \in Runs \ {r} : ref'[q] = ref[q]
  BY <1>1 DEF SlotsInv, Types
<1>4. want' \in [Runs -> Limits \cup {NoLimits}]
  BY DEF TakeEngine, TakeInstance, SlotsInv, Types
<1>5. CASE ~HasRoom(p)
  <2>1. /\ UNCHANGED <<used, engineSlot, instanceSlot>>
        /\ \/ pc[r] = "engineRef" /\ pc' = [pc EXCEPT ![r] = "idle"]
           \/ pc[r] = "instanceRef" /\ pc' = [pc EXCEPT ![r] = "leaving"]
    BY <1>5 DEF TakeEngine, TakeInstance, Take
  <2>2. \A q \in Pools : q \in Reachable' => q \in Reachable
    BY <1>1, <1>3, <2>1, PoolsAssumption DEF Reachable
  <2>3. SlotsBalanced'
    BY <1>1, <2>1, <2>2 DEF SlotsInv, SlotsBalanced, Holders
  <2>4. Names(r)'
    BY <1>2, <1>3, <2>1 DEF SlotsInv, Types, Names, Places
  <2>5. pc' \in [Runs -> Places] /\ \A q \in Runs : Names(q)'
    BY <1>3, <2>1, <2>4, NamesKept DEF SlotsInv
  <2>6. QED
    BY <1>1, <1>3, <1>4, <2>1, <2>3, <2>5 DEF SlotsInv, Types
<1>6. CASE HasRoom(p) /\ TakeEngine(r)
  <2>1. PICK place \in {"engineHeld", "running"} : pc' = [pc EXCEPT ![r] = place]
    BY <1>6 DEF TakeEngine, Take
  <2>2. /\ used' = [used EXCEPT ![p] = @ + 1] /\ engineSlot' = [engineSlot EXCEPT ![r] = p]
        /\ UNCHANGED instanceSlot /\ pc[r] = "engineRef"
    BY <1>6 DEF TakeEngine, Take
  <2>3. /\ engineSlot' \in [Runs -> Pools \cup {NoPool}] /\ engineSlot'[r] = p
        /\ \A q \in Runs \ {r} : engineSlot'[q] = engineSlot[q]
    BY <1>2, <2>2 DEF SlotsInv, Types
  <2>4. Gains(engineSlot, engineSlot', r, p)
    BY <1>2, <2>2, <2>3 DEF Gains, Names
  <2>5. SlotsBalanced' /\ used' \in [Pools -> Nat]
    BY <1>1, <1>2, <1>6, <2>2, <2>4, SendKeeps
  <2>6. Names(r)'
    BY <1>2, <1>3, <2>1, <2>2, <2>3 DEF SlotsInv, Types, Names, Places
  <2>7. pc' \in [Runs -> Places] /\ \A q \in Runs : Names(q)'
    BY <1>3, <2>1, <2>2, <2>3, <2>6, NamesKept DEF SlotsInv
  <2>8. QED
    BY <1>1, <1>3, <1>4, <2>2, <2>3, <2>5, <2>7 DEF SlotsInv, Types
<1>7. CASE HasRoom(p) /\ TakeInstance(r)
  <2>1. /\ used' = [used EXCEPT ![p] = @ + 1] /\ instanceSlot' = [instanceSlot EXCEPT ![r] = p]
        /\ UNCHANGED engineSlot /\ pc[r] = "instanceRef" /\ pc' = [pc EXCEPT ![r] = "running"]
    BY <1>7 DEF TakeInstance, Take
  <2>2. /\ instanceSlot' \in [Runs -> Pools \cup {NoPool}] /\ instanceSlot'[r] = p
        /\ \A q \in Runs \ {r} : instanceSlot'[q] = instanceSlot[q]
    BY <1>2, <2>1 DEF SlotsInv, Types
  <2>3. Gains(instanceSlot, instanceSlot', r, p)
    BY <1>2, <2>1, <2>2 DEF Gains, Names
  <2>4. SlotsBalanced' /\ used' \in [Pools -> Nat]
    BY <1>1, <1>2, <1>7, <2>1, <2>3, SendKeeps
  <2>5. Names(r)'
    BY <1>2, <1>3, <2>1, <2>2 DEF SlotsInv, Types, Names, Places
  <2>6. pc' \in [Runs -> Places] /\ \A q \in Runs : Names(q)'
    BY <1>3, <2>1, <2>2, <2>5, NamesKept DEF SlotsInv
  <2>7. QED
    BY <1>1, <1>3, <1>4, <2>1, <2>2, <2>4, <2>6 DEF SlotsInv, Types
<1>8. QED
  BY <1>5, <1>6, <1>7

LEMMA ReleasesKeep ==
    ASSUME SlotsInv, NEW r \in Runs, ReleaseInstance(r) \/ ReleaseEngine(r)
    PROVE  SlotsInv'
<1>1. UNCHANGED <<ref, current, cap, config, edits>> /\ Names(r)
  BY DEF ReleaseInstance, ReleaseEngine, SlotsInv, Types
<1>2. want' \in [Runs -> Limits \cup {NoLimits}]
  BY DEF ReleaseInstance, ReleaseEngine, SlotsInv, Types
<1>3. CASE ReleaseInstance(r) /\ instanceSlot[r] = NoPool
  <2>1. /\ pc[r] = "running" /\ pc' = [pc EXCEPT ![r] = "leaving"]
        /\ UNCHANGED <<used, engineSlot, instanceSlot>>
    BY <1>3 DEF ReleaseInstance, Goto
  <2>2. Names(r)'
    BY <1>1, <1>3, <2>1 DEF SlotsInv, Types, Names, Places
  <2>3. pc' \in [Runs -> Places] /\ \A q \in Runs : Names(q)'
    BY <1>1, <2>1, <2>2, NamesKept DEF SlotsInv
  <2>4. SlotsBalanced'
    BY <1>1, <2>1 DEF SlotsInv, SlotsBalanced, Reachable, Holders
  <2>5. QED
    BY <1>1, <1>2, <2>1, <2>3, <2>4 DEF SlotsInv, Types
<1>4. CASE ReleaseInstance(r) /\ instanceSlot[r] # NoPool
  <2> DEFINE p == instanceSlot[r]
  <2>1. /\ pc[r] = "running" /\ pc' = [pc EXCEPT ![r] = "leaving"]
        /\ used' = [used EXCEPT ![p] = @ - 1] /\ UNCHANGED engineSlot
        /\ instanceSlot' = [instanceSlot EXCEPT ![r] = NoPool]
    BY <1>4 DEF ReleaseInstance, Goto
  <2>2. p \in Pools
    BY <1>4 DEF SlotsInv, Types
  <2>3. /\ instanceSlot' \in [Runs -> Pools \cup {NoPool}] /\ instanceSlot'[r] = NoPool
        /\ \A q \in Runs \ {r} : instanceSlot'[q] = instanceSlot[q]
    BY <2>1 DEF SlotsInv, Types
  <2>4. Gains(instanceSlot', instanceSlot, r, p)
    BY <2>3 DEF Gains
  <2>5. SlotsBalanced' /\ used' \in [Pools -> Nat]
    BY <1>1, <2>1, <2>2, <2>4, ReceiveKeeps
  <2>6. Names(r)'
    BY <1>1, <2>1, <2>3 DEF SlotsInv, Types, Names, Places
  <2>7. pc' \in [Runs -> Places] /\ \A q \in Runs : Names(q)'
    BY <1>1, <2>1, <2>3, <2>6, NamesKept DEF SlotsInv
  <2>8. QED
    BY <1>1, <1>2, <2>1, <2>3, <2>5, <2>7 DEF SlotsInv, Types
<1>5. CASE ReleaseEngine(r)
  <2> DEFINE p == engineSlot[r]
  <2>1. /\ pc[r] = "leaving" /\ pc' = [pc EXCEPT ![r] = "idle"]
        /\ used' = [used EXCEPT ![p] = @ - 1] /\ UNCHANGED instanceSlot
        /\ engineSlot' = [engineSlot EXCEPT ![r] = NoPool]
    BY <1>5 DEF ReleaseEngine, Goto
  <2>2. p \in Pools
    BY <1>1, <2>1 DEF Names
  <2>3. /\ engineSlot' \in [Runs -> Pools \cup {NoPool}] /\ engineSlot'[r] = NoPool
        /\ \A q \in Runs \ {r} : engineSlot'[q] = engineSlot[q]
    BY <2>1 DEF SlotsInv, Types
  <2>4. Gains(engineSlot', engineSlot, r, p)
    BY <2>3 DEF Gains
  <2>5. SlotsBalanced' /\ used' \in [Pools -> Nat]
    BY <1>1, <2>1, <2>2, <2>4, ReceiveKeeps
  <2>6. Names(r)'
    BY <1>1, <2>1, <2>3 DEF SlotsInv, Types, Names, Places
  <2>7. pc' \in [Runs -> Places] /\ \A q \in Runs : Names(q)'
    BY <1>1, <2>1, <2>3, <2>6, NamesKept DEF SlotsInv
  <2>8. QED
    BY <1>1, <1>2, <2>1, <2>3, <2>5, <2>7 DEF SlotsInv, Types
<1>6. QED
  BY <1>3, <1>4, <1>5

LEMMA EditKeeps == ASSUME SlotsInv, EditLimits PROVE SlotsInv'
<1>1. UNCHANGED <<callerVars, poolVars>> /\ config' \in Limits /\ edits' \in 0..MaxEdits
  BY PoolsAssumption DEF EditLimits, SlotsInv, Types
<1>2. \A q \in Runs : Names(q)'
  BY <1>1 DEF callerVars, SlotsInv, Types, Names
<1>3. QED
  BY <1>1, <1>2 DEF callerVars, poolVars, SlotsInv, Types, SlotsBalanced, Reachable, Holders

LEMMA SlotsInit == Init => SlotsInv
<1>1. SUFFICES ASSUME Init PROVE SlotsInv
  OBVIOUS
<1>2. \A p \in Pools : p \notin Reachable
  BY <1>1, PoolsAssumption DEF Init, Reachable
<1>3. \A r \in Runs : Names(r)
  BY <1>1 DEF Init, Names, Places
<1>4. QED
  BY <1>1, <1>2, <1>3, PoolsAssumption DEF Init, SlotsInv, Types, Places, SlotsBalanced

LEMMA SlotsStep == ASSUME SlotsInv, [Next]_vars PROVE SlotsInv'
<1>1. CASE UNCHANGED vars
  <2>1. \A q \in Runs : Names(q)'
    BY <1>1 DEF vars, callerVars, SlotsInv, Types, Names
  <2>2. SlotsBalanced'
    BY <1>1 DEF vars, callerVars, poolVars, SlotsInv, SlotsBalanced, Reachable, Holders
  <2>3. Types'
    BY <1>1, <2>1 DEF vars, callerVars, poolVars, SlotsInv, Types
  <2>4. QED
    BY <2>2, <2>3 DEF SlotsInv
<1>2. QED
  BY <1>1, ResolveKeeps, LookUpsKeep, TakesKeep, ReleasesKeep, EditKeeps DEF Next, Proceed

\* Every caller stays at a place of the code and every variable keeps its type.
THEOREM CallersStayTyped == Spec => []TypeOK
<1>1. SlotsInv => TypeOK
  BY DEF SlotsInv, Types, TypeOK
<1>2. QED
  BY <1>1, SlotsInit, SlotsStep, PTL DEF Spec

\* The slots of every channel in use are accounted for, for every number of
\* callers, every limits and however often they are edited (acquireRunSlot).
THEOREM SlotsStayBalanced == Spec => []SlotsBalanced
<1>1. SlotsInv => SlotsBalanced
  BY DEF SlotsInv
<1>2. QED
  BY <1>1, SlotsInit, SlotsStep, PTL DEF Spec

-----------------------------------------------------------------------------
(* Until a limit is edited there is one channel, of the engine's capacity: *)
(* the look-up for an instance's limit finds the caller's own slot in it,  *)
(* and so does not replace it.                                             *)

OneChannel ==
    edits = 0 =>
        /\ current # NoPool => cap[current] = Effective(config.engine)
        /\ \A r \in Runs : /\ ref[r] \in {NoPool, current} /\ engineSlot[r] \in {NoPool, current}
                           /\ pc[r] # "idle" => want[r] = config

\* The first look-up makes the channel, the others find it.
LEMMA LookUpFindsIt ==
    ASSUME SlotsInv, OneChannel, edits = 0, NEW r \in Runs,
           LookUpEngine(r) \/ LookUpInstance(r)
    PROVE  \/ /\ ref' = [ref EXCEPT ![r] = current] /\ UNCHANGED poolVars /\ current # NoPool
           \/ /\ current = NoPool /\ current' \in Pools /\ cap'[current'] = Effective(config.engine)
              /\ ref' = [ref EXCEPT ![r] = current']
<1>0. Names(r) /\ (pc[r] # "idle" => want[r] = config)
  BY DEF SlotsInv, Types, OneChannel
<1>1. CASE LookUpEngine(r)
  <2>1. LookUp(r, Effective(config.engine))
    BY <1>0, <1>1 DEF LookUpEngine, Goto
  <2>2. CASE current = NoPool
    <3> DEFINE p == CHOOSE x \in Pools : x \notin Reachable
    <3>1. p \in Pools /\ p \notin Reachable
      BY FreshPool DEF SlotsInv
    <3>2. /\ current' = p /\ ref' = [ref EXCEPT ![r] = p]
          /\ cap' = [q \in Pools |-> IF q = p THEN Effective(config.engine)
                                     ELSE IF q \in Reachable THEN cap[q] ELSE 0]
      BY <2>1, <2>2 DEF LookUp
    <3> HIDE DEF p
    <3>3. QED
      BY <2>2, <3>1, <3>2
  <2>3. CASE current # NoPool
    BY <2>1, <2>3 DEF LookUp, OneChannel
  <2>4. QED
    BY <2>2, <2>3
<1>2. CASE LookUpInstance(r)
  <2>1. engineSlot[r] \in Pools /\ engineSlot[r] \in {NoPool, current}
    BY <1>0, <1>2 DEF LookUpInstance, Goto, Names, OneChannel
  <2>2. engineSlot[r] = current /\ current \in Pools /\ current # NoPool
    BY <2>1, PoolsAssumption
  <2>3. used[current] # 0
    <3>1. r \in Holders(engineSlot, current)
      BY <2>2 DEF Holders
    <3>2. Cardinality(Holders(engineSlot, current)) # 0
      BY <3>1, HoldersFinite, FS_EmptySet
    <3>3. used[current] = Cardinality(Holders(engineSlot, current))
                            + Cardinality(Holders(instanceSlot, current))
      BY <2>2 DEF SlotsInv, SlotsBalanced, Reachable
    <3>4. /\ Cardinality(Holders(engineSlot, current)) \in Nat
          /\ Cardinality(Holders(instanceSlot, current)) \in Nat
      BY HoldersFinite
    <3>5. QED
      BY <3>2, <3>3, <3>4
  <2>4. QED
    BY <1>2, <2>2, <2>3 DEF LookUpInstance, LookUp
<1>3. QED
  BY <1>1, <1>2

LEMMA ChannelStep == ASSUME SlotsInv, OneChannel, [Next]_vars PROVE OneChannel'
<1>1. CASE UNCHANGED vars
  BY <1>1 DEF vars, callerVars, poolVars, OneChannel
<1>2. CASE EditLimits
  <2>1. edits' # 0
    BY <1>2, PoolsAssumption DEF EditLimits, SlotsInv, Types
  <2>2. QED
    BY <2>1 DEF OneChannel
<1>3. ASSUME NEW r \in Runs, Resolve(r) \/ Proceed(r) PROVE OneChannel'
  <2>1. UNCHANGED <<edits, config>>
    BY <1>3 DEF Resolve, Proceed, LookUpEngine, LookUpInstance, TakeEngine, TakeInstance,
       ReleaseInstance, ReleaseEngine
  <2>2. SUFFICES ASSUME edits = 0 PROVE OneChannel'
    BY <2>1 DEF OneChannel
  <2>3. CASE Resolve(r)
    BY <2>2, <2>3 DEF Resolve, Goto, poolVars, OneChannel, SlotsInv, Types
  <2>4. CASE LookUpEngine(r) \/ LookUpInstance(r)
    <3>1. /\ UNCHANGED <<engineSlot, want>> /\ \A q \in Runs : pc'[q] # "idle" => pc[q] # "idle"
      BY <2>4 DEF LookUpEngine, LookUpInstance, Goto, SlotsInv, Types
    <3>2. CASE ref' = [ref EXCEPT ![r] = current] /\ UNCHANGED poolVars
      BY <2>1, <2>2, <3>1, <3>2 DEF poolVars, OneChannel, SlotsInv, Types
    <3>3. CASE /\ current = NoPool /\ current' \in Pools
               /\ cap'[current'] = Effective(config.engine) /\ ref' = [ref EXCEPT ![r] = current']
      BY <2>1, <2>2, <3>1, <3>3 DEF OneChannel, SlotsInv, Types
    <3>4. QED
      BY <2>2, <2>4, <3>2, <3>3, LookUpFindsIt
  <2>5. CASE TakeEngine(r) \/ TakeInstance(r)
    <3>1. UNCHANGED <<current, cap>> /\ ref' = [ref EXCEPT ![r] = NoPool]
      BY <2>5 DEF TakeEngine, TakeInstance, Take
    <3>2. engineSlot' \in {engineSlot, [engineSlot EXCEPT ![r] = ref[r]]}
      BY <2>5 DEF TakeEngine, TakeInstance, Take
    <3>3. \A q \in Runs : pc'[q] # "idle" => pc[q] # "idle" /\ want'[q] = want[q]
      <4>1. CASE TakeEngine(r)
        BY <4>1 DEF TakeEngine, Take, SlotsInv, Types
      <4>2. CASE TakeInstance(r)
        BY <4>2 DEF TakeInstance, Take, SlotsInv, Types
      <4>3. QED
        BY <2>5, <4>1, <4>2
    <3>4. QED
      BY <2>1, <2>2, <3>1, <3>2, <3>3 DEF OneChannel, SlotsInv, Types
  <2>6. CASE ReleaseInstance(r) \/ ReleaseEngine(r)
    <3>1. UNCHANGED <<current, cap, ref>>
      BY <2>6 DEF ReleaseInstance, ReleaseEngine
    <3>2. engineSlot' \in {engineSlot, [engineSlot EXCEPT ![r] = NoPool]}
      BY <2>6 DEF ReleaseInstance, ReleaseEngine
    <3>3. \A q \in Runs : pc'[q] # "idle" => pc[q] # "idle" /\ want'[q] = want[q]
      BY <2>6 DEF ReleaseInstance, ReleaseEngine, Goto, SlotsInv, Types
    <3>4. QED
      BY <2>1, <2>2, <3>1, <3>2, <3>3 DEF OneChannel, SlotsInv, Types
  <2>7. QED
    BY <1>3, <2>3, <2>4, <2>5, <2>6 DEF Proceed
<1>4. QED
  BY <1>1, <1>2, <1>3 DEF Next

\* With the limits as they were, no more runs execute than the engine's limit
\* allows, whatever limit the instances have (engine.go, ExecuteWithInput).
THEOREM ExecutionsStayWithinLimit == Spec => []ExecutionsWithinLimit
<1>1. Init => OneChannel
  BY DEF Init, OneChannel
<1>2. SlotsInv /\ OneChannel => ExecutionsWithinLimit
  <2> SUFFICES ASSUME SlotsInv, OneChannel, edits = 0
               PROVE  Cardinality(Executing) <= Effective(config.engine)
    BY DEF ExecutionsWithinLimit
  <2>1. Effective(config.engine) \in Nat \ {0}
    <3>1. config.engine \in Nat
      BY PoolsAssumption DEF SlotsInv, Types, Limits
    <3>2. QED
      BY <3>1 DEF Effective
  <2>2. CASE Executing = {}
    BY <2>1, <2>2, FS_EmptySet
  <2>3. CASE Executing # {}
    <3>1. \A r \in Executing : engineSlot[r] = current /\ current \in Pools
      BY PoolsAssumption DEF Executing, SlotsInv, Types, Names, OneChannel
    <3>2. Executing \subseteq Holders(engineSlot, current) /\ current \in Pools
      BY <2>3, <3>1 DEF Executing, Holders
    <3>3. Cardinality(Executing) <= Cardinality(Holders(engineSlot, current))
      BY <3>2, HoldersFinite, FS_Subset
    <3>4. /\ used[current] = Cardinality(Holders(engineSlot, current))
                               + Cardinality(Holders(instanceSlot, current))
          /\ used[current] <= cap[current]
      BY <3>2 DEF SlotsInv, SlotsBalanced, Reachable
    <3>5. cap[current] = Effective(config.engine)
      BY <3>2, PoolsAssumption DEF OneChannel
    <3>6. /\ Cardinality(Holders(engineSlot, current)) \in Nat
          /\ Cardinality(Holders(instanceSlot, current)) \in Nat
      BY HoldersFinite
    <3>7. Cardinality(Executing) \in Nat
      BY <3>2, HoldersFinite, FS_Subset, FS_CardinalityType
    <3>8. QED
      BY <2>1, <3>3, <3>4, <3>5, <3>6, <3>7
  <2>4. QED
    BY <2>2, <2>3
<1>3. QED
  BY <1>1, <1>2, SlotsInit, SlotsStep, ChannelStep, PTL DEF Spec
=============================================================================
