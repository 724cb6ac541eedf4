-------------------------- MODULE SequencePolicyProofs --------------------------
(***************************************************************************)
(* Lemmas on the order of sequence numbers, for the proofs about sequence  *)
(* maps and what is sent from them: the least and the greatest of a set,   *)
(* and what a round-robin pick means to the numbers it leaves.             *)
(***************************************************************************)
EXTENDS SequencePolicy, FiniteSetsExt, WellFoundedInduction, TLAPS

LEMMA LeastExists ==
  ASSUME NEW T \in SUBSET Nat, T # {}
  PROVE  \E x \in T : \A y \in T : x <= y
<1>1. PICK x \in T : \A y \in T : ~(<<y, x>> \in OpToRel(<, Nat))
  BY WFMin, NatLessThanWellFounded
<1>2. ASSUME NEW y \in T
      PROVE  x <= y
  <2>1. ~(y < x)
    BY <1>1 DEF OpToRel
  <2>2. QED
    BY <2>1
<1>3. QED
  BY <1>2

LEMMA MinIsLeast ==
  ASSUME NEW T \in SUBSET Nat, T # {}
  PROVE  Min(T) \in T /\ \A y \in T : Min(T) <= y
BY LeastExists DEF Min

LEMMA MaxIsGreatest ==
  ASSUME NEW bound \in Nat, NEW T \in SUBSET (0..bound), T # {}
  PROVE  Max(T) \in T /\ \A y \in T : Max(T) >= y
<1> DEFINE below == {y \in Nat : \E x \in T : y = bound - x}
<1>1. \A x \in T : x \in Nat /\ bound - x \in Nat
  OBVIOUS
<1>2. below \in SUBSET Nat /\ below # {}
  <2>1. PICK x \in T : TRUE
    OBVIOUS
  <2>2. bound - x \in below
    BY <1>1
  <2>3. QED
    BY <2>2
<1>3. PICK m \in below : \A y \in below : m <= y
  BY <1>2, LeastExists
<1>4. PICK g \in T : m = bound - g
  OBVIOUS
<1>5. ASSUME NEW x \in T
      PROVE  g >= x
  <2>1. bound - x \in below
    BY <1>1
  <2>2. bound - g <= bound - x
    BY <1>3, <1>4, <2>1
  <2>3. QED
    BY <1>1, <2>2
<1>6. QED
  BY <1>5 DEF Max
------------------------------------------------------------------------------
(* The round-robin pick. *)

\* A pick is always possible, and it is one of the members.
LEMMA NextSetExists ==
  ASSUME NEW members \in SUBSET Nat, members # {}, NEW cursor \in Nat
  PROVE  \E seq \in members : IsNextSetFrom(members, cursor, seq)
<1> DEFINE ahead == {s \in members : s >= cursor}
<1>1. CASE ahead # {}
  <2>1. PICK seq \in ahead : \A s \in ahead : seq <= s
    BY <1>1, LeastExists
  <2>2. QED
    BY <1>1, <2>1 DEF IsNextSetFrom, IsLowest
<1>2. CASE ahead = {}
  <2>1. PICK seq \in members : \A s \in members : seq <= s
    BY LeastExists
  <2>2. QED
    BY <1>2, <2>1 DEF IsNextSetFrom, IsLowest
<1>3. QED
  BY <1>1, <1>2

\* The number after the last is the first.
LEMMA SuccessorOf ==
  ASSUME NEW count \in Nat, NEW seq \in 0..(count - 1)
  PROVE  (seq + 1) % count = IF seq + 1 = count THEN 0 ELSE seq + 1
OBVIOUS

\* Moving the cursor past the member picked brings every other member nearer to
\* its turn.
LEMMA RoundRobinProgress ==
  ASSUME NEW count \in Nat \ {0}, NEW members \in SUBSET (0..(count - 1)),
         NEW cursor \in 0..(count - 1), NEW seq, IsNextSetFrom(members, cursor, seq),
         NEW s \in members, s # seq
  PROVE  RoundRobinDistance((seq + 1) % count, s, count)
           < RoundRobinDistance(cursor, s, count)
<1> DEFINE next == (seq + 1) % count
<1>1. /\ seq \in members
      /\ \/ seq >= cursor /\ \A m \in members : m >= cursor => seq <= m
         \/ \A m \in members : m < cursor /\ seq <= m
  BY DEF IsNextSetFrom, IsLowest
<1>2. next = IF seq + 1 = count THEN 0 ELSE seq + 1
  BY <1>1, SuccessorOf
<1> HIDE DEF next
<1>3. QED
  BY <1>1, <1>2 DEF RoundRobinDistance
================================================================================
