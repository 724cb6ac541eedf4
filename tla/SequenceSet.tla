------------------------------ MODULE SequenceSet ------------------------------
(***************************************************************************)
(* What a sequence map promises its users (the contract of sequence_ops_t  *)
(* in source/main/include/cp2p/udt/c_udt.h and the tests of seqmap.go): a  *)
(* set of numbers below MaxSeq, popped in the order of its mode.           *)
(***************************************************************************)
EXTENDS SequencePolicy

CONSTANT MaxSeq

VARIABLES
  members,
  cursor,   \* where a round-robin pop starts
  mode,     \* "Lowest", "RoundRobin" or "Random"
  ret       \* the last operation and what it returned

setVars == <<members, cursor, mode, ret>>

Numbers == 0..(MaxSeq - 1)

SetInit ==
  /\ members = {}
  /\ cursor = 0
  /\ mode \in {"Lowest", "RoundRobin", "Random"}
  /\ ret = [op |-> "New", out |-> 0]

SetPush(seq) ==
  /\ ret' = [op |-> "Push", out |-> IF seq \in Numbers \ members THEN 1 ELSE 0]
  /\ members' = members \cup ({seq} \cap Numbers)
  /\ UNCHANGED <<cursor, mode>>

\* Remove, RemoveRange and Merge: the members change to `left`.
SetBecomes(op, left) ==
  /\ ret' = [op |-> op, out |-> 0]
  /\ members' = left
  /\ UNCHANGED <<cursor, mode>>

SetRebuild(op, left) ==
  /\ ret' = [op |-> op, out |-> 0]
  /\ members' = left
  /\ cursor' = 0
  /\ UNCHANGED mode

SetPop ==
  \/ /\ members = {}
     /\ ret' = [op |-> "Pop", out |-> -1]
     /\ UNCHANGED <<members, cursor, mode>>
  \/ \E seq \in members :
       /\ mode = "Lowest" => IsLowest(members, seq)
       /\ mode = "RoundRobin" => IsNextSetFrom(members, cursor, seq)
       /\ members' = members \ {seq}
       /\ cursor' = IF mode = "RoundRobin" THEN (seq + 1) % MaxSeq ELSE cursor
       /\ ret' = [op |-> "Pop", out |-> seq]
       /\ UNCHANGED mode

SetNext ==
  \/ \E seq \in 0..MaxSeq : SetPush(seq)
  \/ \E seq \in 0..MaxSeq : SetBecomes("Remove", members \ {seq})
  \/ \E first, end \in 0..(MaxSeq + 1) :
       SetBecomes("RemoveRange", members \ (first..(end - 1)))
  \/ \E src \in SUBSET Numbers : SetBecomes("Merge", members \cup src)
  \/ SetPop
  \/ SetRebuild("RemoveAll", {})
  \/ \E src \in SUBSET Numbers : SetRebuild("Deserialize", src)

SetSpec == SetInit /\ [][SetNext]_setVars
==============================================================================
