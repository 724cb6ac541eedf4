------------------------------ MODULE UDTConfig ------------------------------
(***************************************************************************)
(* What both ends of a udtsim transfer share: UDTConfig of                 *)
(* tools/udtsim/udt.go and the amount of data the driver offers.           *)
(***************************************************************************)
EXTENDS Integers

CONSTANTS
  TxMaxSeq,     \* capacity of every sequence map: numbers are below it
  DataCount     \* packets the driver's buildData supplies (-data-count)

ASSUME ConfigAssumption ==
  /\ TxMaxSeq \in Nat \ {0}
  /\ DataCount \in 1..TxMaxSeq

SeqNum == 0..(TxMaxSeq - 1)
==============================================================================
