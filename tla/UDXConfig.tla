------------------------------ MODULE UDXConfig ------------------------------
(***************************************************************************)
(* What both ends of a UDX transfer share (SenderUDXConfig and             *)
(* ReceiverUDXConfig of tools/udtsim/udx.go): the numbers are [0, MaxSeq). *)
(***************************************************************************)
EXTENDS Integers, FiniteSets

CONSTANT MaxSeq   \* packets of the transfer, and capacity of every map

ASSUME ConfigAssumption == MaxSeq \in Nat \ {0}

SeqNum == 0..(MaxSeq - 1)
==============================================================================
