------------------------------ MODULE UOBPObject ------------------------------
(***************************************************************************)
(* What both ends of a UOBP transfer know of an object                     *)
(* (docs/tools/uobp/uobp_sim.go): its blocks, and the 16-bit levels that   *)
(* data packets carry to ask for acknowledgements.                         *)
(***************************************************************************)
EXTENDS Integers, FiniteSets

CONSTANTS
  NumBlocks,   \* blocks of an object
  LevelSpan    \* 2^16: an ack level is a uint16

ASSUME ObjectAssumption ==
  /\ NumBlocks \in Nat \ {0}
  /\ LevelSpan \in Nat
  /\ LevelSpan > 1

Blocks == 0..(NumBlocks - 1)

Levels == 0..(LevelSpan - 1)
==============================================================================
