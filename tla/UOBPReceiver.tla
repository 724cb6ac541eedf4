----------------------------- MODULE UOBPReceiver -----------------------------
(***************************************************************************)
(* The receiver of docs/tools/uobp/uobp_sim.go (type rx), as operators on  *)
(* one of its slots (type rxCtx).                                          *)
(*                                                                         *)
(* The driver starts every object with generation 1, so the generation     *)
(* tests always succeed on a slot that is not idle.  BlocksReceived counts *)
(* the bits set in the bitmap, and HighestAckReqSeen is always assigned    *)
(* with LastAckLevelSent and never read.  The pipe corrupts no payload and *)
(* the sender numbers no block past the last, so a block is never refused  *)
(* for its hash or its number.                                             *)
(***************************************************************************)
EXTENDS UOBPObject

CONSTANT MaxAckBits   \* MAX_ACK_BITS: width of an acknowledgement's bitmap

ASSUME ReceiverAssumption == MaxAckBits \in Nat \ {0}

Slot == [state            : {"IDLE", "RECEIVING", "COMPLETED_AWAIT_CONFIRM"},
         bitmap           : SUBSET Blocks,
         lastAckLevelSent : Levels]

FreeSlot == [state |-> "IDLE", bitmap |-> {}, lastAckLevelSent |-> 0]

OpenSlot == [FreeSlot EXCEPT !.state = "RECEIVING"]

\* Mutant: a repeated OBJECT_INFO starts the object again.
OnObjectInfoAgain(slot) == OpenSlot

OnObjectInfo(slot) == IF slot.state = "IDLE" THEN OpenSlot ELSE slot

AckTriggered(slot, level) == slot.state # "IDLE" /\ level > slot.lastAckLevelSent

Noted(slot, level) ==
  IF AckTriggered(slot, level) THEN [slot EXCEPT !.lastAckLevelSent = level] ELSE slot

Stored(slot, block) ==
  LET bitmap == slot.bitmap \cup {block}
  IN  [slot EXCEPT !.bitmap = bitmap,
                   !.state  = IF bitmap = Blocks THEN "COMPLETED_AWAIT_CONFIRM" ELSE @]

\* Data for a slot that is complete is only looked at for its level.
OnObjectData(slot, block, level) ==
  IF slot.state = "RECEIVING" THEN Stored(Noted(slot, level), block) ELSE Noted(slot, level)

Completes(slot, block, level) ==
  slot.state = "RECEIVING" /\ OnObjectData(slot, block, level).state # "RECEIVING"

OnAckConfirm(slot) == IF slot.state = "COMPLETED_AWAIT_CONFIRM" THEN FreeSlot ELSE slot
------------------------------------------------------------------------------
\* bitmapPrefixLen.
IsPrefixLen(bitmap, prefix) ==
  /\ prefix \in 0..NumBlocks
  /\ 0..(prefix - 1) \subseteq bitmap
  /\ prefix \notin bitmap

\* Mutant: the bitmap starts one block after the first hole but is numbered
\* from it.
ShiftedWindow(bitmap, prefix) ==
  {b \in prefix..(prefix + MaxAckBits - 1) : b + 1 \in bitmap}

\* The received blocks the bitmap of an acknowledgement has room for.
AckWindow(bitmap, prefix) == bitmap \cap prefix..(prefix + MaxAckBits - 1)

MakeAck(object, slot) ==
  {[type |-> "ACK", object |-> object, level |-> slot.lastAckLevelSent,
    prefix |-> prefix, blocks |-> AckWindow(slot.bitmap, prefix)] :
     prefix \in {n \in 0..NumBlocks : IsPrefixLen(slot.bitmap, n)}}
==============================================================================
