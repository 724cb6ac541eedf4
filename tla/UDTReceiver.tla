----------------------------- MODULE UDTReceiver -----------------------------
(***************************************************************************)
(* The receiving half of the udtsim transport (tools/udtsim/udt.go):       *)
(* OnRxDataReceived and RxTick with the NAK window it maintains.           *)
(*                                                                         *)
(* rxHighestContig = 0xFFFFFFFF, "nothing yet", is -1 here: the code only  *)
(* compares it with the initial value and adds one to it, which wraps to   *)
(* zero.  rxNakDue is local to RxTick: updateRxNakWindow, which RxTick     *)
(* calls first, is the only place that sets it and the report clears it.   *)
(* The urgency percentage is abstracted to the window it yields: the       *)
(* longest one while nothing is missing (urgency is reset to zero then),   *)
(* any length between the base and the longest otherwise.  The progress    *)
(* timer (rxLastProgressUs) feeds nothing and is left out.                 *)
(***************************************************************************)
EXTENDS UDTConfig

CONSTANTS
  AckInt,     \* rxAckIntUs, in ticks
  NakInt,     \* rxNakIntUs: the shortest NAK window, in ticks
  NakMaxInt   \* rxNakIntUs * rxNakMaxMultiplier: the longest

ASSUME ReceiverAssumption ==
  /\ AckInt \in Nat \ {0}
  /\ NakInt \in Nat \ {0}
  /\ NakMaxInt \in Nat
  /\ NakInt <= NakMaxInt

VARIABLES
  rxReceived,       \* rxReceived map
  rxMissing,        \* rxMissing map
  rxHighestContig,  \* highest number of the contiguous prefix, -1 if none
  rxAckTimer,       \* ticks until an acknowledgement may be sent
  rxNakTimer        \* ticks until the NAK window closes

rxVars == <<rxReceived, rxMissing, rxHighestContig, rxAckTimer, rxNakTimer>>

RxTypeOK ==
  /\ rxReceived \in SUBSET SeqNum
  /\ rxMissing \in SUBSET SeqNum
  /\ rxHighestContig \in -1..(TxMaxSeq - 1)
  /\ rxAckTimer \in 0..AckInt
  /\ rxNakTimer \in 0..NakMaxInt

\* The first RxTick, at time zero, opens a window of the longest length.
RxInit ==
  /\ rxReceived = {}
  /\ rxMissing = {}
  /\ rxHighestContig = -1
  /\ rxAckTimer = AckInt
  /\ rxNakTimer = NakMaxInt

\* computeNakWindowIntervalUs for an urgency consistent with `missing`.
NakWindowIntervals(missing) == IF missing = {} THEN {NakMaxInt} ELSE NakInt..NakMaxInt
------------------------------------------------------------------------------
\* A number seen before only leaves the missing map.
OnRxDataDuplicate(seq) ==
  /\ seq \in rxReceived
  /\ rxMissing' = rxMissing \ {seq}
  /\ UNCHANGED <<rxReceived, rxHighestContig, rxAckTimer, rxNakTimer>>

\* Mutants: the first hole is skipped; the scan runs past the packet; numbers
\* received already are not left out.
GapWithoutFirst(seq, received) ==
  {s \in SeqNum : rxHighestContig + 1 < s /\ s < seq /\ s \notin received}

GapBeyond(seq, received) ==
  {s \in SeqNum : rxHighestContig < s /\ s <= seq + 1 /\ s \notin received}

GapUnfiltered(seq, received) ==
  {s \in SeqNum : rxHighestContig < s /\ s < seq}

\* The numbers a packet ahead of the contiguous prefix shows to be absent.
GapBelow(seq, received) ==
  {s \in SeqNum : rxHighestContig < s /\ s < seq /\ s \notin received}

\* The loop that moves rxHighestContig to the last number of the prefix.
AdvanceContig(received) ==
  \E last \in rxHighestContig..(TxMaxSeq - 1) :
    /\ (rxHighestContig + 1)..last \subseteq received
    /\ last + 1 \notin received
    /\ rxHighestContig' = last

OnRxDataNew(seq) ==
  /\ seq \notin rxReceived
  /\ rxReceived' = rxReceived \cup {seq}
  /\ rxMissing' = (rxMissing \cup GapBelow(seq, rxReceived')) \ {seq}
  /\ rxNakTimer' = IF rxMissing' = {} THEN NakMaxInt ELSE rxNakTimer
  /\ AdvanceContig(rxReceived')
  /\ UNCHANGED rxAckTimer

OnRxDataReceived(seq) == OnRxDataDuplicate(seq) \/ OnRxDataNew(seq)
------------------------------------------------------------------------------
\* RxTick.  What it sends: a cumulative acknowledgement when the interval has
\* passed, then a loss report when a NAK window closes on missing packets.
AckNow == rxAckTimer = 0 /\ rxHighestContig # -1

\* Mutant: a tick sends one packet, the acknowledgement if both are due.
NakWhenNoAck == rxNakTimer = 0 /\ rxMissing # {} /\ ~AckNow

NakNow == rxNakTimer = 0 /\ rxMissing # {}

\* Mutants: the acknowledgement names the number after the next expected one;
\* it names the last one received.
AckPacketAhead(ackSeq) == [type |-> "ACK", ackSeq |-> ackSeq + 1]

AckPacketBehind(ackSeq) == [type |-> "ACK", ackSeq |-> ackSeq - 1]

AckPacket(ackSeq) == [type |-> "ACK", ackSeq |-> ackSeq]

NakPacket(missing) == [type |-> "NAK", missing |-> missing]

RxTickOutput ==
  (IF AckNow THEN {AckPacket(rxHighestContig + 1)} ELSE {})
    \cup (IF NakNow THEN {NakPacket(rxMissing)} ELSE {})

RxTick ==
  /\ rxAckTimer' = IF AckNow THEN AckInt ELSE rxAckTimer
  /\ IF rxNakTimer = 0
     THEN rxNakTimer' \in NakWindowIntervals(rxMissing)
     ELSE UNCHANGED rxNakTimer
  /\ UNCHANGED <<rxReceived, rxMissing, rxHighestContig>>

RxTimePasses ==
  /\ rxAckTimer' = IF rxAckTimer > 0 THEN rxAckTimer - 1 ELSE 0
  /\ rxNakTimer' = IF rxNakTimer > 0 THEN rxNakTimer - 1 ELSE 0
  /\ UNCHANGED <<rxReceived, rxMissing, rxHighestContig>>
==============================================================================
