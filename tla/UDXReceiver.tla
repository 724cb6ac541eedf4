----------------------------- MODULE UDXReceiver -----------------------------
(***************************************************************************)
(* The receiver of the UDX protocol (tools/udtsim/udx.go, type             *)
(* ReceiverUDX): Process and OnDataPacketReceived.                         *)
(*                                                                         *)
(* highestReceivedSeq and its time feed nothing and are left out.  Of the  *)
(* round-trip sample only its presence is kept.                            *)
(***************************************************************************)
EXTENDS UDXConfig, SequenceSearch

CONSTANTS
  SeqSpan,       \* 2^20: a packet header carries the low 20 bits of a number
  AckInterval,
  NakInterval

ASSUME ReceiverAssumption ==
  /\ WordBits \in Nat \ {0}
  /\ SeqSpan \in Nat
  /\ CountSpan \in Nat
  /\ MaxSeq < SeqSpan
  /\ SeqSpan <= CountSpan
  /\ AckInterval \in Nat \ {0}
  /\ NakInterval \in Nat \ {0}

VARIABLES
  rxReceived,
  rxMissing,
  rxHighestContig,  \* highestContigSeq, a uint32
  rxAckTimer,       \* until ackTimeOutUs
  rxNakTimer,       \* until nakTimeOutUs
  rxSampled         \* receivedTimeUs > 0: data came since the last acknowledgement

rxVars == <<rxReceived, rxMissing, rxHighestContig, rxAckTimer, rxNakTimer, rxSampled>>

RxTypeOK ==
  /\ rxReceived \in SUBSET SeqNum
  /\ rxMissing \in SUBSET SeqNum
  /\ rxHighestContig \in 0..(CountSpan - 1)
  /\ rxAckTimer \in 0..AckInterval
  /\ rxNakTimer \in 0..NakInterval
  /\ rxSampled \in BOOLEAN

\* 0xFFFFFFFF: nothing yet, so that the next number is zero.
NoContig == CountSpan - 1

\* NewReceiverUDX and Begin, at time zero.
RxInit ==
  /\ rxReceived = {}
  /\ rxMissing = {}
  /\ rxHighestContig = NoContig
  /\ rxAckTimer = AckInterval
  /\ rxNakTimer = NakInterval
  /\ rxSampled = FALSE
------------------------------------------------------------------------------
(* Process. *)

AckDue == rxAckTimer = 0

NakDue == rxNakTimer = 0 /\ rxMissing # {}

\* Mutant: an acknowledgement names the next number expected.
NextOnWire(seq) == (seq + 1) % SeqSpan

\* What a number is on the wire.
OnWire(seq) == seq % SeqSpan

\* An acknowledgement is sent whether or not anything was received.
RxOutput ==
  (IF AckDue
   THEN {[type |-> "ACK", seq |-> OnWire(rxHighestContig), sampled |-> rxSampled]}
   ELSE {})
    \cup (IF NakDue THEN {[type |-> "NAK", missing |-> rxMissing]} ELSE {})

RxProcess ==
  /\ rxAckTimer' = IF AckDue THEN AckInterval ELSE rxAckTimer
  /\ rxNakTimer' = IF NakDue THEN NakInterval ELSE rxNakTimer
  /\ rxSampled' = (rxSampled /\ ~AckDue)
  /\ UNCHANGED <<rxReceived, rxMissing, rxHighestContig>>
------------------------------------------------------------------------------
(* OnDataPacketReceived. *)

NextContig == (rxHighestContig + 1) % CountSpan

Gap(seq) == {s \in NextContig..(seq - 1) : s \notin rxReceived}

\* Mutant: the answer of the search is taken for the end of the run plus one.
OnePastSearch(received) ==
  (SearchContiguesSet(received, NextContig, MaxSeq) + 1) % CountSpan

\* Mutant: the search is not tried for the last number.
ContigBeforeLast(received) ==
  IF NextContig < MaxSeq - 1
  THEN SearchContiguesSet(received, NextContig, MaxSeq)
  ELSE rxHighestContig

\* The search answers nothing from the capacity on.
ContigAfter(received) ==
  IF NextContig < MaxSeq
  THEN SearchContiguesSet(received, NextContig, MaxSeq)
  ELSE rxHighestContig

\* Mutant: a number that fills a hole stays in the missing map.
StillMissing(seq) == rxMissing \cup Gap(seq)

MissingAfter(seq) == (rxMissing \cup Gap(seq)) \ {seq}

OnDuplicateData(seq) ==
  /\ seq \in rxReceived
  /\ rxSampled' = TRUE
  /\ UNCHANGED <<rxReceived, rxMissing, rxHighestContig, rxAckTimer, rxNakTimer>>

OnNewData(seq) ==
  /\ seq \notin rxReceived
  /\ rxSampled' = TRUE
  /\ rxReceived' = rxReceived \cup {seq}
  /\ rxMissing' = MissingAfter(seq)
  /\ rxHighestContig' = ContigAfter(rxReceived')
  /\ UNCHANGED <<rxAckTimer, rxNakTimer>>

OnDataPacketReceived(seq) == OnDuplicateData(seq) \/ OnNewData(seq)

RxTimePasses ==
  /\ rxAckTimer' = IF rxAckTimer > 0 THEN rxAckTimer - 1 ELSE 0
  /\ rxNakTimer' = IF rxNakTimer > 0 THEN rxNakTimer - 1 ELSE 0
  /\ UNCHANGED <<rxReceived, rxMissing, rxHighestContig, rxSampled>>
==============================================================================
