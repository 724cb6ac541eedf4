--------------------------- MODULE ReliableDelivery ---------------------------
(***************************************************************************)
(* What a unidirectional transfer promises its two ends, without packets,  *)
(* loss, windows or timers: of the `count` packets on offer, the receiver  *)
(* holds a growing prefix of those sent, and the sender's acknowledged     *)
(* prefix follows the receiver's and never runs ahead of it.               *)
(***************************************************************************)
EXTENDS Integers

CONSTANT Count          \* packets to transfer

VARIABLES
  sent,       \* packets transmitted at least once
  delivered,  \* length of the prefix the receiver holds
  acked       \* length of the prefix the sender knows to be delivered

rdVars == <<sent, delivered, acked>>

RDInit == sent = 0 /\ delivered = 0 /\ acked = 0

Send ==
  /\ sent < Count
  /\ sent' = sent + 1
  /\ UNCHANGED <<delivered, acked>>

Deliver ==
  /\ delivered' \in (delivered + 1)..sent
  /\ UNCHANGED <<sent, acked>>

Acknowledge ==
  /\ acked' \in (acked + 1)..delivered
  /\ UNCHANGED <<sent, delivered>>

RDNext == Send \/ Deliver \/ Acknowledge

RDSpec == RDInit /\ [][RDNext]_rdVars
==============================================================================
