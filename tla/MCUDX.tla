-------------------------------- MODULE MCUDX --------------------------------
(***************************************************************************)
(* Model-checking root of UDX: the UDX_*.cfg files give the constants.     *)
(***************************************************************************)
EXTENDS UDX

\* udx_seqWnd.go:34-35: by going round the missing map the sender is able to "ensure
\* that all packets are eventually delivered".
EverythingArrives == <>(rxReceived = SeqNum)
==============================================================================
