---------------------------- MODULE ObjectTransfer ----------------------------
(***************************************************************************)
(* What a UOBP transfer promises, without packets, rounds or timers        *)
(* (docs/designs/UOBP_v1.md, sections 5 to 7): the receiver gathers the    *)
(* blocks of each object and never loses one, and the sender knows of      *)
(* blocks the receiver holds and never forgets one.                        *)
(***************************************************************************)
CONSTANTS
  Items,   \* the objects
  Pieces   \* the blocks of each

VARIABLES
  held,    \* object -> blocks the receiver has stored
  known    \* object -> blocks the sender knows to be stored

transferVars == <<held, known>>

TransferInit ==
  /\ held = [i \in Items |-> {}]
  /\ known = [i \in Items |-> {}]

Store(i, piece) ==
  /\ held' = [held EXCEPT ![i] = @ \cup {piece}]
  /\ UNCHANGED known

Learn(i, pieces) ==
  /\ pieces \subseteq held[i]
  /\ known' = [known EXCEPT ![i] = @ \cup pieces]
  /\ UNCHANGED held

TransferNext ==
  \E i \in Items :
    \/ \E piece \in Pieces : Store(i, piece)
    \/ \E pieces \in SUBSET Pieces : Learn(i, pieces)

TransferSpec == TransferInit /\ [][TransferNext]_transferVars
==============================================================================
