------------------------------ MODULE MCReceiver ------------------------------
(***************************************************************************)
(* Rings of three slots: two may be full at a time, and five packets go    *)
(* round more than once.                                                   *)
(***************************************************************************)
EXTENDS Receiver

\* The name of the interface has no suffix: all rings of the card.
WholeCard == [reg |-> "all", ring |-> 0]
===============================================================================
