--------------------------- MODULE MCOperatorPoll ---------------------------
(* The loop and a poll after a change, with two wallets. *)
EXTENDS OperatorPoll
=============================================================================
