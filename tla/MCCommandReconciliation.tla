---------------------- MODULE MCCommandReconciliation ----------------------
(***************************************************************************)
(* The instances of CommandReconciliation that are checked: each cfg gives *)
(* the commands an operation may have.  One status poller makes polls that *)
(* follow each other and overlap the handler and the refresh; two pollers  *)
(* also overlap each other, and are interchangeable.                       *)
(***************************************************************************)
EXTENDS CommandReconciliation_proofs, TLC

PollerSymmetry == Permutations(Pollers)

(***************************************************************************)
(* The restart of the cfg, or another command with one poller: for longer, *)
(* with a timeout and with an operator who removes the device.             *)
(***************************************************************************)
Single == INSTANCE CommandReconciliation WITH
    Commands <- {"pause", "identify", "update_pool"}, Removable <- TRUE,
    Pollers <- {CHOOSE p \in Pollers : TRUE}, Timeout <- 1, Horizon <- 3

RestartOrSingleInit == Init \/ Single!Init
RestartOrSingleNext == IF command = "restart" THEN Next ELSE Single!Next
RestartOrSingleSpec == RestartOrSingleInit /\ [][RestartOrSingleNext]_vars

(* The state of the command at hand is well typed. *)
EachTypeOK == IF command = "restart" THEN TypeOK ELSE Single!TypeOK
=============================================================================
