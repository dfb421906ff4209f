------------------------- MODULE MCCommandDispatch -------------------------
(***************************************************************************)
(* Small instances of CommandDispatch, `part` of which is at work: two     *)
(* requests with one key, that are no rollbacks; or three requests with two keys, *)
(* a pool update and the rollbacks of it.                                  *)
(***************************************************************************)
EXTENDS CommandDispatch_proofs, FiniteSets

VARIABLE part

Began(r) == pc[r] # "idle"
Issued(t) == tokens[t].state # "unissued"

(* Requests and tokens, which differ only in name, are taken in their order. *)
InOrder == \A n \in 1..2 : (Began(n + 1) => Began(n)) /\ (Issued(n + 1) => Issued(n))

Second(n) == IF n = 2 THEN "update_pool" ELSE "restart"

(* The second of them may be a pool update, and the second confirmation for one. *)
TwoRequests ==
    /\ ~Began(3) /\ ~Issued(3)
    /\ \A r \in 1..2 : Began(r) => body[r].key # "k2" /\ Order(r).command \in {"restart", Second(r)}
    /\ \A t \in 1..2 : Issued(t) => tokens[t].order.command \in {"restart", Second(t)}

(* One pool update, confirmed once, is over before the rollbacks that race *)
(* each other arrive, with the kill switch open.                           *)
UpdateThenRollbacks ==
    /\ enabled
    /\ \A t \in 1..3 : Issued(t) => tokens[t].order.command # "restart"
    /\ Cardinality({t \in 1..3 : Issued(t) /\ tokens[t].order.command = "update_pool"}) <= 1
    /\ \A r \in 1..3 : body[r].key = "k2" => \E q \in 1..(r - 1) : body[q].key = "k1"
    /\ Began(1) => IsCommand(1, "update_pool")
    /\ \A r \in 2..3 : Began(r) => IsRollback(r) /\ pc[1] \in {"done", "crashed"}

Bound == InOrder /\ IF part = "requests" THEN TwoRequests ELSE UpdateThenRollbacks

PartInit == part \in {"requests", "rollbacks"} /\ Init /\ Bound
PartNext == UNCHANGED part /\ Next /\ Bound'

PartSpec == PartInit /\ [][PartNext]_<<part, vars>>
=============================================================================
