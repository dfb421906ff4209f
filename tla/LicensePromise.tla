--------------------------- MODULE LicensePromise ---------------------------
(***************************************************************************)
(* What the payment path promises, with no webhook, no claim and no crash: *)
(* a payment that has been made is worth at most one licence key, a key    *)
(* belongs to one payment, and neither is ever taken back.                 *)
(* PaymentFulfillment implements this specification.                       *)
(***************************************************************************)

CONSTANTS Payments, Keys

VARIABLES
    paid,      \* payments made
    granted    \* (payment, key) pairs

vars == <<paid, granted>>

IsMatching(S) ==
    \A g, h \in S : (g.payment = h.payment \/ g.key = h.key) => g = h

(* Some payments may have been served before. *)
Init ==
    /\ paid \subseteq Payments
    /\ granted \subseteq [payment : Payments, key : Keys]
    /\ IsMatching(granted)

Pay(p) ==
    /\ p \notin paid
    /\ paid' = paid \cup {p}
    /\ UNCHANGED granted

Grant(p, k) ==
    /\ p \in paid
    /\ \A g \in granted : g.payment # p /\ g.key # k
    /\ granted' = granted \cup {[payment |-> p, key |-> k]}
    /\ UNCHANGED paid

Next ==
    \/ \E p \in Payments : Pay(p)
    \/ \E p \in Payments, k \in Keys : Grant(p, k)

Spec == Init /\ [][Next]_vars
=============================================================================
