-------------------------- MODULE PhysicalEffects --------------------------
(***************************************************************************)
(* What the physical command path promises, with no ledger, no handler and *)
(* no crash: an operator spends a one-time approval on one order, and an   *)
(* approval turns into at most one effect on a device.  An idempotency key *)
(* names at most one effect, however often the caller repeats the request. *)
(* CommandDispatch implements this specification.                          *)
(***************************************************************************)

CONSTANTS
    Keys,     \* idempotency keys
    NoKey,    \* the caller sent no Idempotency-Key header
    Tokens,   \* one-time approvals
    Orders    \* what a device can be told to do

VARIABLES
    spent,    \* approvals that can never be presented again
    credit,   \* (approval, order) pairs accepted and not yet used
    effects   \* what was sent to a device

vars == <<spent, credit, effects>>

Credit == [token : Tokens, order : Orders]
Effect == [key : Keys \cup {NoKey}, order : Orders, token : Tokens]

TypeOK ==
    /\ spent \subseteq Tokens
    /\ credit \subseteq Credit
    /\ effects \subseteq Effect

Init ==
    /\ spent = {}
    /\ credit = {}
    /\ effects = {}

(***************************************************************************)
(* An approval is accepted for the order it was given for, or wasted on    *)
(* another one.                                                            *)
(***************************************************************************)
Accept(t, o) ==
    /\ t \notin spent
    /\ spent' = spent \cup {t}
    /\ credit' = credit \cup {[token |-> t, order |-> o]}
    /\ UNCHANGED effects

Waste(t) ==
    /\ t \notin spent
    /\ spent' = spent \cup {t}
    /\ UNCHANGED <<credit, effects>>

(***************************************************************************)
(* The device is told to act: the approval is used up, and so is the key.  *)
(***************************************************************************)
Act(k, o, t) ==
    /\ [token |-> t, order |-> o] \in credit
    /\ k = NoKey \/ \A e \in effects : e.key # k
    /\ credit' = credit \ {[token |-> t, order |-> o]}
    /\ effects' = effects \cup {[key |-> k, order |-> o, token |-> t]}
    /\ UNCHANGED spent

Next ==
    \/ \E t \in Tokens : Waste(t)
    \/ \E t \in Tokens, o \in Orders : Accept(t, o)
    \/ \E k \in Keys \cup {NoKey}, o \in Orders, t \in Tokens : Act(k, o, t)

Spec == Init /\ [][Next]_vars

=============================================================================
