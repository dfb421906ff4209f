------------------------ MODULE PaymentFulfillment ------------------------
(***************************************************************************)
(* From a paid order to a licence key.  Two providers call the server by   *)
(* webhook: Lemon Squeezy (services/payments.py) and BTCPay                *)
(* (services/btcpay.py).  A provider repeats a webhook until it is         *)
(* answered with success, may send it again after that, and its deliveries *)
(* run concurrently.  A Lemon Squeezy order is claimed, served and         *)
(* completed in three transactions; a BTCPay invoice in one.  A worker can *)
(* die between any two transactions, and a transaction can fail.           *)
(***************************************************************************)
EXTENDS Naturals

CONSTANTS
    Orders,       \* Lemon Squeezy orders
    Invoices,     \* BTCPay invoices
    Deliveries,   \* webhook requests that can be in progress at once
    Keys,         \* bound: licence keys that can be generated
    NoPayment, NoKey

VARIABLES
    bought,     \* the plan that was paid for; "other" is not of this shop
    recorded,   \* rows of btcpay_invoice_plans
    settled,    \* payments made, of which the provider tells
    acked,      \* payments whose webhook was answered with success
    claim,      \* the license_key of processed_webhooks and processed_invoices
    licence,    \* rows of pro_licenses
    delivery,   \* the webhook requests in progress
    counted,    \* history: how often a payment was counted as a paid conversion
    unread      \* history: invoices whose row of recorded could not be read

vars == <<bought, recorded, settled, acked, claim, licence, delivery, counted, unread>>

Payments == Orders \cup Invoices
Plans == {"pro", "premium"}

Licence == [for : Payments \cup {NoPayment}, plan : Plans]
Unissued == [for |-> NoPayment, plan |-> "pro"]

Delivery == [pc : {"idle", "claim", "issue", "release", "complete", "check", "plan", "fulfil", "count"},
             of : Payments \cup {NoPayment}, plan : Plans, key : Keys \cup {NoKey}]
Idle == [pc |-> "idle", of |-> NoPayment, plan |-> "pro", key |-> NoKey]

Assumptions ==
    /\ Orders \cap Invoices = {}
    /\ NoPayment \notin Payments
    /\ Keys \cap {NoKey, "none", "empty"} = {} /\ NoKey \notin {"none", "empty"}

TypeOK ==
    /\ bought \in [Payments -> Plans \cup {"other"}]
    /\ recorded \subseteq Invoices
    /\ settled \subseteq Payments
    /\ acked \subseteq Payments
    /\ claim \in [Payments -> Keys \cup {"none", "empty"}]
    /\ licence \in [Keys -> Licence]
    /\ delivery \in [Deliveries -> Delivery]
    /\ counted \in [Payments -> Nat]
    /\ unread \subseteq Invoices

(* An invoice may carry the empty claim of a fulfilment that crashed before   *)
(* claim and licence shared a transaction, with or without its orphan licence. *)
Init ==
    /\ bought \in [Payments -> Plans \cup {"other"}]
    /\ \E stuck \in SUBSET {i \in Invoices : bought[i] # "other"} :
       \E orphan \in [stuck -> Keys \cup {NoKey}] :
         /\ \A i, j \in stuck : orphan[i] = orphan[j] => i = j \/ orphan[i] = NoKey
         /\ recorded = stuck
         /\ settled = stuck
         /\ claim = [p \in Payments |-> IF p \in stuck THEN "empty" ELSE "none"]
         /\ licence = [k \in Keys |->
              IF \E i \in stuck : orphan[i] = k
              THEN LET i == CHOOSE j \in stuck : orphan[j] = k
                   IN  [for |-> i, plan |-> bought[i]]
              ELSE Unissued]
    /\ acked = {}
    /\ delivery = [d \in Deliveries |-> Idle]
    /\ counted = [p \in Payments |-> 0]
    /\ unread = {}

-----------------------------------------------------------------------------
(***************************************************************************)
(* Buyers and providers                                                    *)
(***************************************************************************)

(* _api_upgrade_checkout_btc: the buyer learns of an invoice only after its *)
(* plan is recorded.                                                        *)
Checkout(i) ==
    /\ bought[i] # "other"
    /\ i \notin recorded
    /\ recorded' = recorded \cup {i}
    /\ UNCHANGED <<bought, settled, acked, claim, licence, delivery, counted, unread>>

Settle(p) ==
    /\ p \notin settled
    /\ p \in Invoices => p \in recorded \/ bought[p] = "other"
    /\ settled' = settled \cup {p}
    /\ UNCHANGED <<bought, recorded, acked, claim, licence, delivery, counted, unread>>

(* A webhook with a valid signature arrives, for the first time or again. *)
Deliver(d, p) ==
    /\ p \in settled
    /\ delivery[d] = Idle
    /\ delivery' = [delivery EXCEPT ![d] =
         [Idle EXCEPT !.pc = IF p \in Orders THEN "claim" ELSE "check", !.of = p]]
    /\ UNCHANGED <<bought, recorded, settled, acked, claim, licence, counted, unread>>

-----------------------------------------------------------------------------
(***************************************************************************)
(* The end of a delivery                                                   *)
(***************************************************************************)
Continue(d, pc) == delivery' = [delivery EXCEPT ![d].pc = pc]

(* 2xx: the provider does not have to repeat the webhook. *)
Ack(d) ==
    /\ delivery' = [delivery EXCEPT ![d] = Idle]
    /\ acked' = acked \cup {delivery[d].of}

(* An exception: 500, and the provider will repeat it. *)
Raise(d) == delivery' = [delivery EXCEPT ![d] = Idle] /\ UNCHANGED acked

(* A transaction fails and has no effect. *)
Fail(d) ==
    /\ delivery[d].pc \in {"claim", "release", "complete", "fulfil"}
    /\ Raise(d)
    /\ UNCHANGED <<bought, recorded, settled, claim, licence, counted, unread>>

(* The worker dies. *)
Crash(d) ==
    /\ delivery[d].pc # "idle"
    /\ Raise(d)
    /\ UNCHANGED <<bought, recorded, settled, claim, licence, counted, unread>>

Fresh(k) == licence[k].for = NoPayment

IssueLicence(k, p, plan) ==
    licence' = [licence EXCEPT ![k] = [for |-> p, plan |-> plan]]

-----------------------------------------------------------------------------
(***************************************************************************)
(* Lemon Squeezy: handle_webhook                                           *)
(***************************************************************************)
ClaimAlways(d) ==  \* mutant: an empty claim is taken over instead of left alone
    /\ delivery[d].pc = "claim"
    /\ LET p == delivery[d].of IN
       IF bought[p] = "other" \/ claim[p] \in Keys
       THEN Ack(d) /\ UNCHANGED claim
       ELSE /\ claim' = [claim EXCEPT ![p] = "empty"]
            /\ Continue(d, "issue")
            /\ UNCHANGED acked
    /\ UNCHANGED <<bought, recorded, settled, licence, counted, unread>>

(* The variant and the store are checked, then _claim_order: an order that is   *)
(* claimed already is acknowledged, whether its key is there or not.            *)
ClaimOrder(d) ==
    /\ delivery[d].pc = "claim"
    /\ LET p == delivery[d].of IN
       IF bought[p] = "other" \/ claim[p] # "none"
       THEN Ack(d) /\ UNCHANGED claim
       ELSE /\ claim' = [claim EXCEPT ![p] = "empty"]
            /\ Continue(d, "issue")
            /\ UNCHANGED acked
    /\ UNCHANGED <<bought, recorded, settled, licence, counted, unread>>

(* issue_license commits the key, or raises. *)
IssueOrder(d) ==
    /\ delivery[d].pc = "issue"
    /\ \/ \E k \in Keys :
            /\ Fresh(k)
            /\ IssueLicence(k, delivery[d].of, bought[delivery[d].of])
            /\ delivery' = [delivery EXCEPT ![d].pc = "complete", ![d].key = k]
       \/ Continue(d, "release") /\ UNCHANGED licence
    /\ UNCHANGED <<bought, recorded, settled, acked, claim, counted, unread>>

(* _release_claim; the webhook is answered with an error. *)
ReleaseClaim(d) ==
    /\ delivery[d].pc = "release"
    /\ claim' = [claim EXCEPT ![delivery[d].of] = "none"]
    /\ Raise(d)
    /\ UNCHANGED <<bought, recorded, settled, licence, counted, unread>>

CompleteOrReleaseOrder(d) ==  \* mutant: a failed completion releases the claim, too
    /\ delivery[d].pc = "complete"
    /\ \/ /\ claim' = [claim EXCEPT ![delivery[d].of] = delivery[d].key]
          /\ Continue(d, "count")
       \/ Continue(d, "release") /\ UNCHANGED claim
    /\ UNCHANGED <<bought, recorded, settled, acked, licence, counted, unread>>

(* _complete_order, outside the handler that releases. *)
CompleteOrder(d) ==
    /\ delivery[d].pc = "complete"
    /\ claim' = [claim EXCEPT ![delivery[d].of] = delivery[d].key]
    /\ Continue(d, "count")
    /\ UNCHANGED <<bought, recorded, settled, acked, licence, counted, unread>>

-----------------------------------------------------------------------------
(***************************************************************************)
(* BTCPay: handle_invoice_webhook                                          *)
(***************************************************************************)

(* An invoice that invoice_hash_known does not find is acknowledged and left   *)
(* alone.  A read that fails looks the same to it.                             *)
CheckInvoice(d) ==
    /\ delivery[d].pc = "check"
    /\ LET p == delivery[d].of IN
       \/ p \in recorded /\ Continue(d, "plan") /\ UNCHANGED <<acked, unread>>
       \/ p \notin recorded /\ Ack(d) /\ UNCHANGED unread
       \/ p \in recorded /\ Ack(d) /\ unread' = unread \cup {p}
    /\ UNCHANGED <<bought, recorded, settled, claim, licence, counted>>

ReadPlanDefault(d) ==  \* mutant: the plan is not looked up
    /\ delivery[d].pc = "plan"
    /\ delivery' = [delivery EXCEPT ![d].pc = "fulfil", ![d].plan = "pro"]
    /\ UNCHANGED <<bought, recorded, settled, acked, claim, licence, counted, unread>>

(* _invoice_plan: "pro" when the read fails. *)
ReadPlan(d) ==
    /\ delivery[d].pc = "plan"
    /\ LET p == delivery[d].of IN
       \/ /\ delivery' = [delivery EXCEPT ![d].pc = "fulfil", ![d].plan = bought[p]]
          /\ UNCHANGED unread
       \/ /\ delivery' = [delivery EXCEPT ![d].pc = "fulfil", ![d].plan = "pro"]
          /\ unread' = unread \cup {p}
    /\ UNCHANGED <<bought, recorded, settled, acked, claim, licence, counted>>

FulfilStuck(d) ==  \* mutant: an empty claim is served
    /\ delivery[d].pc = "fulfil"
    /\ LET p == delivery[d].of IN
       IF claim[p] \in Keys
       THEN Ack(d) /\ UNCHANGED <<claim, licence>>
       ELSE \E k \in Keys :
              /\ Fresh(k)
              /\ IssueLicence(k, p, delivery[d].plan)
              /\ claim' = [claim EXCEPT ![p] = k]
              /\ Continue(d, "count")
              /\ UNCHANGED acked
    /\ UNCHANGED <<bought, recorded, settled, counted, unread>>

FulfilUnlinked(d) ==  \* mutant: the completion is left out of the transaction
    /\ delivery[d].pc = "fulfil"
    /\ LET p == delivery[d].of IN
       IF claim[p] # "none"
       THEN Ack(d) /\ UNCHANGED <<claim, licence>>
       ELSE \E k \in Keys :
              /\ Fresh(k)
              /\ IssueLicence(k, p, delivery[d].plan)
              /\ claim' = [claim EXCEPT ![p] = "empty"]
              /\ Continue(d, "count")
              /\ UNCHANGED acked
    /\ UNCHANGED <<bought, recorded, settled, counted, unread>>

(* _atomic_fulfill: claim, licence and link in one transaction.  A replay is      *)
(* acknowledged; a claim without a key is never served, but fails for all to see. *)
Fulfil(d) ==
    /\ delivery[d].pc = "fulfil"
    /\ LET p == delivery[d].of IN
       \/ claim[p] \in Keys /\ Ack(d) /\ UNCHANGED <<claim, licence>>
       \/ claim[p] = "empty" /\ Raise(d) /\ UNCHANGED <<claim, licence>>
       \/ /\ claim[p] = "none"
          /\ \E k \in Keys :
               /\ Fresh(k)
               /\ IssueLicence(k, p, delivery[d].plan)
               /\ claim' = [claim EXCEPT ![p] = k]
          /\ Continue(d, "count")
          /\ UNCHANGED acked
    /\ UNCHANGED <<bought, recorded, settled, counted, unread>>

(* track_event("paid"), which may fail, and the answer. *)
CountPaid(d) ==
    /\ delivery[d].pc = "count"
    /\ \/ counted' = [counted EXCEPT ![delivery[d].of] = @ + 1]
       \/ UNCHANGED counted
    /\ Ack(d)
    /\ UNCHANGED <<bought, recorded, settled, claim, licence, unread>>

-----------------------------------------------------------------------------
ServeOrder(d) == ClaimOrder(d) \/ IssueOrder(d) \/ ReleaseClaim(d) \/ CompleteOrder(d)
ServeInvoice(d) == CheckInvoice(d) \/ ReadPlan(d) \/ Fulfil(d)

Next ==
    \/ \E i \in Invoices : Checkout(i)
    \/ \E p \in Payments : Settle(p) \/ \E d \in Deliveries : Deliver(d, p)
    \/ \E d \in Deliveries : ServeOrder(d) \/ ServeInvoice(d) \/ CountPaid(d) \/ Fail(d) \/ Crash(d)

Spec == Init /\ [][Next]_vars

(***************************************************************************)
(* BTCPay repeats a webhook that was not answered with success, and what   *)
(* fails or dies does not do so for ever.  A delivery that serves another  *)
(* payment comes to its end.                                               *)
(***************************************************************************)
For(d, p) == delivery[d].of = p

Fairness ==
    /\ \A i \in Invoices :
         /\ SF_vars(i \notin acked /\ \E d \in Deliveries : Deliver(d, i))
         /\ SF_vars(\E d \in Deliveries : For(d, i) /\ CheckInvoice(d))
         /\ SF_vars(\E d \in Deliveries : For(d, i) /\ ReadPlan(d))
         /\ SF_vars(\E d \in Deliveries : For(d, i) /\ Fulfil(d))
    /\ WF_vars(\E d \in Deliveries : ServeOrder(d) \/ CountPaid(d))

FairSpec == Spec /\ Fairness

-----------------------------------------------------------------------------
(***************************************************************************)
(* Properties                                                              *)
(***************************************************************************)

(* Never two keys for one purchase, however often a webhook is repeated, in  *)
(* how many workers at once, and wherever they die.  No key without one.     *)
OneLicencePerPayment ==
    \A k, l \in Keys :
        ~Fresh(k) /\ licence[k].for = licence[l].for => k = l /\ licence[k].for \in settled

(* A key in the ledger, which the status poll hands to the buyer, is a licence  *)
(* for that payment and of the plan that was paid for.  The one exception is a   *)
(* plan that could not be read.                                                 *)
ClaimsAreBacked ==
    \A p \in Payments : claim[p] \in Keys =>
        /\ licence[claim[p]].for = p
        /\ licence[claim[p]].plan = bought[p] \/ p \in unread

(* An invoice of this shop is acknowledged only when its key is there: a claim  *)
(* without a key stays visible to the provider as an error.  The one exception   *)
(* is an invoice that could not be read.                                         *)
AcknowledgedIsFulfilled ==
    \A i \in Invoices \cap acked : bought[i] # "other" => claim[i] \in Keys \/ i \in unread

(* A payment is one paid conversion at most, and only with a key issued for it. *)
CountedOnce ==
    \A p \in Payments : counted[p] # 0 => counted[p] = 1 /\ claim[p] \in Keys

(* What is paid for is honoured once: a key, the plan, the ledger and the count *)
(* agree.                                                                       *)
PaymentsAreHonoured ==
    OneLicencePerPayment /\ ClaimsAreBacked /\ AcknowledgedIsFulfilled /\ CountedOnce

(* Every settled invoice of this shop gets its key in the end, unless it carries  *)
(* a claim from before fulfilment was atomic or could not be read.                *)
SettledIsFulfilled ==
    \A i \in Invoices :
        (i \in settled /\ bought[i] # "other" /\ claim[i] = "none")
            ~> (claim[i] \in Keys \/ i \in unread)

-----------------------------------------------------------------------------
(***************************************************************************)
(* The promise                                                             *)
(***************************************************************************)
Promise == INSTANCE LicensePromise WITH
    paid <- settled,
    granted <- {[payment |-> licence[k].for, key |-> k] : k \in {l \in Keys : ~Fresh(l)}}

ImplementsPromise == Promise!Spec
=============================================================================
