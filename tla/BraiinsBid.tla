----------------------------- MODULE BraiinsBid -----------------------------
(***************************************************************************)
(* Buying hashrate on Braiins: api_braiins_bid in app.py, with the         *)
(* confirmations and the rows of services/operation_ledger.py, the order   *)
(* create_braiins_bid sends to the provider, the audit, and the view that  *)
(* reconciles them, api_braiins_bid_reconcile.  An order is what a         *)
(* confirmation is bound to: a client order id, which is the idempotency   *)
(* key too, and terms.  A request stops between any two calls that reach   *)
(* the database or the provider, and its process can die there.            *)
(***************************************************************************)
EXTENDS Naturals, FiniteSets

CONSTANTS
    Purchases,     \* requests, not the dry runs
    Ids, Terms,    \* client order ids; speed, amount, price and upstream
    Consents,
    NoId, NoConsent,
    MaxBids,       \* max_bids_per_subaccount
    MaxDeaths, MaxViews   \* bounds

VARIABLES
    purchase,  \* the requests
    consent,   \* operation_confirmations
    ledger,    \* external_operations, by idempotency key
    bid,       \* the bids at the provider
    audited,   \* audit_logs: orders with outcome "placed"
    view,      \* a request to the reconcile view
    posted,    \* history: the POSTs, [order, token]
    doubted,   \* history: bids that were accepted and answered with an error
    spare      \* crashes and views that may come

bidVars == <<purchase, consent, ledger, bid, audited, view, posted, doubted, spare>>

BidAssumptions ==
    /\ MaxBids \in Nat \ {0} /\ {MaxDeaths, MaxViews} \subseteq Nat
    /\ NoId \notin Ids /\ NoConsent \notin Consents

BidOrders == [id : Ids, terms : Terms]
NoOrder == [id |-> NoId, terms |-> NoId]
BidOutcomes == {"placed", "ambiguous", "rejected"}
Replies == {"none", "disabled", "mismatch", "replayed", "unconfirmed", "limited", "accepted",
            "unknown", "refused", "dead"}
Purchase == [pc : {"idle", "lookup", "confirm", "claim", "limit", "check", "post", "done",
                  "record", "audit", "verify", "settle"},
            order : BidOrders \cup {NoOrder}, token : Consents \cup {NoConsent},
            outcome : BidOutcomes \cup {"none"}, reply : Replies]
IdlePurchase == [pc |-> "idle", order |-> NoOrder, token |-> NoConsent, outcome |-> "none", reply |-> "none"]
LedgerRow == [terms : Terms,
        state : {"submitting", "acknowledged", "rejected", "unknown", "reconciled"},
        recon : {"pending", "failed", "unknown", "confirmed"}]
UnissuedConsent == [state |-> "unissued", order |-> NoOrder]
NoLedgerRow == [state |-> "absent"]
View == [pc : {"idle", "list", "update"}, todo : SUBSET Ids, found : SUBSET Ids]
NoView == [pc |-> "idle", todo |-> {}, found |-> {}]

BidTypeOK ==
    /\ purchase \in [Purchases -> Purchase]
    /\ consent \in [Consents -> [state : {"unissued", "issued", "burned"}, order : BidOrders \cup {NoOrder}]]
    /\ ledger \in [Ids -> LedgerRow \cup {NoLedgerRow}]
    /\ bid \in [Ids -> {"none", "active", "over"}]
    /\ audited \subseteq Ids
    /\ view \in View
    /\ posted \subseteq [order : BidOrders, token : Consents]
    /\ doubted \subseteq Ids
    /\ spare \in [crashes : 0..MaxDeaths, views : 0..MaxViews]

BidInit ==
    /\ purchase = [r \in Purchases |-> IdlePurchase]
    /\ consent = [t \in Consents |-> UnissuedConsent]
    /\ ledger = [i \in Ids |-> NoLedgerRow]
    /\ bid = [i \in Ids |-> "none"]
    /\ audited = {}
    /\ view = NoView
    /\ posted = {} /\ doubted = {}
    /\ spare = [crashes |-> MaxDeaths, views |-> MaxViews]

Id(r) == purchase[r].order.id
PurchaseAt(r, pc) == purchase[r].pc = pc
Proceeds(r, pc) == purchase' = [purchase EXCEPT ![r].pc = pc]
Results(r, outcome) == purchase' = [purchase EXCEPT ![r].pc = "record", ![r].outcome = outcome]
Answered(r, reply) == [IdlePurchase EXCEPT !.pc = "done", !.order = purchase[r].order, !.reply = reply]
Answers(r, reply) == purchase' = [purchase EXCEPT ![r] = Answered(r, reply)]
ActiveBids == {i \in Ids : bid[i] = "active"}
IsSuccess(state) == state \in {"acknowledged", "reconciled"}

-----------------------------------------------------------------------------
(***************************************************************************)
(* The dry run and the gates of a purchase                                 *)
(***************************************************************************)
(* A dry run passes the limits and issues a fresh confirmation of its order. *)
DryRun(order) ==
    /\ \E t \in Consents : consent[t] = UnissuedConsent
    /\ LET t == CHOOSE x \in Consents : consent[x] = UnissuedConsent IN
       consent' = [consent EXCEPT ![t] = [state |-> "issued", order |-> order]]
    /\ UNCHANGED <<purchase, ledger, bid, audited, view, posted, doubted, spare>>

(* With the kill switch on; it is read again in Check.  A client presents *)
(* what a dry run gave it.                                                *)
Arrive(r) ==
    /\ PurchaseAt(r, "idle")
    /\ \E order \in BidOrders, t \in {x \in Consents : consent[x] # UnissuedConsent} \cup {NoConsent} :
         purchase' = [purchase EXCEPT ![r] = [IdlePurchase EXCEPT !.pc = "lookup", !.order = order, !.token = t]]
    /\ UNCHANGED <<consent, ledger, bid, audited, view, posted, doubted, spare>>

Block(r) ==
    /\ PurchaseAt(r, "idle")
    /\ purchase' = [purchase EXCEPT ![r].pc = "done", ![r].reply = "disabled"]
    /\ UNCHANGED <<consent, ledger, bid, audited, view, posted, doubted, spare>>

(* A key that is on record is answered from the record. *)
Lookup(r) ==
    LET existing == ledger[Id(r)] IN
    /\ PurchaseAt(r, "lookup")
    /\ CASE existing = NoLedgerRow -> Proceeds(r, "confirm")
         [] existing # NoLedgerRow /\ existing.terms # purchase[r].order.terms -> Answers(r, "mismatch")
         [] OTHER -> Answers(r, IF IsSuccess(existing.state) THEN "accepted" ELSE "replayed")
    /\ UNCHANGED <<consent, ledger, bid, audited, view, posted, doubted, spare>>

ConfirmsId(r) ==  \* mutant: a confirmation is bound to the id only
    /\ purchase[r].token # NoConsent
    /\ consent[purchase[r].token].state = "issued"
    /\ consent[purchase[r].token].order.id = Id(r)

Confirms(r) ==
    /\ purchase[r].token # NoConsent
    /\ consent[purchase[r].token] = [state |-> "issued", order |-> purchase[r].order]

(* A token is burned, whatever it was for; any may have expired. *)
Consume(r) ==
    /\ PurchaseAt(r, "confirm")
    /\ \/ Confirms(r) /\ Proceeds(r, "claim")
       \/ Answers(r, "unconfirmed")
    /\ consent' = IF purchase[r].token # NoConsent /\ consent[purchase[r].token].state = "issued"
                THEN [consent EXCEPT ![purchase[r].token].state = "burned"] ELSE consent
    /\ UNCHANGED <<ledger, bid, audited, view, posted, doubted, spare>>

Submitting(r) == [terms |-> purchase[r].order.terms, state |-> "submitting", recon |-> "pending"]

ClaimAgain(r) ==  \* mutant: the key is not looked up a second time
    /\ PurchaseAt(r, "claim") /\ Proceeds(r, "limit")
    /\ ledger' = [ledger EXCEPT ![Id(r)] = Submitting(r)]
    /\ UNCHANGED <<consent, bid, audited, view, posted, doubted, spare>>

Claim(r) ==
    /\ PurchaseAt(r, "claim")
    /\ IF ledger[Id(r)] = NoLedgerRow
       THEN ledger' = [ledger EXCEPT ![Id(r)] = Submitting(r)] /\ Proceeds(r, "limit")
       ELSE ledger' = ledger /\ Answers(r, "replayed")
    /\ UNCHANGED <<consent, bid, audited, view, posted, doubted, spare>>

Updated(i, state, recon) == ledger' = [ledger EXCEPT ![i].state = state, ![i].recon = recon]

(* The minute's budget may be spent, by whatever bids of the tenant. *)
Limit(r) ==
    /\ PurchaseAt(r, "limit")
    /\ \/ Updated(Id(r), "rejected", "failed") /\ Answers(r, "limited")
       \/ Proceeds(r, "check") /\ UNCHANGED ledger
    /\ UNCHANGED <<consent, bid, audited, view, posted, doubted, spare>>

-----------------------------------------------------------------------------
(***************************************************************************)
(* create_braiins_bid, and what becomes of its result                      *)
(***************************************************************************)
(* The policy, the key, the limits of the market and the number of active    *)
(* bids; a provider that does not tell the number is a refusal, one that     *)
(* does not tell the limits is not asked for it and left to refuse by itself. *)
Check(r) ==
    /\ PurchaseAt(r, "check")
    /\ Proceeds(r, "post") \/ Results(r, "rejected")
    /\ UNCHANGED <<consent, ledger, bid, audited, view, posted, doubted, spare>>

OutcomeOfError == "rejected"   \* HTTP 4xx and 5xx
OutcomeOfNoAnswerAsError == "rejected"   \* mutant: a timeout is an error
OutcomeOfNoAnswer == "ambiguous"   \* requests.Timeout and RequestException

(* The provider accepts the order or not (never one bid too many), and says *)
(* so, or not, or a gateway speaks for it.                                  *)
PostBid(r) ==
    /\ PurchaseAt(r, "post")
    /\ \/ /\ Cardinality(ActiveBids) < MaxBids
          /\ bid' = [bid EXCEPT ![Id(r)] = "active"]
          /\ \/ Results(r, "placed") /\ UNCHANGED doubted
             \/ Results(r, OutcomeOfNoAnswer) /\ UNCHANGED doubted
             \/ Results(r, OutcomeOfError) /\ doubted' = doubted \cup {Id(r)}
       \/ /\ UNCHANGED <<bid, doubted>>
          /\ \E o \in {OutcomeOfNoAnswer, OutcomeOfError} : Results(r, o)
    /\ posted' = posted \cup {[order |-> purchase[r].order, token |-> purchase[r].token]}
    /\ UNCHANGED <<consent, ledger, audited, view, spare>>

RecordBid(r) ==
    /\ PurchaseAt(r, "record") /\ Proceeds(r, "audit")
    /\ CASE purchase[r].outcome = "placed" -> Updated(Id(r), "acknowledged", "pending")
         [] purchase[r].outcome = "ambiguous" -> Updated(Id(r), "unknown", "unknown")
         [] purchase[r].outcome = "rejected" -> Updated(Id(r), "rejected", "failed")
    /\ UNCHANGED <<consent, bid, audited, view, posted, doubted, spare>>

(* An ambiguous bid is audited as rejected. *)
Audit(r) ==
    /\ PurchaseAt(r, "audit")
    /\ IF purchase[r].outcome = "placed"
       THEN audited' = audited \cup {Id(r)} /\ Proceeds(r, "verify")
       ELSE UNCHANGED audited
            /\ Answers(r, IF purchase[r].outcome = "ambiguous" THEN "unknown" ELSE "refused")
    /\ UNCHANGED <<consent, ledger, bid, view, posted, doubted, spare>>

(* The active bids, read up to three times: the bid is among them, or the *)
(* row stays as it is.                                                    *)
Verify(r) ==
    /\ PurchaseAt(r, "verify")
    /\ \/ Id(r) \in ActiveBids /\ Proceeds(r, "settle")
       \/ Answers(r, "accepted")
    /\ UNCHANGED <<consent, ledger, bid, audited, view, posted, doubted, spare>>

SettleBid(r) ==
    /\ PurchaseAt(r, "settle") /\ Answers(r, "accepted")
    /\ Updated(Id(r), "reconciled", "confirmed")
    /\ UNCHANGED <<consent, bid, audited, view, posted, doubted, spare>>

-----------------------------------------------------------------------------
(***************************************************************************)
(* The reconcile view, the provider and the process                        *)
(***************************************************************************)
ViewAudit ==
    /\ view.pc = "idle" /\ spare.views > 0
    /\ view' = [NoView EXCEPT !.pc = "list", !.todo = audited]
    /\ spare' = [spare EXCEPT !.views = @ - 1]
    /\ UNCHANGED <<purchase, consent, ledger, bid, audited, posted, doubted>>

(* A provider that cannot be asked has no bids. *)
ViewList ==
    /\ view.pc = "list"
    /\ \E found \in {ActiveBids, {}} : view' = [view EXCEPT !.pc = "update", !.found = found]
    /\ UNCHANGED <<purchase, consent, ledger, bid, audited, posted, doubted, spare>>

ViewMissingAsFailed(i) ==  \* mutant: a bid that is not active was never there
    IF i \in view.found THEN Updated(i, "reconciled", "confirmed") ELSE Updated(i, "rejected", "failed")

(* Whatever is not found is unknown, also what was confirmed before. *)
ViewVerdict(i) ==
    IF i \in view.found THEN Updated(i, "reconciled", "confirmed") ELSE Updated(i, "unknown", "unknown")

ViewUpdate ==
    /\ view.pc = "update"
    /\ IF view.todo = {} THEN view' = NoView /\ UNCHANGED ledger
       ELSE \E i \in view.todo : ViewVerdict(i) /\ view' = [view EXCEPT !.todo = @ \ {i}]
    /\ UNCHANGED <<purchase, consent, bid, audited, posted, doubted, spare>>

(* A bid is filled, cancelled or expires. *)
End(i) ==
    /\ bid[i] = "active" /\ bid' = [bid EXCEPT ![i] = "over"]
    /\ UNCHANGED <<purchase, consent, ledger, audited, view, posted, doubted, spare>>

Running(r) == ~(PurchaseAt(r, "idle") \/ PurchaseAt(r, "done"))

BidCrash ==
    /\ spare.crashes > 0 /\ spare' = [spare EXCEPT !.crashes = @ - 1]
    /\ purchase' = [r \in Purchases |->
                 IF Running(r) THEN Answered(r, "dead") ELSE purchase[r]]
    /\ view' = NoView
    /\ UNCHANGED <<consent, ledger, bid, audited, posted, doubted>>

-----------------------------------------------------------------------------
PurchaseStep(r) ==
    \/ Arrive(r) \/ Block(r) \/ Lookup(r) \/ Consume(r) \/ Claim(r) \/ Limit(r)
    \/ Check(r) \/ PostBid(r) \/ RecordBid(r) \/ Audit(r) \/ Verify(r) \/ SettleBid(r)

BidNext ==
    \/ \E order \in BidOrders : DryRun(order)
    \/ \E r \in Purchases : PurchaseStep(r)
    \/ ViewAudit \/ ViewList \/ ViewUpdate
    \/ \E i \in Ids : End(i)
    \/ BidCrash

BidSpec == BidInit /\ [][BidNext]_bidVars

-----------------------------------------------------------------------------
(***************************************************************************)
(* Properties                                                              *)
(***************************************************************************)
(* An id buys once: however requests race, are retried or die, one POST is *)
(* sent for it, on record with its terms and with a confirmation of its    *)
(* order that no other POST has used.                                      *)
OneBidPerId ==
    /\ \A p, q \in posted : p.order.id = q.order.id \/ p.token = q.token => p = q
    /\ \A p \in posted :
         /\ ledger[p.order.id] # NoLedgerRow /\ ledger[p.order.id].terms = p.order.terms
         /\ consent[p.token] = [state |-> "burned", order |-> p.order]
    /\ \A r, q \in Purchases :
         Running(r) /\ Running(q) /\ Id(r) = Id(q)
           /\ {purchase[r].pc, purchase[q].pc} \cap {"lookup", "confirm", "claim"} = {} => r = q

(* Nobody is told, and no row says, that a bid was accepted which was not. *)
AcceptedIsTrue ==
    /\ \A i \in Ids : IsSuccess(ledger[i].state) => bid[i] # "none"
    /\ \A r \in Purchases : purchase[r].reply = "accepted" => bid[Id(r)] # "none"

(* A bid that stands at the provider is not written off: unless a gateway   *)
(* denied it, its row says accepted or unknown once its request is through, *)
(* and "submitting" for good only if the process died.                      *)
BidsAreKnown ==
    \A i \in Ids : bid[i] # "none" =>
        /\ ledger[i].state = "rejected" => i \in doubted
        /\ ledger[i].state = "submitting" =>
             \E r \in Purchases : Id(r) = i /\ (Running(r) \/ purchase[r].reply = "dead")

(* Money is spent once, with consent, and what it bought stays known. *)
BidsAreAccountedFor == OneBidPerId /\ AcceptedIsTrue /\ BidsAreKnown
=============================================================================
