-------------------------- MODULE Purchases_proofs --------------------------
(***************************************************************************)
(* Proofs about what is bought: licences, by orders and invoices           *)
(* (PaymentFulfillment), and hashrate, by bids (BraiinsBid); for any       *)
(* number of orders, invoices, keys and concurrent deliveries, and of      *)
(* purchases, order ids, terms and confirmations.                          *)
(***************************************************************************)
EXTENDS PaymentFulfillment, BraiinsBid, TLAPS

(* A delivery that holds the claim of its payment, or has just filled it. *)
Serving(d) == delivery[d].pc \in {"issue", "release", "complete", "count"}

Unserved(p) == \A k \in Keys : licence[k].for # p

(* One delivery serves a payment at a time: the next finds it claimed. *)
OneServer ==
    \A d, e \in Deliveries :
        Serving(d) /\ Serving(e) /\ delivery[d].of = delivery[e].of => d = e

(* What a delivery may rely on at each of its steps. *)
DeliveryIsSound(d) ==
    LET p == delivery[d].of
        pc == delivery[d].pc IN
    /\ pc # "idle" => p \in settled
    /\ pc \in {"claim", "issue", "release", "complete"} => p \in Orders
    /\ pc \in {"check", "plan", "fulfil"} => p \in Invoices
    /\ pc \in {"issue", "release", "complete"} => bought[p] # "other" /\ claim[p] = "empty"
    /\ pc \in {"issue", "release"} => Unserved(p)
    /\ pc = "complete" =>
         delivery[d].key \in Keys /\ licence[delivery[d].key] = [for |-> p, plan |-> bought[p]]
    /\ pc \in {"plan", "fulfil"} => p \in recorded
    /\ pc = "fulfil" => delivery[d].plan = bought[p] \/ p \in unread
    /\ pc = "count" => claim[p] \in Keys /\ counted[p] = 0

(* A claim says what has been done for a payment. *)
ClaimIsSound(p) ==
    /\ claim[p] = "none" => Unserved(p)
    /\ claim[p] \in Keys =>
         /\ licence[claim[p]].for = p
         /\ licence[claim[p]].plan = bought[p] \/ p \in unread
    /\ counted[p] # 0 => counted[p] = 1 /\ claim[p] \in Keys

(* An invoice of this shop is recorded before it can be paid. *)
InvoiceIsSound(i) ==
    /\ i \in recorded => bought[i] # "other"
    /\ i \in settled => i \in recorded \/ bought[i] = "other"
    /\ i \in acked /\ bought[i] # "other" => claim[i] \in Keys \/ i \in unread

PaymentInv ==
    /\ TypeOK
    /\ OneLicencePerPayment
    /\ OneServer
    /\ \A d \in Deliveries : DeliveryIsSound(d)
    /\ \A p \in Payments : ClaimIsSound(p)
    /\ \A i \in Invoices : InvoiceIsSound(i)

-----------------------------------------------------------------------------
(* A sitting server starts from a sound ledger, orphan licences included. *)
LEMMA PaymentInit ==
    ASSUME Assumptions, Init
    PROVE  PaymentInv
<1>0. PICK stuck \in SUBSET {i \in Invoices : bought[i] # "other"} :
        \E orphan \in [stuck -> Keys \cup {NoKey}] :
         /\ \A i, j \in stuck : orphan[i] = orphan[j] => i = j \/ orphan[i] = NoKey
         /\ recorded = stuck
         /\ settled = stuck
         /\ claim = [p \in Payments |-> IF p \in stuck THEN "empty" ELSE "none"]
         /\ licence = [k \in Keys |->
              IF \E i \in stuck : orphan[i] = k
              THEN LET i == CHOOSE j \in stuck : orphan[j] = k
                   IN  [for |-> i, plan |-> bought[i]]
              ELSE Unissued]
  BY DEF Init
<1>1. PICK orphan \in [stuck -> Keys \cup {NoKey}] :
         /\ \A i, j \in stuck : orphan[i] = orphan[j] => i = j \/ orphan[i] = NoKey
         /\ recorded = stuck
         /\ settled = stuck
         /\ claim = [p \in Payments |-> IF p \in stuck THEN "empty" ELSE "none"]
         /\ licence = [k \in Keys |->
              IF \E i \in stuck : orphan[i] = k
              THEN LET i == CHOOSE j \in stuck : orphan[j] = k
                   IN  [for |-> i, plan |-> bought[i]]
              ELSE Unissued]
  BY <1>0
<1>2. ASSUME NEW k \in Keys, licence[k].for # NoPayment
      PROVE  licence[k].for \in stuck /\ orphan[licence[k].for] = k
             /\ licence[k].plan = bought[licence[k].for]
  <2>1. \E i \in stuck : orphan[i] = k
    BY <1>1, <1>2 DEF Unissued
  <2>2. PICK i \in stuck : orphan[i] = k /\ i = CHOOSE j \in stuck : orphan[j] = k
    BY <2>1
  <2> QED
    BY <1>1, <2>1, <2>2
<1>3. \A k \in Keys : licence[k] \in Licence
  <2> SUFFICES ASSUME NEW k \in Keys PROVE licence[k] \in Licence
    OBVIOUS
  <2>1. CASE \E i \in stuck : orphan[i] = k
    <3>1. PICK i \in stuck : i = CHOOSE j \in stuck : orphan[j] = k
      BY <2>1
    <3>2. licence[k] = [for |-> i, plan |-> bought[i]]
      BY <1>1, <2>1, <3>1
    <3>3. i \in Payments /\ bought[i] \in Plans
      BY DEF Init, Payments
    <3> QED
      BY <3>2, <3>3 DEF Licence
  <2>2. CASE ~\E i \in stuck : orphan[i] = k
    BY <1>1, <2>2 DEF Licence, Unissued, Plans
  <2> QED
    BY <2>1, <2>2
<1>4. TypeOK
  BY <1>1, <1>3 DEF Init, TypeOK, Payments, Delivery, Idle, Plans
<1>5. OneLicencePerPayment
  BY <1>1, <1>2 DEF OneLicencePerPayment, Fresh, Assumptions
<1>6. OneServer /\ \A d \in Deliveries : DeliveryIsSound(d)
  BY DEF Init, OneServer, DeliveryIsSound, Serving, Idle
<1>7. ASSUME NEW p \in Payments PROVE ClaimIsSound(p)
  <2>1. counted[p] = 0 /\ claim[p] \notin Keys
    BY <1>1 DEF Init, Assumptions
  <2>2. claim[p] = "none" => Unserved(p)
    BY <1>1, <1>2 DEF Unserved, Assumptions
  <2> QED
    BY <2>1, <2>2 DEF ClaimIsSound
<1>8. \A i \in Invoices : InvoiceIsSound(i)
  BY <1>1 DEF Init, InvoiceIsSound
<1> QED
  BY <1>4, <1>5, <1>6, <1>7, <1>8 DEF PaymentInv

-----------------------------------------------------------------------------
(* A step of one delivery, about its payment p, breaks nothing elsewhere if  *)
(* no other delivery serves p and only a fresh key becomes a licence for p. *)
LEMMA ServingStep ==
    ASSUME Assumptions, PaymentInv, TypeOK', NEW d \in Deliveries, NEW p \in settled,
           UNCHANGED <<bought, recorded, settled>>,
           unread \subseteq unread',
           \A e \in Deliveries \ {d} : delivery'[e] = delivery[e],
           \A q \in Payments \ {p} : claim'[q] = claim[q] /\ counted'[q] = counted[q],
           \A k \in Keys : licence'[k] = licence[k] \/ (Fresh(k) /\ licence'[k].for = p),
           \A k, l \in Keys : licence'[k].for = p /\ licence'[l].for = p => k = l,
           acked' \subseteq acked \cup {p},
           \A e \in Deliveries \ {d} : ~(Serving(e) /\ delivery[e].of = p),
           Serving(d)' => delivery'[d].of = p,
           DeliveryIsSound(d)', ClaimIsSound(p)', p \in Invoices => InvoiceIsSound(p)'
    PROVE  PaymentInv'
<1> USE DEF PaymentInv
<1>1. p \in Payments /\ NoPayment \notin Payments
  BY DEF TypeOK, Assumptions
<1>2. OneLicencePerPayment'
  BY <1>1 DEF OneLicencePerPayment, Fresh
<1>3. OneServer'
  BY DEF OneServer, Serving
<1>4. ASSUME NEW e \in Deliveries PROVE DeliveryIsSound(e)'
  <2>1. CASE e = d
    BY <2>1
  <2>2. CASE e # d /\ delivery[e].of = p
    BY <2>2 DEF DeliveryIsSound, Serving
  <2>3. CASE e # d /\ delivery[e].of # p
    <3>1. delivery'[e] = delivery[e] /\ DeliveryIsSound(e)
      BY <2>3
    <3>2. CASE delivery[e].pc = "idle"
      BY <3>1, <3>2 DEF DeliveryIsSound
    <3>3. CASE delivery[e].pc # "idle"
      <4>1. delivery[e].of \in Payments
        BY <3>1, <3>3 DEF DeliveryIsSound, TypeOK
      <4>2. claim'[delivery[e].of] = claim[delivery[e].of]
            /\ counted'[delivery[e].of] = counted[delivery[e].of]
        BY <2>3, <4>1
      <4>3. Unserved(delivery[e].of) => Unserved(delivery[e].of)'
        BY <2>3, <3>1 DEF Unserved
      <4>4. delivery[e].pc = "complete" =>
              licence'[delivery[e].key] = [for |-> delivery[e].of, plan |-> bought[delivery[e].of]]
        BY <1>1, <3>1, <4>1 DEF DeliveryIsSound, Fresh
      <4> QED
        BY <3>1, <4>2, <4>3, <4>4 DEF DeliveryIsSound, Unserved
    <3> QED
      BY <3>2, <3>3
  <2> QED
    BY <2>1, <2>2, <2>3
<1>5. ASSUME NEW q \in Payments, q # p PROVE ClaimIsSound(q)'
  BY <1>1, <1>5 DEF ClaimIsSound, Unserved, Fresh
<1>6. ASSUME NEW i \in Invoices, i # p PROVE InvoiceIsSound(i)'
  BY <1>6 DEF InvoiceIsSound, Payments
<1> QED
  BY <1>2, <1>3, <1>4, <1>5, <1>6

(* An end of a delivery d that changes no ledger: of the rest it may only      *)
(* acknowledge an invoice that is not of this shop, or has its key, or could   *)
(* not be read.                                                                *)
LEMMA EndStep ==
    ASSUME PaymentInv, NEW d \in Deliveries,
           delivery' = [delivery EXCEPT ![d] = Idle],
           UNCHANGED <<bought, recorded, settled, claim, licence, counted>>,
           unread \subseteq unread', unread' \subseteq Invoices,
           acked' \subseteq acked \cup {delivery[d].of},
           delivery[d].pc # "idle",
           acked' # acked => delivery[d].of \in Orders \/ bought[delivery[d].of] = "other"
                               \/ claim[delivery[d].of] \in Keys \/ delivery[d].of \in unread',
           Assumptions
    PROVE  PaymentInv'
<1>1. TypeOK'
  BY DEF PaymentInv, TypeOK, DeliveryIsSound, Delivery, Idle, Payments, Plans
<1>2. OneLicencePerPayment'
  BY DEF PaymentInv, OneLicencePerPayment, Fresh
<1>3. OneServer' /\ \A e \in Deliveries : DeliveryIsSound(e)'
  BY DEF PaymentInv, TypeOK, OneServer, Serving, DeliveryIsSound, Unserved, Idle
<1>4. \A p \in Payments : ClaimIsSound(p)'
  BY DEF PaymentInv, ClaimIsSound, Unserved
<1>5. \A i \in Invoices : InvoiceIsSound(i)'
  BY DEF PaymentInv, InvoiceIsSound, Assumptions
<1> QED
  BY <1>1, <1>2, <1>3, <1>4, <1>5 DEF PaymentInv

(* Buyers pay and providers call. *)
LEMMA BuyerStep ==
    ASSUME Assumptions, PaymentInv,
           \/ \E i \in Invoices : Checkout(i)
           \/ \E p \in Payments : Settle(p) \/ \E d \in Deliveries : Deliver(d, p)
    PROVE  PaymentInv'
<1>1. ASSUME NEW i \in Invoices, Checkout(i) PROVE PaymentInv'
  BY <1>1 DEF Checkout, PaymentInv, TypeOK, OneLicencePerPayment, Fresh, OneServer, Serving,
          DeliveryIsSound, ClaimIsSound, InvoiceIsSound, Unserved
<1>2. ASSUME NEW p \in Payments, Settle(p) PROVE PaymentInv'
  BY <1>2 DEF Settle, PaymentInv, TypeOK, OneLicencePerPayment, Fresh, OneServer, Serving,
          DeliveryIsSound, ClaimIsSound, InvoiceIsSound, Unserved
<1>3. ASSUME NEW p \in Payments, NEW d \in Deliveries, Deliver(d, p) PROVE PaymentInv'
  <2> USE <1>3 DEF Deliver, PaymentInv
  <2>1. TypeOK'
    BY DEF TypeOK, Delivery, Idle, Plans
  <2>2. OneServer'
    BY DEF TypeOK, OneServer, Serving, Idle
  <2>3. DeliveryIsSound(d)'
    BY DEF TypeOK, DeliveryIsSound, Idle, Payments
  <2>4. \A e \in Deliveries \ {d} : DeliveryIsSound(e)'
    BY DEF TypeOK, DeliveryIsSound, Unserved
  <2>5. OneLicencePerPayment'
    BY DEF OneLicencePerPayment, Fresh
  <2>6. (\A q \in Payments : ClaimIsSound(q)') /\ (\A i \in Invoices : InvoiceIsSound(i)')
    BY DEF ClaimIsSound, InvoiceIsSound, Unserved
  <2>7. \A e \in Deliveries : DeliveryIsSound(e)'
    BY <2>3, <2>4
  <2> HIDE DEF Deliver
  <2> QED
    BY <2>1, <2>2, <2>5, <2>6, <2>7
<1> QED
  BY <1>1, <1>2, <1>3

(* The three transactions of an order. *)
LEMMA OrderStep ==
    ASSUME Assumptions, PaymentInv, NEW d \in Deliveries, ServeOrder(d)
    PROVE  PaymentInv'
<1>0. PICK p : p = delivery[d].of
  OBVIOUS
<1> USE <1>0 DEF PaymentInv
<1>1. delivery[d] \in Delivery /\ DeliveryIsSound(d) /\ p \in settled /\ p \in Orders
      /\ p \in Payments /\ p \notin Invoices /\ p # NoPayment
  BY DEF ServeOrder, ClaimOrder, IssueOrder, ReleaseClaim, CompleteOrder, DeliveryIsSound,
         TypeOK, Assumptions, Payments
<1>2. Serving(d) => \A e \in Deliveries \ {d} : ~(Serving(e) /\ delivery[e].of = p)
  BY DEF OneServer
<1>3. ASSUME NEW e \in Deliveries, Serving(e), delivery[e].of = p PROVE claim[p] # "none"
  BY <1>3 DEF DeliveryIsSound, Serving, Assumptions
<1>4. CASE ClaimOrder(d)
  <2>1. CASE Ack(d) /\ UNCHANGED claim
    BY <1>1, <1>4, <2>1, EndStep DEF ClaimOrder, Ack, TypeOK
  <2>2. CASE ~(Ack(d) /\ UNCHANGED claim)
    <3> USE <1>1, <1>4, <2>2
    <3>1. /\ claim[p] = "none" /\ bought[p] # "other"
          /\ claim' = [claim EXCEPT ![p] = "empty"]
          /\ delivery' = [delivery EXCEPT ![d].pc = "issue"]
      BY DEF ClaimOrder, Continue
    <3>2. TypeOK'
      BY <3>1 DEF ClaimOrder, TypeOK, Delivery
    <3>3. delivery'[d].pc = "issue" /\ delivery'[d].of = p
      BY <3>1 DEF TypeOK, Delivery
    <3>4. DeliveryIsSound(d)' /\ ClaimIsSound(p)'
      BY <3>1, <3>3 DEF ClaimOrder, TypeOK, DeliveryIsSound, ClaimIsSound, Unserved, Assumptions
    <3>5. \A k, l \in Keys : licence'[k].for = p /\ licence'[l].for = p => k = l
      BY DEF ClaimOrder, OneLicencePerPayment, Fresh
    <3>6. \A e \in Deliveries \ {d} : ~(Serving(e) /\ delivery[e].of = p)
      BY <1>3, <3>1
    <3> HIDE DEF PaymentInv
    <3> QED
      BY <3>1, <3>2, <3>3, <3>4, <3>5, <3>6, ServingStep DEF ClaimOrder, PaymentInv, TypeOK
  <2> QED
    BY <2>1, <2>2
<1>5. CASE IssueOrder(d)
  <2> USE <1>1, <1>5
  <2>1. PICK D : delivery' = [delivery EXCEPT ![d] = D] /\ D.of = p
          /\ D \in Delivery
          /\ \/ D.pc = "release" /\ UNCHANGED licence
             \/ /\ D.pc = "complete"
                /\ D.key \in Keys /\ Fresh(D.key)
                /\ licence' = [licence EXCEPT ![D.key] = [for |-> p, plan |-> bought[p]]]
    BY DEF IssueOrder, Continue, IssueLicence, Delivery, TypeOK
  <2>2. bought[p] \in Plans /\ claim[p] = "empty" /\ Unserved(p)
    BY DEF IssueOrder, DeliveryIsSound, TypeOK
  <2>3. TypeOK'
    <3>1. [for |-> p, plan |-> bought[p]] \in Licence
      BY <2>2 DEF Licence
    <3>2. licence' \in [Keys -> Licence]
      BY <2>1, <3>1 DEF TypeOK
    <3> QED
      BY <2>1, <3>2 DEF IssueOrder, TypeOK
  <2>4. delivery'[d] = D
    BY <2>1 DEF TypeOK
  <2>5. DeliveryIsSound(d)' /\ ClaimIsSound(p)'
    <3>1. claim[p] \notin Keys /\ claim[p] # "none" /\ counted[p] = 0
      BY <2>2 DEF Assumptions, ClaimIsSound
    <3>2. ClaimIsSound(p)'
      BY <3>1 DEF IssueOrder, ClaimIsSound
    <3>3. ASSUME D.pc = "release" /\ UNCHANGED licence
          PROVE  DeliveryIsSound(d)'
      <4>1. D.of = p /\ D.pc = "release" /\ Unserved(p)'
        BY <2>1, <2>2, <3>3 DEF Unserved
      <4> QED
        BY <2>2, <2>4, <4>1 DEF IssueOrder, DeliveryIsSound
    <3>4. ASSUME ~(D.pc = "release" /\ UNCHANGED licence)
          PROVE  DeliveryIsSound(d)'
      <4>1. D.pc = "complete" /\ D.key \in Keys /\ licence'[D.key] = [for |-> p, plan |-> bought[p]]
        BY <2>1, <3>4 DEF TypeOK
      <4> QED
        BY <2>1, <2>2, <2>4, <4>1 DEF IssueOrder, DeliveryIsSound
    <3> QED
      BY <3>2, <3>3, <3>4
  <2>6. \A k, l \in Keys : licence'[k].for = p /\ licence'[l].for = p => k = l
    BY <2>1, <2>2 DEF Unserved, TypeOK
  <2>7. \A k \in Keys : licence'[k] = licence[k] \/ (Fresh(k) /\ licence'[k].for = p)
    BY <2>1 DEF TypeOK
  <2>8. \A e \in Deliveries \ {d} : ~(Serving(e) /\ delivery[e].of = p)
    BY <1>2 DEF IssueOrder, Serving
  <2> HIDE DEF PaymentInv
  <2> QED
    BY <2>1, <2>3, <2>4, <2>5, <2>6, <2>7, <2>8, ServingStep DEF IssueOrder, PaymentInv, TypeOK
<1>6. CASE ReleaseClaim(d)
  <2> USE <1>1, <1>6
  <2>1. TypeOK'
    BY DEF ReleaseClaim, Raise, TypeOK, Delivery, Idle, Plans
  <2>2. DeliveryIsSound(d)' /\ delivery'[d].pc = "idle"
    BY DEF ReleaseClaim, Raise, Idle, DeliveryIsSound, TypeOK
  <2>3. ClaimIsSound(p)'
    <3>1. Unserved(p) /\ claim[p] = "empty" /\ claim'[p] = "none"
      BY DEF ReleaseClaim, DeliveryIsSound, TypeOK
    <3>2. counted[p] = 0 /\ claim'[p] \notin Keys
      BY <3>1 DEF ClaimIsSound, Assumptions
    <3> QED
      BY <3>1, <3>2 DEF ReleaseClaim, ClaimIsSound, Unserved
  <2>4. \A k, l \in Keys : licence'[k].for = p /\ licence'[l].for = p => k = l
    BY DEF ReleaseClaim, OneLicencePerPayment, Fresh
  <2>5. \A e \in Deliveries \ {d} : ~(Serving(e) /\ delivery[e].of = p)
    BY <1>2 DEF ReleaseClaim, Serving
  <2> HIDE DEF PaymentInv
  <2>6. /\ \A e \in Deliveries \ {d} : delivery'[e] = delivery[e]
        /\ \A q \in Payments \ {p} : claim'[q] = claim[q]
        /\ ~Serving(d)'
    BY <2>2 DEF ReleaseClaim, Raise, PaymentInv, TypeOK, Serving
  <2> QED
    BY <2>1, <2>2, <2>3, <2>4, <2>5, <2>6, ServingStep DEF ReleaseClaim, Raise
<1>7. CASE CompleteOrder(d)
  <2> USE <1>1, <1>7
  <2>1. TypeOK'
    BY DEF CompleteOrder, Continue, TypeOK, Delivery, DeliveryIsSound
  <2>2. delivery'[d].pc = "count" /\ delivery'[d].of = p
    BY DEF CompleteOrder, Continue, TypeOK, Delivery
  <2>3. DeliveryIsSound(d)' /\ ClaimIsSound(p)'
    BY <2>2 DEF CompleteOrder, DeliveryIsSound, ClaimIsSound, Unserved, TypeOK, Assumptions
  <2>4. \A k, l \in Keys : licence'[k].for = p /\ licence'[l].for = p => k = l
    BY DEF CompleteOrder, OneLicencePerPayment, Fresh
  <2>5. \A e \in Deliveries \ {d} : ~(Serving(e) /\ delivery[e].of = p)
    BY <1>2 DEF CompleteOrder, Serving
  <2> HIDE DEF PaymentInv
  <2> QED
    BY <2>1, <2>2, <2>3, <2>4, <2>5, ServingStep DEF CompleteOrder, Continue, PaymentInv, TypeOK
<1> QED
  BY <1>4, <1>5, <1>6, <1>7 DEF ServeOrder

(* The one transaction of an invoice, and the two reads before it. *)
LEMMA InvoiceStep ==
    ASSUME Assumptions, PaymentInv, NEW d \in Deliveries, ServeInvoice(d)
    PROVE  PaymentInv'
<1>0. PICK p : p = delivery[d].of
  OBVIOUS
<1> USE <1>0 DEF PaymentInv
<1>1. delivery[d] \in Delivery /\ DeliveryIsSound(d) /\ p \in settled /\ p \in Invoices
      /\ p \in Payments /\ p # NoPayment /\ bought[p] \in Plans \cup {"other"}
  BY DEF ServeInvoice, CheckInvoice, ReadPlan, Fulfil, DeliveryIsSound, TypeOK, Assumptions,
         Payments
<1>2. ASSUME NEW e \in Deliveries, Serving(e), delivery[e].of = p PROVE claim[p] # "none"
  BY <1>2 DEF DeliveryIsSound, Serving, Assumptions
(* A read moves the delivery on, or ends it. *)
<1>3. ASSUME ~Serving(d)', DeliveryIsSound(d)', TypeOK', unread \subseteq unread',
             \A e \in Deliveries \ {d} : delivery'[e] = delivery[e],
             UNCHANGED <<bought, recorded, settled, acked, claim, licence, counted>>
      PROVE  PaymentInv'
  <2>1. OneLicencePerPayment' /\ OneServer'
    BY <1>3 DEF OneLicencePerPayment, Fresh, OneServer, Serving
  <2>2. ASSUME NEW e \in Deliveries PROVE DeliveryIsSound(e)'
    <3>1. CASE e = d
      BY <1>3, <3>1
    <3>2. CASE e # d
      BY <1>3, <3>2 DEF DeliveryIsSound, Unserved
    <3> QED
      BY <3>1, <3>2
  <2>3. (\A q \in Payments : ClaimIsSound(q)') /\ (\A i \in Invoices : InvoiceIsSound(i)')
    BY <1>3 DEF ClaimIsSound, InvoiceIsSound, Unserved
  <2> QED
    BY <1>3, <2>1, <2>2, <2>3
<1>4. CASE CheckInvoice(d)
  <2> USE <1>1, <1>4
  <2>1. CASE p \in recorded /\ Continue(d, "plan") /\ UNCHANGED <<acked, unread>>
    <3>1. TypeOK'
      BY <2>1 DEF CheckInvoice, Continue, TypeOK, Delivery
    <3>2. delivery'[d].pc = "plan" /\ delivery'[d].of = p
      BY <2>1 DEF Continue, TypeOK, Delivery
    <3>3. DeliveryIsSound(d)' /\ ~Serving(d)'
      BY <2>1, <3>2 DEF CheckInvoice, DeliveryIsSound, Serving
    <3> HIDE DEF PaymentInv
    <3> QED
      BY <1>3, <2>1, <3>1, <3>3 DEF CheckInvoice, Continue, PaymentInv, TypeOK
  <2>2. CASE p \notin recorded /\ Ack(d) /\ UNCHANGED unread
    BY <2>2, EndStep DEF CheckInvoice, Ack, InvoiceIsSound, TypeOK
  <2>3. CASE p \in recorded /\ Ack(d) /\ unread' = unread \cup {p}
    BY <2>3, EndStep DEF CheckInvoice, Ack, TypeOK
  <2> QED
    BY <2>1, <2>2, <2>3 DEF CheckInvoice
<1>5. CASE ReadPlan(d)
  <2> USE <1>1, <1>5
  <2>1. PICK D \in Delivery :
          /\ delivery' = [delivery EXCEPT ![d] = D]
          /\ D.pc = "fulfil" /\ D.of = p
          /\ \/ D.plan = bought[p] /\ UNCHANGED unread
             \/ unread' = unread \cup {p}
    BY DEF ReadPlan, Delivery, DeliveryIsSound, InvoiceIsSound, TypeOK, Plans
  <2>2. TypeOK' /\ delivery'[d] = D
    BY <2>1 DEF ReadPlan, TypeOK
  <2>3. DeliveryIsSound(d)' /\ ~Serving(d)'
    BY <2>1, <2>2 DEF ReadPlan, DeliveryIsSound, Serving
  <2> HIDE DEF PaymentInv
  <2> QED
    BY <1>3, <2>1, <2>2, <2>3 DEF ReadPlan, PaymentInv, TypeOK
<1>6. CASE Fulfil(d)
  <2> USE <1>1, <1>6
  <2>1. CASE claim[p] \in Keys /\ Ack(d) /\ UNCHANGED <<claim, licence>>
    BY <2>1, EndStep DEF Fulfil, Ack, TypeOK
  <2>2. CASE claim[p] = "empty" /\ Raise(d) /\ UNCHANGED <<claim, licence>>
    BY <2>2, EndStep DEF Fulfil, Raise, TypeOK
  <2>3. CASE claim[p] = "none" /\ Continue(d, "count")
    <3>1. PICK k \in Keys :
            /\ Fresh(k)
            /\ licence' = [licence EXCEPT ![k] = [for |-> p, plan |-> delivery[d].plan]]
            /\ claim' = [claim EXCEPT ![p] = k]
      BY <2>3 DEF Fulfil, IssueLicence, Raise, Ack, Continue, Assumptions
    <3>2. UNCHANGED <<bought, recorded, settled, acked, counted, unread>>
      BY <2>3 DEF Fulfil, Assumptions
    <3>3. TypeOK'
      <4>1. [for |-> p, plan |-> delivery[d].plan] \in Licence
        BY DEF Delivery, Licence
      <4>2. licence' \in [Keys -> Licence]
        BY <3>1, <4>1 DEF TypeOK
      <4>3. delivery' \in [Deliveries -> Delivery]
        BY <2>3 DEF Continue, TypeOK, Delivery
      <4> QED
        BY <3>1, <3>2, <4>2, <4>3 DEF TypeOK
    <3>4. delivery'[d].pc = "count" /\ delivery'[d].of = p
      BY <2>3 DEF Continue, TypeOK, Delivery
    <3>5. Unserved(p) /\ counted[p] = 0
      BY <2>3 DEF ClaimIsSound, Assumptions
    <3>6. licence'[k].for = p /\ licence'[k].plan = delivery[d].plan /\ claim'[p] = k
      BY <3>1 DEF TypeOK
    <3>7. delivery[d].plan = bought[p] \/ p \in unread
      BY DEF Fulfil, DeliveryIsSound
    <3>8. DeliveryIsSound(d)'
      BY <3>2, <3>4, <3>5, <3>6 DEF DeliveryIsSound
    <3>9. ClaimIsSound(p)' /\ InvoiceIsSound(p)'
      BY <3>2, <3>5, <3>6, <3>7 DEF ClaimIsSound, InvoiceIsSound, Assumptions
    <3>10. /\ \A l \in Keys : licence'[l] = licence[l] \/ (Fresh(l) /\ licence'[l].for = p)
           /\ \A l, m \in Keys : licence'[l].for = p /\ licence'[m].for = p => l = m
      BY <3>1, <3>5 DEF Unserved, TypeOK
    <3>11. \A e \in Deliveries \ {d} : ~(Serving(e) /\ delivery[e].of = p)
      BY <1>2, <2>3
    <3>12. /\ \A e \in Deliveries \ {d} : delivery'[e] = delivery[e]
           /\ \A q \in Payments \ {p} : claim'[q] = claim[q]
      BY <2>3, <3>1 DEF Continue, TypeOK
    <3> HIDE DEF PaymentInv
    <3> QED
      BY <3>2, <3>3, <3>4, <3>8, <3>9, <3>10, <3>11, <3>12, ServingStep
  <2> QED
    BY <2>1, <2>2, <2>3 DEF Fulfil
<1> QED
  BY <1>4, <1>5, <1>6 DEF ServeInvoice

(* The conversion is counted at most once, by the one delivery that got there. *)
LEMMA CountStep ==
    ASSUME Assumptions, PaymentInv, NEW d \in Deliveries, CountPaid(d)
    PROVE  PaymentInv'
<1>0. PICK p : p = delivery[d].of
  OBVIOUS
<1> USE <1>0 DEF PaymentInv
<1>1. p \in settled /\ p \in Payments /\ claim[p] \in Keys /\ counted[p] = 0 /\ Serving(d)
  BY DEF CountPaid, DeliveryIsSound, Serving, TypeOK
<1>2. TypeOK'
  BY <1>1 DEF CountPaid, Ack, TypeOK, Delivery, Idle, Plans
<1>3. delivery'[d].pc = "idle" /\ delivery'[d].of = NoPayment
      /\ \A e \in Deliveries \ {d} : delivery'[e] = delivery[e]
  BY DEF CountPaid, Ack, Idle, TypeOK
<1>4. counted'[p] \in {0, 1} /\ \A q \in Payments \ {p} : counted'[q] = counted[q]
  BY <1>1 DEF CountPaid, TypeOK
<1>5. DeliveryIsSound(d)' /\ ~Serving(d)'
  BY <1>3 DEF DeliveryIsSound, Serving
<1>6. ClaimIsSound(p)'
  BY <1>1, <1>4 DEF CountPaid, ClaimIsSound, Unserved, Assumptions
<1>7. p \in Invoices => InvoiceIsSound(p)'
  BY <1>1 DEF CountPaid, InvoiceIsSound
<1>8. \A k, l \in Keys : licence'[k].for = p /\ licence'[l].for = p => k = l
  BY <1>1 DEF CountPaid, OneLicencePerPayment, Fresh, Assumptions
<1>9. \A e \in Deliveries \ {d} : ~(Serving(e) /\ delivery[e].of = p)
  BY <1>1 DEF OneServer
<1> HIDE DEF PaymentInv
<1> QED
  BY <1>1, <1>2, <1>3, <1>4, <1>5, <1>6, <1>7, <1>8, <1>9, ServingStep DEF CountPaid, Ack

(***************************************************************************)
(* The inductive invariant: a claim says what has been done for a payment, *)
(* a delivery may rely on it, and one delivery serves a payment at a time. *)
(***************************************************************************)
THEOREM PaymentInvariance ==
    ASSUME Assumptions
    PROVE  Spec => []PaymentInv
<1>1. Init => PaymentInv
  BY PaymentInit
<1>2. PaymentInv /\ [Next]_vars => PaymentInv'
  <2> SUFFICES ASSUME PaymentInv, [Next]_vars PROVE PaymentInv'
    OBVIOUS
  <2>1. ASSUME NEW d \in Deliveries, Fail(d) \/ Crash(d) PROVE PaymentInv'
    <3>1. /\ delivery[d].pc # "idle"
          /\ delivery' = [delivery EXCEPT ![d] = Idle]
          /\ UNCHANGED <<bought, recorded, settled, acked, claim, licence, counted, unread>>
      BY <2>1 DEF Fail, Crash, Raise
    <3> QED
      BY <3>1, EndStep DEF PaymentInv, TypeOK
  <2>2. CASE UNCHANGED vars
    BY <2>2 DEF vars, PaymentInv, TypeOK, OneLicencePerPayment, Fresh, OneServer, Serving,
            DeliveryIsSound, ClaimIsSound, InvoiceIsSound, Unserved
  <2> QED
    BY <2>1, <2>2, BuyerStep, OrderStep, InvoiceStep, CountStep DEF Next
<1> QED
  BY <1>1, <1>2, PTL DEF Spec

(***************************************************************************)
(* However often a webhook is repeated, in how many workers at once and    *)
(* wherever they die or fail, a payment has one key at most, a key in the  *)
(* ledger is a licence for its payment and plan, an acknowledged invoice   *)
(* has its key, and a payment is counted once; but for what the code could *)
(* not read.                                                               *)
(***************************************************************************)
THEOREM PaymentsHonoured ==
    ASSUME Assumptions
    PROVE  Spec => []PaymentsAreHonoured
<1>1. PaymentInv => PaymentsAreHonoured
  <2> SUFFICES ASSUME PaymentInv PROVE PaymentsAreHonoured
    OBVIOUS
  <2>1. ClaimsAreBacked /\ CountedOnce
    BY DEF PaymentInv, ClaimIsSound, ClaimsAreBacked, CountedOnce
  <2>2. AcknowledgedIsFulfilled
    BY DEF PaymentInv, InvoiceIsSound, AcknowledgedIsFulfilled
  <2> QED
    BY <2>1, <2>2 DEF PaymentInv, PaymentsAreHonoured
<1> QED
  BY <1>1, PaymentInvariance, PTL

-----------------------------------------------------------------------------
(***************************************************************************)
(* The refinement of LicensePromise                                        *)
(***************************************************************************)
Granted == {[payment |-> licence[k].for, key |-> k] : k \in {l \in Keys : ~Fresh(l)}}

(* A fresh key that becomes the licence of an unserved payment is a grant. *)
LEMMA GrantStep ==
    ASSUME Assumptions, TypeOK, NEW p \in settled, NEW k \in Keys, NEW plan,
           Unserved(p), Fresh(k), UNCHANGED settled,
           licence' = [licence EXCEPT ![k] = [for |-> p, plan |-> plan]]
    PROVE  Promise!Grant(p, k)
<1>1. p \in Payments /\ p # NoPayment
  BY DEF TypeOK, Assumptions
<1>2. \A l \in Keys : licence'[l].for = IF l = k THEN p ELSE licence[l].for
  BY DEF TypeOK
<1>3. Granted' = Granted \cup {[payment |-> p, key |-> k]}
  <2>1. ASSUME NEW g \in Granted' PROVE g \in Granted \cup {[payment |-> p, key |-> k]}
    BY <1>2, <2>1 DEF Granted, Fresh
  <2>2. ASSUME NEW g \in Granted PROVE g \in Granted'
    BY <1>2, <2>2 DEF Granted, Fresh
  <2>3. [payment |-> p, key |-> k] \in Granted'
    BY <1>1, <1>2 DEF Granted, Fresh
  <2> QED
    BY <2>1, <2>2, <2>3
<1>4. \A g \in Granted : g.payment # p /\ g.key # k
  BY DEF Granted, Unserved, Fresh
<1> QED
  BY <1>3, <1>4 DEF Promise!Grant, Granted

(***************************************************************************)
(* Payment fulfilment implements LicensePromise: what happens to licences  *)
(* and payments, under every interleaving, crash and failure, is a         *)
(* sequence of payments and of single grants to unserved payments.         *)
(***************************************************************************)
THEOREM PaymentRefinement ==
    ASSUME Assumptions
    PROVE  Spec => ImplementsPromise
<1>1. PaymentInv => settled \subseteq Payments /\ Promise!IsMatching(Granted)
                    /\ Granted \subseteq [payment : Payments, key : Keys]
  <2> SUFFICES ASSUME PaymentInv
               PROVE  settled \subseteq Payments /\ Promise!IsMatching(Granted)
                      /\ Granted \subseteq [payment : Payments, key : Keys]
    OBVIOUS
  <2>1. \A k \in Keys : ~Fresh(k) => licence[k].for \in Payments
    BY DEF PaymentInv, TypeOK, Licence, Fresh
  <2> QED
    BY <2>1 DEF PaymentInv, TypeOK, OneLicencePerPayment, Promise!IsMatching, Granted
<1>2. Init => Promise!Init
  BY <1>1, PaymentInit DEF Promise!Init, Granted
<1>3. PaymentInv /\ [Next]_vars => [Promise!Next]_(Promise!vars)
  <2> SUFFICES ASSUME PaymentInv, [Next]_vars PROVE [Promise!Next]_(Promise!vars)
    OBVIOUS
  <2>1. CASE UNCHANGED <<settled, licence>>
    BY <2>1 DEF Promise!vars, Fresh
  <2>2. ASSUME NEW p \in Payments, Settle(p) PROVE Promise!Pay(p)
    BY <2>2 DEF Settle, Promise!Pay, Fresh
  <2>3. ASSUME NEW d \in Deliveries, IssueOrder(d), licence' # licence
        PROVE  \E p \in Payments, k \in Keys : Promise!Grant(p, k)
    <3>1. PICK k \in Keys : Fresh(k)
            /\ licence' = [licence EXCEPT ![k] =
                  [for |-> delivery[d].of, plan |-> bought[delivery[d].of]]]
      BY <2>3 DEF IssueOrder, IssueLicence
    <3>2. delivery[d].of \in settled /\ Unserved(delivery[d].of) /\ TypeOK
      BY <2>3 DEF IssueOrder, PaymentInv, DeliveryIsSound
    <3> QED
      BY <2>3, <3>1, <3>2, GrantStep DEF IssueOrder, TypeOK
  <2>4. ASSUME NEW d \in Deliveries, Fulfil(d), licence' # licence
        PROVE  \E p \in Payments, k \in Keys : Promise!Grant(p, k)
    <3>1. PICK k \in Keys : Fresh(k)
            /\ licence' = [licence EXCEPT ![k] =
                  [for |-> delivery[d].of, plan |-> delivery[d].plan]]
      BY <2>4 DEF Fulfil, IssueLicence
    <3>2. delivery[d].of \in settled /\ TypeOK
      BY <2>4 DEF Fulfil, PaymentInv, DeliveryIsSound
    <3>3. delivery[d].of \in Payments
      BY <3>2 DEF TypeOK
    <3>4. Unserved(delivery[d].of)
      BY <2>4, <3>3 DEF Fulfil, PaymentInv, ClaimIsSound
    <3> QED
      BY <2>4, <3>1, <3>2, <3>3, <3>4, GrantStep DEF Fulfil
  <2> QED
    BY <2>1, <2>2, <2>3, <2>4 DEF Next, vars, ServeOrder, ServeInvoice, Checkout, Deliver,
       ClaimOrder, IssueOrder, ReleaseClaim, CompleteOrder, CheckInvoice, ReadPlan, Fulfil,
       CountPaid, Fail, Crash, Promise!Next
<1> QED
  BY <1>2, <1>3, PaymentInvariance, PTL DEF Spec, ImplementsPromise, Promise!Spec

-----------------------------------------------------------------------------
(***************************************************************************)
(* Hash rental bids                                                        *)
(***************************************************************************)
(* A purchase that has the row of its order, and one that has a consent. *)
Owning(r) == purchase[r].pc \in {"limit", "check", "post", "record", "audit", "verify", "settle"}
Consenting(r) == Owning(r) \/ purchase[r].pc = "claim"
Sending(r) == purchase[r].pc \in {"limit", "check", "post"}
Unrecorded(r) == Sending(r) \/ purchase[r].pc = "record"

(* One purchase at a time has the row of an order, and a consent. *)
OneOwner ==
    \A r, q \in Purchases : Owning(r) /\ Owning(q) /\ Id(r) = Id(q) => r = q
OneConsent ==
    \A r, q \in Purchases :
        Consenting(r) /\ Consenting(q) /\ purchase[r].token = purchase[q].token => r = q

(* What a purchase may rely on at each of its steps. *)
PurchaseIsSound(r) ==
    LET p == purchase[r] IN
    /\ p.pc # "idle" => p.order \in BidOrders \/ (p.pc = "done" /\ p.reply = "disabled")
    /\ p.pc # "done" => p.reply = "none"
    /\ Consenting(r) =>
         p.token \in Consents /\ consent[p.token] = [state |-> "burned", order |-> p.order]
    /\ Owning(r) => ledger[Id(r)] # NoLedgerRow /\ ledger[Id(r)].terms = p.order.terms
    /\ Unrecorded(r) => ledger[Id(r)].state = "submitting" /\ Id(r) \notin audited
    /\ Sending(r) => bid[Id(r)] = "none" /\ \A s \in posted : s.order.id # Id(r)
    /\ Sending(r) \/ p.pc = "claim" => \A s \in posted : s.token # p.token
    /\ p.pc \in {"record", "audit"} =>
         p.outcome \in BidOutcomes /\ (p.outcome = "placed" => bid[Id(r)] # "none")
    /\ p.pc = "record" /\ p.outcome = "rejected" => bid[Id(r)] = "none" \/ Id(r) \in doubted
    /\ p.pc \in {"verify", "settle"} \/ p.reply = "accepted" => bid[Id(r)] # "none"

(* What the row, the audit and the provider say of one order. *)
OrderIsSound(i) ==
    /\ bid[i] # "none" =>
         ledger[i] # NoLedgerRow /\ (ledger[i].state = "rejected" => i \in doubted)
    /\ i \in audited \/ IsSuccess(ledger[i].state) => bid[i] # "none"
    /\ ledger[i].state = "submitting" =>
         \E r \in Purchases : Id(r) = i /\ (Unrecorded(r) \/ purchase[r].reply = "dead")

(* A POST is on record, and used up its confirmation. *)
PostIsSound(p) ==
    /\ ledger[p.order.id] # NoLedgerRow /\ ledger[p.order.id].terms = p.order.terms
    /\ consent[p.token] = [state |-> "burned", order |-> p.order]
OnePost == \A p, q \in posted : p.order.id = q.order.id \/ p.token = q.token => p = q

ViewIsSound == view.todo \subseteq audited /\ \A i \in view.found : bid[i] # "none"

BidInv ==
    /\ BidTypeOK
    /\ OneOwner /\ OneConsent /\ OnePost
    /\ \A r \in Purchases : PurchaseIsSound(r)
    /\ \A i \in Ids : OrderIsSound(i)
    /\ \A p \in posted : PostIsSound(p)
    /\ ViewIsSound

-----------------------------------------------------------------------------
(* Nothing was sent yet. *)
LEMMA BidStart ==
    ASSUME BidAssumptions, BidInit
    PROVE  BidInv
<1> USE DEF BidInit, IdlePurchase, NoLedgerRow, UnissuedConsent, NoView
<1>1. BidTypeOK
  BY DEF BidTypeOK, Purchase, Replies, View, BidAssumptions
<1>2. OneOwner /\ OneConsent /\ OnePost /\ (\A p \in posted : PostIsSound(p)) /\ ViewIsSound
  BY DEF OneOwner, OneConsent, OnePost, Owning, Consenting, ViewIsSound
<1>3. \A r \in Purchases : PurchaseIsSound(r)
  BY DEF PurchaseIsSound, Owning, Consenting, Sending, Unrecorded
<1>4. \A i \in Ids : OrderIsSound(i)
  BY DEF OrderIsSound, IsSuccess
<1> QED
  BY <1>1, <1>2, <1>3, <1>4 DEF BidInv

(* A step of one purchase r, which touches the row of its order at most, breaks *)
(* nothing elsewhere if no other purchase has that row.                         *)
LEMMA OwnStep ==
    ASSUME BidInv, BidTypeOK', NEW r \in Purchases, Id(r) \in Ids,
           \A q \in Purchases \ {r} : purchase'[q] = purchase[q],
           purchase'[r].order = purchase[r].order,
           UNCHANGED <<consent, bid, view, posted, doubted>>,
           \A i \in Ids \ {Id(r)} : ledger'[i] = ledger[i],
           audited \subseteq audited', audited' \subseteq audited \cup {Id(r)},
           ledger[Id(r)] # NoLedgerRow =>
             ledger'[Id(r)] # NoLedgerRow /\ ledger'[Id(r)].terms = ledger[Id(r)].terms,
           \/ ledger' = ledger /\ audited' = audited /\ ~Owning(r)'
           \/ \A q \in Purchases \ {r} : ~(Owning(q) /\ Id(q) = Id(r)),
           Consenting(r)' => Consenting(r) /\ purchase'[r].token = purchase[r].token,
           PurchaseIsSound(r)', OrderIsSound(Id(r))'
    PROVE  BidInv'
<1> USE DEF BidInv
<1>1. \A q \in Purchases : Id(q)' = Id(q)
  BY DEF Id
<1>2. OneOwner'
  BY <1>1 DEF OneOwner, Owning
<1>3. OneConsent'
  BY DEF OneConsent, Consenting, Owning
<1>4. ASSUME NEW q \in Purchases \ {r} PROVE PurchaseIsSound(q)'
  <2>1. PurchaseIsSound(q) /\ purchase'[q] = purchase[q] /\ Id(q)' = Id(q)
    BY <1>1
  <2>2. Owning(q) => Id(q) \in Ids
    BY DEF PurchaseIsSound, Owning, Id, BidOrders
  <2>3. Owning(q) => ledger'[Id(q)] = ledger[Id(q)] \/ Id(q) = Id(r)
    BY <2>2
  <2>4. Owning(q) => ledger'[Id(q)] = ledger[Id(q)] /\ (Id(q) \in audited' => Id(q) \in audited)
    BY <2>3
  <2> QED
    BY <2>1, <2>4 DEF PurchaseIsSound, Owning, Consenting, Sending, Unrecorded
<1>5. ASSUME NEW i \in Ids \ {Id(r)} PROVE OrderIsSound(i)'
  BY <1>1 DEF OrderIsSound, Unrecorded, Sending
<1>6. ASSUME NEW p \in posted PROVE PostIsSound(p)'
  <2>1. p.order.id \in Ids
    BY DEF BidTypeOK, BidOrders
  <2> QED
    BY <2>1 DEF PostIsSound
<1>7. OnePost' /\ ViewIsSound'
  BY DEF OnePost, ViewIsSound
<1>8. \A i \in Ids : OrderIsSound(i)'
  <2>1. OrderIsSound(Id(r))'
    OBVIOUS
  <2>2. ASSUME NEW i \in Ids, i = Id(r) PROVE OrderIsSound(i)'
    BY <1>1, <2>1, <2>2 DEF OrderIsSound
  <2> QED
    BY <1>5, <2>2
<1>9. \A q \in Purchases : PurchaseIsSound(q)'
  BY <1>4
<1> HIDE DEF BidInv
<1> QED
  BY <1>2, <1>3, <1>6, <1>7, <1>8, <1>9 DEF BidInv

(* What a purchase that has the row of its order knows of it. *)
LEMMA OwnersRow ==
    ASSUME BidInv, NEW r \in Purchases, Owning(r)
    PROVE  /\ Id(r) \in Ids /\ ledger[Id(r)] \in LedgerRow
           /\ \A q \in Purchases \ {r} : ~(Owning(q) /\ Id(q) = Id(r))
           /\ purchase[r] \in Purchase /\ PurchaseIsSound(r) /\ OrderIsSound(Id(r))
<1>1. Id(r) \in Ids
  BY DEF BidInv, PurchaseIsSound, Owning, Id, BidOrders
<1> QED
  BY <1>1 DEF BidInv, BidTypeOK, OneOwner, PurchaseIsSound

(* A result that is written into the row of an owner. *)
LEMMA RowsUpdated ==
    ASSUME BidInv, NEW i \in Ids, ledger[i] \in LedgerRow,
           NEW s \in {"submitting", "acknowledged", "rejected", "unknown", "reconciled"},
           NEW c \in {"pending", "failed", "unknown", "confirmed"}, Updated(i, s, c)
    PROVE  /\ ledger' \in [Ids -> LedgerRow \cup {NoLedgerRow}]
           /\ ledger'[i] # NoLedgerRow
           /\ ledger'[i].terms = ledger[i].terms /\ ledger'[i].state = s
           /\ \A j \in Ids \ {i} : ledger'[j] = ledger[j]
<1>1. ledger \in [Ids -> LedgerRow \cup {NoLedgerRow}]
  BY DEF BidInv, BidTypeOK
<1>2. ledger' = [ledger EXCEPT ![i] = [ledger[i] EXCEPT !.state = s, !.recon = c]]
  BY <1>1 DEF Updated
<1>3. [ledger[i] EXCEPT !.state = s, !.recon = c] \in LedgerRow
  BY DEF LedgerRow
<1> QED
  BY <1>1, <1>2, <1>3 DEF LedgerRow, NoLedgerRow

(* A purchase that is answered and leaves everything as it is. *)
LEMMA AnswerStep ==
    ASSUME BidInv, NEW r \in Purchases, Running(r), ~Unrecorded(r),
           NEW reply \in Replies \ {"none", "disabled"}, Answers(r, reply),
           reply = "accepted" => bid[Id(r)] # "none",
           UNCHANGED <<consent, ledger, bid, audited, view, posted, doubted, spare>>
    PROVE  BidInv'
<1>1. /\ purchase[r] \in Purchase /\ PurchaseIsSound(r) /\ purchase[r].order \in BidOrders
      /\ Id(r) \in Ids /\ OrderIsSound(Id(r)) /\ purchase[r].reply = "none"
  BY DEF BidInv, BidTypeOK, PurchaseIsSound, Id, BidOrders, Running, PurchaseAt
<1>2. /\ Answered(r, reply) \in Purchase /\ Answered(r, reply).pc = "done"
      /\ Answered(r, reply).order = purchase[r].order /\ Answered(r, reply).reply = reply
  BY <1>1 DEF Answered, IdlePurchase, Purchase
<1>3. /\ BidTypeOK' /\ purchase'[r] = Answered(r, reply)
      /\ \A q \in Purchases \ {r} : purchase'[q] = purchase[q]
  BY <1>2 DEF Answers, BidInv, BidTypeOK
<1>4. ~Consenting(r)' /\ ~Owning(r)' /\ PurchaseIsSound(r)' /\ Id(r)' = Id(r)
  BY <1>1, <1>2, <1>3 DEF PurchaseIsSound, Consenting, Owning, Sending, Unrecorded, Id
<1>5. OrderIsSound(Id(r))'
  <2>1. ASSUME NEW q \in Purchases, Unrecorded(q) \/ purchase[q].reply = "dead"
        PROVE  Id(q)' = Id(q) /\ (Unrecorded(q)' \/ purchase'[q].reply = "dead")
    BY <1>1, <1>3, <2>1 DEF Unrecorded, Sending, Id
  <2> QED
    BY <1>1, <1>4, <2>1 DEF OrderIsSound
<1> QED
  BY <1>1, <1>2, <1>3, <1>4, <1>5, OwnStep

(* A purchase that goes on, and leaves everything else as it is. *)
LEMMA ProceedStep ==
    ASSUME BidInv, NEW r \in Purchases, Running(r), NEW pc, Proceeds(r, pc),
           \/ purchase[r].pc = "lookup" /\ pc = "confirm"
           \/ purchase[r].pc = "limit" /\ pc = "check"
           \/ purchase[r].pc = "check" /\ pc = "post"
           \/ purchase[r].pc = "verify" /\ pc = "settle",
           UNCHANGED <<consent, ledger, bid, audited, view, posted, doubted, spare>>
    PROVE  BidInv'
<1>1. /\ purchase[r] \in Purchase /\ PurchaseIsSound(r) /\ purchase[r].order \in BidOrders
      /\ Id(r) \in Ids /\ OrderIsSound(Id(r)) /\ purchase[r].reply = "none"
  BY DEF BidInv, BidTypeOK, PurchaseIsSound, Id, BidOrders, Running, PurchaseAt
<1>2. /\ [purchase[r] EXCEPT !.pc = pc] \in Purchase
      /\ purchase' = [purchase EXCEPT ![r] = [purchase[r] EXCEPT !.pc = pc]]
  BY <1>1 DEF Proceeds, BidInv, BidTypeOK, Purchase
<1>3. /\ BidTypeOK' /\ purchase'[r] = [purchase[r] EXCEPT !.pc = pc]
      /\ \A q \in Purchases \ {r} : purchase'[q] = purchase[q]
  BY <1>2 DEF BidInv, BidTypeOK
<1>4. /\ purchase'[r].pc = pc /\ purchase'[r].order = purchase[r].order
      /\ purchase'[r].token = purchase[r].token /\ purchase'[r].reply = purchase[r].reply
      /\ Id(r)' = Id(r)
  BY <1>1, <1>3 DEF Purchase, Id
<1>5. Owning(r)' = Owning(r) /\ Consenting(r)' = Consenting(r) /\ Unrecorded(r)' = Unrecorded(r)
      /\ Sending(r)' = Sending(r)
  BY <1>4 DEF Owning, Consenting, Sending, Unrecorded
<1>6. PurchaseIsSound(r)'
  BY <1>1, <1>4, <1>5 DEF PurchaseIsSound
<1>7. OrderIsSound(Id(r))'
  <2>1. ASSUME NEW q \in Purchases, Unrecorded(q) \/ purchase[q].reply = "dead"
        PROVE  Id(q)' = Id(q) /\ (Unrecorded(q)' \/ purchase'[q].reply = "dead")
    BY <1>3, <1>4, <1>5, <2>1 DEF Unrecorded, Sending, Id
  <2> QED
    BY <1>1, <1>4, <2>1 DEF OrderIsSound
<1>8. Owning(r)' => \A q \in Purchases \ {r} : ~(Owning(q) /\ Id(q) = Id(r))
  BY <1>5 DEF BidInv, OneOwner
<1> QED
  BY <1>1, <1>3, <1>4, <1>5, <1>6, <1>7, <1>8, OwnStep

(* A key that is on record, and a claim that comes second. *)
LEMMA LookupStep ==
    ASSUME BidInv, NEW r \in Purchases, Lookup(r)
    PROVE  BidInv'
<1>1. Running(r) /\ ~Unrecorded(r) /\ Id(r) \in Ids /\ OrderIsSound(Id(r))
  BY DEF Lookup, PurchaseAt, BidInv, BidTypeOK, PurchaseIsSound, Id, BidOrders, Running, Unrecorded, Sending
<1>2. CASE Proceeds(r, "confirm")
  BY <1>1, <1>2, ProceedStep DEF Lookup, PurchaseAt
<1>3. CASE \E reply \in {"mismatch", "replayed", "accepted"} :
             Answers(r, reply) /\ (reply = "accepted" => IsSuccess(ledger[Id(r)].state))
  BY <1>1, <1>3, AnswerStep DEF Lookup, Replies, OrderIsSound
<1> QED
  BY <1>2, <1>3 DEF Lookup

(* The claim writes the row of an order that has none, and so no owner. *)
LEMMA ClaimStep ==
    ASSUME BidAssumptions, BidInv, NEW r \in Purchases, Claim(r)
    PROVE  BidInv'
<1> USE DEF Claim, PurchaseAt
<1>1. /\ purchase[r] \in Purchase /\ PurchaseIsSound(r) /\ Id(r) \in Ids /\ OrderIsSound(Id(r))
      /\ purchase[r].order \in BidOrders
  BY DEF BidInv, BidTypeOK, PurchaseIsSound, Id, BidOrders
<1>2. Running(r) /\ Consenting(r) /\ ~Unrecorded(r)
  BY <1>1 DEF Consenting, Unrecorded, Sending, Running
<1>3. CASE ledger[Id(r)] = NoLedgerRow
  <2> USE <1>3
  <2>1. Submitting(r) \in LedgerRow /\ Submitting(r).state = "submitting"
        /\ Submitting(r).terms = purchase[r].order.terms /\ Submitting(r) # NoLedgerRow
    BY <1>1 DEF Submitting, LedgerRow, BidOrders, NoLedgerRow
  <2>2. /\ purchase' = [purchase EXCEPT ![r].pc = "limit"]
        /\ ledger' = [ledger EXCEPT ![Id(r)] = Submitting(r)]
    BY DEF Proceeds
  <2>3. BidTypeOK'
    BY <1>1, <2>1, <2>2 DEF BidInv, BidTypeOK, Purchase
  <2>4. /\ purchase'[r] = [purchase[r] EXCEPT !.pc = "limit"]
        /\ \A q \in Purchases \ {r} : purchase'[q] = purchase[q]
        /\ ledger'[Id(r)] = Submitting(r)
        /\ \A i \in Ids \ {Id(r)} : ledger'[i] = ledger[i]
    BY <1>1, <2>2 DEF BidInv, BidTypeOK
  <2>5. purchase'[r].pc = "limit" /\ purchase'[r].order = purchase[r].order
        /\ purchase'[r].token = purchase[r].token /\ purchase'[r].reply = purchase[r].reply
        /\ Id(r)' = Id(r)
    BY <1>1, <2>4 DEF Purchase, Id
  <2>6. \A q \in Purchases \ {r} : ~(Owning(q) /\ Id(q) = Id(r))
    BY DEF BidInv, PurchaseIsSound
  <2>7. bid[Id(r)] = "none" /\ Id(r) \notin audited /\ \A s \in posted : s.order.id # Id(r)
    BY <1>1 DEF BidInv, OrderIsSound, PostIsSound, BidTypeOK
  <2>8. PurchaseIsSound(r)'
    BY <1>1, <1>2, <2>1, <2>4, <2>5, <2>7 DEF PurchaseIsSound, Consenting, Owning, Sending, Unrecorded
  <2>9. OrderIsSound(Id(r))'
    BY <2>1, <2>4, <2>5, <2>7 DEF OrderIsSound, Unrecorded, Sending, IsSuccess
  <2> QED
    BY <1>1, <1>2, <2>3, <2>4, <2>5, <2>6, <2>8, <2>9, OwnStep
<1>4. CASE ledger[Id(r)] # NoLedgerRow
  BY <1>2, <1>4, AnswerStep DEF Replies
<1> QED
  BY <1>3, <1>4

(* A purchase whose row is brought to a state, and which goes on or is answered. *)
LEMMA SettleRow ==
    ASSUME BidInv, NEW r \in Purchases, Owning(r), NEW p \in Purchase,
           NEW s \in {"acknowledged", "rejected", "unknown", "reconciled"},
           NEW c \in {"pending", "failed", "unknown", "confirmed"}, Updated(Id(r), s, c),
           purchase' = [purchase EXCEPT ![r] = p], p.order = purchase[r].order,
           \/ p.pc = "done" /\ p.reply \notin {"none", "disabled"}
           \/ /\ p.pc = "audit" /\ p.reply = "none" /\ p.token = purchase[r].token
              /\ p.outcome \in BidOutcomes
              /\ p.outcome = "placed" => bid[Id(r)] # "none",
           p.reply = "accepted" => bid[Id(r)] # "none",
           IsSuccess(s) => bid[Id(r)] # "none",
           s = "rejected" => bid[Id(r)] = "none" \/ Id(r) \in doubted,
           UNCHANGED <<consent, bid, audited, view, posted, doubted, spare>>
    PROVE  BidInv'
<1>1. /\ Id(r) \in Ids /\ ledger[Id(r)] \in LedgerRow
      /\ \A q \in Purchases \ {r} : ~(Owning(q) /\ Id(q) = Id(r))
      /\ PurchaseIsSound(r) /\ OrderIsSound(Id(r))
  BY OwnersRow
<1>2. /\ ledger' \in [Ids -> LedgerRow \cup {NoLedgerRow}]
      /\ ledger'[Id(r)] # NoLedgerRow
      /\ ledger'[Id(r)].terms = ledger[Id(r)].terms /\ ledger'[Id(r)].state = s
      /\ \A j \in Ids \ {Id(r)} : ledger'[j] = ledger[j]
  BY <1>1, RowsUpdated
<1>3. /\ BidTypeOK' /\ purchase'[r] = p
      /\ \A q \in Purchases \ {r} : purchase'[q] = purchase[q]
  BY <1>2 DEF BidInv, BidTypeOK
<1>4. Id(r)' = Id(r) /\ Consenting(r) /\ purchase[r].order \in BidOrders
  BY <1>1, <1>3 DEF Id, Consenting, PurchaseIsSound, Owning
<1>5. PurchaseIsSound(r)'
  BY <1>1, <1>2, <1>3, <1>4 DEF PurchaseIsSound, Owning, Consenting, Sending, Unrecorded
<1>6. OrderIsSound(Id(r))'
  BY <1>1, <1>2, <1>4 DEF OrderIsSound
<1>7. Consenting(r)' => purchase'[r].token = purchase[r].token
  BY <1>3 DEF Consenting, Owning
<1> QED
  BY <1>1, <1>2, <1>3, <1>4, <1>5, <1>6, <1>7, OwnStep

(* A purchase whose minute's budget is spent: nothing was sent. *)
LEMMA LimitStep ==
    ASSUME BidInv, NEW r \in Purchases, Limit(r)
    PROVE  BidInv'
<1>1. Owning(r) /\ Running(r) /\ purchase[r].pc = "limit"
  BY DEF Limit, PurchaseAt, Owning, Running
<1>2. purchase[r] \in Purchase /\ bid[Id(r)] = "none"
  BY <1>1, OwnersRow DEF PurchaseIsSound, Sending
<1>3. CASE Updated(Id(r), "rejected", "failed") /\ Answers(r, "limited")
  <2>1. /\ Answered(r, "limited") \in Purchase /\ Answered(r, "limited").pc = "done"
        /\ Answered(r, "limited").order = purchase[r].order
        /\ Answered(r, "limited").reply = "limited"
    BY <1>2 DEF Answered, IdlePurchase, Purchase, Replies
  <2> QED
    BY <1>1, <1>2, <1>3, <2>1, SettleRow DEF Limit, Answers, IsSuccess
<1>4. CASE Proceeds(r, "check") /\ UNCHANGED ledger
  BY <1>1, <1>4, ProceedStep DEF Limit
<1> QED
  BY <1>3, <1>4 DEF Limit

(* A purchase that is refused before it is sent. *)
LEMMA CheckStep ==
    ASSUME BidInv, NEW r \in Purchases, Check(r)
    PROVE  BidInv'
<1>1. Owning(r) /\ Running(r) /\ purchase[r].pc = "check" /\ Sending(r) /\ Unrecorded(r)
  BY DEF Check, PurchaseAt, Owning, Running, Sending, Unrecorded
<1>2. /\ purchase[r] \in Purchase /\ bid[Id(r)] = "none" /\ Id(r) \in Ids
      /\ PurchaseIsSound(r) /\ OrderIsSound(Id(r))
      /\ \A q \in Purchases \ {r} : ~(Owning(q) /\ Id(q) = Id(r))
  BY <1>1, OwnersRow DEF PurchaseIsSound
<1>3. CASE Proceeds(r, "post")
  BY <1>1, <1>3, ProceedStep DEF Check
<1>4. CASE Results(r, "rejected")
  <2>1. PICK p \in Purchase :
          /\ purchase' = [purchase EXCEPT ![r] = p]
          /\ p.pc = "record" /\ p.outcome = "rejected" /\ p.order = purchase[r].order
          /\ p.token = purchase[r].token /\ p.reply = purchase[r].reply
    <3>1. [purchase[r] EXCEPT !.pc = "record", !.outcome = "rejected"] \in Purchase
      BY <1>2 DEF Purchase, BidOutcomes
    <3>2. purchase' = [purchase EXCEPT ![r] =
                         [purchase[r] EXCEPT !.pc = "record", !.outcome = "rejected"]]
      BY <1>4 DEF Results, BidInv, BidTypeOK
    <3> QED
      BY <1>2, <3>1, <3>2 DEF Purchase
  <2>2. BidTypeOK' /\ purchase'[r] = p /\ \A q \in Purchases \ {r} : purchase'[q] = purchase[q]
    BY <2>1 DEF Check, BidInv, BidTypeOK
  <2>3. Id(r)' = Id(r) /\ Owning(r)' /\ ~Sending(r)' /\ Consenting(r)' /\ Consenting(r) /\ Unrecorded(r)'
    BY <1>1, <2>1, <2>2 DEF Id, Owning, Sending, Consenting, Unrecorded
  <2>4. PurchaseIsSound(r)'
    BY <1>1, <1>2, <2>1, <2>2, <2>3 DEF Check, PurchaseIsSound, BidOutcomes
  <2>5. OrderIsSound(Id(r))'
    BY <1>2, <2>3 DEF Check, OrderIsSound
  <2> QED
    BY <1>2, <2>1, <2>2, <2>3, <2>4, <2>5, OwnStep DEF Check
<1> QED
  BY <1>3, <1>4 DEF Check

(* The POST of an owner: nothing was sent for its order or with its consent. *)
LEMMA PostStep ==
    ASSUME BidInv, NEW r \in Purchases, PostBid(r)
    PROVE  BidInv'
<1>1. Owning(r) /\ Running(r) /\ purchase[r].pc = "post" /\ Sending(r) /\ Unrecorded(r)
      /\ Consenting(r)
  BY DEF PostBid, PurchaseAt, Owning, Running, Sending, Unrecorded, Consenting
<1>2. /\ purchase[r] \in Purchase /\ bid[Id(r)] = "none" /\ Id(r) \in Ids
      /\ ledger[Id(r)] \in LedgerRow /\ ledger[Id(r)].state = "submitting"
      /\ PurchaseIsSound(r) /\ OrderIsSound(Id(r))
      /\ \A q \in Purchases \ {r} : ~(Owning(q) /\ Id(q) = Id(r))
  BY <1>1, OwnersRow DEF PurchaseIsSound
<1>3. /\ purchase[r].order \in BidOrders /\ purchase[r].token \in Consents
      /\ consent[purchase[r].token] = [state |-> "burned", order |-> purchase[r].order]
      /\ \A s \in posted : s.order.id # Id(r) /\ s.token # purchase[r].token
  BY <1>1, <1>2 DEF PurchaseIsSound
<1>4. PICK o \in BidOutcomes :
        /\ Results(r, o)
        /\ \/ /\ bid' = [bid EXCEPT ![Id(r)] = "active"]
              /\ doubted \subseteq doubted' /\ doubted' \subseteq doubted \cup {Id(r)}
              /\ o = "rejected" => Id(r) \in doubted'
           \/ bid' = bid /\ doubted' = doubted /\ o # "placed"
  <2> HIDE <1>1, <1>2, <1>3
  <2> USE DEF PostBid, OutcomeOfError, OutcomeOfNoAnswer, BidOutcomes
  <2>1. \/ bid' = [bid EXCEPT ![Id(r)] = "active"] /\ Results(r, "placed") /\ doubted' = doubted
        \/ bid' = [bid EXCEPT ![Id(r)] = "active"] /\ Results(r, "ambiguous") /\ doubted' = doubted
        \/ /\ bid' = [bid EXCEPT ![Id(r)] = "active"] /\ Results(r, "rejected")
           /\ doubted' = doubted \cup {Id(r)}
        \/ bid' = bid /\ doubted' = doubted /\ Results(r, "ambiguous")
        \/ bid' = bid /\ doubted' = doubted /\ Results(r, "rejected")
    OBVIOUS
  <2> HIDE DEF PostBid
  <2> QED
    BY <2>1
<1>5. PICK p \in Purchase :
        /\ purchase' = [purchase EXCEPT ![r] = p]
        /\ p.pc = "record" /\ p.outcome = o /\ p.order = purchase[r].order
        /\ p.token = purchase[r].token /\ p.reply = purchase[r].reply
  <2>1. [purchase[r] EXCEPT !.pc = "record", !.outcome = o] \in Purchase
    BY <1>2 DEF Purchase
  <2>2. purchase' = [purchase EXCEPT ![r] = [purchase[r] EXCEPT !.pc = "record", !.outcome = o]]
    BY <1>4 DEF Results, BidInv, BidTypeOK
  <2> QED
    BY <1>2, <2>1, <2>2 DEF Purchase
<1>6. /\ posted' = posted \cup {[order |-> purchase[r].order, token |-> purchase[r].token]}
      /\ UNCHANGED <<consent, ledger, audited, view, spare>>
  BY DEF PostBid
<1>7. /\ BidTypeOK' /\ purchase'[r] = p
      /\ \A q \in Purchases \ {r} : purchase'[q] = purchase[q]
      /\ \A i \in Ids \ {Id(r)} : bid'[i] = bid[i]
      /\ \A i \in Ids : bid[i] # "none" => bid'[i] # "none"
      /\ doubted \subseteq doubted'
  BY <1>2, <1>3, <1>4, <1>5, <1>6 DEF BidInv, BidTypeOK
<1>8. /\ Id(r)' = Id(r) /\ Owning(r)' /\ ~Sending(r)' /\ Consenting(r)' /\ Unrecorded(r)'
      /\ \A q \in Purchases : Id(q)' = Id(q) /\ Owning(q)' = Owning(q)
                              /\ Consenting(q)' = Consenting(q) /\ Unrecorded(q)' = Unrecorded(q)
  BY <1>1, <1>5, <1>7 DEF Id, Owning, Sending, Consenting, Unrecorded
<1>9. OneOwner' /\ OneConsent'
  BY <1>5, <1>7, <1>8 DEF BidInv, OneOwner, OneConsent
<1>10. OnePost' /\ \A s \in posted' : PostIsSound(s)'
  <2>1. OnePost'
    BY <1>3, <1>6 DEF BidInv, OnePost, Id
  <2>2. ASSUME NEW s \in posted PROVE PostIsSound(s)'
    BY <1>6 DEF BidInv, PostIsSound
  <2>3. ASSUME NEW s, s = [order |-> purchase[r].order, token |-> purchase[r].token]
        PROVE  PostIsSound(s)'
    <3>1. ledger[Id(r)] # NoLedgerRow /\ ledger[Id(r)].terms = purchase[r].order.terms
      BY <1>1, <1>2 DEF PurchaseIsSound
    <3> QED
      BY <1>3, <1>6, <2>3, <3>1 DEF PostIsSound, Id
  <2> QED
    BY <1>6, <2>1, <2>2, <2>3
<1>11. PurchaseIsSound(r)'
  <2>1. /\ o = "placed" => bid'[Id(r)] # "none"
        /\ o = "rejected" => bid'[Id(r)] = "none" \/ Id(r) \in doubted'
    BY <1>2, <1>4 DEF BidInv, BidTypeOK
  <2> QED
    BY <1>1, <1>2, <1>3, <1>5, <1>6, <1>7, <1>8, <2>1 DEF PurchaseIsSound
<1>12. ASSUME NEW q \in Purchases \ {r} PROVE PurchaseIsSound(q)'
  <2>1. PurchaseIsSound(q) /\ purchase'[q] = purchase[q] /\ Id(q)' = Id(q)
    BY <1>7, <1>8 DEF BidInv
  <2>2. purchase[q].pc \notin {"idle", "done"} => Id(q) \in Ids
    BY <2>1 DEF PurchaseIsSound, Id, BidOrders
  <2>3. purchase[q].reply = "accepted" => Id(q) \in Ids
    BY <2>1 DEF PurchaseIsSound, Id, BidOrders
  <2>4. Owning(q) => Id(q) # Id(r) /\ bid'[Id(q)] = bid[Id(q)]
    BY <1>2, <1>7, <2>2 DEF Owning
  <2>5. Consenting(q) => purchase[q].token # purchase[r].token
    BY <1>1 DEF BidInv, OneConsent
  <2>6. /\ Sending(q) => \A s \in posted' : s.order.id # Id(q)
        /\ Sending(q) \/ purchase[q].pc = "claim" => \A s \in posted' : s.token # purchase[q].token
    BY <1>6, <2>1, <2>4, <2>5 DEF PurchaseIsSound, Sending, Owning, Consenting, Id
  <2>7. Owning(q)' = Owning(q) /\ Consenting(q)' = Consenting(q) /\ Unrecorded(q)' = Unrecorded(q)
        /\ Sending(q)' = Sending(q)
    BY <2>1 DEF Owning, Consenting, Sending, Unrecorded
  <2>8. purchase[q].pc \in {"limit", "check", "post", "record", "audit", "verify", "settle"} => Owning(q)
    BY DEF Owning
  <2>9. Sending(q) => Owning(q)
    BY DEF Sending, Owning
  <2> QED
    BY <1>6, <1>7, <2>1, <2>3, <2>4, <2>6, <2>7, <2>8, <2>9 DEF PurchaseIsSound
<1>13. ASSUME NEW i \in Ids PROVE OrderIsSound(i)'
  <2>1. OrderIsSound(i)
    BY DEF BidInv
  <2>2. bid'[i] # "none" => ledger[i] # NoLedgerRow /\ (ledger[i].state = "rejected" => i \in doubted')
    <3>1. CASE i = Id(r)
      BY <1>2, <3>1 DEF LedgerRow, NoLedgerRow
    <3>2. CASE i # Id(r)
      BY <1>7, <2>1, <3>2 DEF OrderIsSound
    <3> QED
      BY <3>1, <3>2
  <2>3. ASSUME NEW q \in Purchases, Unrecorded(q) \/ purchase[q].reply = "dead"
        PROVE  Unrecorded(q)' \/ purchase'[q].reply = "dead"
    BY <1>5, <1>7, <1>8, <2>3
  <2> QED
    BY <1>6, <1>7, <1>8, <2>1, <2>2, <2>3 DEF OrderIsSound
<1>14. ViewIsSound'
  <2>1. view.found \subseteq Ids
    BY DEF BidInv, BidTypeOK, View
  <2> QED
    BY <1>6, <1>7, <2>1 DEF BidInv, ViewIsSound
<1> QED
  BY <1>7, <1>9, <1>10, <1>11, <1>12, <1>13, <1>14 DEF BidInv

(* The result of an order, into its row. *)
LEMMA RecordStep ==
    ASSUME BidInv, NEW r \in Purchases, RecordBid(r)
    PROVE  BidInv'
<1>1. Owning(r) /\ purchase[r].pc = "record"
  BY DEF RecordBid, PurchaseAt, Owning
<1>2. /\ purchase[r] \in Purchase /\ PurchaseIsSound(r)
      /\ purchase[r].outcome \in BidOutcomes /\ purchase[r].reply = "none"
      /\ purchase[r].outcome = "placed" => bid[Id(r)] # "none"
      /\ purchase[r].outcome = "rejected" => bid[Id(r)] = "none" \/ Id(r) \in doubted
  BY <1>1, OwnersRow DEF PurchaseIsSound
<1>3. PICK p \in Purchase :
        /\ purchase' = [purchase EXCEPT ![r] = p]
        /\ p.pc = "audit" /\ p.order = purchase[r].order /\ p.token = purchase[r].token
        /\ p.outcome = purchase[r].outcome /\ p.reply = "none"
  <2>1. [purchase[r] EXCEPT !.pc = "audit"] \in Purchase
    BY <1>2 DEF Purchase
  <2>2. purchase' = [purchase EXCEPT ![r] = [purchase[r] EXCEPT !.pc = "audit"]]
    BY DEF RecordBid, Proceeds, BidInv, BidTypeOK
  <2> QED
    BY <1>2, <2>1, <2>2 DEF Purchase
<1>4. CASE purchase[r].outcome = "placed" /\ Updated(Id(r), "acknowledged", "pending")
  BY <1>1, <1>2, <1>3, <1>4, SettleRow DEF RecordBid
<1>5. CASE purchase[r].outcome = "ambiguous" /\ Updated(Id(r), "unknown", "unknown")
  BY <1>1, <1>2, <1>3, <1>5, SettleRow DEF RecordBid, IsSuccess
<1>6. CASE purchase[r].outcome = "rejected" /\ Updated(Id(r), "rejected", "failed")
  BY <1>1, <1>2, <1>3, <1>6, SettleRow DEF RecordBid, IsSuccess
<1> QED
  BY <1>2, <1>4, <1>5, <1>6 DEF RecordBid, BidOutcomes

(* The audit of a bid that was placed; the others are answered. *)
LEMMA AuditStep ==
    ASSUME BidInv, NEW r \in Purchases, Audit(r)
    PROVE  BidInv'
<1>1. Owning(r) /\ Running(r) /\ purchase[r].pc = "audit" /\ ~Unrecorded(r) /\ ~Sending(r)
  BY DEF Audit, PurchaseAt, Owning, Running, Unrecorded, Sending
<1>2. /\ purchase[r] \in Purchase /\ Id(r) \in Ids /\ PurchaseIsSound(r) /\ OrderIsSound(Id(r))
      /\ \A q \in Purchases \ {r} : ~(Owning(q) /\ Id(q) = Id(r))
      /\ purchase[r].outcome = "placed" => bid[Id(r)] # "none"
  BY <1>1, OwnersRow DEF PurchaseIsSound
<1>3. CASE purchase[r].outcome # "placed"
  BY <1>1, <1>3, AnswerStep DEF Audit, Replies
<1>4. CASE purchase[r].outcome = "placed"
  <2>1. /\ audited' = audited \cup {Id(r)} /\ UNCHANGED <<consent, ledger, bid, view, posted, doubted, spare>>
        /\ bid[Id(r)] # "none"
    BY <1>2, <1>4 DEF Audit
  <2>2. PICK p \in Purchase :
          /\ purchase' = [purchase EXCEPT ![r] = p]
          /\ p.pc = "verify" /\ p.order = purchase[r].order /\ p.token = purchase[r].token
          /\ p.reply = purchase[r].reply
    <3>1. [purchase[r] EXCEPT !.pc = "verify"] \in Purchase
      BY <1>2 DEF Purchase
    <3>2. purchase' = [purchase EXCEPT ![r] = [purchase[r] EXCEPT !.pc = "verify"]]
      BY <1>4 DEF Audit, Proceeds, BidInv, BidTypeOK
    <3> QED
      BY <1>2, <3>1, <3>2 DEF Purchase
  <2>3. BidTypeOK' /\ purchase'[r] = p /\ \A q \in Purchases \ {r} : purchase'[q] = purchase[q]
    BY <1>2, <2>1, <2>2 DEF BidInv, BidTypeOK
  <2>4. Id(r)' = Id(r) /\ Owning(r)' /\ ~Sending(r)' /\ Consenting(r)' /\ Consenting(r) /\ ~Unrecorded(r)'
    BY <1>1, <2>2, <2>3 DEF Id, Owning, Sending, Consenting, Unrecorded
  <2>5. PurchaseIsSound(r)'
    BY <1>1, <1>2, <2>1, <2>2, <2>3, <2>4 DEF PurchaseIsSound
  <2>6. OrderIsSound(Id(r))'
    <3>1. ASSUME NEW q \in Purchases, Unrecorded(q) \/ purchase[q].reply = "dead"
          PROVE  Id(q)' = Id(q) /\ (Unrecorded(q)' \/ purchase'[q].reply = "dead")
      <4>1. purchase[r].reply = "none"
        BY <1>1, <1>2 DEF PurchaseIsSound
      <4> QED
        BY <1>1, <2>3, <2>4, <3>1, <4>1 DEF Unrecorded, Sending, Id
    <3> QED
      BY <1>2, <2>1, <2>4, <3>1 DEF OrderIsSound
  <2> QED
    BY <1>2, <2>1, <2>2, <2>3, <2>4, <2>5, <2>6, OwnStep
<1> QED
  BY <1>3, <1>4

(* A bid that is found among the active ones, or not yet. *)
LEMMA VerifyStep ==
    ASSUME BidInv, NEW r \in Purchases, Verify(r) \/ SettleBid(r)
    PROVE  BidInv'
<1>1. Owning(r) /\ Running(r) /\ purchase[r].pc \in {"verify", "settle"} /\ ~Unrecorded(r)
  BY DEF Verify, SettleBid, PurchaseAt, Owning, Running, Unrecorded, Sending
<1>2. /\ purchase[r] \in Purchase /\ bid[Id(r)] # "none"
  BY <1>1, OwnersRow DEF PurchaseIsSound
<1>3. CASE Verify(r) /\ Proceeds(r, "settle")
  BY <1>1, <1>3, ProceedStep DEF Verify, PurchaseAt
<1>4. CASE Verify(r) /\ Answers(r, "accepted")
  BY <1>1, <1>2, <1>4, AnswerStep DEF Verify, Replies
<1>5. CASE SettleBid(r)
  <2>1. /\ Answered(r, "accepted") \in Purchase /\ Answered(r, "accepted").pc = "done"
        /\ Answered(r, "accepted").order = purchase[r].order
        /\ Answered(r, "accepted").reply = "accepted"
    BY <1>2 DEF Answered, IdlePurchase, Purchase, Replies
  <2> QED
    BY <1>1, <1>2, <1>5, <2>1, SettleRow DEF SettleBid, Answers
<1> QED
  BY <1>3, <1>4, <1>5 DEF Verify

(* A purchase that is blocked, or comes with any order and consent. *)
LEMMA ArriveStep ==
    ASSUME BidInv, NEW r \in Purchases, Arrive(r) \/ Block(r)
    PROVE  BidInv'
<1>1. PICK p \in Purchase :
        /\ purchase' = [purchase EXCEPT ![r] = p]
        /\ \/ p.pc = "lookup" /\ p.order \in BidOrders /\ p.reply = "none"
           \/ p.pc = "done" /\ p.reply = "disabled"
  <2>1. CASE Arrive(r)
    <3>1. PICK order \in BidOrders, t \in Consents \cup {NoConsent} :
            purchase' = [purchase EXCEPT ![r] =
                          [IdlePurchase EXCEPT !.pc = "lookup", !.order = order, !.token = t]]
      BY <2>1 DEF Arrive
    <3>2. [IdlePurchase EXCEPT !.pc = "lookup", !.order = order, !.token = t] \in Purchase
      BY DEF IdlePurchase, Purchase, Replies
    <3> QED
      BY <3>1, <3>2 DEF IdlePurchase
  <2>2. CASE Block(r)
    <3>0. purchase[r] \in Purchase
      BY DEF BidInv, BidTypeOK
    <3>1. [purchase[r] EXCEPT !.pc = "done", !.reply = "disabled"] \in Purchase
      BY <3>0 DEF Purchase, Replies
    <3>2. purchase' = [purchase EXCEPT ![r] = [purchase[r] EXCEPT !.pc = "done", !.reply = "disabled"]]
      BY <2>2 DEF Block, BidInv, BidTypeOK
    <3> QED
      BY <3>0, <3>1, <3>2 DEF Purchase
  <2> QED
    BY <2>1, <2>2
<1>2. UNCHANGED <<consent, ledger, bid, audited, view, posted, doubted, spare>>
      /\ purchase[r].pc = "idle"
  BY DEF Arrive, Block, PurchaseAt
<1>3. BidTypeOK' /\ purchase'[r] = p /\ \A q \in Purchases \ {r} : purchase'[q] = purchase[q]
  BY <1>1, <1>2 DEF BidInv, BidTypeOK
<1>4. /\ ~Owning(r)' /\ ~Consenting(r)' /\ ~Unrecorded(r)' /\ ~Sending(r)'
      /\ ~Owning(r) /\ ~Consenting(r) /\ ~Unrecorded(r) /\ purchase[r].reply = "none"
  BY <1>1, <1>2, <1>3 DEF Owning, Consenting, Unrecorded, Sending, BidInv, PurchaseIsSound
<1>5. \A q \in Purchases \ {r} : /\ Id(q)' = Id(q) /\ Owning(q)' = Owning(q) /\ Sending(q)' = Sending(q)
                                 /\ Consenting(q)' = Consenting(q) /\ Unrecorded(q)' = Unrecorded(q)
  BY <1>3 DEF Id, Owning, Consenting, Unrecorded, Sending
<1>6. OneOwner' /\ OneConsent' /\ OnePost' /\ ViewIsSound' /\ (\A s \in posted' : PostIsSound(s)')
  BY <1>2, <1>3, <1>4, <1>5 DEF BidInv, OneOwner, OneConsent, OnePost, ViewIsSound, PostIsSound
<1>7. ASSUME NEW q \in Purchases PROVE PurchaseIsSound(q)'
  <2>1. CASE q = r
    BY <1>1, <1>3, <1>4, <2>1 DEF PurchaseIsSound
  <2>2. CASE q # r
    BY <1>2, <1>3, <1>5, <2>2 DEF BidInv, PurchaseIsSound
  <2> QED
    BY <2>1, <2>2
<1>8. ASSUME NEW i \in Ids PROVE OrderIsSound(i)'
  BY <1>2, <1>3, <1>4, <1>5 DEF BidInv, OrderIsSound
<1> QED
  BY <1>3, <1>6, <1>7, <1>8 DEF BidInv

(* A dry run issues a consent that nobody has. *)
LEMMA DryRunStep ==
    ASSUME BidInv, NEW order \in BidOrders, DryRun(order)
    PROVE  BidInv'
<1>1. PICK t \in Consents :
        /\ consent[t] = UnissuedConsent
        /\ consent' = [consent EXCEPT ![t] = [state |-> "issued", order |-> order]]
  <2> DEFINE t == CHOOSE x \in Consents : consent[x] = UnissuedConsent
  <2>1. t \in Consents /\ consent[t] = UnissuedConsent
    BY DEF DryRun
  <2> QED
    BY <2>1 DEF DryRun
<1>2. UNCHANGED <<purchase, ledger, bid, audited, view, posted, doubted, spare>>
  BY DEF DryRun
<1>3. BidTypeOK'
  BY <1>1, <1>2 DEF BidInv, BidTypeOK
<1>4. \A x \in Consents : consent[x].state = "burned" => consent'[x] = consent[x]
  BY <1>1 DEF BidInv, BidTypeOK, UnissuedConsent
<1>5. OneOwner' /\ OneConsent' /\ OnePost' /\ ViewIsSound'
  BY <1>2 DEF BidInv, OneOwner, OneConsent, OnePost, ViewIsSound, Owning, Consenting, Id
<1>6. ASSUME NEW q \in Purchases PROVE PurchaseIsSound(q)'
  BY <1>2, <1>4 DEF BidInv, PurchaseIsSound, Owning, Consenting, Sending, Unrecorded, Id
<1>7. ASSUME NEW i \in Ids PROVE OrderIsSound(i)'
  BY <1>2 DEF BidInv, OrderIsSound, Unrecorded, Sending, Id
<1>8. ASSUME NEW s \in posted PROVE PostIsSound(s)'
  <2>1. s.token \in Consents
    BY DEF BidInv, BidTypeOK
  <2> QED
    BY <1>2, <1>4, <2>1 DEF BidInv, PostIsSound
<1> QED
  BY <1>2, <1>3, <1>5, <1>6, <1>7, <1>8 DEF BidInv

(* A consent is burned by the purchase that presents it, and by no other again. *)
LEMMA ConsumeStep ==
    ASSUME BidAssumptions, BidInv, NEW r \in Purchases, Consume(r)
    PROVE  BidInv'
<1> DEFINE t == purchase[r].token
<1>1. /\ purchase[r] \in Purchase /\ purchase[r].pc = "confirm" /\ PurchaseIsSound(r)
      /\ purchase[r].order \in BidOrders /\ purchase[r].reply = "none"
      /\ UNCHANGED <<ledger, bid, audited, view, posted, doubted, spare>>
      /\ t # NoConsent => t \in Consents
  BY DEF Consume, PurchaseAt, BidInv, BidTypeOK, PurchaseIsSound, Purchase
<1>2. \/ /\ t \in Consents /\ consent[t].state = "issued"
         /\ consent' = [consent EXCEPT ![t].state = "burned"]
      \/ consent' = consent
  BY <1>1 DEF Consume
<1>3. PICK p \in Purchase :
        /\ purchase' = [purchase EXCEPT ![r] = p]
        /\ p.order = purchase[r].order
        /\ \/ p.pc = "done" /\ p.reply = "unconfirmed"
           \/ p.pc = "claim" /\ p.reply = "none" /\ p.token = t /\ Confirms(r)
  <2>1. CASE Confirms(r) /\ Proceeds(r, "claim")
    <3>1. [purchase[r] EXCEPT !.pc = "claim"] \in Purchase
      BY <1>1 DEF Purchase
    <3>2. purchase' = [purchase EXCEPT ![r] = [purchase[r] EXCEPT !.pc = "claim"]]
      BY <2>1 DEF Proceeds, BidInv, BidTypeOK
    <3> QED
      BY <1>1, <2>1, <3>1, <3>2 DEF Purchase
  <2>2. CASE Answers(r, "unconfirmed")
    <3>1. /\ Answered(r, "unconfirmed") \in Purchase /\ Answered(r, "unconfirmed").pc = "done"
          /\ Answered(r, "unconfirmed").order = purchase[r].order
          /\ Answered(r, "unconfirmed").reply = "unconfirmed"
      BY <1>1 DEF Answered, IdlePurchase, Purchase, Replies
    <3> QED
      BY <2>2, <3>1 DEF Answers
  <2> QED
    BY <2>1, <2>2 DEF Consume
<1>4. BidTypeOK' /\ purchase'[r] = p /\ \A q \in Purchases \ {r} : purchase'[q] = purchase[q]
  BY <1>1, <1>2, <1>3 DEF BidInv, BidTypeOK
<1>5. \A x \in Consents : consent[x].state = "burned" => consent'[x] = consent[x]
  BY <1>2 DEF BidInv, BidTypeOK
<1>6. p.pc = "claim" =>
        /\ t \in Consents /\ consent[t].state = "issued"
        /\ consent'[t] = [state |-> "burned", order |-> purchase[r].order]
  <2> SUFFICES ASSUME p.pc = "claim"
               PROVE  /\ t \in Consents /\ consent[t].state = "issued"
                      /\ consent'[t] = [state |-> "burned", order |-> purchase[r].order]
    OBVIOUS
  <2>1. t \in Consents /\ consent[t] = [state |-> "issued", order |-> purchase[r].order]
    BY <1>1, <1>3 DEF Confirms
  <2>2. consent' = [consent EXCEPT ![t].state = "burned"]
    BY <1>1, <2>1 DEF Consume, BidAssumptions
  <2> QED
    BY <2>1, <2>2 DEF BidInv, BidTypeOK
<1>7. /\ ~Owning(r)' /\ ~Unrecorded(r)' /\ ~Sending(r)' /\ ~Owning(r) /\ ~Unrecorded(r)
      /\ Id(r)' = Id(r) /\ Consenting(r)' = (p.pc = "claim")
  BY <1>1, <1>3, <1>4 DEF Owning, Consenting, Unrecorded, Sending, Id
<1>8. \A q \in Purchases \ {r} : /\ Id(q)' = Id(q) /\ Owning(q)' = Owning(q) /\ Sending(q)' = Sending(q)
                                 /\ Consenting(q)' = Consenting(q) /\ Unrecorded(q)' = Unrecorded(q)
  BY <1>4 DEF Id, Owning, Consenting, Unrecorded, Sending
<1>9. \A q \in Purchases \ {r} :
        Consenting(q) => consent[purchase[q].token].state = "burned" /\ purchase[q].token \in Consents
  <2> SUFFICES ASSUME NEW q \in Purchases \ {r}, Consenting(q)
               PROVE  consent[purchase[q].token].state = "burned" /\ purchase[q].token \in Consents
    OBVIOUS
  <2>1. purchase[q].token \in Consents
        /\ consent[purchase[q].token] = [state |-> "burned", order |-> purchase[q].order]
    BY DEF BidInv, PurchaseIsSound
  <2> QED
    BY <2>1
<1>10. \A s \in posted : consent[s.token].state = "burned" /\ s.token \in Consents
  <2> SUFFICES ASSUME NEW s \in posted
               PROVE  consent[s.token].state = "burned" /\ s.token \in Consents
    OBVIOUS
  <2>1. s.token \in Consents /\ consent[s.token] = [state |-> "burned", order |-> s.order]
    BY DEF BidInv, PostIsSound, BidTypeOK
  <2> QED
    BY <2>1
<1>11. OneOwner' /\ OneConsent'
  <2>1. OneOwner'
    BY <1>7, <1>8 DEF BidInv, OneOwner
  <2>2. ASSUME NEW q \in Purchases \ {r}, Consenting(q), p.pc = "claim"
        PROVE  purchase[q].token # t
    BY <1>6, <1>9, <2>2
  <2>3. OneConsent'
    <3> SUFFICES ASSUME NEW a \in Purchases, NEW b \in Purchases, a # b, Consenting(a)', Consenting(b)',
                        purchase'[a].token = purchase'[b].token
                 PROVE  FALSE
      BY DEF OneConsent
    <3>1. CASE a # r /\ b # r
      BY <1>4, <1>8, <3>1 DEF BidInv, OneConsent
    <3>2. ASSUME NEW q \in Purchases \ {r}, Consenting(r)', Consenting(q)',
                 purchase'[r].token = purchase'[q].token
          PROVE  FALSE
      <4>1. p.pc = "claim" /\ Consenting(q) /\ purchase'[q] = purchase[q] /\ purchase'[r] = p
        BY <1>4, <1>7, <1>8, <3>2
      <4>2. p.token = t
        BY <1>3, <4>1
      <4> QED
        BY <2>2, <3>2, <4>1, <4>2
    <3> QED
      BY <3>1, <3>2
  <2> QED
    BY <2>1, <2>3
<1>12. OnePost' /\ ViewIsSound' /\ \A s \in posted : PostIsSound(s)'
  BY <1>1, <1>5, <1>10 DEF BidInv, OnePost, ViewIsSound, PostIsSound
<1>13. PurchaseIsSound(r)'
  <2>1. p.pc = "claim" => \A s \in posted : s.token # t
    BY <1>6, <1>10
  <2>2. CASE p.pc = "claim"
    <3>1. p.token = t /\ p.reply = "none" /\ p.order = purchase[r].order /\ purchase'[r] = p
      BY <1>3, <1>4, <2>2
    <3>2. /\ p.token \in Consents /\ consent'[p.token] = [state |-> "burned", order |-> p.order]
          /\ \A s \in posted' : s.token # p.token
      BY <1>1, <1>6, <2>1, <2>2, <3>1
    <3> QED
      BY <1>1, <1>7, <2>2, <3>1, <3>2 DEF PurchaseIsSound
  <2>3. CASE p.pc # "claim"
    BY <1>1, <1>3, <1>4, <1>7, <2>3 DEF PurchaseIsSound
  <2> QED
    BY <2>2, <2>3
<1>14. ASSUME NEW q \in Purchases \ {r} PROVE PurchaseIsSound(q)'
  BY <1>1, <1>4, <1>5, <1>8, <1>9 DEF BidInv, PurchaseIsSound
<1>15. ASSUME NEW i \in Ids PROVE OrderIsSound(i)'
  BY <1>1, <1>4, <1>7, <1>8 DEF BidInv, OrderIsSound
<1> QED
  BY <1>1, <1>4, <1>11, <1>12, <1>13, <1>14, <1>15 DEF BidInv

(* The view writes the row of an order that was audited, whose purchase has *)
(* recorded its result.                                                     *)
LEMMA ViewStep ==
    ASSUME BidAssumptions, BidInv, ViewAudit \/ ViewList \/ ViewUpdate
    PROVE  BidInv'
<1>1. ASSUME ViewAudit \/ ViewList \/ (ViewUpdate /\ view.todo = {}) PROVE BidInv'
  <2>1. UNCHANGED <<purchase, consent, ledger, bid, audited, posted, doubted>>
    BY <1>1 DEF ViewAudit, ViewList, ViewUpdate
  <2>2. ViewIsSound' /\ BidTypeOK'
    <3>0. view \in View /\ view.todo \in SUBSET Ids
      BY DEF BidInv, BidTypeOK, View
    <3>1. CASE ViewAudit
      <4>1. view' = [pc |-> "list", todo |-> audited, found |-> {}]
        BY <3>1 DEF ViewAudit, NoView
      <4>2. view' \in View
        BY <4>1 DEF View, BidInv, BidTypeOK
      <4>3. spare' \in [crashes : 0..MaxDeaths, views : 0..MaxViews]
        <5>1. spare \in [crashes : 0..MaxDeaths, views : 0..MaxViews]
          BY DEF BidInv, BidTypeOK
        <5> QED
          BY <3>1, <5>1 DEF ViewAudit, BidAssumptions
      <4> QED
        BY <2>1, <4>1, <4>2, <4>3 DEF BidInv, BidTypeOK, ViewIsSound
    <3>2. CASE ViewList
      <4>1. PICK found \in SUBSET Ids :
              /\ view' = [view EXCEPT !.pc = "update", !.found = found]
              /\ \A i \in found : bid[i] # "none"
        BY <3>2 DEF ViewList, ActiveBids
      <4>2. view' \in View /\ view'.todo = view.todo /\ view'.found = found
        BY <3>0, <4>1 DEF View
      <4> QED
        BY <2>1, <3>2, <4>1, <4>2 DEF ViewList, BidInv, BidTypeOK, ViewIsSound
    <3>3. CASE ViewUpdate /\ view.todo = {}
      BY <3>3 DEF ViewUpdate, BidInv, BidTypeOK, ViewIsSound, View, NoView
    <3> QED
      BY <1>1, <3>1, <3>2, <3>3
  <2>3. OneOwner' /\ OneConsent' /\ OnePost' /\ \A s \in posted' : PostIsSound(s)'
    BY <2>1 DEF BidInv, OneOwner, OneConsent, OnePost, PostIsSound, Owning, Consenting, Id
  <2>4. ASSUME NEW q \in Purchases PROVE PurchaseIsSound(q)'
    BY <2>1 DEF BidInv, PurchaseIsSound, Owning, Consenting, Sending, Unrecorded, Id
  <2>5. ASSUME NEW i \in Ids PROVE OrderIsSound(i)'
    BY <2>1 DEF BidInv, OrderIsSound, Unrecorded, Sending, Id
  <2> QED
    BY <2>2, <2>3, <2>4, <2>5 DEF BidInv
<1>2. ASSUME ViewUpdate, view.todo # {} PROVE BidInv'
  <2>1. PICK i \in view.todo : ViewVerdict(i) /\ view' = [view EXCEPT !.todo = @ \ {i}]
    BY <1>2 DEF ViewUpdate
  <2>2. UNCHANGED <<purchase, consent, bid, audited, posted, doubted, spare>>
    BY <1>2 DEF ViewUpdate
  <2>3. i \in Ids /\ i \in audited /\ bid[i] # "none" /\ ledger[i] \in LedgerRow /\ OrderIsSound(i)
    BY DEF BidInv, ViewIsSound, OrderIsSound, BidTypeOK, View
  <2>4. PICK s \in {"reconciled", "unknown"} :
          \E c \in {"pending", "failed", "unknown", "confirmed"} : Updated(i, s, c)
    BY <2>1 DEF ViewVerdict
  <2>5. /\ ledger' \in [Ids -> LedgerRow \cup {NoLedgerRow}]
        /\ ledger'[i] # NoLedgerRow
        /\ ledger'[i].terms = ledger[i].terms /\ ledger'[i].state = s
        /\ \A j \in Ids \ {i} : ledger'[j] = ledger[j]
    BY <2>3, <2>4, RowsUpdated
  <2>6. ViewIsSound' /\ BidTypeOK'
    BY <2>1, <2>2, <2>5 DEF BidInv, BidTypeOK, ViewIsSound, View
  <2>7. OneOwner' /\ OneConsent' /\ OnePost'
    BY <2>2 DEF BidInv, OneOwner, OneConsent, OnePost, Owning, Consenting, Id
  <2>8. ASSUME NEW p \in posted PROVE PostIsSound(p)'
    <3>1. p.order.id \in Ids /\ PostIsSound(p)
      BY DEF BidInv, BidTypeOK, BidOrders
    <3> QED
      BY <2>2, <2>5, <3>1 DEF PostIsSound
  <2>9. ASSUME NEW q \in Purchases PROVE PurchaseIsSound(q)'
    <3>1. PurchaseIsSound(q)
      BY DEF BidInv
    <3>2. Owning(q) => Id(q) \in Ids
      BY <3>1 DEF PurchaseIsSound, Owning, Id, BidOrders
    <3>3. Unrecorded(q) => Id(q) # i /\ Owning(q)
      BY <2>3, <3>1 DEF PurchaseIsSound, Unrecorded, Sending, Owning
    <3>4. Id(q)' = Id(q) /\ Owning(q)' = Owning(q) /\ Consenting(q)' = Consenting(q)
          /\ Sending(q)' = Sending(q) /\ Unrecorded(q)' = Unrecorded(q)
      BY <2>2 DEF Id, Owning, Consenting, Sending, Unrecorded
    <3>5. Owning(q) => ledger'[Id(q)] # NoLedgerRow /\ ledger'[Id(q)].terms = purchase[q].order.terms
      BY <2>3, <2>5, <3>1, <3>2 DEF PurchaseIsSound
    <3>6. Unrecorded(q) => ledger'[Id(q)].state = "submitting"
      BY <2>5, <3>1, <3>2, <3>3 DEF PurchaseIsSound
    <3> QED
      BY <2>2, <3>1, <3>4, <3>5, <3>6 DEF PurchaseIsSound
  <2>10. ASSUME NEW j \in Ids PROVE OrderIsSound(j)'
    <3>1. CASE j = i
      BY <2>2, <2>3, <2>5, <3>1 DEF OrderIsSound
    <3>2. CASE j # i
      BY <2>2, <2>5, <3>2 DEF BidInv, OrderIsSound, Unrecorded, Sending, Id
    <3> QED
      BY <3>1, <3>2
  <2> QED
    BY <2>2, <2>6, <2>7, <2>8, <2>9, <2>10 DEF BidInv
<1> QED
  BY <1>1, <1>2

(* A bid that ends, and purchases that die, are still known. *)
LEMMA EndsStep ==
    ASSUME BidAssumptions, BidInv, (\E i \in Ids : End(i)) \/ BidCrash
    PROVE  BidInv'
<1>1. ASSUME NEW i \in Ids, End(i) PROVE BidInv'
  <2>1. UNCHANGED <<purchase, consent, ledger, audited, view, posted, doubted, spare>>
        /\ bid' \in [Ids -> {"none", "active", "over"}]
        /\ \A j \in Ids : (bid'[j] = "none") = (bid[j] = "none")
    BY <1>1 DEF End, BidInv, BidTypeOK
  <2>2. BidTypeOK'
    BY <2>1 DEF BidInv, BidTypeOK
  <2>3. OneOwner' /\ OneConsent' /\ OnePost' /\ \A s \in posted' : PostIsSound(s)'
    BY <2>1 DEF BidInv, OneOwner, OneConsent, OnePost, PostIsSound, Owning, Consenting, Id
  <2>4. ASSUME NEW q \in Purchases PROVE PurchaseIsSound(q)'
    <3>1. PurchaseIsSound(q)
      BY DEF BidInv
    <3>2. purchase[q].pc \notin {"idle", "done"} \/ purchase[q].reply = "accepted" => Id(q) \in Ids
      BY <3>1 DEF PurchaseIsSound, Id, BidOrders
    <3>3. Sending(q) => purchase[q].pc \notin {"idle", "done"}
      BY DEF Sending
    <3>4. Id(q)' = Id(q) /\ Owning(q)' = Owning(q) /\ Consenting(q)' = Consenting(q)
          /\ Sending(q)' = Sending(q) /\ Unrecorded(q)' = Unrecorded(q)
      BY <2>1 DEF Id, Owning, Consenting, Sending, Unrecorded
    <3> QED
      BY <2>1, <3>1, <3>2, <3>3, <3>4 DEF PurchaseIsSound
  <2>5. ASSUME NEW j \in Ids PROVE OrderIsSound(j)'
    BY <2>1 DEF BidInv, OrderIsSound, Unrecorded, Sending, Id
  <2>6. ViewIsSound'
    BY <2>1 DEF BidInv, BidTypeOK, View, ViewIsSound
  <2> QED
    BY <2>1, <2>2, <2>3, <2>4, <2>5, <2>6 DEF BidInv
<1>2. ASSUME BidCrash PROVE BidInv'
  <2>1. UNCHANGED <<consent, ledger, bid, audited, posted, doubted>> /\ view' = NoView
        /\ purchase' = [r \in Purchases |-> IF Running(r) THEN Answered(r, "dead") ELSE purchase[r]]
    BY <1>2 DEF BidCrash
  <2>2. \A r \in Purchases : purchase[r] \in Purchase /\ PurchaseIsSound(r)
    BY DEF BidInv, BidTypeOK
  <2>3. ASSUME NEW r \in Purchases
        PROVE  /\ purchase'[r] \in Purchase /\ purchase'[r].order = purchase[r].order
               /\ \/ /\ Running(r) /\ purchase[r].order \in BidOrders
                     /\ purchase'[r].pc = "done" /\ purchase'[r].reply = "dead"
                  \/ ~Running(r) /\ purchase'[r] = purchase[r]
    <3>1. CASE Running(r)
      <4>1. purchase'[r] = Answered(r, "dead") /\ purchase[r] \in Purchase
        BY <2>1, <2>2, <3>1
      <4>2. purchase[r].order \in BidOrders
        BY <2>2, <3>1 DEF Running, PurchaseAt, PurchaseIsSound
      <4> QED
        BY <3>1, <4>1, <4>2 DEF Answered, IdlePurchase, Purchase, Replies
    <3>2. CASE ~Running(r)
      BY <2>1, <2>2, <3>2
    <3> QED
      BY <3>1, <3>2
  <2>4. BidTypeOK'
    <3>1. spare \in [crashes : 0..MaxDeaths, views : 0..MaxViews]
          /\ spare.crashes > 0 /\ spare' = [spare EXCEPT !.crashes = @ - 1]
      BY <1>2 DEF BidCrash, BidInv, BidTypeOK
    <3>2. spare' \in [crashes : 0..MaxDeaths, views : 0..MaxViews]
      BY <3>1 DEF BidAssumptions
    <3>3. purchase' \in [Purchases -> Purchase]
      BY <2>1, <2>3
    <3> QED
      BY <2>1, <3>2, <3>3 DEF BidInv, BidTypeOK, View, NoView
  <2>5. \A r \in Purchases : /\ Id(r)' = Id(r)
                             /\ ~Owning(r)' /\ ~Consenting(r)' /\ ~Sending(r)' /\ ~Unrecorded(r)'
    BY <2>3 DEF Id, Owning, Consenting, Sending, Unrecorded, Running, PurchaseAt
  <2>6. OneOwner' /\ OneConsent' /\ OnePost' /\ ViewIsSound' /\ \A s \in posted' : PostIsSound(s)'
    BY <2>1, <2>5 DEF BidInv, OneOwner, OneConsent, OnePost, PostIsSound, ViewIsSound, NoView
  <2>7. ASSUME NEW q \in Purchases PROVE PurchaseIsSound(q)'
    BY <2>1, <2>2, <2>3, <2>5 DEF PurchaseIsSound, Running, PurchaseAt
  <2>8. ASSUME NEW i \in Ids PROVE OrderIsSound(i)'
    <3>1. ASSUME NEW q \in Purchases, Unrecorded(q) \/ purchase[q].reply = "dead"
          PROVE  purchase'[q].reply = "dead"
      BY <2>3, <3>1 DEF Unrecorded, Sending, Running, PurchaseAt
    <3> QED
      BY <2>1, <2>5, <3>1 DEF BidInv, OrderIsSound
  <2> QED
    BY <2>1, <2>4, <2>6, <2>7, <2>8 DEF BidInv
<1> QED
  BY <1>1, <1>2

(* Whatever a purchase, the view, the provider or a crash does. *)
LEMMA BidStep ==
    ASSUME BidAssumptions, BidInv, [BidNext]_bidVars
    PROVE  BidInv'
<1>1. ASSUME NEW order \in BidOrders, DryRun(order) PROVE BidInv'
  BY <1>1, DryRunStep
<1>2. ASSUME NEW r \in Purchases, PurchaseStep(r) PROVE BidInv'
  BY <1>2, ArriveStep, LookupStep, ConsumeStep, ClaimStep, LimitStep, CheckStep, PostStep,
     RecordStep, AuditStep, VerifyStep DEF PurchaseStep
<1>3. CASE ViewAudit \/ ViewList \/ ViewUpdate
  BY <1>3, ViewStep
<1>4. CASE (\E i \in Ids : End(i)) \/ BidCrash
  BY <1>4, EndsStep
<1>5. CASE UNCHANGED bidVars
  <2> USE <1>5 DEF bidVars, BidInv
  <2>1. BidTypeOK' /\ OneOwner' /\ OneConsent' /\ OnePost' /\ ViewIsSound'
    BY DEF BidTypeOK, OneOwner, OneConsent, OnePost, ViewIsSound, Owning, Consenting, Id
  <2>2. ASSUME NEW q \in Purchases PROVE PurchaseIsSound(q)'
    BY DEF PurchaseIsSound, Owning, Consenting, Sending, Unrecorded, Id
  <2>3. ASSUME NEW i \in Ids PROVE OrderIsSound(i)'
    BY DEF OrderIsSound, Unrecorded, Sending, Id
  <2>4. ASSUME NEW p \in posted PROVE PostIsSound(p)'
    BY DEF PostIsSound
  <2> HIDE DEF bidVars, BidInv
  <2> QED
    BY <2>1, <2>2, <2>3, <2>4 DEF bidVars, BidInv
<1> QED
  BY <1>1, <1>2, <1>3, <1>4, <1>5 DEF BidNext

(* In every state of every behaviour: a row has one purchase, a consent is      *)
(* used once, and the row, the audit and the provider agree on what was sent.   *)
THEOREM BidInvariance ==
    ASSUME BidAssumptions
    PROVE  BidSpec => []BidInv
<1>1. BidInit => BidInv
  BY BidStart
<1>2. BidInv /\ [BidNext]_bidVars => BidInv'
  BY BidStep
<1> QED
  BY <1>1, <1>2, PTL DEF BidSpec

(* Money is spent once, with consent, and what it bought stays known. *)
THEOREM BidsAccounted ==
    ASSUME BidAssumptions
    PROVE  BidSpec => []BidsAreAccountedFor
<1>1. ASSUME BidInv PROVE BidsAreAccountedFor
  <2>1. OneBidPerId
    <3>1. ASSUME NEW r \in Purchases, Running(r), {purchase[r].pc} \cap {"lookup", "confirm", "claim"} = {}
          PROVE  Owning(r)
      BY <1>1, <3>1 DEF BidInv, BidTypeOK, Purchase, Running, PurchaseAt, Owning
    <3> QED
      BY <1>1, <3>1 DEF BidInv, OneOwner, OnePost, PostIsSound, OneBidPerId
  <2>2. AcceptedIsTrue
    BY <1>1 DEF BidInv, OrderIsSound, PurchaseIsSound, AcceptedIsTrue
  <2>3. BidsAreKnown
    BY <1>1 DEF BidInv, OrderIsSound, BidsAreKnown, Unrecorded, Sending, Running, PurchaseAt
  <2> QED
    BY <2>1, <2>2, <2>3 DEF BidsAreAccountedFor
<1> QED
  BY <1>1, BidInvariance, PTL
=============================================================================
