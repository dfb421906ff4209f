----------------------------- MODULE MCProgress -----------------------------
(***************************************************************************)
(* What must happen in the end, of components that share no state, each on *)
(* a small instance.  As in MCServices, every behaviour is one of one      *)
(* component, `part`.                                                      *)
(***************************************************************************)
EXTENDS Integers

VARIABLES
    part,
    \* dispatch
    pc, body, approval, reply, ledger, tokens, target, contacted, cooling, enabled,
    \* payment and webhook
    bought, recorded, settled, acked, claim, licence, delivery, counted, unread,
    thread, row, loop, stuck, posts, accepted, doubts, undone, faults,
    \* session
    world, user, call, store, idle, workers, registered, heap, ready, polling, prev, noticed,
    alerted, apart,
    \* agent
    rows, alias, samples, req, banned, at, known, blocked, agent, left,
    \* poll
    address, saved, poller, held, clock, switch, changes, history, baseline, found, alarm,
    alerts, screen, mixed, kept

dispatchVars == <<pc, body, approval, reply, ledger, tokens, target, contacted, cooling, enabled>>
payVars == <<bought, recorded, settled, acked, claim, licence, delivery, counted, unread>>
hookVars == <<thread, row, loop, stuck, posts, accepted, doubts, undone, faults>>
sessionVars == <<world, user, call, store, idle, workers, registered, heap, ready, polling,
                 prev, noticed, alerted, apart>>
agentVars == <<rows, alias, samples, req, banned, at, known, blocked, agent, left>>
pollVars == <<address, saved, poller, held, clock, switch, changes, history, baseline, found,
              alarm, alerts, screen, mixed, kept>>
vars == <<part, dispatchVars, payVars, hookVars, sessionVars, agentVars, pollVars>>

Requests == {"r1", "r2"}
Invoices == {"i1"}
Deliveries == {"d1", "d2"}
Alerts == {"a1"}
Sessions == {"s1"}
Macs == {"A", "B"}
Threads == {"loop", "f1"}

Dispatch == INSTANCE CommandDispatch WITH
    NoRequest <- "no request", Keys <- {"k1"}, NoKey <- "no key", Tokens <- {"t1"},
    NoToken <- "no token", Devices <- {"d1"}, Commands <- {"restart"}, sent <- contacted

Pay == INSTANCE PaymentFulfillment WITH
    Orders <- {}, Keys <- {"k1", "k2"}, NoPayment <- "no payment", NoKey <- "no key"

Hook == INSTANCE WebhookQueue WITH
    Backoff <- [n \in 0..2 |-> 1], MaxAttempts <- 3,
    MaxBatch <- 1, DnsCapacity <- 1, Late <- 1, MaxFaults <- 2

(* One session, one thread and a change of the world. *)
Session == INSTANCE SessionPolling WITH
    PoolThreads <- {"t1"}, Nobody <- "nobody", Ttl <- 1, MaxWorld <- 1

(* Two miners that exchange addresses, and an operator who removes one. *)
Agent == INSTANCE FleetAgent WITH
    Ids <- 1..2, Ips <- {"x", "y"}, Requests <- {}, MaxWorkers <- 2,
    NoMac <- "no MAC", NoIp <- "no address", NoRow <- 0, Contradicted <- "conflict",
    MaxLost <- 1, MaxMoves <- 2, MaxOperations <- 1

(* The loop, a poll after a change, and a change (or a restart). *)
Operator == INSTANCE OperatorPoll WITH
    Loop <- "loop", Wallets <- {"A", "B"}, NoWallet <- "no wallet", Configured <- "B",
    MaxSwitches <- 1, MaxHangs <- 0, lock <- held

ASSUME
    /\ Pay!Assumptions /\ Hook!HookAssumptions /\ Session!SessionAssumptions /\ Agent!IdentityAssumptions
    /\ Operator!PollAssumptions

-----------------------------------------------------------------------------
Parts == {"dispatch", "payment", "webhook", "session", "agent", "operator"}

(* Whatever a component may start with is fixed where it is not chosen. *)
Init ==
    /\ part \in Parts
    /\ Dispatch!Init /\ (part # "dispatch" => ~enabled)
    /\ Pay!Init /\ (part # "payment" => recorded = {} /\ \A p \in Pay!Payments : bought[p] = "pro")
    /\ Hook!HookInit
    /\ Session!SessionInit
    /\ Agent!AgentInit /\ (part # "agent" => at = [m \in Macs |-> "no address"])
    /\ Operator!PollInit /\ address = "A"

Next ==
    /\ UNCHANGED part
    /\ IF part = "dispatch" THEN Dispatch!Next ELSE UNCHANGED dispatchVars
    /\ IF part = "payment" THEN Pay!Next ELSE UNCHANGED payVars
    /\ IF part = "webhook" THEN Hook!HookNext ELSE UNCHANGED hookVars
    /\ IF part = "session" THEN Session!SessionNext ELSE UNCHANGED sessionVars
    /\ IF part = "agent" THEN Agent!AgentNext ELSE UNCHANGED agentVars
    /\ IF part = "operator" THEN Operator!PollNext ELSE UNCHANGED pollVars

(* The fairness of each component, of the behaviours that are its own. *)
Fairness ==
    /\ \A r \in Requests : WF_dispatchVars(part = "dispatch" /\ Dispatch!Step(r))
    /\ \A i \in Invoices :
         /\ SF_payVars(part = "payment" /\ i \notin acked /\ \E d \in Deliveries : Pay!Deliver(d, i))
         /\ SF_payVars(part = "payment" /\ \E d \in Deliveries : Pay!For(d, i) /\ Pay!CheckInvoice(d))
         /\ SF_payVars(part = "payment" /\ \E d \in Deliveries : Pay!For(d, i) /\ Pay!ReadPlan(d))
         /\ SF_payVars(part = "payment" /\ \E d \in Deliveries : Pay!For(d, i) /\ Pay!Fulfil(d))
    /\ WF_payVars(part = "payment" /\ \E d \in Deliveries : Pay!ServeOrder(d) \/ Pay!CountPaid(d))
    /\ \A a \in Alerts : WF_hookVars(part = "webhook" /\ Hook!DispatchThread(a))
    /\ WF_hookVars(part = "webhook" /\ Hook!RetryLoop)
    /\ WF_hookVars(part = "webhook" /\ Hook!Tick)
    /\ WF_sessionVars(part = "session" /\ Session!PoolStep("t1"))
    /\ \A s \in Sessions :
         /\ WF_sessionVars(part = "session" /\ Session!CallStep(s))
         /\ WF_sessionVars(part = "session" /\ Session!Schedule(s))
         /\ WF_sessionVars(part = "session" /\ (Session!StopWorker(s) \/ Session!Destroy(s)))
    /\ WF_agentVars(part = "agent" /\ Agent!AgentStep)
    /\ \A t \in Threads : WF_pollVars(part = "operator" /\ Operator!PollStep(t))
    /\ WF_pollVars(part = "operator" /\ (Operator!Reset \/ Operator!Clear))

FairSpec == Init /\ [][Next]_vars /\ Fairness

-----------------------------------------------------------------------------
(***************************************************************************)
(* The properties, of the modules that define them                         *)
(***************************************************************************)
(* A claim of a command gets its verdict unless its worker dies. *)
ClaimsAreSettled == Dispatch!ClaimsAreSettled

(* A paid invoice whose webhook is repeated gets its key. *)
SettledIsFulfilled == Pay!SettledIsFulfilled

(* Every alert leaves the retry queue. *)
QueueDrains == Hook!QueueDrains

(* Who is registered is polled again and again, and who leaves is no longer. *)
PollingFollowsUsers == Session!PollingFollowsUsers

(* The agent follows the fleet: what is new is tracked, what is removed is not. *)
MinersAreFollowed == Agent!MinersAreFollowed

(* Once the wallet changes no more, the screen shows the one that is watched. *)
ScreenFollowsWallet == Operator!ScreenFollowsWallet
=============================================================================
