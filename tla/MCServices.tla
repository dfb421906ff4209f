----------------------------- MODULE MCServices -----------------------------
(***************************************************************************)
(* The services that share no state, each on a small instance.  Every      *)
(* behaviour is one of one service: `part` says of which, and the others   *)
(* keep their first state, so that their states add up and do not multiply.*)
(* The services with proofs are extended, and the cfg gives their          *)
(* instances; the others are instantiated here.                            *)
(***************************************************************************)
EXTENDS Purchases_proofs, Alerts_proofs, Automation_proofs, OperatorView_proofs

VARIABLES
    part,
    \* replay, beside a pilot of its own
    instant, switches, round, cooled, advised, spent, performed, noted, fed, shelved, parted

liveVars == <<instant, switches, round, cooled, advised, spent, performed, noted, fed,
              shelved, parted>>
servicesVars == <<part, vars, hookVars, rolloutVars, streamVars, outletVars,
                  pilotVars, liveVars, sessionVars, pollVars, bidVars, rigVars, rentalVars>>

(* Two cycles of one miner, two of one plug, and a user who toggles it. *)
CycleMiner == [c1 |-> "m1", c2 |-> "m1", c3 |-> "m2"]
OutletPlug == [c1 |-> "p1", c2 |-> "p2", c3 |-> "p1", u1 |-> "p1"]
CommandMethod == [u1 |-> "toggle"]

RetryBackoff == [n \in 0..2 |-> 1]

(* Two rules on one device that contradict each other, and a recommendation. *)
RuleDevice == [cool |-> "d1", wake |-> "d1"]
RuleCommand == [cool |-> "pause", wake |-> "resume"]
RulePriority == [cool |-> 0, wake |-> 0]
RuleInterval == [cool |-> 2, wake |-> 0]
AdviceCooldown == [reboot |-> 2]

(* A third rule on a second device, in the budget of the first two; the one that *)
(* loses a conflict has an interval to cool down, and the budget comes back.     *)
Replay == INSTANCE AutoPilotReplay WITH
    Rules <- {"cool", "wake", "boot"}, Device <- [cool |-> "d1", wake |-> "d1", boot |-> "d2"],
    Command <- [cool |-> "pause", wake |-> "resume", boot |-> "restart"],
    Priority <- [cool |-> 1, wake |-> 0, boot |-> 0],
    MinInterval <- [cool |-> 2, wake |-> 2, boot |-> 1],
    Recommendations <- {}, RecCooldown <- [r \in {} |-> 2],
    Cap <- 2, BudgetWindow <- 2, MaxNow <- 3, Replayed <- 3, samples <- fed,
    now <- instant, gates <- switches, cycle <- round, lastFired <- cooled, lastRec <- advised,
    budget <- spent, acts <- performed, audit <- noted

ASSUME
    /\ Assumptions /\ HookAssumptions /\ RolloutAssumptions /\ StreamAssumptions
    /\ OutletAssumptions /\ PilotAssumptions /\ Replay!PilotAssumptions /\ SessionAssumptions
    /\ PollAssumptions /\ BidAssumptions /\ RigAssumptions /\ RentalAssumptions

-----------------------------------------------------------------------------
Parts == {"payment", "webhook", "rollout", "stream", "outlet", "pilot", "replay", "session",
          "operator", "bid", "rigs", "restores", "rental"}

(* Whatever a component may start with is fixed where it is not chosen. *)
ServicesInit ==
    /\ part \in Parts
    /\ Init /\ (part # "payment" => recorded = {} /\ \A p \in Payments : bought[p] = "pro")
    /\ HookInit
    /\ RolloutInit /\ (part # "rollout" => plan = [size |-> 1, canary |-> 1, batch |-> 1])
    /\ StreamInit
    /\ OutletInit
    /\ PilotInit
    /\ part # "pilot" => ~gates.armed /\ ~gates.autonomous /\ ~gates.permitted
    /\ Replay!ReplayInit
    /\ SessionInit
    /\ PollInit /\ address = "A"
    /\ BidInit
    /\ RigInit
    /\ RentalInit

(* Two purchases only differ in name: they begin in one order. *)
BidsInOrder == purchase["r2"] # IdlePurchase => purchase["r1"] # IdlePurchase

(* Two rigs on the same lists meet one request and no fault, within an hour; *)
(* one rig meets all the requests and the fault.                             *)
RigsTogether == chances'.requests >= MaxRequests - 1 /\ chances'.faults = MaxMishaps /\ hour' = 1
RigAlone == newest'["q"] = 0 /\ \A t \in Editors : change'[t] # NoChange => change'[t].rig = "r"

ServicesNext ==
    /\ UNCHANGED part
    /\ IF part = "payment" THEN Next ELSE UNCHANGED vars
    /\ IF part = "webhook" THEN HookNext ELSE UNCHANGED hookVars
    /\ IF part = "rollout" THEN RolloutNext ELSE UNCHANGED rolloutVars
    /\ IF part = "stream" THEN StreamNext ELSE UNCHANGED streamVars
    /\ IF part = "outlet" THEN OutletNext ELSE UNCHANGED outletVars
    /\ IF part = "pilot" THEN PilotNext ELSE UNCHANGED pilotVars
    /\ IF part = "replay" THEN Replay!ReplayNext ELSE UNCHANGED liveVars
    /\ IF part = "session" THEN SessionNext ELSE UNCHANGED sessionVars
    /\ IF part = "operator" THEN PollNext ELSE UNCHANGED pollVars
    /\ IF part = "bid" THEN BidNext /\ BidsInOrder' ELSE UNCHANGED bidVars
    /\ CASE part = "rigs" -> RigNext /\ RigsTogether
         [] part = "restores" -> RigNext /\ RigAlone
         [] OTHER -> UNCHANGED rigVars
    /\ IF part = "rental" THEN RentalNext ELSE UNCHANGED rentalVars

ServicesSpec == ServicesInit /\ [][ServicesNext]_servicesVars

-----------------------------------------------------------------------------
(***************************************************************************)
(* The properties, of the modules that define them                         *)
(***************************************************************************)
(* The service that runs keeps its types. *)
EachTypeOK ==
    CASE part = "payment" -> TypeOK
      [] part = "webhook" -> HookTypeOK
      [] part = "rollout" -> RolloutTypeOK
      [] part = "stream" -> StreamTypeOK
      [] part = "outlet" -> OutletTypeOK
      [] part = "pilot" -> PilotTypeOK
      [] part = "replay" -> Replay!PilotTypeOK
      [] part = "session" -> SessionTypeOK
      [] part = "operator" -> PollTypeOK
      [] part = "bid" -> BidTypeOK
      [] part \in {"rigs", "restores"} -> RigTypeOK
      [] part = "rental" -> RentalTypeOK

(* Between two cycles the replay counts what the live cycles spent. *)
ReplayIsLive == part = "replay" => Replay!ReplayIsLive
=============================================================================
