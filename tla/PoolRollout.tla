----------------------------- MODULE PoolRollout -----------------------------
(***************************************************************************)
(* The decisions of a pool rollout                                         *)
(* (services/pool_intelligence/rollout.py).                                *)
(*                                                                         *)
(* A plan lists its devices in an order, here 1..size.  A state releases a *)
(* batch, the canary first; the caller reports one outcome for each device *)
(* of the batch; then the rollout halts, completes or releases the next    *)
(* batch.  The tuples of a state list their devices in the plan's order:   *)
(* they are the sets of their positions.  `released` is what the caller    *)
(* has been told to touch, batch by batch.                                 *)
(***************************************************************************)
EXTENDS Integers, FiniteSets, Sequences

CONSTANTS
    MaxDevices,     \* MAX_ROLLOUT_DEVICES
    MaxCanary,      \* MAX_CANARY_DEVICES
    MaxBatchSize    \* MAX_BATCH_DEVICES

VARIABLES
    plan,       \* size, canary_size and batch_size
    phase,      \* RolloutPhase
    active,     \* active_batch
    confirmed,  \* confirmed_devices
    failures,   \* the devices of failures
    reason,     \* why the phase
    released,   \* every device of every batch so far
    affirmed    \* the devices the caller reported confirmed

rolloutVars == <<plan, phase, active, confirmed, failures, reason, released, affirmed>>

RolloutAssumptions == MaxDevices \in Nat /\ MaxBatchSize \in Nat /\ MaxCanary \in 0..MaxBatchSize

Outcomes == {"confirmed", "failed", "unknown"}
Phases == {"canary", "batch", "complete", "halted"}
Reasons == {"awaiting_canary", "awaiting_batch", "rollout_complete",
            "canary_not_confirmed", "batch_not_confirmed"}
RolloutPlans == {p \in [size : 1..MaxDevices, canary : 1..MaxCanary, batch : 1..MaxBatchSize] :
            p.canary <= p.size}

Devices == 1..plan.size

(* The first n devices of a tuple that lists the positions of S. *)
Leading(S, n) == {d \in S : Cardinality({e \in S : e < d}) < n}

Untouched(done) == Devices \ done

-----------------------------------------------------------------------------
(* start_pool_rollout: only the canary is released. *)
Start(p) ==
    /\ phase = "canary"
    /\ active = Leading(1..p.size, p.canary)
    /\ confirmed = {}
    /\ failures = {}
    /\ reason = "awaiting_canary"

RolloutInit ==
    /\ plan \in RolloutPlans
    /\ Start(plan)
    /\ released = active
    /\ affirmed = {}

(* The outcomes other than confirmed are failures: unknown is not trusted. *)
DoubtfulIfFailed(outcome) == {d \in active : outcome[d] = "failed"}

Doubtful(outcome) == {d \in active : outcome[d] # "confirmed"}

Halt(good, bad) ==
    /\ phase' = "halted"
    /\ active' = {}
    /\ confirmed' = good
    /\ failures' = bad
    /\ reason' = IF phase = "canary" THEN "canary_not_confirmed" ELSE "batch_not_confirmed"
    /\ UNCHANGED released

Complete(good) ==
    /\ phase' = "complete"
    /\ active' = {}
    /\ confirmed' = good
    /\ failures' = {}
    /\ reason' = "rollout_complete"
    /\ UNCHANGED released

ReleaseForgetting(good) ==
    /\ phase' = "batch"
    /\ active' = Leading(Untouched(good), plan.batch)
    /\ reason' = "awaiting_batch"
    /\ released' = released \cup active'
    /\ UNCHANGED <<confirmed, failures>>

Release(good) ==
    /\ phase' = "batch"
    /\ active' = Leading(Untouched(good), plan.batch)
    /\ confirmed' = good
    /\ failures' = {}
    /\ reason' = "awaiting_batch"
    /\ released' = released \cup active'

(* record_pool_rollout_batch, with an outcome for every active device and  *)
(* for no other; anything else is refused and changes nothing.             *)
Record(outcome) ==
    LET bad == Doubtful(outcome)
        good == confirmed \cup (active \ bad)
    IN /\ phase \notin {"complete", "halted"}
       /\ affirmed' = affirmed \cup {d \in active : outcome[d] = "confirmed"}
       /\ UNCHANGED plan
       /\ \/ bad # {} /\ Halt(good, bad)
          \/ bad = {} /\ Untouched(good) = {} /\ Complete(good)
          \/ bad = {} /\ Untouched(good) # {} /\ Release(good)

RolloutNext == \E outcome \in [active -> Outcomes] : Record(outcome)

RolloutSpec == RolloutInit /\ [][RolloutNext]_rolloutVars


-----------------------------------------------------------------------------
RolloutTypeOK ==
    /\ plan \in RolloutPlans
    /\ phase \in Phases
    /\ active \subseteq Devices
    /\ confirmed \subseteq Devices
    /\ failures \subseteq Devices
    /\ reason \in Reasons
    /\ released \subseteq Devices
    /\ affirmed \subseteq Devices

(***************************************************************************)
(* The checks of PoolRolloutState.__post_init__, which raises on a state   *)
(* that breaks one                                                         *)
(***************************************************************************)
SetsAreApart ==
    /\ active \cap confirmed = {}
    /\ failures \cap (active \cup confirmed) = {}
    /\ Cardinality(active) <= MaxBatchSize
    /\ Cardinality(failures) <= MaxBatchSize
    /\ Cardinality(confirmed) <= MaxDevices

CanaryIsValid ==
    /\ active = Leading(Devices, plan.canary)
    /\ confirmed = {} /\ failures = {} /\ reason = "awaiting_canary"

BatchIsValid ==
    LET done == Cardinality(confirmed)
    IN /\ done >= plan.canary
       /\ confirmed = Leading(Devices, done)
       /\ active # {}
       /\ active = {d \in Devices : done < d /\ d <= done + plan.batch}
       /\ failures = {} /\ reason = "awaiting_batch"

CompleteIsValid ==
    active = {} /\ confirmed = Devices /\ failures = {} /\ reason = "rollout_complete"

HaltedIsValid ==
    LET done == Cardinality(confirmed) + Cardinality(failures)
    IN /\ active = {} /\ failures # {}
       /\ confirmed = Leading(Devices, done) \ failures
       /\ failures \subseteq Leading(Devices, done)
       /\ reason = IF done = plan.canary THEN "canary_not_confirmed" ELSE "batch_not_confirmed"

(* No outcome leads to a state that the state's own checks refuse, which   *)
(* would lose the batch that was just reported.                            *)
ValidState ==
    /\ SetsAreApart
    /\ phase = "canary" => CanaryIsValid
    /\ phase = "batch" => BatchIsValid
    /\ phase = "complete" => CompleteIsValid
    /\ phase = "halted" => HaltedIsValid

(* Nothing past the canary is released before the caller has reported the  *)
(* whole canary confirmed, whatever the number of batches.                 *)
CanaryFirst ==
    (\E d \in released : d > plan.canary) => 1..plan.canary \subseteq affirmed

(* The devices that were touched and not reported confirmed are those of   *)
(* one batch: a doubt is never carried into the next one.                  *)
OneBatchAtRisk ==
    Cardinality(released \ affirmed) <=
        IF \E d \in released : d > plan.canary THEN plan.batch ELSE plan.canary

(* A rollout never gets stuck in a state it refuses, starts with its canary *)
(* and risks one batch at a time.                                           *)
RolloutIsSafe == ValidState /\ CanaryFirst /\ OneBatchAtRisk
=============================================================================
