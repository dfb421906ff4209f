-------------------------- MODULE Automation_proofs --------------------------
(***************************************************************************)
(* Proofs about what acts on the fleet by itself: the pool rollout, for    *)
(* every size of plan, canary and batch; power outlets, for any number of  *)
(* cycles, commands, miners and plugs; and the Auto-Pilot, for any rules   *)
(* and recommendations, every interval, cap and window.                    *)
(***************************************************************************)
EXTENDS PoolRollout, PowerCycle, AutoPilot, FiniteSetTheorems, TLAPS

-----------------------------------------------------------------------------
(***************************************************************************)
(* The positions of a tuple                                                *)
(***************************************************************************)
Least(a, b) == IF a <= b THEN a ELSE b

(* The first n positions after `from` of a tuple of length `size`. *)
LEMMA LeadingOfInterval ==
    ASSUME NEW from \in Nat, NEW size \in Nat, NEW n \in Nat
    PROVE  Leading((from + 1)..size, n) = (from + 1)..Least(size, from + n)
<1> DEFINE S == (from + 1)..size
<1>1. ASSUME NEW d \in S
      PROVE  Cardinality({e \in S : e < d}) = d - from - 1
  <2>1. {e \in S : e < d} = (from + 1)..(d - 1)
    OBVIOUS
  <2>2. Cardinality((from + 1)..(d - 1)) = IF from + 1 > d - 1 THEN 0 ELSE d - 1 - (from + 1) + 1
    BY FS_Interval
  <2>3. Cardinality((from + 1)..(d - 1)) = d - from - 1
    <3>1. d \in Int /\ from + 1 <= d
      OBVIOUS
    <3> QED
      BY <2>2, <3>1
  <2> QED
    BY <2>1, <2>3, Zenon
<1>2. Leading(S, n) = {d \in S : d - from - 1 < n}
  BY <1>1 DEF Leading
<1>3. {d \in S : d - from - 1 < n} = (from + 1)..Least(size, from + n)
  BY DEF Least
<1> QED
  BY <1>2, <1>3, Zenon

(* The devices are confirmed in the plan's order, so that what is left of them *)
(* is an interval too.                                                         *)
LEMMA UntouchedOfInterval ==
    ASSUME NEW n \in Nat, plan.size \in Nat
    PROVE  Untouched(1..n) = (n + 1)..plan.size
BY DEF Untouched, Devices

-----------------------------------------------------------------------------
(***************************************************************************)
(* The inductive invariant: how far the rollout has come.  `done` devices  *)
(* are confirmed and those up to `top` released.                          *)
(***************************************************************************)
CanaryState ==
    /\ active = 1..plan.canary
    /\ confirmed = {} /\ failures = {} /\ affirmed = {}
    /\ released = 1..plan.canary
    /\ reason = "awaiting_canary"

BatchState ==
    \E done \in Nat :
        LET top == Least(plan.size, done + plan.batch)
        IN /\ plan.canary <= done /\ done < plan.size
           /\ active = (done + 1)..top
           /\ confirmed = 1..done /\ failures = {} /\ affirmed = 1..done
           /\ released = 1..top
           /\ reason = "awaiting_batch"

CompleteState ==
    /\ active = {} /\ failures = {}
    /\ confirmed = Devices /\ affirmed = Devices /\ released = Devices
    /\ reason = "rollout_complete"

HaltedState ==
    \E top \in Nat :
        /\ plan.canary <= top /\ top <= plan.size
        /\ active = {} /\ failures # {}
        /\ failures \subseteq 1..top
        /\ confirmed = (1..top) \ failures /\ affirmed = confirmed
        /\ released = 1..top
        /\ \/ top = plan.canary /\ reason = "canary_not_confirmed"
           \/ /\ plan.canary < top /\ reason = "batch_not_confirmed"
              /\ \E done \in Nat :
                    /\ plan.canary <= done /\ top <= done + plan.batch
                    /\ failures \subseteq (done + 1)..top

Progress ==
    /\ plan \in RolloutPlans
    /\ phase \in Phases
    /\ phase = "canary" => CanaryState
    /\ phase = "batch" => BatchState
    /\ phase = "complete" => CompleteState
    /\ phase = "halted" => HaltedState

(* The sizes of a plan as PoolRolloutPlan accepts them. *)
LEMMA PlanIsSmall ==
    ASSUME RolloutAssumptions, plan \in RolloutPlans
    PROVE  /\ plan.size \in Nat /\ plan.canary \in Nat /\ plan.batch \in Nat
           /\ 1 <= plan.canary /\ plan.canary <= plan.size /\ 1 <= plan.batch
           /\ plan.size <= MaxDevices /\ plan.canary <= MaxBatchSize /\ plan.batch <= MaxBatchSize
           /\ MaxDevices \in Nat /\ MaxBatchSize \in Nat
BY DEF RolloutAssumptions, RolloutPlans

(* A rollout starts with its canary released. *)
LEMMA InitProgress ==
    ASSUME RolloutAssumptions, RolloutInit
    PROVE  Progress
<1>1. plan \in RolloutPlans
  BY DEF RolloutInit
<1>2. Leading(1..plan.size, plan.canary) = 1..plan.canary
  BY <1>1, PlanIsSmall, LeadingOfInterval DEF Least
<1> QED
  BY <1>1, <1>2 DEF RolloutInit, Start, Progress, CanaryState, Phases

(* The state after a batch whose outcomes are all reported confirmed. *)
LEMMA BatchConfirmed ==
    ASSUME RolloutAssumptions, plan \in RolloutPlans, UNCHANGED plan,
           NEW n \in Nat, plan.canary <= n, n <= plan.size,
           released = 1..n, affirmed' = 1..n,
           \/ Untouched(1..n) = {} /\ Complete(1..n)
           \/ Untouched(1..n) # {} /\ Release(1..n)
    PROVE  Progress'
<1>1. Untouched(1..n) = (n + 1)..plan.size
  BY PlanIsSmall, UntouchedOfInterval
<1>2. CASE Untouched(1..n) = {} /\ Complete(1..n)
  <2>1. n = plan.size
    <3>1. n + 1 \notin (n + 1)..plan.size
      BY <1>1, <1>2
    <3> QED
      BY <3>1, PlanIsSmall
  <2> QED
    BY <1>2, <2>1 DEF Complete, Progress, CompleteState, Phases, Devices
<1>3. CASE Untouched(1..n) # {} /\ Release(1..n)
  <2> DEFINE top == Least(plan.size, n + plan.batch)
  <2>1. n < plan.size
    BY <1>1, <1>3, PlanIsSmall
  <2>2. active' = (n + 1)..top
    BY <1>1, <1>3, PlanIsSmall, LeadingOfInterval DEF Release
  <2>3. released' = 1..top
    BY <1>3, <2>1, <2>2, PlanIsSmall DEF Release, Least
  <2>4. BatchState'
    BY <1>3, <2>1, <2>2, <2>3, PlanIsSmall DEF Release, BatchState
  <2> QED
    BY <1>3, <2>4 DEF Release, Progress, Phases
<1> QED
  BY <1>2, <1>3

(* Every recorded batch keeps the progress of the rollout. *)
LEMMA NextProgress ==
    ASSUME RolloutAssumptions, Progress, [RolloutNext]_rolloutVars
    PROVE  Progress'
<1>1. CASE UNCHANGED rolloutVars
  BY <1>1 DEF rolloutVars, Progress, CanaryState, BatchState, CompleteState, HaltedState, Devices
<1>2. CASE RolloutNext
  <2>1. PICK outcome \in [active -> Outcomes] : Record(outcome)
    BY <1>2 DEF RolloutNext
  <2> DEFINE bad == Doubtful(outcome)
             good == confirmed \cup (active \ bad)
  <2>2. /\ plan \in RolloutPlans /\ UNCHANGED plan
        /\ affirmed' = affirmed \cup (active \ bad)
        /\ bad \subseteq active
    BY <2>1 DEF Progress, Record, Doubtful, Outcomes
  <2>3. phase \in {"canary", "batch"}
    BY <2>1 DEF Progress, Record, Phases
  <2>4. CASE phase = "canary"
    <3>1. CanaryState
      BY <2>4 DEF Progress
    <3>2. CASE bad # {} /\ Halt(good, bad)
      <4>1. HaltedState'
        BY <2>2, <2>4, <3>1, <3>2, PlanIsSmall DEF Halt, CanaryState, HaltedState
      <4> QED
        BY <2>2, <3>2, <4>1 DEF Halt, Progress, Phases
    <3>3. CASE bad = {}
      <4>1. good = 1..plan.canary /\ affirmed' = 1..plan.canary /\ released = 1..plan.canary
        BY <2>2, <3>1, <3>3 DEF CanaryState
      <4>2. \/ Untouched(good) = {} /\ Complete(good)
            \/ Untouched(good) # {} /\ Release(good)
        BY <2>1, <3>3 DEF Record
      <4>3. /\ plan.canary \in Nat /\ plan.canary <= plan.size
            /\ plan.canary <= plan.canary
        BY <2>2, PlanIsSmall
      <4> HIDE DEF bad, good
      <4> QED
        BY <2>2, <4>1, <4>2, <4>3, BatchConfirmed
    <3> QED
      BY <2>1, <3>2, <3>3 DEF Record
  <2>5. CASE phase = "batch"
    <3>1. PICK done \in Nat :
            LET top == Least(plan.size, done + plan.batch)
            IN /\ plan.canary <= done /\ done < plan.size
               /\ active = (done + 1)..top
               /\ confirmed = 1..done /\ failures = {} /\ affirmed = 1..done
               /\ released = 1..top
      BY <2>5 DEF Progress, BatchState
    <3> DEFINE top == Least(plan.size, done + plan.batch)
    <3>2. /\ top \in Nat /\ done < top /\ plan.canary < top
          /\ top <= plan.size /\ top <= done + plan.batch
      BY <2>2, <3>1, PlanIsSmall DEF Least
    <3>3. CASE bad # {} /\ Halt(good, bad)
      <4>1. /\ bad \subseteq (done + 1)..top /\ bad \subseteq 1..top
            /\ good = (1..top) \ bad
        BY <2>2, <3>1, <3>2
      <4>2. affirmed' = good
        BY <2>2, <3>1
      <4>3. /\ active' = {} /\ failures' = bad /\ confirmed' = good /\ released' = 1..top
            /\ reason' = "batch_not_confirmed" /\ phase' = "halted"
        BY <2>5, <3>1, <3>3 DEF Halt
      <4>4. HaltedState'
        BY <2>2, <3>1, <3>2, <3>3, <4>1, <4>2, <4>3, PlanIsSmall DEF HaltedState
      <4> QED
        BY <2>2, <4>3, <4>4 DEF Progress, Phases
    <3>4. CASE bad = {}
      <4>1. good = 1..top /\ affirmed' = 1..top
        BY <2>2, <3>1, <3>2, <3>4
      <4>2. \/ Untouched(good) = {} /\ Complete(good)
            \/ Untouched(good) # {} /\ Release(good)
        BY <2>1, <3>4 DEF Record
      <4> HIDE DEF bad, good, top
      <4> QED
        BY <2>2, <3>1, <3>2, <4>1, <4>2, BatchConfirmed, PlanIsSmall DEF top
    <3> QED
      BY <2>1, <3>3, <3>4 DEF Record
  <2> QED
    BY <2>3, <2>4, <2>5
<1> QED
  BY <1>1, <1>2

(* However batches are recorded, the state is one of the four shapes of Progress. *)
THEOREM ProgressHolds ==
    ASSUME RolloutAssumptions
    PROVE  RolloutSpec => []Progress
<1>1. RolloutInit => Progress
  BY InitProgress
<1>2. Progress /\ [RolloutNext]_rolloutVars => Progress'
  BY NextProgress
<1> QED
  BY <1>1, <1>2, PTL DEF RolloutSpec
-----------------------------------------------------------------------------
(***************************************************************************)
(* What follows from it                                                    *)
(***************************************************************************)
(* Each of the shapes is well typed. *)
LEMMA ProgressIsTyped ==
    ASSUME RolloutAssumptions, Progress
    PROVE  RolloutTypeOK
<1>1. plan \in RolloutPlans /\ phase \in Phases
  BY DEF Progress
<1>2. CASE phase = "canary"
  BY <1>1, <1>2, PlanIsSmall DEF Progress, CanaryState, RolloutTypeOK, Devices, Reasons
<1>3. CASE phase = "batch"
  BY <1>1, <1>3, PlanIsSmall DEF Progress, BatchState, Least, RolloutTypeOK, Devices, Reasons
<1>4. CASE phase = "complete"
  BY <1>1, <1>4 DEF Progress, CompleteState, RolloutTypeOK, Reasons
<1>5. CASE phase = "halted"
  BY <1>1, <1>5, PlanIsSmall DEF Progress, HaltedState, RolloutTypeOK, Devices, Reasons
<1> QED
  BY <1>1, <1>2, <1>3, <1>4, <1>5 DEF Phases

(* The sizes of the sets that the state's checks compare. *)
LEMMA IntervalSize ==
    ASSUME NEW n \in Nat
    PROVE  IsFiniteSet(1..n) /\ Cardinality(1..n) = n
<1>1. IsFiniteSet(1..n) /\ Cardinality(1..n) = IF 1 > n THEN 0 ELSE n - 1 + 1
  BY FS_Interval
<1> QED
  BY <1>1

(* Each of the shapes is a state the code accepts, with one batch at risk. *)
LEMMA ProgressIsSafe ==
    ASSUME RolloutAssumptions, Progress
    PROVE  RolloutIsSafe
<1>1. plan \in RolloutPlans /\ phase \in Phases
  BY DEF Progress
<1>2. /\ plan.size \in Nat /\ plan.canary \in Nat /\ plan.batch \in Nat
      /\ 1 <= plan.canary /\ plan.canary <= plan.size /\ 1 <= plan.batch
      /\ plan.size <= MaxDevices /\ plan.canary <= MaxBatchSize /\ plan.batch <= MaxBatchSize
      /\ MaxDevices \in Nat /\ MaxBatchSize \in Nat
  BY <1>1, PlanIsSmall
<1>3. Cardinality({}) = 0
  BY FS_EmptySet
<1>4. CASE phase = "canary"
  <2>1. CanaryState
    BY <1>4 DEF Progress
  <2>2. Cardinality(1..plan.canary) = plan.canary
    BY <1>2, IntervalSize
  <2>3. Leading(Devices, plan.canary) = 1..plan.canary
    <3>1. Leading((0 + 1)..plan.size, plan.canary) = (0 + 1)..Least(plan.size, 0 + plan.canary)
      BY <1>2, LeadingOfInterval
    <3> QED
      BY <1>2, <3>1 DEF Devices, Least
  <2>4. SetsAreApart
    BY <1>2, <1>3, <2>1, <2>2 DEF CanaryState, SetsAreApart
  <2>5. CanaryIsValid
    BY <2>1, <2>3 DEF CanaryState, CanaryIsValid
  <2>6. released \ affirmed = 1..plan.canary /\ ~ \E d \in released : d > plan.canary
    BY <1>2, <2>1 DEF CanaryState
  <2>7. ValidState
    BY <1>4, <2>4, <2>5 DEF ValidState
  <2>8. CanaryFirst /\ OneBatchAtRisk
    <3>1. Cardinality(released \ affirmed) = plan.canary
      BY <2>2, <2>6, Zenon
    <3> QED
      BY <1>2, <2>6, <3>1 DEF CanaryFirst, OneBatchAtRisk
  <2> QED
    BY <2>7, <2>8 DEF RolloutIsSafe
<1>5. CASE phase = "batch"
  <2>1. PICK done \in Nat :
          LET top == Least(plan.size, done + plan.batch)
          IN /\ plan.canary <= done /\ done < plan.size
             /\ active = (done + 1)..top
             /\ confirmed = 1..done /\ failures = {} /\ affirmed = 1..done
             /\ released = 1..top
             /\ reason = "awaiting_batch"
    BY <1>5 DEF Progress, BatchState
  <2> DEFINE top == Least(plan.size, done + plan.batch)
  <2>2. /\ top \in Nat /\ done < top /\ plan.canary < top
        /\ top <= plan.size /\ top <= done + plan.batch
    BY <1>2, <2>1 DEF Least
  <2>3. Cardinality(confirmed) = done
    BY <2>1, IntervalSize
  <2>4. Cardinality(active) = top - done /\ released \ affirmed = active
    <3>1. Cardinality((done + 1)..top) = IF done + 1 > top THEN 0 ELSE top - (done + 1) + 1
      BY <2>2, FS_Interval
    <3> QED
      BY <2>1, <2>2, <3>1
  <2>5. Leading(Devices, done) = 1..done
    <3>1. Leading((0 + 1)..plan.size, done) = (0 + 1)..Least(plan.size, 0 + done)
      BY <1>2, LeadingOfInterval
    <3> QED
      BY <1>2, <2>1, <3>1 DEF Devices, Least
  <2>6. SetsAreApart
    BY <1>2, <1>3, <2>1, <2>2, <2>3, <2>4 DEF SetsAreApart
  <2>7. active = {d \in Devices : done < d /\ d <= done + plan.batch} /\ active # {}
    <3>1. done + 1 \in active
      BY <2>1, <2>2
    <3> QED
      BY <1>2, <2>1, <3>1 DEF Devices, Least
  <2>8. BatchIsValid
    BY <1>2, <2>1, <2>3, <2>5, <2>7 DEF BatchIsValid
  <2>9. top \in released /\ top > plan.canary /\ 1..plan.canary \subseteq affirmed
    BY <1>2, <2>1, <2>2
  <2>10. top - done <= plan.batch
    BY <1>2, <2>2
  <2> HIDE DEF top
  <2> QED
    BY <1>2, <1>5, <2>2, <2>4, <2>6, <2>8, <2>9, <2>10
    DEF RolloutIsSafe, ValidState, CanaryFirst, OneBatchAtRisk
<1>6. CASE phase = "complete"
  <2>1. CompleteState
    BY <1>6 DEF Progress
  <2>2. Cardinality(Devices) = plan.size
    BY <1>2, IntervalSize DEF Devices
  <2>3. SetsAreApart /\ CompleteIsValid
    BY <1>2, <1>3, <2>1, <2>2 DEF CompleteState, CompleteIsValid, SetsAreApart
  <2>4. released \ affirmed = {} /\ 1..plan.canary \subseteq affirmed
    BY <1>2, <2>1 DEF CompleteState, Devices
  <2> QED
    BY <1>2, <1>3, <1>6, <2>3, <2>4 DEF RolloutIsSafe, ValidState, CanaryFirst, OneBatchAtRisk
<1>7. CASE phase = "halted"
  <2>1. PICK top \in Nat :
          /\ plan.canary <= top /\ top <= plan.size
          /\ active = {} /\ failures # {}
          /\ failures \subseteq 1..top
          /\ confirmed = (1..top) \ failures /\ affirmed = confirmed
          /\ released = 1..top
          /\ \/ top = plan.canary /\ reason = "canary_not_confirmed"
             \/ /\ plan.canary < top /\ reason = "batch_not_confirmed"
                /\ \E done \in Nat :
                      /\ plan.canary <= done /\ top <= done + plan.batch
                      /\ failures \subseteq (done + 1)..top
    BY <1>7 DEF Progress, HaltedState
  <2>2. IsFiniteSet(1..top) /\ Cardinality(1..top) = top
    BY IntervalSize
  <2>3. IsFiniteSet(failures) /\ Cardinality(failures) \in Nat /\ Cardinality(failures) <= top
    BY <2>1, <2>2, FS_Subset, FS_CardinalityType
  <2>4. /\ Cardinality(confirmed) = top - Cardinality(failures)
        /\ Cardinality(confirmed) \in Nat
    <3>1. (1..top) \cap failures = failures
      BY <2>1
    <3>2. Cardinality((1..top) \ failures) = Cardinality(1..top) - Cardinality((1..top) \cap failures)
      BY <2>2, FS_Difference
    <3>3. Cardinality((1..top) \cap failures) = Cardinality(failures)
      BY <3>1, Zenon
    <3>4. Cardinality(confirmed) = Cardinality((1..top) \ failures)
      BY <2>1, Zenon
    <3> QED
      BY <2>2, <2>3, <3>2, <3>3, <3>4
  <2>5. Leading(Devices, top) = 1..top
    <3>1. Leading((0 + 1)..plan.size, top) = (0 + 1)..Least(plan.size, 0 + top)
      BY <1>2, LeadingOfInterval
    <3> QED
      BY <1>2, <2>1, <3>1 DEF Devices, Least
  <2>6. reason = IF top = plan.canary THEN "canary_not_confirmed" ELSE "batch_not_confirmed"
    BY <1>2, <2>1
  <2>7. HaltedIsValid
    <3>1. Cardinality(confirmed) + Cardinality(failures) = top
      BY <2>3, <2>4
    <3> QED
      BY <2>1, <2>5, <2>6, <3>1 DEF HaltedIsValid
  <2>8. released \ affirmed = failures
    BY <2>1
  <2>9. /\ Cardinality(failures) <= MaxBatchSize
        /\ CanaryFirst /\ OneBatchAtRisk
    <3>1. CASE top = plan.canary
      <4>1. ~ \E d \in released : d > plan.canary
        BY <1>2, <2>1, <3>1
      <4> QED
        BY <1>2, <2>3, <2>8, <3>1, <4>1 DEF CanaryFirst, OneBatchAtRisk
    <3>2. CASE plan.canary < top
      <4>1. PICK done \in Nat :
              /\ plan.canary <= done /\ top <= done + plan.batch
              /\ failures \subseteq (done + 1)..top
        BY <1>2, <2>1, <3>2
      <4>2. Cardinality(failures) <= plan.batch
        <5>1. /\ IsFiniteSet((done + 1)..top)
              /\ Cardinality((done + 1)..top) = IF done + 1 > top THEN 0 ELSE top - (done + 1) + 1
          BY FS_Interval
        <5>2. Cardinality(failures) <= Cardinality((done + 1)..top)
          BY <4>1, <5>1, FS_Subset
        <5> QED
          BY <1>2, <2>3, <4>1, <5>1, <5>2
      <4>3. top \in released /\ top > plan.canary /\ 1..plan.canary \subseteq affirmed
        BY <1>2, <2>1, <3>2, <4>1
      <4> QED
        BY <1>2, <2>3, <2>8, <4>2, <4>3 DEF CanaryFirst, OneBatchAtRisk
    <3> QED
      BY <1>2, <2>1, <3>1, <3>2
  <2>10. SetsAreApart
    BY <1>2, <1>3, <2>1, <2>3, <2>4, <2>9 DEF SetsAreApart
  <2> QED
    BY <1>7, <2>7, <2>9, <2>10 DEF RolloutIsSafe, ValidState
<1> QED
  BY <1>1, <1>4, <1>5, <1>6, <1>7 DEF Phases

(* The state of a rollout is well typed, for every size of its plan. *)
THEOREM RolloutTypes ==
    ASSUME RolloutAssumptions
    PROVE  RolloutSpec => []RolloutTypeOK
<1>1. Progress => RolloutTypeOK
  BY ProgressIsTyped
<1> QED
  BY <1>1, ProgressHolds, PTL

(* record_pool_rollout_batch never computes a state that PoolRolloutState    *)
(* would refuse, releases nothing past the canary before the whole canary is *)
(* confirmed, and leaves at most one batch of devices unconfirmed.           *)
THEOREM RolloutSafety ==
    ASSUME RolloutAssumptions
    PROVE  RolloutSpec => []RolloutIsSafe
<1>1. Progress => RolloutIsSafe
  BY ProgressIsSafe
<1> QED
  BY <1>1, ProgressHolds, PTL

-----------------------------------------------------------------------------
(*****************************************************************************)
(* Power outlets                                                             *)
(*****************************************************************************)
(* The request that switched a plug last is a request for that plug. *)
LastIsOwn ==
    \A p \in Plugs : last[p] \in Requests => Plug[last[p]] = p

(* OneCyclePerPlug carries the rest: what a cycle does to its plug disturbs no *)
(* other cycle.                                                                *)
OutletInv == OutletTypeOK /\ LastIsOwn /\ OutletsAreSafe

(* Without a cycle no plug is off on its account. *)
LEMMA OutletInitInv ==
    ASSUME OutletAssumptions, OutletInit
    PROVE  OutletInv
<1>1. OutletTypeOK
  BY DEF OutletAssumptions, OutletInit, OutletTypeOK, Statuses
<1>2. \A c \in Cycles : status[c] = "none"
  BY DEF OutletInit
<1>3. \A p \in Plugs : last[p] = NoTask
  BY DEF OutletInit
<1>4. NoTask \notin Requests /\ NoTask \notin Cycles
  BY DEF OutletAssumptions, Requests
<1>5. LastIsOwn /\ DarkIsExplained
  BY <1>3, <1>4 DEF LastIsOwn, DarkIsExplained
<1>6. OneCyclePerPlug /\ DarkWhileWaiting
  BY <1>2 DEF OneCyclePerPlug, DarkWhileWaiting, Active
<1> QED
  BY <1>1, <1>5, <1>6 DEF OutletInv, OutletsAreSafe

-----------------------------------------------------------------------------
(* Whatever moves no task and no plug keeps the invariant. *)
LEMMA PaperworkKeepsInv ==
    ASSUME OutletInv, UNCHANGED <<status, on, last, crashes>>, OutletTypeOK'
    PROVE  OutletInv'
BY DEF OutletInv, LastIsOwn, OutletsAreSafe, OneCyclePerPlug, DarkWhileWaiting, DarkIsExplained,
       Statuses, Active, Plugs, Requests

(* The first look and the confirmation of a request switch nothing. *)
LEMMA RequestsKeepInv ==
    ASSUME OutletAssumptions, OutletInv, NEW r \in Requests, Look(r) \/ Issue(r) \/ Confirm(r)
    PROVE  OutletInv'
<1>1. UNCHANGED <<status, on, read, last, crashes>>
  BY DEF Look, Issue, Confirm
<1>2. request' \in [Requests -> {"idle", "checked", "confirmed", "switching", "done", "refused"}]
  BY DEF OutletInv, OutletTypeOK, Look, Issue, Confirm, At
<1>3. token' \in [Targets -> 0..MaxTokens]
  <2>1. token \in [Targets -> 0..MaxTokens] /\ MaxTokens \in Nat /\ Target(r) \in Targets
    BY DEF OutletInv, OutletTypeOK, OutletAssumptions, Targets
  <2>2. CASE Look(r)
    BY <2>1, <2>2 DEF Look
  <2>3. CASE Issue(r)
    <3>1. token[Target(r)] + 1 \in 0..MaxTokens
      BY <2>1, <2>3 DEF Issue
    <3> QED
      BY <2>1, <2>3, <3>1 DEF Issue
  <2>4. ASSUME NEW t \in Targets, Burn(t) PROVE token' \in [Targets -> 0..MaxTokens]
    <3>1. token[t] - 1 \in 0..MaxTokens
      BY <2>1, <2>4 DEF Burn
    <3> QED
      BY <2>1, <2>4, <3>1 DEF Burn
  <2>5. CASE Confirm(r)
    BY <2>1, <2>4, <2>5 DEF Confirm
  <2> QED
    BY <2>2, <2>3, <2>5
<1>4. OutletTypeOK'
  BY <1>1, <1>2, <1>3 DEF OutletInv, OutletTypeOK
<1> QED
  BY <1>1, <1>4, PaperworkKeepsInv

(* The second look refuses a cycle that would share a miner or a plug. *)
LEMMA InsertKeepsInv ==
    ASSUME OutletInv, NEW c \in Cycles, Insert(c)
    PROVE  OutletInv'
<1>1. CASE UNCHANGED status
  <2>1. OutletTypeOK'
    BY <1>1 DEF OutletInv, OutletTypeOK, Insert, At, Requests
  <2> QED
    BY <1>1, <2>1, PaperworkKeepsInv DEF Insert
<1>2. CASE ~Conflict(c) /\ status' = [status EXCEPT ![c] = "pending"]
  <2>1. OutletTypeOK'
    BY <1>2 DEF OutletInv, OutletTypeOK, Insert, At, Requests, Statuses, Active
  <2>2. OneCyclePerPlug'
    BY <1>2 DEF OutletInv, OutletTypeOK, OutletsAreSafe, OneCyclePerPlug, Conflict, Active, Statuses
  <2>3. LastIsOwn' /\ DarkWhileWaiting' /\ DarkIsExplained'
    BY <1>2 DEF OutletInv, OutletTypeOK, Insert, LastIsOwn, OutletsAreSafe, DarkWhileWaiting, DarkIsExplained,
                Statuses, Active
  <2> QED
    BY <2>1, <2>2, <2>3 DEF OutletInv, OutletsAreSafe
<1> QED
  BY <1>1, <1>2 DEF Insert

-----------------------------------------------------------------------------
(***************************************************************************)
(* The thread of a cycle                                                   *)
(***************************************************************************)
(* A step of a task that stays one or ends makes no second cycle of a plug. *)
LEMMA TaskStepKeepsOne ==
    ASSUME OutletTypeOK, OneCyclePerPlug, NEW c \in Cycles, NEW to \in Statuses,
           status[c] \in Active, status' = [status EXCEPT ![c] = to]
    PROVE  OneCyclePerPlug'
BY DEF OutletTypeOK, OneCyclePerPlug, Active, Statuses

(* What a call does to the plugs. *)
LEMMA CallTouchesOnePlug ==
    ASSUME OutletTypeOK, LastIsOwn, NEW r \in Requests, NEW state \in BOOLEAN, NEW ok \in BOOLEAN,
           Call(r, state, ok)
    PROVE  /\ on' \in [Plugs -> BOOLEAN]
           /\ last' \in [Plugs -> Requests \cup {NoTask}]
           /\ LastIsOwn'
           /\ \A p \in Plugs : p # Plug[r] => on'[p] = on[p] /\ last'[p] = last[p]
           /\ \/ on'[Plug[r]] = state /\ last'[Plug[r]] = r
              \/ ~ok /\ on'[Plug[r]] = on[Plug[r]] /\ last'[Plug[r]] = last[Plug[r]]
<1>1. Plug[r] \in Plugs
  BY DEF Plugs
<1>2. CASE Switch(r, state)
  BY <1>1, <1>2 DEF Switch, OutletTypeOK, LastIsOwn
<1>3. CASE ~ok /\ NoSwitch
  BY <1>1, <1>3 DEF NoSwitch, OutletTypeOK, LastIsOwn
<1> QED
  BY <1>2, <1>3 DEF Call

(* The steps of a cycle without a call keep the invariant. *)
LEMMA QuietStepsKeepInv ==
    ASSUME OutletInv, NEW c \in Cycles, BeginOff(c) \/ WaitOver(c)
    PROVE  OutletInv'
<1>1. OutletTypeOK'
  BY DEF OutletInv, OutletTypeOK, BeginOff, WaitOver, Becomes, Statuses, Active
<1>2. OneCyclePerPlug'
  BY TaskStepKeepsOne DEF OutletInv, OutletsAreSafe, BeginOff, WaitOver, Becomes, Statuses, Active
<1>3. LastIsOwn' /\ DarkWhileWaiting' /\ DarkIsExplained'
  BY DEF OutletInv, OutletTypeOK, BeginOff, WaitOver, Becomes, LastIsOwn, OutletsAreSafe, DarkWhileWaiting,
         DarkIsExplained, Statuses, Active
<1> QED
  BY <1>1, <1>2, <1>3 DEF OutletInv, OutletsAreSafe

(* The call that turns a plug off keeps the invariant. *)
LEMMA TurnOffKeepsInv ==
    ASSUME OutletAssumptions, OutletInv, NEW c \in Cycles, TurnOff(c)
    PROVE  OutletInv'
<1>1. PICK ok \in BOOLEAN :
        /\ Becomes(c, "turning_off", IF ok THEN "waiting" ELSE "failed")
        /\ Call(c, FALSE, ok)
  BY DEF TurnOff
<1> DEFINE to == IF ok THEN "waiting" ELSE "failed"
<1>2. /\ c \in Requests /\ Plug[c] \in Plugs
      /\ to \in Statuses /\ status[c] = "turning_off" /\ status' = [status EXCEPT ![c] = to]
  BY <1>1 DEF Becomes, Statuses, Active, Requests, Plugs
<1>3. /\ on' \in [Plugs -> BOOLEAN]
      /\ last' \in [Plugs -> Requests \cup {NoTask}]
      /\ LastIsOwn'
      /\ \A p \in Plugs : p # Plug[c] => on'[p] = on[p] /\ last'[p] = last[p]
      /\ \/ on'[Plug[c]] = FALSE /\ last'[Plug[c]] = c
         \/ ~ok /\ on'[Plug[c]] = on[Plug[c]] /\ last'[Plug[c]] = last[Plug[c]]
  BY <1>1, <1>2, CallTouchesOnePlug DEF OutletInv
<1>4. OutletTypeOK'
  BY <1>2, <1>3 DEF OutletInv, OutletTypeOK, TurnOff, Statuses
<1>5. OneCyclePerPlug'
  BY <1>2, TaskStepKeepsOne DEF OutletInv, OutletsAreSafe, Active
<1>6. DarkWhileWaiting'
  <2>1. ASSUME NEW d \in Cycles, status'[d] = "waiting", on'[Plug[d]]
        PROVE  last'[Plug[d]] \in Commands
    <3>1. CASE d = c
      BY <1>2, <1>3, <2>1, <3>1 DEF OutletInv, OutletTypeOK
    <3>2. CASE d # c
      <4>1. status[d] = "waiting"
        BY <1>2, <2>1, <3>2 DEF OutletInv, OutletTypeOK
      <4>2. Plug[d] # Plug[c] /\ Plug[d] \in Plugs
        BY <1>2, <3>2, <4>1 DEF OutletInv, OutletsAreSafe, OneCyclePerPlug, Active, Plugs, Requests
      <4> QED
        BY <1>3, <2>1, <4>1, <4>2 DEF OutletInv, OutletsAreSafe, DarkWhileWaiting
    <3> QED
      BY <3>1, <3>2
  <2> QED
    BY <2>1 DEF DarkWhileWaiting
<1>7. DarkIsExplained'
  <2>1. \A d \in Cycles : status[d] \in Active \cup {"failed"} => status'[d] \in Active \cup {"failed"}
    BY <1>2 DEF OutletInv, OutletTypeOK, Active
  <2>2. status'[c] \in Active \cup {"failed"}
    BY <1>2 DEF OutletInv, OutletTypeOK, Active
  <2>3. crashes' = crashes
    BY DEF TurnOff
  <2> QED
    BY <1>2, <1>3, <2>1, <2>2, <2>3 DEF OutletInv, OutletsAreSafe, DarkIsExplained
<1> QED
  BY <1>3, <1>4, <1>5, <1>6, <1>7 DEF OutletInv, OutletsAreSafe

(* The call that turns a plug on again keeps the invariant. *)
LEMMA TurnOnKeepsInv ==
    ASSUME OutletAssumptions, OutletInv, NEW c \in Cycles, TurnOn(c)
    PROVE  OutletInv'
<1>1. PICK ok \in BOOLEAN :
        /\ Becomes(c, "turning_on", IF ok THEN "completed" ELSE "failed")
        /\ Call(c, TRUE, ok)
  BY DEF TurnOn
<1> DEFINE to == IF ok THEN "completed" ELSE "failed"
<1>2. /\ c \in Requests /\ Plug[c] \in Plugs
      /\ to \in Statuses /\ status[c] = "turning_on" /\ status' = [status EXCEPT ![c] = to]
  BY <1>1 DEF Becomes, Statuses, Requests, Plugs
<1>3. /\ on' \in [Plugs -> BOOLEAN]
      /\ last' \in [Plugs -> Requests \cup {NoTask}]
      /\ LastIsOwn'
      /\ \A p \in Plugs : p # Plug[c] => on'[p] = on[p] /\ last'[p] = last[p]
      /\ \/ on'[Plug[c]] = TRUE /\ last'[Plug[c]] = c
         \/ ~ok /\ on'[Plug[c]] = on[Plug[c]] /\ last'[Plug[c]] = last[Plug[c]]
  BY <1>1, <1>2, CallTouchesOnePlug DEF OutletInv
<1>4. OutletTypeOK'
  BY <1>2, <1>3 DEF OutletInv, OutletTypeOK, TurnOn, Statuses
<1>5. OneCyclePerPlug'
  BY <1>2, TaskStepKeepsOne DEF OutletInv, OutletsAreSafe, Active
<1>6. DarkWhileWaiting'
  <2>1. ASSUME NEW d \in Cycles, status'[d] = "waiting", on'[Plug[d]]
        PROVE  last'[Plug[d]] \in Commands
    <3>1. d # c /\ status[d] = "waiting"
      BY <1>2, <2>1 DEF OutletInv, OutletTypeOK
    <3>2. Plug[d] # Plug[c] /\ Plug[d] \in Plugs
      BY <1>2, <3>1 DEF OutletInv, OutletsAreSafe, OneCyclePerPlug, Active, Plugs, Requests
    <3> QED
      BY <1>3, <2>1, <3>1, <3>2 DEF OutletInv, OutletsAreSafe, DarkWhileWaiting
  <2> QED
    BY <2>1 DEF DarkWhileWaiting
<1>7. DarkIsExplained'
  <2>1. ASSUME NEW p \in Plugs, ~on'[p], last'[p] \in Cycles
        PROVE  status'[last'[p]] \in Active \cup {"failed"} \/ crashes' > 0
    <3>1. ~on[p] /\ last[p] = last'[p] /\ (p = Plug[c] => ~ok)
      BY <1>2, <1>3, <2>1
    <3>2. status[last[p]] \in Active \cup {"failed"} \/ crashes > 0
      BY <2>1, <3>1 DEF OutletInv, OutletsAreSafe, DarkIsExplained
    <3>3. last[p] = c => p = Plug[c]
      BY <1>2 DEF OutletInv, LastIsOwn
    <3>4. crashes' = crashes
      BY DEF TurnOn
    <3>5. CASE last[p] = c
      BY <1>2, <3>1, <3>3, <3>5 DEF OutletInv, OutletTypeOK
    <3>6. CASE last[p] # c
      BY <1>2, <2>1, <3>1, <3>2, <3>4, <3>6 DEF OutletInv, OutletTypeOK
    <3> QED
      BY <3>5, <3>6
  <2> QED
    BY <2>1 DEF DarkIsExplained
<1> QED
  BY <1>3, <1>4, <1>5, <1>6, <1>7 DEF OutletInv, OutletsAreSafe

-----------------------------------------------------------------------------
(***************************************************************************)
(* Plug commands and restarts                                              *)
(***************************************************************************)
(* A command that switches a plug of a waiting cycle is a user's. *)
LEMMA CommandsKeepInv ==
    ASSUME OutletAssumptions, OutletInv, NEW m \in Commands, ReadState(m) \/ PlugCommand(m)
    PROVE  OutletInv'
<1>1. CASE ReadState(m)
  <2>1. Plug[m] \in Plugs
    BY DEF Plugs, Requests
  <2>2. OutletTypeOK'
    BY <1>1, <2>1 DEF OutletInv, OutletTypeOK, ReadState, At, Requests
  <2> QED
    BY <1>1, <2>2, PaperworkKeepsInv DEF ReadState
<1>2. CASE PlugCommand(m)
  <2> DEFINE state == IF Method[m] = "toggle" THEN ~read[m] ELSE Method[m] = "power_on"
  <2>1. m \in Requests /\ Plug[m] \in Plugs /\ state \in BOOLEAN /\ m \notin Cycles
    BY DEF Requests, Plugs, OutletInv, OutletTypeOK, OutletAssumptions
  <2>2. PICK ok \in BOOLEAN : Call(m, state, ok)
    BY <1>2 DEF PlugCommand
  <2> HIDE DEF state
  <2>3. /\ on' \in [Plugs -> BOOLEAN]
        /\ last' \in [Plugs -> Requests \cup {NoTask}]
        /\ LastIsOwn'
        /\ \A p \in Plugs : p # Plug[m] => on'[p] = on[p] /\ last'[p] = last[p]
        /\ \/ last'[Plug[m]] = m
           \/ on'[Plug[m]] = on[Plug[m]] /\ last'[Plug[m]] = last[Plug[m]]
    BY <2>1, <2>2, CallTouchesOnePlug DEF OutletInv
  <2>4. OutletTypeOK'
    BY <1>2, <2>1, <2>3 DEF OutletInv, OutletTypeOK, PlugCommand, At
  <2>5. UNCHANGED <<status, crashes>>
    BY <1>2 DEF PlugCommand
  <2>6. \A c \in Cycles : Plug[c] \in Plugs
    BY DEF Plugs, Requests
  <2>7. OneCyclePerPlug' /\ DarkWhileWaiting' /\ DarkIsExplained'
    BY <2>1, <2>3, <2>5, <2>6
    DEF OutletInv, OutletsAreSafe, OneCyclePerPlug, DarkWhileWaiting, DarkIsExplained
  <2> QED
    BY <2>3, <2>4, <2>7 DEF OutletInv, OutletsAreSafe
<1> QED
  BY <1>1, <1>2

(* A restart forgets the cycles and counts as the reason of a dark plug. *)
LEMMA CrashKeepsInv ==
    ASSUME OutletAssumptions, OutletInv, ServerRestarts
    PROVE  OutletInv'
<1>1. OutletTypeOK'
  BY DEF OutletInv, OutletTypeOK, ServerRestarts, Statuses, Active, OutletAssumptions
<1>2. \A c \in Cycles : status'[c] \notin Active
  BY DEF OutletInv, OutletTypeOK, ServerRestarts, Statuses, Active
<1>3. crashes' > 0
  BY DEF OutletInv, OutletTypeOK, ServerRestarts, OutletAssumptions
<1>4. LastIsOwn'
  BY DEF OutletInv, LastIsOwn, ServerRestarts
<1> QED
  BY <1>1, <1>2, <1>3, <1>4
  DEF OutletInv, OutletsAreSafe, OneCyclePerPlug, DarkWhileWaiting, DarkIsExplained, Active

-----------------------------------------------------------------------------
(* The inductive invariant holds for any number of cycles and commands. *)
THEOREM OutletInvariance ==
    ASSUME OutletAssumptions
    PROVE  OutletSpec => []OutletInv
<1>1. OutletInit => OutletInv
  BY OutletInitInv
<1>2. ASSUME OutletInv, [OutletNext]_outletVars
      PROVE  OutletInv'
  <2>1. CASE UNCHANGED outletVars
    <3>1. OutletTypeOK'
      BY <1>2, <2>1 DEF OutletInv, OutletTypeOK, outletVars
    <3> QED
      BY <1>2, <2>1, <3>1, PaperworkKeepsInv DEF outletVars
  <2>2. CASE OutletNext
    BY <1>2, <2>2, RequestsKeepInv, InsertKeepsInv, QuietStepsKeepInv, TurnOffKeepsInv,
       TurnOnKeepsInv, CommandsKeepInv, CrashKeepsInv DEF OutletNext, Run
  <2> QED
    BY <1>2, <2>1, <2>2
<1> QED
  BY <1>1, <1>2, PTL DEF OutletSpec

(* The state of cycles, confirmations and plugs is well typed. *)
THEOREM OutletTypes ==
    ASSUME OutletAssumptions
    PROVE  OutletSpec => []OutletTypeOK
<1>1. OutletInv => OutletTypeOK
  BY DEF OutletInv
<1> QED
  BY <1>1, OutletInvariance, PTL

(* However requests, confirmations, threads, lost calls, commands and restarts *)
(* interleave, two cycles never share a miner or a plug, the plug of a waiting *)
(* cycle is off unless a user switched it, and a plug that a cycle left off is *)
(* accounted for.                                                              *)
THEOREM OutletSafety ==
    ASSUME OutletAssumptions
    PROVE  OutletSpec => []OutletsAreSafe
<1>1. OutletInv => OutletsAreSafe
  BY DEF OutletInv
<1> QED
  BY <1>1, OutletInvariance, PTL

-----------------------------------------------------------------------------
(*****************************************************************************)
(* The Auto-Pilot                                                            *)
(*****************************************************************************)
(* What acts: a rule or a recommendation. *)
Sources == Rules \cup Recommendations

(* The cycle is not ahead of the clock, and what was carried out not of the cycle. *)
PilotClock ==
    /\ cycle.at <= now /\ gates.since <= now
    /\ \A i \in DOMAIN acts : acts[i].at <= cycle.at

(* What is left to do in a cycle: rules that may fire again and do not contradict *)
(* each other nor a rule that has fired, or recommendations.  A cycle with work   *)
(* began while the pilot was armed.                                               *)
TodoIsFit ==
    /\ cycle.pc # "idle" => cycle.at >= 0
    /\ cycle.pc = "rules" => cycle.todo \subseteq Rules
    /\ cycle.pc = "recs" => cycle.todo \subseteq Recommendations
    /\ cycle.pc = "rules" =>
         \A r \in cycle.todo :
             /\ CanFire(r, cycle.at)
             /\ \A s \in cycle.todo : ~RulesConflict(r, s)
             /\ \A i \in DOMAIN acts :
                  acts[i].by \in Rules /\ acts[i].at = cycle.at => ~RulesConflict(acts[i].by, r)
    /\ cycle.pc # "idle" /\ cycle.todo # {} /\ ~gates.armed => cycle.at <= gates.since

(* The cooldowns know of every action. *)
CooldownsKnow ==
    \A i \in DOMAIN acts :
        /\ acts[i].by \in Rules => acts[i].at <= lastFired[acts[i].by]
        /\ acts[i].by \in Recommendations => acts[i].at <= lastRec[acts[i].by]

(* So does the budget: in the window before any time it counts no fewer than that. *)
ActsBefore(t) == {i \in DOMAIN acts : t - acts[i].at < BudgetWindow}
SpentBefore(t) == {i \in DOMAIN budget : t - budget[i] < BudgetWindow}
BudgetKnows == \A t \in 0..MaxNow : Cardinality(ActsBefore(t)) <= Cardinality(SpentBefore(t))

PilotInv ==
    /\ PilotTypeOK /\ PilotClock /\ TodoIsFit /\ CooldownsKnow /\ BudgetKnows
    /\ PilotIsDisciplined

-----------------------------------------------------------------------------
(* What is in a longer sequence was there or is the last. *)
LEMMA Appended ==
    ASSUME NEW S, NEW s \in Seq(S), NEW x \in S
    PROVE  /\ Append(s, x) \in Seq(S)
           /\ DOMAIN s = 1..Len(s) /\ Len(s) \in Nat
           /\ \A i \in DOMAIN s : s[i] \in S
           /\ DOMAIN Append(s, x) = 1..(Len(s) + 1)
           /\ \A i \in DOMAIN s : Append(s, x)[i] = s[i]
           /\ Append(s, x)[Len(s) + 1] = x
  OBVIOUS

(* One more element, if it counts, counts one more. *)
LEMMA CountAppended ==
    ASSUME NEW n \in Nat, NEW P, NEW Q, P \subseteq 1..n,
           Q \subseteq P \cup {n + 1}
    PROVE  /\ IsFiniteSet(P) /\ Cardinality(P) \in Nat
           /\ IsFiniteSet(Q) /\ Cardinality(Q) \in Nat
           /\ Cardinality(Q) <= Cardinality(P) + 1
           /\ P \subseteq Q => Cardinality(P) <= Cardinality(Q)
           /\ Q = P \cup {n + 1} => Cardinality(Q) = Cardinality(P) + 1
<1>1. IsFiniteSet(1..n)
  BY FS_Interval
<1>2. IsFiniteSet(P) /\ Cardinality(P) \in Nat
  BY <1>1, FS_Subset, FS_CardinalityType
<1>3. /\ IsFiniteSet(P \cup {n + 1})
      /\ Cardinality(P \cup {n + 1}) = Cardinality(P) + 1
  <2>1. n + 1 \notin P
    OBVIOUS
  <2> QED
    BY <1>2, <2>1, FS_AddElement
<1>4. IsFiniteSet(Q) /\ Cardinality(Q) \in Nat /\ Cardinality(Q) <= Cardinality(P \cup {n + 1})
  BY <1>3, FS_Subset, FS_CardinalityType
<1>5. P \subseteq Q => Cardinality(P) <= Cardinality(Q)
  BY <1>4, FS_Subset
<1> QED
  BY <1>2, <1>3, <1>4, <1>5

(* Of two rules that contradict each other at most one survives. *)
LEMMA SurvivorsAgree ==
    ASSUME PilotAssumptions, NEW T \in SUBSET Rules,
           NEW r \in Survivors(T), NEW s \in Survivors(T)
    PROVE  ~RulesConflict(r, s)
<1>1. SUFFICES ASSUME RulesConflict(r, s)
               PROVE  FALSE
  OBVIOUS
<1>2. RulesConflict(s, r)
  <2>1. {Command[r], Command[s]} = {Command[s], Command[r]}
    OBVIOUS
  <2> QED
    BY <1>1, <2>1, Zenon DEF RulesConflict
<1>3. Priority[r] > Priority[s] /\ Priority[s] > Priority[r]
  BY <1>1, <1>2, Zenon DEF Survivors
<1>4. Priority[r] \in Nat /\ Priority[s] \in Nat
  BY DEF Survivors, PilotAssumptions
<1> QED
  BY <1>3, <1>4

(* The epoch is longer ago than any interval. *)
LEMMA PilotInitInv ==
    ASSUME PilotAssumptions, PilotInit
    PROVE  PilotInv
<1>1. PilotTypeOK
  BY DEF PilotAssumptions, PilotInit, PilotTypeOK, Sources, IdleCycle
<1>2. PilotClock /\ TodoIsFit
  BY DEF PilotInit, PilotClock, TodoIsFit, IdleCycle
<1>3. DOMAIN acts = {} /\ DOMAIN budget = {}
  BY DEF PilotInit
<1>4. CooldownsKnow /\ IntervalsAreKept /\ RulesNeverFight /\ DisarmStops /\ BudgetIsKept
  BY <1>3 DEF CooldownsKnow, IntervalsAreKept, RulesNeverFight, DisarmStops, BudgetIsKept
<1>5. BudgetKnows
  <2> SUFFICES ASSUME NEW t \in 0..MaxNow
               PROVE  Cardinality(ActsBefore(t)) <= Cardinality(SpentBefore(t))
    BY DEF BudgetKnows
  <2>1. ActsBefore(t) = {} /\ SpentBefore(t) = {}
    BY <1>3 DEF ActsBefore, SpentBefore
  <2> QED
    BY <2>1, FS_EmptySet
<1> QED
  BY <1>1, <1>2, <1>4, <1>5 DEF PilotInv, PilotIsDisciplined

-----------------------------------------------------------------------------
(* What the invariant says of the types of the parts. *)
LEMMA PilotAre ==
    ASSUME PilotAssumptions, PilotTypeOK
    PROVE  /\ \A i \in DOMAIN acts :
                acts[i] \in [by : Sources, at : 0..MaxNow] /\ acts[i].by \in Sources /\ acts[i].at \in 0..MaxNow
           /\ \A i \in DOMAIN budget : budget[i] \in 0..MaxNow
           /\ DOMAIN acts = 1..Len(acts) /\ Len(acts) \in Nat
           /\ DOMAIN budget = 1..Len(budget) /\ Len(budget) \in Nat
           /\ cycle.pc \in {"idle", "rules", "recs"} /\ cycle.at \in -1..MaxNow
           /\ cycle.todo \subseteq Sources
           /\ gates.armed \in BOOLEAN /\ gates.since \in 0..MaxNow
           /\ now \in 0..MaxNow /\ MaxNow \in Nat
           /\ \A r \in Rules : lastFired[r] \in Int /\ MinInterval[r] \in Nat
           /\ \A q \in Recommendations : lastRec[q] \in Int /\ RecCooldown[q] \in Nat
<1>1. \A i \in DOMAIN acts : acts[i] \in [by : Sources, at : 0..MaxNow]
  <2> DEFINE S == [by : Sources, at : 0..MaxNow]
  <2>1. acts \in Seq(S)
    BY DEF PilotTypeOK, Sources
  <2> HIDE DEF S
  <2>2. \A i \in DOMAIN acts : acts[i] \in S
    BY <2>1
  <2> QED
    BY <2>2 DEF S
<1>2. \A i \in DOMAIN acts : acts[i].by \in Sources /\ acts[i].at \in 0..MaxNow
  BY <1>1
<1>3. \A r \in Rules : lastFired[r] \in Int /\ MinInterval[r] \in Nat
  BY DEF PilotTypeOK, Sources, PilotAssumptions
<1>4. \A q \in Recommendations : lastRec[q] \in Int /\ RecCooldown[q] \in Nat
  BY DEF PilotTypeOK, Sources, PilotAssumptions
<1> QED
  BY <1>1, <1>2, <1>3, <1>4 DEF PilotTypeOK, Sources, PilotAssumptions

-----------------------------------------------------------------------------
(* A step that carries out nothing and spends nothing. *)
LEMMA QuietKeepsHistory ==
    ASSUME PilotAssumptions, PilotInv, UNCHANGED <<acts, budget>>,
           (gates'.armed = gates.armed /\ gates'.since = gates.since) \/ gates'.since = now
    PROVE  BudgetKnows' /\ PilotIsDisciplined'
<1>1. BudgetKnows'
  BY DEF PilotInv, BudgetKnows, ActsBefore, SpentBefore
<1>2. BudgetIsKept' /\ IntervalsAreKept' /\ RulesNeverFight'
  BY DEF PilotInv, PilotIsDisciplined, BudgetIsKept, IntervalsAreKept, RulesNeverFight
<1>3. DisarmStops'
  <2>1. \A i \in DOMAIN acts : acts[i].at <= now
    <3>1. \A i \in DOMAIN acts : acts[i].at \in 0..MaxNow /\ acts[i].at <= cycle.at
      BY PilotAre DEF PilotInv, PilotClock
    <3>2. cycle.at \in -1..MaxNow /\ now \in 0..MaxNow /\ MaxNow \in Nat /\ cycle.at <= now
      BY PilotAre DEF PilotInv, PilotClock
    <3> QED
      BY <3>1, <3>2
  <2> QED
    BY <2>1 DEF DisarmStops, PilotInv, PilotIsDisciplined
<1> QED
  BY <1>1, <1>2, <1>3 DEF PilotIsDisciplined

(* What is spent is counted, and no more is carried out than was spent. *)
LEMMA SpendKeepsBudget ==
    ASSUME PilotAssumptions, PilotInv, cycle.pc # "idle", NEW source \in Sources,
           HasBudget(cycle.at), budget' = Append(budget, cycle.at),
           acts' = acts \/ acts' = Append(acts, [by |-> source, at |-> cycle.at])
    PROVE  BudgetKnows' /\ BudgetIsKept'
<1> DEFINE n == Len(acts)  b == Len(budget)  a == [by |-> source, at |-> cycle.at]
<1>1. /\ cycle.at \in 0..MaxNow /\ MaxNow \in Nat /\ n \in Nat /\ b \in Nat
      /\ DOMAIN acts = 1..n /\ DOMAIN budget = 1..b
      /\ budget \in Seq(0..MaxNow) /\ acts \in Seq([by : Sources, at : 0..MaxNow])
      /\ BudgetWindow \in Nat /\ Cap \in Nat
  BY PilotAre DEF PilotInv, TodoIsFit, PilotTypeOK, Sources, PilotAssumptions
<1>2. a \in [by : Sources, at : 0..MaxNow] /\ a.at = cycle.at
  BY <1>1
<1>3. /\ DOMAIN budget' = 1..(b + 1) /\ budget'[b + 1] = cycle.at
      /\ \A i \in 1..b : budget'[i] = budget[i]
  BY <1>1, Appended
<1>4. ASSUME acts' = Append(acts, a)
      PROVE  /\ DOMAIN acts' = 1..(n + 1) /\ acts'[n + 1] = a
             /\ \A i \in 1..n : acts'[i] = acts[i]
  BY <1>1, <1>2, <1>4, Appended
<1>5. ASSUME NEW t \in 0..MaxNow
      PROVE  /\ IsFiniteSet(ActsBefore(t)) /\ Cardinality(ActsBefore(t)) \in Nat
             /\ Cardinality(SpentBefore(t)) \in Nat
             /\ Cardinality(ActsBefore(t)) <= Cardinality(SpentBefore(t))
  <2>1. ActsBefore(t) \subseteq 1..n /\ SpentBefore(t) \subseteq 1..b
    BY <1>1 DEF ActsBefore, SpentBefore
  <2> QED
    BY <1>1, <2>1, CountAppended DEF PilotInv, BudgetKnows
<1>6. ASSUME NEW t \in 0..MaxNow
      PROVE  Cardinality(ActsBefore(t)') <= Cardinality(SpentBefore(t)')
  <2>1. ActsBefore(t) \subseteq 1..n /\ SpentBefore(t) \subseteq 1..b
    BY <1>1 DEF ActsBefore, SpentBefore
  <2>2. CASE t - cycle.at < BudgetWindow
    <3>1. SpentBefore(t)' = SpentBefore(t) \cup {b + 1}
      BY <1>1, <1>3, <2>2 DEF SpentBefore
    <3>2. ActsBefore(t)' \subseteq ActsBefore(t) \cup {n + 1}
      <4>1. CASE acts' = acts
        BY <4>1 DEF ActsBefore
      <4>2. CASE acts' = Append(acts, a)
        BY <1>1, <1>4, <4>2 DEF ActsBefore
      <4> QED
        BY <4>1, <4>2
    <3>3. Cardinality(SpentBefore(t)') = Cardinality(SpentBefore(t)) + 1
      BY <1>1, <2>1, <3>1, CountAppended
    <3>4. Cardinality(ActsBefore(t)') <= Cardinality(ActsBefore(t)) + 1 /\ Cardinality(ActsBefore(t)') \in Nat
      BY <1>1, <2>1, <3>2, CountAppended
    <3> QED
      BY <1>5, <3>3, <3>4
  <2>3. CASE ~(t - cycle.at < BudgetWindow)
    <3>1. SpentBefore(t)' = SpentBefore(t)
      BY <1>1, <1>3, <2>3 DEF SpentBefore
    <3>2. ActsBefore(t)' = ActsBefore(t)
      <4>1. CASE acts' = acts
        BY <4>1 DEF ActsBefore
      <4>2. CASE acts' = Append(acts, a)
        BY <1>1, <1>2, <1>4, <2>3, <4>2 DEF ActsBefore
      <4> QED
        BY <4>1, <4>2
    <3> QED
      BY <1>5, <3>1, <3>2
  <2> QED
    BY <2>2, <2>3
<1>7. BudgetKnows'
  BY <1>6 DEF BudgetKnows
<1>8. BudgetIsKept'
  <2>1. CASE acts' = acts
    BY <2>1 DEF PilotInv, PilotIsDisciplined, BudgetIsKept
  <2>2. CASE acts' = Append(acts, a)
    <3> SUFFICES ASSUME NEW i \in 1..(n + 1)
                 PROVE  Cardinality({j \in 1..i : acts'[i].at - acts'[j].at < BudgetWindow}) <= Cap
      BY <1>4, <2>2 DEF BudgetIsKept
    <3>1. CASE i \in 1..n
      <4>1. {j \in 1..i : acts'[i].at - acts'[j].at < BudgetWindow}
              = {j \in 1..i : acts[i].at - acts[j].at < BudgetWindow}
        BY <1>1, <1>4, <2>2, <3>1
      <4> QED
        BY <1>1, <3>1, <4>1 DEF PilotInv, PilotIsDisciplined, BudgetIsKept
    <3>2. CASE i = n + 1
      <4> DEFINE Q == {j \in 1..i : acts'[i].at - acts'[j].at < BudgetWindow}
      <4>1. Q \subseteq ActsBefore(cycle.at) \cup {n + 1}
        BY <1>1, <1>2, <1>4, <2>2, <3>2 DEF ActsBefore
      <4>2. ActsBefore(cycle.at) \subseteq 1..n
        BY <1>1 DEF ActsBefore
      <4>3. Cardinality(Q) \in Nat /\ Cardinality(Q) <= Cardinality(ActsBefore(cycle.at)) + 1
        BY <1>1, <4>1, <4>2, CountAppended
      <4>4. Cardinality(SpentBefore(cycle.at)) < Cap
        BY DEF HasBudget, SpentBefore
      <4> QED
        BY <1>1, <1>5, <4>3, <4>4
    <3> QED
      BY <1>1, <3>1, <3>2
  <2> QED
    BY <2>1, <2>2
<1> QED
  BY <1>7, <1>8

(* A conflict is one of two rules. *)
LEMMA ConflictIsMutual ==
    ASSUME NEW r, NEW s
    PROVE  RulesConflict(r, s) <=> RulesConflict(s, r)
<1>1. {Command[r], Command[s]} = {Command[s], Command[r]}
  OBVIOUS
<1> QED
  BY <1>1, Zenon DEF RulesConflict

(* Whoever acts comes after its interval, contradicts no rule of the cycle and *)
(* belongs to a cycle that began while the pilot was armed.                    *)
LEMMA ActKeepsHistory ==
    ASSUME PilotAssumptions, PilotInv, NEW source \in cycle.todo, cycle.pc # "idle",
           UNCHANGED gates,
           acts' = acts \/ acts' = Append(acts, [by |-> source, at |-> cycle.at]),
           \A i \in DOMAIN acts : acts[i].by = source => cycle.at - acts[i].at >= Interval(source)
    PROVE  IntervalsAreKept' /\ RulesNeverFight' /\ DisarmStops'
<1> DEFINE n == Len(acts)  a == [by |-> source, at |-> cycle.at]
<1>1. CASE acts' = acts
  BY <1>1 DEF PilotInv, PilotIsDisciplined, IntervalsAreKept, RulesNeverFight, DisarmStops
<1>2. CASE acts' = Append(acts, a)
  <2>1. /\ cycle.at \in 0..MaxNow /\ n \in Nat /\ DOMAIN acts = 1..n /\ source \in Sources
        /\ acts \in Seq([by : Sources, at : 0..MaxNow])
    BY PilotAre DEF PilotInv, TodoIsFit, PilotTypeOK, Sources
  <2>2. a \in [by : Sources, at : 0..MaxNow] /\ a.by = source /\ a.at = cycle.at
    BY <2>1
  <2>3. /\ DOMAIN acts' = 1..(n + 1) /\ acts'[n + 1] = a
        /\ \A i \in 1..n : acts'[i] = acts[i]
    BY <1>2, <2>1, <2>2, Appended
  <2>4. IntervalsAreKept'
    <3> SUFFICES ASSUME NEW i \in 1..(n + 1), NEW j \in 1..(n + 1), i < j,
                        acts'[i].by = acts'[j].by
                 PROVE  acts'[j].at - acts'[i].at >= Interval(acts'[i].by)
      BY <2>3 DEF IntervalsAreKept, Interval
    <3>1. CASE j \in 1..n
      <4>1. i \in 1..n
        BY <2>1, <3>1
      <4> QED
        BY <2>1, <2>3, <3>1, <4>1 DEF PilotInv, PilotIsDisciplined, IntervalsAreKept
    <3>2. CASE j = n + 1
      <4>1. i \in 1..n
        BY <2>1, <3>2
      <4> QED
        BY <2>1, <2>2, <2>3, <3>2, <4>1
    <3> QED
      BY <2>1, <3>1, <3>2
  <2>5. ASSUME source \in Rules
        PROVE  /\ ~RulesConflict(source, source)
               /\ \A i \in 1..n : acts[i].by \in Rules /\ acts[i].at = cycle.at
                    => ~RulesConflict(acts[i].by, source) /\ ~RulesConflict(source, acts[i].by)
    <3>1. cycle.pc = "rules"
      <4>1. cycle.pc = "recs" => source \in Recommendations
        BY DEF PilotInv, TodoIsFit
      <4> QED
        BY <2>5, <4>1, PilotAre DEF PilotInv, PilotAssumptions
    <3>2. /\ ~RulesConflict(source, source)
          /\ \A i \in DOMAIN acts : acts[i].by \in Rules /\ acts[i].at = cycle.at
                => ~RulesConflict(acts[i].by, source)
      BY <3>1 DEF PilotInv, TodoIsFit
    <3> QED
      BY <2>1, <3>2, ConflictIsMutual
  <2>6. RulesNeverFight'
    <3> SUFFICES ASSUME NEW i \in 1..(n + 1), NEW j \in 1..(n + 1),
                        acts'[i].by \in Rules, acts'[j].by \in Rules, acts'[i].at = acts'[j].at
                 PROVE  ~RulesConflict(acts'[i].by, acts'[j].by)
      BY <2>3 DEF RulesNeverFight, RulesConflict
    <3>1. CASE i \in 1..n /\ j \in 1..n
      BY <2>1, <2>3, <3>1 DEF PilotInv, PilotIsDisciplined, RulesNeverFight
    <3>2. CASE i = n + 1 /\ j = n + 1
      BY <2>2, <2>3, <2>5, <3>2
    <3>3. CASE i \in 1..n /\ j = n + 1
      BY <2>2, <2>3, <2>5, <3>3
    <3>4. CASE i = n + 1 /\ j \in 1..n
      BY <2>2, <2>3, <2>5, <3>4
    <3> QED
      BY <2>1, <3>1, <3>2, <3>3, <3>4
  <2>7. DisarmStops'
    <3> SUFFICES ASSUME ~gates.armed, NEW i \in 1..(n + 1)
                 PROVE  acts'[i].at <= gates.since
      BY <2>3 DEF DisarmStops
    <3>1. CASE i \in 1..n
      BY <2>1, <2>3, <3>1 DEF PilotInv, PilotIsDisciplined, DisarmStops
    <3>2. CASE i = n + 1
      BY <2>2, <2>3, <3>2 DEF PilotInv, TodoIsFit
    <3> QED
      BY <2>1, <3>1, <3>2
  <2> QED
    BY <2>4, <2>6, <2>7
<1> QED
  BY <1>1, <1>2

-----------------------------------------------------------------------------
(* What survives may fire, and its rivals cool down. *)
LEMMA BeginRulesKeepsInv ==
    ASSUME PilotAssumptions, PilotInv, NEW matching \in SUBSET Rules, BeginRules(matching)
    PROVE  PilotInv'
<1> DEFINE triggered == {r \in matching : CanFire(r, now)}
<1>1. /\ cycle.pc = "idle" /\ now > cycle.at
      /\ UNCHANGED <<now, gates, lastRec, budget, acts, audit>>
  BY DEF BeginRules
<1>2. /\ cycle' = [pc |-> "rules", at |-> now, todo |-> IF gates.armed THEN Survivors(triggered) ELSE {}]
  BY DEF BeginRules
<1>3. Survivors(triggered) \subseteq triggered /\ triggered \subseteq Rules
  BY DEF Survivors
<1>4. /\ now \in 0..MaxNow /\ MaxNow \in Nat /\ cycle.at \in -1..MaxNow
      /\ \A i \in DOMAIN acts : acts[i].by \in Sources /\ acts[i].at \in 0..MaxNow /\ acts[i].at < now
  <2>1. \A i \in DOMAIN acts : acts[i].at <= cycle.at
    BY DEF PilotInv, PilotClock
  <2> QED
    BY <1>1, <2>1, PilotAre DEF PilotInv
<1>5. /\ lastFired' \in [Rules -> Int]
      /\ \A r \in Rules : lastFired'[r] = lastFired[r] \/ (r \in triggered \ Survivors(triggered) /\ lastFired'[r] = now)
  <2>1. lastFired \in [Rules -> Int]
    BY DEF PilotInv, PilotTypeOK, Sources
  <2>2. \/ lastFired' = [r \in Rules |-> IF r \in triggered \ Survivors(triggered) THEN now ELSE lastFired[r]]
        \/ lastFired' = lastFired
    BY DEF BeginRules
  <2> HIDE DEF triggered
  <2>3. now \in Int
    BY <1>4
  <2> QED
    BY <2>1, <2>2, <2>3
<1>6. PilotTypeOK'
  BY <1>1, <1>2, <1>3, <1>4, <1>5 DEF PilotInv, PilotTypeOK, Sources
<1>7. PilotClock'
  BY <1>1, <1>2, <1>4 DEF PilotInv, PilotClock
<1>8. TodoIsFit'
  <2>1. /\ cycle'.pc = "rules" /\ cycle'.at = now /\ cycle'.todo \subseteq Survivors(triggered)
        /\ ~gates.armed => cycle'.todo = {}
    BY <1>2
  <2>2. ASSUME NEW r \in Survivors(triggered)
        PROVE  CanFire(r, now)' /\ \A s \in Survivors(triggered) : ~RulesConflict(r, s)
    <3>1. CanFire(r, now) /\ lastFired'[r] = lastFired[r]
      BY <1>3, <1>5
    <3> QED
      BY <1>1, <1>3, <3>1, SurvivorsAgree DEF CanFire
  <2>3. ASSUME NEW r \in cycle'.todo
        PROVE  /\ CanFire(r, cycle.at)'
               /\ \A s \in cycle'.todo : ~RulesConflict(r, s)
               /\ \A i \in DOMAIN acts' : acts'[i].at # cycle'.at
    <3>1. \A i \in DOMAIN acts' : acts'[i].at # cycle'.at
      BY <1>1, <1>4, <2>1
    <3> QED
      BY <1>1, <2>1, <2>2, <3>1 DEF CanFire
  <2>4. cycle'.at >= 0 /\ (cycle'.todo # {} /\ ~gates'.armed => cycle'.at <= gates'.since)
    BY <1>1, <1>4, <2>1
  <2> QED
    BY <1>3, <2>1, <2>3, <2>4 DEF TodoIsFit, RulesConflict
<1>9. CooldownsKnow'
  <2> SUFFICES ASSUME NEW i \in DOMAIN acts
               PROVE  /\ acts[i].by \in Rules => acts[i].at <= lastFired'[acts[i].by]
                      /\ acts[i].by \in Recommendations => acts[i].at <= lastRec[acts[i].by]
    BY <1>1 DEF CooldownsKnow
  <2>1. CooldownsKnow /\ acts[i].at < now /\ acts[i].at \in 0..MaxNow
    BY <1>4 DEF PilotInv
  <2> HIDE DEF triggered
  <2>2. CASE acts[i].by \in Rules
    BY <1>4, <1>5, <2>1, <2>2 DEF CooldownsKnow, PilotAssumptions
  <2>3. CASE acts[i].by \in Recommendations
    BY <2>1, <2>3 DEF CooldownsKnow, PilotAssumptions
  <2> QED
    BY <2>2, <2>3
<1>10. BudgetKnows' /\ PilotIsDisciplined'
  BY <1>1, QuietKeepsHistory
<1> QED
  BY <1>6, <1>7, <1>8, <1>9, <1>10 DEF PilotInv

(* A rule spends the budget and its interval before it acts. *)
LEMMA RunRuleKeepsInv ==
    ASSUME PilotAssumptions, PilotInv, NEW r \in Rules, RunRule(r)
    PROVE  PilotInv'
<1> DEFINE a == [by |-> r, at |-> cycle.at]
<1>1. /\ cycle.pc = "rules" /\ r \in cycle.todo /\ r \in Sources
      /\ UNCHANGED <<now, gates, lastRec, audit>>
      /\ cycle' = [cycle EXCEPT !.todo = @ \ {r}]
      /\ lastFired' = [lastFired EXCEPT ![r] = cycle.at]
      /\ acts' = acts \/ acts' = Append(acts, a)
      /\ (budget' = budget /\ acts' = acts) \/ (HasBudget(cycle.at) /\ budget' = Append(budget, cycle.at))
  BY DEF RunRule, Refused, CarriedOut, Sources
<1>2. /\ cycle.at \in 0..MaxNow /\ MaxNow \in Nat
      /\ cycle'.pc = cycle.pc /\ cycle'.at = cycle.at /\ cycle'.todo = cycle.todo \ {r}
      /\ lastFired \in [Rules -> Int] /\ acts \in Seq([by : Sources, at : 0..MaxNow])
      /\ budget \in Seq(0..MaxNow)
  BY <1>1, PilotAre DEF PilotInv, TodoIsFit, PilotTypeOK, Sources
<1>3. a \in [by : Sources, at : 0..MaxNow] /\ a.by = r /\ a.at = cycle.at
  BY <1>1, <1>2
<1>4. \A i \in DOMAIN acts' : (i \in DOMAIN acts /\ acts'[i] = acts[i]) \/ acts'[i] = a
  <2>1. CASE acts' = acts
    BY <2>1
  <2>2. CASE acts' = Append(acts, a)
    BY <1>2, <1>3, <2>2, Appended
  <2> QED
    BY <1>1, <2>1, <2>2
<1>5. /\ lastFired' \in [Rules -> Int] /\ lastFired'[r] = cycle.at
      /\ \A s \in Rules \ {r} : lastFired'[s] = lastFired[s]
  BY <1>1, <1>2
<1>6. \A i \in DOMAIN acts : acts[i].by = r =>
        /\ cycle.at - acts[i].at >= Interval(r) /\ acts[i].at <= cycle.at
  <2> SUFFICES ASSUME NEW i \in DOMAIN acts, acts[i].by = r
               PROVE  cycle.at - acts[i].at >= MinInterval[r] /\ acts[i].at <= cycle.at
    BY DEF Interval
  <2>1. acts[i].at <= lastFired[r] /\ acts[i].at \in 0..MaxNow /\ lastFired[r] \in Int /\ MinInterval[r] \in Nat
    BY PilotAre DEF PilotInv, CooldownsKnow
  <2>2. cycle.at - lastFired[r] >= MinInterval[r]
    BY <1>1 DEF PilotInv, TodoIsFit, CanFire
  <2> QED
    BY <1>2, <2>1, <2>2
<1>7. PilotTypeOK'
  <2>1. cycle' \in [pc : {"idle", "rules", "recs"}, at : -1..MaxNow, todo : SUBSET Sources]
    BY <1>1 DEF PilotInv, PilotTypeOK, Sources
  <2>2. acts' \in Seq([by : Sources, at : 0..MaxNow]) /\ budget' \in Seq(0..MaxNow)
    <3>1. Append(budget, cycle.at) \in Seq(0..MaxNow)
      BY <1>2, Appended
    <3>2. acts' = acts \/ Append(acts, a) \in Seq([by : Sources, at : 0..MaxNow])
      BY <1>2, <1>3, Appended
    <3> QED
      BY <1>1, <1>2, <3>1, <3>2
  <2> QED
    BY <1>1, <1>5, <2>1, <2>2 DEF PilotInv, PilotTypeOK, Sources
<1>8. PilotClock'
  BY <1>1, <1>2, <1>3, <1>4 DEF PilotInv, PilotClock
<1>9. TodoIsFit'
  <2> SUFFICES ASSUME NEW q \in cycle.todo \ {r}
               PROVE  /\ CanFire(q, cycle.at)'
                      /\ \A s \in cycle.todo : ~RulesConflict(q, s)
                      /\ \A i \in DOMAIN acts' :
                           acts'[i].by \in Rules /\ acts'[i].at = cycle.at => ~RulesConflict(acts'[i].by, q)
    BY <1>1, <1>2 DEF PilotInv, TodoIsFit, CanFire, RulesConflict
  <2>1. /\ q \in Rules /\ CanFire(q, cycle.at)
        /\ \A s \in cycle.todo : ~RulesConflict(q, s)
        /\ ~RulesConflict(r, q)
        /\ \A i \in DOMAIN acts :
             acts[i].by \in Rules /\ acts[i].at = cycle.at => ~RulesConflict(acts[i].by, q)
    BY <1>1 DEF PilotInv, TodoIsFit
  <2> QED
    BY <1>2, <1>3, <1>4, <1>5, <2>1 DEF CanFire
<1>10. CooldownsKnow'
  <2> SUFFICES ASSUME NEW i \in DOMAIN acts'
               PROVE  /\ acts'[i].by \in Rules => acts'[i].at <= lastFired'[acts'[i].by]
                      /\ acts'[i].by \in Recommendations => acts'[i].at <= lastRec[acts'[i].by]
    BY <1>1 DEF CooldownsKnow
  <2>1. CASE acts'[i] = a
    BY <1>2, <1>3, <1>5, <2>1 DEF PilotAssumptions
  <2>2. CASE i \in DOMAIN acts /\ acts'[i] = acts[i] /\ acts[i].by = r
    BY <1>5, <1>6, <2>2 DEF PilotAssumptions
  <2>3. CASE i \in DOMAIN acts /\ acts'[i] = acts[i] /\ acts[i].by # r
    BY <1>5, <2>3 DEF PilotInv, CooldownsKnow
  <2> QED
    BY <1>4, <2>1, <2>2, <2>3
<1>11. BudgetKnows' /\ PilotIsDisciplined'
  <2>1. CASE budget' = budget /\ acts' = acts
    BY <1>1, <2>1, QuietKeepsHistory
  <2>2. CASE HasBudget(cycle.at) /\ budget' = Append(budget, cycle.at)
    <3>1. BudgetKnows' /\ BudgetIsKept'
      BY <1>1, <2>2, SpendKeepsBudget
    <3>2. IntervalsAreKept' /\ RulesNeverFight' /\ DisarmStops'
      BY <1>1, <1>6, ActKeepsHistory
    <3> QED
      BY <3>1, <3>2 DEF PilotIsDisciplined
  <2> QED
    BY <1>1, <2>1, <2>2
<1> QED
  BY <1>7, <1>8, <1>9, <1>10, <1>11 DEF PilotInv

(* So does a recommendation. *)
LEMMA RunRecKeepsInv ==
    ASSUME PilotAssumptions, PilotInv, NEW q \in Recommendations, RunRec(q)
    PROVE  PilotInv'
<1> DEFINE a == [by |-> q, at |-> cycle.at]
<1>1. /\ cycle.pc = "recs" /\ q \in cycle.todo /\ q \in Sources
      /\ UNCHANGED <<now, gates, lastFired>>
      /\ cycle' = [cycle EXCEPT !.todo = @ \ {q}]
      /\ acts' = acts \/ acts' = Append(acts, a)
      /\ (budget' = budget /\ acts' = acts) \/ (HasBudget(cycle.at) /\ budget' = Append(budget, cycle.at))
      /\ \/ lastRec' = lastRec /\ acts' = acts
         \/ cycle.at - lastRec[q] >= RecCooldown[q] /\ lastRec' = [lastRec EXCEPT ![q] = cycle.at]
  BY DEF RunRec, Refused, CarriedOut, Sources
<1>2. /\ cycle.at \in 0..MaxNow /\ MaxNow \in Nat /\ q \notin Rules
      /\ cycle'.pc = cycle.pc /\ cycle'.at = cycle.at /\ cycle'.todo = cycle.todo \ {q}
      /\ lastRec \in [Recommendations -> Int] /\ acts \in Seq([by : Sources, at : 0..MaxNow])
      /\ budget \in Seq(0..MaxNow)
  BY <1>1, PilotAre DEF PilotInv, TodoIsFit, PilotTypeOK, Sources, PilotAssumptions
<1>3. a \in [by : Sources, at : 0..MaxNow] /\ a.by = q /\ a.at = cycle.at
  BY <1>1, <1>2
<1>4. \A i \in DOMAIN acts' : (i \in DOMAIN acts /\ acts'[i] = acts[i]) \/ acts'[i] = a
  <2>1. CASE acts' = acts
    BY <2>1
  <2>2. CASE acts' = Append(acts, a)
    BY <1>2, <1>3, <2>2, Appended
  <2> QED
    BY <1>1, <2>1, <2>2
<1>5. lastRec' \in [Recommendations -> Int] /\ \A p \in Recommendations \ {q} : lastRec'[p] = lastRec[p]
  BY <1>1, <1>2
<1>6. ASSUME cycle.at - lastRec[q] >= RecCooldown[q], NEW i \in DOMAIN acts, acts[i].by = q
      PROVE  cycle.at - acts[i].at >= Interval(q) /\ acts[i].at <= cycle.at
  <2>1. /\ acts[i].at <= lastRec[q] /\ acts[i].at \in 0..MaxNow
        /\ lastRec[q] \in Int /\ RecCooldown[q] \in Nat
    BY <1>6, PilotAre DEF PilotInv, CooldownsKnow
  <2> QED
    BY <1>2, <1>6, <2>1 DEF Interval
<1>7. PilotTypeOK'
  <2>1. cycle' \in [pc : {"idle", "rules", "recs"}, at : -1..MaxNow, todo : SUBSET Sources]
    BY <1>1 DEF PilotInv, PilotTypeOK, Sources
  <2>2. acts' \in Seq([by : Sources, at : 0..MaxNow]) /\ budget' \in Seq(0..MaxNow)
    <3>1. Append(budget, cycle.at) \in Seq(0..MaxNow)
      BY <1>2, Appended
    <3>2. acts' = acts \/ Append(acts, a) \in Seq([by : Sources, at : 0..MaxNow])
      BY <1>2, <1>3, Appended
    <3> QED
      BY <1>1, <1>2, <3>1, <3>2
  <2>3. audit' \subseteq [by : Sources, at : 0..MaxNow, note : {"executed", "error", "blocked"}]
    <3>1. \A note \in {"error", "blocked"} :
            [by |-> q, at |-> cycle.at, note |-> note]
              \in [by : Sources, at : 0..MaxNow, note : {"executed", "error", "blocked"}]
      BY <1>1, <1>2
    <3>2. audit' = audit \/ Decided(q, "error") \/ Decided(q, "blocked")
      BY DEF RunRec
    <3> QED
      BY <3>1, <3>2 DEF Decided, PilotInv, PilotTypeOK, Sources
  <2> QED
    BY <1>1, <1>5, <2>1, <2>2, <2>3 DEF PilotInv, PilotTypeOK, Sources
<1>8. PilotClock'
  BY <1>1, <1>2, <1>3, <1>4 DEF PilotInv, PilotClock
<1>9. TodoIsFit'
  BY <1>1, <1>2 DEF PilotInv, TodoIsFit
<1>10. CooldownsKnow'
  <2> SUFFICES ASSUME NEW i \in DOMAIN acts'
               PROVE  /\ acts'[i].by \in Rules => acts'[i].at <= lastFired[acts'[i].by]
                      /\ acts'[i].by \in Recommendations => acts'[i].at <= lastRec'[acts'[i].by]
    BY <1>1 DEF CooldownsKnow
  <2>1. CASE lastRec' = lastRec /\ acts' = acts
    BY <2>1 DEF PilotInv, CooldownsKnow
  <2>2. CASE cycle.at - lastRec[q] >= RecCooldown[q] /\ lastRec' = [lastRec EXCEPT ![q] = cycle.at]
    <3>1. lastRec'[q] = cycle.at
      BY <1>2, <2>2
    <3>2. CASE acts'[i] = a
      BY <1>2, <1>3, <3>1, <3>2
    <3>3. CASE i \in DOMAIN acts /\ acts'[i] = acts[i] /\ acts[i].by = q
      BY <1>2, <1>6, <2>2, <3>1, <3>3
    <3>4. CASE i \in DOMAIN acts /\ acts'[i] = acts[i] /\ acts[i].by # q
      BY <1>5, <3>4 DEF PilotInv, CooldownsKnow
    <3> QED
      BY <1>4, <3>2, <3>3, <3>4
  <2> QED
    BY <1>1, <2>1, <2>2
<1>11. BudgetKnows' /\ PilotIsDisciplined'
  <2>1. CASE budget' = budget /\ acts' = acts
    BY <1>1, <2>1, QuietKeepsHistory
  <2>2. CASE acts' # acts \/ budget' # budget
    <3>1. BudgetKnows' /\ BudgetIsKept'
      BY <1>1, <2>2, SpendKeepsBudget
    <3>2. acts' # acts => cycle.at - lastRec[q] >= RecCooldown[q]
      BY <1>1
    <3>3. IntervalsAreKept' /\ RulesNeverFight' /\ DisarmStops'
      <4>1. CASE acts' = acts
        BY <1>1, <4>1 DEF PilotInv, PilotIsDisciplined, IntervalsAreKept, RulesNeverFight, DisarmStops
      <4>2. CASE acts' # acts
        BY <1>1, <1>6, <3>2, <4>2, ActKeepsHistory
      <4> QED
        BY <4>1, <4>2
    <3> QED
      BY <3>1, <3>3 DEF PilotIsDisciplined
  <2> QED
    BY <1>1, <2>1, <2>2
<1> QED
  BY <1>7, <1>8, <1>9, <1>10, <1>11 DEF PilotInv

(* The recommendations of a cycle begin while the pilot is armed. *)
LEMMA CycleKeepsInv ==
    ASSUME PilotAssumptions, PilotInv,
           EndCycle \/ \E R \in SUBSET Recommendations : BeginRecs(R)
    PROVE  PilotInv'
<1>1. /\ UNCHANGED <<now, gates, lastFired, lastRec, budget, acts, audit>>
      /\ \/ cycle' = [cycle EXCEPT !.pc = "idle"]
         \/ /\ gates.armed
            /\ \E R \in SUBSET Recommendations : cycle' = [pc |-> "recs", at |-> now, todo |-> R]
  BY DEF EndCycle, BeginRecs
<1>2. /\ now \in 0..MaxNow /\ cycle.at \in -1..MaxNow /\ MaxNow \in Nat
      /\ cycle \in [pc : {"idle", "rules", "recs"}, at : -1..MaxNow, todo : SUBSET Sources]
      /\ \A i \in DOMAIN acts : acts[i].at \in 0..MaxNow
  BY PilotAre DEF PilotInv, PilotTypeOK, Sources
<1>3. /\ cycle' \in [pc : {"idle", "rules", "recs"}, at : -1..MaxNow, todo : SUBSET Sources]
      /\ cycle'.at = cycle.at \/ cycle'.at = now
      /\ \/ cycle'.pc = "idle"
         \/ gates.armed /\ cycle'.pc = "recs" /\ cycle'.at = now /\ cycle'.todo \subseteq Recommendations
  BY <1>1, <1>2 DEF Sources
<1>4. PilotTypeOK' /\ CooldownsKnow'
  BY <1>1, <1>3 DEF PilotInv, PilotTypeOK, Sources, CooldownsKnow
<1>5. PilotClock'
  BY <1>1, <1>2, <1>3 DEF PilotInv, PilotClock
<1>6. TodoIsFit'
  BY <1>1, <1>2, <1>3 DEF TodoIsFit
<1>7. BudgetKnows' /\ PilotIsDisciplined'
  BY <1>1, QuietKeepsHistory
<1> QED
  BY <1>4, <1>5, <1>6, <1>7 DEF PilotInv

(* The operator's switches and the clock carry nothing out. *)
LEMMA OperatorKeepsInv ==
    ASSUME PilotAssumptions, PilotInv,
           SetArmed \/ SetAutonomous \/ PilotTick \/ UNCHANGED pilotVars
    PROVE  PilotInv'
<1>1. /\ UNCHANGED <<cycle, lastFired, lastRec, budget, acts, audit>>
      /\ \/ /\ now' = now
            /\ \/ gates' = [gates EXCEPT !.armed = ~@, !.since = now]
               \/ gates' = [gates EXCEPT !.autonomous = ~@]
               \/ gates' = gates
         \/ gates' = gates /\ now < MaxNow /\ now' = now + 1
  BY DEF SetArmed, SetAutonomous, PilotTick, pilotVars
<1>2. /\ now \in 0..MaxNow /\ cycle.at \in -1..MaxNow /\ MaxNow \in Nat /\ cycle.at <= now
      /\ gates \in [armed : BOOLEAN, autonomous : BOOLEAN, permitted : BOOLEAN, since : 0..MaxNow]
      /\ gates.since \in 0..MaxNow /\ gates.since <= now
  BY PilotAre DEF PilotInv, PilotTypeOK, Sources, PilotClock
<1>3. /\ gates' \in [armed : BOOLEAN, autonomous : BOOLEAN, permitted : BOOLEAN, since : 0..MaxNow]
      /\ now' \in 0..MaxNow /\ now <= now'
      /\ (gates'.armed = gates.armed /\ gates'.since = gates.since) \/ (gates'.since = now /\ now' = now)
  <2>1. CASE gates' = [gates EXCEPT !.armed = ~@, !.since = now] /\ now' = now
    <3>1. gates'.since = now
      BY <1>2, <2>1
    <3>2. gates' \in [armed : BOOLEAN, autonomous : BOOLEAN, permitted : BOOLEAN, since : 0..MaxNow]
      BY <1>2, <2>1
    <3> QED
      BY <1>2, <2>1, <3>1, <3>2
  <2>2. CASE gates' = [gates EXCEPT !.autonomous = ~@] /\ now' = now
    <3>1. gates'.armed = gates.armed /\ gates'.since = gates.since
      BY <1>2, <2>2
    <3>2. gates' \in [armed : BOOLEAN, autonomous : BOOLEAN, permitted : BOOLEAN, since : 0..MaxNow]
      BY <1>2, <2>2
    <3> QED
      BY <1>2, <2>2, <3>1, <3>2
  <2>3. CASE gates' = gates
    BY <1>1, <1>2, <2>3
  <2> QED
    BY <1>1, <2>1, <2>2, <2>3
<1>4. PilotTypeOK' /\ CooldownsKnow'
  BY <1>1, <1>3 DEF PilotInv, PilotTypeOK, Sources, CooldownsKnow
<1>5. PilotClock'
  BY <1>1, <1>2, <1>3 DEF PilotInv, PilotClock
<1>6. TodoIsFit'
  BY <1>1, <1>2, <1>3 DEF PilotInv, TodoIsFit, CanFire, RulesConflict
<1>7. BudgetKnows' /\ PilotIsDisciplined'
  BY <1>1, <1>3, QuietKeepsHistory
<1> QED
  BY <1>4, <1>5, <1>6, <1>7 DEF PilotInv

(* A new process has done nothing yet. *)
LEMMA RestartKeepsInv ==
    ASSUME PilotAssumptions, PilotInv, PilotRestart
    PROVE  PilotInv'
<1>1. PICK permitted \in BOOLEAN : gates' = [gates EXCEPT !.permitted = permitted]
  BY DEF PilotRestart
<1>2. /\ now \in 0..MaxNow /\ MaxNow \in Nat /\ gates.since \in 0..MaxNow /\ gates.since <= now
      /\ gates \in [armed : BOOLEAN, autonomous : BOOLEAN, permitted : BOOLEAN, since : 0..MaxNow]
  BY PilotAre DEF PilotInv, PilotTypeOK, Sources, PilotClock
<1>3. /\ cycle'.pc = "idle" /\ cycle'.at = now
      /\ cycle' \in [pc : {"idle", "rules", "recs"}, at : -1..MaxNow, todo : SUBSET Sources]
  BY <1>2 DEF PilotRestart, IdleCycle
<1>4. now' = now /\ acts' = <<>> /\ budget' = <<>> /\ audit' = {}
  BY DEF PilotRestart
<1>5. PilotTypeOK'
  <2>1. gates' \in [armed : BOOLEAN, autonomous : BOOLEAN, permitted : BOOLEAN, since : 0..MaxNow]
    BY <1>1, <1>2
  <2>2. lastFired' \in [Rules -> Int] /\ lastRec' \in [Recommendations -> Int]
    BY DEF PilotRestart, PilotAssumptions
  <2> QED
    BY <1>2, <1>3, <1>4, <2>1, <2>2 DEF PilotTypeOK, Sources
<1>6. PilotClock' /\ TodoIsFit'
  BY <1>1, <1>2, <1>3, <1>4 DEF PilotClock, TodoIsFit
<1>7. DOMAIN acts' = {} /\ DOMAIN budget' = {}
  BY <1>4
<1>8. CooldownsKnow' /\ PilotIsDisciplined'
  BY <1>7 DEF CooldownsKnow, PilotIsDisciplined, IntervalsAreKept, RulesNeverFight, DisarmStops, BudgetIsKept
<1>9. BudgetKnows'
  <2> SUFFICES ASSUME NEW t \in 0..MaxNow
               PROVE  Cardinality(ActsBefore(t)') <= Cardinality(SpentBefore(t)')
    BY DEF BudgetKnows
  <2>1. ActsBefore(t)' = {} /\ SpentBefore(t)' = {}
    BY <1>7 DEF ActsBefore, SpentBefore
  <2> QED
    BY <2>1, FS_EmptySet
<1> QED
  BY <1>5, <1>6, <1>8, <1>9 DEF PilotInv

-----------------------------------------------------------------------------
(* The cooldowns and the budget, which are memory of the process, know what the *)
(* pilot has done since it started: the inductive invariant.                    *)
THEOREM PilotInvariance ==
    ASSUME PilotAssumptions
    PROVE  PilotSpec => []PilotInv
<1>1. PilotInit => PilotInv
  BY PilotInitInv
<1>2. PilotInv /\ [PilotNext]_pilotVars => PilotInv'
  BY BeginRulesKeepsInv, RunRuleKeepsInv, CycleKeepsInv, RunRecKeepsInv, OperatorKeepsInv,
     RestartKeepsInv DEF PilotNext
<1> QED
  BY <1>1, <1>2, PTL DEF PilotSpec

(* The gates, the cycle, the cooldowns, the budget and the audit are well typed. *)
THEOREM PilotTypes ==
    ASSUME PilotAssumptions
    PROVE  PilotSpec => []PilotTypeOK
<1>1. PilotInv => PilotTypeOK
  BY DEF PilotInv
<1> QED
  BY <1>1, PilotInvariance, PTL

(* With any rules and recommendations, whatever the operator arms and disarms in   *)
(* between and however actions end, the pilot keeps its budget and its intervals,  *)
(* gives no device opposite commands in a cycle and stops when it is disarmed.     *)
THEOREM PilotDisciplined ==
    ASSUME PilotAssumptions
    PROVE  PilotSpec => []PilotIsDisciplined
<1>1. PilotInv => PilotIsDisciplined
  BY DEF PilotInv
<1> QED
  BY <1>1, PilotInvariance, PTL
=============================================================================
