--------------------------- MODULE AutoPilotReplay ---------------------------
(***************************************************************************)
(* simulate_replay_window of core/alerts/automation_engine.py: how often   *)
(* every rule would have fired, computed from the recorded telemetry, next *)
(* to the pilot itself.  The pilot is armed all the time, is not restarted *)
(* and has no recommendations.                                             *)
(***************************************************************************)
EXTENDS AutoPilot, SequencesExt

CONSTANT Replayed    \* the window that is replayed

VARIABLES
    samples,         \* [at, device, matching]: the rules whose condition held of a device
    shelved,         \* history: rules that a conflict cancelled when they triggered last
    parted           \* history: did such a rule match while the pilot let it cool down?

replayVars == <<pilotVars, samples, shelved, parted>>

Targets == {Device[r] : r \in Rules}

ReplayInit ==
    /\ PilotInit
    /\ gates.armed /\ gates.permitted /\ ~gates.autonomous
    /\ samples = {} /\ shelved = {} /\ parted = FALSE

(* What a cycle sees of a device is what its telemetry records.  A cancelled rule *)
(* cools down in the cycle and not in the replay: the two part when it matches    *)
(* before its interval is over.                                                   *)
ReplayBeginRules(matching) ==
    /\ BeginRules(matching)
    /\ LET triggered == {r \in matching : CanFire(r, now)} IN
       shelved' = (shelved \cup triggered) \ Survivors(triggered)
    /\ parted' = (parted \/ \E r \in matching \cap shelved : ~CanFire(r, now))
    /\ samples' = samples \cup
         {[at |-> now, device |-> d, matching |-> {r \in matching : Device[r] = d}] : d \in Targets}

ReplayNext ==
    \/ \E T \in SUBSET Rules : ReplayBeginRules(T)
    \/ /\ (\E r \in Rules : RunRule(r)) \/ BeginRecs({}) \/ PilotTick
       /\ UNCHANGED <<samples, shelved, parted>>

ReplaySpec == ReplayInit /\ [][ReplayNext]_replayVars

-----------------------------------------------------------------------------
(***************************************************************************)
(* The replay: device after device, each from its oldest sample            *)
(***************************************************************************)
Never == [r \in Rules |-> -1]

StepEager(acc, sample) ==  \* mutant: the cooldown of a rule is not replayed
    LET fire == Survivors(sample.matching)
    IN  [last |-> [r \in Rules |-> IF r \in fire THEN sample.at ELSE acc.last[r]],
         fires |-> acc.fires + Cardinality(fire)]

(* A rule fires when it is not cooling down and survives its conflicts; unlike   *)
(* the pilot, the replay does not let the cancelled ones cool down.              *)
Step(acc, sample) ==
    LET triggered == {r \in sample.matching :
                        acc.last[r] = -1 \/ sample.at - acc.last[r] >= MinInterval[r]}
        fire == Survivors(triggered)
    IN  [last |-> [r \in Rules |-> IF r \in fire THEN sample.at ELSE acc.last[r]],
         fires |-> acc.fires + Cardinality(fire)]

Chronicle(d) ==
    SetToSortSeq({s \in samples : s.device = d /\ s.at >= now - Replayed},
                 LAMBDA s, t : s.at < t.at)

DeviceFires(d) == FoldLeft(Step, [last |-> Never, fires |-> 0], Chronicle(d)).fires

(* The budget is a cap on the whole window that is replayed. *)
Fires ==
    LET all == FoldSet(LAMBDA d, n : n + DeviceFires(d), 0, Targets)
    IN  IF all > Cap THEN Cap ELSE all

-----------------------------------------------------------------------------
(* "Per-cycle cooldown + conflict resolution + per-tenant budget applied exactly  *)
(* like a live cycle": between two cycles the replay counts the actions that the  *)
(* pilot spent its budget on, up to the cap of one window, which is all it allows *)
(* the whole replay; unless a rule that lost a conflict matched in its cooldown.  *)
ReplayIsLive ==
    cycle.pc = "idle" /\ now <= Replayed /\ ~parted =>
        Fires = IF Len(budget) > Cap THEN Cap ELSE Len(budget)
=============================================================================
