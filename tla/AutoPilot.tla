------------------------------ MODULE AutoPilot ------------------------------
(***************************************************************************)
(* The pilot of one tenant, as the poll loop runs it: first the rules of   *)
(* core/alerts/automation_engine.py, then the recommendations of           *)
(* services/auto_pilot.py, which share an action budget.  Operators arm    *)
(* and disarm it from other threads.  Its cooldowns and its budget are     *)
(* memory of the process.                                                  *)
(***************************************************************************)
EXTENDS Integers, FiniteSets, Sequences

CONSTANTS
    Rules,             \* automation rules
    Device, Command,   \* of a rule: target_device_id and action_command
    Priority,          \* of a rule
    MinInterval,       \* min_interval_seconds of a rule
    Recommendations,   \* advisories with a safe action, one for a device and an action
    RecCooldown,       \* _AUTONOMOUS_COOLDOWN_S, of a recommendation
    Cap, BudgetWindow, \* AUTOMATION_MAX_ACTIONS_PER_WINDOW, AUTOMATION_ACTION_WINDOW_S
    MaxNow             \* bound on the clock

VARIABLES
    now,
    gates,       \* what the operator and the deployment allow, and since when armed is what it is
    cycle,       \* the cycle of the poll loop
    lastFired,   \* _last_fired
    lastRec,     \* _autonomous_cooldown
    budget,      \* _action_history
    acts,        \* history: commands carried out since the process started
    audit        \* rows of auto_pilot_rec_audit and automation_execution_log since then

pilotVars == <<now, gates, cycle, lastFired, lastRec, budget, acts, audit>>

IdleCycle == [pc |-> "idle", at |-> -1, todo |-> {}]

PilotAssumptions ==
    /\ Rules \cap Recommendations = {}
    /\ MinInterval \in [Rules -> Nat] /\ Priority \in [Rules -> Nat]
    /\ RecCooldown \in [Recommendations -> Nat]
    /\ Cap \in Nat /\ BudgetWindow \in Nat \ {0} /\ MaxNow \in Nat

PilotTypeOK ==
    /\ now \in 0..MaxNow
    /\ gates \in [armed : BOOLEAN, autonomous : BOOLEAN, permitted : BOOLEAN, since : 0..MaxNow]
    /\ cycle \in [pc : {"idle", "rules", "recs"}, at : -1..MaxNow,
                  todo : SUBSET (Rules \cup Recommendations)]
    /\ lastFired \in [Rules -> Int]
    /\ lastRec \in [Recommendations -> Int]
    /\ budget \in Seq(0..MaxNow)
    /\ acts \in Seq([by : Rules \cup Recommendations, at : 0..MaxNow])
    /\ audit \subseteq [by : Rules \cup Recommendations, at : 0..MaxNow,
                        note : {"executed", "error", "blocked"}]

(* The epoch is longer ago than any cooldown. *)
PilotInit ==
    /\ now = 0
    /\ gates \in [armed : BOOLEAN, autonomous : BOOLEAN, permitted : BOOLEAN, since : {0}]
    /\ cycle = IdleCycle
    /\ lastFired = [r \in Rules |-> -MinInterval[r]]
    /\ lastRec = [q \in Recommendations |-> -RecCooldown[q]]
    /\ budget = <<>>
    /\ acts = <<>>
    /\ audit = {}

-----------------------------------------------------------------------------
(***************************************************************************)
(* Conflicts                                                               *)
(***************************************************************************)
Opposites == {{"overclock", "underclock"}, {"pause", "resume"}, {"restart", "poweroff"}, {"start", "stop"}}

RulesConflict(r, s) == Device[r] = Device[s] /\ {Command[r], Command[s]} \in Opposites

SurvivorsByLead(T) ==  \* mutant: a tie is won by whoever comes first
    {r \in T : \A s \in T : RulesConflict(r, s) => Priority[r] >= Priority[s]}

(* _resolve_conflicts: every pair is judged by priority alone, a tie cancels *)
(* both, and a rule that is cancelled by one pair still cancels in another.  *)
Survivors(T) == {r \in T : \A s \in T : RulesConflict(r, s) => Priority[r] > Priority[s]}

-----------------------------------------------------------------------------
(***************************************************************************)
(* The action budget: _consume_action_budget                               *)
(***************************************************************************)
HasBudgetAfter(t) ==  \* mutant: the cap is compared after the fact
    Cardinality({i \in DOMAIN budget : t - budget[i] < BudgetWindow}) <= Cap

HasBudget(t) == Cardinality({i \in DOMAIN budget : t - budget[i] < BudgetWindow}) < Cap

-----------------------------------------------------------------------------
(***************************************************************************)
(* The rules: evaluate_rules                                               *)
(***************************************************************************)
CanFireAgain(r, t) ==  \* mutant: the boundary of the interval is off by one
    t - lastFired[r] >= MinInterval[r] - 1

CanFire(r, t) == t - lastFired[r] >= MinInterval[r]

(* Whether the conditions hold is up to the telemetry.  The armed state is    *)
(* read here, once.  What a conflict cancels is in its cooldown from now on.  *)
BeginRules(matching) ==
    /\ cycle.pc = "idle"
    /\ now > cycle.at
    /\ LET triggered == {r \in matching : CanFire(r, now)} IN
       IF gates.armed
       THEN /\ cycle' = [pc |-> "rules", at |-> now, todo |-> Survivors(triggered)]
            /\ lastFired' = [r \in Rules |->
                 IF r \in triggered \ Survivors(triggered) THEN now ELSE lastFired[r]]
       ELSE /\ cycle' = [pc |-> "rules", at |-> now, todo |-> {}]
            /\ UNCHANGED lastFired
    /\ UNCHANGED <<now, gates, lastRec, budget, acts, audit>>

(* The command is blocked by the safety engine, refused, or fails. *)
Refused == UNCHANGED acts

(* The executors ask for the policy of the deployment. *)
CarriedOut(source) ==
    /\ gates.permitted
    /\ acts' = Append(acts, [by |-> source, at |-> cycle.at])

(* Budget and cooldown are spent whatever comes of the action.  The outcome is  *)
(* told to _audit_automation_result with an argument it does not take: nothing  *)
(* is written.                                                                  *)
RunRule(r) ==
    /\ cycle.pc = "rules"
    /\ r \in cycle.todo
    /\ cycle' = [cycle EXCEPT !.todo = @ \ {r}]
    /\ lastFired' = [lastFired EXCEPT ![r] = cycle.at]
    /\ \/ ~HasBudget(cycle.at) /\ Refused /\ UNCHANGED budget
       \/ /\ HasBudget(cycle.at)
          /\ budget' = Append(budget, cycle.at)
          /\ Refused \/ CarriedOut(r)
    /\ UNCHANGED <<now, gates, lastRec, audit>>

-----------------------------------------------------------------------------
(***************************************************************************)
(* The recommendations: execute_autonomous_actions                         *)
(***************************************************************************)
BeginRecsBlindly(recs) ==  \* mutant: the armed state of the rules is taken for granted
    /\ cycle.pc = "rules"
    /\ cycle.todo = {}
    /\ cycle' = IF gates.permitted /\ gates.autonomous
                THEN [pc |-> "recs", at |-> now, todo |-> recs]
                ELSE [cycle EXCEPT !.pc = "idle"]
    /\ UNCHANGED <<now, gates, lastFired, lastRec, budget, acts, audit>>

BeginRecs(recs) ==
    /\ cycle.pc = "rules"
    /\ cycle.todo = {}
    /\ cycle' = IF gates.permitted /\ gates.armed /\ gates.autonomous
                THEN [pc |-> "recs", at |-> now, todo |-> recs]
                ELSE [cycle EXCEPT !.pc = "idle"]
    /\ UNCHANGED <<now, gates, lastFired, lastRec, budget, acts, audit>>

Decided(q, note) == audit' = audit \cup {[by |-> q, at |-> cycle.at, note |-> note]}

(* The cooldown is spent before the budget is asked for.  The executor builds    *)
(* an HTTP response, which fails outside of a request: an action that has been   *)
(* carried out is recorded as an error.                                          *)
RunRec(q) ==
    /\ cycle.pc = "recs"
    /\ q \in cycle.todo
    /\ cycle' = [cycle EXCEPT !.todo = @ \ {q}]
    /\ \/ /\ cycle.at - lastRec[q] < RecCooldown[q]
          /\ UNCHANGED <<lastRec, budget, acts, audit>>
       \/ /\ cycle.at - lastRec[q] >= RecCooldown[q]
          /\ lastRec' = [lastRec EXCEPT ![q] = cycle.at]
          /\ \/ ~HasBudget(cycle.at) /\ UNCHANGED <<budget, acts, audit>>
             \/ /\ HasBudget(cycle.at)
                /\ budget' = Append(budget, cycle.at)
                /\ \/ Refused /\ (UNCHANGED audit \/ Decided(q, "blocked") \/ Decided(q, "error"))
                   \/ CarriedOut(q) /\ Decided(q, "error")
    /\ UNCHANGED <<now, gates, lastFired>>

EndCycle ==
    /\ cycle.pc = "recs"
    /\ cycle.todo = {}
    /\ cycle' = [cycle EXCEPT !.pc = "idle"]
    /\ UNCHANGED <<now, gates, lastFired, lastRec, budget, acts, audit>>

-----------------------------------------------------------------------------
(***************************************************************************)
(* The operator, the clock and the process                                 *)
(***************************************************************************)
SetArmed ==
    /\ gates' = [gates EXCEPT !.armed = ~@, !.since = now]
    /\ UNCHANGED <<now, cycle, lastFired, lastRec, budget, acts, audit>>

SetAutonomous ==
    /\ gates' = [gates EXCEPT !.autonomous = ~@]
    /\ UNCHANGED <<now, cycle, lastFired, lastRec, budget, acts, audit>>

PilotTick ==
    /\ now < MaxNow
    /\ now' = now + 1
    /\ UNCHANGED <<gates, cycle, lastFired, lastRec, budget, acts, audit>>

(* The process starts again, perhaps under another policy. *)
PilotRestart ==
    /\ \E permitted \in BOOLEAN : gates' = [gates EXCEPT !.permitted = permitted]
    /\ cycle' = [IdleCycle EXCEPT !.at = now]
    /\ lastFired' = [r \in Rules |-> -MinInterval[r]]
    /\ lastRec' = [q \in Recommendations |-> -RecCooldown[q]]
    /\ budget' = <<>>
    /\ acts' = <<>>
    /\ audit' = {}
    /\ UNCHANGED now

-----------------------------------------------------------------------------
PilotNext ==
    \/ \E T \in SUBSET Rules : BeginRules(T)
    \/ \E r \in Rules : RunRule(r)
    \/ \E R \in SUBSET Recommendations : BeginRecs(R)
    \/ \E q \in Recommendations : RunRec(q)
    \/ EndCycle
    \/ SetArmed
    \/ SetAutonomous
    \/ PilotTick
    \/ PilotRestart

PilotSpec == PilotInit /\ [][PilotNext]_pilotVars

-----------------------------------------------------------------------------
(***************************************************************************)
(* Properties                                                              *)
(***************************************************************************)

(* "A broken rule can never spam the fleet": in no window does the pilot act  *)
(* more often than the cap, rules and recommendations together.               *)
BudgetIsKept ==
    \A i \in DOMAIN acts :
        Cardinality({j \in 1..i : acts[i].at - acts[j].at < BudgetWindow}) <= Cap

(* A rule or a recommendation that keeps applying does not act again within   *)
(* its interval, however its actions end and whatever cancels it in between.  *)
Interval(source) == IF source \in Rules THEN MinInterval[source] ELSE RecCooldown[source]

IntervalsAreKept ==
    \A i, j \in DOMAIN acts :
        i < j /\ acts[i].by = acts[j].by => acts[j].at - acts[i].at >= Interval(acts[i].by)

(* The rules never fight: no device gets two opposite commands in one cycle. *)
RulesNeverFight ==
    \A i, j \in DOMAIN acts :
        acts[i].by \in Rules /\ acts[j].by \in Rules /\ acts[i].at = acts[j].at
            => ~RulesConflict(acts[i].by, acts[j].by)

(* A pilot that is disarmed carries out nothing that was started later. *)
DisarmStops == ~gates.armed => \A i \in DOMAIN acts : acts[i].at <= gates.since

(* What keeps an autonomous pilot from harm: its budget, the intervals of its *)
(* rules, the resolution of their conflicts and the switch that disarms it.   *)
PilotIsDisciplined == BudgetIsKept /\ IntervalsAreKept /\ RulesNeverFight /\ DisarmStops
=============================================================================
