---------------------------- MODULE RentalAlerts ----------------------------
(***************************************************************************)
(* The alert of a closed rental that lost money:                           *)
(* evaluate_rental_pl_alerts in services/rental_performance.py, run by the *)
(* rentals panel (api_rentals in app.py) and by the sweep                  *)
(* (_rentals_sweep_once in services/user_polling.py), and dispatched by    *)
(* dispatch_rental_pl_alerts.  A slot of rental_pl_alerts, claimed before  *)
(* the dispatch, is what keeps the two from telling it twice.  The rentals *)
(* are those of one tenant, who has names: the evaluators of the default   *)
(* tenant do not call it the same.                                         *)
(***************************************************************************)
EXTENDS Naturals

CONSTANTS
    Rentals,
    Panels, Sweep,        \* requests to the panel, and the sweep
    PanelTenant, SweepTenant,   \* what they call the tenant
    RecentWindow, PruneAfter,   \* rental_pl_alert_window_hours, RENTAL_PL_ALERT_PRUNE_DAYS
    NoRental,
    MaxMinutes, MaxHitches    \* bounds

VARIABLES
    ended,      \* when a rental ended, Open or Unknown
    slot,       \* rental_pl_alerts: when the alert was claimed, or 0
    job,        \* the evaluations
    minute,
    hitches,    \* faults that may come
    handed,     \* history: how often the alert was handed to webhook and push
    lostAlerts, \* history: alerts a fault took from an evaluation
    excused     \* history: alerts that may be told again

rentalVars == <<ended, slot, job, minute, hitches, handed, lostAlerts, excused>>

Evaluators == Panels \cup {Sweep}
Name == [e \in Evaluators |-> IF e = Sweep THEN SweepTenant ELSE PanelTenant]
Names == {PanelTenant, SweepTenant}
Times == 1..MaxMinutes
Open == 0
Unknown == MaxMinutes + 1   \* the provider tells no end

RentalAssumptions ==
    /\ RecentWindow \in Nat /\ PruneAfter \in Nat /\ RecentWindow < PruneAfter
    /\ MaxMinutes \in Nat \ {0} /\ MaxHitches \in Nat
    /\ NoRental \notin Rentals /\ Sweep \notin Panels

IdleEvaluation == [pc |-> "idle", todo |-> {}, at |-> NoRental, out |-> {}, now |-> 0]

RentalTypeOK ==
    /\ ended \in [Rentals -> Open..Unknown]
    /\ slot \in [Names -> [Rentals -> {0} \cup Times]]
    /\ job \in [Evaluators -> [pc : {"idle", "look", "claim", "dispatch"}, todo : SUBSET Rentals,
                              at : Rentals \cup {NoRental}, out : SUBSET Rentals, now : {0} \cup Times]]
    /\ minute \in Times /\ hitches \in 0..MaxHitches
    /\ handed \in [Rentals -> 0..2]
    /\ lostAlerts \subseteq Rentals /\ excused \subseteq Rentals

RentalInit ==
    /\ ended = [r \in Rentals |-> Open]
    /\ slot = [n \in Names |-> [r \in Rentals |-> 0]]
    /\ job = [e \in Evaluators |-> IdleEvaluation]
    /\ minute = 1 /\ hitches = MaxHitches
    /\ handed = [r \in Rentals |-> 0]
    /\ lostAlerts = {} /\ excused = {}

-----------------------------------------------------------------------------
JobBecomes(e, j) == job' = [job EXCEPT ![e] = j]
Slot(e, r) == slot[Name[e]][r]
Hitch == hitches > 0 /\ hitches' = hitches - 1

(* A rental whose end is not known counts as recent. *)
IsRecent(r, t) ==
    /\ ended[r] # Open
    /\ ended[r] = Unknown \/ t <= ended[r] + RecentWindow

StaleSoon(r) ==  \* mutant: a slot is kept as long as a rental is recent, not longer
    {n \in Names : slot[n][r] # 0 /\ slot[n][r] + RecentWindow <= minute}
Stale(r) == {n \in Names : slot[n][r] # 0 /\ slot[n][r] + PruneAfter < minute}

(* The slots are pruned, and the history has been fetched.  That the pruning *)
(* is done once an hour makes no difference: an hour later is soon enough.   *)
Begin(e) ==
    /\ job[e] = IdleEvaluation
    /\ JobBecomes(e, [IdleEvaluation EXCEPT !.pc = "look", !.now = minute,
                              !.todo = {r \in Rentals : IsRecent(r, minute)}])
    /\ slot' = [n \in Names |-> [r \in Rentals |-> IF n \in Stale(r) THEN 0 ELSE slot[n][r]]]
    /\ excused' = excused \cup {r \in Rentals : ended[r] = Unknown /\ Stale(r) # {}}
    /\ UNCHANGED <<ended, minute, hitches, handed, lostAlerts>>

(* A rental that was told is skipped, and one that cannot be judged yet. *)
LookAtRental(e) ==
    /\ job[e].pc = "look"
    /\ IF job[e].todo = {} THEN JobBecomes(e, [job[e] EXCEPT !.pc = "dispatch"])
       ELSE \E r \in job[e].todo :
              \/ /\ Slot(e, r) = 0
                 /\ JobBecomes(e, [job[e] EXCEPT !.pc = "claim", !.todo = @ \ {r}, !.at = r])
              \/ JobBecomes(e, [job[e] EXCEPT !.todo = @ \ {r}])
    /\ UNCHANGED <<ended, slot, minute, hitches, handed, lostAlerts, excused>>

Claimed(e) == [job[e] EXCEPT !.pc = "look", !.at = NoRental, !.out = @ \cup {job[e].at}]
Passed(e) == [job[e] EXCEPT !.pc = "look", !.at = NoRental]
SlotTaken(e) == slot' = [slot EXCEPT ![Name[e]][job[e].at] = minute]

ClaimAnyway(e) ==  \* mutant: what was free at the look is claimed without another one
    /\ job[e].pc = "claim" /\ JobBecomes(e, Claimed(e)) /\ SlotTaken(e)
    /\ UNCHANGED <<ended, minute, hitches, handed, lostAlerts, excused>>

(* INSERT OR IGNORE. *)
ClaimSlot(e) ==
    /\ job[e].pc = "claim"
    /\ IF Slot(e, job[e].at) = 0 THEN JobBecomes(e, Claimed(e)) /\ SlotTaken(e)
                                 ELSE JobBecomes(e, Passed(e)) /\ UNCHANGED slot
    /\ UNCHANGED <<ended, minute, hitches, handed, lostAlerts, excused>>

(* A claim that cannot be stored lets the alert go. *)
ClaimFails(e) ==
    /\ job[e].pc = "claim" /\ Hitch
    /\ JobBecomes(e, Claimed(e)) /\ excused' = excused \cup {job[e].at}
    /\ UNCHANGED <<ended, slot, minute, handed, lostAlerts>>

DispatchNothing(e) ==  \* mutant: an evaluation tells nobody what it found
    /\ job[e].pc = "dispatch" /\ JobBecomes(e, IdleEvaluation)
    /\ UNCHANGED <<ended, slot, minute, hitches, handed, lostAlerts, excused>>

DispatchAlerts(e) ==
    /\ job[e].pc = "dispatch" /\ JobBecomes(e, IdleEvaluation)
    /\ handed' = [r \in Rentals |-> IF r \in job[e].out /\ handed[r] < 2 THEN handed[r] + 1
                                                                      ELSE handed[r]]
    /\ UNCHANGED <<ended, slot, minute, hitches, lostAlerts, excused>>

(* Judging a rental, or reading the settings of the dispatch, raises. *)
RaiseEvaluation(e) ==
    /\ job[e] # IdleEvaluation /\ Hitch /\ JobBecomes(e, IdleEvaluation)
    /\ lostAlerts' = lostAlerts \cup job[e].out
    /\ UNCHANGED <<ended, slot, minute, handed, excused>>

RentalCrash ==
    /\ Hitch /\ job' = [e \in Evaluators |-> IdleEvaluation]
    /\ lostAlerts' = lostAlerts \cup UNION {job[e].out : e \in Evaluators}
    /\ UNCHANGED <<ended, slot, minute, handed, excused>>

EndRental(r) ==
    /\ ended[r] = Open
    /\ \E t \in {minute, Unknown} : ended' = [ended EXCEPT ![r] = t]
    /\ UNCHANGED <<slot, job, minute, hitches, handed, lostAlerts, excused>>

(* An evaluation is over within two units of the clock. *)
RentalTick ==
    /\ minute < MaxMinutes /\ minute' = minute + 1
    /\ \A e \in Evaluators : job[e] # IdleEvaluation => job[e].now = minute
    /\ UNCHANGED <<ended, slot, job, hitches, handed, lostAlerts, excused>>

Evaluation(e) ==
    Begin(e) \/ LookAtRental(e) \/ ClaimSlot(e) \/ ClaimFails(e) \/ DispatchAlerts(e) \/ RaiseEvaluation(e)

RentalNext ==
    \/ \E e \in Evaluators : Evaluation(e)
    \/ \E r \in Rentals : EndRental(r)
    \/ RentalTick \/ RentalCrash

RentalSpec == RentalInit /\ [][RentalNext]_rentalVars

-----------------------------------------------------------------------------
(***************************************************************************)
(* Properties                                                              *)
(***************************************************************************)
(* The panel and the sweep tell a loss once between them; again only when a *)
(* claim could not be stored, or the end of the rental is not known and its *)
(* slot was pruned.                                                         *)
ToldOnce == \A r \in Rentals \ excused : handed[r] <= 1

(* A slot that is taken is of an alert that was handed on or is about to be, *)
(* unless a fault took it away.                                              *)
ClaimedIsTold ==
    \A n \in Names, r \in Rentals \ lostAlerts :
        slot[n][r] # 0 => handed[r] > 0 \/ \E e \in Evaluators : r \in job[e].out

(* A loss is neither told twice nor swallowed. *)
LossesAreTold == ToldOnce /\ ClaimedIsTold

(* "One alert per rental EVER", rental_performance.py:4251. *)
OneAlertPerRental == \A r \in Rentals : ended[r] # Unknown => handed[r] <= 1
=============================================================================
