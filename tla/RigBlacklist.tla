---------------------------- MODULE RigBlacklist ----------------------------
(***************************************************************************)
(* The rigs a tenant does not rent again, services/rental_performance.py:  *)
(* the manual list, the automatic one, the times of automatic exclusions   *)
(* and the ledger of accepted recommendations.  Each is one JSON value of  *)
(* the settings, which an operation loads and saves whole, one after the   *)
(* other and with no lock: the operator who bans or restores a rig, and    *)
(* the detail view and the sweep, which judge rigs on their own.           *)
(***************************************************************************)
EXTENDS Naturals, Sequences

CONSTANTS
    Rigs,
    Editors,      \* requests and the sweep
    MaxTime, MaxRequests, MaxMishaps   \* bounds

RigAssumptions == MaxTime \in Nat \ {0} /\ {MaxRequests, MaxMishaps} \subseteq Nat

VARIABLES
    lists,        \* the four settings
    newest,       \* the rentals on record: when the newest of a bad rig began, or 0
    change,       \* the operation of a thread, or none
    hour,
    chances,      \* requests and faults that may come
    \* history, of the rigs that are not doubted
    promised,     \* rigs whose ban was confirmed, and which were not restored
    excluded,     \* rigs that were excluded, with no rental that began since
    unsure        \* rigs at which two operations or a fault have met

notes == <<promised, excluded, unsure>>
rigVars == <<lists, newest, change, hour, chances, notes>>

ListKeys == {"manual", "auto", "since", "ledger"}
Unlisted == [manual |-> FALSE, auto |-> FALSE, since |-> 0, ledger |-> "none"]
Empty(key) == [r \in Rigs |-> Unlisted[key]]

PlanUnstamped ==  \* mutant: an exclusion does not note its time
    [ban |-> <<"manual", "ledger">>, restore |-> <<"manual", "auto", "ledger">>,
     judge |-> <<"history", "manual", "auto", "since">>, exclude |-> <<"auto", "ledger">>]
PlanHalfRestored ==  \* mutant: a restore forgets the automatic list
    [ban |-> <<"manual", "ledger">>, restore |-> <<"manual", "ledger">>,
     judge |-> <<"history", "manual", "auto", "since">>, exclude |-> <<"auto", "since", "ledger">>]

(* What an operation saves, key after key; a judge only looks at first. *)
Plan == [ban |-> <<"manual", "ledger">>,
         restore |-> <<"manual", "auto", "ledger">>,
         judge |-> <<"history", "manual", "auto", "since">>,
         exclude |-> <<"auto", "since", "ledger">>]

NoCopy == <<>>
Change(op, rig) == [op |-> op, rig |-> rig, step |-> 1, copy |-> NoCopy, ok |-> TRUE, at |-> 0]
NoChange == [op |-> "none"]

Key(task) == Plan[task.op][task.step]

RigTimes == 0..MaxTime
Values == [manual |-> BOOLEAN, auto |-> BOOLEAN, since |-> RigTimes,
           ledger |-> {"none", "manual", "auto", "revoked"}]
Copies(key) == {NoCopy} \cup (IF key \in ListKeys THEN [Rigs -> Values[key]] ELSE {})
Tasks(key) == [op : DOMAIN Plan, rig : Rigs, step : 1..4, copy : Copies(key), ok : BOOLEAN,
               at : RigTimes]

RigTypeOK ==
    /\ lists \in [manual : [Rigs -> Values.manual], auto : [Rigs -> Values.auto],
                  since : [Rigs -> Values.since], ledger : [Rigs -> Values.ledger]]
    /\ newest \in [Rigs -> RigTimes]
    /\ DOMAIN change = Editors
    /\ \A t \in Editors : change[t] # NoChange =>
         change[t] \in Tasks(Key(change[t])) /\ change[t].step <= Len(Plan[change[t].op])
    /\ hour \in 1..MaxTime /\ chances \in [requests : 0..MaxRequests, faults : 0..MaxMishaps]
    /\ {promised, excluded, unsure} \subseteq SUBSET Rigs

RigInit ==
    /\ lists = [key \in ListKeys |-> Empty(key)]
    /\ newest = [r \in Rigs |-> 0]
    /\ change = [t \in Editors |-> NoChange]
    /\ hour = 1 /\ chances = [requests |-> MaxRequests, faults |-> MaxMishaps]
    /\ promised = {} /\ excluded = {} /\ unsure = {}

-----------------------------------------------------------------------------
ChangeBecomes(t, task) == change' = [change EXCEPT ![t] = task]
AtWork(r) == {t \in Editors : change[t] # NoChange /\ change[t].rig = r}
Spend(what) == chances[what] > 0 /\ chances' = [chances EXCEPT ![what] = @ - 1]

Notes(p, e, d) == promised' = p \ d /\ excluded' = e \ d /\ unsure' = d
Doubt(rigs) == Notes(promised, excluded, unsure \cup rigs)
Fault(r) == Spend("faults") /\ Doubt({r})

BeginChange(t, op, rig) ==
    /\ change[t] = NoChange
    /\ ChangeBecomes(t, Change(op, rig))
    /\ op # "judge" => Spend("requests")
    /\ op = "judge" => UNCHANGED chances
    /\ Notes(IF op = "restore" THEN promised \ {rig} ELSE promised, excluded,
             IF AtWork(rig) = {} THEN unsure ELSE unsure \cup {rig})
    /\ UNCHANGED <<lists, newest, hour>>

GoesTwice(task, value) ==  \* mutant: the rental that led to an exclusion leads to another
    CASE Key(task) = "history" -> value # 0
      [] Key(task) \in {"manual", "auto"} -> ~value
      [] Key(task) = "since" -> value = 0 \/ task.at >= value

(* Bad enough, on no list, and with a rental that began after the last exclusion. *)
GoesOn(task, value) ==
    CASE Key(task) = "history" -> value # 0
      [] Key(task) \in {"manual", "auto"} -> ~value
      [] Key(task) = "since" -> value = 0 \/ task.at > value

Judged(task, value) ==
    IF ~GoesOn(task, value) THEN NoChange
    ELSE IF Key(task) = "history" THEN [task EXCEPT !.step = @ + 1, !.at = value]
    ELSE IF Key(task) = "since" THEN [Change("exclude", task.rig) EXCEPT !.at = hour]
    ELSE [task EXCEPT !.step = @ + 1]

(* _should_auto_exclude, a look at a time; a list that cannot be read is empty. *)
Judge(t) ==
    LET task == change[t] IN
    /\ task # NoChange /\ task.op = "judge"
    /\ \/ /\ ChangeBecomes(t, Judged(task, IF Key(task) = "history" THEN newest[task.rig]
                                                              ELSE lists[Key(task)][task.rig]))
          /\ UNCHANGED <<chances, notes>>
       \/ /\ Key(task) # "history" /\ ChangeBecomes(t, Judged(task, Unlisted[Key(task)]))
          /\ Fault(task.rig)
    /\ UNCHANGED <<lists, newest, hour>>

(* A banned rig is not banned twice, and what is not in the ledger is not revoked. *)
NothingToDo(task, copy) ==
    \/ task.op = "ban" /\ Key(task) = "manual" /\ copy[task.rig]
    \/ task.op = "restore" /\ Key(task) = "ledger" /\ copy[task.rig] = "none"

Loaded(t, copy) ==
    LET task == change[t] IN
    ChangeBecomes(t, IF NothingToDo(task, copy) THEN NoChange ELSE [task EXCEPT !.copy = copy])

Load(t) ==
    LET task == change[t] IN
    /\ task # NoChange /\ task.op # "judge" /\ task.copy = NoCopy
    /\ \/ /\ Loaded(t, lists[Key(task)])
          /\ Notes(IF task.op = "ban" /\ NothingToDo(task, lists[Key(task)])
                   THEN promised \cup {task.rig} ELSE promised, excluded, unsure)
          /\ UNCHANGED chances
       \/ Loaded(t, Empty(Key(task))) /\ Fault(task.rig)
    /\ UNCHANGED <<lists, newest, hour>>

Writes(task) ==
    CASE task.op = "ban" -> [manual |-> TRUE, ledger |-> "manual"]
      [] task.op = "restore" -> [manual |-> FALSE, auto |-> FALSE, ledger |-> "revoked"]
      [] task.op = "exclude" -> [auto |-> TRUE, since |-> task.at, ledger |-> "auto"]

(* The next key, or the end; no ledger for lists that were not saved, and a *)
(* ban that was not saved is over.                                          *)
NextKey(task, ok) ==
    LET next == [task EXCEPT !.step = @ + 1, !.copy = NoCopy, !.ok = ok] IN
    IF task.step = Len(Plan[task.op]) \/ (~ok /\ Key(next) = "ledger") THEN NoChange ELSE next

SaveKey(t) ==
    LET task == change[t]  key == Key(task) IN
    /\ task # NoChange /\ task.op # "judge" /\ task.copy # NoCopy
    /\ lists' = [lists EXCEPT ![key] = [task.copy EXCEPT ![task.rig] = Writes(task)[key]]]
    /\ ChangeBecomes(t, NextKey(task, task.ok))
    /\ Notes(IF task.op = "ban" THEN promised \cup {task.rig} ELSE promised,
             IF task.op = "exclude" /\ newest[task.rig] <= task.at THEN excluded \cup {task.rig}
                                                                ELSE excluded,
             unsure \cup {r \in Rigs \ {task.rig} : task.copy[r] # lists[key][r]})
    /\ UNCHANGED <<newest, hour, chances>>

SaveKeyFails(t) ==
    LET task == change[t] IN
    /\ task # NoChange /\ task.op # "judge" /\ task.copy # NoCopy
    /\ ChangeBecomes(t, NextKey(task, FALSE)) /\ Fault(task.rig)
    /\ UNCHANGED <<lists, newest, hour>>

(* A rental of the rig is ingested that leaves it bad; it began some time *)
(* after the one before it.  A rig that is not bad is not judged.         *)
Ingest(r) ==
    /\ \E start \in (newest[r] + 1)..hour :
         /\ newest' = [newest EXCEPT ![r] = start]
         /\ Notes(promised, IF start > lists.since[r] THEN excluded \ {r} ELSE excluded,
                  unsure)
    /\ UNCHANGED <<lists, change, hour, chances>>

RigTick ==
    /\ hour < MaxTime /\ hour' = hour + 1
    /\ UNCHANGED <<lists, newest, change, chances, notes>>

RigCrash ==
    /\ Spend("faults")
    /\ change' = [t \in Editors |-> NoChange]
    /\ Doubt({r \in Rigs : AtWork(r) # {}})
    /\ UNCHANGED <<lists, newest, hour>>

RigNext ==
    \/ \E t \in Editors :
         \/ \E op \in {"ban", "restore", "judge"}, rig \in Rigs : BeginChange(t, op, rig)
         \/ Judge(t) \/ Load(t) \/ SaveKey(t) \/ SaveKeyFails(t)
    \/ \E r \in Rigs : Ingest(r)
    \/ RigTick \/ RigCrash

RigSpec == RigInit /\ [][RigNext]_rigVars

-----------------------------------------------------------------------------
(***************************************************************************)
(* Properties.  A rig is doubted once an operation on it failed or met     *)
(* another one, or a list that another operation had changed was saved     *)
(* over it.                                                                *)
(***************************************************************************)
(* The lists and the ledger tell one story: a rig that is listed is an       *)
(* accepted recommendation which was not revoked, and the other way round;   *)
(* a ban that was confirmed lasts until the rig is restored.                 *)
ListsAgree ==
    /\ \A r \in Rigs \ unsure :
         AtWork(r) = {} =>
           ((lists.manual[r] \/ lists.auto[r]) <=> lists.ledger[r] \in {"manual", "auto"})
    /\ \A r \in promised : lists.manual[r]

(* A rig that was excluded before, and restored, is excluded again only for a *)
(* rental that began after the exclusion.                                     *)
ExclusionsAreNews ==
    [][\A r \in excluded \ unsure' : lists.auto'[r] => lists.auto[r]]_rigVars

(* What the operator and the sweep decide is kept, while they keep out of each *)
(* other's way.                                                                *)
RigDecisionsAreKept == []ListsAgree /\ ExclusionsAreNews
=============================================================================
