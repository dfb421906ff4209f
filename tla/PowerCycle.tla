----------------------------- MODULE PowerCycle -----------------------------
(***************************************************************************)
(* Power outlets (axe_fleet/routes.py, services/tuya_adapter.py).          *)
(*                                                                         *)
(* A power cycle turns a miner's plug off, waits and turns it on, in a     *)
(* thread of its own whose task lives in memory; a plug command (on, off   *)
(* or toggle) acts once.  Both need a one-time confirmation, which a call  *)
(* without one issues for its target and parameters.  Tuya answers a call  *)
(* or the call is lost, and a lost call may have switched the plug.        *)
(***************************************************************************)
EXTENDS Integers

CONSTANTS
    Cycles,     \* requests for a power cycle
    Commands,   \* requests for a plug command
    Miner,      \* the miner of a cycle
    Plug,       \* the plug of a cycle or command
    Method,     \* "power_on", "power_off" or "toggle", of a command
    NoTask,     \* a cycle without a task
    MaxCrashes, \* bound: the restarts of the server
    MaxTokens   \* bound: the unused confirmations of a target

VARIABLES
    request,  \* where each request stands
    token,    \* how many unused confirmations there are for each target
    status,   \* of each cycle's task in _power_cycle_tasks
    on,       \* whether each plug is on
    read,     \* what a toggle read
    last,     \* the request that switched each plug last
    crashes

outletVars == <<request, token, status, on, read, last, crashes>>

Requests == Cycles \cup Commands
Plugs == {Plug[r] : r \in Requests}

OutletAssumptions ==
    /\ Cycles \cap Commands = {}
    /\ NoTask \notin Requests
    /\ \A m \in Commands : Method[m] \in {"power_on", "power_off", "toggle"}
    /\ {MaxCrashes, MaxTokens} \subseteq Nat

(* What a confirmation is bound to: target, command and parameters. *)
Target(r) == IF r \in Cycles THEN <<"power_cycle", Miner[r], Plug[r]>>
                             ELSE <<Method[r], Plug[r], Plug[r]>>
Targets == {Target(r) : r \in Requests}

Active == {"pending", "turning_off", "waiting", "turning_on"}
Statuses == Active \cup {"none", "completed", "failed"}

OutletInit ==
    /\ request = [r \in Requests |-> "idle"]
    /\ token = [t \in Targets |-> 0]
    /\ status = [c \in Cycles |-> "none"]
    /\ on = [p \in Plugs |-> TRUE]
    /\ read = [m \in Commands |-> FALSE]
    /\ last = [p \in Plugs |-> NoTask]
    /\ crashes = 0

-----------------------------------------------------------------------------
(***************************************************************************)
(* The requests                                                            *)
(***************************************************************************)
At(r, from, to) == request[r] = from /\ request' = [request EXCEPT ![r] = to]

(* _find_active_power_cycle: a task of the same miner or plug.             *)
ConflictBeforeOff(c) ==
    \E d \in Cycles : status[d] \in {"pending", "turning_off"}
                   /\ (Miner[d] = Miner[c] \/ Plug[d] = Plug[c])

Conflict(c) ==
    \E d \in Cycles : status[d] \in Active /\ (Miner[d] = Miner[c] \/ Plug[d] = Plug[c])

(* The first look of a cycle, in a critical section of its own. *)
Look(r) ==
    /\ IF r \in Cycles /\ Conflict(r) THEN At(r, "idle", "refused")
                                      ELSE At(r, "idle", "checked")
    /\ UNCHANGED <<token, status, on, read, last, crashes>>

(* _operational_confirmation_response: without a token, a new one is issued *)
(* each time and the caller asks again.                                     *)
Issue(r) ==
    /\ At(r, "checked", "idle")
    /\ token[Target(r)] < MaxTokens
    /\ token' = [token EXCEPT ![Target(r)] = @ + 1]
    /\ UNCHANGED <<status, on, read, last, crashes>>

(* With an unused one of its target, it is consumed.  One that is used, expired *)
(* or unknown is refused; one of another target is refused and consumed.        *)
Burn(t) == token[t] > 0 /\ token' = [token EXCEPT ![t] = @ - 1]

Confirm(r) ==
    /\ \/ At(r, "checked", "confirmed") /\ Burn(Target(r))
       \/ /\ At(r, "checked", "refused")
          /\ UNCHANGED token \/ \E t \in Targets \ {Target(r)} : Burn(t)
    /\ UNCHANGED <<status, on, read, last, crashes>>

(* The second look and the task, in one critical section; then the thread. *)
InsertUnchecked(c) ==
    /\ At(c, "confirmed", "done") /\ status' = [status EXCEPT ![c] = "pending"]
    /\ UNCHANGED <<token, on, read, last, crashes>>

Insert(c) ==
    /\ \/ /\ Conflict(c)
          /\ At(c, "confirmed", "refused")
          /\ UNCHANGED status
       \/ /\ ~Conflict(c)
          /\ At(c, "confirmed", "done")
          /\ status' = [status EXCEPT ![c] = "pending"]
    /\ UNCHANGED <<token, on, read, last, crashes>>

-----------------------------------------------------------------------------
(***************************************************************************)
(* Calls to Tuya                                                           *)
(***************************************************************************)
Switch(r, state) ==
    /\ on' = [on EXCEPT ![Plug[r]] = state]
    /\ last' = [last EXCEPT ![Plug[r]] = r]

NoSwitch == UNCHANGED <<on, last>>

(* Whether the call succeeded, and what it did: a refusal does nothing, a  *)
(* lost call may have done it.                                             *)
Call(r, state, ok) == Switch(r, state) \/ (~ok /\ NoSwitch)

Becomes(c, from, to) == status[c] = from /\ status' = [status EXCEPT ![c] = to]

BeginOff(c) ==
    /\ Becomes(c, "pending", "turning_off")
    /\ UNCHANGED <<request, token, on, read, last, crashes>>

TurnOff(c) ==
    /\ \E ok \in BOOLEAN :
          /\ Becomes(c, "turning_off", IF ok THEN "waiting" ELSE "failed")
          /\ Call(c, FALSE, ok)
    /\ UNCHANGED <<request, token, read, crashes>>

WaitOver(c) ==
    /\ Becomes(c, "waiting", "turning_on")
    /\ UNCHANGED <<request, token, on, read, last, crashes>>

TurnOnUnread(c) ==
    /\ \E ok \in BOOLEAN :
          /\ Becomes(c, "turning_on", "completed")
          /\ Call(c, TRUE, ok)
    /\ UNCHANGED <<request, token, read, crashes>>

TurnOn(c) ==
    /\ \E ok \in BOOLEAN :
          /\ Becomes(c, "turning_on", IF ok THEN "completed" ELSE "failed")
          /\ Call(c, TRUE, ok)
    /\ UNCHANGED <<request, token, read, crashes>>

(* A plug command; a toggle reads the state in a call of its own, which    *)
(* may fail.                                                               *)
ReadState(m) ==
    /\ Method[m] = "toggle"
    /\ \/ /\ At(m, "confirmed", "switching")
          /\ read' = [read EXCEPT ![m] = on[Plug[m]]]
       \/ At(m, "confirmed", "done") /\ UNCHANGED read
    /\ UNCHANGED <<token, status, on, last, crashes>>

PlugCommand(m) ==
    /\ IF Method[m] = "toggle" THEN At(m, "switching", "done") ELSE At(m, "confirmed", "done")
    /\ \E ok \in BOOLEAN :
          Call(m, IF Method[m] = "toggle" THEN ~read[m] ELSE Method[m] = "power_on", ok)
    /\ UNCHANGED <<token, status, read, crashes>>

(* A restart loses the tasks and the requests in flight, not the plugs and *)
(* not the confirmations.                                                  *)
ServerRestarts ==
    /\ crashes < MaxCrashes
    /\ crashes' = crashes + 1
    /\ status' = [c \in Cycles |-> IF status[c] \in Active THEN "none" ELSE status[c]]
    /\ request' = [r \in Requests |-> IF request[r] = "idle" THEN "idle" ELSE "done"]
    /\ UNCHANGED <<token, on, read, last>>

Run(c) == BeginOff(c) \/ TurnOff(c) \/ WaitOver(c) \/ TurnOn(c)

OutletNext ==
    \/ \E r \in Requests : Look(r) \/ Issue(r) \/ Confirm(r)
    \/ \E c \in Cycles : Insert(c) \/ Run(c)
    \/ \E m \in Commands : ReadState(m) \/ PlugCommand(m)
    \/ ServerRestarts

OutletSpec == OutletInit /\ [][OutletNext]_outletVars

-----------------------------------------------------------------------------
OutletTypeOK ==
    /\ request \in [Requests -> {"idle", "checked", "confirmed", "switching", "done", "refused"}]
    /\ token \in [Targets -> 0..MaxTokens]
    /\ status \in [Cycles -> Statuses]
    /\ on \in [Plugs -> BOOLEAN]
    /\ read \in [Commands -> BOOLEAN]
    /\ last \in [Plugs -> Requests \cup {NoTask}]
    /\ crashes \in 0..MaxCrashes

(* Two tasks never work on one miner or one plug, however their requests   *)
(* and confirmations interleave.                                           *)
OneCyclePerPlug ==
    \A c, d \in Cycles :
        c # d /\ status[c] \in Active /\ status[d] \in Active
            => Miner[c] # Miner[d] /\ Plug[c] # Plug[d]

(* While a cycle waits its plug is off, as its off said, unless somebody   *)
(* switched the plug by hand (or a cycle of before a restart was lost).    *)
DarkWhileWaiting ==
    \A c \in Cycles : status[c] = "waiting" /\ on[Plug[c]] => last[Plug[c]] \in Commands

(* A plug that a cycle left off is the work of a cycle still under way, of *)
(* one that reports failure, or of one that a restart lost.                *)
DarkIsExplained ==
    \A p \in Plugs :
        ~on[p] /\ last[p] \in Cycles => status[last[p]] \in Active \cup {"failed"} \/ crashes > 0

(* One cycle at a time has a plug, which is off for no other reason. *)
OutletsAreSafe == OneCyclePerPlug /\ DarkWhileWaiting /\ DarkIsExplained
=============================================================================
