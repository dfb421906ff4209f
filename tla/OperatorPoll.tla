---------------------------- MODULE OperatorPoll ----------------------------
(***************************************************************************)
(* The poll of the operator's wallet in app.py: poll_once and _do_poll,    *)
(* run by a loop and once more after every change of the wallet, under a   *)
(* lock that a watchdog replaces when a poll takes too long; and           *)
(* api_set_address, which changes the wallet while a poll may be under way.*)
(* A poll asks for one wallet and writes what it was told much later: the  *)
(* history in SQLite, the baseline of the share timeline, the offline      *)
(* alarm and the snapshot on the screen.                                   *)
(***************************************************************************)
EXTENDS Naturals, FiniteSets

CONSTANTS
    Threads, Loop,   \* Loop is poll_loop, the others are started by a change
    Wallets, NoWallet,
    Configured,      \* the wallet of the environment, for want of a saved one
    MaxSwitches, MaxHangs   \* bounds

VARIABLES
    address, saved,  \* BTC_ADDRESS, and its row in the settings
    poller,          \* what every thread does
    lock, clock,     \* _poll_lock, and _poll_start_ts as the watchdog sees it
    switch, changes, \* the change of wallet in progress, and how many may come
    history,         \* wallets that have rows in the chart tables
    baseline,        \* timeline_state: whose last share was seen
    found,           \* the share events: does a share follow one of its wallet ("own")?
    alarm,           \* whose worker was present, and was its absence told?
    alerts,          \* the offline alerts: [of, after]
    screen,          \* latest_snapshot: whose worker it shows
    mixed,           \* history: a change met a poll, or a crash a change
    kept             \* history: wallets whose rows stayed when another was to be watched

pollVars == <<address, saved, poller, lock, clock, switch, changes, history, baseline, found, alarm,
                   alerts, screen, mixed, kept>>

PollAssumptions ==
    /\ Loop \in Threads /\ NoWallet \notin Wallets /\ Configured \in Wallets
    /\ {MaxSwitches, MaxHangs} \subseteq Nat

Seen == [of : Wallets \cup {NoWallet}, here : BOOLEAN]
Nothing == [of |-> NoWallet, here |-> FALSE]
Thread == [pc : {"idle", "spawned", "ask", "persist", "alert", "publish", "leave"}, data : Seen]
Sleeping == [pc |-> "idle", data |-> Nothing]
Last == [primed : BOOLEAN, of : Wallets \cup {NoWallet}]
Unprimed == [primed |-> FALSE, of |-> NoWallet]
NoAlarm == [present |-> NoWallet, raised |-> FALSE]

PollTypeOK ==
    /\ address \in Wallets /\ saved \in Wallets \cup {NoWallet}
    /\ poller \in [Threads -> Thread]
    /\ lock \in [gen : 0..MaxHangs, held : BOOLEAN]
    /\ clock \in {"idle", "running", "overdue"}
    /\ switch \in {"none", "reset", "clear"} /\ changes \in 0..MaxSwitches
    /\ history \subseteq Wallets
    /\ baseline \in Last
    /\ found \subseteq {"own", "foreign"}
    /\ alarm \in [present : Wallets \cup {NoWallet}, raised : BOOLEAN]
    /\ alerts \subseteq [of : Wallets, after : Wallets]
    /\ screen \in Wallets \cup {NoWallet}
    /\ mixed \in BOOLEAN
    /\ kept \subseteq Wallets

(* _load_persisted_address: without a saved wallet, and when the settings cannot be *)
(* read, the wallet of the environment is watched.                                  *)
Loadable == {saved, Configured} \ {NoWallet}

PollInit ==
    /\ saved \in Wallets \cup {NoWallet} /\ address \in Loadable
    /\ poller = [t \in Threads |-> Sleeping]
    /\ lock = [gen |-> 0, held |-> FALSE] /\ clock = "idle"
    /\ switch = "none" /\ changes = MaxSwitches
    /\ history = {}
    /\ baseline = Unprimed /\ found = {}
    /\ alarm = NoAlarm /\ alerts = {}
    /\ screen = NoWallet
    /\ mixed = FALSE /\ kept = {}

PollGoes(t, pc) == poller' = [poller EXCEPT ![t].pc = pc]
WithLock(t) == poller[t].pc \in {"ask", "persist", "alert", "publish", "leave"}

-----------------------------------------------------------------------------
(***************************************************************************)
(* poll_once: the watchdog, the lock and the way out                       *)
(***************************************************************************)
(* The lock as the watchdog leaves it. *)
Watched == IF clock = "overdue" THEN [gen |-> lock.gen + 1, held |-> FALSE] ELSE lock

MayEnter(t) ==
    /\ poller[t].pc = IF t = Loop THEN "idle" ELSE "spawned"
    /\ clock = "overdue" => lock.gen < MaxHangs

Locks(t) ==
    /\ lock' = [Watched EXCEPT !.held = TRUE]
    /\ clock' = "running"
    /\ poller' = [poller EXCEPT ![t] = [Sleeping EXCEPT !.pc = "ask"]]
    /\ mixed' = (mixed \/ switch = "reset")
    /\ UNCHANGED <<address, saved, switch, changes, history, baseline, found, alarm, alerts,
                   screen, kept>>

EnterUnlocked(t) ==  \* mutant: the lock is taken without being asked for
    MayEnter(t) /\ Locks(t)

Enter(t) == MayEnter(t) /\ ~Watched.held /\ Locks(t)

(* Another poll is running: a poll after a change is not made up for. *)
Skip(t) ==
    /\ MayEnter(t) /\ Watched.held /\ t # Loop
    /\ PollGoes(t, "idle")
    /\ UNCHANGED <<address, saved, lock, clock, switch, changes, history, baseline, found, alarm,
                   alerts, screen, mixed, kept>>

(* A poll is under way for more than _POLL_HANG_TIMEOUT. *)
Hang ==
    /\ clock = "running" /\ clock' = "overdue"
    /\ UNCHANGED <<address, saved, poller, lock, switch, changes, history, baseline, found, alarm,
                   alerts, screen, mixed, kept>>

LeaveHolding(t) ==  \* mutant: the lock is not released
    /\ poller[t].pc = "leave"
    /\ poller' = [poller EXCEPT ![t] = Sleeping]
    /\ UNCHANGED <<address, saved, lock, clock, switch, changes, history, baseline, found, alarm,
                   alerts, screen, mixed, kept>>

(* finally: whatever lock is in the variable by now; an open one is an error, *)
(* and the clock is left as it is.                                            *)
LeavePoll(t) ==
    /\ poller[t].pc = "leave"
    /\ poller' = [poller EXCEPT ![t] = Sleeping]
    /\ lock' = [lock EXCEPT !.held = FALSE]
    /\ clock' = IF lock.held THEN "idle" ELSE clock
    /\ UNCHANGED <<address, saved, switch, changes, history, baseline, found, alarm,
                   alerts, screen, mixed, kept>>

-----------------------------------------------------------------------------
(***************************************************************************)
(* _do_poll                                                                *)
(***************************************************************************)
(* The pool is asked for the wallet of the moment; a worker that is not in  *)
(* its answer, and a request that fails, look the same.                     *)
Ask(t) ==
    /\ poller[t].pc = "ask"
    /\ \E here \in BOOLEAN :
         poller' = [poller EXCEPT ![t].pc = "persist",
             ![t].data = [of |-> address, here |-> here]]
    /\ UNCHANGED <<address, saved, lock, clock, switch, changes, history, baseline, found, alarm,
                   alerts, screen, mixed, kept>>

(* The share timeline: the first poll takes the baseline, a later one reports *)
(* what differs from it, as what another wallet submitted does.               *)
News(seen) ==
    IF ~baseline.primed THEN {FALSE} ELSE IF seen.of = baseline.of THEN BOOLEAN ELSE {TRUE}
Event(seen) == IF baseline.of \in {seen.of, NoWallet} THEN "own" ELSE "foreign"

(* The rows of one transaction; a disk that fails costs them, and the baseline *)
(* has moved on.                                                               *)
Persist(t) ==
    LET seen == poller[t].data IN
    /\ poller[t].pc = "persist"
    /\ baseline' = IF seen.here THEN [primed |-> TRUE, of |-> seen.of]
                   ELSE [baseline EXCEPT !.primed = TRUE]
    /\ \/ UNCHANGED <<history, found>>
       \/ /\ seen.here
          /\ history' = history \cup {seen.of}
          /\ \E new \in News(seen) :
                found' = found \cup (IF new THEN {Event(seen)} ELSE {})
    /\ PollGoes(t, "alert")
    /\ UNCHANGED <<address, saved, lock, clock, switch, changes, alarm,
                   alerts, screen, mixed, kept>>

(* An outage is told once, and again after the worker was back. *)
Alert(t) ==
    LET seen == poller[t].data
        lost == ~seen.here /\ alarm.present # NoWallet /\ ~alarm.raised IN
    /\ poller[t].pc = "alert"
    /\ alarm' = IF seen.here THEN [present |-> seen.of, raised |-> FALSE]
                ELSE [alarm EXCEPT !.raised = @ \/ lost]
    /\ alerts' = alerts \cup (IF lost THEN {[of |-> seen.of, after |-> alarm.present]} ELSE {})
    /\ PollGoes(t, "publish")
    /\ UNCHANGED <<address, saved, lock, clock, switch, changes, history, baseline, found,
                   screen, mixed, kept>>

(* latest_snapshot: with the address of now and the worker that was asked for. *)
Publish(t) ==
    /\ poller[t].pc = "publish"
    /\ screen' = IF poller[t].data.here THEN poller[t].data.of ELSE NoWallet
    /\ PollGoes(t, "leave")
    /\ UNCHANGED <<address, saved, lock, clock, switch, changes, history, baseline, found, alarm,
                   alerts, mixed, kept>>

-----------------------------------------------------------------------------
(***************************************************************************)
(* api_set_address, the worker at the pool, and restarts                   *)
(***************************************************************************)
(* The wallet is written to the settings and to the global. *)
Save(w) ==
    /\ switch = "none" /\ changes > 0 /\ w # address
    /\ address' = w /\ saved' = w
    /\ switch' = "reset" /\ changes' = changes - 1
    /\ mixed' = (mixed \/ \E t \in Threads : WithLock(t))
    /\ UNCHANGED <<poller, lock, clock, history, baseline, found, alarm, alerts,
                   screen, kept>>

ResetPrimed ==  \* mutant: the timeline keeps its baseline
    /\ switch = "reset" /\ switch' = "clear"
    /\ screen' = NoWallet
    /\ alarm' = NoAlarm
    /\ UNCHANGED <<address, saved, poller, lock, clock, changes, history, baseline, found,
                   alerts, mixed, kept>>

(* _reset_session_state *)
Reset ==
    /\ switch = "reset" /\ switch' = "clear"
    /\ screen' = NoWallet
    /\ baseline' = Unprimed
    /\ alarm' = NoAlarm
    /\ UNCHANGED <<address, saved, poller, lock, clock, changes, history, found, alerts,
                   mixed, kept>>

ClearNothing ==  \* mutant: only the memory is reset
    /\ switch = "clear" /\ switch' = "none"
    /\ \E t \in Threads \ {Loop} : poller[t].pc = "idle" /\ PollGoes(t, "spawned")
    /\ UNCHANGED <<address, saved, lock, clock, changes, history, baseline, found, alarm,
                   alerts, screen, mixed, kept>>

(* _clear_wallet_scoped_history, and a thread to poll at once.  The DELETE of any of *)
(* the tables may fail, which is only logged: its rows stay.                         *)
Clear ==
    /\ switch = "clear" /\ switch' = "none"
    /\ history' \in SUBSET history /\ kept' = history'
    /\ found' \in {{}, found}
    /\ \E t \in Threads \ {Loop} : poller[t].pc = "idle" /\ PollGoes(t, "spawned")
    /\ UNCHANGED <<address, saved, lock, clock, changes, baseline, alarm,
                   alerts, screen, mixed>>

(* The wallet and the history are on disk; the rest starts anew.  When the wallet  *)
(* cannot be loaded, or can be again, another is watched and nothing is deleted.   *)
Restart ==
    /\ changes > 0 /\ changes' = changes - 1   \* a restart counts as a change
    /\ address' \in Loadable
    /\ kept' = IF address' = address THEN kept ELSE history
    /\ poller' = [t \in Threads |-> Sleeping]
    /\ lock' = [lock EXCEPT !.held = FALSE] /\ clock' = "idle"
    /\ mixed' = (mixed \/ switch # "none") /\ switch' = "none"
    /\ baseline' = Unprimed
    /\ alarm' = NoAlarm
    /\ screen' = NoWallet
    /\ UNCHANGED <<saved, history, found, alerts>>

-----------------------------------------------------------------------------
PollStep(t) == Enter(t) \/ Skip(t) \/ Ask(t) \/ Persist(t) \/ Alert(t) \/ Publish(t) \/ LeavePoll(t)

PollNext ==
    \/ \E t \in Threads : PollStep(t)
    \/ Hang
    \/ \E w \in Wallets : Save(w)
    \/ Reset \/ Clear
    \/ Restart

PollSpec == PollInit /\ [][PollNext]_pollVars

PollFairness ==
    /\ \A t \in Threads : WF_pollVars(PollStep(t))
    /\ WF_pollVars(Reset \/ Clear)

FairPollSpec == PollSpec /\ PollFairness

-----------------------------------------------------------------------------
(***************************************************************************)
(* Properties                                                              *)
(***************************************************************************)
(* "Delete per-wallet chart history so a wallet switch never mixes data": what the *)
(* charts show is of the wallet that is watched, but for rows whose DELETE failed  *)
(* when it was chosen, or that a restart with another wallet found.                *)
HistoryIsOfTheWallet == switch = "none" => history \subseteq {address} \cup kept

(* Polls are alone as long as none takes too long.  (Whoever restarts has *)
(* killed them.)                                                           *)
OnePollUnlessHung ==
    lock.gen = 0 => Cardinality({t \in Threads : WithLock(t)}) <= 1

(* A change that meets no poll mixes nothing by itself: no row of another wallet *)
(* is in the charts but those that could not be deleted, no share is found after *)
(* one of another wallet, and no worker is missed that was another wallet's.     *)
WalletsAreApart ==
    ~mixed => /\ HistoryIsOfTheWallet
              /\ "foreign" \notin found
              /\ \A a \in alerts : a.after = a.of

(* Polls do not overlap and wallets do not mix. *)
OperatorSeesOneWallet == OnePollUnlessHung /\ WalletsAreApart

(* Once no more changes come, the screen shows the wallet that is watched. *)
ScreenFollowsWallet == <>[](screen \in {address, NoWallet})
=============================================================================
