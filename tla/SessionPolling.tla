---------------------------- MODULE SessionPolling ----------------------------
(***************************************************************************)
(* The sessions of connected wallets: services/session_manager.py keeps    *)
(* them, the pool of services/user_polling.py polls them, and              *)
(* /api/connect-wallet, /api/session-snapshot and /api/disconnect of       *)
(* app.py use both.  What a provider reports is a version of the world; in *)
(* every second one the wallet's worker is missing.                        *)
(***************************************************************************)
EXTENDS Integers, FiniteSets, Sequences

CONSTANTS
    Sessions,    \* wallets to connect, each once
    PoolThreads, \* threads of the pool
    Nobody,      \* the session of an idle thread
    Ttl,         \* SESSION_TTL, in ticks
    MaxWorld     \* bound on the versions of the world

VARIABLES
    world,       \* the newest version
    user,        \* how far the user of a session is
    call,        \* poll_now of the session's connect call
    store,       \* SessionManager._sessions and the snapshot of each, -1 is empty
    idle,        \* ticks since last_activity
    workers,     \* _session_workers
    registered,  \* PollWorkerPool._sessions
    heap,        \* entries of the pool's heap; they are due whenever they are popped
    ready,       \* the ready queue
    polling,     \* threads of the pool
    prev,        \* _prev_snapshot
    noticed,     \* whether worker_offline is in _alert_seen
    alerted,     \* history: the version of every offline alert
    apart        \* history: no poll of the pool overlapped the one of the connect call

sessionVars == <<world, user, call, store, idle, workers, registered, heap, ready, polling,
                 prev, noticed, alerted, apart>>

Gone == -2
Absent == -3
Free == [pc |-> "free", sid |-> Nobody, seen |-> -1]

SessionAssumptions ==
    /\ Nobody \notin Sessions
    /\ Ttl \in Nat /\ MaxWorld \in Nat
    /\ IsFiniteSet(Sessions) /\ IsFiniteSet(PoolThreads)

Online(version) == version % 2 = 0

SessionTypeOK ==
    /\ world \in 0..MaxWorld
    /\ user \in [Sessions -> {"new", "connecting", "connected", "failed", "leaving", "stopped", "left"}]
    /\ call \in [Sessions -> [pc : {"none", "fetch", "fetched", "alerted"}, seen : -1..MaxWorld]]
    /\ store \in [Sessions -> {Absent, Gone} \cup -1..MaxWorld]
    /\ idle \in [Sessions -> 0..Ttl + 1]
    /\ workers \subseteq Sessions /\ registered \subseteq Sessions
    /\ heap \in [Sessions -> Nat]
    /\ ready \in Seq(Sessions)
    /\ polling \in [PoolThreads -> [pc : {"free", "fetch", "fetched", "alerted", "done"},
                               sid : Sessions \cup {Nobody}, seen : -1..MaxWorld]]
    /\ prev \in [Sessions -> -1..MaxWorld]
    /\ noticed \in [Sessions -> BOOLEAN]
    /\ alerted \in [Sessions -> Seq(0..MaxWorld)]
    /\ apart \in [Sessions -> BOOLEAN]

SessionInit ==
    /\ world = 0
    /\ user = [s \in Sessions |-> "new"]
    /\ call = [s \in Sessions |-> [pc |-> "none", seen |-> -1]]
    /\ store = [s \in Sessions |-> Absent]
    /\ idle = [s \in Sessions |-> 0]
    /\ workers = {} /\ registered = {}
    /\ heap = [s \in Sessions |-> 0]
    /\ ready = <<>>
    /\ polling = [t \in PoolThreads |-> Free]
    /\ prev = [s \in Sessions |-> -1]
    /\ noticed = [s \in Sessions |-> FALSE]
    /\ alerted = [s \in Sessions |-> <<>>]
    /\ apart = [s \in Sessions |-> TRUE]

poolVars == <<workers, registered, heap, ready>>
alertVars == <<prev, noticed, alerted>>

-----------------------------------------------------------------------------
(***************************************************************************)
(* The session manager, each operation under its lock                      *)
(***************************************************************************)
Stored(s) == store[s] \notin {Absent, Gone}
Expired(s) == idle[s] > Ttl

Touch(s) == idle' = [idle EXCEPT ![s] = 0]

PublishAnyway(s, version) ==  \* mutant: the session is written whether it is there or not
    /\ store' = [store EXCEPT ![s] = version]
    /\ Touch(s)

(* update_snapshot: a session that has been removed is not touched, but one *)
(* that has only expired is renewed.                                        *)
PublishSession(s, version) ==
    IF Stored(s)
    THEN store' = [store EXCEPT ![s] = version] /\ Touch(s)
    ELSE UNCHANGED <<store, idle>>

(* get_session and get_snapshot: an expired session is removed.  A found one *)
(* is renewed.                                                               *)
Found(s) == Stored(s) /\ ~Expired(s)

Get(s) ==
    IF Found(s)
    THEN Touch(s) /\ UNCHANGED store
    ELSE /\ store' = [store EXCEPT ![s] = IF @ = Absent THEN @ ELSE Gone]
         /\ UNCHANGED idle

(* _cleanup_task, get_all_sessions and active_count *)
Cleanup ==
    /\ \E s \in Sessions : Stored(s) /\ Expired(s)
    /\ store' = [s \in Sessions |-> IF Stored(s) /\ Expired(s) THEN Gone ELSE store[s]]
    /\ UNCHANGED <<world, user, call, idle, poolVars, polling, alertVars, apart>>

-----------------------------------------------------------------------------
(***************************************************************************)
(* One poll: _build_snapshot, _dispatch_tenant_alerts, update_snapshot     *)
(***************************************************************************)
DispatchUndeduped(s, version) ==  \* mutant: the baseline is only kept while the worker is there
    /\ prev' = [prev EXCEPT ![s] = IF Online(version) THEN version ELSE @]
    /\ IF ~Online(version) /\ prev[s] >= 0 /\ Online(prev[s])
       THEN alerted' = [alerted EXCEPT ![s] = Append(@, version)] /\ UNCHANGED noticed
       ELSE UNCHANGED <<noticed, alerted>>

(* Under the worker's _alert_lock: the baseline always advances, an offline *)
(* alert needs a baseline with the worker and no signature.                 *)
DispatchEvents(s, version) ==
    /\ prev' = [prev EXCEPT ![s] = version]
    /\ IF Online(version)
       THEN noticed' = [noticed EXCEPT ![s] = FALSE] /\ UNCHANGED alerted
       ELSE IF ~noticed[s] /\ prev[s] >= 0 /\ Online(prev[s])
       THEN /\ noticed' = [noticed EXCEPT ![s] = TRUE]
            /\ alerted' = [alerted EXCEPT ![s] = Append(@, version)]
       ELSE UNCHANGED <<noticed, alerted>>

-----------------------------------------------------------------------------
(***************************************************************************)
(* The pool                                                                *)
(***************************************************************************)
Register(s) ==
    /\ registered' = registered \cup {s}
    /\ heap' = [heap EXCEPT ![s] = @ + 1]

(* _scheduler_loop: a due entry of a session that is gone is dropped. *)
Schedule(s) ==
    /\ heap[s] > 0
    /\ heap' = [heap EXCEPT ![s] = @ - 1]
    /\ ready' = IF s \in registered THEN Append(ready, s) ELSE ready
    /\ UNCHANGED <<world, user, call, store, idle, workers, registered, polling, alertVars, apart>>

InConnect(s) == user[s] = "connecting"

TakeAndPutBack(t) ==  \* mutant: a session is scheduled again when its poll begins
    /\ polling[t].pc = "free"
    /\ ready # <<>>
    /\ ready' = Tail(ready)
    /\ polling' = [polling EXCEPT ![t] = [pc |-> "fetch", sid |-> Head(ready), seen |-> -1]]
    /\ heap' = IF heap[Head(ready)] = 0 THEN [heap EXCEPT ![Head(ready)] = 1] ELSE heap
    /\ apart' = [apart EXCEPT ![Head(ready)] = @ /\ ~InConnect(Head(ready))]
    /\ UNCHANGED <<world, user, call, store, idle, workers, registered, alertVars>>

Take(t) ==
    /\ polling[t].pc = "free"
    /\ ready # <<>>
    /\ ready' = Tail(ready)
    /\ IF Head(ready) \in registered
       THEN /\ polling' = [polling EXCEPT ![t] = [pc |-> "fetch", sid |-> Head(ready), seen |-> -1]]
            /\ apart' = [apart EXCEPT ![Head(ready)] = @ /\ ~InConnect(Head(ready))]
       ELSE UNCHANGED <<polling, apart>>
    /\ UNCHANGED <<world, user, call, store, idle, workers, registered, heap, alertVars>>

PoolFetch(t) ==
    /\ polling[t].pc = "fetch"
    /\ polling' = [polling EXCEPT ![t].pc = "fetched", ![t].seen = world]
    /\ UNCHANGED <<world, user, call, store, idle, poolVars, alertVars, apart>>

FetchFailsForGood(t) ==  \* mutant: a session whose poll fails is given up
    /\ polling[t].pc = "fetch"
    /\ polling' = [polling EXCEPT ![t].pc = "done"]
    /\ registered' = registered \ {polling[t].sid}
    /\ UNCHANGED <<world, user, call, store, idle, workers, heap, ready, alertVars, apart>>

FetchFailsUnscheduled(t) ==  \* mutant: a poll that fails is not scheduled again
    /\ polling[t].pc = "fetch"
    /\ polling' = [polling EXCEPT ![t] = Free]
    /\ UNCHANGED <<world, user, call, store, idle, poolVars, alertVars, apart>>

PoolFetchFails(t) ==
    /\ polling[t].pc = "fetch"
    /\ polling' = [polling EXCEPT ![t].pc = "done"]
    /\ UNCHANGED <<world, user, call, store, idle, poolVars, alertVars, apart>>

PoolDispatch(t) ==
    /\ polling[t].pc = "fetched"
    /\ DispatchEvents(polling[t].sid, polling[t].seen)
    /\ polling' = [polling EXCEPT ![t].pc = "alerted"]
    /\ UNCHANGED <<world, user, call, store, idle, poolVars, apart>>

PoolPublish(t) ==
    /\ polling[t].pc = "alerted"
    /\ PublishSession(polling[t].sid, polling[t].seen)
    /\ polling' = [polling EXCEPT ![t].pc = "done"]
    /\ UNCHANGED <<world, user, call, poolVars, alertVars, apart>>

Reschedule(t) ==
    /\ polling[t].pc = "done"
    /\ heap' = IF polling[t].sid \in registered THEN [heap EXCEPT ![polling[t].sid] = @ + 1] ELSE heap
    /\ polling' = [polling EXCEPT ![t] = Free]
    /\ UNCHANGED <<world, user, call, store, idle, workers, registered, ready, alertVars, apart>>

-----------------------------------------------------------------------------
(***************************************************************************)
(* The requests of the user                                                *)
(***************************************************************************)
(* Session, worker and heap entry exist before anyone else knows the session. *)
ConnectSession(s) ==
    /\ user[s] = "new"
    /\ user' = [user EXCEPT ![s] = "connecting"]
    /\ store' = [store EXCEPT ![s] = -1]
    /\ Touch(s)
    /\ workers' = workers \cup {s}
    /\ Register(s)
    /\ call' = [call EXCEPT ![s].pc = "fetch"]
    /\ UNCHANGED <<world, ready, polling, alertVars, apart>>

CallFetch(s) ==
    /\ call[s].pc = "fetch"
    /\ call' = [call EXCEPT ![s] = [pc |-> "fetched", seen |-> world]]
    /\ UNCHANGED <<world, user, store, idle, poolVars, polling, alertVars, apart>>

(* The request ends with an error: its session stays, and nobody has its id. *)
CallFails(s) ==
    /\ call[s].pc = "fetch"
    /\ call' = [call EXCEPT ![s].pc = "none"]
    /\ user' = [user EXCEPT ![s] = "failed"]
    /\ UNCHANGED <<world, store, idle, poolVars, polling, alertVars, apart>>

CallDispatch(s) ==
    /\ call[s].pc = "fetched"
    /\ DispatchEvents(s, call[s].seen)
    /\ call' = [call EXCEPT ![s].pc = "alerted"]
    /\ UNCHANGED <<world, user, store, idle, poolVars, polling, apart>>

CallPublish(s) ==
    /\ call[s].pc = "alerted"
    /\ PublishSession(s, call[s].seen)
    /\ call' = [call EXCEPT ![s] = [pc |-> "none", seen |-> -1]]
    /\ user' = [user EXCEPT ![s] = "connected"]
    /\ UNCHANGED <<world, poolVars, polling, alertVars, apart>>

(* /api/session-snapshot *)
Read(s) ==
    /\ user[s] = "connected"
    /\ Get(s)
    /\ UNCHANGED <<world, user, call, poolVars, polling, alertVars, apart>>

(* /api/disconnect answers 404 when the session has expired, and stops nothing. *)
LeaveSession(s) ==
    /\ user[s] = "connected"
    /\ Get(s)
    /\ user' = IF Found(s) THEN [user EXCEPT ![s] = "leaving"] ELSE user
    /\ UNCHANGED <<world, call, poolVars, polling, alertVars, apart>>

LeaveQuietly(s) ==  \* mutant: the worker is forgotten without being unregistered
    /\ user[s] = "leaving"
    /\ workers' = workers \ {s}
    /\ user' = [user EXCEPT ![s] = "stopped"]
    /\ UNCHANGED <<world, call, store, idle, registered, heap, ready, polling, alertVars, apart>>

StopWorker(s) ==
    /\ user[s] = "leaving"
    /\ workers' = workers \ {s}
    /\ registered' = IF s \in workers THEN registered \ {s} ELSE registered
    /\ user' = [user EXCEPT ![s] = "stopped"]
    /\ UNCHANGED <<world, call, store, idle, heap, ready, polling, alertVars, apart>>

Destroy(s) ==
    /\ user[s] = "stopped"
    /\ store' = [store EXCEPT ![s] = Gone]
    /\ user' = [user EXCEPT ![s] = "left"]
    /\ UNCHANGED <<world, call, idle, poolVars, polling, alertVars, apart>>

-----------------------------------------------------------------------------
WorldMoves ==
    /\ world < MaxWorld
    /\ world' = world + 1
    /\ UNCHANGED <<user, call, store, idle, poolVars, polling, alertVars, apart>>

SessionTick ==
    /\ \E s \in Sessions : Stored(s) /\ ~Expired(s)
    /\ idle' = [s \in Sessions |-> IF Stored(s) /\ ~Expired(s) THEN idle[s] + 1 ELSE idle[s]]
    /\ UNCHANGED <<world, user, call, store, poolVars, polling, alertVars, apart>>

PoolStep(t) ==
    Take(t) \/ PoolFetch(t) \/ PoolFetchFails(t) \/ PoolDispatch(t) \/ PoolPublish(t) \/ Reschedule(t)

CallStep(s) == CallFetch(s) \/ CallFails(s) \/ CallDispatch(s) \/ CallPublish(s)

SessionNext ==
    \/ \E t \in PoolThreads : PoolStep(t)
    \/ \E s \in Sessions :
          \/ CallStep(s) \/ Schedule(s)
          \/ ConnectSession(s) \/ Read(s) \/ LeaveSession(s) \/ StopWorker(s) \/ Destroy(s)
    \/ Cleanup \/ WorldMoves \/ SessionTick

SessionSpec == SessionInit /\ [][SessionNext]_sessionVars

(* The threads of the pool and of the requests run on; a fetch has a timeout. *)
SessionFairness ==
    /\ \A t \in PoolThreads : WF_sessionVars(PoolStep(t))
    /\ \A s \in Sessions : WF_sessionVars(CallStep(s)) /\ WF_sessionVars(Schedule(s))
                           /\ WF_sessionVars(StopWorker(s) \/ Destroy(s))

SessionFairSpec == SessionSpec /\ SessionFairness

-----------------------------------------------------------------------------
(***************************************************************************)
(* Properties                                                              *)
(***************************************************************************)
Tokens(s) ==
    heap[s] + Cardinality({i \in DOMAIN ready : ready[i] = s})
            + Cardinality({t \in PoolThreads : polling[t].sid = s})

(* A registered session is due, ready or in one poll of the pool, and in one  *)
(* of them only: it is neither forgotten nor polled twice at a time.          *)
OnePollPerSession ==
    \A s \in Sessions : Tokens(s) <= 1 /\ (s \in registered => Tokens(s) = 1)

(* A session that was destroyed or has been removed does not come back with *)
(* the answer of a poll that was under way.                                 *)
GoneStaysGone ==
    [][\A s \in Sessions : store[s] = Gone => store'[s] = Gone]_sessionVars

(* A session that can be found is polled, unless its user is leaving. *)
FoundMeansPolled ==
    \A s \in Sessions :
        Found(s) /\ user[s] \in {"connecting", "connected"} => s \in registered

Increasing(versions) == \A i, j \in DOMAIN versions : i < j => versions[i] < versions[j]

(* "An event never fires twice per worker": the offline alerts of a session    *)
(* are about different outages, however slow its polls are, provided that the  *)
(* pool did not poll it during its connect call.                               *)
EventsFireOnceApart == \A s \in Sessions : apart[s] => Increasing(alerted[s])

(* A user who has left is no longer polled, once the poll under way is over. *)
LeavingEndsPolling ==
    \A s \in Sessions : user[s] = "leaving" ~> [](Tokens(s) = 0)

(* A registered session is polled again and again, whatever the others do. *)
PolledForever ==
    \A s \in Sessions :
        [](s \in registered => <>(s \notin registered \/ \E t \in PoolThreads : polling[t].sid = s))

(* Who can be found is polled, by one thread at a time, and alerted once; a *)
(* destroyed session does not come back with a late answer.                 *)
SessionsAreSafe ==
    [](OnePollPerSession /\ FoundMeansPolled /\ EventsFireOnceApart) /\ GoneStaysGone

(* Whoever is registered is polled again and again, and whoever leaves is not *)
(* polled for ever.  (A session that expires in the store stays registered.)   *)
PollingFollowsUsers == LeavingEndsPolling /\ PolledForever
=============================================================================
