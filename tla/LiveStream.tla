----------------------------- MODULE LiveStream -----------------------------
(***************************************************************************)
(* The server-sent events stream (services/sse.py).                        *)
(*                                                                         *)
(* Every open stream has a bounded queue.  The poll loop puts each         *)
(* snapshot into the queues that are listed and delists the full ones; a   *)
(* stream's generator takes from its own queue and yields, or yields a     *)
(* keepalive when three seconds bring nothing.  The generator learns that  *)
(* its browser has gone when it yields, and delists its queue.             *)
(* Snapshots are numbered; the locks make each block below one step.       *)
(***************************************************************************)
EXTENDS Integers, Sequences

CONSTANTS
    Streams,      \* requests of GET /api/stream
    Capacity,     \* the queue's maxsize: 5
    MaxSnapshots  \* bound: the snapshots broadcast

VARIABLES
    stream,  \* "none", "open", "leaving" (its browser has gone) or "closed"
    listed,  \* _sse_clients
    queue,   \* the queue of each stream
    got,     \* what each browser was sent
    since,   \* the snapshots before each stream
    sent     \* the snapshots broadcast

streamVars == <<stream, listed, queue, got, since, sent>>

StreamAssumptions == Capacity \in Nat \ {0} /\ MaxSnapshots \in Nat

-----------------------------------------------------------------------------
StreamInit ==
    /\ stream = [s \in Streams |-> "none"]
    /\ listed = {}
    /\ queue = [s \in Streams |-> <<>>]
    /\ got = [s \in Streams |-> <<>>]
    /\ since = [s \in Streams |-> 0]
    /\ sent = 0

(* sse_stream: the queue is listed before the first yield. *)
Connect(s) ==
    /\ stream[s] = "none"
    /\ stream' = [stream EXCEPT ![s] = "open"]
    /\ listed' = listed \cup {s}
    /\ since' = [since EXCEPT ![s] = sent]
    /\ UNCHANGED <<queue, got, sent>>

Full(s) == Len(queue[s]) >= Capacity

BroadcastSkippingFull ==
    /\ sent < MaxSnapshots
    /\ sent' = sent + 1
    /\ queue' = [s \in Streams |-> IF s \in listed /\ ~Full(s)
                                   THEN Append(queue[s], sent') ELSE queue[s]]
    /\ UNCHANGED <<stream, listed, got, since>>

(* broadcast_snapshot, under the list's lock: a full queue is delisted.    *)
Broadcast ==
    /\ sent < MaxSnapshots
    /\ sent' = sent + 1
    /\ queue' = [s \in Streams |-> IF s \in listed /\ ~Full(s)
                                   THEN Append(queue[s], sent') ELSE queue[s]]
    /\ listed' = {s \in listed : ~Full(s)}
    /\ UNCHANGED <<stream, got, since>>

(* event_stream: the next snapshot, or a keepalive, which changes nothing  *)
(* here unless the browser has gone.                                       *)
Yield(s) ==
    /\ stream[s] = "open"
    /\ queue[s] # <<>>
    /\ got' = [got EXCEPT ![s] = Append(@, Head(queue[s]))]
    /\ queue' = [queue EXCEPT ![s] = Tail(@)]
    /\ UNCHANGED <<stream, listed, since, sent>>

(* The browser closes its connection. *)
Leave(s) ==
    /\ stream[s] = "open"
    /\ stream' = [stream EXCEPT ![s] = "leaving"]
    /\ UNCHANGED <<listed, queue, got, since, sent>>

(* GeneratorExit at the next yield: the finally block delists the queue,   *)
(* which a broadcast may have done.                                        *)
Finish(s) ==
    /\ stream[s] = "leaving"
    /\ stream' = [stream EXCEPT ![s] = "closed"]
    /\ listed' = listed \ {s}
    /\ UNCHANGED <<queue, got, since, sent>>

StreamNext == Broadcast \/ \E s \in Streams : Connect(s) \/ Yield(s) \/ Leave(s) \/ Finish(s)

StreamSpec == StreamInit /\ [][StreamNext]_streamVars

-----------------------------------------------------------------------------
StreamTypeOK ==
    /\ stream \in [Streams -> {"none", "open", "leaving", "closed"}]
    /\ listed \subseteq Streams
    /\ \A s \in Streams : Len(queue[s]) <= Capacity
    /\ since \in [Streams -> 0..MaxSnapshots]
    /\ sent \in 0..MaxSnapshots

(* What was sent to the stream and what its queue holds are consecutive    *)
(* snapshots from the one after it connected; while it is listed they go   *)
(* up to the last one.                                                     *)
NoGapNoRepeat ==
    \A s \in Streams :
        LET fed == got[s] \o queue[s]
        IN /\ \A i \in 1..Len(fed) : fed[i] = since[s] + i
           /\ s \in listed => since[s] + Len(fed) = sent
=============================================================================
