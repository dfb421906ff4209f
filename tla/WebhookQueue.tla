---------------------------- MODULE WebhookQueue ----------------------------
(***************************************************************************)
(* Alert webhooks: one POST at once, and a table of retries for those that *)
(* failed (services/webhook_queue.py), over the delivery of                *)
(* services/push_notifier.py and services/webhook_delivery.py.  Dispatch   *)
(* runs on a thread per alert, the retries on one loop thread, whose batch *)
(* of rows shares a transaction that is committed after its last POST.     *)
(* Time is relative: a row knows how long it still has to wait.            *)
(***************************************************************************)
EXTENDS Integers, FiniteSets

CONSTANTS
    Alerts,        \* alerts at or above the severity threshold
    Backoff,       \* WEBHOOK_RETRY_BACKOFF, a function of the attempts made
    MaxAttempts,   \* WEBHOOK_MAX_ATTEMPTS
    MaxBatch,      \* max_batch
    DnsCapacity,   \* _DNS_CAPACITY
    Late,          \* bound: an overdue row is this late at most
    MaxFaults      \* bound: crashes and failed transactions

VARIABLES
    thread,     \* the dispatch thread of an alert
    row,        \* the row of an alert in webhook_queue
    loop,       \* process_due_webhooks
    stuck,      \* resolver threads that timed out and still hold their slot
    posts,      \* history: POSTs tried, per alert
    accepted,   \* history: POSTs the provider accepted, per alert
    doubts,     \* history: accepted POSTs that the server does not know of
    undone,     \* history: POSTs whose outcome was rolled back
    faults

hookVars == <<thread, row, loop, stuck, posts, accepted, doubts, undone, faults>>

NoRow == [attempts |-> -1, wait |-> 0]
Row == [attempts : 0..MaxAttempts, wait : -Late..Backoff[MaxAttempts - 1]]
Resting == [pc |-> "sleep", todo |-> {}, kept |-> [a \in Alerts |-> NoRow], told |-> {}]

(* The delays of the retries grow. *)
HookAssumptions ==
    /\ MaxAttempts \in Nat \ {0} /\ MaxBatch \in Nat \ {0}
    /\ DnsCapacity \in Nat /\ Late \in Nat /\ MaxFaults \in Nat
    /\ Backoff \in [0..MaxAttempts - 1 -> Nat]
    /\ \A m, n \in 0..MaxAttempts - 1 : m <= n => Backoff[m] <= Backoff[n]

HookTypeOK ==
    /\ thread \in [Alerts -> {"new", "post", "enqueue", "sent", "queued", "lost"}]
    /\ row \in [Alerts -> Row \cup {NoRow}]
    /\ loop \in [pc : {"sleep", "batch"}, todo : SUBSET Alerts,
                 kept : [Alerts -> Row \cup {NoRow}], told : SUBSET Alerts]
    /\ stuck \in 0..DnsCapacity
    /\ faults \in 0..MaxFaults

HookInit ==
    /\ thread = [a \in Alerts |-> "new"]
    /\ row = [a \in Alerts |-> NoRow]
    /\ loop = Resting
    /\ stuck = 0
    /\ posts = [a \in Alerts |-> 0]
    /\ accepted = [a \in Alerts |-> 0]
    /\ doubts = [a \in Alerts |-> 0]
    /\ undone = [a \in Alerts |-> 0]
    /\ faults = 0

Queued(a) == row[a] # NoRow

(* The first DELETE or UPDATE of a batch opens the write transaction that every *)
(* other writer waits for.                                                      *)
WriteLocked == loop.told # {}

-----------------------------------------------------------------------------
(***************************************************************************)
(* One POST: send_webhook_notification                                     *)
(***************************************************************************)
Count(f, a) == [f EXCEPT ![a] = @ + 1]

(* A resolver that does not answer keeps one of the slots after the POST failed. *)
ResolveUnbounded(a) ==  \* mutant: the slot is not asked for
    \/ stuck' = stuck /\ accepted' \in {accepted, Count(accepted, a)}
    \/ stuck' = stuck + 1 /\ accepted' = accepted

Resolve(a) ==
    \/ stuck < DnsCapacity /\ stuck' = stuck /\ accepted' \in {accepted, Count(accepted, a)}
    \/ stuck < DnsCapacity /\ stuck' = stuck + 1 /\ accepted' = accepted
    \/ stuck = DnsCapacity /\ UNCHANGED <<stuck, accepted>>

(* The provider may accept what the server takes for a failure. *)
Post(a, ok) ==
    /\ posts' = Count(posts, a)
    /\ Resolve(a)
    /\ ok => accepted' # accepted
    /\ doubts' = IF ok \/ accepted' = accepted THEN doubts ELSE Count(doubts, a)

(* The system resolver returns at last. *)
ResolverReturns ==
    /\ stuck > 0
    /\ stuck' = stuck - 1
    /\ UNCHANGED <<thread, row, loop, posts, accepted, doubts, undone, faults>>

-----------------------------------------------------------------------------
(***************************************************************************)
(* The dispatch thread: dispatch_webhook_or_queue                          *)
(***************************************************************************)
Fire(a) ==
    /\ thread[a] = "new"
    /\ thread' = [thread EXCEPT ![a] = "post"]
    /\ UNCHANGED <<row, loop, stuck, posts, accepted, doubts, undone, faults>>

Dispatch(a) ==
    /\ thread[a] = "post"
    /\ \E ok \in BOOLEAN :
         /\ Post(a, ok)
         /\ thread' = [thread EXCEPT ![a] = IF ok THEN "sent" ELSE "enqueue"]
    /\ UNCHANGED <<row, loop, undone, faults>>

(* enqueue_webhook.  The alert is lost when the table cannot be written: it is *)
(* broken, or locked for longer than the connection waits.                     *)
Enqueue(a) ==
    /\ thread[a] = "enqueue"
    /\ ~WriteLocked
    /\ row' = [row EXCEPT ![a] = [attempts |-> 0, wait |-> Backoff[0]]]
    /\ thread' = [thread EXCEPT ![a] = "queued"]
    /\ UNCHANGED <<loop, stuck, posts, accepted, doubts, undone, faults>>

EnqueueFails(a) ==
    /\ thread[a] = "enqueue"
    /\ thread' = [thread EXCEPT ![a] = "lost"]
    /\ UNCHANGED <<row, loop, stuck, posts, accepted, doubts, undone, faults>>

-----------------------------------------------------------------------------
(***************************************************************************)
(* The retry loop: process_due_webhooks                                    *)
(***************************************************************************)
Due == {a \in Alerts : Queued(a) /\ row[a].attempts < MaxAttempts /\ row[a].wait <= 0}

(* ORDER BY next_retry_ts LIMIT max_batch *)
IsBatch(B) ==
    /\ B \subseteq Due
    /\ Cardinality(B) = IF Cardinality(Due) < MaxBatch THEN Cardinality(Due) ELSE MaxBatch
    /\ \A a \in B, b \in Due \ B : row[a].wait <= row[b].wait

BeginBatch ==
    /\ loop.pc = "sleep"
    /\ Due # {}
    /\ \E B \in SUBSET Due : IsBatch(B) /\ loop' = [Resting EXCEPT !.pc = "batch", !.todo = B]
    /\ UNCHANGED <<thread, row, stuck, posts, accepted, doubts, undone, faults>>

AfterFailureEarly(attempts) ==  \* mutant: the row is dropped one attempt too early
    LET nxt == attempts + 1 IN
    IF nxt >= MaxAttempts - 1 THEN NoRow ELSE [attempts |-> nxt, wait |-> Backoff[nxt]]

AfterFailureForever(attempts) ==  \* mutant: the attempts are not counted
    [attempts |-> attempts, wait |-> Backoff[attempts]]

AfterFailureStuck(attempts) ==  \* mutant: the row is kept once too often, and never due again
    LET nxt == attempts + 1 IN
    IF nxt > MaxAttempts THEN NoRow ELSE [attempts |-> nxt, wait |-> Backoff[MaxAttempts - 1]]

(* What becomes of a row whose POST failed. *)
AfterFailure(attempts) ==
    LET nxt == attempts + 1 IN
    IF nxt >= MaxAttempts THEN NoRow ELSE [attempts |-> nxt, wait |-> Backoff[nxt]]

AfterKept(attempts, ok) ==  \* mutant: a delivered row is retried like any other
    AfterFailure(attempts)

After(attempts, ok) == IF ok THEN NoRow ELSE AfterFailure(attempts)

(* The DELETE or UPDATE is not committed yet. *)
Retry(a) ==
    /\ loop.pc = "batch"
    /\ a \in loop.todo
    /\ \E ok \in BOOLEAN :
         /\ Post(a, ok)
         /\ loop' = [loop EXCEPT !.todo = @ \ {a}, !.told = @ \cup {a},
                                 !.kept[a] = After(row[a].attempts, ok)]
    /\ UNCHANGED <<thread, row, undone, faults>>

Commit ==
    /\ loop.pc = "batch"
    /\ loop.todo = {}
    /\ row' = [a \in Alerts |-> IF a \in loop.told THEN loop.kept[a] ELSE row[a]]
    /\ loop' = Resting
    /\ UNCHANGED <<thread, stuck, posts, accepted, doubts, undone, faults>>

(* The outcomes of the batch are taken back. *)
Rollback ==
    /\ faults < MaxFaults
    /\ faults' = faults + 1
    /\ loop' = Resting
    /\ undone' = [a \in Alerts |-> IF a \in loop.told THEN undone[a] + 1 ELSE undone[a]]

(* An error of the database ends the batch. *)
BatchFails ==
    /\ loop.pc = "batch"
    /\ Rollback
    /\ UNCHANGED <<thread, row, stuck, posts, accepted, doubts>>

(* The process dies, with its batch and its dispatch threads, and starts again. *)
ProcessDies ==
    /\ Rollback
    /\ thread' = [a \in Alerts |-> IF thread[a] \in {"post", "enqueue"} THEN "lost" ELSE thread[a]]
    /\ stuck' = 0
    /\ UNCHANGED <<row, posts, accepted, doubts>>

(* Between two rounds of the loop, and while a slow POST is waited for. *)
Tick ==
    /\ \E a \in Alerts : Queued(a) /\ row[a].wait > -Late
    /\ LET Older(r) == IF r = NoRow \/ r.wait = -Late THEN r ELSE [r EXCEPT !.wait = @ - 1] IN
       /\ row' = [a \in Alerts |-> Older(row[a])]
       /\ loop' = [loop EXCEPT !.kept = [a \in Alerts |-> Older(@[a])]]
    /\ UNCHANGED <<thread, stuck, posts, accepted, doubts, undone, faults>>

-----------------------------------------------------------------------------
DispatchThread(a) == Dispatch(a) \/ Enqueue(a) \/ EnqueueFails(a)
RetryLoop == BeginBatch \/ (\E a \in Alerts : Retry(a)) \/ Commit

HookNext ==
    \/ \E a \in Alerts : Fire(a) \/ DispatchThread(a)
    \/ RetryLoop
    \/ BatchFails
    \/ ProcessDies
    \/ ResolverReturns
    \/ Tick

HookSpec == HookInit /\ [][HookNext]_hookVars

(* Threads run, and time passes.  Providers and resolvers may fail for ever. *)
HookFairness ==
    /\ \A a \in Alerts : WF_hookVars(DispatchThread(a))
    /\ WF_hookVars(RetryLoop)
    /\ WF_hookVars(Tick)

HookFairSpec == HookSpec /\ HookFairness

-----------------------------------------------------------------------------
(***************************************************************************)
(* Properties                                                              *)
(***************************************************************************)

(* An alert leaves the queue only after a POST that succeeded or after all its *)
(* attempts: the first one, and those that the table counts, crash or not.     *)
GoneMeansDone ==
    \A a \in Alerts : thread[a] = "queued" /\ ~Queued(a) =>
        accepted[a] > doubts[a] \/ posts[a] >= 1 + MaxAttempts

(* The provider is not asked more often than that, but for the POSTs whose    *)
(* outcome the database did not keep: a broken webhook is not called for ever. *)
BoundedAttempts ==
    \A a \in Alerts : posts[a] <= 1 + MaxAttempts + undone[a]

(* "Bounded at-least-once": an alert arrives twice only when the server could *)
(* not know that it arrived, or lost the note of it.                          *)
DuplicatesAreDoubts ==
    \A a \in Alerts : accepted[a] <= 1 + doubts[a] + undone[a]

(* The alert of a provider that is down does not stay for ever. *)
QueueDrains == \A a \in Alerts : Queued(a) ~> ~Queued(a)

(* No alert that the queue took leaves it with attempts left, none is sent for *)
(* ever, and none twice without a doubt.  (One that cannot be enqueued is lost.) *)
AlertsAreAccountedFor == GoneMeansDone /\ BoundedAttempts /\ DuplicatesAreDoubts
=============================================================================
