---------------------------- MODULE Alerts_proofs ----------------------------
(***************************************************************************)
(* Proofs about what reaches the operator as an alert: the retries of      *)
(* webhooks, for any number of alerts, attempts and faults and every size  *)
(* of a batch; the alerts of rentals, for any number of rentals and        *)
(* requests to the panel, whatever is called what; and the rigs that are   *)
(* not to be rented again, for any number of rigs, threads and faults.     *)
(***************************************************************************)
EXTENDS WebhookQueue, RentalAlerts, RigBlacklist, TLAPS

HookCounts ==
    /\ posts \in [Alerts -> Nat] /\ accepted \in [Alerts -> Nat]
    /\ doubts \in [Alerts -> Nat] /\ undone \in [Alerts -> Nat]

(* A POST of the batch is made once, and its outcome waits for the commit. *)
BatchIsOpen ==
    /\ loop.pc = "sleep" => loop.todo = {} /\ loop.told = {}
    /\ loop.todo \cap loop.told = {}
    /\ \A a \in loop.todo \cup loop.told : Queued(a)

(* Before an alert is queued it is posted once, and accepted once at most. *)
FirstPost(a) ==
    /\ thread[a] \in {"new", "post"} => posts[a] = 0 /\ accepted[a] = 0
    /\ thread[a] = "enqueue" =>
         posts[a] = 1 /\ accepted[a] <= 1 /\ accepted[a] <= doubts[a] /\ undone[a] = 0
    /\ thread[a] \in {"sent", "lost"} => posts[a] <= 1 /\ accepted[a] <= 1
    /\ thread[a] # "queued" => ~Queued(a) /\ undone[a] = 0

(* A queued alert was posted as often as its row says and once before, and once *)
(* more for every outcome that was rolled back.                                 *)
RowCounts(a) ==
    Queued(a) =>
        /\ row[a].attempts < MaxAttempts
        /\ a \notin loop.told =>
             /\ posts[a] = 1 + row[a].attempts + undone[a]
             /\ accepted[a] <= doubts[a] + undone[a]

IsDone(a) == accepted[a] > doubts[a] \/ posts[a] >= 1 + MaxAttempts

(* Between the POST and the commit the batch knows what became of it. *)
BatchCounts(a) ==
    a \in loop.told =>
        /\ posts[a] = 2 + row[a].attempts + undone[a]
        /\ accepted[a] <= 1 + doubts[a] + undone[a]
        /\ loop.kept[a] # NoRow =>
             /\ loop.kept[a].attempts = 1 + row[a].attempts
             /\ loop.kept[a].attempts < MaxAttempts
             /\ accepted[a] <= doubts[a] + undone[a]
        /\ loop.kept[a] = NoRow => IsDone(a)

GoneCounts(a) ==
    thread[a] = "queued" /\ ~Queued(a) =>
        /\ posts[a] <= 1 + MaxAttempts + undone[a]
        /\ accepted[a] <= 1 + doubts[a] + undone[a]
        /\ IsDone(a)

AlertInv(a) ==
    /\ doubts[a] <= accepted[a]
    /\ FirstPost(a) /\ RowCounts(a) /\ BatchCounts(a) /\ GoneCounts(a)

HookInv == HookTypeOK /\ HookCounts /\ BatchIsOpen /\ \A a \in Alerts : AlertInv(a)

-----------------------------------------------------------------------------
(* Nothing has been posted yet. *)
LEMMA HookInitInv ==
    ASSUME HookAssumptions, HookInit
    PROVE  HookInv
<1>1. HookTypeOK
  BY DEF HookAssumptions, HookInit, HookTypeOK, Resting
<1>2. HookCounts /\ BatchIsOpen
  BY DEF HookInit, HookCounts, BatchIsOpen, Resting
<1>3. ASSUME NEW a \in Alerts PROVE AlertInv(a)
  BY <1>3 DEF HookInit, AlertInv, FirstPost, RowCounts, BatchCounts, GoneCounts, Queued, Resting
<1> QED
  BY <1>1, <1>2, <1>3 DEF HookInv

(* What a row is. *)
LEMMA RowsAre ==
    ASSUME HookAssumptions
    PROVE  /\ \A r \in Row : r # NoRow /\ r.attempts \in 0..MaxAttempts /\ r.wait \in Int
           /\ \A n \in 0..MaxAttempts - 1 :
                [attempts |-> n, wait |-> Backoff[n]] \in Row
<1>1. MaxAttempts \in Nat /\ MaxAttempts > 0 /\ Late \in Nat
  BY DEF HookAssumptions
<1>2. ASSUME NEW r \in Row
      PROVE  r # NoRow /\ r.attempts \in 0..MaxAttempts /\ r.wait \in Int
  BY <1>1 DEF Row, NoRow
<1>3. ASSUME NEW n \in 0..MaxAttempts - 1
      PROVE  [attempts |-> n, wait |-> Backoff[n]] \in Row
  <2>1. Backoff[n] \in Nat /\ Backoff[MaxAttempts - 1] \in Nat /\ Backoff[n] <= Backoff[MaxAttempts - 1]
    BY <1>1 DEF HookAssumptions
  <2>2. Backoff[n] \in -Late..Backoff[MaxAttempts - 1]
    BY <1>1, <2>1
  <2> QED
    BY <1>1, <2>2 DEF Row
<1> QED
  BY <1>2, <1>3

(* A POST is counted, and the provider accepts it once at most. *)
LEMMA PostCounts ==
    ASSUME HookAssumptions, HookTypeOK, HookCounts, NEW a \in Alerts, NEW ok \in BOOLEAN, Post(a, ok)
    PROVE  /\ stuck' \in 0..DnsCapacity
           /\ posts' \in [Alerts -> Nat] /\ accepted' \in [Alerts -> Nat] /\ doubts' \in [Alerts -> Nat]
           /\ posts'[a] = posts[a] + 1
           /\ accepted'[a] \in {accepted[a], accepted[a] + 1}
           /\ ok => accepted'[a] = accepted[a] + 1 /\ doubts'[a] = doubts[a]
           /\ ~ok => doubts'[a] - doubts[a] = accepted'[a] - accepted[a]
           /\ \A b \in Alerts \ {a} :
                posts'[b] = posts[b] /\ accepted'[b] = accepted[b] /\ doubts'[b] = doubts[b]
<1>1. stuck \in 0..DnsCapacity /\ DnsCapacity \in Nat
  BY DEF HookAssumptions, HookTypeOK
<1>2. stuck' \in 0..DnsCapacity /\ accepted' \in {accepted, Count(accepted, a)}
  BY <1>1 DEF Post, Resolve
<1>3. ASSUME NEW f \in [Alerts -> Nat]
      PROVE  /\ Count(f, a) \in [Alerts -> Nat] /\ Count(f, a)[a] = f[a] + 1 /\ Count(f, a) # f
             /\ \A b \in Alerts \ {a} : Count(f, a)[b] = f[b]
  BY DEF Count
<1>4. /\ posts' = Count(posts, a)
      /\ ok => accepted' = Count(accepted, a) /\ doubts' = doubts
      /\ ~ok => \/ accepted' = accepted /\ doubts' = doubts
                \/ accepted' = Count(accepted, a) /\ doubts' = Count(doubts, a)
  BY <1>2, <1>3 DEF Post, HookCounts
<1>5. /\ posts \in [Alerts -> Nat] /\ accepted \in [Alerts -> Nat] /\ doubts \in [Alerts -> Nat]
      /\ posts[a] \in Nat /\ accepted[a] \in Nat /\ doubts[a] \in Nat
  BY DEF HookCounts
<1>6. posts' \in [Alerts -> Nat] /\ accepted' \in [Alerts -> Nat] /\ doubts' \in [Alerts -> Nat]
  BY <1>2, <1>3, <1>4, <1>5
<1>7. posts'[a] = posts[a] + 1 /\ accepted'[a] \in {accepted[a], accepted[a] + 1}
  BY <1>2, <1>3, <1>4, <1>5
<1>8. ok => accepted'[a] = accepted[a] + 1 /\ doubts'[a] = doubts[a]
  BY <1>3, <1>4, <1>5
<1>9. ~ok => doubts'[a] - doubts[a] = accepted'[a] - accepted[a]
  BY <1>3, <1>4, <1>5
<1>10. \A b \in Alerts \ {a} :
         posts'[b] = posts[b] /\ accepted'[b] = accepted[b] /\ doubts'[b] = doubts[b]
  BY <1>2, <1>3, <1>4, <1>5
<1> QED
  BY <1>2, <1>6, <1>7, <1>8, <1>9, <1>10

(* What is not touched keeps its counts. *)
LEMMA AlertStays ==
    ASSUME NEW b \in Alerts, AlertInv(b),
           thread'[b] = thread[b], row'[b] = row[b], posts'[b] = posts[b],
           accepted'[b] = accepted[b], doubts'[b] = doubts[b], undone'[b] = undone[b],
           (b \in loop.told)' <=> b \in loop.told,
           b \in loop.told => loop'.kept[b] = loop.kept[b]
    PROVE  AlertInv(b)'
BY DEF AlertInv, FirstPost, RowCounts, BatchCounts, GoneCounts, Queued, IsDone

-----------------------------------------------------------------------------
(* The thread of an alert that is not queued yet. *)
LEMMA DispatchKeepsInv ==
    ASSUME HookAssumptions, HookInv, NEW a \in Alerts, Fire(a) \/ DispatchThread(a)
    PROVE  HookInv'
<1>1. HookTypeOK /\ HookCounts /\ BatchIsOpen /\ AlertInv(a)
      /\ \A b \in Alerts : AlertInv(b)
  BY DEF HookInv
<1>2. /\ posts[a] \in Nat /\ accepted[a] \in Nat /\ doubts[a] \in Nat /\ undone[a] \in Nat
  BY <1>1 DEF HookCounts
<1>3. /\ loop' = loop /\ undone' = undone /\ faults' = faults
      /\ \A b \in Alerts \ {a} : thread'[b] = thread[b] /\ row'[b] = row[b]
  BY <1>1 DEF Fire, DispatchThread, Dispatch, Enqueue, EnqueueFails, HookTypeOK
<1>4. thread[a] # "queued"
  BY DEF Fire, DispatchThread, Dispatch, Enqueue, EnqueueFails
<1>5. ~Queued(a) /\ undone[a] = 0 /\ a \notin loop.told /\ a \notin loop.todo
  BY <1>1, <1>4 DEF AlertInv, FirstPost, BatchIsOpen
<1>6. HookTypeOK'
  <2>1. CASE Fire(a)
    BY <1>1, <2>1 DEF HookTypeOK, Fire
  <2>2. CASE Dispatch(a)
    <3>1. stuck' \in 0..DnsCapacity
      BY <1>1, <2>2, PostCounts DEF Dispatch
    <3> QED
      BY <1>1, <2>2, <3>1 DEF HookTypeOK, Dispatch
  <2>3. CASE Enqueue(a)
    <3>1. [attempts |-> 0, wait |-> Backoff[0]] \in Row
      BY RowsAre DEF HookAssumptions
    <3> QED
      BY <1>1, <2>3, <3>1 DEF HookTypeOK, Enqueue
  <2>4. CASE EnqueueFails(a)
    BY <1>1, <2>4 DEF HookTypeOK, EnqueueFails
  <2> QED
    BY <2>1, <2>2, <2>3, <2>4 DEF DispatchThread
<1>7. HookCounts' /\ \A b \in Alerts \ {a} :
         posts'[b] = posts[b] /\ accepted'[b] = accepted[b] /\ doubts'[b] = doubts[b]
  <2>1. CASE Dispatch(a)
    BY <1>1, <1>3, <2>1, PostCounts DEF Dispatch, HookCounts
  <2>2. CASE Fire(a) \/ Enqueue(a) \/ EnqueueFails(a)
    BY <1>1, <2>2 DEF Fire, Enqueue, EnqueueFails, HookCounts
  <2> QED
    BY <2>1, <2>2 DEF DispatchThread
<1>8. BatchIsOpen'
  BY <1>1, <1>3, <1>5 DEF BatchIsOpen, Queued, HookTypeOK
<1>9. AlertInv(a)'
  <2>1. a \notin loop'.told
    BY <1>3, <1>5
  <2>2. CASE Fire(a)
    <3>1. thread'[a] = "post" /\ row' = row /\ posts' = posts /\ accepted' = accepted /\ doubts' = doubts
      BY <1>1, <2>2 DEF Fire, HookTypeOK
    <3> QED
      BY <1>1, <1>2, <1>3, <1>5, <2>1, <2>2, <3>1
      DEF Fire, AlertInv, FirstPost, RowCounts, BatchCounts, GoneCounts, Queued
  <2>3. CASE Dispatch(a)
    <3>1. PICK ok \in BOOLEAN :
            Post(a, ok) /\ thread' = [thread EXCEPT ![a] = IF ok THEN "sent" ELSE "enqueue"]
      BY <2>3 DEF Dispatch
    <3>2. /\ posts'[a] = 1 /\ accepted'[a] \in {0, 1} /\ doubts[a] = 0
          /\ ok => accepted'[a] = 1 /\ doubts'[a] = 0
          /\ ~ok => doubts'[a] = accepted'[a]
          /\ doubts'[a] \in Nat
      BY <1>1, <1>2, <1>7, <2>3, <3>1, PostCounts DEF Dispatch, AlertInv, FirstPost, HookCounts
    <3>3. thread'[a] = (IF ok THEN "sent" ELSE "enqueue") /\ row' = row
      BY <1>1, <2>3, <3>1 DEF Dispatch, HookTypeOK
    <3>4. ~Queued(a)' /\ undone'[a] = 0
      BY <1>3, <1>5, <3>3 DEF Queued
    <3>5. FirstPost(a)'
      BY <3>2, <3>3, <3>4 DEF FirstPost
    <3>6. doubts'[a] <= accepted'[a] /\ RowCounts(a)' /\ BatchCounts(a)' /\ GoneCounts(a)'
      BY <2>1, <3>2, <3>3, <3>4 DEF RowCounts, BatchCounts, GoneCounts
    <3> QED
      BY <3>5, <3>6 DEF AlertInv
  <2>4. CASE Enqueue(a)
    <3>1. /\ thread'[a] = "queued" /\ row'[a] = [attempts |-> 0, wait |-> Backoff[0]]
          /\ posts' = posts /\ accepted' = accepted /\ doubts' = doubts
      BY <1>1, <2>4 DEF Enqueue, HookTypeOK
    <3>2. row'[a].attempts = 0 /\ Queued(a)' /\ 0 < MaxAttempts
      BY <3>1, RowsAre DEF HookAssumptions, Queued
    <3>3. posts[a] = 1 /\ accepted[a] <= doubts[a] /\ doubts[a] <= accepted[a]
      BY <1>1, <2>4 DEF Enqueue, AlertInv, FirstPost
    <3> QED
      BY <1>2, <1>3, <1>5, <2>1, <3>1, <3>2, <3>3
      DEF AlertInv, FirstPost, RowCounts, BatchCounts, GoneCounts
  <2>5. CASE EnqueueFails(a)
    <3>1. /\ thread'[a] = "lost" /\ row' = row
          /\ posts' = posts /\ accepted' = accepted /\ doubts' = doubts
      BY <1>1, <2>5 DEF EnqueueFails, HookTypeOK
    <3> QED
      BY <1>1, <1>2, <1>3, <1>5, <2>1, <2>5, <3>1
      DEF EnqueueFails, AlertInv, FirstPost, RowCounts, BatchCounts, GoneCounts, Queued
  <2> QED
    BY <2>2, <2>3, <2>4, <2>5 DEF DispatchThread
<1>10. ASSUME NEW b \in Alerts \ {a} PROVE AlertInv(b)'
  BY <1>1, <1>3, <1>7, AlertStays
<1> QED
  BY <1>6, <1>7, <1>8, <1>9, <1>10 DEF HookInv

(* A batch begins with queued alerts, and has posted none of them yet. *)
LEMMA BeginKeepsInv ==
    ASSUME HookInv, BeginBatch
    PROVE  HookInv'
<1>1. PICK B \in SUBSET Due : loop' = [Resting EXCEPT !.pc = "batch", !.todo = B]
  BY DEF BeginBatch
<1>2. B \subseteq Alerts /\ \A a \in B : Queued(a)
  BY DEF Due
<1>3. loop'.pc = "batch" /\ loop'.todo = B /\ loop'.told = {} /\ loop.told = {}
      /\ loop'.kept = [a \in Alerts |-> NoRow]
  BY <1>1 DEF Resting, BeginBatch, HookInv, BatchIsOpen
<1>4. HookTypeOK'
  BY <1>1, <1>2 DEF HookInv, HookTypeOK, BeginBatch, Resting
<1>5. HookCounts' /\ BatchIsOpen'
  BY <1>2, <1>3 DEF HookInv, HookCounts, BatchIsOpen, BeginBatch, Queued
<1>6. ASSUME NEW a \in Alerts PROVE AlertInv(a)'
  BY <1>3, AlertStays DEF HookInv, BeginBatch
<1> QED
  BY <1>4, <1>5, <1>6 DEF HookInv

(* A retry is counted by the batch; the row follows with the commit. *)
LEMMA RetryKeepsInv ==
    ASSUME HookAssumptions, HookInv, NEW a \in Alerts, Retry(a)
    PROVE  HookInv'
<1>1. PICK ok \in BOOLEAN :
        /\ Post(a, ok)
        /\ loop' = [loop EXCEPT !.todo = @ \ {a}, !.told = @ \cup {a},
                                !.kept[a] = After(row[a].attempts, ok)]
  BY DEF Retry
<1>2. HookTypeOK /\ HookCounts /\ BatchIsOpen /\ AlertInv(a)
      /\ UNCHANGED <<thread, row, undone, faults>>
      /\ loop.pc = "batch" /\ a \in loop.todo /\ Queued(a) /\ a \notin loop.told
  BY DEF HookInv, Retry, BatchIsOpen
<1>3. PICK n \in Nat : n = row[a].attempts /\ n < MaxAttempts /\ MaxAttempts \in Nat
  BY <1>2, RowsAre DEF AlertInv, RowCounts, HookTypeOK, HookAssumptions, Queued
<1>4. PICK after : after = After(n, ok)
  OBVIOUS
<1>5. /\ after \in Row \cup {NoRow}
      /\ after # NoRow => ~ok /\ after.attempts = 1 + n /\ after.attempts < MaxAttempts
      /\ after = NoRow => ok \/ 1 + n >= MaxAttempts
  <2>1. CASE ok
    BY <1>4, <2>1 DEF After
  <2>2. CASE ~ok /\ n + 1 >= MaxAttempts
    BY <1>3, <1>4, <2>2 DEF After, AfterFailure
  <2>3. CASE ~ok /\ n + 1 < MaxAttempts
    <3>1. n + 1 \in 0..MaxAttempts - 1
      BY <1>3, <2>3
    <3>2. after = [attempts |-> n + 1, wait |-> Backoff[n + 1]]
      BY <1>3, <1>4, <2>3 DEF After, AfterFailure
    <3>3. after \in Row /\ after.attempts = n + 1
      BY <3>1, <3>2, RowsAre
    <3> QED
      BY <1>3, <2>3, <3>1, <3>3, RowsAre
  <2> QED
    BY <1>3, <2>1, <2>2, <2>3
<1>6. /\ loop'.pc = "batch" /\ loop'.todo = loop.todo \ {a} /\ loop'.told = loop.told \cup {a}
      /\ loop'.kept \in [Alerts -> Row \cup {NoRow}]
      /\ loop'.kept[a] = after /\ \A b \in Alerts \ {a} : loop'.kept[b] = loop.kept[b]
      /\ loop' \in [pc : {"sleep", "batch"}, todo : SUBSET Alerts,
                    kept : [Alerts -> Row \cup {NoRow}], told : SUBSET Alerts]
  BY <1>1, <1>2, <1>3, <1>4, <1>5 DEF HookTypeOK
<1>7. HookTypeOK'
  BY <1>1, <1>2, <1>6, PostCounts DEF HookTypeOK
<1>8. HookCounts'
  BY <1>1, <1>2, PostCounts DEF HookCounts
<1>9. BatchIsOpen'
  BY <1>2, <1>6 DEF BatchIsOpen, Queued
<1>10. AlertInv(a)'
  <2>1. /\ posts[a] = 1 + n + undone[a] /\ accepted[a] <= doubts[a] + undone[a]
        /\ doubts[a] <= accepted[a] /\ thread[a] = "queued"
        /\ posts[a] \in Nat /\ accepted[a] \in Nat /\ doubts[a] \in Nat /\ undone[a] \in Nat
    BY <1>2, <1>3 DEF AlertInv, RowCounts, FirstPost, HookCounts
  <2>2. /\ posts'[a] = posts[a] + 1 /\ accepted'[a] \in {accepted[a], accepted[a] + 1}
        /\ ok => accepted'[a] = accepted[a] + 1 /\ doubts'[a] = doubts[a]
        /\ ~ok => doubts'[a] - doubts[a] = accepted'[a] - accepted[a]
        /\ doubts'[a] \in Nat
    BY <1>1, <1>2, <1>8, PostCounts DEF HookCounts
  <2>3. Queued(a)' /\ a \in loop'.told /\ row'[a].attempts = n /\ thread'[a] = "queued"
        /\ undone'[a] = undone[a]
    BY <1>2, <1>3, <1>6, <2>1 DEF Queued
  <2>4. doubts'[a] <= accepted'[a]
    BY <2>1, <2>2
  <2>5. BatchCounts(a)'
    <3>1. posts'[a] = 2 + n + undone[a] /\ accepted'[a] <= 1 + doubts'[a] + undone[a]
      BY <2>1, <2>2
    <3>2. after # NoRow => after.attempts = 1 + n /\ after.attempts < MaxAttempts
                           /\ accepted'[a] <= doubts'[a] + undone[a]
      BY <1>5, <2>1, <2>2
    <3>3. after = NoRow => accepted'[a] > doubts'[a] \/ posts'[a] >= 1 + MaxAttempts
      BY <1>3, <1>5, <2>1, <2>2
    <3> QED
      BY <1>6, <2>3, <3>1, <3>2, <3>3 DEF BatchCounts, IsDone
  <2>6. FirstPost(a)' /\ RowCounts(a)' /\ GoneCounts(a)'
    BY <1>3, <2>3 DEF FirstPost, RowCounts, GoneCounts
  <2> QED
    BY <2>4, <2>5, <2>6 DEF AlertInv
<1>11. ASSUME NEW b \in Alerts \ {a} PROVE AlertInv(b)'
  <2>1. posts'[b] = posts[b] /\ accepted'[b] = accepted[b] /\ doubts'[b] = doubts[b]
    BY <1>1, <1>2, PostCounts
  <2>2. AlertInv(b) /\ thread'[b] = thread[b] /\ row'[b] = row[b] /\ undone'[b] = undone[b]
        /\ loop'.kept[b] = loop.kept[b] /\ (b \in loop'.told <=> b \in loop.told)
    BY <1>2, <1>6 DEF HookInv
  <2> QED
    BY <2>1, <2>2, AlertStays
<1> QED
  BY <1>7, <1>8, <1>9, <1>10, <1>11 DEF HookInv

(* The commit gives every row what the batch knows. *)
LEMMA CommitKeepsInv ==
    ASSUME HookAssumptions, HookInv, Commit
    PROVE  HookInv'
<1>1. HookTypeOK /\ HookCounts
      /\ UNCHANGED <<thread, stuck, posts, accepted, doubts, undone, faults>>
      /\ loop'.told = {} /\ loop'.todo = {} /\ loop' = Resting /\ loop.todo = {}
      /\ row' = [a \in Alerts |-> IF a \in loop.told THEN loop.kept[a] ELSE row[a]]
  BY DEF HookInv, Commit, Resting
<1>2. HookTypeOK'
  BY <1>1 DEF HookTypeOK, Resting
<1>3. HookCounts' /\ BatchIsOpen'
  BY <1>1 DEF HookCounts, BatchIsOpen
<1>4. ASSUME NEW a \in Alerts PROVE AlertInv(a)'
  <2>1. CASE a \notin loop.told
    <3>1. row'[a] = row[a] /\ a \notin loop'.told /\ AlertInv(a)
      BY <1>1, <2>1 DEF HookInv
    <3> QED
      BY <1>1, <2>1, <3>1, AlertStays
  <2>2. CASE a \in loop.told
    <3>1. AlertInv(a) /\ Queued(a) /\ row'[a] = loop.kept[a] /\ a \notin loop'.told
      BY <1>1, <2>2 DEF HookInv, BatchIsOpen
    <3>2. /\ thread[a] = "queued" /\ row[a].attempts \in Nat /\ row[a].attempts < MaxAttempts
          /\ MaxAttempts \in Nat /\ posts[a] \in Nat /\ undone[a] \in Nat
          /\ accepted[a] \in Nat /\ doubts[a] \in Nat
      BY <1>1, <3>1, RowsAre
      DEF HookTypeOK, HookCounts, AlertInv, FirstPost, RowCounts, Queued, HookAssumptions
    <3>3. BatchCounts(a) /\ doubts[a] <= accepted[a]
      BY <3>1 DEF AlertInv
    <3>4. RowCounts(a)'
      BY <1>1, <2>2, <3>1, <3>2, <3>3 DEF RowCounts, BatchCounts, Queued
    <3>5. GoneCounts(a)'
      BY <1>1, <2>2, <3>1, <3>2, <3>3 DEF GoneCounts, BatchCounts, Queued, IsDone
    <3> QED
      BY <1>1, <3>1, <3>2, <3>3, <3>4, <3>5 DEF AlertInv, FirstPost, BatchCounts
  <2> QED
    BY <2>1, <2>2
<1> QED
  BY <1>2, <1>3, <1>4 DEF HookInv

(* A batch that is rolled back has posted, and the rows do not know of it. *)
LEMMA RollbackKeepsInv ==
    ASSUME HookAssumptions, HookInv, BatchFails \/ ProcessDies
    PROVE  HookInv'
<1>1. /\ UNCHANGED <<row, posts, accepted, doubts>>
      /\ loop' = Resting /\ loop'.told = {} /\ loop'.todo = {}
      /\ undone' = [a \in Alerts |-> IF a \in loop.told THEN undone[a] + 1 ELSE undone[a]]
      /\ faults' = faults + 1 /\ faults < MaxFaults /\ HookTypeOK /\ HookCounts
  BY DEF BatchFails, ProcessDies, Rollback, Resting, HookInv
<1>2. /\ thread' \in [Alerts -> {"new", "post", "enqueue", "sent", "queued", "lost"}]
      /\ \A a \in Alerts : \/ thread'[a] = thread[a]
                           \/ thread[a] \in {"post", "enqueue"} /\ thread'[a] = "lost"
  BY <1>1 DEF BatchFails, ProcessDies, HookTypeOK
<1>3. HookTypeOK'
  <2>1. stuck' \in 0..DnsCapacity
    BY <1>1 DEF BatchFails, ProcessDies, HookTypeOK, HookAssumptions
  <2>2. faults' \in 0..MaxFaults
    BY <1>1 DEF HookTypeOK, HookAssumptions
  <2> QED
    BY <1>1, <1>2, <2>1, <2>2 DEF HookTypeOK, Resting
<1>4. HookCounts' /\ BatchIsOpen'
  BY <1>1 DEF HookCounts, BatchIsOpen
<1>5. ASSUME NEW a \in Alerts PROVE AlertInv(a)'
  <2>1. AlertInv(a) /\ posts[a] \in Nat /\ accepted[a] \in Nat /\ doubts[a] \in Nat /\ undone[a] \in Nat
    BY <1>1 DEF HookInv, HookCounts
  <2>2. CASE a \notin loop.told
    <3>1. undone'[a] = undone[a] /\ a \notin loop'.told
      BY <1>1, <2>2
    <3>2. CASE thread'[a] = thread[a]
      BY <1>1, <2>1, <2>2, <3>1, <3>2, AlertStays
    <3>3. CASE thread[a] \in {"post", "enqueue"} /\ thread'[a] = "lost"
      BY <1>1, <2>1, <3>1, <3>3
      DEF AlertInv, FirstPost, RowCounts, BatchCounts, GoneCounts, Queued
    <3> QED
      BY <1>2, <3>2, <3>3
  <2>3. CASE a \in loop.told
    <3>1. Queued(a) /\ undone'[a] = undone[a] + 1 /\ a \notin loop'.told
      BY <1>1, <2>3 DEF HookInv, BatchIsOpen
    <3>2. thread[a] = "queued" /\ thread'[a] = "queued" /\ row[a].attempts \in Nat
      BY <1>1, <1>2, <2>1, <3>1, RowsAre DEF AlertInv, FirstPost, HookTypeOK, Queued
    <3>3. BatchCounts(a) /\ RowCounts(a) /\ doubts[a] <= accepted[a]
      BY <2>1 DEF AlertInv
    <3>4. RowCounts(a)'
      BY <1>1, <2>1, <2>3, <3>1, <3>2, <3>3 DEF RowCounts, BatchCounts, Queued
    <3> QED
      BY <1>1, <3>1, <3>2, <3>3, <3>4 DEF AlertInv, FirstPost, BatchCounts, GoneCounts, Queued
  <2> QED
    BY <2>2, <2>3
<1> QED
  BY <1>3, <1>4, <1>5 DEF HookInv

(* Time makes rows due; it counts no attempt. *)
LEMMA TickKeepsInv ==
    ASSUME HookAssumptions, HookInv, Tick
    PROVE  HookInv'
<1> DEFINE Older(r) == IF r = NoRow \/ r.wait = -Late THEN r ELSE [r EXCEPT !.wait = @ - 1]
<1>1. /\ HookTypeOK /\ HookCounts /\ BatchIsOpen
      /\ UNCHANGED <<thread, stuck, posts, accepted, doubts, undone, faults>>
      /\ row' = [a \in Alerts |-> Older(row[a])]
      /\ loop' = [loop EXCEPT !.kept = [a \in Alerts |-> Older(@[a])]]
  BY DEF HookInv, Tick
<1>2. ASSUME NEW r \in Row \cup {NoRow}
      PROVE  /\ Older(r) \in Row \cup {NoRow} /\ Older(r).attempts = r.attempts
             /\ Older(r) = NoRow <=> r = NoRow
  <2>1. CASE r = NoRow \/ r.wait = -Late
    BY <2>1
  <2>2. CASE r # NoRow /\ r.wait # -Late
    <3>1. r \in Row /\ r.wait - 1 \in -Late..Backoff[MaxAttempts - 1]
      <4>1. Late \in Nat /\ Backoff[MaxAttempts - 1] \in Nat
        BY DEF HookAssumptions
      <4> QED
        BY <2>2, <4>1 DEF Row
    <3>2. [r EXCEPT !.wait = @ - 1] \in Row /\ [r EXCEPT !.wait = @ - 1].attempts = r.attempts
      BY <3>1 DEF Row
    <3> QED
      BY <2>2, <3>1, <3>2, RowsAre
  <2> QED
    BY <2>1, <2>2
<1> HIDE DEF Older
<1>3. /\ loop' \in [pc : {"sleep", "batch"}, todo : SUBSET Alerts,
                    kept : [Alerts -> Row \cup {NoRow}], told : SUBSET Alerts]
      /\ loop'.pc = loop.pc /\ loop'.todo = loop.todo /\ loop'.told = loop.told
      /\ \A a \in Alerts : loop'.kept[a] = Older(loop.kept[a]) /\ loop.kept[a] \in Row \cup {NoRow}
      /\ \A a \in Alerts : row'[a] = Older(row[a]) /\ row[a] \in Row \cup {NoRow}
      /\ row' \in [Alerts -> Row \cup {NoRow}]
  BY <1>1, <1>2 DEF HookTypeOK
<1>4. HookTypeOK'
  BY <1>1, <1>3 DEF HookTypeOK
<1>5. HookCounts' /\ BatchIsOpen'
  BY <1>1, <1>2, <1>3 DEF HookCounts, BatchIsOpen, Queued, HookTypeOK
<1>6. ASSUME NEW a \in Alerts PROVE AlertInv(a)'
  <2>1. /\ row'[a].attempts = row[a].attempts /\ (Queued(a)' <=> Queued(a))
        /\ loop'.kept[a].attempts = loop.kept[a].attempts
        /\ (loop'.kept[a] = NoRow <=> loop.kept[a] = NoRow)
    BY <1>2, <1>3 DEF Queued
  <2>2. AlertInv(a)
    BY DEF HookInv
  <2> QED
    BY <1>1, <1>3, <2>1, <2>2 DEF AlertInv, FirstPost, RowCounts, BatchCounts, GoneCounts, IsDone
<1> QED
  BY <1>4, <1>5, <1>6 DEF HookInv

-----------------------------------------------------------------------------
(***************************************************************************)
(* The inductive invariant: the attempts that a row counts, the outcomes   *)
(* that the open batch holds and those that were taken back are together   *)
(* all POSTs of the alert.                                                 *)
(***************************************************************************)
THEOREM HookInvariance ==
    ASSUME HookAssumptions
    PROVE  HookSpec => []HookInv
<1>1. HookInit => HookInv
  BY HookInitInv
<1>2. HookInv /\ [HookNext]_hookVars => HookInv'
  <2> SUFFICES ASSUME HookInv, [HookNext]_hookVars PROVE HookInv'
    OBVIOUS
  <2>1. CASE ResolverReturns
    BY <2>1 DEF ResolverReturns, HookInv, HookTypeOK, HookCounts, BatchIsOpen, AlertInv, FirstPost,
       RowCounts, BatchCounts, GoneCounts, IsDone, Queued, HookAssumptions
  <2>2. CASE UNCHANGED hookVars
    BY <2>2 DEF hookVars, HookInv, HookTypeOK, HookCounts, BatchIsOpen, AlertInv, FirstPost,
       RowCounts, BatchCounts, GoneCounts, IsDone, Queued
  <2> QED
    BY <2>1, <2>2, DispatchKeepsInv, BeginKeepsInv, RetryKeepsInv, CommitKeepsInv,
       RollbackKeepsInv, TickKeepsInv DEF HookNext, RetryLoop
<1> QED
  BY <1>1, <1>2, PTL DEF HookSpec

(***************************************************************************)
(* The queue stays well typed; no more resolvers hang than there are slots.*)
(***************************************************************************)
THEOREM HookTypes ==
    ASSUME HookAssumptions
    PROVE  HookSpec => []HookTypeOK
<1>1. HookInv => HookTypeOK
  BY DEF HookInv
<1> QED
  BY <1>1, HookInvariance, PTL

(***************************************************************************)
(* No alert leaves the queue undelivered with attempts left, a broken      *)
(* webhook is called a bounded number of times, and an alert arrives twice *)
(* only when the server could not know that it had arrived: across crashes *)
(* and batches that are rolled back.                                       *)
(***************************************************************************)
THEOREM AlertsAccounted ==
    ASSUME HookAssumptions
    PROVE  HookSpec => []AlertsAreAccountedFor
<1>1. ASSUME HookInv, NEW a \in Alerts
      PROVE  /\ thread[a] = "queued" /\ ~Queued(a) => accepted[a] > doubts[a] \/ posts[a] >= 1 + MaxAttempts
             /\ posts[a] <= 1 + MaxAttempts + undone[a]
             /\ accepted[a] <= 1 + doubts[a] + undone[a]
  <2>1. /\ posts[a] \in Nat /\ accepted[a] \in Nat /\ doubts[a] \in Nat /\ undone[a] \in Nat
        /\ MaxAttempts \in Nat \ {0} /\ AlertInv(a)
    BY <1>1 DEF HookInv, HookCounts, HookAssumptions
  <2>2. CASE thread[a] # "queued"
    <3>1. thread[a] \in {"new", "post", "enqueue", "sent", "lost"}
      BY <1>1, <2>2 DEF HookInv, HookTypeOK
    <3>2. posts[a] <= 1 /\ accepted[a] <= 1
      BY <2>1, <3>1 DEF AlertInv, FirstPost
    <3> QED
      BY <2>1, <2>2, <3>2
  <2>3. CASE Queued(a)
    <3>1. row[a].attempts \in Nat /\ row[a].attempts < MaxAttempts
      BY <1>1, <2>1, <2>3, RowsAre DEF HookInv, HookTypeOK, Queued, AlertInv, RowCounts
    <3> QED
      BY <2>1, <2>3, <3>1 DEF AlertInv, RowCounts, BatchCounts
  <2>4. CASE thread[a] = "queued" /\ ~Queued(a)
    BY <2>1, <2>4 DEF AlertInv, GoneCounts, IsDone
  <2> QED
    BY <2>2, <2>3, <2>4
<1>2. HookInv => AlertsAreAccountedFor
  BY <1>1 DEF AlertsAreAccountedFor, GoneMeansDone, BoundedAttempts, DuplicatesAreDoubts
<1> QED
  BY <1>2, HookInvariance, PTL

-----------------------------------------------------------------------------
(*****************************************************************************)
(* Rental alerts                                                             *)
(*****************************************************************************)
(* An evaluation is of now or of the unit before; nothing is stamped later than now. *)
RentalClock ==
    /\ \A e \in Evaluators : job[e] # IdleEvaluation => job[e].now <= minute /\ minute <= job[e].now + 1
    /\ \A r \in Rentals : ended[r] = Unknown \/ ended[r] <= minute

(* What an evaluation has still to judge was recent when it began. *)
JobIsRecent(e) ==
    /\ job[e].pc = "idle" => job[e] = IdleEvaluation
    /\ \A r \in job[e].todo : IsRecent(r, job[e].now)
    /\ job[e].pc = "claim" => job[e].at \in Rentals /\ IsRecent(job[e].at, job[e].now)

(* A slot is of a rental that had ended before. *)
SlotIsLater(n, r) ==
    slot[n][r] # 0 => ended[r] # Open /\ (ended[r] = Unknown \/ ended[r] <= slot[n][r])

(* No evaluation, under way or to come, finds the rental recent. *)
IsOver(r) == ended[r] \in Times /\ ended[r] + RecentWindow + 1 < minute

(* An alert whose slot is free has not been told, unless it is never looked at again. *)
FreeIsUntold(n, r) ==
    slot[n][r] = 0 /\ ~IsOver(r) => handed[r] = 0 /\ \A e \in Evaluators : r \notin job[e].out

(* It is handed on, or about to be by one evaluation, or neither. *)
HandedOnce(r) ==
    /\ handed[r] <= 1
    /\ \A e, f \in Evaluators : r \in job[e].out => handed[r] = 0 /\ (r \in job[f].out => e = f)

RentalInv ==
    /\ RentalTypeOK /\ RentalClock
    /\ \A e \in Evaluators : JobIsRecent(e)
    /\ \A n \in Names, r \in Rentals : SlotIsLater(n, r)

ToldInv ==
    \A r \in Rentals \ excused : HandedOnce(r) /\ \A n \in Names : FreeIsUntold(n, r)

-----------------------------------------------------------------------------
(* What a step of one evaluation leaves of the others. *)
LEMMA JobAfter ==
    ASSUME job \in [Evaluators -> [pc : {"idle", "look", "claim", "dispatch"}, todo : SUBSET Rentals,
                                   at : Rentals \cup {NoRental}, out : SUBSET Rentals,
                                   now : {0} \cup Times]],
           NEW e \in Evaluators, NEW j, JobBecomes(e, j)
    PROVE  job'[e] = j /\ \A f \in Evaluators : f # e => job'[f] = job[f]
  BY DEF JobBecomes

(* Nothing is claimed or told yet. *)
LEMMA RentalInitInv ==
    ASSUME RentalAssumptions, RentalInit
    PROVE  RentalInv /\ ToldInv /\ ClaimedIsTold
<1>1. IdleEvaluation \in [pc : {"idle", "look", "claim", "dispatch"}, todo : SUBSET Rentals,
                          at : Rentals \cup {NoRental}, out : SUBSET Rentals, now : {0} \cup Times]
  BY DEF IdleEvaluation
<1>2. RentalTypeOK
  BY <1>1 DEF RentalAssumptions, RentalInit, RentalTypeOK, Times, Open, Unknown
<1>3. /\ \A e \in Evaluators : job[e] = IdleEvaluation
      /\ \A r \in Rentals : ended[r] = 0 /\ handed[r] = 0
      /\ \A n \in Names, r \in Rentals : slot[n][r] = 0
      /\ minute = 1
  BY DEF RentalInit, Open
<1>e. \A e \in Evaluators : job[e].out = {}
  BY <1>3 DEF IdleEvaluation
<1>4. RentalClock /\ \A e \in Evaluators : JobIsRecent(e)
  BY <1>3 DEF RentalClock, JobIsRecent, IdleEvaluation
<1>5. \A n \in Names, r \in Rentals : SlotIsLater(n, r)
  BY <1>3 DEF SlotIsLater
<1>6. ToldInv
  <2>1. ASSUME NEW r \in Rentals, NEW n \in Names
        PROVE  FreeIsUntold(n, r)
    BY <1>3, <1>e DEF FreeIsUntold
  <2>2. ASSUME NEW r \in Rentals
        PROVE  HandedOnce(r)
    BY <1>3, <1>e DEF HandedOnce
  <2> QED
    BY <2>1, <2>2 DEF ToldInv
<1>7. ClaimedIsTold
  <2> SUFFICES ASSUME NEW n \in Names, NEW r \in Rentals
               PROVE  slot[n][r] = 0
    BY DEF ClaimedIsTold
  <2> QED
    BY <1>3
<1> QED
  BY <1>2, <1>4, <1>5, <1>6, <1>7 DEF RentalInv

-----------------------------------------------------------------------------
(* No step outdates a rental's end or brings an old rental back. *)
LEMMA OverStays ==
    ASSUME RentalAssumptions, RentalTypeOK, minute' \in Times, minute <= minute',
           NEW r \in Rentals, ended'[r] = ended[r], IsOver(r)
    PROVE  IsOver(r)'
  BY DEF IsOver, RentalAssumptions, RentalTypeOK, Times, Open, Unknown

(* What is over is not recent for an evaluation of now or of the unit before. *)
LEMMA OverIsNotRecent ==
    ASSUME RentalAssumptions, RentalTypeOK, NEW r \in Rentals, NEW t \in {0} \cup Times,
           minute <= t + 1, IsOver(r)
    PROVE  ~IsRecent(r, t)
  BY DEF IsOver, IsRecent, RentalAssumptions, RentalTypeOK, Times, Open, Unknown

(* Pruning frees only the slots of rentals that no evaluation will judge again, *)
(* but for those whose end is not known.                                        *)
LEMMA BeginEvaluationKeepsInv ==
    ASSUME RentalAssumptions, RentalInv, ClaimedIsTold, NEW e \in Evaluators, Begin(e)
    PROVE  RentalInv' /\ ClaimedIsTold' /\ (ToldInv => ToldInv')
<1>1. /\ RentalTypeOK /\ job[e] = IdleEvaluation
      /\ UNCHANGED <<ended, minute, hitches, handed, lostAlerts>>
      /\ excused' = excused \cup {r \in Rentals : ended[r] = Unknown /\ Stale(r) # {}}
  BY DEF RentalInv, Begin
<1>t. PICK T : T = {r \in Rentals : IsRecent(r, minute)}
  OBVIOUS
<1> DEFINE j == [IdleEvaluation EXCEPT !.pc = "look", !.now = minute, !.todo = T]
<1>2. JobBecomes(e, j)
  BY <1>t, Zenon DEF Begin
<1>j. j.pc = "look" /\ j.todo = T /\ j.out = {} /\ j.now = minute
  BY DEF IdleEvaluation
<1>r. j \in [pc : {"idle", "look", "claim", "dispatch"}, todo : SUBSET Rentals,
             at : Rentals \cup {NoRental}, out : SUBSET Rentals, now : {0} \cup Times]
  <2>1. IdleEvaluation \in [pc : {"idle", "look", "claim", "dispatch"}, todo : SUBSET Rentals,
               at : Rentals \cup {NoRental}, out : SUBSET Rentals, now : {0} \cup Times]
    BY DEF IdleEvaluation
  <2>2. minute \in Times /\ T \subseteq Rentals
    BY <1>1, <1>t DEF RentalTypeOK
  <2> QED
    BY <2>1, <2>2
<1> HIDE DEF j
<1>3. job'[e] = j /\ \A f \in Evaluators : f # e => job'[f] = job[f]
  BY <1>1, <1>2, JobAfter DEF RentalTypeOK
<1>4. \A n \in Names, r \in Rentals : slot'[n][r] = IF n \in Stale(r) THEN 0 ELSE slot[n][r]
  BY DEF Begin
<1>o. IdleEvaluation.out = {}
  BY DEF IdleEvaluation
<1>5. \A f \in Evaluators : job'[f].out = job[f].out
  BY <1>1, <1>3, <1>j, <1>o
<1>6. RentalTypeOK'
  <2>2. slot' \in [Names -> [Rentals -> {0} \cup Times]]
    BY <1>1 DEF Begin, RentalTypeOK
  <2> QED
    BY <1>1, <1>2, <1>r, <2>2 DEF RentalTypeOK, JobBecomes
<1>7. RentalClock'
  BY <1>1, <1>3, <1>j DEF RentalInv, RentalClock, RentalTypeOK, Times
<1>8. ASSUME NEW f \in Evaluators
      PROVE  JobIsRecent(f)'
  <2>1. CASE f = e
    BY <1>1, <1>3, <1>j, <1>t, <2>1 DEF JobIsRecent, IsRecent
  <2>2. CASE f # e
    <3>1. job'[f] = job[f] /\ JobIsRecent(f)
      BY <1>3, <2>2 DEF RentalInv
    <3> QED
      BY <1>1, <3>1 DEF JobIsRecent, IsRecent
  <2> QED
    BY <2>1, <2>2
<1>9. \A n \in Names, r \in Rentals : SlotIsLater(n, r)'
  BY <1>1, <1>4 DEF RentalInv, SlotIsLater
<1>10. ASSUME ToldInv
       PROVE  ToldInv'
  <2> SUFFICES ASSUME NEW r \in Rentals \ excused'
               PROVE  HandedOnce(r)' /\ \A n \in Names : FreeIsUntold(n, r)'
    BY DEF ToldInv
  <2>1. r \in Rentals \ excused /\ (ended[r] = Unknown => Stale(r) = {})
    BY <1>1
  <2>2. HandedOnce(r)'
    BY <1>1, <1>5, <1>10, <2>1 DEF ToldInv, HandedOnce
  <2>3. ASSUME NEW n \in Names, slot'[n][r] = 0, ~IsOver(r)
        PROVE  slot[n][r] = 0
    <3>1. SUFFICES ASSUME n \in Stale(r)
                   PROVE  slot[n][r] = 0
      BY <1>4, <2>3
    <3>2. ended[r] # Unknown /\ SlotIsLater(n, r)
      BY <2>1, <3>1 DEF RentalInv
    <3>3. slot[n][r] # 0 => ended[r] # Open /\ ended[r] <= slot[n][r]
      BY <3>2 DEF SlotIsLater
    <3>4. slot[n][r] + PruneAfter < minute
      BY <3>1 DEF Stale
    <3>5. slot[n][r] \in {0} \cup Times
      BY <1>1 DEF RentalTypeOK
    <3> QED
      BY <1>1, <2>3, <3>2, <3>3, <3>4, <3>5
         DEF IsOver, RentalAssumptions, RentalTypeOK, Times, Open, Unknown
  <2>4. IsOver(r)' <=> IsOver(r)
    BY <1>1 DEF IsOver
  <2> QED
    BY <1>1, <1>5, <1>10, <2>1, <2>2, <2>3, <2>4 DEF ToldInv, FreeIsUntold
<1>11. ClaimedIsTold'
  BY <1>1, <1>4, <1>5 DEF ClaimedIsTold
<1> QED
  BY <1>6, <1>7, <1>8, <1>9, <1>10, <1>11 DEF RentalInv

(* A step that takes an evaluation on, hands nothing on and frees no slot. *)
LEMMA JobStepKeepsInv ==
    ASSUME RentalAssumptions, RentalInv, NEW e \in Evaluators, JobIsRecent(e)',
           NEW j \in [pc : {"idle", "look", "claim", "dispatch"}, todo : SUBSET Rentals,
                      at : Rentals \cup {NoRental}, out : SUBSET Rentals, now : {0} \cup Times],
           JobBecomes(e, j), j = IdleEvaluation \/ (job[e] # IdleEvaluation /\ j.now = job[e].now),
           UNCHANGED <<ended, minute>>, hitches' \in 0..MaxHitches,
           handed' \in [Rentals -> 0..2], lostAlerts' \subseteq Rentals, excused' \subseteq Rentals,
           slot' \in [Names -> [Rentals -> {0} \cup Times]],
           \A n \in Names, r \in Rentals : slot'[n][r] = slot[n][r] \/ SlotIsLater(n, r)'
    PROVE  RentalInv'
<1>1. job'[e] = j /\ \A f \in Evaluators : f # e => job'[f] = job[f]
  BY JobAfter DEF RentalInv, RentalTypeOK
<1>2. RentalTypeOK'
  BY DEF RentalInv, RentalTypeOK, JobBecomes
<1>3. RentalClock'
  BY <1>1 DEF RentalInv, RentalClock
<1>4. ASSUME NEW f \in Evaluators
      PROVE  JobIsRecent(f)'
  BY <1>1 DEF RentalInv, JobIsRecent, IsRecent
<1>5. ASSUME NEW n \in Names, NEW r \in Rentals
      PROVE  SlotIsLater(n, r)'
  BY DEF RentalInv, SlotIsLater
<1> QED
  BY <1>2, <1>3, <1>4, <1>5 DEF RentalInv

(* One that finds nothing new and takes no slot disturbs no alert. *)
LEMMA QuietJobKeepsAlerts ==
    ASSUME RentalInv, ClaimedIsTold, NEW e \in Evaluators,
           \A f \in Evaluators : job'[f].out \subseteq job[f].out,
           UNCHANGED <<ended, minute, slot, handed>>, excused \subseteq excused',
           lostAlerts \subseteq lostAlerts',
           \A f \in Evaluators : job[f].out \ job'[f].out \subseteq lostAlerts'
    PROVE  ClaimedIsTold' /\ (ToldInv => ToldInv')
<1>1. ASSUME ToldInv
      PROVE  ToldInv'
  <2> SUFFICES ASSUME NEW r \in Rentals \ excused'
               PROVE  HandedOnce(r)' /\ \A n \in Names : FreeIsUntold(n, r)'
    BY DEF ToldInv
  <2>1. HandedOnce(r) /\ \A n \in Names : FreeIsUntold(n, r)
    BY <1>1 DEF ToldInv
  <2>2. HandedOnce(r)'
    BY <2>1 DEF HandedOnce
  <2>3. IsOver(r)' <=> IsOver(r)
    BY DEF IsOver
  <2> QED
    BY <2>1, <2>2, <2>3 DEF FreeIsUntold
<1>2. ClaimedIsTold'
  BY DEF ClaimedIsTold
<1> QED
  BY <1>1, <1>2

(* A look moves one rental of an evaluation that is under way. *)
LEMMA LookKeepsInv ==
    ASSUME RentalAssumptions, RentalInv, ClaimedIsTold, NEW e \in Evaluators, LookAtRental(e)
    PROVE  RentalInv' /\ ClaimedIsTold' /\ (ToldInv => ToldInv')
<1>1. /\ RentalTypeOK /\ JobIsRecent(e) /\ job[e].pc = "look"
      /\ UNCHANGED <<ended, slot, minute, hitches, handed, lostAlerts, excused>>
  BY DEF RentalInv, LookAtRental
<1>i. job[e] # IdleEvaluation
  BY <1>1 DEF IdleEvaluation
<1> DEFINE Type == [pc : {"idle", "look", "claim", "dispatch"}, todo : SUBSET Rentals,
                   at : Rentals \cup {NoRental}, out : SUBSET Rentals, now : {0} \cup Times]
           Goes(j) == /\ JobBecomes(e, j)
                      /\ j.pc # "idle" /\ j.now = job[e].now /\ j.out = job[e].out
                      /\ j.todo \subseteq job[e].todo
                      /\ j.pc = "claim" => j.at \in job[e].todo
<1>2. PICK j \in Type : Goes(j)
  <2>1. job[e] \in Type
    BY <1>1 DEF RentalTypeOK
  <2>2. ASSUME JobBecomes(e, [job[e] EXCEPT !.pc = "dispatch"])
        PROVE  \E j \in Type : Goes(j)
    <3>1. [job[e] EXCEPT !.pc = "dispatch"] \in Type
      BY <2>1
    <3> QED
      BY <2>1, <2>2, <3>1
  <2>3. ASSUME NEW r \in job[e].todo,
               JobBecomes(e, [job[e] EXCEPT !.pc = "claim", !.todo = @ \ {r}, !.at = r])
        PROVE  \E j \in Type : Goes(j)
    <3>1. [job[e] EXCEPT !.pc = "claim", !.todo = @ \ {r}, !.at = r] \in Type
      BY <2>1
    <3> QED
      BY <2>1, <2>3, <3>1
  <2>4. ASSUME NEW r \in job[e].todo, JobBecomes(e, [job[e] EXCEPT !.todo = @ \ {r}])
        PROVE  \E j \in Type : Goes(j)
    <3>1. [job[e] EXCEPT !.todo = @ \ {r}] \in Type
      BY <2>1
    <3> QED
      BY <1>1, <2>1, <2>4, <3>1
  <2> QED
    BY <2>2, <2>3, <2>4, Zenon DEF LookAtRental
<1>j. /\ j.pc # "idle" /\ j.now = job[e].now /\ j.out = job[e].out /\ j.todo \subseteq job[e].todo
      /\ j.pc = "claim" => j.at \in job[e].todo
      /\ JobBecomes(e, j)
  BY <1>2
<1>3. job'[e] = j /\ \A f \in Evaluators : f # e => job'[f] = job[f]
  BY <1>1, <1>2, JobAfter DEF RentalTypeOK
<1>4. JobIsRecent(e)'
  <2>1. /\ job'[e].pc # "idle" /\ job'[e].now = job[e].now /\ job'[e].todo \subseteq job[e].todo
        /\ job'[e].pc = "claim" => job'[e].at \in job[e].todo
    BY <1>j, <1>3
  <2>2. job[e].todo \subseteq Rentals
    BY <1>1 DEF RentalTypeOK
  <2>3. \A r \in job[e].todo : IsRecent(r, job[e].now)
    BY <1>1 DEF JobIsRecent
  <2> QED
    BY <1>1, <2>1, <2>2, <2>3 DEF JobIsRecent, IsRecent
<1>5. RentalInv'
  BY <1>1, <1>2, <1>i, <1>j, <1>4, JobStepKeepsInv DEF RentalTypeOK
<1>6. ClaimedIsTold' /\ (ToldInv => ToldInv')
  BY <1>1, <1>j, <1>3, QuietJobKeepsAlerts
<1> QED
  BY <1>5, <1>6

(* A rental that is claimed has not been told, and is told by nobody else. *)
LEMMA ClaimKeepsInv ==
    ASSUME RentalAssumptions, PanelTenant = SweepTenant,
           RentalInv, ToldInv, NEW e \in Evaluators, ClaimSlot(e) \/ ClaimFails(e)
    PROVE  ToldInv'
<1> DEFINE at == job[e].at
<1>1. /\ RentalTypeOK /\ JobIsRecent(e) /\ job[e].pc = "claim"
      /\ UNCHANGED <<ended, minute, handed, lostAlerts>> /\ excused \subseteq excused'
  BY DEF RentalInv, ClaimSlot, ClaimFails
<1>2. at \in Rentals /\ IsRecent(at, job[e].now) /\ job[e].now \in {0} \cup Times
      /\ minute <= job[e].now + 1
  <2>1. job[e] # IdleEvaluation
    BY <1>1 DEF IdleEvaluation
  <2> QED
    BY <1>1, <2>1 DEF JobIsRecent, RentalInv, RentalClock, RentalTypeOK
<1>3. ~IsOver(at)
  BY <1>1, <1>2, OverIsNotRecent
<1>4. \A n \in Names : n = Name[e]
  BY DEF Names, Name
<1>5. \A f \in Evaluators : f # e => job'[f] = job[f]
  BY <1>1 DEF ClaimSlot, ClaimFails, JobBecomes, RentalTypeOK
<1> SUFFICES ASSUME NEW r \in Rentals \ excused'
             PROVE  HandedOnce(r)' /\ \A n \in Names : FreeIsUntold(n, r)'
  BY DEF ToldInv
<1>6. HandedOnce(r) /\ \A n \in Names : FreeIsUntold(n, r)
  BY <1>1 DEF ToldInv
<1>7. IsOver(r)' <=> IsOver(r)
  BY <1>1 DEF IsOver
<1>8. CASE ClaimSlot(e) /\ Slot(e, at) = 0 /\ r = at
  <2>1. job'[e].out = job[e].out \cup {at} /\ slot'[Name[e]][at] # 0
    <3>1. job' = [job EXCEPT ![e] = Claimed(e)] /\ Claimed(e).out = job[e].out \cup {at}
      BY <1>1, <1>8 DEF ClaimSlot, JobBecomes, Claimed, RentalTypeOK
    <3>2. slot' = [slot EXCEPT ![Name[e]][at] = minute] /\ Name[e] \in Names /\ minute # 0
      BY <1>1, <1>8 DEF ClaimSlot, SlotTaken, Name, Names, RentalTypeOK, Times
    <3> QED
      BY <1>1, <1>2, <3>1, <3>2 DEF RentalTypeOK
  <2>2. handed[r] = 0 /\ \A f \in Evaluators : r \notin job[f].out
    BY <1>3, <1>4, <1>6, <1>8 DEF FreeIsUntold, Slot, Names
  <2>3. HandedOnce(r)'
    BY <1>1, <1>5, <2>2 DEF HandedOnce
  <2> QED
    BY <1>4, <1>8, <2>1, <2>3 DEF FreeIsUntold
<1>9. CASE ~(ClaimSlot(e) /\ Slot(e, at) = 0 /\ r = at)
  <2>1. r \in job'[e].out => r \in job[e].out
    <3>1. job' = [job EXCEPT ![e] = Claimed(e)] \/ job' = [job EXCEPT ![e] = Passed(e)]
      BY DEF ClaimSlot, ClaimFails, JobBecomes
    <3>2. /\ Claimed(e).out = job[e].out \cup {at} /\ Passed(e).out = job[e].out
      BY <1>1 DEF Claimed, Passed, RentalTypeOK
    <3>3. CASE ClaimFails(e)
      <4>1. r # at
        BY <3>3 DEF ClaimFails
      <4> QED
        BY <1>1, <3>1, <3>2, <4>1 DEF RentalTypeOK
    <3>4. CASE ClaimSlot(e) /\ Slot(e, at) = 0
      BY <1>1, <1>9, <3>1, <3>2, <3>4 DEF RentalTypeOK
    <3>5. CASE ClaimSlot(e) /\ Slot(e, at) # 0
      <4>1. job' = [job EXCEPT ![e] = Passed(e)]
        BY <3>5 DEF ClaimSlot, JobBecomes
      <4> QED
        BY <1>1, <3>2, <4>1 DEF RentalTypeOK
    <3> QED
      BY <3>3, <3>4, <3>5
  <2>2. \A n \in Names : slot'[n][r] = slot[n][r]
    <3>1. slot' = slot \/ (slot' = [slot EXCEPT ![Name[e]][at] = minute] /\ r # at)
      BY <1>9 DEF ClaimSlot, ClaimFails, SlotTaken
    <3> QED
      BY <1>1, <1>2, <3>1 DEF RentalTypeOK
  <2>3. \A f \in Evaluators : r \in job'[f].out => r \in job[f].out
    BY <1>5, <2>1
  <2>4. HandedOnce(r)'
    BY <1>1, <1>6, <2>3 DEF HandedOnce
  <2> QED
    BY <1>1, <1>6, <1>7, <2>2, <2>3, <2>4 DEF FreeIsUntold
<1> QED
  BY <1>8, <1>9

(* It has a slot of now, and is about to be handed on. *)
LEMMA ClaimKeepsSlots ==
    ASSUME RentalAssumptions, RentalInv, ClaimedIsTold,
           NEW e \in Evaluators, ClaimSlot(e) \/ ClaimFails(e)
    PROVE  RentalInv' /\ ClaimedIsTold'
<1> DEFINE at == job[e].at
           Type == [pc : {"idle", "look", "claim", "dispatch"}, todo : SUBSET Rentals,
                    at : Rentals \cup {NoRental}, out : SUBSET Rentals, now : {0} \cup Times]
<1>1. /\ RentalTypeOK /\ RentalClock /\ JobIsRecent(e) /\ job[e].pc = "claim" /\ job[e] \in Type
      /\ UNCHANGED <<ended, minute, handed, lostAlerts>>
  BY DEF RentalInv, ClaimSlot, ClaimFails, RentalTypeOK
<1>2. at \in Rentals /\ IsRecent(at, job[e].now) /\ job[e] # IdleEvaluation
  BY <1>1 DEF JobIsRecent, IdleEvaluation
<1>3. Name[e] \in Names /\ minute \in Times /\ minute # 0
  BY <1>1 DEF Name, Names, RentalTypeOK, Times
<1>4. PICK j \in Type :
        /\ JobBecomes(e, j) /\ j.now = job[e].now /\ j.pc = "look"
        /\ j.todo = job[e].todo /\ job[e].out \subseteq j.out
        /\ slot' # slot => at \in j.out
  <2>1. Claimed(e) \in Type /\ Passed(e) \in Type
    BY <1>1, <1>2 DEF Claimed, Passed
  <2>2. /\ Claimed(e).now = job[e].now /\ Passed(e).now = job[e].now
        /\ Claimed(e).pc = "look" /\ Passed(e).pc = "look"
        /\ Claimed(e).todo = job[e].todo /\ Passed(e).todo = job[e].todo
        /\ Claimed(e).out = job[e].out \cup {at} /\ Passed(e).out = job[e].out
    BY <1>1 DEF Claimed, Passed
  <2>3. JobBecomes(e, Claimed(e)) \/ (JobBecomes(e, Passed(e)) /\ slot' = slot)
    BY DEF ClaimSlot, ClaimFails
  <2> QED
    BY <2>1, <2>2, <2>3
<1>5. job'[e] = j /\ \A f \in Evaluators : f # e => job'[f] = job[f]
  <2>1. JobBecomes(e, j) /\ RentalTypeOK
    BY <1>1, <1>4
  <2> QED
    BY <2>1 DEF RentalTypeOK, JobBecomes
<1>6. \A n \in Names, r \in Rentals :
        slot'[n][r] = slot[n][r] \/ (r = at /\ slot' # slot /\ slot'[n][r] = minute)
  <2>1. slot' = slot \/ slot' = [slot EXCEPT ![Name[e]][at] = minute]
    BY DEF ClaimSlot, ClaimFails, SlotTaken
  <2> QED
    BY <1>1, <1>2, <1>3, <2>1 DEF RentalTypeOK
<1>7. RentalInv'
  <2>1. JobIsRecent(e)'
    BY <1>1, <1>4, <1>5 DEF JobIsRecent, IsRecent
  <2>2. \A n \in Names, r \in Rentals : slot'[n][r] = slot[n][r] \/ SlotIsLater(n, r)'
    BY <1>1, <1>2, <1>6 DEF SlotIsLater, IsRecent, RentalClock
  <2>3. slot' \in [Names -> [Rentals -> {0} \cup Times]]
    <3>1. slot' = slot \/ slot' = [slot EXCEPT ![Name[e]] = [slot[Name[e]] EXCEPT ![at] = minute]]
      BY DEF ClaimSlot, ClaimFails, SlotTaken
    <3>2. slot[Name[e]] \in [Rentals -> {0} \cup Times] /\ slot \in [Names -> [Rentals -> {0} \cup Times]]
      BY <1>1, <1>3 DEF RentalTypeOK
    <3>3. [slot[Name[e]] EXCEPT ![at] = minute] \in [Rentals -> {0} \cup Times]
      BY <1>3, <3>2
    <3> QED
      BY <1>3, <3>1, <3>2, <3>3
  <2>4. hitches' \in 0..MaxHitches /\ excused' \subseteq Rentals
    BY <1>1, <1>2 DEF ClaimSlot, ClaimFails, Hitch, RentalTypeOK, RentalAssumptions
  <2>5. /\ JobBecomes(e, j) /\ j.now = job[e].now
        /\ UNCHANGED <<ended, minute>>
        /\ handed' \in [Rentals -> 0..2] /\ lostAlerts' \subseteq Rentals
    BY <1>1, <1>4 DEF RentalTypeOK
  <2> QED
    BY <1>2, <2>1, <2>2, <2>3, <2>4, <2>5, JobStepKeepsInv
<1>8. ClaimedIsTold'
  <2>1. \A f \in Evaluators : job[f].out \subseteq job'[f].out
    BY <1>4, <1>5
  <2>2. slot' # slot => at \in job'[e].out
    BY <1>4, <1>5
  <2> QED
    BY <1>1, <1>6, <2>1, <2>2 DEF ClaimedIsTold
<1> QED
  BY <1>7, <1>8

(* What an evaluation found is handed on, once. *)
LEMMA DispatchAlertsKeepsInv ==
    ASSUME RentalAssumptions, RentalInv, ClaimedIsTold, NEW e \in Evaluators, DispatchAlerts(e)
    PROVE  RentalInv' /\ ClaimedIsTold' /\ (ToldInv => ToldInv')
<1>1. /\ RentalTypeOK /\ JobBecomes(e, IdleEvaluation)
      /\ UNCHANGED <<ended, slot, minute, hitches, lostAlerts, excused>>
  BY DEF RentalInv, DispatchAlerts
<1>2. /\ IdleEvaluation.out = {} /\ IdleEvaluation.pc = "idle" /\ IdleEvaluation.todo = {}
      /\ IdleEvaluation \in [pc : {"idle", "look", "claim", "dispatch"}, todo : SUBSET Rentals,
               at : Rentals \cup {NoRental}, out : SUBSET Rentals, now : {0} \cup Times]
  BY DEF IdleEvaluation
<1>3. job'[e] = IdleEvaluation /\ \A f \in Evaluators : f # e => job'[f] = job[f]
  BY <1>1, JobAfter DEF RentalTypeOK
<1>4. \A r \in Rentals : handed'[r] = IF r \in job[e].out /\ handed[r] < 2 THEN handed[r] + 1
                                                                       ELSE handed[r]
  BY DEF DispatchAlerts
<1>5. \A r \in Rentals : handed[r] \in 0..2
  BY <1>1 DEF RentalTypeOK
<1>6. RentalInv'
  <2>1. JobIsRecent(e)'
    BY <1>2, <1>3 DEF JobIsRecent
  <2>2. handed' \in [Rentals -> 0..2]
    BY <1>5 DEF DispatchAlerts
  <2>3. /\ hitches' \in 0..MaxHitches /\ lostAlerts' \subseteq Rentals /\ excused' \subseteq Rentals
        /\ slot' \in [Names -> [Rentals -> {0} \cup Times]]
        /\ \A n \in Names, r \in Rentals : slot'[n][r] = slot[n][r] \/ SlotIsLater(n, r)'
        /\ UNCHANGED <<ended, minute>>
    BY <1>1 DEF RentalTypeOK
  <2> QED
    BY <1>1, <1>2, <2>1, <2>2, <2>3, JobStepKeepsInv
<1>7. ClaimedIsTold'
  <2> SUFFICES ASSUME NEW n \in Names, NEW r \in Rentals \ lostAlerts, slot[n][r] # 0
               PROVE  handed'[r] > 0 \/ \E f \in Evaluators : r \in job'[f].out
    BY <1>1 DEF ClaimedIsTold
  <2>1. handed[r] > 0 \/ \E f \in Evaluators : r \in job[f].out
    BY DEF ClaimedIsTold
  <2> QED
    BY <1>3, <1>4, <1>5, <2>1
<1>8. ASSUME ToldInv
      PROVE  ToldInv'
  <2> SUFFICES ASSUME NEW r \in Rentals \ excused
               PROVE  HandedOnce(r)' /\ \A n \in Names : FreeIsUntold(n, r)'
    BY <1>1 DEF ToldInv
  <2>1. HandedOnce(r) /\ \A n \in Names : FreeIsUntold(n, r)
    BY <1>8 DEF ToldInv
  <2>2. \A f \in Evaluators : r \in job'[f].out => f # e /\ r \in job[f].out
    BY <1>2, <1>3
  <2>3. HandedOnce(r)'
    BY <1>4, <1>5, <2>1, <2>2 DEF HandedOnce
  <2>4. IsOver(r)' <=> IsOver(r)
    BY <1>1 DEF IsOver
  <2> QED
    BY <1>1, <1>4, <1>5, <2>1, <2>2, <2>3, <2>4 DEF FreeIsUntold
<1> QED
  BY <1>6, <1>7, <1>8

(* A fault takes an alert away, and says so. *)
LEMMA RaiseKeepsInv ==
    ASSUME RentalAssumptions, RentalInv, ClaimedIsTold, NEW e \in Evaluators, RaiseEvaluation(e)
    PROVE  RentalInv' /\ ClaimedIsTold' /\ (ToldInv => ToldInv')
<1>1. /\ RentalTypeOK /\ JobBecomes(e, IdleEvaluation) /\ lostAlerts' = lostAlerts \cup job[e].out
      /\ UNCHANGED <<ended, slot, minute, handed, excused>>
  BY DEF RentalInv, RaiseEvaluation
<1>2. /\ IdleEvaluation.out = {} /\ IdleEvaluation.pc = "idle" /\ IdleEvaluation.todo = {}
      /\ IdleEvaluation \in [pc : {"idle", "look", "claim", "dispatch"}, todo : SUBSET Rentals,
               at : Rentals \cup {NoRental}, out : SUBSET Rentals, now : {0} \cup Times]
  BY DEF IdleEvaluation
<1>3. job'[e] = IdleEvaluation /\ \A f \in Evaluators : f # e => job'[f] = job[f]
  BY <1>1, JobAfter DEF RentalTypeOK
<1>4. RentalInv'
  <2>1. JobIsRecent(e)'
    BY <1>2, <1>3 DEF JobIsRecent
  <2>2. hitches' \in 0..MaxHitches
    BY <1>1 DEF RaiseEvaluation, Hitch, RentalTypeOK, RentalAssumptions
  <2>3. job[e].out \subseteq Rentals
    BY <1>1 DEF RentalTypeOK
  <2>4. /\ lostAlerts' \subseteq Rentals /\ excused' \subseteq Rentals
        /\ handed' \in [Rentals -> 0..2]
        /\ slot' \in [Names -> [Rentals -> {0} \cup Times]]
        /\ \A n \in Names, r \in Rentals : slot'[n][r] = slot[n][r] \/ SlotIsLater(n, r)'
        /\ UNCHANGED <<ended, minute>>
    BY <1>1, <2>3 DEF RentalTypeOK
  <2> QED
    BY <1>1, <1>2, <2>1, <2>2, <2>4, JobStepKeepsInv
<1>5. ClaimedIsTold' /\ (ToldInv => ToldInv')
  BY <1>1, <1>2, <1>3, QuietJobKeepsAlerts
<1> QED
  BY <1>4, <1>5

(* A crash takes what was claimed and not yet told. *)
LEMMA CrashKeepsAlerts ==
    ASSUME RentalAssumptions, RentalInv, ClaimedIsTold, RentalCrash
    PROVE  RentalInv' /\ ClaimedIsTold' /\ (ToldInv => ToldInv')
<1>1. /\ RentalTypeOK /\ UNCHANGED <<ended, slot, minute, handed, excused>>
      /\ \A e \in Evaluators : job'[e] = IdleEvaluation
      /\ lostAlerts' = lostAlerts \cup UNION {job[e].out : e \in Evaluators}
  BY DEF RentalInv, RentalCrash
<1>2. /\ IdleEvaluation.out = {} /\ IdleEvaluation.pc = "idle" /\ IdleEvaluation.todo = {}
      /\ IdleEvaluation \in [pc : {"idle", "look", "claim", "dispatch"}, todo : SUBSET Rentals,
               at : Rentals \cup {NoRental}, out : SUBSET Rentals, now : {0} \cup Times]
  BY DEF IdleEvaluation
<1>3. RentalTypeOK'
  <2>1. \A e \in Evaluators : job[e].out \subseteq Rentals
    BY <1>1 DEF RentalTypeOK
  <2>2. hitches' \in 0..MaxHitches
    BY <1>1 DEF RentalCrash, Hitch, RentalTypeOK, RentalAssumptions
  <2>3. job' = [e \in Evaluators |-> IdleEvaluation]
    BY DEF RentalCrash
  <2>4. lostAlerts' \subseteq Rentals
    BY <1>1, <2>1 DEF RentalTypeOK
  <2> QED
    BY <1>1, <1>2, <2>2, <2>3, <2>4 DEF RentalTypeOK
<1>4. RentalClock' /\ \A e \in Evaluators : JobIsRecent(e)'
  BY <1>1, <1>2 DEF RentalInv, RentalClock, JobIsRecent
<1>5. \A n \in Names, r \in Rentals : SlotIsLater(n, r)'
  BY <1>1 DEF RentalInv, SlotIsLater
<1>6. \A e \in Evaluators : job'[e].out = {} /\ job[e].out \subseteq lostAlerts'
  BY <1>1, <1>2
<1>7. ClaimedIsTold' /\ (ToldInv => ToldInv')
  <2>1. Sweep \in Evaluators
    BY DEF Evaluators
  <2> QED
    BY <1>1, <1>6, <2>1, QuietJobKeepsAlerts
<1> QED
  BY <1>3, <1>4, <1>5, <1>7 DEF RentalInv

(* A rental that ends has no slot and has not been told. *)
LEMMA EndKeepsInv ==
    ASSUME RentalAssumptions, RentalInv, ClaimedIsTold, NEW q \in Rentals, EndRental(q)
    PROVE  RentalInv' /\ ClaimedIsTold' /\ (ToldInv => ToldInv')
<1>1. /\ RentalTypeOK /\ ended[q] = Open
      /\ UNCHANGED <<slot, job, minute, hitches, handed, lostAlerts, excused>>
  BY DEF RentalInv, EndRental
<1>2. /\ minute \in Times /\ Open # Unknown /\ Open \notin Times /\ Times \subseteq Nat
      /\ Times \subseteq Open..Unknown /\ Unknown \in Open..Unknown /\ Unknown \notin Times
  BY <1>1 DEF RentalTypeOK, RentalAssumptions, Open, Unknown, Times
<1>3. PICK t \in {minute, Unknown} : ended' = [ended EXCEPT ![q] = t]
  BY DEF EndRental
<1>4. ended'[q] = t /\ \A r \in Rentals : r # q => ended'[r] = ended[r]
  BY <1>1, <1>3 DEF RentalTypeOK
<1>5. RentalTypeOK'
  BY <1>1, <1>2, <1>3 DEF RentalTypeOK
<1>6. RentalClock'
  BY <1>1, <1>2, <1>4 DEF RentalInv, RentalClock
<1>7. ASSUME NEW e \in Evaluators
      PROVE  JobIsRecent(e)'
  <2>1. JobIsRecent(e) /\ job[e].todo \subseteq Rentals
    BY <1>1 DEF RentalInv, RentalTypeOK
  <2>2. \A r \in Rentals, s \in {job[e].now} : IsRecent(r, s) => r # q /\ ended'[r] = ended[r]
    BY <1>1, <1>4 DEF IsRecent
  <2> QED
    BY <1>1, <2>1, <2>2 DEF JobIsRecent, IsRecent
<1>8. ASSUME NEW n \in Names, NEW r \in Rentals
      PROVE  SlotIsLater(n, r)'
  BY <1>1, <1>2, <1>4 DEF RentalInv, SlotIsLater
<1>9. ASSUME ToldInv
      PROVE  ToldInv'
  <2> SUFFICES ASSUME NEW r \in Rentals \ excused'
               PROVE  HandedOnce(r)' /\ \A n \in Names : FreeIsUntold(n, r)'
    BY DEF ToldInv
  <2>1. HandedOnce(r) /\ \A n \in Names : FreeIsUntold(n, r)
    BY <1>1, <1>9 DEF ToldInv
  <2>2. IsOver(r) => IsOver(r)'
    BY <1>1, <1>2, <1>4 DEF IsOver
  <2> QED
    BY <1>1, <2>1, <2>2 DEF HandedOnce, FreeIsUntold
<1>10. ClaimedIsTold'
  BY <1>1 DEF ClaimedIsTold
<1> QED
  BY <1>5, <1>6, <1>7, <1>8, <1>9, <1>10 DEF RentalInv

(* The clock does not run ahead of an evaluation. *)
LEMMA RentalTickKeepsInv ==
    ASSUME RentalAssumptions, RentalInv, ClaimedIsTold, RentalTick \/ UNCHANGED rentalVars
    PROVE  RentalInv' /\ ClaimedIsTold' /\ (ToldInv => ToldInv')
<1>1. RentalTypeOK /\ UNCHANGED <<ended, slot, job, hitches, handed, lostAlerts, excused>>
  BY DEF RentalInv, RentalTick, rentalVars
<1>2. minute' \in Times /\ minute <= minute' /\ minute \in Times /\ Times \subseteq Nat
  BY <1>1 DEF RentalTick, rentalVars, RentalTypeOK, Times, RentalAssumptions
<1>3. RentalTypeOK'
  BY <1>1, <1>2 DEF RentalTypeOK
<1>4. RentalClock'
  <2>1. ASSUME NEW e \in Evaluators, job[e] # IdleEvaluation
        PROVE  job[e].now <= minute' /\ minute' <= job[e].now + 1
    <3>1. job[e].now \in {0} \cup Times
      BY <1>1 DEF RentalTypeOK
    <3>2. job[e].now <= minute /\ minute <= job[e].now + 1
      BY <2>1 DEF RentalInv, RentalClock
    <3>3. minute' = minute \/ (minute' = minute + 1 /\ job[e].now = minute)
      BY <2>1 DEF RentalTick, rentalVars
    <3> QED
      BY <1>2, <3>1, <3>2, <3>3
  <2>2. ASSUME NEW r \in Rentals
        PROVE  ended[r] = Unknown \/ ended[r] <= minute'
    <3>1. ended[r] \in Open..Unknown
      BY <1>1 DEF RentalTypeOK
    <3>2. Open \in Nat /\ Unknown \in Nat
      BY DEF Open, Unknown, RentalAssumptions
    <3> QED
      BY <1>2, <3>1, <3>2 DEF RentalInv, RentalClock
  <2> QED
    BY <1>1, <2>1, <2>2 DEF RentalClock
<1>5. \A e \in Evaluators : JobIsRecent(e)'
  BY <1>1 DEF RentalInv, JobIsRecent, IsRecent
<1>6. \A n \in Names, r \in Rentals : SlotIsLater(n, r)'
  BY <1>1 DEF RentalInv, SlotIsLater
<1>7. ASSUME ToldInv
      PROVE  ToldInv'
  <2> SUFFICES ASSUME NEW r \in Rentals \ excused'
               PROVE  HandedOnce(r)' /\ \A n \in Names : FreeIsUntold(n, r)'
    BY DEF ToldInv
  <2>1. HandedOnce(r) /\ \A n \in Names : FreeIsUntold(n, r)
    BY <1>1, <1>7 DEF ToldInv
  <2>2. IsOver(r) => IsOver(r)'
    BY <1>1, <1>2, OverStays
  <2> QED
    BY <1>1, <2>1, <2>2 DEF HandedOnce, FreeIsUntold
<1>8. ClaimedIsTold'
  BY <1>1 DEF ClaimedIsTold
<1> QED
  BY <1>3, <1>4, <1>5, <1>6, <1>7, <1>8 DEF RentalInv

-----------------------------------------------------------------------------
(* Every step keeps what the three theorems need. *)
LEMMA RentalStep ==
    ASSUME RentalAssumptions, RentalInv, ClaimedIsTold, [RentalNext]_rentalVars
    PROVE  /\ RentalInv' /\ ClaimedIsTold'
           /\ PanelTenant = SweepTenant /\ ToldInv => ToldInv'
<1>1. ASSUME NEW e \in Evaluators, Evaluation(e)
      PROVE  RentalInv' /\ ClaimedIsTold' /\ (PanelTenant = SweepTenant /\ ToldInv => ToldInv')
  BY <1>1, BeginEvaluationKeepsInv, LookKeepsInv, ClaimKeepsInv, ClaimKeepsSlots, DispatchAlertsKeepsInv,
     RaiseKeepsInv DEF Evaluation
<1> QED
  BY <1>1, EndKeepsInv, RentalTickKeepsInv, CrashKeepsAlerts DEF RentalNext

(* The slots, the evaluations and the history are well typed. *)
THEOREM RentalTypes ==
    ASSUME RentalAssumptions
    PROVE  RentalSpec => []RentalTypeOK
<1>1. RentalInit => RentalInv /\ ClaimedIsTold
  BY RentalInitInv
<1>2. RentalInv /\ ClaimedIsTold /\ [RentalNext]_rentalVars => (RentalInv /\ ClaimedIsTold)'
  BY RentalStep
<1>3. RentalInv => RentalTypeOK
  BY DEF RentalInv
<1> QED
  BY <1>1, <1>2, <1>3, PTL DEF RentalSpec

(* Whatever raises or crashes between the claim of an alert and its dispatch, *)
(* and whoever else evaluates meanwhile, a slot that is taken is of an alert  *)
(* that was told, is about to be, or was taken away by that fault.            *)
THEOREM ClaimsAreTold ==
    ASSUME RentalAssumptions
    PROVE  RentalSpec => []ClaimedIsTold
<1>1. RentalInit => RentalInv /\ ClaimedIsTold
  BY RentalInitInv
<1>2. RentalInv /\ ClaimedIsTold /\ [RentalNext]_rentalVars => (RentalInv /\ ClaimedIsTold)'
  BY RentalStep
<1> QED
  BY <1>1, <1>2, PTL DEF RentalSpec

(* Any number of panels and the sweep, when they call the tenant the same, tell *)
(* a loss once between them, across the pruning of its slot, and swallow none.  *)
THEOREM LossesToldOnce ==
    ASSUME RentalAssumptions, PanelTenant = SweepTenant
    PROVE  RentalSpec => []LossesAreTold
<1>1. RentalInit => RentalInv /\ ToldInv /\ ClaimedIsTold
  BY RentalInitInv
<1>2. RentalInv /\ ToldInv /\ ClaimedIsTold /\ [RentalNext]_rentalVars
        => (RentalInv /\ ToldInv /\ ClaimedIsTold)'
  BY RentalStep
<1>3. RentalInv /\ ToldInv /\ ClaimedIsTold => LossesAreTold
  BY DEF ToldInv, HandedOnce, LossesAreTold, ToldOnce
<1> QED
  BY <1>1, <1>2, <1>3, PTL DEF RentalSpec

-----------------------------------------------------------------------------
(***************************************************************************)
(* The rigs that are not rented again.  What is known of a rig depends on  *)
(* the one operation that is at work on it: each step of the operation     *)
(* says what its earlier steps have done, so that the end of the operation *)
(* finds the lists and the ledger in agreement again.  Nothing is known of *)
(* a rig at which operations met: it is unsure from then on.               *)
(***************************************************************************)
(* A rig is listed exactly if it is in the ledger. *)
Agrees(r) == (lists.manual[r] \/ lists.auto[r]) <=> lists.ledger[r] \in {"manual", "auto"}

(* What an operation has done so far, and what it relies on. *)
BanIsSound(task) ==
    /\ task.step = 1 => Agrees(task.rig)
    /\ task.step = 2 => lists.manual[task.rig]

RestoreIsSound(task) ==
    /\ task.rig \notin promised
    /\ task.step = 1 => Agrees(task.rig)
    /\ task.step > 1 => ~lists.manual[task.rig]
    /\ task.step > 2 => ~lists.auto[task.rig]

JudgeIsSound(task) ==
    /\ Agrees(task.rig)
    /\ task.step > 1 => task.at >= 1 /\ task.at <= newest[task.rig]

ExcludeIsSound(task) ==
    /\ task.at >= 1 /\ lists.since[task.rig] <= task.at
    /\ task.step = 1 => Agrees(task.rig) /\ task.rig \notin excluded
    /\ task.step > 1 => lists.auto[task.rig]
    /\ task.step = 2 => (task.rig \in excluded => newest[task.rig] <= task.at)
    /\ task.step = 3 => lists.since[task.rig] = task.at

TaskIsSound(task) ==
    /\ task.ok
    /\ task.op = "ban" => BanIsSound(task)
    /\ task.op = "restore" => RestoreIsSound(task)
    /\ task.op = "judge" => JudgeIsSound(task)
    /\ task.op = "exclude" => ExcludeIsSound(task)

(* An exclusion that has listed the rig and not noted when. *)
NotStampedYet(r) == \E t \in AtWork(r) : change[t].op = "exclude" /\ change[t].step = 2

RigIsSound(r) ==
    /\ \A t, u \in AtWork(r) : t = u
    /\ \A t \in AtWork(r) : TaskIsSound(change[t])
    /\ AtWork(r) = {} => Agrees(r)
    /\ r \in promised => lists.manual[r]
    /\ r \in excluded => NotStampedYet(r) \/ (lists.since[r] >= 1 /\ newest[r] <= lists.since[r])

RecordIsPast ==
    /\ \A r \in Rigs : newest[r] <= hour
    /\ \A r \in Rigs \ unsure : lists.since[r] <= hour
    /\ \A t \in Editors : change[t] # NoChange => change[t].at <= hour

JudgesOnlyLook ==
    \A t \in Editors : change[t] # NoChange /\ change[t].op = "judge" => change[t].copy = NoCopy

RigInv ==
    /\ RigTypeOK /\ RecordIsPast /\ JudgesOnlyLook
    /\ (promised \cup excluded) \cap unsure = {}
    /\ \A r \in Rigs \ unsure : RigIsSound(r)

(* An operation whose step is one of its plan. *)
TaskIsPlanned(task) ==
    task.op \in DOMAIN Plan /\ task.step \in 1..4 /\ task.step <= Len(Plan[task.op])

(* The plans, step by step. *)
LEMMA PlanCases ==
    ASSUME NEW task, TaskIsPlanned(task)
    PROVE  /\ task.op \in {"ban", "restore", "judge", "exclude"}
           /\ task.op = "ban" =>
                /\ Len(Plan[task.op]) = 2
                /\ \/ task.step = 1 /\ Key(task) = "manual"
                   \/ task.step = 2 /\ Key(task) = "ledger"
           /\ task.op = "restore" =>
                /\ Len(Plan[task.op]) = 3
                /\ \/ task.step = 1 /\ Key(task) = "manual"
                   \/ task.step = 2 /\ Key(task) = "auto"
                   \/ task.step = 3 /\ Key(task) = "ledger"
           /\ task.op = "judge" =>
                /\ Len(Plan[task.op]) = 4
                /\ \/ task.step = 1 /\ Key(task) = "history"
                   \/ task.step = 2 /\ Key(task) = "manual"
                   \/ task.step = 3 /\ Key(task) = "auto"
                   \/ task.step = 4 /\ Key(task) = "since"
           /\ task.op = "exclude" =>
                /\ Len(Plan[task.op]) = 3
                /\ \/ task.step = 1 /\ Key(task) = "auto"
                   \/ task.step = 2 /\ Key(task) = "since"
                   \/ task.step = 3 /\ Key(task) = "ledger"
<1>1. Plan["ban"] = <<"manual", "ledger">> /\ Plan["restore"] = <<"manual", "auto", "ledger">>
      /\ Plan["judge"] = <<"history", "manual", "auto", "since">>
      /\ Plan["exclude"] = <<"auto", "since", "ledger">>
  BY DEF Plan
<1>2. task.op \in {"ban", "restore", "judge", "exclude"}
  BY DEF TaskIsPlanned, Plan
<1>3. CASE task.op = "ban"
  BY <1>1, <1>3 DEF TaskIsPlanned, Key
<1>4. CASE task.op = "restore"
  BY <1>1, <1>4 DEF TaskIsPlanned, Key
<1>5. CASE task.op = "judge"
  BY <1>1, <1>5 DEF TaskIsPlanned, Key
<1>6. CASE task.op = "exclude"
  BY <1>1, <1>6 DEF TaskIsPlanned, Key
<1> QED
  BY <1>2, <1>3, <1>4, <1>5, <1>6

(* What is known of an operation under way. *)
LEMMA TaskAtHand ==
    ASSUME RigTypeOK, NEW t \in Editors, change[t] # NoChange
    PROVE  /\ TaskIsPlanned(change[t]) /\ change[t] \in Tasks(Key(change[t]))
           /\ change[t].rig \in Rigs /\ change[t].at \in RigTimes /\ t \in AtWork(change[t].rig)
BY DEF RigTypeOK, Tasks, TaskIsPlanned, AtWork

-----------------------------------------------------------------------------
(* A rig of which nothing changes stays as it was. *)
LEMMA RigUntouched ==
    ASSUME NEW r, RigIsSound(r),
           lists'.manual[r] = lists.manual[r], lists'.auto[r] = lists.auto[r],
           lists'.since[r] = lists.since[r], lists'.ledger[r] = lists.ledger[r],
           newest'[r] = newest[r],
           AtWork(r)' = AtWork(r), \A t \in AtWork(r) : change'[t] = change[t],
           r \in promised' <=> r \in promised, r \in excluded' <=> r \in excluded
    PROVE  RigIsSound(r)'
<1>1. Agrees(r)' <=> Agrees(r)
  BY DEF Agrees
<1>2. ASSUME NEW t \in AtWork(r)
      PROVE  TaskIsSound(change[t])'
  <2>1. TaskIsSound(change[t]) /\ change'[t] = change[t] /\ change[t].rig = r
    BY DEF RigIsSound, AtWork
  <2> QED
    BY <1>1, <2>1
    DEF TaskIsSound, BanIsSound, RestoreIsSound, JudgeIsSound, ExcludeIsSound, Agrees
<1>3. NotStampedYet(r)' <=> NotStampedYet(r)
  BY DEF NotStampedYet
<1> QED
  BY <1>1, <1>2, <1>3 DEF RigIsSound

(* Which threads change once one goes on. *)
LEMMA ThreadGoesOn ==
    ASSUME RigTypeOK, NEW t \in Editors, NEW x, ChangeBecomes(t, x)
    PROVE  /\ DOMAIN change' = Editors /\ change'[t] = x
           /\ \A u \in Editors \ {t} : change'[u] = change[u]
BY DEF RigTypeOK, ChangeBecomes

(* The rigs that a thread is not at work on. *)
LEMMA OtherRigs ==
    ASSUME RigTypeOK, NEW t \in Editors, NEW x, ChangeBecomes(t, x), NEW rig,
           change[t] = NoChange \/ change[t].rig = rig, x = NoChange \/ x.rig = rig,
           NEW r, r # rig, RigIsSound(r),
           lists'.manual[r] = lists.manual[r], lists'.auto[r] = lists.auto[r],
           lists'.since[r] = lists.since[r], lists'.ledger[r] = lists.ledger[r],
           newest'[r] = newest[r],
           r \in promised' <=> r \in promised, r \in excluded' <=> r \in excluded
    PROVE  RigIsSound(r)'
<1>1. t \notin AtWork(r)
  BY DEF AtWork
<1>2. AtWork(r)' = AtWork(r)
  BY <1>1, ThreadGoesOn DEF AtWork
<1>3. \A u \in AtWork(r) : change'[u] = change[u]
  BY <1>1, ThreadGoesOn DEF AtWork
<1> QED
  BY <1>2, <1>3, RigUntouched

(* The one operation on a rig that nobody doubts, and what it becomes. *)
LEMMA OnlyTask ==
    ASSUME RigTypeOK, NEW t \in Editors, change[t] # NoChange, NEW rig, change[t].rig = rig,
           RigIsSound(rig), NEW x, ChangeBecomes(t, x), x = NoChange \/ x.rig = rig
    PROVE  /\ TaskIsSound(change[t]) /\ AtWork(rig) = {t} /\ change'[t] = x
           /\ x = NoChange => AtWork(rig)' = {}
           /\ x # NoChange => AtWork(rig)' = {t}
<1>1. t \in AtWork(rig)
  BY DEF AtWork
<1>2. AtWork(rig) = {t} /\ TaskIsSound(change[t])
  BY <1>1 DEF RigIsSound
<1>3. \A u \in Editors \ {t} : change'[u] # NoChange => change'[u].rig # rig
  BY <1>2, ThreadGoesOn DEF AtWork
<1>4. x = NoChange => AtWork(rig)' = {}
  BY <1>3, ThreadGoesOn DEF AtWork
<1>5. x # NoChange => AtWork(rig)' = {t}
  BY <1>3, ThreadGoesOn DEF AtWork
<1> QED
  BY <1>2, <1>4, <1>5, ThreadGoesOn

(* The types of the operations once a thread goes on. *)
LEMMA TasksStayTyped ==
    ASSUME RigTypeOK, NEW t \in Editors, NEW x, ChangeBecomes(t, x), UNCHANGED newest,
           lists' \in [manual : [Rigs -> Values.manual], auto : [Rigs -> Values.auto],
                      since : [Rigs -> Values.since], ledger : [Rigs -> Values.ledger]],
           x # NoChange => x \in Tasks(Key(x)) /\ x.step <= Len(Plan[x.op]),
           hour' \in 1..MaxTime, chances' \in [requests : 0..MaxRequests, faults : 0..MaxMishaps],
           {promised', excluded', unsure'} \subseteq SUBSET Rigs
    PROVE  RigTypeOK'
<1>1. DOMAIN change' = Editors /\ change'[t] = x /\ \A u \in Editors \ {t} : change'[u] = change[u]
  BY ThreadGoesOn
<1>2. ASSUME NEW u \in Editors, change'[u] # NoChange
      PROVE  /\ change'[u] \in Tasks(Key(change'[u]))
             /\ change'[u].step <= Len(Plan[change'[u].op])
  BY <1>1, <1>2 DEF RigTypeOK
<1>3. \A u \in Editors : change'[u] # NoChange =>
         change'[u] \in Tasks(Key(change'[u])) /\ change'[u].step <= Len(Plan[change'[u].op])
  BY <1>2
<1> QED
  BY <1>1, <1>3 DEF RigTypeOK, Tasks, Copies, Key, RigTimes, Values

(* An operation that is typed, was begun by now and is at one of its steps. *)
TaskIsTyped(x) ==
    /\ x \in Tasks(Key(x)) /\ x.step <= Len(Plan[x.op]) /\ x.at <= hour
    /\ x.op = "judge" => x.copy = NoCopy

(* A step of a thread that saves nothing only has to keep the rig it is about. *)
LEMMA RigStepKeepsInv ==
    ASSUME RigInv, NEW t \in Editors, NEW x, ChangeBecomes(t, x), NEW rig \in Rigs,
           change[t] = NoChange \/ change[t].rig = rig, x = NoChange \/ x.rig = rig,
           UNCHANGED <<lists, newest, hour>>, x # NoChange => TaskIsTyped(x),
           chances' \in [requests : 0..MaxRequests, faults : 0..MaxMishaps],
           unsure \subseteq unsure', {promised', excluded', unsure'} \subseteq SUBSET Rigs,
           (promised' \cup excluded') \cap unsure' = {},
           \A r \in Rigs \ unsure' : r # rig =>
             (r \in promised' <=> r \in promised) /\ (r \in excluded' <=> r \in excluded),
           rig \notin unsure' => RigIsSound(rig)'
    PROVE  RigInv'
<1>1. RigTypeOK
  BY DEF RigInv
<1>2. RigTypeOK'
  BY <1>1, TasksStayTyped DEF RigTypeOK, TaskIsTyped
<1>3. RecordIsPast' /\ JudgesOnlyLook'
  BY <1>1, ThreadGoesOn DEF RigInv, RecordIsPast, JudgesOnlyLook, TaskIsTyped
<1>4. ASSUME NEW r \in Rigs \ unsure', r # rig
      PROVE  RigIsSound(r)'
  <2>1. RigIsSound(r)
    BY <1>4 DEF RigInv
  <2> QED
    BY <1>1, <1>4, <2>1, OtherRigs
<1> QED
  BY <1>2, <1>3, <1>4 DEF RigInv

(* What is spent stays within the bounds. *)
LEMMA RigSpendIsTyped ==
    ASSUME RigAssumptions, RigTypeOK, NEW what \in {"requests", "faults"}, Spend(what)
    PROVE  chances' \in [requests : 0..MaxRequests, faults : 0..MaxMishaps]
<1>1. chances \in [requests : 0..MaxRequests, faults : 0..MaxMishaps]
      /\ MaxRequests \in Nat /\ MaxMishaps \in Nat
  BY DEF RigTypeOK, RigAssumptions
<1>2. chances[what] > 0 /\ chances' = [chances EXCEPT ![what] = @ - 1]
  BY DEF Spend
<1>3. CASE what = "requests"
  BY <1>1, <1>2, <1>3
<1>4. CASE what = "faults"
  BY <1>1, <1>2, <1>4
<1> QED
  BY <1>3, <1>4

(* A fault puts its rig in doubt, and no other. *)
LEMMA RigFaultKeepsInv ==
    ASSUME RigAssumptions, RigInv, NEW t \in Editors, change[t] # NoChange, NEW rig \in Rigs,
           change[t].rig = rig, NEW x, ChangeBecomes(t, x), x = NoChange \/ x.rig = rig,
           UNCHANGED <<lists, newest, hour>>, x # NoChange => TaskIsTyped(x), Fault(rig)
    PROVE  RigInv'
<1>1. chances' \in [requests : 0..MaxRequests, faults : 0..MaxMishaps]
  BY RigSpendIsTyped DEF RigInv, Fault
<1>2. /\ unsure' = unsure \cup {rig} /\ promised' = promised \ unsure'
      /\ excluded' = excluded \ unsure'
  BY DEF Fault, Doubt, Notes
<1> QED
  BY <1>1, <1>2, RigStepKeepsInv DEF RigInv, RigTypeOK

-----------------------------------------------------------------------------
(* An operation begins at its first step, on a rig that nobody else is at. *)
LEMMA BeginChangeKeepsInv ==
    ASSUME RigAssumptions, RigInv, NEW t \in Editors, NEW op \in {"ban", "restore", "judge"},
           NEW rig \in Rigs, BeginChange(t, op, rig)
    PROVE  RigInv'
<1> DEFINE x == Change(op, rig)
<1>1. x.op = op /\ x.rig = rig /\ x.step = 1 /\ x.copy = NoCopy /\ x.ok /\ x.at = 0 /\ x # NoChange
  BY DEF Change, NoChange
<1>2. TaskIsTyped(x)
  <2>1. op \in DOMAIN Plan /\ 1 <= Len(Plan[op])
    BY DEF Plan
  <2>2. x \in Tasks(Key(x))
    BY <2>1 DEF Change, Tasks, Copies, RigTimes, RigAssumptions
  <2>3. hour >= 0
    BY DEF RigInv, RigTypeOK
  <2> QED
    BY <1>1, <2>1, <2>2, <2>3 DEF TaskIsTyped
<1>3. ChangeBecomes(t, x) /\ change[t] = NoChange /\ UNCHANGED <<lists, newest, hour>>
  BY DEF BeginChange
<1>4. chances' \in [requests : 0..MaxRequests, faults : 0..MaxMishaps]
  BY RigSpendIsTyped DEF RigInv, RigTypeOK, BeginChange
<1>5. /\ unsure' = IF AtWork(rig) = {} THEN unsure ELSE unsure \cup {rig}
      /\ promised' = (IF op = "restore" THEN promised \ {rig} ELSE promised) \ unsure'
      /\ excluded' = excluded \ unsure'
  BY DEF BeginChange, Notes
<1>6. ASSUME rig \notin unsure'
      PROVE  RigIsSound(rig)'
  <2>1. AtWork(rig) = {} /\ RigIsSound(rig)
    BY <1>5, <1>6 DEF RigInv
  <2>2. AtWork(rig)' = {t} /\ change'[t] = x
    BY <1>1, <1>3, <2>1, ThreadGoesOn DEF RigInv, AtWork
  <2>3. Agrees(rig) /\ Agrees(rig)'
    BY <1>3, <2>1 DEF RigIsSound, Agrees
  <2>4. TaskIsSound(x)'
    BY <1>1, <1>5, <2>3
    DEF TaskIsSound, BanIsSound, RestoreIsSound, JudgeIsSound, ExcludeIsSound
  <2>5. rig \in promised' => lists'.manual[rig]
    BY <1>3, <1>5, <2>1 DEF RigIsSound
  <2>6. rig \in excluded' => lists'.since[rig] >= 1 /\ newest'[rig] <= lists'.since[rig]
    BY <1>3, <1>5, <2>1 DEF RigIsSound, NotStampedYet
  <2> QED
    BY <2>2, <2>3, <2>4, <2>5, <2>6 DEF RigIsSound
<1> QED
  BY <1>1, <1>2, <1>3, <1>4, <1>5, <1>6, RigStepKeepsInv DEF RigInv, RigTypeOK

(* What a look leads to: the end, the next look, or an exclusion as of now. *)
LEMMA JudgedCases ==
    ASSUME NEW task, TaskIsPlanned(task), task.op = "judge", NEW value
    PROVE  \/ Judged(task, value) = NoChange
           \/ /\ Key(task) = "history" /\ task.step = 1 /\ value # 0
              /\ Judged(task, value) = [task EXCEPT !.step = @ + 1, !.at = value]
           \/ /\ Key(task) \in {"manual", "auto"} /\ task.step \in {2, 3}
              /\ Judged(task, value) = [task EXCEPT !.step = @ + 1]
           \/ /\ Key(task) = "since" /\ task.step = 4 /\ (value = 0 \/ task.at > value)
              /\ Judged(task, value) = [Change("exclude", task.rig) EXCEPT !.at = hour]
<1>1. \/ task.step = 1 /\ Key(task) = "history"
      \/ task.step = 2 /\ Key(task) = "manual"
      \/ task.step = 3 /\ Key(task) = "auto"
      \/ task.step = 4 /\ Key(task) = "since"
  BY PlanCases
<1>2. CASE task.step = 1 /\ Key(task) = "history"
  BY <1>2 DEF Judged, GoesOn
<1>3. CASE task.step = 2 /\ Key(task) = "manual"
  BY <1>3 DEF Judged
<1>4. CASE task.step = 3 /\ Key(task) = "auto"
  BY <1>4 DEF Judged
<1>5. CASE task.step = 4 /\ Key(task) = "since"
  BY <1>5 DEF Judged, GoesOn
<1> QED
  BY <1>1, <1>2, <1>3, <1>4, <1>5

(* What a look leads to is typed, if what it looked at was. *)
LEMMA JudgedIsTyped ==
    ASSUME RigAssumptions, RigInv, NEW t \in Editors, change[t] # NoChange, change[t].op = "judge",
           NEW value, Key(change[t]) = "history" => value \in 0..hour,
           Judged(change[t], value) # NoChange
    PROVE  TaskIsTyped(Judged(change[t], value)) /\ Judged(change[t], value).rig = change[t].rig
<1> DEFINE task == change[t]
<1> DEFINE x == Judged(task, value)
<1>1. /\ TaskIsPlanned(task) /\ task \in Tasks(Key(task)) /\ task.copy = NoCopy /\ task.at <= hour
      /\ hour \in 1..MaxTime /\ hour \in Nat /\ task.op = "judge"
      /\ Key(task) = "history" => value \in 0..hour
  BY TaskAtHand DEF RigInv, JudgesOnlyLook, RecordIsPast, RigTypeOK, RigAssumptions
<1>2. task.rig \in Rigs /\ task.ok \in BOOLEAN /\ task.at \in RigTimes /\ task.step \in 1..4
  BY <1>1 DEF Tasks
<1>3. DOMAIN Plan = {"ban", "restore", "judge", "exclude"} /\ Len(Plan["judge"]) = 4
      /\ Len(Plan["exclude"]) = 3
  BY DEF Plan
<1> SUFFICES TaskIsTyped(x) /\ x.rig = task.rig
  OBVIOUS
<1> HIDE DEF x, task
<1>4. ASSUME task.step < 4, NEW at \in 0..hour,
             x \in [op : {"judge"}, rig : {task.rig}, step : {task.step + 1}, copy : {NoCopy},
                    ok : {task.ok}, at : {at}]
      PROVE  TaskIsTyped(x) /\ x.rig = task.rig
  <2>1. x \in Tasks(Key(x))
    BY <1>1, <1>2, <1>3, <1>4 DEF Tasks, Copies, RigTimes, RigAssumptions
  <2>2. x.op = "judge" /\ x.rig = task.rig /\ x.step = task.step + 1 /\ x.copy = NoCopy /\ x.at = at
    BY <1>4
  <2>3. x.step <= Len(Plan[x.op]) /\ x.at <= hour
    <3>1. x.step <= 4
      BY <1>2, <1>4, <2>2
    <3>2. Len(Plan[x.op]) = 4
      BY <1>3, <2>2
    <3> QED
      BY <1>1, <1>4, <2>2, <3>1, <3>2
  <2> QED
    BY <2>1, <2>2, <2>3 DEF TaskIsTyped
<1>5. CASE /\ Key(task) = "history" /\ task.step = 1
           /\ x = [task EXCEPT !.step = @ + 1, !.at = value]
  <2>1. x \in [op : {"judge"}, rig : {task.rig}, step : {task.step + 1}, copy : {NoCopy},
               ok : {task.ok}, at : {value}]
    BY <1>1, <1>5 DEF Tasks
  <2> QED
    BY <1>1, <1>4, <1>5, <2>1
<1>6. CASE task.step \in {2, 3} /\ x = [task EXCEPT !.step = @ + 1]
  <2>1. x \in [op : {"judge"}, rig : {task.rig}, step : {task.step + 1}, copy : {NoCopy},
               ok : {task.ok}, at : {task.at}]
    BY <1>1, <1>6 DEF Tasks
  <2>2. task.at \in 0..hour
    BY <1>1, <1>2 DEF RigTimes
  <2> QED
    BY <1>4, <1>6, <2>1, <2>2
<1>7. CASE x = [Change("exclude", task.rig) EXCEPT !.at = hour]
  <2>1. x = [op |-> "exclude", rig |-> task.rig, step |-> 1, copy |-> NoCopy, ok |-> TRUE,
             at |-> hour]
    BY <1>7 DEF Change
  <2>2. x \in Tasks(Key(x))
    BY <1>1, <1>2, <1>3, <2>1 DEF Tasks, Copies, RigTimes, RigAssumptions
  <2>3. x.op = "exclude" /\ x.rig = task.rig /\ x.step = 1 /\ x.at = hour
    BY <2>1
  <2>4. x.step <= Len(Plan[x.op]) /\ x.at <= hour
    <3>1. Len(Plan[x.op]) = 3
      BY <1>3, <2>3
    <3> QED
      BY <1>1, <2>3, <3>1
  <2> QED
    BY <2>2, <2>3, <2>4 DEF TaskIsTyped
<1> QED
  <2>1. x # NoChange
    BY DEF x, task
  <2> QED
    BY <1>1, <1>5, <1>6, <1>7, <2>1, JudgedCases DEF x

(* A judge looks on, or excludes a rig that has news since its last exclusion. *)
LEMMA JudgeKeepsInv ==
    ASSUME RigAssumptions, RigInv, NEW t \in Editors, Judge(t)
    PROVE  RigInv'
<1> DEFINE task == change[t]
<1>1. task # NoChange /\ task.op = "judge" /\ UNCHANGED <<lists, newest, hour>>
  BY DEF Judge
<1>2. TaskIsPlanned(task) /\ task.rig \in Rigs
  BY <1>1, TaskAtHand DEF RigInv
<1>3. PICK rig \in Rigs : rig = task.rig
  BY <1>2
<1>4. /\ newest[rig] \in 0..hour /\ hour >= 1 /\ lists.since[rig] \in Nat
      /\ rig \notin unsure => lists.since[rig] <= hour
  <2>1. newest[rig] \in RigTimes /\ lists.since[rig] \in RigTimes /\ hour \in 1..MaxTime
    BY DEF RigInv, RigTypeOK, Values
  <2> QED
    BY <2>1 DEF RigInv, RecordIsPast, RigTimes
<1>5. CASE /\ ChangeBecomes(t, Judged(task, IF Key(task) = "history" THEN newest[rig]
                                                                    ELSE lists[Key(task)][rig]))
           /\ UNCHANGED <<chances, notes>>
  <2> DEFINE value == IF Key(task) = "history" THEN newest[rig] ELSE lists[Key(task)][rig]
  <2> DEFINE x == Judged(task, value)
  <2>1. x # NoChange => TaskIsTyped(x) /\ x.rig = rig
    BY <1>1, <1>3, <1>4, JudgedIsTyped
  <2>2. ChangeBecomes(t, x) /\ UNCHANGED <<chances, notes>>
    BY <1>3, <1>5
  <2>3. \/ x = NoChange
        \/ /\ task.step = 1 /\ value = newest[rig] /\ value # 0
           /\ x = [task EXCEPT !.step = @ + 1, !.at = value]
        \/ task.step \in {2, 3} /\ x = [task EXCEPT !.step = @ + 1]
        \/ /\ task.step = 4 /\ (lists.since[rig] = 0 \/ task.at > lists.since[rig])
           /\ x = [Change("exclude", rig) EXCEPT !.at = hour]
    BY <1>1, <1>2, <1>3, JudgedCases
  <2> HIDE DEF x, value
  <2>4. ASSUME rig \notin unsure'
        PROVE  RigIsSound(rig)'
    <3>1. RigIsSound(rig)
      BY <2>2, <2>4 DEF notes, RigInv
    <3>0. lists.since[rig] <= hour
      BY <1>4, <2>2, <2>4 DEF notes
    <3>2. /\ TaskIsSound(task) /\ AtWork(rig) = {t} /\ change'[t] = x
          /\ x = NoChange => AtWork(rig)' = {}
          /\ x # NoChange => AtWork(rig)' = {t}
      BY <1>1, <1>3, <2>1, <2>2, <3>1, OnlyTask DEF RigInv
    <3>3. JudgeIsSound(task) /\ task.ok
      BY <1>1, <3>2 DEF TaskIsSound
    <3>4. Agrees(rig) /\ Agrees(rig)'
      BY <1>1, <1>3, <3>3 DEF JudgeIsSound, Agrees
    <3>5. /\ rig \in promised' => lists'.manual[rig]
          /\ rig \in excluded => lists.since[rig] >= 1 /\ newest[rig] <= lists.since[rig]
          /\ rig \in excluded' <=> rig \in excluded
      BY <1>1, <2>2, <3>1, <3>2 DEF notes, RigIsSound, NotStampedYet
    <3>6. x # NoChange => TaskIsSound(change[t])'
      <4>1. CASE /\ task.step = 1 /\ value = newest[rig] /\ value # 0
                 /\ x = [task EXCEPT !.step = @ + 1, !.at = value]
        <5>1. x.op = "judge" /\ x.rig = rig /\ x.step = 2 /\ x.at = newest[rig] /\ x.ok
          BY <1>1, <1>3, <3>3, <4>1, TaskAtHand DEF RigInv, Tasks
        <5>2. newest[rig] >= 1
          BY <1>4, <4>1
        <5> QED
          BY <1>1, <1>4, <3>2, <3>4, <5>1, <5>2 DEF TaskIsSound, JudgeIsSound, Agrees
      <4>2. CASE task.step \in {2, 3} /\ x = [task EXCEPT !.step = @ + 1]
        <5>1. x.op = "judge" /\ x.rig = rig /\ x.at = task.at /\ x.ok
          BY <1>1, <1>3, <3>3, <4>2, TaskAtHand DEF RigInv, Tasks
        <5>2. task.at >= 1 /\ task.at <= newest[rig]
          BY <1>3, <3>3, <4>2 DEF JudgeIsSound
        <5> QED
          BY <1>1, <3>2, <3>4, <5>1, <5>2 DEF TaskIsSound, JudgeIsSound, Agrees
      <4>3. CASE /\ task.step = 4 /\ (lists.since[rig] = 0 \/ task.at > lists.since[rig])
                 /\ x = [Change("exclude", rig) EXCEPT !.at = hour]
        <5>1. x.op = "exclude" /\ x.rig = rig /\ x.step = 1 /\ x.at = hour /\ x.ok
          BY <4>3 DEF Change
        <5>2. task.at >= 1 /\ task.at <= newest[rig] /\ task.at \in Nat
          BY <1>1, <1>3, <3>3, <4>3, TaskAtHand DEF JudgeIsSound, RigInv, RigTimes
        <5>3. rig \notin excluded
          BY <1>4, <3>5, <4>3, <5>2
        <5> QED
          BY <1>1, <1>4, <3>0, <3>2, <3>4, <3>5, <5>1, <5>3 DEF TaskIsSound, ExcludeIsSound, Agrees
      <4> QED
        BY <2>3, <4>1, <4>2, <4>3
    <3> QED
      BY <1>1, <3>2, <3>4, <3>5, <3>6 DEF RigIsSound
  <2> QED
    BY <1>1, <1>3, <2>1, <2>2, <2>4, RigStepKeepsInv DEF RigInv, RigTypeOK, notes
<1>6. CASE /\ Key(task) # "history" /\ ChangeBecomes(t, Judged(task, Unlisted[Key(task)]))
           /\ Fault(rig)
  <2> DEFINE x == Judged(task, Unlisted[Key(task)])
  <2>1. x # NoChange => TaskIsTyped(x) /\ x.rig = rig
    BY <1>1, <1>3, <1>6, JudgedIsTyped
  <2> QED
    BY <1>1, <1>3, <1>6, <2>1, RigFaultKeepsInv
<1> QED
  BY <1>3, <1>5, <1>6 DEF Judge

-----------------------------------------------------------------------------
(* What is loaded is a copy of the list whose turn it is. *)
LEMMA LoadedIsTyped ==
    ASSUME RigAssumptions, RigInv, NEW t \in Editors, change[t] # NoChange, change[t].op # "judge",
           NEW copy \in [Rigs -> Values[Key(change[t])]]
    PROVE  /\ TaskIsTyped([change[t] EXCEPT !.copy = copy])
           /\ [change[t] EXCEPT !.copy = copy] \in
                [op : {change[t].op}, rig : {change[t].rig}, step : {change[t].step},
                 copy : {copy}, ok : {change[t].ok}, at : {change[t].at}]
<1> DEFINE task == change[t]
<1> DEFINE x == [task EXCEPT !.copy = copy]
<1>1. /\ TaskIsPlanned(task) /\ task \in Tasks(Key(task)) /\ task.at <= hour /\ task.op # "judge"
      /\ copy \in [Rigs -> Values[Key(task)]]
  BY TaskAtHand DEF RigInv, RecordIsPast
<1>2. Key(task) \in ListKeys
  BY <1>1, PlanCases DEF ListKeys
<1> SUFFICES /\ TaskIsTyped(x)
             /\ x \in [op : {task.op}, rig : {task.rig}, step : {task.step}, copy : {copy},
                       ok : {task.ok}, at : {task.at}]
  OBVIOUS
<1> HIDE DEF task
<1>3. x \in [op : {task.op}, rig : {task.rig}, step : {task.step}, copy : {copy}, ok : {task.ok},
             at : {task.at}]
  BY <1>1 DEF Tasks
<1> HIDE DEF x
<1>4. x.op = task.op /\ x.step = task.step /\ x.at = task.at
  BY <1>3
<1>5. Key(x) = Key(task) /\ x.step <= Len(Plan[x.op])
  BY <1>1, <1>4 DEF Key, TaskIsPlanned
<1>6. x \in Tasks(Key(x))
  BY <1>1, <1>2, <1>3, <1>5 DEF Tasks, Copies
<1> QED
  BY <1>1, <1>3, <1>4, <1>5, <1>6 DEF TaskIsTyped

(* A list that is loaded ends a ban or a restore that has nothing left to do. *)
LEMMA RigLoadKeepsInv ==
    ASSUME RigAssumptions, RigInv, NEW t \in Editors, Load(t)
    PROVE  RigInv'
<1> DEFINE task == change[t]
<1>1. /\ task # NoChange /\ task.op # "judge" /\ task.copy = NoCopy
      /\ UNCHANGED <<lists, newest, hour>>
  BY DEF Load
<1>2. TaskIsPlanned(task) /\ task.rig \in Rigs
  BY <1>1, TaskAtHand DEF RigInv
<1>3. PICK rig \in Rigs : rig = task.rig
  BY <1>2
<1>4. PICK key \in ListKeys : key = Key(task)
  BY <1>1, <1>2, PlanCases DEF ListKeys
<1>5. lists[key] \in [Rigs -> Values[key]] /\ Empty(key) \in [Rigs -> Values[key]]
  <2>1. lists[key] \in [Rigs -> Values[key]]
    BY DEF RigInv, RigTypeOK, ListKeys
  <2>2. Unlisted[key] \in Values[key]
    <3>1. CASE key = "manual" \/ key = "auto"
      <4>1. Unlisted[key] = FALSE /\ Values[key] = BOOLEAN
        BY <3>1 DEF Unlisted, Values
      <4> QED
        BY <4>1
    <3>2. CASE key = "since"
      BY <3>2 DEF Unlisted, Values, RigTimes, RigAssumptions
    <3>3. CASE key = "ledger"
      BY <3>3 DEF Unlisted, Values
    <3> QED
      BY <3>1, <3>2, <3>3 DEF ListKeys
  <2> QED
    BY <2>1, <2>2 DEF Empty
<1>6. CASE /\ Loaded(t, lists[key])
           /\ Notes(IF task.op = "ban" /\ NothingToDo(task, lists[key])
                    THEN promised \cup {rig} ELSE promised, excluded, unsure)
           /\ UNCHANGED chances
  <2> DEFINE x == IF NothingToDo(task, lists[key]) THEN NoChange
                                                   ELSE [task EXCEPT !.copy = lists[key]]
  <2>1. ChangeBecomes(t, x)
    BY <1>6 DEF Loaded
  <2>2. x # NoChange =>
          /\ TaskIsTyped(x)
          /\ x.op = task.op /\ x.rig = rig /\ x.step = task.step /\ x.ok = task.ok /\ x.at = task.at
    BY <1>1, <1>3, <1>4, <1>5, LoadedIsTyped
  <2>3. /\ unsure' = unsure /\ excluded' = excluded \ unsure
        /\ promised' = (IF task.op = "ban" /\ NothingToDo(task, lists[key])
                        THEN promised \cup {rig} ELSE promised) \ unsure
    BY <1>6 DEF Notes
  <2>4. x = NoChange =>
          \/ task.op = "ban" /\ task.step = 1 /\ lists.manual[rig]
          \/ task.op = "restore" /\ task.step = 3 /\ lists.ledger[rig] = "none"
    <3>1. NothingToDo(task, lists[key]) =>
            \/ task.op = "ban" /\ task.step = 1 /\ lists.manual[rig]
            \/ task.op = "restore" /\ task.step = 3 /\ lists.ledger[rig] = "none"
      BY <1>2, <1>3, <1>4, PlanCases DEF NothingToDo
    <3>2. [task EXCEPT !.copy = lists[key]] # NoChange
      <4>1. [task EXCEPT !.copy = lists[key]] \in Tasks(Key([task EXCEPT !.copy = lists[key]]))
        BY <1>1, <1>4, <1>5, LoadedIsTyped DEF TaskIsTyped
      <4>2. "none" \notin DOMAIN Plan
        BY DEF Plan
      <4> QED
        BY <4>1, <4>2 DEF Tasks, NoChange
    <3> QED
      BY <3>1, <3>2
  <2>5. task.op = "ban" /\ NothingToDo(task, lists[key]) => lists.manual[rig]
    BY <1>2, <1>3, <1>4, PlanCases DEF NothingToDo
  <2> HIDE DEF x
  <2>6. ASSUME rig \notin unsure'
        PROVE  RigIsSound(rig)'
    <3>1. RigIsSound(rig)
      BY <2>3, <2>6 DEF RigInv
    <3>2. /\ TaskIsSound(task) /\ AtWork(rig) = {t} /\ change'[t] = x
          /\ x = NoChange => AtWork(rig)' = {}
          /\ x # NoChange => AtWork(rig)' = {t}
      BY <1>1, <1>3, <2>1, <2>2, <3>1, OnlyTask DEF RigInv
    <3>3. x # NoChange => TaskIsSound(change[t])'
      BY <1>1, <1>3, <2>2, <2>3, <2>6, <3>2
      DEF TaskIsSound, BanIsSound, RestoreIsSound, ExcludeIsSound, Agrees
    <3>4. x = NoChange => Agrees(rig)'
      BY <1>1, <1>3, <2>4, <3>2 DEF TaskIsSound, BanIsSound, RestoreIsSound, Agrees
    <3>5. rig \in promised' => lists'.manual[rig]
      BY <1>1, <2>3, <2>5, <3>1 DEF RigIsSound
    <3>6. rig \in excluded' =>
            NotStampedYet(rig)' \/ (lists'.since[rig] >= 1 /\ newest'[rig] <= lists'.since[rig])
      <4>1. NotStampedYet(rig) => NotStampedYet(rig)'
        <5>1. NotStampedYet(rig) => task.op = "exclude" /\ task.step = 2
          BY <3>2 DEF NotStampedYet
        <5> QED
          BY <2>2, <2>4, <3>2, <5>1 DEF NotStampedYet
      <4> QED
        BY <1>1, <2>3, <3>1, <4>1 DEF RigIsSound
    <3> QED
      BY <3>2, <3>3, <3>4, <3>5, <3>6 DEF RigIsSound
  <2> QED
    BY <1>1, <1>3, <1>6, <2>1, <2>2, <2>3, <2>6, RigStepKeepsInv DEF RigInv, RigTypeOK
<1>7. CASE Loaded(t, Empty(key)) /\ Fault(rig)
  <2> DEFINE x == IF NothingToDo(task, Empty(key)) THEN NoChange
                                                   ELSE [task EXCEPT !.copy = Empty(key)]
  <2>1. ChangeBecomes(t, x)
    BY <1>7 DEF Loaded
  <2>2. x # NoChange => TaskIsTyped(x) /\ x.rig = rig
    BY <1>1, <1>3, <1>4, <1>5, LoadedIsTyped
  <2> QED
    BY <1>1, <1>3, <1>7, <2>1, <2>2, RigFaultKeepsInv
<1> QED
  BY <1>3, <1>4, <1>6, <1>7 DEF Load

-----------------------------------------------------------------------------
(* The next key to save. *)
LEMMA NextKeyIsTyped ==
    ASSUME RigAssumptions, RigInv, NEW t \in Editors, change[t] # NoChange, change[t].op # "judge",
           NEW ok \in BOOLEAN, NextKey(change[t], ok) # NoChange
    PROVE  /\ TaskIsTyped(NextKey(change[t], ok)) /\ change[t].step < Len(Plan[change[t].op])
           /\ NextKey(change[t], ok) \in
                [op : {change[t].op}, rig : {change[t].rig}, step : {change[t].step + 1},
                 copy : {NoCopy}, ok : {ok}, at : {change[t].at}]
<1> DEFINE task == change[t]
<1> DEFINE x == [task EXCEPT !.step = @ + 1, !.copy = NoCopy, !.ok = ok]
<1>1. /\ TaskIsPlanned(task) /\ task \in Tasks(Key(task)) /\ task.at <= hour /\ task.op # "judge"
  BY TaskAtHand DEF RigInv, RecordIsPast
<1>2. NextKey(task, ok) = x /\ task.step # Len(Plan[task.op])
  BY DEF NextKey
<1>3. task.step < Len(Plan[task.op]) /\ Len(Plan[task.op]) \in 2..3
  BY <1>1, <1>2, PlanCases DEF TaskIsPlanned
<1> SUFFICES /\ TaskIsTyped(x)
             /\ x \in [op : {task.op}, rig : {task.rig}, step : {task.step + 1}, copy : {NoCopy},
                       ok : {ok}, at : {task.at}]
  BY <1>2, <1>3
<1> HIDE DEF task
<1>4. x \in [op : {task.op}, rig : {task.rig}, step : {task.step + 1}, copy : {NoCopy},
             ok : {ok}, at : {task.at}]
  BY <1>1 DEF Tasks
<1> HIDE DEF x
<1>5. x.op = task.op /\ x.step = task.step + 1 /\ x.at = task.at
  BY <1>4
<1>6. task.step + 1 <= Len(Plan[task.op]) /\ task.step + 1 \in 1..4
  <2>1. PICK n \in 2..3 : n = Len(Plan[task.op])
    BY <1>3
  <2>2. task.step \in 1..4 /\ task.step < n
    BY <1>1, <1>3, <2>1 DEF TaskIsPlanned
  <2>3. task.step + 1 <= n /\ task.step + 1 \in 1..4
    BY <2>2
  <2> QED
    BY <2>1, <2>3
<1>7. x.step <= Len(Plan[x.op])
  BY <1>5, <1>6
<1>8. x \in Tasks(Key(x))
  BY <1>1, <1>4, <1>6 DEF Tasks, Copies
<1> QED
  BY <1>1, <1>4, <1>5, <1>7, <1>8 DEF TaskIsTyped

(* What cannot be saved leaves its rig in doubt. *)
LEMMA SaveKeyFailsKeepsInv ==
    ASSUME RigAssumptions, RigInv, NEW t \in Editors, SaveKeyFails(t)
    PROVE  RigInv'
<1> DEFINE task == change[t]
<1>1. /\ task # NoChange /\ task.op # "judge" /\ ChangeBecomes(t, NextKey(task, FALSE))
      /\ Fault(task.rig) /\ UNCHANGED <<lists, newest, hour>>
  BY DEF SaveKeyFails
<1>2. PICK rig \in Rigs : rig = task.rig
  BY <1>1, TaskAtHand DEF RigInv
<1>3. NextKey(task, FALSE) # NoChange =>
        TaskIsTyped(NextKey(task, FALSE)) /\ NextKey(task, FALSE).rig = rig
  BY <1>1, <1>2, NextKeyIsTyped
<1> QED
  BY <1>1, <1>2, <1>3, RigFaultKeepsInv

(* A list that is saved has the new value for its rig, and what was loaded for the others. *)
LEMMA SavedLists ==
    ASSUME RigAssumptions, RigInv, NEW t \in Editors, SaveKey(t)
    PROVE  /\ lists' \in [manual : [Rigs -> Values.manual], auto : [Rigs -> Values.auto],
                          since : [Rigs -> Values.since], ledger : [Rigs -> Values.ledger]]
           /\ Key(change[t]) \in ListKeys
           /\ \A k \in ListKeys : k # Key(change[t]) => lists'[k] = lists[k]
           /\ \A r \in Rigs \ {change[t].rig} :
                lists'[Key(change[t])][r] = change[t].copy[r]
           /\ lists'[Key(change[t])][change[t].rig] = Writes(change[t])[Key(change[t])]
<1> DEFINE task == change[t]
<1>1. PICK key \in ListKeys : key = Key(task)
  BY TaskAtHand, PlanCases DEF ListKeys, SaveKey, RigInv
<1>2. /\ TaskIsPlanned(task) /\ task \in Tasks(key) /\ task.op # "judge" /\ task.copy # NoCopy
      /\ task.rig \in Rigs
  BY <1>1, TaskAtHand DEF RigInv, SaveKey
<1>3. task.copy \in [Rigs -> Values[key]] /\ task.at \in RigTimes
  BY <1>1, <1>2 DEF Tasks, Copies
<1>4. Writes(task)[key] \in Values[key]
  <2>1. /\ Values["manual"] = BOOLEAN /\ Values["auto"] = BOOLEAN /\ Values["since"] = RigTimes
        /\ Values["ledger"] = {"none", "manual", "auto", "revoked"}
    BY DEF Values
  <2>2. CASE task.op = "ban"
    <3>1. Writes(task) = [manual |-> TRUE, ledger |-> "manual"]
      BY <2>2 DEF Writes
    <3>2. key = "manual" \/ key = "ledger"
      BY <1>1, <1>2, <2>2, PlanCases
    <3>3. CASE key = "manual"
      <4>1. Values[key] = BOOLEAN
        BY <2>1, <3>3
      <4>2. Writes(task)[key] = TRUE
        BY <3>1, <3>3
      <4> QED
        BY <4>1, <4>2
    <3>4. CASE key = "ledger"
      BY <2>1, <3>1, <3>4
    <3> QED
      BY <3>2, <3>3, <3>4
  <2>3. CASE task.op = "restore"
    <3>1. Writes(task) = [manual |-> FALSE, auto |-> FALSE, ledger |-> "revoked"]
      BY <2>3 DEF Writes
    <3>2. key = "manual" \/ key = "auto" \/ key = "ledger"
      BY <1>1, <1>2, <2>3, PlanCases
    <3>3. CASE key = "manual"
      <4>1. Values[key] = BOOLEAN
        BY <2>1, <3>3
      <4>2. Writes(task)[key] = FALSE
        BY <3>1, <3>3
      <4> QED
        BY <4>1, <4>2
    <3>4. CASE key = "auto"
      <4>1. Values[key] = BOOLEAN
        BY <2>1, <3>4
      <4>2. Writes(task)[key] = FALSE
        BY <3>1, <3>4
      <4> QED
        BY <4>1, <4>2
    <3>5. CASE key = "ledger"
      BY <2>1, <3>1, <3>5
    <3> QED
      BY <3>2, <3>3, <3>4, <3>5
  <2>4. CASE task.op = "exclude"
    <3>1. Writes(task) = [auto |-> TRUE, since |-> task.at, ledger |-> "auto"]
      BY <2>4 DEF Writes
    <3>2. key = "auto" \/ key = "since" \/ key = "ledger"
      BY <1>1, <1>2, <2>4, PlanCases
    <3>3. CASE key = "auto"
      <4>1. Values[key] = BOOLEAN
        BY <2>1, <3>3
      <4>2. Writes(task)[key] = TRUE
        BY <3>1, <3>3
      <4> QED
        BY <4>1, <4>2
    <3>4. CASE key = "since"
      BY <1>3, <2>1, <3>1, <3>4
    <3>5. CASE key = "ledger"
      BY <1>3, <2>1, <3>1, <3>5
    <3> QED
      BY <3>2, <3>3, <3>4, <3>5
  <2> QED
    BY <1>2, <2>2, <2>3, <2>4, PlanCases
<1>5. PICK list \in [Rigs -> Values[key]] :
        /\ list = [task.copy EXCEPT ![task.rig] = Writes(task)[key]]
        /\ list[task.rig] = Writes(task)[key]
        /\ \A r \in Rigs \ {task.rig} : list[r] = task.copy[r]
  <2> DEFINE saved == [task.copy EXCEPT ![task.rig] = Writes(task)[key]]
  <2>1. /\ saved \in [Rigs -> Values[key]] /\ saved[task.rig] = Writes(task)[key]
        /\ \A r \in Rigs \ {task.rig} : saved[r] = task.copy[r]
    BY <1>2, <1>3, <1>4
  <2> QED
    BY <2>1
<1>6. lists' = [lists EXCEPT ![key] = list]
  BY <1>1, <1>5 DEF SaveKey
<1>7. lists \in [manual : [Rigs -> Values.manual], auto : [Rigs -> Values.auto],
                 since : [Rigs -> Values.since], ledger : [Rigs -> Values.ledger]]
  BY DEF RigInv, RigTypeOK
<1>8. /\ lists' \in [manual : [Rigs -> Values.manual], auto : [Rigs -> Values.auto],
                     since : [Rigs -> Values.since], ledger : [Rigs -> Values.ledger]]
      /\ lists'[key] = list /\ \A k \in ListKeys : k # key => lists'[k] = lists[k]
  <2>1. CASE key = "manual"
    BY <1>6, <1>7, <2>1 DEF ListKeys
  <2>2. CASE key = "auto"
    BY <1>6, <1>7, <2>2 DEF ListKeys
  <2>3. CASE key = "since"
    BY <1>6, <1>7, <2>3 DEF ListKeys
  <2>4. CASE key = "ledger"
    BY <1>6, <1>7, <2>4 DEF ListKeys
  <2> QED
    BY <2>1, <2>2, <2>3, <2>4 DEF ListKeys
<1> QED
  BY <1>1, <1>5, <1>8

(* What is saved of a rig. *)
RowBecomes(rig, manual, auto, since, ledger) ==
    /\ lists'.manual[rig] = manual /\ lists'.auto[rig] = auto
    /\ lists'.since[rig] = since /\ lists'.ledger[rig] = ledger

(* What a save writes for its own rig, operation by operation. *)
LEMMA OwnRigSaved ==
    ASSUME RigAssumptions, RigInv, NEW t \in Editors, SaveKey(t), NEW rig, rig = change[t].rig
    PROVE  \/ /\ change[t].op = "ban" /\ change[t].step = 1
              /\ RowBecomes(rig, TRUE, lists.auto[rig], lists.since[rig], lists.ledger[rig])
           \/ /\ change[t].op = "ban" /\ change[t].step = 2
              /\ RowBecomes(rig, lists.manual[rig], lists.auto[rig], lists.since[rig], "manual")
           \/ /\ change[t].op = "restore" /\ change[t].step = 1
              /\ RowBecomes(rig, FALSE, lists.auto[rig], lists.since[rig], lists.ledger[rig])
           \/ /\ change[t].op = "restore" /\ change[t].step = 2
              /\ RowBecomes(rig, lists.manual[rig], FALSE, lists.since[rig], lists.ledger[rig])
           \/ /\ change[t].op = "restore" /\ change[t].step = 3
              /\ RowBecomes(rig, lists.manual[rig], lists.auto[rig], lists.since[rig], "revoked")
           \/ /\ change[t].op = "exclude" /\ change[t].step = 1
              /\ RowBecomes(rig, lists.manual[rig], TRUE, lists.since[rig], lists.ledger[rig])
           \/ /\ change[t].op = "exclude" /\ change[t].step = 2
              /\ RowBecomes(rig, lists.manual[rig], lists.auto[rig], change[t].at,
                            lists.ledger[rig])
           \/ /\ change[t].op = "exclude" /\ change[t].step = 3
              /\ RowBecomes(rig, lists.manual[rig], lists.auto[rig], lists.since[rig], "auto")
<1> DEFINE task == change[t]
<1>0. PICK key \in ListKeys : key = Key(task)
  BY SavedLists
<1>1. TaskIsPlanned(task) /\ task.op # "judge"
  BY TaskAtHand DEF RigInv, SaveKey
<1>2. /\ key # "manual" => lists'.manual[rig] = lists.manual[rig]
      /\ key # "auto" => lists'.auto[rig] = lists.auto[rig]
      /\ key # "since" => lists'.since[rig] = lists.since[rig]
      /\ key # "ledger" => lists'.ledger[rig] = lists.ledger[rig]
  BY <1>0, SavedLists DEF ListKeys
<1>3. /\ key = "manual" => lists'.manual[rig] = Writes(task)["manual"]
      /\ key = "auto" => lists'.auto[rig] = Writes(task)["auto"]
      /\ key = "since" => lists'.since[rig] = Writes(task)["since"]
      /\ key = "ledger" => lists'.ledger[rig] = Writes(task)["ledger"]
  BY <1>0, SavedLists
<1>4. CASE task.op = "ban"
  <2>1. Writes(task) = [manual |-> TRUE, ledger |-> "manual"]
    BY <1>4 DEF Writes
  <2>2. Writes(task)["manual"] = TRUE /\ Writes(task)["ledger"] = "manual"
    BY <2>1
  <2>3. \/ task.step = 1 /\ key = "manual"
        \/ task.step = 2 /\ key = "ledger"
    BY <1>0, <1>1, <1>4, PlanCases
  <2> QED
    BY <1>2, <1>3, <1>4, <2>2, <2>3 DEF RowBecomes
<1>5. CASE task.op = "restore"
  <2>1. Writes(task) = [manual |-> FALSE, auto |-> FALSE, ledger |-> "revoked"]
    BY <1>5 DEF Writes
  <2>2. /\ Writes(task)["manual"] = FALSE /\ Writes(task)["auto"] = FALSE
        /\ Writes(task)["ledger"] = "revoked"
    BY <2>1
  <2>3. \/ task.step = 1 /\ key = "manual"
        \/ task.step = 2 /\ key = "auto"
        \/ task.step = 3 /\ key = "ledger"
    BY <1>0, <1>1, <1>5, PlanCases
  <2> QED
    BY <1>2, <1>3, <1>5, <2>2, <2>3 DEF RowBecomes
<1>6. CASE task.op = "exclude"
  <2>1. Writes(task) = [auto |-> TRUE, since |-> task.at, ledger |-> "auto"]
    BY <1>6 DEF Writes
  <2>2. /\ Writes(task)["auto"] = TRUE /\ Writes(task)["since"] = task.at
        /\ Writes(task)["ledger"] = "auto"
    BY <2>1
  <2>3. \/ task.step = 1 /\ key = "auto"
        \/ task.step = 2 /\ key = "since"
        \/ task.step = 3 /\ key = "ledger"
    BY <1>0, <1>1, <1>6, PlanCases
  <2> QED
    BY <1>2, <1>3, <1>6, <2>2, <2>3 DEF RowBecomes
<1> QED
  BY <1>1, <1>4, <1>5, <1>6, PlanCases

(* What follows the save of a key: the next one, or the end after the last. *)
LEMMA AfterKeyIsSaved ==
    ASSUME RigAssumptions, RigInv, NEW t \in Editors, SaveKey(t), change[t].ok
    PROVE  IF change[t].step = Len(Plan[change[t].op])
           THEN change'[t] = NoChange
           ELSE change'[t] \in [op : {change[t].op}, rig : {change[t].rig},
                                step : {change[t].step + 1}, copy : {NoCopy}, ok : {TRUE},
                                at : {change[t].at}]
<1>1. /\ change[t] # NoChange /\ change[t].op # "judge"
      /\ ChangeBecomes(t, NextKey(change[t], TRUE))
  BY DEF SaveKey
<1>2. change'[t] = NextKey(change[t], TRUE)
  BY <1>1, ThreadGoesOn DEF RigInv
<1>3. CASE change[t].step = Len(Plan[change[t].op])
  BY <1>2, <1>3 DEF NextKey
<1>4. CASE change[t].step # Len(Plan[change[t].op])
  <2>1. NextKey(change[t], TRUE) = [change[t] EXCEPT !.step = @ + 1, !.copy = NoCopy, !.ok = TRUE]
    BY <1>4 DEF NextKey
  <2> DEFINE task == change[t]
  <2>2. task \in Tasks(Key(task))
    BY <1>1, TaskAtHand DEF RigInv
  <2> DEFINE x == [task EXCEPT !.step = @ + 1, !.copy = NoCopy, !.ok = TRUE]
  <2>3. x \in [op : {task.op}, rig : {task.rig}, step : {task.step + 1}, copy : {NoCopy},
               ok : {TRUE}, at : {task.at}]
    <3> HIDE DEF task
    <3> QED
      BY <2>2 DEF Tasks
  <2> QED
    BY <1>2, <1>4, <2>1, <2>3
<1> QED
  BY <1>3, <1>4

(* Each save of an operation does its part for its own rig. *)
LEMMA SaveKeepsOwnRig ==
    ASSUME RigAssumptions, RigInv, NEW t \in Editors, SaveKey(t), NEW rig, rig = change[t].rig,
           rig \notin unsure'
    PROVE  RigIsSound(rig)' /\ lists'.since[rig] <= hour
<1> DEFINE task == change[t]
<1>1. /\ task # NoChange /\ task.op # "judge" /\ UNCHANGED <<newest, hour>> /\ rig \in Rigs
      /\ ChangeBecomes(t, NextKey(task, task.ok)) /\ TaskIsPlanned(task) /\ task.at \in Nat
      /\ newest[rig] \in Nat /\ lists.since[rig] \in Nat
  <2>1. /\ task # NoChange /\ task.op # "judge" /\ UNCHANGED <<newest, hour>>
        /\ ChangeBecomes(t, NextKey(task, task.ok))
    BY DEF SaveKey
  <2>2. TaskIsPlanned(task) /\ rig \in Rigs /\ task.at \in RigTimes
    BY <2>1, TaskAtHand DEF RigInv
  <2>3. newest[rig] \in RigTimes /\ lists.since[rig] \in RigTimes
    BY <2>2 DEF RigInv, RigTypeOK, Values
  <2> QED
    BY <2>1, <2>2, <2>3 DEF RigTimes
<1>2. /\ unsure \subseteq unsure'
      /\ promised' = (IF task.op = "ban" THEN promised \cup {rig} ELSE promised) \ unsure'
      /\ excluded' = (IF task.op = "exclude" /\ newest[rig] <= task.at THEN excluded \cup {rig}
                                                                       ELSE excluded) \ unsure'
  BY DEF SaveKey, Notes
<1>3. RigIsSound(rig) /\ lists.since[rig] <= hour /\ task.at <= hour
  BY <1>1, <1>2 DEF RigInv, RecordIsPast
<1>4. TaskIsSound(task) /\ AtWork(rig) = {t} /\ task.ok
  <2>1. t \in AtWork(rig)
    BY <1>1 DEF AtWork
  <2> QED
    BY <1>3, <2>1 DEF RigIsSound, TaskIsSound
<1>5. IF task.step = Len(Plan[task.op])
      THEN change'[t] = NoChange
      ELSE /\ change'[t].op = task.op /\ change'[t].rig = rig /\ change'[t].step = task.step + 1
           /\ change'[t].ok /\ change'[t].at = task.at /\ change'[t] # NoChange
  <2>1. CASE task.step = Len(Plan[task.op])
    BY <1>4, <2>1, AfterKeyIsSaved
  <2>2. CASE task.step # Len(Plan[task.op])
    <3>1. change'[t] \in [op : {task.op}, rig : {task.rig}, step : {task.step + 1},
                          copy : {NoCopy}, ok : {TRUE}, at : {task.at}]
      BY <1>4, <2>2, AfterKeyIsSaved
    <3>2. task.op # "none"
      BY <1>1, PlanCases
    <3>3. change'[t] # NoChange
      <4>1. change'[t].op = task.op /\ NoChange.op = "none"
        BY <3>1 DEF NoChange
      <4> QED
        BY <3>2, <4>1
    <3> QED
      BY <2>2, <3>1, <3>3
  <2> QED
    BY <2>1, <2>2
<1>6. AtWork(rig)' = IF change'[t] = NoChange THEN {} ELSE {t}
  <2>1. \A u \in Editors \ {t} : change'[u] # NoChange => change'[u].rig # rig
    BY <1>1, <1>4, ThreadGoesOn DEF RigInv, AtWork
  <2>2. CASE change'[t] = NoChange
    BY <2>1, <2>2 DEF AtWork
  <2>3. CASE change'[t] # NoChange
    BY <1>5, <2>1, <2>3 DEF AtWork
  <2> QED
    BY <2>2, <2>3
<1>7. /\ rig \in promised => lists.manual[rig]
      /\ rig \in excluded => \/ task.op = "exclude" /\ task.step = 2
                             \/ lists.since[rig] >= 1 /\ newest[rig] <= lists.since[rig]
  BY <1>3, <1>4 DEF RigIsSound, NotStampedYet
<1> DEFINE Goal ==
      /\ change'[t] = NoChange => Agrees(rig)'
      /\ change'[t] # NoChange => TaskIsSound(change[t])'
      /\ rig \in promised' => lists'.manual[rig]
      /\ rig \in excluded' => \/ change'[t] # NoChange /\ task.op = "exclude" /\ task.step = 1
                              \/ lists'.since[rig] >= 1 /\ newest'[rig] <= lists'.since[rig]
      /\ lists'.since[rig] <= hour
<1>8. ASSUME task.op = "ban"
      PROVE  Goal
  <2>1. Len(Plan[task.op]) = 2
    BY <1>1, <1>8, PlanCases
  <2>2. CASE /\ task.step = 1
             /\ RowBecomes(rig, TRUE, lists.auto[rig], lists.since[rig], lists.ledger[rig])
    <3>1. /\ change'[t].op = "ban" /\ change'[t].step = 2 /\ change'[t].ok /\ change'[t].rig = rig
          /\ change'[t] # NoChange
      BY <1>5, <1>8, <2>1, <2>2
    <3>2. TaskIsSound(change[t])'
      BY <2>2, <3>1 DEF TaskIsSound, BanIsSound, RowBecomes
    <3> QED
      BY <1>1, <1>2, <1>3, <1>7, <1>8, <2>2, <3>1, <3>2 DEF RowBecomes
  <2>3. CASE /\ task.step = 2
             /\ RowBecomes(rig, lists.manual[rig], lists.auto[rig], lists.since[rig], "manual")
    <3>1. change'[t] = NoChange
      BY <1>5, <2>1, <2>3
    <3>2. lists.manual[rig]
      BY <1>4, <1>8, <2>3 DEF TaskIsSound, BanIsSound, RowBecomes
    <3>3. Agrees(rig)'
      BY <2>3, <3>2 DEF Agrees, RowBecomes
    <3> QED
      BY <1>1, <1>2, <1>3, <1>7, <1>8, <2>3, <3>1, <3>2, <3>3 DEF RowBecomes
  <2>4. \/ task.step = 1 /\ RowBecomes(rig, TRUE, lists.auto[rig], lists.since[rig],
                                        lists.ledger[rig])
        \/ task.step = 2 /\ RowBecomes(rig, lists.manual[rig], lists.auto[rig], lists.since[rig],
                                       "manual")
    BY <1>8, OwnRigSaved
  <2> QED
    BY <2>2, <2>3, <2>4
<1>9. ASSUME task.op = "restore"
      PROVE  Goal
  <2>1. Len(Plan[task.op]) = 3
    BY <1>1, <1>9, PlanCases
  <2>2. RestoreIsSound(task) /\ rig \notin promised' /\ (rig \in excluded' <=> rig \in excluded)
    BY <1>2, <1>4, <1>9 DEF TaskIsSound, RestoreIsSound
  <2>3. CASE /\ task.step = 1
             /\ RowBecomes(rig, FALSE, lists.auto[rig], lists.since[rig], lists.ledger[rig])
    <3>1. /\ change'[t].op = "restore" /\ change'[t].step = 2 /\ change'[t].ok
          /\ change'[t].rig = rig /\ change'[t] # NoChange
      BY <1>5, <1>9, <2>1, <2>3
    <3>2. TaskIsSound(change[t])'
      BY <2>2, <2>3, <3>1 DEF TaskIsSound, RestoreIsSound, RowBecomes
    <3> QED
      BY <1>1, <1>3, <1>7, <1>9, <2>2, <2>3, <3>1, <3>2 DEF RowBecomes
  <2>4. CASE /\ task.step = 2
             /\ RowBecomes(rig, lists.manual[rig], FALSE, lists.since[rig], lists.ledger[rig])
    <3>1. /\ change'[t].op = "restore" /\ change'[t].step = 3 /\ change'[t].ok
          /\ change'[t].rig = rig /\ change'[t] # NoChange
      BY <1>5, <1>9, <2>1, <2>4
    <3>2. TaskIsSound(change[t])'
      BY <2>2, <2>4, <3>1 DEF TaskIsSound, RestoreIsSound, RowBecomes
    <3> QED
      BY <1>1, <1>3, <1>7, <1>9, <2>2, <2>4, <3>1, <3>2 DEF RowBecomes
  <2>5. CASE /\ task.step = 3
             /\ RowBecomes(rig, lists.manual[rig], lists.auto[rig], lists.since[rig], "revoked")
    <3>1. change'[t] = NoChange
      BY <1>5, <2>1, <2>5
    <3>2. ~lists.manual[rig] /\ ~lists.auto[rig]
      BY <2>2, <2>5 DEF RestoreIsSound, RowBecomes
    <3>3. Agrees(rig)'
      BY <2>5, <3>2 DEF Agrees, RowBecomes
    <3> QED
      BY <1>1, <1>3, <1>7, <1>9, <2>2, <2>5, <3>1, <3>3 DEF RowBecomes
  <2>6. \/ task.step = 1 /\ RowBecomes(rig, FALSE, lists.auto[rig], lists.since[rig],
                                       lists.ledger[rig])
        \/ task.step = 2 /\ RowBecomes(rig, lists.manual[rig], FALSE, lists.since[rig],
                                       lists.ledger[rig])
        \/ task.step = 3 /\ RowBecomes(rig, lists.manual[rig], lists.auto[rig], lists.since[rig],
                                       "revoked")
    BY <1>9, OwnRigSaved
  <2> QED
    BY <2>3, <2>4, <2>5, <2>6
<1>10. ASSUME task.op = "exclude"
      PROVE  Goal
  <2>1. Len(Plan[task.op]) = 3
    BY <1>1, <1>10, PlanCases
  <2>2. ExcludeIsSound(task) /\ (rig \in promised' <=> rig \in promised)
    BY <1>2, <1>4, <1>10 DEF TaskIsSound
  <2>3. rig \in excluded' => newest[rig] <= task.at \/ rig \in excluded
    BY <1>2
  <2>4. CASE /\ task.step = 1
             /\ RowBecomes(rig, lists.manual[rig], TRUE, lists.since[rig], lists.ledger[rig])
    <3>1. /\ change'[t].op = "exclude" /\ change'[t].step = 2 /\ change'[t].ok
          /\ change'[t].rig = rig /\ change'[t].at = task.at /\ change'[t] # NoChange
      BY <1>5, <1>10, <2>1, <2>4
    <3>2. TaskIsSound(change[t])'
      BY <1>1, <2>2, <2>3, <2>4, <3>1 DEF TaskIsSound, ExcludeIsSound, RowBecomes
    <3> QED
      BY <1>3, <1>7, <1>10, <2>2, <2>4, <3>1, <3>2 DEF RowBecomes
  <2>5. CASE /\ task.step = 2
             /\ RowBecomes(rig, lists.manual[rig], lists.auto[rig], task.at, lists.ledger[rig])
    <3>1. /\ change'[t].op = "exclude" /\ change'[t].step = 3 /\ change'[t].ok
          /\ change'[t].rig = rig /\ change'[t].at = task.at /\ change'[t] # NoChange
      BY <1>5, <1>10, <2>1, <2>5
    <3>2. TaskIsSound(change[t])'
      BY <1>1, <2>2, <2>5, <3>1 DEF TaskIsSound, ExcludeIsSound, RowBecomes
    <3>3. task.at >= 1 /\ (rig \in excluded' => newest[rig] <= task.at)
      BY <2>2, <2>3, <2>5 DEF ExcludeIsSound, RowBecomes
    <3> QED
      BY <1>1, <1>3, <1>7, <2>2, <2>5, <3>1, <3>2, <3>3 DEF RowBecomes
  <2>6. CASE /\ task.step = 3
             /\ RowBecomes(rig, lists.manual[rig], lists.auto[rig], lists.since[rig], "auto")
    <3>1. change'[t] = NoChange
      BY <1>5, <2>1, <2>6
    <3>2. lists.auto[rig] /\ lists.since[rig] = task.at /\ task.at >= 1
      BY <2>2, <2>6 DEF ExcludeIsSound, RowBecomes
    <3>3. Agrees(rig)'
      BY <2>6, <3>2 DEF Agrees, RowBecomes
    <3>4. rig \in excluded' => newest[rig] <= lists.since[rig]
      BY <1>7, <2>3, <2>6, <3>2 DEF RowBecomes
    <3> QED
      BY <1>1, <1>3, <1>7, <2>2, <2>6, <3>1, <3>2, <3>3, <3>4 DEF RowBecomes
  <2>7. \/ task.step = 1 /\ RowBecomes(rig, lists.manual[rig], TRUE, lists.since[rig],
                                       lists.ledger[rig])
        \/ task.step = 2 /\ RowBecomes(rig, lists.manual[rig], lists.auto[rig], task.at,
                                       lists.ledger[rig])
        \/ task.step = 3 /\ RowBecomes(rig, lists.manual[rig], lists.auto[rig], lists.since[rig],
                                       "auto")
    BY <1>10, OwnRigSaved
  <2> QED
    BY <2>4, <2>5, <2>6, <2>7
<1>11. Goal
  BY <1>1, <1>8, <1>9, <1>10, PlanCases
<1>12. change'[t] # NoChange /\ task.op = "exclude" /\ task.step = 1 => NotStampedYet(rig)'
  BY <1>5, <1>6 DEF NotStampedYet
<1> QED
  BY <1>6, <1>11, <1>12 DEF RigIsSound

(* A save keeps every rig but those whose entry was changed since the list was loaded. *)
LEMMA SaveKeyKeepsInv ==
    ASSUME RigAssumptions, RigInv, NEW t \in Editors, SaveKey(t)
    PROVE  RigInv'
<1> DEFINE task == change[t]
<1> DEFINE x == NextKey(task, task.ok)
<1>1. /\ task # NoChange /\ task.op # "judge" /\ ChangeBecomes(t, x)
      /\ UNCHANGED <<newest, hour, chances>>
  BY DEF SaveKey
<1>2. RigTypeOK /\ task \in Tasks(Key(task)) /\ task.ok \in BOOLEAN
  BY <1>1, TaskAtHand DEF RigInv, Tasks
<1>3. PICK rig \in Rigs : rig = task.rig
  BY <1>1, TaskAtHand DEF RigInv
<1>4. PICK key \in ListKeys : key = Key(task)
  BY SavedLists
<1>5. /\ unsure' = unsure \cup {r \in Rigs \ {rig} : task.copy[r] # lists[key][r]}
      /\ promised' = (IF task.op = "ban" THEN promised \cup {rig} ELSE promised) \ unsure'
      /\ excluded' = (IF task.op = "exclude" /\ newest[rig] <= task.at THEN excluded \cup {rig}
                                                                       ELSE excluded) \ unsure'
  BY <1>3, <1>4 DEF SaveKey, Notes
<1>6. {promised', excluded', unsure'} \subseteq SUBSET Rigs
  BY <1>2, <1>5 DEF RigTypeOK
<1>7. x # NoChange => TaskIsTyped(x) /\ x.rig = rig
  BY <1>1, <1>2, <1>3, NextKeyIsTyped
<1> HIDE DEF x
<1>8. RigTypeOK'
  BY <1>1, <1>2, <1>6, <1>7, SavedLists, TasksStayTyped DEF RigTypeOK, TaskIsTyped
<1>9. ASSUME NEW r \in Rigs \ unsure', r # rig
      PROVE  RigIsSound(r)' /\ lists'.since[r] = lists.since[r]
  <2>1. \A k \in ListKeys : lists'[k][r] = lists[k][r]
    <3>1. task.copy[r] = lists[key][r]
      BY <1>5, <1>9
    <3> QED
      BY <1>3, <1>4, <1>9, <3>1, SavedLists
  <2>2. /\ lists'.manual[r] = lists.manual[r] /\ lists'.auto[r] = lists.auto[r]
        /\ lists'.since[r] = lists.since[r] /\ lists'.ledger[r] = lists.ledger[r]
    BY <2>1 DEF ListKeys
  <2>3. RigIsSound(r)
    BY <1>5, <1>9 DEF RigInv
  <2>4. (r \in promised' <=> r \in promised) /\ (r \in excluded' <=> r \in excluded)
    BY <1>5, <1>9
  <2> QED
    BY <1>1, <1>2, <1>3, <1>7, <1>9, <2>2, <2>3, <2>4, OtherRigs
<1>10. RecordIsPast' /\ JudgesOnlyLook'
  <2>1. \A r \in Rigs : newest'[r] <= hour'
    BY <1>1 DEF RigInv, RecordIsPast
  <2>2. \A r \in Rigs \ unsure' : lists'.since[r] <= hour'
    <3>1. ASSUME NEW r \in Rigs \ unsure'
          PROVE  lists'.since[r] <= hour
      <4>1. CASE r = rig
        BY <1>3, <3>1, <4>1, SaveKeepsOwnRig
      <4>2. CASE r # rig
        BY <1>5, <1>9, <4>2 DEF RigInv, RecordIsPast
      <4> QED
        BY <4>1, <4>2
    <3> QED
      BY <1>1, <3>1
  <2>3. \A u \in Editors : change'[u] # NoChange =>
          change'[u].at <= hour' /\ (change'[u].op = "judge" => change'[u].copy = NoCopy)
    BY <1>1, <1>2, <1>7, ThreadGoesOn DEF RigInv, RecordIsPast, JudgesOnlyLook, TaskIsTyped
  <2> QED
    BY <2>1, <2>2, <2>3 DEF RecordIsPast, JudgesOnlyLook
<1>11. \A r \in Rigs \ unsure' : RigIsSound(r)'
  BY <1>3, <1>9, SaveKeepsOwnRig
<1>12. (promised' \cup excluded') \cap unsure' = {}
  BY <1>5
<1> QED
  BY <1>8, <1>10, <1>11, <1>12 DEF RigInv

-----------------------------------------------------------------------------
(* A rental that is put on record is the newest of its rig. *)
LEMMA RigIngestKeepsInv ==
    ASSUME RigAssumptions, RigInv, NEW rig \in Rigs, Ingest(rig)
    PROVE  RigInv'
<1>1. PICK start \in (newest[rig] + 1)..hour :
        /\ newest' = [newest EXCEPT ![rig] = start]
        /\ Notes(promised, IF start > lists.since[rig] THEN excluded \ {rig} ELSE excluded, unsure)
  BY DEF Ingest
<1>2. UNCHANGED <<lists, change, hour, chances>>
  BY DEF Ingest
<1>3. /\ RigTypeOK /\ newest \in [Rigs -> RigTimes] /\ hour \in 1..MaxTime /\ MaxTime \in Nat
      /\ lists.since \in [Rigs -> RigTimes]
  BY DEF RigInv, RigTypeOK, Values, RigAssumptions
<1>4. newest[rig] \in Nat /\ start \in RigTimes /\ start <= hour /\ newest[rig] < start
  BY <1>3 DEF RigTimes
<1>5. /\ newest'[rig] = start /\ newest' \in [Rigs -> RigTimes]
      /\ \A r \in Rigs \ {rig} : newest'[r] = newest[r]
  BY <1>1, <1>3, <1>4
<1>6. /\ unsure' = unsure /\ promised' = promised \ unsure
      /\ excluded' = (IF start > lists.since[rig] THEN excluded \ {rig} ELSE excluded) \ unsure
  BY <1>1 DEF Notes
<1>7. RigTypeOK'
  BY <1>2, <1>3, <1>5, <1>6 DEF RigTypeOK, Tasks, Copies, Key, RigTimes, Values
<1>8. RecordIsPast' /\ JudgesOnlyLook'
  BY <1>2, <1>4, <1>5, <1>6 DEF RigInv, RecordIsPast, JudgesOnlyLook
<1>9. ASSUME NEW r \in Rigs \ unsure, r # rig
      PROVE  RigIsSound(r)'
  BY <1>2, <1>5, <1>6, <1>9, RigUntouched DEF RigInv, AtWork
<1>10. ASSUME rig \notin unsure
       PROVE  RigIsSound(rig)'
  <2>1. RigIsSound(rig)
    BY <1>10 DEF RigInv
  <2>2. AtWork(rig)' = AtWork(rig) /\ (Agrees(rig)' <=> Agrees(rig))
        /\ (NotStampedYet(rig)' <=> NotStampedYet(rig))
    BY <1>2 DEF AtWork, Agrees, NotStampedYet
  <2>3. lists.since[rig] \in Nat
    BY <1>3 DEF RigTimes
  <2>4. ASSUME NEW t \in AtWork(rig)
        PROVE  TaskIsSound(change[t])'
    <3>1. TaskIsSound(change[t]) /\ change[t].rig = rig /\ change[t].at \in Nat /\ t \in Editors
          /\ change[t] # NoChange
      BY <1>3, <2>1, <2>4, TaskAtHand DEF RigIsSound, AtWork, RigTimes
    <3>2. change[t].at <= hour
      BY <3>1 DEF RigInv, RecordIsPast
    <3>3. change[t].op = "ban" => BanIsSound(change[t])'
      BY <1>2, <3>1 DEF TaskIsSound, BanIsSound, Agrees
    <3>4. change[t].op = "restore" => RestoreIsSound(change[t])'
      BY <1>2, <1>6, <3>1 DEF TaskIsSound, RestoreIsSound, Agrees
    <3>5. change[t].op = "judge" => JudgeIsSound(change[t])'
      BY <1>2, <1>4, <1>5, <3>1 DEF TaskIsSound, JudgeIsSound, Agrees
    <3>6. change[t].op = "exclude" => ExcludeIsSound(change[t])'
      BY <1>2, <1>4, <1>5, <1>6, <2>3, <3>1 DEF TaskIsSound, ExcludeIsSound, Agrees
    <3> QED
      BY <1>2, <3>1, <3>3, <3>4, <3>5, <3>6 DEF TaskIsSound
  <2>5. rig \in excluded' =>
          NotStampedYet(rig)' \/ (lists'.since[rig] >= 1 /\ newest'[rig] <= lists'.since[rig])
    BY <1>2, <1>4, <1>5, <1>6, <2>1, <2>2, <2>3 DEF RigIsSound
  <2>6. rig \in promised' => lists'.manual[rig]
    BY <1>2, <1>6, <2>1 DEF RigIsSound
  <2> QED
    BY <2>1, <2>2, <2>4, <2>5, <2>6 DEF RigIsSound
<1> QED
  BY <1>6, <1>7, <1>8, <1>9, <1>10 DEF RigInv

(* Time goes on. *)
LEMMA RigTickKeepsInv ==
    ASSUME RigAssumptions, RigInv, RigTick
    PROVE  RigInv'
<1>1. /\ UNCHANGED <<lists, newest, change, chances, promised, excluded, unsure>>
      /\ hour < MaxTime /\ hour' = hour + 1 /\ hour \in 1..MaxTime /\ MaxTime \in Nat
  BY DEF RigTick, notes, RigInv, RigTypeOK, RigAssumptions
<1>2. RigTypeOK'
  <2>1. hour + 1 \in 1..MaxTime
    BY <1>1
  <2>2. \A t \in Editors : change[t] # NoChange =>
          change[t] \in Tasks(Key(change[t])) /\ change[t].step <= Len(Plan[change[t].op])
    BY DEF RigInv, RigTypeOK
  <2>3. \A t \in Editors : change'[t] # NoChange =>
          change'[t] \in Tasks(Key(change'[t])) /\ change'[t].step <= Len(Plan[change'[t].op])
    BY <1>1, <2>2
  <2> QED
    BY <1>1, <2>1, <2>3 DEF RigInv, RigTypeOK, Tasks, Copies, Key, RigTimes, Values
<1>3. RecordIsPast'
  <2>1. \A r \in Rigs : newest[r] \in Nat /\ lists.since[r] \in Nat
    <3>1. newest \in [Rigs -> RigTimes] /\ lists.since \in [Rigs -> RigTimes]
      BY DEF RigInv, RigTypeOK, Values
    <3> QED
      BY <3>1 DEF RigTimes
  <2>2. \A t \in Editors : change[t] # NoChange => change[t].at \in Nat
    BY TaskAtHand DEF RigInv, RigTimes
  <2> QED
    BY <1>1, <2>1, <2>2 DEF RigInv, RecordIsPast
<1>4. JudgesOnlyLook'
  BY <1>1 DEF RigInv, JudgesOnlyLook
<1>5. ASSUME NEW r \in Rigs \ unsure
      PROVE  RigIsSound(r)'
  <2>1. RigIsSound(r) /\ AtWork(r)' = AtWork(r)
    BY <1>1 DEF RigInv, AtWork
  <2> QED
    BY <1>1, <2>1, RigUntouched
<1> QED
  BY <1>1, <1>2, <1>3, <1>4, <1>5 DEF RigInv

(* A crash puts in doubt every rig that somebody was at work on. *)
LEMMA RigCrashKeepsInv ==
    ASSUME RigAssumptions, RigInv, RigCrash
    PROVE  RigInv'
<1>1. /\ UNCHANGED <<lists, newest, hour>> /\ change' = [t \in Editors |-> NoChange]
      /\ chances' \in [requests : 0..MaxRequests, faults : 0..MaxMishaps]
  BY RigSpendIsTyped DEF RigCrash, RigInv
<1>2. /\ unsure' = unsure \cup {r \in Rigs : AtWork(r) # {}}
      /\ promised' = promised \ unsure' /\ excluded' = excluded \ unsure'
  BY DEF RigCrash, Doubt, Notes
<1>3. RigTypeOK'
  BY <1>1, <1>2 DEF RigInv, RigTypeOK
<1>4. RecordIsPast' /\ JudgesOnlyLook'
  BY <1>1, <1>2 DEF RigInv, RecordIsPast, JudgesOnlyLook
<1>5. ASSUME NEW r \in Rigs \ unsure'
      PROVE  RigIsSound(r)'
  <2>1. RigIsSound(r) /\ AtWork(r) = {} /\ AtWork(r)' = {}
    BY <1>1, <1>2 DEF RigInv, AtWork
  <2> QED
    BY <1>1, <1>2, <2>1, RigUntouched
<1> QED
  BY <1>2, <1>3, <1>4, <1>5 DEF RigInv

(* At first no rig is on a list. *)
LEMMA RigInitHasInv ==
    ASSUME RigAssumptions, RigInit
    PROVE  RigInv
<1>1. /\ lists.manual = [r \in Rigs |-> FALSE] /\ lists.auto = [r \in Rigs |-> FALSE]
      /\ lists.since = [r \in Rigs |-> 0] /\ lists.ledger = [r \in Rigs |-> "none"]
  BY DEF RigInit, ListKeys, Empty, Unlisted
<1>2. lists = [manual |-> lists.manual, auto |-> lists.auto, since |-> lists.since,
               ledger |-> lists.ledger]
  BY DEF RigInit, ListKeys
<1>3. newest = [r \in Rigs |-> 0] /\ change = [t \in Editors |-> NoChange] /\ hour = 1
      /\ promised = {} /\ excluded = {} /\ unsure = {}
  BY DEF RigInit
<1>4. MaxTime \in Nat \ {0} /\ MaxRequests \in Nat /\ MaxMishaps \in Nat
  BY DEF RigAssumptions
<1>5. RigTypeOK
  <2>1. /\ lists.manual \in [Rigs -> BOOLEAN] /\ lists.auto \in [Rigs -> BOOLEAN]
        /\ lists.since \in [Rigs -> RigTimes]
        /\ lists.ledger \in [Rigs -> {"none", "manual", "auto", "revoked"}]
    BY <1>1, <1>4 DEF RigTimes
  <2>2. lists \in [manual : [Rigs -> Values.manual], auto : [Rigs -> Values.auto],
                   since : [Rigs -> Values.since], ledger : [Rigs -> Values.ledger]]
    BY <1>2, <2>1 DEF Values
  <2>3. chances \in [requests : 0..MaxRequests, faults : 0..MaxMishaps]
    BY <1>4 DEF RigInit
  <2> QED
    BY <1>3, <1>4, <2>2, <2>3 DEF RigTypeOK, RigTimes
<1>6. \A r \in Rigs : RigIsSound(r)
  BY <1>1, <1>3 DEF RigIsSound, AtWork, Agrees
<1> QED
  BY <1>1, <1>3, <1>4, <1>5, <1>6 DEF RigInv, RecordIsPast, JudgesOnlyLook

(* Every step of the program keeps the invariant. *)
LEMMA RigNextKeepsInv ==
    ASSUME RigAssumptions, RigInv, [RigNext]_rigVars
    PROVE  RigInv'
<1>1. CASE RigNext
  BY <1>1, BeginChangeKeepsInv, JudgeKeepsInv, RigLoadKeepsInv, SaveKeyKeepsInv,
     SaveKeyFailsKeepsInv, RigIngestKeepsInv, RigTickKeepsInv, RigCrashKeepsInv DEF RigNext
<1>2. CASE UNCHANGED rigVars
  <2>1. UNCHANGED <<lists, newest, change, hour, chances, promised, excluded, unsure>>
    BY <1>2 DEF rigVars, notes
  <2>2. RigTypeOK' /\ RecordIsPast' /\ JudgesOnlyLook'
    BY <2>1
    DEF RigInv, RigTypeOK, Tasks, Copies, Key, RigTimes, Values, RecordIsPast, JudgesOnlyLook
  <2>3. \A r \in Rigs \ unsure : RigIsSound(r)'
    BY <2>1, RigUntouched DEF RigInv, AtWork
  <2> QED
    BY <2>1, <2>2, <2>3 DEF RigInv
<1> QED
  BY <1>1, <1>2

(* One operation at a rig that is not doubted has done what its step says. *)
THEOREM RigInvariance ==
    ASSUME RigAssumptions
    PROVE  RigSpec => []RigInv
<1>1. RigInit => RigInv
  BY RigInitHasInv
<1>2. RigInv /\ [RigNext]_rigVars => RigInv'
  BY RigNextKeepsInv
<1> QED
  BY <1>1, <1>2, PTL DEF RigSpec

(* The types of the lists and of the operations under way. *)
THEOREM RigTypes ==
    ASSUME RigAssumptions
    PROVE  RigSpec => []RigTypeOK
<1>1. RigInv => RigTypeOK
  BY DEF RigInv
<1> QED
  BY <1>1, RigInvariance, PTL

(* A rig that was excluded is listed by the sweep again only on news of it. *)
LEMMA ExclusionStep ==
    ASSUME RigAssumptions, RigInv, [RigNext]_rigVars, NEW r \in excluded \ unsure', lists'.auto[r]
    PROVE  lists.auto[r]
<1>1. CASE lists' = lists
  BY <1>1
<1>2. CASE \E t \in Editors : SaveKey(t)
  <2>1. PICK t \in Editors : SaveKey(t)
    BY <1>2
  <2>2. r \in Rigs
    BY DEF RigInv, RigTypeOK
  <2>3. PICK rig \in Rigs : rig = change[t].rig
    BY <2>1, TaskAtHand DEF RigInv, SaveKey
  <2>4. unsure' = unsure \cup
          {q \in Rigs \ {rig} : change[t].copy[q] # lists[Key(change[t])][q]}
    BY <2>1, <2>3 DEF SaveKey, Notes
  <2>5. CASE r # rig
    <3>1. change[t].copy[r] = lists[Key(change[t])][r]
      BY <2>2, <2>4, <2>5
    <3>2. lists'["auto"][r] = lists["auto"][r]
      BY <2>1, <2>2, <2>3, <2>5, <3>1, SavedLists DEF ListKeys
    <3> QED
      BY <3>2
  <2>6. CASE r = rig
    <3>1. RigIsSound(rig) /\ change[t] # NoChange /\ t \in AtWork(rig)
      BY <2>1, <2>2, <2>3, <2>4, <2>6 DEF RigInv, SaveKey, AtWork
    <3>2. TaskIsSound(change[t])
      BY <3>1 DEF RigIsSound
    <3>3. ~(change[t].op = "exclude" /\ change[t].step = 1)
      BY <2>3, <2>6, <3>2 DEF TaskIsSound, ExcludeIsSound
    <3>4. lists'.auto[rig] = lists.auto[rig] \/ lists'.auto[rig] = FALSE
      BY <2>1, <2>3, <3>3, OwnRigSaved DEF RowBecomes
    <3> QED
      BY <2>6, <3>4
  <2> QED
    BY <2>5, <2>6
<1>3. lists' = lists \/ \E t \in Editors : SaveKey(t)
  BY DEF RigNext, rigVars, BeginChange, Judge, Load, SaveKeyFails, Ingest, RigTick, RigCrash
<1> QED
  BY <1>1, <1>2, <1>3

(* What the operator and the sweep decide is kept, for any number of rigs and threads. *)
THEOREM RigDecisionsKept ==
    ASSUME RigAssumptions
    PROVE  RigSpec => RigDecisionsAreKept
<1>1. RigInv => ListsAgree
  <2> SUFFICES ASSUME RigInv PROVE ListsAgree
    OBVIOUS
  <2>1. \A r \in Rigs \ unsure : RigIsSound(r)
    BY DEF RigInv
  <2>2. promised \subseteq Rigs \ unsure
    BY DEF RigInv, RigTypeOK
  <2> QED
    BY <2>1, <2>2 DEF ListsAgree, RigIsSound, Agrees
<1>2. RigInv /\ [RigNext]_rigVars =>
        [\A r \in excluded \ unsure' : lists.auto'[r] => lists.auto[r]]_rigVars
  BY ExclusionStep
<1> QED
  BY <1>1, <1>2, RigInvariance, PTL DEF RigSpec, RigDecisionsAreKept, ExclusionsAreNews
=============================================================================
