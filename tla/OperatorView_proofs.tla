------------------------ MODULE OperatorView_proofs -------------------------
(***************************************************************************)
(* Proofs about what the operator sees: the event stream (LiveStream), for *)
(* any number of streams and snapshots and every capacity of a queue, the  *)
(* poll of the wallet (OperatorPoll), for any number of threads and        *)
(* wallets, and the polls of connected sessions (SessionPolling), for any  *)
(* number of sessions and threads of the pool.                             *)
(***************************************************************************)
EXTENDS LiveStream, OperatorPoll, SessionPolling, SequenceTheorems, FiniteSetTheorems, TLAPS

Fed(s) == got[s] \o queue[s]

(* A stream that has not connected has nothing, and one that has holds what *)
(* was broadcast after that.                                                *)
Started(s) ==
    /\ stream[s] = "none" => s \notin listed /\ got[s] = <<>> /\ queue[s] = <<>>
    /\ \A i \in 1..Len(Fed(s)) : Fed(s)[i] = since[s] + i
    /\ s \in listed => since[s] + Len(Fed(s)) = sent

StreamInv ==
    /\ sent \in 0..MaxSnapshots
    /\ stream \in [Streams -> {"none", "open", "leaving", "closed"}]
    /\ listed \subseteq Streams
    /\ queue \in [Streams -> Seq(Nat)]
    /\ \A s \in Streams : Len(queue[s]) <= Capacity
    /\ got \in [Streams -> Seq(Nat)]
    /\ since \in [Streams -> 0..MaxSnapshots]
    /\ \A s \in Streams : Started(s)

-----------------------------------------------------------------------------
(***************************************************************************)
(* Sequences                                                               *)
(***************************************************************************)
(* The elements of two sequences one after the other. *)
LEMMA Concatenation ==
    ASSUME NEW a \in Seq(Nat), NEW b \in Seq(Nat)
    PROVE  /\ a \o b \in Seq(Nat)
           /\ Len(a \o b) = Len(a) + Len(b)
           /\ \A i \in 1..(Len(a) + Len(b)) : (a \o b)[i] = IF i <= Len(a) THEN a[i] ELSE b[i - Len(a)]
OBVIOUS

(* A snapshot that is put into the queue comes last. *)
LEMMA PutIsLast ==
    ASSUME NEW a \in Seq(Nat), NEW b \in Seq(Nat), NEW x \in Nat
    PROVE  /\ Append(b, x) \in Seq(Nat)
           /\ Len(Append(b, x)) = Len(b) + 1
           /\ Len(a \o Append(b, x)) = Len(a \o b) + 1
           /\ \A i \in 1..Len(a \o b) : (a \o Append(b, x))[i] = (a \o b)[i]
           /\ (a \o Append(b, x))[Len(a \o b) + 1] = x
<1>1. /\ Append(b, x) \in Seq(Nat)
      /\ Len(Append(b, x)) = Len(b) + 1
      /\ \A i \in 1..Len(b) : Append(b, x)[i] = b[i]
      /\ Append(b, x)[Len(b) + 1] = x
  OBVIOUS
<1> QED
  BY <1>1, Concatenation

(* Taking the first one of the queue and sending it changes nothing of what the *)
(* stream was fed.                                                              *)
LEMMA TakeKeepsOrder ==
    ASSUME NEW a \in Seq(Nat), NEW b \in Seq(Nat), b # <<>>
    PROVE  /\ Append(a, Head(b)) \in Seq(Nat) /\ Tail(b) \in Seq(Nat)
           /\ Len(Tail(b)) = Len(b) - 1
           /\ Append(a, Head(b)) \o Tail(b) = a \o b
<1> DEFINE c == Append(a, Head(b))
           t == Tail(b)
<1>1. /\ Head(b) \in Nat /\ Head(b) = b[1]
      /\ t \in Seq(Nat) /\ Len(t) = Len(b) - 1
      /\ \A i \in 1..Len(t) : t[i] = b[i + 1]
  OBVIOUS
<1>2. /\ c \in Seq(Nat) /\ Len(c) = Len(a) + 1
      /\ \A i \in 1..Len(a) : c[i] = a[i]
      /\ c[Len(a) + 1] = b[1]
  BY <1>1
<1> HIDE DEF c, t
<1>3. /\ a \o b \in Seq(Nat) /\ Len(a \o b) = Len(a) + Len(b)
      /\ \A i \in 1..(Len(a) + Len(b)) : (a \o b)[i] = IF i <= Len(a) THEN a[i] ELSE b[i - Len(a)]
  BY Concatenation
<1>4. /\ c \o t \in Seq(Nat) /\ Len(c \o t) = Len(c) + Len(t)
      /\ \A i \in 1..(Len(c) + Len(t)) : (c \o t)[i] = IF i <= Len(c) THEN c[i] ELSE t[i - Len(c)]
  BY <1>1, <1>2, Concatenation
<1>5. c \o t = a \o b
  <2>1. Len(a) \in Nat /\ Len(b) \in Nat /\ Len(b) # 0
    BY EmptySeq
  <2>2. Len(c \o t) = Len(a \o b)
    BY <1>1, <1>2, <1>3, <1>4, <2>1
  <2>3. ASSUME NEW i \in 1..Len(c \o t)
        PROVE  (c \o t)[i] = (a \o b)[i]
    <3>0. /\ i \in Nat /\ 1 <= i /\ i <= Len(a) + Len(b)
          /\ i \in 1..(Len(a) + Len(b)) /\ i \in 1..(Len(c) + Len(t))
      BY <1>3, <1>4, <2>1, <2>2
    <3>1. CASE i <= Len(a)
      BY <1>1, <1>2, <1>3, <1>4, <2>1, <3>0, <3>1
    <3>2. CASE i = Len(a) + 1
      BY <1>1, <1>2, <1>3, <1>4, <2>1, <3>0, <3>2
    <3>3. CASE Len(a) + 1 < i
      <4>1. (c \o t)[i] = t[i - Len(c)] /\ (a \o b)[i] = b[i - Len(a)]
        <5>1. /\ (c \o t)[i] = IF i <= Len(c) THEN c[i] ELSE t[i - Len(c)]
              /\ (a \o b)[i] = IF i <= Len(a) THEN a[i] ELSE b[i - Len(a)]
          BY <1>3, <1>4, <3>0, Zenon
        <5>2. ~(i <= Len(c)) /\ ~(i <= Len(a))
          BY <1>2, <2>1, <3>0, <3>3
        <5> QED
          BY <5>1, <5>2, Zenon
      <4>2. i - Len(c) \in 1..Len(t) /\ i - Len(c) + 1 = i - Len(a)
        BY <1>1, <1>2, <2>1, <3>0, <3>3
      <4> QED
        BY <1>1, <4>1, <4>2
    <3>4. i <= Len(a) \/ i = Len(a) + 1 \/ Len(a) + 1 < i
      BY <2>1, <3>0
    <3> QED
      BY <3>1, <3>2, <3>3, <3>4, Zenon
  <2> QED
    BY <1>3, <1>4, <2>2, <2>3, SeqEqual
<1> QED
  BY <1>1, <1>2, <1>5 DEF c, t

-----------------------------------------------------------------------------
(***************************************************************************)
(* The invariant is inductive                                              *)
(***************************************************************************)
(* Without a stream nothing was fed. *)
LEMMA StreamInitInv ==
    ASSUME StreamAssumptions, StreamInit
    PROVE  StreamInv
BY DEF StreamAssumptions, StreamInit, StreamInv, Started, Fed

(* A step that leaves a stream and the count alone keeps what it was fed. *)
LEMMA StartedKept ==
    ASSUME NEW s \in Streams, Started(s),
           stream'[s] = "none" => stream[s] = "none",
           s \in listed' => s \in listed /\ sent' = sent,
           got'[s] = got[s], queue'[s] = queue[s], since'[s] = since[s]
    PROVE  Started(s)'
BY DEF Started, Fed

(* Every step keeps the invariant: only the stream that moves is looked at anew. *)
LEMMA NextInv ==
    ASSUME StreamAssumptions, StreamInv, [StreamNext]_streamVars
    PROVE  StreamInv'
<1> USE DEF StreamInv
<1>1. CASE UNCHANGED streamVars
  BY <1>1 DEF streamVars, Started, Fed
<1>2. ASSUME NEW s \in Streams, Connect(s)
      PROVE  StreamInv'
  <2>1. Started(s)'
    BY <1>2 DEF Connect, Started, Fed
  <2>2. ASSUME NEW u \in Streams \ {s}
        PROVE  Started(u)'
    BY <1>2, StartedKept DEF Connect
  <2>3. \A u \in Streams : Started(u)'
    BY <2>1, <2>2
  <2> QED
    BY <1>2, <2>3 DEF Connect
<1>3. CASE Broadcast
  <2>1. sent' \in 0..MaxSnapshots /\ sent' = sent + 1 /\ sent \in Nat
    BY <1>3 DEF Broadcast, StreamAssumptions
  <2>2. ASSUME NEW s \in Streams
        PROVE  /\ queue'[s] \in Seq(Nat) /\ Len(queue'[s]) <= Capacity
               /\ Started(s)'
    <3>1. CASE s \in listed /\ ~Full(s)
      <4>1. queue'[s] = Append(queue[s], sent + 1) /\ s \in listed'
        BY <1>3, <2>1, <3>1 DEF Broadcast
      <4>2. /\ queue'[s] \in Seq(Nat) /\ Len(queue'[s]) = Len(queue[s]) + 1
            /\ Len(Fed(s)') = Len(Fed(s)) + 1
            /\ \A i \in 1..Len(Fed(s)) : Fed(s)'[i] = Fed(s)[i]
            /\ Fed(s)'[Len(Fed(s)) + 1] = sent + 1
        BY <1>3, <2>1, <4>1, PutIsLast DEF Broadcast, Fed
      <4>3. Len(Fed(s)) \in Nat /\ since[s] \in Nat /\ since'[s] = since[s]
        BY <1>3, Concatenation DEF Broadcast, Fed, StreamAssumptions
      <4>4. since[s] + Len(Fed(s)) = sent
        BY <3>1 DEF Started
      <4>5. ASSUME NEW i \in 1..Len(Fed(s)')
            PROVE  Fed(s)'[i] = since'[s] + i
        <5>1. CASE i = Len(Fed(s)) + 1
          <6>1. Fed(s)'[i] = sent + 1
            BY <4>2, <5>1, Zenon
          <6> QED
            BY <4>3, <4>4, <5>1, <6>1
        <5>2. CASE i # Len(Fed(s)) + 1
          <6>1. i \in 1..Len(Fed(s))
            BY <4>2, <4>3, <5>2
          <6>2. Fed(s)[i] = since[s] + i
            BY <6>1 DEF Started
          <6> QED
            BY <4>2, <4>3, <6>1, <6>2
        <5> QED
          BY <5>1, <5>2
      <4>6. stream'[s] # "none"
        BY <1>3, <3>1 DEF Broadcast, Started
      <4>7. Len(queue'[s]) <= Capacity
        BY <3>1, <4>2 DEF Full, StreamAssumptions
      <4> QED
        BY <2>1, <4>2, <4>3, <4>4, <4>5, <4>6, <4>7 DEF Started
    <3>2. CASE ~(s \in listed /\ ~Full(s))
      <4>1. queue'[s] = queue[s] /\ s \notin listed'
        BY <1>3, <3>2 DEF Broadcast
      <4> QED
        BY <1>3, <4>1, StartedKept DEF Broadcast
    <3> QED
      BY <3>1, <3>2
  <2> QED
    BY <1>3, <2>1, <2>2 DEF Broadcast
<1>4. ASSUME NEW s \in Streams, Yield(s)
      PROVE  StreamInv'
  <2>1. /\ got'[s] = Append(got[s], Head(queue[s])) /\ queue'[s] = Tail(queue[s])
        /\ queue[s] # <<>>
    BY <1>4 DEF Yield
  <2>2. /\ got'[s] \in Seq(Nat) /\ queue'[s] \in Seq(Nat)
        /\ Len(queue'[s]) <= Len(queue[s])
        /\ Fed(s)' = Fed(s)
    <3>1. got[s] \in Seq(Nat) /\ queue[s] \in Seq(Nat)
      OBVIOUS
    <3>2. /\ Append(got[s], Head(queue[s])) \in Seq(Nat) /\ Tail(queue[s]) \in Seq(Nat)
          /\ Len(Tail(queue[s])) = Len(queue[s]) - 1
          /\ Append(got[s], Head(queue[s])) \o Tail(queue[s]) = got[s] \o queue[s]
      BY <2>1, <3>1, TakeKeepsOrder
    <3>3. Fed(s)' = Fed(s)
      BY <2>1, <3>2, Zenon DEF Fed
    <3>4. Len(queue[s]) \in Nat
      BY <3>1
    <3> QED
      BY <2>1, <3>2, <3>3, <3>4
  <2>3. Started(s)'
    BY <1>4, <2>2 DEF Yield, Started
  <2>4. ASSUME NEW u \in Streams \ {s}
        PROVE  Started(u)'
    BY <1>4, StartedKept DEF Yield
  <2>5. \A u \in Streams : Started(u)'
    BY <2>3, <2>4
  <2> QED
    BY <1>4, <2>2, <2>5 DEF Yield, StreamAssumptions
<1>5. ASSUME NEW s \in Streams, Leave(s) \/ Finish(s)
      PROVE  StreamInv'
  <2>1. ASSUME NEW u \in Streams
        PROVE  Started(u)'
    BY <1>5, StartedKept DEF Leave, Finish
  <2> QED
    BY <1>5, <2>1 DEF Leave, Finish
<1> QED
  BY <1>1, <1>2, <1>3, <1>4, <1>5 DEF StreamNext

(* The inductive invariant holds for any number of streams and any capacity. *)
THEOREM StreamInvariance ==
    ASSUME StreamAssumptions
    PROVE  StreamSpec => []StreamInv
<1>1. StreamInit => StreamInv
  BY StreamInitInv
<1>2. StreamInv /\ [StreamNext]_streamVars => StreamInv'
  BY NextInv
<1> QED
  BY <1>1, <1>2, PTL DEF StreamSpec

(* The state of the streams is well typed, and no queue exceeds its size. *)
THEOREM StreamTypes ==
    ASSUME StreamAssumptions
    PROVE  StreamSpec => []StreamTypeOK
<1>1. StreamInv => StreamTypeOK
  BY DEF StreamInv, StreamTypeOK
<1> QED
  BY <1>1, StreamInvariance, PTL

(* However broadcasts, deliveries, closed browsers and delisted queues        *)
(* interleave, what a browser was sent is the consecutive snapshots since its *)
(* stream was opened, up to the last one while it is listed.                  *)
THEOREM NoSnapshotIsLost ==
    ASSUME StreamAssumptions
    PROVE  StreamSpec => []NoGapNoRepeat
<1>1. StreamInv => NoGapNoRepeat
  BY DEF StreamInv, Started, Fed, NoGapNoRepeat
<1> QED
  BY <1>1, StreamInvariance, PTL

-----------------------------------------------------------------------------
(***************************************************************************)
(* The poll of the wallet                                                  *)
(***************************************************************************)
(* A poll that has asked knows for which wallet. *)
Asked(t) == poller[t].pc \in {"persist", "alert", "publish", "leave"}
AnswersAreOfWallets == \A t \in Threads : Asked(t) => poller[t].data.of \in Wallets

(* Until a lock is replaced, whoever polls holds it. *)
OnePoll ==
    lock.gen = 0 =>
        /\ \A t \in Threads : WithLock(t) => lock.held
        /\ \A t, u \in Threads : WithLock(t) /\ WithLock(u) => t = u

(* While nothing was mixed: nobody polls between a change and its reset, and what *)
(* the polls and the memory hold after it is of the wallet that is watched, and   *)
(* so are the rows of the charts that did not stay from another.                  *)
NoPollInReset == switch = "reset" => \A t \in Threads : ~WithLock(t)
MemoryIsOfTheWallet ==
    /\ switch # "reset" => baseline.of \in {address, NoWallet} /\ alarm.present \in {address, NoWallet}
    /\ \A t \in Threads : Asked(t) => poller[t].data.of = address
TellsOneWallet ==
    /\ "foreign" \notin found
    /\ \A a \in alerts : a.after = a.of

PollInv ==
    /\ PollTypeOK /\ AnswersAreOfWallets
    /\ OnePoll
    /\ ~mixed => NoPollInReset /\ MemoryIsOfTheWallet /\ HistoryIsOfTheWallet /\ TellsOneWallet

-----------------------------------------------------------------------------
(* Nobody polls yet, and nothing is remembered. *)
LEMMA PollStart ==
    ASSUME PollAssumptions, PollInit
    PROVE  PollInv
<1> USE DEF PollInit, Sleeping, Nothing, Unprimed, NoAlarm
<1>1. PollTypeOK
  <2>1. Nothing \in Seen /\ Sleeping \in Thread
    BY DEF Thread, Seen
  <2>2. changes \in 0..MaxSwitches /\ lock \in [gen : 0..MaxHangs, held : BOOLEAN]
    BY DEF PollAssumptions
  <2>3. poller \in [Threads -> Thread]
    BY <2>1
  <2>4. baseline \in Last /\ alarm \in [present : Wallets \cup {NoWallet}, raised : BOOLEAN]
    BY DEF Last
  <2>5. address \in Wallets
    BY DEF PollAssumptions, Loadable
  <2> QED
    BY <2>2, <2>3, <2>4, <2>5 DEF PollTypeOK
<1>2. AnswersAreOfWallets /\ OnePoll
  BY DEF AnswersAreOfWallets, OnePoll, Asked, WithLock
<1>3. NoPollInReset /\ MemoryIsOfTheWallet /\ HistoryIsOfTheWallet /\ TellsOneWallet
  BY DEF NoPollInReset, MemoryIsOfTheWallet, HistoryIsOfTheWallet, TellsOneWallet, Asked
<1> QED
  BY <1>1, <1>2, <1>3 DEF PollInv

(* The lock is taken when nobody has it, or after it was replaced. *)
LEMMA EnterStep ==
    ASSUME PollAssumptions, PollInv, NEW t \in Threads, Enter(t)
    PROVE  PollInv'
<1>1. /\ poller' = [poller EXCEPT ![t] = [pc |-> "ask", data |-> Nothing]]
      /\ mixed' = (mixed \/ switch = "reset") /\ clock' = "running"
      /\ UNCHANGED <<address, saved, switch, changes, history, baseline, found, alarm, alerts, screen, kept>>
  <2>1. [Sleeping EXCEPT !.pc = "ask"] = [pc |-> "ask", data |-> Nothing]
    BY DEF Sleeping
  <2> QED
    BY <2>1 DEF Enter, Locks
<1>2. \/ lock.held = FALSE /\ lock' = [lock EXCEPT !.held = TRUE]
      \/ lock.gen < MaxHangs /\ lock' = [gen |-> lock.gen + 1, held |-> TRUE]
  BY DEF Enter, MayEnter, Watched, Locks, PollInv, PollTypeOK
<1>3. lock \in [gen : 0..MaxHangs, held : BOOLEAN] /\ MaxHangs \in Nat
  BY DEF PollInv, PollTypeOK, PollAssumptions
<1>4. lock' \in [gen : 0..MaxHangs, held : BOOLEAN]
  <2>1. CASE lock' = [lock EXCEPT !.held = TRUE]
    BY <1>3, <2>1
  <2>2. CASE lock.gen < MaxHangs /\ lock' = [gen |-> lock.gen + 1, held |-> TRUE]
    <3>1. lock.gen + 1 \in 0..MaxHangs
      BY <1>3, <2>2
    <3> QED
      BY <2>2, <3>1
  <2> QED
    BY <1>2, <2>1, <2>2
<1>5. PollTypeOK'
  BY <1>1, <1>4 DEF PollInv, PollTypeOK, Thread, Seen, Nothing
<1>6. /\ poller'[t].pc = "ask" /\ \A u \in Threads \ {t} : poller'[u] = poller[u]
  BY <1>1 DEF PollInv, PollTypeOK
<1>7. ~Asked(t)' /\ \A u \in Threads \ {t} : Asked(u)' = Asked(u) /\ WithLock(u)' = WithLock(u)
  BY <1>6 DEF Asked, WithLock
<1>8. AnswersAreOfWallets'
  BY <1>6, <1>7 DEF PollInv, AnswersAreOfWallets
<1>9. OnePoll'
  <2>1. CASE lock.held = FALSE /\ lock' = [lock EXCEPT !.held = TRUE]
    BY <1>3, <1>7, <2>1 DEF PollInv, OnePoll
  <2>2. CASE lock' = [gen |-> lock.gen + 1, held |-> TRUE]
    BY <1>3, <2>2 DEF OnePoll
  <2> QED
    BY <1>2, <2>1, <2>2
<1>10. ASSUME ~mixed' PROVE (NoPollInReset /\ MemoryIsOfTheWallet /\ HistoryIsOfTheWallet /\ TellsOneWallet)'
  <2>1. ~mixed /\ switch # "reset"
    BY <1>1, <1>10
  <2> QED
    BY <1>1, <1>6, <1>7, <2>1
    DEF PollInv, NoPollInReset, MemoryIsOfTheWallet, HistoryIsOfTheWallet, TellsOneWallet
<1> QED
  BY <1>1, <1>5, <1>8, <1>9, <1>10 DEF PollInv

(* A poll that goes on keeps the lock as it is, and its answer. *)
LEMMA GoOn ==
    ASSUME PollInv, NEW t \in Threads, NEW p \in Thread, poller' = [poller EXCEPT ![t] = p],
           UNCHANGED <<address, saved, lock, switch, mixed, kept>>,
           WithLock(t)' => WithLock(t),
           Asked(t)' => p.data.of \in Wallets /\ (~mixed => p.data.of = address),
           PollTypeOK', TellsOneWallet /\ ~mixed => TellsOneWallet',
           ~mixed => /\ baseline'.of \in {baseline.of, address} /\ alarm'.present \in {alarm.present, address}
                     /\ baseline' # baseline \/ alarm' # alarm => WithLock(t)
                     /\ history' \subseteq history \cup {address}
    PROVE  PollInv'
<1>1. poller'[t] = p /\ \A u \in Threads \ {t} : poller'[u] = poller[u]
  BY DEF PollInv, PollTypeOK
<1>2. \A u \in Threads \ {t} : Asked(u)' = Asked(u) /\ WithLock(u)' = WithLock(u)
  BY <1>1 DEF Asked, WithLock
<1>3. AnswersAreOfWallets' /\ OnePoll'
  BY <1>1, <1>2 DEF PollInv, AnswersAreOfWallets, OnePoll
<1>4. ASSUME ~mixed
      PROVE  (NoPollInReset /\ MemoryIsOfTheWallet /\ HistoryIsOfTheWallet /\ TellsOneWallet)'
  BY <1>1, <1>2, <1>4 DEF PollInv, NoPollInReset, MemoryIsOfTheWallet, HistoryIsOfTheWallet
<1> QED
  BY <1>3, <1>4 DEF PollInv

(* The four steps of a poll, and the poll that is not made. *)
LEMMA PollsStep ==
    ASSUME PollAssumptions, PollInv, NEW t \in Threads,
           Skip(t) \/ Ask(t) \/ Persist(t) \/ Alert(t) \/ Publish(t)
    PROVE  PollInv'
<1> DEFINE seen == poller[t].data
<1>0. /\ poller[t] \in Thread /\ seen \in Seen /\ address \in Wallets
      /\ poller \in [Threads -> Thread] /\ NoWallet \notin Wallets
      /\ baseline \in Last /\ alarm \in [present : Wallets \cup {NoWallet}, raised : BOOLEAN]
  BY DEF PollInv, PollTypeOK, Thread, PollAssumptions
<1>1. ASSUME Asked(t) PROVE seen.of \in Wallets /\ (~mixed => seen.of = address)
  BY <1>1 DEF PollInv, AnswersAreOfWallets, MemoryIsOfTheWallet
<1>2. ASSUME WithLock(t), ~mixed
      PROVE  baseline.of \in {address, NoWallet} /\ alarm.present \in {address, NoWallet}
  BY <1>2 DEF PollInv, NoPollInReset, MemoryIsOfTheWallet
<1>3. ASSUME NEW pc \in {"idle", "alert", "publish", "leave"}, PollGoes(t, pc)
      PROVE  /\ [poller[t] EXCEPT !.pc = pc] \in Thread
             /\ poller' = [poller EXCEPT ![t] = [poller[t] EXCEPT !.pc = pc]]
             /\ poller' \in [Threads -> Thread] /\ poller'[t].pc = pc /\ poller'[t].data = seen
  <2>1. [poller[t] EXCEPT !.pc = pc] \in Thread
    BY <1>0, <1>3 DEF Thread
  <2>2. poller' = [poller EXCEPT ![t] = [poller[t] EXCEPT !.pc = pc]]
    BY <1>0, <1>3 DEF PollGoes
  <2>3. [poller[t] EXCEPT !.pc = pc].pc = pc /\ [poller[t] EXCEPT !.pc = pc].data = seen
    BY <1>0 DEF Thread
  <2> QED
    BY <1>0, <2>1, <2>2, <2>3
<1>4. CASE Skip(t)
  <2>1. /\ PollGoes(t, "idle")
        /\ UNCHANGED <<address, saved, lock, clock, switch, changes, history, baseline, found, alarm,
                       alerts, screen, mixed, kept>>
    BY <1>4 DEF Skip
  <2>2. ~WithLock(t)' /\ ~Asked(t)' /\ PollTypeOK'
    BY <1>3, <2>1 DEF WithLock, Asked, PollInv, PollTypeOK
  <2> QED
    BY <1>3, <2>1, <2>2, GoOn DEF TellsOneWallet
<1>5. CASE Ask(t)
  <2>1. PICK here \in BOOLEAN :
          poller' = [poller EXCEPT ![t].pc = "persist", ![t].data = [of |-> address, here |-> here]]
    BY <1>5 DEF Ask
  <2> DEFINE p == [poller[t] EXCEPT !.pc = "persist", !.data = [of |-> address, here |-> here]]
  <2>2. p \in Thread /\ p.pc = "persist" /\ p.data.of = address /\ poller' = [poller EXCEPT ![t] = p]
    <3>1. [of |-> address, here |-> here] \in Seen
      BY <1>0 DEF Seen
    <3> QED
      BY <1>0, <2>1, <3>1 DEF Thread
  <2> HIDE DEF p
  <2>3. /\ UNCHANGED <<address, saved, lock, clock, switch, changes, history, baseline, found, alarm,
                       alerts, screen, mixed, kept>>
        /\ WithLock(t)
    BY <1>5 DEF Ask, WithLock
  <2>4. PollTypeOK'
    BY <2>2, <2>3 DEF PollInv, PollTypeOK
  <2> QED
    BY <1>0, <2>2, <2>3, <2>4, GoOn DEF TellsOneWallet
<1>6. CASE Persist(t)
  <2>1. /\ PollGoes(t, "alert") /\ WithLock(t) /\ Asked(t)
        /\ UNCHANGED <<address, saved, lock, clock, switch, changes, alarm, alerts, screen, mixed, kept>>
    BY <1>6 DEF Persist, WithLock, Asked
  <2>2. /\ baseline' \in Last /\ baseline'.of \in {baseline.of, seen.of}
    <3>1. CASE seen.here
      BY <1>0, <1>1, <1>6, <2>1, <3>1 DEF Persist, Last
    <3>2. CASE ~seen.here
      BY <1>0, <1>6, <3>2 DEF Persist, Last
    <3> QED
      BY <3>1, <3>2
  <2>3. /\ history' \subseteq history \cup {seen.of}
        /\ found' \subseteq found \cup {Event(seen)} /\ Event(seen) \in {"own", "foreign"}
    BY <1>6 DEF Persist, Event
  <2>4. PollTypeOK'
    <3>1. found' \subseteq {"own", "foreign"} /\ history' \subseteq Wallets
      BY <1>1, <2>1, <2>3 DEF PollInv, PollTypeOK
    <3> QED
      BY <1>3, <2>1, <2>2, <3>1 DEF PollInv, PollTypeOK
  <2>5. ASSUME TellsOneWallet, ~mixed PROVE TellsOneWallet'
    <3>1. baseline.of \in {seen.of, NoWallet}
      BY <1>1, <1>2, <2>1, <2>5
    <3>2. Event(seen) = "own"
      BY <3>1 DEF Event
    <3> QED
      BY <2>1, <2>3, <2>5, <3>2 DEF TellsOneWallet
  <2> QED
    BY <1>1, <1>3, <2>1, <2>2, <2>3, <2>4, <2>5, GoOn
<1>7. CASE Alert(t)
  <2> DEFINE lost == ~seen.here /\ alarm.present # NoWallet /\ ~alarm.raised
  <2>1. /\ PollGoes(t, "publish") /\ WithLock(t) /\ Asked(t)
        /\ UNCHANGED <<address, saved, lock, clock, switch, changes, history, baseline, found,
                       screen, mixed, kept>>
    BY <1>7 DEF Alert, WithLock, Asked
  <2>2. /\ alarm' \in [present : Wallets \cup {NoWallet}, raised : BOOLEAN]
        /\ alarm'.present \in {alarm.present, seen.of}
    <3>1. CASE seen.here
      BY <1>0, <1>1, <1>7, <2>1, <3>1 DEF Alert
    <3>2. CASE ~seen.here
      <4>1. alarm' = [alarm EXCEPT !.raised = @ \/ lost]
        BY <1>7, <3>2 DEF Alert
      <4>2. (alarm.raised \/ lost) \in BOOLEAN
        BY <1>0 DEF Seen
      <4> HIDE DEF lost
      <4> QED
        BY <1>0, <4>1, <4>2
    <3> QED
      BY <3>1, <3>2
  <2>3. \/ alerts' = alerts
        \/ /\ alarm.present \in Wallets
           /\ alerts' = alerts \cup {[of |-> seen.of, after |-> alarm.present]}
    BY <1>0, <1>7 DEF Alert
  <2>4. PollTypeOK'
    <3>1. alerts' \subseteq [of : Wallets, after : Wallets]
      BY <1>1, <2>1, <2>3 DEF PollInv, PollTypeOK
    <3> QED
      BY <1>3, <2>1, <2>2, <3>1 DEF PollInv, PollTypeOK
  <2>5. ASSUME TellsOneWallet, ~mixed PROVE TellsOneWallet'
    <3>1. alarm.present \in {seen.of, NoWallet}
      BY <1>1, <1>2, <2>1, <2>5
    <3> QED
      BY <1>0, <2>1, <2>3, <2>5, <3>1 DEF TellsOneWallet
  <2> QED
    BY <1>1, <1>3, <2>1, <2>2, <2>4, <2>5, GoOn
<1>8. CASE Publish(t)
  <2>1. /\ PollGoes(t, "leave") /\ WithLock(t) /\ Asked(t)
        /\ UNCHANGED <<address, saved, lock, clock, switch, changes, history, baseline, found, alarm,
                       alerts, mixed, kept>>
        /\ screen' \in {seen.of, NoWallet}
    BY <1>8 DEF Publish, WithLock, Asked
  <2>2. PollTypeOK'
    BY <1>1, <1>3, <2>1 DEF PollInv, PollTypeOK
  <2> QED
    BY <1>1, <1>3, <2>1, <2>2, GoOn DEF TellsOneWallet
<1> QED
  BY <1>4, <1>5, <1>6, <1>7, <1>8

(* The end of a poll opens the lock, whoever has it by now. *)
LEMMA LeaveStep ==
    ASSUME PollInv, NEW t \in Threads, LeavePoll(t)
    PROVE  PollInv'
<1>1. /\ poller[t].pc = "leave" /\ WithLock(t)
      /\ poller' = [poller EXCEPT ![t] = Sleeping] /\ lock' = [lock EXCEPT !.held = FALSE]
      /\ clock' \in {"idle", clock}
      /\ UNCHANGED <<address, saved, switch, changes, history, baseline, found, alarm, alerts, screen, mixed, kept>>
  BY DEF LeavePoll, WithLock
<1>2. Sleeping \in Thread /\ Sleeping.pc = "idle"
  BY DEF Sleeping, Nothing, Thread, Seen
<1>3. lock \in [gen : 0..MaxHangs, held : BOOLEAN]
  BY DEF PollInv, PollTypeOK
<1>4. lock' \in [gen : 0..MaxHangs, held : BOOLEAN] /\ lock'.gen = lock.gen
  BY <1>1, <1>3
<1>5. PollTypeOK'
  BY <1>1, <1>2, <1>4 DEF PollInv, PollTypeOK
<1>6. poller'[t].pc = "idle" /\ \A u \in Threads \ {t} : poller'[u] = poller[u]
  BY <1>1, <1>2 DEF PollInv, PollTypeOK
<1>7. /\ ~Asked(t)' /\ ~WithLock(t)'
      /\ \A u \in Threads \ {t} : Asked(u)' = Asked(u) /\ WithLock(u)' = WithLock(u)
  BY <1>6 DEF Asked, WithLock
<1>8. AnswersAreOfWallets' /\ OnePoll'
  BY <1>1, <1>4, <1>6, <1>7 DEF PollInv, AnswersAreOfWallets, OnePoll
<1>9. ASSUME ~mixed'
      PROVE  (NoPollInReset /\ MemoryIsOfTheWallet /\ HistoryIsOfTheWallet /\ TellsOneWallet)'
  BY <1>1, <1>6, <1>7, <1>9
  DEF PollInv, NoPollInReset, MemoryIsOfTheWallet, HistoryIsOfTheWallet, TellsOneWallet
<1> QED
  BY <1>1, <1>5, <1>8, <1>9 DEF PollInv

(* A change that meets no poll leaves nobody an answer of the other wallet. *)
LEMMA SaveStep ==
    ASSUME PollAssumptions, PollInv, NEW w \in Wallets, Save(w)
    PROVE  PollInv'
<1>1. /\ address' = w /\ saved' = w /\ switch' = "reset" /\ changes > 0 /\ changes' = changes - 1
      /\ mixed' = (mixed \/ \E t \in Threads : WithLock(t))
      /\ UNCHANGED <<poller, lock, clock, history, baseline, found, alarm, alerts, screen, kept>>
  BY DEF Save
<1>2. PollTypeOK'
  <2>1. changes' \in 0..MaxSwitches
    BY <1>1 DEF PollInv, PollTypeOK, PollAssumptions
  <2>2. mixed' \in BOOLEAN
    BY <1>1 DEF PollInv, PollTypeOK
  <2> QED
    BY <1>1, <2>1, <2>2 DEF PollInv, PollTypeOK
<1>3. AnswersAreOfWallets' /\ OnePoll'
  BY <1>1 DEF PollInv, AnswersAreOfWallets, OnePoll, Asked, WithLock
<1>4. ASSUME ~mixed'
      PROVE  (NoPollInReset /\ MemoryIsOfTheWallet /\ HistoryIsOfTheWallet /\ TellsOneWallet)'
  <2>1. ~mixed /\ \A t \in Threads : ~WithLock(t) /\ ~Asked(t)
    BY <1>1, <1>4 DEF WithLock, Asked
  <2>2. \A t \in Threads : ~WithLock(t)' /\ ~Asked(t)'
    BY <1>1, <2>1 DEF WithLock, Asked
  <2> QED
    BY <1>1, <2>1, <2>2
    DEF PollInv, NoPollInReset, MemoryIsOfTheWallet, HistoryIsOfTheWallet, TellsOneWallet
<1> QED
  BY <1>1, <1>2, <1>3, <1>4 DEF PollInv

(* The memory is reset, and then the history is cleared. *)
LEMMA ResetStep ==
    ASSUME PollInv, Reset \/ Clear \/ Hang
    PROVE  PollInv'
<1>1. CASE Reset
  <2>1. /\ switch' = "clear" /\ screen' = NoWallet /\ baseline' = Unprimed /\ alarm' = NoAlarm
        /\ UNCHANGED <<address, saved, poller, lock, clock, changes, history, found, alerts, mixed, kept>>
    BY <1>1 DEF Reset
  <2>2. PollTypeOK'
    BY <2>1 DEF PollInv, PollTypeOK, Unprimed, NoAlarm, Last
  <2>3. AnswersAreOfWallets' /\ OnePoll'
    BY <2>1 DEF PollInv, AnswersAreOfWallets, OnePoll, Asked, WithLock
  <2>4. ASSUME ~mixed'
        PROVE  (NoPollInReset /\ MemoryIsOfTheWallet /\ HistoryIsOfTheWallet /\ TellsOneWallet)'
    BY <2>1, <2>4 DEF PollInv, NoPollInReset, MemoryIsOfTheWallet, HistoryIsOfTheWallet,
                      TellsOneWallet, Unprimed, NoAlarm, Asked
  <2> QED
    BY <2>1, <2>2, <2>3, <2>4 DEF PollInv
<1>2. CASE Clear
  <2>1. PICK t \in Threads \ {Loop} : poller[t].pc = "idle" /\ PollGoes(t, "spawned")
    BY <1>2 DEF Clear
  <2>2. /\ switch = "clear" /\ switch' = "none" /\ history' \subseteq history /\ kept' = history'
        /\ found' \in {{}, found}
        /\ UNCHANGED <<address, saved, lock, clock, changes, baseline, alarm, alerts, screen, mixed>>
    BY <1>2 DEF Clear
  <2>3. /\ poller' \in [Threads -> Thread] /\ poller'[t].pc = "spawned"
        /\ \A u \in Threads \ {t} : poller'[u] = poller[u]
    <3>1. poller[t] \in Thread /\ poller \in [Threads -> Thread]
      BY DEF PollInv, PollTypeOK
    <3>2. [poller[t] EXCEPT !.pc = "spawned"] \in Thread
      BY <3>1 DEF Thread
    <3>3. poller' = [poller EXCEPT ![t] = [poller[t] EXCEPT !.pc = "spawned"]]
      BY <2>1, <3>1 DEF PollGoes
    <3> QED
      BY <3>1, <3>2, <3>3 DEF Thread
  <2>4. PollTypeOK'
    BY <2>2, <2>3 DEF PollInv, PollTypeOK
  <2>5. /\ ~Asked(t)' /\ ~WithLock(t)'
        /\ \A u \in Threads \ {t} : Asked(u)' = Asked(u) /\ WithLock(u)' = WithLock(u)
    BY <2>3 DEF Asked, WithLock
  <2>6. AnswersAreOfWallets' /\ OnePoll'
    BY <2>2, <2>3, <2>5 DEF PollInv, AnswersAreOfWallets, OnePoll
  <2>7. ASSUME ~mixed'
        PROVE  (NoPollInReset /\ MemoryIsOfTheWallet /\ HistoryIsOfTheWallet /\ TellsOneWallet)'
    BY <2>2, <2>3, <2>5, <2>7
    DEF PollInv, NoPollInReset, MemoryIsOfTheWallet, HistoryIsOfTheWallet, TellsOneWallet
  <2> QED
    BY <2>2, <2>4, <2>6, <2>7 DEF PollInv
<1>3. CASE Hang
  <2> USE <1>3 DEF Hang, PollInv
  <2>1. PollTypeOK' /\ AnswersAreOfWallets' /\ OnePoll'
    BY DEF PollTypeOK, AnswersAreOfWallets, OnePoll, Asked, WithLock
  <2>2. ASSUME ~mixed'
        PROVE  (NoPollInReset /\ MemoryIsOfTheWallet /\ HistoryIsOfTheWallet /\ TellsOneWallet)'
    BY <2>2 DEF NoPollInReset, MemoryIsOfTheWallet, HistoryIsOfTheWallet, TellsOneWallet,
                Asked, WithLock
  <2> QED
    BY <2>1, <2>2
<1> QED
  BY <1>1, <1>2, <1>3

(* A restart comes back with a wallet and the history: it is said when another *)
(* wallet finds it.                                                           *)
LEMMA RestartStep ==
    ASSUME PollAssumptions, PollInv, Restart
    PROVE  PollInv'
<1>1. /\ changes > 0 /\ changes' = changes - 1 /\ address' \in Loadable
      /\ kept' = IF address' = address THEN kept ELSE history
      /\ poller' = [t \in Threads |-> Sleeping] /\ lock' = [lock EXCEPT !.held = FALSE]
      /\ clock' = "idle" /\ mixed' = (mixed \/ switch # "none") /\ switch' = "none"
      /\ baseline' = Unprimed /\ alarm' = NoAlarm /\ screen' = NoWallet
      /\ UNCHANGED <<saved, history, found, alerts>>
  BY DEF Restart
<1>2. PollTypeOK'
  <2>1. changes' \in 0..MaxSwitches
    BY <1>1 DEF PollInv, PollTypeOK, PollAssumptions
  <2>2. mixed' \in BOOLEAN
    BY <1>1 DEF PollInv, PollTypeOK
  <2>3. poller' \in [Threads -> Thread]
    <3>1. Sleeping \in Thread
      BY DEF Sleeping, Nothing, Thread, Seen
    <3> QED
      BY <1>1, <3>1
  <2>4. lock' \in [gen : 0..MaxHangs, held : BOOLEAN]
    <3>1. lock \in [gen : 0..MaxHangs, held : BOOLEAN]
      BY DEF PollInv, PollTypeOK
    <3> QED
      BY <1>1, <3>1
  <2>5. baseline' \in Last /\ alarm' \in [present : Wallets \cup {NoWallet}, raised : BOOLEAN]
    BY <1>1 DEF Unprimed, NoAlarm, Last
  <2>6. address' \in Wallets /\ kept' \subseteq Wallets
    BY <1>1 DEF PollInv, PollTypeOK, PollAssumptions, Loadable
  <2> QED
    BY <1>1, <2>1, <2>2, <2>3, <2>4, <2>5, <2>6 DEF PollInv, PollTypeOK
<1>3. \A t \in Threads : ~WithLock(t)' /\ ~Asked(t)'
  BY <1>1 DEF WithLock, Asked, Sleeping
<1>4. AnswersAreOfWallets' /\ OnePoll'
  BY <1>3 DEF AnswersAreOfWallets, OnePoll
<1>5. ASSUME ~mixed'
      PROVE  (NoPollInReset /\ MemoryIsOfTheWallet /\ HistoryIsOfTheWallet /\ TellsOneWallet)'
  <2>1. ~mixed /\ switch = "none"
    BY <1>1, <1>5
  <2>2. HistoryIsOfTheWallet'
    <3>1. CASE address' = address
      BY <1>1, <2>1, <3>1 DEF PollInv, HistoryIsOfTheWallet
    <3>2. CASE address' # address
      BY <1>1, <3>2 DEF HistoryIsOfTheWallet
    <3> QED
      BY <3>1, <3>2
  <2> QED
    BY <1>1, <1>3, <2>1, <2>2
    DEF PollInv, NoPollInReset, MemoryIsOfTheWallet, TellsOneWallet, Unprimed, NoAlarm
<1> QED
  BY <1>1, <1>2, <1>4, <1>5 DEF PollInv

(* Whatever a thread, a change of the wallet, a hang or a restart does. *)
LEMMA PollNextStep ==
    ASSUME PollAssumptions, PollInv, [PollNext]_pollVars
    PROVE  PollInv'
<1>1. ASSUME NEW t \in Threads, PollStep(t) PROVE PollInv'
  BY <1>1, EnterStep, PollsStep, LeaveStep DEF PollStep
<1>2. ASSUME NEW w \in Wallets, Save(w) PROVE PollInv'
  BY <1>2, SaveStep
<1>3. CASE Reset \/ Clear \/ Hang
  BY <1>3, ResetStep
<1>4. CASE Restart
  BY <1>4, RestartStep
<1>5. CASE UNCHANGED pollVars
  <2> USE <1>5 DEF pollVars, PollInv
  <2>1. PollTypeOK' /\ AnswersAreOfWallets' /\ OnePoll'
    BY DEF PollTypeOK, AnswersAreOfWallets, OnePoll, Asked, WithLock
  <2>2. ASSUME ~mixed'
        PROVE  (NoPollInReset /\ MemoryIsOfTheWallet /\ HistoryIsOfTheWallet /\ TellsOneWallet)'
    BY <2>2 DEF NoPollInReset, MemoryIsOfTheWallet, HistoryIsOfTheWallet, TellsOneWallet,
                Asked, WithLock
  <2> QED
    BY <2>1, <2>2
<1> QED
  BY <1>1, <1>2, <1>3, <1>4, <1>5 DEF PollNext

(* In every state of every behaviour: whoever polls has the lock until it is   *)
(* replaced; and until a change meets a poll, the memory is of one wallet, and *)
(* so is the history but for the rows that a DELETE or a restart left behind.  *)
THEOREM PollInvariance ==
    ASSUME PollAssumptions
    PROVE  PollSpec => []PollInv
<1>1. PollInit => PollInv
  BY PollStart
<1>2. PollInv /\ [PollNext]_pollVars => PollInv'
  BY PollNextStep
<1> QED
  BY <1>1, <1>2, PTL DEF PollSpec

(* Polls do not overlap, and a change that meets no poll mixes no wallets. *)
THEOREM OneWalletSeen ==
    ASSUME PollAssumptions
    PROVE  PollSpec => []OperatorSeesOneWallet
<1>1. ASSUME PollInv PROVE OperatorSeesOneWallet
  <2>1. ASSUME lock.gen = 0 PROVE Cardinality({t \in Threads : WithLock(t)}) <= 1
    <3>1. CASE {t \in Threads : WithLock(t)} = {}
      BY <3>1, FS_EmptySet
    <3>2. ASSUME NEW t \in Threads, WithLock(t)
          PROVE  Cardinality({u \in Threads : WithLock(u)}) <= 1
      <4>1. {u \in Threads : WithLock(u)} = {t}
        BY <1>1, <2>1, <3>2 DEF PollInv, OnePoll
      <4>2. Cardinality({t}) = 1
        BY FS_Singleton
      <4> QED
        BY <4>1, <4>2
    <3> QED
      BY <3>1, <3>2
  <2>2. WalletsAreApart
    BY <1>1 DEF PollInv, WalletsAreApart, TellsOneWallet
  <2> QED
    BY <2>1, <2>2 DEF OperatorSeesOneWallet, OnePollUnlessHung
<1> QED
  BY <1>1, PollInvariance, PTL

-----------------------------------------------------------------------------
(***************************************************************************)
(* The sessions.  That a session is polled by one thread at a time is said *)
(* without counting: it is at one place, which each step of the pool moves *)
(* on.  From this, and from the order in which the polls that keep apart   *)
(* see the world, follows that no outage is alerted twice.                 *)
(***************************************************************************)
(* A session is due, ready or in the poll of a thread, one of them at a time. *)
InReady(s) == {i \in DOMAIN ready : ready[i] = s}
InPolls(s) == {t \in PoolThreads : polling[t].sid = s}

AtOnePlace(s) ==
    /\ heap[s] <= 1
    /\ \A i, j \in InReady(s) : i = j
    /\ \A t, u \in InPolls(s) : t = u
    /\ heap[s] = 1 => InReady(s) = {} /\ InPolls(s) = {}
    /\ InReady(s) = {} \/ InPolls(s) = {}
    /\ s \in registered => heap[s] = 1 \/ InReady(s) # {} \/ InPolls(s) # {}

(* What the user has done tells what there is of the session. *)
UserIsSound(s) ==
    /\ user[s] = "new" => /\ store[s] = Absent /\ s \notin registered
                          /\ heap[s] = 0 /\ InReady(s) = {} /\ InPolls(s) = {}
    /\ call[s].pc # "none" <=> user[s] = "connecting"
    /\ user[s] \in {"connecting", "connected"} => s \in registered

(* What has been fetched, and what was dispatched, is a version of the world so far. *)
FetchesAreSound ==
    /\ \A t \in PoolThreads :
         /\ polling[t].pc = "free" <=> polling[t].sid = Nobody
         /\ polling[t].pc \in {"fetched", "alerted"} => polling[t].seen \in 0..world
    /\ \A s \in Sessions :
         /\ call[s].pc \in {"fetched", "alerted"} => call[s].seen \in 0..world
         /\ prev[s] <= world

(* While the polls of a session keep apart, each sees no less than the one before, *)
(* and the alerts are about versions that have been dispatched.                    *)
EventsInOrder(s) ==
    /\ user[s] = "connecting" => InPolls(s) = {}
    /\ \A t \in InPolls(s) : polling[t].pc = "fetched" => prev[s] <= polling[t].seen
    /\ call[s].pc = "fetched" => prev[s] <= call[s].seen
    /\ Increasing(alerted[s])
    /\ \A i \in DOMAIN alerted[s] : alerted[s][i] <= prev[s] /\ ~Online(alerted[s][i])

SessionInv ==
    /\ SessionTypeOK /\ FetchesAreSound
    /\ \A s \in Sessions : AtOnePlace(s) /\ UserIsSound(s)
    /\ \A s \in Sessions : apart[s] => EventsInOrder(s)

PollStates == [pc : {"free", "fetch", "fetched", "alerted", "done"}, sid : Sessions \cup {Nobody},
               seen : -1..MaxWorld]
CallStates == [pc : {"none", "fetch", "fetched", "alerted"}, seen : -1..MaxWorld]

-----------------------------------------------------------------------------
(* What does not move a session leaves it at its place. *)
LEMMA PlaceKept ==
    ASSUME NEW s, AtOnePlace(s), heap'[s] = heap[s], InReady(s)' = InReady(s),
           InPolls(s)' = InPolls(s), s \in registered' => s \in registered
    PROVE  AtOnePlace(s)'
BY DEF AtOnePlace

(* What moves nothing leaves all of them at their places. *)
LEMMA PlacesKept ==
    ASSUME \A s \in Sessions : AtOnePlace(s), UNCHANGED <<heap, ready>>,
           registered' \subseteq registered,
           \A t \in PoolThreads : polling'[t].sid = polling[t].sid
    PROVE  /\ \A s \in Sessions : AtOnePlace(s)'
           /\ \A s \in Sessions : InReady(s)' = InReady(s) /\ InPolls(s)' = InPolls(s)
<1>1. ASSUME NEW s \in Sessions
      PROVE  InReady(s)' = InReady(s) /\ InPolls(s)' = InPolls(s)
  BY DEF InReady, InPolls
<1> QED
  BY <1>1, PlaceKept

(* What moves neither a session nor its user. *)
LEMMA UserKept ==
    ASSUME NEW s, UserIsSound(s), user'[s] = user[s],
           user[s] = "new" => store'[s] = Absent /\ heap'[s] = heap[s],
           InReady(s)' = InReady(s), InPolls(s)' = InPolls(s),
           s \in registered' <=> s \in registered,
           call'[s].pc # "none" <=> call[s].pc # "none"
    PROVE  UserIsSound(s)'
BY DEF UserIsSound

(* What dispatches nothing about a session, and fetches nothing for it. *)
LEMMA OrderKept ==
    ASSUME NEW s, EventsInOrder(s), InPolls(s)' = InPolls(s),
           user'[s] = "connecting" => user[s] = "connecting",
           \A t \in InPolls(s) : polling'[t].pc = "fetched" =>
             polling[t].pc = "fetched" /\ polling'[t].seen = polling[t].seen,
           call'[s].pc = "fetched" => call[s].pc = "fetched" /\ call'[s].seen = call[s].seen,
           prev'[s] = prev[s], alerted'[s] = alerted[s]
    PROVE  EventsInOrder(s)'
BY DEF EventsInOrder

-----------------------------------------------------------------------------
(* What a publication stores is a version, and nothing at all if the session is gone. *)
LEMMA PublishIsTyped ==
    ASSUME SessionTypeOK, NEW s \in Sessions, NEW version \in -1..MaxWorld,
           PublishSession(s, version), Ttl \in Nat
    PROVE  /\ store' \in [Sessions -> {Absent, Gone} \cup -1..MaxWorld]
           /\ idle' \in [Sessions -> 0..Ttl + 1]
           /\ \A r \in Sessions : store[r] \in {Absent, Gone} => store'[r] = store[r]
<1>1. /\ store \in [Sessions -> {Absent, Gone} \cup -1..MaxWorld]
      /\ idle \in [Sessions -> 0..Ttl + 1] /\ 0 \in 0..Ttl + 1
  BY DEF SessionTypeOK
<1>2. CASE store[s] \notin {Absent, Gone}
  <2>1. store' = [store EXCEPT ![s] = version] /\ idle' = [idle EXCEPT ![s] = 0]
    BY <1>2 DEF PublishSession, Touch, Stored
  <2>2. version \in {Absent, Gone} \cup -1..MaxWorld
    OBVIOUS
  <2> QED
    BY <1>1, <1>2, <2>1, <2>2
<1>3. CASE store[s] \in {Absent, Gone}
  BY <1>1, <1>3 DEF PublishSession, Stored
<1> QED
  BY <1>2, <1>3

(* So does a lookup, which removes what has expired. *)
LEMMA GetIsTyped ==
    ASSUME SessionTypeOK, NEW s \in Sessions, Get(s), Ttl \in Nat
    PROVE  /\ store' \in [Sessions -> {Absent, Gone} \cup -1..MaxWorld]
           /\ idle' \in [Sessions -> 0..Ttl + 1]
           /\ \A r \in Sessions : store[r] \in {Absent, Gone} => store'[r] = store[r]
<1>1. /\ store \in [Sessions -> {Absent, Gone} \cup -1..MaxWorld]
      /\ idle \in [Sessions -> 0..Ttl + 1] /\ 0 \in 0..Ttl + 1
  BY DEF SessionTypeOK
<1>2. CASE idle' = [idle EXCEPT ![s] = 0] /\ store' = store
  BY <1>1, <1>2
<1>3. CASE idle' = idle /\ store' = [store EXCEPT ![s] = IF @ = Absent THEN @ ELSE Gone]
  BY <1>1, <1>3
<1> QED
  BY <1>2, <1>3 DEF Get, Touch

-----------------------------------------------------------------------------
(* A fetch of the pool sees the world as it is. *)
LEMMA PoolFetchKeepsInv ==
    ASSUME SessionAssumptions, SessionInv, NEW t \in PoolThreads, PoolFetch(t)
    PROVE  SessionInv'
<1>1. /\ polling[t].pc = "fetch"
      /\ polling' = [polling EXCEPT ![t].pc = "fetched", ![t].seen = world]
      /\ UNCHANGED <<world, user, call, store, idle, workers, registered, heap, ready, prev, noticed,
                     alerted, apart>>
  BY DEF PoolFetch, poolVars, alertVars
<1>2. SessionTypeOK /\ FetchesAreSound /\ polling \in [PoolThreads -> PollStates] /\ world \in 0..MaxWorld
      /\ MaxWorld \in Nat
  BY DEF SessionInv, SessionTypeOK, PollStates, SessionAssumptions
<1>3. /\ polling' \in [PoolThreads -> PollStates]
      /\ polling'[t].pc = "fetched" /\ polling'[t].seen = world /\ polling'[t].sid = polling[t].sid
      /\ \A u \in PoolThreads \ {t} : polling'[u] = polling[u]
  <2>1. PICK x \in PollStates : /\ x = [polling[t] EXCEPT !.pc = "fetched", !.seen = world]
                                /\ x.pc = "fetched" /\ x.seen = world /\ x.sid = polling[t].sid
    <3> DEFINE y == [polling[t] EXCEPT !.pc = "fetched", !.seen = world]
    <3>1. y \in PollStates /\ y.pc = "fetched" /\ y.seen = world /\ y.sid = polling[t].sid
      <4>1. polling[t] \in PollStates /\ world \in -1..MaxWorld
        BY <1>2
      <4> QED
        BY <4>1 DEF PollStates
    <3> QED
      BY <3>1
  <2>2. polling' = [polling EXCEPT ![t] = x]
    BY <1>1, <1>2, <2>1
  <2> QED
    BY <1>2, <2>1, <2>2
<1>4. SessionTypeOK'
  BY <1>1, <1>2, <1>3 DEF SessionTypeOK, PollStates
<1>5. FetchesAreSound'
  BY <1>1, <1>2, <1>3 DEF FetchesAreSound
<1>6. \A s \in Sessions : AtOnePlace(s)' /\ InReady(s)' = InReady(s) /\ InPolls(s)' = InPolls(s)
  BY <1>1, <1>3, PlacesKept DEF SessionInv
<1>7. \A s \in Sessions : UserIsSound(s)'
  BY <1>1, <1>6, UserKept DEF SessionInv, UserIsSound
<1>8. ASSUME NEW s \in Sessions, apart'[s]
      PROVE  EventsInOrder(s)'
  <2>1. EventsInOrder(s) /\ prev[s] <= world
    BY <1>1, <1>2, <1>8 DEF SessionInv, FetchesAreSound
  <2>2. \A u \in InPolls(s) : polling'[u].pc = "fetched" => prev[s] <= polling'[u].seen
    BY <1>1, <1>3, <2>1 DEF EventsInOrder, InPolls
  <2> QED
    BY <1>1, <1>6, <2>1, <2>2 DEF EventsInOrder
<1> QED
  BY <1>4, <1>5, <1>6, <1>7, <1>8 DEF SessionInv

(* A fetch that fails leaves nothing to dispatch. *)
LEMMA PoolFetchFailsKeepsInv ==
    ASSUME SessionAssumptions, SessionInv, NEW t \in PoolThreads, PoolFetchFails(t)
    PROVE  SessionInv'
<1>1. /\ polling[t].pc = "fetch" /\ polling' = [polling EXCEPT ![t].pc = "done"]
      /\ UNCHANGED <<world, user, call, store, idle, workers, registered, heap, ready, prev, noticed,
                     alerted, apart>>
  BY DEF PoolFetchFails, poolVars, alertVars
<1>2. SessionTypeOK /\ FetchesAreSound /\ polling \in [PoolThreads -> PollStates]
  BY DEF SessionInv, SessionTypeOK, PollStates
<1>3. /\ polling' \in [PoolThreads -> PollStates]
      /\ polling'[t].pc = "done" /\ polling'[t].sid = polling[t].sid
      /\ \A u \in PoolThreads \ {t} : polling'[u] = polling[u]
  BY <1>1, <1>2 DEF PollStates
<1>4. SessionTypeOK'
  BY <1>1, <1>2, <1>3 DEF SessionTypeOK, PollStates
<1>5. FetchesAreSound'
  BY <1>1, <1>2, <1>3 DEF FetchesAreSound
<1>6. \A s \in Sessions : AtOnePlace(s)' /\ InReady(s)' = InReady(s) /\ InPolls(s)' = InPolls(s)
  BY <1>1, <1>3, PlacesKept DEF SessionInv
<1>7. \A s \in Sessions : UserIsSound(s)'
  BY <1>1, <1>6, UserKept DEF SessionInv, UserIsSound
<1>8. \A s \in Sessions : apart'[s] => EventsInOrder(s)'
  BY <1>1, <1>3, <1>6, OrderKept DEF SessionInv, InPolls
<1> QED
  BY <1>4, <1>5, <1>6, <1>7, <1>8 DEF SessionInv

(* A version that is dispatched is no older than the last one, and an alert is newer. *)
LEMMA DispatchIsTyped ==
    ASSUME SessionTypeOK, NEW s \in Sessions, NEW version \in 0..MaxWorld, DispatchEvents(s, version)
    PROVE  /\ prev' \in [Sessions -> -1..MaxWorld] /\ noticed' \in [Sessions -> BOOLEAN]
           /\ alerted' \in [Sessions -> Seq(0..MaxWorld)] /\ prev'[s] = version
           /\ \A r \in Sessions \ {s} : prev'[r] = prev[r] /\ alerted'[r] = alerted[r]
           /\ \/ alerted'[s] = alerted[s]
              \/ /\ alerted'[s] = Append(alerted[s], version)
                 /\ ~Online(version) /\ Online(prev[s])
<1>1. prev \in [Sessions -> -1..MaxWorld] /\ noticed \in [Sessions -> BOOLEAN]
      /\ alerted \in [Sessions -> Seq(0..MaxWorld)]
  BY DEF SessionTypeOK
<1>2. Append(alerted[s], version) \in Seq(0..MaxWorld)
  BY <1>1
<1>3. prev' \in [Sessions -> -1..MaxWorld] /\ prev'[s] = version
      /\ \A r \in Sessions \ {s} : prev'[r] = prev[r]
  BY <1>1 DEF DispatchEvents
<1>4. noticed' \in [Sessions -> BOOLEAN]
  BY <1>1 DEF DispatchEvents
<1>5. CASE alerted' = alerted
  BY <1>1, <1>3, <1>4, <1>5
<1>6. CASE alerted' = [alerted EXCEPT ![s] = Append(@, version)] /\ ~Online(version) /\ Online(prev[s])
  BY <1>1, <1>2, <1>3, <1>4, <1>6
<1> QED
  BY <1>5, <1>6 DEF DispatchEvents

(* The alerts of a session stay in order if what is dispatched is no older than before. *)
LEMMA DispatchKeepsOrder ==
    ASSUME SessionTypeOK, NEW s \in Sessions, NEW version \in 0..MaxWorld, DispatchEvents(s, version),
           prev[s] <= version, MaxWorld \in Nat, Increasing(alerted[s]),
           \A i \in DOMAIN alerted[s] : alerted[s][i] <= prev[s] /\ ~Online(alerted[s][i])
    PROVE  /\ Increasing(alerted'[s])
           /\ \A i \in DOMAIN alerted'[s] : alerted'[s][i] <= version /\ ~Online(alerted'[s][i])
<1>1. alerted[s] \in Seq(0..MaxWorld) /\ prev[s] \in -1..MaxWorld
  BY DEF SessionTypeOK
<1>2. PICK n \in Nat : n = Len(alerted[s])
  BY <1>1
<1>3. DOMAIN alerted[s] = 1..n /\ \A i \in 1..n : alerted[s][i] \in 0..MaxWorld
  BY <1>1, <1>2
<1>4. CASE alerted'[s] = alerted[s]
  <2>1. Increasing(alerted'[s])
    BY <1>4 DEF Increasing
  <2>2. \A i \in 1..n : alerted[s][i] <= version /\ ~Online(alerted[s][i])
    <3>1. \A i \in 1..n : alerted[s][i] <= prev[s] /\ ~Online(alerted[s][i])
      BY <1>3
    <3> QED
      BY <1>1, <1>3, <3>1
  <2> QED
    BY <1>3, <1>4, <2>1, <2>2
<1>5. CASE alerted'[s] = Append(alerted[s], version) /\ ~Online(version) /\ Online(prev[s])
  <2>1. /\ DOMAIN alerted'[s] = 1..(n + 1) /\ alerted'[s][n + 1] = version
        /\ \A i \in 1..n : alerted'[s][i] = alerted[s][i]
    BY <1>1, <1>2, <1>5
  <2>2. \A i \in 1..n : alerted[s][i] < version
    <3>1. \A i \in 1..n : alerted[s][i] # prev[s]
      BY <1>3, <1>5
    <3>2. \A i \in 1..n : alerted[s][i] <= prev[s]
      BY <1>3
    <3> QED
      BY <1>1, <1>3, <3>1, <3>2
  <2>3. \A i, j \in 1..(n + 1) : i < j => alerted'[s][i] < alerted'[s][j]
    <3>1. \A i, j \in 1..n : i < j => alerted[s][i] < alerted[s][j]
      BY <1>3 DEF Increasing
    <3> SUFFICES ASSUME NEW i \in 1..(n + 1), NEW j \in 1..(n + 1), i < j
                 PROVE  alerted'[s][i] < alerted'[s][j]
      OBVIOUS
    <3>2. i \in 1..n /\ (j \in 1..n \/ j = n + 1)
      BY <1>2
    <3> QED
      BY <2>1, <2>2, <3>1, <3>2
  <2>4. \A i \in 1..(n + 1) : alerted'[s][i] <= version /\ ~Online(alerted'[s][i])
    BY <1>3, <1>5, <2>1, <2>2
  <2> QED
    BY <2>1, <2>3, <2>4 DEF Increasing
<1> QED
  BY <1>4, <1>5, DispatchIsTyped

(* A thread that goes on with its poll. *)
LEMMA ThreadAt ==
    ASSUME SessionTypeOK, NEW t \in PoolThreads, NEW pc \in {"fetched", "alerted", "done"},
           polling' = [polling EXCEPT ![t].pc = pc]
    PROVE  /\ polling' \in [PoolThreads -> PollStates]
           /\ polling'[t].pc = pc /\ polling'[t].sid = polling[t].sid
           /\ polling'[t].seen = polling[t].seen
           /\ \A u \in PoolThreads \ {t} : polling'[u] = polling[u]
BY DEF SessionTypeOK, PollStates

(* What a thread that is not free is at. *)
LEMMA ThreadPolls ==
    ASSUME SessionInv, NEW t \in PoolThreads, polling[t].pc # "free"
    PROVE  /\ polling[t].sid \in Sessions /\ polling[t].seen \in -1..MaxWorld
           /\ polling[t].pc \in {"fetched", "alerted"} => polling[t].seen \in 0..world
BY DEF SessionInv, SessionTypeOK, FetchesAreSound

(* The pool dispatches what it has fetched; nobody else has fetched for the session. *)
LEMMA PoolDispatchKeepsInv ==
    ASSUME SessionAssumptions, SessionInv, NEW t \in PoolThreads, PoolDispatch(t)
    PROVE  SessionInv'
<1>1. /\ polling[t].pc = "fetched" /\ polling' = [polling EXCEPT ![t].pc = "alerted"]
      /\ UNCHANGED <<world, user, call, store, idle, workers, registered, heap, ready, apart>>
  BY DEF PoolDispatch, poolVars
<1>2. SessionTypeOK /\ FetchesAreSound /\ world \in 0..MaxWorld /\ MaxWorld \in Nat
      /\ prev \in [Sessions -> -1..MaxWorld]
  BY DEF SessionInv, SessionTypeOK, SessionAssumptions
<1>3. PICK s \in Sessions : s = polling[t].sid
  BY <1>1, ThreadPolls
<1>4. PICK version \in 0..world : version = polling[t].seen
  BY <1>1, ThreadPolls
<1>5. version \in 0..MaxWorld /\ DispatchEvents(s, version)
  BY <1>2, <1>3, <1>4 DEF PoolDispatch
<1>6. /\ polling' \in [PoolThreads -> PollStates] /\ polling'[t].pc = "alerted"
      /\ polling'[t].sid = polling[t].sid /\ polling'[t].seen = polling[t].seen
      /\ \A u \in PoolThreads \ {t} : polling'[u] = polling[u]
  BY <1>1, <1>2, ThreadAt
<1>7. /\ prev' \in [Sessions -> -1..MaxWorld] /\ noticed' \in [Sessions -> BOOLEAN]
      /\ alerted' \in [Sessions -> Seq(0..MaxWorld)] /\ prev'[s] = version
      /\ \A r \in Sessions \ {s} : prev'[r] = prev[r] /\ alerted'[r] = alerted[r]
  BY <1>2, <1>5, DispatchIsTyped
<1>8. SessionTypeOK'
  BY <1>1, <1>2, <1>6, <1>7 DEF SessionTypeOK, PollStates
<1>9. FetchesAreSound'
  <2>1. \A u \in PoolThreads :
          /\ polling'[u].pc = "free" <=> polling'[u].sid = Nobody
          /\ polling'[u].pc \in {"fetched", "alerted"} => polling'[u].seen \in 0..world
    BY <1>1, <1>2, <1>6 DEF FetchesAreSound
  <2>2. \A r \in Sessions : prev'[r] <= world
    <3>1. prev'[s] <= world
      BY <1>2, <1>7
    <3>2. \A r \in Sessions \ {s} : prev'[r] <= world
      BY <1>2, <1>7 DEF FetchesAreSound
    <3> QED
      BY <3>1, <3>2
  <2> QED
    BY <1>1, <1>2, <2>1, <2>2 DEF FetchesAreSound
<1>10. \A r \in Sessions : AtOnePlace(r)' /\ InReady(r)' = InReady(r) /\ InPolls(r)' = InPolls(r)
  BY <1>1, <1>6, PlacesKept DEF SessionInv
<1>11. \A r \in Sessions : UserIsSound(r)'
  BY <1>1, <1>10, UserKept DEF SessionInv, UserIsSound
<1>12. ASSUME NEW r \in Sessions, apart'[r], r # s
       PROVE  EventsInOrder(r)'
  BY <1>1, <1>3, <1>6, <1>7, <1>10, <1>12, OrderKept DEF SessionInv, InPolls
<1>13. ASSUME apart'[s]
       PROVE  EventsInOrder(s)'
  <2>1. EventsInOrder(s) /\ AtOnePlace(s) /\ UserIsSound(s) /\ t \in InPolls(s)
    BY <1>1, <1>3, <1>13 DEF SessionInv, InPolls
  <2>2. user[s] # "connecting" /\ call[s].pc = "none" /\ prev[s] <= version
    BY <1>1, <1>4, <2>1 DEF EventsInOrder, UserIsSound
  <2>3. \A u \in InPolls(s) : polling'[u].pc # "fetched"
    BY <1>6, <2>1 DEF AtOnePlace
  <2>4. /\ Increasing(alerted'[s])
        /\ \A i \in DOMAIN alerted'[s] : alerted'[s][i] <= version /\ ~Online(alerted'[s][i])
    BY <1>2, <1>5, <2>1, <2>2, DispatchKeepsOrder DEF EventsInOrder
  <2> QED
    BY <1>1, <1>7, <1>10, <2>2, <2>3, <2>4 DEF EventsInOrder
<1> QED
  BY <1>8, <1>9, <1>10, <1>11, <1>12, <1>13 DEF SessionInv

(* What the pool publishes is stored while the session is there. *)
LEMMA PoolPublishKeepsInv ==
    ASSUME SessionAssumptions, SessionInv, NEW t \in PoolThreads, PoolPublish(t)
    PROVE  SessionInv'
<1>1. /\ polling[t].pc = "alerted" /\ polling' = [polling EXCEPT ![t].pc = "done"]
      /\ UNCHANGED <<world, user, call, workers, registered, heap, ready, prev, noticed, alerted,
                     apart>>
  BY DEF PoolPublish, poolVars, alertVars
<1>2. SessionTypeOK /\ FetchesAreSound /\ Ttl \in Nat
  BY DEF SessionInv, SessionAssumptions
<1>3. PICK s \in Sessions : s = polling[t].sid
  BY <1>1, ThreadPolls
<1>4. PICK version \in -1..MaxWorld : version = polling[t].seen
  BY <1>1, ThreadPolls
<1>5. /\ store' \in [Sessions -> {Absent, Gone} \cup -1..MaxWorld]
      /\ idle' \in [Sessions -> 0..Ttl + 1]
      /\ \A r \in Sessions : store[r] \in {Absent, Gone} => store'[r] = store[r]
  BY <1>2, <1>3, <1>4, PublishIsTyped DEF PoolPublish
<1>6. /\ polling' \in [PoolThreads -> PollStates] /\ polling'[t].pc = "done"
      /\ polling'[t].sid = polling[t].sid
      /\ \A u \in PoolThreads \ {t} : polling'[u] = polling[u]
  BY <1>1, <1>2, ThreadAt
<1>7. SessionTypeOK'
  BY <1>1, <1>2, <1>5, <1>6 DEF SessionTypeOK, PollStates
<1>8. FetchesAreSound'
  BY <1>1, <1>2, <1>6 DEF FetchesAreSound
<1>9. \A r \in Sessions : AtOnePlace(r)' /\ InReady(r)' = InReady(r) /\ InPolls(r)' = InPolls(r)
  BY <1>1, <1>6, PlacesKept DEF SessionInv
<1>10. \A r \in Sessions : UserIsSound(r)'
  BY <1>1, <1>5, <1>9, UserKept DEF SessionInv, UserIsSound
<1>11. \A r \in Sessions : apart'[r] => EventsInOrder(r)'
  BY <1>1, <1>6, <1>9, OrderKept DEF SessionInv, InPolls
<1> QED
  BY <1>7, <1>8, <1>9, <1>10, <1>11 DEF SessionInv

(* A poll that is done leaves its session due, if it is registered still. *)
LEMMA RescheduleKeepsInv ==
    ASSUME SessionAssumptions, SessionInv, NEW t \in PoolThreads, Reschedule(t)
    PROVE  SessionInv'
<1>1. /\ polling[t].pc = "done" /\ polling' = [polling EXCEPT ![t] = Free]
      /\ UNCHANGED <<world, user, call, store, idle, workers, registered, ready, prev, noticed,
                     alerted, apart>>
  BY DEF Reschedule, alertVars
<1>2. SessionTypeOK /\ FetchesAreSound /\ heap \in [Sessions -> Nat] /\ Nobody \notin Sessions
      /\ polling \in [PoolThreads -> PollStates] /\ MaxWorld \in Nat
  BY DEF SessionInv, SessionTypeOK, SessionAssumptions, PollStates
<1>3. PICK s \in Sessions : s = polling[t].sid
  BY <1>1, ThreadPolls
<1>4. /\ polling' \in [PoolThreads -> PollStates] /\ polling'[t].pc = "free"
      /\ polling'[t].sid = Nobody
      /\ \A u \in PoolThreads \ {t} : polling'[u] = polling[u]
  BY <1>1, <1>2 DEF PollStates, Free
<1>5. /\ heap' \in [Sessions -> Nat] /\ \A r \in Sessions \ {s} : heap'[r] = heap[r]
      /\ heap'[s] = IF s \in registered THEN heap[s] + 1 ELSE heap[s]
  BY <1>2, <1>3 DEF Reschedule
<1>6. SessionTypeOK'
  BY <1>1, <1>2, <1>4, <1>5 DEF SessionTypeOK, PollStates
<1>7. FetchesAreSound'
  BY <1>1, <1>2, <1>4 DEF FetchesAreSound
<1>8. \A r \in Sessions \ {s} : InReady(r)' = InReady(r) /\ InPolls(r)' = InPolls(r)
  BY <1>1, <1>2, <1>3, <1>4 DEF InReady, InPolls
<1>9. \A r \in Sessions \ {s} : AtOnePlace(r)' /\ UserIsSound(r)'
  BY <1>1, <1>5, <1>8, PlaceKept, UserKept DEF SessionInv, UserIsSound
<1>10. AtOnePlace(s) /\ UserIsSound(s) /\ t \in InPolls(s)
  BY <1>3 DEF SessionInv, InPolls
<1>11. InPolls(s)' = {} /\ InReady(s)' = {} /\ InReady(s) = {} /\ heap[s] = 0
  <2>1. InPolls(s) = {t} /\ InReady(s) = {}
    BY <1>10 DEF AtOnePlace
  <2>2. InPolls(s)' = {}
    BY <1>2, <1>3, <1>4, <2>1 DEF InPolls
  <2>3. InReady(s)' = {}
    BY <1>1, <2>1 DEF InReady
  <2>4. heap[s] = 0
    BY <1>2, <1>10 DEF AtOnePlace
  <2> QED
    BY <2>1, <2>2, <2>3, <2>4
<1>12. AtOnePlace(s)'
  BY <1>1, <1>5, <1>11 DEF AtOnePlace
<1>13. UserIsSound(s)'
  BY <1>1, <1>10, <1>11 DEF UserIsSound
<1>14. ASSUME NEW r \in Sessions, apart'[r]
       PROVE  EventsInOrder(r)'
  <2>1. EventsInOrder(r) /\ InPolls(r)' \subseteq InPolls(r) /\ t \notin InPolls(r)'
    BY <1>1, <1>2, <1>4, <1>8, <1>11, <1>14 DEF SessionInv, InPolls
  <2>2. \A u \in InPolls(r)' : polling'[u] = polling[u]
    BY <1>4, <2>1 DEF InPolls
  <2> QED
    BY <1>1, <2>1, <2>2 DEF EventsInOrder
<1> QED
  BY <1>6, <1>7, <1>9, <1>12, <1>13, <1>14 DEF SessionInv

-----------------------------------------------------------------------------
(* The first of the ready sessions is taken. *)
LEMMA HeadIsTaken ==
    ASSUME SessionTypeOK, ready # <<>>, ready' = Tail(ready)
    PROVE  /\ ready' \in Seq(Sessions) /\ Head(ready) \in Sessions /\ 1 \in InReady(Head(ready))
           /\ \A s \in Sessions : (\A i, j \in InReady(s) : i = j) =>
                /\ \A i, j \in InReady(s)' : i = j
                /\ s = Head(ready) => InReady(s)' = {}
                /\ s # Head(ready) => (InReady(s)' = {} <=> InReady(s) = {})
<1>1. ready \in Seq(Sessions)
  BY DEF SessionTypeOK
<1>2. PICK n \in Nat : n = Len(ready)
  BY <1>1
<1>3. /\ n >= 1 /\ Head(ready) = ready[1] /\ DOMAIN ready = 1..n /\ ready[1] \in Sessions
      /\ ready' \in Seq(Sessions) /\ DOMAIN ready' = 1..(n - 1)
      /\ \A i \in 1..(n - 1) : ready'[i] = ready[i + 1]
  BY <1>1, <1>2
<1>4. 1 \in InReady(Head(ready))
  BY <1>3 DEF InReady
<1>5. ASSUME NEW s \in Sessions, \A i, j \in InReady(s) : i = j
      PROVE  /\ \A i, j \in InReady(s)' : i = j
             /\ s = Head(ready) => InReady(s)' = {}
             /\ s # Head(ready) => (InReady(s)' = {} <=> InReady(s) = {})
  <2>1. \A i \in InReady(s)' : i \in 1..(n - 1) /\ i + 1 \in InReady(s)
    BY <1>2, <1>3 DEF InReady
  <2>2. \A i, j \in InReady(s)' : i = j
    BY <1>2, <1>5, <2>1
  <2>3. s = Head(ready) => InReady(s)' = {}
    BY <1>2, <1>4, <1>5, <2>1
  <2>4. s # Head(ready) /\ InReady(s) # {} => InReady(s)' # {}
    <3> SUFFICES ASSUME s # Head(ready), NEW i \in InReady(s)
                 PROVE  i - 1 \in InReady(s)'
      OBVIOUS
    <3>1. i \in 1..n /\ ready[i] = s /\ i # 1
      BY <1>3 DEF InReady
    <3>2. i - 1 \in 1..(n - 1) /\ (i - 1) + 1 = i
      BY <1>2, <3>1
    <3> QED
      BY <1>3, <3>1, <3>2 DEF InReady
  <2> QED
    BY <2>1, <2>2, <2>3, <2>4
<1> QED
  BY <1>3, <1>4, <1>5

(* A session is put behind those that are ready. *)
LEMMA PutIsReady ==
    ASSUME SessionTypeOK, NEW s \in Sessions, ready' = Append(ready, s)
    PROVE  /\ ready' \in Seq(Sessions)
           /\ \A r \in Sessions \ {s} : InReady(r)' = InReady(r)
           /\ InReady(s) = {} => InReady(s)' # {} /\ \A i, j \in InReady(s)' : i = j
<1>1. ready \in Seq(Sessions)
  BY DEF SessionTypeOK
<1>2. PICK n \in Nat : n = Len(ready)
  BY <1>1
<1>3. /\ DOMAIN ready = 1..n /\ ready' \in Seq(Sessions) /\ DOMAIN ready' = 1..(n + 1)
      /\ ready'[n + 1] = s /\ \A i \in 1..n : ready'[i] = ready[i]
  BY <1>1, <1>2
<1>4. 1..(n + 1) = (1..n) \cup {n + 1}
  BY <1>2
<1>5. \A r \in Sessions \ {s} : InReady(r)' = InReady(r)
  BY <1>3, <1>4 DEF InReady
<1>6. ASSUME InReady(s) = {}
      PROVE  InReady(s)' = {n + 1}
  BY <1>3, <1>4, <1>6 DEF InReady
<1> QED
  BY <1>3, <1>5, <1>6

(* A registered session that is taken is in the poll of the thread that took it. *)
LEMMA TakeKeepsInv ==
    ASSUME SessionAssumptions, SessionInv, NEW t \in PoolThreads, Take(t)
    PROVE  SessionInv'
<1>1. /\ polling[t].pc = "free" /\ ready # <<>> /\ ready' = Tail(ready)
      /\ UNCHANGED <<world, user, call, store, idle, workers, registered, heap, prev, noticed,
                     alerted>>
  BY DEF Take, alertVars
<1>2. /\ SessionTypeOK /\ FetchesAreSound /\ Nobody \notin Sessions /\ MaxWorld \in Nat
      /\ polling \in [PoolThreads -> PollStates] /\ apart \in [Sessions -> BOOLEAN]
      /\ heap \in [Sessions -> Nat]
  BY DEF SessionInv, SessionTypeOK, SessionAssumptions, PollStates
<1>3. PICK s \in Sessions : s = Head(ready)
  BY <1>1, <1>2, HeadIsTaken
<1>4. /\ ready' \in Seq(Sessions) /\ 1 \in InReady(s)
      /\ \A i, j \in InReady(s)' : i = j
      /\ InReady(s)' = {}
      /\ \A r \in Sessions \ {s} :
           (\A i, j \in InReady(r)' : i = j) /\ (InReady(r)' = {} <=> InReady(r) = {})
  BY <1>1, <1>2, <1>3, HeadIsTaken DEF SessionInv, AtOnePlace
<1>5. AtOnePlace(s) /\ UserIsSound(s) /\ heap[s] = 0 /\ InPolls(s) = {} /\ user[s] # "new"
  BY <1>2, <1>4 DEF SessionInv, AtOnePlace, UserIsSound
<1>6. polling[t].sid = Nobody
  BY <1>1, <1>2 DEF FetchesAreSound
<1>7. CASE s \in registered
  <2> DEFINE x == [pc |-> "fetch", sid |-> s, seen |-> -1]
  <2>1. /\ polling' = [polling EXCEPT ![t] = x]
        /\ apart' = [apart EXCEPT ![s] = @ /\ ~InConnect(s)]
    BY <1>3, <1>7 DEF Take
  <2>2. /\ polling' \in [PoolThreads -> PollStates] /\ polling'[t].pc = "fetch"
        /\ polling'[t].sid = s /\ \A u \in PoolThreads \ {t} : polling'[u] = polling[u]
    <3>1. x \in PollStates /\ x.pc = "fetch" /\ x.sid = s
      BY <1>2 DEF PollStates
    <3> HIDE DEF x
    <3> QED
      BY <1>2, <2>1, <3>1
  <2>3. /\ apart' \in [Sessions -> BOOLEAN]
        /\ \A r \in Sessions \ {s} : apart'[r] = apart[r]
    <3>1. (apart[s] /\ ~InConnect(s)) \in BOOLEAN
      OBVIOUS
    <3> QED
      BY <1>2, <2>1, <3>1
  <2>4. SessionTypeOK'
    <3>1. apart' \in [Sessions -> BOOLEAN]
      BY <2>3
    <3> QED
      BY <1>1, <1>2, <1>4, <2>2, <3>1 DEF SessionTypeOK, PollStates
  <2>9. apart'[s] => apart[s] /\ user[s] # "connecting"
    <3>1. apart'[s] = (apart[s] /\ ~InConnect(s))
      BY <1>2, <2>1
    <3> QED
      BY <3>1 DEF InConnect
  <2>5. FetchesAreSound'
    BY <1>1, <1>2, <2>2 DEF FetchesAreSound
  <2>6. InPolls(s)' = {t} /\ \A r \in Sessions \ {s} : InPolls(r)' = InPolls(r)
    BY <1>2, <1>5, <1>6, <2>2 DEF InPolls
  <2>7. ASSUME NEW r \in Sessions
        PROVE  AtOnePlace(r)' /\ UserIsSound(r)'
    <3>1. CASE r = s
      BY <1>1, <1>2, <1>4, <1>5, <2>6, <3>1 DEF AtOnePlace, UserIsSound
    <3>2. CASE r # s
      <4>1. AtOnePlace(r) /\ UserIsSound(r)
        BY DEF SessionInv
      <4> QED
        BY <1>1, <1>4, <2>6, <3>2, <4>1 DEF AtOnePlace, UserIsSound
    <3> QED
      BY <3>1, <3>2
  <2>8. ASSUME NEW r \in Sessions, apart'[r]
        PROVE  EventsInOrder(r)'
    <3>1. CASE r = s
      <4>1. apart[s] /\ user[s] # "connecting"
        BY <2>8, <2>9, <3>1
      <4>2. EventsInOrder(s)
        BY <4>1 DEF SessionInv
      <4> QED
        BY <1>1, <2>2, <2>6, <3>1, <4>1, <4>2 DEF EventsInOrder
    <3>2. CASE r # s
      BY <1>1, <1>6, <2>2, <2>3, <2>6, <2>8, <3>2, OrderKept DEF SessionInv, InPolls
    <3> QED
      BY <3>1, <3>2
  <2> QED
    BY <2>4, <2>5, <2>7, <2>8 DEF SessionInv
<1>8. CASE s \notin registered
  <2>1. UNCHANGED <<polling, apart>>
    BY <1>3, <1>8 DEF Take
  <2>2. SessionTypeOK'
    BY <1>1, <1>2, <1>4, <2>1 DEF SessionTypeOK
  <2>3. FetchesAreSound'
    BY <1>1, <1>2, <2>1 DEF FetchesAreSound
  <2>4. \A r \in Sessions : InPolls(r)' = InPolls(r)
    BY <2>1 DEF InPolls
  <2>5. ASSUME NEW r \in Sessions
        PROVE  AtOnePlace(r)' /\ UserIsSound(r)'
    <3>1. CASE r = s
      BY <1>1, <1>2, <1>4, <1>5, <1>8, <2>4, <3>1 DEF AtOnePlace, UserIsSound
    <3>2. CASE r # s
      <4>1. AtOnePlace(r) /\ UserIsSound(r)
        BY DEF SessionInv
      <4> QED
        BY <1>1, <1>4, <2>4, <3>2, <4>1 DEF AtOnePlace, UserIsSound
    <3> QED
      BY <3>1, <3>2
  <2>6. \A r \in Sessions : apart'[r] => EventsInOrder(r)'
    BY <1>1, <2>1, <2>4, OrderKept DEF SessionInv
  <2> QED
    BY <2>2, <2>3, <2>5, <2>6 DEF SessionInv
<1> QED
  BY <1>7, <1>8

(* An entry that is due becomes ready, if its session is registered still. *)
LEMMA ScheduleKeepsInv ==
    ASSUME SessionAssumptions, SessionInv, NEW s \in Sessions, Schedule(s)
    PROVE  SessionInv'
<1>1. /\ heap[s] > 0 /\ heap' = [heap EXCEPT ![s] = @ - 1]
      /\ UNCHANGED <<world, user, call, store, idle, workers, registered, polling, prev, noticed,
                     alerted, apart>>
  BY DEF Schedule, alertVars
<1>2. SessionTypeOK /\ FetchesAreSound /\ heap \in [Sessions -> Nat] /\ ready \in Seq(Sessions)
  BY DEF SessionInv, SessionTypeOK
<1>3. AtOnePlace(s) /\ UserIsSound(s) /\ heap[s] = 1 /\ InReady(s) = {} /\ InPolls(s) = {}
      /\ user[s] # "new"
  BY <1>1, <1>2 DEF SessionInv, AtOnePlace, UserIsSound
<1>4. /\ heap' \in [Sessions -> Nat] /\ heap'[s] = 0
      /\ \A r \in Sessions \ {s} : heap'[r] = heap[r]
  BY <1>1, <1>2, <1>3
<1>5. /\ ready' \in Seq(Sessions) /\ \A r \in Sessions \ {s} : InReady(r)' = InReady(r)
      /\ \A i, j \in InReady(s)' : i = j
      /\ s \in registered => InReady(s)' # {}
  <2>1. CASE s \in registered
    <3>1. ready' = Append(ready, s)
      BY <2>1 DEF Schedule
    <3> QED
      BY <1>2, <1>3, <3>1, PutIsReady
  <2>2. CASE s \notin registered
    <3>1. ready' = ready
      BY <2>2 DEF Schedule
    <3>2. \A r \in Sessions : InReady(r)' = InReady(r)
      BY <3>1 DEF InReady
    <3> QED
      BY <1>2, <1>3, <2>2, <3>1, <3>2
  <2> QED
    BY <2>1, <2>2
<1>6. \A r \in Sessions : InPolls(r)' = InPolls(r)
  BY <1>1 DEF InPolls
<1>7. SessionTypeOK'
  BY <1>1, <1>2, <1>4, <1>5 DEF SessionTypeOK
<1>8. FetchesAreSound'
  BY <1>1, <1>2 DEF FetchesAreSound
<1>9. AtOnePlace(s)' /\ UserIsSound(s)'
  BY <1>1, <1>3, <1>4, <1>5, <1>6 DEF AtOnePlace, UserIsSound
<1>10. \A r \in Sessions \ {s} : AtOnePlace(r)' /\ UserIsSound(r)'
  BY <1>1, <1>4, <1>5, <1>6, PlaceKept, UserKept DEF SessionInv, UserIsSound
<1>11. \A r \in Sessions : apart'[r] => EventsInOrder(r)'
  BY <1>1, <1>6, OrderKept DEF SessionInv
<1> QED
  BY <1>7, <1>8, <1>9, <1>10, <1>11 DEF SessionInv

-----------------------------------------------------------------------------
(* What leaves the pool alone leaves every session at its place. *)
LEMMA PoolUntouched ==
    ASSUME SessionInv, UNCHANGED <<heap, ready, registered, polling>>
    PROVE  \A s \in Sessions : /\ AtOnePlace(s)'
                               /\ InReady(s)' = InReady(s) /\ InPolls(s)' = InPolls(s)
BY PlacesKept DEF SessionInv

(* The call sees the world as it is. *)
LEMMA CallFetchKeepsInv ==
    ASSUME SessionAssumptions, SessionInv, NEW s \in Sessions, CallFetch(s)
    PROVE  SessionInv'
<1>1. /\ call[s].pc = "fetch" /\ call' = [call EXCEPT ![s] = [pc |-> "fetched", seen |-> world]]
      /\ UNCHANGED <<world, user, store, idle, workers, registered, heap, ready, polling, prev,
                     noticed, alerted, apart>>
  BY DEF CallFetch, poolVars, alertVars
<1>2. /\ SessionTypeOK /\ FetchesAreSound /\ call \in [Sessions -> CallStates]
      /\ world \in 0..MaxWorld /\ MaxWorld \in Nat
  BY DEF SessionInv, SessionTypeOK, CallStates, SessionAssumptions
<1>3. /\ call' \in [Sessions -> CallStates] /\ call'[s].pc = "fetched" /\ call'[s].seen = world
      /\ \A r \in Sessions \ {s} : call'[r] = call[r]
  BY <1>1, <1>2 DEF CallStates
<1>4. SessionTypeOK'
  BY <1>1, <1>2, <1>3 DEF SessionTypeOK, CallStates
<1>5. FetchesAreSound'
  BY <1>1, <1>2, <1>3 DEF FetchesAreSound
<1>6. \A r \in Sessions : AtOnePlace(r)' /\ InReady(r)' = InReady(r) /\ InPolls(r)' = InPolls(r)
  BY <1>1, PoolUntouched
<1>7. \A r \in Sessions : UserIsSound(r)'
  BY <1>1, <1>3, <1>6, UserKept DEF SessionInv, UserIsSound
<1>8. ASSUME NEW r \in Sessions, apart'[r]
      PROVE  EventsInOrder(r)'
  <2>1. EventsInOrder(r) /\ prev[r] <= world
    BY <1>1, <1>2, <1>8 DEF SessionInv, FetchesAreSound
  <2>2. call'[r].pc = "fetched" => prev[r] <= call'[r].seen
    BY <1>3, <2>1 DEF EventsInOrder
  <2> QED
    BY <1>1, <1>6, <2>1, <2>2 DEF EventsInOrder
<1> QED
  BY <1>4, <1>5, <1>6, <1>7, <1>8 DEF SessionInv

(* A request that fails has no call any more. *)
LEMMA CallFailsKeepsInv ==
    ASSUME SessionAssumptions, SessionInv, NEW s \in Sessions, CallFails(s)
    PROVE  SessionInv'
<1>1. /\ call[s].pc = "fetch" /\ call' = [call EXCEPT ![s].pc = "none"]
      /\ user' = [user EXCEPT ![s] = "failed"]
      /\ UNCHANGED <<world, store, idle, workers, registered, heap, ready, polling, prev, noticed,
                     alerted, apart>>
  BY DEF CallFails, poolVars, alertVars
<1>2. /\ SessionTypeOK /\ FetchesAreSound /\ call \in [Sessions -> CallStates]
      /\ user \in [Sessions -> {"new", "connecting", "connected", "failed", "leaving", "stopped",
                                "left"}]
  BY DEF SessionInv, SessionTypeOK, CallStates
<1>3. /\ call' \in [Sessions -> CallStates] /\ call'[s].pc = "none"
      /\ \A r \in Sessions \ {s} : call'[r] = call[r]
  BY <1>1, <1>2 DEF CallStates
<1>4. /\ user' \in [Sessions -> {"new", "connecting", "connected", "failed", "leaving", "stopped",
                                 "left"}]
      /\ user'[s] = "failed" /\ \A r \in Sessions \ {s} : user'[r] = user[r]
  BY <1>1, <1>2
<1>5. SessionTypeOK'
  BY <1>1, <1>2, <1>3, <1>4 DEF SessionTypeOK, CallStates
<1>6. FetchesAreSound'
  BY <1>1, <1>2, <1>3 DEF FetchesAreSound
<1>7. \A r \in Sessions : AtOnePlace(r)' /\ InReady(r)' = InReady(r) /\ InPolls(r)' = InPolls(r)
  BY <1>1, PoolUntouched
<1>8. UserIsSound(s)'
  BY <1>3, <1>4 DEF UserIsSound
<1>9. \A r \in Sessions \ {s} : UserIsSound(r)'
  BY <1>1, <1>3, <1>4, <1>7, UserKept DEF SessionInv, UserIsSound
<1>10. \A r \in Sessions : apart'[r] => EventsInOrder(r)'
  BY <1>1, <1>3, <1>4, <1>7, OrderKept DEF SessionInv
<1> QED
  BY <1>5, <1>6, <1>7, <1>8, <1>9, <1>10 DEF SessionInv

(* The call dispatches what it has fetched; the pool has fetched nothing if it kept apart. *)
LEMMA CallDispatchKeepsInv ==
    ASSUME SessionAssumptions, SessionInv, NEW s \in Sessions, CallDispatch(s)
    PROVE  SessionInv'
<1>1. /\ call[s].pc = "fetched" /\ call' = [call EXCEPT ![s].pc = "alerted"]
      /\ UNCHANGED <<world, user, store, idle, workers, registered, heap, ready, polling, apart>>
  BY DEF CallDispatch, poolVars
<1>2. /\ SessionTypeOK /\ FetchesAreSound /\ call \in [Sessions -> CallStates]
      /\ world \in 0..MaxWorld /\ MaxWorld \in Nat
  BY DEF SessionInv, SessionTypeOK, CallStates, SessionAssumptions
<1>3. PICK version \in 0..world : version = call[s].seen
  BY <1>1, <1>2 DEF FetchesAreSound
<1>4. version \in 0..MaxWorld /\ DispatchEvents(s, version)
  BY <1>2, <1>3 DEF CallDispatch
<1>5. /\ call' \in [Sessions -> CallStates] /\ call'[s].pc = "alerted"
      /\ call'[s].seen = call[s].seen /\ \A r \in Sessions \ {s} : call'[r] = call[r]
  BY <1>1, <1>2 DEF CallStates
<1>6. /\ prev' \in [Sessions -> -1..MaxWorld] /\ noticed' \in [Sessions -> BOOLEAN]
      /\ alerted' \in [Sessions -> Seq(0..MaxWorld)] /\ prev'[s] = version
      /\ \A r \in Sessions \ {s} : prev'[r] = prev[r] /\ alerted'[r] = alerted[r]
  BY <1>2, <1>4, DispatchIsTyped
<1>7. SessionTypeOK'
  BY <1>1, <1>2, <1>5, <1>6 DEF SessionTypeOK, CallStates
<1>8. FetchesAreSound'
  <2>1. \A r \in Sessions : call'[r].pc \in {"fetched", "alerted"} => call'[r].seen \in 0..world
    BY <1>1, <1>2, <1>5 DEF FetchesAreSound
  <2>2. prev'[s] <= world
    BY <1>2, <1>6
  <2>3. \A r \in Sessions \ {s} : prev'[r] <= world
    BY <1>2, <1>6 DEF FetchesAreSound
  <2>4. \A r \in Sessions : prev'[r] <= world
    BY <2>2, <2>3
  <2> QED
    BY <1>1, <1>2, <2>1, <2>4 DEF FetchesAreSound
<1>9. \A r \in Sessions : AtOnePlace(r)' /\ InReady(r)' = InReady(r) /\ InPolls(r)' = InPolls(r)
  BY <1>1, PoolUntouched
<1>10. \A r \in Sessions : UserIsSound(r)'
  BY <1>1, <1>5, <1>9, UserKept DEF SessionInv, UserIsSound
<1>11. ASSUME NEW r \in Sessions, apart'[r], r # s
       PROVE  EventsInOrder(r)'
  BY <1>1, <1>5, <1>6, <1>9, <1>11, OrderKept DEF SessionInv
<1>12. ASSUME apart'[s]
       PROVE  EventsInOrder(s)'
  <2>1. EventsInOrder(s) /\ UserIsSound(s)
    BY <1>1, <1>12 DEF SessionInv
  <2>2. InPolls(s) = {} /\ prev[s] <= version
    BY <1>1, <1>3, <2>1 DEF EventsInOrder, UserIsSound
  <2>3. /\ Increasing(alerted'[s])
        /\ \A i \in DOMAIN alerted'[s] : alerted'[s][i] <= version /\ ~Online(alerted'[s][i])
    BY <1>2, <1>4, <2>1, <2>2, DispatchKeepsOrder DEF EventsInOrder
  <2> QED
    BY <1>5, <1>6, <1>9, <2>2, <2>3 DEF EventsInOrder
<1> QED
  BY <1>7, <1>8, <1>9, <1>10, <1>11, <1>12 DEF SessionInv

(* What the call publishes is stored while the session is there, and the user is connected. *)
LEMMA CallPublishKeepsInv ==
    ASSUME SessionAssumptions, SessionInv, NEW s \in Sessions, CallPublish(s)
    PROVE  SessionInv'
<1>1. /\ call[s].pc = "alerted" /\ call' = [call EXCEPT ![s] = [pc |-> "none", seen |-> -1]]
      /\ user' = [user EXCEPT ![s] = "connected"] /\ PublishSession(s, call[s].seen)
      /\ UNCHANGED <<world, workers, registered, heap, ready, polling, prev, noticed, alerted, apart>>
  BY DEF CallPublish, poolVars, alertVars
<1>2. /\ SessionTypeOK /\ FetchesAreSound /\ call \in [Sessions -> CallStates] /\ Ttl \in Nat
      /\ MaxWorld \in Nat
      /\ user \in [Sessions -> {"new", "connecting", "connected", "failed", "leaving", "stopped",
                                "left"}]
  BY DEF SessionInv, SessionTypeOK, CallStates, SessionAssumptions
<1>3. PICK version \in -1..MaxWorld : version = call[s].seen
  BY <1>2 DEF CallStates
<1>4. /\ store' \in [Sessions -> {Absent, Gone} \cup -1..MaxWorld]
      /\ idle' \in [Sessions -> 0..Ttl + 1]
      /\ \A r \in Sessions : store[r] \in {Absent, Gone} => store'[r] = store[r]
  BY <1>1, <1>2, <1>3, PublishIsTyped
<1>5. /\ call' \in [Sessions -> CallStates] /\ call'[s].pc = "none"
      /\ \A r \in Sessions \ {s} : call'[r] = call[r]
  BY <1>1, <1>2 DEF CallStates
<1>6. /\ user' \in [Sessions -> {"new", "connecting", "connected", "failed", "leaving", "stopped",
                                 "left"}]
      /\ user'[s] = "connected" /\ \A r \in Sessions \ {s} : user'[r] = user[r]
  BY <1>1, <1>2
<1>7. SessionTypeOK'
  BY <1>1, <1>2, <1>4, <1>5, <1>6 DEF SessionTypeOK, CallStates
<1>8. FetchesAreSound'
  BY <1>1, <1>2, <1>5 DEF FetchesAreSound
<1>9. \A r \in Sessions : AtOnePlace(r)' /\ InReady(r)' = InReady(r) /\ InPolls(r)' = InPolls(r)
  BY <1>1, PoolUntouched
<1>10. UserIsSound(s)'
  <2>1. s \in registered
    BY <1>1 DEF SessionInv, UserIsSound
  <2> QED
    BY <1>1, <1>5, <1>6, <2>1 DEF UserIsSound
<1>11. \A r \in Sessions \ {s} : UserIsSound(r)'
  BY <1>1, <1>4, <1>5, <1>6, <1>9, UserKept DEF SessionInv, UserIsSound
<1>12. \A r \in Sessions : apart'[r] => EventsInOrder(r)'
  BY <1>1, <1>5, <1>6, <1>9, OrderKept DEF SessionInv
<1> QED
  BY <1>7, <1>8, <1>9, <1>10, <1>11, <1>12 DEF SessionInv

(* The session, its worker and its entry come at once. *)
LEMMA ConnectKeepsInv ==
    ASSUME SessionAssumptions, SessionInv, NEW s \in Sessions, ConnectSession(s)
    PROVE  SessionInv'
<1>1. /\ user[s] = "new" /\ user' = [user EXCEPT ![s] = "connecting"]
      /\ store' = [store EXCEPT ![s] = -1] /\ idle' = [idle EXCEPT ![s] = 0]
      /\ workers' = workers \cup {s} /\ registered' = registered \cup {s}
      /\ heap' = [heap EXCEPT ![s] = @ + 1] /\ call' = [call EXCEPT ![s].pc = "fetch"]
      /\ UNCHANGED <<world, ready, polling, prev, noticed, alerted, apart>>
  BY DEF ConnectSession, Touch, Register, alertVars
<1>2. /\ SessionTypeOK /\ FetchesAreSound /\ call \in [Sessions -> CallStates] /\ Ttl \in Nat
      /\ MaxWorld \in Nat /\ heap \in [Sessions -> Nat]
      /\ user \in [Sessions -> {"new", "connecting", "connected", "failed", "leaving", "stopped",
                                "left"}]
      /\ store \in [Sessions -> {Absent, Gone} \cup -1..MaxWorld]
      /\ idle \in [Sessions -> 0..Ttl + 1]
  BY DEF SessionInv, SessionTypeOK, CallStates, SessionAssumptions
<1>3. /\ heap[s] = 0 /\ InReady(s) = {} /\ InPolls(s) = {} /\ AtOnePlace(s)
  BY <1>1 DEF SessionInv, UserIsSound
<1>4. /\ call' \in [Sessions -> CallStates] /\ call'[s].pc = "fetch"
      /\ \A r \in Sessions \ {s} : call'[r] = call[r]
  BY <1>1, <1>2 DEF CallStates
<1>5. /\ user' \in [Sessions -> {"new", "connecting", "connected", "failed", "leaving", "stopped",
                                 "left"}]
      /\ user'[s] = "connecting" /\ \A r \in Sessions \ {s} : user'[r] = user[r]
  BY <1>1, <1>2
<1>6. /\ store' \in [Sessions -> {Absent, Gone} \cup -1..MaxWorld]
      /\ idle' \in [Sessions -> 0..Ttl + 1]
      /\ \A r \in Sessions \ {s} : store'[r] = store[r]
  <2>1. -1 \in {Absent, Gone} \cup -1..MaxWorld /\ 0 \in 0..Ttl + 1
    BY <1>2
  <2> QED
    BY <1>1, <1>2, <2>1
<1>7. /\ heap' \in [Sessions -> Nat] /\ heap'[s] = 1
      /\ \A r \in Sessions \ {s} : heap'[r] = heap[r]
  BY <1>1, <1>2, <1>3
<1>8. SessionTypeOK'
  BY <1>1, <1>2, <1>4, <1>5, <1>6, <1>7 DEF SessionTypeOK, CallStates
<1>9. FetchesAreSound'
  BY <1>1, <1>2, <1>4 DEF FetchesAreSound
<1>10. \A r \in Sessions : InReady(r)' = InReady(r) /\ InPolls(r)' = InPolls(r)
  BY <1>1 DEF InReady, InPolls
<1>11. AtOnePlace(s)' /\ UserIsSound(s)'
  BY <1>1, <1>3, <1>4, <1>5, <1>7, <1>10 DEF AtOnePlace, UserIsSound
<1>12. \A r \in Sessions \ {s} : AtOnePlace(r)' /\ UserIsSound(r)'
  BY <1>1, <1>4, <1>5, <1>6, <1>7, <1>10, PlaceKept, UserKept DEF SessionInv, UserIsSound
<1>13. ASSUME NEW r \in Sessions, apart'[r]
       PROVE  EventsInOrder(r)'
  <2>1. EventsInOrder(r)
    BY <1>1, <1>13 DEF SessionInv
  <2>2. CASE r = s
    BY <1>1, <1>3, <1>4, <1>10, <2>1, <2>2 DEF EventsInOrder
  <2>3. CASE r # s
    BY <1>1, <1>4, <1>5, <1>10, <2>1, <2>3, OrderKept
  <2> QED
    BY <2>2, <2>3
<1> QED
  BY <1>8, <1>9, <1>11, <1>12, <1>13 DEF SessionInv

(* What happens to no more than the snapshots of sessions that were connected, and to *)
(* users who are past their connect call.                                             *)
LEMMA ServiceKeepsInv ==
    ASSUME SessionInv,
           UNCHANGED <<world, call, heap, ready, polling, prev, noticed, alerted, apart>>,
           workers' \subseteq workers, registered' \subseteq registered,
           store' \in [Sessions -> {Absent, Gone} \cup -1..MaxWorld],
           idle' \in [Sessions -> 0..Ttl + 1],
           user' \in [Sessions -> {"new", "connecting", "connected", "failed", "leaving", "stopped",
                                   "left"}],
           \A s \in Sessions : user[s] = "new" => store'[s] = store[s],
           \A s \in Sessions : \/ user'[s] = user[s] /\ (s \in registered' <=> s \in registered)
                               \/ /\ user[s] \notin {"new", "connecting"}
                                  /\ user'[s] \in {"leaving", "stopped", "left"}
    PROVE  SessionInv'
<1>1. SessionTypeOK'
  BY DEF SessionInv, SessionTypeOK
<1>2. FetchesAreSound'
  BY DEF SessionInv, FetchesAreSound
<1>3. \A s \in Sessions : AtOnePlace(s)' /\ InReady(s)' = InReady(s) /\ InPolls(s)' = InPolls(s)
  BY PlacesKept DEF SessionInv
<1>4. ASSUME NEW s \in Sessions
      PROVE  UserIsSound(s)'
  <2>1. UserIsSound(s)
    BY DEF SessionInv
  <2>2. CASE user'[s] = user[s] /\ (s \in registered' <=> s \in registered)
    BY <1>3, <2>1, <2>2 DEF UserIsSound
  <2>3. CASE /\ user[s] \notin {"new", "connecting"}
             /\ user'[s] \in {"leaving", "stopped", "left"}
    BY <1>3, <2>1, <2>3 DEF UserIsSound
  <2> QED
    BY <2>2, <2>3
<1>5. \A s \in Sessions : apart'[s] => EventsInOrder(s)'
  BY <1>3, OrderKept DEF SessionInv
<1> QED
  BY <1>1, <1>2, <1>3, <1>4, <1>5 DEF SessionInv

(* The lookups of the user. *)
LEMMA ReadKeepsInv ==
    ASSUME SessionAssumptions, SessionInv, NEW s \in Sessions, Read(s)
    PROVE  SessionInv'
<1>1. /\ user[s] = "connected" /\ Get(s)
      /\ UNCHANGED <<world, user, call, workers, registered, heap, ready, polling, prev, noticed,
                     alerted, apart>>
  BY DEF Read, poolVars, alertVars
<1>2. SessionTypeOK /\ Ttl \in Nat
  BY DEF SessionInv, SessionAssumptions
<1>3. /\ store' \in [Sessions -> {Absent, Gone} \cup -1..MaxWorld]
      /\ idle' \in [Sessions -> 0..Ttl + 1]
      /\ \A r \in Sessions : store[r] \in {Absent, Gone} => store'[r] = store[r]
  BY <1>1, <1>2, GetIsTyped
<1>4. \A r \in Sessions : user[r] = "new" => store'[r] = store[r]
  BY <1>3 DEF SessionInv, UserIsSound
<1> QED
  BY <1>1, <1>2, <1>3, <1>4, ServiceKeepsInv DEF SessionTypeOK

(* A user who leaves, if the session can still be found. *)
LEMMA LeaveKeepsInv ==
    ASSUME SessionAssumptions, SessionInv, NEW s \in Sessions, LeaveSession(s)
    PROVE  SessionInv'
<1>1. /\ user[s] = "connected" /\ Get(s)
      /\ \/ user' = [user EXCEPT ![s] = "leaving"]
         \/ user' = user
      /\ UNCHANGED <<world, call, workers, registered, heap, ready, polling, prev, noticed, alerted,
                     apart>>
  BY DEF LeaveSession, poolVars, alertVars
<1>2. /\ SessionTypeOK /\ Ttl \in Nat
      /\ user \in [Sessions -> {"new", "connecting", "connected", "failed", "leaving", "stopped",
                                "left"}]
  BY DEF SessionInv, SessionAssumptions, SessionTypeOK
<1>3. /\ store' \in [Sessions -> {Absent, Gone} \cup -1..MaxWorld]
      /\ idle' \in [Sessions -> 0..Ttl + 1]
      /\ \A r \in Sessions : store[r] \in {Absent, Gone} => store'[r] = store[r]
  BY <1>1, <1>2, GetIsTyped
<1>4. \A r \in Sessions : user[r] = "new" => store'[r] = store[r]
  BY <1>3 DEF SessionInv, UserIsSound
<1>5. /\ user' \in [Sessions -> {"new", "connecting", "connected", "failed", "leaving", "stopped",
                                 "left"}]
      /\ \A r \in Sessions : \/ user'[r] = user[r]
                             \/ user[r] \notin {"new", "connecting"} /\ user'[r] = "leaving"
  BY <1>1, <1>2
<1> QED
  BY <1>1, <1>2, <1>3, <1>4, <1>5, ServiceKeepsInv

(* The end of a session: its worker is unregistered. *)
LEMMA StopWorkerKeepsInv ==
    ASSUME SessionAssumptions, SessionInv, NEW s \in Sessions, StopWorker(s)
    PROVE  SessionInv'
<1>1. /\ user[s] = "leaving" /\ user' = [user EXCEPT ![s] = "stopped"]
      /\ workers' = workers \ {s}
      /\ registered' = IF s \in workers THEN registered \ {s} ELSE registered
      /\ UNCHANGED <<world, call, store, idle, heap, ready, polling, prev, noticed, alerted, apart>>
  BY DEF StopWorker, alertVars
<1>2. /\ user \in [Sessions -> {"new", "connecting", "connected", "failed", "leaving", "stopped",
                                "left"}]
      /\ store \in [Sessions -> {Absent, Gone} \cup -1..MaxWorld] /\ idle \in [Sessions -> 0..Ttl + 1]
  BY DEF SessionInv, SessionTypeOK
<1>3. /\ user' \in [Sessions -> {"new", "connecting", "connected", "failed", "leaving", "stopped",
                                 "left"}]
      /\ user'[s] = "stopped" /\ \A r \in Sessions \ {s} : user'[r] = user[r]
  BY <1>1, <1>2
<1>4. registered' \subseteq registered /\ \A r \in Sessions \ {s} : r \in registered' <=> r \in registered
  BY <1>1
<1> QED
  BY <1>1, <1>2, <1>3, <1>4, ServiceKeepsInv

(* Its snapshot goes last. *)
LEMMA DestroyKeepsInv ==
    ASSUME SessionAssumptions, SessionInv, NEW s \in Sessions, Destroy(s)
    PROVE  SessionInv'
<1>1. /\ user[s] = "stopped" /\ user' = [user EXCEPT ![s] = "left"]
      /\ store' = [store EXCEPT ![s] = Gone]
      /\ UNCHANGED <<world, call, idle, workers, registered, heap, ready, polling, prev, noticed,
                     alerted, apart>>
  BY DEF Destroy, poolVars, alertVars
<1>2. /\ user \in [Sessions -> {"new", "connecting", "connected", "failed", "leaving", "stopped",
                                "left"}]
      /\ store \in [Sessions -> {Absent, Gone} \cup -1..MaxWorld] /\ idle \in [Sessions -> 0..Ttl + 1]
  BY DEF SessionInv, SessionTypeOK
<1>3. /\ user' \in [Sessions -> {"new", "connecting", "connected", "failed", "leaving", "stopped",
                                 "left"}]
      /\ user'[s] = "left" /\ \A r \in Sessions \ {s} : user'[r] = user[r]
      /\ store' \in [Sessions -> {Absent, Gone} \cup -1..MaxWorld]
      /\ \A r \in Sessions \ {s} : store'[r] = store[r]
  BY <1>1, <1>2
<1> QED
  BY <1>1, <1>2, <1>3, ServiceKeepsInv

(* What has expired is removed; nothing of it is left to a user who is new. *)
LEMMA CleanupKeepsInv ==
    ASSUME SessionAssumptions, SessionInv, Cleanup
    PROVE  SessionInv'
<1>1. /\ store' = [s \in Sessions |-> IF Stored(s) /\ Expired(s) THEN Gone ELSE store[s]]
      /\ UNCHANGED <<world, user, call, idle, workers, registered, heap, ready, polling, prev,
                     noticed, alerted, apart>>
  BY DEF Cleanup, poolVars, alertVars
<1>2. /\ user \in [Sessions -> {"new", "connecting", "connected", "failed", "leaving", "stopped",
                                "left"}]
      /\ store \in [Sessions -> {Absent, Gone} \cup -1..MaxWorld] /\ idle \in [Sessions -> 0..Ttl + 1]
  BY DEF SessionInv, SessionTypeOK
<1>3. store' \in [Sessions -> {Absent, Gone} \cup -1..MaxWorld]
  BY <1>1, <1>2
<1>4. \A s \in Sessions : user[s] = "new" => store'[s] = store[s]
  BY <1>1 DEF Stored, SessionInv, UserIsSound
<1> QED
  BY <1>1, <1>2, <1>3, <1>4, ServiceKeepsInv

(* Sessions grow idle. *)
LEMMA SessionTickKeepsInv ==
    ASSUME SessionAssumptions, SessionInv, SessionTick
    PROVE  SessionInv'
<1>1. /\ idle' = [s \in Sessions |-> IF Stored(s) /\ ~Expired(s) THEN idle[s] + 1 ELSE idle[s]]
      /\ UNCHANGED <<world, user, call, store, workers, registered, heap, ready, polling, prev,
                     noticed, alerted, apart>>
  BY DEF SessionTick, poolVars, alertVars
<1>2. /\ user \in [Sessions -> {"new", "connecting", "connected", "failed", "leaving", "stopped",
                                "left"}]
      /\ store \in [Sessions -> {Absent, Gone} \cup -1..MaxWorld] /\ idle \in [Sessions -> 0..Ttl + 1]
      /\ Ttl \in Nat
  BY DEF SessionInv, SessionTypeOK, SessionAssumptions
<1>3. idle' \in [Sessions -> 0..Ttl + 1]
  BY <1>1, <1>2 DEF Expired
<1> QED
  BY <1>1, <1>2, <1>3, ServiceKeepsInv

(* The world only moves on. *)
LEMMA WorldKeepsInv ==
    ASSUME SessionAssumptions, SessionInv, WorldMoves
    PROVE  SessionInv'
<1>1. /\ world < MaxWorld /\ world' = world + 1
      /\ UNCHANGED <<user, call, store, idle, workers, registered, heap, ready, polling, prev,
                     noticed, alerted, apart>>
  BY DEF WorldMoves, poolVars, alertVars
<1>2. world \in 0..MaxWorld /\ MaxWorld \in Nat /\ prev \in [Sessions -> -1..MaxWorld]
  BY DEF SessionInv, SessionTypeOK, SessionAssumptions
<1>3. SessionTypeOK'
  BY <1>1, <1>2 DEF SessionInv, SessionTypeOK
<1>4. FetchesAreSound'
  BY <1>1, <1>2 DEF SessionInv, FetchesAreSound
<1>5. \A s \in Sessions : AtOnePlace(s)' /\ InReady(s)' = InReady(s) /\ InPolls(s)' = InPolls(s)
  BY <1>1, PoolUntouched
<1>6. \A s \in Sessions : UserIsSound(s)'
  BY <1>1, <1>5, UserKept DEF SessionInv, UserIsSound
<1>7. \A s \in Sessions : apart'[s] => EventsInOrder(s)'
  BY <1>1, <1>5, OrderKept DEF SessionInv
<1> QED
  BY <1>3, <1>4, <1>5, <1>6, <1>7 DEF SessionInv

(* At first nobody is connected. *)
LEMMA SessionInitHasInv ==
    ASSUME SessionAssumptions, SessionInit
    PROVE  SessionInv
<1>1. Nobody \notin Sessions /\ Ttl \in Nat /\ MaxWorld \in Nat
  BY DEF SessionAssumptions
<1>2. SessionTypeOK
  <2>1. Free \in [pc : {"free", "fetch", "fetched", "alerted", "done"}, sid : Sessions \cup {Nobody},
                  seen : -1..MaxWorld]
    BY <1>1 DEF Free
  <2>2. <<>> \in Seq(Sessions) /\ <<>> \in Seq(0..MaxWorld)
    OBVIOUS
  <2>3. alerted \in [Sessions -> Seq(0..MaxWorld)] /\ ready \in Seq(Sessions)
    BY <2>2 DEF SessionInit
  <2>4. polling \in [PoolThreads -> [pc : {"free", "fetch", "fetched", "alerted", "done"},
                                     sid : Sessions \cup {Nobody}, seen : -1..MaxWorld]]
    BY <2>1 DEF SessionInit
  <2> QED
    BY <1>1, <2>3, <2>4 DEF SessionInit, SessionTypeOK
<1>3. FetchesAreSound
  BY <1>1 DEF SessionInit, FetchesAreSound, Free
<1>4. \A s \in Sessions : InReady(s) = {} /\ InPolls(s) = {}
  BY <1>1 DEF SessionInit, InReady, InPolls, Free
<1>5. \A s \in Sessions : AtOnePlace(s) /\ UserIsSound(s)
  BY <1>4 DEF SessionInit, AtOnePlace, UserIsSound
<1>6. \A s \in Sessions : EventsInOrder(s)
  BY <1>4 DEF SessionInit, EventsInOrder, Increasing
<1> QED
  BY <1>2, <1>3, <1>5, <1>6 DEF SessionInv

(* Every step of the program keeps the invariant. *)
LEMMA SessionNextKeepsInv ==
    ASSUME SessionAssumptions, SessionInv, [SessionNext]_sessionVars
    PROVE  SessionInv'
<1>1. CASE SessionNext
  BY <1>1, TakeKeepsInv, PoolFetchKeepsInv, PoolFetchFailsKeepsInv, PoolDispatchKeepsInv,
     PoolPublishKeepsInv, RescheduleKeepsInv, CallFetchKeepsInv, CallFailsKeepsInv,
     CallDispatchKeepsInv, CallPublishKeepsInv, ScheduleKeepsInv, ConnectKeepsInv, ReadKeepsInv,
     LeaveKeepsInv, StopWorkerKeepsInv, DestroyKeepsInv, CleanupKeepsInv, WorldKeepsInv,
     SessionTickKeepsInv DEF SessionNext, PoolStep, CallStep
<1>2. CASE UNCHANGED sessionVars
  <2>1. UNCHANGED <<world, user, call, store, idle, workers, registered, heap, ready, polling, prev,
                    noticed, alerted, apart>>
    BY <1>2 DEF sessionVars
  <2> QED
    BY <2>1, ServiceKeepsInv DEF SessionInv, SessionTypeOK
<1> QED
  BY <1>1, <1>2

(* A session is at one place, its user's calls and its registration go together, and *)
(* what is dispatched about it comes in order.                                       *)
THEOREM SessionInvariance ==
    ASSUME SessionAssumptions
    PROVE  SessionSpec => []SessionInv
<1>1. SessionInit => SessionInv
  BY SessionInitHasInv
<1>2. SessionInv /\ [SessionNext]_sessionVars => SessionInv'
  BY SessionNextKeepsInv
<1> QED
  BY <1>1, <1>2, PTL DEF SessionSpec

(* The types of the sessions, of the pool and of the alerts. *)
THEOREM SessionTypes ==
    ASSUME SessionAssumptions
    PROVE  SessionSpec => []SessionTypeOK
<1>1. SessionInv => SessionTypeOK
  BY DEF SessionInv
<1> QED
  BY <1>1, SessionInvariance, PTL

(* A session that is at one place is counted once, and a registered one is at a place. *)
LEMMA PlacesAreTokens ==
    ASSUME NEW s, heap[s] \in Nat, AtOnePlace(s)
    PROVE  Tokens(s) <= 1 /\ (s \in registered => Tokens(s) = 1)
<1>1. PICK n \in Nat : n = heap[s]
  OBVIOUS
<1>2. PICK a : a = Cardinality(InReady(s))
  OBVIOUS
<1>3. PICK b : b = Cardinality(InPolls(s))
  OBVIOUS
<1>4. Tokens(s) = n + a + b
  BY <1>1, <1>2, <1>3 DEF Tokens, InReady, InPolls
<1>5. a = IF InReady(s) = {} THEN 0 ELSE 1
  <2>1. CASE InReady(s) = {}
    BY <1>2, <2>1, FS_EmptySet
  <2>2. CASE InReady(s) # {}
    <3>1. PICK i : InReady(s) = {i}
      BY <2>2 DEF AtOnePlace
    <3> QED
      BY <1>2, <2>2, <3>1, FS_Singleton
  <2> QED
    BY <2>1, <2>2
<1>6. b = IF InPolls(s) = {} THEN 0 ELSE 1
  <2>1. CASE InPolls(s) = {}
    BY <1>3, <2>1, FS_EmptySet
  <2>2. CASE InPolls(s) # {}
    <3>1. PICK t : InPolls(s) = {t}
      BY <2>2 DEF AtOnePlace
    <3> QED
      BY <1>3, <2>2, <3>1, FS_Singleton
  <2> QED
    BY <2>1, <2>2
<1> QED
  BY <1>1, <1>4, <1>5, <1>6 DEF AtOnePlace

(* No step brings a removed session back. *)
LEMMA GoneStep ==
    ASSUME SessionAssumptions, SessionInv, [SessionNext]_sessionVars, NEW s \in Sessions,
           store[s] = Gone
    PROVE  store'[s] = Gone
<1>1. SessionTypeOK /\ Ttl \in Nat
  BY DEF SessionInv, SessionAssumptions
<1>2. CASE store' = store
  BY <1>2
<1>3. CASE \E t \in PoolThreads : PoolPublish(t)
  <2>1. PICK t \in PoolThreads : PoolPublish(t)
    BY <1>3
  <2>2. PICK r \in Sessions : r = polling[t].sid
    BY <2>1, ThreadPolls DEF PoolPublish
  <2>3. PICK version \in -1..MaxWorld : version = polling[t].seen
    BY <2>1, ThreadPolls DEF PoolPublish
  <2> QED
    BY <1>1, <2>1, <2>2, <2>3, PublishIsTyped DEF PoolPublish
<1>4. ASSUME NEW r \in Sessions, CallPublish(r)
      PROVE  store'[s] = Gone
  <2>1. PICK version \in -1..MaxWorld : version = call[r].seen
    BY <1>1 DEF SessionTypeOK
  <2> QED
    BY <1>1, <1>4, <2>1, PublishIsTyped DEF CallPublish
<1>5. ASSUME NEW r \in Sessions, Read(r) \/ LeaveSession(r)
      PROVE  store'[s] = Gone
  <2>1. Get(r)
    BY <1>5 DEF Read, LeaveSession
  <2> QED
    BY <1>1, <2>1, GetIsTyped
<1>6. ASSUME NEW r \in Sessions, ConnectSession(r)
      PROVE  store'[s] = Gone
  <2>1. store[r] = Absent /\ Absent # Gone
    BY <1>6 DEF ConnectSession, SessionInv, UserIsSound, Absent, Gone
  <2> QED
    BY <1>1, <1>6, <2>1 DEF ConnectSession, SessionTypeOK
<1>7. ASSUME NEW r \in Sessions, Destroy(r)
      PROVE  store'[s] = Gone
  BY <1>1, <1>7 DEF Destroy, SessionTypeOK
<1>8. CASE Cleanup
  BY <1>8 DEF Cleanup
<1> QED
  BY <1>2, <1>3, <1>4, <1>5, <1>6, <1>7, <1>8
  DEF SessionNext, PoolStep, CallStep, sessionVars, Take, PoolFetch, PoolFetchFails, PoolDispatch,
      Reschedule, CallFetch, CallFails, CallDispatch, Schedule, StopWorker, WorldMoves, SessionTick

(* Who can be found is polled, by one thread at a time, and alerted once, for any *)
(* number of sessions and threads.                                                *)
THEOREM SessionsSafe ==
    ASSUME SessionAssumptions
    PROVE  SessionSpec => SessionsAreSafe
<1>1. SessionInv => OnePollPerSession /\ FoundMeansPolled /\ EventsFireOnceApart
  <2> SUFFICES ASSUME SessionInv
               PROVE  OnePollPerSession /\ FoundMeansPolled /\ EventsFireOnceApart
    OBVIOUS
  <2>1. OnePollPerSession
    BY PlacesAreTokens DEF SessionInv, SessionTypeOK, OnePollPerSession
  <2>2. FoundMeansPolled
    BY DEF SessionInv, UserIsSound, FoundMeansPolled
  <2>3. EventsFireOnceApart
    BY DEF SessionInv, EventsInOrder, EventsFireOnceApart
  <2> QED
    BY <2>1, <2>2, <2>3
<1>2. SessionInv /\ [SessionNext]_sessionVars =>
        [\A s \in Sessions : store[s] = Gone => store'[s] = Gone]_sessionVars
  BY GoneStep
<1> QED
  BY <1>1, <1>2, SessionInvariance, PTL DEF SessionSpec, SessionsAreSafe, GoneStaysGone
=============================================================================
