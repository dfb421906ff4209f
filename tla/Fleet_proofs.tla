----------------------------- MODULE Fleet_proofs -----------------------------
(***************************************************************************)
(* Proofs about the fleet: the samples and the snapshot cache of a device, *)
(* for any number of writers, keys and samples, and the identity of its    *)
(* rows, for any number of rows, miners, addresses and requests.           *)
(***************************************************************************)
EXTENDS FleetIdentity, FleetTelemetry, FiniteSetTheorems, TLAPS

-----------------------------------------------------------------------------
(***************************************************************************)
(* The last sample that measured                                           *)
(***************************************************************************)
HasLatest(series) ==
    Measured(series) # {} => \E i \in Measured(series) : \A j \in Measured(series) : j <= i

(* Where there is a last measurement, Latest is its number. *)
LEMMA LatestIsLast ==
    ASSUME NEW S, NEW series \in Seq(S), HasLatest(series)
    PROVE  /\ Latest(series) \in 0..Len(series)
           /\ Measured(series) = {} => Latest(series) = 0
           /\ Measured(series) # {} =>
                /\ Latest(series) \in Measured(series)
                /\ \A j \in Measured(series) : j <= Latest(series)
<1>1. CASE Measured(series) = {}
  BY <1>1 DEF Latest
<1>2. CASE Measured(series) # {}
  <2>1. Latest(series) \in Measured(series) /\ \A j \in Measured(series) : j <= Latest(series)
    BY <1>2, Zenon DEF Latest, HasLatest
  <2>2. Measured(series) \subseteq 0..Len(series)
    BY DEF Measured
  <2> QED
    BY <1>2, <2>1, <2>2
<1> QED
  BY <1>1, <1>2

(* A sample that is added is the last, or measures nothing and changes nothing. *)
LEMMA LatestAfter ==
    ASSUME NEW S, NEW series \in Seq(S), HasLatest(series), NEW sample \in S
    PROVE  /\ HasLatest(Append(series, sample))
           /\ Latest(series) <= Latest(Append(series, sample))
<1> DEFINE more == Append(series, sample)
           n == Len(series)
<1>1. /\ more \in Seq(S) /\ n \in Nat /\ DOMAIN series = 1..n /\ DOMAIN more = 1..(n + 1)
      /\ more[n + 1] = sample /\ \A i \in 1..n : more[i] = series[i]
  OBVIOUS
<1>2. /\ Latest(series) \in 0..n
      /\ Measured(series) # {} => Latest(series) \in Measured(series)
      /\ Measured(series) = {} => Latest(series) = 0
  BY LatestIsLast
<1> HIDE DEF more, n
<1>3. CASE sample.report # Nothing
  <2>1. n + 1 \in Measured(more) /\ \A j \in Measured(more) : j <= n + 1
    BY <1>1, <1>3 DEF Measured
  <2>2. HasLatest(more)
    BY <2>1 DEF HasLatest
  <2>3. Latest(more) \in Measured(more) /\ n + 1 <= Latest(more)
    BY <1>1, <2>1, <2>2, LatestIsLast
  <2>4. Latest(more) \in Int
    BY <1>1, <2>3 DEF Measured
  <2> QED
    BY <1>1, <1>2, <2>2, <2>3, <2>4 DEF more
<1>4. CASE sample.report = Nothing
  <2>1. Measured(more) = Measured(series)
    BY <1>1, <1>4 DEF Measured
  <2>2. HasLatest(more) /\ Latest(more) = Latest(series)
    BY <2>1 DEF HasLatest, Latest
  <2> QED
    BY <1>2, <2>2 DEF more
<1> QED
  BY <1>3, <1>4

(* The status that is derived from samples is one of a device. *)
LEMMA DerivedIsStatus ==
    ASSUME NEW K, NEW series \in Seq([key : K, report : Reports]), HasLatest(series)
    PROVE  Derived(series) \in DeviceStatuses
<1> DEFINE S == [key : K, report : Reports]
<1>1. Measured(series) # {} => Latest(series) \in Measured(series)
  <2> HIDE DEF S
  <2>1. series \in Seq(S)
    BY DEF S
  <2> QED
    BY <2>1, LatestIsLast
<1>2. \A i \in DOMAIN series : series[i].report \in Reports
  <2>1. \A i \in DOMAIN series : series[i] \in S
    <3> HIDE DEF S
    <3>1. series \in Seq(S)
      BY DEF S
    <3> QED
      BY <3>1
  <2> QED
    BY <2>1
<1> QED
  BY <1>1, <1>2 DEF Derived, Measured, DeviceStatuses

-----------------------------------------------------------------------------
(***************************************************************************)
(* The inductive invariant                                                 *)
(***************************************************************************)
(* Who has read is who holds the lock, and nobody else. *)
LockIsHeld == \A w \in Writers : writer[w].pc = "read" <=> lock = w

(* What a writer is about to publish is no older than what the cache shows, and *)
(* both are of samples that were stored.                                        *)
SampleIsNewer ==
    /\ cache.sample <= Latest(log)
    /\ \A w \in Writers :
         writer[w].pc = "read" => cache.sample <= writer[w].sample /\ writer[w].sample <= Latest(log)

Committed == \E w \in Writers : writer[w].pc = "committed"

(* A status that is not published yet has a writer that will read it. *)
StatusIsUnderWay ==
    ~device.removed /\ ~quiet =>
        /\ ~Published \/ cache.status = device.status
        /\ \A w \in Writers :
             writer[w].pc = "read" => Committed \/ writer[w].status = device.status

TelemetryInv ==
    /\ TelemetryTypeOK /\ HasLatest(log) /\ OneSamplePerKey
    /\ LockIsHeld /\ SampleIsNewer /\ StatusIsUnderWay

(* Nothing is stored, published or removed yet. *)
LEMMA TelemetryInitInv ==
    ASSUME TelemetryAssumptions, TelemetryInit
    PROVE  TelemetryInv
<1>1. /\ log = <<>> /\ Measured(log) = {} /\ Latest(log) = 0 /\ lock = Nobody
      /\ \A w \in Writers : writer[w].pc = "none"
      /\ device.status = cache.status /\ cache.sample = 0
  BY DEF TelemetryInit, Measured, Latest, Settled
<1>2. TelemetryTypeOK
  <2>1. log \in Seq([key : SampleKeys \cup {Unkeyed}, report : Reports]) /\ Len(log) = 0
    BY DEF TelemetryInit
  <2>2. "OFFLINE" \in DeviceStatuses /\ 0 \in 0..MaxSamples
    BY DEF TelemetryAssumptions, DeviceStatuses
  <2>3. Settled \in [pc : {"none", "committed", "read"}, sample : 0..MaxSamples, status : DeviceStatuses]
    BY <2>2 DEF Settled
  <2>4. writer \in [Writers -> [pc : {"none", "committed", "read"}, sample : 0..MaxSamples,
                                status : DeviceStatuses]]
    BY <2>3 DEF TelemetryInit
  <2>5. /\ device \in [status : DeviceStatuses, removed : BOOLEAN]
        /\ cache \in [status : DeviceStatuses, sample : 0..MaxSamples]
    BY <2>2 DEF TelemetryInit
  <2>6. Len(log) <= MaxSamples
    BY <2>1 DEF TelemetryAssumptions
  <2> QED
    BY <2>1, <2>4, <2>5, <2>6 DEF TelemetryInit, TelemetryTypeOK
<1>3. HasLatest(log) /\ OneSamplePerKey /\ LockIsHeld /\ SampleIsNewer /\ StatusIsUnderWay
  BY <1>1 DEF TelemetryAssumptions, HasLatest, OneSamplePerKey, LockIsHeld, SampleIsNewer, StatusIsUnderWay,
              Published, Committed
<1> QED
  BY <1>2, <1>3 DEF TelemetryInv

-----------------------------------------------------------------------------
(* A stored sample has a key of its own, and its writer has it to publish. *)
LEMMA StoreKeepsInv ==
    ASSUME TelemetryAssumptions, TelemetryInv, NEW w \in Writers,
           NEW key \in SampleKeys \cup {Unkeyed}, NEW report \in Reports,
           key # Unkeyed => \A i \in DOMAIN log : log[i].key # key,
           writer[w].pc = "none", StoreSample(w, key, report)
    PROVE  TelemetryInv' /\ CacheNeverGoesBack
<1> DEFINE S == [key : SampleKeys \cup {Unkeyed}, report : Reports]
           e == [key |-> key, report |-> report]
<1>1. /\ log' = Append(log, e) /\ Len(log) < MaxSamples
      /\ device' = [device EXCEPT !.status = Derived(log')]
      /\ writer' = [writer EXCEPT ![w].pc = "committed"]
      /\ UNCHANGED <<pushed, cache, lock>> /\ quiet' = FALSE
  BY DEF StoreSample
<1>2. /\ TelemetryTypeOK /\ HasLatest(log) /\ OneSamplePerKey
      /\ LockIsHeld /\ SampleIsNewer /\ StatusIsUnderWay
  BY DEF TelemetryInv
<1>3. e \in S /\ log \in Seq(S) /\ e.key = key
  BY <1>2 DEF TelemetryTypeOK
<1>4. HasLatest(log') /\ Latest(log) <= Latest(log') /\ log' \in Seq(S)
  <2> HIDE DEF S, e
  <2> QED
    BY <1>1, <1>2, <1>3, LatestAfter
<1>5. Latest(log) \in Int /\ Latest(log') \in Int
  <2> HIDE DEF S, e
  <2>1. Latest(log) \in 0..Len(log) /\ Latest(log') \in 0..Len(log')
    BY <1>2, <1>3, <1>4, LatestIsLast
  <2>2. Len(log) \in Nat /\ Len(log') \in Nat
    BY <1>3, <1>4
  <2> QED
    BY <2>1, <2>2
<1>6. Len(log') = Len(log) + 1 /\ Len(log) \in Nat /\ DOMAIN log = 1..Len(log)
      /\ DOMAIN log' = 1..(Len(log) + 1) /\ log'[Len(log) + 1].key = key
      /\ \A i \in 1..Len(log) : log'[i] = log[i]
  <2> HIDE DEF S
  <2> QED
    BY <1>1, <1>3
<1>7. Derived(log') \in DeviceStatuses
  BY <1>4, DerivedIsStatus
<1>8. TelemetryTypeOK'
  <2>1. log' \in Seq(S) /\ Len(log') <= MaxSamples
    BY <1>1, <1>4, <1>6 DEF TelemetryAssumptions
  <2>2. device' \in [status : DeviceStatuses, removed : BOOLEAN]
    BY <1>1, <1>2, <1>7 DEF TelemetryTypeOK
  <2>3. writer' \in [Writers -> [pc : {"none", "committed", "read"}, sample : 0..MaxSamples,
                                 status : DeviceStatuses]]
    BY <1>1, <1>2 DEF TelemetryTypeOK
  <2> QED
    BY <1>1, <1>2, <2>1, <2>2, <2>3 DEF TelemetryTypeOK
<1>9. OneSamplePerKey'
  <2> SUFFICES ASSUME NEW i \in DOMAIN log', NEW j \in DOMAIN log',
                      log'[i].key = log'[j].key, log'[i].key # Unkeyed
               PROVE  i = j
    BY DEF OneSamplePerKey
  <2>1. CASE i \in DOMAIN log /\ j \in DOMAIN log
    BY <1>2, <1>6, <2>1 DEF OneSamplePerKey
  <2>2. CASE i \notin DOMAIN log \/ j \notin DOMAIN log
    BY <1>6, <2>2
  <2> QED
    BY <2>1, <2>2
<1>10. /\ writer'[w].pc = "committed" /\ writer[w].pc = "none"
       /\ \A v \in Writers : v # w => writer'[v] = writer[v]
  BY <1>1, <1>2 DEF TelemetryTypeOK
<1>11. LockIsHeld'
  BY <1>1, <1>2, <1>10 DEF LockIsHeld
<1>12. SampleIsNewer' /\ CacheNeverGoesBack
  <2>1. cache.sample \in Int /\ \A v \in Writers : writer[v].sample \in Int
    BY <1>2 DEF TelemetryTypeOK
  <2>2. cache'.sample = cache.sample /\ cache.sample <= Latest(log')
    BY <1>1, <1>2, <1>4, <1>5, <2>1 DEF SampleIsNewer
  <2>3. ASSUME NEW v \in Writers, writer'[v].pc = "read"
        PROVE  cache'.sample <= writer'[v].sample /\ writer'[v].sample <= Latest(log')
    <3>1. v # w /\ writer'[v] = writer[v]
      BY <1>10, <2>3
    <3> QED
      BY <1>1, <1>2, <1>4, <1>5, <2>1, <2>3, <3>1 DEF SampleIsNewer
  <2> QED
    BY <2>1, <2>2, <2>3 DEF SampleIsNewer, CacheNeverGoesBack
<1>13. StatusIsUnderWay'
  BY <1>10 DEF StatusIsUnderWay, Published, Committed
<1> QED
  BY <1>4, <1>8, <1>9, <1>11, <1>12, <1>13 DEF TelemetryInv

(* A paused device has a writer that will publish it. *)
LEMMA PauseKeepsInv ==
    ASSUME TelemetryInv, NEW w \in Writers, PauseDevice(w)
    PROVE  TelemetryInv' /\ CacheNeverGoesBack
<1>1. /\ device' = [device EXCEPT !.status = "PAUSED"]
      /\ writer' = [writer EXCEPT ![w].pc = "committed"] /\ writer[w].pc = "none"
      /\ UNCHANGED <<log, pushed, cache, lock>> /\ quiet' = FALSE
  BY DEF PauseDevice
<1>2. TelemetryTypeOK /\ LockIsHeld /\ SampleIsNewer
  BY DEF TelemetryInv
<1>3. /\ writer'[w].pc = "committed"
      /\ \A v \in Writers : v # w => writer'[v] = writer[v]
  BY <1>1, <1>2 DEF TelemetryTypeOK
<1>4. TelemetryTypeOK'
  <2>1. device' \in [status : DeviceStatuses, removed : BOOLEAN]
    BY <1>1, <1>2 DEF TelemetryTypeOK, DeviceStatuses
  <2>2. writer' \in [Writers -> [pc : {"none", "committed", "read"}, sample : 0..MaxSamples,
                                 status : DeviceStatuses]]
    BY <1>1, <1>2 DEF TelemetryTypeOK
  <2> QED
    BY <1>1, <1>2, <2>1, <2>2 DEF TelemetryTypeOK
<1>5. HasLatest(log)' /\ OneSamplePerKey'
  BY <1>1 DEF TelemetryInv, OneSamplePerKey, HasLatest, Measured
<1>6. LockIsHeld'
  BY <1>1, <1>2, <1>3 DEF LockIsHeld
<1>7. SampleIsNewer'
  <2>1. Latest(log') = Latest(log) /\ cache' = cache
    BY <1>1
  <2>2. \A v \in Writers : writer'[v].pc = "read" => writer'[v] = writer[v]
    BY <1>3
  <2> QED
    BY <1>2, <2>1, <2>2 DEF SampleIsNewer
<1>8. StatusIsUnderWay'
  BY <1>3 DEF StatusIsUnderWay, Published, Committed
<1>9. CacheNeverGoesBack
  BY <1>1, <1>2 DEF CacheNeverGoesBack, TelemetryTypeOK
<1> QED
  BY <1>4, <1>5, <1>6, <1>7, <1>8, <1>9 DEF TelemetryInv

(* What writes the row alone says so, or removes it. *)
LEMMA RowKeepsInv ==
    ASSUME TelemetryInv, PollUnanswered \/ RemoveDevice
    PROVE  TelemetryInv' /\ CacheNeverGoesBack
<1>1. /\ UNCHANGED <<log, pushed, cache, writer, lock>>
      /\ \/ device' = [device EXCEPT !.status = "OFFLINE"]
         \/ device' = [status |-> "OFFLINE", removed |-> TRUE]
      /\ quiet' \in BOOLEAN
      /\ device'.removed \/ quiet' \/ (~device.removed /\ ~quiet /\ device'.status = device.status)
  <2>1. device \in [status : DeviceStatuses, removed : BOOLEAN] /\ quiet \in BOOLEAN
    BY DEF TelemetryInv, TelemetryTypeOK
  <2>2. CASE PollUnanswered
    <3>1. device'.status = "OFFLINE" /\ ~device.removed
      BY <2>1, <2>2 DEF PollUnanswered
    <3> QED
      BY <2>1, <2>2, <3>1 DEF PollUnanswered
  <2>3. CASE RemoveDevice
    BY <2>1, <2>3 DEF RemoveDevice
  <2> QED
    BY <2>2, <2>3
<1>2. TelemetryTypeOK'
  <2>1. device \in [status : DeviceStatuses, removed : BOOLEAN] /\ "OFFLINE" \in DeviceStatuses
    BY DEF TelemetryInv, TelemetryTypeOK, DeviceStatuses
  <2>2. device' \in [status : DeviceStatuses, removed : BOOLEAN]
    <3>1. CASE device' = [device EXCEPT !.status = "OFFLINE"]
      BY <2>1, <3>1
    <3>2. CASE device' = [status |-> "OFFLINE", removed |-> TRUE]
      BY <2>1, <3>2
    <3> QED
      BY <1>1, <3>1, <3>2
  <2> QED
    BY <1>1, <2>2 DEF TelemetryInv, TelemetryTypeOK
<1>3. HasLatest(log)' /\ OneSamplePerKey' /\ LockIsHeld' /\ SampleIsNewer'
  BY <1>1 DEF TelemetryInv, OneSamplePerKey, HasLatest, Measured, LockIsHeld, SampleIsNewer, Latest
<1>4. StatusIsUnderWay'
  BY <1>1 DEF TelemetryInv, StatusIsUnderWay, Published, Committed
<1>5. CacheNeverGoesBack
  BY <1>1 DEF CacheNeverGoesBack, TelemetryInv, TelemetryTypeOK
<1> QED
  BY <1>2, <1>3, <1>4, <1>5 DEF TelemetryInv

(* What a writer reads under the lock is all that was committed. *)
LEMMA ReadKeepsInv ==
    ASSUME TelemetryAssumptions, TelemetryInv, NEW w \in Writers, ReadCommitted(w)
    PROVE  TelemetryInv' /\ CacheNeverGoesBack
<1>1. /\ writer[w].pc = "committed" /\ lock = Nobody
      /\ UNCHANGED <<device, log, pushed, cache, quiet>>
  BY DEF ReadCommitted
<1>2. /\ TelemetryTypeOK /\ HasLatest(log) /\ OneSamplePerKey
      /\ LockIsHeld /\ SampleIsNewer /\ StatusIsUnderWay
  BY DEF TelemetryInv
<1>3. PICK read : read = [pc |-> "read", sample |-> Latest(log), status |-> device.status]
  OBVIOUS
<1>4. \/ device.removed /\ writer' = [writer EXCEPT ![w] = Settled] /\ lock' = lock
      \/ ~device.removed /\ writer' = [writer EXCEPT ![w] = read] /\ lock' = w
  BY <1>3 DEF ReadCommitted
<1>5. Latest(log) \in 0..MaxSamples /\ cache.sample \in 0..MaxSamples
  <2>1. PICK S : log \in Seq(S)
    BY <1>2 DEF TelemetryTypeOK
  <2>2. Latest(log) \in 0..Len(log) /\ Len(log) \in Nat
    BY <1>2, <2>1, LatestIsLast
  <2>3. Len(log) <= MaxSamples /\ cache.sample \in 0..MaxSamples
    BY <1>2 DEF TelemetryTypeOK
  <2> QED
    BY <2>2, <2>3 DEF TelemetryAssumptions
<1>6. TelemetryTypeOK'
  <2>1. /\ Settled \in [pc : {"none", "committed", "read"}, sample : 0..MaxSamples, status : DeviceStatuses]
        /\ read \in [pc : {"none", "committed", "read"}, sample : 0..MaxSamples, status : DeviceStatuses]
    BY <1>2, <1>3, <1>5 DEF TelemetryTypeOK, Settled, DeviceStatuses, TelemetryAssumptions
  <2>2. writer' \in [Writers -> [pc : {"none", "committed", "read"}, sample : 0..MaxSamples,
                                 status : DeviceStatuses]]
    BY <1>2, <1>4, <2>1 DEF TelemetryTypeOK
  <2>3. lock' \in Writers \cup {Nobody}
    BY <1>1, <1>4
  <2> QED
    BY <1>1, <1>2, <2>2, <2>3 DEF TelemetryTypeOK
<1>7. /\ \A v \in Writers : v # w => writer'[v] = writer[v] /\ writer[v].pc # "read"
      /\ device.removed => writer'[w] = Settled
      /\ ~device.removed => writer'[w] = read
  BY <1>1, <1>2, <1>4 DEF LockIsHeld, TelemetryTypeOK, TelemetryAssumptions
<1>8. Settled.pc = "none" /\ read.pc = "read" /\ read.sample = Latest(log) /\ read.status = device.status
  BY <1>3 DEF Settled
<1>9. HasLatest(log)' /\ OneSamplePerKey' /\ CacheNeverGoesBack
  BY <1>1, <1>2, <1>5 DEF OneSamplePerKey, HasLatest, Measured, CacheNeverGoesBack
<1>10. LockIsHeld'
  <2>1. w # Nobody
    BY DEF TelemetryAssumptions
  <2>2. CASE device.removed
    <3>1. lock' = Nobody /\ writer'[w].pc = "none"
      BY <1>1, <1>4, <1>7, <1>8, <2>2
    <3> QED
      BY <1>7, <3>1 DEF LockIsHeld, TelemetryAssumptions
  <2>3. CASE ~device.removed
    <3>1. lock' = w /\ writer'[w].pc = "read"
      BY <1>4, <1>7, <1>8, <2>3
    <3> QED
      BY <1>7, <3>1 DEF LockIsHeld
  <2> QED
    BY <2>2, <2>3
<1>11. SampleIsNewer'
  <2>1. Latest(log') = Latest(log) /\ cache' = cache /\ cache.sample <= Latest(log)
    BY <1>1, <1>2 DEF SampleIsNewer
  <2>2. ASSUME NEW v \in Writers, writer'[v].pc = "read"
        PROVE  writer'[v].sample = Latest(log)
    BY <1>7, <1>8, <2>2
  <2> QED
    BY <1>5, <2>1, <2>2 DEF SampleIsNewer
<1>12. StatusIsUnderWay'
  <2>1. CASE device.removed
    BY <1>1, <2>1 DEF StatusIsUnderWay
  <2>2. CASE ~device.removed
    BY <1>1, <1>7, <1>8, <2>2 DEF StatusIsUnderWay, Published
  <2> QED
    BY <2>1, <2>2
<1> QED
  BY <1>6, <1>9, <1>10, <1>11, <1>12 DEF TelemetryInv

(* The snapshot that is cached is the one that was read under the lock. *)
LEMMA CacheKeepsInv ==
    ASSUME TelemetryAssumptions, TelemetryInv, NEW w \in Writers, CacheSnapshot(w)
    PROVE  TelemetryInv' /\ CacheNeverGoesBack
<1>1. /\ writer[w].pc = "read" /\ lock' = Nobody
      /\ UNCHANGED <<device, log, pushed, quiet>>
      /\ writer' = [writer EXCEPT ![w] = Settled]
  BY DEF CacheSnapshot
<1>2. /\ cache'.status = writer[w].status
      /\ cache'.sample = IF writer[w].sample = 0 THEN cache.sample ELSE writer[w].sample
  BY DEF CacheSnapshot
<1>3. /\ TelemetryTypeOK /\ HasLatest(log) /\ OneSamplePerKey
      /\ LockIsHeld /\ SampleIsNewer /\ StatusIsUnderWay
  BY DEF TelemetryInv
<1>4. TelemetryTypeOK'
  <2>1. Settled \in [pc : {"none", "committed", "read"}, sample : 0..MaxSamples, status : DeviceStatuses]
    BY DEF Settled, DeviceStatuses, TelemetryAssumptions
  <2>2. writer' \in [Writers -> [pc : {"none", "committed", "read"}, sample : 0..MaxSamples,
                                 status : DeviceStatuses]]
    BY <1>1, <1>3, <2>1 DEF TelemetryTypeOK
  <2>3. cache' \in [status : DeviceStatuses, sample : 0..MaxSamples]
    BY <1>3 DEF CacheSnapshot, TelemetryTypeOK
  <2> QED
    BY <1>1, <1>3, <2>2, <2>3 DEF TelemetryTypeOK
<1>5. /\ \A v \in Writers : v # w => writer'[v] = writer[v] /\ writer[v].pc # "read"
      /\ writer'[w].pc = "none"
  BY <1>1, <1>3 DEF LockIsHeld, TelemetryTypeOK, Settled
<1>6. HasLatest(log)' /\ OneSamplePerKey'
  BY <1>1, <1>3 DEF OneSamplePerKey, HasLatest, Measured
<1>7. LockIsHeld'
  BY <1>1, <1>5 DEF LockIsHeld, TelemetryAssumptions
<1>8. Latest(log') = Latest(log) /\ cache.sample <= writer[w].sample /\ writer[w].sample <= Latest(log)
  BY <1>1, <1>3 DEF SampleIsNewer
<1>9. cache.sample \in Nat /\ writer[w].sample \in Nat
  BY <1>3 DEF TelemetryTypeOK
<1>10. cache'.sample <= writer[w].sample /\ cache.sample <= cache'.sample
  BY <1>2, <1>8, <1>9
<1>11. SampleIsNewer'
  <2>1. Latest(log) \in Int /\ cache'.sample \in Int
    <3>1. PICK S : log \in Seq(S)
      BY <1>3 DEF TelemetryTypeOK
    <3>2. Latest(log) \in 0..Len(log) /\ Len(log) \in Nat
      BY <1>3, <3>1, LatestIsLast
    <3> QED
      BY <1>2, <1>9, <3>2
  <2>2. cache'.sample <= Latest(log')
    BY <1>8, <1>9, <1>10, <2>1
  <2>3. \A v \in Writers : writer'[v].pc # "read"
    BY <1>5
  <2> QED
    BY <2>2, <2>3 DEF SampleIsNewer
<1>12. StatusIsUnderWay'
  <2> SUFFICES ASSUME ~device.removed, ~quiet
               PROVE  ~Published' \/ cache'.status = device'.status
    BY <1>1, <1>5 DEF StatusIsUnderWay
  <2>1. Committed \/ writer[w].status = device.status
    BY <1>1, <1>3 DEF StatusIsUnderWay
  <2>2. CASE Committed
    <3>1. PICK v \in Writers : writer[v].pc = "committed"
      BY <2>2 DEF Committed
    <3>2. v # w /\ writer'[v] = writer[v]
      BY <1>1, <1>5, <3>1
    <3> QED
      BY <3>1, <3>2 DEF Published
  <2>3. CASE writer[w].status = device.status
    BY <1>1, <1>2, <2>3
  <2> QED
    BY <2>1, <2>2, <2>3
<1> QED
  BY <1>4, <1>6, <1>7, <1>10, <1>11, <1>12 DEF TelemetryInv, CacheNeverGoesBack

(* The cache is seeded with the row and its last measurement. *)
LEMMA SeedKeepsInv ==
    ASSUME TelemetryAssumptions, TelemetryInv, SeedCache
    PROVE  TelemetryInv' /\ CacheNeverGoesBack
<1>1. /\ \A v \in Writers : writer'[v].pc = "none"
      /\ lock' = Nobody /\ quiet' = FALSE /\ UNCHANGED <<device, log, pushed>>
      /\ writer' = [v \in Writers |-> Settled]
  BY DEF SeedCache, Settled
<1>2. /\ device.removed => cache'.sample = 0
      /\ ~device.removed => cache'.status = device.status /\ cache'.sample = Latest(log)
  BY DEF SeedCache
<1>3. TelemetryTypeOK /\ HasLatest(log) /\ OneSamplePerKey /\ SampleIsNewer
  BY DEF TelemetryInv
<1>4. Latest(log) \in 0..MaxSamples
  <2>1. PICK S : log \in Seq(S)
    BY <1>3 DEF TelemetryTypeOK
  <2>2. Latest(log) \in 0..Len(log) /\ Len(log) \in Nat /\ Len(log) <= MaxSamples
    BY <1>3, <2>1, LatestIsLast DEF TelemetryTypeOK
  <2> QED
    BY <2>2 DEF TelemetryAssumptions
<1>5. TelemetryTypeOK'
  <2>1. Settled \in [pc : {"none", "committed", "read"}, sample : 0..MaxSamples, status : DeviceStatuses]
    BY DEF Settled, DeviceStatuses, TelemetryAssumptions
  <2>2. writer' \in [Writers -> [pc : {"none", "committed", "read"}, sample : 0..MaxSamples,
                                 status : DeviceStatuses]]
    BY <1>1, <2>1
  <2>3. cache' \in [status : DeviceStatuses, sample : 0..MaxSamples]
    BY <1>3, <1>4 DEF SeedCache, TelemetryTypeOK, DeviceStatuses, TelemetryAssumptions
  <2> QED
    BY <1>1, <1>3, <2>2, <2>3 DEF TelemetryTypeOK
<1>6. HasLatest(log)' /\ OneSamplePerKey' /\ LockIsHeld'
  BY <1>1, <1>3 DEF OneSamplePerKey, HasLatest, Measured, LockIsHeld, TelemetryAssumptions
<1>7. SampleIsNewer' /\ CacheNeverGoesBack
  <2>1. cache'.sample <= Latest(log) /\ Latest(log') = Latest(log)
    BY <1>1, <1>2, <1>4
  <2> QED
    BY <1>1, <1>2, <1>3, <1>4, <2>1 DEF SampleIsNewer, CacheNeverGoesBack, TelemetryTypeOK
<1>8. StatusIsUnderWay'
  BY <1>1, <1>2 DEF StatusIsUnderWay
<1> QED
  BY <1>5, <1>6, <1>7, <1>8 DEF TelemetryInv

-----------------------------------------------------------------------------
(* Every step keeps the invariant, and the cache where it is or ahead. *)
LEMMA TelemetryStep ==
    ASSUME TelemetryAssumptions, TelemetryInv, [TelemetryNext]_telemetryVars
    PROVE  TelemetryInv' /\ [CacheNeverGoesBack]_telemetryVars
<1>1. ASSUME NEW w \in Writers, NEW key \in SampleKeys, PushSample(w, key)
      PROVE  TelemetryInv' /\ CacheNeverGoesBack
  <2>1. /\ writer[w].pc = "none" /\ \A i \in DOMAIN log : log[i].key # key
        /\ StoreSample(w, key, pushed[key])
    BY <1>1 DEF PushSample
  <2>2. pushed[key] \in Reports
    BY DEF TelemetryInv, TelemetryTypeOK
  <2> QED
    BY <2>1, <2>2, StoreKeepsInv
<1>2. ASSUME NEW w \in Writers, NEW report \in Reports, PollAnswered(w, report)
      PROVE  TelemetryInv' /\ CacheNeverGoesBack
  BY <1>2, StoreKeepsInv DEF PollAnswered
<1>3. CASE TelemetryNext
  BY <1>1, <1>2, <1>3, PauseKeepsInv, RowKeepsInv, ReadKeepsInv, CacheKeepsInv, SeedKeepsInv
     DEF TelemetryNext
<1>4. CASE UNCHANGED telemetryVars
  <2>1. TelemetryInv'
    BY <1>4 DEF telemetryVars, TelemetryInv, TelemetryTypeOK, HasLatest, Measured, OneSamplePerKey,
       LockIsHeld, SampleIsNewer, Latest, StatusIsUnderWay, Published, Committed
  <2> QED
    BY <1>4, <2>1
<1> QED
  BY <1>3, <1>4

(* The inductive invariant of the cache, for any writers, keys and samples. *)
THEOREM TelemetryInvariance ==
    ASSUME TelemetryAssumptions
    PROVE  TelemetrySpec => []TelemetryInv
<1>1. TelemetryInit => TelemetryInv
  BY TelemetryInitInv
<1>2. TelemetryInv /\ [TelemetryNext]_telemetryVars => TelemetryInv'
  BY TelemetryStep
<1> QED
  BY <1>1, <1>2, PTL DEF TelemetrySpec

(* However writers overtake each other between their commits and their callbacks, *)
(* and whatever is sent again, a sample is stored once, the cache ends up as the  *)
(* row, and it never goes back to an older sample.                                *)
THEOREM CacheTrue ==
    ASSUME TelemetryAssumptions
    PROVE  TelemetrySpec => CacheIsTrue
<1>1. TelemetryInit => TelemetryInv
  BY TelemetryInitInv
<1>2. TelemetryInv /\ [TelemetryNext]_telemetryVars => TelemetryInv' /\ [CacheNeverGoesBack]_telemetryVars
  BY TelemetryStep
<1>3. TelemetryInv => TelemetryTypeOK /\ OneSamplePerKey /\ CacheSettles
  BY DEF TelemetryInv, StatusIsUnderWay, CacheSettles
<1> QED
  BY <1>1, <1>2, <1>3, PTL DEF TelemetrySpec, CacheIsTrue
-----------------------------------------------------------------------------
(***************************************************************************)
(* The identity of a row                                                   *)
(***************************************************************************)
(* Two values make a set of two. *)
LEMMA PairsAreTwo ==
    ASSUME NEW i, NEW j, i # j
    PROVE  IsFiniteSet({i, j}) /\ Cardinality({i, j}) = 2
<1>1. IsFiniteSet({i}) /\ Cardinality({i}) = 1
  BY FS_Singleton
<1>2. IsFiniteSet({i} \cup {j}) /\ Cardinality({i} \cup {j}) = Cardinality({i}) + 1
  BY <1>1, FS_AddElement
<1>3. {i} \cup {j} = {i, j}
  OBVIOUS
<1> QED
  BY <1>1, <1>2, <1>3

(* A miner that is banned has a tombstone. *)
BannedIsRemoved == \A m \in banned : \E i \in RowsOf(m) : rows[i].state = "removed"

IdentityInv == IdentityTypeOK /\ AliasesAreTrue /\ SamplesAreAttributed /\ BannedIsRemoved

(* What agrees with an identity that is known is its only row. *)
LEMMA AgreedIsOnly ==
    ASSUME IdentityAssumptions, NEW ip, NEW mac, Agrees(ip, mac), NEW i \in Known(mac)
    PROVE  /\ Known(mac) = {i} /\ RowsOf(mac) = {i} /\ i \in Ids /\ InUse(i) /\ rows[i].mac = mac
           /\ RowsAt(ip) \subseteq {i}
<1>1. Known(mac) \subseteq RowsOf(mac) /\ RowsOf(mac) \subseteq Known(mac) /\ RowsOf(mac) \subseteq Ids
  BY DEF Agrees, Known, RowsOf
<1>2. IsFiniteSet(Known(mac)) /\ Cardinality(Known(mac)) <= 1
  BY <1>1, FS_Subset DEF Agrees, IdentityAssumptions
<1>3. ASSUME NEW j \in Known(mac), j # i
      PROVE  FALSE
  <2>1. IsFiniteSet({i, j}) /\ Cardinality({i, j}) = 2
    BY <1>3, PairsAreTwo
  <2>2. Cardinality({i, j}) <= Cardinality(Known(mac)) /\ Cardinality(Known(mac)) \in Nat
    BY <1>2, FS_Subset, FS_CardinalityType
  <2> QED
    BY <1>2, <2>1, <2>2
<1>4. Known(mac) = {i}
  BY <1>3
<1> QED
  BY <1>1, <1>4 DEF Agrees, RowsOf

(* No row is aliased, sampled or banned yet. *)
LEMMA IdentityInitInv ==
    ASSUME IdentityAssumptions, IdentityInit
    PROVE  IdentityInv
<1>1. rows \in [Ids -> DeviceRow]
  BY DEF IdentityInit, UnusedRow, DeviceRow
<1>2. req \in [Requests -> Request]
  BY DEF IdentityInit, NoRequest, Request
<1>3. IdentityTypeOK
  BY <1>1, <1>2 DEF IdentityInit, IdentityTypeOK
<1>4. AliasesAreTrue /\ SamplesAreAttributed /\ BannedIsRemoved
  BY DEF IdentityInit, AliasesAreTrue, SamplesAreAttributed, BannedIsRemoved
<1> QED
  BY <1>3, <1>4 DEF IdentityInv

-----------------------------------------------------------------------------
(* What only looks changes nothing but its request. *)
LEMMA LookingKeepsInv ==
    ASSUME IdentityInv, UNCHANGED <<rows, alias, samples, banned>>, req' \in [Requests -> Request]
    PROVE  IdentityInv' /\ NoNewAmbiguity /\ RowsAreKept
<1>1. IdentityInv'
  BY DEF IdentityInv, IdentityTypeOK, AliasesAreTrue, SamplesAreAttributed, BannedIsRemoved, RowsOf, InUse
<1>2. NoNewAmbiguity
  BY DEF NoNewAmbiguity, RowsOf, RowsAt, InUse
<1>3. RowsAreKept
  BY DEF RowsAreKept
<1> QED
  BY <1>1, <1>2, <1>3

(* Requests that look and do not write. *)
LEMMA LooksKeepInv ==
    ASSUME IdentityInv, NEW r \in Requests,
           \/ \E ip \in Ips : AddByHand(r, ip)
           \/ \E mac \in Macs \cup {NoMac} : Probe(r, mac)
           \/ \E ip \in Ips, mac \in Macs : FindToRegister(r, ip, mac) \/ FindToSave(r, ip, mac)
           \/ \E i \in Ids : Poll(r, i)
           \/ GiveUpRequest(r)
    PROVE  IdentityInv' /\ NoNewAmbiguity /\ RowsAreKept
<1>1. req \in [Requests -> Request] /\ rows \in [Ids -> DeviceRow]
  BY DEF IdentityInv, IdentityTypeOK
<1>2. NoRequest \in Request
  BY DEF NoRequest, Request
<1>3. ASSUME NEW pc \in {"probe", "write", "save"}, NEW ip \in Ips \cup {NoIp}, NEW mac \in Macs \cup {NoMac},
             NEW id \in Ids \cup {NoRow}, BeginRequest(r, pc, ip, mac, id)
      PROVE  UNCHANGED <<rows, alias, samples, banned>> /\ req' \in [Requests -> Request]
  <2>1. [pc |-> pc, ip |-> ip, mac |-> mac, id |-> id] \in Request
    BY DEF Request
  <2> QED
    BY <1>1, <1>3, <2>1 DEF BeginRequest
<1>4. UNCHANGED <<rows, alias, samples, banned>> /\ req' \in [Requests -> Request]
  <2>1. ASSUME NEW ip \in Ips, AddByHand(r, ip)
        PROVE  UNCHANGED <<rows, alias, samples, banned>> /\ req' \in [Requests -> Request]
    BY <1>3, <2>1 DEF AddByHand
  <2>2. ASSUME NEW mac \in Macs \cup {NoMac}, Probe(r, mac)
        PROVE  UNCHANGED <<rows, alias, samples, banned>> /\ req' \in [Requests -> Request]
    <3>1. [req[r] EXCEPT !.pc = "write", !.mac = mac] \in Request
      <4>1. req[r] \in Request
        BY <1>1
      <4> QED
        BY <4>1 DEF Request
    <3> QED
      BY <1>1, <1>2, <2>2, <3>1 DEF Probe
  <2>3. ASSUME NEW ip \in Ips, NEW mac \in Macs, FindToRegister(r, ip, mac)
        PROVE  UNCHANGED <<rows, alias, samples, banned>> /\ req' \in [Requests -> Request]
    BY <1>3, <2>3 DEF FindToRegister
  <2>4. ASSUME NEW ip \in Ips, NEW mac \in Macs, FindToSave(r, ip, mac)
        PROVE  UNCHANGED <<rows, alias, samples, banned>> /\ req' \in [Requests -> Request]
    BY <1>3, <2>4 DEF FindToSave, Active
  <2>5. ASSUME NEW i \in Ids, Poll(r, i)
        PROVE  UNCHANGED <<rows, alias, samples, banned>> /\ req' \in [Requests -> Request]
    <3>1. rows[i].mac \in Macs \cup {NoMac} /\ rows[i].ip \in Ips \cup {NoIp}
      BY <1>1 DEF DeviceRow
    <3> QED
      BY <1>3, <2>5, <3>1 DEF Poll
  <2>6. CASE GiveUpRequest(r)
    BY <1>1, <1>2, <2>6 DEF GiveUpRequest
  <2> QED
    BY <2>1, <2>2, <2>3, <2>4, <2>5, <2>6
<1> QED
  BY <1>4, LookingKeepsInv

(* A row that is new is the only one of its miner and at its address. *)
LEMMA InsertKeepsIdentity ==
    ASSUME IdentityAssumptions, IdentityInv, NEW ip \in Ips \cup {NoIp}, NEW mac \in Macs, Agrees(ip, mac),
           Known(mac) = {}, NEW i \in Ids, InsertRow(i, ip, mac), UNCHANGED <<samples, banned>>,
           req' \in [Requests -> Request]
    PROVE  IdentityInv' /\ NoNewAmbiguity /\ RowsAreKept
<1>1. /\ rows \in [Ids -> DeviceRow] /\ alias \in [Macs -> Ids \cup {NoRow}]
      /\ AliasesAreTrue /\ SamplesAreAttributed /\ BannedIsRemoved
  BY DEF IdentityInv, IdentityTypeOK
<1>2. PICK new : new = [state |-> "active", mac |-> mac, ip |-> ip]
  OBVIOUS
<1>3. /\ rows' = [rows EXCEPT ![i] = new] /\ alias' = [alias EXCEPT ![mac] = i]
      /\ rows[i].state = "unused"
  BY <1>2 DEF InsertRow
<1>4. new \in DeviceRow /\ new.state = "active" /\ new.mac = mac /\ new.ip = ip
  BY <1>2 DEF DeviceRow
<1>5. rows'[i] = new /\ \A j \in Ids : j # i => rows'[j] = rows[j]
  BY <1>1, <1>3
<1>6. ~InUse(i) /\ InUse(i)' /\ \A j \in Ids : j # i => InUse(j)' = InUse(j)
  BY <1>3, <1>4, <1>5 DEF InUse
<1>7. RowsOf(mac) = {} /\ RowsAt(ip) = {}
  BY DEF Agrees, Known
<1>8. RowsOf(mac)' = {i} /\ \A m \in Macs : m # mac => RowsOf(m)' = RowsOf(m)
  BY <1>4, <1>5, <1>6, <1>7 DEF RowsOf
<1>9. RowsAt(ip)' = {i} /\ \A p \in Ips : p # ip => RowsAt(p)' = RowsAt(p)
  BY <1>4, <1>5, <1>6, <1>7 DEF RowsAt
<1>10. IdentityTypeOK'
  BY <1>1, <1>3, <1>4 DEF IdentityInv, IdentityTypeOK
<1>11. AliasesAreTrue'
  BY <1>1, <1>3, <1>8 DEF AliasesAreTrue
<1>12. SamplesAreAttributed'
  <2> SUFFICES ASSUME NEW s \in samples
               PROVE  InUse(s.of)' /\ rows'[s.of].mac = s.from
    BY DEF SamplesAreAttributed
  <2>1. s.of \in Ids /\ InUse(s.of) /\ rows[s.of].mac = s.from
    BY <1>1 DEF IdentityInv, IdentityTypeOK, SamplesAreAttributed
  <2> QED
    BY <1>5, <1>6, <2>1
<1>13. BannedIsRemoved'
  <2> SUFFICES ASSUME NEW m \in banned
               PROVE  \E j \in RowsOf(m)' : rows'[j].state = "removed"
    BY DEF BannedIsRemoved
  <2>1. PICK j \in RowsOf(m) : rows[j].state = "removed"
    BY <1>1 DEF BannedIsRemoved
  <2>2. m # mac /\ m \in Macs /\ j \in Ids /\ j # i
    BY <1>3, <1>7, <2>1 DEF IdentityInv, IdentityTypeOK, RowsOf
  <2> QED
    BY <1>5, <1>8, <2>1, <2>2
<1>14. NoNewAmbiguity
  BY <1>8, <1>9, FS_Singleton DEF NoNewAmbiguity
<1>15. RowsAreKept
  BY <1>3, <1>5 DEF RowsAreKept
<1> QED
  BY <1>10, <1>11, <1>12, <1>13, <1>14, <1>15 DEF IdentityInv

(* A row that moves stays the row of its miner, and is alone at its address. *)
LEMMA MoveKeepsIdentity ==
    ASSUME IdentityAssumptions, IdentityInv, NEW ip \in Ips \cup {NoIp}, NEW mac \in Macs, Agrees(ip, mac),
           NEW i \in Known(mac), MoveRow(i, ip, mac), UNCHANGED <<samples, banned>>,
           req' \in [Requests -> Request]
    PROVE  IdentityInv' /\ NoNewAmbiguity /\ RowsAreKept
<1>1. /\ rows \in [Ids -> DeviceRow] /\ alias \in [Macs -> Ids \cup {NoRow}]
      /\ AliasesAreTrue /\ SamplesAreAttributed /\ BannedIsRemoved
  BY DEF IdentityInv, IdentityTypeOK
<1>2. RowsOf(mac) = {i} /\ i \in Ids /\ InUse(i) /\ rows[i].mac = mac /\ RowsAt(ip) \subseteq {i}
  BY AgreedIsOnly
<1>3. PICK new : new = [rows[i] EXCEPT !.ip = ip, !.mac = mac]
  OBVIOUS
<1>4. /\ rows' = [rows EXCEPT ![i] = new] /\ alias' = [alias EXCEPT ![mac] = i]
      /\ rows[i].state = "active"
  BY <1>3 DEF MoveRow
<1>5. new \in DeviceRow /\ new.state = "active" /\ new.mac = mac /\ new.ip = ip
  <2>1. rows[i] \in DeviceRow
    BY <1>1, <1>2
  <2> QED
    BY <1>3, <1>4, <2>1 DEF DeviceRow
<1>6. rows'[i] = new /\ \A j \in Ids : j # i => rows'[j] = rows[j]
  BY <1>1, <1>2, <1>4
<1>7. \A j \in Ids : InUse(j)' = InUse(j) /\ rows'[j].mac = rows[j].mac /\ rows'[j].state = rows[j].state
  BY <1>2, <1>4, <1>5, <1>6 DEF InUse
<1>8. \A m \in Macs : RowsOf(m)' = RowsOf(m)
  BY <1>7 DEF RowsOf
<1>9. RowsAt(ip)' = {i} /\ \A p \in Ips : p # ip => RowsAt(p)' \subseteq RowsAt(p)
  BY <1>2, <1>5, <1>6, <1>7 DEF RowsAt
<1>10. IdentityTypeOK'
  BY <1>1, <1>2, <1>4, <1>5 DEF IdentityInv, IdentityTypeOK
<1>11. AliasesAreTrue'
  BY <1>1, <1>2, <1>4, <1>8 DEF AliasesAreTrue
<1>12. SamplesAreAttributed'
  BY <1>1, <1>7 DEF IdentityInv, IdentityTypeOK, SamplesAreAttributed
<1>13. BannedIsRemoved'
  <2> SUFFICES ASSUME NEW m \in banned
               PROVE  \E j \in RowsOf(m)' : rows'[j].state = "removed"
    BY DEF BannedIsRemoved
  <2>1. PICK j \in RowsOf(m) : rows[j].state = "removed"
    BY <1>1 DEF BannedIsRemoved
  <2>2. m \in Macs /\ j \in Ids
    BY <2>1 DEF IdentityInv, IdentityTypeOK, RowsOf
  <2> QED
    BY <1>7, <1>8, <2>1, <2>2
<1>14. NoNewAmbiguity
  BY <1>8, <1>9, FS_Singleton DEF NoNewAmbiguity
<1>15. RowsAreKept
  BY <1>7 DEF RowsAreKept
<1> QED
  BY <1>10, <1>11, <1>12, <1>13, <1>14, <1>15 DEF IdentityInv

(* A request is written for the miner that answered, or not at all. *)
LEMMA WriteKeepsIdentity ==
    ASSUME IdentityAssumptions, IdentityInv, NEW r \in Requests, Write(r)
    PROVE  IdentityInv' /\ NoNewAmbiguity /\ RowsAreKept
<1>1. req \in [Requests -> Request] /\ NoRequest \in Request
  BY DEF IdentityInv, IdentityTypeOK, NoRequest, Request
<1>2. PICK ip, mac : ip = req[r].ip /\ mac = req[r].mac
  OBVIOUS
<1>3. ip \in Ips \cup {NoIp} /\ mac \in Macs /\ Agrees(ip, mac)
  BY <1>1, <1>2 DEF Write, Request, Agrees
<1>4. req' \in [Requests -> Request] /\ UNCHANGED <<samples, banned>>
  BY <1>1 DEF Write
<1>5. \/ Known(mac) = {} /\ \E i \in Ids : InsertRow(i, ip, mac)
      \/ \E i \in Known(mac) : MoveRow(i, ip, mac)
  BY <1>2 DEF Write
<1> QED
  BY <1>3, <1>4, <1>5, InsertKeepsIdentity, MoveKeepsIdentity

(* A sample is of the only row of the miner that was measured. *)
LEMMA SaveKeepsIdentity ==
    ASSUME IdentityAssumptions, IdentityInv, NEW r \in Requests, Save(r)
    PROVE  IdentityInv' /\ NoNewAmbiguity /\ RowsAreKept
<1>1. req \in [Requests -> Request] /\ NoRequest \in Request
  BY DEF IdentityInv, IdentityTypeOK, NoRequest, Request
<1>2. PICK id, mac : id = req[r].id /\ mac = req[r].mac
  OBVIOUS
<1>3. /\ samples' = samples \cup {[of |-> id, from |-> mac]} /\ UNCHANGED <<rows, alias, banned>>
      /\ req' \in [Requests -> Request]
  BY <1>1, <1>2 DEF Save
<1>4. /\ Agrees(req[r].ip, mac) /\ id \in Known(mac) /\ id \in Active /\ id \in Ids
      /\ mac \in Macs
  BY <1>1, <1>2 DEF Save, Agrees, Request, Active
<1>5. InUse(id) /\ rows[id].mac = mac
  BY <1>4, AgreedIsOnly
<1>6. IdentityTypeOK' /\ SamplesAreAttributed'
  BY <1>3, <1>4, <1>5 DEF IdentityInv, IdentityTypeOK, SamplesAreAttributed, InUse
<1>7. AliasesAreTrue' /\ BannedIsRemoved'
  BY <1>3 DEF IdentityInv, AliasesAreTrue, BannedIsRemoved, RowsOf, InUse
<1>8. NoNewAmbiguity
  BY <1>3 DEF NoNewAmbiguity, RowsOf, RowsAt, InUse
<1>9. RowsAreKept
  BY <1>3, <1>4 DEF RowsAreKept, Active
<1> QED
  BY <1>6, <1>7, <1>8, <1>9 DEF IdentityInv

(* Removing and restoring a row changes nobody's identity. *)
LEMMA StateKeepsIdentity ==
    ASSUME IdentityInv, NEW i \in Ids, NEW state \in {"active", "removed"}, InUse(i),
           rows' = [rows EXCEPT ![i].state = state], UNCHANGED <<alias, samples, req>>,
           state = "active" => rows[i].state = "removed",
           banned' \subseteq Macs
    PROVE  /\ IdentityTypeOK' /\ AliasesAreTrue' /\ SamplesAreAttributed' /\ NoNewAmbiguity /\ RowsAreKept
           /\ \A m : RowsOf(m)' = RowsOf(m)
           /\ rows'[i].state = state /\ \A j \in Ids : j # i => rows'[j] = rows[j]
<1>1. /\ rows \in [Ids -> DeviceRow] /\ AliasesAreTrue /\ SamplesAreAttributed
  BY DEF IdentityInv, IdentityTypeOK
<1>2. rows[i] \in DeviceRow
  BY <1>1
<1>3. PICK new : new = [rows[i] EXCEPT !.state = state]
  OBVIOUS
<1>4. new \in DeviceRow /\ new.state = state /\ new.mac = rows[i].mac /\ new.ip = rows[i].ip
  BY <1>2, <1>3 DEF DeviceRow
<1>5. rows'[i] = new /\ \A j \in Ids : j # i => rows'[j] = rows[j]
  BY <1>1, <1>3
<1>6. \A j \in Ids : InUse(j)' = InUse(j) /\ rows'[j].mac = rows[j].mac /\ rows'[j].ip = rows[j].ip
  BY <1>4, <1>5 DEF InUse
<1>7. \A m : RowsOf(m)' = RowsOf(m)
  BY <1>6 DEF RowsOf
<1>8. \A ip : RowsAt(ip)' = RowsAt(ip)
  BY <1>6 DEF RowsAt
<1>9. IdentityTypeOK'
  <2>1. rows' \in [Ids -> DeviceRow]
    BY <1>1, <1>3, <1>4
  <2> QED
    BY <2>1 DEF IdentityInv, IdentityTypeOK
<1>10. AliasesAreTrue' /\ SamplesAreAttributed'
  BY <1>1, <1>6, <1>7 DEF IdentityInv, IdentityTypeOK, AliasesAreTrue, SamplesAreAttributed
<1>11. NoNewAmbiguity
  BY <1>7, <1>8 DEF NoNewAmbiguity
<1>12. RowsAreKept
  BY <1>4, <1>5, <1>6 DEF RowsAreKept
<1> QED
  BY <1>4, <1>5, <1>7, <1>9, <1>10, <1>11, <1>12

(* A miner is banned with its tombstone. *)
LEMMA RemoveKeepsIdentity ==
    ASSUME IdentityAssumptions, IdentityInv, NEW i \in Ids, RemoveRow(i)
    PROVE  IdentityInv' /\ NoNewAmbiguity /\ RowsAreKept
<1>1. /\ InUse(i) /\ rows' = [rows EXCEPT ![i].state = "removed"] /\ UNCHANGED <<alias, samples, req>>
      /\ banned' = banned \cup ({rows[i].mac} \ {NoMac})
  BY DEF RemoveRow, Active, InUse
<1>2. rows[i].mac \in Macs \cup {NoMac} /\ banned \subseteq Macs
  BY DEF IdentityInv, IdentityTypeOK, DeviceRow
<1>3. /\ IdentityTypeOK' /\ AliasesAreTrue' /\ SamplesAreAttributed' /\ NoNewAmbiguity /\ RowsAreKept
      /\ \A m : RowsOf(m)' = RowsOf(m)
      /\ rows'[i].state = "removed" /\ \A j \in Ids : j # i => rows'[j] = rows[j]
  BY <1>1, <1>2, StateKeepsIdentity
<1>4. BannedIsRemoved'
  <2> SUFFICES ASSUME NEW m \in banned'
               PROVE  \E j \in RowsOf(m)' : rows'[j].state = "removed"
    BY DEF BannedIsRemoved
  <2>1. CASE m \in banned
    <3>1. PICK j \in RowsOf(m) : rows[j].state = "removed"
      BY <2>1 DEF IdentityInv, BannedIsRemoved
    <3>2. j \in RowsOf(m)' /\ j \in Ids
      BY <1>3 DEF RowsOf
    <3> QED
      BY <1>3, <3>1, <3>2
  <2>2. CASE m = rows[i].mac
    <3>1. i \in RowsOf(m)
      BY <1>1, <2>2 DEF RowsOf
    <3> QED
      BY <1>3, <3>1
  <2> QED
    BY <1>1, <2>1, <2>2
<1> QED
  BY <1>3, <1>4 DEF IdentityInv

(* A tombstone that is restored was of the miner that is no longer banned. *)
LEMMA RestoreKeepsIdentity ==
    ASSUME IdentityAssumptions, IdentityInv, NEW ip \in Ips, NEW mac \in Macs, Restore(ip, mac)
    PROVE  IdentityInv' /\ NoNewAmbiguity /\ RowsAreKept
<1>1. PICK i \in Ids : /\ {j \in RowsAt(ip) : rows[j].state = "removed"} = {i}
                       /\ rows[i].mac = mac
                       /\ rows' = [rows EXCEPT ![i].state = "active"]
  BY DEF Restore
<1>2. banned' = banned \ {mac} /\ UNCHANGED <<alias, samples, req>>
  BY DEF Restore
<1>3. rows[i].state = "removed" /\ InUse(i) /\ banned \subseteq Macs
  BY <1>1 DEF InUse, IdentityInv, IdentityTypeOK
<1>4. /\ IdentityTypeOK' /\ AliasesAreTrue' /\ SamplesAreAttributed' /\ NoNewAmbiguity /\ RowsAreKept
      /\ \A m : RowsOf(m)' = RowsOf(m)
      /\ \A j \in Ids : j # i => rows'[j] = rows[j]
  BY <1>1, <1>2, <1>3, StateKeepsIdentity
<1>5. BannedIsRemoved'
  <2> SUFFICES ASSUME NEW m \in banned, m # mac
               PROVE  \E j \in RowsOf(m)' : rows'[j].state = "removed"
    BY <1>2 DEF BannedIsRemoved
  <2>1. PICK j \in RowsOf(m) : rows[j].state = "removed"
    BY DEF IdentityInv, BannedIsRemoved
  <2>2. j \in Ids /\ j # i
    BY <1>1, <2>1 DEF RowsOf
  <2> QED
    BY <1>4, <2>1, <2>2
<1> QED
  BY <1>4, <1>5 DEF IdentityInv

(* What is purged takes its alias, its samples and its ban along. *)
LEMMA CollectKeepsIdentity ==
    ASSUME IdentityAssumptions, IdentityInv, NEW old \in SUBSET {i \in Ids : rows[i].state = "removed"},
           CollectTombstones(old)
    PROVE  IdentityInv' /\ NoNewAmbiguity /\ RowsAreKept
<1>1. /\ rows \in [Ids -> DeviceRow] /\ alias \in [Macs -> Ids \cup {NoRow}]
      /\ samples \subseteq [of : Ids, from : Macs] /\ banned \subseteq Macs
      /\ AliasesAreTrue /\ SamplesAreAttributed /\ BannedIsRemoved
  BY DEF IdentityInv, IdentityTypeOK
<1>2. PICK gone : gone = [UnusedRow EXCEPT !.state = "purged"]
  OBVIOUS
<1>3. gone \in DeviceRow /\ gone.state = "purged" /\ gone.mac = NoMac /\ gone.ip = NoIp
  BY <1>2 DEF UnusedRow, DeviceRow
<1>4. /\ rows' = [i \in Ids |-> IF i \in old THEN gone ELSE rows[i]]
      /\ alias' = [m \in Macs |-> IF alias[m] \in old THEN NoRow ELSE alias[m]]
      /\ samples' = {s \in samples : s.of \notin old}
      /\ req' = [r \in Requests |-> NoRequest]
      /\ banned' = banned \ {rows[i].mac : i \in old}
  BY <1>2 DEF CollectTombstones
<1>5. \A i \in Ids : /\ i \in old => ~InUse(i)'
                     /\ i \notin old => rows'[i] = rows[i] /\ InUse(i)' = InUse(i)
  BY <1>3, <1>4 DEF InUse
<1>6. \A m \in Macs : RowsOf(m)' = RowsOf(m) \ old
  BY <1>5 DEF RowsOf
<1>7. \A ip \in Ips : RowsAt(ip)' \subseteq RowsAt(ip)
  BY <1>5 DEF RowsAt
<1>8. IdentityTypeOK'
  <2>1. rows' \in [Ids -> DeviceRow] /\ alias' \in [Macs -> Ids \cup {NoRow}]
    BY <1>1, <1>3, <1>4
  <2>2. req' \in [Requests -> Request]
    BY <1>4 DEF NoRequest, Request
  <2> QED
    BY <1>1, <1>4, <2>1, <2>2 DEF IdentityTypeOK
<1>9. AliasesAreTrue'
  <2> SUFFICES ASSUME NEW m \in Macs, alias'[m] # NoRow
               PROVE  RowsOf(m)' = {alias'[m]}
    BY DEF AliasesAreTrue
  <2>1. alias[m] \notin old /\ alias'[m] = alias[m]
    BY <1>4
  <2>2. RowsOf(m) = {alias[m]}
    BY <1>1, <2>1 DEF AliasesAreTrue
  <2> QED
    BY <1>6, <2>1, <2>2
<1>10. SamplesAreAttributed'
  <2> SUFFICES ASSUME NEW s \in samples, s.of \notin old
               PROVE  InUse(s.of)' /\ rows'[s.of].mac = s.from
    BY <1>4 DEF SamplesAreAttributed
  <2>1. s.of \in Ids /\ InUse(s.of) /\ rows[s.of].mac = s.from
    BY <1>1 DEF SamplesAreAttributed
  <2> QED
    BY <1>5, <2>1
<1>11. BannedIsRemoved'
  <2> SUFFICES ASSUME NEW m \in banned, \A i \in old : rows[i].mac # m
               PROVE  \E j \in RowsOf(m)' : rows'[j].state = "removed"
    BY <1>4 DEF BannedIsRemoved
  <2>1. PICK j \in RowsOf(m) : rows[j].state = "removed"
    BY <1>1 DEF BannedIsRemoved
  <2>2. j \in Ids /\ j \notin old /\ m \in Macs
    BY <1>1, <2>1 DEF RowsOf
  <2> QED
    BY <1>5, <1>6, <2>1, <2>2
<1>12. NoNewAmbiguity
  BY <1>6, <1>7 DEF NoNewAmbiguity
<1>13. RowsAreKept
  BY <1>4, <1>5 DEF RowsAreKept
<1> QED
  BY <1>8, <1>9, <1>10, <1>11, <1>12, <1>13 DEF IdentityInv

-----------------------------------------------------------------------------
(* Every step keeps the identities. *)
LEMMA IdentityStep ==
    ASSUME IdentityAssumptions, IdentityInv, [IdentityNext]_identityVars
    PROVE  IdentityInv' /\ [NoNewAmbiguity /\ RowsAreKept]_identityVars
<1>1. CASE UNCHANGED identityVars
  <2>1. UNCHANGED <<rows, alias, samples, req, banned>> /\ req' \in [Requests -> Request]
    BY <1>1 DEF identityVars, IdentityInv, IdentityTypeOK
  <2> QED
    BY <2>1, LookingKeepsInv
<1>2. ASSUME NEW r \in Requests, RequestStep(r)
      PROVE  IdentityInv' /\ NoNewAmbiguity /\ RowsAreKept
  BY <1>2, LooksKeepInv, WriteKeepsIdentity, SaveKeepsIdentity DEF RequestStep
<1> QED
  BY <1>1, <1>2, RemoveKeepsIdentity, RestoreKeepsIdentity, CollectKeepsIdentity DEF IdentityNext

(* A miner that was removed has a tombstone as long as it is banned: with that *)
(* the identities are inductive.                                               *)
THEOREM IdentityInvariance ==
    ASSUME IdentityAssumptions
    PROVE  IdentitySpec => []IdentityInv
<1>1. IdentityInit => IdentityInv
  BY IdentityInitInv
<1>2. IdentityInv /\ [IdentityNext]_identityVars => IdentityInv'
  BY IdentityStep
<1> QED
  BY <1>1, <1>2, PTL DEF IdentitySpec

(* A banned miner with one row has a tombstone and no active row. *)
LEMMA BannedStayRemoved ==
    ASSUME IdentityAssumptions, IdentityInv
    PROVE  NoResurrection
<1> SUFFICES ASSUME NEW m \in banned, Cardinality(RowsOf(m)) = 1, NEW i \in RowsOf(m), i \in Active
             PROVE  FALSE
  BY DEF NoResurrection
<1>1. PICK j \in RowsOf(m) : rows[j].state = "removed"
  BY DEF IdentityInv, BannedIsRemoved
<1>2. i # j
  BY <1>1 DEF Active
<1>3. IsFiniteSet({i, j}) /\ Cardinality({i, j}) = 2
  BY <1>2, PairsAreTwo
<1>4. IsFiniteSet(RowsOf(m))
  BY FS_Subset DEF IdentityAssumptions, RowsOf
<1>5. Cardinality({i, j}) <= Cardinality(RowsOf(m))
  BY <1>4, FS_Subset
<1> QED
  BY <1>3, <1>5

(* Whoever moves to whichever address between the look and the write of a request, *)
(* a row, its alias and its samples are of one miner, a removed one stays removed, *)
(* and no operation gives a miner a second row or its row to another.              *)
THEOREM IdentitiesTrue ==
    ASSUME IdentityAssumptions
    PROVE  IdentitySpec => IdentitiesAreTrue
<1>1. IdentityInit => IdentityInv
  BY IdentityInitInv
<1>2. IdentityInv /\ [IdentityNext]_identityVars
        => IdentityInv' /\ [NoNewAmbiguity /\ RowsAreKept]_identityVars
  BY IdentityStep
<1>3. IdentityInv => IdentityTypeOK /\ AliasesAreTrue /\ SamplesAreAttributed /\ NoResurrection
  BY BannedStayRemoved DEF IdentityInv
<1> QED
  BY <1>1, <1>2, <1>3, PTL DEF IdentitySpec, IdentitiesAreTrue
=============================================================================
