---------------------------- MODULE FleetTelemetry ----------------------------
(***************************************************************************)
(* The state of one device: the row and the samples that writers commit in *)
(* axe_fleet/registry.py, and the snapshot cache of app.py, which they     *)
(* refresh afterwards, one at a time.                                      *)
(***************************************************************************)
EXTENDS Integers, Sequences

CONSTANTS
    Writers,       \* threads that push, poll or command
    SampleKeys,    \* samples of the agent, each with its idempotency key
    Reports,       \* what a sample measures: a status, or Nothing for a heartbeat
    Nothing, Unkeyed, Nobody,
    MaxSamples     \* bound on the samples

VARIABLES
    device,     \* status and removed_at of the row of axe_devices
    log,        \* axe_telemetry
    pushed,     \* what the agent measured, by key: it may be sent again
    cache,      \* the entry of axe_telemetry_cache: status, and which sample it shows
    writer,     \* what every writer has yet to publish
    lock,       \* _telemetry_publish_lock
    quiet       \* history: the status was changed without a publication

telemetryVars == <<device, log, pushed, cache, writer, lock, quiet>>

DeviceStatuses == (Reports \ {Nothing}) \cup {"OFFLINE", "PAUSED"}
Settled == [pc |-> "none", sample |-> 0, status |-> "OFFLINE"]

TelemetryAssumptions ==
    Nothing \in Reports /\ MaxSamples \in Nat /\ Nobody \notin Writers /\ Unkeyed \notin SampleKeys

TelemetryTypeOK ==
    /\ device \in [status : DeviceStatuses, removed : BOOLEAN]
    /\ log \in Seq([key : SampleKeys \cup {Unkeyed}, report : Reports]) /\ Len(log) <= MaxSamples
    /\ pushed \in [SampleKeys -> Reports]
    /\ cache \in [status : DeviceStatuses, sample : 0..MaxSamples]
    /\ writer \in [Writers -> [pc : {"none", "committed", "read"}, sample : 0..MaxSamples,
                               status : DeviceStatuses]]
    /\ lock \in Writers \cup {Nobody}
    /\ quiet \in BOOLEAN

TelemetryInit ==
    /\ device = [status |-> "OFFLINE", removed |-> FALSE]
    /\ log = <<>>
    /\ pushed \in [SampleKeys -> Reports]
    /\ cache = [status |-> "OFFLINE", sample |-> 0]
    /\ writer = [w \in Writers |-> Settled]
    /\ lock = Nobody
    /\ quiet = FALSE

-----------------------------------------------------------------------------
(***************************************************************************)
(* Writing: each one transaction                                           *)
(***************************************************************************)
(* _latest_measured_telemetry_tx: heartbeats measure nothing. *)
Measured(series) == {i \in DOMAIN series : series[i].report # Nothing}
Latest(series) == IF Measured(series) = {} THEN 0
                  ELSE CHOOSE i \in Measured(series) : \A j \in Measured(series) : j <= i

(* derive_device_status, of a sample or else of the last one that measured. *)
Derived(series) ==
    IF Measured(series) = {} THEN "OFFLINE" ELSE series[Latest(series)].report

StoreSample(w, key, report) ==
    /\ ~device.removed
    /\ Len(log) < MaxSamples
    /\ log' = Append(log, [key |-> key, report |-> report])
    /\ device' = [device EXCEPT !.status = Derived(log')]
    /\ writer' = [writer EXCEPT ![w].pc = "committed"]
    /\ UNCHANGED <<pushed, cache, lock>>
    /\ quiet' = FALSE

PushAgain(w, key) ==  \* mutant: a sample that is sent again is stored again
    /\ writer[w].pc = "none"
    /\ StoreSample(w, key, pushed[key])

(* save_agent_telemetry: a key that is there already changes nothing. *)
PushSample(w, key) ==
    /\ writer[w].pc = "none"
    /\ \A i \in DOMAIN log : log[i].key # key
    /\ StoreSample(w, key, pushed[key])

(* poll_device, of a device that answers: a measurement without a key. *)
PollAnswered(w, report) ==
    /\ writer[w].pc = "none"
    /\ report # Nothing
    /\ StoreSample(w, Unkeyed, report)

(* poll_device, of one that does not: only the row is written. *)
PollUnanswered ==
    /\ ~device.removed
    /\ device' = [device EXCEPT !.status = "OFFLINE"]
    /\ quiet' = (quiet \/ device.status # "OFFLINE")
    /\ UNCHANGED <<log, pushed, cache, writer, lock>>

PauseUnpublished(w) ==  \* mutant: the command writes the row and leaves the cache to the next sample
    /\ writer[w].pc = "none"
    /\ ~device.removed
    /\ device' = [device EXCEPT !.status = "PAUSED"]
    /\ quiet' = FALSE
    /\ UNCHANGED <<log, pushed, cache, writer, lock>>

(* _execute_device_command pause, and publish_device_state after it *)
PauseDevice(w) ==
    /\ writer[w].pc = "none"
    /\ ~device.removed
    /\ device' = [device EXCEPT !.status = "PAUSED"]
    /\ writer' = [writer EXCEPT ![w].pc = "committed"]
    /\ quiet' = FALSE
    /\ UNCHANGED <<log, pushed, cache, lock>>

RemoveDevice ==
    /\ ~device.removed
    /\ device' = [status |-> "OFFLINE", removed |-> TRUE]
    /\ UNCHANGED <<log, pushed, cache, writer, lock, quiet>>

-----------------------------------------------------------------------------
(***************************************************************************)
(* Publishing: _notify_telemetry_committed                                 *)
(***************************************************************************)
ReadUnlocked(w) ==  \* mutant: publications are not serialised
    /\ writer[w].pc = "committed"
    /\ writer' = [writer EXCEPT ![w] =
         IF device.removed THEN Settled ELSE [pc |-> "read", sample |-> Latest(log), status |-> device.status]]
    /\ UNCHANGED <<device, log, pushed, cache, lock, quiet>>

ReadCommitted(w) ==
    /\ writer[w].pc = "committed"
    /\ lock = Nobody
    /\ IF device.removed
       THEN /\ writer' = [writer EXCEPT ![w] = Settled]
            /\ UNCHANGED lock
       ELSE /\ writer' = [writer EXCEPT ![w] = [pc |-> "read", sample |-> Latest(log), status |-> device.status]]
            /\ lock' = w
    /\ UNCHANGED <<device, log, pushed, cache, quiet>>

(* _cache_axe_telemetry: what measures nothing does not wipe what was measured. *)
CacheSnapshot(w) ==
    /\ writer[w].pc = "read"
    /\ cache' = [status |-> writer[w].status,
                 sample |-> IF writer[w].sample = 0 THEN cache.sample ELSE writer[w].sample]
    /\ writer' = [writer EXCEPT ![w] = Settled]
    /\ lock' = Nobody
    /\ UNCHANGED <<device, log, pushed, quiet>>

(* The process starts again: _seed_axe_telemetry_cache. *)
SeedCache ==
    /\ writer' = [w \in Writers |-> Settled]
    /\ lock' = Nobody
    /\ cache' = IF device.removed THEN [status |-> "OFFLINE", sample |-> 0]
                ELSE [status |-> device.status, sample |-> Latest(log)]
    /\ quiet' = FALSE
    /\ UNCHANGED <<device, log, pushed>>

TelemetryNext ==
    \/ \E w \in Writers :
          \/ \E key \in SampleKeys : PushSample(w, key)
          \/ \E report \in Reports : PollAnswered(w, report)
          \/ PauseDevice(w) \/ ReadCommitted(w) \/ CacheSnapshot(w)
    \/ PollUnanswered \/ RemoveDevice \/ SeedCache

TelemetrySpec == TelemetryInit /\ [][TelemetryNext]_telemetryVars

-----------------------------------------------------------------------------
(***************************************************************************)
(* Properties                                                              *)
(***************************************************************************)

(* A sample is stored once, however often it is sent. *)
OneSamplePerKey ==
    \A i, j \in DOMAIN log : log[i].key = log[j].key /\ log[i].key # Unkeyed => i = j

Published == \A w \in Writers : writer[w].pc = "none"

(* When every writer has published, the cache shows the status of the row,     *)
(* unless that was written by a poll that failed.                              *)
CacheSettles == Published /\ ~device.removed /\ ~quiet => cache.status = device.status

(* "A delayed older writer must not overwrite a newer committed cache entry":  *)
(* the snapshot never goes back to an older sample while the device is there.  *)
CacheNeverGoesBack == ~device.removed => cache'.sample >= cache.sample

(* A repeated push changes nothing, and the cache ends up as the row and never *)
(* goes back to an older sample.                                               *)
CacheIsTrue ==
    /\ [](TelemetryTypeOK /\ OneSamplePerKey /\ CacheSettles)
    /\ [][CacheNeverGoesBack]_telemetryVars
=============================================================================
