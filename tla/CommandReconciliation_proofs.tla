-------------------- MODULE CommandReconciliation_proofs --------------------
(***************************************************************************)
(* Proofs about the reconciliation of a command, for any number of status  *)
(* polls, every timeout, and every horizon and number of boots.            *)
(***************************************************************************)
EXTENDS CommandReconciliation, TLAPS

(* Before the verdict of the handler is written, no copy of the row has one. *)
IsUndecided(r) == r.ack = "not_received" /\ r.recon = "pending" /\ r.ackAt = 0

(* A verdict that telemetry has shown; that of a rollback may rest on a lost hash. *)
IsShown(recon) ==
    /\ recon = "confirmed" =>
         "match" \in shown /\ (command = "restart" => "offline" \in shown)
    /\ recon = "failed" =>
         \/ handler.change.ack = "rejected"
         \/ command = "rollback_pool"
         \/ "mismatch" \in shown

IsEvident(e) ==
    /\ e.offlineSeen => command = "restart" /\ "offline" \in shown
    /\ e.pre # 0 => e.pre = handler.pre

(* What holds of every copy of the row, however old: of the row itself, of the *)
(* row a poll decides on, and of the rows that writers will write back.        *)
IsSound(r) ==
    /\ handler.pc # "done" => IsUndecided(r)
    /\ r.ack = "acknowledged" =>
         IsAcknowledged /\ r.ackAt # 0 /\ r.ackAt = handler.row.ackAt
    /\ IsShown(r.recon)
    /\ IsEvident(r.evidence)

HandlerIsSound ==
    /\ handler.pc # "done" => IsUndecided(handler.row)
    /\ handler.pc = "update" =>
         /\ handler.change.ack # "unchanged"
         /\ handler.change.recon \in {"pending", "unknown"} \/ handler.change.ack = "rejected"
         /\ handler.change.recon # "confirmed"
         /\ IsEvident(handler.change.evidence)
    /\ IsAcknowledged => handler.row.ackAt # 0 /\ handler.row.ackAt <= now

(* What a poll is about to write rests on what it read. *)
PollIsSound(p) ==
    /\ IsSound(poll[p].op)
    /\ IsSound(poll[p].row)
    /\ poll[p].pc = "update" =>
         /\ poll[p].change.ack = "unchanged"
         /\ handler.pc # "done" => poll[p].change.recon = "pending"
         /\ IsShown(poll[p].change.recon) /\ IsEvident(poll[p].change.evidence)

(* The telemetry of the entry is fresh for the ACK that the handler wrote. *)
IsLater(at) == IsAcknowledged /\ at > handler.row.ackAt

(* Telemetry says whether a command other than a restart was obeyed. *)
Says(seen) ==
    IF (command = "pause" /\ seen.paused) \/ (IsPoolCommand /\ seen.asked)
    THEN "match" ELSE "mismatch"

(* The refresh publishes telemetry before the status: fresh telemetry has been *)
(* shown with a status of its own, or it is the present one and soon will be.  *)
IsPublished(at, seen) ==
    \/ IsLater(at) /\ command # "restart" => Says(seen) \in shown
    \/ refresh.pc = "status" /\ entry.at = at /\ entry.seen = seen

(* The entry goes forward, in time and in boots, until it is cleared.  *)
EntryIsSound ==
    /\ entry.at <= now
    /\ entry.seen.boot <= Look(device).boot
    /\ Shows(entry) \subseteq shown
    /\ IsPublished(entry.at, entry.seen)
    /\ refresh.pc = "reply" =>
         entry.seen.boot <= refresh.seen.boot /\ refresh.seen.boot <= Look(device).boot
    /\ refresh.pc = "status" => entry.at # 0
    /\ refresh.pc = "clear" => entry.status = "offline"

(* What a poll has read is not ahead of the entry, unless that was cleared. *)
IsBehind(at, seen) ==
    /\ at <= now
    /\ seen.boot <= Look(device).boot
    /\ refresh.pc = "reply" => seen.boot <= refresh.seen.boot
    /\ \/ at <= entry.at /\ seen.boot <= entry.seen.boot
       \/ /\ entry.status = "offline" /\ entry.at = 0 /\ refresh.pc # "status"
          /\ IsLater(at) => "offline" \in shown

ReadingIsSound(p) ==
    poll[p].pc = "status" =>
        IsBehind(poll[p].at, poll[p].seen) /\ IsPublished(poll[p].at, poll[p].seen)

Grounds ==
    /\ IsSound(row)
    /\ HandlerIsSound
    /\ EntryIsSound
    /\ \A p \in DOMAIN poll : PollIsSound(p) /\ ReadingIsSound(p)

-----------------------------------------------------------------------------
(***************************************************************************)
(* Types                                                                   *)
(***************************************************************************)

(* What update_operation writes is a row. *)
LEMMA UpdatedType ==
    ASSUME now \in Seconds, NEW r \in Row, NEW c \in Change
    PROVE  Updated(r, c) \in Row
BY DEF Updated, Row, Change

(* What a poll decides is a change. *)
LEMMA DecisionType ==
    ASSUME NEW op \in Row, NEW e, NEW shorter
    PROVE  Decision(op, e, shorter) \in Change
<1>1. Reconciliation(op, e, shorter) \in {"pending", "unknown", "failed", "confirmed"}
  BY DEF Reconciliation, RestartVerdict, PoolVerdict, FreshVerdict, Waiting, Row
<1>2. OfflineSeen(op, e) \in BOOLEAN
  BY DEF OfflineSeen, Row, Evidence
<1>3. [op.evidence EXCEPT !.offlineSeen = OfflineSeen(op, e)] \in Evidence
  BY <1>2 DEF Row, Evidence
<1> QED
  BY <1>1, <1>3 DEF Decision, Changed, Change, States, Acks

(* The initial values are of their types. *)
LEMMA NullTypes ==
    /\ Submitted \in Row /\ NoChange \in Change /\ NoReading \in Reading
    /\ Idle \in Poll /\ NoRefresh \in Refresh
<1>1. 0 \in Seconds /\ 0 \in Boots
  BY BoundsAreNatural DEF Seconds, Boots
<1>2. NoReading \in Reading /\ NoEvidence \in Evidence
  BY <1>1 DEF NoReading, Reading, NoEvidence, Evidence
<1>3. Submitted \in Row /\ NoChange \in Change
  BY <1>1, <1>2 DEF Submitted, Row, NoChange, Changed, Change, States, Acks
<1> QED
  BY <1>1, <1>2, <1>3 DEF Idle, Poll, NoRefresh, Refresh

(* What the device answers is a reading. *)
LEMMA LookType ==
    ASSUME NEW d \in Device, command \in Commands
    PROVE  Look(d) \in Reading
<1>1. 0 \in Boots
  BY BoundsAreNatural DEF Boots
<1> QED
  BY <1>1 DEF Look, Device, Reading, IsPoolCommand

(* The initial states are well typed. *)
LEMMA InitType == Init => TypeOK
<1> SUFFICES ASSUME Init PROVE TypeOK
  OBVIOUS
<1>1. device \in Device /\ [device EXCEPT !.boot = 1] \in Device
  <2>1. 1 \in Boots /\ MaxBoots \in Boots
    BY BoundsAreNatural DEF Boots
  <2>2. device \in [up : BOOLEAN, due : BOOLEAN, boot : {1, MaxBoots}, paused : BOOLEAN,
                     asked : BOOLEAN]
    BY DEF Init
  <2> QED
    BY <2>1, <2>2 DEF Device
<1>2. entry \in Entry
  <2>1. Look([device EXCEPT !.boot = 1]) \in Reading
    BY <1>1, LookType DEF Init
  <2>2. 0 \in Seconds /\ 1 \in Seconds
    BY BoundsAreNatural DEF Seconds
  <2>3. PICK at \in Seconds, seen \in Reading, s \in {"offline", "online"} :
          entry = [listed |-> TRUE, status |-> s, at |-> at, seen |-> seen]
    <3>1. CASE entry = [listed |-> TRUE, status |-> "offline", at |-> 0, seen |-> NoReading]
      BY <2>2, <3>1, NullTypes
    <3>2. CASE entry = [listed |-> TRUE, status |-> "online", at |-> 1,
                        seen |-> Look([device EXCEPT !.boot = 1])]
      BY <2>1, <2>2, <3>2
    <3> QED
      BY <3>1, <3>2 DEF Init
  <2> QED
    BY <2>3 DEF Entry, Status
<1>3. entry.seen.boot \in Boots
  BY <1>2 DEF Entry, Reading
<1> QED
  BY <1>1, <1>2, <1>3, NullTypes, BoundsAreNatural DEF Init, TypeOK, Seconds, Handler

(* A step leaves the state well typed. *)
LEMMA NextType == TypeOK /\ [Next]_vars => TypeOK'
<1> SUFFICES ASSUME TypeOK, [Next]_vars PROVE TypeOK'
  OBVIOUS
<1> USE DEF TypeOK
<1>1. CASE Tick
  BY <1>1, BoundsAreNatural DEF Tick, Seconds
<1>2. CASE Obey \/ GoDown \/ Boot
  <2>1. device' \in Device
    <3>1. CASE Obey \/ GoDown
      BY <1>2, <3>1 DEF Obey, GoDown, SetDevice, Device
    <3>2. CASE Boot
      <4>1. device.boot + 1 \in Boots
        BY <3>2, BoundsAreNatural DEF Boot, Device, Boots
      <4> QED
        BY <3>2, <4>1 DEF Boot, SetDevice, Device
    <3> QED
      BY <1>2, <3>1, <3>2
  <2> QED
    BY <1>2, <2>1 DEF Obey, GoDown, Boot, SetDevice
<1>3. CASE Send
  <2>1. PICK received \in BOOLEAN, change \in Change :
          /\ device' = [device EXCEPT !.due = received]
          /\ handler' = [handler EXCEPT !.pc = "update", !.change = change, !.row = row]
    <3>1. 0 \in Boots /\ handler.pre \in Boots /\ NoEvidence \in Evidence
      BY BoundsAreNatural DEF Boots, Handler, NoEvidence, Evidence
    <3>2. ASSUME NEW n \in Boots, NEW b \in BOOLEAN
          PROVE  /\ Changed("acknowledged", "acknowledged", "pending",
                             [NoEvidence EXCEPT !.pre = n, !.poolHash = b]) \in Change
                 /\ Changed("rejected", "rejected", "failed", NoEvidence) \in Change
                 /\ Changed("dispatch_failed", "not_received", "unknown", NoEvidence) \in Change
      BY <3>1 DEF Changed, Change, States, Acks, Evidence, NoEvidence
    <3>3. (IF command = "restart" THEN handler.pre ELSE 0) \in Boots
          /\ (command = "rollback_pool") \in BOOLEAN
      BY <3>1
    <3>4. Changed("acknowledged", "acknowledged", "pending",
                  [NoEvidence EXCEPT !.pre = IF command = "restart" THEN handler.pre ELSE 0,
                                     !.poolHash = (command = "rollback_pool")]) \in Change
      BY <3>2, <3>3
    <3>5. /\ Changed("rejected", "rejected", "failed", NoEvidence) \in Change
          /\ Changed("dispatch_failed", "not_received", "unknown", NoEvidence) \in Change
      BY <3>1, <3>2
    <3> QED
      BY <1>3, <3>4, <3>5 DEF Send
  <2> QED
    BY <1>3, <2>1 DEF Send, Device, Handler
<1>4. CASE UpdateVerdict
  BY <1>4, UpdatedType DEF UpdateVerdict, Handler
<1>5. CASE Crash
  BY <1>5, NullTypes DEF Crash, Handler
<1>6. ASSUME NEW p \in Pollers, PollStep(p) PROVE TypeOK'
  <2>1. ASSUME NEW e, NEW shorter, Decide(p, e, shorter), UNCHANGED row PROVE TypeOK'
    <3>1. [Idle EXCEPT !.pc = "update", !.row = row,
                       !.change = Decision(poll[p].op, e, shorter)] \in Poll
      BY NullTypes, DecisionType DEF Poll
    <3> QED
      BY <2>1, <3>1 DEF Decide, SetPoll
  <2>2. CASE ReadOperation(p)
    BY <2>2, NullTypes DEF ReadOperation, SetPoll, Poll
  <2>3. CASE ReadTelemetry(p) /\ entry.listed
    <3>1. [poll[p] EXCEPT !.pc = "status", !.at = entry.at, !.seen = entry.seen] \in Poll
      BY DEF Poll, Entry
    <3> QED
      BY <2>3, <3>1 DEF ReadTelemetry, SetPoll
  <2>4. CASE UpdateFromPoll(p)
    BY <2>4, NullTypes, UpdatedType DEF UpdateFromPoll, SetPoll, Poll
  <2> QED
    BY <1>6, <2>1, <2>2, <2>3, <2>4 DEF PollStep, ReadTelemetry, ReadStatus
<1>7. CASE RefreshStep
  <2>1. shown' \in SUBSET {"unreachable", "offline", "match", "mismatch"}
    BY <1>7 DEF RefreshStep, AskDevice, PublishTelemetry, PublishStatus, ClearTelemetry, SetEntry, Shows
  <2>2. 0 \in Seconds
    BY BoundsAreNatural DEF Seconds
  <2>3. refresh' \in Refresh /\ entry' \in Entry
    <3>1. CASE AskDevice
      <4>1. Look(device) \in Reading
        BY LookType
      <4> QED
        BY <3>1, <4>1, NullTypes DEF AskDevice, SetRefresh, Refresh, Entry, Status
    <3>2. CASE PublishTelemetry
      BY <3>2 DEF PublishTelemetry, SetEntry, SetRefresh, Refresh, Entry
    <3>3. CASE PublishStatus
      BY <3>3, NullTypes DEF PublishStatus, SetEntry, SetRefresh, Entry, Status
    <3>4. CASE ClearTelemetry
      BY <3>4, <2>2, NullTypes DEF ClearTelemetry, SetEntry, SetRefresh, Entry
    <3> QED
      BY <1>7, <3>1, <3>2, <3>3, <3>4 DEF RefreshStep
  <2> QED
    BY <1>7, <2>1, <2>3
    DEF RefreshStep, AskDevice, PublishTelemetry, PublishStatus, ClearTelemetry, SetRefresh, SetEntry
<1>8. CASE RemoveDevice
  BY <1>8 DEF RemoveDevice, SetEntry, Shows, Entry
<1>9. CASE UNCHANGED vars
  BY <1>9 DEF vars
<1> QED
  BY <1>1, <1>2, <1>3, <1>4, <1>5, <1>6, <1>7, <1>8, <1>9 DEF Next, Serve, Environment

(***************************************************************************)
(* The state of a reconciled command is well typed, for any number of      *)
(* pollers and every timeout.                                              *)
(***************************************************************************)
THEOREM ReconcileTypes == Spec => []TypeOK
<1> QED
  BY InitType, NextType, PTL DEF Spec

-----------------------------------------------------------------------------
(***************************************************************************)
(* Verdicts                                                                *)
(***************************************************************************)

(* What has been shown stays shown, to every copy of the row. *)
LEMMA SoundStays ==
    ASSUME UNCHANGED <<command, handler>>, shown \subseteq shown', NEW r, IsSound(r)
    PROVE  IsSound(r)'
BY DEF IsSound, IsUndecided, IsShown, IsEvident, IsAcknowledged

(* A poll that sees the status of the entry, and telemetry it read before, finds *)
(* only what was shown, also where the two do not belong together.               *)
LEMMA VerdictIsShown ==
    ASSUME TypeOK, EntryIsSound, NEW op \in Row, IsSound(op),
           NEW at \in Seconds, NEW seen \in Reading, IsBehind(at, seen), IsPublished(at, seen),
           NEW e, e = [listed |-> TRUE, status |-> entry.status, at |-> at, seen |-> seen],
           NEW shorter \in BOOLEAN
    PROVE  /\ IsShown(Reconciliation(op, e, shorter))
           /\ IsEvident([op.evidence EXCEPT !.offlineSeen = OfflineSeen(op, e)])
<1>1. op.evidence \in Evidence /\ op.evidence.pre \in Nat
  BY DEF Row, Evidence, Boots
<1>2. /\ at \in Nat /\ entry.at \in Nat /\ handler.row.ackAt \in Nat
      /\ seen.boot \in Nat /\ entry.seen.boot \in Nat /\ handler.pre \in Nat
      /\ entry.status \in Status
  BY DEF TypeOK, Entry, Reading, Handler, Row, Seconds, Boots
<1>3. op.ack = "acknowledged" => IsAcknowledged /\ op.ackAt = handler.row.ackAt
  BY DEF IsSound
<1>4. ASSUME op.ack = "acknowledged", IsFresh(op, e)
      PROVE  /\ IsLater(at)
             /\ \/ entry.at > handler.row.ackAt /\ seen.boot <= entry.seen.boot
                \/ entry.status = "offline" /\ "offline" \in shown
  BY <1>2, <1>3, <1>4 DEF IsFresh, IsLater, IsBehind
<1>5. OfflineSeen(op, e) => command = "restart" /\ "offline" \in shown
  <2>1. CASE op.evidence.offlineSeen
    BY <2>1 DEF IsSound, IsEvident
  <2>2. CASE ~op.evidence.offlineSeen /\ OfflineSeen(op, e)
    <3>1. op.ack = "acknowledged" /\ entry.status = "offline" /\ IsFresh(op, e) /\ command = "restart"
      BY <2>2 DEF OfflineSeen
    <3>2. CASE entry.at > handler.row.ackAt
      <4>1. Shows(entry) = {"offline"}
        BY <1>2, <1>3, <3>1, <3>2 DEF Shows
      <4> QED
        BY <3>1, <4>1 DEF EntryIsSound
    <3> QED
      BY <1>4, <3>1, <3>2
  <2> QED
    BY <2>1, <2>2
<1>6. IsEvident([op.evidence EXCEPT !.offlineSeen = OfflineSeen(op, e)])
  BY <1>1, <1>5 DEF IsSound, IsEvident, Evidence
<1>7. IsShown(op.recon) /\ IsShown("pending") /\ IsShown("unknown") /\ IsShown(Waiting(op))
  BY DEF IsSound, IsShown, Waiting
<1>8. ASSUME op.ack = "acknowledged", command = "restart"
      PROVE  IsShown(RestartVerdict(op, e, shorter))
  <2>1. CASE IsFresh(op, e) /\ entry.status = "warning"
    <3>1. Shows(entry) = {"mismatch"}
      BY <1>2, <1>3, <1>4, <1>8, <2>1 DEF Shows, IsPoolCommand
    <3> QED
      BY <2>1, <3>1 DEF EntryIsSound, RestartVerdict, IsShown
  <2>2. CASE /\ IsFresh(op, e) /\ entry.status = "online" /\ op.evidence.offlineSeen
             /\ op.evidence.pre > 0 /\ seen.boot > op.evidence.pre /\ shorter
    <3>1. entry.seen.boot > handler.pre /\ "offline" \in shown
      BY <1>1, <1>2, <1>4, <1>8, <2>2 DEF IsSound, IsEvident
    <3>2. Shows(entry) = {"match"}
      BY <1>2, <1>3, <1>4, <1>8, <2>2, <3>1 DEF Shows
    <3> QED
      BY <1>8, <2>2, <3>1, <3>2 DEF EntryIsSound, RestartVerdict, IsShown
  <2>3. CASE ~IsFresh(op, e) \/ entry.status = "offline"
    BY <1>7, <2>3 DEF RestartVerdict
  <2> QED
    BY <1>2, <1>7, <2>1, <2>2, <2>3 DEF RestartVerdict, Status
<1>9. ASSUME op.ack = "acknowledged", command # "restart", entry.status # "offline", IsFresh(op, e)
      PROVE  IsShown(FreshVerdict(op, e))
  <2>1. Says(seen) \in shown
    <3>1. CASE refresh.pc = "status" /\ entry.at = at /\ entry.seen = seen
      <4>1. Shows(entry) = {Says(seen)}
        BY <1>2, <1>3, <1>4, <1>9, <3>1 DEF Shows, Says
      <4> QED
        BY <4>1 DEF EntryIsSound
    <3> QED
      BY <1>4, <1>9, <3>1 DEF IsPublished
  <2>2. CASE command = "pause"
    BY <2>1, <2>2 DEF FreshVerdict, IsShown, Says, IsPoolCommand
  <2>3. CASE command = "identify"
    BY <1>7, <2>3 DEF FreshVerdict
  <2>4. CASE IsPoolCommand
    BY <1>7, <2>1, <2>4 DEF FreshVerdict, PoolVerdict, IsShown, Says, IsPoolCommand
  <2> QED
    BY <1>9, <2>2, <2>3, <2>4, CommandsAreKnown DEF IsPoolCommand, TypeOK
<1> QED
  BY <1>6, <1>7, <1>8, <1>9 DEF Reconciliation, IsShown

(* A decision on a sound copy of the row is sound. *)
LEMMA DecisionIsSound ==
    ASSUME NEW op \in Row, IsSound(op), NEW e, NEW shorter,
           NEW c, c = Decision(op, e, shorter),
           \/ /\ IsShown(Reconciliation(op, e, shorter))
              /\ IsEvident([op.evidence EXCEPT !.offlineSeen = OfflineSeen(op, e)])
           \/ ~e.listed
    PROVE  /\ c.ack = "unchanged"
           /\ handler.pc # "done" => c.recon = "pending"
           /\ IsShown(c.recon) /\ IsEvident(c.evidence)
<1>1. c.recon = Reconciliation(op, e, shorter) /\ c.ack = "unchanged"
      /\ c.evidence = [op.evidence EXCEPT !.offlineSeen = OfflineSeen(op, e)]
  BY DEF Decision, Changed
<1>2. ASSUME handler.pc # "done" PROVE c.recon = "pending"
  BY <1>1, <1>2 DEF IsSound, IsUndecided, Reconciliation
<1>3. ASSUME ~e.listed PROVE IsShown(c.recon) /\ IsEvident(c.evidence)
  <2>1. IsShown(c.recon)
    BY <1>1, <1>3 DEF Reconciliation, Waiting, IsShown, IsSound
  <2>2. op.evidence \in Evidence /\ OfflineSeen(op, e) = op.evidence.offlineSeen
    BY <1>3 DEF OfflineSeen, Row, Evidence
  <2>3. c.evidence = op.evidence
    BY <1>1, <2>2 DEF Evidence
  <2> QED
    BY <2>1, <2>3 DEF IsSound
<1> QED
  BY <1>1, <1>2, <1>3

(* Writing a sound change into a sound copy of the row makes a sound row. *)
LEMMA UpdateIsSound ==
    ASSUME TypeOK, NEW r \in Row, IsSound(r), NEW c, c.ack = "unchanged",
           handler.pc # "done" => c.recon = "pending", IsShown(c.recon), IsEvident(c.evidence)
    PROVE  IsSound(Updated(r, c))
BY DEF IsSound, IsUndecided, Updated

-----------------------------------------------------------------------------
(***************************************************************************)
(* Steps                                                                   *)
(***************************************************************************)

(* What a poll has read or is about to write stays sound while the entry goes on. *)
LEMMA PollsStay ==
    ASSUME TypeOK, Grounds, UNCHANGED <<command, handler, row, poll>>, shown \subseteq shown',
           \A p \in Pollers : ReadingIsSound(p)', HandlerIsSound', EntryIsSound'
    PROVE  Grounds'
<1>1. IsSound(row)'
  BY SoundStays DEF Grounds
<1>2. ASSUME NEW p \in Pollers PROVE PollIsSound(p)'
  <2>1. PollIsSound(p)
    BY DEF Grounds, TypeOK
  <2>2. IsSound(poll[p].op)' /\ IsSound(poll[p].row)'
    BY <2>1, SoundStays DEF PollIsSound
  <2> QED
    BY <2>1, <2>2 DEF PollIsSound, IsShown, IsEvident
<1> QED
  BY <1>1, <1>2 DEF Grounds, TypeOK

(* What was stamped stays in the past. *)
LEMMA ClockStep ==
    ASSUME TypeOK, Grounds, Tick
    PROVE  Grounds'
<1>1. now' > now /\ now' \in Nat /\ now \in Nat
  BY DEF Tick, TypeOK, Seconds
<1>2. HandlerIsSound'
  BY <1>1 DEF Tick, Grounds, HandlerIsSound, IsUndecided, IsEvident, IsAcknowledged, TypeOK,
     Handler, Row, Seconds
<1>3. EntryIsSound'
  BY <1>1 DEF Tick, Grounds, EntryIsSound, Shows, IsAcknowledged, IsPoolCommand, Look,
     IsPublished, IsLater, Says, TypeOK, Entry, Seconds
<1>4. ASSUME NEW p \in Pollers PROVE ReadingIsSound(p)'
  BY <1>1 DEF Tick, Grounds, ReadingIsSound, IsBehind, IsPublished, IsLater, IsAcknowledged, Look,
     IsPoolCommand, Says, TypeOK, Poll, Seconds
<1> QED
  BY <1>2, <1>3, <1>4, PollsStay DEF Tick

(* The device can only begin another boot. *)
LEMMA DeviceStep ==
    ASSUME TypeOK, Grounds, Obey \/ GoDown \/ Boot
    PROVE  Grounds'
<1>1. /\ UNCHANGED <<command, now, entry, refresh, row, handler, poll, shown>>
      /\ device.boot \in Nat /\ device'.boot \in Nat /\ device.boot <= device'.boot
  <2>1. device \in Device /\ device.boot \in Nat
    BY DEF TypeOK, Device, Boots
  <2>2. UNCHANGED <<command, now, entry, refresh, row, handler, poll, shown>>
    BY DEF Obey, GoDown, Boot, SetDevice
  <2>3. CASE Obey \/ GoDown
    <3>1. device'.boot = device.boot
      BY <2>1, <2>3 DEF Obey, GoDown, SetDevice, Device
    <3> QED
      BY <2>1, <2>2, <3>1
  <2>4. CASE Boot
    BY <2>1, <2>2, <2>4 DEF Boot, SetDevice, Device
  <2> QED
    BY <2>3, <2>4
<1>2. Look(device).boot <= Look(device)'.boot /\ Look(device).boot \in Nat /\ Look(device)'.boot \in Nat
  BY <1>1 DEF Look
<1>3. HandlerIsSound'
  BY <1>1 DEF Grounds, HandlerIsSound, IsUndecided, IsEvident, IsAcknowledged
<1>4. EntryIsSound'
  BY <1>1, <1>2 DEF Grounds, EntryIsSound, Shows, IsAcknowledged, IsPoolCommand,
     IsPublished, IsLater, Says, TypeOK, Entry, Reading, Boots, Refresh
<1>5. ASSUME NEW p \in Pollers PROVE ReadingIsSound(p)'
  BY <1>1, <1>2 DEF Grounds, ReadingIsSound, IsBehind, IsPublished, IsLater, IsAcknowledged,
     IsPoolCommand, Says, TypeOK, Poll, Reading, Boots
<1> QED
  BY <1>1, <1>3, <1>4, <1>5, PollsStay

(* Until the verdict is written, the handler changes what nobody relies on. *)
LEMMA HandlerStep ==
    ASSUME TypeOK, Grounds, Send \/ Crash
    PROVE  Grounds'
<1>1. /\ UNCHANGED <<command, now, entry, refresh, row, poll, shown>>
      /\ handler.pc # "done" /\ handler'.pc # "done" /\ handler'.pre = handler.pre
  BY DEF Send, Crash, TypeOK, Handler
<1>2. Look(device)'.boot = Look(device).boot
  BY DEF Send, Crash, Look, TypeOK, Device
<1>3. ASSUME NEW r, IsSound(r) PROVE IsSound(r)'
  BY <1>1, <1>3 DEF IsSound, IsUndecided, IsShown, IsEvident
<1>4. HandlerIsSound'
  <2>1. CASE Crash
    BY <2>1 DEF Crash, HandlerIsSound, IsAcknowledged, IsUndecided, Submitted, TypeOK, Handler
  <2>2. CASE Send
    <3>1. IsUndecided(row)
      BY <1>1 DEF Grounds, IsSound
    <3>2. PICK change :
            /\ handler' = [handler EXCEPT !.pc = "update", !.change = change, !.row = row]
            /\ change.ack # "unchanged" /\ change.recon # "confirmed"
            /\ change.recon \in {"pending", "unknown"} \/ change.ack = "rejected"
            /\ ~change.evidence.offlineSeen /\ change.evidence.pre \in {0, handler.pre}
      <4> DEFINE E == [NoEvidence EXCEPT !.pre = IF command = "restart" THEN handler.pre ELSE 0,
                                         !.poolHash = (command = "rollback_pool")]
      <4>1. /\ ~E.offlineSeen /\ E.pre \in {0, handler.pre}
            /\ ~NoEvidence.offlineSeen /\ NoEvidence.pre = 0
        BY DEF NoEvidence
      <4>2. PICK received \in BOOLEAN, change \in
              {Changed("acknowledged", "acknowledged", "pending", E),
               Changed("rejected", "rejected", "failed", NoEvidence),
               Changed("dispatch_failed", "not_received", "unknown", NoEvidence)} :
              handler' = [handler EXCEPT !.pc = "update", !.change = change, !.row = row]
        BY <2>2 DEF Send
      <4> HIDE DEF E
      <4>3. /\ change.ack # "unchanged" /\ change.recon # "confirmed"
            /\ change.recon \in {"pending", "unknown"} \/ change.ack = "rejected"
            /\ change.evidence \in {E, NoEvidence}
        BY <4>2 DEF Changed
      <4> QED
        BY <4>1, <4>2, <4>3
    <3> QED
      BY <1>1, <3>1, <3>2 DEF HandlerIsSound, IsAcknowledged, IsUndecided, IsEvident, TypeOK, Handler
  <2> QED
    BY <2>1, <2>2
<1>5. EntryIsSound'
  BY <1>1, <1>2 DEF Grounds, EntryIsSound, Shows, IsAcknowledged, IsPublished, IsLater
<1>6. ASSUME NEW p \in Pollers PROVE PollIsSound(p)' /\ ReadingIsSound(p)'
  <2>1. PollIsSound(p) /\ ReadingIsSound(p)
    BY DEF Grounds, TypeOK
  <2>2. IsSound(poll[p].op)' /\ IsSound(poll[p].row)'
    BY <1>1, <1>3, <2>1 DEF PollIsSound
  <2>3. PollIsSound(p)'
    BY <1>1, <2>1, <2>2 DEF PollIsSound, IsShown, IsEvident
  <2>4. ReadingIsSound(p)'
    BY <1>1, <1>2, <2>1 DEF ReadingIsSound, IsBehind, IsPublished, IsLater, IsAcknowledged
  <2> QED
    BY <2>3, <2>4
<1> QED
  BY <1>1, <1>3, <1>4, <1>5, <1>6 DEF Grounds, TypeOK

(* The verdict of the handler is written over whatever polls have written. *)
LEMMA VerdictStep ==
    ASSUME TypeOK, Grounds, UpdateVerdict
    PROVE  Grounds'
<1>1. /\ UNCHANGED <<command, now, entry, refresh, poll, shown, device>>
      /\ handler.pc = "update" /\ handler'.pc = "done" /\ handler'.pre = handler.pre
      /\ handler'.change = handler.change /\ handler'.row = row'
      /\ row' = Updated(handler.row, handler.change)
      /\ now \in Nat \ {0}
  BY DEF UpdateVerdict, TypeOK, Handler, Seconds
<1>2. /\ row'.ack = handler.change.ack /\ row'.recon = handler.change.recon
      /\ row'.evidence = handler.change.evidence
      /\ row'.ack = "acknowledged" => row'.ackAt = now
  BY <1>1 DEF Grounds, HandlerIsSound, IsUndecided, Updated
<1>3. IsSound(row)'
  BY <1>1, <1>2 DEF Grounds, HandlerIsSound, IsSound, IsAcknowledged, IsShown, IsEvident
<1>4. ASSUME NEW r, IsSound(r) PROVE IsSound(r)'
  BY <1>1, <1>4 DEF IsSound, IsUndecided, IsShown, IsEvident
<1>5. HandlerIsSound'
  BY <1>1, <1>2 DEF HandlerIsSound, IsAcknowledged
<1>6. IsAcknowledged' => handler'.row.ackAt = now
  BY <1>1, <1>2 DEF IsAcknowledged
<1>7. entry.at \in Nat /\ entry.at <= now
  BY DEF Grounds, EntryIsSound, TypeOK, Entry, Seconds
<1>8. EntryIsSound'
  BY <1>1, <1>6, <1>7 DEF Grounds, EntryIsSound, Shows, IsPublished, IsLater, Look, IsPoolCommand
<1>9. ASSUME NEW p \in Pollers PROVE PollIsSound(p)' /\ ReadingIsSound(p)'
  <2>1. PollIsSound(p) /\ ReadingIsSound(p) /\ poll[p].at \in Nat
    BY DEF Grounds, TypeOK, Poll, Seconds
  <2>2. IsSound(poll[p].op)' /\ IsSound(poll[p].row)'
    BY <1>1, <1>4, <2>1 DEF PollIsSound
  <2>3. PollIsSound(p)'
    BY <1>1, <2>1, <2>2 DEF PollIsSound, IsShown, IsEvident
  <2>4. ReadingIsSound(p)'
    BY <1>1, <1>6, <2>1 DEF ReadingIsSound, IsBehind, IsPublished, IsLater, Look, IsPoolCommand
  <2> QED
    BY <2>3, <2>4
<1> QED
  BY <1>1, <1>3, <1>5, <1>8, <1>9 DEF Grounds, TypeOK

(* A poll that starts, reads, decides or writes. *)
LEMMA PollStepIsSound ==
    ASSUME TypeOK, Grounds, NEW p \in Pollers, PollStep(p)
    PROVE  Grounds'
<1>1. PollIsSound(p) /\ ReadingIsSound(p) /\ poll[p] \in Poll
  BY DEF Grounds, TypeOK
<1>2. IsSound(Submitted)
  BY DEF Submitted, NoEvidence, IsSound, IsUndecided, IsShown, IsEvident
(* Whatever a poll becomes, the rest is left alone. *)
<1>3. ASSUME NEW q, SetPoll(p, q), IsSound(q.op), IsSound(q.row), IsSound(row'),
             q.pc = "update" =>
               /\ q.change.ack = "unchanged"
               /\ handler.pc # "done" => q.change.recon = "pending"
               /\ IsShown(q.change.recon) /\ IsEvident(q.change.evidence),
             q.pc = "status" => IsBehind(q.at, q.seen) /\ IsPublished(q.at, q.seen)
      PROVE  Grounds'
  <2>1. UNCHANGED <<command, now, device, entry, refresh, handler, shown>>
        /\ poll' = [poll EXCEPT ![p] = q]
    BY <1>3 DEF SetPoll
  <2>2. ASSUME NEW r, IsSound(r) PROVE IsSound(r)'
    BY <2>1, <2>2, SoundStays
  <2>3. IsSound(row)'
    BY <1>3, <2>1 DEF IsSound, IsUndecided, IsShown, IsEvident, IsAcknowledged
  <2>4. HandlerIsSound' /\ EntryIsSound'
    BY <2>1 DEF Grounds, HandlerIsSound, IsUndecided, IsEvident, IsAcknowledged, EntryIsSound,
       Shows, IsPublished, IsLater, Says, Look, IsPoolCommand
  <2>5. ASSUME NEW o \in Pollers PROVE PollIsSound(o)' /\ ReadingIsSound(o)'
    <3>1. CASE o = p
      <4>1. poll'[o] = q
        BY <2>1, <3>1 DEF TypeOK
      <4>2. IsSound(q.op)' /\ IsSound(q.row)'
        BY <1>3, <2>2
      <4>3. PollIsSound(o)'
        BY <1>3, <2>1, <4>1, <4>2 DEF PollIsSound, IsShown, IsEvident
      <4>4. ReadingIsSound(o)'
        BY <1>3, <2>1, <4>1 DEF ReadingIsSound, IsBehind, IsPublished, IsLater, IsAcknowledged,
           Says, Look, IsPoolCommand
      <4> QED
        BY <4>3, <4>4
    <3>2. CASE o # p
      <4>1. poll'[o] = poll[o] /\ PollIsSound(o) /\ ReadingIsSound(o)
        BY <2>1, <3>2 DEF Grounds, TypeOK
      <4>2. IsSound(poll[o].op)' /\ IsSound(poll[o].row)'
        BY <2>1, <2>2, <4>1 DEF PollIsSound
      <4>3. PollIsSound(o)'
        BY <2>1, <4>1, <4>2 DEF PollIsSound, IsShown, IsEvident
      <4>4. ReadingIsSound(o)'
        BY <2>1, <4>1 DEF ReadingIsSound, IsBehind, IsPublished, IsLater, IsAcknowledged,
           Says, Look, IsPoolCommand
      <4> QED
        BY <4>3, <4>4
    <3> QED
      BY <3>1, <3>2
  <2> QED
    BY <2>1, <2>3, <2>4, <2>5 DEF Grounds, TypeOK
<1>4. ASSUME NEW e, NEW shorter \in BOOLEAN, Decide(p, e, shorter), UNCHANGED row,
             \/ /\ IsShown(Reconciliation(poll[p].op, e, shorter))
                /\ IsEvident([poll[p].op.evidence EXCEPT !.offlineSeen = OfflineSeen(poll[p].op, e)])
             \/ ~e.listed
      PROVE  Grounds'
  <2>1. PICK c : c = Decision(poll[p].op, e, shorter)
    OBVIOUS
  <2>2. poll[p].op \in Row /\ IsSound(poll[p].op)
    BY <1>1 DEF Poll, PollIsSound
  <2>3. PICK q : /\ SetPoll(p, q) /\ q.pc = "update" /\ q.op = Submitted
                 /\ q.row = row /\ q.change = c
    <3> DEFINE Q == [Idle EXCEPT !.pc = "update", !.row = row, !.change = c]
    <3>1. SetPoll(p, Q)
      BY <1>4, <2>1 DEF Decide
    <3>2. Q.pc = "update" /\ Q.op = Submitted /\ Q.row = row /\ Q.change = c
      BY DEF Idle
    <3> HIDE DEF Q
    <3> QED
      BY <3>1, <3>2
  <2>4. IsSound(q.row) /\ IsSound(row')
    BY <1>4, <2>3 DEF Grounds
  <2>5. /\ q.change.ack = "unchanged"
        /\ handler.pc # "done" => q.change.recon = "pending"
        /\ IsShown(q.change.recon) /\ IsEvident(q.change.evidence)
    <3>1. PICK op \in Row : op = poll[p].op
      BY <2>2
    <3>2. /\ c.ack = "unchanged"
          /\ handler.pc # "done" => c.recon = "pending"
          /\ IsShown(c.recon) /\ IsEvident(c.evidence)
      <4>1. IsSound(op) /\ c = Decision(op, e, shorter)
        BY <2>1, <2>2, <3>1
      <4>2. \/ /\ IsShown(Reconciliation(op, e, shorter))
               /\ IsEvident([op.evidence EXCEPT !.offlineSeen = OfflineSeen(op, e)])
            \/ ~e.listed
        BY <1>4, <3>1
      <4> QED
        BY <4>1, <4>2, DecisionIsSound
    <3> QED
      BY <2>3, <3>2
  <2> QED
    BY <1>2, <1>3, <2>3, <2>4, <2>5
<1>5. CASE ReadOperation(p)
  <2>1. PICK q : /\ SetPoll(p, q) /\ q.pc = "telemetry" /\ q.op = row /\ q.row = Submitted
    <3> DEFINE Q == [Idle EXCEPT !.pc = "telemetry", !.op = row]
    <3>1. SetPoll(p, Q)
      BY <1>5 DEF ReadOperation
    <3>2. Q.pc = "telemetry" /\ Q.op = row /\ Q.row = Submitted
      BY DEF Idle
    <3> HIDE DEF Q
    <3> QED
      BY <3>1, <3>2
  <2> QED
    BY <1>2, <1>3, <1>5, <2>1 DEF ReadOperation, Grounds
<1>6. CASE ReadTelemetry(p) /\ ~entry.listed
  BY <1>4, <1>6 DEF ReadTelemetry
<1>7. CASE ReadTelemetry(p) /\ entry.listed
  <2>1. PICK q : /\ SetPoll(p, q) /\ q.pc = "status" /\ q.op = poll[p].op /\ q.row = poll[p].row
                 /\ q.at = entry.at /\ q.seen = entry.seen
    <3> DEFINE Q == [poll[p] EXCEPT !.pc = "status", !.at = entry.at, !.seen = entry.seen]
    <3>1. SetPoll(p, Q)
      BY <1>7 DEF ReadTelemetry
    <3>2. /\ Q.pc = "status" /\ Q.op = poll[p].op /\ Q.row = poll[p].row
          /\ Q.at = entry.at /\ Q.seen = entry.seen
      BY <1>1 DEF Poll
    <3> HIDE DEF Q
    <3> QED
      BY <3>1, <3>2
  <2>2. IsBehind(entry.at, entry.seen) /\ IsPublished(entry.at, entry.seen)
    BY DEF Grounds, EntryIsSound, IsBehind, TypeOK, Entry, Reading, Seconds, Boots
  <2> QED
    BY <1>1, <1>3, <1>7, <2>1, <2>2 DEF ReadTelemetry, PollIsSound, Grounds
<1>8. CASE ReadStatus(p)
  <2>1. PICK e, shorter :
          /\ shorter \in BOOLEAN /\ Decide(p, e, shorter)
          /\ e = [listed |-> TRUE, status |-> entry.status, at |-> poll[p].at, seen |-> poll[p].seen]
    BY <1>8 DEF ReadStatus
  <2>2. poll[p].op \in Row /\ poll[p].at \in Seconds /\ poll[p].seen \in Reading
    BY <1>1 DEF Poll
  <2>3. IsSound(poll[p].op) /\ IsBehind(poll[p].at, poll[p].seen) /\ IsPublished(poll[p].at, poll[p].seen)
        /\ EntryIsSound
    BY <1>1, <1>8 DEF ReadStatus, PollIsSound, ReadingIsSound, Grounds
  <2> QED
    BY <1>4, <1>8, <2>1, <2>2, <2>3, VerdictIsShown DEF ReadStatus
<1>9. CASE UpdateFromPoll(p)
  <2>1. poll[p].row \in Row /\ IsSound(poll[p].row)
    BY <1>1 DEF Poll, PollIsSound
  <2>2. IsSound(row')
    BY <1>1, <1>9, <2>1, UpdateIsSound DEF UpdateFromPoll, PollIsSound
  <2> QED
    BY <1>2, <1>3, <1>9, <2>2 DEF UpdateFromPoll, Idle
<1> QED
  BY <1>5, <1>6, <1>7, <1>8, <1>9 DEF PollStep

(* The refresh publishes telemetry, then its status; or clears the entry. *)
LEMMA RefreshStepIsSound ==
    ASSUME TypeOK, Grounds, RefreshStep \/ RemoveDevice
    PROVE  Grounds'
<1>1. /\ UNCHANGED <<command, now, device, row, handler, poll>>
      /\ shown \subseteq shown' /\ Shows(entry)' \subseteq shown'
      /\ Look(device)' = Look(device)
  BY DEF RefreshStep, AskDevice, PublishTelemetry, PublishStatus, ClearTelemetry, RemoveDevice,
     SetRefresh, SetEntry, Shows, IsAcknowledged, IsPoolCommand, Look, Grounds, EntryIsSound
<1>2. HandlerIsSound'
  BY <1>1 DEF Grounds, HandlerIsSound, IsUndecided, IsEvident, IsAcknowledged
<1>3. EntryIsSound /\ refresh \in Refresh /\ entry \in Entry /\ now \in Nat \ {0}
      /\ Look(device).boot \in Nat /\ entry.at \in Nat /\ entry.seen.boot \in Nat
      /\ handler.row.ackAt \in Nat
  BY DEF Grounds, TypeOK, Seconds, Entry, Look, Device, Boots, Reading, Handler, Row
<1>4. ASSUME EntryIsSound',
             \A at \in Seconds, seen \in Reading :
                IsBehind(at, seen) /\ IsPublished(at, seen) =>
                  IsBehind(at, seen)' /\ IsPublished(at, seen)'
      PROVE  Grounds'
  <2>1. ASSUME NEW p \in Pollers PROVE ReadingIsSound(p)'
    <3>1. poll[p].at \in Seconds /\ poll[p].seen \in Reading /\ ReadingIsSound(p)
          /\ poll'[p] = poll[p]
      BY <1>1 DEF TypeOK, Poll, Grounds
    <3>2. PICK at \in Seconds, seen \in Reading : at = poll[p].at /\ seen = poll[p].seen
      BY <3>1
    <3>3. poll[p].pc = "status" => IsBehind(at, seen)' /\ IsPublished(at, seen)'
      BY <1>4, <3>1, <3>2 DEF ReadingIsSound
    <3> QED
      BY <3>1, <3>2, <3>3 DEF ReadingIsSound, IsBehind, IsPublished
  <2> QED
    BY <1>1, <1>2, <1>4, <2>1, PollsStay
<1>5. CASE AskDevice
  <2>1. refresh.pc = "idle"
    BY <1>5 DEF AskDevice
  <2>2. CASE device.up
    <3>1. entry' = entry /\ shown' = shown /\ refresh'.pc = "reply" /\ refresh'.seen.boot = Look(device).boot
      BY <1>5, <2>2 DEF AskDevice, SetRefresh
    <3>2. EntryIsSound'
      BY <1>1, <1>3, <2>1, <3>1 DEF EntryIsSound, Shows, IsPublished, IsLater, Says, IsAcknowledged,
         IsPoolCommand
    <3>3. ASSUME NEW at \in Seconds, NEW seen \in Reading, IsBehind(at, seen), IsPublished(at, seen)
          PROVE  IsBehind(at, seen)' /\ IsPublished(at, seen)'
      BY <1>1, <1>3, <2>1, <3>1, <3>3 DEF IsBehind, IsPublished, IsLater, Says, IsAcknowledged, IsPoolCommand
    <3> QED
      BY <1>4, <3>2, <3>3
  <2>3. CASE ~device.up
    <3>1. /\ entry'.at = entry.at /\ entry'.seen = entry.seen /\ entry'.status = "offline"
          /\ refresh'.pc = "clear"
      BY <1>3, <1>5, <2>3 DEF AskDevice, SetRefresh, Entry
    <3>2. EntryIsSound'
      BY <1>1, <1>3, <2>1, <3>1 DEF EntryIsSound, IsPublished, IsLater, Says, IsAcknowledged, IsPoolCommand
    <3>3. ASSUME NEW at \in Seconds, NEW seen \in Reading, IsBehind(at, seen), IsPublished(at, seen)
          PROVE  IsBehind(at, seen)' /\ IsPublished(at, seen)'
      BY <1>1, <1>3, <2>1, <3>1, <3>3 DEF IsBehind, IsPublished, IsLater, Says, IsAcknowledged, IsPoolCommand
    <3> QED
      BY <1>4, <3>2, <3>3
  <2> QED
    BY <2>2, <2>3
(* Telemetry goes forward; what was read before has been shown already. *)
<1>6. CASE PublishTelemetry
  <2>1. /\ refresh.pc = "reply" /\ refresh'.pc = "status"
        /\ entry'.at = now /\ entry'.seen = refresh.seen
        /\ refresh.seen.boot \in Nat
    BY <1>3, <1>6 DEF PublishTelemetry, SetRefresh, SetEntry, Entry, Refresh, Reading, Boots
  <2>2. EntryIsSound'
    BY <1>1, <1>3, <2>1 DEF EntryIsSound, IsPublished
  <2>3. ASSUME NEW at \in Seconds, NEW seen \in Reading, IsBehind(at, seen), IsPublished(at, seen)
        PROVE  IsBehind(at, seen)' /\ IsPublished(at, seen)'
    BY <1>1, <1>3, <2>1, <2>3 DEF IsBehind, IsPublished, IsLater, Says, IsAcknowledged, IsPoolCommand
  <2> QED
    BY <1>4, <2>2, <2>3
(* The status shows what the telemetry says. *)
<1>7. CASE PublishStatus
  <2>1. /\ refresh.pc = "status" /\ refresh'.pc = "idle"
        /\ entry'.at = entry.at /\ entry'.seen = entry.seen /\ entry'.status \in {"online", "warning"}
    BY <1>3, <1>7 DEF PublishStatus, SetRefresh, SetEntry, Entry, NoRefresh
  <2>2. ASSUME NEW at, NEW seen, IsPublished(at, seen)
        PROVE  IsPublished(at, seen)'
    <3>1. CASE IsLater(at) /\ command # "restart" => Says(seen) \in shown
      BY <1>1, <3>1 DEF IsPublished, IsLater, Says, IsAcknowledged, IsPoolCommand
    <3>2. CASE entry.at = at /\ entry.seen = seen /\ IsLater(at) /\ command # "restart"
      <4>1. Says(seen) \in Shows(entry)'
        BY <1>1, <1>3, <2>1, <3>2 DEF Shows, Says, IsLater, IsAcknowledged, IsPoolCommand
      <4> QED
        BY <1>1, <4>1 DEF IsPublished, Says, IsPoolCommand
    <3> QED
      BY <2>2, <3>1, <3>2 DEF IsPublished
  <2>3. EntryIsSound'
    <3>1. IsPublished(entry.at, entry.seen)'
      <4>1. PICK at, seen : at = entry.at /\ seen = entry.seen
        OBVIOUS
      <4>2. IsPublished(at, seen)'
        BY <1>3, <2>2, <4>1 DEF EntryIsSound
      <4> QED
        BY <2>1, <4>1, <4>2 DEF IsPublished
    <3> QED
      BY <1>1, <1>3, <2>1, <3>1 DEF EntryIsSound
  <2>4. ASSUME NEW at \in Seconds, NEW seen \in Reading, IsBehind(at, seen)
        PROVE  IsBehind(at, seen)'
    BY <1>1, <1>3, <2>1, <2>4 DEF IsBehind
  <2> QED
    BY <1>4, <2>2, <2>3, <2>4
(* What was read before is from now on judged as offline, and that was shown. *)
<1>8. CASE ClearTelemetry
  <2>1. /\ refresh.pc = "clear" /\ refresh'.pc = "idle" /\ entry.status = "offline"
        /\ entry'.at = 0 /\ entry'.seen.boot = 0 /\ entry'.status = "offline"
    BY <1>3, <1>8 DEF ClearTelemetry, SetRefresh, SetEntry, Entry, NoRefresh, NoReading, EntryIsSound
  <2>2. ASSUME NEW at, NEW seen, IsPublished(at, seen)
        PROVE  IsPublished(at, seen)'
    BY <1>1, <2>1, <2>2 DEF IsPublished, IsLater, Says, IsAcknowledged, IsPoolCommand
  <2>3. EntryIsSound'
    BY <1>1, <1>3, <2>1 DEF EntryIsSound, IsPublished, IsLater
  <2>4. ASSUME NEW at \in Seconds, NEW seen \in Reading, IsBehind(at, seen)
        PROVE  IsBehind(at, seen)'
    <3>1. at \in Nat
      BY DEF Seconds
    <3>2. IsLater(at) => "offline" \in shown
      <4>1. CASE IsLater(at) /\ at <= entry.at
        <5>1. Shows(entry) = {"offline"}
          BY <1>3, <2>1, <3>1, <4>1 DEF Shows, IsLater
        <5> QED
          BY <1>3, <5>1 DEF EntryIsSound
      <4> QED
        BY <2>4, <4>1 DEF IsBehind
    <3> QED
      BY <1>1, <1>3, <2>1, <2>4, <3>1, <3>2 DEF IsBehind, IsLater, IsAcknowledged
  <2> QED
    BY <1>4, <2>2, <2>3, <2>4
<1>9. CASE RemoveDevice
  <2>1. /\ refresh' = refresh /\ entry'.at = entry.at /\ entry'.seen = entry.seen
        /\ entry'.status = entry.status
    BY <1>3, <1>9 DEF RemoveDevice, SetEntry, Entry
  <2>2. EntryIsSound'
    BY <1>1, <1>3, <2>1 DEF EntryIsSound, IsPublished, IsLater, Says, IsAcknowledged, IsPoolCommand
  <2>3. ASSUME NEW at \in Seconds, NEW seen \in Reading, IsBehind(at, seen), IsPublished(at, seen)
        PROVE  IsBehind(at, seen)' /\ IsPublished(at, seen)'
    BY <1>1, <1>3, <2>1, <2>3 DEF IsBehind, IsPublished, IsLater, Says, IsAcknowledged, IsPoolCommand
  <2> QED
    BY <1>4, <2>2, <2>3
<1> QED
  BY <1>5, <1>6, <1>7, <1>8, <1>9 DEF RefreshStep

-----------------------------------------------------------------------------
(***************************************************************************)
(* Results                                                                 *)
(***************************************************************************)

(* Before the command is sent nobody has read or shown anything. *)
LEMMA GroundsInit == Init => Grounds
<1> SUFFICES ASSUME Init PROVE Grounds
  OBVIOUS
<1>1. handler.pc = "send" /\ handler.row = Submitted /\ row = Submitted
      /\ refresh.pc = "idle" /\ handler.pre = entry.seen.boot
  BY DEF Init, NoRefresh
<1>2. IsSound(Submitted)
  BY DEF Submitted, NoEvidence, IsSound, IsUndecided, IsShown, IsEvident
<1>3. HandlerIsSound
  BY <1>1 DEF HandlerIsSound, IsUndecided, IsAcknowledged, Submitted
<1>4. EntryIsSound
  <2>1. ~IsAcknowledged /\ Shows(entry) = {}
    BY <1>1 DEF IsAcknowledged, Shows
  <2>2. device.boot \in {1, MaxBoots} /\ device.boot \in Nat /\ device.boot >= 1 /\ now = 1
    BY BoundsAreNatural DEF Init
  <2>3. entry.at <= now /\ entry.seen.boot <= Look(device).boot
    <3>1. CASE entry = [listed |-> TRUE, status |-> "offline", at |-> 0, seen |-> NoReading]
      BY <2>2, <3>1 DEF NoReading, Look
    <3>2. CASE entry = [listed |-> TRUE, status |-> "online", at |-> 1,
                        seen |-> Look([device EXCEPT !.boot = 1])]
      <4>1. Look([device EXCEPT !.boot = 1]).boot <= Look(device).boot
        <5>1. [device EXCEPT !.boot = 1].boot = 1
          BY DEF Init
        <5> QED
          BY <2>2, <5>1 DEF Look
      <4> QED
        BY <2>2, <3>2, <4>1
    <3> QED
      BY <3>1, <3>2 DEF Init
  <2> QED
    BY <1>1, <2>1, <2>3 DEF EntryIsSound, IsPublished, IsLater
<1>5. ASSUME NEW p \in Pollers PROVE PollIsSound(p) /\ ReadingIsSound(p)
  BY <1>2 DEF Init, Idle, PollIsSound, ReadingIsSound
<1> QED
  BY <1>1, <1>2, <1>3, <1>4, <1>5 DEF Grounds, Init

(***************************************************************************)
(* The inductive invariant: every copy of the row that anyone holds is     *)
(* sound, and the telemetry goes forward until it is cleared.              *)
(***************************************************************************)
THEOREM ReconcileInvariance == Spec => [](TypeOK /\ Grounds)
<1>1. Init => TypeOK /\ Grounds
  BY InitType, GroundsInit
<1>2. TypeOK /\ Grounds /\ [Next]_vars => (TypeOK /\ Grounds)'
  <2> SUFFICES ASSUME TypeOK, Grounds, [Next]_vars PROVE Grounds'
    BY NextType
  <2>1. CASE UNCHANGED vars
    BY <2>1 DEF vars, Grounds, IsSound, IsUndecided, IsShown, IsEvident, IsAcknowledged,
       HandlerIsSound, EntryIsSound, Shows, IsPublished, IsLater, Says, Look, IsPoolCommand,
       PollIsSound, ReadingIsSound, IsBehind
  <2>2. CASE Next
    BY <2>2, ClockStep, DeviceStep, HandlerStep, VerdictStep, PollStepIsSound, RefreshStepIsSound
    DEF Next, Serve, Environment
  <2> QED
    BY <2>1, <2>2
<1> QED
  BY <1>1, <1>2, PTL DEF Spec

(***************************************************************************)
(* The status of an operation never claims an ACK that the adapter did not *)
(* give, whichever of its writers writes last.                             *)
(***************************************************************************)
THEOREM AcksGiven == Spec => []AcksAreGiven
<1>1. Grounds => AcksAreGiven
  BY DEF Grounds, IsSound, IsAcknowledged, AcksAreGiven
<1> QED
  BY <1>1, ReconcileInvariance, PTL

(***************************************************************************)
(* A verdict rests on evidence shown after the ACK, for any number of      *)
(* overlapping polls.  A rollback is excluded: the loss that EvidenceIsKept *)
(* shows makes it fail although the device has the pool it was rolled back *)
(* to.                                                                     *)
(***************************************************************************)
THEOREM VerdictsGrounded ==
    ASSUME "rollback_pool" \notin Commands
    PROVE  Spec => []VerdictsAreGrounded
<1>1. TypeOK /\ Grounds => VerdictsAreGrounded
  BY DEF TypeOK, Grounds, IsSound, IsShown, VerdictsAreGrounded
<1> QED
  BY <1>1, ReconcileInvariance, PTL

(***************************************************************************)
(* No command is confirmed unshown, a rollback included.                   *)
(***************************************************************************)
THEOREM ConfirmedIsShown ==
    Spec => [](row.recon = "confirmed" =>
                 "match" \in shown /\ (command = "restart" => "offline" \in shown))
<1>1. Grounds => (row.recon = "confirmed" =>
                    "match" \in shown /\ (command = "restart" => "offline" \in shown))
  BY DEF Grounds, IsSound, IsShown
<1> QED
  BY <1>1, ReconcileInvariance, PTL
=============================================================================
