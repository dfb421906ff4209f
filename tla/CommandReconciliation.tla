----------------------- MODULE CommandReconciliation -----------------------
(***************************************************************************)
(* One physical command after its claim: the handler that sends it and     *)
(* writes its verdict, the status polls that reconcile it with telemetry   *)
(* (reconcile_device_command), and the registry refresh that feeds them    *)
(* (api_refresh_device).  All of them are threads of one server; they      *)
(* share the ledger row through SQLite and the registry entry, a live      *)
(* object, through memory, and hold no lock across their steps.            *)
(*                                                                         *)
(* A status poll can run before the verdict is written: a retry that       *)
(* carries the idempotency key of a request still in flight is told the    *)
(* operation_id.  update_operation reads the row and writes it back in two *)
(* transactions, so every writer here copies the row in one step and       *)
(* writes it in a later one.  A step that touches only what no other       *)
(* process reads is joined to the step next to it.                         *)
(* Time is counted in the whole seconds the code compares.                 *)
(***************************************************************************)
EXTENDS Naturals

CONSTANTS
    Commands,      \* the actions an operation may have
    PoolReported,  \* does the adapter report url, port and user of the pool?
    Removable,     \* may an operator remove the device from the registry?
    Pollers,       \* concurrent status requests
    Timeout,       \* COMMAND_RECONCILIATION_TIMEOUT_SECONDS
    Horizon,       \* bound: the last second modelled
    MaxBoots       \* bound: how often the device boots

ASSUME CommandsAreKnown ==
    Commands \subseteq {"restart", "pause", "identify", "update_pool", "rollback_pool"}
ASSUME BoundsAreNatural ==
    Timeout \in Nat /\ Horizon \in Nat \ {0} /\ MaxBoots \in Nat \ {0}
ASSUME SwitchesAreBoolean == PoolReported \in BOOLEAN /\ Removable \in BOOLEAN

VARIABLES
    command,    \* the action of the operation
    now,        \* the clock of the server
    device,     \* the miner itself
    entry,      \* its entry in the core registry
    refresh,    \* the registry refresh in progress
    row,        \* the row of external_operations
    handler,    \* the request that sends the command
    poll,       \* the status requests in progress
    shown       \* history: what fresh telemetry has shown since the ACK

vars == <<command, now, device, entry, refresh, row, handler, poll, shown>>

-----------------------------------------------------------------------------

IsPoolCommand == command \in {"update_pool", "rollback_pool"}

Seconds == 0..Horizon   \* 0 is also "no timestamp"
Boots == 0..MaxBoots    \* 0 is also "no uptime"

(* Telemetry, as far as it is compared; uptime is known by the boot it counts from. *)
Reading == [boot : Boots, paused : BOOLEAN, asked : BOOLEAN]
NoReading == [boot |-> 0, paused |-> FALSE, asked |-> FALSE]

(* The device: asked is the pool the command asks for, due a command it still has to obey. *)
Device == [up : BOOLEAN, due : BOOLEAN, boot : Boots, paused : BOOLEAN, asked : BOOLEAN]

Status == {"online", "warning", "offline"}
Entry == [listed : BOOLEAN, status : Status, at : Seconds, seen : Reading]

(* safe_result, as far as reconciliation reads it back. *)
Evidence == [offlineSeen : BOOLEAN, pre : Boots, poolHash : BOOLEAN]
NoEvidence == [offlineSeen |-> FALSE, pre |-> 0, poolHash |-> FALSE]

States == {"submitting", "acknowledged", "rejected", "dispatch_failed",
           "reconciled", "reconciliation_failed"}
Acks == {"not_received", "acknowledged", "rejected"}
Row == [state : States, ack : Acks, recon : {"pending", "unknown", "failed", "confirmed"},
        ackAt : Seconds, evidence : Evidence]

Submitted == [state |-> "submitting", ack |-> "not_received", recon |-> "pending",
              ackAt |-> 0, evidence |-> NoEvidence]

(* The arguments of update_operation. *)
Change == [state : States, ack : Acks \cup {"unchanged"},
           recon : {"pending", "unknown", "failed", "confirmed"}, evidence : Evidence]
Changed(s, a, c, e) == [state |-> s, ack |-> a, recon |-> c, evidence |-> e]
NoChange == Changed("submitting", "unchanged", "pending", NoEvidence)

Handler == [pc : {"send", "update", "done", "crashed"},
            pre : Boots, change : Change, row : Row]
Poll == [pc : {"idle", "telemetry", "status", "update"},
         op : Row, at : Seconds, seen : Reading, change : Change, row : Row]
Idle == [pc |-> "idle", op |-> Submitted, at |-> 0, seen |-> NoReading,
         change |-> NoChange, row |-> Submitted]
Refresh == [pc : {"idle", "reply", "status", "clear"}, seen : Reading]
NoRefresh == [pc |-> "idle", seen |-> NoReading]

TypeOK ==
    /\ command \in Commands
    /\ now \in Seconds \ {0}
    /\ device \in Device
    /\ entry \in Entry
    /\ refresh \in Refresh
    /\ row \in Row
    /\ handler \in Handler
    /\ poll \in [Pollers -> Poll]
    /\ shown \in SUBSET {"unreachable", "offline", "match", "mismatch"}

-----------------------------------------------------------------------------

(* A reading of the device, restricted to what the command is compared with. *)
Look(d) == [boot   |-> IF command = "restart" THEN d.boot ELSE 0,
            paused |-> command = "pause" /\ d.paused,
            asked  |-> IsPoolCommand /\ d.asked]

(* The registry last saw the device in its first boot, or has never seen it; *)
(* the device has the asked pool only if it is sent it.                      *)
Init ==
    /\ command \in Commands
    /\ now = 1
    /\ device \in [up : {TRUE}, due : {FALSE}, boot : {1, MaxBoots}, paused : {FALSE, command = "pause"},
                   asked : {FALSE}]
    /\ \/ entry = [listed |-> TRUE, status |-> "offline", at |-> 0, seen |-> NoReading]
       \/ entry = [listed |-> TRUE, status |-> "online", at |-> 1,
                   seen |-> Look([device EXCEPT !.boot = 1])]
    /\ refresh = NoRefresh
    /\ row = Submitted
    /\ handler = [pc |-> "send", pre |-> entry.seen.boot, change |-> NoChange, row |-> Submitted]
    /\ poll = [p \in Pollers |-> Idle]
    /\ shown = {}

-----------------------------------------------------------------------------
(***************************************************************************)
(* update_operation: the new row from the row read by its SELECT           *)
(***************************************************************************)
UpdatedAsAcknowledged(current, change) ==  \* mutant: no ack_state means acknowledged
    [state |-> change.state,
     ack   |-> IF change.ack = "unchanged" THEN "acknowledged" ELSE change.ack,
     recon |-> change.recon,
     ackAt |-> current.ackAt,
     evidence |-> change.evidence]

Updated(current, change) ==
    LET ack == IF change.ack = "unchanged" THEN current.ack ELSE change.ack IN
    [state    |-> change.state,
     ack      |-> ack,
     recon    |-> change.recon,
     ackAt    |-> IF ack = "acknowledged" /\ current.ackAt = 0 THEN now ELSE current.ackAt,
     evidence |-> change.evidence]

(***************************************************************************)
(* reconcile_device_command: what a status request makes of the row op it  *)
(* read and of the registry entry e.  A later boot has the smaller uptime  *)
(* only until it has run as long as the earlier one: shorter says whether. *)
(***************************************************************************)
IsNewEnough(op, e) == e.at # 0 /\ e.at >= op.ackAt     \* mutant: off by one second
IsTimedOutReversed(op) == op.ackAt - now > Timeout     \* mutant: swapped difference
IsFresh(op, e) == e.at # 0 /\ e.at > op.ackAt
IsTimedOut(op) == op.ackAt # 0 /\ now - op.ackAt > Timeout
Waiting(op) == IF IsTimedOut(op) THEN "unknown" ELSE "pending"

(* Proof of a reboot so far: the device was seen offline after the ACK. *)
OfflineSeen(op, e) ==
    \/ op.evidence.offlineSeen
    \/ /\ command = "restart"
       /\ op.ack = "acknowledged"
       /\ e.listed /\ e.status = "offline" /\ IsFresh(op, e)

(* Mutant: a shorter uptime alone proves the restart. *)
RestartVerdictByUptime(op, e, shorter) ==
    IF e.status = "offline" \/ ~IsFresh(op, e) THEN Waiting(op)
    ELSE IF e.status # "online" THEN "failed"
    ELSE IF op.evidence.pre > 0 /\ e.seen.boot > op.evidence.pre /\ shorter THEN "confirmed"
    ELSE Waiting(op)

RestartVerdict(op, e, shorter) ==
    IF e.status = "offline" \/ ~IsFresh(op, e) THEN Waiting(op)
    ELSE IF e.status # "online" THEN "failed"
    ELSE IF ~op.evidence.offlineSeen THEN "pending"
    ELSE IF op.evidence.pre > 0 /\ e.seen.boot > op.evidence.pre /\ shorter THEN "confirmed"
    ELSE Waiting(op)

PoolVerdict(op, e) ==
    IF ~PoolReported THEN "unknown"
    ELSE IF (command = "rollback_pool" => op.evidence.poolHash) /\ e.seen.asked
         THEN "confirmed" ELSE "failed"

FreshVerdict(op, e) ==
    CASE command = "pause"    -> IF e.seen.paused THEN "confirmed" ELSE "failed"
      [] command = "identify" -> "unknown"
      [] OTHER                -> PoolVerdict(op, e)

Reconciliation(op, e, shorter) ==
    IF op.ack # "acknowledged"      THEN op.recon
    ELSE IF ~e.listed               THEN Waiting(op)
    ELSE IF command = "restart"     THEN RestartVerdict(op, e, shorter)
    ELSE IF e.status = "offline"    THEN "unknown"
    ELSE IF IsFresh(op, e)          THEN FreshVerdict(op, e)
    ELSE Waiting(op)

(* Mutant: the reconciliation state is written to the state column, too. *)
DecisionAsState(op, e, shorter) ==
    LET recon == Reconciliation(op, e, shorter)
    IN  Changed(recon, "unchanged", recon, op.evidence)

Decision(op, e, shorter) ==
    LET recon == Reconciliation(op, e, shorter) IN
    Changed(CASE recon = "confirmed" -> "reconciled"
              [] recon = "failed"    -> "reconciliation_failed"
              [] OTHER               -> "acknowledged",
            "unchanged",
            recon,
            [op.evidence EXCEPT !.offlineSeen = OfflineSeen(op, e)])

-----------------------------------------------------------------------------
(***************************************************************************)
(* History                                                                 *)
(***************************************************************************)

IsAcknowledged == handler.pc = "done" /\ handler.change.ack = "acknowledged"

(* What the entry shows to a reader who compares it with the ACK of the row. *)
Shows(e) ==
    IF ~IsAcknowledged \/ e.at <= handler.row.ackAt THEN {}
    ELSE IF e.status = "offline" THEN {"offline"}
    ELSE IF \/ command = "pause" /\ e.seen.paused
            \/ command = "restart" /\ e.status = "online" /\ e.seen.boot > handler.pre
            \/ IsPoolCommand /\ e.seen.asked
         THEN {"match"} ELSE {"mismatch"}

SetEntry(e) == entry' = e /\ shown' = shown \cup Shows(e)

-----------------------------------------------------------------------------
(***************************************************************************)
(* The device and the clock                                                *)
(***************************************************************************)
Tick ==
    /\ now < Horizon
    /\ now' = now + 1
    /\ UNCHANGED <<command, device, entry, refresh, row, handler, poll, shown>>

SetDevice(d) ==
    /\ device' = d
    /\ UNCHANGED <<command, now, entry, refresh, row, handler, poll, shown>>

(* The device does what it was sent, or forgets it. *)
Obey ==
    /\ device.up /\ device.due
    /\ \/ command = "pause" /\ SetDevice([device EXCEPT !.due = FALSE, !.paused = TRUE])
       \/ command = "restart" /\ SetDevice([device EXCEPT !.due = FALSE, !.up = FALSE])
       \/ IsPoolCommand /\ SetDevice([device EXCEPT !.due = FALSE, !.asked = TRUE])
       \/ SetDevice([device EXCEPT !.due = FALSE])

(* It can lose its power or its network at any time. *)
GoDown ==
    /\ device.up
    /\ device.boot < MaxBoots
    /\ SetDevice([device EXCEPT !.up = FALSE, !.due = FALSE])

(* A device that was down mines again, whatever it did before. *)
Boot ==
    /\ ~device.up
    /\ device.boot < MaxBoots
    /\ SetDevice([device EXCEPT !.up = TRUE, !.boot = @ + 1, !.paused = FALSE])

-----------------------------------------------------------------------------
(***************************************************************************)
(* The handler, from the adapter call on                                   *)
(***************************************************************************)

(* adapter.execute_command, whose command the device may have received whatever *)
(* the reply is, and the SELECT of update_operation.                            *)
Send ==
    /\ handler.pc = "send"
    /\ \E received \in BOOLEAN, change \in
            {Changed("acknowledged", "acknowledged", "pending",
                     [NoEvidence EXCEPT !.pre = IF command = "restart" THEN handler.pre ELSE 0,
                                        !.poolHash = (command = "rollback_pool")]),
             Changed("rejected", "rejected", "failed", NoEvidence),
             Changed("dispatch_failed", "not_received", "unknown", NoEvidence)} :
         /\ device.up \/ ~received
         /\ device' = [device EXCEPT !.due = received]
         /\ handler' = [handler EXCEPT !.pc = "update", !.change = change, !.row = row]
    /\ UNCHANGED <<command, now, entry, refresh, row, poll, shown>>

UpdateVerdict ==
    /\ handler.pc = "update"
    /\ row' = Updated(handler.row, handler.change)
    /\ handler' = [handler EXCEPT !.pc = "done", !.row = row']
    /\ UNCHANGED <<command, now, device, entry, refresh, poll, shown>>

(* The worker dies: the verdict is never written. *)
Crash ==
    /\ handler.pc \in {"send", "update"}
    /\ handler' = [handler EXCEPT !.pc = "crashed", !.change = NoChange, !.row = Submitted]
    /\ UNCHANGED <<command, now, device, entry, refresh, row, poll, shown>>

-----------------------------------------------------------------------------
(***************************************************************************)
(* A status request                                                        *)
(***************************************************************************)
SetPoll(p, q) ==
    /\ poll' = [poll EXCEPT ![p] = q]
    /\ UNCHANGED <<command, now, device, entry, refresh, handler, shown>>

(* get_operation; a confirmed row is answered at once, without a write. *)
ReadOperation(p) ==
    /\ poll[p].pc = "idle"
    /\ row.recon # "confirmed"
    /\ SetPoll(p, [Idle EXCEPT !.pc = "telemetry", !.op = row])
    /\ UNCHANGED row

(* The request decides; log_audit follows, and the SELECT of update_operation. *)
Decide(p, e, shorter) ==
    SetPoll(p, [Idle EXCEPT !.pc = "update", !.row = row,
                            !.change = Decision(poll[p].op, e, shorter)])

(* get_device and _observed_device_state read the telemetry of the entry ... *)
ReadTelemetry(p) ==
    /\ poll[p].pc = "telemetry"
    /\ IF entry.listed
       THEN SetPoll(p, [poll[p] EXCEPT !.pc = "status", !.at = entry.at, !.seen = entry.seen])
       ELSE Decide(p, entry, FALSE)
    /\ UNCHANGED row

(* ... then its status. *)
ReadStatus(p) ==
    /\ poll[p].pc = "status"
    /\ \E shorter \in BOOLEAN :
         Decide(p, [listed |-> TRUE, status |-> entry.status,
                    at |-> poll[p].at, seen |-> poll[p].seen], shorter)
    /\ UNCHANGED row

UpdateFromPoll(p) ==
    /\ poll[p].pc = "update"
    /\ row' = Updated(poll[p].row, poll[p].change)
    /\ SetPoll(p, Idle)

-----------------------------------------------------------------------------
(***************************************************************************)
(* api_refresh_device: one at a time                                       *)
(***************************************************************************)
SetRefresh(r) ==
    /\ refresh' = r
    /\ UNCHANGED <<command, now, device, row, handler, poll>>

(* get_telemetry: the device answers with its present state, or not at all. *)
AskDevice ==
    /\ refresh.pc = "idle"
    /\ entry.listed
    /\ IF device.up
       THEN /\ SetRefresh([pc |-> "reply", seen |-> Look(device)])
            /\ UNCHANGED <<entry, shown>>
       ELSE /\ SetRefresh([pc |-> "clear", seen |-> NoReading])
            /\ entry' = [entry EXCEPT !.status = "offline"]
            /\ shown' = shown \cup Shows(entry') \cup
                          (IF IsAcknowledged THEN {"unreachable"} ELSE {})

(* The reply has travelled; it is stamped with the time of its arrival. *)
PublishTelemetry ==
    /\ refresh.pc = "reply"
    /\ SetRefresh([refresh EXCEPT !.pc = "status"])
    /\ SetEntry([entry EXCEPT !.at = now, !.seen = refresh.seen])

(* ... and update_device, which lists the entry even if it was removed meanwhile. *)
PublishStatus ==
    /\ refresh.pc = "status"
    /\ SetRefresh(NoRefresh)
    /\ \E s \in {"online", "warning"} :
         SetEntry([entry EXCEPT !.status = s, !.listed = TRUE])

(* An unreachable device keeps no telemetry. *)
ClearTelemetry ==
    /\ refresh.pc = "clear"
    /\ SetRefresh(NoRefresh)
    /\ SetEntry([entry EXCEPT !.at = 0, !.seen = NoReading, !.listed = TRUE])

(* remove_device *)
RemoveDevice ==
    /\ Removable
    /\ entry.listed
    /\ SetEntry([entry EXCEPT !.listed = FALSE])
    /\ UNCHANGED <<command, now, device, refresh, row, handler, poll>>

-----------------------------------------------------------------------------
Serve == Send \/ UpdateVerdict

PollStep(p) ==
    \/ ReadOperation(p)
    \/ ReadTelemetry(p)
    \/ ReadStatus(p)
    \/ UpdateFromPoll(p)

RefreshStep ==
    \/ AskDevice
    \/ PublishTelemetry
    \/ PublishStatus
    \/ ClearTelemetry

Environment == Tick \/ Obey \/ GoDown \/ Boot \/ Crash \/ RemoveDevice

Next ==
    \/ Serve
    \/ \E p \in Pollers : PollStep(p)
    \/ RefreshStep
    \/ Environment

Spec == Init /\ [][Next]_vars

(***************************************************************************)
(* Time passes, and the client repeats its status request until the row is *)
(* confirmed.  Nothing forces a refresh, and a worker may die.             *)
(***************************************************************************)
FairSpec ==
    /\ Spec
    /\ WF_vars(Tick)
    /\ \A p \in Pollers : WF_vars(PollStep(p))

-----------------------------------------------------------------------------
(***************************************************************************)
(* Properties                                                              *)
(***************************************************************************)

(* A verdict of the status endpoint rests on evidence: whatever polls,      *)
(* refreshes and the verdict of the handler do to each other's rows, a      *)
(* command is confirmed only after telemetry stamped later than its ACK     *)
(* showed the asked state (for a restart, after the device was also shown   *)
(* offline), and an acknowledged command fails only after such telemetry    *)
(* showed another state.  A command whose ACK was never written is neither. *)
(* (Not so for a rollback: the loss EvidenceIsKept shows makes it fail.)    *)
VerdictsAreGrounded ==
    /\ row.recon = "confirmed" =>
         /\ "match" \in shown
         /\ command = "restart" => "offline" \in shown
    /\ row.recon = "failed" /\ handler.change.ack # "rejected" => "mismatch" \in shown

(* The status of an operation never claims an ACK the adapter did not give. *)
AcksAreGiven ==
    row.ack = "acknowledged" =>
        /\ handler.pc = "done"
        /\ handler.change.ack = "acknowledged"
        /\ row.ackAt # 0

(* An acknowledged command does not wait for ever: polled, it leaves        *)
(* "pending" once the timeout has passed, telemetry or not (of the ACKs     *)
(* early enough for their timeout to come before the Horizon).  A restart   *)
(* is exempt: seen online and never offline it is pending for good.         *)
AcknowledgedIsSettled ==
    (/\ row.ack = "acknowledged" /\ row.recon = "pending"
     /\ command # "restart"
     /\ row.ackAt + Timeout < Horizon)
        ~> (row.ack # "acknowledged" \/ row.recon # "pending")

(* What the ledger has learnt it does not unlearn: an ACK stays written, a   *)
(* rollback keeps the hash of the pool it is compared with, and a verified   *)
(* command stays verified whatever later polls find.  As long as requests    *)
(* follow each other a confirmed row is answered as it stands, and a poll    *)
(* carries over what it read.  Violated: a poll that read the row before its *)
(* verdict, or before another poll confirmed it, writes that back.           *)
EvidenceIsKept ==
    [][/\ row.ack = "acknowledged" => row'.ack = "acknowledged"
       /\ row.evidence.poolHash => row'.evidence.poolHash
       /\ row.recon = "confirmed" => row'.recon = "confirmed"]_vars

(* A poll of an acknowledged restart that finds the device offline, after a *)
(* refresh found it unreachable, records that it was seen offline.          *)
(* Violated: that refresh removes the telemetry whose timestamp would prove *)
(* that the observation is later than the ACK.                              *)
OfflineIsRecorded ==
    [][\A p \in Pollers :
         /\ ReadStatus(p)
         /\ command = "restart"
         /\ poll[p].op.ack = "acknowledged"
         /\ entry.status = "offline"
         /\ "unreachable" \in shown
         => poll'[p].change.evidence.offlineSeen]_vars
=============================================================================
