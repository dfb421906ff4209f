-------------------------- MODULE CommandDispatch --------------------------
(***************************************************************************)
(* The path of a physical command from HTTP request to device, in          *)
(* routes/device_control.py: execute_device_command and                    *)
(* execute_pool_rollback, with the stores they share through SQLite: the   *)
(* confirmation table (services/command_confirmation.py), the operation    *)
(* ledger (services/operation_ledger.py) and the sealed rollback targets   *)
(* (services/pool_intelligence/rollback.py).                               *)
(*                                                                         *)
(* A request is a process that stops between any two database statements   *)
(* and whose worker can die there.  A request claims at most one           *)
(* operation, so an operation is named by the request that created it.     *)
(* A key stands for a (tenant, Idempotency-Key) pair and an order for the  *)
(* (device, command, parameters) triple a confirmation is bound to.        *)
(***************************************************************************)
EXTENDS Naturals

CONSTANTS
    Requests,   \* HTTP requests, and the operations they create
    NoRequest,  \* not a request
    Keys,       \* idempotency keys
    NoKey,      \* the request carries no key
    Tokens,     \* confirmation tokens
    NoToken,    \* the request carries no token
    Devices,    \* devices of the fleet
    Commands    \* commands the devices support

ASSUME NullsAreFresh ==
    /\ NoRequest \notin Requests
    /\ NoKey \notin Keys
    /\ NoToken \notin Tokens

ASSUME CommandsAreKnown ==
    Commands \subseteq {"restart", "identify", "pause", "resume", "update_pool"}

VARIABLES
    pc,         \* the next step of each request
    body,       \* the order, key and token each request carries
    approval,   \* the token a request consumed with success
    reply,      \* what the caller was told, and about which operation
    ledger,     \* rows of external_operations
    tokens,     \* rows of command_confirmations
    target,     \* rows of pool_rollback_targets, by source operation
    sent,       \* did the adapter of this operation call the device?
    cooling,    \* devices restarted within the cooldown
    enabled     \* ENABLE_PHYSICAL_COMMANDS

vars == <<pc, body, approval, reply, ledger, tokens, target, sent, cooling, enabled>>

-----------------------------------------------------------------------------

Orders ==
    [device : Devices, command : Commands, source : {NoRequest}]
      \cup
    (IF "update_pool" \in Commands
     THEN [device : Devices, command : {"rollback_pool"}, source : Requests]
     ELSE {})

Body == [order : Orders, key : Keys \cup {NoKey}, token : Tokens \cup {NoToken}]
NoBody == [key |-> NoKey]

(***************************************************************************)
(* The state of a row stands for the triple of state, ack_state and        *)
(* reconciliation_state that the handler writes together.                  *)
(***************************************************************************)
Verdicts == {"acknowledged", "rejected", "dispatch_failed"}
Row == [order : Orders, key : Keys \cup {NoKey}, state : {"submitting"} \cup Verdicts]
NoRow == [state |-> "absent"]

TokenRow == [state : {"valid", "burned", "expired"}, order : Orders]
Unissued == [state |-> "unissued"]

TargetRow ==
    [state : {"none", "sealed", "expired"}, by : {NoRequest}]
      \cup [state : {"claimed"}, by : Requests]
Target(s, by) == [state |-> s, by |-> by]

Refusals == {"not_found", "key_required", "blocked", "dry_run", "disabled",
             "unconfirmed", "no_target"}
Reply ==
    [kind : {"none"} \cup Refusals, op : {NoRequest}]
      \cup [kind : {"duplicate", "conflict"} \cup Verdicts, op : Requests]
NoReply == [kind |-> "none", op |-> NoRequest]

Running == {"source", "lookup", "policy", "load", "safety", "confirm", "claim",
            "seal", "take", "dispatch", "cooldown"} \cup Verdicts

TypeOK ==
    /\ pc \in [Requests -> {"idle", "done", "crashed"} \cup Running]
    /\ body \in [Requests -> Body \cup {NoBody}]
    /\ approval \in [Requests -> Tokens \cup {NoToken}]
    /\ reply \in [Requests -> Reply]
    /\ ledger \in [Requests -> Row \cup {NoRow}]
    /\ tokens \in [Tokens -> TokenRow \cup {Unissued}]
    /\ target \in [Requests -> TargetRow]
    /\ sent \in [Requests -> BOOLEAN]
    /\ cooling \in SUBSET Devices
    /\ enabled \in BOOLEAN

Init ==
    /\ pc = [r \in Requests |-> "idle"]
    /\ body = [r \in Requests |-> NoBody]
    /\ approval = [r \in Requests |-> NoToken]
    /\ reply = [r \in Requests |-> NoReply]
    /\ ledger = [r \in Requests |-> NoRow]
    /\ tokens = [t \in Tokens |-> Unissued]
    /\ target = [r \in Requests |-> Target("none", NoRequest)]
    /\ sent = [r \in Requests |-> FALSE]
    /\ cooling = {}
    /\ enabled \in BOOLEAN

-----------------------------------------------------------------------------
(***************************************************************************)
(* Helpers                                                                 *)
(***************************************************************************)
Order(r) == body[r].order
IsCommand(r, c) == Order(r).command = c
IsRollback(r) == IsCommand(r, "rollback_pool")

Goto(r, step) == pc' = [pc EXCEPT ![r] = step]

(* Reply to the caller about operation o, and stop. *)
Answer(r, k, o) ==
    /\ Goto(r, "done")
    /\ reply' = [reply EXCEPT ![r] = [kind |-> k, op |-> o]]

Refuse(r, why) == Answer(r, why, NoRequest)

(* The operations that hold a key: get_by_idempotency and claim_operation. *)
Exists(q) == ledger[q].state # "absent"
HoldersForgotten(k) == {}  \* mutant: the key is never looked up
Holders(k) == {q \in Requests : k # NoKey /\ Exists(q) /\ ledger[q].key = k}

(* Mutant: a replay is not compared with the request that holds the key. *)
AnswerUncompared(r, q) == Answer(r, "duplicate", q)

(* A request that finds its key taken is told about the operation that holds it. *)
AnswerExisting(r, q) ==
    Answer(r, IF ledger[q].order = Order(r) THEN "duplicate" ELSE "conflict", q)

(* _rollback_source_operation: an acknowledged pool update of the same device. *)
RollbackSource(o) ==
    /\ ledger[o.source].state = "acknowledged"
    /\ ledger[o.source].order.command = "update_pool"
    /\ ledger[o.source].order.device = o.device

-----------------------------------------------------------------------------
(***************************************************************************)
(* The request handlers, one action per access to shared state             *)
(***************************************************************************)

(* A request arrives; its caller can only present a token it was given. *)
Arrive(r) ==
    /\ pc[r] = "idle"
    /\ \E b \in Body :
         /\ b.token # NoToken => tokens[b.token].state # "unissued"
         /\ body' = [body EXCEPT ![r] = b]
         /\ Goto(r, IF b.order.command = "rollback_pool" THEN "source" ELSE "lookup")
    /\ UNCHANGED <<approval, reply, ledger, tokens, target, sent, cooling, enabled>>

CheckSource(r) ==
    /\ pc[r] = "source"
    /\ IF RollbackSource(Order(r))
       THEN IF body[r].key = NoKey
            THEN Refuse(r, "key_required")
            ELSE Goto(r, "lookup") /\ UNCHANGED reply
       ELSE Refuse(r, "not_found")
    /\ UNCHANGED <<body, approval, ledger, tokens, target, sent, cooling, enabled>>

(* A retry is answered from the ledger before any mutable device state is read. *)
LookupKey(r) ==
    /\ pc[r] = "lookup"
    /\ \/ /\ Holders(body[r].key) = {}
          /\ Goto(r, IF IsRollback(r) THEN "policy" ELSE "safety")
          /\ UNCHANGED reply
       \/ \E q \in Holders(body[r].key) : AnswerExisting(r, q)
    /\ UNCHANGED <<body, approval, ledger, tokens, target, sent, cooling, enabled>>

(* Device lookup, capability, SafetyEngine, and the return of a dry run. *)
CheckSafety(r) ==
    /\ pc[r] = "safety"
    /\ \/ /\ IsCommand(r, "restart") => Order(r).device \notin cooling
          /\ Goto(r, IF IsRollback(r) THEN "confirm" ELSE "policy")
          /\ UNCHANGED reply
       \/ \E why \in {"not_found", "blocked"} : Refuse(r, why)
       \/ /\ ~IsRollback(r)
          /\ IsCommand(r, "restart") => Order(r).device \notin cooling
          /\ Refuse(r, "dry_run")
    /\ UNCHANGED <<body, approval, ledger, tokens, target, sent, cooling, enabled>>

(* The kill switch, and for a pool update the previous pool to roll back to. *)
CheckPolicy(r) ==
    /\ pc[r] = "policy"
    /\ \/ ~enabled /\ Refuse(r, "disabled")
       \/ /\ enabled
          /\ Goto(r, IF IsRollback(r) THEN "load" ELSE "confirm")
          /\ UNCHANGED reply
       \/ enabled /\ IsCommand(r, "update_pool") /\ Refuse(r, "blocked")
    /\ UNCHANGED <<body, approval, ledger, tokens, target, sent, cooling, enabled>>

(* load_pool_rollback_target, then the preflight of the pool it names. *)
LoadTarget(r) ==
    /\ pc[r] = "load"
    /\ \/ /\ target[Order(r).source].state = "sealed"
          /\ Goto(r, "safety") /\ UNCHANGED reply
       \/ \E why \in {"not_found", "no_target", "blocked"} : Refuse(r, why)
    /\ UNCHANGED <<body, approval, ledger, tokens, target, sent, cooling, enabled>>

(* consume_confirmation burns the token even when it was issued for another order. *)
ConfirmsAnything(t, o) == tokens[t].state = "valid"  \* mutant: the order is not compared
Confirms(t, o) == tokens[t].state = "valid" /\ tokens[t].order = o

Keep(t) == UNCHANGED tokens  \* mutant: a used token stays valid

Burn(t) ==
    tokens' = IF tokens[t].state = "valid"
              THEN [tokens EXCEPT ![t].state = "burned"] ELSE tokens

ConsumeConfirmation(r) ==
    /\ pc[r] = "confirm"
    /\ LET t == body[r].token IN
         \/ /\ t = NoToken
            /\ Refuse(r, "unconfirmed")
            /\ UNCHANGED <<tokens, approval>>
         \/ /\ t # NoToken
            /\ Burn(t)
            /\ IF Confirms(t, Order(r))
               THEN /\ approval' = [approval EXCEPT ![r] = t]
                    /\ \/ Goto(r, "claim") /\ UNCHANGED reply
                       \/ Refuse(r, "blocked")  \* no adapter for the firmware
               ELSE Refuse(r, "unconfirmed") /\ UNCHANGED approval
    /\ UNCHANGED <<body, ledger, target, sent, cooling, enabled>>

(* Mutant: only an operation that can be retried by key is recorded. *)
ClaimKeyedOperation(r) ==
    /\ pc[r] = "claim"
    /\ Holders(body[r].key) = {}
    /\ ledger' = IF body[r].key = NoKey THEN ledger
                 ELSE [ledger EXCEPT ![r] =
                        [order |-> Order(r), key |-> body[r].key, state |-> "submitting"]]
    /\ Goto(r, "dispatch")
    /\ UNCHANGED <<body, approval, reply, tokens, target, sent, cooling, enabled>>

(* Mutant: the look-up decides, and the claim does not. *)
ClaimUnchecked(r) ==
    /\ pc[r] = "claim"
    /\ ledger' = [ledger EXCEPT ![r] =
         [order |-> Order(r), key |-> body[r].key, state |-> "submitting"]]
    /\ Goto(r, IF IsRollback(r) THEN "take"
               ELSE IF IsCommand(r, "update_pool") THEN "seal" ELSE "dispatch")
    /\ UNCHANGED <<body, approval, reply, tokens, target, sent, cooling, enabled>>

(* claim_operation: the row is durable before the device is contacted. *)
ClaimOperation(r) ==
    /\ pc[r] = "claim"
    /\ \/ /\ Holders(body[r].key) = {}
          /\ ledger' = [ledger EXCEPT ![r] =
               [order |-> Order(r), key |-> body[r].key, state |-> "submitting"]]
          /\ Goto(r, IF IsRollback(r) THEN "take"
                     ELSE IF IsCommand(r, "update_pool") THEN "seal" ELSE "dispatch")
          /\ UNCHANGED reply
       \/ /\ \E q \in Holders(body[r].key) : AnswerExisting(r, q)
          /\ UNCHANGED ledger
    /\ UNCHANGED <<body, approval, tokens, target, sent, cooling, enabled>>

(* Mutant: an operation whose target could not be kept is sent all the same. *)
SealIfPossible(r) ==
    /\ pc[r] = "seal"
    /\ \E t \in {Target("sealed", NoRequest), target[r]} : target' = [target EXCEPT ![r] = t]
    /\ Goto(r, "dispatch")
    /\ UNCHANGED <<body, approval, reply, ledger, tokens, sent, cooling, enabled>>

(* store_pool_rollback_target; an operation whose target is not kept is not sent. *)
SealTarget(r) ==
    /\ pc[r] = "seal"
    /\ \/ target' = [target EXCEPT ![r] = Target("sealed", NoRequest)] /\ Goto(r, "dispatch")
       \/ UNCHANGED target /\ Goto(r, "dispatch_failed")
    /\ UNCHANGED <<body, approval, reply, ledger, tokens, sent, cooling, enabled>>

(* Mutant: the target is loaded again, and not reserved. *)
TakeUnreserved(r) ==
    /\ pc[r] = "take"
    /\ Goto(r, IF target[Order(r).source].state = "sealed" THEN "dispatch" ELSE "dispatch_failed")
    /\ UNCHANGED <<body, approval, reply, ledger, tokens, target, sent, cooling, enabled>>

(* claim_pool_rollback_target reserves the source's target for this operation. *)
TakeTarget(r) ==
    /\ pc[r] = "take"
    /\ \/ /\ target[Order(r).source].state = "sealed"
          /\ target' = [target EXCEPT ![Order(r).source] = Target("claimed", r)]
          /\ Goto(r, "dispatch")
       \/ UNCHANGED target /\ Goto(r, "dispatch_failed")
    /\ UNCHANGED <<body, approval, reply, ledger, tokens, sent, cooling, enabled>>

(* adapter.execute_command: the device may act whatever the adapter reports. *)
Dispatch(r) ==
    /\ pc[r] = "dispatch"
    /\ sent' = [sent EXCEPT ![r] = TRUE]
    /\ \E v \in Verdicts :
         Goto(r, IF v = "acknowledged" /\ IsCommand(r, "restart") THEN "cooldown" ELSE v)
    /\ UNCHANGED <<body, approval, reply, ledger, tokens, target, cooling, enabled>>

RecordRestart(r) ==
    /\ pc[r] = "cooldown"
    /\ cooling' = cooling \cup {Order(r).device}
    /\ Goto(r, "acknowledged")
    /\ UNCHANGED <<body, approval, reply, ledger, tokens, target, sent, enabled>>

(* Mutant: the reply is sent and the ledger is not updated. *)
ReplyWithoutRecord(r) ==
    /\ pc[r] \in Verdicts
    /\ Answer(r, pc[r], r)
    /\ UNCHANGED <<body, approval, ledger, tokens, target, sent, cooling, enabled>>

(* update_operation with the verdict of the adapter, then the reply. *)
RecordVerdict(r) ==
    /\ pc[r] \in Verdicts
    /\ ledger' = [ledger EXCEPT ![r].state = pc[r]]
    /\ Answer(r, pc[r], r)
    /\ UNCHANGED <<body, approval, tokens, target, sent, cooling, enabled>>

(* The worker process dies; nothing resumes its request. *)
Crash(r) ==
    /\ pc[r] \in Running
    /\ Goto(r, "crashed")
    /\ UNCHANGED <<body, approval, reply, ledger, tokens, target, sent, cooling, enabled>>

-----------------------------------------------------------------------------
(***************************************************************************)
(* The other endpoints, the passage of time and the deployment             *)
(***************************************************************************)

(* issue_device_command_confirmation and issue_pool_rollback_confirmation. *)
IssueConfirmation(t, o) ==
    /\ tokens[t].state = "unissued"
    /\ o.command = "restart" => o.device \notin cooling
    /\ o.command = "rollback_pool" => RollbackSource(o) /\ target[o.source].state = "sealed"
    /\ tokens' = [tokens EXCEPT ![t] = [state |-> "valid", order |-> o]]
    /\ UNCHANGED <<pc, body, approval, reply, ledger, target, sent, cooling, enabled>>

(* CONFIRMATION_TTL_SECONDS elapse: the row no longer authorises, or is purged. *)
ExpireToken(t) ==
    /\ tokens[t].state = "valid"
    /\ tokens' = [tokens EXCEPT ![t].state = "expired"]
    /\ UNCHANGED <<pc, body, approval, reply, ledger, target, sent, cooling, enabled>>

(* The rollback window closes: the row is purged by the next access. *)
ExpireTarget(s) ==
    /\ target[s].state \in {"sealed", "claimed"}
    /\ target' = [target EXCEPT ![s] = Target("expired", NoRequest)]
    /\ UNCHANGED <<pc, body, approval, reply, ledger, tokens, sent, cooling, enabled>>

CooldownElapses(d) ==
    /\ d \in cooling
    /\ cooling' = cooling \ {d}
    /\ UNCHANGED <<pc, body, approval, reply, ledger, tokens, target, sent, enabled>>

SetPolicy ==
    /\ enabled' = ~enabled
    /\ UNCHANGED <<pc, body, approval, reply, ledger, tokens, target, sent, cooling>>

Step(r) ==
    \/ CheckSource(r) \/ LookupKey(r) \/ CheckSafety(r) \/ CheckPolicy(r)
    \/ LoadTarget(r) \/ ConsumeConfirmation(r) \/ ClaimOperation(r)
    \/ SealTarget(r) \/ TakeTarget(r) \/ Dispatch(r) \/ RecordRestart(r)
    \/ RecordVerdict(r)

Environment ==
    \/ \E t \in Tokens : ExpireToken(t)
    \/ \E t \in Tokens, o \in Orders : IssueConfirmation(t, o)
    \/ \E s \in Requests : ExpireTarget(s)
    \/ \E d \in Devices : CooldownElapses(d)
    \/ SetPolicy

Next ==
    \/ \E r \in Requests : Arrive(r) \/ Step(r) \/ Crash(r)
    \/ Environment

Spec == Init /\ [][Next]_vars

(* The server goes on running the handlers it has started. *)
FairSpec == Spec /\ \A r \in Requests : WF_vars(Step(r))
-----------------------------------------------------------------------------
(***************************************************************************)
(* Properties                                                              *)
(***************************************************************************)

(* However requests with one Idempotency-Key interleave, crash and are      *)
(* retried, and whichever handler they reach, the device is contacted for   *)
(* at most one of them: get_by_idempotency is only a fast path, and         *)
(* claim_operation decides.                                                 *)
OneDispatchPerKey ==
    \A q, r \in Requests :
        /\ sent[q] /\ sent[r]
        /\ body[q].key = body[r].key
        /\ body[r].key # NoKey
        => q = r

(* A device is contacted only for an order somebody confirmed: the token     *)
(* was issued for exactly this order, is burned, and no other dispatch spent *)
(* it, with or without an idempotency key.                                   *)
DispatchIsAuthorised ==
    \A r \in Requests : sent[r] =>
        /\ approval[r] # NoToken
        /\ tokens[approval[r]] = [state |-> "burned", order |-> Order(r)]
        /\ \A q \in Requests : sent[q] /\ approval[q] = approval[r] => q = r

(* Whatever has been sent can be looked up after a crash: the operation was  *)
(* on record, with the order that was sent, before the adapter was called.   *)
DispatchIsOnRecord ==
    \A r \in Requests : sent[r] =>
        /\ Exists(r)
        /\ ledger[r].order = Order(r)
        /\ ledger[r].key = body[r].key

(* A caller told that its request is a duplicate is pointed at an operation  *)
(* that was claimed with its key for its order, and its own request reached  *)
(* no device; a caller whose key names another order is told so.             *)
RepliesAreTrue ==
    \A r \in Requests : reply[r].kind \in {"duplicate", "conflict"} =>
        LET q == reply[r].op IN
        /\ Exists(q) /\ ledger[q].key = body[r].key /\ body[r].key # NoKey
        /\ (reply[r].kind = "duplicate") <=> (ledger[q].order = Order(r))
        /\ ~sent[r] /\ ~Exists(r)

(* A pool update that reached a device can be rolled back at most once: every *)
(* rollback that was sent reserved the target of an acknowledged update of    *)
(* the same device, and no two sent rollbacks share their source.             *)
RollbackHappensOnce ==
    \A r \in Requests : sent[r] /\ IsRollback(r) =>
        LET s == Order(r).source IN
        /\ RollbackSource(Order(r)) /\ sent[s]
        /\ target[s] \in {Target("claimed", r), Target("expired", NoRequest)}
        /\ \A q \in Requests : sent[q] /\ IsRollback(q) /\ Order(q).source = s => q = r

(* No pool update reaches a device unless the pool it replaces was sealed.    *)
UpdateIsReversible ==
    \A r \in Requests : sent[r] /\ IsCommand(r, "update_pool") => target[r].state # "none"

(* An operation is 'submitting' only while its worker runs: it always gets    *)
(* its verdict unless the worker dies.                                        *)
ClaimsAreSettled ==
    \A r \in Requests :
        ledger[r].state = "submitting" ~> ledger[r].state # "submitting" \/ pc[r] = "crashed"

(* A device restarted within the cooldown is not restarted again.             *)
RestartsAreSpaced ==
    [][\A r \in Requests :
         ~sent[r] /\ sent'[r] /\ IsCommand(r, "restart") => Order(r).device \notin cooling]_vars

-----------------------------------------------------------------------------
(***************************************************************************)
(* The promise this path keeps                                             *)
(***************************************************************************)
EffectOf(r) == [key |-> body[r].key, order |-> Order(r), token |-> approval[r]]

Promise == INSTANCE PhysicalEffects WITH
    spent <- {t \in Tokens : tokens[t].state = "burned"},
    credit <- {[token |-> approval[r], order |-> Order(r)] :
                 r \in {q \in Requests : approval[q] # NoToken /\ ~sent[q]}},
    effects <- {EffectOf(r) : r \in {q \in Requests : sent[q]}}

ImplementsPromise == Promise!Spec
=============================================================================
