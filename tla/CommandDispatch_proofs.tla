----------------------- MODULE CommandDispatch_proofs -----------------------
(***************************************************************************)
(* Proofs about CommandDispatch, for any number of requests, keys, tokens  *)
(* and devices.                                                            *)
(***************************************************************************)
EXTENDS CommandDispatch, TLAPS

(* Where a request is before its claim, and between its claim and its reply. *)
BeforeConfirm == {"source", "lookup", "policy", "load", "safety", "confirm"}
BeforeSend == {"seal", "take", "dispatch"}
AfterSend == {"cooldown"} \cup Verdicts

(***************************************************************************)
(* What the program counter of a request says about its row.               *)
(***************************************************************************)
RowFollowsControl ==
    \A r \in Requests :
        /\ pc[r] # "idle" => body[r] \in Body
        /\ pc[r] \in {"idle", "claim"} \cup BeforeConfirm => ~Exists(r) /\ ~sent[r]
        /\ pc[r] \in BeforeSend => Exists(r) /\ ~sent[r]
        /\ pc[r] \in AfterSend => Exists(r)
        /\ sent[r] => Exists(r)
        /\ Exists(r) => /\ pc[r] # "idle"
                        /\ ledger[r] \in Row
                        /\ ledger[r].order = Order(r)
                        /\ ledger[r].key = body[r].key

(***************************************************************************)
(* A request at or past its claim holds a burned token, for its own order, *)
(* that no other request holds.                                            *)
(***************************************************************************)
ApprovalIsOwn ==
    \A r \in Requests :
        /\ pc[r] \in {"idle"} \cup BeforeConfirm => approval[r] = NoToken
        /\ pc[r] = "claim" \/ Exists(r) => approval[r] # NoToken
        /\ approval[r] # NoToken =>
             /\ tokens[approval[r]] = [state |-> "burned", order |-> Order(r)]
             /\ \A q \in Requests : approval[q] = approval[r] => q = r

(***************************************************************************)
(* The ledger holds a key once.                                            *)
(***************************************************************************)
KeyIsUnique ==
    \A q, r \in Requests :
        /\ Exists(q) /\ Exists(r)
        /\ ledger[q].key = ledger[r].key
        /\ ledger[r].key # NoKey
        => q = r

Inv == TypeOK /\ RowFollowsControl /\ ApprovalIsOwn /\ KeyIsUnique

-----------------------------------------------------------------------------
(***************************************************************************)
(* Types                                                                   *)
(***************************************************************************)

(* Moving a request, and answering its caller, keep pc and reply in type. *)
LEMMA GotoType ==
    ASSUME TypeOK, NEW r \in Requests, NEW step \in {"done", "crashed"} \cup Running,
           Goto(r, step)
    PROVE  pc' \in [Requests -> {"idle", "done", "crashed"} \cup Running]
BY DEF TypeOK, Goto

(* A refusal ends a request with a typed reply. *)
LEMMA RefuseType ==
    ASSUME TypeOK, NEW r \in Requests, NEW why \in Refusals, Refuse(r, why)
    PROVE  /\ pc' \in [Requests -> {"idle", "done", "crashed"} \cup Running]
           /\ reply' \in [Requests -> Reply]
<1>1. [kind |-> why, op |-> NoRequest] \in Reply
  BY DEF Reply
<1> QED
  BY <1>1, GotoType DEF Refuse, Answer, TypeOK

(* So does an answer that names an operation. *)
LEMMA AnswerType ==
    ASSUME TypeOK, NEW r \in Requests, NEW q \in Requests,
           NEW k \in {"duplicate", "conflict"} \cup Verdicts, Answer(r, k, q)
    PROVE  /\ pc' \in [Requests -> {"idle", "done", "crashed"} \cup Running]
           /\ reply' \in [Requests -> Reply]
<1>1. [kind |-> k, op |-> q] \in Reply
  BY DEF Reply
<1> QED
  BY <1>1, GotoType DEF Answer, TypeOK

(* And one that is read from the ledger. *)
LEMMA AnswerExistingType ==
    ASSUME TypeOK, NEW r \in Requests, NEW q \in Requests, AnswerExisting(r, q)
    PROVE  /\ pc' \in [Requests -> {"idle", "done", "crashed"} \cup Running]
           /\ reply' \in [Requests -> Reply]
<1>1. CASE ledger[q].order = Order(r)
  BY <1>1, Answer(r, "duplicate", q), AnswerType DEF AnswerExisting
<1>2. CASE ledger[q].order # Order(r)
  BY <1>2, Answer(r, "conflict", q), AnswerType DEF AnswerExisting
<1> QED
  BY <1>1, <1>2

(* Every step of the system keeps the types: a request that has arrived has *)
(* a body, and only a claimed operation has a row to write the verdict to.  *)
LEMMA TypeStep == TypeOK /\ RowFollowsControl /\ [Next]_vars => TypeOK'
<1> SUFFICES ASSUME TypeOK, RowFollowsControl, [Next]_vars PROVE TypeOK'
  OBVIOUS
<1>1. ASSUME NEW r \in Requests, Arrive(r) PROVE TypeOK'
  BY <1>1 DEF TypeOK, Arrive, Goto, Running
<1>2. ASSUME NEW r \in Requests, CheckSource(r) PROVE TypeOK'
  BY <1>2, GotoType, RefuseType DEF TypeOK, CheckSource, Running, Refusals
<1>3. ASSUME NEW r \in Requests, LookupKey(r) PROVE TypeOK'
  <2>1. /\ pc' \in [Requests -> {"idle", "done", "crashed"} \cup Running]
        /\ reply' \in [Requests -> Reply]
    <3>1. CASE \E q \in Holders(body[r].key) : AnswerExisting(r, q)
      BY <3>1, AnswerExistingType DEF Holders
    <3>2. CASE UNCHANGED reply /\ \E step \in {"policy", "safety"} : Goto(r, step)
      BY <3>2, GotoType DEF TypeOK, Running
    <3> QED
      BY <1>3, <3>1, <3>2 DEF LookupKey
  <2> QED
    BY <1>3, <2>1 DEF TypeOK, LookupKey
<1>4. ASSUME NEW r \in Requests, CheckSafety(r) PROVE TypeOK'
  <2>1. /\ pc' \in [Requests -> {"idle", "done", "crashed"} \cup Running]
        /\ reply' \in [Requests -> Reply]
    <3>1. CASE \E why \in {"not_found", "blocked", "dry_run"} : Refuse(r, why)
      BY <3>1, RefuseType DEF Refusals
    <3>2. CASE UNCHANGED reply /\ \E step \in {"confirm", "policy"} : Goto(r, step)
      BY <3>2, GotoType DEF TypeOK, Running
    <3> QED
      BY <1>4, <3>1, <3>2 DEF CheckSafety
  <2> QED
    BY <1>4, <2>1 DEF TypeOK, CheckSafety
<1>5. ASSUME NEW r \in Requests, CheckPolicy(r) PROVE TypeOK'
  <2>1. /\ pc' \in [Requests -> {"idle", "done", "crashed"} \cup Running]
        /\ reply' \in [Requests -> Reply]
    <3>1. CASE \E why \in {"disabled", "blocked"} : Refuse(r, why)
      BY <3>1, RefuseType DEF Refusals
    <3>2. CASE UNCHANGED reply /\ \E step \in {"load", "confirm"} : Goto(r, step)
      BY <3>2, GotoType DEF TypeOK, Running
    <3> QED
      BY <1>5, <3>1, <3>2 DEF CheckPolicy
  <2> QED
    BY <1>5, <2>1 DEF TypeOK, CheckPolicy
<1>6. ASSUME NEW r \in Requests, LoadTarget(r) PROVE TypeOK'
  BY <1>6, GotoType, RefuseType DEF TypeOK, LoadTarget, Running, Refusals
<1>7. ASSUME NEW r \in Requests, ConsumeConfirmation(r) PROVE TypeOK'
  <2> DEFINE t == body[r].token
  <2>1. /\ pc' \in [Requests -> {"idle", "done", "crashed"} \cup Running]
        /\ reply' \in [Requests -> Reply]
    <3>1. CASE \E why \in {"unconfirmed", "blocked"} : Refuse(r, why)
      BY <3>1, RefuseType DEF Refusals
    <3>2. CASE UNCHANGED reply /\ Goto(r, "claim")
      BY <3>2, GotoType DEF TypeOK, Running
    <3> QED
      BY <1>7, <3>1, <3>2 DEF ConsumeConfirmation
  <2>2. body[r] \in Body
    BY <1>7 DEF ConsumeConfirmation, RowFollowsControl
  <2>3. tokens' \in [Tokens -> TokenRow \cup {Unissued}]
    <3>1. CASE UNCHANGED tokens
      BY <3>1 DEF TypeOK
    <3>2. CASE t \in Tokens /\ Burn(t)
      BY <3>2 DEF TypeOK, Burn, TokenRow, Unissued
    <3> QED
      BY <1>7, <2>2, <3>1, <3>2 DEF ConsumeConfirmation, Body
  <2>4. approval' \in [Requests -> Tokens \cup {NoToken}]
    BY <1>7, <2>2 DEF ConsumeConfirmation, TypeOK, Body
  <2> QED
    BY <1>7, <2>1, <2>3, <2>4 DEF TypeOK, ConsumeConfirmation
<1>8. ASSUME NEW r \in Requests, ClaimOperation(r) PROVE TypeOK'
  <2>1. CASE /\ Goto(r, "take") \/ Goto(r, "seal") \/ Goto(r, "dispatch")
             /\ ledger' = [ledger EXCEPT ![r] =
                  [order |-> Order(r), key |-> body[r].key, state |-> "submitting"]]
             /\ UNCHANGED reply
    <3>1. body[r] \in Body
      BY <1>8 DEF ClaimOperation, RowFollowsControl
    <3>2. ledger' \in [Requests -> Row \cup {NoRow}]
      BY <2>1, <3>1 DEF TypeOK, Row, Body, Order
    <3>3. pc' \in [Requests -> {"idle", "done", "crashed"} \cup Running]
      BY <2>1, GotoType DEF Running
    <3> QED
      BY <1>8, <2>1, <3>2, <3>3 DEF TypeOK, ClaimOperation
  <2>2. CASE UNCHANGED ledger /\ \E q \in Holders(body[r].key) : AnswerExisting(r, q)
    BY <1>8, <2>2, AnswerExistingType DEF TypeOK, ClaimOperation, Holders
  <2> QED
    BY <1>8, <2>1, <2>2 DEF ClaimOperation
<1>9. ASSUME NEW r \in Requests, SealTarget(r) PROVE TypeOK'
  <2>1. Target("sealed", NoRequest) \in TargetRow
    BY DEF Target, TargetRow
  <2> QED
    BY <1>9, <2>1, GotoType DEF TypeOK, SealTarget, Running, Verdicts
<1>10. ASSUME NEW r \in Requests, TakeTarget(r) PROVE TypeOK'
  <2>1. Target("claimed", r) \in TargetRow
    BY DEF Target, TargetRow
  <2>2. target' \in [Requests -> TargetRow]
    BY <1>10, <2>1 DEF TypeOK, TakeTarget
  <2>3. pc' \in [Requests -> {"idle", "done", "crashed"} \cup Running]
    BY <1>10, GotoType DEF TakeTarget, Running, Verdicts
  <2> QED
    BY <1>10, <2>2, <2>3 DEF TypeOK, TakeTarget
<1>11. ASSUME NEW r \in Requests, Dispatch(r) PROVE TypeOK'
  BY <1>11, GotoType DEF TypeOK, Dispatch, Running, Verdicts
<1>12. ASSUME NEW r \in Requests, RecordRestart(r) PROVE TypeOK'
  <2>1. Order(r).device \in Devices
    <3>1. Order(r) \in Orders
      BY <1>12 DEF RecordRestart, RowFollowsControl, Order, Body
    <3> QED
      BY <3>1 DEF Orders
  <2>2. pc' \in [Requests -> {"idle", "done", "crashed"} \cup Running]
    BY <1>12, GotoType DEF RecordRestart, Running, Verdicts
  <2> QED
    BY <1>12, <2>1, <2>2 DEF TypeOK, RecordRestart
<1>13. ASSUME NEW r \in Requests, RecordVerdict(r) PROVE TypeOK'
  <2>1. ledger[r] \in Row
    BY <1>13 DEF RecordVerdict, RowFollowsControl, AfterSend, Verdicts, TypeOK
  <2>2. ledger' \in [Requests -> Row \cup {NoRow}]
    BY <1>13, <2>1 DEF RecordVerdict, TypeOK, Row
  <2>3. /\ pc' \in [Requests -> {"idle", "done", "crashed"} \cup Running]
        /\ reply' \in [Requests -> Reply]
    BY <1>13, AnswerType DEF RecordVerdict
  <2> QED
    BY <1>13, <2>2, <2>3 DEF TypeOK, RecordVerdict
<1>14. ASSUME NEW r \in Requests, Crash(r) PROVE TypeOK'
  BY <1>14, GotoType DEF TypeOK, Crash
<1>15. ASSUME NEW t \in Tokens, ExpireToken(t) PROVE TypeOK'
  BY <1>15 DEF TypeOK, ExpireToken, TokenRow, Unissued
<1>16. ASSUME NEW t \in Tokens, NEW o \in Orders, IssueConfirmation(t, o) PROVE TypeOK'
  BY <1>16 DEF TypeOK, IssueConfirmation, TokenRow, Unissued
<1>17. ASSUME NEW s \in Requests, ExpireTarget(s) PROVE TypeOK'
  BY <1>17 DEF TypeOK, ExpireTarget, TargetRow, Target
<1>18. ASSUME NEW d \in Devices, CooldownElapses(d) PROVE TypeOK'
  BY <1>18 DEF TypeOK, CooldownElapses
<1>19. CASE SetPolicy
  BY <1>19 DEF TypeOK, SetPolicy
<1>20. CASE UNCHANGED vars
  BY <1>20 DEF TypeOK, vars
<1> QED
  BY <1>1, <1>2, <1>3, <1>4, <1>5, <1>6, <1>7, <1>8, <1>9, <1>10, <1>11, <1>12, <1>13,
     <1>14, <1>15, <1>16, <1>17, <1>18, <1>19, <1>20 DEF Next, Step, Environment

-----------------------------------------------------------------------------
(***************************************************************************)
(* The inductive invariant                                                 *)
(***************************************************************************)

(* A row appears when its request claims it, and is the row of that request. *)
LEMMA RowStep == TypeOK /\ RowFollowsControl /\ [Next]_vars => RowFollowsControl'
<1> SUFFICES ASSUME TypeOK, RowFollowsControl, [Next]_vars PROVE RowFollowsControl'
  OBVIOUS
<1> USE DEF TypeOK, RowFollowsControl, Exists, Order, BeforeConfirm, BeforeSend, AfterSend, Verdicts
<1>1. ASSUME NEW r \in Requests, Arrive(r) PROVE RowFollowsControl'
  BY <1>1 DEF Arrive, Goto
<1>2. ASSUME NEW r \in Requests, CheckSource(r) PROVE RowFollowsControl'
  BY <1>2 DEF CheckSource, Goto, Refuse, Answer
<1>3. ASSUME NEW r \in Requests, LookupKey(r) PROVE RowFollowsControl'
  BY <1>3 DEF LookupKey, Goto, AnswerExisting, Answer
<1>4. ASSUME NEW r \in Requests, CheckSafety(r) PROVE RowFollowsControl'
  BY <1>4 DEF CheckSafety, Goto, Refuse, Answer
<1>5. ASSUME NEW r \in Requests, CheckPolicy(r) PROVE RowFollowsControl'
  BY <1>5 DEF CheckPolicy, Goto, Refuse, Answer
<1>6. ASSUME NEW r \in Requests, LoadTarget(r) PROVE RowFollowsControl'
  BY <1>6 DEF LoadTarget, Goto, Refuse, Answer
<1>7. ASSUME NEW r \in Requests, ConsumeConfirmation(r) PROVE RowFollowsControl'
  BY <1>7 DEF ConsumeConfirmation, Goto, Refuse, Answer
<1>8. ASSUME NEW r \in Requests, ClaimOperation(r) PROVE RowFollowsControl'
  BY <1>8 DEF ClaimOperation, Goto, AnswerExisting, Answer, Row, Body
<1>9. ASSUME NEW r \in Requests, SealTarget(r) PROVE RowFollowsControl'
  BY <1>9 DEF SealTarget, Goto
<1>10. ASSUME NEW r \in Requests, TakeTarget(r) PROVE RowFollowsControl'
  BY <1>10 DEF TakeTarget, Goto
<1>11. ASSUME NEW r \in Requests, Dispatch(r) PROVE RowFollowsControl'
  BY <1>11 DEF Dispatch, Goto
<1>12. ASSUME NEW r \in Requests, RecordRestart(r) PROVE RowFollowsControl'
  BY <1>12 DEF RecordRestart, Goto
<1>13. ASSUME NEW r \in Requests, RecordVerdict(r) PROVE RowFollowsControl'
  BY <1>13 DEF RecordVerdict, Goto, Answer, Row
<1>14. ASSUME NEW r \in Requests, Crash(r) PROVE RowFollowsControl'
  <2>1. pc[r] # "idle" /\ pc' = [pc EXCEPT ![r] = "crashed"]
    BY <1>14 DEF Crash, Goto, Running
  <2> QED
    BY <1>14, <2>1 DEF Crash
<1>15. CASE UNCHANGED <<pc, body, ledger, sent>>
  BY <1>15
<1> QED
  BY <1>1, <1>2, <1>3, <1>4, <1>5, <1>6, <1>7, <1>8, <1>9, <1>10, <1>11, <1>12, <1>13,
     <1>14, <1>15
  DEF Next, Step, Environment, ExpireToken, IssueConfirmation, ExpireTarget,
      CooldownElapses, SetPolicy, vars

(* Approvals change only where a request consumes its confirmation: the token *)
(* was valid, so nobody held it, and burning it makes it valid no more.       *)
LEMMA ApprovalStep ==
    TypeOK /\ RowFollowsControl /\ ApprovalIsOwn /\ [Next]_vars => ApprovalIsOwn'
<1> SUFFICES ASSUME TypeOK, RowFollowsControl, ApprovalIsOwn, [Next]_vars
             PROVE  ApprovalIsOwn'
  OBVIOUS
<1> USE DEF TypeOK, RowFollowsControl, ApprovalIsOwn, Exists, Order,
            BeforeConfirm, BeforeSend, AfterSend, Verdicts
<1>1. ASSUME NEW r \in Requests, Arrive(r) PROVE ApprovalIsOwn'
  <2>1. approval[r] = NoToken /\ ~Exists(r)
    BY <1>1 DEF Arrive
  <2>2. \A q \in Requests \ {r} : pc'[q] = pc[q] /\ body'[q] = body[q]
    BY <1>1 DEF Arrive, Goto
  <2>3. pc'[r] \in {"source", "lookup"}
    BY <1>1 DEF Arrive, Goto
  <2> QED
    BY <1>1, <2>1, <2>2, <2>3 DEF Arrive
<1>2. ASSUME NEW r \in Requests, CheckSource(r) PROVE ApprovalIsOwn'
  BY <1>2 DEF CheckSource, Goto, Refuse, Answer
<1>3. ASSUME NEW r \in Requests, LookupKey(r) PROVE ApprovalIsOwn'
  BY <1>3 DEF LookupKey, Goto, AnswerExisting, Answer
<1>4. ASSUME NEW r \in Requests, CheckSafety(r) PROVE ApprovalIsOwn'
  BY <1>4 DEF CheckSafety, Goto, Refuse, Answer
<1>5. ASSUME NEW r \in Requests, CheckPolicy(r) PROVE ApprovalIsOwn'
  BY <1>5 DEF CheckPolicy, Goto, Refuse, Answer
<1>6. ASSUME NEW r \in Requests, LoadTarget(r) PROVE ApprovalIsOwn'
  BY <1>6 DEF LoadTarget, Goto, Refuse, Answer
<1>7. ASSUME NEW r \in Requests, ConsumeConfirmation(r) PROVE ApprovalIsOwn'
  <2> DEFINE t == body[r].token
  <2>1. /\ approval[r] = NoToken
        /\ ~Exists(r)
        /\ pc' = [pc EXCEPT ![r] = "claim"] \/ pc' = [pc EXCEPT ![r] = "done"]
        /\ UNCHANGED <<body, ledger>>
    BY <1>7 DEF ConsumeConfirmation, Goto, Refuse, Answer
  <2>2. \A u \in Tokens : tokens[u].state = "burned" => tokens'[u] = tokens[u]
    BY <1>7 DEF ConsumeConfirmation, Burn
  <2>3. CASE /\ t # NoToken /\ Burn(t) /\ Confirms(t, Order(r))
             /\ approval' = [approval EXCEPT ![r] = t]
    <3>1. t \in Tokens
      BY <1>7, <2>3 DEF ConsumeConfirmation, Body
    <3>2. tokens[t] \in TokenRow
      BY <2>3, <3>1 DEF Confirms, Unissued
    <3>3. tokens'[t] = [state |-> "burned", order |-> Order(r)]
      BY <2>3, <3>1, <3>2 DEF Burn, Confirms, TokenRow
    <3>4. ASSUME NEW q \in Requests, approval[q] = t PROVE FALSE
      <4>1. tokens[t] = [state |-> "burned", order |-> Order(q)]
        BY <2>3, <3>4
      <4>2. tokens[t].state = "valid"
        BY <2>3 DEF Confirms
      <4> QED
        BY <4>1, <4>2
    <3>5. \A q \in Requests \ {r} : approval'[q] = approval[q] /\ pc'[q] = pc[q]
      BY <2>1, <2>3
    <3>6. approval'[r] = t /\ pc'[r] \in {"claim", "done"}
      BY <2>1, <2>3
    <3> QED
      BY NullsAreFresh, <2>1, <2>2, <2>3, <3>1, <3>3, <3>4, <3>5, <3>6
  <2>4. CASE UNCHANGED approval /\ pc' = [pc EXCEPT ![r] = "done"]
    BY <2>1, <2>2, <2>4
  <2> QED
    BY <1>7, <2>3, <2>4 DEF ConsumeConfirmation, Refuse, Answer, Goto
<1>8. ASSUME NEW r \in Requests, ClaimOperation(r) PROVE ApprovalIsOwn'
  BY <1>8 DEF ClaimOperation, Goto, AnswerExisting, Answer
<1>9. ASSUME NEW r \in Requests, SealTarget(r) PROVE ApprovalIsOwn'
  BY <1>9 DEF SealTarget, Goto
<1>10. ASSUME NEW r \in Requests, TakeTarget(r) PROVE ApprovalIsOwn'
  BY <1>10 DEF TakeTarget, Goto
<1>11. ASSUME NEW r \in Requests, Dispatch(r) PROVE ApprovalIsOwn'
  BY <1>11 DEF Dispatch, Goto
<1>12. ASSUME NEW r \in Requests, RecordRestart(r) PROVE ApprovalIsOwn'
  BY <1>12 DEF RecordRestart, Goto
<1>13. ASSUME NEW r \in Requests, RecordVerdict(r) PROVE ApprovalIsOwn'
  BY <1>13 DEF RecordVerdict, Goto, Answer
<1>14. ASSUME NEW r \in Requests, Crash(r) PROVE ApprovalIsOwn'
  BY <1>14 DEF Crash, Goto
<1>15. ASSUME NEW t \in Tokens, ExpireToken(t) PROVE ApprovalIsOwn'
  BY <1>15 DEF ExpireToken
<1>16. ASSUME NEW t \in Tokens, NEW o \in Orders, IssueConfirmation(t, o)
       PROVE  ApprovalIsOwn'
  BY <1>16 DEF IssueConfirmation
<1>17. CASE UNCHANGED <<pc, body, approval, ledger, tokens>>
  BY <1>17
<1> QED
  BY <1>1, <1>2, <1>3, <1>4, <1>5, <1>6, <1>7, <1>8, <1>9, <1>10, <1>11, <1>12, <1>13,
     <1>14, <1>15, <1>16, <1>17
  DEF Next, Step, Environment, ExpireTarget, CooldownElapses, SetPolicy, vars

(* A key enters the ledger only where claim_operation finds it free. *)
LEMMA KeyStep ==
    TypeOK /\ RowFollowsControl /\ KeyIsUnique /\ [Next]_vars => KeyIsUnique'
<1> SUFFICES ASSUME TypeOK, RowFollowsControl, KeyIsUnique, [Next]_vars
             PROVE  KeyIsUnique'
  OBVIOUS
<1> USE DEF TypeOK, KeyIsUnique, Exists
<1>1. ASSUME NEW r \in Requests, ClaimOperation(r) PROVE KeyIsUnique'
  BY <1>1 DEF ClaimOperation, Holders
<1>2. ASSUME NEW r \in Requests, RecordVerdict(r) PROVE KeyIsUnique'
  <2>1. Exists(r) /\ ledger[r] \in Row
    BY <1>2 DEF RecordVerdict, RowFollowsControl, AfterSend
  <2>2. ledger' = [ledger EXCEPT ![r] = [ledger[r] EXCEPT !.state = pc[r]]]
    BY <1>2 DEF RecordVerdict
  <2>3. \A q \in Requests : ledger'[q].key = ledger[q].key /\ (Exists(q)' => Exists(q))
    BY <2>1, <2>2 DEF Row
  <2> QED
    BY <2>3
<1>3. CASE UNCHANGED ledger
  BY <1>3
<1> QED
  BY <1>1, <1>2, <1>3
  DEF Next, Step, Environment, vars, Arrive, CheckSource, LookupKey, CheckSafety,
      CheckPolicy, LoadTarget, ConsumeConfirmation, SealTarget, TakeTarget, Dispatch,
      RecordRestart, Crash, ExpireToken, IssueConfirmation, ExpireTarget,
      CooldownElapses, SetPolicy

(* Inv is inductive: it holds initially, and no step breaks it. *)
THEOREM Invariance == Spec => []Inv
<1>1. Init => Inv
  BY NullsAreFresh
  DEF Init, Inv, TypeOK, RowFollowsControl, ApprovalIsOwn, KeyIsUnique, Exists, NoRow,
      Reply, NoReply, TargetRow, Target, BeforeConfirm, BeforeSend, AfterSend, Verdicts
<1>2. Inv /\ [Next]_vars => Inv'
  BY TypeStep, RowStep, ApprovalStep, KeyStep DEF Inv
<1> QED
  BY <1>1, <1>2, PTL DEF Spec

(* The types of CommandDispatch hold for any number of requests and keys. *)
THEOREM TypeCorrectness == Spec => []TypeOK
<1>1. Inv => TypeOK
  BY DEF Inv
<1> QED
  BY <1>1, Invariance, PTL

(***************************************************************************)
(* However many requests with one Idempotency-Key race, crash and are      *)
(* retried, execute_device_command and execute_pool_rollback contact a     *)
(* device for at most one of them.                                         *)
(***************************************************************************)
THEOREM DispatchOncePerKey == Spec => []OneDispatchPerKey
<1>1. Inv => OneDispatchPerKey
  BY DEF Inv, RowFollowsControl, KeyIsUnique, OneDispatchPerKey
<1> QED
  BY <1>1, Invariance, PTL

(***************************************************************************)
(* Every device contact was confirmed, for exactly its order, by a token   *)
(* that no other contact used and that can never be used again.            *)
(***************************************************************************)
THEOREM DispatchAuthorised == Spec => []DispatchIsAuthorised
<1>1. Inv => DispatchIsAuthorised
  BY DEF Inv, RowFollowsControl, ApprovalIsOwn, DispatchIsAuthorised
<1> QED
  BY <1>1, Invariance, PTL

(***************************************************************************)
(* What a device was sent is on record in the ledger, whenever the worker  *)
(* dies.                                                                   *)
(***************************************************************************)
THEOREM DispatchOnRecord == Spec => []DispatchIsOnRecord
<1>1. Inv => DispatchIsOnRecord
  BY DEF Inv, RowFollowsControl, DispatchIsOnRecord
<1> QED
  BY <1>1, Invariance, PTL

-----------------------------------------------------------------------------
(***************************************************************************)
(* Replies                                                                 *)
(***************************************************************************)

(* Nothing happens to a request that has been answered. *)
LEMMA DoneIsFinal ==
    ASSUME TypeOK, RowFollowsControl, [Next]_vars, NEW p \in Requests, pc[p] = "done"
    PROVE  /\ pc'[p] = "done" /\ body'[p] = body[p] /\ reply'[p] = reply[p]
           /\ sent'[p] = sent[p] /\ ledger'[p] = ledger[p]
<1> USE DEF TypeOK
<1>1. ASSUME NEW r \in Requests, Arrive(r) PROVE r # p /\ pc'[p] = pc[p] /\ body'[p] = body[p]
  BY <1>1 DEF Arrive, Goto
<1>2. ASSUME NEW r \in Requests, Step(r) \/ Crash(r)
      PROVE  /\ r # p /\ pc'[p] = pc[p] /\ reply'[p] = reply[p] /\ sent'[p] = sent[p]
             /\ ledger'[p] = ledger[p] /\ body' = body
  <2>1. r # p
    BY <1>2 DEF Step, CheckSource, LookupKey, CheckSafety, CheckPolicy, LoadTarget,
            ConsumeConfirmation, ClaimOperation, SealTarget, TakeTarget, Dispatch,
            RecordRestart, RecordVerdict, Crash, Running, Verdicts
  <2>2. CASE CheckSource(r) \/ LookupKey(r) \/ CheckSafety(r) \/ CheckPolicy(r) \/ LoadTarget(r)
    BY <2>1, <2>2 DEF CheckSource, LookupKey, CheckSafety, CheckPolicy, LoadTarget, Goto,
            Refuse, Answer, AnswerExisting
  <2>3. CASE ConsumeConfirmation(r) \/ ClaimOperation(r) \/ SealTarget(r) \/ TakeTarget(r)
    BY <2>1, <2>3 DEF ConsumeConfirmation, ClaimOperation, SealTarget, TakeTarget, Goto,
            Refuse, Answer, AnswerExisting
  <2>4. CASE Dispatch(r) \/ RecordRestart(r) \/ RecordVerdict(r) \/ Crash(r)
    BY <2>1, <2>4 DEF Dispatch, RecordRestart, RecordVerdict, Crash, Goto, Answer
  <2> QED
    BY <1>2, <2>1, <2>2, <2>3, <2>4 DEF Step
<1>3. CASE UNCHANGED <<pc, body, reply, sent, ledger>>
  BY <1>3
<1> QED
  BY <1>1, <1>2, <1>3 DEF Next, Environment, vars, Arrive, ExpireToken, IssueConfirmation,
     ExpireTarget, CooldownElapses, SetPolicy

(* A row that exists keeps its order and its key. *)
LEMMA RowsPersist ==
    ASSUME TypeOK, RowFollowsControl, [Next]_vars, NEW q \in Requests, Exists(q)
    PROVE  Exists(q)' /\ ledger'[q].key = ledger[q].key /\ ledger'[q].order = ledger[q].order
<1> USE DEF TypeOK, RowFollowsControl, Exists
<1>1. ASSUME NEW r \in Requests, ClaimOperation(r) PROVE ledger'[q] = ledger[q]
  BY <1>1 DEF ClaimOperation
<1>2. ASSUME NEW r \in Requests, RecordVerdict(r)
      PROVE  /\ ledger'[q].state # "absent"
             /\ ledger'[q].key = ledger[q].key /\ ledger'[q].order = ledger[q].order
  BY <1>2 DEF RecordVerdict, Verdicts, Row
<1>3. CASE UNCHANGED ledger
  BY <1>3
<1> QED
  BY <1>1, <1>2, <1>3
  DEF Next, Step, Environment, vars, Arrive, CheckSource, LookupKey, CheckSafety,
      CheckPolicy, LoadTarget, ConsumeConfirmation, SealTarget, TakeTarget, Dispatch,
      RecordRestart, Crash, ExpireToken, IssueConfirmation, ExpireTarget,
      CooldownElapses, SetPolicy

(* What RepliesAreTrue says of one request; and that the request is over. *)
ToldOfAnother(r) == reply[r].kind \in {"duplicate", "conflict"}

ReplyIsTrue(r) ==
    LET q == reply[r].op IN
    /\ q \in Requests
    /\ Exists(q) /\ ledger[q].key = body[r].key /\ body[r].key # NoKey
    /\ (reply[r].kind = "duplicate") <=> (ledger[q].order = Order(r))
    /\ ~sent[r] /\ ~Exists(r)

RepliesAreFinal == \A r \in Requests : ToldOfAnother(r) => pc[r] = "done" /\ ReplyIsTrue(r)

(* An answer from the ledger is true when it is given. *)
LEMMA AnswerIsTrue ==
    ASSUME TypeOK, RowFollowsControl, NEW r \in Requests, pc[r] \in {"lookup", "claim"},
           NEW q \in Holders(body[r].key), AnswerExisting(r, q),
           UNCHANGED <<body, ledger, sent>>
    PROVE  pc'[r] = "done" /\ ReplyIsTrue(r)'
<1>1. reply'[r].op = q /\ pc'[r] = "done"
  BY DEF AnswerExisting, Answer, Goto, TypeOK
<1>2. reply'[r].kind = "duplicate" <=> ledger[q].order = Order(r)
  BY DEF AnswerExisting, Answer, TypeOK
<1>3. ~sent[r] /\ ~Exists(r)
  BY DEF RowFollowsControl, BeforeConfirm
<1>4. q \in Requests /\ Exists(q) /\ ledger[q].key = body[r].key /\ body[r].key # NoKey
  BY DEF Holders
<1> QED
  BY <1>1, <1>2, <1>3, <1>4 DEF ReplyIsTrue, Exists, Order

(* The request a step is about is told of another only from the ledger. *)
LEMMA ReplyOfStep ==
    ASSUME TypeOK, RowFollowsControl, NEW r \in Requests, Step(r) \/ Crash(r), ~ToldOfAnother(r)
    PROVE  ToldOfAnother(r)' => pc'[r] = "done" /\ ReplyIsTrue(r)'
<1>1. CASE LookupKey(r)
  BY <1>1, AnswerIsTrue DEF LookupKey, ToldOfAnother
<1>2. CASE ClaimOperation(r)
  BY <1>2, AnswerIsTrue DEF ClaimOperation, ToldOfAnother
<1>3. CASE CheckSource(r) \/ CheckSafety(r) \/ CheckPolicy(r) \/ LoadTarget(r) \/ ConsumeConfirmation(r)
  BY <1>3 DEF CheckSource, CheckSafety, CheckPolicy, LoadTarget, ConsumeConfirmation,
          ToldOfAnother, Refuse, Answer, TypeOK
<1>4. CASE RecordVerdict(r)
  BY <1>4 DEF RecordVerdict, ToldOfAnother, Answer, Verdicts, TypeOK
<1>5. CASE SealTarget(r) \/ TakeTarget(r) \/ Dispatch(r) \/ RecordRestart(r) \/ Crash(r)
  BY <1>5 DEF SealTarget, TakeTarget, Dispatch, RecordRestart, Crash, ToldOfAnother
<1> QED
  BY <1>1, <1>2, <1>3, <1>4, <1>5 DEF Step

(* A step is about one request: it says nothing to the others. *)
LEMMA ReplyToOthers ==
    ASSUME TypeOK, NEW r \in Requests, Step(r) \/ Crash(r), NEW p \in Requests \ {r}
    PROVE  reply'[p] = reply[p]
<1> USE DEF TypeOK
<1>1. CASE CheckSource(r) \/ LookupKey(r) \/ CheckSafety(r) \/ CheckPolicy(r) \/ LoadTarget(r)
  BY <1>1 DEF CheckSource, LookupKey, CheckSafety, CheckPolicy, LoadTarget, Refuse, Answer,
          AnswerExisting
<1>2. CASE ConsumeConfirmation(r) \/ ClaimOperation(r) \/ RecordVerdict(r)
  BY <1>2 DEF ConsumeConfirmation, ClaimOperation, RecordVerdict, Refuse, Answer, AnswerExisting
<1>3. CASE SealTarget(r) \/ TakeTarget(r) \/ Dispatch(r) \/ RecordRestart(r) \/ Crash(r)
  BY <1>3 DEF SealTarget, TakeTarget, Dispatch, RecordRestart, Crash
<1> QED
  BY <1>1, <1>2, <1>3 DEF Step

(* What a caller has been told stays true. *)
LEMMA ReplyStep ==
    TypeOK /\ RowFollowsControl /\ RepliesAreFinal /\ [Next]_vars => RepliesAreFinal'
<1> SUFFICES ASSUME TypeOK, RowFollowsControl, RepliesAreFinal, [Next]_vars,
                    NEW p \in Requests, ToldOfAnother(p)'
             PROVE  pc'[p] = "done" /\ ReplyIsTrue(p)'
  BY DEF RepliesAreFinal
<1>1. CASE ToldOfAnother(p)
  <2>1. pc[p] = "done" /\ ReplyIsTrue(p)
    BY <1>1 DEF RepliesAreFinal
  <2>2. /\ pc'[p] = "done" /\ body'[p] = body[p] /\ reply'[p] = reply[p]
        /\ sent'[p] = sent[p] /\ ledger'[p] = ledger[p]
    BY <2>1, DoneIsFinal
  <2>3. PICK q \in Requests : q = reply[p].op /\ Exists(q)
    BY <2>1 DEF ReplyIsTrue
  <2>4. Exists(q)' /\ ledger'[q].key = ledger[q].key /\ ledger'[q].order = ledger[q].order
    BY <2>3, RowsPersist
  <2> QED
    BY <2>1, <2>2, <2>3, <2>4 DEF ReplyIsTrue, Order, Exists
<1>2. CASE ~ToldOfAnother(p)
  <2>1. ASSUME NEW r \in Requests, Step(r) \/ Crash(r), r # p PROVE FALSE
    BY <1>2, <2>1, ReplyToOthers DEF ToldOfAnother
  <2>2. CASE UNCHANGED reply
    BY <1>2, <2>2 DEF ToldOfAnother
  <2> QED
    BY <1>2, <2>1, <2>2, ReplyOfStep DEF Next, Environment, vars, Arrive, ExpireToken,
       IssueConfirmation, ExpireTarget, CooldownElapses, SetPolicy
<1> QED
  BY <1>1, <1>2

(***************************************************************************)
(* A caller that is told of another operation is told the truth, and goes  *)
(* on being told the truth: the operation holds its key, is the order it   *)
(* asked for exactly if it was called a duplicate, and its own request     *)
(* reached no device.                                                      *)
(***************************************************************************)
THEOREM RepliesTrue == Spec => []RepliesAreTrue
<1>1. Init => RepliesAreFinal
  BY DEF Init, NoReply, RepliesAreFinal, ToldOfAnother
<1>2. TypeOK /\ RowFollowsControl /\ RepliesAreFinal /\ [Next]_vars => RepliesAreFinal'
  BY ReplyStep
<1>3. Inv => TypeOK /\ RowFollowsControl
  BY DEF Inv
<1>4. RepliesAreFinal => RepliesAreTrue
  BY DEF RepliesAreFinal, RepliesAreTrue, ToldOfAnother, ReplyIsTrue
<1> QED
  BY <1>1, <1>2, <1>3, <1>4, Invariance, PTL DEF Spec

-----------------------------------------------------------------------------
(***************************************************************************)
(* Pool updates and their rollbacks                                        *)
(***************************************************************************)

(* A verdict in the ledger is the end of its request, and only an operation *)
(* that was sent is acknowledged.                                           *)
VerdictsAreFinal ==
    \A r \in Requests :
        /\ ledger[r].state \in Verdicts => pc[r] = "done"
        /\ pc[r] \in {"cooldown", "acknowledged"} => sent[r]
        /\ ledger[r].state = "acknowledged" => sent[r]

(* Only a pool update seals its target, before it is sent, and only a rollback *)
(* takes one.                                                                  *)
UpdateIsSealed ==
    \A r \in Requests :
        /\ pc[r] = "seal" => IsCommand(r, "update_pool")
        /\ pc[r] = "take" => IsRollback(r)
        /\ (pc[r] = "dispatch" \/ sent[r]) /\ IsCommand(r, "update_pool") => target[r].state # "none"

(* A rollback past its first check has an acknowledged source. *)
Past(r) == pc[r] \in Running \ {"source"} \/ sent[r]

SourceIsKnown ==
    \A r \in Requests :
        Past(r) /\ IsRollback(r) => Order(r).source \in Requests /\ RollbackSource(Order(r))

(* A rollback that is sent, now or before, has taken the target of its source, *)
(* which cannot be taken twice, not even once it has expired.                  *)
Takes(r) == (pc[r] = "dispatch" \/ sent[r]) /\ IsRollback(r)

TargetIsTakenOnce ==
    \A r \in Requests : Takes(r) =>
        /\ target[Order(r).source] \in {Target("claimed", r), Target("expired", NoRequest)}
        /\ \A q \in Requests : Takes(q) /\ Order(q).source = Order(r).source => q = r

RollbackInv == VerdictsAreFinal /\ UpdateIsSealed /\ SourceIsKnown /\ TargetIsTakenOnce

(* What a step of a request leaves alone. *)
LEMMA StepFrame ==
    ASSUME TypeOK, NEW r \in Requests, Step(r) \/ Crash(r), NEW p \in Requests \ {r}
    PROVE  body' = body /\ pc'[p] = pc[p] /\ sent'[p] = sent[p] /\ ledger'[p] = ledger[p]
<1> USE DEF TypeOK
<1>1. CASE CheckSource(r) \/ LookupKey(r) \/ CheckSafety(r) \/ CheckPolicy(r) \/ LoadTarget(r)
  BY <1>1 DEF CheckSource, LookupKey, CheckSafety, CheckPolicy, LoadTarget, Refuse, Answer,
          AnswerExisting, Goto
<1>2. CASE ConsumeConfirmation(r) \/ ClaimOperation(r) \/ RecordVerdict(r)
  BY <1>2 DEF ConsumeConfirmation, ClaimOperation, RecordVerdict, Refuse, Answer,
          AnswerExisting, Goto
<1>3. CASE SealTarget(r) \/ TakeTarget(r) \/ Dispatch(r) \/ RecordRestart(r) \/ Crash(r)
  BY <1>3 DEF SealTarget, TakeTarget, Dispatch, RecordRestart, Crash, Goto
<1> QED
  BY <1>1, <1>2, <1>3 DEF Step

(* Verdicts come from the adapter or from a target that could not be kept, and *)
(* are written by the last step of a request.                                  *)
LEMMA VerdictStep ==
    TypeOK /\ RowFollowsControl /\ VerdictsAreFinal /\ [Next]_vars => VerdictsAreFinal'
<1> SUFFICES ASSUME TypeOK, RowFollowsControl, VerdictsAreFinal, [Next]_vars
             PROVE  VerdictsAreFinal'
  OBVIOUS
<1> USE DEF TypeOK, VerdictsAreFinal, Verdicts
<1>1. ASSUME NEW r \in Requests, Arrive(r) PROVE VerdictsAreFinal'
  BY <1>1 DEF Arrive, Goto
<1>2. ASSUME NEW r \in Requests, Step(r) \/ Crash(r) PROVE VerdictsAreFinal'
  <2>1. /\ ledger'[r].state \in Verdicts => pc'[r] = "done"
        /\ pc'[r] \in {"cooldown", "acknowledged"} => sent'[r]
        /\ ledger'[r].state = "acknowledged" => sent'[r]
    <3>1. CASE CheckSource(r) \/ LookupKey(r) \/ CheckSafety(r) \/ CheckPolicy(r) \/ LoadTarget(r)
      BY <3>1 DEF CheckSource, LookupKey, CheckSafety, CheckPolicy, LoadTarget, Refuse, Answer,
              AnswerExisting, Goto
    <3>2. CASE ConsumeConfirmation(r)
      BY <3>2 DEF ConsumeConfirmation, Refuse, Answer, Goto
    <3>3. CASE ClaimOperation(r)
      BY <3>3 DEF ClaimOperation, Answer, AnswerExisting, Goto
    <3>4. CASE SealTarget(r) \/ TakeTarget(r)
      BY <3>4 DEF SealTarget, TakeTarget, Goto
    <3>5. CASE Dispatch(r) \/ RecordRestart(r)
      BY <3>5 DEF Dispatch, RecordRestart, Goto
    <3>6. CASE RecordVerdict(r)
      BY <3>6 DEF RecordVerdict, Answer, Goto, RowFollowsControl, AfterSend, Row, Exists
    <3>7. CASE Crash(r)
      BY <3>7 DEF Crash, Goto, Running
    <3> QED
      BY <1>2, <3>1, <3>2, <3>3, <3>4, <3>5, <3>6, <3>7 DEF Step
  <2> QED
    BY <1>2, <2>1, StepFrame
<1>3. CASE UNCHANGED <<pc, ledger, sent>>
  BY <1>3
<1> QED
  BY <1>1, <1>2, <1>3 DEF Next, Environment, vars, ExpireToken, IssueConfirmation,
     ExpireTarget, CooldownElapses, SetPolicy

(* The source of a rollback stays acknowledged. *)
LEMMA SourceStays ==
    ASSUME TypeOK, RowFollowsControl, VerdictsAreFinal, [Next]_vars,
           NEW o, o.source \in Requests, RollbackSource(o)
    PROVE  /\ pc[o.source] = "done" /\ pc'[o.source] = "done"
           /\ RollbackSource(o)'
<1>1. pc[o.source] = "done"
  BY DEF VerdictsAreFinal, RollbackSource, Verdicts
<1> QED
  BY <1>1, DoneIsFinal DEF RollbackSource

(* A target is sealed before its update is sent, and never becomes unsealed. *)
LEMMA SealedStep ==
    TypeOK /\ RowFollowsControl /\ UpdateIsSealed /\ [Next]_vars => UpdateIsSealed'
<1> SUFFICES ASSUME TypeOK, RowFollowsControl, UpdateIsSealed, [Next]_vars
             PROVE  UpdateIsSealed'
  OBVIOUS
<1> USE DEF TypeOK, UpdateIsSealed, Target, IsCommand, IsRollback, Order
<1>1. ASSUME NEW r \in Requests, Arrive(r) PROVE UpdateIsSealed'
  BY <1>1 DEF Arrive, Goto, RowFollowsControl, Exists
<1>2. ASSUME NEW r \in Requests, Step(r) \/ Crash(r) PROVE UpdateIsSealed'
  <2>1. \A q \in Requests : target[q].state # "none" => target'[q].state # "none"
    BY <1>2 DEF Step, CheckSource, LookupKey, CheckSafety, CheckPolicy, LoadTarget,
         ConsumeConfirmation, ClaimOperation, SealTarget, TakeTarget, Dispatch,
         RecordRestart, RecordVerdict, Crash, TargetRow
  <2>2. /\ pc'[r] = "seal" => IsCommand(r, "update_pool")
        /\ pc'[r] = "take" => IsRollback(r)
        /\ (pc'[r] = "dispatch" \/ sent'[r]) /\ IsCommand(r, "update_pool")
             => target'[r].state # "none"
    <3>1. CASE CheckSource(r) \/ LookupKey(r) \/ CheckSafety(r) \/ CheckPolicy(r) \/ LoadTarget(r)
      BY <3>1 DEF CheckSource, LookupKey, CheckSafety, CheckPolicy, LoadTarget, Refuse, Answer,
              AnswerExisting, Goto
    <3>2. CASE ConsumeConfirmation(r)
      BY <3>2 DEF ConsumeConfirmation, Refuse, Answer, Goto
    <3>3. CASE ClaimOperation(r)
      BY <3>3 DEF ClaimOperation, Answer, AnswerExisting, Goto, RowFollowsControl
    <3>4. CASE SealTarget(r)
      BY <3>4 DEF SealTarget, Goto, TargetRow
    <3>5. CASE TakeTarget(r)
      BY <3>5 DEF TakeTarget, Goto
    <3>6. CASE Dispatch(r) \/ RecordRestart(r) \/ RecordVerdict(r) \/ Crash(r)
      BY <3>6 DEF Dispatch, RecordRestart, RecordVerdict, Answer, Crash, Goto, Verdicts
    <3> QED
      BY <1>2, <3>1, <3>2, <3>3, <3>4, <3>5, <3>6 DEF Step
  <2>3. ASSUME NEW p \in Requests \ {r}
        PROVE  body' = body /\ pc'[p] = pc[p] /\ sent'[p] = sent[p]
    BY <1>2, StepFrame
  <2>4. body' = body
    BY <1>2 DEF Step, CheckSource, LookupKey, CheckSafety, CheckPolicy, LoadTarget,
         ConsumeConfirmation, ClaimOperation, SealTarget, TakeTarget, Dispatch,
         RecordRestart, RecordVerdict, Crash
  <2> QED
    BY <2>1, <2>2, <2>3, <2>4
<1>3. ASSUME NEW s \in Requests, ExpireTarget(s) PROVE UpdateIsSealed'
  BY <1>3 DEF ExpireTarget
<1>4. CASE UNCHANGED <<pc, body, sent, target>>
  BY <1>4
<1> QED
  BY <1>1, <1>2, <1>3, <1>4 DEF Next, Environment, vars, ExpireToken, IssueConfirmation,
     CooldownElapses, SetPolicy

(* The source is checked first, and stays what it was. *)
LEMMA SourceStep ==
    ASSUME TypeOK, RowFollowsControl, VerdictsAreFinal, SourceIsKnown, [Next]_vars
    PROVE  SourceIsKnown'
<1> SUFFICES ASSUME NEW p \in Requests, Past(p)', IsRollback(p)'
             PROVE  Order(p)'.source \in Requests /\ RollbackSource(Order(p))'
  BY DEF SourceIsKnown
<1>1. body'[p] = body[p] /\ IsRollback(p) /\ body[p] \in Body /\ (Past(p) \/ CheckSource(p))
  <2>1. ASSUME NEW r \in Requests, Arrive(r)
        PROVE  p # r /\ body'[p] = body[p] /\ Past(p)
    BY <2>1 DEF Past, Running, Verdicts, Arrive, Goto, TypeOK, RowFollowsControl, IsRollback,
                IsCommand, Order
  <2>2. ASSUME NEW r \in Requests, Step(r) \/ Crash(r), r # p
        PROVE  body'[p] = body[p] /\ Past(p)
    BY <2>2, StepFrame DEF Past
  <2>3. ASSUME Step(p) \/ Crash(p)
        PROVE  body'[p] = body[p] /\ (Past(p) \/ CheckSource(p))
    <3>1. CASE CheckSource(p)
      BY <3>1 DEF CheckSource
    <3>2. CASE LookupKey(p) \/ CheckSafety(p) \/ CheckPolicy(p) \/ LoadTarget(p)
      BY <3>2 DEF LookupKey, CheckSafety, CheckPolicy, LoadTarget, Past, Running
    <3>3. CASE ConsumeConfirmation(p) \/ ClaimOperation(p) \/ SealTarget(p) \/ TakeTarget(p)
      BY <3>3 DEF ConsumeConfirmation, ClaimOperation, SealTarget, TakeTarget, Past, Running
    <3>4. CASE Dispatch(p) \/ RecordRestart(p) \/ RecordVerdict(p)
      BY <3>4 DEF Dispatch, RecordRestart, RecordVerdict, Past, Running, Verdicts
    <3>5. CASE Crash(p)
      BY <3>5 DEF Crash, Goto, Past, Running, Verdicts, TypeOK
    <3> QED
      BY <2>3, <3>1, <3>2, <3>3, <3>4, <3>5 DEF Step
  <2>4. ASSUME UNCHANGED <<pc, body, sent>>
        PROVE  body'[p] = body[p] /\ Past(p)
    BY <2>4 DEF Past
  <2>5. body'[p] = body[p] /\ (Past(p) \/ CheckSource(p))
    BY <2>1, <2>2, <2>3, <2>4 DEF Next, Environment, vars, ExpireToken, IssueConfirmation,
       ExpireTarget, CooldownElapses, SetPolicy
  <2>6. body[p] \in Body
    BY <2>5 DEF Past, CheckSource, RowFollowsControl, Running, Verdicts, Exists
  <2> QED
    BY <2>5, <2>6 DEF IsRollback, IsCommand, Order
<1>2. Order(p).source \in Requests
  BY <1>1, CommandsAreKnown DEF Body, Orders, Order, IsRollback, IsCommand
<1>3. RollbackSource(Order(p))
  <2>1. CASE Past(p)
    BY <1>1, <2>1 DEF SourceIsKnown
  <2>2. CASE CheckSource(p) /\ ~Past(p)
    BY <2>2 DEF CheckSource, Past, Refuse, Answer, Goto, TypeOK, Running, Verdicts
  <2> QED
    BY <1>1, <2>1, <2>2
<1>4. Order(p)' = Order(p)
  BY <1>1 DEF Order
<1>5. RollbackSource(Order(p))'
  BY <1>2, <1>3, <1>4, SourceStays DEF RollbackSource
<1> QED
  BY <1>2, <1>4, <1>5

(* A request begins to take its target only where claim_pool_rollback_target *)
(* finds it sealed, which is not where another has taken it.                 *)
LEMMA TakeStep ==
    ASSUME TypeOK, RowFollowsControl, VerdictsAreFinal, UpdateIsSealed, SourceIsKnown,
           TargetIsTakenOnce, [Next]_vars
    PROVE  TargetIsTakenOnce'
<1> DEFINE Src(q) == Order(q).source
<1>1. ASSUME NEW p \in Requests, Takes(p)'
      PROVE  Order(p)' = Order(p) /\ (Takes(p) \/ TakeTarget(p))
  <2>1. ASSUME NEW r \in Requests, Arrive(r)
        PROVE  p # r /\ body'[p] = body[p] /\ (pc[p] = "dispatch" \/ sent[p])
    BY <1>1, <2>1 DEF Takes, Arrive, Goto, TypeOK, RowFollowsControl
  <2>2. ASSUME NEW r \in Requests, Step(r) \/ Crash(r), r # p
        PROVE  body'[p] = body[p] /\ (pc[p] = "dispatch" \/ sent[p])
    BY <1>1, <2>2, StepFrame DEF Takes
  <2>3. ASSUME Step(p) \/ Crash(p)
        PROVE  body'[p] = body[p] /\ (pc[p] = "dispatch" \/ sent[p] \/ TakeTarget(p))
    <3> USE <1>1 DEF Takes
    <3>1. CASE CheckSource(p) \/ LookupKey(p) \/ CheckSafety(p) \/ CheckPolicy(p) \/ LoadTarget(p)
      BY <3>1 DEF CheckSource, LookupKey, CheckSafety, CheckPolicy, LoadTarget, Refuse, Answer,
              AnswerExisting, Goto, TypeOK
    <3>2. CASE ConsumeConfirmation(p)
      BY <3>2 DEF ConsumeConfirmation, Refuse, Answer, Goto, TypeOK
    <3>3. CASE ClaimOperation(p)
      BY <3>3 DEF ClaimOperation, Answer, AnswerExisting, Goto, TypeOK, IsRollback, IsCommand, Order
    <3>4. CASE SealTarget(p)
      BY <3>4 DEF SealTarget, UpdateIsSealed, IsRollback, IsCommand, Order
    <3>5. CASE TakeTarget(p)
      BY <3>5 DEF TakeTarget
    <3>6. CASE Dispatch(p) \/ RecordRestart(p) \/ RecordVerdict(p) \/ Crash(p)
      BY <3>6 DEF Dispatch, RecordRestart, RecordVerdict, Answer, Crash, Goto, TypeOK, Verdicts
    <3> QED
      BY <2>3, <3>1, <3>2, <3>3, <3>4, <3>5, <3>6 DEF Step
  <2>4. ASSUME UNCHANGED <<pc, body, sent>>
        PROVE  body'[p] = body[p] /\ (pc[p] = "dispatch" \/ sent[p])
    BY <1>1, <2>4 DEF Takes
  <2>5. body'[p] = body[p] /\ (pc[p] = "dispatch" \/ sent[p] \/ TakeTarget(p))
    BY <2>1, <2>2, <2>3, <2>4 DEF Next, Environment, vars, ExpireToken, IssueConfirmation,
       ExpireTarget, CooldownElapses, SetPolicy
  <2> QED
    BY <1>1, <2>5 DEF Takes, IsRollback, IsCommand, Order
<1>2. ASSUME NEW p \in Requests, Takes(p)
      PROVE  Src(p) \in Requests /\ pc[Src(p)] = "done"
  <2>1. Past(p) /\ IsRollback(p)
    BY <1>2 DEF Takes, Past, Running
  <2> QED
    BY <2>1, SourceStays DEF SourceIsKnown
<1>3. ASSUME NEW p \in Requests, Takes(p), NEW r \in Requests, TakeTarget(r), Takes(r)'
      PROVE  ~Takes(r) /\ Src(p) # Src(r) /\ Src(r) \in Requests
  <2>1. IsRollback(r) /\ Past(r)
    BY <1>3 DEF TakeTarget, UpdateIsSealed, Past, Running
  <2>2. pc[r] = "take" /\ ~sent[r]
    BY <1>3 DEF TakeTarget, RowFollowsControl, BeforeSend
  <2>3. pc'[r] = "dispatch"
    BY <1>3, <2>2 DEF Takes, TakeTarget
  <2>4. target[Src(r)].state = "sealed"
    BY <1>3, <2>3 DEF TakeTarget, Goto, TypeOK
  <2>5. target[Src(p)] \in {Target("claimed", p), Target("expired", NoRequest)}
    BY <1>3 DEF TargetIsTakenOnce
  <2>6. target[Src(p)].state # "sealed"
    BY <2>5 DEF Target
  <2> QED
    BY <2>1, <2>2, <2>4, <2>6 DEF Takes, SourceIsKnown
<1>4. ASSUME NEW p \in Requests, Takes(p)
      PROVE  target'[Src(p)] \in {Target("claimed", p), Target("expired", NoRequest)}
  <2>1. target[Src(p)] \in {Target("claimed", p), Target("expired", NoRequest)}
    BY <1>4 DEF TargetIsTakenOnce
  <2>2. ASSUME NEW r \in Requests, SealTarget(r) PROVE target'[Src(p)] = target[Src(p)]
    BY <1>2, <1>4, <2>2 DEF SealTarget, TypeOK
  <2>3. ASSUME NEW r \in Requests, TakeTarget(r) PROVE target'[Src(p)] = target[Src(p)]
    BY <1>2, <1>4, <2>1, <2>3 DEF TakeTarget, Target, TypeOK
  <2>4. ASSUME NEW s \in Requests, ExpireTarget(s)
        PROVE  target'[Src(p)] \in {target[Src(p)], Target("expired", NoRequest)}
    BY <1>2, <1>4, <2>4 DEF ExpireTarget, TypeOK
  <2>5. CASE UNCHANGED target
    BY <2>1, <2>5
  <2> QED
    BY <2>1, <2>2, <2>3, <2>4, <2>5 DEF Next, Step, Environment, vars, Arrive, CheckSource,
       LookupKey, CheckSafety, CheckPolicy, LoadTarget, ConsumeConfirmation, ClaimOperation,
       Dispatch, RecordRestart, RecordVerdict, Crash, ExpireToken, IssueConfirmation,
       CooldownElapses, SetPolicy
<1>5. ASSUME NEW p \in Requests, TakeTarget(p), Takes(p)'
      PROVE  target'[Src(p)] = Target("claimed", p) /\ pc[p] = "take" /\ pc'[p] = "dispatch"
  <2>1. pc[p] = "take" /\ ~sent[p] /\ sent' = sent
    BY <1>5 DEF TakeTarget, RowFollowsControl, BeforeSend
  <2>2. pc'[p] = "dispatch"
    BY <1>5, <2>1 DEF Takes
  <2>3. Src(p) \in Requests
    BY <1>5, <2>1 DEF UpdateIsSealed, SourceIsKnown, Past, Running
  <2> QED
    BY <1>5, <2>1, <2>2, <2>3 DEF TakeTarget, Goto, TypeOK
<1>6. SUFFICES ASSUME NEW p \in Requests, Takes(p)'
               PROVE  /\ target'[Src(p)] \in {Target("claimed", p), Target("expired", NoRequest)}
                      /\ \A q \in Requests : Takes(q)' /\ Src(q) = Src(p) => q = p
  BY <1>1 DEF TargetIsTakenOnce, Target
<1>7. target'[Src(p)] \in {Target("claimed", p), Target("expired", NoRequest)}
  BY <1>1, <1>4, <1>5, <1>6
<1>8. ASSUME NEW q \in Requests, Takes(q)', Src(q) = Src(p) PROVE q = p
  <2>1. CASE Takes(p) /\ Takes(q)
    BY <1>8, <2>1 DEF TargetIsTakenOnce
  <2>2. CASE TakeTarget(p) /\ Takes(q)
    BY <1>3, <1>6, <1>8, <2>2
  <2>3. CASE Takes(p) /\ TakeTarget(q)
    BY <1>3, <1>8, <2>3
  <2>4. CASE TakeTarget(p) /\ TakeTarget(q)
    BY <1>5, <1>6, <1>8, <2>4 DEF TakeTarget, Goto, TypeOK
  <2> QED
    BY <1>1, <1>6, <1>8, <2>1, <2>2, <2>3, <2>4
<1> QED
  BY <1>7, <1>8

(* The four parts are inductive together with Inv. *)
LEMMA RollbackInvariance == Spec => []RollbackInv
<1>1. Init => RollbackInv
  BY DEF Init, RollbackInv, VerdictsAreFinal, UpdateIsSealed, SourceIsKnown, TargetIsTakenOnce,
         Takes, Past, Running, Verdicts, NoRow
<1>2. Inv /\ RollbackInv /\ [Next]_vars => RollbackInv'
  BY VerdictStep, SealedStep, SourceStep, TakeStep DEF Inv, RollbackInv
<1> QED
  BY <1>1, <1>2, Invariance, PTL DEF Spec

(***************************************************************************)
(* No pool update reaches a device unless the pool it replaces was sealed, *)
(* for any number of updates, rollbacks and crashes.                       *)
(***************************************************************************)
THEOREM UpdateReversible == Spec => []UpdateIsReversible
<1>1. RollbackInv => UpdateIsReversible
  BY DEF RollbackInv, UpdateIsSealed, UpdateIsReversible
<1> QED
  BY <1>1, RollbackInvariance, PTL

(***************************************************************************)
(* A pool update is rolled back at most once: every rollback that reached  *)
(* a device reserved the target of an acknowledged update of that device,  *)
(* and no two of them have the same source, whenever the target expires.   *)
(***************************************************************************)
THEOREM RollbackOnce == Spec => []RollbackHappensOnce
<1>1. RollbackInv => RollbackHappensOnce
  <2> SUFFICES ASSUME RollbackInv, NEW r \in Requests, sent[r], IsRollback(r)
               PROVE  /\ RollbackSource(Order(r)) /\ sent[Order(r).source]
                      /\ target[Order(r).source]
                           \in {Target("claimed", r), Target("expired", NoRequest)}
                      /\ \A q \in Requests :
                           sent[q] /\ IsRollback(q) /\ Order(q).source = Order(r).source => q = r
    BY DEF RollbackHappensOnce
  <2>1. Order(r).source \in Requests /\ RollbackSource(Order(r))
    BY DEF RollbackInv, SourceIsKnown, Past
  <2>2. sent[Order(r).source]
    BY <2>1 DEF RollbackInv, VerdictsAreFinal, RollbackSource
  <2> QED
    BY <2>1, <2>2 DEF RollbackInv, TargetIsTakenOnce, Takes
<1> QED
  BY <1>1, RollbackInvariance, PTL

-----------------------------------------------------------------------------
(***************************************************************************)
(* The refinement of PhysicalEffects                                       *)
(***************************************************************************)
Spent == {t \in Tokens : tokens[t].state = "burned"}
Unused == {q \in Requests : approval[q] # NoToken /\ ~sent[q]}
Sent == {q \in Requests : sent[q]}
Credit == {[token |-> approval[r], order |-> Order(r)] : r \in Unused}
Effects == {EffectOf(r) : r \in Sent}

(* A step that burns no token, approves nothing and sends nothing is a stutter. *)
LEMMA QuietStep ==
    ASSUME UNCHANGED <<body, approval, sent>>, Spent' = Spent
    PROVE  Spent' = Spent /\ Credit' = Credit /\ Effects' = Effects
BY DEF Credit, Effects, Unused, Sent, EffectOf, Order

(* An arriving request holds no approval and has sent nothing. *)
LEMMA ArriveStep ==
    ASSUME Inv, NEW r \in Requests, Arrive(r)
    PROVE  Spent' = Spent /\ Credit' = Credit /\ Effects' = Effects
<1>1. approval[r] = NoToken /\ ~sent[r]
  BY DEF Inv, RowFollowsControl, ApprovalIsOwn, Arrive
<1>2. UNCHANGED <<approval, sent, tokens>> /\ \A q \in Requests \ {r} : body'[q] = body[q]
  BY DEF Inv, TypeOK, Arrive
<1>3. r \notin Unused /\ r \notin Sent
  BY <1>1 DEF Unused, Sent
<1>4. Unused' = Unused /\ Sent' = Sent /\ Spent' = Spent
  BY <1>2 DEF Unused, Sent, Spent
<1>5. \A q \in Unused : Order(q)' = Order(q) /\ approval'[q] = approval[q]
  BY <1>2, <1>3 DEF Unused, Order
<1>6. \A q \in Sent : EffectOf(q)' = EffectOf(q)
  BY <1>2, <1>3 DEF Sent, EffectOf, Order
<1> QED
  BY <1>4, <1>5, <1>6 DEF Credit, Effects

(* A request that consumes its confirmation spends the token, and gains a *)
(* credit if the token was issued for its order.                          *)
LEMMA ConsumeStep ==
    ASSUME Inv, NEW r \in Requests, ConsumeConfirmation(r)
    PROVE  \/ Spent' = Spent /\ Credit' = Credit /\ Effects' = Effects
           \/ \E t \in Tokens :
                /\ t \notin Spent
                /\ Spent' = Spent \cup {t}
                /\ UNCHANGED <<Credit, Effects>>
           \/ \E t \in Tokens, o \in Orders :
                /\ t \notin Spent
                /\ Spent' = Spent \cup {t}
                /\ Credit' = Credit \cup {[token |-> t, order |-> o]}
                /\ UNCHANGED Effects
<1> DEFINE t == body[r].token
<1>1. /\ body[r] \in Body
      /\ Order(r) \in Orders
      /\ approval[r] = NoToken
      /\ ~sent[r]
      /\ UNCHANGED <<body, sent>>
  BY DEF Inv, RowFollowsControl, ApprovalIsOwn, ConsumeConfirmation, BeforeConfirm, Body, Order
<1>2. CASE UNCHANGED <<tokens, approval>>
  BY <1>1, <1>2, QuietStep DEF Spent
<1>3. CASE t # NoToken /\ Burn(t) /\ UNCHANGED approval
  <2>1. t \in Tokens
    BY <1>1, <1>3 DEF Body
  <2>2. CASE tokens[t].state = "valid"
    <3>1. tokens[t] \in TokenRow
      BY <2>1, <2>2 DEF Inv, TypeOK, Unissued
    <3>2. t \notin Spent /\ Spent' = Spent \cup {t}
      BY <1>3, <2>1, <2>2, <3>1 DEF Spent, Burn, Inv, TypeOK, TokenRow
    <3>3. UNCHANGED <<Credit, Effects>>
      BY <1>1, <1>3 DEF Credit, Effects, Unused, Sent, EffectOf, Order
    <3> QED
      BY <2>1, <3>2, <3>3
  <2>3. CASE tokens[t].state # "valid"
    BY <1>1, <1>3, <2>3, QuietStep DEF Burn, Spent
  <2> QED
    BY <2>2, <2>3
<1>4. CASE /\ t # NoToken /\ Burn(t) /\ Confirms(t, Order(r))
           /\ approval' = [approval EXCEPT ![r] = t]
  <2>1. t \in Tokens /\ tokens[t].state = "valid"
    BY <1>1, <1>4 DEF Body, Confirms
  <2>2. tokens[t] \in TokenRow
    BY <2>1 DEF Inv, TypeOK, Unissued
  <2>3. t \notin Spent /\ Spent' = Spent \cup {t}
    BY <1>4, <2>1, <2>2 DEF Spent, Burn, Inv, TypeOK, TokenRow
  <2>4. /\ approval'[r] = t
        /\ \A q \in Requests \ {r} : approval'[q] = approval[q]
    BY <1>4 DEF Inv, TypeOK
  <2>5. Unused' = Unused \cup {r} /\ r \notin Unused
    BY <1>1, <1>4, <2>4 DEF Unused
  <2>6. Credit' = Credit \cup {[token |-> t, order |-> Order(r)]}
    BY <1>1, <2>4, <2>5 DEF Credit, Order, Unused
  <2>7. Sent' = Sent /\ r \notin Sent
    BY <1>1 DEF Sent
  <2>8. \A q \in Sent : EffectOf(q)' = EffectOf(q)
    BY <1>1, <2>4, <2>7 DEF EffectOf, Order, Sent
  <2>9. UNCHANGED Effects
    BY <2>7, <2>8 DEF Effects
  <2> QED
    BY <1>1, <2>1, <2>3, <2>6, <2>9
<1> QED
  BY <1>2, <1>3, <1>4 DEF ConsumeConfirmation

(* A request that calls its adapter uses up its own credit, and no request *)
(* with its key has called one before.                                     *)
LEMMA DispatchStep ==
    ASSUME Inv, NEW r \in Requests, Dispatch(r)
    PROVE  \E k \in Keys \cup {NoKey}, o \in Orders, t \in Tokens :
             /\ [token |-> t, order |-> o] \in Credit
             /\ k = NoKey \/ \A e \in Effects : e.key # k
             /\ Credit' = Credit \ {[token |-> t, order |-> o]}
             /\ Effects' = Effects \cup {[key |-> k, order |-> o, token |-> t]}
             /\ UNCHANGED Spent
<1> DEFINE k == body[r].key
           o == Order(r)
           t == approval[r]
<1>1. body[r] \in Body /\ Exists(r) /\ ~sent[r] /\ t # NoToken
  BY DEF Inv, RowFollowsControl, ApprovalIsOwn, Dispatch, BeforeSend
<1>2. k \in Keys \cup {NoKey} /\ o \in Orders /\ t \in Tokens
  BY <1>1 DEF Body, Order, Inv, TypeOK
<1>3. /\ UNCHANGED <<body, approval, tokens>>
      /\ sent'[r]
      /\ \A q \in Requests \ {r} : sent'[q] = sent[q]
  BY DEF Dispatch, Inv, TypeOK
<1>4. r \in Unused /\ Unused' = Unused \ {r} /\ Sent' = Sent \cup {r}
  BY <1>1, <1>3 DEF Unused, Sent
<1>5. [token |-> t, order |-> o] \in Credit
  BY <1>4 DEF Credit
<1>6. ASSUME NEW e \in Effects, k # NoKey PROVE e.key # k
  <2>1. PICK q \in Sent : e = EffectOf(q)
    BY DEF Effects
  <2>2. q \in Requests /\ sent[q] /\ q # r
    BY <1>1, <2>1 DEF Sent
  <2>3. body[q].key # k
    BY <1>1, <1>6, <2>2 DEF Inv, RowFollowsControl, KeyIsUnique
  <2> QED
    BY <2>1, <2>3 DEF EffectOf
<1>7. Credit' = Credit \ {[token |-> t, order |-> o]}
  <2>1. \A q \in Unused : approval[q] = t => q = r
    BY <1>1 DEF Unused, Inv, ApprovalIsOwn
  <2>2. Credit' = {[token |-> approval[q], order |-> Order(q)] : q \in Unused \ {r}}
    BY <1>3, <1>4 DEF Credit, Order
  <2> QED
    BY <2>1, <2>2 DEF Credit
<1>8. Effects' = Effects \cup {[key |-> k, order |-> o, token |-> t]}
  BY <1>3, <1>4 DEF Effects, EffectOf, Order
<1>9. UNCHANGED Spent
  BY <1>3 DEF Spent
<1> QED
  BY <1>2, <1>5, <1>6, <1>7, <1>8, <1>9

(***************************************************************************)
(* The command path implements its promise: seen from the device, requests *)
(* with retries, crashes and races are one-time approvals, each used for   *)
(* the order it was given for, and each key used once.                     *)
(***************************************************************************)
THEOREM Refinement == Spec => ImplementsPromise
<1>1. Init => Promise!Init
  BY DEF Init, Promise!Init, Unissued
<1>2. Inv /\ [Next]_vars => [Promise!Next]_(Promise!vars)
  <2> SUFFICES ASSUME Inv, [Next]_vars PROVE Promise!Next \/ UNCHANGED Promise!vars
    OBVIOUS
  <2>1. ASSUME Spent' = Spent /\ Credit' = Credit /\ Effects' = Effects
        PROVE  UNCHANGED Promise!vars
    BY <2>1 DEF Promise!vars, Spent, Credit, Effects, Unused, Sent
  <2>2. ASSUME NEW r \in Requests, Arrive(r) PROVE UNCHANGED Promise!vars
    BY <2>1, <2>2, ArriveStep
  <2>3. ASSUME NEW r \in Requests, ConsumeConfirmation(r)
        PROVE  Promise!Next \/ UNCHANGED Promise!vars
    BY <2>1, <2>3, ConsumeStep
    DEF Promise!Next, Promise!Accept, Promise!Waste, Spent, Credit, Effects, Unused, Sent
  <2>4. ASSUME NEW r \in Requests, Dispatch(r) PROVE Promise!Next
    BY <2>4, DispatchStep
    DEF Promise!Next, Promise!Act, Spent, Credit, Effects, Unused, Sent
  <2>5. ASSUME NEW t \in Tokens, ExpireToken(t) PROVE UNCHANGED Promise!vars
    <3>1. tokens[t] \in TokenRow
      BY <2>5 DEF ExpireToken, Inv, TypeOK, Unissued
    <3>2. Spent' = Spent /\ UNCHANGED <<body, approval, sent>>
      BY <2>5, <3>1 DEF ExpireToken, Inv, TypeOK, Spent, TokenRow
    <3> QED
      BY <2>1, <3>2, QuietStep
  <2>6. ASSUME NEW t \in Tokens, NEW o \in Orders, IssueConfirmation(t, o)
        PROVE  UNCHANGED Promise!vars
    <3>1. Spent' = Spent /\ UNCHANGED <<body, approval, sent>>
      BY <2>6 DEF IssueConfirmation, Inv, TypeOK, Spent
    <3> QED
      BY <2>1, <3>1, QuietStep
  <2>7. CASE UNCHANGED <<body, approval, sent, tokens>>
    <3>1. Spent' = Spent
      BY <2>7 DEF Spent
    <3> QED
      BY <2>1, <2>7, <3>1, QuietStep
  <2> QED
    BY <2>2, <2>3, <2>4, <2>5, <2>6, <2>7
    DEF Next, Step, Environment, vars, CheckSource, LookupKey, CheckSafety, CheckPolicy,
        LoadTarget, ClaimOperation, SealTarget, TakeTarget, RecordRestart, RecordVerdict,
        Crash, ExpireTarget, CooldownElapses, SetPolicy
<1> QED
  BY <1>1, <1>2, Invariance, PTL DEF Spec, ImplementsPromise, Promise!Spec
=============================================================================
