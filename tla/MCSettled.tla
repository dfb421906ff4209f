----------------------------- MODULE MCSettled -----------------------------
(***************************************************************************)
(* A command that was accepted does not stay open: one that waits for an   *)
(* agent, and one whose effect a client polls for.  The two share no state *)
(* and every behaviour is one of one of them, `part`.                      *)
(***************************************************************************)
EXTENDS Integers

VARIABLES
    part,
    tick, entries, pull, loops, acks, ran,
    command, now, device, entry, refresh, row, handler, poll, shown

queueVars == <<tick, entries, pull, loops, acks, ran>>
pollVars == <<command, now, device, entry, refresh, row, handler, poll, shown>>
vars == <<part, queueVars, pollVars>>

Agents == {"a1"}
Pulls == {"t1"}

(* A command and a probe in a queue that is listed one row at a time. *)
Queue == INSTANCE AgentCommandQueue WITH
    Commands <- {"c1", "p1"}, Probes <- {"p1"}, NoCommand <- "no command", NoPull <- "no pull",
    TTL <- 2, Requeue <- 1, Limit <- 1, Horizon <- 5,
    now <- tick, row <- entries, agent <- loops

(* A pool update of a device that may go down, or be removed, and stay away. *)
Polled == INSTANCE CommandReconciliation WITH
    Commands <- {"update_pool"}, PoolReported <- TRUE, Removable <- TRUE,
    Pollers <- {"p1"}, Timeout <- 1, Horizon <- 3, MaxBoots <- 1

-----------------------------------------------------------------------------
Init ==
    /\ part \in {"queue", "polled"}
    /\ Queue!Init
    /\ Polled!Init /\ (part = "queue" => entry.at = 0)

Next ==
    /\ UNCHANGED part
    /\ IF part = "queue" THEN Queue!Next ELSE UNCHANGED queueVars
    /\ IF part = "polled" THEN Polled!Next ELSE UNCHANGED pollVars

(* The fairness of the two, of the behaviours that are their own. *)
Fairness ==
    /\ WF_queueVars(part = "queue" /\ Queue!Tick)
    /\ \A a \in Agents :
         /\ WF_queueVars(part = "queue" /\ Queue!Run(a))
         /\ WF_queueVars(part = "queue" /\ Queue!GiveUp(a))
    /\ \A t \in Pulls :
         /\ SF_queueVars(part = "queue" /\ Queue!List(t))
         /\ SF_queueVars(part = "queue" /\ Queue!Decide(t))
         /\ WF_queueVars(part = "queue" /\ Queue!Reply(t))
    /\ WF_pollVars(part = "polled" /\ Polled!Tick)
    /\ WF_pollVars(part = "polled" /\ Polled!PollStep("p1"))

FairSpec == Init /\ [][Next]_vars /\ Fairness

-----------------------------------------------------------------------------
(***************************************************************************)
(* The properties, of the modules that define them                         *)
(***************************************************************************)
(* A queued command or probe reaches a terminal state, and an acknowledged *)
(* command is confirmed, failed or unknown in the end.                     *)
CommandsAreSettled == Queue!CommandsAreSettled /\ Polled!AcknowledgedIsSettled
=============================================================================
