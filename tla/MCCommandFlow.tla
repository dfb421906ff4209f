---------------------------- MODULE MCCommandFlow ----------------------------
(***************************************************************************)
(* What passes between the agents and the server: the commands they pull,  *)
(* and the miners they push, which become rows with an identity and        *)
(* snapshots in a cache, with the instance of the cfg.  They share no      *)
(* state: every behaviour is one of one of them, `part`, so that their     *)
(* states add up and do not multiply.                                      *)
(***************************************************************************)
EXTENDS AgentCommandQueue_proofs, Fleet_proofs, TLC

VARIABLE
    part

ASSUME IdentityAssumptions /\ TelemetryAssumptions

AgentPullSymmetry == Permutations(Agents) \cup Permutations(Pulls)

flowVars == <<part, vars, identityVars, telemetryVars>>

-----------------------------------------------------------------------------
(* Rows only differ by what they hold: the first ones are taken in one order, *)
(* and the third is free.                                                     *)
Rank(first) ==
    CASE first = UnusedRow -> 6
      [] first.mac = "A" -> IF first.ip = "x" THEN 0 ELSE 1
      [] first.mac = "B" -> IF first.ip = "x" THEN 2 ELSE 3
      [] OTHER -> IF first.ip = "x" THEN 4 ELSE 5

(* What is not at work has one of its first states. *)
FlowInit ==
    /\ part \in {"queue", "identity", "telemetry"}
    /\ Init /\ (part # "queue" => \A s, t \in Pulls : pull[s] = pull[t])
    /\ IdentityInit /\ (part # "identity" => rows = [i \in Ids |-> UnusedRow])
    /\ rows[3] = UnusedRow /\ Rank(rows[1]) <= Rank(rows[2])
    /\ TelemetryInit /\ (part # "telemetry" => pushed = [k \in SampleKeys |-> Nothing])

FlowNext ==
    /\ UNCHANGED part
    /\ IF part = "queue" THEN Next ELSE UNCHANGED vars
    /\ IF part = "identity" THEN IdentityNext ELSE UNCHANGED identityVars
    /\ IF part = "telemetry" THEN TelemetryNext ELSE UNCHANGED telemetryVars

FlowSpec == FlowInit /\ [][FlowNext]_flowVars
=============================================================================
