-------------------------- MODULE AgentCommandQueue --------------------------
(***************************************************************************)
(* Commands for devices behind a home network: the server queues them in   *)
(* axe_agent_commands (axe_fleet/registry.py), the local agents of the     *)
(* tenant pull them over HTTP (agent_pull_commands), execute them on the   *)
(* LAN and acknowledge them (agent/agent.py, agent_ack_command).           *)
(*                                                                         *)
(* Agents, the server threads that serve their pulls, and acknowledgements *)
(* in flight are concurrent; requests and replies are delayed or lost, and *)
(* either side dies at any time.  Only the rows survive.  What the server  *)
(* checks of the device (policy, readiness, capability, identity) and what *)
(* the agent finds at its address are arbitrary.  Server and agents share  *)
(* one clock, the premise of the expiry the server sends.                  *)
(***************************************************************************)
EXTENDS Naturals, FiniteSets

CONSTANTS
    Commands,   \* commands an operator can queue
    Probes,     \* those that only look for a device
    Agents,     \* agents that hold a token of the tenant
    Pulls,      \* server threads that can serve a pull
    NoCommand, NoPull,
    TTL,        \* AGENT_COMMAND_TTL_S
    Requeue,    \* requeue_after
    Limit,      \* rows one pull lists
    Horizon     \* bound: the last second modelled

ASSUME ProbesAreCommands == Probes \subseteq Commands
ASSUME NullsAreFresh == NoCommand \notin Commands /\ NoPull \notin Pulls
ASSUME TimesArePositive ==
    /\ TTL \in Nat \ {0} /\ Requeue \in Nat \ {0}
    /\ Limit \in Nat \ {0} /\ Horizon \in Nat \ {0}

VARIABLES
    now,     \* the clock
    row,     \* the row of each command
    pull,    \* the pulls the server serves
    agent,   \* the loops of the agents
    acks,    \* acknowledgements under way
    ran      \* history: how often a command was sent to a device

vars == <<now, row, pull, agent, acks, ran>>

Time == 0..Horizon   \* 0 is also "never"
Terminal == {"done", "failed", "expired", "blocked", "unknown"}
Row == [status : {"absent", "pending", "pulled"} \cup Terminal, created : Time, pulled : Time]

(* todo: rows listed and not decided; overdue: those listed as pulled; at: the *)
(* clock their age is taken from; batch: rows claimed for the reply.           *)
Pull == [pc : {"idle", "sent", "serving"}, by : Agents, todo : SUBSET Commands,
         overdue : SUBSET Commands, at : Time, batch : SUBSET Commands]

Idle(a) == [pc |-> "idle", by |-> a, todo |-> {}, overdue |-> {}, at |-> 0, batch |-> {}]

(* waits: the pull whose reply it awaits; batch: commands to execute; *)
(* probing: the command whose target it identifies.                   *)
Agent == [waits : Pulls \cup {NoPull}, batch : SUBSET Commands,
          probing : Commands \cup {NoCommand}]
Rested == [waits |-> NoPull, batch |-> {}, probing |-> NoCommand]

Ack == [command : Commands, by : Agents, success : BOOLEAN]

TypeOK ==
    /\ now \in Time \ {0}
    /\ row \in [Commands -> Row]
    /\ pull \in [Pulls -> Pull]
    /\ agent \in [Agents -> Agent]
    /\ acks \subseteq Ack
    /\ ran \in [Commands -> Nat]

Init ==
    /\ now = 1
    /\ row = [c \in Commands |-> [status |-> "absent", created |-> 0, pulled |-> 0]]
    /\ pull \in [Pulls -> {Idle(a) : a \in Agents}]
    /\ agent = [a \in Agents |-> Rested]
    /\ acks = {}
    /\ ran = [c \in Commands |-> 0]

-----------------------------------------------------------------------------
(***************************************************************************)
(* Helpers                                                                 *)
(***************************************************************************)
IsOverdue(c) == row[c].status = "pulled" /\ now - row[c].pulled > Requeue
PendingOnly == {c \in Commands : row[c].status = "pending"}  \* mutant: nothing is overdue
Listable == {c \in Commands : row[c].status = "pending" \/ IsOverdue(c)}

(* ORDER BY created_at LIMIT: of rows with one timestamp any may come first. *)
IsListing(S) ==
    /\ S \subseteq Listable
    /\ \A c \in S, d \in Listable \ S : row[c].created <= row[d].created
    /\ S = Listable \/ Cardinality(S) = Limit
    /\ Cardinality(S) <= Limit

IsOldest(c, S) == c \in S /\ \A d \in S : row[c].created <= row[d].created

(* The WHERE clause of mark_command_pulled. *)
ClaimableAgain(c) ==  \* mutant: every overdue delivery is reclaimed
    /\ now - row[c].created <= TTL
    /\ row[c].status = "pending" \/ IsOverdue(c)

Claimable(c) ==
    /\ now - row[c].created <= TTL
    /\ row[c].status = "pending" \/ (c \in Probes /\ IsOverdue(c))

HasExpired(c) == now >= row[c].created + TTL   \* expires_at, as the agent compares it

-----------------------------------------------------------------------------
(***************************************************************************)
(* The operator and the clock                                              *)
(***************************************************************************)
Tick ==
    /\ now < Horizon
    /\ now' = now + 1
    /\ UNCHANGED <<row, pull, agent, acks, ran>>

(* enqueue_agent_command *)
Enqueue(c) ==
    /\ row[c].status = "absent"
    /\ row' = [row EXCEPT ![c] = [status |-> "pending", created |-> now, pulled |-> 0]]
    /\ UNCHANGED <<now, pull, agent, acks, ran>>

-----------------------------------------------------------------------------
(***************************************************************************)
(* The server: agent_pull_commands and agent_ack_command                   *)
(***************************************************************************)

(* pending_agent_commands, then the clock the ages are computed from. *)
List(t) ==
    /\ pull[t].pc = "sent"
    /\ \E S \in SUBSET Commands :
         /\ IsListing(S)
         /\ pull' = [pull EXCEPT ![t] =
              [pc |-> "serving", by |-> pull[t].by, todo |-> S, at |-> now, batch |-> {},
               overdue |-> {c \in S : row[c].status = "pulled"}]]
    /\ UNCHANGED <<now, row, agent, acks, ran>>

(* Mutant: the reason is written where the status belongs. *)
TerminalizeByReason(c, status) ==
    row' = IF row[c].status \in {"pending", "pulled"}
           THEN [row EXCEPT ![c].status = "delivery_outcome_unknown"] ELSE row

(* terminalize_agent_command *)
Terminalize(c, status) ==
    row' = IF row[c].status \in {"pending", "pulled"}
           THEN [row EXCEPT ![c].status = status] ELSE row

(* mark_command_pulled: the claim of one delivery. *)
Claim(t, c) ==
    IF Claimable(c)
    THEN /\ row' = [row EXCEPT ![c].status = "pulled", ![c].pulled = now]
         /\ pull' = [pull EXCEPT ![t].todo = @ \ {c}, ![t].batch = @ \cup {c}]
    ELSE UNCHANGED row /\ pull' = [pull EXCEPT ![t].todo = @ \ {c}]

(* The next row, judged by the status and the clock of the listing.  A physical *)
(* delivery that is overdue is never repeated; a consumer without the command   *)
(* protocol leaves a physical command pending.                                  *)
Decide(t) ==
    /\ pull[t].pc = "serving"
    /\ \E c \in pull[t].todo :
         /\ IsOldest(c, pull[t].todo)
         /\ LET lost == c \in pull[t].overdue \ Probes
                expired == pull[t].at - row[c].created > TTL
                skip == pull' = [pull EXCEPT ![t].todo = @ \ {c}]
            IN \/ lost /\ Terminalize(c, "unknown") /\ skip
               \/ ~lost /\ expired /\ Terminalize(c, "expired") /\ skip
               \/ ~lost /\ ~expired /\ Terminalize(c, "blocked") /\ skip
               \/ ~lost /\ ~expired /\ c \notin Probes /\ UNCHANGED row /\ skip
               \/ ~lost /\ ~expired /\ Claim(t, c)
    /\ UNCHANGED <<now, agent, acks, ran>>

(* The reply reaches the agent if it still waits for it. *)
Reply(t) ==
    /\ pull[t].pc = "serving" /\ pull[t].todo = {}
    /\ pull' = [pull EXCEPT ![t] = Idle(pull[t].by)]
    /\ agent' = IF agent[pull[t].by].waits = t
                THEN [agent EXCEPT ![pull[t].by].waits = NoPull,
                                   ![pull[t].by].batch = pull[t].batch]
                ELSE agent
    /\ UNCHANGED <<now, row, acks, ran>>

(* The request is lost, or its thread dies with the server. *)
Abort(t) ==
    /\ pull[t].pc # "idle"
    /\ pull' = [pull EXCEPT ![t] = Idle(pull[t].by)]
    /\ UNCHANGED <<now, row, agent, acks, ran>>

(* Mutant: any acknowledgement is written. *)
ReceiveAnyAck(m) ==
    /\ m \in acks
    /\ acks' = acks \ {m}
    /\ row' = [row EXCEPT ![m.command].status = IF m.success THEN "done" ELSE "failed"]
    /\ UNCHANGED <<now, pull, agent, ran>>

(* ack_agent_command *)
ReceiveAck(m) ==
    /\ m \in acks
    /\ acks' = acks \ {m}
    /\ row' = IF row[m.command].status \in {"pulled", "unknown"}
              THEN [row EXCEPT ![m.command].status = IF m.success THEN "done" ELSE "failed"]
              ELSE row
    /\ UNCHANGED <<now, pull, agent, ran>>

LoseAck(m) ==
    /\ m \in acks
    /\ acks' = acks \ {m}
    /\ UNCHANGED <<now, row, pull, agent, ran>>

-----------------------------------------------------------------------------
(***************************************************************************)
(* An agent                                                                *)
(***************************************************************************)
SendPull(a, t) ==
    /\ agent[a] = Rested
    /\ pull[t].pc = "idle"
    /\ agent' = [agent EXCEPT ![a].waits = t]
    /\ pull' = [pull EXCEPT ![t].pc = "sent", ![t].by = a]
    /\ UNCHANGED <<now, row, acks, ran>>

(* The request times out; the server may still be serving it. *)
GiveUp(a) ==
    /\ agent[a].waits # NoPull
    /\ agent' = [agent EXCEPT ![a].waits = NoPull]
    /\ UNCHANGED <<now, row, pull, acks, ran>>

Acknowledge(a, c, success) ==
    acks' = acks \cup {[command |-> c, by |-> a, success |-> success]}

(* The next command of the batch: a physical one that has expired is refused, *)
(* otherwise the agent looks at its target.                                   *)
Take(a) ==
    /\ agent[a].probing = NoCommand
    /\ \E c \in agent[a].batch :
         /\ IsOldest(c, agent[a].batch)
         /\ IF c \notin Probes /\ HasExpired(c)
            THEN /\ agent' = [agent EXCEPT ![a].batch = @ \ {c}]
                 /\ Acknowledge(a, c, FALSE)
            ELSE /\ agent' = [agent EXCEPT ![a].batch = @ \ {c}, ![a].probing = c]
                 /\ UNCHANGED acks
    /\ UNCHANGED <<now, row, pull, ran>>

RefuseAsSuccess(a) ==  \* mutant: a command the agent handled is a success
    LET c == agent[a].probing IN
    /\ c # NoCommand
    /\ agent' = [agent EXCEPT ![a].probing = NoCommand]
    /\ Acknowledge(a, c, TRUE)
    /\ UNCHANGED <<now, row, pull, ran>>

(* The target is not there, or is not the device the command was meant for. *)
Refuse(a) ==
    LET c == agent[a].probing IN
    /\ c # NoCommand
    /\ agent' = [agent EXCEPT ![a].probing = NoCommand]
    /\ Acknowledge(a, c, FALSE)
    /\ UNCHANGED <<now, row, pull, ran>>

ExecuteLate(a) ==  \* mutant: the expiry is not checked again after the probe
    LET c == agent[a].probing IN
    /\ c # NoCommand
    /\ ran' = [ran EXCEPT ![c] = @ + 1]
    /\ agent' = [agent EXCEPT ![a].probing = NoCommand]
    /\ \E success \in BOOLEAN : Acknowledge(a, c, success)
    /\ UNCHANGED <<now, row, pull>>

(* The target is identified in time, and the command sent to it once; the device *)
(* may have acted whether or not its answer comes back.                          *)
Execute(a) ==
    LET c == agent[a].probing IN
    /\ c # NoCommand
    /\ c \notin Probes => ~HasExpired(c)
    /\ ran' = [ran EXCEPT ![c] = @ + 1]
    /\ agent' = [agent EXCEPT ![a].probing = NoCommand]
    /\ \E success \in BOOLEAN : Acknowledge(a, c, success)
    /\ UNCHANGED <<now, row, pull>>

(* The process dies and its service manager starts it again. *)
Restart(a) ==
    /\ agent[a] # Rested
    /\ agent' = [agent EXCEPT ![a] = Rested]
    /\ UNCHANGED <<now, row, pull, acks, ran>>

-----------------------------------------------------------------------------
Serve(t) == List(t) \/ Decide(t) \/ Reply(t)
Run(a) == (\E t \in Pulls : SendPull(a, t)) \/ Take(a) \/ Refuse(a) \/ Execute(a)

Next ==
    \/ Tick
    \/ \E c \in Commands : Enqueue(c)
    \/ \E t \in Pulls : Serve(t) \/ Abort(t)
    \/ \E m \in acks : ReceiveAck(m) \/ LoseAck(m)
    \/ \E a \in Agents : Run(a) \/ GiveUp(a) \/ Restart(a)

Spec == Init /\ [][Next]_vars

(***************************************************************************)
(* An agent goes on pulling (its service restarts it for ever), a request  *)
(* times out in the end, and the server does not die in every pull.        *)
(***************************************************************************)
FairSpec ==
    /\ Spec
    /\ WF_vars(Tick)
    /\ \A a \in Agents : WF_vars(Run(a)) /\ WF_vars(GiveUp(a))
    /\ \A t \in Pulls : SF_vars(List(t)) /\ SF_vars(Decide(t)) /\ WF_vars(Reply(t))

-----------------------------------------------------------------------------
(***************************************************************************)
(* Properties                                                              *)
(***************************************************************************)

(* However pulls overlap, replies and acknowledgements are lost and both    *)
(* sides restart, a physical command is sent to its device at most once.    *)
DeliveredAtMostOnce == \A c \in Commands \ Probes : ran[c] <= 1

(* No operator intent is carried out after it expired, however long the     *)
(* reply travelled, the batch before it lasted or the probe took.           *)
ExpiredNeverRuns ==
    [][\A c \in Commands \ Probes :
         ran'[c] # ran[c] => now < row[c].created + TTL]_vars

(* The row of a command that succeeded, of a command nobody has pulled and   *)
(* of a command that was never queued tells the truth about its execution.   *)
RowsAreTrue ==
    \A c \in Commands :
        /\ row[c].status = "done" => ran[c] > 0
        /\ row[c].status \in {"absent", "pending"} => ran[c] = 0

(* A terminal row is never reopened, whatever stale pull or late ACK comes;  *)
(* only a delivery of unknown outcome may learn its outcome later.           *)
TerminalIsFinal ==
    [][\A c \in Commands : row[c].status \in Terminal =>
         row'[c].status \in {row[c].status} \cup
             (IF row[c].status = "unknown" THEN {"done", "failed"} ELSE {})]_vars

(* No queued command is left open: it is delivered, refused, expired or      *)
(* declared unknown (of the commands early enough for the Horizon).          *)
CommandsAreSettled ==
    \A c \in Commands :
        (row[c].status \in {"pending", "pulled"} /\ row[c].created + TTL + Requeue < Horizon)
            ~> row[c].status \in Terminal

(* A row that says the command was never delivered is right: a pull that     *)
(* judged a listing made before another pull claimed the command does not    *)
(* terminalize it as undelivered.  Violated: terminalize_agent_command also  *)
(* accepts a row that was pulled since it was listed.                        *)
UndeliveredNeverRan ==
    \A c \in Commands \ Probes : row[c].status \in {"expired", "blocked"} => ran[c] = 0

-----------------------------------------------------------------------------
(***************************************************************************)
(* The promise this path keeps: a queued physical command is an approval   *)
(* for one effect, used up when it is claimed and wasted when it is not    *)
(* delivered (PhysicalEffects).  There are no idempotency keys: the key of  *)
(* an effect is the number of times its command was sent, so that NoKey is *)
(* the first time and sending it again is no step of the promise.          *)
(***************************************************************************)
Physical == Commands \ Probes

Promise == INSTANCE PhysicalEffects WITH
    Keys <- {},
    NoKey <- 1,
    Tokens <- Physical,
    Orders <- Physical,
    spent <- {c \in Physical : row[c].status \notin {"absent", "pending"}},
    credit <- {[token |-> c, order |-> c] :
                 c \in {d \in Physical : row[d].pulled # 0 /\ ran[d] = 0}},
    effects <- {[key |-> ran[c], order |-> c, token |-> c] :
                 c \in {d \in Physical : ran[d] # 0}}

ImplementsPromise == Promise!Spec
=============================================================================
