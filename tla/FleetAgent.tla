----------------------------- MODULE FleetAgent -----------------------------
(***************************************************************************)
(* The local agent (agent/agent.py, _run_main) between the miners of a     *)
(* home network, which change their addresses, and the registry of the     *)
(* server.  The agent remembers in its process what it found and which     *)
(* addresses the server refused.                                           *)
(***************************************************************************)
EXTENDS FleetIdentity

CONSTANTS
    Contradicted,    \* identity_conflict: another miner answered at a known address
    MaxMoves,        \* bound on the changes of address
    MaxOperations,   \* bound on what the operator does
    MaxLost          \* bound on register calls that fail after all their attempts

VARIABLES
    at,              \* the address of every miner
    known,           \* known: the miner the agent expects at an address
    blocked,         \* blocked_ips
    agent,           \* where the agent is in its loop
    left             \* what the bounds leave

agentVars == <<identityVars, at, known, blocked, agent, left>>
serverVars == <<rows, alias, samples, req, banned>>

AgentTypeOK ==
    /\ IdentityTypeOK
    /\ at \in [Macs -> Ips \cup {NoIp}]
    /\ known \in [Ips -> Macs \cup {NoMac, Contradicted}]
    /\ blocked \subseteq Ips
    /\ agent \in [pc : {"scan", "register", "poll"}, first : BOOLEAN,
                  found : SUBSET [ip : Ips, mac : Macs], sent : SUBSET [ip : Ips, mac : Macs],
                  refused : SUBSET Ips, due : SUBSET Ips]
    /\ left \in [moves : 0..MaxMoves, operations : 0..MaxOperations, lost : 0..MaxLost]

Started == [pc |-> "scan", first |-> TRUE, found |-> {}, sent |-> {}, refused |-> {}, due |-> {}]

(* An empty registry: a new tenant starts an agent. *)
AgentInit ==
    /\ rows = [i \in Ids |-> UnusedRow]
    /\ alias = [m \in Macs |-> NoRow]
    /\ samples = {}
    /\ req = [r \in Requests |-> NoRequest]
    /\ banned = {}
    /\ at \in {f \in [Macs -> Ips \cup {NoIp}] :
                 \A m, n \in Macs : m # n /\ f[m] # NoIp => f[m] # f[n]}
    /\ known = [ip \in Ips |-> NoMac]
    /\ blocked = {}
    /\ agent = Started
    /\ left = [moves |-> MaxMoves, operations |-> MaxOperations, lost |-> MaxLost]

-----------------------------------------------------------------------------
(***************************************************************************)
(* Discovery and registration                                              *)
(***************************************************************************)
Found == {c \in [ip : Ips, mac : Macs] : at[c.mac] = c.ip}

Unresolved(ip) == known[ip] \in {NoMac, Contradicted}

CandidatesUnknown ==  \* mutant: only an address nothing is known of is registered
    {c \in Found : c.ip \notin blocked /\ known[c.ip] = NoMac}

(* The first scan registers all it finds, a rescan what it does not know. *)
Candidates == IF agent.first THEN Found
              ELSE {c \in Found : c.ip \notin blocked /\ Unresolved(c.ip)}

PollDue(names, stopped) == {ip \in Ips : names[ip] \notin {NoMac, Contradicted} /\ ip \notin stopped}

Scan ==
    /\ agent.pc = "scan"
    /\ agent' = [agent EXCEPT !.pc = "register", !.found = Candidates, !.sent = Candidates, !.refused = {}]
    /\ UNCHANGED <<serverVars, at, known, blocked, left>>

(* agent_register_devices takes the candidates in the order the probes ended. *)
Register(c) ==
    /\ agent.pc = "register"
    /\ c \in agent.sent
    /\ \/ /\ Agrees(c.ip, c.mac) /\ Known(c.mac) \subseteq Active
          /\ \/ Known(c.mac) = {} /\ CanAddWorker /\ \E i \in Ids : InsertRow(i, c.ip, c.mac)
             \/ \E i \in Known(c.mac) : MoveRow(i, c.ip, c.mac)
          /\ agent' = [agent EXCEPT !.sent = @ \ {c}]
       \/ /\ \/ ~Agrees(c.ip, c.mac)
             \/ ~(Known(c.mac) \subseteq Active)
             \/ Known(c.mac) = {} /\ ~CanAddWorker
          /\ agent' = [agent EXCEPT !.sent = @ \ {c}, !.refused = @ \cup {c.ip}]
          /\ UNCHANGED <<rows, alias>>
    /\ UNCHANGED <<samples, req, banned, at, known, blocked, left>>

Learned(found, refused) ==
    [ip \in Ips |-> IF ip \in refused THEN NoMac
                    ELSE IF \E c \in found : c.ip = ip
                    THEN (CHOOSE c \in found : c.ip = ip).mac ELSE known[ip]]

BeginPolling(names, stopped) ==
    agent' = [agent EXCEPT !.pc = "poll", !.first = FALSE, !.found = {}, !.sent = {},
                           !.refused = {}, !.due = PollDue(names, stopped)]

Registered ==
    /\ agent.pc = "register"
    /\ agent.sent = {}
    /\ blocked' = blocked \cup agent.refused
    /\ known' = Learned(agent.found, blocked')
    /\ BeginPolling(known', blocked')
    /\ UNCHANGED <<serverVars, at, left>>

(* No answer: the server has dealt with some of the candidates, or all.  The  *)
(* first call is not repeated, and what it was about counts as known.         *)
RegisterLost ==
    /\ agent.pc = "register"
    /\ agent.found # {}
    /\ left.lost > 0
    /\ left' = [left EXCEPT !.lost = @ - 1]
    /\ known' = IF agent.first THEN Learned(agent.found, {}) ELSE known
    /\ BeginPolling(known', blocked)
    /\ UNCHANGED <<serverVars, at, blocked>>

-----------------------------------------------------------------------------
(***************************************************************************)
(* Polling                                                                 *)
(***************************************************************************)
Answered(ip) == agent' = [agent EXCEPT !.due = @ \ {ip}]

(* Another miner answers: nothing is sent until a rescan has resolved it. *)
PollContradicted(ip) ==
    /\ agent.pc = "poll"
    /\ ip \in agent.due
    /\ \E m \in Macs : at[m] = ip /\ m # known[ip]
    /\ known' = [known EXCEPT ![ip] = Contradicted]
    /\ Answered(ip)
    /\ UNCHANGED <<serverVars, at, blocked, left>>

Accepted(ip, mac) == Agrees(ip, mac) /\ \E i \in Known(mac) : i \in Active /\ rows[i].ip = ip
RemovedOf(ip, mac) == Agrees(ip, mac) /\ Known(mac) # {} /\ ~(Known(mac) \subseteq Active)

PushCarryingOn(ip) ==  \* mutant: a removed device stays in the poll set
    /\ agent.pc = "poll"
    /\ ip \in agent.due
    /\ \A m \in Macs : at[m] = ip => m = known[ip]
    /\ samples' = samples \cup {[of |-> i, from |-> known[ip]] : i \in {j \in Known(known[ip]) : Accepted(ip, known[ip])}}
    /\ Answered(ip)
    /\ UNCHANGED <<rows, alias, req, banned, at, known, blocked, left>>

(* The sample of the miner, or an empty one when nobody answers, is pushed:  *)
(* 200, 410 removed, or 409, after which the agent carries on.               *)
Push(ip) ==
    /\ agent.pc = "poll"
    /\ ip \in agent.due
    /\ \A m \in Macs : at[m] = ip => m = known[ip]
    /\ IF RemovedOf(ip, known[ip])
       THEN /\ blocked' = blocked \cup {ip}
            /\ known' = [known EXCEPT ![ip] = NoMac]
            /\ UNCHANGED samples
       ELSE /\ samples' = samples \cup
                 {[of |-> i, from |-> known[ip]] : i \in {j \in Known(known[ip]) : Accepted(ip, known[ip])}}
            /\ UNCHANGED <<known, blocked>>
    /\ Answered(ip)
    /\ UNCHANGED <<rows, alias, req, banned, at, left>>

Rescan ==
    /\ agent.pc = "poll"
    /\ agent.due = {}
    /\ agent' = [agent EXCEPT !.pc = "scan"]
    /\ UNCHANGED <<serverVars, at, known, blocked, left>>

-----------------------------------------------------------------------------
(***************************************************************************)
(* The network and the operator                                            *)
(***************************************************************************)
Move(m, ip) ==
    /\ left.moves > 0
    /\ at[m] # ip
    /\ ip # NoIp => \A n \in Macs : at[n] # ip
    /\ at' = [at EXCEPT ![m] = ip]
    /\ left' = [left EXCEPT !.moves = @ - 1]
    /\ UNCHANGED <<serverVars, known, blocked, agent>>

Operate ==
    /\ left.operations > 0
    /\ left' = [left EXCEPT !.operations = @ - 1]
    /\ (\E i \in Ids : RemoveRow(i)) \/ (\E ip \in Ips, mac \in Macs : Restore(ip, mac))
    /\ UNCHANGED <<at, known, blocked, agent>>

AgentStep ==
    \/ Scan \/ Registered \/ Rescan
    \/ \E c \in [ip : Ips, mac : Macs] : Register(c)
    \/ \E ip \in Ips : PollContradicted(ip) \/ Push(ip)

AgentNext ==
    \/ AgentStep
    \/ RegisterLost
    \/ \E m \in Macs, ip \in Ips \cup {NoIp} : Move(m, ip)
    \/ Operate

AgentSpec == AgentInit /\ [][AgentNext]_agentVars

(* The agent is a loop whose calls all have timeouts. *)
FairAgentSpec == AgentSpec /\ WF_agentVars(AgentStep)

-----------------------------------------------------------------------------
(***************************************************************************)
(* Properties                                                              *)
(***************************************************************************)

(* The miner's row has its address, and the agent reports on it. *)
Tracked(m) ==
    /\ at[m] \in Ips \ blocked
    /\ known[at[m]] = m
    /\ \E i \in Active : rows[i].mac = m /\ rows[i].ip = at[m]

(* A miner the server would take where it is. *)
Welcome(m) ==
    /\ at[m] \in Ips \ blocked
    /\ Agrees(at[m], m)
    /\ Known(m) \subseteq Active
    /\ Known(m) = {} => CanAddWorker

(* "Re-scan periodically so newly added miners appear" (agent.py): a miner    *)
(* that stays where it is welcome, and that the agent does not take for known *)
(* there once its first registration is over, is tracked in the end, whoever  *)
(* had the address before.                                                    *)
NewMinersAppear ==
    \A m \in Macs, ip \in Ips :
        at[m] = ip /\ Welcome(m) /\ known[ip] # m /\ ~agent.first
            ~> Tracked(m) \/ ~Welcome(m) \/ at[m] # ip

(* A device the operator removed is dropped from the poll set, wherever it    *)
(* is polled.                                                                 *)
Polled(m) == \E ip \in Ips : known[ip] = m

RemovedIsDropped ==
    \A m \in Macs : m \in banned /\ Polled(m) ~> m \notin banned \/ ~Polled(m)

(* The agent follows the fleet: what is new is tracked, what is removed is not. *)
MinersAreFollowed == NewMinersAppear /\ RemovedIsDropped
=============================================================================
