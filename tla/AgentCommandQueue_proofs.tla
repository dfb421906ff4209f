---------------------- MODULE AgentCommandQueue_proofs ----------------------
(***************************************************************************)
(* Proofs about AgentCommandQueue, for any number of commands, agents and  *)
(* server threads, and any expiry and requeue times.                       *)
(***************************************************************************)
EXTENDS AgentCommandQueue, TLAPS

(* Who carries a command: the reply of a pull, or an agent. *)
InReply(t, c) == c \in pull[t].batch
InAgent(a, c) == c \in agent[a].batch \/ agent[a].probing = c
Carried(c) == (\E t \in Pulls : InReply(t, c)) \/ (\E a \in Agents : InAgent(a, c))

(***************************************************************************)
(* A command nobody has claimed is carried by nobody and has not run; one  *)
(* that is carried or has run was claimed.                                 *)
(***************************************************************************)
RowTracksDelivery ==
    \A c \in Commands :
        /\ row[c].status \in {"absent", "pending"} =>
             row[c].pulled = 0 /\ ran[c] = 0 /\ ~Carried(c)
        /\ Carried(c) \/ ran[c] # 0 => row[c].pulled # 0

(***************************************************************************)
(* A physical command is in one place: in one reply, with one agent, or    *)
(* executed, once.                                                         *)
(***************************************************************************)
CarriedOnce ==
    \A c \in Physical :
        /\ \A t, u \in Pulls : InReply(t, c) /\ InReply(u, c) => t = u
        /\ \A a, b \in Agents : InAgent(a, c) /\ InAgent(b, c) => a = b
        /\ \A t \in Pulls, a \in Agents : ~(InReply(t, c) /\ InAgent(a, c))
        /\ \A a \in Agents : ~(c \in agent[a].batch /\ agent[a].probing = c)
        /\ Carried(c) => ran[c] = 0
        /\ ran[c] <= 1

(***************************************************************************)
(* Success is claimed, in an acknowledgement or in a row, only of commands *)
(* that ran.                                                               *)
(***************************************************************************)
SuccessIsTrue ==
    /\ \A m \in acks : m.success => ran[m.command] # 0
    /\ \A c \in Commands : row[c].status = "done" => ran[c] # 0

Inv == TypeOK /\ RowTracksDelivery /\ CarriedOnce /\ SuccessIsTrue

-----------------------------------------------------------------------------
(***************************************************************************)
(* The two updates of a row                                                *)
(***************************************************************************)

(* Terminalizing a row leaves its times alone, and changes only an open status. *)
LEMMA TerminalizeEffect ==
    ASSUME row \in [Commands -> Row], NEW c \in Commands, NEW status \in Terminal,
           Terminalize(c, status)
    PROVE  /\ row' \in [Commands -> Row]
           /\ \A d \in Commands :
                /\ row'[d].created = row[d].created
                /\ row'[d].pulled = row[d].pulled
                /\ \/ row'[d].status = row[d].status
                   \/ /\ d = c /\ row'[d].status = status
                      /\ row[d].status \in {"pending", "pulled"}
BY DEF Terminalize, Row, Terminal

(* Claiming a command marks its row and puts it into one reply. *)
LEMMA ClaimEffect ==
    ASSUME TypeOK, NEW t \in Pulls, NEW c \in Commands, Claim(t, c), Claimable(c)
    PROVE  /\ row' \in [Commands -> Row]
           /\ \A d \in Commands \ {c} : row'[d] = row[d]
           /\ row'[c].created = row[c].created
           /\ row'[c].pulled = now /\ row'[c].status = "pulled"
           /\ pull' \in [Pulls -> Pull]
           /\ \A u \in Pulls : pull'[u].batch = IF u = t THEN pull[t].batch \cup {c} ELSE pull[u].batch
<1>1. /\ row' = [row EXCEPT ![c].status = "pulled", ![c].pulled = now]
      /\ pull' = [pull EXCEPT ![t].todo = @ \ {c}, ![t].batch = @ \cup {c}]
  BY DEF Claim
<1>2. now \in Time /\ row \in [Commands -> Row] /\ pull \in [Pulls -> Pull]
  BY DEF TypeOK
<1>3. /\ row' \in [Commands -> Row]
      /\ \A d \in Commands \ {c} : row'[d] = row[d]
      /\ row'[c].created = row[c].created
      /\ row'[c].pulled = now /\ row'[c].status = "pulled"
  BY <1>1, <1>2 DEF Row
<1>4. /\ pull' \in [Pulls -> Pull]
      /\ \A u \in Pulls :
           pull'[u].batch = IF u = t THEN pull[t].batch \cup {c} ELSE pull[u].batch
  BY <1>1, <1>2 DEF Pull
<1> QED
  BY <1>3, <1>4

-----------------------------------------------------------------------------
(***************************************************************************)
(* Steps of Decide                                                         *)
(***************************************************************************)
(* A listed command that is passed over, terminal or not, was not delivered by this pull. *)
LEMMA SkipStep ==
    ASSUME Inv, NEW t \in Pulls, NEW c \in Commands, NEW status \in Terminal \ {"done"},
           Terminalize(c, status) \/ UNCHANGED row,
           pull' = [pull EXCEPT ![t].todo = @ \ {c}],
           UNCHANGED <<now, agent, acks, ran>>
    PROVE  Inv'
<1>1. /\ pull' \in [Pulls -> Pull]
      /\ \A u \in Pulls : pull'[u].batch = pull[u].batch
  BY DEF Inv, TypeOK, Pull
<1>2. /\ row' \in [Commands -> Row]
      /\ \A d \in Commands :
           /\ row'[d].pulled = row[d].pulled
           /\ \/ row'[d].status = row[d].status
              \/ row'[d].status \notin {"absent", "pending", "done"}
  <2>1. CASE UNCHANGED row
    BY <2>1 DEF Inv, TypeOK
  <2>2. CASE Terminalize(c, status)
    BY <2>2, TerminalizeEffect DEF Inv, TypeOK, Terminal
  <2> QED
    BY <2>1, <2>2
<1>3. TypeOK'
  BY <1>1, <1>2 DEF Inv, TypeOK
<1>4. \A d \in Commands : Carried(d)' <=> Carried(d)
  BY <1>1 DEF Carried, InReply, InAgent
<1>5. RowTracksDelivery'
  BY <1>2, <1>4 DEF Inv, RowTracksDelivery
<1>6. CarriedOnce'
  BY <1>1, <1>4 DEF Inv, CarriedOnce, InReply, InAgent, Physical
<1>7. SuccessIsTrue'
  BY <1>2 DEF Inv, SuccessIsTrue
<1> QED
  BY <1>3, <1>5, <1>6, <1>7 DEF Inv

(* A claim puts a command into one reply, once; a lost claim changes nothing. *)
LEMMA ClaimStep ==
    ASSUME Inv, NEW t \in Pulls, NEW c \in Commands, Claim(t, c),
           UNCHANGED <<now, agent, acks, ran>>
    PROVE  Inv'
<1>1. CASE ~Claimable(c)
  <2>1. UNCHANGED row /\ pull' = [pull EXCEPT ![t].todo = @ \ {c}]
    BY <1>1 DEF Claim
  <2> QED
    BY <2>1, SkipStep, "failed" \in Terminal \ {"done"} DEF Terminal
<1>2. CASE Claimable(c)
  <2>1. /\ row' \in [Commands -> Row] /\ pull' \in [Pulls -> Pull]
        /\ \A d \in Commands \ {c} : row'[d] = row[d]
        /\ row'[c].pulled = now /\ row'[c].status = "pulled"
        /\ \A u \in Pulls :
             pull'[u].batch = IF u = t THEN pull[t].batch \cup {c} ELSE pull[u].batch
    BY <1>2, ClaimEffect DEF Inv
  <2>2. now # 0
    BY DEF Inv, TypeOK
  <2>3. \A d \in Commands \ {c} : Carried(d)' <=> Carried(d)
    BY <2>1 DEF Carried, InReply, InAgent
  <2>4. TypeOK'
    BY <2>1 DEF Inv, TypeOK
  <2>5. RowTracksDelivery'
    BY <2>1, <2>2, <2>3 DEF Inv, RowTracksDelivery
  <2>6. CarriedOnce'
    <3>1. c \in Physical => ~Carried(c) /\ ran[c] = 0
      BY <1>2 DEF Inv, Claimable, RowTracksDelivery, Physical
    <3>2. \A d \in Physical, u \in Pulls : InReply(u, d)' <=> InReply(u, d) \/ (d = c /\ u = t)
      BY <2>1 DEF InReply
    <3>3. \A d \in Commands, a \in Agents : InAgent(a, d)' <=> InAgent(a, d)
      BY DEF InAgent
    <3> QED
      BY <2>3, <3>1, <3>2, <3>3 DEF Inv, CarriedOnce, Carried, Physical
  <2>7. SuccessIsTrue'
    BY <2>1 DEF Inv, SuccessIsTrue
  <2> QED
    BY <2>4, <2>5, <2>6, <2>7 DEF Inv
<1> QED
  BY <1>1, <1>2

(***************************************************************************)
(* A step that hands no command on: fewer are carried, rows and runs stay. *)
(***************************************************************************)
LEMMA DropStep ==
    ASSUME Inv, TypeOK',
           \A t \in Pulls : pull'[t].batch \subseteq pull[t].batch,
           \A a \in Agents : agent'[a].batch \subseteq agent[a].batch,
           \A a \in Agents : agent'[a].probing \in {agent[a].probing, NoCommand},
           \A m \in acks' : m \in acks \/ ~m.success,
           UNCHANGED <<row, ran>>
    PROVE  Inv'
<1>1. \A c \in Commands : /\ \A t \in Pulls : InReply(t, c)' => InReply(t, c)
                          /\ \A a \in Agents : InAgent(a, c)' => InAgent(a, c)
  BY NullsAreFresh DEF InReply, InAgent
<1>2. \A c \in Commands : Carried(c)' => Carried(c)
  BY <1>1 DEF Carried
<1>3. RowTracksDelivery'
  BY <1>2 DEF Inv, RowTracksDelivery
<1>4. CarriedOnce'
  <2>1. \A c \in Physical, a \in Agents : ~(c \in agent'[a].batch /\ agent'[a].probing = c)
    BY NullsAreFresh DEF Inv, CarriedOnce, Physical
  <2> QED
    BY <1>1, <1>2, <2>1 DEF Inv, CarriedOnce, Physical
<1>5. SuccessIsTrue'
  BY DEF Inv, SuccessIsTrue
<1> QED
  BY <1>3, <1>4, <1>5 DEF Inv

(* The reply moves a batch from the server to the agent that waits for it. *)
LEMMA ReplyStep ==
    ASSUME Inv, NEW t \in Pulls, Reply(t)
    PROVE  Inv'
<1> DEFINE a == pull[t].by
<1>1. a \in Agents
  BY DEF Inv, TypeOK, Pull
<1>2. /\ pull' \in [Pulls -> Pull]
      /\ \A u \in Pulls : pull'[u].batch = IF u = t THEN {} ELSE pull[u].batch
  <2>1. 0 \in Time
    BY TimesArePositive DEF Time
  <2>2. Idle(a) \in Pull /\ Idle(a).batch = {}
    BY <1>1, <2>1 DEF Pull, Idle
  <2> QED
    BY <2>2 DEF Inv, TypeOK, Reply
<1>3. CASE agent[a].waits # t
  <2>1. agent' = agent
    BY <1>3 DEF Reply
  <2>2. TypeOK'
    BY <1>2, <2>1 DEF Inv, TypeOK, Reply
  <2> QED
    BY <1>2, <2>1, <2>2, DropStep DEF Reply
<1>4. CASE agent[a].waits = t
  <2>1. /\ agent' \in [Agents -> Agent]
        /\ \A b \in Agents : /\ agent'[b].probing = agent[b].probing
                             /\ agent'[b].batch = IF b = a THEN pull[t].batch ELSE agent[b].batch
    BY <1>1, <1>4 DEF Inv, TypeOK, Agent, Pull, Reply
  <2>2. TypeOK'
    BY <1>2, <2>1 DEF Inv, TypeOK, Reply
  <2>3. \A c \in Commands :
          /\ \A u \in Pulls : InReply(u, c)' <=> InReply(u, c) /\ u # t
          /\ \A b \in Agents : InAgent(b, c)' => InAgent(b, c) \/ (b = a /\ InReply(t, c))
    BY <1>2, <2>1 DEF InReply, InAgent
  <2>4. \A c \in Commands : Carried(c)' => Carried(c)
    BY <2>3 DEF Carried
  <2>5. RowTracksDelivery'
    BY <2>4 DEF Inv, RowTracksDelivery, Reply
  <2>6. CarriedOnce'
    <3> SUFFICES ASSUME NEW c \in Physical
        PROVE /\ \A u, v \in Pulls : InReply(u, c)' /\ InReply(v, c)' => u = v
              /\ \A b, d \in Agents : InAgent(b, c)' /\ InAgent(d, c)' => b = d
              /\ \A u \in Pulls, b \in Agents : ~(InReply(u, c)' /\ InAgent(b, c)')
              /\ \A b \in Agents : ~(c \in agent'[b].batch /\ agent'[b].probing = c)
              /\ Carried(c)' => ran'[c] = 0
              /\ ran'[c] <= 1
      BY DEF CarriedOnce
    <3>1. c \in Commands
      BY DEF Physical
    <3>2. /\ \A u, v \in Pulls : InReply(u, c)' /\ InReply(v, c)' => u = v
          /\ \A b, d \in Agents : InAgent(b, c)' /\ InAgent(d, c)' => b = d
          /\ \A u \in Pulls, b \in Agents : ~(InReply(u, c)' /\ InAgent(b, c)')
      BY <2>3, <3>1 DEF Inv, CarriedOnce
    <3>3. \A b \in Agents : ~(c \in agent'[b].batch /\ agent'[b].probing = c)
      BY <1>1, <2>1, <3>1 DEF Inv, CarriedOnce, InReply, InAgent
    <3>4. ran' = ran
      BY DEF Reply
    <3> QED
      BY <2>4, <3>1, <3>2, <3>3, <3>4 DEF Inv, CarriedOnce
  <2>7. SuccessIsTrue'
    BY DEF Inv, SuccessIsTrue, Reply
  <2> QED
    BY <2>2, <2>5, <2>6, <2>7 DEF Inv
<1> QED
  BY <1>3, <1>4

(* Sending an acknowledgement keeps the messages in type. *)
LEMMA AcknowledgeType ==
    ASSUME acks \subseteq Ack, NEW a \in Agents, NEW c \in Commands, NEW success \in BOOLEAN,
           acks' = acks \cup {[command |-> c, by |-> a, success |-> success]}
    PROVE  acks' \subseteq Ack
<1>1. [command |-> c, by |-> a, success |-> success] \in Ack
  BY DEF Ack
<1> QED
  BY <1>1

(* Taking a command from the batch. *)
LEMMA TakeStep ==
    ASSUME Inv, NEW a \in Agents, Take(a)
    PROVE  Inv'
<1>1. PICK c \in agent[a].batch :
        \/ /\ agent' = [agent EXCEPT ![a].batch = @ \ {c}]
           /\ acks' = acks \cup {[command |-> c, by |-> a, success |-> FALSE]}
        \/ /\ agent' = [agent EXCEPT ![a].batch = @ \ {c}, ![a].probing = c]
           /\ UNCHANGED acks
  BY DEF Take, Acknowledge
<1>2. c \in Commands /\ InAgent(a, c) /\ agent[a].probing = NoCommand
  BY DEF Inv, TypeOK, Agent, InAgent, Take
<1>3. UNCHANGED <<now, row, pull, ran>>
  BY DEF Take
<1>4. CASE /\ agent' = [agent EXCEPT ![a].batch = @ \ {c}]
           /\ acks' = acks \cup {[command |-> c, by |-> a, success |-> FALSE]}
  <2>1. /\ agent' \in [Agents -> Agent]
        /\ \A b \in Agents : /\ agent'[b].batch \subseteq agent[b].batch
                             /\ agent'[b].probing = agent[b].probing
    <3>1. agent \in [Agents -> Agent]
      BY DEF Inv, TypeOK
    <3> QED
      BY <1>4, <3>1 DEF Agent
  <2>2. TypeOK'
    <3>1. acks' \subseteq Ack
      BY <1>2, <1>4, AcknowledgeType, FALSE \in BOOLEAN DEF Inv, TypeOK
    <3> QED
      BY <1>3, <2>1, <3>1 DEF Inv, TypeOK
  <2> QED
    BY <1>3, <1>4, <2>1, <2>2, DropStep
<1>5. CASE /\ agent' = [agent EXCEPT ![a].batch = @ \ {c}, ![a].probing = c]
           /\ UNCHANGED acks
  <2>1. /\ agent' \in [Agents -> Agent]
        /\ \A b \in Agents :
             /\ agent'[b].batch = IF b = a THEN agent[b].batch \ {c} ELSE agent[b].batch
             /\ agent'[b].probing = IF b = a THEN c ELSE agent[b].probing
    BY <1>2, <1>5 DEF Inv, TypeOK, Agent
  <2>2. TypeOK'
    BY <1>3, <1>5, <2>1 DEF Inv, TypeOK
  <2>3. \A d \in Commands :
          /\ \A t \in Pulls : InReply(t, d)' <=> InReply(t, d)
          /\ \A b \in Agents : InAgent(b, d)' => InAgent(b, d)
    BY <1>2, <1>3, <2>1 DEF InReply, InAgent
  <2>4. \A d \in Commands : Carried(d)' => Carried(d)
    BY <2>3 DEF Carried
  <2>5. RowTracksDelivery'
    BY <1>3, <2>4 DEF Inv, RowTracksDelivery
  <2>6. CarriedOnce'
    <3>1. \A d \in Physical, b \in Agents : ~(d \in agent'[b].batch /\ agent'[b].probing = d)
      <4> SUFFICES ASSUME NEW d \in Physical, NEW b \in Agents,
                          d \in agent'[b].batch, agent'[b].probing = d
          PROVE FALSE
        OBVIOUS
      <4>1. CASE b = a
        BY <2>1, <4>1
      <4>2. CASE b # a
        BY <2>1, <4>2 DEF Inv, CarriedOnce
      <4> QED
        BY <4>1, <4>2
    <3> QED
      BY <1>3, <2>3, <2>4, <3>1 DEF Inv, CarriedOnce, Physical
  <2>7. SuccessIsTrue'
    BY <1>3, <1>5 DEF Inv, SuccessIsTrue
  <2> QED
    BY <2>2, <2>5, <2>6, <2>7 DEF Inv
<1> QED
  BY <1>1, <1>4, <1>5

(* Executing a command, once its row says that it was claimed. *)
LEMMA ExecuteStep ==
    ASSUME Inv, NEW a \in Agents, Execute(a)
    PROVE  Inv'
<1> DEFINE c == agent[a].probing
<1>1. c \in Commands /\ InAgent(a, c)
  BY DEF Inv, TypeOK, Agent, Execute, InAgent
<1>2. /\ agent' \in [Agents -> Agent]
      /\ \A b \in Agents :
           /\ agent'[b].batch = agent[b].batch
           /\ agent'[b].probing = IF b = a THEN NoCommand ELSE agent[b].probing
  BY DEF Inv, TypeOK, Agent, Execute
<1>3. /\ ran' \in [Commands -> Nat]
      /\ \A d \in Commands : ran'[d] = IF d = c THEN ran[d] + 1 ELSE ran[d]
  BY <1>1 DEF Inv, TypeOK, Execute
<1>4. PICK success \in BOOLEAN :
        acks' = acks \cup {[command |-> c, by |-> a, success |-> success]}
  BY DEF Execute, Acknowledge
<1>5. TypeOK'
  <2>1. acks' \subseteq Ack
    BY <1>1, <1>4, AcknowledgeType DEF Inv, TypeOK
  <2> QED
    BY <1>2, <1>3, <2>1 DEF Inv, TypeOK, Execute
<1>6. \A d \in Commands :
        /\ \A t \in Pulls : InReply(t, d)' <=> InReply(t, d)
        /\ \A b \in Agents : InAgent(b, d)' => InAgent(b, d)
  BY <1>2, NullsAreFresh DEF InReply, InAgent, Execute
<1>7. \A d \in Commands : Carried(d)' => Carried(d)
  BY <1>6 DEF Carried
<1>8. RowTracksDelivery'
  <2>1. Carried(c) /\ row' = row
    BY <1>1 DEF Carried, Execute
  <2> QED
    BY <1>1, <1>3, <1>7, <2>1 DEF Inv, RowTracksDelivery
<1>9. CarriedOnce'
  <2> SUFFICES ASSUME NEW d \in Physical
      PROVE /\ \A t, u \in Pulls : InReply(t, d)' /\ InReply(u, d)' => t = u
            /\ \A b, e \in Agents : InAgent(b, d)' /\ InAgent(e, d)' => b = e
            /\ \A t \in Pulls, b \in Agents : ~(InReply(t, d)' /\ InAgent(b, d)')
            /\ \A b \in Agents : ~(d \in agent'[b].batch /\ agent'[b].probing = d)
            /\ Carried(d)' => ran'[d] = 0
            /\ ran'[d] <= 1
    BY DEF CarriedOnce
  <2>1. d \in Commands
    BY DEF Physical
  <2>2. /\ \A t, u \in Pulls : InReply(t, d)' /\ InReply(u, d)' => t = u
        /\ \A b, e \in Agents : InAgent(b, d)' /\ InAgent(e, d)' => b = e
        /\ \A t \in Pulls, b \in Agents : ~(InReply(t, d)' /\ InAgent(b, d)')
    BY <1>6, <2>1 DEF Inv, CarriedOnce
  <2>3. \A b \in Agents : ~(d \in agent'[b].batch /\ agent'[b].probing = d)
    BY <1>2, <2>1, NullsAreFresh DEF Inv, CarriedOnce
  <2>4. CASE d # c
    BY <1>3, <1>7, <2>1, <2>2, <2>3, <2>4 DEF Inv, CarriedOnce
  <2>5. CASE d = c
    <3>1. ran'[d] = 1
      BY <1>1, <1>3, <2>1, <2>5 DEF Inv, CarriedOnce, Carried
    <3>2. ~Carried(d)'
      BY <1>1, <1>2, <1>6, <2>1, <2>5, NullsAreFresh DEF Inv, CarriedOnce, Carried, InAgent
    <3> QED
      BY <2>2, <2>3, <3>1, <3>2
  <2> QED
    BY <2>4, <2>5
<1>10. SuccessIsTrue'
  <2>1. \A d \in Commands : ran[d] # 0 => ran'[d] # 0
    BY <1>3 DEF Inv, TypeOK
  <2>2. ran'[c] # 0
    BY <1>1, <1>3 DEF Inv, TypeOK
  <2>3. acks \subseteq Ack
    BY DEF Inv, TypeOK
  <2> QED
    BY <1>4, <2>1, <2>2, <2>3 DEF Inv, SuccessIsTrue, Ack, Execute
<1> QED
  BY <1>5, <1>8, <1>9, <1>10 DEF Inv

(* An acknowledgement settles a delivery; it moves no command. *)
LEMMA ReceiveAckStep ==
    ASSUME Inv, NEW m \in acks, ReceiveAck(m)
    PROVE  Inv'
<1>1. m.command \in Commands
  BY DEF Inv, TypeOK, Ack
<1>2. /\ row' \in [Commands -> Row]
      /\ \A d \in Commands :
           /\ row'[d].pulled = row[d].pulled
           /\ \/ row'[d].status = row[d].status
              \/ /\ row'[d].status \in {"done", "failed"}
                 /\ row'[d].status = "done" => d = m.command /\ m.success
  BY <1>1 DEF Inv, TypeOK, Row, Terminal, ReceiveAck
<1>3. TypeOK'
  BY <1>2 DEF Inv, TypeOK, ReceiveAck
<1>4. \A c \in Commands : Carried(c)' <=> Carried(c)
  BY DEF Carried, InReply, InAgent, ReceiveAck
<1>5. RowTracksDelivery'
  BY <1>2, <1>4 DEF Inv, RowTracksDelivery, ReceiveAck
<1>6. CarriedOnce'
  BY <1>4 DEF Inv, CarriedOnce, InReply, InAgent, Physical, ReceiveAck
<1>7. SuccessIsTrue'
  BY <1>2 DEF Inv, SuccessIsTrue, ReceiveAck
<1> QED
  BY <1>3, <1>5, <1>6, <1>7 DEF Inv

(* A new command is nowhere yet. *)
LEMMA EnqueueStep ==
    ASSUME Inv, NEW c \in Commands, Enqueue(c)
    PROVE  Inv'
<1>1. 0 \in Time /\ now \in Time
  BY TimesArePositive DEF Inv, TypeOK, Time
<1>2. /\ row' \in [Commands -> Row]
      /\ \A d \in Commands \ {c} : row'[d] = row[d]
      /\ row'[c].status = "pending" /\ row'[c].pulled = 0
  BY <1>1 DEF Inv, TypeOK, Row, Enqueue
<1>3. TypeOK'
  BY <1>2 DEF Inv, TypeOK, Enqueue
<1>4. \A d \in Commands : Carried(d)' <=> Carried(d)
  BY DEF Carried, InReply, InAgent, Enqueue
<1>5. row[c].status = "absent"
  BY DEF Enqueue
<1>6. RowTracksDelivery'
  BY <1>2, <1>4, <1>5 DEF Inv, RowTracksDelivery, Enqueue
<1>7. CarriedOnce'
  BY <1>4 DEF Inv, CarriedOnce, InReply, InAgent, Physical, Enqueue
<1>8. SuccessIsTrue'
  BY <1>2 DEF Inv, SuccessIsTrue, Enqueue
<1> QED
  BY <1>3, <1>6, <1>7, <1>8 DEF Inv

-----------------------------------------------------------------------------
(***************************************************************************)
(* The invariant                                                           *)
(***************************************************************************)
(* Nothing is queued at first. *)
LEMMA InitInv == Init => Inv
<1> SUFFICES ASSUME Init PROVE Inv
  OBVIOUS
<1>1. 0 \in Time /\ 1 \in Time
  BY TimesArePositive DEF Time
<1>2. TypeOK
  <2>1. row \in [Commands -> Row]
    BY <1>1 DEF Init, Row
  <2>2. pull \in [Pulls -> Pull]
    BY <1>1 DEF Init, Pull, Idle
  <2>3. agent \in [Agents -> Agent]
    BY DEF Init, Agent, Rested
  <2> QED
    BY <1>1, <2>1, <2>2, <2>3 DEF Init, TypeOK
<1>3. \A c \in Commands : ~Carried(c)
  <2>1. \A t \in Pulls : pull[t].batch = {}
    BY DEF Init, Idle
  <2> QED
    BY <2>1, NullsAreFresh DEF Init, Carried, InReply, InAgent, Rested
<1>4. RowTracksDelivery
  BY <1>3 DEF Init, RowTracksDelivery
<1>5. CarriedOnce
  BY <1>3 DEF Init, CarriedOnce, Carried, InAgent, Physical, Rested
<1>6. SuccessIsTrue
  BY DEF Init, SuccessIsTrue
<1> QED
  BY <1>2, <1>4, <1>5, <1>6 DEF Inv

(* Every step of the server, of an agent and of the network keeps the invariant. *)
LEMMA NextInv == Inv /\ [Next]_vars => Inv'
<1> SUFFICES ASSUME Inv, [Next]_vars PROVE Inv'
  OBVIOUS
<1>1. CASE Tick
  <2>1. TypeOK'
    <3>1. now' \in Time \ {0}
      BY <1>1, TimesArePositive DEF Inv, TypeOK, Tick, Time
    <3> QED
      BY <1>1, <3>1 DEF Inv, TypeOK, Tick
  <2> QED
    BY <1>1, <2>1, DropStep DEF Tick
<1>2. ASSUME NEW c \in Commands, Enqueue(c) PROVE Inv'
  BY <1>2, EnqueueStep
<1>3. ASSUME NEW t \in Pulls, List(t) PROVE Inv'
  <2>1. PICK S \in SUBSET Commands :
          pull' = [pull EXCEPT ![t] =
             [pc |-> "serving", by |-> pull[t].by, todo |-> S, at |-> now, batch |-> {},
              overdue |-> {c \in S : row[c].status = "pulled"}]]
    BY <1>3 DEF List
  <2>2. /\ pull' \in [Pulls -> Pull]
        /\ \A u \in Pulls : pull'[u].batch \subseteq pull[u].batch
    <3>1. pull[t].by \in Agents /\ now \in Time
      BY DEF Inv, TypeOK, Pull
    <3>2. [pc |-> "serving", by |-> pull[t].by, todo |-> S, at |-> now, batch |-> {},
           overdue |-> {c \in S : row[c].status = "pulled"}] \in Pull
      BY <3>1 DEF Pull
    <3> QED
      BY <2>1, <3>2 DEF Inv, TypeOK
  <2>3. TypeOK'
    BY <1>3, <2>2 DEF Inv, TypeOK, List
  <2> QED
    BY <1>3, <2>2, <2>3, DropStep DEF List
<1>4. ASSUME NEW t \in Pulls, Decide(t) PROVE Inv'
  <2>1. PICK c \in pull[t].todo :
          \/ /\ pull' = [pull EXCEPT ![t].todo = @ \ {c}]
             /\ \/ UNCHANGED row
                \/ \E status \in {"unknown", "expired", "blocked"} : Terminalize(c, status)
          \/ Claim(t, c)
    BY <1>4 DEF Decide
  <2>2. c \in Commands /\ UNCHANGED <<now, agent, acks, ran>>
    BY <1>4 DEF Inv, TypeOK, Pull, Decide
  <2>3. {"unknown", "expired", "blocked"} \subseteq Terminal \ {"done"}
    BY DEF Terminal
  <2>4. CASE Claim(t, c)
    BY <2>2, <2>4, ClaimStep
  <2>5. CASE /\ pull' = [pull EXCEPT ![t].todo = @ \ {c}]
             /\ \/ UNCHANGED row
                \/ \E status \in {"unknown", "expired", "blocked"} : Terminalize(c, status)
    BY <2>2, <2>3, <2>5, SkipStep
  <2> QED
    BY <2>1, <2>4, <2>5
<1>5. ASSUME NEW t \in Pulls, Reply(t) PROVE Inv'
  BY <1>5, ReplyStep
<1>6. ASSUME NEW t \in Pulls, Abort(t) PROVE Inv'
  <2>1. 0 \in Time
    BY TimesArePositive DEF Time
  <2>2. /\ pull' \in [Pulls -> Pull]
        /\ \A u \in Pulls : pull'[u].batch \subseteq pull[u].batch
    <3>1. pull[t].by \in Agents
      BY DEF Inv, TypeOK, Pull
    <3>2. Idle(pull[t].by) \in Pull /\ Idle(pull[t].by).batch = {}
      BY <2>1, <3>1 DEF Pull, Idle
    <3> QED
      BY <1>6, <3>2 DEF Inv, TypeOK, Abort
  <2>3. TypeOK'
    BY <1>6, <2>2 DEF Inv, TypeOK, Abort
  <2> QED
    BY <1>6, <2>2, <2>3, DropStep DEF Abort
<1>7. ASSUME NEW m \in acks, ReceiveAck(m) PROVE Inv'
  BY <1>7, ReceiveAckStep
<1>8. ASSUME NEW m \in acks, LoseAck(m) PROVE Inv'
  <2>1. TypeOK'
    BY <1>8 DEF Inv, TypeOK, LoseAck
  <2> QED
    BY <1>8, <2>1, DropStep DEF LoseAck
<1>9. ASSUME NEW a \in Agents, NEW t \in Pulls, SendPull(a, t) PROVE Inv'
  <2>1. /\ agent' \in [Agents -> Agent] /\ pull' \in [Pulls -> Pull]
        /\ \A u \in Pulls : pull'[u].batch = pull[u].batch
        /\ \A b \in Agents : agent'[b].batch = agent[b].batch /\ agent'[b].probing = agent[b].probing
    <3>1. /\ pull' = [pull EXCEPT ![t].pc = "sent", ![t].by = a]
          /\ agent' = [agent EXCEPT ![a].waits = t]
      BY <1>9 DEF SendPull
    <3>2. pull \in [Pulls -> Pull] /\ agent \in [Agents -> Agent]
      BY DEF Inv, TypeOK
    <3>3. /\ pull' \in [Pulls -> Pull]
          /\ \A u \in Pulls : pull'[u].batch = pull[u].batch
      BY <3>1, <3>2 DEF Pull
    <3>4. /\ agent' \in [Agents -> Agent]
          /\ \A b \in Agents : agent'[b].batch = agent[b].batch /\ agent'[b].probing = agent[b].probing
      BY <3>1, <3>2 DEF Agent
    <3> QED
      BY <3>3, <3>4
  <2>2. TypeOK'
    BY <1>9, <2>1 DEF Inv, TypeOK, SendPull
  <2> QED
    BY <1>9, <2>1, <2>2, DropStep DEF SendPull
<1>10. ASSUME NEW a \in Agents, Take(a) PROVE Inv'
  BY <1>10, TakeStep
<1>11. ASSUME NEW a \in Agents, Refuse(a) PROVE Inv'
  <2>1. /\ agent' \in [Agents -> Agent]
        /\ \A b \in Agents : /\ agent'[b].batch = agent[b].batch
                             /\ agent'[b].probing \in {agent[b].probing, NoCommand}
        /\ agent[a].probing \in Commands
    <3>1. agent[a].probing # NoCommand /\ agent' = [agent EXCEPT ![a].probing = NoCommand]
      BY <1>11 DEF Refuse
    <3>2. agent \in [Agents -> Agent]
      BY DEF Inv, TypeOK
    <3> QED
      BY <3>1, <3>2 DEF Agent
  <2>2. acks' = acks \cup {[command |-> agent[a].probing, by |-> a, success |-> FALSE]}
    BY <1>11 DEF Refuse, Acknowledge
  <2>3. TypeOK'
    <3>1. acks' \subseteq Ack
      BY <2>1, <2>2, AcknowledgeType, FALSE \in BOOLEAN DEF Inv, TypeOK
    <3> QED
      BY <1>11, <2>1, <3>1 DEF Inv, TypeOK, Refuse
  <2> QED
    BY <1>11, <2>1, <2>2, <2>3, DropStep DEF Refuse
<1>12. ASSUME NEW a \in Agents, Execute(a) PROVE Inv'
  BY <1>12, ExecuteStep
<1>13. ASSUME NEW a \in Agents, GiveUp(a) \/ Restart(a) PROVE Inv'
  <2>1. /\ agent' \in [Agents -> Agent]
        /\ \A b \in Agents : /\ agent'[b].batch \subseteq agent[b].batch
                             /\ agent'[b].probing \in {agent[b].probing, NoCommand}
    BY <1>13 DEF Inv, TypeOK, Agent, GiveUp, Restart, Rested
  <2>2. TypeOK' /\ UNCHANGED <<row, pull, acks, ran>>
    BY <1>13, <2>1 DEF Inv, TypeOK, GiveUp, Restart
  <2> QED
    BY <2>1, <2>2, DropStep
<1>14. CASE UNCHANGED vars
  <2>1. TypeOK' /\ UNCHANGED <<row, pull, agent, acks, ran>>
    BY <1>14 DEF Inv, TypeOK, vars
  <2> QED
    BY <2>1, DropStep
<1> QED
  BY <1>1, <1>2, <1>3, <1>4, <1>5, <1>6, <1>7, <1>8, <1>9, <1>10, <1>11, <1>12, <1>13, <1>14
  DEF Next, Serve, Run

(* The inductive invariant, for every instance. *)
THEOREM Invariance == Spec => []Inv
<1> QED
  BY InitInv, NextInv, PTL DEF Spec

(* TypeOK, for every instance. *)
THEOREM TypeCorrectness == Spec => []TypeOK
<1>1. Inv => TypeOK
  BY DEF Inv
<1> QED
  BY <1>1, Invariance, PTL

(* However pulls overlap, replies and acknowledgements are lost, and server  *)
(* and agents restart, a physical command is sent at most once.              *)
THEOREM AtMostOnce == Spec => []DeliveredAtMostOnce
<1>1. Inv => DeliveredAtMostOnce
  BY DEF Inv, CarriedOnce, DeliveredAtMostOnce, Physical
<1> QED
  BY <1>1, Invariance, PTL

(* The row of a command never claims an execution that did not happen, and   *)
(* a pending command has not run.                                            *)
THEOREM RowsTellTheTruth == Spec => []RowsAreTrue
<1>1. Inv => RowsAreTrue
  BY DEF Inv, TypeOK, RowTracksDelivery, SuccessIsTrue, RowsAreTrue
<1> QED
  BY <1>1, Invariance, PTL

-----------------------------------------------------------------------------
(***************************************************************************)
(* Steps                                                                   *)
(***************************************************************************)

(* A terminal row is final, except that an unknown outcome may be learnt. *)
THEOREM TerminalRows == Spec => TerminalIsFinal
<1> DEFINE Final == \A c \in Commands : row[c].status \in Terminal =>
                 row'[c].status \in {row[c].status} \cup
                     (IF row[c].status = "unknown" THEN {"done", "failed"} ELSE {})
<1>1. Inv /\ [Next]_vars => [Final]_vars
  <2> SUFFICES ASSUME Inv, Next, row' # row PROVE Final
    BY DEF vars
  <2>1. CASE \E c \in Commands : Enqueue(c)
    BY <2>1 DEF Inv, TypeOK, Enqueue, Terminal
  <2>2. CASE \E t \in Pulls : Decide(t)
    <3>0. PICK t \in Pulls : Decide(t)
      BY <2>2
    <3>1. PICK c \in pull[t].todo :
            \/ \E status \in {"unknown", "expired", "blocked"} : Terminalize(c, status)
            \/ Claim(t, c) /\ Claimable(c)
      BY <3>0 DEF Decide, Claim
    <3>2. c \in Commands
      BY DEF Inv, TypeOK, Pull
    <3>3. CASE \E status \in {"unknown", "expired", "blocked"} : Terminalize(c, status)
      <4>1. {"unknown", "expired", "blocked"} \subseteq Terminal
        BY DEF Terminal
      <4> QED
        BY <3>2, <3>3, <4>1, TerminalizeEffect DEF Inv, TypeOK, Terminal
    <3>4. CASE Claim(t, c) /\ Claimable(c)
      BY <3>2, <3>4, ClaimEffect DEF Inv, Claimable, IsOverdue, Terminal
    <3> QED
      BY <3>1, <3>3, <3>4
  <2>3. CASE \E m \in acks : ReceiveAck(m)
    BY <2>3 DEF Inv, TypeOK, Ack, Row, Terminal, ReceiveAck
  <2> QED
    BY <2>1, <2>2, <2>3
    DEF Next, Tick, Serve, List, Reply, Abort, LoseAck, Run, SendPull, Take, Refuse, Execute,
        GiveUp, Restart
<1> QED
  BY <1>1, Invariance, PTL DEF Spec, TerminalIsFinal

(***************************************************************************)
(* A physical command is never sent to its device once it has expired,     *)
(* however long its pull, its batch and its probe took: an agent compares  *)
(* the expiry after the probe, and only an agent sends.                    *)
(***************************************************************************)
THEOREM ExpiredIsRefused == Spec => ExpiredNeverRuns
<1> DEFINE InTime == \A c \in Commands \ Probes : ran'[c] # ran[c] => now < row[c].created + TTL
<1>1. Inv /\ [Next]_vars => [InTime]_vars
  <2> SUFFICES ASSUME Inv, Next, NEW c \in Commands \ Probes, ran'[c] # ran[c]
               PROVE  now < row[c].created + TTL
    BY DEF vars
  <2>1. PICK a \in Agents : Execute(a)
    BY DEF Next, Tick, Enqueue, Serve, List, Decide, Reply, Abort, ReceiveAck, LoseAck, Run,
           SendPull, Take, Refuse, GiveUp, Restart
  <2>2. c = agent[a].probing
    BY <2>1 DEF Execute, Inv, TypeOK
  <2>3. row[c].created \in Nat /\ now \in Nat /\ TTL \in Nat
    BY TimesArePositive DEF Inv, TypeOK, Row, Time
  <2> QED
    BY <2>1, <2>2, <2>3 DEF Execute, HasExpired
<1> QED
  BY <1>1, Invariance, PTL DEF Spec, ExpiredNeverRuns

-----------------------------------------------------------------------------
(***************************************************************************)
(* The refinement                                                          *)
(***************************************************************************)

(* The refinement mapping: commands no longer open, those a pull claimed and *)
(* nobody executed, and those executed.                                      *)
Spent == {c \in Physical : row[c].status \notin {"absent", "pending"}}
Unused == {c \in Physical : row[c].pulled # 0 /\ ran[c] = 0}
Used == {c \in Physical : ran[c] # 0}
Credit == {[token |-> c, order |-> c] : c \in Unused}
Effects == {[key |-> ran[c], order |-> c, token |-> c] : c \in Used}

(* A step that claims and runs nothing is a stutter of the promise. *)
LEMMA QuietStep ==
    ASSUME Spent' = Spent, Unused' = Unused, \A c \in Physical : ran'[c] = ran[c]
    PROVE  UNCHANGED Promise!vars
<1>1. Used' = Used
  BY DEF Used, Physical
<1>2. Credit' = Credit /\ Effects' = Effects
  BY <1>1 DEF Credit, Effects, Used
<1> QED
  BY <1>2 DEF Promise!vars, Spent, Credit, Effects, Unused, Used

(* Deciding on a row wastes its approval, uses it for a delivery, or neither. *)
LEMMA DecideStep ==
    ASSUME Inv, NEW t \in Pulls, Decide(t)
    PROVE  Promise!Next \/ UNCHANGED Promise!vars
<1>1. PICK c \in pull[t].todo :
        \/ UNCHANGED row
        \/ \E status \in {"unknown", "expired", "blocked"} : Terminalize(c, status)
        \/ Claim(t, c) /\ Claimable(c)
  BY DEF Decide, Claim
<1>2. c \in Commands /\ UNCHANGED ran
  BY DEF Inv, TypeOK, Pull, Decide
<1>3. CASE UNCHANGED row
  BY <1>2, <1>3, QuietStep DEF Spent, Unused, Used
<1>4. CASE \E status \in {"unknown", "expired", "blocked"} : Terminalize(c, status)
  <2>1. /\ {"unknown", "expired", "blocked"} \subseteq Terminal
        /\ Terminal \cap {"absent", "pending", "pulled"} = {}
    BY DEF Terminal
  <2>2. \A d \in Commands :
          /\ row'[d].pulled = row[d].pulled
          /\ \/ row'[d].status = row[d].status
             \/ /\ d = c
                /\ row'[d].status \notin {"absent", "pending"}
                /\ row[d].status \in {"pending", "pulled"}
    BY <1>2, <1>4, <2>1, TerminalizeEffect DEF Inv, TypeOK
  <2>3. Unused' = Unused /\ Used' = Used
    BY <1>2, <2>2 DEF Unused, Used, Physical
  <2>4. CASE Spent' = Spent
    BY <1>2, <2>3, <2>4, QuietStep
  <2>5. CASE Spent' # Spent
    <3>1. c \in Physical /\ c \notin Spent /\ Spent' = Spent \cup {c}
      BY <2>2, <2>5 DEF Spent, Physical
    <3>2. Credit' = Credit /\ Effects' = Effects
      BY <1>2, <2>3 DEF Credit, Effects
    <3>3. Promise!Waste(c)
      BY <3>1, <3>2 DEF Promise!Waste, Spent, Credit, Effects, Unused, Used
    <3> QED
      BY <3>1, <3>3 DEF Promise!Next
  <2> QED
    BY <2>4, <2>5
<1>5. CASE Claim(t, c) /\ Claimable(c)
  <2>1. /\ \A d \in Commands \ {c} : row'[d] = row[d]
        /\ row'[c].pulled = now /\ row'[c].status = "pulled" /\ now # 0
    BY <1>2, <1>5, ClaimEffect DEF Inv, TypeOK
  <2>2. CASE c \in Physical
    <3>1. row[c].status = "pending" /\ row[c].pulled = 0 /\ ran[c] = 0
      BY <1>2, <1>5, <2>2 DEF Inv, Claimable, RowTracksDelivery, Physical
    <3>2. c \notin Spent /\ Spent' = Spent \cup {c}
      BY <2>1, <2>2, <3>1 DEF Spent, Physical
    <3>3. Unused' = Unused \cup {c} /\ Used' = Used
      BY <1>2, <2>1, <2>2, <3>1 DEF Unused, Used, Physical
    <3>4. Credit' = Credit \cup {[token |-> c, order |-> c]} /\ Effects' = Effects
      BY <1>2, <3>3 DEF Credit, Effects
    <3>5. Promise!Accept(c, c)
      BY <3>2, <3>4 DEF Promise!Accept, Spent, Credit, Effects, Unused, Used
    <3> QED
      BY <2>2, <3>5 DEF Promise!Next
  <2>3. CASE c \notin Physical
    BY <1>2, <2>1, <2>3, QuietStep DEF Spent, Unused, Used, Physical
  <2> QED
    BY <2>2, <2>3
<1> QED
  BY <1>1, <1>3, <1>4, <1>5

(* Executing a physical command uses its approval up. *)
LEMMA ActStep ==
    ASSUME Inv, NEW a \in Agents, Execute(a)
    PROVE  Promise!Next \/ UNCHANGED Promise!vars
<1>0. agent[a].probing \in Commands
  BY DEF Inv, TypeOK, Agent, Execute
<1>. PICK c \in Commands : c = agent[a].probing
  BY <1>0
<1>1. Carried(c) /\ UNCHANGED row
  BY DEF Inv, TypeOK, Agent, Execute, Carried, InAgent
<1>2. \A d \in Commands : ran'[d] = IF d = c THEN ran[d] + 1 ELSE ran[d]
  BY <1>1 DEF Inv, TypeOK, Execute
<1>3. CASE c \in Physical
  <2>1. ran[c] = 0 /\ row[c].pulled # 0
    BY <1>1, <1>3 DEF Inv, CarriedOnce, RowTracksDelivery
  <2>2. c \in Unused /\ Unused' = Unused \ {c} /\ Used' = Used \cup {c}
    BY <1>1, <1>2, <1>3, <2>1 DEF Unused, Used, Physical
  <2>3. Spent' = Spent
    BY <1>1 DEF Spent
  <2>4. /\ [token |-> c, order |-> c] \in Credit
        /\ Credit' = Credit \ {[token |-> c, order |-> c]}
        /\ Effects' = Effects \cup {[key |-> 1, order |-> c, token |-> c]}
    <3>1. ran'[c] = 1 /\ \A d \in Used : d \in Commands /\ d # c /\ ran'[d] = ran[d]
      BY <1>2, <2>1 DEF Used, Physical
    <3>2. Effects' = Effects \cup {[key |-> 1, order |-> c, token |-> c]}
      BY <2>2, <3>1 DEF Effects
    <3> QED
      BY <2>2, <3>2 DEF Credit
  <2>5. Promise!Act(1, c, c)
    BY <2>3, <2>4 DEF Promise!Act, Spent, Credit, Effects, Unused, Used
  <2> QED
    BY <1>3, <2>5 DEF Promise!Next
<1>4. CASE c \notin Physical
  BY <1>1, <1>2, <1>4, QuietStep DEF Spent, Unused, Used, Physical
<1> QED
  BY <1>3, <1>4

(***************************************************************************)
(* The queue keeps the promise of the direct command path: a queued        *)
(* physical command turns into at most one effect, claimed before it.      *)
(***************************************************************************)
THEOREM Refinement == Spec => ImplementsPromise
<1>1. Init => Promise!Init
  <2> SUFFICES ASSUME Init PROVE Promise!Init
    OBVIOUS
  <2>1. \A c \in Physical : row[c].status = "absent" /\ row[c].pulled = 0 /\ ran[c] = 0
    BY DEF Init, Physical
  <2> QED
    <3>1. /\ {c \in Physical : row[c].status \notin {"absent", "pending"}} = {}
          /\ {c \in Physical : row[c].pulled # 0 /\ ran[c] = 0} = {}
          /\ {c \in Physical : ran[c] # 0} = {}
      BY <2>1
    <3> QED
      BY <3>1 DEF Promise!Init
<1>2. Inv /\ [Next]_vars => [Promise!Next]_(Promise!vars)
  <2> SUFFICES ASSUME Inv, [Next]_vars PROVE Promise!Next \/ UNCHANGED Promise!vars
    OBVIOUS
  <2>1. ASSUME NEW c \in Commands, Enqueue(c) PROVE UNCHANGED Promise!vars
    <3>1. /\ row'[c].status = "pending" /\ row'[c].pulled = 0 /\ row[c].status = "absent"
          /\ \A d \in Commands \ {c} : row'[d] = row[d]
      BY <2>1 DEF Inv, TypeOK, Enqueue
    <3>2. row[c].pulled = 0 /\ UNCHANGED ran
      BY <2>1, <3>1 DEF Inv, RowTracksDelivery, Enqueue
    <3>3. Spent' = Spent /\ Unused' = Unused
      BY <3>1, <3>2 DEF Spent, Unused, Physical
    <3> QED
      BY <3>2, <3>3, QuietStep
  <2>2. ASSUME NEW t \in Pulls, Decide(t) PROVE Promise!Next \/ UNCHANGED Promise!vars
    BY <2>2, DecideStep
  <2>3. ASSUME NEW a \in Agents, Execute(a) PROVE Promise!Next \/ UNCHANGED Promise!vars
    BY <2>3, ActStep
  <2>4. ASSUME NEW m \in acks, ReceiveAck(m) PROVE UNCHANGED Promise!vars
    <3>1. /\ UNCHANGED ran
          /\ \A d \in Commands :
               /\ row'[d].pulled = row[d].pulled
               /\ (row'[d].status \in {"absent", "pending"}) <=> (row[d].status \in {"absent", "pending"})
      BY <2>4 DEF Inv, TypeOK, Ack, ReceiveAck
    <3>2. Spent' = Spent /\ Unused' = Unused
      BY <3>1 DEF Spent, Unused, Physical
    <3> QED
      BY <3>1, <3>2, QuietStep
  <2>5. CASE UNCHANGED <<row, ran>>
    BY <2>5, QuietStep DEF Spent, Unused
  <2> QED
    BY <2>1, <2>2, <2>3, <2>4, <2>5
    DEF Next, Tick, Serve, List, Reply, Abort, LoseAck, Run, SendPull, Take, Refuse,
        GiveUp, Restart, vars
<1> QED
  BY <1>1, <1>2, Invariance, PTL DEF Spec, ImplementsPromise, Promise!Spec
=============================================================================
