--------------------------- MODULE PortmanWsProofs ---------------------------
(***************************************************************************)
(* The Portman WebSocket server for any number of agents, observers and    *)
(* envelopes: its registries hold what they should, also when observers    *)
(* share an id, each observer sees each agent's envelopes in order, and a  *)
(* server with a single observer implements the bulletin board.            *)
(***************************************************************************)
EXTENDS PortmanWs, FiniteSetTheorems, TLAPS

Live(a) == agent[a].state \notin {"new", "gone"}

\* Ids are given out in order: one per agent that ever connected, and none
\* that is in use is still to come.
IdsFresh ==
    /\ nextId = Cardinality({a \in Agent : agent[a].state # "new"})
    /\ \A i \in ConnId : connections[i].open => i < nextId
    /\ \A a \in Agent : Live(a) => agent[a].id < nextId

\* Only an agent that has sent an envelope broadcasts, and it has recipients
\* only between its two locks and its "ok".
BroadcastsOwn ==
    \A a \in Agent :
        /\ agent[a].state \in {"listing", "listed", "acking"} => agent[a].sent > 0
        /\ agent[a].todo # {} => agent[a].state = "acking"

WsInv == WsTypeOK /\ IdsFresh /\ BroadcastsOwn

-----------------------------------------------------------------------------
(* Cardinalities.                                                          *)

\* The number of agents is a number.
LEMMA BoundIsNat == Cardinality(Agent) \in Nat
  BY BoundAssumption, FS_CardinalityType

\* No agent gets an id beyond the number of agents.
LEMMA RoomForAgent ==
    ASSUME WsInv, NEW a \in Agent, agent[a].state = "new"
    PROVE  /\ nextId + 1 \in ConnId
           /\ nextId + 1 = Cardinality({b \in Agent : agent[b].state # "new" \/ b = a})
  <1> DEFINE Old == {b \in Agent : agent[b].state # "new"}
             New == {b \in Agent : agent[b].state # "new" \/ b = a}
  <1>1. IsFiniteSet(Old) /\ IsFiniteSet(New) /\ Cardinality(New) <= Cardinality(Agent)
    BY BoundAssumption, FS_Subset
  <1>2. New = Old \cup {a} /\ a \notin Old
    OBVIOUS
  <1>3. Cardinality(New) = Cardinality(Old) + 1
    BY <1>1, <1>2, FS_AddElement
  <1>4. nextId = Cardinality(Old) /\ nextId \in Nat
    BY BoundIsNat DEF WsInv, IdsFresh, WsTypeOK, ConnId
  <1> QED BY <1>1, <1>3, <1>4, BoundIsNat DEF ConnId

\* The number of connected agents is an id an observer may have.
LEMMA ConnectedIsObserverId ==
    ASSUME WsInv
    PROVE  Connected \in ObserverId
  <1> DEFINE Open == {i \in ConnId : connections[i].open}
  <1>1. nextId \in Nat /\ nextId <= Cardinality(Agent)
    BY BoundIsNat DEF WsInv, WsTypeOK, ConnId
  <1>2. Open \subseteq 0 .. nextId - 1
    <2> SUFFICES ASSUME NEW i \in Open
                 PROVE  i \in 0 .. nextId - 1
      OBVIOUS
    <2>1. i \in ConnId /\ i < nextId
      BY DEF WsInv, IdsFresh
    <2> QED BY <1>1, <2>1, BoundIsNat DEF ConnId
  <1>3. IsFiniteSet(0 .. nextId - 1) /\ Cardinality(0 .. nextId - 1) = nextId
    BY <1>1, FS_Interval
  <1>4. Cardinality(Open) <= nextId /\ Cardinality(Open) \in Nat
    BY <1>2, <1>3, FS_Subset, FS_CardinalityType
  <1> QED BY <1>1, <1>4, BoundIsNat DEF Connected, ObserverId

-----------------------------------------------------------------------------
(* Types and ids.                                                          *)

\* A step of one agent leaves the others' tasks alone.
LEMMA AgentUpdated ==
    ASSUME agent \in [Agent -> AgentTask], NEW a \in Agent, NEW r \in AgentTask,
           agent' = [agent EXCEPT ![a] = r]
    PROVE  /\ agent' \in [Agent -> AgentTask]
           /\ agent'[a] = r
           /\ \A b \in Agent \ {a} : agent'[b] = agent[b]
  OBVIOUS

\* A new agent gets an id that nobody had.
LEMMA AgentConnectKeepsInv ==
    ASSUME WsInv, NEW a \in Agent, AgentConnect(a)
    PROVE  WsInv'
  <1> DEFINE r == [agent[a] EXCEPT !.state = "reading", !.id = nextId]
  <1>1. nextId + 1 \in ConnId /\ nextId \in Nat /\ nextId \in ConnId
    <2>1. agent[a].state = "new"
      BY DEF AgentConnect
    <2>2. nextId + 1 \in ConnId
      BY <2>1, RoomForAgent
    <2> QED BY <2>2, BoundIsNat DEF WsInv, WsTypeOK, ConnId
  <1>2. r \in AgentTask
    <2>1. agent[a] \in AgentTask
      BY DEF WsInv, WsTypeOK
    <2> QED BY <1>1, <2>1 DEF AgentTask
  <1>3. agent' = [agent EXCEPT ![a] = r]
    BY DEF AgentConnect, WsInv, WsTypeOK
  <1>4. /\ agent' \in [Agent -> AgentTask]
        /\ agent'[a] = r
        /\ \A b \in Agent \ {a} : agent'[b] = agent[b]
    BY <1>2, <1>3, AgentUpdated DEF WsInv, WsTypeOK
  <1>5. /\ r.state = "reading" /\ r.id = nextId
        /\ r.sent = agent[a].sent /\ r.todo = agent[a].todo
    BY DEF WsInv, WsTypeOK, AgentTask
  <1>6. WsTypeOK'
    <2>1. connections' \in [ConnId -> Registered]
      BY <1>1 DEF AgentConnect, WsInv, WsTypeOK, Registered
    <2> QED
      BY <1>1, <1>4, <2>1 DEF AgentConnect, WsInv, WsTypeOK, observerVars, historyVars
  <1>7. IdsFresh'
    <2>1. nextId' = Cardinality({b \in Agent : agent[b].state # "new"})'
      <3>1. {b \in Agent : agent'[b].state # "new"}
              = {b \in Agent : agent[b].state # "new" \/ b = a}
        BY <1>4, <1>5
      <3>2. agent[a].state = "new" /\ nextId' = nextId + 1
        BY DEF AgentConnect
      <3> QED BY <3>1, <3>2, RoomForAgent
    <2>2. ASSUME NEW i \in ConnId, connections'[i].open
          PROVE  i < nextId'
      <3>1. CASE i = nextId
        BY <1>1, <3>1 DEF AgentConnect
      <3>2. CASE i # nextId
        <4>1. connections[i].open
          BY <2>2, <3>2 DEF AgentConnect, WsInv, WsTypeOK
        <4>2. i < nextId /\ i \in Nat
          BY <4>1, BoundIsNat DEF WsInv, IdsFresh, ConnId
        <4> QED BY <1>1, <4>2 DEF AgentConnect
      <3> QED BY <3>1, <3>2
    <2>3. ASSUME NEW b \in Agent, Live(b)'
          PROVE  agent'[b].id < nextId'
      <3>1. CASE b = a
        BY <1>1, <1>4, <1>5, <3>1 DEF AgentConnect
      <3>2. CASE b # a
        <4>1. agent'[b] = agent[b]
          BY <1>4, <3>2
        <4>2. agent[b].id < nextId
          BY <2>3, <4>1 DEF WsInv, IdsFresh, Live
        <4>3. agent[b].id \in Nat
          BY BoundIsNat DEF WsInv, WsTypeOK, AgentTask, ConnId
        <4> QED BY <1>1, <4>1, <4>2, <4>3 DEF AgentConnect
      <3> QED BY <3>1, <3>2
    <2> QED BY <2>1, <2>2, <2>3 DEF IdsFresh
  <1>8. BroadcastsOwn'
    BY <1>4, <1>5 DEF AgentConnect, WsInv, BroadcastsOwn
  <1> QED BY <1>6, <1>7, <1>8 DEF WsInv

\* Every other step of an agent leaves the ids alone, or closes one.
LEMMA NoNewId ==
    ASSUME WsInv, NEW a \in Agent, NEW r \in AgentTask,
           agent[a].state \notin {"new", "gone"},
           r.state # "new",
           r.state # "gone" => r.id = agent[a].id,
           r.state \in {"listing", "listed", "acking"} => r.sent > 0,
           r.todo # {} => r.state = "acking",
           agent' = [agent EXCEPT ![a] = r],
           nextId' = nextId,
           \A i \in ConnId : connections'[i].open => connections[i].open
    PROVE  agent' \in [Agent -> AgentTask] /\ IdsFresh' /\ BroadcastsOwn'
  <1>1. /\ agent' \in [Agent -> AgentTask]
        /\ agent'[a] = r
        /\ \A b \in Agent \ {a} : agent'[b] = agent[b]
    BY AgentUpdated DEF WsInv, WsTypeOK
  <1>2. IdsFresh'
    <2>1. {b \in Agent : agent'[b].state # "new"} = {b \in Agent : agent[b].state # "new"}
      BY <1>1
    <2>2. \A b \in Agent : Live(b)' => agent'[b].id < nextId'
      BY <1>1 DEF WsInv, IdsFresh, Live
    <2> QED BY <2>1, <2>2 DEF WsInv, IdsFresh
  <1>3. BroadcastsOwn'
    BY <1>1 DEF WsInv, BroadcastsOwn
  <1> QED BY <1>1, <1>2, <1>3

\* Receiving an envelope keeps types, ids and recipients.
LEMMA ReceiveKeepsInv ==
    ASSUME WsInv, NEW a \in Agent, NEW kind \in Kind \cup {RegisterAgent},
           NEW id \in AgentId \cup {None}, Receive(a, kind, id)
    PROVE  WsInv'
  <1> DEFINE registers == kind = RegisterAgent /\ id # None
             r == [agent[a] EXCEPT !.state = "listing", !.kind = kind, !.sent = @ + 1,
                                   !.agentId = IF registers THEN id ELSE @]
  <1>1. agent[a] \in AgentTask /\ agent[a].state = "reading" /\ agent[a].sent < MaxEnvelopes
    BY DEF Receive, WsInv, WsTypeOK
  <1>2. /\ agent[a].sent + 1 \in 0 .. MaxEnvelopes /\ agent[a].sent + 1 > 0
        /\ agent[a].todo = {}
    BY <1>1, BoundAssumption DEF AgentTask, WsInv, BroadcastsOwn
  <1>3. /\ r \in AgentTask
        /\ r.state = "listing" /\ r.id = agent[a].id
        /\ r.sent = agent[a].sent + 1 /\ r.todo = agent[a].todo
    <2>1. (IF registers THEN id ELSE agent[a].agentId) \in AgentId \cup {None}
      BY <1>1 DEF AgentTask
    <2>2. kind \in Kind \cup {RegisterAgent, None}
      OBVIOUS
    <2> HIDE DEF registers
    <2> QED BY <1>1, <1>2, <2>1, <2>2 DEF AgentTask
  <1>4. agent' = [agent EXCEPT ![a] = r]
    BY DEF Receive, WsInv, WsTypeOK
  <1>5. /\ connections' \in [ConnId -> Registered]
        /\ \A i \in ConnId : connections'[i].open = connections[i].open
    <2>1. CASE registers
      BY <2>1 DEF Receive, WsInv, WsTypeOK, Registered
    <2>2. CASE ~registers
      BY <2>2 DEF Receive, WsInv, WsTypeOK
    <2> QED BY <2>1, <2>2
  <1>6. nextId' = nextId
    BY DEF Receive
  <1>7. agent' \in [Agent -> AgentTask] /\ IdsFresh' /\ BroadcastsOwn'
    <2> HIDE DEF r
    <2> QED BY <1>1, <1>2, <1>3, <1>4, <1>5, <1>6, NoNewId
  <1>8. WsTypeOK'
    <2>1. owed' \in [Agent -> SUBSET Observer] /\ welcome' \in [Agent -> SUBSET Observer]
      BY DEF Receive, WsInv, WsTypeOK, Settled
    <2> QED BY <1>5, <1>6, <1>7, <2>1 DEF Receive, WsInv, WsTypeOK, observerVars
  <1> QED BY <1>7, <1>8 DEF WsInv

\* So do the two locks of a broadcast, its sends and the "ok".
LEMMA BroadcastKeepsInv ==
    ASSUME WsInv, NEW a \in Agent,
           \/ TakeSubscriptions(a) \/ TakeSenders(a) \/ Ack(a)
           \/ \E o \in Observer : SendTo(a, o)
    PROVE  WsInv'
  <1>1. agent[a] \in AgentTask
    BY DEF WsInv, WsTypeOK
  <1>2. CASE TakeSubscriptions(a)
    <2> DEFINE r == [agent[a] EXCEPT !.snapshot = inner,
                                     !.state = IF inner = NoObservers THEN "acking" ELSE "listed"]
    <2>1. r \in AgentTask /\ r.id = agent[a].id /\ r.sent = agent[a].sent
          /\ r.todo = agent[a].todo /\ r.state \in {"acking", "listed"}
      BY <1>1 DEF AgentTask, WsInv, WsTypeOK
    <2>2. agent' = [agent EXCEPT ![a] = r]
      BY <1>2 DEF TakeSubscriptions, WsInv, WsTypeOK
    <2>3. agent[a].state = "listing" /\ agent[a].sent > 0 /\ agent[a].todo = {}
      BY <1>2 DEF TakeSubscriptions, WsInv, BroadcastsOwn
    <2>4. nextId' = nextId /\ connections' = connections
      BY <1>2 DEF TakeSubscriptions
    <2>5. agent' \in [Agent -> AgentTask] /\ IdsFresh' /\ BroadcastsOwn'
      BY <2>1, <2>2, <2>3, <2>4, NoNewId
    <2>6. WsTypeOK'
      BY <1>2, <2>5 DEF TakeSubscriptions, WsInv, WsTypeOK, observerVars, historyVars
    <2> QED BY <2>5, <2>6 DEF WsInv
  <1>3. CASE TakeSenders(a)
    <2> DEFINE R == Recipients(agent[a].snapshot, agent[a].kind)
               r == [agent[a] EXCEPT !.todo = R, !.snapshot = NoObservers, !.state = "acking"]
    <2>1. R \subseteq Observer
      BY DEF Recipients, WsInv, WsTypeOK
    <2>2. r \in AgentTask /\ r.id = agent[a].id /\ r.sent = agent[a].sent
          /\ r.state = "acking"
      BY <1>1, <2>1 DEF AgentTask, NoObservers
    <2>3. agent' = [agent EXCEPT ![a] = r]
      BY <1>3 DEF TakeSenders, WsInv, WsTypeOK
    <2>4. agent[a].state = "listed" /\ agent[a].sent > 0
      BY <1>3 DEF TakeSenders, WsInv, BroadcastsOwn
    <2>5. nextId' = nextId /\ connections' = connections
      BY <1>3 DEF TakeSenders
    <2>6. agent' \in [Agent -> AgentTask] /\ IdsFresh' /\ BroadcastsOwn'
      BY <2>2, <2>3, <2>4, <2>5, NoNewId
    <2>7. WsTypeOK'
      BY <1>3, <2>6 DEF TakeSenders, WsInv, WsTypeOK, observerVars, historyVars
    <2> QED BY <2>6, <2>7 DEF WsInv
  <1>4. CASE Ack(a)
    <2> DEFINE r == [agent[a] EXCEPT !.state = "reading", !.kind = None]
    <2>1. r \in AgentTask /\ r.id = agent[a].id /\ r.todo = agent[a].todo
          /\ r.state = "reading"
      BY <1>1 DEF AgentTask
    <2>2. agent' = [agent EXCEPT ![a] = r]
      BY <1>4 DEF Ack, WsInv, WsTypeOK
    <2>3. agent[a].state = "acking" /\ agent[a].todo = {}
      BY <1>4 DEF Ack
    <2>4. nextId' = nextId /\ connections' = connections
      BY <1>4 DEF Ack
    <2>5. agent' \in [Agent -> AgentTask] /\ IdsFresh' /\ BroadcastsOwn'
      BY <2>1, <2>2, <2>3, <2>4, NoNewId
    <2>6. WsTypeOK'
      BY <1>4, <2>5 DEF Ack, CloseAccount, WsInv, WsTypeOK, observerVars
    <2> QED BY <2>5, <2>6 DEF WsInv
  <1>5. ASSUME NEW o \in Observer, SendTo(a, o)
        PROVE  WsInv'
    <2> DEFINE r == [agent[a] EXCEPT !.todo = @ \ {o}]
    <2>1. r \in AgentTask /\ r.id = agent[a].id /\ r.sent = agent[a].sent
          /\ r.state = agent[a].state
      BY <1>1 DEF AgentTask
    <2>2. agent' = [agent EXCEPT ![a] = r]
      BY <1>5 DEF SendTo, WsInv, WsTypeOK
    <2>3. agent[a].state = "acking" /\ agent[a].sent > 0
      BY <1>5 DEF SendTo, WsInv, BroadcastsOwn
    <2>4. nextId' = nextId /\ connections' = connections
      BY <1>5 DEF SendTo
    <2>5. agent' \in [Agent -> AgentTask] /\ IdsFresh' /\ BroadcastsOwn'
      BY <2>1, <2>2, <2>3, <2>4, NoNewId
    <2>6. inbox' \in [Observer -> Seq(Message)]
      <3>1. [from |-> a, seq |-> agent[a].sent] \in Message
        BY <1>1, <2>3, BoundAssumption DEF Message, AgentTask
      <3>2. inbox \in [Observer -> Seq(Message)]
        BY DEF WsInv, WsTypeOK
      <3> QED BY <1>5, <3>1, <3>2 DEF SendTo
    <2>7. WsTypeOK'
      BY <1>5, <2>5, <2>6 DEF SendTo, WsInv, WsTypeOK, observerVars, historyVars
    <2> QED BY <2>5, <2>7 DEF WsInv
  <1> QED BY <1>2, <1>3, <1>4, <1>5

\* An agent that leaves takes only its own entry along.
LEMMA AgentCloseKeepsInv ==
    ASSUME WsInv, NEW a \in Agent, AgentClose(a)
    PROVE  WsInv'
  <1> DEFINE r == [agent[a] EXCEPT !.state = "gone", !.kind = None, !.id = 0, !.agentId = None]
  <1>1. agent[a] \in AgentTask /\ agent[a].state \in {"reading", "acking"}
    BY DEF AgentClose, WsInv, WsTypeOK
  <1>2. agent[a].todo = {}
    BY DEF AgentClose, WsInv, BroadcastsOwn
  <1>3. r \in AgentTask /\ r.state = "gone" /\ r.todo = agent[a].todo
    <2>1. 0 \in ConnId
      BY BoundIsNat DEF ConnId
    <2> QED BY <1>1, <2>1 DEF AgentTask
  <1>4. agent' = [agent EXCEPT ![a] = r]
    BY DEF AgentClose, WsInv, WsTypeOK
  <1>5. /\ connections' \in [ConnId -> Registered]
        /\ \A i \in ConnId : connections'[i].open => connections[i].open
    BY DEF AgentClose, WsInv, WsTypeOK, NotConnected, Registered
  <1>6. nextId' = nextId
    BY DEF AgentClose
  <1>7. agent' \in [Agent -> AgentTask] /\ IdsFresh' /\ BroadcastsOwn'
    <2> HIDE DEF r
    <2> QED BY <1>1, <1>2, <1>3, <1>4, <1>5, <1>6, NoNewId
  <1>8. WsTypeOK'
    BY <1>5, <1>6, <1>7 DEF AgentClose, CloseAccount, WsInv, WsTypeOK, observerVars
  <1> QED BY <1>7, <1>8 DEF WsInv

\* An observer that has not subscribed yet has a subscription.
LEMMA DefaultIsSubscription == DefaultSubscription \in Subscription
  <1>1. {} \in SUBSET {"all", "by_kind"}
    OBVIOUS
  <1>2. None \in {None} \cup SUBSET (Kind \cup {RegisterAgent})
    OBVIOUS
  <1> QED BY <1>1, <1>2 DEF DefaultSubscription, Subscription

\* The three variables an observer's own steps write keep their types.
LEMMA ObserverKeepsTypes ==
    ASSUME WsInv, NEW o \in Observer, ObserverStep(o)
    PROVE  /\ observer' \in [Observer -> ObserverTask]
           /\ inner' \in [ObserverId -> Subscription \cup {None}]
           /\ senders' \in [ObserverId -> Observer \cup {None}]
  <1>1. /\ observer \in [Observer -> ObserverTask] /\ observer[o] \in ObserverTask
        /\ inner \in [ObserverId -> Subscription \cup {None}]
        /\ senders \in [ObserverId -> Observer \cup {None}]
    BY DEF WsInv, WsTypeOK
  <1>2. DefaultSubscription \in Subscription
    BY DefaultIsSubscription
  <1>3. CASE ObserverConnect(o)
    <2> DEFINE r == [observer[o] EXCEPT !.state = "named", !.id = Connected]
    <2>1. r \in ObserverTask
      BY <1>1, ConnectedIsObserverId DEF ObserverTask
    <2>2. observer' = [observer EXCEPT ![o] = r]
      BY <1>1, <1>3 DEF ObserverConnect
    <2> QED BY <1>1, <1>3, <2>1, <2>2 DEF ObserverConnect
  <1>4. CASE AddObserver(o)
    <2> DEFINE r == [observer[o] EXCEPT !.state = "added"]
    <2>1. r \in ObserverTask
      BY <1>1 DEF ObserverTask
    <2>2. observer' = [observer EXCEPT ![o] = r]
      BY <1>1, <1>4 DEF AddObserver
    <2> QED BY <1>1, <1>2, <1>4, <2>1, <2>2 DEF AddObserver
  <1>5. CASE RegisterSender(o)
    <2> DEFINE r == [observer[o] EXCEPT !.state = "open", !.forwards = TRUE]
    <2>1. r \in ObserverTask
      BY <1>1 DEF ObserverTask
    <2>2. observer' = [observer EXCEPT ![o] = r]
      BY <1>1, <1>5 DEF RegisterSender
    <2> QED BY <1>1, <1>5, <2>1, <2>2 DEF RegisterSender
  <1>6. ASSUME NEW command \in Command, SubscribeKinds(o, command)
        PROVE  /\ observer' \in [Observer -> ObserverTask]
               /\ inner' \in [ObserverId -> Subscription \cup {None}]
               /\ senders' \in [ObserverId -> Observer \cup {None}]
    <2> DEFINE r == [observer[o] EXCEPT !.state = "subscribing", !.wanted = command]
               i == observer[o].id
    <2>1. r \in ObserverTask /\ command \in Subscription
      BY <1>1, CommandAssumption DEF ObserverTask
    <2>2. observer' = [observer EXCEPT ![o] = r]
      BY <1>1, <1>6 DEF SubscribeKinds
    <2>3. CASE inner[i] = None
      BY <1>1, <1>6, <2>1, <2>2, <2>3 DEF SubscribeKinds
    <2>4. CASE inner[i] # None
      <3> DEFINE sub == [inner[i] EXCEPT !.kinds = command.kinds]
      <3>1. i \in ObserverId
        BY <1>1 DEF ObserverTask
      <3>2. inner[i] \in Subscription
        BY <1>1, <2>4, <3>1
      <3>3. sub \in Subscription
        BY <2>1, <3>2 DEF Subscription
      <3>4. inner' = [inner EXCEPT ![i] = sub]
        BY <1>1, <1>6, <2>4 DEF SubscribeKinds
      <3>5. senders' = senders
        BY <1>6 DEF SubscribeKinds
      <3> HIDE DEF r, sub, i
      <3> QED BY <1>1, <2>1, <2>2, <3>3, <3>4, <3>5
    <2> QED BY <2>3, <2>4
  <1>7. CASE SubscribeFilter(o)
    <2> DEFINE r == [observer[o] EXCEPT !.state = IF observer[o].forwards THEN "open"
                                                                          ELSE "leaving"]
               i == observer[o].id
    <2>1. r \in ObserverTask /\ observer[o].wanted \in Subscription
      BY <1>1 DEF ObserverTask
    <2>2. observer' = [observer EXCEPT ![o] = r]
      BY <1>1, <1>7 DEF SubscribeFilter
    <2>3. CASE inner[i] = None
      BY <1>1, <1>7, <2>1, <2>2, <2>3 DEF SubscribeFilter
    <2>4. CASE inner[i] # None
      <3> DEFINE sub == [inner[i] EXCEPT !.filter = observer[o].wanted.filter]
      <3>1. i \in ObserverId
        BY <1>1 DEF ObserverTask
      <3>2. inner[i] \in Subscription
        BY <1>1, <2>4, <3>1
      <3>3. sub \in Subscription
        BY <2>1, <3>2 DEF Subscription
      <3>4. inner' = [inner EXCEPT ![i] = sub]
        BY <1>1, <1>7, <2>4 DEF SubscribeFilter
      <3>5. senders' = senders
        BY <1>7 DEF SubscribeFilter
      <3> HIDE DEF r, sub, i
      <3> QED BY <1>1, <2>1, <2>2, <3>3, <3>4, <3>5
    <2> QED BY <2>3, <2>4
  <1>8. CASE ForwardingEnds(o)
    <2> DEFINE r == [observer[o] EXCEPT !.forwards = FALSE]
    <2>1. r \in ObserverTask
      BY <1>1 DEF ObserverTask
    <2>2. observer' = [observer EXCEPT ![o] = r]
      BY <1>1, <1>8 DEF ForwardingEnds
    <2> QED BY <1>1, <1>8, <2>1, <2>2 DEF ForwardingEnds
  <1>9. CASE ObserverClose(o)
    <2> DEFINE r == [observer[o] EXCEPT !.state = "gone", !.forwards = FALSE,
                                        !.id = 0, !.wanted = DefaultSubscription]
    <2>1. r \in ObserverTask
      <3>1. 0 \in ObserverId
        BY BoundIsNat DEF ObserverId
      <3> HIDE DEF DefaultSubscription
      <3> QED BY <1>1, <1>2, <3>1 DEF ObserverTask
    <2>2. observer' = [observer EXCEPT ![o] = r]
      BY <1>1, <1>9 DEF ObserverClose
    <2>3. /\ inner' = [inner EXCEPT ![observer[o].id] = None]
          /\ senders' = [senders EXCEPT ![observer[o].id] = None]
      BY <1>9 DEF ObserverClose
    <2> HIDE DEF r
    <2> QED BY <1>1, <2>1, <2>2, <2>3
  <1> QED BY <1>3, <1>4, <1>5, <1>6, <1>7, <1>8, <1>9 DEF ObserverStep

\* The steps of observers keep types, ids and recipients.
LEMMA ObserverKeepsInv ==
    ASSUME WsInv, NEW o \in Observer, ObserverStep(o)
    PROVE  WsInv'
  <1>1. UNCHANGED <<agentVars, inbox>>
    BY DEF ObserverStep, ObserverConnect, AddObserver, RegisterSender, SubscribeKinds,
           SubscribeFilter, ForwardingEnds, ObserverClose
  <1>2. owed' \in [Agent -> SUBSET Observer] /\ welcome' \in [Agent -> SUBSET Observer]
    <2>1. owed \in [Agent -> SUBSET Observer] /\ welcome \in [Agent -> SUBSET Observer]
      BY DEF WsInv, WsTypeOK
    <2>2. CASE ReleaseObserver(o)
      BY <2>1, <2>2 DEF ReleaseObserver
    <2>3. CASE \E command \in Command : SubscribeKinds(o, command)
      BY <2>1, <2>3 DEF SubscribeKinds
    <2>4. CASE UNCHANGED historyVars
      BY <2>1, <2>4 DEF historyVars
    <2> QED
      BY <2>2, <2>3, <2>4
      DEF ObserverStep, ObserverConnect, AddObserver, RegisterSender, SubscribeFilter,
          ForwardingEnds, ObserverClose
  <1>3. WsTypeOK'
    BY <1>1, <1>2, ObserverKeepsTypes DEF WsInv, WsTypeOK, agentVars
  <1> QED BY <1>1, <1>3 DEF WsInv, IdsFresh, BroadcastsOwn, Live, agentVars

\* Types, ids and recipients are as they should be, for any number of
\* connections.
THEOREM WsInvariant == WsSpec => []WsInv
  <1>1. WsInit => WsInv
    <2> SUFFICES ASSUME WsInit
                 PROVE  WsInv
      OBVIOUS
    <2>1. NoObservers \in [ObserverId -> {None}] /\ 0 \in ConnId /\ 0 \in ObserverId
      BY BoundIsNat DEF NoObservers, ConnId, ObserverId
    <2>2. WsTypeOK
      <3>1. agent \in [Agent -> AgentTask]
        BY <2>1, BoundAssumption DEF WsInit, AgentTask
      <3>2. observer \in [Observer -> ObserverTask]
        BY <2>1, DefaultIsSubscription DEF WsInit, ObserverTask
      <3>3. connections \in [ConnId -> Registered]
        BY DEF WsInit, NotConnected, Registered
      <3>4. inbox \in [Observer -> Seq(Message)]
        BY DEF WsInit
      <3>5. /\ inner \in [ObserverId -> Subscription \cup {None}]
            /\ senders \in [ObserverId -> Observer \cup {None}]
        BY <2>1 DEF WsInit
      <3> QED BY <2>1, <3>1, <3>2, <3>3, <3>4, <3>5 DEF WsInit, WsTypeOK
    <2>3. IdsFresh
      <3>1. {a \in Agent : agent[a].state # "new"} = {}
        BY DEF WsInit
      <3> QED BY <3>1, FS_EmptySet DEF WsInit, IdsFresh, Live, NotConnected
    <2>4. BroadcastsOwn
      BY DEF WsInit, BroadcastsOwn
    <2> QED BY <2>2, <2>3, <2>4 DEF WsInv
  <1>2. WsInv /\ [WsNext]_wsVars => WsInv'
    <2> SUFFICES ASSUME WsInv, [WsNext]_wsVars
                 PROVE  WsInv'
      OBVIOUS
    <2>1. ASSUME NEW a \in Agent, AgentStep(a)
          PROVE  WsInv'
      BY <2>1, AgentConnectKeepsInv, ReceiveKeepsInv, BroadcastKeepsInv, AgentCloseKeepsInv
      DEF AgentStep
    <2>2. ASSUME NEW o \in Observer, ObserverStep(o)
          PROVE  WsInv'
      BY <2>2, ObserverKeepsInv
    <2>3. CASE UNCHANGED wsVars
      BY <2>3 DEF wsVars, WsInv, WsTypeOK, IdsFresh, BroadcastsOwn, Live
    <2> QED BY <2>1, <2>2, <2>3 DEF WsNext
  <1> QED BY <1>1, <1>2, PTL DEF WsSpec

\* Every variable keeps its type; in particular no observer is given an id
\* beyond the offset plus the number of agents.
THEOREM WsTypeCorrect == WsSpec => []WsTypeOK
  <1>1. WsInv => WsTypeOK
    BY DEF WsInv
  <1> QED BY <1>1, WsInvariant, PTL

-----------------------------------------------------------------------------
(* The subscriber registry.                                                *)

\* ConnectionsTracked in its parts, and that an agent has no identity before
\* it is connected.
Tracked ==
    /\ \A a, b \in Agent : Live(a) /\ Live(b) /\ agent[a].id = agent[b].id => a = b
    /\ \A i \in ConnId : connections[i].open => \E a \in Agent : Live(a) /\ agent[a].id = i
    /\ \A a \in Agent : Live(a) => /\ connections[agent[a].id].open
                                   /\ connections[agent[a].id].agentId = agent[a].agentId
    /\ \A a \in Agent : agent[a].state = "new" => agent[a].agentId = None

\* What the proof tracks is what the property says.
LEMMA TrackedImplies ==
    ASSUME WsInv, Tracked
    PROVE  ConnectionsTracked
  <1>1. \A a \in Agent : agent[a].id \in ConnId
    BY DEF WsInv, WsTypeOK, AgentTask
  <1> QED BY <1>1 DEF Tracked, ConnectionsTracked, Live

\* Steps that touch neither a connection nor who has it.
LEMMA SameConnections ==
    ASSUME Tracked, connections' = connections,
           \A a \in Agent : /\ Live(a)' <=> Live(a)
                            /\ agent'[a].state = "new" <=> agent[a].state = "new"
                            /\ agent'[a].id = agent[a].id
                            /\ agent'[a].agentId = agent[a].agentId
    PROVE  Tracked'
  <1>1. \A a, b \in Agent : Live(a)' /\ Live(b)' /\ agent'[a].id = agent'[b].id => a = b
    BY DEF Tracked
  <1>2. ASSUME NEW i \in ConnId, connections'[i].open
        PROVE  \E a \in Agent : Live(a)' /\ agent'[a].id = i
    BY <1>2 DEF Tracked
  <1>3. ASSUME NEW a \in Agent, Live(a)'
        PROVE  /\ connections'[agent'[a].id].open
               /\ connections'[agent'[a].id].agentId = agent'[a].agentId
    BY <1>3 DEF Tracked
  <1>4. \A a \in Agent : agent'[a].state = "new" => agent'[a].agentId = None
    BY DEF Tracked
  <1> QED BY <1>1, <1>2, <1>3, <1>4 DEF Tracked

\* A fresh id is in nobody's way.
LEMMA AgentConnectTracked ==
    ASSUME WsInv, Tracked, NEW a \in Agent, AgentConnect(a)
    PROVE  Tracked'
  <1>1. /\ agent'[a].state = "reading" /\ agent'[a].id = nextId
        /\ agent'[a].agentId = agent[a].agentId
        /\ \A b \in Agent \ {a} : agent'[b] = agent[b]
    BY DEF AgentConnect, WsInv, WsTypeOK, AgentTask
  <1>2. nextId \in ConnId /\ nextId \in Nat
    BY BoundIsNat DEF WsInv, WsTypeOK, ConnId
  <1>3. /\ connections'[nextId] = [open |-> TRUE, agentId |-> None]
        /\ \A i \in ConnId \ {nextId} : connections'[i] = connections[i]
    BY <1>2 DEF AgentConnect, WsInv, WsTypeOK
  <1>4. agent[a].state = "new" /\ agent[a].agentId = None
    BY DEF AgentConnect, Tracked
  <1>5. \A b \in Agent : Live(b) => agent[b].id # nextId /\ agent[b].id \in ConnId
    <2>1. \A b \in Agent : agent[b].id \in ConnId
      BY DEF WsInv, WsTypeOK, AgentTask
    <2>2. \A b \in Agent : Live(b) => agent[b].id < nextId
      BY DEF WsInv, IdsFresh
    <2> QED BY <1>2, <2>1, <2>2
  <1>6. \A b \in Agent : Live(b)' <=> b = a \/ Live(b)
    BY <1>1 DEF Live
  <1>7. ASSUME NEW b \in Agent, NEW d \in Agent, Live(b)', Live(d)', agent'[b].id = agent'[d].id
        PROVE  b = d
    BY <1>1, <1>5, <1>6, <1>7 DEF Tracked
  <1>8. ASSUME NEW i \in ConnId, connections'[i].open
        PROVE  \E b \in Agent : Live(b)' /\ agent'[b].id = i
    <2>1. CASE i = nextId
      BY <1>1, <1>6, <2>1
    <2>2. CASE i # nextId
      <3>1. PICK b \in Agent : Live(b) /\ agent[b].id = i
        BY <1>3, <1>8, <2>2 DEF Tracked
      <3>2. b # a
        BY <1>4, <3>1 DEF Live
      <3> QED BY <1>1, <1>6, <3>1, <3>2
    <2> QED BY <2>1, <2>2
  <1>9. ASSUME NEW b \in Agent, Live(b)'
        PROVE  /\ connections'[agent'[b].id].open
               /\ connections'[agent'[b].id].agentId = agent'[b].agentId
    <2>1. CASE b = a
      BY <1>1, <1>3, <1>4, <2>1
    <2>2. CASE b # a
      BY <1>1, <1>3, <1>5, <1>6, <1>9, <2>2 DEF Tracked
    <2> QED BY <2>1, <2>2
  <1>10. \A b \in Agent : agent'[b].state = "new" => agent'[b].agentId = None
    BY <1>1, <1>4 DEF Tracked
  <1> QED BY <1>7, <1>8, <1>9, <1>10 DEF Tracked

\* An envelope changes the agent's own entry only.
LEMMA ReceiveTracked ==
    ASSUME WsInv, Tracked, NEW a \in Agent, NEW kind \in Kind \cup {RegisterAgent},
           NEW id \in AgentId \cup {None}, Receive(a, kind, id)
    PROVE  Tracked'
  <1> DEFINE registers == kind = RegisterAgent /\ id # None
  <1>1. /\ agent[a].state = "reading" /\ agent'[a].state = "listing"
        /\ agent'[a].id = agent[a].id
        /\ agent'[a].agentId = IF registers THEN id ELSE agent[a].agentId
        /\ \A b \in Agent \ {a} : agent'[b] = agent[b]
    BY DEF Receive, WsInv, WsTypeOK, AgentTask
  <1>2. \A b \in Agent : Live(b)' <=> Live(b)
    BY <1>1 DEF Live
  <1>3. CASE registers
    <2>1. \A b \in Agent : agent[b].id \in ConnId
      BY DEF WsInv, WsTypeOK, AgentTask
    <2>2. \A i \in ConnId : connections'[i].open = connections[i].open
      BY <1>3 DEF Receive, WsInv, WsTypeOK, Registered
    <2>3. /\ connections'[agent[a].id].agentId = id
          /\ \A i \in ConnId \ {agent[a].id} : connections'[i] = connections[i]
      BY <1>3, <2>1 DEF Receive, WsInv, WsTypeOK, Registered
    <2>4. \A b \in Agent \ {a} : Live(b) => agent[b].id # agent[a].id
      BY <1>1 DEF Tracked, Live
    <2> QED BY <1>1, <1>2, <1>3, <2>1, <2>2, <2>3, <2>4 DEF Tracked
  <1>4. CASE ~registers
    <2>1. connections' = connections
      BY <1>4 DEF Receive
    <2> QED BY <1>1, <1>2, <1>4, <2>1, SameConnections
  <1> QED BY <1>3, <1>4

\* Leaving removes the agent's own entry.
LEMMA AgentCloseTracked ==
    ASSUME WsInv, Tracked, NEW a \in Agent, AgentClose(a)
    PROVE  Tracked'
  <1>1. /\ Live(a) /\ agent'[a].state = "gone"
        /\ \A b \in Agent \ {a} : agent'[b] = agent[b]
    BY DEF AgentClose, Live, WsInv, WsTypeOK, AgentTask
  <1>2. \A b \in Agent : agent[b].id \in ConnId
    BY DEF WsInv, WsTypeOK, AgentTask
  <1>3. /\ ~connections'[agent[a].id].open
        /\ \A i \in ConnId \ {agent[a].id} : connections'[i] = connections[i]
    BY <1>2 DEF AgentClose, NotConnected, WsInv, WsTypeOK
  <1>4. \A b \in Agent \ {a} : Live(b) => agent[b].id # agent[a].id
    BY <1>1 DEF Tracked
  <1>5. \A b \in Agent : Live(b)' <=> Live(b) /\ b # a
    BY <1>1 DEF Live
  <1> QED BY <1>1, <1>2, <1>3, <1>4, <1>5 DEF Tracked

\* Every step keeps the connections tracked.
LEMMA StepTracked ==
    ASSUME WsInv, Tracked, [WsNext]_wsVars
    PROVE  Tracked'
  <1>1. ASSUME NEW a \in Agent,
               TakeSubscriptions(a) \/ TakeSenders(a) \/ Ack(a) \/ \E o \in Observer : SendTo(a, o)
        PROVE  Tracked'
    <2>1. /\ Live(a)' <=> Live(a)
          /\ Live(a) /\ agent'[a].state # "new"
          /\ agent'[a].id = agent[a].id /\ agent'[a].agentId = agent[a].agentId
          /\ \A b \in Agent \ {a} : agent'[b] = agent[b]
      <3>1. CASE TakeSubscriptions(a)
        BY <3>1 DEF TakeSubscriptions, Live, WsInv, WsTypeOK, AgentTask
      <3>2. CASE TakeSenders(a)
        BY <3>2 DEF TakeSenders, Live, WsInv, WsTypeOK, AgentTask
      <3>3. CASE Ack(a)
        BY <3>3 DEF Ack, Live, WsInv, WsTypeOK, AgentTask
      <3>4. ASSUME NEW o \in Observer, SendTo(a, o)
            PROVE  /\ Live(a)' <=> Live(a)
                   /\ Live(a) /\ agent'[a].state # "new"
                   /\ agent'[a].id = agent[a].id /\ agent'[a].agentId = agent[a].agentId
                   /\ \A b \in Agent \ {a} : agent'[b] = agent[b]
        BY <3>4 DEF SendTo, Live, WsInv, WsTypeOK, AgentTask, BroadcastsOwn
      <3> QED BY <1>1, <3>1, <3>2, <3>3, <3>4
    <2>2. connections' = connections
      BY <1>1 DEF TakeSubscriptions, TakeSenders, Ack, SendTo
    <2> QED BY <2>1, <2>2, SameConnections DEF Live
  <1>2. ASSUME NEW a \in Agent, AgentStep(a)
        PROVE  Tracked'
    BY <1>1, <1>2, AgentConnectTracked, ReceiveTracked, AgentCloseTracked DEF AgentStep
  <1>3. ASSUME NEW o \in Observer, ObserverStep(o)
        PROVE  Tracked'
    <2>1. UNCHANGED agentVars
      BY <1>3
      DEF ObserverStep, ObserverConnect, AddObserver, RegisterSender, SubscribeKinds,
          SubscribeFilter, ForwardingEnds, ObserverClose
    <2> QED BY <2>1, SameConnections DEF agentVars, Live
  <1>4. CASE UNCHANGED wsVars
    BY <1>4, SameConnections DEF wsVars, Live
  <1> QED BY <1>2, <1>3, <1>4 DEF WsNext

\* The subscriber registry is the set of live agent connections, each under
\* an id of its own and with the identity it registered last.
THEOREM ConnectionsAlwaysTracked == WsSpec => []ConnectionsTracked
  <1>1. WsInit => Tracked
    BY DEF WsInit, Tracked, Live, NotConnected
  <1>2. WsInv /\ Tracked /\ [WsNext]_wsVars => Tracked'
    BY StepTracked
  <1>3. WsInv /\ Tracked => ConnectionsTracked
    BY TrackedImplies
  <1> QED BY <1>1, <1>2, <1>3, WsInvariant, PTL DEF WsSpec

-----------------------------------------------------------------------------
(* The registry of observers.                                              *)

\* Some observer in one of these states has the id.
Has(i, states) == \E o \in Observer : observer[o].id = i /\ observer[o].state \in states
WithSender == {"open", "subscribing", "leaving"}
WithEntry == WithSender \cup {"added"}

\* NoOrphanEntries, in terms of who has an id.
LEMMA NoOrphanUnfolds ==
    NoOrphanEntries <=>
        \A i \in ObserverId : /\ inner[i] # None => Has(i, WithEntry)
                              /\ senders[i] # None => Has(i, WithSender)
  BY DEF NoOrphanEntries, Has, WithEntry, WithSender

\* An observer whose step keeps its id, and its entries if it had them, keeps
\* all others'.
LEMMA EntriesKept ==
    ASSUME NEW o \in Observer, NEW states,
           \A p \in Observer \ {o} : observer'[p] = observer[p],
           observer[o].state \in states =>
               observer'[o].id = observer[o].id /\ observer'[o].state \in states
    PROVE  \A i : Has(i, states) => Has(i, states)'
  BY DEF Has

\* Every step of an observer keeps the entries held.
LEMMA ObserverKeepsEntries ==
    ASSUME WsInv, NoOrphanEntries, NEW o \in Observer, ObserverStep(o)
    PROVE  NoOrphanEntries'
  <1>1. /\ observer \in [Observer -> ObserverTask] /\ observer[o] \in ObserverTask
        /\ inner \in [ObserverId -> Subscription \cup {None}]
        /\ senders \in [ObserverId -> Observer \cup {None}]
        /\ observer[o].id \in ObserverId
    BY DEF WsInv, WsTypeOK, ObserverTask
  <1>2. \A i \in ObserverId : /\ inner[i] # None => Has(i, WithEntry)
                              /\ senders[i] # None => Has(i, WithSender)
    BY NoOrphanUnfolds
  <1> DEFINE i == observer[o].id
             Goal == \A j \in ObserverId : /\ inner'[j] # None => Has(j, WithEntry)'
                                           /\ senders'[j] # None => Has(j, WithSender)'
  <1> SUFFICES Goal
    BY DEF NoOrphanEntries, Has, WithEntry, WithSender
  <1>3. CASE ObserverConnect(o)
    <2>1. /\ observer[o].state = "new"
          /\ \A p \in Observer \ {o} : observer'[p] = observer[p]
          /\ inner' = inner /\ senders' = senders
      BY <1>1, <1>3 DEF ObserverConnect
    <2>2. \A j : /\ Has(j, WithEntry) => Has(j, WithEntry)'
                 /\ Has(j, WithSender) => Has(j, WithSender)'
      BY <2>1, EntriesKept DEF WithEntry, WithSender
    <2> QED BY <1>2, <2>1, <2>2
  <1>4. CASE AddObserver(o)
    <2>1. /\ observer[o].state = "named" /\ observer'[o].state = "added"
          /\ observer'[o].id = i
          /\ \A p \in Observer \ {o} : observer'[p] = observer[p]
          /\ \A j \in ObserverId \ {i} : inner'[j] = inner[j]
          /\ senders' = senders
      BY <1>1, <1>4 DEF AddObserver, ObserverTask
    <2>2. \A j : /\ Has(j, WithEntry) => Has(j, WithEntry)'
                 /\ Has(j, WithSender) => Has(j, WithSender)'
      BY <2>1, EntriesKept DEF WithEntry, WithSender
    <2>3. Has(i, WithEntry)'
      BY <2>1 DEF Has, WithEntry
    <2> QED BY <1>2, <2>1, <2>2, <2>3
  <1>5. CASE RegisterSender(o)
    <2>1. /\ observer[o].state = "added" /\ observer'[o].state = "open"
          /\ observer'[o].id = i
          /\ \A p \in Observer \ {o} : observer'[p] = observer[p]
          /\ \A j \in ObserverId \ {i} : senders'[j] = senders[j]
          /\ inner' = inner
      BY <1>1, <1>5 DEF RegisterSender, ObserverTask
    <2>2. \A j : /\ Has(j, WithEntry) => Has(j, WithEntry)'
                 /\ Has(j, WithSender) => Has(j, WithSender)'
      BY <2>1, EntriesKept DEF WithEntry, WithSender
    <2>3. Has(i, WithSender)'
      BY <2>1 DEF Has, WithSender
    <2> QED BY <1>2, <2>1, <2>2, <2>3
  <1>6. CASE \/ \E command \in Command : SubscribeKinds(o, command)
             \/ SubscribeFilter(o) \/ ForwardingEnds(o)
    <2>1. /\ observer[o].state \in WithSender => observer'[o].state \in WithSender
          /\ observer[o].state \in WithEntry => observer'[o].state \in WithEntry
          /\ observer'[o].id = i
          /\ \A p \in Observer \ {o} : observer'[p] = observer[p]
          /\ senders' = senders
      <3>1. CASE \E command \in Command : SubscribeKinds(o, command)
        BY <1>1, <3>1 DEF SubscribeKinds, ObserverTask, WithSender, WithEntry
      <3>2. CASE SubscribeFilter(o)
        BY <1>1, <3>2 DEF SubscribeFilter, ObserverTask, WithSender, WithEntry
      <3>3. CASE ForwardingEnds(o)
        BY <1>1, <3>3 DEF ForwardingEnds, ObserverTask, WithSender, WithEntry
      <3> QED BY <1>6, <3>1, <3>2, <3>3
    <2>2. \A j \in ObserverId : inner'[j] # None => inner[j] # None
      <3>1. CASE \E command \in Command : SubscribeKinds(o, command)
        BY <1>1, <3>1 DEF SubscribeKinds
      <3>2. CASE SubscribeFilter(o)
        BY <1>1, <3>2 DEF SubscribeFilter
      <3>3. CASE ForwardingEnds(o)
        BY <3>3 DEF ForwardingEnds
      <3> QED BY <1>6, <3>1, <3>2, <3>3
    <2>3. \A j : /\ Has(j, WithEntry) => Has(j, WithEntry)'
                 /\ Has(j, WithSender) => Has(j, WithSender)'
      BY <2>1, EntriesKept
    <2> QED BY <1>2, <2>1, <2>2, <2>3
  <1>7. CASE ObserverClose(o)
    <2>1. /\ \A p \in Observer \ {o} : observer'[p] = observer[p]
          /\ inner'[i] = None /\ senders'[i] = None
          /\ \A j \in ObserverId \ {i} : inner'[j] = inner[j] /\ senders'[j] = senders[j]
      BY <1>1, <1>7 DEF ObserverClose
    <2>2. ASSUME NEW j \in ObserverId \ {i}
          PROVE  /\ Has(j, WithEntry) => Has(j, WithEntry)'
                 /\ Has(j, WithSender) => Has(j, WithSender)'
      BY <2>1 DEF Has
    <2> QED BY <1>2, <2>1, <2>2
  <1> QED BY <1>3, <1>4, <1>5, <1>6, <1>7 DEF ObserverStep

\* Entries of observers do not leak, although two observers may have one id
\* and replace and remove each other's entries.
THEOREM NoEntryOrphaned == WsSpec => []NoOrphanEntries
  <1>1. WsInit => NoOrphanEntries
    BY DEF WsInit, NoOrphanEntries, NoObservers
  <1>2. WsInv /\ NoOrphanEntries /\ [WsNext]_wsVars => NoOrphanEntries'
    <2> SUFFICES ASSUME WsInv, NoOrphanEntries, [WsNext]_wsVars
                 PROVE  NoOrphanEntries'
      OBVIOUS
    <2>1. ASSUME NEW a \in Agent, AgentStep(a)
          PROVE  NoOrphanEntries'
      <3>1. UNCHANGED observerVars
        BY <2>1
        DEF AgentStep, AgentConnect, Receive, TakeSubscriptions, TakeSenders, SendTo, Ack,
            AgentClose
      <3> QED BY <3>1 DEF observerVars, NoOrphanEntries
    <2>2. ASSUME NEW o \in Observer, ObserverStep(o)
          PROVE  NoOrphanEntries'
      BY <2>2, ObserverKeepsEntries
    <2>3. CASE UNCHANGED wsVars
      BY <2>3 DEF wsVars, NoOrphanEntries
    <2> QED BY <2>1, <2>2, <2>3 DEF WsNext
  <1> QED BY <1>1, <1>2, WsInvariant, PTL DEF WsSpec

-----------------------------------------------------------------------------
(* The order of an agent's envelopes.                                      *)

\* The agent's envelope may yet be sent to o.
Pending(a, o) == agent[a].state \in {"listing", "listed"} \/ o \in agent[a].todo

\* A channel holds nothing of an agent that it has not sent yet, and not its
\* last envelope while that is still to come.
NothingAhead ==
    \A a \in Agent, o \in Observer : \A n \in 1 .. Len(inbox[o]) :
        inbox[o][n].from = a => /\ inbox[o][n].seq <= agent[a].sent
                                /\ Pending(a, o) => inbox[o][n].seq < agent[a].sent

OrderInv == AgentOrderKept /\ NothingAhead

\* Steps that send nothing and announce nothing.
LEMMA QuietStep ==
    ASSUME OrderInv, inbox' = inbox,
           \A a \in Agent : agent'[a].sent = agent[a].sent,
           \A a \in Agent, o \in Observer : Pending(a, o)' => Pending(a, o)
    PROVE  OrderInv'
  <1>1. AgentOrderKept'
    BY DEF OrderInv, AgentOrderKept
  <1>2. NothingAhead'
    BY DEF OrderInv, NothingAhead
  <1> QED BY <1>1, <1>2 DEF OrderInv

\* An agent's next envelope is behind all that were sent.
LEMMA ReceiveKeepsOrder ==
    ASSUME WsInv, OrderInv, NEW a \in Agent, NEW kind \in Kind \cup {RegisterAgent},
           NEW id \in AgentId \cup {None}, Receive(a, kind, id)
    PROVE  OrderInv'
  <1>1. /\ agent'[a].sent = agent[a].sent + 1
        /\ \A b \in Agent \ {a} : agent'[b] = agent[b]
        /\ agent[a].sent \in Nat
        /\ inbox' = inbox
    BY BoundAssumption DEF Receive, WsInv, WsTypeOK, AgentTask
  <1>2. AgentOrderKept'
    BY <1>1 DEF OrderInv, AgentOrderKept
  <1>3. ASSUME NEW b \in Agent, NEW o \in Observer, NEW n \in 1 .. Len(inbox[o]),
               inbox[o][n].from = b
        PROVE  /\ inbox[o][n].seq <= agent'[b].sent
               /\ Pending(b, o)' => inbox[o][n].seq < agent'[b].sent
    <2>1. CASE b = a
      <3>1. inbox[o][n].seq <= agent[a].sent
        BY <1>3, <2>1 DEF OrderInv, NothingAhead
      <3>2. inbox[o][n].seq \in Nat
        <4>1. inbox[o] \in Seq(Message)
          BY DEF WsInv, WsTypeOK
        <4>2. inbox[o][n] \in Message
          BY <4>1
        <4> QED BY <4>2, BoundAssumption DEF Message
      <3> QED BY <1>1, <2>1, <3>1, <3>2
    <2>2. CASE b # a
      BY <1>1, <1>3, <2>2 DEF OrderInv, NothingAhead, Pending
    <2> QED BY <2>1, <2>2
  <1>4. NothingAhead'
    BY <1>1, <1>3 DEF NothingAhead
  <1> QED BY <1>2, <1>4 DEF OrderInv

\* A send goes behind what the observer has of the agent.
LEMMA SendKeepsOrder ==
    ASSUME WsInv, OrderInv, NEW a \in Agent, NEW o \in Observer, SendTo(a, o)
    PROVE  OrderInv'
  <1> DEFINE message == [from |-> a, seq |-> agent[a].sent]
  <1>1. /\ agent'[a].sent = agent[a].sent /\ agent'[a].state = agent[a].state
        /\ agent'[a].todo = agent[a].todo \ {o}
        /\ \A b \in Agent \ {a} : agent'[b] = agent[b]
    BY DEF SendTo, WsInv, WsTypeOK, AgentTask
  <1>2. o \in agent[a].todo /\ agent[a].state = "acking" /\ agent[a].sent \in Nat
    BY BoundAssumption DEF SendTo, WsInv, WsTypeOK, AgentTask, BroadcastsOwn
  <1>3. CASE inbox' = inbox
    <2>1. \A b \in Agent, p \in Observer : Pending(b, p)' => Pending(b, p)
      BY <1>1 DEF Pending
    <2>2. \A b \in Agent : agent'[b].sent = agent[b].sent
      BY <1>1
    <2> QED BY <1>3, <2>1, <2>2, QuietStep
  <1>4. CASE inbox' = [inbox EXCEPT ![o] = Append(@, message)]
    <2>1. /\ inbox[o] \in Seq(Message) /\ message \in Message
      <3>1. inbox[o] \in Seq(Message) /\ agent[a] \in AgentTask
        BY DEF WsInv, WsTypeOK
      <3>2. agent[a].sent \in 1 .. MaxEnvelopes
        BY <1>2, <3>1, BoundAssumption DEF WsInv, BroadcastsOwn, AgentTask
      <3> QED BY <3>1, <3>2 DEF Message
    <2>2. /\ inbox'[o] = Append(inbox[o], message)
          /\ \A p \in Observer \ {o} : inbox'[p] = inbox[p]
      BY <1>4 DEF WsInv, WsTypeOK
    <2>3. /\ Len(inbox'[o]) = Len(inbox[o]) + 1 /\ Len(inbox[o]) \in Nat
          /\ \A n \in 1 .. Len(inbox[o]) : inbox'[o][n] = inbox[o][n]
          /\ inbox'[o][Len(inbox[o]) + 1] = message
      BY <2>1, <2>2
    <2>4. \A n \in 1 .. Len(inbox[o]) :
              inbox[o][n].from = a => inbox[o][n].seq < agent[a].sent
      BY <1>2 DEF OrderInv, NothingAhead, Pending
    <2>5. AgentOrderKept'
      <3> SUFFICES ASSUME NEW p \in Observer,
                          NEW n \in 1 .. Len(inbox'[p]), NEW k \in 1 .. Len(inbox'[p]),
                          n < k, inbox'[p][n].from = inbox'[p][k].from
                   PROVE  inbox'[p][n].seq < inbox'[p][k].seq
        BY DEF AgentOrderKept
      <3>1. CASE p # o
        BY <2>2, <3>1 DEF OrderInv, AgentOrderKept
      <3>2. CASE p = o /\ k \in 1 .. Len(inbox[o])
        <4>1. n \in 1 .. Len(inbox[o])
          BY <2>3, <3>2
        <4> QED BY <2>3, <3>2, <4>1 DEF OrderInv, AgentOrderKept
      <3>3. CASE p = o /\ k = Len(inbox[o]) + 1
        <4>1. n \in 1 .. Len(inbox[o])
          BY <2>3, <3>3
        <4> QED BY <2>3, <2>4, <3>3, <4>1
      <3> QED BY <2>3, <3>1, <3>2, <3>3
    <2>6. ASSUME NEW b \in Agent, NEW p \in Observer, NEW n \in 1 .. Len(inbox'[p]),
                 inbox'[p][n].from = b
          PROVE  /\ inbox'[p][n].seq <= agent'[b].sent
                 /\ Pending(b, p)' => inbox'[p][n].seq < agent'[b].sent
      <3>1. CASE n \in 1 .. Len(inbox[p]) /\ inbox'[p][n] = inbox[p][n]
        BY <1>1, <2>6, <3>1 DEF OrderInv, NothingAhead, Pending
      <3>2. CASE p = o /\ n = Len(inbox[o]) + 1
        BY <1>1, <1>2, <2>3, <2>6, <3>2 DEF Pending
      <3> QED BY <2>2, <2>3, <3>1, <3>2
    <2>7. NothingAhead'
      BY <2>6 DEF NothingAhead
    <2> QED BY <2>5, <2>7 DEF OrderInv
  <1> QED BY <1>3, <1>4 DEF SendTo

\* What is in the channels is in order, and what is still to come goes behind
\* it.
LEMMA OrderInvariant == WsSpec => []OrderInv
  <1>1. WsInit => OrderInv
    BY DEF WsInit, OrderInv, AgentOrderKept, NothingAhead
  <1>2. WsInv /\ OrderInv /\ [WsNext]_wsVars => OrderInv'
    <2> SUFFICES ASSUME WsInv, OrderInv, [WsNext]_wsVars
                 PROVE  OrderInv'
      OBVIOUS
    <2>1. ASSUME NEW a \in Agent,
                 \/ AgentConnect(a) \/ TakeSubscriptions(a) \/ TakeSenders(a)
                 \/ Ack(a) \/ AgentClose(a)
          PROVE  OrderInv'
      <3>1. inbox' = inbox
        BY <2>1 DEF AgentConnect, TakeSubscriptions, TakeSenders, Ack, AgentClose
      <3>2. /\ agent'[a].sent = agent[a].sent
            /\ \A o \in Observer : Pending(a, o)' => Pending(a, o)
            /\ \A b \in Agent \ {a} : agent'[b] = agent[b]
        <4>1. CASE AgentConnect(a)
          BY <4>1 DEF AgentConnect, Pending, WsInv, WsTypeOK, AgentTask
        <4>2. CASE TakeSubscriptions(a)
          BY <4>2 DEF TakeSubscriptions, Pending, WsInv, WsTypeOK, AgentTask
        <4>3. CASE TakeSenders(a)
          BY <4>3 DEF TakeSenders, Pending, WsInv, WsTypeOK, AgentTask
        <4>4. CASE Ack(a)
          BY <4>4 DEF Ack, Pending, WsInv, WsTypeOK, AgentTask
        <4>5. CASE AgentClose(a)
          BY <4>5 DEF AgentClose, Pending, WsInv, WsTypeOK, AgentTask
        <4> QED BY <2>1, <4>1, <4>2, <4>3, <4>4, <4>5
      <3>3. \A b \in Agent, o \in Observer : Pending(b, o)' => Pending(b, o)
        BY <3>2 DEF Pending
      <3> QED BY <3>1, <3>2, <3>3, QuietStep
    <2>2. ASSUME NEW a \in Agent, AgentStep(a)
          PROVE  OrderInv'
      BY <2>1, <2>2, ReceiveKeepsOrder, SendKeepsOrder DEF AgentStep
    <2>3. ASSUME NEW o \in Observer, ObserverStep(o)
          PROVE  OrderInv'
      <3>1. UNCHANGED <<agent, inbox>>
        BY <2>3
        DEF ObserverStep, ObserverConnect, AddObserver, RegisterSender, SubscribeKinds,
            SubscribeFilter, ForwardingEnds, ObserverClose, agentVars
      <3> QED BY <3>1, QuietStep DEF Pending
    <2>4. CASE UNCHANGED wsVars
      BY <2>4, QuietStep DEF wsVars, Pending
    <2> QED BY <2>2, <2>3, <2>4 DEF WsNext
  <1> QED BY <1>1, <1>2, WsInvariant, PTL DEF WsSpec

\* Each agent's envelopes are in every channel in the order they were sent,
\* none twice, whatever else goes on.
THEOREM AgentOrderAlwaysKept == WsSpec => []AgentOrderKept
  <1>1. OrderInv => AgentOrderKept
    BY DEF OrderInv
  <1> QED BY <1>1, OrderInvariant, PTL

-----------------------------------------------------------------------------
(***************************************************************************)
(* The server implements the bulletin board as long as no observer comes   *)
(* by an id that another one has, or that a broadcast under way still      *)
(* knows as another one's.  A single observer never does.                  *)
(*                                                                         *)
(* The promise of the board hangs on what a broadcast carries from its     *)
(* first lock to its second: an observer owed the envelope is in the       *)
(* snapshot with a subscription that wants it, and a subscription that     *)
(* wants it belongs to an observer that is welcome to it.                  *)
(***************************************************************************)

\* The observer has an id.
Present(o) == observer[o].state \notin {"new", "gone"}

\* The premise: ids are not shared, and not given out again while a broadcast
\* holds a snapshot of what their last owner wanted.
IdsApart ==
    /\ \A o, p \in Observer :
           Present(o) /\ Present(p) /\ observer[o].id = observer[p].id => o = p
    /\ \A o \in Observer : observer[o].state = "named" =>
           \A a \in Agent : agent[a].snapshot[observer[o].id] = None

-----------------------------------------------------------------------------
(* Subscriptions.                                                          *)

\* While a subscribe command has written its kinds but not its filter, the
\* observer is sent nothing but what it asks for now or the filter in force
\* names.
LEMMA Mixture ==
    ASSUME NEW command \in Command, NEW mixed \in Subscription,
           mixed.kinds = command.kinds, NEW kind \in KindsOf(mixed)
    PROVE  kind \in KindsOf(command) \/ (mixed.filter # None /\ kind \in mixed.filter)
  <1>1. CASE "by_kind" \in command.kinds
    BY <1>1 DEF KindsOf, Wants
  <1>2. CASE "by_kind" \notin command.kinds
    BY <1>2 DEF KindsOf, Wants
  <1> QED BY <1>1, <1>2

\* Nobody wants anything before its first command.
LEMMA DefaultWantsNothing ==
    KindsOf(DefaultSubscription) = {}
  BY DEF KindsOf, Wants, DefaultSubscription

\* An observer's entries are its own: the subscription it asked for last,
\* but for the moment between the two locks of a command, and its sender.
EntryOwn(o) ==
    /\ observer[o].wanted \in Command \cup {DefaultSubscription}
    /\ observer[o].forwards => observer[o].state \in {"open", "subscribing"}
    /\ ~Subscribed(o) => observer[o].wanted = DefaultSubscription
    /\ observer[o].state \in {"added", "open", "leaving"} =>
           inner[observer[o].id] = observer[o].wanted
    /\ observer[o].state = "subscribing" =>
           /\ inner[observer[o].id] # None
           /\ inner[observer[o].id].kinds = observer[o].wanted.kinds
    /\ Subscribed(o) => senders[observer[o].id] = o

SenderOwn(i) ==
    senders[i] # None => observer[senders[i]].id = i /\ Subscribed(senders[i])

EntriesInv == (\A o \in Observer : EntryOwn(o)) /\ (\A i \in ObserverId : SenderOwn(i))

\* What the types say of one observer and of its entries.
LEMMA ObserverTypes ==
    ASSUME WsInv, NEW o \in Observer
    PROVE  /\ observer \in [Observer -> ObserverTask] /\ observer[o] \in ObserverTask
           /\ observer[o].id \in ObserverId
           /\ inner \in [ObserverId -> Subscription \cup {None}]
           /\ senders \in [ObserverId -> Observer \cup {None}]
  BY DEF WsInv, WsTypeOK, ObserverTask

\* An observer's steps leave the others and their entries alone.
LEMMA OthersUntouched ==
    ASSUME WsInv, IdsApart, NEW o \in Observer, ObserverStep(o),
           NEW p \in Observer \ {o}
    PROVE  /\ observer'[p] = observer[p]
           /\ Present(p) => /\ inner'[observer[p].id] = inner[observer[p].id]
                            /\ senders'[observer[p].id] = senders[observer[p].id]
  <1>1. /\ observer \in [Observer -> ObserverTask]
        /\ inner \in [ObserverId -> Subscription \cup {None}]
        /\ senders \in [ObserverId -> Observer \cup {None}]
        /\ observer[o].id \in ObserverId /\ observer[p].id \in ObserverId
    BY ObserverTypes
  <1>2. Present(p) /\ Present(o) => observer[p].id # observer[o].id
    BY DEF IdsApart
  <1>3. CASE ObserverConnect(o) \/ ForwardingEnds(o)
    BY <1>1, <1>3 DEF ObserverConnect, ForwardingEnds
  <1>4. CASE AddObserver(o)
    BY <1>1, <1>2, <1>4 DEF AddObserver, Present
  <1>5. CASE RegisterSender(o)
    BY <1>1, <1>2, <1>5 DEF RegisterSender, Present
  <1>6. CASE \E command \in Command : SubscribeKinds(o, command)
    BY <1>1, <1>2, <1>6 DEF SubscribeKinds, Present
  <1>7. CASE SubscribeFilter(o)
    BY <1>1, <1>2, <1>7 DEF SubscribeFilter, Present
  <1>8. CASE ObserverClose(o)
    BY <1>1, <1>2, <1>8 DEF ObserverClose, Present
  <1> QED BY <1>3, <1>4, <1>5, <1>6, <1>7, <1>8 DEF ObserverStep

\* Whatever an observer asks for is a subscription.
LEMMA WishIsSubscription ==
    ASSUME NEW wanted \in Command \cup {DefaultSubscription}
    PROVE  wanted \in Subscription /\ wanted # None
  BY CommandAssumption, DefaultIsSubscription, NoneAssumption

\* The first lock of a command mixes its kinds with the filter in force.
LEMMA AskLocally ==
    ASSUME WsInv, EntriesInv, NEW o \in Observer, NEW command \in Command,
           SubscribeKinds(o, command)
    PROVE  /\ observer[o].state = "open" /\ observer'[o].state = "subscribing"
           /\ observer'[o].id = observer[o].id /\ observer'[o].wanted = command
           /\ observer'[o].forwards = observer[o].forwards
           /\ inner'[observer[o].id] \in Subscription
           /\ inner'[observer[o].id].kinds = command.kinds
           /\ inner'[observer[o].id].filter = observer[o].wanted.filter
           /\ senders' = senders
  <1> DEFINE i == observer[o].id
             mixed == [inner[i] EXCEPT !.kinds = command.kinds]
  <1>1. /\ observer \in [Observer -> ObserverTask] /\ observer[o] \in ObserverTask
        /\ i \in ObserverId /\ inner \in [ObserverId -> Subscription \cup {None}]
    BY ObserverTypes
  <1>2. observer[o].state = "open" /\ senders' = senders
    BY DEF SubscribeKinds
  <1>3. inner[i] = observer[o].wanted /\ inner[i] \in Subscription /\ inner[i] # None
    BY <1>2, WishIsSubscription DEF EntriesInv, EntryOwn
  <1>4. /\ mixed \in Subscription /\ mixed.kinds = command.kinds
        /\ mixed.filter = inner[i].filter
    BY <1>3, CommandAssumption DEF Subscription
  <1>5. inner' = [inner EXCEPT ![i] = mixed]
    BY <1>1, <1>3 DEF SubscribeKinds
  <1>6. /\ observer'[o].state = "subscribing" /\ observer'[o].id = i
        /\ observer'[o].wanted = command
        /\ observer'[o].forwards = observer[o].forwards
    BY <1>1 DEF SubscribeKinds, ObserverTask
  <1> QED BY <1>1, <1>2, <1>3, <1>4, <1>5, <1>6

\* The second lock completes it.
LEMMA SettleLocally ==
    ASSUME WsInv, EntriesInv, NEW o \in Observer, SubscribeFilter(o)
    PROVE  /\ observer[o].state = "subscribing"
           /\ observer'[o].state = IF observer[o].forwards THEN "open" ELSE "leaving"
           /\ observer'[o].id = observer[o].id /\ observer'[o].wanted = observer[o].wanted
           /\ observer'[o].forwards = observer[o].forwards
           /\ inner'[observer[o].id] = observer[o].wanted
           /\ senders' = senders
  <1> DEFINE i == observer[o].id
             wanted == observer[o].wanted
             settled == [inner[i] EXCEPT !.filter = wanted.filter]
  <1>1. /\ observer \in [Observer -> ObserverTask] /\ observer[o] \in ObserverTask
        /\ i \in ObserverId /\ inner \in [ObserverId -> Subscription \cup {None}]
    BY ObserverTypes
  <1>2. observer[o].state = "subscribing" /\ senders' = senders
    BY DEF SubscribeFilter
  <1>3. inner[i] \in Subscription /\ inner[i] # None /\ inner[i].kinds = wanted.kinds
    BY <1>1, <1>2 DEF EntriesInv, EntryOwn
  <1>4. wanted \in Subscription
    BY <1>1 DEF ObserverTask
  <1>5. settled = wanted
    BY <1>3, <1>4 DEF Subscription
  <1>6. inner' = [inner EXCEPT ![i] = settled]
    BY <1>1, <1>3 DEF SubscribeFilter
  <1>7. /\ observer'[o].state = IF observer[o].forwards THEN "open" ELSE "leaving"
        /\ observer'[o].id = i /\ observer'[o].wanted = wanted
        /\ observer'[o].forwards = observer[o].forwards
    BY <1>1 DEF SubscribeFilter, ObserverTask
  <1> QED BY <1>1, <1>2, <1>5, <1>6, <1>7

\* The steps before the first command.
LEMMA ArriveLocally ==
    ASSUME WsInv, EntriesInv, NEW o \in Observer,
           ObserverConnect(o) \/ AddObserver(o) \/ RegisterSender(o)
    PROVE  /\ ~Subscribed(o) /\ observer'[o].wanted = DefaultSubscription
           /\ ObserverConnect(o) =>
                  /\ observer[o].state = "new" /\ observer'[o].state = "named"
                  /\ observer'[o].forwards = observer[o].forwards
                  /\ UNCHANGED <<inner, senders>>
           /\ AddObserver(o) =>
                  /\ observer[o].state = "named" /\ observer'[o].state = "added"
                  /\ observer'[o].id = observer[o].id
                  /\ observer'[o].forwards = observer[o].forwards
                  /\ inner'[observer[o].id] = DefaultSubscription
                  /\ senders' = senders
           /\ RegisterSender(o) =>
                  /\ observer[o].state = "added" /\ observer'[o].state = "open"
                  /\ observer'[o].id = observer[o].id /\ observer'[o].forwards
                  /\ inner' = inner /\ inner[observer[o].id] = DefaultSubscription
                  /\ senders' = [senders EXCEPT ![observer[o].id] = o]
  <1>1. /\ observer \in [Observer -> ObserverTask] /\ observer[o] \in ObserverTask
        /\ observer[o].id \in ObserverId
        /\ inner \in [ObserverId -> Subscription \cup {None}]
    BY ObserverTypes
  <1>2. ~Subscribed(o)
    BY DEF ObserverConnect, AddObserver, RegisterSender, Subscribed
  <1>3. observer[o].wanted = DefaultSubscription
    BY <1>2 DEF EntriesInv, EntryOwn
  <1>4. CASE ObserverConnect(o)
    <2>1. /\ observer'[o].state = "named" /\ observer'[o].wanted = observer[o].wanted
          /\ observer'[o].forwards = observer[o].forwards
      BY <1>1, <1>4 DEF ObserverConnect, ObserverTask
    <2> QED BY <1>2, <1>3, <1>4, <2>1 DEF ObserverConnect, AddObserver, RegisterSender
  <1>5. CASE AddObserver(o)
    <2>1. /\ observer'[o].state = "added" /\ observer'[o].wanted = observer[o].wanted
          /\ observer'[o].id = observer[o].id
          /\ observer'[o].forwards = observer[o].forwards
          /\ inner'[observer[o].id] = DefaultSubscription
      BY <1>1, <1>5 DEF AddObserver, ObserverTask
    <2> QED BY <1>2, <1>3, <1>5, <2>1 DEF ObserverConnect, AddObserver, RegisterSender
  <1>6. CASE RegisterSender(o)
    <2>1. /\ observer'[o].state = "open" /\ observer'[o].wanted = observer[o].wanted
          /\ observer'[o].id = observer[o].id /\ observer'[o].forwards
      BY <1>1, <1>6 DEF RegisterSender, ObserverTask
    <2>2. inner[observer[o].id] = DefaultSubscription
      BY <1>3, <1>6 DEF RegisterSender, EntriesInv, EntryOwn
    <2> QED BY <1>2, <1>3, <1>6, <2>1, <2>2 DEF ObserverConnect, AddObserver, RegisterSender
  <1> QED BY <1>4, <1>5, <1>6

\* The steps of an observer that stops listening or leaves.
LEMMA DepartLocally ==
    ASSUME WsInv, EntriesInv, NEW o \in Observer, ForwardingEnds(o) \/ ObserverClose(o)
    PROVE  /\ Subscribed(o) /\ ~observer'[o].forwards
           /\ ForwardingEnds(o) =>
                  /\ observer'[o].state = observer[o].state
                  /\ observer'[o].id = observer[o].id
                  /\ observer'[o].wanted = observer[o].wanted
                  /\ UNCHANGED <<inner, senders>>
           /\ ObserverClose(o) =>
                  /\ observer'[o].state = "gone"
                  /\ observer'[o].wanted = DefaultSubscription
                  /\ senders' = [senders EXCEPT ![observer[o].id] = None]
  <1>1. /\ observer \in [Observer -> ObserverTask] /\ observer[o] \in ObserverTask
    BY ObserverTypes
  <1>2. Subscribed(o)
    BY DEF ForwardingEnds, ObserverClose, Subscribed, EntriesInv, EntryOwn
  <1>3. CASE ForwardingEnds(o)
    <2>1. /\ observer'[o].state = observer[o].state /\ observer'[o].id = observer[o].id
          /\ observer'[o].wanted = observer[o].wanted /\ ~observer'[o].forwards
      BY <1>1, <1>3 DEF ForwardingEnds, ObserverTask
    <2>2. observer[o].forwards
      BY <1>3 DEF ForwardingEnds
    <2>3. ObserverClose(o) => FALSE
      BY <1>1, <1>3, <2>1 DEF ObserverClose, ForwardingEnds, ObserverTask
    <2> QED BY <1>2, <1>3, <2>1, <2>3 DEF ForwardingEnds
  <1>4. CASE ObserverClose(o)
    <2>1. /\ observer'[o].state = "gone" /\ observer'[o].wanted = DefaultSubscription
          /\ ~observer'[o].forwards /\ observer[o].state # "gone"
      BY <1>1, <1>4 DEF ObserverClose, ObserverTask
    <2>2. ForwardingEnds(o) => FALSE
      BY <1>1, <2>1 DEF ForwardingEnds
    <2> QED BY <1>2, <1>4, <2>1, <2>2 DEF ObserverClose
  <1> QED BY <1>3, <1>4

\* Every step of an observer keeps all entries with their owners.
LEMMA ObserverKeepsOwners ==
    ASSUME WsInv, EntriesInv, IdsApart, NEW o \in Observer, ObserverStep(o)
    PROVE  EntriesInv'
  <1>1. /\ observer[o].id \in ObserverId
        /\ senders \in [ObserverId -> Observer \cup {None}]
    BY ObserverTypes
  <1>2. EntryOwn(o) /\ \A i \in ObserverId : SenderOwn(i)
    BY DEF EntriesInv
  <1>3. ASSUME NEW p \in Observer \ {o}
        PROVE  EntryOwn(p)'
    <2>1. EntryOwn(p)
      BY DEF EntriesInv
    <2>2. observer'[p] = observer[p]
      BY OthersUntouched
    <2>3. CASE Present(p)
      BY <2>1, <2>2, <2>3, OthersUntouched DEF EntryOwn, Subscribed
    <2>4. CASE ~Present(p)
      BY <2>1, <2>2, <2>4 DEF EntryOwn, Subscribed, Present
    <2> QED BY <2>3, <2>4
  <1>4. ASSUME NEW i \in ObserverId, senders'[i] = senders[i],
               Subscribed(o) => Subscribed(o)' /\ observer'[o].id = observer[o].id
        PROVE  SenderOwn(i)'
    <2>1. CASE senders[i] = o
      BY <1>2, <1>4, <2>1 DEF SenderOwn
    <2>2. CASE senders[i] \in Observer \ {o}
      BY <1>2, <1>4, <2>2, OthersUntouched DEF SenderOwn, Subscribed
    <2>3. CASE senders[i] = None
      BY <1>4, <2>3 DEF SenderOwn
    <2> QED BY <1>1, <2>1, <2>2, <2>3
  <1>5. EntryOwn(o)' /\ \A i \in ObserverId : SenderOwn(i)'
    <2>1. CASE ObserverConnect(o) \/ AddObserver(o)
      BY <1>2, <1>4, <2>1, ArriveLocally DEF EntryOwn, Subscribed
    <2>2. CASE RegisterSender(o)
      <3>1. EntryOwn(o)'
        BY <1>1, <1>2, <2>2, ArriveLocally DEF EntryOwn, Subscribed
      <3>2. ASSUME NEW i \in ObserverId, i = observer[o].id
            PROVE  SenderOwn(i)'
        BY <1>1, <2>2, <3>2, ArriveLocally DEF SenderOwn, Subscribed
      <3>3. \A i \in ObserverId \ {observer[o].id} : SenderOwn(i)'
        BY <1>1, <1>4, <2>2, ArriveLocally
      <3> QED BY <3>1, <3>2, <3>3
    <2>3. ASSUME NEW command \in Command, SubscribeKinds(o, command)
          PROVE  EntryOwn(o)' /\ \A i \in ObserverId : SenderOwn(i)'
      BY <1>2, <1>4, <2>3, AskLocally, NoneAssumption DEF EntryOwn, Subscribed
    <2>4. CASE SubscribeFilter(o)
      BY <1>2, <1>4, <2>4, SettleLocally DEF EntryOwn, Subscribed
    <2>5. CASE ForwardingEnds(o)
      BY <1>2, <1>4, <2>5, DepartLocally DEF EntryOwn, Subscribed
    <2>6. CASE ObserverClose(o)
      <3>1. EntryOwn(o)'
        BY <2>6, DepartLocally DEF EntryOwn, Subscribed
      <3>2. ASSUME NEW i \in ObserverId, i = observer[o].id
            PROVE  SenderOwn(i)'
        BY <1>1, <2>6, <3>2, DepartLocally DEF SenderOwn
      <3>3. ASSUME NEW i \in ObserverId \ {observer[o].id}
            PROVE  SenderOwn(i)'
        <4>1. senders'[i] = senders[i] /\ senders[i] # o
          BY <1>1, <1>2, <2>6, DepartLocally, NoneAssumption DEF SenderOwn
        <4> QED BY <1>1, <1>2, <4>1, OthersUntouched DEF SenderOwn, Subscribed
      <3> QED BY <3>1, <3>2, <3>3
    <2> QED BY <2>1, <2>2, <2>3, <2>4, <2>5, <2>6 DEF ObserverStep
  <1> QED BY <1>3, <1>5 DEF EntriesInv

-----------------------------------------------------------------------------
(* The steps of an observer as the board sees them.                        *)

Unseen(o) ==
    /\ UNCHANGED <<Interest(o), Wish(o), Named(o)>>
    /\ Settled' = Settled /\ o \notin Settled
    /\ UNCHANGED historyVars

Asks(o) ==
    /\ Interest(o)' \subseteq Interest(o) \cup Wish(o)' \cup Named(o)
    /\ Settled' = Settled \ {o}
    /\ owed' = [a \in Agent |-> owed[a] \ {o}]
    /\ welcome' = [a \in Agent |-> IF agent[a].kind \in Interest(o)' \cup Wish(o)'
                                     THEN welcome[a] \cup {o} ELSE welcome[a]]

Settles(o) ==
    /\ Interest(o)' = Wish(o) /\ Wish(o)' = Wish(o) /\ Named(o)' = Named(o)
    /\ Settled' \in {Settled, Settled \cup {o}} /\ o \notin Settled
    /\ UNCHANGED historyVars

Withdraws(o) ==
    /\ \/ UNCHANGED <<Interest(o), Wish(o), Named(o)>>
       \/ Interest(o)' = {} /\ Wish(o)' = {} /\ Named(o)' = {}
    /\ Settled' = Settled \ {o}
    /\ ReleaseObserver(o)

\* The others are sent, and settled on, what they were before.
LEMMA OthersSeen ==
    ASSUME WsInv, IdsApart, NEW o \in Observer, ObserverStep(o),
           NEW p \in Observer \ {o}
    PROVE  /\ Interest(p)' = Interest(p) /\ Wish(p)' = Wish(p) /\ Named(p)' = Named(p)
           /\ p \in Settled' <=> p \in Settled
  <1>1. observer'[p] = observer[p]
    BY OthersUntouched
  <1>2. Subscribed(p) => inner'[observer[p].id] = inner[observer[p].id]
    BY OthersUntouched DEF Subscribed, Present
  <1> QED BY <1>1, <1>2 DEF Interest, Wish, Named, Subscribed, Settled

\* Settled changes by the observer that moves only.
LEMMA SettledSeen ==
    ASSUME WsInv, IdsApart, NEW o \in Observer, ObserverStep(o)
    PROVE  /\ o \in Settled' => Settled' = Settled \cup {o}
           /\ o \notin Settled' => Settled' = Settled \ {o}
  <1>1. Settled \subseteq Observer /\ Settled' \subseteq Observer
    BY DEF Settled
  <1> QED BY <1>1, OthersSeen

\* Every step of an observer is one of the four.
LEMMA ObserverSeen ==
    ASSUME WsInv, EntriesInv, EntriesInv', WsInv', IdsApart,
           NEW o \in Observer, ObserverStep(o)
    PROVE  \/ Unseen(o)
           \/ Asks(o)
           \/ Settles(o)
           \/ Withdraws(o)
  <1>1. EntryOwn(o) /\ EntryOwn(o)'
    BY DEF EntriesInv
  <1>2. o \in Settled <=> observer[o].state = "open" /\ observer[o].forwards
    BY DEF Settled
  <1>3. o \in Settled' <=> observer'[o].state = "open" /\ observer'[o].forwards
    BY DEF Settled
  <1>4. CASE ObserverConnect(o) \/ AddObserver(o)
    <2>1. ~Subscribed(o) /\ ~Subscribed(o)'
      BY <1>4, ArriveLocally DEF Subscribed
    <2>2. UNCHANGED <<Interest(o), Wish(o), Named(o)>>
      BY <2>1 DEF Interest, Wish, Named
    <2>3. o \notin Settled /\ o \notin Settled'
      BY <1>2, <1>3, <2>1 DEF Subscribed
    <2>4. UNCHANGED historyVars
      BY <1>4 DEF ObserverConnect, AddObserver
    <2> QED BY <2>2, <2>3, <2>4, SettledSeen DEF Unseen
  <1>5. CASE RegisterSender(o)
    <2>1. /\ ~Subscribed(o) /\ observer'[o].wanted = DefaultSubscription
          /\ observer'[o].state = "open"
      BY <1>5, ArriveLocally
    <2>2. /\ Wish(o) = {} /\ Wish(o)' = {} /\ Interest(o)' = Wish(o)'
          /\ Named(o) = {} /\ Named(o)' = {}
      <3>1. Interest(o)' = Wish(o)'
        BY <1>1, <2>1, WishIsSubscription DEF EntryOwn, Interest, Wish
      <3> QED BY <2>1, <3>1, DefaultWantsNothing DEF Wish, Named, DefaultSubscription
    <2>3. o \notin Settled
      BY <1>2, <2>1 DEF Subscribed
    <2>4. UNCHANGED historyVars
      BY <1>5 DEF RegisterSender
    <2> QED BY <2>2, <2>3, <2>4, SettledSeen DEF Settles
  <1>6. ASSUME NEW command \in Command, SubscribeKinds(o, command)
        PROVE  Asks(o)
    <2> DEFINE mixed == inner'[observer[o].id]
    <2>1. /\ observer[o].state = "open" /\ observer'[o].state = "subscribing"
          /\ observer'[o].id = observer[o].id /\ observer'[o].wanted = command
          /\ mixed \in Subscription /\ mixed.kinds = command.kinds
          /\ mixed.filter = observer[o].wanted.filter
      BY <1>6, AskLocally
    <2>2. Wish(o)' = KindsOf(command)
      BY <2>1 DEF Wish, Subscribed
    <2>3. Interest(o)' = KindsOf(mixed)
      BY <2>1, NoneAssumption DEF Interest, Subscribed
    <2>4. ASSUME NEW kind \in KindsOf(mixed)
          PROVE  kind \in KindsOf(command) \cup Named(o)
      BY <2>1, <2>4, Mixture DEF Named, Subscribed
    <2>5. Interest(o)' \subseteq Interest(o) \cup Wish(o)' \cup Named(o)
      BY <2>2, <2>3, <2>4
    <2>6. o \notin Settled'
      BY <1>3, <2>1
    <2> QED BY <1>6, <2>5, <2>6, SettledSeen DEF Asks, SubscribeKinds
  <1>7. CASE SubscribeFilter(o)
    <2>1. /\ observer[o].state = "subscribing"
          /\ observer'[o].state \in {"open", "leaving"}
          /\ observer'[o].wanted = observer[o].wanted
      BY <1>7, SettleLocally
    <2>2. Wish(o)' = Wish(o) /\ Named(o)' = Named(o)
      BY <2>1 DEF Wish, Named, Subscribed
    <2>3. Interest(o)' = Wish(o)'
      BY <1>1, <2>1, WishIsSubscription DEF EntryOwn, Interest, Wish
    <2>4. o \notin Settled
      BY <1>2, <2>1
    <2>5. UNCHANGED historyVars
      BY <1>7 DEF SubscribeFilter
    <2> QED BY <2>2, <2>3, <2>4, <2>5, SettledSeen DEF Settles
  <1>8. CASE ForwardingEnds(o)
    <2>1. /\ observer'[o].state = observer[o].state /\ observer'[o].id = observer[o].id
          /\ observer'[o].wanted = observer[o].wanted
          /\ inner' = inner /\ ~observer'[o].forwards
      BY <1>8, DepartLocally
    <2>2. UNCHANGED <<Interest(o), Wish(o), Named(o)>>
      BY <2>1 DEF Interest, Wish, Named, Subscribed
    <2>3. o \notin Settled'
      BY <1>3, <2>1
    <2> QED BY <1>8, <2>2, <2>3, SettledSeen DEF Withdraws, ForwardingEnds
  <1>9. CASE ObserverClose(o)
    <2>1. ~Subscribed(o)' /\ o \notin Settled'
      BY <1>3, <1>9, DepartLocally DEF Subscribed
    <2>2. Interest(o)' = {} /\ Wish(o)' = {} /\ Named(o)' = {}
      BY <2>1 DEF Interest, Wish, Named
    <2> QED BY <1>9, <2>1, <2>2, SettledSeen DEF Withdraws, ObserverClose
  <1> QED BY <1>4, <1>5, <1>6, <1>7, <1>8, <1>9 DEF ObserverStep

-----------------------------------------------------------------------------
(* What is owed.                                                           *)

\* o has the agent's current envelope.
Reached(a, o) ==
    \E n \in 1 .. Len(inbox[o]) : inbox[o][n] = [from |-> a, seq |-> agent[a].sent]

\* The snapshot of the agent's broadcast has a subscription under the id of o
\* that wants the envelope.
SnapshotWants(a, o) ==
    /\ agent[a].snapshot[observer[o].id] # None
    /\ Wants(agent[a].snapshot[observer[o].id], agent[a].kind)

\* Whoever wanted the envelope is welcome to it, whoever will be sent it is
\* welcome, and whoever is owed it will be sent it or has it.
Account(a) ==
    /\ agent[a].kind # None <=> agent[a].state \in {"listing", "listed", "acking"}
    /\ agent[a].kind = None => owed[a] = {} /\ welcome[a] = {}
    /\ owed[a] \subseteq Settled
    /\ agent[a].todo \subseteq welcome[a]
    /\ \A o \in Observer :
           /\ agent[a].kind \in Interest(o) \cup Wish(o) => o \in welcome[a]
           /\ agent[a].state = "listed" /\ Present(o) /\ SnapshotWants(a, o)
                  => o \in welcome[a]
    /\ \A o \in owed[a] :
           /\ agent[a].state = "listing" => agent[a].kind \in KindsOf(observer[o].wanted)
           /\ agent[a].state = "listed" => SnapshotWants(a, o)
           /\ agent[a].state = "acking" => o \in agent[a].todo \/ Reached(a, o)

Accounts == \A a \in Agent : Account(a)

\* No kind of envelope is None.
LEMMA NoneIsNoKind == None \notin EnvelopeKinds
  BY NoneAssumption DEF EnvelopeKinds

\* An observer that has an id after its step had the same one before, or has
\* just been given it.
LEMMA PresentBefore ==
    ASSUME WsInv, EntriesInv, NEW o \in Observer, ObserverStep(o), Present(o)'
    PROVE  \/ Present(o) /\ observer'[o].id = observer[o].id
           \/ observer'[o].state = "named"
  BY ArriveLocally, AskLocally, SettleLocally, DepartLocally
  DEF ObserverStep, Present, Subscribed

\* What the steps of an observer do to the accounts.
LEMMA ObserverKeepsAccounts ==
    ASSUME WsInv, WsInv', EntriesInv, EntriesInv', IdsApart, IdsApart', Accounts,
           NEW o \in Observer, ObserverStep(o), NEW a \in Agent
    PROVE  Account(a)'
  <1>1. UNCHANGED <<agent, inbox>>
    BY DEF ObserverStep, ObserverConnect, AddObserver, RegisterSender, SubscribeKinds,
           SubscribeFilter, ForwardingEnds, ObserverClose, agentVars
  <1>2. Account(a)
    BY DEF Accounts
  <1>3. \/ Unseen(o) \/ Settles(o) \/ Withdraws(o)
        \/ Asks(o)
    BY ObserverSeen
  <1>4. owed[a] \subseteq Settled /\ owed \in [Agent -> SUBSET Observer]
        /\ welcome \in [Agent -> SUBSET Observer]
    BY <1>2 DEF Account, WsInv, WsTypeOK
  <1>5. /\ owed'[a] \subseteq owed[a] \ {o} /\ owed'[a] \subseteq Settled'
        /\ welcome[a] \subseteq welcome'[a]
        /\ agent[a].kind = None => welcome'[a] = welcome[a]
    <2>1. CASE Unseen(o) \/ Settles(o)
      BY <1>4, <2>1 DEF Unseen, Settles, historyVars
    <2>2. CASE Withdraws(o)
      BY <1>4, <2>2 DEF Withdraws, ReleaseObserver
    <2>3. CASE Asks(o)
      <3>1. None \notin Interest(o)' \cup Wish(o)'
        BY NoneIsNoKind DEF Interest, Wish, KindsOf
      <3> QED BY <1>4, <2>3, <3>1 DEF Asks
    <2> QED BY <1>3, <2>1, <2>2, <2>3
  <1>6. agent[a].kind \in Interest(o)' \cup Wish(o)' => o \in welcome'[a]
    <2>1. agent[a].kind \in Interest(o) \cup Wish(o) => o \in welcome[a]
      BY <1>2 DEF Account
    <2>2. CASE Unseen(o) \/ Settles(o) \/ Withdraws(o)
      BY <1>5, <2>1, <2>2 DEF Unseen, Settles, Withdraws
    <2>3. CASE Asks(o)
      BY <2>3 DEF Asks
    <2> QED BY <1>3, <2>2, <2>3
  <1>7. ASSUME agent[a].state = "listed", Present(o)', SnapshotWants(a, o)'
        PROVE  o \in welcome'[a]
    <2>1. observer'[o].state # "named"
      BY <1>7 DEF IdsApart, SnapshotWants
    <2>2. Present(o) /\ SnapshotWants(a, o)
      BY <1>1, <1>7, <2>1, PresentBefore DEF SnapshotWants
    <2> QED BY <1>2, <1>5, <1>7, <2>2 DEF Account
  <1>8. ASSUME NEW p \in Observer \ {o}
        PROVE  /\ agent[a].kind \in Interest(p)' \cup Wish(p)' => p \in welcome'[a]
               /\ agent[a].state = "listed" /\ Present(p)' /\ SnapshotWants(a, p)'
                      => p \in welcome'[a]
               /\ p \in owed'[a] =>
                      /\ agent[a].state = "listing" =>
                             agent[a].kind \in KindsOf(observer'[p].wanted)
                      /\ agent[a].state = "listed" => SnapshotWants(a, p)'
                      /\ agent[a].state = "acking" =>
                             p \in agent[a].todo \/ Reached(a, p)'
    <2>1. observer'[p] = observer[p] /\ Interest(p)' = Interest(p) /\ Wish(p)' = Wish(p)
      BY OthersUntouched, OthersSeen
    <2>2. /\ SnapshotWants(a, p)' = SnapshotWants(a, p)
          /\ Reached(a, p)' = Reached(a, p) /\ Present(p)' = Present(p)
      BY <1>1, <2>1 DEF SnapshotWants, Reached, Present
    <2> QED BY <1>2, <1>5, <2>1, <2>2 DEF Account
  <1>9. ASSUME NEW p \in Observer
        PROVE  /\ agent'[a].kind \in Interest(p)' \cup Wish(p)' => p \in welcome'[a]
               /\ agent'[a].state = "listed" /\ Present(p)' /\ SnapshotWants(a, p)'
                      => p \in welcome'[a]
    <2>1. CASE p = o
      BY <1>1, <1>6, <1>7, <2>1
    <2>2. CASE p # o
      BY <1>1, <1>8, <2>2
    <2> QED BY <2>1, <2>2
  <1>10. ASSUME NEW p \in owed'[a]
         PROVE  /\ agent'[a].state = "listing" =>
                       agent'[a].kind \in KindsOf(observer'[p].wanted)
                /\ agent'[a].state = "listed" => SnapshotWants(a, p)'
                /\ agent'[a].state = "acking" => p \in agent'[a].todo \/ Reached(a, p)'
    <2>1. p \in Observer \ {o}
      BY <1>4, <1>5
    <2> QED BY <1>1, <1>8, <2>1
  <1>11. /\ agent'[a].kind # None <=> agent'[a].state \in {"listing", "listed", "acking"}
         /\ agent'[a].kind = None => owed'[a] = {} /\ welcome'[a] = {}
         /\ owed'[a] \subseteq Settled'
         /\ agent'[a].todo \subseteq welcome'[a]
    BY <1>1, <1>2, <1>5 DEF Account
  <1> QED BY <1>9, <1>10, <1>11 DEF Account

\* Steps of an agent leave another agent's account alone.
LEMMA OtherAccounts ==
    ASSUME WsInv, NEW a \in Agent, NEW b \in Agent \ {a}, AgentStep(a), Account(b),
           \A o \in Observer : Reached(b, o) => Reached(b, o)'
    PROVE  Account(b)'
  <1>1. /\ agent'[b] = agent[b] /\ owed'[b] = owed[b] /\ welcome'[b] = welcome[b]
        /\ UNCHANGED <<inner, senders, observer>>
    <2>1. /\ agent \in [Agent -> AgentTask] /\ owed \in [Agent -> SUBSET Observer]
          /\ welcome \in [Agent -> SUBSET Observer]
      BY DEF WsInv, WsTypeOK
    <2>2. CASE AgentConnect(a)
      BY <2>1, <2>2 DEF AgentConnect, observerVars, historyVars
    <2>3. CASE \E kind \in Kind \cup {RegisterAgent}, id \in AgentId \cup {None} :
                   Receive(a, kind, id)
      BY <2>1, <2>3 DEF Receive, observerVars
    <2>4. CASE TakeSubscriptions(a) \/ TakeSenders(a)
      BY <2>1, <2>4 DEF TakeSubscriptions, TakeSenders, observerVars, historyVars
    <2>5. CASE \E o \in Observer : SendTo(a, o)
      BY <2>1, <2>5 DEF SendTo, observerVars, historyVars
    <2>6. CASE Ack(a) \/ AgentClose(a)
      BY <2>1, <2>6 DEF Ack, AgentClose, CloseAccount, observerVars
    <2> QED BY <2>2, <2>3, <2>4, <2>5, <2>6 DEF AgentStep
  <1>2. \A o \in Observer :
            /\ Interest(o)' = Interest(o) /\ Wish(o)' = Wish(o)
            /\ Present(o)' = Present(o) /\ SnapshotWants(b, o)' = SnapshotWants(b, o)
    BY <1>1 DEF Interest, Wish, Present, SnapshotWants, Subscribed
  <1>3. Settled' = Settled
    BY <1>1 DEF Settled
  <1>4. owed[b] \subseteq Observer
    BY DEF WsInv, WsTypeOK
  <1> QED BY <1>1, <1>2, <1>3, <1>4 DEF Account

\* While no observer moves, what they want stays.
LEMMA ObserversSame ==
    ASSUME UNCHANGED observerVars
    PROVE  /\ Settled' = Settled
           /\ \A o \in Observer : /\ Interest(o)' = Interest(o) /\ Wish(o)' = Wish(o)
                                  /\ Named(o)' = Named(o) /\ Present(o)' = Present(o)
  BY DEF observerVars, Settled, Interest, Wish, Named, Present, Subscribed

\* An envelope arrives: who wants it is welcome, who is settled on it is owed.
LEMMA ReceiveKeepsAccount ==
    ASSUME WsInv, NEW a \in Agent, Account(a), NEW kind \in Kind \cup {RegisterAgent},
           NEW id \in AgentId \cup {None}, Receive(a, kind, id)
    PROVE  Account(a)'
  <1>1. /\ agent'[a].state = "listing" /\ agent'[a].kind = kind
        /\ agent'[a].todo = agent[a].todo /\ agent[a].state = "reading"
    BY DEF Receive, WsInv, WsTypeOK, AgentTask
  <1>2. agent[a].todo = {} /\ kind # None
    BY <1>1, NoneIsNoKind DEF WsInv, BroadcastsOwn, EnvelopeKinds
  <1>3. /\ owed'[a] = {o \in Settled : Wants(observer[o].wanted, kind)}
        /\ welcome'[a] = {o \in Observer : kind \in Interest(o) \cup Wish(o)}
        /\ UNCHANGED observerVars
    BY DEF Receive, WsInv, WsTypeOK
  <1>4. \A o \in owed'[a] : kind \in KindsOf(observer'[o].wanted)
    BY <1>3 DEF KindsOf, EnvelopeKinds, observerVars
  <1> QED BY <1>1, <1>2, <1>3, <1>4, ObserversSame DEF Account

\* The first lock: the snapshot has what the observers want now.
LEMMA SubscriptionsKeepAccount ==
    ASSUME WsInv, EntriesInv, IdsApart', NEW a \in Agent, Account(a), TakeSubscriptions(a)
    PROVE  Account(a)'
  <1>1. /\ agent[a].state = "listing" /\ agent'[a].snapshot = inner
        /\ agent'[a].state = IF inner = NoObservers THEN "acking" ELSE "listed"
        /\ agent'[a].kind = agent[a].kind /\ agent'[a].todo = agent[a].todo
        /\ UNCHANGED <<observerVars, historyVars>>
    BY DEF TakeSubscriptions, WsInv, WsTypeOK, AgentTask
  <1>2. agent[a].todo = {} /\ agent[a].kind \in EnvelopeKinds
    BY <1>1 DEF Account, WsInv, WsTypeOK, AgentTask, BroadcastsOwn, EnvelopeKinds
  <1>3. ASSUME NEW o \in owed[a]
        PROVE  /\ inner[observer[o].id] # None /\ observer[o].id \in ObserverId
               /\ Wants(inner[observer[o].id], agent[a].kind)
    <2>1. o \in Observer /\ observer[o].state = "open"
      BY DEF Account, Settled
    <2>2. inner[observer[o].id] = observer[o].wanted /\ observer[o].wanted # None
      BY <2>1, WishIsSubscription DEF EntriesInv, EntryOwn
    <2>3. agent[a].kind \in KindsOf(observer[o].wanted)
      BY <1>1 DEF Account
    <2> QED BY <2>1, <2>2, <2>3, ObserverTypes DEF KindsOf
  <1>4. inner = NoObservers => owed[a] = {}
    BY <1>3 DEF NoObservers
  <1>5. ASSUME NEW o \in Observer, Present(o), SnapshotWants(a, o)'
        PROVE  o \in welcome[a]
    <2>1. inner[observer[o].id] # None /\ Wants(inner[observer[o].id], agent[a].kind)
      BY <1>1, <1>5 DEF SnapshotWants, observerVars
    <2>2. observer[o].state # "named"
      BY <1>1, <1>5 DEF SnapshotWants, IdsApart, observerVars
    <2>3. CASE Subscribed(o)
      BY <1>2, <2>1, <2>3 DEF Account, Interest, KindsOf
    <2>4. CASE ~Subscribed(o)
      <3>1. observer[o].state = "added"
        BY <1>5, <2>2, <2>4, ObserverTypes DEF Present, Subscribed, ObserverTask
      <3>2. inner[observer[o].id] = DefaultSubscription
        BY <2>4, <3>1 DEF EntriesInv, EntryOwn
      <3> QED BY <1>2, <2>1, <3>2, DefaultWantsNothing DEF KindsOf
    <2> QED BY <2>3, <2>4
  <1>6. /\ owed'[a] = owed[a] /\ welcome'[a] = welcome[a]
        /\ observer' = observer
    BY <1>1 DEF observerVars, historyVars
  <1>7. \A o \in owed'[a] : SnapshotWants(a, o)'
    BY <1>1, <1>3, <1>6 DEF SnapshotWants
  <1>8. UNCHANGED observerVars
    BY <1>1
  <1>9. ASSUME NEW o \in Observer
        PROVE  /\ agent'[a].kind \in Interest(o)' \cup Wish(o)' => o \in welcome'[a]
               /\ Present(o)' /\ SnapshotWants(a, o)' => o \in welcome'[a]
    BY <1>1, <1>5, <1>6, <1>8, ObserversSame DEF Account
  <1>10. /\ agent'[a].kind # None /\ agent'[a].state \in {"listed", "acking"}
         /\ owed'[a] \subseteq Settled' /\ agent'[a].todo = {}
         /\ agent'[a].state = "acking" => owed'[a] = {}
    BY <1>1, <1>2, <1>4, <1>6, <1>8, ObserversSame, NoneIsNoKind DEF Account
  <1> QED BY <1>7, <1>9, <1>10 DEF Account

\* The second lock: the recipients are those of the snapshot that have a sender.
LEMMA SendersKeepAccount ==
    ASSUME WsInv, EntriesInv, NEW a \in Agent, Account(a), TakeSenders(a)
    PROVE  Account(a)'
  <1> DEFINE recipients == Recipients(agent[a].snapshot, agent[a].kind)
  <1>1. /\ agent[a].state = "listed" /\ agent'[a].todo = recipients
        /\ agent'[a].state = "acking" /\ agent'[a].kind = agent[a].kind
        /\ UNCHANGED <<observerVars, historyVars>>
    BY DEF TakeSenders, WsInv, WsTypeOK, AgentTask
  <1>2. ASSUME NEW r \in recipients
        PROVE  r \in welcome[a]
    <2>1. PICK i \in ObserverId : /\ senders[i] = r /\ senders[i] # None
                                  /\ agent[a].snapshot[i] # None
                                  /\ Wants(agent[a].snapshot[i], agent[a].kind)
      BY DEF Recipients
    <2>2. r \in Observer /\ observer[r].id = i /\ Subscribed(r)
      BY <2>1 DEF EntriesInv, SenderOwn, WsInv, WsTypeOK
    <2>3. Present(r) /\ SnapshotWants(a, r)
      BY <2>1, <2>2 DEF Present, Subscribed, SnapshotWants
    <2> QED BY <1>1, <2>2, <2>3 DEF Account
  <1>3. ASSUME NEW o \in owed[a]
        PROVE  o \in recipients
    <2>1. o \in Observer /\ Subscribed(o) /\ SnapshotWants(a, o)
      BY <1>1 DEF Account, Settled, Subscribed
    <2>2. senders[observer[o].id] = o /\ o # None /\ observer[o].id \in ObserverId
      BY <2>1, ObserverTypes, NoneAssumption DEF EntriesInv, EntryOwn
    <2> QED BY <2>1, <2>2 DEF SnapshotWants, Recipients
  <1>4. owed'[a] = owed[a] /\ welcome'[a] = welcome[a]
    BY <1>1 DEF historyVars
  <1>5. UNCHANGED observerVars
    BY <1>1
  <1> QED BY <1>1, <1>2, <1>3, <1>4, <1>5, ObserversSame DEF Account

\* What a channel holds stays there.
LEMMA SendReaches ==
    ASSUME WsInv, NEW a \in Agent, NEW o \in Observer, SendTo(a, o)
    PROVE  /\ \A b \in Agent, p \in Observer : Reached(b, p) => Reached(b, p)'
           /\ observer[o].forwards => Reached(a, o)'
  <1> DEFINE message == [from |-> a, seq |-> agent[a].sent]
  <1>1. \A b \in Agent : agent'[b].sent = agent[b].sent
    BY DEF SendTo, WsInv, WsTypeOK, AgentTask
  <1>2. \A p \in Observer : inbox[p] \in Seq(Message)
    BY DEF WsInv, WsTypeOK
  <1>3. CASE observer[o].forwards
    <2>1. inbox' = [inbox EXCEPT ![o] = Append(@, message)]
      BY <1>3 DEF SendTo
    <2>2. /\ inbox'[o] = Append(inbox[o], message)
          /\ \A p \in Observer \ {o} : inbox'[p] = inbox[p]
      BY <2>1 DEF WsInv, WsTypeOK
    <2>3. /\ Len(inbox'[o]) = Len(inbox[o]) + 1 /\ Len(inbox[o]) \in Nat
          /\ inbox'[o][Len(inbox[o]) + 1] = message
          /\ \A n \in 1 .. Len(inbox[o]) : inbox'[o][n] = inbox[o][n]
      BY <1>2, <2>2
    <2>4. Reached(a, o)'
      BY <1>1, <2>3 DEF Reached
    <2>5. ASSUME NEW b \in Agent, NEW p \in Observer, Reached(b, p)
          PROVE  Reached(b, p)'
      <3>1. PICK n \in 1 .. Len(inbox[p]) :
                     inbox[p][n] = [from |-> b, seq |-> agent[b].sent]
        BY <2>5 DEF Reached
      <3>2. n \in 1 .. Len(inbox'[p]) /\ inbox'[p][n] = inbox[p][n]
        BY <2>2, <2>3
      <3> QED BY <1>1, <3>1, <3>2 DEF Reached
    <2> QED BY <2>4, <2>5
  <1>4. CASE ~observer[o].forwards
    BY <1>1, <1>4 DEF SendTo, Reached
  <1> QED BY <1>3, <1>4

\* One send: what was due to the observer has reached it.
LEMMA SendKeepsAccount ==
    ASSUME WsInv, NEW a \in Agent, Account(a), NEW o \in Observer, SendTo(a, o)
    PROVE  Account(a)'
  <1>1. /\ agent'[a].state = agent[a].state /\ agent'[a].kind = agent[a].kind
        /\ agent'[a].todo = agent[a].todo \ {o} /\ o \in agent[a].todo
        /\ UNCHANGED <<observerVars, historyVars>>
    BY DEF SendTo, WsInv, WsTypeOK, AgentTask
  <1>2. agent[a].state = "acking"
    BY <1>1 DEF WsInv, BroadcastsOwn
  <1>3. owed'[a] = owed[a] /\ welcome'[a] = welcome[a] /\ UNCHANGED observerVars
    BY <1>1 DEF historyVars
  <1>4. ASSUME NEW p \in owed[a]
        PROVE  p \in agent'[a].todo \/ Reached(a, p)'
    <2>1. p \in Settled /\ p \in Observer /\ (p \in agent[a].todo \/ Reached(a, p))
      BY <1>2 DEF Account, Settled
    <2>2. CASE p = o
      BY <2>1, <2>2, SendReaches DEF Settled
    <2>3. CASE p # o
      BY <1>1, <2>1, <2>3, SendReaches
    <2> QED BY <2>2, <2>3
  <1> QED BY <1>1, <1>2, <1>3, <1>4, ObserversSame DEF Account

\* The "ok", or the end of the connection, closes the account.
LEMMA CloseKeepsAccount ==
    ASSUME WsInv, NEW a \in Agent, Account(a), Ack(a) \/ AgentClose(a)
    PROVE  Account(a)'
  <1>1. /\ agent'[a].state \in {"reading", "gone"} /\ agent'[a].kind = None
        /\ agent'[a].todo = agent[a].todo
        /\ UNCHANGED observerVars
    BY DEF Ack, AgentClose, WsInv, WsTypeOK, AgentTask
  <1>2. agent[a].todo = {}
    BY DEF Ack, AgentClose, WsInv, BroadcastsOwn
  <1>3. owed'[a] = {} /\ welcome'[a] = {}
    BY DEF Ack, AgentClose, CloseAccount, WsInv, WsTypeOK
  <1>4. \A o \in Observer : None \notin Interest(o)' \cup Wish(o)'
    BY NoneIsNoKind DEF Interest, Wish, KindsOf
  <1> QED BY <1>1, <1>2, <1>3, <1>4 DEF Account

\* Every step of an agent keeps its own account.
LEMMA AgentKeepsAccount ==
    ASSUME WsInv, EntriesInv, IdsApart', NEW a \in Agent, Account(a), AgentStep(a)
    PROVE  Account(a)'
  <1>1. CASE AgentConnect(a)
    <2>1. /\ agent[a].state = "new" /\ agent'[a].state = "reading"
          /\ agent'[a].kind = agent[a].kind /\ agent'[a].todo = agent[a].todo
          /\ UNCHANGED <<observerVars, historyVars>>
      BY <1>1 DEF AgentConnect, WsInv, WsTypeOK, AgentTask
    <2>2. owed'[a] = owed[a] /\ welcome'[a] = welcome[a] /\ UNCHANGED observerVars
      BY <2>1 DEF historyVars
    <2> QED BY <2>1, <2>2, ObserversSame DEF Account
  <1> QED BY <1>1, ReceiveKeepsAccount, SubscriptionsKeepAccount, SendersKeepAccount,
             SendKeepsAccount, CloseKeepsAccount DEF AgentStep

\* The entries have their owners, and the accounts balance.
BoardInv == EntriesInv /\ Accounts

\* As long as ids are apart.
LEMMA BoardInvariant == WsSpec /\ []IdsApart => []BoardInv
  <1>1. WsInit => BoardInv
    <2> SUFFICES ASSUME WsInit
                 PROVE  BoardInv
      OBVIOUS
    <2>1. EntriesInv
      BY DEF WsInit, EntriesInv, EntryOwn, SenderOwn, NoObservers, Subscribed
    <2>2. \A o \in Observer : Interest(o) = {} /\ Wish(o) = {}
      BY DEF WsInit, Interest, Wish, Subscribed
    <2>3. Accounts
      BY <2>2 DEF WsInit, Accounts, Account
    <2> QED BY <2>1, <2>3 DEF BoardInv
  <1>2. WsInv /\ WsInv' /\ IdsApart /\ IdsApart' /\ BoardInv /\ [WsNext]_wsVars => BoardInv'
    <2> SUFFICES ASSUME WsInv, WsInv', IdsApart, IdsApart', BoardInv, [WsNext]_wsVars
                 PROVE  BoardInv'
      OBVIOUS
    <2>1. EntriesInv /\ Accounts
      BY DEF BoardInv
    <2>2. ASSUME NEW a \in Agent, AgentStep(a)
          PROVE  BoardInv'
      <3>1. UNCHANGED observerVars
        BY <2>2
        DEF AgentStep, AgentConnect, Receive, TakeSubscriptions, TakeSenders, SendTo, Ack,
            AgentClose
      <3>2. EntriesInv'
        BY <2>1, <3>1 DEF EntriesInv, EntryOwn, SenderOwn, Subscribed, observerVars
      <3>3. Account(a)'
        BY <2>1, <2>2, AgentKeepsAccount DEF Accounts
      <3>4. ASSUME NEW b \in Agent \ {a}
            PROVE  Account(b)'
        <4>1. Account(b)
          BY <2>1 DEF Accounts
        <4>2. \A o \in Observer : Reached(b, o) => Reached(b, o)'
          <5>1. CASE \E o \in Observer : SendTo(a, o)
            BY <5>1, SendReaches
          <5>2. CASE ~ \E o \in Observer : SendTo(a, o)
            <6>1. inbox' = inbox
              BY <2>2, <5>2
              DEF AgentStep, AgentConnect, Receive, TakeSubscriptions, TakeSenders, Ack,
                  AgentClose
            <6>2. agent'[b] = agent[b]
              BY <2>2, <5>2
              DEF AgentStep, AgentConnect, Receive, TakeSubscriptions, TakeSenders, Ack,
                  AgentClose, WsInv, WsTypeOK
            <6> QED BY <6>1, <6>2 DEF Reached
          <5> QED BY <5>1, <5>2
        <4> QED BY <2>2, <4>1, <4>2, OtherAccounts
      <3> QED BY <3>2, <3>3, <3>4 DEF BoardInv, Accounts
    <2>3. ASSUME NEW o \in Observer, ObserverStep(o)
          PROVE  BoardInv'
      <3>1. EntriesInv'
        BY <2>1, <2>3, ObserverKeepsOwners
      <3>2. Accounts'
        BY <2>1, <2>3, <3>1, ObserverKeepsAccounts DEF Accounts
      <3> QED BY <3>1, <3>2 DEF BoardInv
    <2>4. CASE UNCHANGED wsVars
      <3>1. EntriesInv'
        BY <2>1, <2>4 DEF wsVars, EntriesInv, EntryOwn, SenderOwn, Subscribed
      <3>2. Accounts'
        BY <2>1, <2>4 DEF wsVars, Accounts, Account, Settled, Interest, Wish, Present,
                          Subscribed, SnapshotWants, Reached
      <3> QED BY <3>1, <3>2 DEF BoardInv
    <2> QED BY <2>2, <2>3, <2>4 DEF WsNext
  <1> QED BY <1>1, <1>2, WsInvariant, PTL DEF WsSpec

-----------------------------------------------------------------------------
(* The refinement.                                                         *)

\* What the board sees of the server's state stays.
BoardSame ==
    /\ \A a \in Agent : agent'[a].kind = agent[a].kind /\ agent'[a].sent = agent[a].sent
    /\ \A o \in Observer :
           Interest(o)' = Interest(o) /\ Wish(o)' = Wish(o) /\ Named(o)' = Named(o)
    /\ Settled' = Settled
    /\ UNCHANGED <<historyVars, inbox>>

\* The board has it too, then.
LEMMA SameOnBoard ==
    ASSUME BoardSame
    PROVE  UNCHANGED Board!vars
  BY DEF BoardSame, Board!vars, historyVars

\* The start of the server is that of the board.
LEMMA InitOnBoard ==
    ASSUME WsInit
    PROVE  Board!Init
  <1>1. \A o \in Observer :
            Interest(o) = {} /\ Wish(o) = {} /\ Named(o) = {} /\ o \notin Settled
    BY DEF WsInit, Interest, Wish, Named, Subscribed, Settled
  <1>2. Settled = {}
    BY <1>1 DEF Settled
  <1> QED BY <1>1, <1>2 DEF WsInit, Board!Init

\* An envelope that arrives is announced.
LEMMA ReceiveOnBoard ==
    ASSUME WsInv, BoardInv, NEW a \in Agent, NEW kind \in Kind \cup {RegisterAgent},
           NEW id \in AgentId \cup {None}, Receive(a, kind, id)
    PROVE  Board!Announce(a, kind)
  <1>1. /\ agent[a].state = "reading" /\ agent'[a].kind = kind
        /\ agent'[a].sent = agent[a].sent + 1
        /\ \A b \in Agent \ {a} : agent'[b] = agent[b]
        /\ UNCHANGED observerVars /\ inbox' = inbox
    BY DEF Receive, WsInv, WsTypeOK, AgentTask
  <1>2. agent[a].kind = None
    BY <1>1 DEF BoardInv, Accounts, Account
  <1>3. \A o \in Settled : Wants(observer[o].wanted, kind) <=> kind \in Interest(o)
    <2> SUFFICES ASSUME NEW o \in Settled
                 PROVE  Wants(observer[o].wanted, kind) <=> kind \in Interest(o)
      OBVIOUS
    <2>1. o \in Observer /\ observer[o].state = "open" /\ Subscribed(o)
      BY DEF Settled, Subscribed
    <2>2. inner[observer[o].id] = observer[o].wanted /\ observer[o].wanted # None
      BY <2>1, WishIsSubscription DEF BoardInv, EntriesInv, EntryOwn
    <2> QED BY <2>1, <2>2 DEF Interest, KindsOf, EnvelopeKinds
  <1>4. {o \in Settled : Wants(observer[o].wanted, kind)}
            = {o \in Settled : kind \in [p \in Observer |-> Interest(p)][o]}
    BY <1>3 DEF Settled
  <1>5. {o \in Observer : kind \in Interest(o) \cup Wish(o)}
            = {o \in Observer : kind \in [p \in Observer |-> Interest(p)][o]
                                             \cup [p \in Observer |-> Wish(p)][o]}
    OBVIOUS
  <1>6. /\ owed' = [owed EXCEPT ![a] = {o \in Settled :
                                           kind \in [p \in Observer |-> Interest(p)][o]}]
        /\ welcome' = [welcome EXCEPT ![a] =
                          {o \in Observer : kind \in [p \in Observer |-> Interest(p)][o]
                                                         \cup [p \in Observer |-> Wish(p)][o]}]
    BY <1>4, <1>5 DEF Receive
  <1>7. UNCHANGED Board!observers
    BY <1>1, ObserversSame DEF Board!observers
  <1> QED BY <1>1, <1>2, <1>6, <1>7 DEF Board!Announce

\* A send to an observer that listens delivers; one to an observer that does
\* not is nothing on the board.
LEMMA SendOnBoard ==
    ASSUME WsInv, OrderInv, BoardInv, NEW a \in Agent, NEW o \in Observer, SendTo(a, o)
    PROVE  Board!Deliver(a, o) \/ BoardSame
  <1>1. /\ o \in agent[a].todo /\ UNCHANGED observerVars /\ UNCHANGED historyVars
        /\ \A b \in Agent : /\ agent'[b].kind = agent[b].kind
                            /\ agent'[b].sent = agent[b].sent
    BY DEF SendTo, WsInv, WsTypeOK, AgentTask
  <1>2. agent[a].state = "acking" /\ o \in welcome[a] /\ agent[a].kind # None
    BY <1>1 DEF WsInv, BroadcastsOwn, BoardInv, Accounts, Account
  <1>3. CASE observer[o].forwards
    <2>1. ~Board!Reached(a, o)
      <3>1. Pending(a, o) /\ agent[a].sent \in Nat
        BY <1>1, BoundAssumption DEF Pending, WsInv, WsTypeOK, AgentTask
      <3>2. \A n \in 1 .. Len(inbox[o]) :
                inbox[o][n].from = a => inbox[o][n].seq < agent[a].sent
        BY <3>1 DEF OrderInv, NothingAhead
      <3>3. \A n \in 1 .. Len(inbox[o]) : inbox[o][n] # [from |-> a, seq |-> agent[a].sent]
        BY <3>1, <3>2
      <3> QED BY <3>3 DEF Board!Reached, Board!Message
    <2>2. inbox' = [inbox EXCEPT ![o] = Append(@, Board!Message(a))]
      BY <1>3 DEF SendTo, Board!Message
    <2>3. UNCHANGED Board!agents /\ UNCHANGED Board!observers
      BY <1>1, ObserversSame DEF Board!agents, Board!observers, historyVars
    <2> QED BY <1>2, <2>1, <2>2, <2>3 DEF Board!Deliver
  <1>4. CASE ~observer[o].forwards
    <2>1. inbox' = inbox
      BY <1>4 DEF SendTo
    <2> QED BY <1>1, <2>1, ObserversSame DEF BoardSame
  <1> QED BY <1>3, <1>4

\* The "ok" comes when all it was owed to have the envelope, and so does the
\* end of a connection that was still to send one.
LEMMA CloseOnBoard ==
    ASSUME WsInv, BoardInv, NEW a \in Agent, Ack(a) \/ AgentClose(a)
    PROVE  Board!Done(a) \/ BoardSame
  <1>1. /\ agent[a].todo = {} /\ agent'[a].kind = None
        /\ agent'[a].sent = agent[a].sent
        /\ \A b \in Agent \ {a} : agent'[b] = agent[b]
        /\ UNCHANGED observerVars /\ inbox' = inbox
        /\ agent[a].state \in {"reading", "acking"}
    BY DEF Ack, AgentClose, WsInv, WsTypeOK, AgentTask, BroadcastsOwn
  <1>2. /\ owed' = [owed EXCEPT ![a] = {}]
        /\ welcome' = [welcome EXCEPT ![a] = {}]
    BY DEF Ack, AgentClose, CloseAccount
  <1>3. Account(a)
    BY DEF BoardInv, Accounts
  <1>4. CASE agent[a].state = "acking"
    <2>1. agent[a].kind # None /\ \A o \in owed[a] : Reached(a, o)
      BY <1>1, <1>3, <1>4 DEF Account
    <2>2. \A o \in owed[a] : Board!Reached(a, o)
      BY <2>1 DEF Reached, Board!Reached, Board!Message
    <2>3. UNCHANGED Board!observers
      BY <1>1, ObserversSame DEF Board!observers
    <2> QED BY <1>1, <1>2, <2>1, <2>2, <2>3 DEF Board!Done
  <1>5. CASE agent[a].state = "reading"
    <2>1. agent[a].kind = None /\ owed[a] = {} /\ welcome[a] = {}
      BY <1>3, <1>5 DEF Account
    <2>2. UNCHANGED historyVars
      BY <1>2, <2>1 DEF historyVars, WsInv, WsTypeOK
    <2> QED BY <1>1, <2>1, <2>2, ObserversSame DEF BoardSame
  <1> QED BY <1>1, <1>4, <1>5

\* The other steps of an agent are nothing on the board.
LEMMA AgentUnseen ==
    ASSUME WsInv, NEW a \in Agent, AgentConnect(a) \/ TakeSubscriptions(a) \/ TakeSenders(a)
    PROVE  BoardSame
  <1>1. /\ \A b \in Agent : /\ agent'[b].kind = agent[b].kind
                            /\ agent'[b].sent = agent[b].sent
        /\ UNCHANGED observerVars /\ UNCHANGED <<historyVars, inbox>>
    <2>1. CASE AgentConnect(a)
      BY <2>1 DEF AgentConnect, WsInv, WsTypeOK, AgentTask
    <2>2. CASE TakeSubscriptions(a)
      BY <2>2 DEF TakeSubscriptions, WsInv, WsTypeOK, AgentTask
    <2>3. CASE TakeSenders(a)
      BY <2>3 DEF TakeSenders, WsInv, WsTypeOK, AgentTask
    <2> QED BY <2>1, <2>2, <2>3
  <1> QED BY <1>1, ObserversSame DEF BoardSame

\* What an observer does, the board knows as well.
LEMMA ObserverOnBoard ==
    ASSUME WsInv, WsInv', BoardInv, BoardInv', IdsApart, NEW o \in Observer, ObserverStep(o)
    PROVE  Board!Ask(o) \/ Board!Settle(o) \/ Board!Withdraw(o) \/ BoardSame
  <1> DEFINE interest == [p \in Observer |-> Interest(p)]
             wish == [p \in Observer |-> Wish(p)]
             named == [p \in Observer |-> Named(p)]
  <1>1. UNCHANGED <<agent, inbox>>
    BY DEF ObserverStep, ObserverConnect, AddObserver, RegisterSender, SubscribeKinds,
           SubscribeFilter, ForwardingEnds, ObserverClose, agentVars
  <1>2. \A p \in Observer \ {o} :
            Interest(p)' = Interest(p) /\ Wish(p)' = Wish(p) /\ Named(p)' = Named(p)
    BY OthersSeen
  <1>3. EntriesInv /\ EntriesInv'
    BY DEF BoardInv
  <1>4. CASE Unseen(o)
    BY <1>1, <1>2, <1>4 DEF Unseen, BoardSame
  <1>5. CASE Asks(o)
    <2>1. ASSUME NEW p \in Observer
          PROVE  /\ Interest(p)' \subseteq EnvelopeKinds /\ Wish(p)' \subseteq EnvelopeKinds
                 /\ Named(p)' \subseteq EnvelopeKinds
      <3>1. observer'[p].wanted \in Subscription
        BY DEF WsInv, WsTypeOK, ObserverTask
      <3>2. Named(p)' \subseteq EnvelopeKinds
        BY <3>1 DEF Named, Subscription, EnvelopeKinds
      <3> QED BY <3>2 DEF Interest, Wish, KindsOf
    <2>2. /\ interest' \in [Observer -> SUBSET EnvelopeKinds]
          /\ wish' \in [Observer -> SUBSET EnvelopeKinds]
          /\ named' \in [Observer -> SUBSET EnvelopeKinds]
      BY <2>1
    <2>3. \A p \in Observer \ {o} :
              wish'[p] = wish[p] /\ named'[p] = named[p] /\ interest'[p] = interest[p]
      BY <1>2
    <2>4. interest'[o] \subseteq interest[o] \cup wish'[o] \cup named[o]
      BY <1>5 DEF Asks
    <2>5. Settled' = Settled \ {o} /\ Board!Release(o)
      BY <1>5 DEF Asks, Board!Release
    <2>6. welcome' = [a \in Agent |->
                         IF [b \in Agent |-> agent[b].kind][a] \in interest'[o] \cup wish'[o]
                         THEN welcome[a] \cup {o} ELSE welcome[a]]
      BY <1>5 DEF Asks
    <2> QED BY <1>1, <2>2, <2>3, <2>4, <2>5, <2>6 DEF Board!Ask
  <1>6. CASE Settles(o)
    <2>1. /\ wish' = wish /\ named' = named
          /\ interest' = [interest EXCEPT ![o] = wish[o]]
      BY <1>2, <1>6 DEF Settles
    <2> QED BY <1>1, <1>6, <2>1 DEF Settles, historyVars, Board!Settle, Board!agents
  <1>7. CASE Withdraws(o)
    <2>1. \/ interest' = interest /\ wish' = wish /\ named' = named
          \/ /\ interest' = [interest EXCEPT ![o] = {}]
             /\ wish' = [wish EXCEPT ![o] = {}] /\ named' = [named EXCEPT ![o] = {}]
      BY <1>2, <1>7 DEF Withdraws
    <2> QED BY <1>1, <1>7, <2>1
        DEF Withdraws, ReleaseObserver, Board!Withdraw, Board!Release
  <1> QED BY <1>3, <1>4, <1>5, <1>6, <1>7, ObserverSeen

\* As long as ids are apart, every behaviour of the server is one of the board.
LEMMA BoardWhileIdsApart == WsSpec /\ []IdsApart => ImplementsBulletin
  <1>1. WsInit => Board!Init
    BY InitOnBoard
  <1>2. ASSUME WsInv, WsInv', OrderInv, BoardInv, BoardInv', IdsApart, [WsNext]_wsVars
        PROVE  [Board!Next]_(Board!vars)
    <2>1. ASSUME NEW a \in Agent, AgentStep(a)
          PROVE  Board!Next \/ BoardSame
      <3>1. ASSUME NEW kind \in Kind \cup {RegisterAgent}, NEW id \in AgentId \cup {None},
                   Receive(a, kind, id)
            PROVE  Board!Next
        <4>1. kind \in EnvelopeKinds /\ Board!Announce(a, kind)
          BY <1>2, <3>1, ReceiveOnBoard DEF EnvelopeKinds
        <4> QED BY <4>1 DEF Board!Next
      <3>2. ASSUME NEW o \in Observer, SendTo(a, o)
            PROVE  Board!Next \/ BoardSame
        BY <1>2, <3>2, SendOnBoard DEF Board!Next
      <3>3. CASE Ack(a) \/ AgentClose(a)
        BY <1>2, <3>3, CloseOnBoard DEF Board!Next
      <3>4. CASE AgentConnect(a) \/ TakeSubscriptions(a) \/ TakeSenders(a)
        BY <1>2, <3>4, AgentUnseen
      <3> QED BY <2>1, <3>1, <3>2, <3>3, <3>4 DEF AgentStep
    <2>2. ASSUME NEW o \in Observer, ObserverStep(o)
          PROVE  Board!Next \/ BoardSame
      BY <1>2, <2>2, ObserverOnBoard DEF Board!Next
    <2>3. CASE UNCHANGED wsVars
      <3>1. BoardSame
        BY <2>3, ObserversSame DEF wsVars, observerVars, BoardSame, historyVars
      <3> QED BY <3>1, SameOnBoard
    <2> QED BY <1>2, <2>1, <2>2, <2>3, SameOnBoard DEF WsNext
  <1> QED BY <1>1, <1>2, WsInvariant, OrderInvariant, BoardInvariant, PTL
      DEF WsSpec, ImplementsBulletin, Board!BulletinSpec

-----------------------------------------------------------------------------
(* A single observer.                                                      *)

\* Before an observer has an entry there is none, in the map or in a snapshot.
NothingBefore ==
    \A o \in Observer : observer[o].state \in {"new", "named"} =>
        \A i \in ObserverId : /\ inner[i] = None
                              /\ \A a \in Agent : agent[a].snapshot[i] = None

\* It meets nobody's id, and no broadcast has seen an id of its.
LEMMA OneObserverApart ==
    ASSUME WsInv, NothingBefore, \A o, p \in Observer : o = p
    PROVE  IdsApart
  BY ObserverTypes DEF NothingBefore, IdsApart

\* Its steps lead away from having no entry, and a broadcast sees no entry
\* while there is none.
LEMMA OneObserverStep ==
    ASSUME WsInv, NothingBefore, [WsNext]_wsVars, \A o, p \in Observer : o = p
    PROVE  NothingBefore'
  <1>1. ASSUME NEW a \in Agent, AgentStep(a)
        PROVE  NothingBefore'
    <2>1. /\ UNCHANGED <<observer, inner>>
          /\ agent \in [Agent -> AgentTask]
      BY <1>1
      DEF AgentStep, AgentConnect, Receive, TakeSubscriptions, TakeSenders, SendTo, Ack,
          AgentClose, observerVars, WsInv, WsTypeOK
    <2>2. \A b \in Agent : agent'[b].snapshot \in {agent[b].snapshot, inner, NoObservers}
      <3>1. CASE TakeSubscriptions(a)
        BY <2>1, <3>1 DEF TakeSubscriptions, AgentTask
      <3>2. CASE TakeSenders(a)
        BY <2>1, <3>2 DEF TakeSenders, AgentTask
      <3>3. CASE AgentConnect(a) \/ Ack(a) \/ AgentClose(a)
        <4>1. \A b \in Agent : agent'[b].snapshot = agent[b].snapshot
          <5>1. CASE AgentConnect(a)
            BY <2>1, <5>1 DEF AgentConnect, AgentTask
          <5>2. CASE Ack(a)
            BY <2>1, <5>2 DEF Ack, AgentTask
          <5>3. CASE AgentClose(a)
            BY <2>1, <5>3 DEF AgentClose, AgentTask
          <5> QED BY <3>3, <5>1, <5>2, <5>3
        <4> QED BY <4>1
      <3>4. CASE \E kind \in Kind \cup {RegisterAgent}, id \in AgentId \cup {None} :
                     Receive(a, kind, id)
        BY <2>1, <3>4 DEF Receive, AgentTask
      <3>5. CASE \E o \in Observer : SendTo(a, o)
        BY <2>1, <3>5 DEF SendTo, AgentTask
      <3> QED BY <1>1, <3>1, <3>2, <3>3, <3>4, <3>5 DEF AgentStep
    <2> QED BY <2>1, <2>2 DEF NothingBefore, NoObservers
  <1>2. ASSUME NEW o \in Observer, ObserverStep(o)
        PROVE  NothingBefore'
    <2>1. observer \in [Observer -> ObserverTask] /\ agent' = agent
      BY <1>2
      DEF WsInv, WsTypeOK, ObserverStep, ObserverConnect, AddObserver, RegisterSender,
          SubscribeKinds, SubscribeFilter, ForwardingEnds, ObserverClose, agentVars
    <2>2. CASE ObserverConnect(o)
      <3>1. inner' = inner /\ observer[o].state = "new"
        BY <2>2 DEF ObserverConnect
      <3> QED BY <2>1, <3>1 DEF NothingBefore
    <2>3. CASE ForwardingEnds(o)
      <3>1. inner' = inner /\ observer'[o].state = observer[o].state
        BY <2>1, <2>3 DEF ForwardingEnds, ObserverTask
      <3> QED BY <2>1, <3>1 DEF NothingBefore
    <2>4. CASE \/ AddObserver(o) \/ RegisterSender(o) \/ SubscribeFilter(o)
               \/ ObserverClose(o) \/ \E command \in Command : SubscribeKinds(o, command)
      <3>1. observer'[o].state \notin {"new", "named"}
        <4>1. CASE AddObserver(o)
          BY <2>1, <4>1 DEF AddObserver, ObserverTask
        <4>2. CASE RegisterSender(o)
          BY <2>1, <4>2 DEF RegisterSender, ObserverTask
        <4>3. CASE SubscribeFilter(o)
          BY <2>1, <4>3 DEF SubscribeFilter, ObserverTask
        <4>4. CASE ObserverClose(o)
          BY <2>1, <4>4 DEF ObserverClose, ObserverTask
        <4>5. CASE \E command \in Command : SubscribeKinds(o, command)
          BY <2>1, <4>5 DEF SubscribeKinds, ObserverTask
        <4> QED BY <2>4, <4>1, <4>2, <4>3, <4>4, <4>5
      <3> QED BY <3>1 DEF NothingBefore
    <2> QED BY <1>2, <2>2, <2>3, <2>4 DEF ObserverStep
  <1>3. CASE UNCHANGED wsVars
    BY <1>3 DEF wsVars, NothingBefore
  <1> QED BY <1>1, <1>2, <1>3 DEF WsNext

\* A server with one observer implements the bulletin board, however many
\* agents send to it and whatever it subscribes to.
THEOREM BoardForOneObserver ==
    ASSUME \A o, p \in Observer : o = p
    PROVE  WsSpec => ImplementsBulletin
  <1>1. WsInit => NothingBefore
    BY DEF WsInit, NothingBefore, NoObservers
  <1>2. WsInv /\ NothingBefore /\ [WsNext]_wsVars => NothingBefore'
    BY OneObserverStep
  <1>3. WsInv /\ NothingBefore => IdsApart
    BY OneObserverApart
  <1>4. WsSpec => []IdsApart
    BY <1>1, <1>2, <1>3, WsInvariant, PTL DEF WsSpec
  <1> QED BY <1>4, BoardWhileIdsApart, PTL
=============================================================================
