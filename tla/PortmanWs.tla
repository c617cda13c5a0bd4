----------------------------- MODULE PortmanWs -----------------------------
(***************************************************************************)
(* Crate labman-ws-portman: agents connect on /agent and send protocol     *)
(* envelopes, observers connect on /observe and subscribe to them.         *)
(*                                                                         *)
(* Every connection is a task of its own.  The registries are behind       *)
(* synchronous RwLocks that are taken for one operation at a time, so the  *)
(* tasks interleave between any two operations on them: a broadcast reads  *)
(* the subscriptions and then the senders, a subscription writes the       *)
(* stream kinds and then the filter.  Frames that change no state (binary, *)
(* ping, invalid JSON, discover) are left out, and so are the answers to an *)
(* observer's own commands.                                                *)
(***************************************************************************)
EXTENDS Naturals, Sequences, FiniteSets

CONSTANTS
    Agent,          \* connections on /agent, each made once
    Observer,       \* connections on /observe, each made once
    AgentId,        \* protocol identities an agent may register
    Kind,           \* MessageKinds other than RegisterAgent
    Command,        \* the subscribe commands observers send
    MaxEnvelopes,   \* bound: envelopes an agent sends
    None            \* no entry, no filter, no identity

ASSUME BoundAssumption == IsFiniteSet(Agent) /\ MaxEnvelopes \in Nat

RegisterAgent == "register_agent"

\* ObserverState: the stream kinds, and the filter used with by_kind.
Subscription == [kinds : SUBSET {"all", "by_kind"},
                 filter : {None} \cup SUBSET (Kind \cup {RegisterAgent})]
DefaultSubscription == [kinds |-> {}, filter |-> None]
ASSUME CommandAssumption == Command \subseteq Subscription

ASSUME NoneAssumption ==
    None \notin Kind \cup {RegisterAgent} \cup AgentId \cup Observer \cup Subscription

\* connection_id of an agent: next_id, from 0.  With one connection per agent
\* the u64 does not wrap.
ConnId == 0 .. Cardinality(Agent)

\* connection_id of an observer, less the offset of 1_000_000.
ObserverId == 0 .. Cardinality(Agent)

VARIABLES
    nextId,         \* InnerSubscribers.next_id
    connections,    \* InnerSubscribers.connections: the agent_id, by id
    agent,          \* per agent: state, id, the envelope, the snapshot, todo
    inner,          \* Observers.inner: subscription by observer id
    senders,        \* Observers.senders: channel (its observer) by id
    observer,       \* per observer: state, id, whether the task forwards that
                    \* empties its channel, the command it is applying
    inbox,          \* what was put into the channel of each observer
    owed,           \* history: observers each agent's envelope is due to
    welcome         \* history: observers that each agent's envelope was of
                    \* interest to, or asked for, at some time since it arrived

wsVars == <<nextId, connections, agent, inner, senders, observer, inbox, owed, welcome>>
agentVars == <<nextId, connections, agent>>
observerVars == <<inner, senders, observer>>
historyVars == <<owed, welcome>>

\* Where the task of an agent's connection is, and that of an observer's.
AgentTask == [state : {"new", "reading", "listing", "listed", "acking", "gone"},
              id : ConnId, sent : 0 .. MaxEnvelopes,
              kind : Kind \cup {RegisterAgent, None},
              agentId : AgentId \cup {None},
              snapshot : [ObserverId -> Subscription \cup {None}],
              todo : SUBSET Observer]
ObserverTask == [state : {"new", "named", "added", "open", "subscribing", "leaving", "gone"},
                 id : ObserverId, forwards : BOOLEAN, wanted : Subscription]

\* An envelope in an observer's channel.
Message == [from : Agent, seq : 1 .. MaxEnvelopes]

\* The entry of a connection in the subscriber registry.
Registered == [open : BOOLEAN, agentId : AgentId \cup {None}]
NotConnected == [open |-> FALSE, agentId |-> None]
NoObservers == [i \in ObserverId |-> None]

WsInit ==
    /\ nextId = 0
    /\ connections = [i \in ConnId |-> NotConnected]
    /\ agent = [a \in Agent |-> [state |-> "new", id |-> 0, sent |-> 0, kind |-> None,
                                 agentId |-> None, snapshot |-> NoObservers, todo |-> {}]]
    /\ inner = NoObservers
    /\ senders = NoObservers
    /\ observer = [o \in Observer |-> [state |-> "new", id |-> 0, forwards |-> FALSE,
                                       wanted |-> DefaultSubscription]]
    /\ inbox = [o \in Observer |-> <<>>]
    /\ owed = [a \in Agent |-> {}]
    /\ welcome = [a \in Agent |-> {}]

-----------------------------------------------------------------------------
(* Agents.                                                                 *)

\* PortmanSubscribers::len.
Connected == Cardinality({i \in ConnId : connections[i].open})

\* The connection is accepted and added under a fresh id.
AgentConnect(a) ==
    /\ agent[a].state = "new"
    /\ connections' = [connections EXCEPT ![nextId] = [open |-> TRUE, agentId |-> None]]
    /\ agent' = [agent EXCEPT ![a].state = "reading", ![a].id = nextId]
    /\ nextId' = nextId + 1
    /\ UNCHANGED <<observerVars, inbox, historyVars>>

\* Whether an observer with this subscription gets an envelope of this kind:
\* with by_kind the filter decides, also for an observer that wants all.
Wants(sub, kind) ==
    IF "by_kind" \in sub.kinds
    THEN sub.filter # None /\ kind \in sub.filter
    ELSE "all" \in sub.kinds

\* The kinds an observer is sent, those it asked for last, and those it named
\* in the filter of that command, which need not name by_kind as well.
EnvelopeKinds == Kind \cup {RegisterAgent}
KindsOf(sub) == {kind \in EnvelopeKinds : Wants(sub, kind)}
Subscribed(o) == observer[o].state \in {"open", "subscribing", "leaving"}
Interest(o) == IF Subscribed(o) /\ inner[observer[o].id] # None
               THEN KindsOf(inner[observer[o].id]) ELSE {}
Wish(o) == IF Subscribed(o) THEN KindsOf(observer[o].wanted) ELSE {}
Named(o) == IF Subscribed(o) /\ observer[o].wanted.filter # None
            THEN observer[o].wanted.filter ELSE {}

\* Observers whose last command was acknowledged and that still listen.
Settled == {o \in Observer : observer[o].state = "open" /\ observer[o].forwards}

\* The history of an agent's envelope ends; nothing more is owed to o.
CloseAccount(a) ==
    /\ owed' = [owed EXCEPT ![a] = {}]
    /\ welcome' = [welcome EXCEPT ![a] = {}]
ReleaseObserver(o) ==
    /\ owed' = [a \in Agent |-> owed[a] \ {o}]
    /\ UNCHANGED welcome

\* An envelope arrives; RegisterAgent with an identity updates the record.
\* agentId is None as well for an envelope whose direction is not up.
Receive(a, kind, agentId) ==
    /\ agent[a].state = "reading"
    /\ agent[a].sent < MaxEnvelopes
    /\ LET registers == kind = RegisterAgent /\ agentId # None
       IN  /\ agent' = [agent EXCEPT ![a].state = "listing", ![a].kind = kind,
                                     ![a].sent = @ + 1,
                                     ![a].agentId = IF registers THEN agentId ELSE @]
           /\ connections' = IF registers
                             THEN [connections EXCEPT ![agent[a].id].agentId = agentId]
                             ELSE connections
    /\ owed' = [owed EXCEPT ![a] = {o \in Settled : Wants(observer[o].wanted, kind)}]
    /\ welcome' = [welcome EXCEPT ![a] = {o \in Observer : kind \in Interest(o) \cup Wish(o)}]
    /\ UNCHANGED <<nextId, observerVars, inbox>>

\* broadcast_to_observers, first lock: the subscriptions.
TakeSubscriptions(a) ==
    /\ agent[a].state = "listing"
    /\ agent' = [agent EXCEPT ![a].snapshot = inner,
                              ![a].state = IF inner = NoObservers THEN "acking" ELSE "listed"]
    /\ UNCHANGED <<nextId, connections, observerVars, inbox, historyVars>>

\* Mutant of Recipients: the filter is not consulted.
RecipientsUnfiltered(snapshot, kind) ==
    {senders[i] : i \in {j \in ObserverId : /\ snapshot[j] # None
                                            /\ snapshot[j].kinds # {}
                                            /\ senders[j] # None}}

\* Second lock: the senders.  The recipients are fixed from here on.
Recipients(snapshot, kind) ==
    {senders[i] : i \in {j \in ObserverId : /\ snapshot[j] # None
                                            /\ Wants(snapshot[j], kind)
                                            /\ senders[j] # None}}

TakeSenders(a) ==
    /\ agent[a].state = "listed"
    /\ agent' = [agent EXCEPT ![a].todo = Recipients(agent[a].snapshot, agent[a].kind),
                              ![a].snapshot = NoObservers,
                              ![a].state = "acking"]
    /\ UNCHANGED <<nextId, connections, observerVars, inbox, historyVars>>

\* Mutant of SendTo: once for `all` and once for `by_kind`.
SendToPerStream(a, o) ==
    /\ o \in agent[a].todo
    /\ agent' = [agent EXCEPT ![a].todo = @ \ {o}]
    /\ LET message == [from |-> a, seq |-> agent[a].sent]
       IN  inbox' = [inbox EXCEPT ![o] = @ \o <<message, message>>]
    /\ UNCHANGED <<nextId, connections, observerVars, historyVars>>

\* One send on an unbounded channel; the snapshot's order is arbitrary.
\* Nothing is sent on a channel without a reader, and the error is ignored.
SendTo(a, o) ==
    /\ o \in agent[a].todo
    /\ agent' = [agent EXCEPT ![a].todo = @ \ {o}]
    /\ inbox' = IF observer[o].forwards
                THEN [inbox EXCEPT ![o] = Append(@, [from |-> a, seq |-> agent[a].sent])]
                ELSE inbox
    /\ UNCHANGED <<nextId, connections, observerVars, historyVars>>

\* "ok" is sent back and the next frame is read.
Ack(a) ==
    /\ agent[a].state = "acking"
    /\ agent[a].todo = {}
    /\ agent' = [agent EXCEPT ![a].state = "reading", ![a].kind = None]
    /\ CloseAccount(a)
    /\ UNCHANGED <<nextId, connections, observerVars, inbox>>

\* Mutant of AgentClose: the error path of the ack skips the removal.
AgentCloseLeaksOnError(a) ==
    /\ \/ agent[a].state = "reading"
       \/ agent[a].state = "acking" /\ agent[a].todo = {}
    /\ connections' = IF agent[a].state = "acking" THEN connections
                      ELSE [connections EXCEPT ![agent[a].id] = NotConnected]
    /\ agent' = [agent EXCEPT ![a].state = "gone", ![a].kind = None,
                              ![a].id = 0, ![a].agentId = None]
    /\ CloseAccount(a)
    /\ UNCHANGED <<nextId, observerVars, inbox>>

\* A close frame, a read error, or an ack that cannot be sent.
AgentClose(a) ==
    /\ \/ agent[a].state = "reading"
       \/ agent[a].state = "acking" /\ agent[a].todo = {}
    /\ connections' = [connections EXCEPT ![agent[a].id] = NotConnected]
    /\ agent' = [agent EXCEPT ![a].state = "gone", ![a].kind = None,
                              ![a].id = 0, ![a].agentId = None]
    /\ CloseAccount(a)
    /\ UNCHANGED <<nextId, observerVars, inbox>>

-----------------------------------------------------------------------------
(* Observers.                                                              *)

\* Mutant of ObserverConnect: the observer counts itself.
ObserverConnectCountsItself(o) ==
    /\ observer[o].state = "new"
    /\ observer' = [observer EXCEPT ![o].state = "named", ![o].id = Connected + 1]
    /\ UNCHANGED <<agentVars, inner, senders, inbox, historyVars>>

\* The id is derived from the number of connected agents.
ObserverConnect(o) ==
    /\ observer[o].state = "new"
    /\ observer' = [observer EXCEPT ![o].state = "named", ![o].id = Connected]
    /\ UNCHANGED <<agentVars, inner, senders, inbox, historyVars>>

\* Observers::add.
AddObserver(o) ==
    /\ observer[o].state = "named"
    /\ observer' = [observer EXCEPT ![o].state = "added"]
    /\ inner' = [inner EXCEPT ![observer[o].id] = DefaultSubscription]
    /\ UNCHANGED <<agentVars, senders, inbox, historyVars>>

\* The sender is registered and the task that forwards is spawned.
RegisterSender(o) ==
    /\ observer[o].state = "added"
    /\ observer' = [observer EXCEPT ![o].state = "open", ![o].forwards = TRUE]
    /\ senders' = [senders EXCEPT ![observer[o].id] = o]
    /\ UNCHANGED <<agentVars, inner, inbox, historyVars>>

\* Subscribe, first lock: set_subscription writes the kinds.  Until the second
\* lock they are in force with the filter of the command before.
SubscribeKinds(o, command) ==
    /\ observer[o].state = "open"
    /\ observer' = [observer EXCEPT ![o].state = "subscribing", ![o].wanted = command]
    /\ inner' = IF inner[observer[o].id] = None THEN inner
                ELSE [inner EXCEPT ![observer[o].id].kinds = command.kinds]
    /\ owed' = [a \in Agent |-> owed[a] \ {o}]
    /\ welcome' = [a \in Agent |-> IF agent[a].kind \in (Interest(o) \cup Wish(o))'
                                     THEN welcome[a] \cup {o} ELSE welcome[a]]
    /\ UNCHANGED <<agentVars, senders, inbox>>

\* Second lock: the filter; then the acknowledgement is queued, which ends
\* the connection when nothing forwards any more.
SubscribeFilter(o) ==
    /\ observer[o].state = "subscribing"
    /\ observer' = [observer EXCEPT ![o].state = IF observer[o].forwards THEN "open"
                                                                        ELSE "leaving"]
    /\ inner' = IF inner[observer[o].id] = None THEN inner
                ELSE [inner EXCEPT ![observer[o].id].filter = observer[o].wanted.filter]
    /\ UNCHANGED <<agentVars, senders, inbox, historyVars>>

\* The forwarding task cannot write to the socket and ends; the connection's
\* own task does not notice.
ForwardingEnds(o) ==
    /\ observer[o].forwards
    /\ observer' = [observer EXCEPT ![o].forwards = FALSE]
    /\ ReleaseObserver(o)
    /\ UNCHANGED <<agentVars, inner, senders, inbox>>

\* Mutant of ObserverClose: only the subscription is removed.
ObserverCloseKeepsSender(o) ==
    /\ observer[o].state \in {"open", "leaving"}
    /\ observer' = [observer EXCEPT ![o].state = "gone", ![o].forwards = FALSE,
                                    ![o].id = 0, ![o].wanted = DefaultSubscription]
    /\ inner' = [inner EXCEPT ![observer[o].id] = None]
    /\ ReleaseObserver(o)
    /\ UNCHANGED <<agentVars, senders, inbox>>

\* A close frame or an error.  Observers::remove drops both entries of the
\* id while it holds the write lock of the first map.  What a broadcast that
\* already has the sender still puts into the channel reaches nobody and is
\* left out.
ObserverClose(o) ==
    /\ observer[o].state \in {"open", "leaving"}
    /\ observer' = [observer EXCEPT ![o].state = "gone", ![o].forwards = FALSE,
                                    ![o].id = 0, ![o].wanted = DefaultSubscription]
    /\ inner' = [inner EXCEPT ![observer[o].id] = None]
    /\ senders' = [senders EXCEPT ![observer[o].id] = None]
    /\ ReleaseObserver(o)
    /\ UNCHANGED <<agentVars, inbox>>

-----------------------------------------------------------------------------

AgentStep(a) ==
    \/ AgentConnect(a)
    \/ \E kind \in Kind \cup {RegisterAgent}, id \in AgentId \cup {None} : Receive(a, kind, id)
    \/ TakeSubscriptions(a)
    \/ TakeSenders(a)
    \/ \E o \in Observer : SendTo(a, o)
    \/ Ack(a)
    \/ AgentClose(a)

ObserverStep(o) ==
    \/ ObserverConnect(o)
    \/ AddObserver(o)
    \/ RegisterSender(o)
    \/ \E command \in Command : SubscribeKinds(o, command)
    \/ SubscribeFilter(o)
    \/ ForwardingEnds(o)
    \/ ObserverClose(o)

WsNext ==
    \/ \E a \in Agent : AgentStep(a)
    \/ \E o \in Observer : ObserverStep(o)

WsSpec == WsInit /\ [][WsNext]_wsVars

-----------------------------------------------------------------------------
(* Properties.                                                             *)

\* Every variable has its type.
WsTypeOK ==
    /\ nextId \in ConnId
    /\ connections \in [ConnId -> Registered]
    /\ agent \in [Agent -> AgentTask]
    /\ inner \in [ObserverId -> Subscription \cup {None}]
    /\ senders \in [ObserverId -> Observer \cup {None}]
    /\ observer \in [Observer -> ObserverTask]
    /\ inbox \in [Observer -> Seq(Message)]
    /\ owed \in [Agent -> SUBSET Observer]
    /\ welcome \in [Agent -> SUBSET Observer]

\* The subscriber registry is exactly the set of live agent connections, each
\* under an id of its own and with the identity it registered last, however
\* connects, registrations and disconnects of the agents interleave.
ConnectionsTracked ==
    LET Live == {a \in Agent : agent[a].state \notin {"new", "gone"}}
    IN  /\ \A a, b \in Live : agent[a].id = agent[b].id => a = b
        /\ \A i \in ConnId : connections[i].open <=> \E a \in Live : agent[a].id = i
        /\ \A a \in Live : connections[agent[a].id].agentId = agent[a].agentId

\* An observer gets the envelopes of one agent in the order they were sent,
\* none of them twice, although broadcasts of several agents interleave with
\* each other and with subscriptions.
AgentOrderKept ==
    \A o \in Observer : \A i, j \in 1 .. Len(inbox[o]) :
        i < j /\ inbox[o][i].from = inbox[o][j].from => inbox[o][i].seq < inbox[o][j].seq

\* No entry of an observer outlives its connection: every subscription and
\* every sender belongs to an id that a live observer has, so that with the
\* last observer gone both maps are empty.  That two observers may have one
\* id, and remove each other's entries, does not break this.
NoOrphanEntries ==
    \A i \in ObserverId :
        LET HasId(states) == \E o \in Observer : observer[o].id = i /\ observer[o].state \in states
        IN  /\ inner[i] # None => HasId({"added", "open", "subscribing", "leaving"})
            /\ senders[i] # None => HasId({"open", "subscribing", "leaving"})

\* The fields of Observers: "Per-observer subscription state" and
\* "Per-observer WebSocket send handles".  Two connected observers would not
\* share an entry.
ObserverIdsDistinct ==
    \A o, p \in Observer :
        observer[o].state = "open" /\ observer[p].state = "open"
            /\ observer[o].id = observer[p].id => o = p

\* The server with its maps, locks and torn subscriptions implements the
\* bulletin board: nobody gets an envelope of a kind that it neither wanted nor
\* asked for at any time since the envelope arrived (nor, while a subscription
\* was being written, had named in the filter of the command before), nobody
\* gets one twice or out of order, and whoever was and stayed subscribed gets
\* it before the agent's "ok".
Board == INSTANCE Bulletin
    WITH Kind <- EnvelopeKinds, NoKind <- None,
         notice <- [a \in Agent |-> agent[a].kind],
         count <- [a \in Agent |-> agent[a].sent],
         must <- owed, may <- welcome,
         interest <- [o \in Observer |-> Interest(o)],
         wish <- [o \in Observer |-> Wish(o)],
         named <- [o \in Observer |-> Named(o)],
         settled <- Settled
ImplementsBulletin == Board!BulletinSpec
=============================================================================
