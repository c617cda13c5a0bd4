---------------------------- MODULE MCPortmanWs ----------------------------
(* Two agents; one observer, or two that may come by the same id.          *)
EXTENDS PortmanWs, TLC

CONSTANTS a1, a2, o1, o2, id1

TwoAgents == {a1, a2}
OneAgent == {a1}
OneObserver == {o1}
TwoObservers == {o1, o2}
MCAgentId == {id1}
MCKind == {"heartbeat"}

\* Everything, one kind, another kind.
MCCommand == {[kinds |-> {"all"}, filter |-> None],
              [kinds |-> {"by_kind"}, filter |-> {"heartbeat"}],
              [kinds |-> {"by_kind"}, filter |-> {RegisterAgent}]}

\* Everything, with a filter that is not used; one kind, which is not in that
\* filter; nothing, with a filter that is left behind.  A by_kind command that
\* has not yet written its own filter so meets one of another kind, and it meets
\* the absent one of an observer's first command.
FilteredCommands == {[kinds |-> {"all"}, filter |-> {"heartbeat"}],
                     [kinds |-> {"by_kind"}, filter |-> {RegisterAgent}],
                     [kinds |-> {}, filter |-> {"heartbeat"}]}

\* Bound: the agents send three envelopes together, and one that sends a second
\* sends a heartbeat.
FewEnvelopes ==
    /\ agent[a1].sent + agent[a2].sent <= 3
    /\ \A a \in Agent : agent[a].sent = 2 => agent[a].kind # RegisterAgent

\* The agents are interchangeable.
AgentSymmetry == Permutations(TwoAgents)
=============================================================================
