------------------------------ MODULE Bulletin ------------------------------
(***************************************************************************)
(* What the Portman WebSocket server promises: a bulletin board.  Agents   *)
(* announce notices of some kind, observers have interests, and each       *)
(* notice reaches, once and in the agent's order,                          *)
(*   - every observer that was settled on an interest in it when it was    *)
(*     announced and stayed so until it was done, and                      *)
(*   - no observer but those that had, or asked for, an interest in it at  *)
(*     some time between.                                                  *)
(* An observer asks for kinds, and may name others that it does not ask    *)
(* for.  While it changes its interest, any mixture of the old, the new    *)
(* and what it named the time before may be in force.  There are no        *)
(* connections, ids, maps or locks.                                        *)
(***************************************************************************)
EXTENDS Naturals, Sequences

CONSTANTS
    Agent,
    Observer,
    Kind,       \* kinds of notices
    NoKind      \* no notice is being announced; not in Kind

VARIABLES
    notice,     \* per agent: the kind of the notice it announces, or NoKind
    count,      \* per agent: how many it has announced
    must,       \* per agent: who is to get its notice
    may,        \* per agent: who can get it
    interest,   \* per observer: the kinds it is sent
    wish,       \* per observer: the kinds it asked for last
    named,      \* per observer: the kinds it named when it did
    settled,    \* observers whose wish was granted and who listen
    inbox       \* per observer: what it was sent

vars == <<notice, count, must, may, interest, wish, named, settled, inbox>>
agents == <<notice, count, must, may>>
observers == <<interest, wish, named, settled>>

Init ==
    /\ notice = [a \in Agent |-> NoKind]
    /\ count = [a \in Agent |-> 0]
    /\ must = [a \in Agent |-> {}]
    /\ may = [a \in Agent |-> {}]
    /\ interest = [o \in Observer |-> {}]
    /\ wish = [o \in Observer |-> {}]
    /\ named = [o \in Observer |-> {}]
    /\ settled = {}
    /\ inbox = [o \in Observer |-> <<>>]

Announce(a, kind) ==
    /\ notice[a] = NoKind
    /\ notice' = [notice EXCEPT ![a] = kind]
    /\ count' = [count EXCEPT ![a] = @ + 1]
    /\ must' = [must EXCEPT ![a] = {o \in settled : kind \in interest[o]}]
    /\ may' = [may EXCEPT ![a] = {o \in Observer : kind \in interest[o] \cup wish[o]}]
    /\ UNCHANGED <<observers, inbox>>

Message(a) == [from |-> a, seq |-> count[a]]
Reached(a, o) == \E i \in 1 .. Len(inbox[o]) : inbox[o][i] = Message(a)

Deliver(a, o) ==
    /\ notice[a] # NoKind
    /\ o \in may[a]
    /\ ~Reached(a, o)
    /\ inbox' = [inbox EXCEPT ![o] = Append(@, Message(a))]
    /\ UNCHANGED <<agents, observers>>

Done(a) ==
    /\ notice[a] # NoKind
    /\ \A o \in must[a] : Reached(a, o)
    /\ notice' = [notice EXCEPT ![a] = NoKind]
    /\ must' = [must EXCEPT ![a] = {}]
    /\ may' = [may EXCEPT ![a] = {}]
    /\ UNCHANGED <<count, observers, inbox>>

\* From here to the next change or departure nothing is owed to o.
Release(o) == must' = [a \in Agent |-> must[a] \ {o}]

\* An observer asks for other kinds; a mixture is in force until Settle.
Ask(o) ==
    /\ wish' \in [Observer -> SUBSET Kind]
    /\ named' \in [Observer -> SUBSET Kind]
    /\ interest' \in [Observer -> SUBSET Kind]
    /\ interest'[o] \subseteq interest[o] \cup wish'[o] \cup named[o]
    /\ \A p \in Observer \ {o} :
        wish'[p] = wish[p] /\ named'[p] = named[p] /\ interest'[p] = interest[p]
    /\ settled' = settled \ {o}
    /\ Release(o)
    /\ may' = [a \in Agent |-> IF notice[a] \in interest'[o] \cup wish'[o]
                                 THEN may[a] \cup {o} ELSE may[a]]
    /\ UNCHANGED <<notice, count, inbox>>

\* The wish is granted; an observer that does not listen is not settled.
Settle(o) ==
    /\ interest' = [interest EXCEPT ![o] = wish[o]]
    /\ settled' \in {settled, settled \cup {o}}
    /\ UNCHANGED <<agents, wish, named, inbox>>

\* An observer stops listening, or leaves altogether.
Withdraw(o) ==
    /\ \/ UNCHANGED <<interest, wish, named>>
       \/ /\ interest' = [interest EXCEPT ![o] = {}]
          /\ wish' = [wish EXCEPT ![o] = {}]
          /\ named' = [named EXCEPT ![o] = {}]
    /\ settled' = settled \ {o}
    /\ Release(o)
    /\ UNCHANGED <<notice, count, may, inbox>>

Next ==
    \/ \E a \in Agent :
        \/ \E kind \in Kind : Announce(a, kind)
        \/ \E o \in Observer : Deliver(a, o)
        \/ Done(a)
    \/ \E o \in Observer :
        \/ Ask(o)
        \/ Settle(o)
        \/ Withdraw(o)

BulletinSpec == Init /\ [][Next]_vars
=============================================================================
