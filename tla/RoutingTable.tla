---------------------------- MODULE RoutingTable ----------------------------
(***************************************************************************)
(* What the proxy and the health checker promise together: there is a      *)
(* table of routes that is replaced as a whole, every route in it is one   *)
(* the configuration permits, and a question is answered once, from one    *)
(* such table, at a moment between its being asked and its being answered. *)
(* Locks, passes, probes and half-built indices are not part of it.        *)
(***************************************************************************)
CONSTANTS
    Asker, Question, Answer,
    Permitted,      \* [Question -> SUBSET Answer]
    NoAnswer,       \* the table has no route
    NoQuestion,     \* nothing was asked
    Pending         \* asked, not answered

VARIABLES
    table,      \* the routes now in force
    asked,      \* the question of each asker
    answer      \* the answer it was given

tableVars == <<table, asked, answer>>

Tables == {t \in [Question -> Answer \cup {NoAnswer}] :
               \A q \in Question : t[q] # NoAnswer => t[q] \in Permitted[q]}

TableInit ==
    /\ table = [q \in Question |-> NoAnswer]
    /\ asked = [a \in Asker |-> NoQuestion]
    /\ answer = [a \in Asker |-> Pending]

Replace ==
    /\ table' \in Tables
    /\ UNCHANGED <<asked, answer>>

Ask(a, q) ==
    /\ asked[a] = NoQuestion
    /\ asked' = [asked EXCEPT ![a] = q]
    /\ UNCHANGED <<table, answer>>

Give(a) ==
    /\ asked[a] # NoQuestion
    /\ answer[a] = Pending
    /\ answer' = [answer EXCEPT ![a] = table[asked[a]]]
    /\ UNCHANGED <<table, asked>>

\* The asker goes away, answered or not.
Leave(a) ==
    /\ asked[a] # NoQuestion
    /\ asked' = [asked EXCEPT ![a] = NoQuestion]
    /\ answer' = [answer EXCEPT ![a] = Pending]
    /\ UNCHANGED table

TableNext ==
    \/ Replace
    \/ \E a \in Asker : (\E q \in Question : Ask(a, q)) \/ Give(a) \/ Leave(a)

TableSpec == TableInit /\ [][TableNext]_tableVars
=============================================================================
