------------------------------ MODULE MCCheckSingle -----------------------------
(* The histories that checkSingle is run on. *)
EXTENDS CheckSingle

CONSTANTS
    nOps,           \* operations of a history of operations
    Times           \* their times of calls and returns

\* The ids of the operations in a history of events, in the order of the calls.
EventIds == <<7, 4, 9, 5>>

\* A put, an append, and gets of some values, on one key.
Kinds(outputs) ==
    {[op |-> "put", key |-> 1, value |-> <<"a">>, output |-> <<>>],
     [op |-> "append", key |-> 1, value |-> <<"b">>, output |-> <<>>]} \cup
    {[op |-> "get", key |-> 1, value |-> <<>>, output |-> v] : v \in outputs}

Intervals == {[call |-> t[1], return |-> t[2]] : t \in {t \in Times \X Times : t[1] <= t[2]}}

\* When operations are called and return, with ids in the order of the calls,
\* and their entries.
Shapes ==
    UNION {{<<t, h>> : h \in makeEntries(t)} :
            t \in {t \in [0..(nOps - 1) -> Intervals] : \A i \in 0..(nOps - 2) : t[i].call <= t[i + 1].call}}

\* Histories of operations.
OperationHistories ==
    {<<[i \in DOMAIN v |-> v[i] @@ s[1][i]], s[2]>> :
        s \in Shapes, v \in [0..(nOps - 1) -> Kinds({<<>>, <<"a", "b">>})]}

\* Histories of events, with the operations called in the order of EventIds:
\* the orders in which the rest of the calls, and of the returns, may come.
RECURSIVE EventOrders(_, _)
EventOrders(k, open) ==
    UNION ({{<<<<"return", i>>>> \o s : s \in EventOrders(k, open \ {i})} : i \in open} \cup
           {{<<<<"call", EventIds[k]>>>> \o s : s \in EventOrders(k + 1, open \cup {EventIds[k]})} : j \in {k} \cap DOMAIN EventIds})
    \cup {s \in {<<>>} : open = {} /\ k > Len(EventIds)}

EventHistories ==
    LET event(e, x, v) == Append(e, [kind |-> x[1], id |-> x[2], value |-> v[x[2]]])
    IN  {convertEntries(renumber(FoldLeft(LAMBDA e, x : event(e, x, v), <<>>, s))) :
            s \in EventOrders(1, {}), v \in [ToSet(EventIds) -> Kinds({<<"a", "b">>})]}

AllHistories == OperationHistories \cup EventHistories
=================================================================================
