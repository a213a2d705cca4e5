------------------------------- MODULE CheckSingle ------------------------------
(***************************************************************************)
(* checkSingle (porcupine/checker.go), the depth-first search for a        *)
(* linearization of the operations on one key: a doubly linked list of     *)
(* calls and returns from which an operation is lifted when it is put next *)
(* and to which it is given back when the search backs up, and a cache of  *)
(* the configurations that were visited.  One step is one turn of the      *)
(* loop; another goroutine may set kill at any time.                       *)
(***************************************************************************)
EXTENDS KvModel, Bitset, TLC

CONSTANTS
    computePartial, \* BOOLEAN: longest prefixes are wanted
    Histories       \* the histories to check: pairs <<operations, their sorted entries>>

VARIABLES
    ops,            \* the operations, by id
    history,        \* their entries <<"call", id>> and <<"return", id>>
    next, prev,     \* the linked list
    entry,          \* the node the search is at
    state,
    linearized,     \* bitset of the operations that are placed
    cache,          \* by hash: the pairs <<linearized, state>> visited
    calls,          \* the stack: records [entry, state]
    longest,        \* longest[i]: the longest prefix with operation i, <<>> for nil
    kill,
    pc              \* "run", and what was returned: "true" or "false"

listVars == <<next, prev>>
searchVars == <<entry, state, linearized, cache, calls>>
vars == <<ops, history, listVars, searchVars, longest, kill, pc>>

nil == <<"nil", -1>>
headEntry == <<"head", -1>>
---------------------------------------------------------------------------
(* The histories *)

\* Slip: returns first.
LessReturn(a, b) == a.time < b.time \/ (a.time = b.time /\ a.kind = "return" /\ b.kind = "call")

\* The order of entries, with calls first at the same time.
Less(a, b) == a.time < b.time \/ (a.time = b.time /\ a.kind = "call" /\ b.kind = "return")

\* What sorting may give: entries that are equal are in any order.
RECURSIVE Sorted(_)
Sorted(E) ==
    IF E = {} THEN {<<>>}
    ELSE UNION {{<<<<e.kind, e.id>>>> \o s : s \in Sorted(E \ {e})} : e \in {e \in E : \A f \in E : ~Less(f, e)}}

makeEntries(o) ==
    Sorted({[kind |-> "call", id |-> i, time |-> o[i].call] : i \in DOMAIN o} \cup
           {[kind |-> "return", id |-> i, time |-> o[i].return] : i \in DOMAIN o})

\* The ids of events are replaced by 0, 1, ... as they come.
renumber(events) ==
    LET add(r, v) ==
            LET m == IF v.id \in DOMAIN r.m THEN r.m ELSE (v.id :> Cardinality(DOMAIN r.m)) @@ r.m
            IN  [e |-> Append(r.e, [v EXCEPT !.id = m[v.id]]), m |-> m]
    IN  FoldLeft(add, [e |-> <<>>, m |-> <<>>], events).e

\* The index of an event is its time: the operations, and their entries.
convertEntries(events) ==
    LET add(r, e) ==
            LET time == Len(r[2])
                o == IF e.kind = "call" THEN e.value @@ [call |-> time, return |-> time]
                     ELSE [r[1][e.id] EXCEPT !.return = time]
            IN  <<(e.id :> o) @@ r[1], Append(r[2], <<e.kind, e.id>>)>>
    IN  FoldLeft(add, <<<<>>, <<>>>>, events)
---------------------------------------------------------------------------
(* The list *)

\* The return of a call that comes after it; nil for returns.
match(x) ==
    LET at(y) == CHOOSE k \in DOMAIN history : history[k] = y
    IN  IF x[1] = "call" /\ at(x) < at(<<"return", x[2]>>) THEN <<"return", x[2]>> ELSE nil

\* The entries in a list behind headEntry.
makeLinkedEntries(h) ==
    LET nodes == <<headEntry>> \o h
        after(k) == IF k = Len(nodes) THEN nil ELSE nodes[k + 1]
        at(x) == CHOOSE k \in DOMAIN nodes : nodes[k] = x
    IN  /\ next = [x \in ToSet(nodes) |-> after(at(x))]
        /\ prev = [x \in ToSet(nodes) |-> IF x = headEntry THEN nil ELSE nodes[at(x) - 1]]

\* The four assignments of lift and of unlift, in their order.
unlink(n, p, x) == <<[n EXCEPT ![p[x]] = n[x]], IF n[x] = nil THEN p ELSE [p EXCEPT ![n[x]] = p[x]]>>

relink(n, p, x) == <<[n EXCEPT ![p[x]] = x], IF n[x] = nil THEN p ELSE [p EXCEPT ![n[x]] = x]>>

lift(x) ==
    LET l == unlink(next, prev, x)
        m == unlink(l[1], l[2], match(x))
    IN  next' = m[1] /\ prev' = m[2]

\* Slip: the way back to the call is not restored.
unliftForward(x) ==
    LET m == relink(next, prev, match(x))
    IN  next' = [m[1] EXCEPT ![prev[x]] = x] /\ prev' = m[2]

unlift(x) ==
    LET m == relink(next, prev, match(x))
        l == relink(m[1], m[2], x)
    IN  next' = l[1] /\ prev' = l[2]
---------------------------------------------------------------------------
(* The search *)

Init ==
    /\ \E h \in Histories : ops = h[1] /\ history = h[2]
    /\ makeLinkedEntries(history)
    /\ entry = next[headEntry]
    /\ state = InitValue /\ linearized = newBitset(Cardinality(DOMAIN ops))
    /\ cache = <<>> /\ calls = <<>>
    /\ longest = [i \in DOMAIN ops |-> <<>>]
    /\ kill = FALSE /\ pc = "run"

bucket(h) == IF h \in DOMAIN cache THEN cache[h] ELSE {}

cacheContains(l, s) == <<l, s>> \in bucket(hash(l))

running == pc = "run" /\ ~kill /\ next[headEntry] # nil

\* The bucket that a new configuration is put into.
newBucket(l, i) == hash(l)

\* An operation that can be next, in a configuration not visited yet.
place ==
    LET i == entry[2]
        r == Step(state, ops[i])
        newLinearized == setBit(linearized, i)
        b == newBucket(newLinearized, i)
    IN  /\ running /\ match(entry) # nil
        /\ r.ok /\ ~cacheContains(newLinearized, r.state)
        /\ cache' = (b :> (bucket(b) \cup {<<newLinearized, r.state>>})) @@ cache
        /\ calls' = Append(calls, [entry |-> entry, state |-> state])
        /\ state' = r.state /\ linearized' = newLinearized
        /\ lift(entry)
        /\ entry' = next'[headEntry]
        /\ UNCHANGED <<ops, history, longest, kill, pc>>

\* The node that is tried after x.
following(x) == next[x]

\* An operation that cannot be next.
skip ==
    LET r == Step(state, ops[entry[2]])
    IN  /\ running /\ match(entry) # nil
        /\ ~r.ok \/ cacheContains(setBit(linearized, entry[2]), r.state)
        /\ entry' = following(entry)
        /\ UNCHANGED <<ops, history, listVars, state, linearized, cache, calls, longest, kill, pc>>

ids == [k \in DOMAIN calls |-> calls[k].entry[2]]

\* Slip: only the operation placed last gets the prefix.
updateLast == [i \in DOMAIN ops |-> IF calls[Len(calls)].entry[2] = i /\ Len(calls) > Len(longest[i]) THEN ids ELSE longest[i]]

\* The stack is the longest prefix so far for the operations in it.
updateLongest ==
    [i \in DOMAIN ops |-> IF Contains(ids, i) /\ Len(calls) > Len(longest[i]) THEN ids ELSE longest[i]]

\* A return comes before any call that could be next: the last operation placed
\* is taken back.
backtrack ==
    LET top == calls[Len(calls)]
    IN  /\ running /\ match(entry) = nil /\ calls # <<>>
        /\ longest' = IF computePartial THEN updateLongest ELSE longest
        /\ state' = top.state /\ linearized' = clearBit(linearized, top.entry[2])
        /\ calls' = Front(calls)
        /\ unlift(top.entry)
        /\ entry' = next'[top.entry]
        /\ UNCHANGED <<ops, history, cache, kill, pc>>

\* There is nothing to take back, or the search is not wanted any more.
returnFalse ==
    /\ pc = "run" /\ next[headEntry] # nil
    /\ kill \/ (match(entry) = nil /\ calls = <<>>)
    /\ pc' = "false"
    /\ UNCHANGED <<ops, history, listVars, searchVars, longest, kill>>

\* Every operation is placed.
returnTrue ==
    /\ pc = "run" /\ next[headEntry] = nil
    /\ pc' = "true" /\ longest' = [i \in DOMAIN ops |-> ids]
    /\ UNCHANGED <<ops, history, listVars, searchVars, kill>>

checkSingle == place \/ skip \/ backtrack \/ returnFalse \/ returnTrue

\* checkParallel has its answer, or no time.
Kill ==
    /\ pc = "run" /\ ~kill /\ kill' = TRUE
    /\ UNCHANGED <<ops, history, listVars, searchVars, longest, pc>>

Next == checkSingle \/ Kill

Spec == Init /\ [][Next]_vars
---------------------------------------------------------------------------
TypeOK ==
    /\ pc \in {"run", "true", "false"} /\ kill \in BOOLEAN
    /\ linearized \in [DOMAIN newBitset(Cardinality(DOMAIN ops)) -> 0..(2 ^ WordBits - 1)]
    /\ Len(calls) <= Cardinality(DOMAIN ops)
    /\ \A i \in DOMAIN ops : Len(longest[i]) <= Cardinality(DOMAIN ops)

\* What the search answers is what linearizability means: true only for a
\* linearizable history, false, unless it was killed, only for another one.
Verdict ==
    /\ pc = "true" => Linearizable(ops, DOMAIN ops)
    /\ pc = "false" /\ ~kill => ~Linearizable(ops, DOMAIN ops)

\* However the search goes back and forth, the list is the history without the
\* operations on the stack, in the same order, linked both ways, the bits set
\* are those of these operations, and the search is at a node of the list.
ListIntact ==
    LET left == SelectSeq(history, LAMBDA x : ~Contains(ids, x[2]))
        nodes == <<headEntry>> \o left
    IN  /\ \A k \in DOMAIN nodes :
            /\ next[nodes[k]] = (IF k = Len(nodes) THEN nil ELSE nodes[k + 1])
            /\ k > 1 => prev[nodes[k]] = nodes[k - 1]
        /\ linearized = FoldLeft(setBit, newBitset(Cardinality(DOMAIN ops)), ids)
        /\ entry \in ToSet(left) \cup {n \in {nil} : left = <<>>}

Prefix(s) == IsInjective(s) /\ RealTime(ops, DOMAIN ops, s) /\ Possible(ops, s)

\* "longest linearizable prefix that includes the given entry" (checker.go:185):
\* every prefix recorded is one, and none is longer, or there is none, when the
\* search has come to its end.
PartialsAreLongest ==
    /\ \A i \in DOMAIN ops : longest[i] # <<>> => Contains(longest[i], i) /\ Prefix(longest[i])
    /\ computePartial /\ pc # "run" /\ ~kill =>
        \A s \in SetToAllKPermutations(DOMAIN ops) :
            Prefix(s) => \A i \in ToSet(s) : Len(s) <= Len(longest[i])

\* No configuration is searched from twice: a step that places an operation
\* gets to one that is in no bucket of the cache.
VisitedOnce ==
    [][Len(calls') > Len(calls) => \A h \in DOMAIN cache : <<linearized', state'>> \notin cache[h]]_vars
=================================================================================
