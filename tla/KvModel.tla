--------------------------------- MODULE KvModel --------------------------------
(***************************************************************************)
(* The sequential specification that the tests hand to the linearizability *)
(* checker (models/kv.go), and what linearizability of a history means.    *)
(* An operation is a record [op, key, value, output, call, return]; a      *)
(* string is a sequence of letters.  A history is a function on the ids    *)
(* 0..n-1 of its operations.                                               *)
(***************************************************************************)
EXTENDS Integers, Sequences, FiniteSets, SequencesExt

\* The initial value of a key.
InitValue == <<>>

\* Whether an operation could have had its output in a state, and what the
\* state is after it.
Step(state, o) ==
    [ok |-> o.op = "get" => o.output = state,
     state |-> CASE o.op = "get" -> state [] o.op = "put" -> o.value [] o.op = "append" -> state \o o.value]
---------------------------------------------------------------------------
(* Linearizability, by definition *)

\* The orders of some of the operations S in which none comes before one that
\* had returned when it was called.
RealTime(ops, S, s) ==
    \A k \in 1..Len(s) : \A i \in S :
        ops[i].return < ops[s[k]].call => \E j \in 1..(k - 1) : s[j] = i

\* The operations of one key, in the order s, can have had their outputs.
Possible(ops, s) ==
    LET after(r, i) == IF r.ok THEN Step(r.state, ops[i]) ELSE r
    IN  FoldLeft(after, [ok |-> TRUE, state |-> InitValue], s).ok

Linearizable(ops, S) == \E s \in SetToSeqs(S) : RealTime(ops, S, s) /\ Possible(ops, s)
=================================================================================
