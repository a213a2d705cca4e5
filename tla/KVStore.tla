-------------------------------- MODULE KVStore ---------------------------------
(***************************************************************************)
(* What the key/value services promise their clerks: one store, on which   *)
(* every Put and Append takes effect once, at a moment between its call    *)
(* and its return, and every Get returns a value that its key had at such  *)
(* a moment.  KVRaft and ShardKV implement this specification.             *)
(*                                                                         *)
(* A value is the sequence of the writes it is made of: a string of the    *)
(* code, in which every write is recognised.                               *)
(***************************************************************************)
EXTENDS Integers, Sequences

CONSTANTS Client, Key

VARIABLES
    store,      \* store[k]: the value of a key, empty when there is none
    seqNum,     \* seqNum[c]: the number of a clerk's next or current operation
    called,     \* called[c]: that operation while it is called, none otherwise
    executed,   \* executed[c]: the Put or Append called has taken effect
    seen,       \* seen[c]: the values that the Get called may return
    got         \* got[c]: what the last operation returned, if it was a Get

vars == <<store, seqNum, called, executed, seen, got>>

Op == [Key : Key, Optype : {"Get", "Put", "Append"}]

\* The write number n of clerk c, as it is found in a value.
Tag(c, n) == <<c, n>>

Written(value, op, tag) ==
    CASE op.Optype = "Put"    -> <<tag>>
      [] op.Optype = "Append" -> Append(value, tag)
      [] op.Optype = "Get"    -> value

Init ==
    /\ store = [k \in Key |-> << >>]
    /\ seqNum = [c \in Client |-> 1]
    /\ called = [c \in Client |-> {}]
    /\ executed = [c \in Client |-> FALSE]
    /\ seen = [c \in Client |-> {}]
    /\ got = [c \in Client |-> {}]

Call(c, op) ==
    /\ called[c] = {}
    /\ called' = [called EXCEPT ![c] = {op}]
    /\ got' = [got EXCEPT ![c] = {}]
    /\ UNCHANGED <<store, seqNum, executed, seen>>

\* A Put or an Append takes effect.
Execute(c) ==
    /\ ~executed[c] /\ executed' = [executed EXCEPT ![c] = TRUE]
    /\ \E op \in called[c] :
        /\ op.Optype # "Get"
        /\ store' = [store EXCEPT ![op.Key] = Written(@, op, Tag(c, seqNum[c]))]
    /\ UNCHANGED <<seqNum, called, seen, got>>

\* A Get reads; the services may carry out several copies of one Get.
Read(c) ==
    /\ \E op \in called[c] :
        op.Optype = "Get" /\ seen' = [seen EXCEPT ![c] = @ \cup {store[op.Key]}]
    /\ UNCHANGED <<seqNum, called, executed, got, store>>

Return(c) ==
    /\ \E op \in called[c] :
        \/ op.Optype # "Get" /\ executed[c] /\ UNCHANGED got
        \/ op.Optype = "Get" /\ \E value \in seen[c] : got' = [got EXCEPT ![c] = {value}]
    /\ seqNum' = [seqNum EXCEPT ![c] = @ + 1]
    /\ called' = [called EXCEPT ![c] = {}]
    /\ executed' = [executed EXCEPT ![c] = FALSE]
    /\ seen' = [seen EXCEPT ![c] = {}]
    /\ UNCHANGED store

Next ==
    \E c \in Client : Execute(c) \/ Read(c) \/ Return(c) \/ \E op \in Op : Call(c, op)

\* Most steps of an implementation change nothing here: TLC tries that first.
Spec == Init /\ [][UNCHANGED vars \/ Next]_vars
=================================================================================
