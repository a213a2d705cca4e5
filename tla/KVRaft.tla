--------------------------------- MODULE KVRaft ---------------------------------
(***************************************************************************)
(* The replicated key/value service, src/kvraft/server.go and client.go:   *)
(* clerks that retry an operation until a server answers it, the handlers  *)
(* Get and PutAppend, which start the operation in Raft and wait on a      *)
(* channel for what is applied at its index, and applyHandler, which       *)
(* applies committed operations, takes and installs snapshots and feeds    *)
(* the channels.                                                           *)
(*                                                                         *)
(* Raft is used through what module Raft shows of it: servers are handed   *)
(* the same committed log in order, in batches that a snapshot may         *)
(* overtake, and a server that believes itself leader gets an index at     *)
(* which another server's entry may be committed instead.  A handler waits *)
(* 700 ms; a server that lost an entry of its own log needs an election    *)
(* timeout, at least 1 s, to lead again: Start gives no index that a       *)
(* handler of the same server still holds.                                 *)
(*                                                                         *)
(* A value is the sequence of the writes it is made of, as in KVStore.  An *)
(* operator whose comment starts with "Slip:" is the definition that       *)
(* follows it with a plausible programming error.                          *)
(***************************************************************************)
EXTENDS Integers, Sequences, FiniteSets

CONSTANTS Server, Client, Key

VARIABLES
    log,        \* the committed operations (Raft)
    pending,    \* operations started that may be committed, with their index (Raft)
    rf,         \* rf[s]: what Raft has handed to the server, and its persister
    snapshots,  \* the snapshots that servers have taken: any may be sent (Raft)
    kv,         \* kv[s]: a server's memory
    calls,      \* the calls of Get and PutAppend, from the request to its answer
    clerk       \* clerk[c]: a clerk's memory

vars == <<log, pending, rf, snapshots, kv, calls, clerk>>

Op == [ClientID : Client, SeqNum : Nat, Key : Key, Optype : {"Get", "Put", "Append"}]

State == [currentState : [Key -> Seq(Client \X Nat)], clientSeq : [Client -> Nat]]

noState == [currentState |-> [k \in Key |-> << >>], clientSeq |-> [c \in Client |-> 0]]

\* getServerPersistData encodes, and this decodes, both maps.
readServerPersistData(data) == data

\* lastIncludedIndex starts at 0, whatever snapshot is read.
StartKVServer(snapshot) ==
    [state |-> readServerPersistData(snapshot), waitChan |-> << >>, closing |-> {}, lastIncludedIndex |-> 0]

\* Raft at a start: nothing copied by applyChecker, lastApplied at the snapshot.
startRaft(index, snapshot) ==
    [next |-> index + 1, upto |-> index, lastApplied |-> index,
     saved |-> [index |-> index, data |-> snapshot]]

\* leaderID is {} for -1; wrongLeader is lastReplyErrLeader.
MakeClerk == [seqNum |-> 1, op |-> {}, leaderID |-> {}, wrongLeader |-> FALSE, calling |-> FALSE, got |-> {}]

Init ==
    /\ log = << >> /\ pending = {} /\ snapshots = {} /\ calls = {}
    /\ rf = [s \in Server |-> startRaft(0, noState)]
    /\ kv = [s \in Server |-> StartKVServer(noState)]
    /\ clerk = [c \in Client |-> MakeClerk]
---------------------------------------------------------------------------
(* Clerks *)

\* Get, Put or Append is called.
ClerkCalls(c, op) ==
    /\ clerk[c].op = {} /\ op.ClientID = c /\ op.SeqNum = clerk[c].seqNum
    /\ clerk' = [clerk EXCEPT ![c].op = {op}, ![c].wrongLeader = FALSE, ![c].got = {}]
    /\ UNCHANGED <<log, pending, rf, snapshots, kv, calls>>

\* The server a clerk turns to: the last one that answered, or any.
getRandServer(c) == IF clerk[c].wrongLeader \/ clerk[c].leaderID = {} THEN Server ELSE clerk[c].leaderID

ClerkSends(c, s) ==
    /\ ~clerk[c].calling /\ s \in getRandServer(c)
    /\ \E op \in clerk[c].op :
        calls' = calls \cup {[op |-> op, srv |-> s, live |-> TRUE, stage |-> "sent", index |-> 0,
                              Err |-> "", Value |-> << >>]}
    /\ clerk' = [clerk EXCEPT ![c].calling = TRUE]
    /\ UNCHANGED <<log, pending, rf, snapshots, kv>>

\* The answer arrives.  No handler answers ErrNoKey.
ClerkReceives(call) ==
    LET c == call.op.ClientID
    IN  /\ call.stage = "answered" /\ call.live
        /\ calls' = calls \ {call}
        /\ clerk' = IF call.Err = "ErrWrongLeader"
                    THEN [clerk EXCEPT ![c].calling = FALSE, ![c].wrongLeader = TRUE]
                    ELSE [clerk EXCEPT ![c].calling = FALSE, ![c].wrongLeader = FALSE, ![c].op = {},
                                       ![c].seqNum = @ + 1, ![c].leaderID = {call.srv},
                                       ![c].got = IF call.op.Optype = "Get" THEN {call.Value} ELSE {}]
        /\ UNCHANGED <<log, pending, rf, snapshots, kv>>

\* The call fails: the request or the answer is lost, or the server is cut off
\* or restarted while its handler runs.
CallFails(c) ==
    LET mine == {call \in calls : call.live /\ call.op.ClientID = c}
    IN  /\ clerk[c].calling
        /\ clerk' = [clerk EXCEPT ![c].calling = FALSE, ![c].wrongLeader = TRUE]
        /\ calls' = (calls \ mine) \cup {[call EXCEPT !.live = FALSE] :
                        call \in {m \in mine : m.stage \in {"started", "waiting"}}}
        /\ UNCHANGED <<log, pending, rf, snapshots, kv>>
---------------------------------------------------------------------------
(* The handlers Get and PutAppend *)

\* The handler returns; nobody reads the answer of a call that has failed.
answered(call, err, value) ==
    (calls \ {call}) \cup
        IF call.live THEN {[call EXCEPT !.stage = "answered", !.index = 0, !.Err = err, !.Value = value]} ELSE {}

\* Not the leader, at GetState or at Start.
HandlerRefuses(call) ==
    /\ call.stage = "sent"
    /\ calls' = answered(call, "ErrWrongLeader", << >>)
    /\ UNCHANGED <<log, pending, rf, snapshots, kv, clerk>>

\* Start at a server that believes itself leader.
startInRaft(call, index) ==
    /\ pending' = pending \cup {entry \in {[index |-> index, op |-> call.op]} : index > Len(log)}
    /\ calls' = (calls \ {call}) \cup {[call EXCEPT !.stage = "started", !.index = index]}
    /\ UNCHANGED kv

\* The indexes that handlers of a server hold.
heldIndexes(s) ==
    kv[s].closing \cup {call.index : call \in {k \in calls : k.srv = s /\ k.stage \in {"started", "waiting"}}}

\* The indexes that Start may give: beyond what the server knows to be
\* committed, and within or just after the longest log there can be.
freeIndexes(s) ==
    {i \in (rf[s].lastApplied + 1)..(Len(log) + Cardinality(pending) + 1) :
        /\ \A held \in heldIndexes(s) : i > held
        /\ i - 1 \in (1..Len(log)) \cup {0} \cup {entry.index : entry \in pending}}

Get(call, index) ==
    /\ call.stage = "sent" /\ call.op.Optype = "Get" /\ index \in freeIndexes(call.srv)
    /\ startInRaft(call, index)
    /\ UNCHANGED <<log, rf, snapshots, clerk>>

PutAppend(call, index) ==
    /\ call.stage = "sent" /\ call.op.Optype # "Get" /\ index \in freeIndexes(call.srv)
    /\ startInRaft(call, index)
    /\ UNCHANGED <<log, rf, snapshots, clerk>>

getWaitCh(waitChan, index) ==
    [i \in DOMAIN waitChan \cup {index} |-> IF i \in DOMAIN waitChan THEN waitChan[i] ELSE << >>]

\* The index may have been applied before this: then the handler waits in vain.
HandlerWaits(call) ==
    /\ call.stage = "started"
    /\ kv' = [kv EXCEPT ![call.srv].waitChan = getWaitCh(@, call.index)]
    /\ calls' = (calls \ {call}) \cup {[call EXCEPT !.stage = "waiting"]}
    /\ UNCHANGED <<log, pending, rf, snapshots, clerk>>

\* The goroutine that closes the channel is started.
closeLater(s, index) == kv' = [kv EXCEPT ![s].closing = @ \cup {index}]

HandlerTimesOut(call) ==
    /\ call.stage = "waiting"
    /\ calls' = answered(call, "ErrWrongLeader", << >>)
    /\ closeLater(call.srv, call.index)
    /\ UNCHANGED <<log, pending, rf, snapshots, clerk>>

\* The operation applied is the one that was started.
sameOp(applyOp, op) == applyOp.SeqNum = op.SeqNum /\ applyOp.ClientID = op.ClientID

HandlerReceives(call) ==
    LET channel == kv[call.srv].waitChan[call.index]
    IN  /\ call.stage = "waiting" /\ channel # << >>
        /\ calls' = IF sameOp(channel[1].op, call.op) THEN answered(call, "OK", channel[1].Value)
                    ELSE answered(call, "ErrWrongLeader", << >>)
        /\ kv' = [kv EXCEPT ![call.srv].closing = @ \cup {call.index},
                            ![call.srv].waitChan[call.index] = << >>]
        /\ UNCHANGED <<log, pending, rf, snapshots, clerk>>

\* The goroutine: close(waitCh), delete(kv.waitChan, index).
closeWaitCh(s, index) ==
    /\ index \in kv[s].closing
    /\ kv' = [kv EXCEPT ![s].closing = @ \ {index},
                        ![s].waitChan = [i \in DOMAIN @ \ {index} |-> @[i]]]
    /\ UNCHANGED <<log, pending, rf, snapshots, calls, clerk>>
---------------------------------------------------------------------------
(* Applying *)

\* Put and Append write; the session remembers a Get too.
applyToStateMachine(state, op) ==
    LET tag == <<op.ClientID, op.SeqNum>>
        value == state.currentState[op.Key]
    IN  [clientSeq    |-> [state.clientSeq EXCEPT ![op.ClientID] = op.SeqNum],
         currentState |-> CASE op.Optype = "Put"    -> [state.currentState EXCEPT ![op.Key] = <<tag>>]
                            [] op.Optype = "Append" -> [state.currentState EXCEPT ![op.Key] = Append(value, tag)]
                            [] op.Optype = "Get"    -> state.currentState]

\* Slip: the check for a duplicate lets the last request through again.
applyOpAgain(state, op) ==
    IF state.clientSeq[op.ClientID] > op.SeqNum THEN state ELSE applyToStateMachine(state, op)

\* A request already processed changes nothing.
applyOp(state, op) ==
    IF state.clientSeq[op.ClientID] >= op.SeqNum THEN state ELSE applyToStateMachine(state, op)

\* A Get, duplicate or not, is answered with the value its key has now.
appliedOp(state, op) ==
    [op |-> op, Value |-> IF op.Optype = "Get" THEN state.currentState[op.Key] ELSE << >>]

\* The operation is sent on the channel of its index, if there is one; after
\* a second on a full channel it is dropped.
sendApplied(waitChan, index, answer) ==
    IF index \in DOMAIN waitChan /\ waitChan[index] = << >>
    THEN [waitChan EXCEPT ![index] = <<answer>>] ELSE waitChan

\* Slip: the snapshot is taken before the operation is applied.
persistDataBefore(before, after) == before

\* The snapshot has the effect of the operation at its index.
getServerPersistData(before, after) == after

\* A command that applyChecker sent; the log may be large enough for a snapshot.
applyHandler(s, takeSnapshot) ==
    LET index == rf[s].next
        state == applyOp(kv[s].state, log[index])
        snapshot == [index |-> index, data |-> getServerPersistData(kv[s].state, state)]
        saves == takeSnapshot /\ index > rf[s].saved.index
    IN  /\ index <= rf[s].upto
        /\ IF index <= kv[s].lastIncludedIndex
           THEN /\ rf' = [rf EXCEPT ![s].next = index + 1]
                /\ UNCHANGED <<kv, snapshots>>
           ELSE /\ kv' = [kv EXCEPT ![s].state = state,
                                    ![s].waitChan = sendApplied(@, index, appliedOp(kv[s].state, log[index]))]
                /\ rf' = [rf EXCEPT ![s].next = index + 1,
                                    ![s].saved = IF saves THEN snapshot ELSE @]
                /\ snapshots' = snapshots \cup {d \in {snapshot} : saves}
        /\ UNCHANGED <<log, pending, calls, clerk>>

\* A snapshot that a leader has sent, accepted by CondInstallSnapshot: what
\* applyChecker has already copied is handed over all the same.
installSnapshot(s, snapshot) ==
    /\ snapshot.index > rf[s].lastApplied
    /\ rf' = [rf EXCEPT ![s].lastApplied = snapshot.index, ![s].saved = snapshot]
    /\ kv' = [kv EXCEPT ![s].state = readServerPersistData(snapshot.data),
                        ![s].lastIncludedIndex = snapshot.index]
    /\ UNCHANGED <<log, pending, snapshots, calls, clerk>>

\* applyChecker copies the entries up to a commitIndex (Raft).
applyChecker(s, commitIndex) ==
    /\ rf[s].next > rf[s].upto /\ commitIndex \in (rf[s].lastApplied + 1)..Len(log)
    /\ rf' = [rf EXCEPT ![s].next = rf[s].lastApplied + 1, ![s].upto = commitIndex,
                        ![s].lastApplied = commitIndex]
    /\ UNCHANGED <<log, pending, snapshots, kv, calls, clerk>>

\* A crash, and StartKVServer on what the persister holds.
Restart(s) ==
    LET saved == rf[s].saved
    IN  /\ rf' = [rf EXCEPT ![s] = startRaft(saved.index, saved.data)]
        /\ kv' = [kv EXCEPT ![s] = StartKVServer(saved.data)]
        /\ calls' = {call \in calls : ~(call.srv = s /\ call.stage \in {"started", "waiting"})}
        /\ UNCHANGED <<log, pending, snapshots, clerk>>

\* Raft commits one of the operations started for the next index.
Commit ==
    /\ \E entry \in pending : entry.index = Len(log) + 1 /\ log' = Append(log, entry.op)
    /\ pending' = {entry \in pending : entry.index > Len(log) + 1}
    /\ UNCHANGED <<rf, snapshots, kv, calls, clerk>>
---------------------------------------------------------------------------
\* The steps that continue what has begun.
StepNext ==
    \/ \E c \in Client, s \in Server : ClerkSends(c, s)
    \/ \E call \in calls : ClerkReceives(call) \/ HandlerWaits(call) \/ HandlerReceives(call)
    \/ \E s \in Server : \E index \in kv[s].closing : closeWaitCh(s, index)
    \/ Commit

StartNext ==
    \E call \in calls : \E index \in freeIndexes(call.srv) : Get(call, index) \/ PutAppend(call, index)

Next ==
    \/ StepNext
    \/ StartNext
    \/ \E c \in Client, op \in Op : ClerkCalls(c, op)
    \/ \E c \in Client : CallFails(c)
    \/ \E call \in calls : HandlerRefuses(call) \/ HandlerTimesOut(call)
    \/ \E s \in Server : \/ \E index \in 1..Len(log) : applyChecker(s, index)
                        \/ \E takeSnapshot \in BOOLEAN : applyHandler(s, takeSnapshot)
    \/ \E s \in Server, snapshot \in snapshots : installSnapshot(s, snapshot)
    \/ \E s \in Server : Restart(s)

Spec == Init /\ [][Next]_vars
---------------------------------------------------------------------------
(* Correctness *)

TypeOK ==
    /\ log \in Seq(Op)
    /\ pending \subseteq [index : Nat \ {0}, op : Op]
    /\ \A s \in Server :
        /\ rf[s].next \in Nat \ {0} /\ {rf[s].upto, rf[s].lastApplied, rf[s].saved.index} \subseteq 0..Len(log)
        /\ kv[s].state \in State /\ kv[s].lastIncludedIndex \in 0..Len(log)
        /\ kv[s].closing \subseteq DOMAIN kv[s].waitChan
    /\ \A call \in calls :
        /\ call.op \in Op /\ call.srv \in Server /\ call.live \in BOOLEAN
        /\ call.stage \in {"sent", "started", "waiting", "answered"} /\ call.index \in Nat
        /\ call.Err \in {"", "OK", "ErrWrongLeader"}
    /\ \A c \in Client : clerk[c].seqNum \in Nat \ {0} /\ clerk[c].op \subseteq Op /\ clerk[c].leaderID \subseteq Server

\* What operations make of the empty store, one after another, and what the log
\* does.
machineOf(ops) ==
    LET after[n \in 0..Len(ops)] ==
            IF n = 0 THEN noState ELSE LET before == after[n - 1] IN applyOp(before, ops[n])
    IN  after

machine == machineOf(log)

\* The last operation whose effect a server's maps show.
reached(s) == IF rf[s].next - 1 > kv[s].lastIncludedIndex THEN rf[s].next - 1 ELSE kv[s].lastIncludedIndex

\* The maps of a server are what the log up to one point makes of them, and so
\* is every snapshot it has saved, also when a snapshot overtakes operations
\* that applyChecker had already copied, or a restart reads one back.
StateIsLogPrefix ==
    \A s \in Server : /\ kv[s].state = machine[reached(s)]
                      /\ rf[s].saved.data = machine[rf[s].saved.index]

\* Every wait channel has one handler that will receive from it or one goroutine
\* that will close it: none is left behind, and none is closed twice, which
\* would panic.
ChannelsOwned ==
    \A s \in Server : \A i \in DOMAIN kv[s].waitChan :
        LET waiting == {call \in calls : call.srv = s /\ call.index = i /\ call.stage = "waiting"}
        IN  IF i \in kv[s].closing THEN waiting = {} ELSE \E call \in waiting : waiting = {call}

\* A clerk's operation, when it has one, and where the log holds it.
calledBy(c) == {[Key |-> op.Key, Optype |-> op.Optype] : op \in clerk[c].op}

copiesOf(c) == {i \in DOMAIN log : log[i] \in clerk[c].op}

\* Whether the log has it as a write, and what the log makes it return as a Get.
executedBy(c) == \E i \in copiesOf(c) : log[i].Optype # "Get"

seenBy(c) == {machine[i].currentState[log[i].Key] : i \in {j \in copiesOf(c) : log[j].Optype = "Get"}}

storeNow == machine[Len(log)].currentState

seqNums == [c \in Client |-> clerk[c].seqNum]

calledNow == [c \in Client |-> calledBy(c)]

executedNow == [c \in Client |-> executedBy(c)]

seenNow == [c \in Client |-> seenBy(c)]

gotNow == [c \in Client |-> clerk[c].got]

Abstract == INSTANCE KVStore WITH
    store <- storeNow, seqNum <- seqNums, called <- calledNow,
    executed <- executedNow, seen <- seenNow, got <- gotNow

\* The service behaves as one store, module KVStore: every Put and Append takes
\* effect once between its call and its return, although clerks retry at other
\* servers and copies of it stay in the log, and a Get returns a value its key
\* had while the Get was running, whichever server answers.
Linearizable == Abstract!Spec
=================================================================================
