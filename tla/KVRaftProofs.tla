------------------------------ MODULE KVRaftProofs -------------------------------
(***************************************************************************)
(* The kvraft service implements one store, module KVStore, for every      *)
(* number of servers, clerks and keys, with retries, lost calls, restarts  *)
(* and snapshots.                                                          *)
(***************************************************************************)
EXTENDS KVRaft, TLAPS

Value == Seq(Client \X Nat)

Message == [op : Op, Value : Value]

WaitChans == UNION {[I -> Seq(Message)] : I \in SUBSET Nat}

Saved == [index : Nat, data : State]

Call == [op : Op, srv : Server, live : BOOLEAN, stage : {"sent", "started", "waiting", "answered"},
         index : Nat, Err : {"", "OK", "ErrWrongLeader"}, Value : Value]

Clerk == [seqNum : Nat \ {0}, op : SUBSET Op, leaderID : SUBSET Server, wrongLeader : BOOLEAN,
          calling : BOOLEAN, got : SUBSET Value]

RaftState == [next : Nat \ {0}, upto : Nat, lastApplied : Nat, saved : Saved]

KVServer == [state : State, waitChan : WaitChans, closing : SUBSET Nat, lastIncludedIndex : Nat]

\* A set of naturals has a least element: LeastNatural, at the end, proves it.
Least == \A S \in SUBSET Nat : S # {} => \E m \in S : \A n \in S : m <= n

\* What machineOf computes, for every log: MachineHolds below proves it.
Machine ==
    \A ops \in Seq(Op) :
        /\ machineOf(ops)[0] = noState
        /\ \A n \in DOMAIN ops : machineOf(ops)[n] = applyOp(machineOf(ops)[n - 1], ops[n])
        /\ \A n \in 0..Len(ops) : machineOf(ops)[n] \in State
        /\ \A op \in Op :
            /\ \A n \in 0..Len(ops) : machineOf(Append(ops, op))[n] = machineOf(ops)[n]
            /\ machineOf(Append(ops, op))[Len(ops) + 1] = applyOp(machineOf(ops)[Len(ops)], op)

Types ==
    /\ log \in Seq(Op)
    /\ pending \subseteq [index : Nat \ {0}, op : Op]
    /\ rf \in [Server -> RaftState]
    /\ snapshots \subseteq Saved
    /\ kv \in [Server -> KVServer]
    /\ calls \subseteq Call
    /\ clerk \in [Client -> Clerk]

\* What Raft hands over stays within the log, and applyChecker goes on from
\* the last batch or from the last snapshot that was installed.
InLog(s) ==
    /\ rf[s].next <= rf[s].upto + 1 /\ rf[s].upto <= rf[s].lastApplied
    /\ rf[s].lastApplied <= Len(log) /\ rf[s].saved.index <= Len(log)
    /\ kv[s].lastIncludedIndex <= rf[s].lastApplied
    /\ rf[s].lastApplied \in {rf[s].upto, kv[s].lastIncludedIndex}

Indexes ==
    /\ \A entry \in pending : entry.index > Len(log)
    /\ \A snapshot \in snapshots : snapshot.index <= Len(log)
    /\ \A s \in Server : InLog(s)

\* The maps, the snapshots that were saved and those that may be sent are what
\* a prefix of the log makes of them.
States ==
    /\ StateIsLogPrefix
    /\ \A snapshot \in snapshots : snapshot.data = machine[snapshot.index]

\* The calls whose handler has an index of Raft.
Held(s) == {call \in calls : call.srv = s /\ call.stage \in {"started", "waiting"}}

\* No two of them have the same index, none has an index whose channel is about
\* to be closed, and a channel is there for one that waits or to be closed.
OwnedAt(s) ==
    /\ \A call \in Held(s) :
        /\ call.index \notin kv[s].closing
        /\ call.stage = "waiting" => call.index \in DOMAIN kv[s].waitChan
        /\ \A other \in Held(s) : other.index = call.index => other = call
    /\ kv[s].closing \subseteq DOMAIN kv[s].waitChan
    /\ \A i \in DOMAIN kv[s].waitChan :
        i \in kv[s].closing \/ \E call \in Held(s) : call.index = i /\ call.stage = "waiting"

Owned == \A s \in Server : OwnedAt(s)

\* What is sent on a channel, and what a handler answers, is the outcome of an
\* operation where the log has it.
Sent(s, i) ==
    kv[s].waitChan[i] # << >> =>
        i \in DOMAIN log /\ kv[s].waitChan[i] = <<appliedOp(machine[i - 1], log[i])>>

Answered(call) ==
    call.stage = "answered" =>
        /\ call.live
        /\ call.Err # "ErrWrongLeader" => \E i \in DOMAIN log :
            sameOp(log[i], call.op) /\ call.Value = appliedOp(machine[i - 1], log[i]).Value

Answers ==
    /\ \A s \in Server : \A i \in DOMAIN kv[s].waitChan : Sent(s, i)
    /\ \A call \in calls : Answered(call)

\* A session remembers the greatest number of the client's operations in the log.
Sessions ==
    \A c \in Client :
        /\ \A i \in DOMAIN log : log[i].ClientID = c => log[i].SeqNum <= machine[Len(log)].clientSeq[c]
        /\ machine[Len(log)].clientSeq[c] # 0 =>
            \E i \in DOMAIN log : log[i].ClientID = c /\ log[i].SeqNum = machine[Len(log)].clientSeq[c]

\* The operations there are, and that they are the current ones of their clerks
\* or older.
Ops == {log[i] : i \in DOMAIN log} \cup {entry.op : entry \in pending} \cup {call.op : call \in calls}

Current(op) ==
    /\ op.SeqNum >= 1 /\ op.SeqNum <= clerk[op.ClientID].seqNum
    /\ op.SeqNum = clerk[op.ClientID].seqNum => op \in clerk[op.ClientID].op

\* A clerk has one operation at a time,
OneOp(c) ==
    clerk[c].op # {} => clerk[c].got = {} /\
        \E op \in Op : clerk[c].op = {op} /\ op.ClientID = c /\ op.SeqNum = clerk[c].seqNum

\* with one call that can be answered,
Live(call) ==
    call.live =>
        /\ clerk[call.op.ClientID].calling /\ call.op \in clerk[call.op.ClientID].op
        /\ \A other \in calls : other.live /\ other.op.ClientID = call.op.ClientID => other = call

\* and what it had before is in the log.
Acked(c) ==
    \A n \in 1..(clerk[c].seqNum - 1) : \E i \in DOMAIN log : log[i].ClientID = c /\ log[i].SeqNum = n

Clerks ==
    /\ \A c \in Client : OneOp(c) /\ Acked(c)
    /\ \A op \in Ops : Current(op)
    /\ \A call \in calls : Live(call)

IInv == Machine /\ Types /\ Indexes /\ States /\ Owned /\ Answers /\ Sessions /\ Clerks
---------------------------------------------------------------------------
(* Operators *)

\* The state of a server that has applied nothing is a state.
LEMMA NoState == noState \in State
BY DEF noState, State, Value

\* An applied operation leaves a state (KVServer.applyToStateMachine).
LEMMA ApplyOpType ==
    ASSUME NEW state \in State, NEW op \in Op
    PROVE  applyOp(state, op) \in State
<1>1. state.currentState \in [Key -> Seq(Client \X Nat)] /\ state.clientSeq \in [Client -> Nat]
    BY DEF State
<1>2. op.ClientID \in Client /\ op.SeqNum \in Nat /\ op.Key \in Key /\ op.Optype \in {"Get", "Put", "Append"}
    BY DEF Op
<1>3. <<op.ClientID, op.SeqNum>> \in Client \X Nat
    BY <1>2
<1>4. Append(state.currentState[op.Key], <<op.ClientID, op.SeqNum>>) \in Seq(Client \X Nat)
    BY <1>1, <1>2, <1>3
<1>5. << <<op.ClientID, op.SeqNum>> >> \in Seq(Client \X Nat)
    BY <1>3
<1>6. [state.clientSeq EXCEPT ![op.ClientID] = op.SeqNum] \in [Client -> Nat]
    BY <1>1, <1>2
<1>7. applyToStateMachine(state, op).currentState \in [Key -> Seq(Client \X Nat)]
    BY <1>1, <1>2, <1>4, <1>5 DEF applyToStateMachine
<1>8. applyToStateMachine(state, op) \in State
    BY Zenon, <1>6, <1>7 DEF State, applyToStateMachine
<1> QED BY <1>8 DEF applyOp

\* The first write of an operation is what the store's Execute writes.
LEMMA WritesAs ==
    ASSUME NEW state \in State, NEW op \in Op, op.Optype # "Get"
    PROVE  applyToStateMachine(state, op).currentState =
            [state.currentState EXCEPT ![op.Key] =
                Abstract!Written(state.currentState[op.Key], [Key |-> op.Key, Optype |-> op.Optype],
                                 Abstract!Tag(op.ClientID, op.SeqNum))]
<1>1. op.Optype \in {"Put", "Append"}
    BY DEF Op
<1> QED BY Zenon, <1>1 DEF applyToStateMachine, Abstract!Written, Abstract!Tag

\* Numbers of operations.
LEMMA SeqNumFacts ==
    \A a, b \in Nat : /\ a >= 1 /\ b >= a => b # 0
                      /\ a <= b /\ a >= b => a = b
OBVIOUS

\* What the applier sends for an operation is an operation with its value.
LEMMA AppliedOpType ==
    ASSUME NEW state \in State, NEW op \in Op
    PROVE  appliedOp(state, op) \in Message
BY DEF appliedOp, Message, Value, State, Op

\* A server starts without wait channels.
LEMMA NoChannel == << >> \in WaitChans /\ DOMAIN << >> = {}
<1>1. << >> \in [{} -> Seq(Message)]
    OBVIOUS
<1> QED BY <1>1 DEF WaitChans

\* getWaitCh adds at most one channel, an empty one at the index asked for.
LEMMA GetWaitChType ==
    ASSUME NEW f \in WaitChans, NEW i \in Nat
    PROVE  /\ getWaitCh(f, i) \in WaitChans
           /\ DOMAIN getWaitCh(f, i) = DOMAIN f \cup {i}
           /\ \A j \in DOMAIN f : getWaitCh(f, i)[j] = f[j]
           /\ i \notin DOMAIN f => getWaitCh(f, i)[i] = << >>
<1>1. PICK I \in SUBSET Nat : f \in [I -> Seq(Message)]
    BY DEF WaitChans
<1>2. << >> \in Seq(Message)
    OBVIOUS
<1>3. getWaitCh(f, i) \in [I \cup {i} -> Seq(Message)]
    BY <1>1, <1>2 DEF getWaitCh
<1>4. I \cup {i} \in SUBSET Nat
    OBVIOUS
<1>5. getWaitCh(f, i) \in WaitChans
    BY ZenonT(60), <1>3, <1>4 DEF WaitChans
<1> QED BY <1>5 DEF getWaitCh

\* A channel filled or emptied is still one of waitChan.
LEMMA SetChannelType ==
    ASSUME NEW f \in WaitChans, NEW i \in DOMAIN f, NEW q \in Seq(Message)
    PROVE  [f EXCEPT ![i] = q] \in WaitChans
<1>1. PICK I \in SUBSET Nat : f \in [I -> Seq(Message)]
    BY Zenon DEF WaitChans
<1>2. [f EXCEPT ![i] = q] \in [I -> Seq(Message)]
    BY <1>1
<1> QED BY <1>2 DEF WaitChans

\* The content of a channel of waitChan.
LEMMA ChannelType ==
    ASSUME NEW f \in WaitChans, NEW i \in DOMAIN f
    PROVE  i \in Nat /\ f[i] \in Seq(Message) /\ (f[i] # << >> => f[i][1] \in Message)
BY DEF WaitChans

\* delete(kv.waitChan, index) removes that channel only.
LEMMA DropChannelType ==
    ASSUME NEW f \in WaitChans, NEW i
    PROVE  /\ [j \in DOMAIN f \ {i} |-> f[j]] \in WaitChans
<1>1. PICK I \in SUBSET Nat : f \in [I -> Seq(Message)]
    BY DEF WaitChans
<1>2. [j \in DOMAIN f \ {i} |-> f[j]] \in [I \ {i} -> Seq(Message)]
    BY Zenon, <1>1
<1>3. I \ {i} \in SUBSET Nat
    BY Zenon
<1> QED BY Zenon, <1>2, <1>3 DEF WaitChans

\* The send of the applier fills the channel of that index, if there is one.
LEMMA SendAppliedType ==
    ASSUME NEW f \in WaitChans, NEW i, NEW m \in Message
    PROVE  sendApplied(f, i, m) \in WaitChans /\ DOMAIN sendApplied(f, i, m) = DOMAIN f
<1>1. <<m>> \in Seq(Message)
    OBVIOUS
<1>2. CASE i \in DOMAIN f /\ f[i] = << >>
    BY Zenon, <1>1, <1>2, SetChannelType DEF sendApplied
<1>3. CASE ~(i \in DOMAIN f /\ f[i] = << >>)
    BY <1>3 DEF sendApplied
<1> QED BY <1>2, <1>3
---------------------------------------------------------------------------
(* The state after each entry of the log, by induction over the log *)

\* A function with the equations of the recursive definition exists: otherwise
\* there is a shortest log prefix without one, which the next entry extends.
LEMMA MachineExists ==
    ASSUME Least, NEW ops
    PROVE  \A m \in Nat : \E g : g = [n \in 0..m |-> IF n = 0 THEN noState ELSE applyOp(g[n - 1], ops[n])]
<1> DEFINE Good(m) == \E g : g = [n \in 0..m |-> IF n = 0 THEN noState ELSE applyOp(g[n - 1], ops[n])]
<1> DEFINE Bad == {m \in Nat : ~Good(m)}
<1>1. SUFFICES ASSUME Bad # {} PROVE FALSE
    BY ZenonT(60)
<1>2. PICK m \in Bad : \A k \in Bad : m <= k
    <2> HIDE DEF Good
    <2> QED BY ZenonT(60), <1>1 DEF Least
<1>3. CASE m = 0
    <2> DEFINE g == [n \in 0..0 |-> noState]
    <2>1. g = [n \in 0..0 |-> IF n = 0 THEN noState ELSE applyOp(g[n - 1], ops[n])]
        OBVIOUS
    <2> QED BY ZenonT(60), <1>3, <2>1
<1>4. CASE m # 0
    <2>1. m \in Nat /\ m - 1 \in Nat /\ m - 1 \notin Bad
        <3> HIDE DEF Good
        <3> QED BY <1>2, <1>4
    <2>2. PICK g : g = [n \in 0..(m - 1) |-> IF n = 0 THEN noState ELSE applyOp(g[n - 1], ops[n])]
        BY <2>1
    <2> DEFINE h == [n \in 0..m |-> IF n = m THEN applyOp(g[m - 1], ops[m]) ELSE g[n]]
    <2>3. \A n \in 0..m : h[n] = IF n = 0 THEN noState ELSE applyOp(h[n - 1], ops[n])
        <3> TAKE n \in 0..m
        <3>1. CASE n = m
            <4>1. h[n - 1] = g[m - 1] /\ n # 0
                BY <2>1, <3>1, <1>4
            <4> HIDE DEF h
            <4> QED BY <4>1, <3>1 DEF h
        <3>2. CASE n # m
            <4>1. n \in 0..(m - 1) /\ h[n] = g[n]
                BY <2>1, <3>2
            <4>2. g[n] = IF n = 0 THEN noState ELSE applyOp(g[n - 1], ops[n])
                BY ZenonT(60), <2>2, <4>1
            <4>3. n # 0 => h[n - 1] = g[n - 1]
                BY <2>1, <4>1
            <4> HIDE DEF h
            <4> QED BY ZenonT(60), <4>1, <4>2, <4>3
        <3> QED BY <3>1, <3>2
    <2>4. h = [n \in 0..m |-> IF n = 0 THEN noState ELSE applyOp(h[n - 1], ops[n])]
        BY ZenonT(60), <2>3
    <2> QED BY ZenonT(60), <2>4
<1> QED BY ZenonT(60), <1>3, <1>4

\* machineOf is such a function.
LEMMA MachineDef ==
    ASSUME Least, NEW ops, Len(ops) \in Nat
    PROVE  machineOf(ops) = [n \in 0..Len(ops) |-> IF n = 0 THEN noState ELSE applyOp(machineOf(ops)[n - 1], ops[n])]
<1>1. machineOf(ops) = CHOOSE g : g = [n \in 0..Len(ops) |-> IF n = 0 THEN noState ELSE applyOp(g[n - 1], ops[n])]
    BY DEF machineOf
<1>2. \E g : g = [n \in 0..Len(ops) |-> IF n = 0 THEN noState ELSE applyOp(g[n - 1], ops[n])]
    BY ZenonT(60), MachineExists
<1> QED BY ZenonT(60), <1>1, <1>2

\* Its two equations: nothing applied, and one entry more.
LEMMA MachineIs ==
    ASSUME Least, NEW ops \in Seq(Op)
    PROVE  /\ machineOf(ops)[0] = noState
           /\ \A n \in DOMAIN ops : machineOf(ops)[n] = applyOp(machineOf(ops)[n - 1], ops[n])
<1>1. Len(ops) \in Nat /\ DOMAIN ops = 1..Len(ops)
    OBVIOUS
<1> DEFINE m == machineOf(ops)
<1>2. m = [n \in 0..Len(ops) |-> IF n = 0 THEN noState ELSE applyOp(m[n - 1], ops[n])]
    BY ZenonT(60), <1>1, MachineDef
<1> HIDE DEF m
<1>3. m[0] = noState
    BY <1>1, <1>2
<1>4. \A n \in DOMAIN ops : m[n] = applyOp(m[n - 1], ops[n])
    BY <1>1, <1>2
<1> QED BY <1>3, <1>4 DEF m

\* The state after each prefix of the log is a state.
LEMMA MachineType ==
    ASSUME Least, NEW ops \in Seq(Op)
    PROVE  \A n \in 0..Len(ops) : machineOf(ops)[n] \in State
<1> DEFINE Bad == {n \in 0..Len(ops) : machineOf(ops)[n] \notin State}
<1>1. SUFFICES ASSUME Bad # {} PROVE FALSE
    OBVIOUS
<1>2. PICK n \in Bad : \A k \in Bad : n <= k
    <2>1. Bad \in SUBSET Nat
        OBVIOUS
    <2> HIDE DEF Bad
    <2> QED BY ZenonT(60), <1>1, <2>1 DEF Least
<1>3. n # 0
    BY ZenonT(60), MachineIs, NoState
<1>4. n \in DOMAIN ops /\ n - 1 \in 0..Len(ops) /\ n - 1 \notin Bad /\ ops[n] \in Op
    BY <1>2, <1>3
<1> QED BY ZenonT(60), <1>4, MachineIs, ApplyOpType

\* An entry appended to the log changes no state before it.
LEMMA MachineAppend ==
    ASSUME Least, NEW ops \in Seq(Op), NEW op \in Op
    PROVE  /\ \A n \in 0..Len(ops) : machineOf(Append(ops, op))[n] = machineOf(ops)[n]
           /\ machineOf(Append(ops, op))[Len(ops) + 1] = applyOp(machineOf(ops)[Len(ops)], op)
<1> DEFINE more == Append(ops, op)
           Bad == {n \in 0..Len(ops) : machineOf(more)[n] # machineOf(ops)[n]}
<1>1. more \in Seq(Op) /\ Len(more) = Len(ops) + 1 /\ more[Len(ops) + 1] = op
      /\ \A n \in DOMAIN ops : n \in DOMAIN more /\ more[n] = ops[n]
    OBVIOUS
<1> HIDE DEF more
<1>2. ASSUME Bad # {} PROVE FALSE
    <2>1. PICK n \in Bad : \A k \in Bad : n <= k
        <3>1. Bad \in SUBSET Nat
            OBVIOUS
        <3> HIDE DEF Bad
        <3> QED BY ZenonT(60), <1>2, <3>1 DEF Least
    <2>2. n # 0
        BY ZenonT(60), <1>1, MachineIs
    <2>3. n \in DOMAIN ops /\ n - 1 \in 0..Len(ops) /\ n - 1 \notin Bad
        BY <2>1, <2>2
    <2>4. machineOf(more)[n] = applyOp(machineOf(more)[n - 1], more[n])
        BY ZenonT(60), <1>1, <2>3, MachineIs
    <2>5. machineOf(ops)[n] = applyOp(machineOf(ops)[n - 1], ops[n])
        BY ZenonT(60), <2>3, MachineIs
    <2> QED BY ZenonT(60), <1>1, <2>3, <2>4, <2>5
<1>3. \A n \in 0..Len(ops) : machineOf(more)[n] = machineOf(ops)[n]
    BY ZenonT(60), <1>2
<1>4. Len(ops) \in Nat /\ Len(ops) + 1 \in DOMAIN more
    BY <1>1
<1>5. machineOf(more)[Len(ops) + 1] = applyOp(machineOf(more)[Len(ops) + 1 - 1], more[Len(ops) + 1])
    <2>1. \A n \in DOMAIN more : machineOf(more)[n] = applyOp(machineOf(more)[n - 1], more[n])
        BY ZenonT(60), <1>1, MachineIs
    <2> QED BY <1>4, <2>1
<1>6. Len(ops) + 1 - 1 = Len(ops) /\ Len(ops) \in 0..Len(ops)
    BY <1>4
<1> QED BY ZenonT(60), <1>1, <1>3, <1>5, <1>6 DEF more

\* What machineOf computes, for every log.
LEMMA MachineHolds == Least => Machine
BY ZenonT(60), MachineIs, MachineType, MachineAppend DEF Machine
---------------------------------------------------------------------------
(* Types *)

\* What answered leaves of the calls are calls.
LEMMA AnsweredType ==
    ASSUME Types, NEW call \in calls, NEW err \in {"OK", "ErrWrongLeader"}, NEW value \in Value
    PROVE  answered(call, err, value) \subseteq Call
<1>1. call \in Call
    BY DEF Types
<1>2. [call EXCEPT !.stage = "answered", !.index = 0, !.Err = err, !.Value = value] \in Call
    BY Zenon, <1>1 DEF Call
<1> QED BY <1>2 DEF answered, Types

\* The initial state is well typed.
LEMMA TypesInit == Init => Types
<1> SUFFICES ASSUME Init PROVE Types
    OBVIOUS
<1>1. rf \in [Server -> RaftState]
    BY NoState DEF Init, startRaft, Saved, RaftState
<1>2. kv \in [Server -> KVServer]
    BY NoState, NoChannel DEF Init, StartKVServer, readServerPersistData, KVServer
<1>3. clerk \in [Client -> Clerk]
    BY DEF Init, MakeClerk, Clerk
<1>4. log \in Seq(Op)
    BY DEF Init
<1> QED BY <1>1, <1>2, <1>3, <1>4 DEF Init, Types

\* Every step keeps the types.
LEMMA TypesNext == IInv /\ [Next]_vars => Types'
<1> SUFFICES ASSUME Types, Indexes, Owned, [Next]_vars PROVE Types'
    BY DEF IInv
<1> USE DEF Types, RaftState, KVServer
<1>1. ASSUME NEW c \in Client, NEW op \in Op, ClerkCalls(c, op) PROVE Types'
    <2> DEFINE after == [clerk[c] EXCEPT !.op = {op}, !.wrongLeader = FALSE, !.got = {}]
    <2>1. clerk' \in [Client -> Clerk]
        <3>1. clerk[c] \in Clerk
            OBVIOUS
        <3>2. after \in Clerk
            BY Zenon, <3>1 DEF Clerk
        <3>3. clerk' = [clerk EXCEPT ![c] = after]
            BY Zenon, <1>1 DEF ClerkCalls
        <3> QED BY <3>2, <3>3
    <2> QED BY <1>1, <2>1 DEF ClerkCalls
<1>2. ASSUME NEW c \in Client, NEW s \in Server, ClerkSends(c, s) PROVE Types'
    <2>1. clerk' \in [Client -> Clerk]
        BY ZenonT(60), <1>2 DEF ClerkSends, Clerk
    <2>2. PICK op \in clerk[c].op :
            calls' = calls \cup {[op |-> op, srv |-> s, live |-> TRUE, stage |-> "sent", index |-> 0,
                                 Err |-> "", Value |-> << >>]}
        BY Zenon, <1>2 DEF ClerkSends
    <2>3. op \in Op
        BY Zenon, <2>2 DEF Clerk
    <2>4. << >> \in Value
        BY DEF Value
    <2>5. calls' \subseteq Call
        <3>1. [op |-> op, srv |-> s, live |-> TRUE, stage |-> "sent", index |-> 0, Err |-> "", Value |-> << >>] \in Call
            BY Zenon, <2>3, <2>4 DEF Call
        <3> QED BY Zenon, <2>2, <3>1
    <2> QED BY Zenon, <1>2, <2>1, <2>5 DEF ClerkSends
<1>3. ASSUME NEW call \in calls, ClerkReceives(call) PROVE Types'
    <2> DEFINE c == call.op.ClientID
               before == clerk[c]
               retry == [before EXCEPT !.calling = FALSE, !.wrongLeader = TRUE]
               done == [before EXCEPT !.calling = FALSE, !.wrongLeader = FALSE, !.op = {}, !.seqNum = @ + 1,
                                      !.leaderID = {call.srv},
                                      !.got = IF call.op.Optype = "Get" THEN {call.Value} ELSE {}]
    <2>1. call.op \in Op /\ call.Value \in Value /\ call.srv \in Server
        BY Zenon DEF Call
    <2>2. clerk' \in [Client -> Clerk]
        <3>1. c \in Client
            BY <2>1 DEF Op
        <3>2. before \in Clerk
            BY <3>1
        <3>3. retry \in Clerk
            BY Zenon, <3>2 DEF Clerk
        <3>4. done \in Clerk
            <4>1. before.seqNum + 1 \in Nat \ {0}
                BY SMTT(40), <3>2 DEF Clerk
            <4>2. {call.srv} \in SUBSET Server
                BY <2>1
            <4>3. (IF call.op.Optype = "Get" THEN {call.Value} ELSE {}) \in SUBSET Value
                BY <2>1
            <4> HIDE DEF before
            <4> QED BY Zenon, <3>2, <4>1, <4>2, <4>3 DEF Clerk
        <3>5. clerk' = [clerk EXCEPT ![c] = retry] \/ clerk' = [clerk EXCEPT ![c] = done]
            BY ZenonT(60), <1>3 DEF ClerkReceives
        <3> QED BY <3>1, <3>3, <3>4, <3>5
    <2> QED BY Zenon, <1>3, <2>2 DEF ClerkReceives
<1>4. ASSUME NEW c \in Client, CallFails(c) PROVE Types'
    <2>1. clerk' \in [Client -> Clerk]
        <3>1. clerk[c] \in Clerk
            OBVIOUS
        <3>2. [clerk[c] EXCEPT !.calling = FALSE, !.wrongLeader = TRUE] \in Clerk
            BY Zenon, <3>1 DEF Clerk
        <3>3. clerk' = [clerk EXCEPT ![c] = [clerk[c] EXCEPT !.calling = FALSE, !.wrongLeader = TRUE]]
            BY Zenon, <1>4 DEF CallFails
        <3> QED BY <3>2, <3>3
    <2>2. \A call \in calls : [call EXCEPT !.live = FALSE] \in Call
        BY ZenonT(60) DEF Call
    <2>3. calls' \subseteq Call
        BY <1>4, <2>2 DEF CallFails
    <2> QED BY <1>4, <2>1, <2>3 DEF CallFails
<1>5. ASSUME NEW call \in calls, HandlerRefuses(call) PROVE Types'
    <2>1. << >> \in Value
        BY DEF Value
    <2>2. calls' \subseteq Call
        BY <1>5, <2>1, AnsweredType DEF HandlerRefuses
    <2> QED BY <1>5, <2>2 DEF HandlerRefuses
<1>6. ASSUME NEW call \in calls, NEW index \in freeIndexes(call.srv), startInRaft(call, index),
             UNCHANGED <<log, rf, snapshots, clerk>>
      PROVE  Types'
    <2>1. call \in Call /\ call.srv \in Server /\ call.op \in Op
        BY Zenon DEF Call
    <2>2. index \in Nat \ {0}
        <3>1. rf[call.srv].lastApplied \in Nat
            BY <2>1
        <3> QED BY <3>1 DEF freeIndexes
    <2>3. pending' \subseteq [index : Nat \ {0}, op : Op]
        BY <1>6, <2>1, <2>2 DEF startInRaft
    <2>4. [call EXCEPT !.stage = "started", !.index = index] \in Call
        BY Zenon, <2>1, <2>2 DEF Call
    <2> QED BY <1>6, <2>3, <2>4 DEF startInRaft
<1>7. ASSUME NEW call \in calls, HandlerWaits(call) PROVE Types'
    <2>1. call \in Call /\ call.srv \in Server /\ call.index \in Nat
        BY Zenon DEF Call
    <2>2. kv[call.srv].waitChan \in WaitChans
        BY <2>1
    <2>3. getWaitCh(kv[call.srv].waitChan, call.index) \in WaitChans
        BY Zenon, <2>1, <2>2, GetWaitChType
    <2>4. kv' \in [Server -> KVServer]
        BY ZenonT(60), <1>7, <2>1, <2>3 DEF HandlerWaits
    <2>5. [call EXCEPT !.stage = "waiting"] \in Call
        BY Zenon, <2>1 DEF Call
    <2> QED BY Zenon, <1>7, <2>4, <2>5 DEF HandlerWaits
<1>8. ASSUME NEW call \in calls, HandlerTimesOut(call) PROVE Types'
    <2>1. call \in Call /\ call.srv \in Server /\ call.index \in Nat
        BY Zenon DEF Call
    <2> << >> \in Value
        BY DEF Value
    <2>2. calls' \subseteq Call
        BY <1>8, <2>1, AnsweredType DEF HandlerTimesOut
    <2>3. kv' \in [Server -> KVServer]
        BY ZenonT(60), <1>8, <2>1 DEF HandlerTimesOut, closeLater
    <2> QED BY <1>8, <2>2, <2>3 DEF HandlerTimesOut
<1>9. ASSUME NEW call \in calls, HandlerReceives(call) PROVE Types'
    <2> DEFINE channel == kv[call.srv].waitChan[call.index]
    <2>1. call \in Call /\ call.srv \in Server /\ call.index \in Nat
        BY Zenon DEF Call
    <2>2. << >> \in Value
        BY DEF Value
    <2>3. kv[call.srv].waitChan \in WaitChans /\ call.index \in DOMAIN kv[call.srv].waitChan
        BY ZenonT(60), <1>9, <2>1 DEF HandlerReceives, Owned, OwnedAt, Held
    <2>4. channel[1] \in Message
        BY SMTT(40), <1>9, <2>3, ChannelType DEF HandlerReceives
    <2>5. calls' \subseteq Call
        <3>1. channel[1].Value \in Value
            BY <2>4 DEF Message
        <3> HIDE DEF channel
        <3> QED BY ZenonT(60), <1>9, <2>2, <3>1, AnsweredType DEF HandlerReceives, channel
    <2>6. [kv[call.srv].waitChan EXCEPT ![call.index] = << >>] \in WaitChans
        <3>1. << >> \in Seq(Message)
            OBVIOUS
        <3> QED BY Zenon, <2>3, <3>1, SetChannelType
    <2>7. kv' \in [Server -> KVServer]
        BY ZenonT(60), <1>9, <2>1, <2>6 DEF HandlerReceives
    <2> QED BY Zenon, <1>9, <2>5, <2>7 DEF HandlerReceives
<1>10. ASSUME NEW s \in Server, NEW index \in kv[s].closing, closeWaitCh(s, index) PROVE Types'
    <2>1. kv[s].waitChan \in WaitChans
        OBVIOUS
    <2>2. [i \in DOMAIN kv[s].waitChan \ {index} |-> kv[s].waitChan[i]] \in WaitChans
        BY Zenon, <2>1, DropChannelType
    <2>3. kv' \in [Server -> KVServer]
        BY ZenonT(60), <1>10, <2>2 DEF closeWaitCh
    <2> QED BY Zenon, <1>10, <2>3 DEF closeWaitCh
<1>11. ASSUME NEW s \in Server, NEW takeSnapshot \in BOOLEAN, applyHandler(s, takeSnapshot) PROVE Types'
    <2> DEFINE index == rf[s].next
               state == applyOp(kv[s].state, log[index])
               message == appliedOp(kv[s].state, log[index])
    <2>1. index \in Nat \ {0} /\ log[index] \in Op
        BY <1>11 DEF applyHandler, Indexes, InLog
    <2>2. state \in State /\ message \in Message
        BY <2>1, ApplyOpType, AppliedOpType
    <2>3. sendApplied(kv[s].waitChan, index, message) \in WaitChans
        BY <2>2, SendAppliedType
    <2> HIDE DEF state, message
    <2>4. rf' \in [Server -> RaftState]
        <3>1. \/ rf' = [rf EXCEPT ![s].next = index + 1]
              \/ rf' = [rf EXCEPT ![s].next = index + 1, ![s].saved = [index |-> index, data |-> state]]
            BY <1>11 DEF applyHandler, getServerPersistData, state
        <3>2. [index |-> index, data |-> state] \in Saved
            BY <2>1, <2>2 DEF Saved
        <3>3. rf[s] \in RaftState /\ index + 1 \in Nat \ {0}
            BY <2>1
        <3> HIDE DEF index
        <3>4. /\ [rf[s] EXCEPT !.next = index + 1] \in RaftState
              /\ [rf[s] EXCEPT !.next = index + 1, !.saved = [index |-> index, data |-> state]] \in RaftState
            BY Zenon, <3>2, <3>3
        <3>5. \/ rf' = [rf EXCEPT ![s] = [rf[s] EXCEPT !.next = index + 1]]
              \/ rf' = [rf EXCEPT ![s] = [rf[s] EXCEPT !.next = index + 1, !.saved = [index |-> index, data |-> state]]]
            BY <3>1
        <3> QED BY ZenonT(60), <3>4, <3>5
    <2>5. kv' \in [Server -> KVServer]
        <3>1. \/ kv' = kv
              \/ kv' = [kv EXCEPT ![s].state = state, ![s].waitChan = sendApplied(kv[s].waitChan, index, message)]
            BY Zenon, <1>11 DEF applyHandler, state, message
        <3> DEFINE after == [kv[s] EXCEPT !.state = state, !.waitChan = sendApplied(kv[s].waitChan, index, message)]
        <3>2. kv[s] \in KVServer
            OBVIOUS
        <3>3. after \in KVServer
            BY Zenon, <2>2, <2>3, <3>2
        <3>4. kv' = kv \/ kv' = [kv EXCEPT ![s] = after]
            BY Zenon, <3>1
        <3> QED BY Zenon, <3>3, <3>4
    <2>6. snapshots' \subseteq Saved
        BY <1>11, <2>1, <2>2 DEF applyHandler, getServerPersistData, state, Saved
    <2> QED BY ZenonT(60), <1>11, <2>4, <2>5, <2>6 DEF applyHandler
<1>12. ASSUME NEW s \in Server, NEW snapshot \in snapshots, installSnapshot(s, snapshot) PROVE Types'
    <2>1. snapshot \in Saved /\ snapshot.index \in Nat /\ snapshot.data \in State
        BY DEF Saved
    <2>2. rf' \in [Server -> RaftState]
        BY ZenonT(60), <1>12, <2>1 DEF installSnapshot
    <2>3. kv' \in [Server -> KVServer]
        BY ZenonT(60), <1>12, <2>1 DEF installSnapshot, readServerPersistData
    <2> QED BY <1>12, <2>2, <2>3 DEF installSnapshot
<1>13. ASSUME NEW s \in Server, NEW index \in 1..Len(log), applyChecker(s, index) PROVE Types'
    <2>1. rf' \in [Server -> RaftState]
        BY SMTT(40), <1>13 DEF applyChecker
    <2> QED BY <1>13, <2>1 DEF applyChecker
<1>14. ASSUME NEW s \in Server, Restart(s) PROVE Types'
    <2>1. rf[s].saved \in Saved /\ rf[s].saved.index \in Nat /\ rf[s].saved.data \in State
        BY DEF Saved
    <2>2. rf' \in [Server -> RaftState]
        BY <1>14, <2>1 DEF Restart, startRaft, Saved
    <2>3. kv' \in [Server -> KVServer]
        BY <1>14, <2>1, NoChannel DEF Restart, StartKVServer, readServerPersistData
    <2> QED BY <1>14, <2>2, <2>3 DEF Restart
<1>15. ASSUME Commit PROVE Types'
    BY <1>15 DEF Commit
<1>16. ASSUME UNCHANGED vars PROVE Types'
    BY ZenonT(60), <1>16 DEF vars
<1> QED BY ZenonT(60), <1>1, <1>2, <1>3, <1>4, <1>5, <1>6, <1>7, <1>8, <1>9, <1>10, <1>11, <1>12, <1>13, <1>14, <1>15, <1>16
        DEF Next, StepNext, StartNext, Get, PutAppend
---------------------------------------------------------------------------
(* The log and the maps *)

\* The steps of clerks and handlers: the log and the maps stay as they are.
Quiet ==
    /\ UNCHANGED <<log, rf, snapshots>>
    /\ \A s \in Server : kv'[s].state = kv[s].state /\ kv'[s].lastIncludedIndex = kv[s].lastIncludedIndex
    /\ \A entry \in pending' : entry \in pending \/ entry.index > Len(log)

\* The steps of the service, one disjunct of Next at a time.
LEMMA Steps ==
    ASSUME Types, [Next]_vars
    PROVE  \/ Quiet
           \/ \E s \in Server, takeSnapshot \in BOOLEAN : applyHandler(s, takeSnapshot)
           \/ \E s \in Server, snapshot \in snapshots : installSnapshot(s, snapshot)
           \/ \E s \in Server : \E index \in 1..Len(log) : applyChecker(s, index)
           \/ \E s \in Server : Restart(s)
           \/ Commit
<1> USE DEF Quiet
<1>1. ASSUME NEW c \in Client, NEW op \in Op, ClerkCalls(c, op) PROVE Quiet
    BY <1>1 DEF ClerkCalls
<1>2. ASSUME NEW c \in Client, NEW s \in Server, ClerkSends(c, s) PROVE Quiet
    BY ZenonT(60), <1>2 DEF ClerkSends
<1>3. ASSUME NEW call \in calls, ClerkReceives(call) PROVE Quiet
    BY Zenon, <1>3 DEF ClerkReceives
<1>4. ASSUME NEW c \in Client, CallFails(c) PROVE Quiet
    BY <1>4 DEF CallFails
<1>5. ASSUME NEW call \in calls, HandlerRefuses(call) PROVE Quiet
    BY <1>5 DEF HandlerRefuses
<1>6. ASSUME NEW call \in calls, NEW index \in freeIndexes(call.srv), Get(call, index) \/ PutAppend(call, index)
      PROVE  Quiet
    BY <1>6 DEF Get, PutAppend, startInRaft
<1>7. ASSUME NEW call \in calls, HandlerWaits(call) PROVE Quiet
    BY <1>7 DEF HandlerWaits, Types, KVServer
<1>8. ASSUME NEW call \in calls, HandlerTimesOut(call) PROVE Quiet
    BY ZenonT(60), <1>8 DEF HandlerTimesOut, closeLater, Types, KVServer
<1>9. ASSUME NEW call \in calls, HandlerReceives(call) PROVE Quiet
    BY ZenonT(60), <1>9 DEF HandlerReceives, Types, KVServer
<1>10. ASSUME NEW s \in Server, NEW index \in kv[s].closing, closeWaitCh(s, index) PROVE Quiet
    BY <1>10 DEF closeWaitCh, Types, KVServer
<1>11. ASSUME UNCHANGED vars PROVE Quiet
    BY ZenonT(60), <1>11 DEF vars
<1> HIDE DEF Quiet
<1> QED BY <1>1, <1>2, <1>3, <1>4, <1>5, <1>6, <1>7, <1>8, <1>9, <1>10, <1>11 DEF Next, StepNext, StartNext

\* What the steps of Raft and of applyHandler do at their server.
LEMMA ApplyHandlerIs ==
    ASSUME Types, NEW s \in Server, NEW takeSnapshot \in BOOLEAN, applyHandler(s, takeSnapshot)
    PROVE  LET index == rf[s].next
               state == applyOp(kv[s].state, log[index])
           IN  /\ UNCHANGED <<log, pending, calls, clerk>> /\ index <= rf[s].upto
               /\ \A t \in Server : t # s => rf'[t] = rf[t] /\ kv'[t] = kv[t]
               /\ rf'[s].next = index + 1 /\ rf'[s].upto = rf[s].upto /\ rf'[s].lastApplied = rf[s].lastApplied
               /\ kv'[s].lastIncludedIndex = kv[s].lastIncludedIndex /\ kv'[s].closing = kv[s].closing
               /\ index <= kv[s].lastIncludedIndex =>
                    UNCHANGED <<kv, snapshots>> /\ rf'[s].saved = rf[s].saved
               /\ index > kv[s].lastIncludedIndex =>
                    /\ kv'[s].state = state
                    /\ kv'[s].waitChan = sendApplied(kv[s].waitChan, index, appliedOp(kv[s].state, log[index]))
                    /\ rf'[s].saved \in {rf[s].saved, [index |-> index, data |-> state]}
                    /\ snapshots' \subseteq snapshots \cup {[index |-> index, data |-> state]}
<1> DEFINE index == rf[s].next
           state == applyOp(kv[s].state, log[index])
           waitChan == sendApplied(kv[s].waitChan, index, appliedOp(kv[s].state, log[index]))
           snapshot == [index |-> index, data |-> state]
<1>1. rf[s] \in RaftState /\ kv[s] \in KVServer /\ DOMAIN rf = Server /\ DOMAIN kv = Server
    BY DEF Types
<1>2. UNCHANGED <<log, pending, calls, clerk>> /\ index <= rf[s].upto
    BY DEF applyHandler
<1>3. index \in Nat /\ kv[s].lastIncludedIndex \in Nat
    BY <1>1 DEF RaftState, KVServer
<1>4. CASE index <= kv[s].lastIncludedIndex
    <2>1. rf' = [rf EXCEPT ![s].next = index + 1] /\ UNCHANGED <<kv, snapshots>>
        BY <1>4 DEF applyHandler
    <2> HIDE DEF index
    <2>2. rf' = [rf EXCEPT ![s] = [rf[s] EXCEPT !.next = index + 1]]
        BY <2>1
    <2>3. rf'[s] = [rf[s] EXCEPT !.next = index + 1] /\ \A t \in Server : t # s => rf'[t] = rf[t]
        BY <1>1, <2>2
    <2>4. /\ rf'[s].next = index + 1 /\ rf'[s].upto = rf[s].upto /\ rf'[s].lastApplied = rf[s].lastApplied
          /\ rf'[s].saved = rf[s].saved
        BY SMTT(40), <1>1, <2>3 DEF RaftState
    <2> QED BY <1>2, <1>3, <1>4, <2>1, <2>3, <2>4 DEF index
<1>5. CASE ~(index <= kv[s].lastIncludedIndex)
    <2>1. PICK saved \in {rf[s].saved, snapshot} : rf' = [rf EXCEPT ![s].next = index + 1, ![s].saved = saved]
        BY ZenonT(60), <1>5 DEF applyHandler, getServerPersistData
    <2>2. kv' = [kv EXCEPT ![s].state = state, ![s].waitChan = waitChan] /\ snapshots' \subseteq snapshots \cup {snapshot}
        BY <1>5 DEF applyHandler, getServerPersistData
    <2> HIDE DEF index, state, waitChan, snapshot
    <2>3. /\ rf' = [rf EXCEPT ![s] = [rf[s] EXCEPT !.next = index + 1, !.saved = saved]]
          /\ kv' = [kv EXCEPT ![s] = [kv[s] EXCEPT !.state = state, !.waitChan = waitChan]]
        BY Zenon, <2>1, <2>2
    <2>4. /\ rf'[s] = [rf[s] EXCEPT !.next = index + 1, !.saved = saved]
          /\ kv'[s] = [kv[s] EXCEPT !.state = state, !.waitChan = waitChan]
          /\ \A t \in Server : t # s => rf'[t] = rf[t] /\ kv'[t] = kv[t]
        BY <1>1, <2>3
    <2>5. /\ rf'[s].next = index + 1 /\ rf'[s].upto = rf[s].upto /\ rf'[s].lastApplied = rf[s].lastApplied
          /\ rf'[s].saved = saved
        BY <1>1, <2>4 DEF RaftState
    <2>6. /\ kv'[s].state = state /\ kv'[s].waitChan = waitChan /\ kv'[s].closing = kv[s].closing
          /\ kv'[s].lastIncludedIndex = kv[s].lastIncludedIndex
        BY <1>1, <2>4 DEF KVServer
    <2>7. ~(index <= kv[s].lastIncludedIndex)
        BY <1>5 DEF index
    <2> USE DEF index, state, waitChan, snapshot
    <2> QED BY Zenon, <1>2, <2>1, <2>2, <2>4, <2>5, <2>6, <2>7
<1> QED BY <1>4, <1>5

\* What a server is after it installed a snapshot (KVServer.applySnapshot).
LEMMA InstallSnapshotIs ==
    ASSUME Types, NEW s \in Server, NEW snapshot \in snapshots, installSnapshot(s, snapshot)
    PROVE  /\ UNCHANGED <<log, pending, snapshots, calls, clerk>> /\ snapshot.index > rf[s].lastApplied
           /\ \A t \in Server : t # s => rf'[t] = rf[t] /\ kv'[t] = kv[t]
           /\ rf'[s].next = rf[s].next /\ rf'[s].upto = rf[s].upto
           /\ rf'[s].lastApplied = snapshot.index /\ rf'[s].saved = snapshot
           /\ kv'[s].state = snapshot.data /\ kv'[s].lastIncludedIndex = snapshot.index
           /\ kv'[s].waitChan = kv[s].waitChan /\ kv'[s].closing = kv[s].closing
<1>1. rf[s] \in RaftState /\ kv[s] \in KVServer /\ DOMAIN rf = Server /\ DOMAIN kv = Server
    BY DEF Types
<1>2. /\ rf' = [rf EXCEPT ![s] = [rf[s] EXCEPT !.lastApplied = snapshot.index, !.saved = snapshot]]
      /\ kv' = [kv EXCEPT ![s] = [kv[s] EXCEPT !.state = snapshot.data, !.lastIncludedIndex = snapshot.index]]
    BY Zenon DEF installSnapshot, readServerPersistData
<1>3. /\ rf'[s] = [rf[s] EXCEPT !.lastApplied = snapshot.index, !.saved = snapshot]
      /\ kv'[s] = [kv[s] EXCEPT !.state = snapshot.data, !.lastIncludedIndex = snapshot.index]
      /\ \A t \in Server : t # s => rf'[t] = rf[t] /\ kv'[t] = kv[t]
    BY <1>1, <1>2
<1>4. /\ rf'[s].next = rf[s].next /\ rf'[s].upto = rf[s].upto
      /\ rf'[s].lastApplied = snapshot.index /\ rf'[s].saved = snapshot
    BY <1>1, <1>3 DEF RaftState
<1>5. /\ kv'[s].state = snapshot.data /\ kv'[s].lastIncludedIndex = snapshot.index
      /\ kv'[s].waitChan = kv[s].waitChan /\ kv'[s].closing = kv[s].closing
    BY <1>1, <1>3 DEF KVServer
<1> QED BY Zenon, <1>3, <1>4, <1>5 DEF installSnapshot

\* What a server is after the applier handled one committed entry
\* (KVServer.applyChecker).
LEMMA ApplyCheckerIs ==
    ASSUME Types, NEW s \in Server, NEW index \in 1..Len(log), applyChecker(s, index)
    PROVE  /\ UNCHANGED <<log, pending, snapshots, kv, calls, clerk>>
           /\ rf[s].next > rf[s].upto /\ index > rf[s].lastApplied /\ index <= Len(log)
           /\ \A t \in Server : t # s => rf'[t] = rf[t]
           /\ rf'[s].next = rf[s].lastApplied + 1 /\ rf'[s].upto = index
           /\ rf'[s].lastApplied = index /\ rf'[s].saved = rf[s].saved
<1>1. rf[s] \in RaftState /\ DOMAIN rf = Server /\ rf[s].lastApplied \in Nat /\ Len(log) \in Nat
    BY DEF Types, RaftState
<1>2. rf' = [rf EXCEPT ![s] = [rf[s] EXCEPT !.next = rf[s].lastApplied + 1, !.upto = index, !.lastApplied = index]]
    BY ZenonT(60) DEF applyChecker
<1>3. /\ rf'[s] = [rf[s] EXCEPT !.next = rf[s].lastApplied + 1, !.upto = index, !.lastApplied = index]
      /\ \A t \in Server : t # s => rf'[t] = rf[t]
    BY <1>1, <1>2
<1>4. /\ rf'[s].next = rf[s].lastApplied + 1 /\ rf'[s].upto = index
      /\ rf'[s].lastApplied = index /\ rf'[s].saved = rf[s].saved
    BY <1>1, <1>3 DEF RaftState
<1>5. index > rf[s].lastApplied /\ index <= Len(log)
    BY <1>1 DEF applyChecker
<1> QED BY Zenon, <1>3, <1>4, <1>5 DEF applyChecker

\* What a server is after a crash and StartKVServer.
LEMMA RestartIs ==
    ASSUME Types, NEW s \in Server, Restart(s)
    PROVE  /\ UNCHANGED <<log, pending, snapshots, clerk>>
           /\ \A t \in Server : t # s => rf'[t] = rf[t] /\ kv'[t] = kv[t]
           /\ rf'[s].next = rf[s].saved.index + 1 /\ rf'[s].upto = rf[s].saved.index
           /\ rf'[s].lastApplied = rf[s].saved.index
           /\ rf'[s].saved.index = rf[s].saved.index /\ rf'[s].saved.data = rf[s].saved.data
           /\ kv'[s].state = rf[s].saved.data /\ kv'[s].lastIncludedIndex = 0
           /\ kv'[s].waitChan = << >> /\ kv'[s].closing = {}
<1>1. DOMAIN rf = Server /\ DOMAIN kv = Server
    BY ZenonT(60) DEF Types
<1> QED BY <1>1 DEF Restart, startRaft, StartKVServer, readServerPersistData

\* What Raft's commit of an entry changes.
LEMMA CommitIs ==
    ASSUME Machine, Types, Commit
    PROVE  \E entry \in pending :
            /\ entry.op \in Op /\ log' = Append(log, entry.op) /\ Len(log') = Len(log) + 1 /\ Len(log) \in Nat
            /\ \A i \in DOMAIN log : i \in DOMAIN log' /\ log'[i] = log[i]
            /\ log'[Len(log) + 1] = entry.op /\ DOMAIN log' = DOMAIN log \cup {Len(log) + 1}
            /\ \A n \in 0..Len(log) : machine'[n] = machine[n]
            /\ machine'[Len(log) + 1] = applyOp(machine[Len(log)], entry.op)
<1>1. PICK entry \in pending : log' = Append(log, entry.op)
    BY DEF Commit
<1>2. entry.op \in Op /\ log \in Seq(Op) /\ Len(log) \in Nat
    BY DEF Types
<1>3. /\ Len(log') = Len(log) + 1
      /\ \A i \in DOMAIN log : i \in DOMAIN log' /\ log'[i] = log[i]
      /\ log'[Len(log) + 1] = entry.op /\ DOMAIN log' = DOMAIN log \cup {Len(log) + 1}
    BY SMTT(40), <1>1, <1>2
<1>4. /\ \A n \in 0..Len(log) : machineOf(log')[n] = machineOf(log)[n]
      /\ machineOf(log')[Len(log) + 1] = applyOp(machineOf(log)[Len(log)], entry.op)
    BY <1>1, <1>2 DEF Machine
<1> QED BY <1>1, <1>2, <1>3, <1>4 DEF machine

\* Every step keeps the indexes of a server in order and within the log.
LEMMA IndexesNext == IInv /\ [Next]_vars => Indexes'
<1> SUFFICES ASSUME Machine, Types, Indexes, [Next]_vars PROVE Indexes'
    BY DEF IInv
<1>1. /\ Len(log) \in Nat
      /\ \A s \in Server : /\ rf[s].next \in Nat /\ rf[s].upto \in Nat /\ rf[s].lastApplied \in Nat
                           /\ rf[s].saved.index \in Nat /\ kv[s].lastIncludedIndex \in Nat
      /\ \A snapshot \in snapshots : snapshot.index \in Nat
      /\ \A entry \in pending : entry.index \in Nat
    BY DEF Types, RaftState, KVServer, Saved
<1>2. CASE Quiet
    <2>1. \A t \in Server : InLog(t)'
        BY <1>2 DEF Quiet, Indexes, InLog
    <2> QED BY <1>2, <2>1 DEF Quiet, Indexes
<1>3. ASSUME NEW s \in Server, NEW takeSnapshot \in BOOLEAN, applyHandler(s, takeSnapshot) PROVE Indexes'
    <2>1. /\ UNCHANGED <<log, pending>> /\ rf[s].next <= rf[s].upto
          /\ \A t \in Server : t # s => rf'[t] = rf[t] /\ kv'[t] = kv[t]
          /\ rf'[s].next = rf[s].next + 1 /\ rf'[s].upto = rf[s].upto /\ rf'[s].lastApplied = rf[s].lastApplied
          /\ kv'[s].lastIncludedIndex = kv[s].lastIncludedIndex
        BY ZenonT(60), <1>3, ApplyHandlerIs
    <2>2. /\ rf'[s].saved.index \in {rf[s].saved.index, rf[s].next}
          /\ \A snapshot \in snapshots' : snapshot \in snapshots \/ snapshot.index = rf[s].next
        BY SMTT(40), <1>1, <1>3, ApplyHandlerIs
    <2>3. InLog(s)'
        BY SMTT(40), <1>1, <2>1, <2>2 DEF Indexes, InLog
    <2>4. ASSUME NEW t \in Server, t # s PROVE InLog(t)'
        BY <2>1, <2>4 DEF Indexes, InLog
    <2>5. \A snapshot \in snapshots' : snapshot.index <= Len(log')
        BY <1>1, <2>1, <2>2 DEF Indexes, InLog
    <2> QED BY ZenonT(60), <2>1, <2>3, <2>4, <2>5 DEF Indexes
<1>4. ASSUME NEW s \in Server, NEW snapshot \in snapshots, installSnapshot(s, snapshot) PROVE Indexes'
    <2>1. UNCHANGED <<log, pending, snapshots>>
        BY ZenonT(60), <1>4, InstallSnapshotIs
    <2>2. InLog(s)'
        BY <1>1, <1>4, InstallSnapshotIs DEF Indexes, InLog
    <2>3. ASSUME NEW t \in Server, t # s PROVE InLog(t)'
        BY <1>4, <2>3, InstallSnapshotIs DEF Indexes, InLog
    <2> QED BY <2>1, <2>2, <2>3 DEF Indexes
<1>5. ASSUME NEW s \in Server, NEW index \in 1..Len(log), applyChecker(s, index) PROVE Indexes'
    <2>1. UNCHANGED <<log, pending, snapshots>>
        BY ZenonT(60), <1>5, ApplyCheckerIs
    <2>2. InLog(s)'
        BY SMTT(40), <1>1, <1>5, ApplyCheckerIs DEF Indexes, InLog
    <2>3. ASSUME NEW t \in Server, t # s PROVE InLog(t)'
        BY <1>5, <2>3, ApplyCheckerIs DEF Indexes, InLog
    <2> QED BY ZenonT(60), <2>1, <2>2, <2>3 DEF Indexes
<1>6. ASSUME NEW s \in Server, Restart(s) PROVE Indexes'
    <2>1. UNCHANGED <<log, pending, snapshots>>
        BY ZenonT(60), <1>6, RestartIs
    <2>2. InLog(s)'
        BY SMTT(40), <1>1, <1>6, RestartIs DEF Indexes, InLog
    <2>3. ASSUME NEW t \in Server, t # s PROVE InLog(t)'
        BY ZenonT(60), <1>6, <2>3, RestartIs DEF Indexes, InLog
    <2> QED BY <2>1, <2>2, <2>3 DEF Indexes
<1>7. CASE Commit
    <2>1. Len(log') = Len(log) + 1
        BY <1>7, CommitIs
    <2>2. \A e \in pending' : e.index > Len(log')
        BY <1>7, <2>1 DEF Commit
    <2>3. UNCHANGED <<rf, snapshots, kv>>
        BY <1>7 DEF Commit
    <2>4. ASSUME NEW t \in Server PROVE InLog(t)'
        BY <1>1, <2>1, <2>3 DEF Indexes, InLog
    <2> QED BY <1>1, <2>1, <2>2, <2>3, <2>4 DEF Indexes
<1> QED BY <1>2, <1>3, <1>4, <1>5, <1>6, <1>7, Steps

\* The states after the entries of the log, before and after an entry is added.
LEMMA LogMachine ==
    ASSUME Machine, Types
    PROVE  /\ machine[0] = noState /\ Len(log) \in Nat /\ DOMAIN log = 1..Len(log)
           /\ \A n \in 0..Len(log) : machine[n] \in State
           /\ \A n \in DOMAIN log : machine[n] = applyOp(machine[n - 1], log[n]) /\ machine[n - 1] \in State /\ log[n] \in Op
<1>1. log \in Seq(Op) /\ Len(log) \in Nat /\ DOMAIN log = 1..Len(log)
    BY DEF Types
<1>2. \A n \in DOMAIN log : n - 1 \in 0..Len(log) /\ log[n] \in Op
    BY <1>1
<1>3. \A n \in 0..Len(log) : machine[n] \in State
    BY <1>1 DEF Machine, machine
<1>4. machine[0] = noState /\ \A n \in DOMAIN log : machine[n] = applyOp(machine[n - 1], log[n])
    BY ZenonT(60), <1>1 DEF Machine, machine
<1> QED BY <1>1, <1>2, <1>3, <1>4

\* The entry that Commit appends, and the states before it.
LEMMA CommitFacts ==
    ASSUME Machine, Types, Commit
    PROVE  /\ DOMAIN log = 1..Len(log) /\ machine[Len(log)] \in State /\ Len(log) + 1 \notin DOMAIN log
           /\ \A i \in DOMAIN log : machine'[i] = machine[i]
BY LogMachine, CommitIs

\* The indexes of a server are numbers.
LEMMA IndexTypes ==
    ASSUME Types, NEW s \in Server
    PROVE  /\ rf[s].next \in Nat /\ kv[s].lastIncludedIndex \in Nat
           /\ rf[s].next <= kv[s].lastIncludedIndex \/ rf[s].next > kv[s].lastIncludedIndex
<1>1. rf[s].next \in Nat /\ kv[s].lastIncludedIndex \in Nat
    BY ZenonT(60) DEF Types, RaftState, KVServer
<1> QED BY <1>1

\* What TypeOK says of a server.
LEMMA ServerTypes ==
    ASSUME Types, Indexes, Owned, NEW s \in Server
    PROVE  /\ rf[s].next \in Nat \ {0}
           /\ {rf[s].upto, rf[s].lastApplied, rf[s].saved.index} \subseteq 0..Len(log)
           /\ kv[s].state \in State /\ kv[s].lastIncludedIndex \in 0..Len(log)
           /\ kv[s].closing \subseteq DOMAIN kv[s].waitChan
<1>1. rf[s] \in RaftState /\ kv[s] \in KVServer /\ InLog(s) /\ OwnedAt(s) /\ Len(log) \in Nat
    BY DEF Types, Indexes, Owned
<1>2. /\ rf[s].next \in Nat \ {0} /\ rf[s].upto \in Nat /\ rf[s].lastApplied \in Nat
      /\ rf[s].saved.index \in Nat /\ kv[s].state \in State /\ kv[s].lastIncludedIndex \in Nat
    BY ZenonT(60), <1>1 DEF RaftState, Saved, KVServer
<1> QED BY SMTT(40), <1>1, <1>2 DEF InLog, OwnedAt

\* The log is a sequence.
LEMMA LogType == Types => Len(log) \in Nat /\ log \in Seq(Op)
BY DEF Types

\* Every step keeps each server, and each snapshot, at the state its prefix of the
\* log gives.
LEMMA StatesNext == IInv /\ [Next]_vars => States'
<1> SUFFICES ASSUME Machine, Types, Indexes, States, [Next]_vars PROVE States'
    BY DEF IInv
<1> DEFINE Prefix(s) == kv[s].state = machine[reached(s)] /\ rf[s].saved.data = machine[rf[s].saved.index]
<1>1. /\ Len(log) \in Nat
      /\ \A s \in Server : /\ rf[s].next \in Nat \ {0} /\ rf[s].upto \in Nat /\ rf[s].lastApplied \in Nat
                           /\ rf[s].saved.index \in Nat /\ kv[s].lastIncludedIndex \in Nat
      /\ \A snapshot \in snapshots : snapshot.index \in Nat
    BY SMTT(40) DEF Types, RaftState, KVServer, Saved
<1>2. \A s \in Server : InLog(s) /\ Prefix(s)
    BY DEF Indexes, States, StateIsLogPrefix
<1>3. SUFFICES ASSUME TRUE
               PROVE  /\ \A s \in Server : Prefix(s)'
                      /\ \A snapshot \in snapshots' : snapshot.data = machine'[snapshot.index]
    BY DEF States, StateIsLogPrefix
<1>4. log' = log => machine' = machine
    BY DEF machine
<1>5. CASE Quiet
    <2>1. machine' = machine /\ rf' = rf /\ snapshots' = snapshots
        BY ZenonT(60), <1>4, <1>5 DEF Quiet
    <2>2. ASSUME NEW t \in Server PROVE Prefix(t)'
        BY ZenonT(60), <1>2, <1>5, <2>1 DEF Quiet, reached
    <2> QED BY <2>1, <2>2 DEF States
<1>6. ASSUME NEW s \in Server, NEW takeSnapshot \in BOOLEAN, applyHandler(s, takeSnapshot)
      PROVE  (\A t \in Server : Prefix(t)') /\ \A snapshot \in snapshots' : snapshot.data = machine'[snapshot.index]
    <2> DEFINE index == rf[s].next
               state == applyOp(kv[s].state, log[index])
    <2>1. machine' = machine
        BY ZenonT(60), <1>4, <1>6, ApplyHandlerIs
    <2>2. ASSUME NEW t \in Server, t # s PROVE Prefix(t)'
        BY <1>2, <1>6, <2>1, <2>2, ApplyHandlerIs DEF reached
    <2>3. CASE index <= kv[s].lastIncludedIndex
        <3>1. UNCHANGED <<kv, snapshots>> /\ rf'[s].saved = rf[s].saved /\ rf'[s].next = rf[s].next + 1
            BY ZenonT(60), <1>6, <2>3, ApplyHandlerIs
        <3>2. reached(s)' = reached(s)
            BY <1>1, <2>3, <3>1 DEF reached
        <3>3. Prefix(s)'
            BY <1>2, <2>1, <3>1, <3>2
        <3> QED BY ZenonT(60), <2>1, <2>2, <3>1, <3>3 DEF States
    <2>4. CASE index > kv[s].lastIncludedIndex
        <3>1. /\ kv'[s].state = state /\ rf'[s].next = index + 1 /\ kv'[s].lastIncludedIndex = kv[s].lastIncludedIndex
              /\ rf'[s].saved \in {rf[s].saved, [index |-> index, data |-> state]}
              /\ snapshots' \subseteq snapshots \cup {[index |-> index, data |-> state]}
            BY ZenonT(60), <1>6, <2>4, ApplyHandlerIs
        <3>2. reached(s) = index - 1 /\ reached(s)' = index
            BY SMTT(40), <1>1, <2>4, <3>1 DEF reached
        <3>3. index \in DOMAIN log
            <4>1. index <= rf[s].upto
                BY ZenonT(60), <1>6, ApplyHandlerIs
            <4> QED BY SMTT(40), <1>1, <1>2, <4>1, LogMachine DEF InLog
        <3>4. state = machine[index]
            BY ZenonT(60), <1>2, <3>2, <3>3, LogMachine
        <3> HIDE DEF state, index
        <3>5. Prefix(s)'
            BY SMTT(40), <1>2, <2>1, <3>1, <3>2, <3>4
        <3>6. \A snapshot \in snapshots' : snapshot.data = machine'[snapshot.index]
            BY SMTT(40), <2>1, <3>1, <3>4 DEF States
        <3> QED BY ZenonT(60), <2>2, <3>5, <3>6
    <2> QED BY SMTT(40), <1>1, <2>3, <2>4
<1>7. ASSUME NEW s \in Server, NEW snapshot \in snapshots, installSnapshot(s, snapshot)
      PROVE  (\A t \in Server : Prefix(t)') /\ \A d \in snapshots' : d.data = machine'[d.index]
    <2>1. machine' = machine /\ snapshots' = snapshots
        BY ZenonT(60), <1>4, <1>7, InstallSnapshotIs
    <2>2. ASSUME NEW t \in Server, t # s PROVE Prefix(t)'
        BY <1>2, <1>7, <2>1, <2>2, InstallSnapshotIs DEF reached
    <2>3. /\ kv'[s].state = snapshot.data /\ kv'[s].lastIncludedIndex = snapshot.index
          /\ rf'[s].next = rf[s].next /\ rf'[s].saved = snapshot /\ snapshot.index > rf[s].lastApplied
        BY ZenonT(60), <1>7, InstallSnapshotIs
    <2>4. reached(s)' = snapshot.index
        BY SMTT(40), <1>1, <1>2, <2>3 DEF reached, InLog
    <2>5. Prefix(s)'
        BY <2>1, <2>3, <2>4 DEF States
    <2> QED BY <2>1, <2>2, <2>5 DEF States
<1>8. ASSUME NEW s \in Server, NEW index \in 1..Len(log), applyChecker(s, index)
      PROVE  (\A t \in Server : Prefix(t)') /\ \A d \in snapshots' : d.data = machine'[d.index]
    <2>1. machine' = machine /\ snapshots' = snapshots /\ kv' = kv
        BY ZenonT(60), <1>4, <1>8, ApplyCheckerIs
    <2>2. ASSUME NEW t \in Server, t # s PROVE Prefix(t)'
        BY <1>2, <1>8, <2>1, <2>2, ApplyCheckerIs DEF reached
    <2>3. rf'[s].next = rf[s].lastApplied + 1 /\ rf'[s].saved = rf[s].saved /\ rf[s].next > rf[s].upto
        BY <1>8, ApplyCheckerIs
    <2>4. reached(s)' = rf[s].lastApplied /\ reached(s) = rf[s].lastApplied
        <3>1. InLog(s)
            BY <1>2
        <3>2. reached(s)' = rf[s].lastApplied
            BY SMTT(40), <1>1, <2>1, <2>3, <3>1 DEF reached, InLog
        <3>3. reached(s) = rf[s].lastApplied
            <4>1. rf[s].next = rf[s].upto + 1
                BY SMTT(40), <1>1, <2>3, <3>1 DEF InLog
            <4> QED BY SMTT(40), <1>1, <3>1, <4>1 DEF reached, InLog
        <3> QED BY <3>2, <3>3
    <2>5. Prefix(s)'
        BY ZenonT(60), <1>2, <2>1, <2>3, <2>4
    <2> QED BY <2>1, <2>2, <2>5 DEF States
<1>9. ASSUME NEW s \in Server, Restart(s)
      PROVE  (\A t \in Server : Prefix(t)') /\ \A d \in snapshots' : d.data = machine'[d.index]
    <2>1. machine' = machine /\ snapshots' = snapshots
        BY ZenonT(60), <1>4, <1>9, RestartIs
    <2>2. ASSUME NEW t \in Server, t # s PROVE Prefix(t)'
        BY ZenonT(60), <1>2, <1>9, <2>1, <2>2, RestartIs DEF reached
    <2>3. /\ rf'[s].next = rf[s].saved.index + 1 /\ rf'[s].saved.index = rf[s].saved.index
          /\ rf'[s].saved.data = rf[s].saved.data
          /\ kv'[s].state = rf[s].saved.data /\ kv'[s].lastIncludedIndex = 0
        BY <1>9, RestartIs
    <2>4. reached(s)' = rf[s].saved.index
        BY <1>1, <2>3 DEF reached
    <2>5. Prefix(s)'
        BY ZenonT(60), <1>2, <2>1, <2>3, <2>4
    <2> QED BY <2>1, <2>2, <2>5 DEF States
<1>10. CASE Commit
    <2>1. UNCHANGED <<rf, snapshots, kv>>
        BY <1>10 DEF Commit
    <2>2. \A n \in 0..Len(log) : machine'[n] = machine[n]
        BY ZenonT(60), <1>10, CommitIs
    <2>3. ASSUME NEW t \in Server PROVE Prefix(t)'
        <3>1. reached(t)' = reached(t) /\ reached(t) \in 0..Len(log) /\ rf[t].saved.index \in 0..Len(log)
            BY SMTT(40), <1>1, <1>2, <2>1 DEF reached, InLog
        <3> QED BY ZenonT(60), <1>2, <2>1, <2>2, <3>1
    <2>4. \A d \in snapshots : d.index \in 0..Len(log)
        BY <1>1 DEF Indexes
    <2> QED BY <2>1, <2>2, <2>3, <2>4 DEF States
<1> QED BY <1>5, <1>6, <1>7, <1>8, <1>9, <1>10, Steps

\* Every step keeps lastSeqNum at the newest operation of a client in the prefix.
LEMMA SessionsNext == IInv /\ [Next]_vars => Sessions'
<1> SUFFICES ASSUME Machine, Types, Sessions, Clerks, [Next]_vars PROVE Sessions'
    BY DEF IInv
<1>1. CASE log' = log
    BY <1>1 DEF Sessions, machine
<1>2. CASE Commit
    <2>1. PICK entry \in pending :
            /\ entry.op \in Op /\ Len(log') = Len(log) + 1 /\ Len(log) \in Nat
            /\ \A i \in DOMAIN log : i \in DOMAIN log' /\ log'[i] = log[i]
            /\ log'[Len(log) + 1] = entry.op /\ DOMAIN log' = DOMAIN log \cup {Len(log) + 1}
            /\ machine'[Len(log) + 1] = applyOp(machine[Len(log)], entry.op)
        BY Zenon, <1>2, CommitIs
    <2> DEFINE op == entry.op
               before == machine[Len(log)]
    <2>2. before \in State /\ before.clientSeq \in [Client -> Nat]
        BY <2>1, LogMachine DEF State
    <2>3. op.ClientID \in Client /\ op.SeqNum \in Nat /\ op.SeqNum >= 1
        BY <2>1 DEF Op, Clerks, Ops, Current
    <2> HIDE DEF op, before
    <2>4. \A c \in Client : machine'[Len(log')].clientSeq[c] =
            IF c = op.ClientID /\ before.clientSeq[c] < op.SeqNum THEN op.SeqNum ELSE before.clientSeq[c]
        <3>1. machine'[Len(log')] = applyOp(before, op)
            BY <2>1 DEF op, before
        <3>2. applyToStateMachine(before, op).clientSeq = [before.clientSeq EXCEPT ![op.ClientID] = op.SeqNum]
            BY DEF applyToStateMachine
        <3>3. CASE before.clientSeq[op.ClientID] >= op.SeqNum
            BY <2>2, <2>3, <3>1, <3>3 DEF applyOp
        <3>4. CASE ~(before.clientSeq[op.ClientID] >= op.SeqNum)
            <4>1. machine'[Len(log')].clientSeq = [before.clientSeq EXCEPT ![op.ClientID] = op.SeqNum]
                BY <3>1, <3>2, <3>4 DEF applyOp
            <4> QED BY <2>2, <2>3, <3>4, <4>1
        <3> QED BY <3>3, <3>4
    <2>5. ASSUME NEW c \in Client
          PROVE  /\ \A i \in DOMAIN log' : log'[i].ClientID = c => log'[i].SeqNum <= machine'[Len(log')].clientSeq[c]
                 /\ machine'[Len(log')].clientSeq[c] # 0 =>
                    \E i \in DOMAIN log' : log'[i].ClientID = c /\ log'[i].SeqNum = machine'[Len(log')].clientSeq[c]
        <3> DEFINE last == machine'[Len(log')].clientSeq[c]
        <3>1. /\ \A i \in DOMAIN log : log[i].ClientID = c => log[i].SeqNum <= before.clientSeq[c]
              /\ before.clientSeq[c] # 0 => \E i \in DOMAIN log : log[i].ClientID = c /\ log[i].SeqNum = before.clientSeq[c]
              /\ before.clientSeq[c] \in Nat
              /\ \A i \in DOMAIN log : log[i].SeqNum \in Nat
            BY ZenonT(60), <2>2, LogMachine DEF Sessions, before, Op
        <3>2. last = IF c = op.ClientID /\ before.clientSeq[c] < op.SeqNum THEN op.SeqNum ELSE before.clientSeq[c]
            BY <2>4
        <3> HIDE DEF last
        <3>3. ASSUME NEW i \in DOMAIN log', log'[i].ClientID = c PROVE log'[i].SeqNum <= last
            <4>1. CASE i \in DOMAIN log
                BY SMTT(40), <2>1, <2>3, <3>1, <3>2, <3>3, <4>1
            <4>2. CASE i = Len(log) + 1
                BY <2>1, <2>3, <3>1, <3>2, <3>3, <4>2 DEF op
            <4> QED BY ZenonT(60), <2>1, <4>1, <4>2
        <3>4. ASSUME last # 0 PROVE \E i \in DOMAIN log' : log'[i].ClientID = c /\ log'[i].SeqNum = last
            <4>1. CASE c = op.ClientID /\ before.clientSeq[c] < op.SeqNum
                <5> Len(log) + 1 \in DOMAIN log'
                    BY ZenonT(60), <2>1
                <5> QED BY <2>1, <3>2, <4>1 DEF op
            <4>2. CASE ~(c = op.ClientID /\ before.clientSeq[c] < op.SeqNum)
                BY ZenonT(60), <2>1, <3>1, <3>2, <3>4, <4>2
            <4> QED BY ZenonT(60), <4>1, <4>2
        <3> QED BY ZenonT(60), <3>3, <3>4 DEF last
    <2> QED BY <2>5 DEF Sessions
<1>3. log' = log \/ Commit
    BY ZenonT(60), Steps, ApplyHandlerIs, InstallSnapshotIs, ApplyCheckerIs, RestartIs DEF Quiet
<1> QED BY <1>1, <1>2, <1>3
---------------------------------------------------------------------------
(* Calls and channels *)

\* A handler's step: its call goes on as the one in R, or is gone.
Replaces(call, R) ==
    /\ calls' = (calls \ {call}) \cup R /\ R \subseteq Call
    /\ \A r \in R : /\ r.op = call.op /\ r.srv = call.srv /\ (r.live => call.live)
                    /\ \A other \in R : other = r

\* answered changes the stage and the reply of one call, or drops it when its
\* caller is gone.
LEMMA AnsweredIs ==
    ASSUME Types, NEW call \in calls, NEW err \in {"OK", "ErrWrongLeader"}, NEW value \in Value,
           calls' = answered(call, err, value)
    PROVE  \E R : /\ Replaces(call, R)
                  /\ \A r \in R : r.live /\ r.stage = "answered" /\ r.Err = err /\ r.Value = value
<1> DEFINE a == [call EXCEPT !.stage = "answered", !.index = 0, !.Err = err, !.Value = value]
           R == IF call.live THEN {a} ELSE {}
<1>1. call \in Call
    BY DEF Types
<1>2. /\ a \in Call /\ a.op = call.op /\ a.srv = call.srv /\ a.live = call.live
      /\ a.stage = "answered" /\ a.Err = err /\ a.Value = value
    BY Zenon, <1>1 DEF Call
<1>3. calls' = (calls \ {call}) \cup R
    BY DEF answered
<1> HIDE DEF a
<1>4. Replaces(call, R) /\ \A r \in R : r.live /\ r.stage = "answered" /\ r.Err = err /\ r.Value = value
    BY <1>2, <1>3 DEF Replaces
<1> HIDE DEF R
<1> QED BY <1>4

\* What a handler that is not at the leader, or is stale, changes.
LEMMA HandlerRefusesIs ==
    ASSUME Types, NEW call \in calls, HandlerRefuses(call)
    PROVE  /\ call.stage = "sent" /\ UNCHANGED <<log, pending, rf, snapshots, kv, clerk>>
           /\ \E R : /\ Replaces(call, R)
                     /\ \A r \in R : r.live /\ r.stage = "answered" /\ r.Err = "ErrWrongLeader"
<1> << >> \in Value
    BY SMTT(40) DEF Value
<1> QED BY AnsweredIs DEF HandlerRefuses

\* What rf.Start of a handler changes.
LEMMA StartIs ==
    ASSUME Types, NEW call \in calls, NEW index \in freeIndexes(call.srv), Get(call, index) \/ PutAppend(call, index)
    PROVE  /\ call.stage = "sent" /\ UNCHANGED <<log, rf, snapshots, kv, clerk>> /\ index \in Nat
           /\ pending' \subseteq pending \cup {[index |-> index, op |-> call.op]}
           /\ \E R : /\ Replaces(call, R)
                     /\ \A r \in R : r.stage = "started" /\ r.index = index
<1> DEFINE a == [call EXCEPT !.stage = "started", !.index = index]
<1>1. call \in Call /\ call.srv \in Server
    BY Zenon DEF Types, Call
<1>2. index \in Nat
    <2>1. rf[call.srv].lastApplied \in Nat
        BY <1>1 DEF Types, RaftState
    <2> QED BY <2>1 DEF freeIndexes
<1>3. /\ a \in Call /\ a.op = call.op /\ a.srv = call.srv /\ a.live = call.live
      /\ a.stage = "started" /\ a.index = index
    BY Zenon, <1>1, <1>2 DEF Call
<1>4. calls' = (calls \ {call}) \cup {a}
    BY DEF Get, PutAppend, startInRaft
<1>5. pending' \subseteq pending \cup {[index |-> index, op |-> call.op]}
    BY DEF Get, PutAppend, startInRaft
<1>6. call.stage = "sent" /\ UNCHANGED <<log, rf, snapshots, kv, clerk>>
    BY DEF Get, PutAppend, startInRaft
<1> HIDE DEF a
<1>7. Replaces(call, {a})
    BY <1>3, <1>4 DEF Replaces
<1> QED BY <1>2, <1>3, <1>5, <1>6, <1>7

\* What a handler that asks for its channel changes (getWaitCh).
LEMMA HandlerWaitsIs ==
    ASSUME Types, NEW call \in calls, HandlerWaits(call)
    PROVE  /\ call.stage = "started" /\ UNCHANGED <<log, pending, rf, snapshots, clerk>>
           /\ \A t \in Server : t # call.srv => kv'[t] = kv[t]
           /\ kv'[call.srv].waitChan = getWaitCh(kv[call.srv].waitChan, call.index)
           /\ kv'[call.srv].closing = kv[call.srv].closing
           /\ \E r : /\ Replaces(call, {r})
                     /\ r.stage = "waiting" /\ r.index = call.index
<1> DEFINE a == [call EXCEPT !.stage = "waiting"]
<1>1. call \in Call /\ call.srv \in Server
    BY Zenon DEF Types, Call
<1>2. /\ a \in Call /\ a.op = call.op /\ a.srv = call.srv /\ a.live = call.live
      /\ a.stage = "waiting" /\ a.index = call.index
    BY Zenon, <1>1 DEF Call
<1>3. calls' = (calls \ {call}) \cup {a}
    BY DEF HandlerWaits
<1> HIDE DEF a
<1>4. Replaces(call, {a})
    BY <1>2, <1>3 DEF Replaces
<1>5. kv[call.srv] \in KVServer /\ DOMAIN kv = Server
    BY <1>1 DEF Types
<1>6. kv' = [kv EXCEPT ![call.srv] = [kv[call.srv] EXCEPT !.waitChan = getWaitCh(kv[call.srv].waitChan, call.index)]]
    BY DEF HandlerWaits
<1>7. /\ kv'[call.srv] = [kv[call.srv] EXCEPT !.waitChan = getWaitCh(kv[call.srv].waitChan, call.index)]
      /\ \A t \in Server : t # call.srv => kv'[t] = kv[t]
    BY <1>1, <1>5, <1>6
<1>8. /\ kv'[call.srv].waitChan = getWaitCh(kv[call.srv].waitChan, call.index)
      /\ kv'[call.srv].closing = kv[call.srv].closing
    BY <1>5, <1>7 DEF KVServer
<1> QED BY Zenon, <1>2, <1>4, <1>7, <1>8 DEF HandlerWaits

\* What a handler that gives up changes.
LEMMA HandlerTimesOutIs ==
    ASSUME Types, NEW call \in calls, HandlerTimesOut(call)
    PROVE  /\ call.stage = "waiting" /\ UNCHANGED <<log, pending, rf, snapshots, clerk>>
           /\ \A t \in Server : t # call.srv => kv'[t] = kv[t]
           /\ kv'[call.srv].waitChan = kv[call.srv].waitChan
           /\ kv'[call.srv].closing = kv[call.srv].closing \cup {call.index}
           /\ \E R : /\ Replaces(call, R)
                     /\ \A r \in R : r.live /\ r.stage = "answered" /\ r.Err = "ErrWrongLeader"
<1> << >> \in Value
    BY DEF Value
<1>1. call.srv \in Server
    BY Zenon DEF Types, Call
<1>2. \E R : Replaces(call, R) /\ \A r \in R : r.live /\ r.stage = "answered" /\ r.Err = "ErrWrongLeader"
    BY AnsweredIs DEF HandlerTimesOut
<1>3. kv[call.srv] \in KVServer /\ DOMAIN kv = Server
    BY <1>1 DEF Types
<1>4. kv' = [kv EXCEPT ![call.srv] = [kv[call.srv] EXCEPT !.closing = kv[call.srv].closing \cup {call.index}]]
    BY DEF HandlerTimesOut, closeLater
<1>5. /\ kv'[call.srv] = [kv[call.srv] EXCEPT !.closing = kv[call.srv].closing \cup {call.index}]
      /\ \A t \in Server : t # call.srv => kv'[t] = kv[t]
    BY ZenonT(60), <1>1, <1>3, <1>4
<1>6. /\ kv'[call.srv].waitChan = kv[call.srv].waitChan
      /\ kv'[call.srv].closing = kv[call.srv].closing \cup {call.index}
    BY <1>3, <1>5 DEF KVServer
<1> QED BY <1>2, <1>5, <1>6 DEF HandlerTimesOut

\* What a handler that receives from its channel changes.
LEMMA HandlerReceivesIs ==
    ASSUME Types, Owned, NEW call \in calls, HandlerReceives(call)
    PROVE  LET s == call.srv
               message == kv[s].waitChan[call.index][1]
           IN  /\ call.stage = "waiting" /\ UNCHANGED <<log, pending, rf, snapshots, clerk>>
               /\ call.index \in DOMAIN kv[s].waitChan /\ kv[s].waitChan[call.index] # << >>
               /\ \A t \in Server : t # s => kv'[t] = kv[t]
               /\ DOMAIN kv'[s].waitChan = DOMAIN kv[s].waitChan
               /\ \A i \in DOMAIN kv[s].waitChan : kv'[s].waitChan[i] \in {kv[s].waitChan[i], << >>}
               /\ kv'[s].closing = kv[s].closing \cup {call.index}
               /\ \E R : /\ Replaces(call, R)
                         /\ \A r \in R : /\ r.live /\ r.stage = "answered"
                                         /\ \/ r.Err = "ErrWrongLeader"
                                            \/ sameOp(message.op, call.op) /\ r.Value = message.Value
<1> DEFINE s == call.srv
           message == kv[s].waitChan[call.index][1]
           after == [kv[s].waitChan EXCEPT ![call.index] = << >>]
<1> << >> \in Value
    BY DEF Value
<1>1. s \in Server /\ call.stage = "waiting" /\ UNCHANGED <<log, pending, rf, snapshots, clerk>>
      /\ kv[s].waitChan[call.index] # << >>
    BY Zenon DEF Types, Call, HandlerReceives
<1>2. call.index \in DOMAIN kv[s].waitChan
    BY <1>1 DEF Owned, OwnedAt, Held
<1>3. kv[s] \in KVServer /\ DOMAIN kv = Server /\ kv[s].waitChan \in WaitChans
    BY ZenonT(60), <1>1 DEF Types, KVServer
<1>4. message.Value \in Value
    <2>1. message \in Message
        BY SMTT(40), <1>1, <1>2, <1>3, ChannelType
    <2> QED BY ZenonT(60), <2>1 DEF Message
<1>5. \/ calls' = answered(call, "ErrWrongLeader", << >>)
      \/ sameOp(message.op, call.op) /\ calls' = answered(call, "OK", message.Value)
    BY ZenonT(60) DEF HandlerReceives
<1>6. kv' = [kv EXCEPT ![s] = [kv[s] EXCEPT !.closing = kv[s].closing \cup {call.index}, !.waitChan = after]]
    BY Zenon, <1>1, <1>3 DEF HandlerReceives, KVServer
<1>7. \E R : /\ Replaces(call, R)
            /\ \A r \in R : /\ r.live /\ r.stage = "answered"
                            /\ \/ r.Err = "ErrWrongLeader"
                               \/ sameOp(message.op, call.op) /\ r.Value = message.Value
    <2> HIDE DEF message
    <2>1. CASE calls' = answered(call, "ErrWrongLeader", << >>)
        BY SMTT(40), ZenonT(60), <2>1, AnsweredIs
    <2>2. CASE sameOp(message.op, call.op) /\ calls' = answered(call, "OK", message.Value)
        BY <1>4, <2>2, AnsweredIs
    <2> QED BY ZenonT(60), <1>5, <2>1, <2>2
<1>8. DOMAIN after = DOMAIN kv[s].waitChan /\ \A i \in DOMAIN kv[s].waitChan : after[i] \in {kv[s].waitChan[i], << >>}
    BY <1>2
<1> HIDE DEF after
<1>9. /\ kv'[s] = [kv[s] EXCEPT !.closing = kv[s].closing \cup {call.index}, !.waitChan = after]
      /\ \A t \in Server : t # s => kv'[t] = kv[t]
    BY Zenon, <1>1, <1>3, <1>6
<1>10. kv'[s].waitChan = after /\ kv'[s].closing = kv[s].closing \cup {call.index}
    BY <1>3, <1>9 DEF KVServer
<1> QED BY Zenon, <1>1, <1>2, <1>7, <1>8, <1>9, <1>10

\* What the goroutine that deletes a channel changes (closeWaitCh).
LEMMA CloseIs ==
    ASSUME Types, NEW s \in Server, NEW index \in kv[s].closing, closeWaitCh(s, index)
    PROVE  /\ UNCHANGED <<log, pending, rf, snapshots, calls, clerk>>
           /\ \A t \in Server : t # s => kv'[t] = kv[t]
           /\ DOMAIN kv'[s].waitChan = DOMAIN kv[s].waitChan \ {index}
           /\ \A i \in DOMAIN kv'[s].waitChan : kv'[s].waitChan[i] = kv[s].waitChan[i]
           /\ kv'[s].closing = kv[s].closing \ {index}
<1> DEFINE after == [i \in DOMAIN kv[s].waitChan \ {index} |-> kv[s].waitChan[i]]
<1>1. kv[s] \in KVServer /\ DOMAIN kv = Server
    BY DEF Types
<1>2. kv' = [kv EXCEPT ![s] = [kv[s] EXCEPT !.closing = kv[s].closing \ {index}, !.waitChan = after]]
    BY ZenonT(60), <1>1 DEF closeWaitCh, KVServer
<1>3. DOMAIN after = DOMAIN kv[s].waitChan \ {index} /\ \A i \in DOMAIN after : after[i] = kv[s].waitChan[i]
    OBVIOUS
<1> HIDE DEF after
<1>4. /\ kv'[s] = [kv[s] EXCEPT !.closing = kv[s].closing \ {index}, !.waitChan = after]
      /\ \A t \in Server : t # s => kv'[t] = kv[t]
    BY <1>1, <1>2
<1>5. kv'[s].waitChan = after /\ kv'[s].closing = kv[s].closing \ {index}
    BY <1>1, <1>4 DEF KVServer
<1> QED BY Zenon, <1>3, <1>4, <1>5 DEF closeWaitCh

\* What Clerk.Get or Clerk.PutAppend changes when called.
LEMMA ClerkCallsIs ==
    ASSUME Types, NEW c \in Client, NEW op \in Op, ClerkCalls(c, op)
    PROVE  /\ UNCHANGED <<log, pending, rf, snapshots, kv, calls>>
           /\ clerk[c].op = {} /\ op.ClientID = c /\ op.SeqNum = clerk[c].seqNum
           /\ \A d \in Client : d # c => clerk'[d] = clerk[d]
           /\ clerk'[c].op = {op} /\ clerk'[c].got = {} /\ clerk'[c].seqNum = clerk[c].seqNum
           /\ clerk'[c].calling = clerk[c].calling
<1>1. clerk[c] \in Clerk /\ DOMAIN clerk = Client
    BY DEF Types
<1>2. clerk' = [clerk EXCEPT ![c] = [clerk[c] EXCEPT !.op = {op}, !.wrongLeader = FALSE, !.got = {}]]
    BY Zenon DEF ClerkCalls
<1>3. /\ clerk'[c] = [clerk[c] EXCEPT !.op = {op}, !.wrongLeader = FALSE, !.got = {}]
      /\ \A d \in Client : d # c => clerk'[d] = clerk[d]
    BY <1>1, <1>2
<1>4. /\ clerk'[c].op = {op} /\ clerk'[c].got = {} /\ clerk'[c].seqNum = clerk[c].seqNum
      /\ clerk'[c].calling = clerk[c].calling
    BY <1>1, <1>3 DEF Clerk
<1> QED BY Zenon, <1>3, <1>4 DEF ClerkCalls

\* What an RPC of a clerk changes.
LEMMA ClerkSendsIs ==
    ASSUME Types, NEW c \in Client, NEW s \in Server, ClerkSends(c, s)
    PROVE  /\ UNCHANGED <<log, pending, rf, snapshots, kv>> /\ ~clerk[c].calling
           /\ \A d \in Client : d # c => clerk'[d] = clerk[d]
           /\ clerk'[c].op = clerk[c].op /\ clerk'[c].got = clerk[c].got /\ clerk'[c].seqNum = clerk[c].seqNum
           /\ clerk'[c].calling = TRUE
           /\ \E sent \in Call : /\ calls' = calls \cup {sent}
                                 /\ sent.op \in clerk[c].op /\ sent.live /\ sent.stage = "sent"
<1>1. clerk[c] \in Clerk /\ DOMAIN clerk = Client /\ clerk[c].op \subseteq Op
    BY DEF Types, Clerk
<1>2. PICK op \in clerk[c].op :
        calls' = calls \cup {[op |-> op, srv |-> s, live |-> TRUE, stage |-> "sent", index |-> 0,
                              Err |-> "", Value |-> << >>]}
    BY Zenon DEF ClerkSends
<1> DEFINE sent == [op |-> op, srv |-> s, live |-> TRUE, stage |-> "sent", index |-> 0, Err |-> "", Value |-> << >>]
<1>3. << >> \in Value
    BY DEF Value
<1>4. sent \in Call /\ sent.op = op /\ sent.live /\ sent.stage = "sent"
    BY Zenon, <1>1, <1>2, <1>3 DEF Call
<1>5. clerk' = [clerk EXCEPT ![c] = [clerk[c] EXCEPT !.calling = TRUE]]
    BY Zenon DEF ClerkSends
<1>6. clerk'[c] = [clerk[c] EXCEPT !.calling = TRUE] /\ \A d \in Client : d # c => clerk'[d] = clerk[d]
    BY <1>1, <1>5
<1>7. /\ clerk'[c].op = clerk[c].op /\ clerk'[c].got = clerk[c].got /\ clerk'[c].seqNum = clerk[c].seqNum
      /\ clerk'[c].calling = TRUE
    BY <1>1, <1>6 DEF Clerk
<1>8. calls' = calls \cup {sent}
    BY Zenon, <1>2
<1> HIDE DEF sent
<1>9. \E q \in Call : calls' = calls \cup {q} /\ q.op \in clerk[c].op /\ q.live /\ q.stage = "sent"
    BY ZenonT(60), <1>2, <1>4, <1>8
<1> QED BY Zenon, <1>6, <1>7, <1>9 DEF ClerkSends

\* What a reply that reaches its clerk changes.
LEMMA ClerkReceivesIs ==
    ASSUME Types, NEW call \in calls, ClerkReceives(call)
    PROVE  LET c == call.op.ClientID
           IN  /\ UNCHANGED <<log, pending, rf, snapshots, kv>> /\ c \in Client /\ call.op \in Op
               /\ call.stage = "answered" /\ call.live /\ calls' = calls \ {call}
               /\ \A d \in Client : d # c => clerk'[d] = clerk[d]
               /\ \/ /\ call.Err = "ErrWrongLeader"
                     /\ clerk'[c].op = clerk[c].op /\ clerk'[c].got = clerk[c].got
                     /\ clerk'[c].seqNum = clerk[c].seqNum
                  \/ /\ call.Err # "ErrWrongLeader"
                     /\ clerk'[c].op = {} /\ clerk'[c].seqNum = clerk[c].seqNum + 1
                     /\ clerk'[c].got = IF call.op.Optype = "Get" THEN {call.Value} ELSE {}
<1> DEFINE c == call.op.ClientID
           got == IF call.op.Optype = "Get" THEN {call.Value} ELSE {}
<1>1. call.op \in Op
    BY Zenon DEF Types, Call
<1>2. c \in Client
    BY <1>1 DEF Op
<1>3. clerk[c] \in Clerk /\ DOMAIN clerk = Client
    BY SMTT(40), <1>2 DEF Types
<1>4. CASE call.Err = "ErrWrongLeader"
    <2>1. clerk' = [clerk EXCEPT ![c] = [clerk[c] EXCEPT !.calling = FALSE, !.wrongLeader = TRUE]]
        BY ZenonT(60), <1>4 DEF ClerkReceives
    <2> HIDE DEF c
    <2>2. /\ clerk'[c] = [clerk[c] EXCEPT !.calling = FALSE, !.wrongLeader = TRUE]
          /\ \A d \in Client : d # c => clerk'[d] = clerk[d]
        BY <1>2, <1>3, <2>1
    <2>3. clerk'[c].op = clerk[c].op /\ clerk'[c].got = clerk[c].got /\ clerk'[c].seqNum = clerk[c].seqNum
        BY <1>3, <2>2 DEF Clerk
    <2> QED BY Zenon, <1>1, <1>2, <1>4, <2>2, <2>3 DEF ClerkReceives, c
<1>5. CASE call.Err # "ErrWrongLeader"
    <2> DEFINE after == [clerk[c] EXCEPT !.calling = FALSE, !.wrongLeader = FALSE, !.op = {},
                                         !.seqNum = clerk[c].seqNum + 1, !.leaderID = {call.srv}, !.got = got]
    <2>1. clerk' = [clerk EXCEPT ![c] = after]
        BY ZenonT(60), <1>2, <1>3, <1>5 DEF ClerkReceives, Clerk
    <2>2. after.op = {} /\ after.seqNum = clerk[c].seqNum + 1 /\ after.got = got
        BY <1>3 DEF Clerk
    <2> HIDE DEF after
    <2>3. clerk'[c] = after /\ \A d \in Client : d # c => clerk'[d] = clerk[d]
        BY <1>2, <1>3, <2>1
    <2> QED BY Zenon, <1>1, <1>2, <1>5, <2>2, <2>3 DEF ClerkReceives
<1> QED BY ZenonT(60), <1>4, <1>5

\* What an RPC that the network reports as failed changes.
LEMMA CallFailsIs ==
    ASSUME Types, NEW c \in Client, CallFails(c)
    PROVE  /\ UNCHANGED <<log, pending, rf, snapshots, kv>>
           /\ \A d \in Client : d # c => clerk'[d] = clerk[d]
           /\ clerk'[c].op = clerk[c].op /\ clerk'[c].got = clerk[c].got /\ clerk'[c].seqNum = clerk[c].seqNum
           /\ \A q \in calls' : \/ q \in calls /\ ~(q.live /\ q.op.ClientID = c)
                                \/ ~q.live /\ q.stage # "answered" /\ \E call \in calls : q.op = call.op
<1>1. clerk[c] \in Clerk /\ DOMAIN clerk = Client
    BY DEF Types
<1>2. clerk' = [clerk EXCEPT ![c] = [clerk[c] EXCEPT !.calling = FALSE, !.wrongLeader = TRUE]]
    BY Zenon DEF CallFails
<1>3. /\ clerk'[c] = [clerk[c] EXCEPT !.calling = FALSE, !.wrongLeader = TRUE]
      /\ \A d \in Client : d # c => clerk'[d] = clerk[d]
    BY <1>1, <1>2
<1>4. clerk'[c].op = clerk[c].op /\ clerk'[c].got = clerk[c].got /\ clerk'[c].seqNum = clerk[c].seqNum
    BY <1>1, <1>3 DEF Clerk
<1>5. ASSUME NEW q \in calls'
      PROVE  \/ q \in calls /\ ~(q.live /\ q.op.ClientID = c)
             \/ ~q.live /\ q.stage # "answered" /\ \E call \in calls : q.op = call.op
    <2>1. CASE \E m \in calls : m.stage \in {"started", "waiting"} /\ q = [m EXCEPT !.live = FALSE]
        <3>1. PICK m \in calls : m.stage \in {"started", "waiting"} /\ q = [m EXCEPT !.live = FALSE]
            BY Zenon, <2>1
        <3>2. q.live = FALSE /\ q.stage = m.stage /\ q.op = m.op
            BY Zenon, <3>1 DEF Types, Call
        <3> QED BY <3>1, <3>2
    <2>2. CASE q \in calls /\ ~(q.live /\ q.op.ClientID = c)
        BY <2>2
    <2> QED BY <2>1, <2>2 DEF CallFails
<1>6. UNCHANGED <<log, pending, rf, snapshots, kv>>
    BY ZenonT(60) DEF CallFails
<1> QED BY <1>3, <1>4, <1>5, <1>6

\* A step that leaves a server's channels and the calls that have an index.
LEMMA OwnedSame ==
    ASSUME Owned, NEW s \in Server, Held(s)' = Held(s),
           DOMAIN kv'[s].waitChan = DOMAIN kv[s].waitChan, kv'[s].closing = kv[s].closing
    PROVE  OwnedAt(s)'
<1>1. OwnedAt(s)
    BY DEF Owned
<1> QED BY <1>1 DEF OwnedAt

\* A call that keeps its index and keeps waiting for no channel holds what it held.
LEMMA HeldReplaced ==
    ASSUME NEW call, NEW R, Replaces(call, R), NEW s
    PROVE  Held(s)' = (Held(s) \ {call}) \cup {r \in R : r.srv = s /\ r.stage \in {"started", "waiting"}}
BY ZenonT(60) DEF Replaces, Held

\* Every step keeps each channel with one handler, or with the goroutine that
\* deletes it.
LEMMA OwnedNext == IInv /\ [Next]_vars => Owned'
<1> SUFFICES ASSUME Types, Owned, [Next]_vars PROVE Owned'
    BY DEF IInv
<1>0. SUFFICES ASSUME NEW t \in Server PROVE OwnedAt(t)'
    BY DEF Owned
<1> DEFINE SameChannels == DOMAIN kv'[t].waitChan = DOMAIN kv[t].waitChan /\ kv'[t].closing = kv[t].closing
<1>1. ASSUME NEW c \in Client, NEW op \in Op, ClerkCalls(c, op) PROVE OwnedAt(t)'
    BY <1>1, OwnedSame DEF ClerkCalls, Held
<1>2. ASSUME NEW c \in Client, NEW s \in Server, ClerkSends(c, s) PROVE OwnedAt(t)'
    <2>1. PICK sent \in Call : calls' = calls \cup {sent} /\ sent.stage = "sent"
        BY ZenonT(60), <1>2, ClerkSendsIs
    <2>2. Held(t)' = Held(t)
        BY <2>1 DEF Held
    <2> QED BY ZenonT(60), <1>2, <2>2, OwnedSame DEF ClerkSends
<1>3. ASSUME NEW call \in calls, ClerkReceives(call) PROVE OwnedAt(t)'
    <2>1. Held(t)' = Held(t)
        BY Zenon, <1>3 DEF ClerkReceives, Held
    <2> QED BY Zenon, <1>3, <2>1, OwnedSame DEF ClerkReceives
<1>4. ASSUME NEW c \in Client, CallFails(c) PROVE OwnedAt(t)'
    <2> DEFINE mine == {call \in calls : call.live /\ call.op.ClientID = c}
               failed(call) == IF call \in mine THEN [call EXCEPT !.live = FALSE] ELSE call
    <2>1. kv' = kv /\ calls' = (calls \ mine) \cup {[call EXCEPT !.live = FALSE] :
                                call \in {m \in mine : m.stage \in {"started", "waiting"}}}
        BY <1>4 DEF CallFails
    <2>2. \A call \in calls : /\ failed(call).srv = call.srv /\ failed(call).stage = call.stage
                             /\ failed(call).index = call.index
        BY ZenonT(60) DEF Types, Call
    <2>3. Held(t)' = {failed(call) : call \in Held(t)}
        <3>1. ASSUME NEW q \in Held(t)' PROVE q \in {failed(call) : call \in Held(t)}
            <4>1. CASE q \in calls \ mine
                BY <3>1, <4>1 DEF Held
            <4>2. CASE q \notin calls \ mine
                <5>1. PICK call \in mine : call.stage \in {"started", "waiting"} /\ q = [call EXCEPT !.live = FALSE]
                    BY <2>1, <3>1, <4>2 DEF Held
                <5>2. call \in calls /\ q = failed(call)
                    BY <5>1
                <5>3. call \in Held(t)
                    BY Zenon, <2>2, <3>1, <5>1, <5>2 DEF Held
                <5> QED BY Zenon, <5>2, <5>3
            <4> QED BY <4>1, <4>2
        <3>2. ASSUME NEW call \in Held(t) PROVE failed(call) \in Held(t)'
            <4>1. call \in calls /\ call.srv = t /\ call.stage \in {"started", "waiting"}
                BY DEF Held
            <4>2. failed(call) \in calls'
                BY ZenonT(60), <2>1, <4>1
            <4> QED BY Zenon, <2>2, <4>1, <4>2 DEF Held
        <3> HIDE DEF failed
        <3> QED BY <3>1, <3>2
    <2> HIDE DEF failed
    <2>4. Held(t) \subseteq calls /\ OwnedAt(t)
        BY DEF Held, Owned
    <2> QED BY <2>1, <2>2, <2>3, <2>4 DEF OwnedAt
<1>5. ASSUME NEW call \in calls, HandlerRefuses(call) PROVE OwnedAt(t)'
    <2>1. PICK R : Replaces(call, R) /\ \A r \in R : r.stage = "answered"
        BY <1>5, HandlerRefusesIs
    <2>2. call.stage = "sent" /\ kv' = kv
        BY <1>5, HandlerRefusesIs
    <2>3. Held(t)' = Held(t)
        BY <2>1, <2>2, HeldReplaced DEF Held
    <2> QED BY <2>2, <2>3, OwnedSame
<1>6. ASSUME NEW call \in calls, NEW index \in freeIndexes(call.srv), Get(call, index) \/ PutAppend(call, index)
      PROVE  OwnedAt(t)'
    <2>1. PICK R : Replaces(call, R) /\ \A r \in R : r.stage = "started" /\ r.index = index
        BY <1>6, StartIs
    <2>2. call.stage = "sent" /\ kv' = kv /\ index \in Nat /\ call \notin Held(t)
        BY ZenonT(60), <1>6, StartIs DEF Held
    <2>3. CASE t # call.srv
        <3>1. Held(t)' = Held(t)
            <4>1. \A r \in R : r.srv # t
                BY <2>1, <2>3 DEF Replaces
            <4>2. Held(t)' = (Held(t) \ {call}) \cup {r \in R : r.srv = t /\ r.stage \in {"started", "waiting"}}
                BY <2>1, HeldReplaced
            <4> QED BY ZenonT(60), <2>2, <4>1, <4>2
        <3> QED BY <2>2, <3>1, OwnedSame
    <2>4. CASE t = call.srv
        <3>1. Held(t)' = Held(t) \cup R
            BY SMTT(40), <2>1, <2>2, <2>4, HeldReplaced DEF Replaces
        <3>2. \A held \in kv[t].closing : index # held
            <4>1. \A held \in kv[t].closing : held \in Nat /\ index > held
                BY ZenonT(60), <2>4 DEF freeIndexes, heldIndexes, Types, KVServer
            <4> QED BY SMTT(40), <2>2, <4>1
        <3>3. \A other \in Held(t) : index # other.index
            <4>1. \A other \in Held(t) : other.index \in Nat /\ index > other.index
                BY Zenon, <2>4 DEF freeIndexes, heldIndexes, Held, Types, Call
            <4> QED BY <2>2, <4>1
        <3>4. OwnedAt(t) /\ \A r, q \in R : r = q
            BY <2>1 DEF Owned, Replaces
        <3> QED BY ZenonT(60), <2>1, <2>2, <3>1, <3>2, <3>3, <3>4 DEF OwnedAt
    <2> QED BY <2>3, <2>4
<1>7. ASSUME NEW call \in calls, HandlerWaits(call) PROVE OwnedAt(t)'
    <2>1. PICK r : Replaces(call, {r}) /\ r.stage = "waiting" /\ r.index = call.index
        BY ZenonT(60), <1>7, HandlerWaitsIs
    <2>2. r.srv = call.srv /\ call.stage = "started" /\ call.srv \in Server /\ call.index \in Nat
        BY Zenon, <1>7, <2>1, HandlerWaitsIs DEF Replaces, Types, Call
    <2>3. CASE t # call.srv
        <3>1. Held(t)' = Held(t) /\ kv'[t] = kv[t]
            BY SMTT(40), <1>7, <2>1, <2>2, <2>3, HeldReplaced, HandlerWaitsIs DEF Held
        <3> QED BY ZenonT(60), <3>1, OwnedSame
    <2>4. CASE t = call.srv
        <3>1. Held(t)' = (Held(t) \ {call}) \cup {r} /\ call \in Held(t)
            BY <2>1, <2>2, <2>4, HeldReplaced DEF Held
        <3>2. DOMAIN kv'[t].waitChan = DOMAIN kv[t].waitChan \cup {call.index}
            <4>1. kv'[t].waitChan = getWaitCh(kv[t].waitChan, call.index)
                BY <1>7, <2>4, HandlerWaitsIs
            <4>2. DOMAIN getWaitCh(kv[t].waitChan, call.index) = DOMAIN kv[t].waitChan \cup {call.index}
                BY ZenonT(60) DEF getWaitCh
            <4> QED BY ZenonT(60), <4>1, <4>2
        <3>3. kv'[t].closing = kv[t].closing
            BY <1>7, <2>4, HandlerWaitsIs
        <3>4. OwnedAt(t)
            BY DEF Owned
        <3> QED BY SMTT(40), <2>1, <2>2, <3>1, <3>2, <3>3, <3>4 DEF OwnedAt
    <2> QED BY <2>3, <2>4
<1>8. ASSUME NEW call \in calls, NEW R, Replaces(call, R), \A r \in R : r.stage = "answered", call.stage = "waiting",
             \A s \in Server : s # call.srv => kv'[s] = kv[s],
             DOMAIN kv'[call.srv].waitChan = DOMAIN kv[call.srv].waitChan,
             kv'[call.srv].closing = kv[call.srv].closing \cup {call.index}
      PROVE  OwnedAt(t)'
    <2>1. Held(t)' = Held(t) \ {call}
        BY <1>8, HeldReplaced
    <2>2. CASE t # call.srv
        <3>1. Held(t)' = Held(t) /\ kv'[t] = kv[t]
            BY ZenonT(60), <1>8, <2>1, <2>2 DEF Held
        <3> QED BY ZenonT(60), <3>1, OwnedSame
    <2>3. CASE t = call.srv
        <3>1. OwnedAt(t) /\ call \in Held(t)
            BY ZenonT(60), <1>8, <2>3 DEF Owned, Held
        <3> QED BY SMTT(40), <1>8, <2>1, <2>3, <3>1 DEF OwnedAt
    <2> QED BY ZenonT(60), <2>2, <2>3
<1>9. ASSUME NEW call \in calls, HandlerTimesOut(call) PROVE OwnedAt(t)'
    BY ZenonT(60), <1>8, <1>9, HandlerTimesOutIs
<1>10. ASSUME NEW call \in calls, HandlerReceives(call) PROVE OwnedAt(t)'
    BY ZenonT(60), <1>8, <1>10, HandlerReceivesIs
<1>11. ASSUME NEW s \in Server, NEW index \in kv[s].closing, closeWaitCh(s, index) PROVE OwnedAt(t)'
    <2>1. Held(t)' = Held(t)
        BY ZenonT(60), <1>11, CloseIs DEF Held
    <2>2. CASE t # s
        <3>1. kv'[t] = kv[t]
            BY ZenonT(60), <1>11, <2>2, CloseIs
        <3> QED BY ZenonT(60), <2>1, <3>1, OwnedSame
    <2>3. CASE t = s
        <3>1. DOMAIN kv'[t].waitChan = DOMAIN kv[t].waitChan \ {index} /\ kv'[t].closing = kv[t].closing \ {index}
            BY ZenonT(60), <1>11, <2>3, CloseIs
        <3>2. OwnedAt(t) /\ index \in kv[t].closing
            BY ZenonT(60), <2>3 DEF Owned
        <3> QED BY <2>1, <3>1, <3>2 DEF OwnedAt
    <2> QED BY ZenonT(60), <2>2, <2>3
<1>12. ASSUME NEW s \in Server, NEW takeSnapshot \in BOOLEAN, applyHandler(s, takeSnapshot) PROVE OwnedAt(t)'
    <2>1. Held(t)' = Held(t)
        BY ZenonT(60), <1>12, ApplyHandlerIs DEF Held
    <2>2. SameChannels
        <3>1. CASE t # s
            BY ZenonT(60), <1>12, <3>1, ApplyHandlerIs
        <3>2. CASE t = s /\ rf[s].next <= kv[s].lastIncludedIndex
            BY ZenonT(60), <1>12, <3>2, ApplyHandlerIs
        <3>3. CASE t = s /\ rf[s].next > kv[s].lastIncludedIndex
            <4> DEFINE message == appliedOp(kv[s].state, log[rf[s].next])
            <4>1. /\ kv'[t].waitChan = sendApplied(kv[t].waitChan, rf[s].next, message)
                  /\ kv'[t].closing = kv[t].closing
                BY ZenonT(60), <1>12, <3>3, ApplyHandlerIs
            <4> HIDE DEF message
            <4>2. DOMAIN sendApplied(kv[t].waitChan, rf[s].next, message) = DOMAIN kv[t].waitChan
                BY DEF sendApplied
            <4> QED BY ZenonT(60), <4>1, <4>2
        <3>5. rf[s].next <= kv[s].lastIncludedIndex \/ rf[s].next > kv[s].lastIncludedIndex
            BY ZenonT(60), IndexTypes
        <3> HIDE DEF SameChannels
        <3> QED BY ZenonT(60), <3>1, <3>2, <3>3, <3>5
    <2> QED BY ZenonT(60), <2>1, <2>2, OwnedSame
<1>13. ASSUME NEW s \in Server, NEW snapshot \in snapshots, installSnapshot(s, snapshot) PROVE OwnedAt(t)'
    <2>1. Held(t)' = Held(t)
        BY ZenonT(60), <1>13, InstallSnapshotIs DEF Held
    <2>2. SameChannels
        BY <1>13, InstallSnapshotIs
    <2> QED BY ZenonT(60), <2>1, <2>2, OwnedSame
<1>14. ASSUME NEW s \in Server, NEW index \in 1..Len(log), applyChecker(s, index) PROVE OwnedAt(t)'
    <2>1. Held(t)' = Held(t) /\ kv' = kv
        BY <1>14, ApplyCheckerIs DEF Held
    <2> QED BY ZenonT(60), <2>1, OwnedSame
<1>15. ASSUME NEW s \in Server, Restart(s) PROVE OwnedAt(t)'
    <2>1. calls' = {call \in calls : ~(call.srv = s /\ call.stage \in {"started", "waiting"})}
        BY ZenonT(60), <1>15 DEF Restart
    <2>2. CASE t # s
        <3>1. Held(t)' = Held(t) /\ kv'[t] = kv[t]
            BY ZenonT(60), <1>15, <2>1, <2>2, RestartIs DEF Held
        <3> QED BY ZenonT(60), <3>1, OwnedSame
    <2>3. CASE t = s
        <3>1. Held(t)' = {}
            BY ZenonT(60), <2>1, <2>3 DEF Held
        <3>2. kv'[t].closing = {} /\ DOMAIN kv'[t].waitChan = {}
            BY ZenonT(60), <1>15, <2>3, RestartIs, NoChannel
        <3> QED BY <3>1, <3>2 DEF OwnedAt
    <2> QED BY ZenonT(60), <2>2, <2>3
<1>16. ASSUME Commit PROVE OwnedAt(t)'
    BY ZenonT(60), <1>16, OwnedSame DEF Commit, Held
<1>17. ASSUME UNCHANGED vars PROVE OwnedAt(t)'
    BY ZenonT(60), <1>17, OwnedSame DEF vars, Held
<1> QED BY ZenonT(60), <1>1, <1>2, <1>3, <1>4, <1>5, <1>6, <1>7, <1>9, <1>10, <1>11, <1>12, <1>13, <1>14, <1>15, <1>16, <1>17
        DEF Next, StepNext, StartNext
---------------------------------------------------------------------------
(* Answers *)

\* What the log says is never taken back.
LEMMA LogGrows ==
    ASSUME Machine, Types, [Next]_vars
    PROVE  /\ log' = log \/ Commit
           /\ \A i \in DOMAIN log : i \in DOMAIN log' /\ log'[i] = log[i] /\ machine'[i] = machine[i]
                                  /\ machine'[i - 1] = machine[i - 1]
<1>1. log' = log \/ Commit
    BY ZenonT(60), Steps, ApplyHandlerIs, InstallSnapshotIs, ApplyCheckerIs, RestartIs DEF Quiet
<1>2. CASE log' = log
    BY <1>2 DEF machine
<1>3. CASE Commit
    <2>1. \A i \in DOMAIN log : i \in 0..Len(log) /\ i - 1 \in 0..Len(log)
        BY SMTT(40), LogMachine
    <2>2. /\ \A i \in DOMAIN log : i \in DOMAIN log' /\ log'[i] = log[i]
          /\ \A n \in 0..Len(log) : machine'[n] = machine[n]
        BY SMTT(40), <1>3, CommitIs
    <2> QED BY ZenonT(60), <1>3, <2>1, <2>2
<1> QED BY ZenonT(60), <1>1, <1>2, <1>3

\* Every step keeps in the channels what the log has at their indexes.
LEMMA SentNext == IInv /\ [Next]_vars => \A s \in Server : \A i \in DOMAIN kv'[s].waitChan : Sent(s, i)'
<1> SUFFICES ASSUME Machine, Types, Indexes, States, Owned, Answers, [Next]_vars, NEW t \in Server, NEW i \in DOMAIN kv'[t].waitChan
             PROVE  Sent(t, i)'
    BY ZenonT(60) DEF IInv
<1>1. ASSUME i \in DOMAIN kv[t].waitChan, kv'[t].waitChan[i] \in {kv[t].waitChan[i], << >>} PROVE Sent(t, i)'
    <2>1. Sent(t, i)
        BY <1>1 DEF Answers
    <2> QED BY ZenonT(60), <1>1, <2>1, LogGrows DEF Sent
<1>2. ASSUME kv'[t] = kv[t] PROVE Sent(t, i)'
    BY <1>1, <1>2
<1>3. ASSUME NEW call \in calls, HandlerWaits(call) PROVE Sent(t, i)'
    <2>1. CASE t # call.srv
        BY ZenonT(60), <1>2, <1>3, <2>1, HandlerWaitsIs
    <2>2. CASE t = call.srv
        <3>1. kv'[t].waitChan = getWaitCh(kv[t].waitChan, call.index)
            BY ZenonT(60), <1>3, <2>2, HandlerWaitsIs
        <3>2. kv'[t].waitChan[i] = << >> \/ (i \in DOMAIN kv[t].waitChan /\ kv'[t].waitChan[i] = kv[t].waitChan[i])
            BY ZenonT(60), <3>1 DEF getWaitCh
        <3> QED BY ZenonT(60), <1>1, <3>2 DEF Sent
    <2> QED BY ZenonT(60), <2>1, <2>2
<1>4. ASSUME NEW call \in calls, HandlerTimesOut(call) PROVE Sent(t, i)'
    BY ZenonT(60), <1>1, <1>2, <1>4, HandlerTimesOutIs
<1>5. ASSUME NEW call \in calls, HandlerReceives(call) PROVE Sent(t, i)'
    BY ZenonT(60), <1>1, <1>2, <1>5, HandlerReceivesIs
<1>6. ASSUME NEW s \in Server, NEW index \in kv[s].closing, closeWaitCh(s, index) PROVE Sent(t, i)'
    BY ZenonT(60), <1>1, <1>2, <1>6, CloseIs
<1>7. ASSUME NEW s \in Server, NEW takeSnapshot \in BOOLEAN, applyHandler(s, takeSnapshot) PROVE Sent(t, i)'
    <2> DEFINE index == rf[s].next
               message == appliedOp(kv[s].state, log[index])
    <2>1. CASE t # s
        BY ZenonT(60), <1>2, <1>7, <2>1, ApplyHandlerIs
    <2>2. CASE t = s /\ index <= kv[s].lastIncludedIndex
        BY ZenonT(60), <1>2, <1>7, <2>2, ApplyHandlerIs
    <2>3. CASE t = s /\ index > kv[s].lastIncludedIndex
        <3>1. kv'[t].waitChan = sendApplied(kv[t].waitChan, index, message)
            BY ZenonT(60), <1>7, <2>3, ApplyHandlerIs
        <3>2. message = appliedOp(machine[index - 1], log[index]) /\ index \in DOMAIN log
            <4>1. index \in Nat \ {0} /\ kv[s].lastIncludedIndex \in Nat /\ rf[s].upto \in Nat /\ rf[s].lastApplied \in Nat
                BY ZenonT(60) DEF Types, RaftState, KVServer
            <4>2. index <= rf[s].upto /\ InLog(s)
                BY ZenonT(60), <1>7, ApplyHandlerIs DEF Indexes
            <4>3. index \in DOMAIN log
                BY SMTT(40), <4>1, <4>2, LogMachine DEF InLog
            <4>4. reached(s) = index - 1
                BY <2>3, <4>1 DEF reached
            <4>5. kv[s].state = machine[reached(s)]
                BY ZenonT(60) DEF States, StateIsLogPrefix
            <4> QED BY <4>3, <4>4, <4>5
        <3> HIDE DEF message, index
        <3>3. \/ i \in DOMAIN kv[t].waitChan /\ kv'[t].waitChan[i] = kv[t].waitChan[i]
              \/ i = index /\ kv'[t].waitChan[i] = <<message>>
            BY ZenonT(60), <3>1 DEF sendApplied
        <3>4. CASE i = index /\ kv'[t].waitChan[i] = <<message>>
            BY <3>2, <3>4, LogGrows DEF Sent
        <3> QED BY ZenonT(60), <1>1, <3>3, <3>4
    <2>4. index <= kv[s].lastIncludedIndex \/ index > kv[s].lastIncludedIndex
        BY ZenonT(60), IndexTypes
    <2> QED BY ZenonT(60), <2>1, <2>2, <2>3, <2>4
<1>8. ASSUME NEW s \in Server, NEW snapshot \in snapshots, installSnapshot(s, snapshot) PROVE Sent(t, i)'
    BY ZenonT(60), <1>1, <1>2, <1>8, InstallSnapshotIs
<1>9. ASSUME NEW s \in Server, Restart(s) PROVE Sent(t, i)'
    BY <1>2, <1>9, RestartIs, NoChannel
<1>10. ASSUME kv' = kv PROVE Sent(t, i)'
    BY SMTT(40), <1>2, <1>10
<1>11. ASSUME NEW call \in calls, ClerkReceives(call) \/ HandlerRefuses(call) PROVE kv' = kv
    BY Zenon, <1>11 DEF ClerkReceives, HandlerRefuses
<1>12. ASSUME NEW call \in calls, NEW index \in freeIndexes(call.srv), Get(call, index) \/ PutAppend(call, index)
       PROVE  kv' = kv
    BY SMTT(40), <1>12, StartIs
<1>13. ASSUME NEW c \in Client, \/ CallFails(c) \/ \E s \in Server : ClerkSends(c, s)
                               \/ \E op \in Op : ClerkCalls(c, op)
       PROVE  kv' = kv
    BY ZenonT(60), <1>13 DEF CallFails, ClerkSends, ClerkCalls
<1>14. ASSUME Commit \/ (\E s \in Server : \E index \in 1..Len(log) : applyChecker(s, index)) \/ UNCHANGED vars
       PROVE  kv' = kv
    BY ZenonT(60), <1>14 DEF Commit, applyChecker, vars
<1> QED BY ZenonT(60), <1>3, <1>4, <1>5, <1>6, <1>7, <1>8, <1>9, <1>10, <1>11, <1>12, <1>13, <1>14 DEF Next, StepNext, StartNext

\* Every step keeps the answers of the calls those of the log.
LEMMA AnswersNext == IInv /\ [Next]_vars => Answers'
<1> SUFFICES ASSUME IInv, Machine, Types, Owned, Answers, [Next]_vars PROVE Answers'
    BY DEF IInv
<1>0. SUFFICES ASSUME NEW q \in calls' PROVE Answered(q)'
    BY ZenonT(60), SentNext DEF Answers
<1>1. ASSUME q \in calls PROVE Answered(q)'
    <2>1. Answered(q)
        BY ZenonT(60), <1>1 DEF Answers
    <2> QED BY <2>1, LogGrows DEF Answered
<1>2. ASSUME q.stage # "answered" \/ (q.live /\ q.Err = "ErrWrongLeader") PROVE Answered(q)'
    BY <1>2 DEF Answered
<1>3. ASSUME NEW c \in Client, NEW s \in Server, ClerkSends(c, s) PROVE Answered(q)'
    BY ZenonT(60), <1>1, <1>2, <1>3, ClerkSendsIs
<1>4. ASSUME NEW call \in calls, ClerkReceives(call) PROVE Answered(q)'
    BY Zenon, <1>1, <1>4, ClerkReceivesIs
<1>5. ASSUME NEW c \in Client, CallFails(c) PROVE Answered(q)'
    BY <1>1, <1>2, <1>5, CallFailsIs
<1>6. ASSUME NEW call \in calls, HandlerRefuses(call) PROVE Answered(q)'
    BY ZenonT(60), <1>1, <1>2, <1>6, HandlerRefusesIs DEF Replaces
<1>7. ASSUME NEW call \in calls, NEW index \in freeIndexes(call.srv), Get(call, index) \/ PutAppend(call, index)
      PROVE  Answered(q)'
    BY <1>1, <1>2, <1>7, StartIs DEF Replaces
<1>8. ASSUME NEW call \in calls, HandlerWaits(call) PROVE Answered(q)'
    BY ZenonT(60), <1>1, <1>2, <1>8, HandlerWaitsIs DEF Replaces
<1>9. ASSUME NEW call \in calls, HandlerTimesOut(call) PROVE Answered(q)'
    BY ZenonT(60), <1>1, <1>2, <1>9, HandlerTimesOutIs DEF Replaces
<1>10. ASSUME NEW call \in calls, HandlerReceives(call) PROVE Answered(q)'
    <2> DEFINE s == call.srv
               i == call.index
               message == kv[s].waitChan[i][1]
    <2>1. PICK R : /\ Replaces(call, R)
                   /\ \A r \in R : /\ r.live /\ r.stage = "answered"
                                   /\ \/ r.Err = "ErrWrongLeader"
                                      \/ sameOp(message.op, call.op) /\ r.Value = message.Value
        BY ZenonT(60), <1>10, HandlerReceivesIs
    <2>2. i \in DOMAIN kv[s].waitChan /\ kv[s].waitChan[i] # << >> /\ s \in Server
        BY ZenonT(60), <1>10, HandlerReceivesIs DEF Types, Call
    <2>3. Sent(s, i)
        BY ZenonT(60), <2>2 DEF Answers
    <2>4. i \in DOMAIN log /\ message = appliedOp(machine[i - 1], log[i])
        BY SMTT(40), <2>2, <2>3 DEF Sent
    <2>5. message.op = log[i]
        BY <2>4 DEF appliedOp
    <2>6. i \in DOMAIN log' /\ log'[i] = log[i] /\ machine'[i - 1] = machine[i - 1]
        BY ZenonT(60), <2>4, LogGrows
    <2>7. CASE q \in R /\ q.Err # "ErrWrongLeader"
        <3>1. q.live /\ sameOp(log'[i], q.op) /\ q.Value = appliedOp(machine'[i - 1], log'[i]).Value
            BY SMTT(40), ZenonT(60), <2>1, <2>4, <2>5, <2>6, <2>7 DEF Replaces
        <3> HIDE DEF i
        <3> QED BY ZenonT(60), <2>6, <3>1 DEF Answered
    <2> QED BY ZenonT(60), <1>1, <1>2, <2>1, <2>7 DEF Replaces
<1>11. ASSUME calls' \subseteq calls PROVE Answered(q)'
    BY <1>1, <1>11
<1>12. ASSUME NEW c \in Client, NEW op \in Op, ClerkCalls(c, op) PROVE Answered(q)'
    BY <1>11, <1>12 DEF ClerkCalls
<1>13. ASSUME NEW s \in Server, NEW index \in kv[s].closing, closeWaitCh(s, index) PROVE Answered(q)'
    BY ZenonT(60), <1>11, <1>13 DEF closeWaitCh
<1>14. ASSUME NEW s \in Server, NEW takeSnapshot \in BOOLEAN, applyHandler(s, takeSnapshot) PROVE Answered(q)'
    BY <1>11, <1>14 DEF applyHandler
<1>15. ASSUME NEW s \in Server, NEW snapshot \in snapshots, installSnapshot(s, snapshot) PROVE Answered(q)'
    BY <1>11, <1>15 DEF installSnapshot
<1>16. ASSUME NEW s \in Server, NEW index \in 1..Len(log), applyChecker(s, index) PROVE Answered(q)'
    BY ZenonT(60), <1>11, <1>16 DEF applyChecker
<1>17. ASSUME NEW s \in Server, Restart(s) PROVE Answered(q)'
    BY ZenonT(60), <1>11, <1>17 DEF Restart
<1>18. ASSUME Commit \/ UNCHANGED vars PROVE Answered(q)'
    BY ZenonT(60), <1>11, <1>18 DEF Commit, vars
<1> QED BY ZenonT(60), <1>3, <1>4, <1>5, <1>6, <1>7, <1>8, <1>9, <1>10, <1>12, <1>13, <1>14, <1>15, <1>16, <1>17, <1>18
        DEF Next, StepNext, StartNext
---------------------------------------------------------------------------
(* Clerks *)

\* The operations on their way are operations.
LEMMA OpsType == ASSUME Machine, Types PROVE Ops \subseteq Op
<1>1. \A i \in DOMAIN log : log[i] \in Op
    BY LogMachine
<1>2. (\A entry \in pending : entry.op \in Op) /\ (\A call \in calls : call.op \in Op)
    BY ZenonT(60) DEF Types, Call
<1> QED BY <1>1, <1>2 DEF Ops

\* A step of a handler, of a server or of Raft.
LEMMA ClerksSame ==
    ASSUME Machine, Types, Clerks, [Next]_vars, clerk' = clerk, Ops' \subseteq Ops,
           calls' \subseteq calls \/ \E call \in calls : \E R : Replaces(call, R)
    PROVE  Clerks'
<1>1. ASSUME NEW c \in Client PROVE OneOp(c)' /\ Acked(c)'
    <2>1. OneOp(c) /\ Acked(c)
        BY DEF Clerks
    <2> QED BY <2>1, LogGrows DEF OneOp, Acked
<1>2. ASSUME NEW op \in Ops' PROVE Current(op)'
    BY DEF Clerks, Current
<1>3. ASSUME NEW q \in calls' PROVE Live(q)'
    <2>1. CASE calls' \subseteq calls
        BY <2>1 DEF Clerks, Live
    <2>2. ASSUME NEW call \in calls, NEW R, Replaces(call, R) PROVE Live(q)'
        <3>1. /\ calls' = (calls \ {call}) \cup R
              /\ \A r \in R : r.op = call.op /\ (r.live => call.live) /\ \A other \in R : other = r
            BY <2>2 DEF Replaces
        <3>2. \A other \in calls : Live(other)
            BY ZenonT(60) DEF Clerks
        <3>3. CASE q \in R
            BY ZenonT(60), <3>1, <3>2, <3>3 DEF Live
        <3>4. CASE q \in calls \ {call}
            BY ZenonT(60), <3>1, <3>2, <3>4 DEF Live
        <3> QED BY ZenonT(60), <3>1, <3>3, <3>4
    <2> QED BY ZenonT(60), <2>1, <2>2
<1> QED BY ZenonT(60), <1>1, <1>2, <1>3 DEF Clerks

\* Every step keeps all copies of a clerk's operation the one it waits for.
LEMMA ClerksNext == IInv /\ [Next]_vars => Clerks'
<1> SUFFICES ASSUME Machine, Types, Owned, Answers, Clerks, [Next]_vars PROVE Clerks'
    BY DEF IInv
<1>1. \A d \in Client : clerk[d].seqNum \in Nat \ {0} /\ clerk[d].op \subseteq Op
    BY DEF Types, Clerk
<1>2. \A op \in Ops : op \in Op /\ op.ClientID \in Client /\ op.SeqNum \in Nat
    BY OpsType DEF Op
<1>3. \A call \in calls : call.op \in Ops
    BY ZenonT(60) DEF Ops
<1>4. ASSUME NEW c \in Client, NEW op \in Op, ClerkCalls(c, op) PROVE Clerks'
    <2>1. /\ UNCHANGED <<log, pending, calls>>
          /\ clerk[c].op = {} /\ op.ClientID = c /\ op.SeqNum = clerk[c].seqNum
          /\ \A d \in Client : d # c => clerk'[d] = clerk[d]
          /\ clerk'[c].op = {op} /\ clerk'[c].got = {} /\ clerk'[c].seqNum = clerk[c].seqNum
          /\ clerk'[c].calling = clerk[c].calling
        BY <1>4, ClerkCallsIs
    <2>2. ASSUME NEW d \in Client PROVE OneOp(d)' /\ Acked(d)'
        <3>1. OneOp(d) /\ Acked(d)
            BY ZenonT(60) DEF Clerks
        <3>2. CASE d # c
            BY <2>1, <3>1, <3>2 DEF OneOp, Acked
        <3>3. CASE d = c
            BY ZenonT(60), <2>1, <3>1, <3>3 DEF OneOp, Acked
        <3> QED BY <3>2, <3>3
    <2>3. Ops' = Ops
        BY <2>1 DEF Ops
    <2>4. ASSUME NEW o \in Ops PROVE Current(o)'
        <3>1. Current(o) /\ o.ClientID \in Client
            BY ZenonT(60), <1>2 DEF Clerks
        <3>2. CASE o.ClientID # c
            BY ZenonT(60), <2>1, <3>1, <3>2 DEF Current
        <3>3. CASE o.ClientID = c
            BY ZenonT(60), <2>1, <3>1, <3>3 DEF Current
        <3> QED BY <3>2, <3>3
    <2>5. ASSUME NEW q \in calls PROVE Live(q)'
        <3>1. Live(q) /\ q.op.ClientID \in Client
            BY ZenonT(60), <1>2, <1>3 DEF Clerks
        <3>2. q.live => q.op.ClientID # c
            BY <2>1, <3>1 DEF Live
        <3> QED BY ZenonT(60), <2>1, <3>1, <3>2 DEF Live
    <2> QED BY ZenonT(60), <2>1, <2>2, <2>3, <2>4, <2>5 DEF Clerks
<1>5. ASSUME NEW c \in Client, NEW s \in Server, ClerkSends(c, s) PROVE Clerks'
    <2>1. /\ UNCHANGED <<log, pending>> /\ ~clerk[c].calling
          /\ \A d \in Client : d # c => clerk'[d] = clerk[d]
          /\ clerk'[c].op = clerk[c].op /\ clerk'[c].got = clerk[c].got /\ clerk'[c].seqNum = clerk[c].seqNum
          /\ clerk'[c].calling = TRUE
        BY Zenon, <1>5, ClerkSendsIs
    <2>2. PICK sent \in Call : calls' = calls \cup {sent} /\ sent.op \in clerk[c].op /\ sent.live
        BY Zenon, <1>5, ClerkSendsIs
    <2>3. \A d \in Client : clerk'[d].op = clerk[d].op /\ clerk'[d].got = clerk[d].got /\ clerk'[d].seqNum = clerk[d].seqNum
        BY ZenonT(60), <2>1
    <2>4. ASSUME NEW d \in Client PROVE OneOp(d)' /\ Acked(d)'
        <3>1. OneOp(d) /\ Acked(d)
            BY DEF Clerks
        <3> QED BY <2>1, <2>3, <3>1 DEF OneOp, Acked
    <2>5. sent.op.ClientID = c /\ sent.op.SeqNum = clerk[c].seqNum
        <3>1. OneOp(c)
            BY DEF Clerks
        <3> QED BY ZenonT(60), <2>2, <3>1 DEF OneOp
    <2>6. ASSUME NEW o \in Ops' PROVE Current(o)'
        <3>1. CASE o \in Ops
            <4>1. Current(o) /\ o.ClientID \in Client
                BY ZenonT(60), <1>2, <3>1 DEF Clerks
            <4> QED BY <2>3, <4>1 DEF Current
        <3>2. CASE o = sent.op
            BY SMTT(40), <1>1, <2>2, <2>3, <2>5, <3>2 DEF Current
        <3>3. o \in Ops \/ o = sent.op
            BY ZenonT(60), <2>1, <2>2 DEF Ops
        <3> QED BY ZenonT(60), <3>1, <3>2, <3>3
    <2>7. \A q \in calls : q.live => q.op.ClientID # c
        BY <2>1 DEF Clerks, Live
    <2>8. ASSUME NEW q \in calls' PROVE Live(q)'
        <3>1. CASE q \in calls
            <4>1. Live(q) /\ q.op.ClientID \in Client
                BY ZenonT(60), <1>2, <1>3, <3>1 DEF Clerks
            <4> QED BY ZenonT(60), <2>1, <2>2, <2>5, <2>7, <3>1, <4>1 DEF Live
        <3>2. CASE q = sent
            BY ZenonT(60), <2>1, <2>2, <2>5, <2>7, <3>2 DEF Live
        <3> QED BY ZenonT(60), <2>2, <3>1, <3>2
    <2> QED BY <2>4, <2>6, <2>8 DEF Clerks
<1>6. ASSUME NEW call \in calls, ClerkReceives(call) PROVE Clerks'
    <2> DEFINE c == call.op.ClientID
    <2>1. /\ UNCHANGED <<log, pending>> /\ c \in Client /\ call.stage = "answered" /\ call.live
          /\ calls' = calls \ {call}
          /\ \A d \in Client : d # c => clerk'[d] = clerk[d]
        BY Zenon, <1>6, ClerkReceivesIs
    <2>2. call.op \in clerk[c].op /\ OneOp(c) /\ Acked(c)
        BY ZenonT(60), <2>1 DEF Clerks, Live
    <2>3. \A q \in calls' : q \in calls /\ (q.live => q.op.ClientID # c)
        BY ZenonT(60), <2>1 DEF Clerks, Live
    <2>4. ASSUME NEW q \in calls' PROVE Live(q)'
        <3>1. Live(q) /\ q.op.ClientID \in Client /\ (q.live => q.op.ClientID # c)
            BY ZenonT(60), <1>2, <1>3, <2>3 DEF Clerks
        <3> QED BY ZenonT(60), <2>1, <2>3, <3>1 DEF Live
    <2>5. Ops' \subseteq Ops
        BY <2>1 DEF Ops
    <2>6. CASE call.Err = "ErrWrongLeader"
        <3>1. clerk'[c].op = clerk[c].op /\ clerk'[c].got = clerk[c].got /\ clerk'[c].seqNum = clerk[c].seqNum
            BY Zenon, <1>6, <2>6, ClerkReceivesIs
        <3>2. \A d \in Client : clerk'[d].op = clerk[d].op /\ clerk'[d].got = clerk[d].got /\ clerk'[d].seqNum = clerk[d].seqNum
            BY ZenonT(60), <2>1, <3>1
        <3>3. ASSUME NEW d \in Client PROVE OneOp(d)' /\ Acked(d)'
            <4>1. OneOp(d) /\ Acked(d)
                BY ZenonT(60) DEF Clerks
            <4> QED BY ZenonT(60), <2>1, <3>2, <4>1 DEF OneOp, Acked
        <3>4. ASSUME NEW o \in Ops' PROVE Current(o)'
            <4>1. Current(o) /\ o.ClientID \in Client
                BY ZenonT(60), <1>2, <2>5 DEF Clerks
            <4> QED BY ZenonT(60), <3>2, <4>1 DEF Current
        <3> QED BY <2>4, <3>3, <3>4 DEF Clerks
    <2>7. CASE call.Err # "ErrWrongLeader"
        <3>1. clerk'[c].op = {} /\ clerk'[c].seqNum = clerk[c].seqNum + 1
            BY Zenon, <1>6, <2>7, ClerkReceivesIs
        <3>2. PICK i \in DOMAIN log : sameOp(log[i], call.op)
            BY ZenonT(60), <2>1, <2>7 DEF Answers, Answered
        <3>3. log[i].ClientID = c /\ log[i].SeqNum = clerk[c].seqNum
            BY <2>2, <3>2 DEF sameOp, OneOp
        <3> HIDE DEF c
        <3>4. Acked(c)'
            <4>1. ASSUME NEW n \in 1..(clerk'[c].seqNum - 1)
                  PROVE  \E k \in DOMAIN log' : log'[k].ClientID = c /\ log'[k].SeqNum = n
                <5>1. n \in 1..(clerk[c].seqNum - 1) \/ n = clerk[c].seqNum
                    BY SMTT(40), <1>1, <2>1, <3>1
                <5> QED BY ZenonT(60), <2>1, <2>2, <3>2, <3>3, <5>1 DEF Acked
            <4> QED BY ZenonT(60), <4>1 DEF Acked
        <3>5. ASSUME NEW d \in Client PROVE OneOp(d)' /\ Acked(d)'
            <4>1. OneOp(d) /\ Acked(d)
                BY ZenonT(60) DEF Clerks
            <4>2. CASE d # c
                BY ZenonT(60), <2>1, <4>1, <4>2 DEF OneOp, Acked
            <4>3. CASE d = c
                BY ZenonT(60), <3>1, <3>4, <4>3 DEF OneOp
            <4> QED BY <4>2, <4>3
        <3>6. ASSUME NEW o \in Ops' PROVE Current(o)'
            <4>1. Current(o) /\ o.ClientID \in Client /\ o.SeqNum \in Nat
                BY ZenonT(60), <1>2, <2>5 DEF Clerks
            <4>2. CASE o.ClientID # c
                BY ZenonT(60), <2>1, <4>1, <4>2 DEF Current
            <4>3. CASE o.ClientID = c
                BY SMTT(40), <1>1, <2>1, <3>1, <4>1, <4>3 DEF Current
            <4> QED BY <4>2, <4>3
        <3> QED BY ZenonT(60), <2>4, <3>5, <3>6 DEF Clerks
    <2> QED BY <2>6, <2>7
<1>7. ASSUME NEW c \in Client, CallFails(c) PROVE Clerks'
    <2>1. /\ UNCHANGED <<log, pending>>
          /\ \A d \in Client : d # c => clerk'[d] = clerk[d]
          /\ clerk'[c].op = clerk[c].op /\ clerk'[c].got = clerk[c].got /\ clerk'[c].seqNum = clerk[c].seqNum
        BY ZenonT(60), <1>7, CallFailsIs
    <2>2. \A q \in calls' : \/ q \in calls /\ ~(q.live /\ q.op.ClientID = c)
                            \/ ~q.live /\ \E call \in calls : q.op = call.op
        BY ZenonT(60), <1>7, CallFailsIs
    <2>3. \A d \in Client : clerk'[d].op = clerk[d].op /\ clerk'[d].got = clerk[d].got /\ clerk'[d].seqNum = clerk[d].seqNum
        BY ZenonT(60), <2>1
    <2>4. ASSUME NEW d \in Client PROVE OneOp(d)' /\ Acked(d)'
        <3>1. OneOp(d) /\ Acked(d)
            BY ZenonT(60) DEF Clerks
        <3> QED BY ZenonT(60), <2>1, <2>3, <3>1 DEF OneOp, Acked
    <2>5. Ops' \subseteq Ops
        BY SMTT(40), ZenonT(60), <2>1, <2>2 DEF Ops
    <2>6. ASSUME NEW o \in Ops' PROVE Current(o)'
        <3>1. Current(o) /\ o.ClientID \in Client
            BY <1>2, <2>5 DEF Clerks
        <3> QED BY ZenonT(60), <2>3, <3>1 DEF Current
    <2>7. ASSUME NEW q \in calls' PROVE Live(q)'
        <3>1. CASE q.live
            <4>1. q \in calls /\ q.op.ClientID # c /\ q.op.ClientID \in Client /\ Live(q)
                BY ZenonT(60), <1>2, <1>3, <2>2, <3>1 DEF Clerks
            <4>2. \A other \in calls' : other.live => other \in calls
                BY ZenonT(60), <2>2
            <4> QED BY ZenonT(60), <2>1, <3>1, <4>1, <4>2 DEF Live
        <3>2. CASE ~q.live
            BY <3>2 DEF Live
        <3> QED BY ZenonT(60), <3>1, <3>2
    <2> QED BY ZenonT(60), <2>4, <2>6, <2>7 DEF Clerks
<1>8. ASSUME NEW call \in calls, NEW R, Replaces(call, R), clerk' = clerk, log' = log,
             \A entry \in pending' : entry \in pending \/ entry.op = call.op
      PROVE  Clerks'
    <2>1. Ops' \subseteq Ops
        BY ZenonT(60), <1>8 DEF Replaces, Ops
    <2> QED BY ZenonT(60), <1>8, <2>1, ClerksSame
<1>9. ASSUME NEW call \in calls, HandlerRefuses(call) PROVE Clerks'
    BY ZenonT(60), <1>8, <1>9, HandlerRefusesIs
<1>10. ASSUME NEW call \in calls, NEW index \in freeIndexes(call.srv), Get(call, index) \/ PutAppend(call, index)
       PROVE  Clerks'
    <2>1. \A entry \in pending' : entry \in pending \/ entry.op = call.op
        BY <1>10, StartIs
    <2> QED BY ZenonT(60), <1>8, <1>10, <2>1, StartIs
<1>11. ASSUME NEW call \in calls, HandlerWaits(call) PROVE Clerks'
    BY ZenonT(60), <1>8, <1>11, HandlerWaitsIs
<1>12. ASSUME NEW call \in calls, HandlerTimesOut(call) PROVE Clerks'
    BY ZenonT(60), <1>8, <1>12, HandlerTimesOutIs
<1>13. ASSUME NEW call \in calls, HandlerReceives(call) PROVE Clerks'
    BY ZenonT(60), <1>8, <1>13, HandlerReceivesIs
<1>14. ASSUME UNCHANGED <<log, pending, clerk>>, calls' \subseteq calls PROVE Clerks'
    <2>1. Ops' \subseteq Ops
        BY <1>14 DEF Ops
    <2> QED BY ZenonT(60), <1>14, <2>1, ClerksSame
<1>15. ASSUME NEW s \in Server, NEW index \in kv[s].closing, closeWaitCh(s, index) PROVE Clerks'
    BY ZenonT(60), <1>14, <1>15 DEF closeWaitCh
<1>16. ASSUME NEW s \in Server, NEW takeSnapshot \in BOOLEAN, applyHandler(s, takeSnapshot) PROVE Clerks'
    BY <1>14, <1>16 DEF applyHandler
<1>17. ASSUME NEW s \in Server, NEW snapshot \in snapshots, installSnapshot(s, snapshot) PROVE Clerks'
    BY <1>14, <1>17 DEF installSnapshot
<1>18. ASSUME NEW s \in Server, NEW index \in 1..Len(log), applyChecker(s, index) PROVE Clerks'
    BY ZenonT(60), <1>14, <1>18 DEF applyChecker
<1>19. ASSUME NEW s \in Server, Restart(s) PROVE Clerks'
    BY ZenonT(60), <1>14, <1>19 DEF Restart
<1>20. ASSUME Commit PROVE Clerks'
    <2>1. PICK entry \in pending :
            /\ \A i \in DOMAIN log : log'[i] = log[i]
            /\ log'[Len(log) + 1] = entry.op /\ DOMAIN log' = DOMAIN log \cup {Len(log) + 1}
        BY ZenonT(60), <1>20, CommitIs
    <2>2. pending' \subseteq pending /\ calls' = calls /\ clerk' = clerk
        BY ZenonT(60), <1>20 DEF Commit
    <2>3. Ops' \subseteq Ops
        BY <2>1, <2>2 DEF Ops
    <2> QED BY ZenonT(60), <2>2, <2>3, ClerksSame
<1>21. ASSUME UNCHANGED vars PROVE Clerks'
    BY <1>14, <1>21 DEF vars
<1> QED BY ZenonT(60), <1>4, <1>5, <1>6, <1>7, <1>9, <1>10, <1>11, <1>12, <1>13, <1>15, <1>16, <1>17, <1>18, <1>19, <1>20, <1>21
        DEF Next, StepNext, StartNext
---------------------------------------------------------------------------
(* The invariant *)

\* The invariant holds at the start.
LEMMA InitIs ==
    ASSUME Machine, Init
    PROVE  IInv
<1>1. Types
    BY TypesInit
<1>2. log = << >> /\ Len(log) = 0 /\ DOMAIN log = {} /\ machine[0] = noState
    <2>1. log = << >>
        BY DEF Init
    <2> QED BY SMTT(40), <1>1, <2>1, LogMachine
<1>3. pending = {} /\ snapshots = {} /\ calls = {}
    BY ZenonT(60) DEF Init
<1>4. \A s \in Server : /\ rf[s].next = 1 /\ rf[s].upto = 0 /\ rf[s].lastApplied = 0
                         /\ rf[s].saved.index = 0 /\ rf[s].saved.data = noState
    BY DEF Init, startRaft
<1>5. \A s \in Server : /\ kv[s].state = noState /\ kv[s].waitChan = << >>
                         /\ kv[s].closing = {} /\ kv[s].lastIncludedIndex = 0
    BY ZenonT(60) DEF Init, StartKVServer, readServerPersistData
<1>6. Indexes
    BY SMTT(40), <1>2, <1>3, <1>4, <1>5 DEF Indexes, InLog
<1>7. States
    <2>1. \A s \in Server : reached(s) = 0
        BY <1>4, <1>5 DEF reached
    <2> QED BY ZenonT(60), <1>2, <1>3, <1>4, <1>5, <2>1 DEF States, StateIsLogPrefix
<1>8. Owned
    BY ZenonT(60), <1>3, <1>5, NoChannel DEF Owned, OwnedAt, Held
<1>9. Answers
    BY ZenonT(60), <1>3, <1>5, NoChannel DEF Answers
<1>10. Sessions
    <2>1. \A c \in Client : machine[Len(log)].clientSeq[c] = 0
        BY <1>2 DEF noState
    <2> QED BY ZenonT(60), <1>2, <2>1 DEF Sessions
<1>11. Clerks
    <2>1. \A c \in Client : clerk[c].op = {} /\ clerk[c].seqNum = 1
        BY ZenonT(60) DEF Init, MakeClerk
    <2>2. \A c \in Client : OneOp(c) /\ Acked(c)
        BY <2>1 DEF OneOp, Acked
    <2> QED BY ZenonT(60), <1>2, <1>3, <2>2 DEF Clerks, Ops
<1> QED BY ZenonT(60), <1>1, <1>6, <1>7, <1>8, <1>9, <1>10, <1>11 DEF IInv

\* The invariant is inductive.
LEMMA Inductive == IInv /\ [Next]_vars => IInv'
<1>1. IInv => Machine'
    BY DEF IInv, Machine
<1> QED BY ZenonT(60), <1>1, TypesNext, IndexesNext, StatesNext, OwnedNext, AnswersNext, SessionsNext, ClerksNext DEF IInv
---------------------------------------------------------------------------
(* The store that the service implements *)

\* What the refinement mapping gives each clerk.
LEMMA MapAt ==
    ASSUME NEW c \in Client
    PROVE  /\ seqNums[c] = clerk[c].seqNum /\ calledNow[c] = calledBy(c) /\ executedNow[c] = executedBy(c)
           /\ seenNow[c] = seenBy(c) /\ gotNow[c] = clerk[c].got
BY DEF seqNums, calledNow, executedNow, seenNow, gotNow

\* A part of the mapping that a step changes for one clerk.
LEMMA CalledIs ==
    ASSUME NEW c \in Client, NEW v, calledBy(c)' = v, \A d \in Client : d # c => calledBy(d)' = calledBy(d)
    PROVE  calledNow' = [calledNow EXCEPT ![c] = v]
BY Zenon DEF calledNow

\* The executed map after a step that changes one client's entry.
LEMMA ExecutedIs ==
    ASSUME NEW c \in Client, NEW v, executedBy(c)' = v, \A d \in Client : d # c => executedBy(d)' = executedBy(d)
    PROVE  executedNow' = [executedNow EXCEPT ![c] = v]
BY Zenon DEF executedNow

\* The seen map after a step that changes one client's entry.
LEMMA SeenIs ==
    ASSUME NEW c \in Client, NEW v, seenBy(c)' = v, \A d \in Client : d # c => seenBy(d)' = seenBy(d)
    PROVE  seenNow' = [seenNow EXCEPT ![c] = v]
BY Zenon DEF seenNow

\* A value a clerk is given is one its operation may return.
LEMMA GotIs ==
    ASSUME NEW c \in Client, NEW v, clerk'[c].got = v, \A d \in Client : d # c => clerk'[d].got = clerk[d].got
    PROVE  gotNow' = [gotNow EXCEPT ![c] = v]
BY ZenonT(60) DEF gotNow

\* A clerk whose operation is the same, while the log does not change.
LEMMA ClerkSame ==
    ASSUME NEW c \in Client, log' = log, clerk'[c].op = clerk[c].op
    PROVE  calledBy(c)' = calledBy(c) /\ executedBy(c)' = executedBy(c) /\ seenBy(c)' = seenBy(c)
<1>1. copiesOf(c)' = copiesOf(c) /\ machine' = machine
    BY ZenonT(60) DEF copiesOf, machine
<1> QED BY ZenonT(60), <1>1 DEF calledBy, executedBy, seenBy

\* A step that changes neither the log's states nor a clerk's call is a stutter.
LEMMA Stutters ==
    ASSUME \A c \in Client : /\ clerk'[c].seqNum = clerk[c].seqNum /\ clerk'[c].got = clerk[c].got
                             /\ calledBy(c)' = calledBy(c) /\ executedBy(c)' = executedBy(c)
                             /\ seenBy(c)' = seenBy(c),
           storeNow' = storeNow
    PROVE  UNCHANGED Abstract!vars
BY ZenonT(60) DEF Abstract!vars, seqNums, calledNow, executedNow, seenNow, gotNow

\* Steps that change neither the log nor what a clerk is doing.
LEMMA StuttersClerks ==
    ASSUME log' = log,
           \A c \in Client : clerk'[c].op = clerk[c].op /\ clerk'[c].got = clerk[c].got /\ clerk'[c].seqNum = clerk[c].seqNum
    PROVE  UNCHANGED Abstract!vars
<1>1. storeNow' = storeNow
    BY ZenonT(60) DEF storeNow, machine
<1> QED BY ZenonT(60), <1>1, ClerkSame, Stutters

\* A clerk without an operation: nothing of it is in the log.
LEMMA NoCopies ==
    ASSUME NEW c \in Client, clerk[c].op = {}
    PROVE  copiesOf(c) = {} /\ calledBy(c) = {} /\ executedBy(c) = FALSE /\ seenBy(c) = {}
BY ZenonT(60) DEF copiesOf, calledBy, executedBy, seenBy

\* An entry with the number of a clerk's operation is that operation.
LEMMA SameIsCopy ==
    ASSUME IInv, NEW i \in DOMAIN log, NEW c \in Client, log[i].ClientID = c, log[i].SeqNum = clerk[c].seqNum
    PROVE  log[i] \in clerk[c].op /\ i \in copiesOf(c)
<1>1. log[i] \in Ops
    BY ZenonT(60) DEF Ops
<1>2. Current(log[i])
    BY ZenonT(60), <1>1 DEF IInv, Clerks
<1> QED BY <1>2 DEF Current, copiesOf

\* A clerk's call is the store's Call.
LEMMA CallRefines ==
    ASSUME IInv, NEW c \in Client, NEW op \in Op, ClerkCalls(c, op)
    PROVE  Abstract!Call(c, [Key |-> op.Key, Optype |-> op.Optype])
<1>1. Types
    BY ZenonT(60) DEF IInv
<1>2. /\ log' = log
      /\ clerk[c].op = {} /\ op.ClientID = c /\ op.SeqNum = clerk[c].seqNum
      /\ \A d \in Client : d # c => clerk'[d] = clerk[d]
      /\ clerk'[c].op = {op} /\ clerk'[c].got = {} /\ clerk'[c].seqNum = clerk[c].seqNum
    BY ZenonT(60), <1>1, ClerkCallsIs
<1>3. \A d \in Client : d # c => calledBy(d)' = calledBy(d) /\ executedBy(d)' = executedBy(d) /\ seenBy(d)' = seenBy(d)
    BY <1>2, ClerkSame
<1>4. calledBy(c) = {} /\ executedBy(c) = FALSE /\ seenBy(c) = {}
    BY ZenonT(60), <1>2, NoCopies
<1>5. \A i \in DOMAIN log : log[i] # op
    BY ZenonT(60), <1>2, SameIsCopy
<1>6. copiesOf(c)' = {}
    BY ZenonT(60), <1>2, <1>5 DEF copiesOf
<1>7. executedBy(c)' = FALSE /\ seenBy(c)' = {}
    BY ZenonT(60), <1>6 DEF executedBy, seenBy
<1>8. calledBy(c)' = {[Key |-> op.Key, Optype |-> op.Optype]}
    BY ZenonT(60), <1>2 DEF calledBy
<1>9. calledNow' = [calledNow EXCEPT ![c] = {[Key |-> op.Key, Optype |-> op.Optype]}]
    BY ZenonT(60), <1>3, <1>8, CalledIs
<1>10. gotNow' = [gotNow EXCEPT ![c] = {}]
    BY <1>2, GotIs
<1>11. storeNow' = storeNow
    BY ZenonT(60), <1>2 DEF storeNow, machine
<1>12. seqNums' = seqNums
    BY ZenonT(60), <1>2 DEF seqNums
<1>13. executedNow' = executedNow
    BY Zenon, <1>3, <1>4, <1>7 DEF executedNow
<1>14. seenNow' = seenNow
    BY ZenonT(60), <1>3, <1>4, <1>7 DEF seenNow
<1>15. calledNow[c] = {}
    BY ZenonT(60), <1>4, MapAt
<1> QED BY ZenonT(60), <1>9, <1>10, <1>11, <1>12, <1>13, <1>14, <1>15 DEF Abstract!Call

\* A reply a clerk accepts is the store's Return.
LEMMA ReturnRefines ==
    ASSUME IInv, NEW call \in calls, ClerkReceives(call), call.Err # "ErrWrongLeader"
    PROVE  Abstract!Return(call.op.ClientID)
<1> DEFINE c == call.op.ClientID
           op == call.op
<1>1. Machine /\ Types /\ Answers /\ Clerks
    BY ZenonT(60) DEF IInv
<1>2. /\ log' = log /\ c \in Client /\ op \in Op /\ call.stage = "answered" /\ call.live
      /\ \A d \in Client : d # c => clerk'[d] = clerk[d]
      /\ clerk'[c].op = {} /\ clerk'[c].seqNum = clerk[c].seqNum + 1
      /\ clerk'[c].got = IF op.Optype = "Get" THEN {call.Value} ELSE {}
    BY ZenonT(60), <1>1, ClerkReceivesIs
<1>3. op \in clerk[c].op /\ OneOp(c)
    BY ZenonT(60), <1>1, <1>2 DEF Clerks, Live
<1>4. clerk[c].got = {} /\ clerk[c].op = {op} /\ op.SeqNum = clerk[c].seqNum
    BY ZenonT(60), <1>3 DEF OneOp
<1>5. PICK i \in DOMAIN log : sameOp(log[i], op) /\ call.Value = appliedOp(machine[i - 1], log[i]).Value
    BY ZenonT(60), <1>1, <1>2 DEF Answers, Answered
<1>6. log[i] = op /\ i \in copiesOf(c)
    <2>1. log[i].ClientID = c /\ log[i].SeqNum = clerk[c].seqNum
        BY ZenonT(60), <1>4, <1>5 DEF sameOp
    <2> QED BY ZenonT(60), <1>2, <1>4, <2>1, SameIsCopy
<1> HIDE DEF c, op
<1>7. \A d \in Client : d # c => calledBy(d)' = calledBy(d) /\ executedBy(d)' = executedBy(d) /\ seenBy(d)' = seenBy(d)
    BY ZenonT(60), <1>2, ClerkSame
<1>8. calledBy(c)' = {} /\ executedBy(c)' = FALSE /\ seenBy(c)' = {}
    <2>1. copiesOf(c)' = {}
        BY ZenonT(60), <1>2 DEF copiesOf
    <2> QED BY ZenonT(60), <1>2, <2>1 DEF calledBy, executedBy, seenBy
<1>9. calledNow' = [calledNow EXCEPT ![c] = {}]
    <2>1. c \in Client /\ calledBy(c)' = {} /\ \A d \in Client : d # c => calledBy(d)' = calledBy(d)
        BY ZenonT(60), <1>2, <1>7, <1>8
    <2> QED BY ZenonT(60), <2>1, CalledIs
<1>10. executedNow' = [executedNow EXCEPT ![c] = FALSE]
    <2>1. c \in Client /\ executedBy(c)' = FALSE /\ \A d \in Client : d # c => executedBy(d)' = executedBy(d)
        BY ZenonT(60), <1>2, <1>7, <1>8
    <2> QED BY ZenonT(60), <2>1, ExecutedIs
<1>11. seenNow' = [seenNow EXCEPT ![c] = {}]
    <2>1. c \in Client /\ seenBy(c)' = {} /\ \A d \in Client : d # c => seenBy(d)' = seenBy(d)
        BY ZenonT(60), <1>2, <1>7, <1>8
    <2> QED BY ZenonT(60), <2>1, SeenIs
<1>12. seqNums' = [seqNums EXCEPT ![c] = @ + 1]
    BY ZenonT(60), <1>2 DEF seqNums
<1>13. storeNow' = storeNow
    BY ZenonT(60), <1>2 DEF storeNow, machine
<1> DEFINE abs == [Key |-> op.Key, Optype |-> op.Optype]
<1>14. abs \in calledNow[c] /\ abs.Optype = op.Optype
    BY ZenonT(60), <1>2, <1>4, MapAt DEF calledBy
<1>15. CASE op.Optype # "Get"
    <2>1. executedNow[c]
        BY Zenon, <1>2, <1>6, <1>15, MapAt DEF executedBy
    <2>2. gotNow' = gotNow
        BY Zenon, <1>2, <1>4, <1>15 DEF gotNow
    <2> HIDE DEF abs
    <2> QED BY <1>9, <1>10, <1>11, <1>12, <1>13, <1>14, <1>15, <2>1, <2>2 DEF Abstract!Return, c
<1>16. CASE op.Optype = "Get"
    <2>1. machine[i].currentState = machine[i - 1].currentState
        <3>1. machine[i] = applyOp(machine[i - 1], log[i])
            BY ZenonT(60), <1>1, LogMachine
        <3> QED BY <1>6, <1>16, <3>1 DEF applyOp, applyToStateMachine
    <2>2. call.Value = machine[i].currentState[op.Key]
        BY ZenonT(60), <1>5, <1>6, <1>16, <2>1 DEF appliedOp
    <2>3. call.Value \in seenBy(c)
        BY ZenonT(60), <1>6, <1>16, <2>2 DEF seenBy
    <2>4. call.Value \in seenNow[c]
        BY ZenonT(60), <1>2, <2>3, MapAt
    <2>5. gotNow' = [gotNow EXCEPT ![c] = {call.Value}]
        BY ZenonT(60), <1>2, <1>16, GotIs
    <2> HIDE DEF abs
    <2> QED BY ZenonT(60), <1>9, <1>10, <1>11, <1>12, <1>13, <1>14, <1>16, <2>4, <2>5 DEF Abstract!Return, c
<1> QED BY <1>15, <1>16

\* The entry that Commit appends is a copy of the operation of the clerk that
\* has it, and of no other; it takes effect only the first time.
LEMMA CommitRefines ==
    ASSUME IInv, Commit
    PROVE  UNCHANGED Abstract!vars \/ \E c \in Client : Abstract!Execute(c) \/ Abstract!Read(c)
<1>1. Machine /\ Types /\ Sessions /\ Clerks
    BY DEF IInv
<1>2. PICK entry \in pending :
        /\ entry.op \in Op /\ Len(log') = Len(log) + 1 /\ Len(log) \in Nat
        /\ \A i \in DOMAIN log : i \in DOMAIN log' /\ log'[i] = log[i]
        /\ log'[Len(log) + 1] = entry.op /\ DOMAIN log' = DOMAIN log \cup {Len(log) + 1}
        /\ \A n \in 0..Len(log) : machine'[n] = machine[n]
        /\ machine'[Len(log) + 1] = applyOp(machine[Len(log)], entry.op)
    BY Zenon, <1>1, CommitIs
<1> DEFINE op == entry.op
           c == entry.op.ClientID
           n == Len(log) + 1
           before == machine[Len(log)]
<1>3. clerk' = clerk
    BY ZenonT(60) DEF Commit
<1>4. c \in Client /\ op.SeqNum \in Nat /\ op.Key \in Key /\ op.Optype \in {"Get", "Put", "Append"}
    BY ZenonT(60), <1>2 DEF Op
<1>5. Current(op)
    BY ZenonT(60), <1>1 DEF Clerks, Ops
<1>6. DOMAIN log = 1..Len(log) /\ before \in State /\ n \notin DOMAIN log
      /\ \A i \in DOMAIN log : machine'[i] = machine[i]
    BY ZenonT(60), <1>1, CommitFacts
<1>7. before.currentState \in [Key -> Value] /\ before.clientSeq \in [Client -> Nat]
    BY ZenonT(60), <1>6 DEF State, Value
<1>8. storeNow = before.currentState /\ storeNow' = applyOp(before, op).currentState
    BY ZenonT(60), <1>2 DEF storeNow
<1> HIDE DEF op, c, n, before
<1>9. \A d \in Client : copiesOf(d)' = copiesOf(d) \cup {i \in {n} : op \in clerk[d].op}
    BY ZenonT(60), <1>2, <1>3, <1>6 DEF copiesOf, op, n
<1>10. \A d \in Client : calledBy(d)' = calledBy(d)
    BY ZenonT(60), <1>3 DEF calledBy
<1>11. \A d \in Client : op \in clerk[d].op => d = c /\ clerk[d].op = {op} /\ op.SeqNum = clerk[d].seqNum
    BY <1>1 DEF Clerks, OneOp, c, op
<1>12. \A d \in Client : copiesOf(d) \subseteq DOMAIN log
    BY ZenonT(60) DEF copiesOf
<1>13. ASSUME NEW d \in Client, op \notin clerk[d].op
       PROVE  executedBy(d)' = executedBy(d) /\ seenBy(d)' = seenBy(d)
    <2>1. copiesOf(d)' = copiesOf(d)
        BY ZenonT(60), <1>9, <1>13
    <2>2. \A i \in copiesOf(d) : log'[i] = log[i] /\ machine'[i] = machine[i]
        BY ZenonT(60), <1>2, <1>6, <1>12
    <2> QED BY <2>1, <2>2 DEF executedBy, seenBy
<1>14. \A d \in Client : d # c => executedBy(d)' = executedBy(d) /\ seenBy(d)' = seenBy(d)
    BY ZenonT(60), <1>11, <1>13
<1>15. seqNums' = seqNums /\ gotNow' = gotNow /\ calledNow' = calledNow
    BY ZenonT(60), <1>3, <1>10 DEF seqNums, gotNow, calledNow
<1>16. CASE op \notin clerk[c].op
    <2>1. op.SeqNum \in 1..(clerk[c].seqNum - 1)
        <3>1. clerk[c].seqNum \in Nat
            BY ZenonT(60), <1>1, <1>4 DEF Types, Clerk
        <3> QED BY SMTT(40), <1>4, <1>5, <1>16, <3>1 DEF Current, c, op
    <2>2. PICK i \in DOMAIN log : log[i].ClientID = c /\ log[i].SeqNum = op.SeqNum
        BY ZenonT(60), <1>1, <1>4, <2>1 DEF Clerks, Acked
    <2>3. op.SeqNum <= before.clientSeq[c]
        BY ZenonT(60), <1>1, <1>4, <2>2 DEF Sessions, before
    <2>4. applyOp(before, op) = before
        BY ZenonT(60), <1>4, <1>7, <2>3 DEF applyOp, c, op
    <2>5. storeNow' = storeNow
        BY ZenonT(60), <1>8, <2>4
    <2>6. \A d \in Client : executedBy(d)' = executedBy(d) /\ seenBy(d)' = seenBy(d)
        BY ZenonT(60), <1>13, <1>14, <1>16
    <2> QED BY ZenonT(60), <1>3, <1>10, <2>5, <2>6, Stutters
<1>17. ASSUME op \in clerk[c].op
       PROVE  /\ clerk[c].op = {op} /\ op.SeqNum = clerk[c].seqNum
              /\ copiesOf(c)' = copiesOf(c) \cup {n} /\ log'[n] = op
              /\ \A i \in copiesOf(c) : log[i] = op /\ log'[i] = op /\ machine'[i] = machine[i]
              /\ calledNow[c] = {[Key |-> op.Key, Optype |-> op.Optype]}
    <2>1. clerk[c].op = {op} /\ op.SeqNum = clerk[c].seqNum
        BY ZenonT(60), <1>4, <1>11, <1>17
    <2>2. copiesOf(c)' = copiesOf(c) \cup {n} /\ log'[n] = op
        BY ZenonT(60), <1>2, <1>4, <1>9, <1>17 DEF op, n
    <2>3. \A i \in copiesOf(c) : log[i] = op /\ log'[i] = op /\ machine'[i] = machine[i]
        BY ZenonT(60), <1>2, <1>6, <2>1 DEF copiesOf
    <2>4. calledNow[c] = {[Key |-> op.Key, Optype |-> op.Optype]}
        BY SMTT(40), <1>4, <2>1, MapAt DEF calledBy
    <2> QED BY ZenonT(60), <2>1, <2>2, <2>3, <2>4
<1> DEFINE abs == [Key |-> op.Key, Optype |-> op.Optype]
<1>18. CASE op \in clerk[c].op /\ op.Optype = "Get"
    <2>1. storeNow' = storeNow
        BY ZenonT(60), <1>8, <1>18 DEF applyOp, applyToStateMachine
    <2>2. executedBy(c)' = FALSE /\ executedBy(c) = FALSE
        BY <1>17, <1>18 DEF executedBy
    <2>3. executedNow' = executedNow
        BY Zenon, <1>14, <2>2 DEF executedNow
    <2>4. machine'[n].currentState = storeNow
        BY ZenonT(60), <1>2, <1>8, <2>1 DEF n, op, before
    <2>5. seenBy(c)' = seenBy(c) \cup {storeNow[op.Key]}
        <3>1. seenBy(c)' = {machine'[i].currentState[op.Key] : i \in copiesOf(c) \cup {n}}
            <4>1. \A i \in copiesOf(c) \cup {n} : log'[i] = op
                BY ZenonT(60), <1>17, <1>18
            <4>2. copiesOf(c)' = copiesOf(c) \cup {n}
                BY ZenonT(60), <1>17, <1>18
            <4> QED BY ZenonT(60), <1>18, <4>1, <4>2 DEF seenBy
        <3>2. seenBy(c) = {machine[i].currentState[op.Key] : i \in copiesOf(c)}
            BY SMTT(40), <1>17, <1>18 DEF seenBy
        <3> QED BY SMTT(40), <1>17, <1>18, <2>4, <3>1, <3>2
    <2>6. seenNow' = [seenNow EXCEPT ![c] = seenBy(c) \cup {storeNow[op.Key]}]
        BY ZenonT(60), <1>4, <1>14, <2>5, SeenIs
    <2>7. seenNow' = [seenNow EXCEPT ![c] = @ \cup {storeNow[abs.Key]}]
        BY ZenonT(60), <1>4, <2>6, MapAt DEF seenNow
    <2>8. abs \in calledNow[c] /\ abs.Optype = "Get"
        BY ZenonT(60), <1>17, <1>18
    <2> HIDE DEF abs
    <2>9. Abstract!Read(c)
        BY ZenonT(60), <1>15, <2>1, <2>3, <2>7, <2>8 DEF Abstract!Read
    <2> QED BY <1>4, <2>9
<1>19. CASE op \in clerk[c].op /\ op.Optype # "Get"
    <2>1. seenBy(c)' = {} /\ seenBy(c) = {}
        BY ZenonT(60), <1>17, <1>19 DEF seenBy
    <2>2. executedBy(c)' = TRUE
        BY <1>17, <1>19 DEF executedBy
    <2>3. CASE before.clientSeq[c] >= op.SeqNum
        <3>1. applyOp(before, op) = before
            BY ZenonT(60), <2>3 DEF applyOp, c, op
        <3>2. PICK i \in DOMAIN log : log[i].ClientID = c /\ log[i].SeqNum = before.clientSeq[c]
            <4>1. before.clientSeq[c] # 0
                BY ZenonT(60), <1>4, <1>5, <1>7, <2>3, SeqNumFacts DEF Current, op
            <4> QED BY ZenonT(60), <1>1, <1>4, <4>1 DEF Sessions, before
        <3>3. log[i].SeqNum = clerk[c].seqNum
            <4>1. Current(log[i])
                BY ZenonT(60), <1>1 DEF Clerks, Ops
            <4>2. log[i].SeqNum \in Nat /\ clerk[c].seqNum \in Nat
                BY ZenonT(60), <1>4, <1>7, <1>17, <1>19, <3>2
            <4>3. log[i].SeqNum <= clerk[c].seqNum /\ log[i].SeqNum >= clerk[c].seqNum
                BY ZenonT(60), <1>17, <1>19, <2>3, <3>2, <4>1 DEF Current
            <4> QED BY ZenonT(60), <4>2, <4>3, SeqNumFacts
        <3>4. i \in copiesOf(c)
            BY ZenonT(60), <1>4, <3>2, <3>3, SameIsCopy
        <3>5. executedBy(c) = TRUE
            BY ZenonT(60), <1>17, <1>19, <3>4 DEF executedBy
        <3>6. storeNow' = storeNow
            BY ZenonT(60), <1>8, <3>1
        <3>7. \A d \in Client : executedBy(d)' = executedBy(d) /\ seenBy(d)' = seenBy(d)
            BY ZenonT(60), <1>14, <2>1, <2>2, <3>5
        <3> QED BY ZenonT(60), <1>3, <1>10, <3>6, <3>7, Stutters
    <2>4. CASE ~(before.clientSeq[c] >= op.SeqNum)
        <3>1. applyOp(before, op) = applyToStateMachine(before, op)
            BY <2>4 DEF applyOp, c, op
        <3>2. copiesOf(c) = {}
            <4>1. ASSUME NEW i \in copiesOf(c) PROVE FALSE
                <5>1. i \in DOMAIN log /\ log[i] = op
                    BY ZenonT(60), <1>4, <1>12, <1>17, <1>19
                <5>2. op.SeqNum <= before.clientSeq[c]
                    BY ZenonT(60), <1>1, <1>4, <5>1 DEF Sessions, before, c, op
                <5> QED BY ZenonT(60), <1>4, <1>7, <2>4, <5>2
            <4> QED BY ZenonT(60), <4>1
        <3>3. ~executedNow[c]
            BY ZenonT(60), <1>4, <3>2, MapAt DEF executedBy
        <3>4. executedNow' = [executedNow EXCEPT ![c] = TRUE]
            BY ZenonT(60), <1>4, <1>14, <2>2, ExecutedIs
        <3>5. seenNow' = seenNow
            BY ZenonT(60), <1>14, <2>1 DEF seenNow
        <3>6. op.SeqNum = seqNums[c]
            BY ZenonT(60), <1>4, <1>17, <1>19, MapAt
        <3>7. storeNow' = [storeNow EXCEPT ![op.Key] =
                            Abstract!Written(storeNow[op.Key], abs, Abstract!Tag(c, seqNums[c]))]
            <4>1. op \in Op
                BY ZenonT(60), <1>2 DEF op
            <4>2. applyToStateMachine(before, op).currentState =
                    [before.currentState EXCEPT ![op.Key] =
                        Abstract!Written(before.currentState[op.Key], abs, Abstract!Tag(op.ClientID, op.SeqNum))]
                BY ZenonT(60), <1>6, <1>19, <4>1, WritesAs
            <4> QED BY ZenonT(60), <1>8, <3>1, <3>6, <4>2 DEF c, op
        <3>8. abs \in calledNow[c] /\ abs.Optype # "Get" /\ abs.Key = op.Key
            BY ZenonT(60), <1>17, <1>19
        <3> HIDE DEF abs
        <3>9. storeNow' = [storeNow EXCEPT ![abs.Key] = Abstract!Written(@, abs, Abstract!Tag(c, seqNums[c]))]
            BY ZenonT(60), <3>7, <3>8
        <3>10. Abstract!Execute(c)
            BY ZenonT(60), <1>15, <3>3, <3>4, <3>5, <3>8, <3>9 DEF Abstract!Execute
        <3> QED BY ZenonT(60), <1>4, <3>10
    <2> QED BY ZenonT(60), <2>3, <2>4
<1> QED BY <1>16, <1>18, <1>19

\* Every step is a step of the store, or changes nothing it shows.
LEMMA StepRefines == IInv /\ [Next]_vars => UNCHANGED Abstract!vars \/ Abstract!Next
<1> SUFFICES ASSUME IInv, [Next]_vars PROVE UNCHANGED Abstract!vars \/ Abstract!Next
    OBVIOUS
<1>1. Types
    BY DEF IInv
<1>2. ASSUME NEW c \in Client, NEW op \in Op, ClerkCalls(c, op) PROVE Abstract!Next
    <2> DEFINE abs == [Key |-> op.Key, Optype |-> op.Optype]
    <2>1. abs \in Abstract!Op
        BY DEF Op, Abstract!Op
    <2>2. Abstract!Call(c, abs)
        BY ZenonT(60), <1>2, CallRefines
    <2> HIDE DEF abs
    <2> QED BY ZenonT(60), <2>1, <2>2 DEF Abstract!Next
<1>3. ASSUME NEW c \in Client, NEW s \in Server, ClerkSends(c, s) PROVE UNCHANGED Abstract!vars
    <2>1. \A d \in Client : clerk'[d].op = clerk[d].op /\ clerk'[d].got = clerk[d].got /\ clerk'[d].seqNum = clerk[d].seqNum
        BY Zenon, <1>1, <1>3, ClerkSendsIs
    <2>2. log' = log
        BY Zenon, <1>3 DEF ClerkSends
    <2> QED BY ZenonT(60), <2>1, <2>2, StuttersClerks
<1>4. ASSUME NEW call \in calls, ClerkReceives(call) PROVE UNCHANGED Abstract!vars \/ Abstract!Next
    <2>1. CASE call.Err = "ErrWrongLeader"
        <3>1. \A d \in Client : clerk'[d].op = clerk[d].op /\ clerk'[d].got = clerk[d].got /\ clerk'[d].seqNum = clerk[d].seqNum
            BY Zenon, <1>1, <1>4, <2>1, ClerkReceivesIs
        <3>2. log' = log
            BY Zenon, <1>4 DEF ClerkReceives
        <3> QED BY <3>1, <3>2, StuttersClerks
    <2>2. CASE call.Err # "ErrWrongLeader"
        <3>1. call.op.ClientID \in Client
            BY ZenonT(60), <1>1 DEF Types, Call, Op
        <3> QED BY ZenonT(60), <1>4, <2>2, <3>1, ReturnRefines DEF Abstract!Next
    <2> QED BY ZenonT(60), <2>1, <2>2
<1>5. ASSUME NEW c \in Client, CallFails(c) PROVE UNCHANGED Abstract!vars
    <2>1. \A d \in Client : clerk'[d].op = clerk[d].op /\ clerk'[d].got = clerk[d].got /\ clerk'[d].seqNum = clerk[d].seqNum
        BY <1>1, <1>5, CallFailsIs
    <2>2. log' = log
        BY <1>5 DEF CallFails
    <2> QED BY ZenonT(60), <2>1, <2>2, StuttersClerks
<1>6. ASSUME Commit PROVE UNCHANGED Abstract!vars \/ Abstract!Next
    BY <1>6, CommitRefines DEF Abstract!Next
<1>7. ASSUME UNCHANGED <<log, clerk>> PROVE UNCHANGED Abstract!vars
    BY ZenonT(60), <1>7, StuttersClerks
<1>8. ASSUME NEW call \in calls, HandlerRefuses(call) \/ HandlerWaits(call) \/ HandlerTimesOut(call) \/ HandlerReceives(call)
      PROVE  UNCHANGED Abstract!vars
    BY ZenonT(60), <1>7, <1>8 DEF HandlerRefuses, HandlerWaits, HandlerTimesOut, HandlerReceives
<1>9. ASSUME StartNext PROVE UNCHANGED Abstract!vars
    BY <1>7, <1>9 DEF StartNext, Get, PutAppend
<1>10. ASSUME NEW s \in Server, NEW index, closeWaitCh(s, index) PROVE UNCHANGED Abstract!vars
    BY ZenonT(60), <1>7, <1>10 DEF closeWaitCh
<1>11. ASSUME NEW s \in Server, NEW takeSnapshot \in BOOLEAN, applyHandler(s, takeSnapshot) PROVE UNCHANGED Abstract!vars
    BY <1>7, <1>11 DEF applyHandler
<1>12. ASSUME NEW s \in Server, NEW snapshot, installSnapshot(s, snapshot) PROVE UNCHANGED Abstract!vars
    BY ZenonT(60), <1>7, <1>12 DEF installSnapshot
<1>13. ASSUME NEW s \in Server, NEW index, applyChecker(s, index) PROVE UNCHANGED Abstract!vars
    BY ZenonT(60), <1>7, <1>13 DEF applyChecker
<1>14. ASSUME NEW s \in Server, Restart(s) PROVE UNCHANGED Abstract!vars
    BY ZenonT(60), <1>7, <1>14 DEF Restart
<1>15. CASE UNCHANGED vars
    BY <1>7, <1>15 DEF vars
<1> HIDE DEF Abstract!vars
<1> QED BY ZenonT(60), <1>2, <1>3, <1>4, <1>5, <1>6, <1>8, <1>9, <1>10, <1>11, <1>12, <1>13, <1>14, <1>15 DEF Next, StepNext

\* The service starts as the store does.
LEMMA InitRefines ==
    ASSUME Machine, Init
    PROVE  Abstract!Init
<1>1. Types
    BY TypesInit
<1>2. log = << >> /\ machine[0] = noState
    BY ZenonT(60), <1>1, LogMachine DEF Init
<1>3. storeNow = [k \in Key |-> << >>]
    BY SMTT(40), <1>2 DEF storeNow, noState
<1>4. \A c \in Client : clerk[c].seqNum = 1 /\ clerk[c].op = {} /\ clerk[c].got = {}
    BY DEF Init, MakeClerk
<1>5. \A c \in Client : calledBy(c) = {} /\ executedBy(c) = FALSE /\ seenBy(c) = {}
    BY Zenon, <1>4, NoCopies
<1> QED BY Zenon, <1>3, <1>4, <1>5 DEF Abstract!Init, seqNums, calledNow, executedNow, seenNow, gotNow
---------------------------------------------------------------------------
(* What holds always *)

LOCAL INSTANCE WellFoundedInduction

\* A non-empty set of naturals has a least element: the order of the naturals is
\* well-founded.
LEMMA LeastNatural == Least
<1> SUFFICES ASSUME NEW S \in SUBSET Nat, S # {} PROVE \E m \in S : \A n \in S : m <= n
    BY ZenonT(60) DEF Least
<1> DEFINE R == {p \in Nat \X Nat : p[1] < p[2]}
<1>1. IsWellFoundedOn(OpToRel(<, Nat), Nat)
    BY Zenon, NatLessThanWellFounded
<1>2. OpToRel(<, Nat) = R
    BY Zenon DEF OpToRel
<1>3. IsWellFoundedOn(R, Nat)
    BY Zenon, <1>1, <1>2
<1> HIDE DEF R
<1>4. PICK m \in S : \A n \in S : ~(<<n, m>> \in R)
    BY Zenon, <1>3, WFMin
<1>5. ASSUME NEW n \in S PROVE m <= n
    <2>1. n < m => <<n, m>> \in R
        BY DEF R
    <2> QED BY SMTT(40), <1>4, <2>1
<1> QED BY <1>5

\* The invariant holds always.
LEMMA Invariance == Spec => []IInv
<1>1. Init => IInv
    BY ZenonT(60), LeastNatural, MachineHolds, InitIs
<1> QED BY <1>1, Inductive, PTL DEF Spec

\* The variables have their types at every step of the handlers and of Raft.
THEOREM TypeCorrect == Spec => []TypeOK
<1>1. IInv => TypeOK
    <2> SUFFICES ASSUME IInv PROVE TypeOK
        OBVIOUS
    <2>1. Types /\ Indexes /\ Owned
        BY DEF IInv
    <2>2. Len(log) \in Nat /\ log \in Seq(Op) /\ pending \subseteq [index : Nat \ {0}, op : Op]
        BY ZenonT(60), <2>1, LogType DEF Types
    <2>3. ASSUME NEW s \in Server
          PROVE  /\ rf[s].next \in Nat \ {0}
                 /\ {rf[s].upto, rf[s].lastApplied, rf[s].saved.index} \subseteq 0..Len(log)
                 /\ kv[s].state \in State /\ kv[s].lastIncludedIndex \in 0..Len(log)
                 /\ kv[s].closing \subseteq DOMAIN kv[s].waitChan
        BY ZenonT(60), <2>1, ServerTypes
    <2>4. \A call \in calls : /\ call.op \in Op /\ call.srv \in Server /\ call.live \in BOOLEAN
                             /\ call.stage \in {"sent", "started", "waiting", "answered"} /\ call.index \in Nat
                             /\ call.Err \in {"", "OK", "ErrWrongLeader"}
        BY ZenonT(60), <2>1 DEF Types, Call
    <2>5. \A c \in Client : clerk[c].seqNum \in Nat \ {0} /\ clerk[c].op \subseteq Op /\ clerk[c].leaderID \subseteq Server
        BY <2>1 DEF Types, Clerk
    <2> QED BY ZenonT(60), <2>2, <2>3, <2>4, <2>5 DEF TypeOK
<1> QED BY <1>1, Invariance, PTL

\* A server's maps, and the snapshots its persister holds, are what a prefix of
\* the log makes of them, also when installSnapshot overtakes the operations that
\* applyChecker had copied, or StartKVServer reads a snapshot back.
THEOREM StateIsLogPrefixHolds == Spec => []StateIsLogPrefix
<1>1. IInv => StateIsLogPrefix
    BY DEF IInv, States
<1> QED BY <1>1, Invariance, PTL

\* Every wait channel has either one handler waiting on it or one goroutine that
\* will close it: no channel leaks and none is closed twice.
THEOREM ChannelsOwnedHolds == Spec => []ChannelsOwned
<1>1. IInv => ChannelsOwned
    <2> DEFINE W(s, i) == {call \in calls : call.srv = s /\ call.index = i /\ call.stage = "waiting"}
    <2> SUFFICES ASSUME IInv, NEW s \in Server, NEW i \in DOMAIN kv[s].waitChan
                 PROVE  IF i \in kv[s].closing THEN W(s, i) = {} ELSE \E call \in W(s, i) : W(s, i) = {call}
        BY Zenon DEF ChannelsOwned
    <2>1. OwnedAt(s)
        BY ZenonT(60) DEF IInv, Owned
    <2>2. W(s, i) \subseteq Held(s)
        BY ZenonT(60) DEF Held
    <2>3. CASE i \in kv[s].closing
        BY SMTT(40), <2>1, <2>2, <2>3 DEF OwnedAt
    <2>4. CASE i \notin kv[s].closing
        <3>1. PICK call \in Held(s) : call.index = i /\ call.stage = "waiting"
            BY ZenonT(60), <2>1, <2>4 DEF OwnedAt
        <3>2. call \in W(s, i)
            BY ZenonT(60), <3>1 DEF Held
        <3>3. \A other \in W(s, i) : other = call
            BY ZenonT(60), <2>1, <2>2, <3>1 DEF OwnedAt
        <3> QED BY ZenonT(60), <2>4, <3>2, <3>3
    <2> QED BY ZenonT(60), <2>3, <2>4
<1> QED BY <1>1, Invariance, PTL

\* The service is linearizable: whatever is lost, retried at another server,
\* restarted or replaced by a snapshot, clerks see one store on which each Put
\* and Append takes effect exactly once between its call and its return, and from
\* which each Get returns a value its key had in between.
THEOREM Refinement == Spec => Linearizable
<1>1. Init => Abstract!Init
    BY ZenonT(60), LeastNatural, MachineHolds, InitRefines
<1> QED BY <1>1, Invariance, StepRefines, PTL DEF Spec, Linearizable, Abstract!Spec
=================================================================================
