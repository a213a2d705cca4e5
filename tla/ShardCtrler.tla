------------------------------ MODULE ShardCtrler -------------------------------
(***************************************************************************)
(* The shard controller, src/shardctrler/server.go and client.go: clerks   *)
(* that retry a request at one server after another, RequestHandler, which *)
(* starts the request in Raft and waits on a channel for the operation     *)
(* applied at its index, and applyHandler, which applies committed         *)
(* operations and feeds the channels.                                      *)
(*                                                                         *)
(* Raft is used through what module Raft shows of it: servers apply the    *)
(* same committed log in order, and a server that believes itself leader   *)
(* gets an index beyond what it has applied, at which another server's     *)
(* entry may be committed instead.  The controller takes no snapshots: a   *)
(* server that restarts applies the whole log again.                       *)
(*                                                                         *)
(* A handler waits 700 ms at most, less than the time a server needs to    *)
(* lose the leadership and win it back, so Start gives no index that a     *)
(* handler of the same server still holds.                                 *)
(*                                                                         *)
(* An operator whose comment starts with "Slip:" is the definition that    *)
(* follows it with a plausible programming error.                          *)
(***************************************************************************)
EXTENDS Rebalance

CONSTANTS
    N,          \* number of servers
    Client,     \* the clerks
    Request     \* the Join, Leave, Move and Query arguments that clerks use

ASSUME NAssumption == N \in Nat \ {0}
ASSUME RequestAssumption ==
    \A args \in Request :
        \/ args.ArgsType \in {"Join", "Leave"} /\ args.GIDs \subseteq Gid
        \/ args.ArgsType = "Move" /\ args.Shard \in Shard /\ args.GID \in Gid
        \/ args.ArgsType = "Query" /\ args.Num \in Nat \cup {-1}

VARIABLES
    log,        \* the committed operations (Raft)
    pending,    \* operations started that may be committed, with their index (Raft)
    sc,         \* sc[s]: a server's memory
    calls,      \* RequestHandler calls, from the request to its answer
    clerk,      \* clerk[c]: a clerk's memory
    acked       \* history: the latest configuration a clerk has learnt of

vars == <<log, pending, sc, calls, clerk, acked>>

Server == 1..N

Op == [args : Request, SeqNum : Nat, ClientID : Client]

IsQuery(op) == op.args.ArgsType = "Query"

\* StartServer, on an empty memory.
StartServer ==
    [configs   |-> <<EmptyConfig>>,
     clientSeq |-> [c \in Client |-> 0],
     waitChan  |-> << >>,               \* index -> what the channel holds
     closing   |-> {},                  \* goroutines about to close a channel
     applied   |-> 0]

\* seqNum starts at 1; a clerk without a request has no args.
MakeClerk == [seqNum |-> 1, args |-> {}, srv |-> 1, calling |-> FALSE, floor |-> 0, got |-> {}]

Init ==
    /\ log = << >> /\ pending = {} /\ calls = {} /\ acked = 0
    /\ sc = [s \in Server |-> StartServer]
    /\ clerk = [c \in Client |-> MakeClerk]
---------------------------------------------------------------------------
(* Clerks *)

\* Query, Join, Leave or Move is called.
RequestBegins(c, args) ==
    /\ clerk[c].args = {}
    /\ clerk' = [clerk EXCEPT ![c].args = {args}, ![c].floor = acked, ![c].got = {}]
    /\ UNCHANGED <<log, pending, sc, calls, acked>>

\* srv.Call
RequestSends(c) ==
    /\ clerk[c].args # {} /\ ~clerk[c].calling
    /\ clerk' = [clerk EXCEPT ![c].calling = TRUE]
    /\ \E args \in clerk[c].args :
        calls' = calls \cup {[srv |-> clerk[c].srv, live |-> TRUE, stage |-> "sent", index |-> 0,
                              op |-> [args |-> args, SeqNum |-> clerk[c].seqNum, ClientID |-> c],
                              WrongLeader |-> FALSE, Config |-> EmptyConfig]}
    /\ UNCHANGED <<log, pending, sc, acked>>

nextServer(s) == (s % N) + 1

\* The number of the configuration made by the first copy of op in the log.
madeConfig(op) ==
    LET copies == {i \in DOMAIN log : log[i] = op}
    IN  IF copies = {} THEN 0
        ELSE Cardinality({i \in 1..Min(copies) : ~IsQuery(log[i])})

\* The call returns: the clerk tries the next server, or is done.
RequestReturns(call) ==
    LET c == call.op.ClientID
    IN  /\ call.stage = "answered" /\ call.live
        /\ calls' = calls \ {call}
        /\ IF call.WrongLeader
           THEN /\ clerk' = [clerk EXCEPT ![c].calling = FALSE, ![c].srv = nextServer(@)]
                /\ UNCHANGED acked
           ELSE /\ clerk' = [clerk EXCEPT ![c].calling = FALSE, ![c].args = {}, ![c].srv = 1,
                                          ![c].seqNum = @ + 1,
                                          ![c].got = IF IsQuery(call.op)
                                                     THEN {[want |-> call.op.args.Num,
                                                            num |-> call.Config.Num]} ELSE {}]
                /\ acked' = Max({acked, IF IsQuery(call.op) THEN call.Config.Num ELSE madeConfig(call.op)})
        /\ UNCHANGED <<log, pending, sc>>

\* The call fails: the request or the answer is lost, or the server is cut off
\* or restarted while its handler runs.
RequestFails(c) ==
    LET mine == {call \in calls : call.live /\ call.op.ClientID = c}
    IN  /\ clerk[c].calling
        /\ clerk' = [clerk EXCEPT ![c].calling = FALSE, ![c].srv = nextServer(@)]
        /\ calls' = (calls \ mine) \cup {[call EXCEPT !.live = FALSE] :
                        call \in {m \in mine : m.stage \in {"started", "waiting"}}}
        /\ UNCHANGED <<log, pending, sc, acked>>
---------------------------------------------------------------------------
(* Servers *)

getConfig(configs, num) ==
    IF num = -1 \/ num >= Len(configs) THEN lastConfig(configs) ELSE configs[num + 1]

\* The handler returns; nobody reads the answer of a call that has failed.
answered(call, wrongLeader, config) ==
    (calls \ {call}) \cup
        IF call.live THEN {[call EXCEPT !.stage = "answered", !.WrongLeader = wrongLeader, !.Config = config]}
        ELSE {}

\* RequestHandler at a server that is not the leader, or no longer at Start.
RequestHandlerRefuses(call) ==
    /\ call.stage = "sent"
    /\ calls' = answered(call, TRUE, EmptyConfig)
    /\ UNCHANGED <<log, pending, sc, clerk, acked>>

\* Slip: a leader answers a Query from its own configurations.
startUnlessQuery(call, index) ==
    IF IsQuery(call.op)
    THEN /\ calls' = answered(call, FALSE, getConfig(sc[call.srv].configs, call.op.args.Num))
         /\ UNCHANGED pending
    ELSE /\ calls' = (calls \ {call}) \cup {[call EXCEPT !.stage = "started", !.index = index]}
         /\ pending' = pending \cup {entry \in {[index |-> index, op |-> call.op]} : index > Len(log)}

\* Every operation goes through the log, a Query too.
startInRaft(call, index) ==
    /\ calls' = (calls \ {call}) \cup {[call EXCEPT !.stage = "started", !.index = index]}
    /\ pending' = pending \cup {entry \in {[index |-> index, op |-> call.op]} : index > Len(log)}

\* The indexes that handlers of a server hold.
heldIndexes(s) ==
    sc[s].closing \cup {call.index : call \in {k \in calls : k.srv = s /\ k.stage \in {"started", "waiting"}}}

\* The longest log a server can have.
lastStarted == Max({Len(log)} \cup {entry.index : entry \in pending})

\* RequestHandler at a leader, up to the return of Start.
RequestHandlerStarts(call, index) ==
    /\ call.stage = "sent"
    /\ index > sc[call.srv].applied /\ index <= lastStarted + 1
    /\ \A held \in heldIndexes(call.srv) : index > held
    /\ startInRaft(call, index)
    /\ UNCHANGED <<log, sc, clerk, acked>>

getWaitCh(waitChan, index) ==
    [i \in DOMAIN waitChan \cup {index} |-> IF i \in DOMAIN waitChan THEN waitChan[i] ELSE << >>]

\* The operation may have been applied before this: then the handler waits in vain.
RequestHandlerWaits(call) ==
    /\ call.stage = "started"
    /\ sc' = [sc EXCEPT ![call.srv].waitChan = getWaitCh(@, call.index)]
    /\ calls' = (calls \ {call}) \cup {[call EXCEPT !.stage = "waiting"]}
    /\ UNCHANGED <<log, pending, clerk, acked>>

\* Slip: a handler whose time is up leaves its channel behind.
leaveChannel(s, index) == UNCHANGED sc

\* The goroutine that closes the channel is started.
closeLater(s, index) == sc' = [sc EXCEPT ![s].closing = @ \cup {index}]

RequestHandlerTimesOut(call) ==
    /\ call.stage = "waiting"
    /\ calls' = answered(call, TRUE, EmptyConfig)
    /\ closeLater(call.srv, call.index)
    /\ UNCHANGED <<log, pending, clerk, acked>>

\* Slip: whatever was applied at the index answers the request.
anyOp(applyOp, op) == TRUE

\* The operation applied is the one that was started.
sameOp(applyOp, op) == applyOp.SeqNum = op.SeqNum /\ applyOp.ClientID = op.ClientID

RequestHandlerReceives(call) ==
    LET applyOp == Head(sc[call.srv].waitChan[call.index])
        config == IF IsQuery(call.op) THEN getConfig(sc[call.srv].configs, call.op.args.Num) ELSE EmptyConfig
    IN  /\ call.stage = "waiting" /\ sc[call.srv].waitChan[call.index] # << >>
        /\ calls' = IF sameOp(applyOp, call.op) THEN answered(call, FALSE, config)
                    ELSE answered(call, TRUE, EmptyConfig)
        /\ sc' = [sc EXCEPT ![call.srv].closing = @ \cup {call.index},
                            ![call.srv].waitChan[call.index] = << >>]
        /\ UNCHANGED <<log, pending, clerk, acked>>

\* The goroutine: close(waitCh), delete(sc.waitChan, index).
closeWaitCh(s, index) ==
    /\ index \in sc[s].closing
    /\ sc' = [sc EXCEPT ![s].closing = @ \ {index},
                        ![s].waitChan = [i \in DOMAIN @ \ {index} |-> @[i]]]
    /\ UNCHANGED <<log, pending, calls, clerk, acked>>

nextGroups(config, args) ==
    CASE args.ArgsType = "Join"  -> config.Groups \cup args.GIDs
      [] args.ArgsType = "Leave" -> config.Groups \ args.GIDs
      [] OTHER                   -> config.Groups

applyToStateMachine(configs, args, order) ==
    LET config == lastConfig(configs)
    IN  CASE args.ArgsType \in {"Join", "Leave"} ->
                Append(configs, nextConfig(config, nextGroups(config, args), order))
          [] args.ArgsType = "Move"  -> Append(configs, moveConfig(config, args.Shard, args.GID))
          [] args.ArgsType = "Query" -> configs

\* The operation is sent on the channel of its index, if there is one; after
\* a second on a full channel it is dropped.
sendApplied(waitChan, index, op) ==
    IF index \in DOMAIN waitChan /\ waitChan[index] = << >>
    THEN [waitChan EXCEPT ![index] = <<op>>] ELSE waitChan

\* clientSeq is read and never advanced.
applyHandler(s) ==
    LET index == sc[s].applied + 1
        op == log[index]
        config == lastConfig(sc[s].configs)
    IN  /\ index <= Len(log)
        /\ \E order \in orders(nextGroups(config, op.args)) :
            sc' = [sc EXCEPT ![s].applied = index,
                             ![s].configs = IF op.SeqNum <= sc[s].clientSeq[op.ClientID] THEN @
                                            ELSE applyToStateMachine(@, op.args, order),
                             ![s].waitChan = sendApplied(@, index, op)]
        /\ UNCHANGED <<log, pending, calls, clerk, acked>>

\* A crash, and StartServer: handlers and configurations are gone.
Restart(s) ==
    /\ sc' = [sc EXCEPT ![s] = StartServer]
    /\ calls' = {call \in calls : ~(call.srv = s /\ call.stage \in {"started", "waiting"})}
    /\ UNCHANGED <<log, pending, clerk, acked>>

\* Raft commits one of the operations started for the next index.
Commit ==
    /\ \E entry \in pending : entry.index = Len(log) + 1 /\ log' = Append(log, entry.op)
    /\ pending' = {entry \in pending : entry.index > Len(log) + 1}
    /\ UNCHANGED <<sc, calls, clerk, acked>>

\* The steps of clerks, handlers and applyHandler that continue what has begun.
StepNext ==
    \/ \E c \in Client : RequestSends(c)
    \/ \E call \in calls : \/ RequestReturns(call) \/ RequestHandlerRefuses(call)
                           \/ RequestHandlerWaits(call) \/ RequestHandlerTimesOut(call)
                           \/ RequestHandlerReceives(call)
    \/ \E s \in Server : applyHandler(s) \/ \E index \in sc[s].closing : closeWaitCh(s, index)
    \/ Commit

Next ==
    \/ StepNext
    \/ \E c \in Client, args \in Request : RequestBegins(c, args)
    \/ \E c \in Client : RequestFails(c)
    \/ \E call \in calls : \E index \in Nat : RequestHandlerStarts(call, index)
    \/ \E s \in Server : Restart(s)

Spec == Init /\ [][Next]_vars
---------------------------------------------------------------------------
TypeOK ==
    /\ log \in Seq(Op)
    /\ pending \subseteq [index : Nat \ {0}, op : Op]
    /\ \A s \in Server :
        /\ sc[s].configs \in Seq(Config) /\ sc[s].configs # << >>
        /\ sc[s].clientSeq \in [Client -> Nat]
        /\ \A i \in DOMAIN sc[s].waitChan : i \in Nat \ {0} /\ sc[s].waitChan[i] \in Seq(Op)
        /\ sc[s].closing \subseteq DOMAIN sc[s].waitChan
        /\ sc[s].applied \in 0..Len(log)
    /\ calls \subseteq [srv : Server, live : BOOLEAN, stage : {"sent", "started", "waiting", "answered"},
                        index : Nat, op : Op, WrongLeader : BOOLEAN, Config : Config]
    /\ \A c \in Client :
        /\ clerk[c].seqNum \in Nat \ {0} /\ clerk[c].args \subseteq Request
        /\ clerk[c].srv \in Server /\ clerk[c].calling \in BOOLEAN /\ clerk[c].floor \in Nat
    /\ acked \in Nat

\* Servers that have applied the same operations have the same configurations,
\* also after a restart replayed the log: applyToStateMachine is deterministic
\* although it ranges over Go maps.
ReplicasAgree ==
    \A s, t \in Server : sc[s].applied <= sc[t].applied => IsRestriction(sc[s].configs, sc[t].configs)

\* A request that was answered OK is committed: no handler takes another
\* operation, applied at the index it was promised, for its own.
AckedCommitted ==
    \A c \in Client : \A seq \in 1..(clerk[c].seqNum - 1) :
        \E i \in DOMAIN log : log[i].ClientID = c /\ log[i].SeqNum = seq

\* A Query returns the configuration it asks for, and the latest one is no
\* older than what any clerk had been told of when the Query was called,
\* whichever server answers it.
QueriesSeeAcked ==
    \A c \in Client : \A answer \in clerk[c].got :
        IF answer.want \in 0..clerk[c].floor THEN answer.num = answer.want
        ELSE answer.num >= clerk[c].floor

\* Every wait channel has one handler that will receive from it or one goroutine
\* that will close it: none is left behind, and none is closed twice.
ChannelsOwned ==
    \A s \in Server : \A i \in DOMAIN sc[s].waitChan :
        LET waiting == {call \in calls : call.srv = s /\ call.index = i /\ call.stage = "waiting"}
        IN  IF i \in sc[s].closing THEN waiting = {} ELSE \E call \in waiting : waiting = {call}

\* "SeqNum int // for deduplication" (server.go, common.go): the copies of a
\* request that a clerk's retries leave in the log make one configuration.
AppliedOnce ==
    \A s \in Server :
        LET done == SubSeq(log, 1, sc[s].applied)
        IN  Len(sc[s].configs) - 1 <= Cardinality({op \in Range(done) : ~IsQuery(op)})
=================================================================================
