--------------------------- MODULE ShardCtrlerProofs ----------------------------
(***************************************************************************)
(* The shard controller, for every number of servers, clerks, shards and   *)
(* groups, with retries, lost calls and restarts: replicas make the same   *)
(* configurations, what a clerk was told is committed, a Query is not      *)
(* stale, and every wait channel has one owner.                            *)
(***************************************************************************)
EXTENDS ShardCtrler, TLAPS

Index == Nat \ {0}

WaitChans == UNION {[I -> Seq(Op)] : I \in SUBSET Index}

Memory == [configs : Seq(Config), clientSeq : [Client -> Nat], waitChan : WaitChans,
           closing : SUBSET Index, applied : Nat]

Call == [srv : Server, live : BOOLEAN, stage : {"sent", "started", "waiting", "answered"},
         index : Nat, op : Op, WrongLeader : BOOLEAN, Config : Config]

Answer == [want : Nat \cup {-1}, num : Nat]

Clerk == [seqNum : Nat \ {0}, args : SUBSET Request, srv : Server, calling : BOOLEAN,
          floor : Nat, got : SUBSET Answer]

Types ==
    /\ log \in Seq(Op)
    /\ pending \subseteq [index : Index, op : Op]
    /\ sc \in [Server -> Memory]
    /\ calls \subseteq Call /\ \A call \in calls : call.stage \in {"started", "waiting"} => call.index # 0
    /\ clerk \in [Client -> Clerk]
    /\ acked \in Nat

\* Those of the first n operations that make a configuration, and their number.
making(ops, n) == {i \in 1..n : ~IsQuery(ops[i])}

made(ops, n) == Cardinality(making(ops, n))

\* What counting them comes to, and that a set of indexes has a first one:
\* CountingHolds below proves it.
Counting ==
    /\ \A ops \in Seq(Op) :
        /\ made(ops, 0) = 0
        /\ \A n \in 0..Len(ops) : /\ made(ops, n) \in Nat
                                  /\ \A m \in 0..n : made(ops, m) <= made(ops, n)
        /\ \A n \in DOMAIN ops : made(ops, n) = made(ops, n - 1) + IF IsQuery(ops[n]) THEN 0 ELSE 1
        /\ \A op \in Op : \A n \in 0..Len(ops) : made(Append(ops, op), n) = made(ops, n)
    /\ \A S \in SUBSET Nat : S # {} => Min(S) \in S

\* The order in which Go iterates over a map of groups is lost when they are
\* sorted: SortingHolds below proves it.
Sorting ==
    \A groups \in SUBSET Gid : \A order, other \in orders(groups) : liveGroup(order) = liveGroup(other)

\* The configuration that an operation makes of another one.
Makes(config, args, next) ==
    \E order \in orders(nextGroups(config, args)) :
        next = IF args.ArgsType = "Move" THEN moveConfig(config, args.Shard, args.GID)
               ELSE nextConfig(config, nextGroups(config, args), order)

\* A server's configurations: one for each operation applied that is no Query,
\* numbered, and made by it from the one before.
ConfigsAt(s) ==
    /\ sc[s].applied <= Len(log)
    /\ Len(sc[s].configs) = made(log, sc[s].applied) + 1
    /\ sc[s].configs[1] = EmptyConfig
    /\ \A k \in DOMAIN sc[s].configs : sc[s].configs[k].Num = k - 1
    /\ \A c \in Client : sc[s].clientSeq[c] = 0
    /\ \A i \in 1..sc[s].applied : ~IsQuery(log[i]) =>
        Makes(sc[s].configs[made(log, i)], log[i].args, sc[s].configs[made(log, i) + 1])

AgreeAt(s, t) ==
    \A k \in DOMAIN sc[s].configs \cap DOMAIN sc[t].configs : sc[s].configs[k] = sc[t].configs[k]

Configs == \A s \in Server : ConfigsAt(s) /\ \A t \in Server : AgreeAt(s, t)

\* The calls whose handler has an index of Raft.
Held(s) == {call \in calls : call.srv = s /\ call.stage \in {"started", "waiting"}}

\* No two of them have the same index, none has an index whose channel is about
\* to be closed, and a channel is there for one that waits or to be closed.
OwnedAt(s) ==
    /\ \A call \in Held(s) :
        /\ call.index \notin sc[s].closing
        /\ call.stage = "waiting" => call.index \in DOMAIN sc[s].waitChan
        /\ \A other \in Held(s) : other.index = call.index => other = call
    /\ sc[s].closing \subseteq DOMAIN sc[s].waitChan
    /\ \A i \in DOMAIN sc[s].waitChan :
        i \in sc[s].closing \/ \E call \in Held(s) : call.index = i /\ call.stage = "waiting"

Owned == \A s \in Server : OwnedAt(s)

\* What is sent on a channel is the operation that was applied there,
Sent(s, i) ==
    sc[s].waitChan[i] # << >> =>
        i \in DOMAIN log /\ i <= sc[s].applied /\ sc[s].waitChan[i] = <<log[i]>>

\* and what a handler answers to a Query is what the clerk may be told.
Fresh(call) ==
    LET floor == clerk[call.op.ClientID].floor
        want == call.op.args.Num
    IN  /\ call.Config.Num <= made(log, Len(log))
        /\ IF want \in 0..floor THEN call.Config.Num = want ELSE call.Config.Num >= floor

Answered(call) ==
    call.stage = "answered" =>
        /\ call.live
        /\ ~call.WrongLeader => /\ \E i \in DOMAIN log : sameOp(log[i], call.op)
                                /\ IsQuery(call.op) => Fresh(call)

Answers ==
    /\ \A s \in Server : \A i \in DOMAIN sc[s].waitChan : Sent(s, i)
    /\ \A call \in calls : Answered(call)

\* The operations there are, and that they are the current ones of their clerks
\* or older.
Ops == {log[i] : i \in DOMAIN log} \cup {entry.op : entry \in pending} \cup {call.op : call \in calls}

Current(op) ==
    /\ op.SeqNum >= 1 /\ op.SeqNum <= clerk[op.ClientID].seqNum
    /\ op.SeqNum = clerk[op.ClientID].seqNum => op.args \in clerk[op.ClientID].args

\* A clerk has one call that can be answered.
Live(call) ==
    call.live =>
        /\ clerk[call.op.ClientID].calling /\ call.op.SeqNum = clerk[call.op.ClientID].seqNum
        /\ \A other \in calls : other.live /\ other.op.ClientID = call.op.ClientID => other = call

Clerks ==
    /\ \A op \in Ops : Current(op)
    /\ \A call \in calls : Live(call)

\* What clerks have been told of is in the log, and where the log has a clerk's
\* current operation it has all that any clerk knew of when it was called.
Told ==
    /\ acked <= made(log, Len(log))
    /\ \A c \in Client : clerk[c].floor <= acked
    /\ \A i \in DOMAIN log : log[i].SeqNum = clerk[log[i].ClientID].seqNum =>
        made(log, i) >= clerk[log[i].ClientID].floor

IInv == Types /\ Configs /\ Owned /\ Answers /\ Clerks /\ Told /\ AckedCommitted /\ QueriesSeeAcked
---------------------------------------------------------------------------
(* Operators *)

\* The operations that make a configuration, one after the other.
LEMMA MakingOne ==
    ASSUME NEW ops \in Seq(Op)
    PROVE  /\ making(ops, 0) = {}
           /\ \A n \in 0..Len(ops) : making(ops, n) \subseteq 1..n /\ \A m \in 0..n : making(ops, m) \subseteq making(ops, n)
           /\ \A n \in DOMAIN ops : /\ n - 1 \in 0..Len(ops) /\ n \notin making(ops, n - 1)
                                    /\ IsQuery(ops[n]) => making(ops, n) = making(ops, n - 1)
                                    /\ ~IsQuery(ops[n]) => making(ops, n) = making(ops, n - 1) \cup {n}
<1>1. making(ops, 0) = {}
    BY DEF making
<1>2. ASSUME NEW n \in 0..Len(ops)
      PROVE  making(ops, n) \subseteq 1..n /\ \A m \in 0..n : making(ops, m) \subseteq making(ops, n)
    BY DEF making
<1>3. ASSUME NEW n \in DOMAIN ops
      PROVE  /\ n - 1 \in 0..Len(ops) /\ n \notin making(ops, n - 1)
             /\ IsQuery(ops[n]) => making(ops, n) = making(ops, n - 1)
             /\ ~IsQuery(ops[n]) => making(ops, n) = making(ops, n - 1) \cup {n}
    <2>1. n \in Nat /\ n - 1 \in 0..Len(ops) /\ n \notin 1..(n - 1) /\ n \in 1..n
          /\ \A i : i \in 1..n <=> i \in 1..(n - 1) \/ i = n
        OBVIOUS
    <2>2. n \notin making(ops, n - 1)
        BY ZenonT(60), <2>1 DEF making
    <2>3. IsQuery(ops[n]) => making(ops, n) = making(ops, n - 1)
        BY ZenonT(60), <2>1 DEF making
    <2>4. ~IsQuery(ops[n]) => making(ops, n) = making(ops, n - 1) \cup {n}
        BY ZenonT(60), <2>1 DEF making
    <2> QED BY ZenonT(60), <2>1, <2>2, <2>3, <2>4
<1> QED BY ZenonT(60), <1>1, <1>2, <1>3

\* An operation that is appended changes nothing for those before it.
LEMMA MakingAppend ==
    ASSUME NEW ops \in Seq(Op), NEW op \in Op, NEW n \in 0..Len(ops)
    PROVE  making(Append(ops, op), n) = making(ops, n)
<1>1. \A i \in 1..n : Append(ops, op)[i] = ops[i]
    OBVIOUS
<1> QED BY ZenonT(60), <1>1 DEF making

\* liveGroup looks at the set of the groups it is given.
LEMMA SortingHolds == Sorting
<1>1. ASSUME NEW groups, NEW order \in orders(groups) PROVE Range(order) = groups
    BY <1>1 DEF orders, Bijection, Injection, Surjection, Range
<1>2. ASSUME NEW groups, NEW order \in orders(groups), NEW other \in orders(groups)
      PROVE  liveGroup(order) = liveGroup(other)
    <2>1. Range(order) = groups /\ Range(other) = groups
        BY ZenonT(60), <1>1
    <2> QED BY ZenonT(60), <2>1 DEF liveGroup
<1> QED BY ZenonT(60), <1>2 DEF Sorting

\* StartServer's memory.
LEMMA StartServerType == StartServer \in Memory /\ DOMAIN StartServer.waitChan = {}
<1>1. << >> \in [{} -> Seq(Op)] /\ DOMAIN << >> = {}
    OBVIOUS
<1>2. << >> \in WaitChans
    BY <1>1 DEF WaitChans
<1>3. EmptyConfig \in Config
    BY DEF EmptyConfig, Config
<1>4. <<EmptyConfig>> \in Seq(Config) /\ [c \in Client |-> 0] \in [Client -> Nat]
    BY <1>3
<1> QED BY <1>1, <1>2, <1>4 DEF StartServer, Memory

\* getWaitCh adds an empty channel where there is none.
LEMMA GetWaitChType ==
    ASSUME NEW f \in WaitChans, NEW i \in Index
    PROVE  /\ getWaitCh(f, i) \in WaitChans
           /\ DOMAIN getWaitCh(f, i) = DOMAIN f \cup {i}
<1>1. PICK I \in SUBSET Index : f \in [I -> Seq(Op)]
    BY DEF WaitChans
<1>2. << >> \in Seq(Op)
    OBVIOUS
<1>3. getWaitCh(f, i) \in [I \cup {i} -> Seq(Op)]
    BY <1>1, <1>2 DEF getWaitCh
<1>4. I \cup {i} \in SUBSET Index
    OBVIOUS
<1>5. getWaitCh(f, i) \in WaitChans
    BY ZenonT(60), <1>3, <1>4 DEF WaitChans
<1> QED BY <1>5 DEF getWaitCh

\* What a channel holds is a queue of operations.
LEMMA ChannelType ==
    ASSUME NEW f \in WaitChans, NEW i \in DOMAIN f
    PROVE  i \in Index /\ f[i] \in Seq(Op)
BY ZenonT(60) DEF WaitChans

\* A channel that is filled or emptied.
LEMMA SetChannelType ==
    ASSUME NEW f \in WaitChans, NEW i \in DOMAIN f, NEW q \in Seq(Op)
    PROVE  [f EXCEPT ![i] = q] \in WaitChans
<1>1. PICK I \in SUBSET Index : f \in [I -> Seq(Op)]
    BY Zenon DEF WaitChans
<1>2. [f EXCEPT ![i] = q] \in [I -> Seq(Op)]
    BY <1>1
<1> QED BY <1>2 DEF WaitChans

\* A channel that is deleted.
LEMMA DropChannelType ==
    ASSUME NEW f \in WaitChans, NEW i
    PROVE  [j \in DOMAIN f \ {i} |-> f[j]] \in WaitChans
<1>1. PICK I \in SUBSET Index : f \in [I -> Seq(Op)]
    BY DEF WaitChans
<1>2. [j \in DOMAIN f \ {i} |-> f[j]] \in [I \ {i} -> Seq(Op)]
    BY Zenon, <1>1
<1>3. I \ {i} \in SUBSET Index
    BY Zenon
<1> QED BY Zenon, <1>2, <1>3 DEF WaitChans

\* sendApplied changes the channel of its index only.
LEMMA SendAppliedType ==
    ASSUME NEW f \in WaitChans, NEW i, NEW op \in Op
    PROVE  sendApplied(f, i, op) \in WaitChans /\ DOMAIN sendApplied(f, i, op) = DOMAIN f
<1>1. <<op>> \in Seq(Op)
    OBVIOUS
<1>2. CASE i \in DOMAIN f /\ f[i] = << >>
    BY Zenon, <1>1, <1>2, SetChannelType DEF sendApplied
<1>3. CASE ~(i \in DOMAIN f /\ f[i] = << >>)
    BY <1>3 DEF sendApplied
<1> QED BY <1>2, <1>3

\* It adds and removes none.
LEMMA SendAppliedDomain == \A f, i, op : DOMAIN sendApplied(f, i, op) = DOMAIN f
BY ZenonT(60) DEF sendApplied

\* The operations and what they ask for.
LEMMA OpFacts ==
    ASSUME NEW op \in Op
    PROVE  /\ op.args \in Request /\ op.SeqNum \in Nat /\ op.ClientID \in Client
           /\ op.args.ArgsType \in {"Join", "Leave", "Move", "Query"}
           /\ IsQuery(op) => op.args.Num \in Nat \cup {-1}
<1>1. op.args \in Request /\ op.SeqNum \in Nat /\ op.ClientID \in Client
    BY DEF Op
<1> QED BY Zenon, <1>1, RequestAssumption DEF IsQuery

\* A server that adds a configuration has the others as they were.
LEMMA AddsConfig ==
    ASSUME NEW s, sc[s].configs \in Seq(Config), NEW next \in Config, sc'[s].configs = Append(sc[s].configs, next)
    PROVE  /\ sc'[s].configs[Len(sc[s].configs) + 1] = next
           /\ \A k \in DOMAIN sc[s].configs : sc'[s].configs[k] = sc[s].configs[k]
           /\ \A k \in DOMAIN sc'[s].configs : k = Len(sc[s].configs) + 1 \/ k \in DOMAIN sc[s].configs
OBVIOUS

\* rebalance gives shards to live groups, or to none.
LEMMA RebalanceType ==
    ASSUME NEW shards, NEW groups \in SUBSET Gid, NEW order
    PROVE  rebalance(shards, groups, order) \in [Shard -> Gid \cup {0}]
<1> DEFINE end == rebalanceLoop(shards, groups, liveGroup(order)).gidToShards
           owners(i) == {g \in groups : i \in Range(end[g])}
<1>1. \A i \in Shard : (IF owners(i) = {} THEN 0 ELSE CHOOSE g \in owners(i) : TRUE) \in Gid \cup {0}
    BY ZenonT(60)
<1>2. rebalance(shards, groups, order) = [i \in Shard |-> IF owners(i) = {} THEN 0 ELSE CHOOSE g \in owners(i) : TRUE]
    BY ZenonT(60) DEF rebalance
<1> HIDE DEF owners
<1> QED BY ZenonT(60), <1>1, <1>2

\* An operation that is no Query makes one configuration.
LEMMA MakesType ==
    ASSUME NEW config \in Config, NEW op \in Op, ~IsQuery(op), NEW next, Makes(config, op.args, next)
    PROVE  next \in Config /\ next.Num = config.Num + 1
<1> DEFINE args == op.args
           groups == nextGroups(config, args)
<1>1. config.Num \in Nat /\ config.Shards \in [Shard -> Gid \cup {0}] /\ config.Groups \in SUBSET Gid
    BY DEF Config
<1>2. config.Num + 1 \in Nat
    BY <1>1
<1>3. CASE args.ArgsType = "Move"
    <2>1. next = moveConfig(config, args.Shard, args.GID)
        BY ZenonT(60), <1>3 DEF Makes
    <2>2. args.Shard \in Shard /\ args.GID \in Gid
        BY Zenon, <1>3, OpFacts, RequestAssumption
    <2>3. [config.Shards EXCEPT ![args.Shard] = args.GID] \in [Shard -> Gid \cup {0}]
        BY ZenonT(60), <1>1, <2>2
    <2>4. next = [config EXCEPT !.Num = config.Num + 1, !.Shards = [config.Shards EXCEPT ![args.Shard] = args.GID]]
        BY ZenonT(60), <2>1 DEF moveConfig
    <2> QED BY ZenonT(60), <1>2, <2>3, <2>4 DEF Config
<1>4. CASE args.ArgsType \in {"Join", "Leave"}
    <2>1. PICK order : next = nextConfig(config, groups, order)
        BY ZenonT(60), <1>4 DEF Makes
    <2>2. args.GIDs \subseteq Gid
        BY Zenon, <1>4, OpFacts, RequestAssumption
    <2>3. groups \in SUBSET Gid
        BY <1>1, <1>4, <2>2 DEF nextGroups
    <2>4. rebalance(config.Shards, groups, order) \in [Shard -> Gid \cup {0}]
        BY ZenonT(60), <2>3, RebalanceType
    <2> HIDE DEF groups
    <2> QED BY ZenonT(60), <1>2, <2>1, <2>3, <2>4 DEF nextConfig, Config
<1> QED BY Zenon, <1>3, <1>4, OpFacts DEF IsQuery

\* Whatever the order in which a server meets the groups, it makes the same one.
LEMMA MakesOne ==
    ASSUME Sorting, NEW config \in Config, NEW op \in Op, ~IsQuery(op), NEW next, NEW other,
           Makes(config, op.args, next), Makes(config, op.args, other)
    PROVE  next = other
<1> DEFINE args == op.args
           groups == nextGroups(config, args)
<1>1. CASE args.ArgsType = "Move"
    BY ZenonT(60), <1>1 DEF Makes
<1>2. CASE args.ArgsType \in {"Join", "Leave"}
    <2>1. PICK first \in orders(groups) : next = nextConfig(config, groups, first)
        BY ZenonT(60), <1>2 DEF Makes
    <2>2. PICK second \in orders(groups) : other = nextConfig(config, groups, second)
        BY ZenonT(60), <1>2 DEF Makes
    <2>3. groups \in SUBSET Gid
        <3>1. args.GIDs \subseteq Gid
            BY Zenon, <1>2, OpFacts, RequestAssumption
        <3> QED BY <1>2, <3>1 DEF nextGroups, Config
    <2> HIDE DEF groups
    <2>4. liveGroup(first) = liveGroup(second)
        BY ZenonT(60), <2>1, <2>2, <2>3 DEF Sorting
    <2>5. rebalance(config.Shards, groups, first) = rebalance(config.Shards, groups, second)
        BY <2>4 DEF rebalance
    <2> QED BY ZenonT(60), <2>1, <2>2, <2>5 DEF nextConfig
<1> QED BY Zenon, <1>1, <1>2, OpFacts DEF IsQuery

\* The configuration that a Query gets.
LEMMA GetConfigIs ==
    ASSUME NEW configs \in Seq(Config), Len(configs) >= 1, NEW num \in Nat \cup {-1},
           \A k \in DOMAIN configs : configs[k].Num = k - 1
    PROVE  /\ getConfig(configs, num) \in Config
           /\ \/ num \in 0..(Len(configs) - 1) /\ getConfig(configs, num).Num = num
              \/ num \notin 0..(Len(configs) - 1) /\ getConfig(configs, num).Num = Len(configs) - 1
<1>1. Len(configs) \in Nat /\ DOMAIN configs = 1..Len(configs)
    OBVIOUS
<1>2. CASE num = -1 \/ num >= Len(configs)
    <2>1. getConfig(configs, num) = configs[Len(configs)] /\ Len(configs) \in DOMAIN configs
        BY <1>1, <1>2 DEF getConfig, lastConfig
    <2> QED BY <1>1, <1>2, <2>1
<1>3. CASE ~(num = -1 \/ num >= Len(configs))
    <2>1. getConfig(configs, num) = configs[num + 1] /\ num + 1 \in DOMAIN configs
        BY <1>1, <1>3 DEF getConfig
    <2> QED BY <1>1, <1>3, <2>1
<1> QED BY <1>2, <1>3

\* madeConfig counts within the log.
LEMMA MadeConfigIs ==
    ASSUME Counting, Types, NEW op
    PROVE  madeConfig(op) \in Nat /\ madeConfig(op) <= made(log, Len(log))
<1> DEFINE copies == {i \in DOMAIN log : log[i] = op}
<1>1. log \in Seq(Op) /\ Len(log) \in Nat /\ DOMAIN log = 1..Len(log)
    BY DEF Types
<1>2. made(log, Len(log)) \in Nat /\ \A n \in 0..Len(log) : made(log, n) \in Nat /\ made(log, n) <= made(log, Len(log))
    BY <1>1 DEF Counting
<1>3. CASE copies = {}
    <2>1. madeConfig(op) = 0
        BY ZenonT(60), <1>3 DEF madeConfig
    <2> QED BY <1>2, <2>1
<1>4. CASE copies # {}
    <2>1. copies \in SUBSET Nat /\ copies \subseteq DOMAIN log
        BY <1>1
    <2>2. Min(copies) \in copies
        BY ZenonT(60), <1>4, <2>1 DEF Counting
    <2>3. Min(copies) \in 0..Len(log)
        BY <1>1, <2>1, <2>2
    <2>4. madeConfig(op) = made(log, Min(copies))
        BY ZenonT(60), <1>4 DEF madeConfig, made, making
    <2> QED BY ZenonT(60), <1>2, <2>3, <2>4
<1> QED BY Zenon, <1>3, <1>4

\* The greater of two numbers.
LEMMA MaxOfTwo == ASSUME NEW a \in Nat, NEW b \in Nat PROVE Max({a, b}) \in {a, b} /\ Max({a, b}) >= a
<1>1. \E x \in {a, b} : \A y \in {a, b} : x >= y
    <2>1. CASE a >= b BY <2>1
    <2>2. CASE ~(a >= b) BY <2>2
    <2> QED BY <2>1, <2>2
<1>2. Max({a, b}) \in {a, b} /\ \A y \in {a, b} : Max({a, b}) >= y
    BY ZenonT(60), <1>1 DEF Max
<1> QED BY ZenonT(60), <1>2
---------------------------------------------------------------------------
(* What the steps do *)

\* A step that changes the memory of one server,
LEMMA SetMemory ==
    ASSUME Types, NEW s \in Server, NEW m \in Memory, sc' = [sc EXCEPT ![s] = m]
    PROVE  sc' \in [Server -> Memory] /\ sc'[s] = m /\ \A t \in Server : t # s => sc'[t] = sc[t]
BY ZenonT(60) DEF Types

\* or that of one clerk.
LEMMA SetClerk ==
    ASSUME Types, NEW c \in Client, NEW k \in Clerk, clerk' = [clerk EXCEPT ![c] = k]
    PROVE  clerk' \in [Client -> Clerk] /\ clerk'[c] = k /\ \A d \in Client : d # c => clerk'[d] = clerk[d]
BY ZenonT(60) DEF Types

\* A handler's step: its call goes on as the one in R, or is gone.
Replaces(call, R) ==
    /\ calls' = (calls \ {call}) \cup R /\ R \subseteq Call
    /\ \A r \in R : /\ r.op = call.op /\ r.srv = call.srv /\ (r.live => call.live)
                    /\ r.stage \in {"started", "waiting"} => r.index # 0
                    /\ \A other \in R : other = r

\* The calls stay well typed.
LEMMA ReplacesType ==
    ASSUME Types, NEW call \in calls, NEW R, Replaces(call, R)
    PROVE  calls' \subseteq Call /\ \A q \in calls' : q.stage \in {"started", "waiting"} => q.index # 0
BY ZenonT(60) DEF Types, Replaces

\* A handler that has not started, or is done.
LEMMA Stages == "sent" \notin {"started", "waiting"} /\ "answered" \notin {"started", "waiting"}
OBVIOUS

\* The handlers of a server after the step of one.
LEMMA HeldAfter ==
    ASSUME NEW call, NEW R, Replaces(call, R), NEW s
    PROVE  /\ (\A r \in R : r.stage \notin {"started", "waiting"}) => Held(s)' = Held(s) \ {call}
           /\ call \notin Held(s) /\ (\A r \in R : r.srv # s) => Held(s)' = Held(s)
<1> DEFINE new == {r \in R : r.srv = s /\ r.stage \in {"started", "waiting"}}
<1>1. Held(s)' = (Held(s) \ {call}) \cup new
    BY ZenonT(60) DEF Replaces, Held
<1>2. (\A r \in R : r.stage \notin {"started", "waiting"}) \/ (\A r \in R : r.srv # s) => new = {}
    BY ZenonT(60)
<1> HIDE DEF new
<1>4. new = {} => Held(s)' = Held(s) \ {call}
    BY <1>1
<1>5. new = {} /\ call \notin Held(s) => Held(s)' = Held(s)
    BY <1>1
<1> QED BY ZenonT(60), <1>2, <1>4, <1>5

\* They have it, when it goes on.
LEMMA HeldNew ==
    ASSUME NEW call, NEW R, Replaces(call, R), NEW s, \A r \in R : r.srv = s /\ r.stage \in {"started", "waiting"}
    PROVE  Held(s)' = (Held(s) \ {call}) \cup R
BY ZenonT(60) DEF Replaces, Held

\* A server whose handlers and channels do not change.
LEMMA OwnedSame ==
    ASSUME NEW s \in Server, Owned, Held(s)' = Held(s), DOMAIN sc'[s].waitChan = DOMAIN sc[s].waitChan,
           sc'[s].closing = sc[s].closing
    PROVE  OwnedAt(s)'
BY DEF Owned, OwnedAt

\* A server whose handlers go on with the index they have.
LEMMA OwnedMapped ==
    ASSUME NEW s \in Server, Owned, sc'[s] = sc[s], NEW f, Held(s)' = {f[call] : call \in Held(s)},
           \A call \in Held(s) : f[call].stage = call.stage /\ f[call].index = call.index
    PROVE  OwnedAt(s)'
BY DEF Owned, OwnedAt

\* A server that closes a channel.
LEMMA OwnedClosed ==
    ASSUME NEW s \in Server, Owned, Held(s)' = Held(s), NEW i \in sc[s].closing,
           sc'[s].closing = sc[s].closing \ {i}, DOMAIN sc'[s].waitChan = DOMAIN sc[s].waitChan \ {i}
    PROVE  OwnedAt(s)'
BY DEF Owned, OwnedAt

\* A handler that leaves its channel to be closed.
LEMMA OwnedLeaves ==
    ASSUME Owned, NEW call \in calls, NEW R, Replaces(call, R), \A r \in R : r.stage = "answered", call.stage = "waiting",
           NEW t \in Server, t # call.srv => sc'[t] = sc[t],
           t = call.srv => /\ DOMAIN sc'[t].waitChan = DOMAIN sc[t].waitChan
                           /\ sc'[t].closing = sc[t].closing \cup {call.index}
    PROVE  OwnedAt(t)'
<1>1. Held(t)' = Held(t) \ {call}
    <2>1. \A r \in R : r.stage \notin {"started", "waiting"}
        OBVIOUS
    <2> QED BY ZenonT(60), <2>1, HeldAfter
<1>2. CASE t # call.srv
    <2>1. Held(t)' = Held(t)
        BY ZenonT(60), <1>1, <1>2 DEF Held
    <2> QED BY ZenonT(60), <1>2, <2>1, OwnedSame
<1>3. CASE t = call.srv
    <2>1. OwnedAt(t) /\ call \in Held(t)
        BY ZenonT(60), <1>3 DEF Owned, Held
    <2> QED BY <1>1, <1>3, <2>1 DEF OwnedAt
<1> QED BY ZenonT(60), <1>2, <1>3

\* The fields of a call.
LEMMA CallFacts ==
    ASSUME Types, NEW call \in calls
    PROVE  /\ call \in Call /\ call.srv \in Server /\ call.op \in Op /\ call.op.ClientID \in Client
           /\ call.index \in Nat /\ call.Config \in Config /\ call.Config.Num \in Nat
           /\ sc[call.srv] \in Memory /\ clerk[call.op.ClientID] \in Clerk
<1>1. call \in Call /\ call.srv \in Server /\ call.op \in Op /\ call.index \in Nat /\ call.Config \in Config
    BY ZenonT(60) DEF Types, Call
<1>2. call.op.ClientID \in Client /\ call.Config.Num \in Nat
    BY ZenonT(60), <1>1 DEF Op, Config
<1> QED BY ZenonT(60), <1>1, <1>2 DEF Types

\* The handler returns.
LEMMA AnsweredIs ==
    ASSUME Types, NEW call \in calls, NEW wrong \in BOOLEAN, NEW config \in Config,
           calls' = answered(call, wrong, config)
    PROVE  \E R : /\ Replaces(call, R)
                  /\ \A r \in R : r.live /\ r.stage = "answered" /\ r.WrongLeader = wrong /\ r.Config = config
<1> DEFINE a == [call EXCEPT !.stage = "answered", !.WrongLeader = wrong, !.Config = config]
           R == IF call.live THEN {a} ELSE {}
<1>1. call \in Call
    BY DEF Types
<1>2. /\ a \in Call /\ a.op = call.op /\ a.srv = call.srv /\ a.live = call.live
      /\ a.stage = "answered" /\ a.WrongLeader = wrong /\ a.Config = config
    BY Zenon, <1>1 DEF Call
<1>3. calls' = (calls \ {call}) \cup R
    BY DEF answered
<1> HIDE DEF a
<1>4. Replaces(call, R) /\ \A r \in R : r.live /\ r.stage = "answered" /\ r.WrongLeader = wrong /\ r.Config = config
    BY <1>2, <1>3 DEF Replaces
<1> HIDE DEF R
<1> QED BY <1>4

\* EmptyConfig is a configuration.
LEMMA EmptyConfigType == EmptyConfig \in Config
BY DEF EmptyConfig, Config

\* RequestHandlerRefuses
LEMMA RefusesIs ==
    ASSUME Types, NEW call \in calls, RequestHandlerRefuses(call)
    PROVE  /\ Types' /\ call.stage = "sent" /\ UNCHANGED <<log, pending, sc, clerk, acked>>
           /\ \E R : Replaces(call, R) /\ \A r \in R : r.live /\ r.stage = "answered" /\ r.WrongLeader
<1>1. call.stage = "sent" /\ UNCHANGED <<log, pending, sc, clerk, acked>> /\ calls' = answered(call, TRUE, EmptyConfig)
    BY ZenonT(60) DEF RequestHandlerRefuses
<1>2. PICK R : Replaces(call, R) /\ \A r \in R : r.live /\ r.stage = "answered" /\ r.WrongLeader
    BY ZenonT(60), <1>1, AnsweredIs, EmptyConfigType
<1>3. Types'
    BY ZenonT(60), <1>1, <1>2, ReplacesType DEF Types
<1> QED BY ZenonT(60), <1>1, <1>2, <1>3

\* RequestHandlerStarts
LEMMA StartsIs ==
    ASSUME Types, NEW call \in calls, NEW index \in Nat, RequestHandlerStarts(call, index)
    PROVE  /\ Types' /\ call.stage = "sent" /\ UNCHANGED <<log, sc, clerk, acked>>
           /\ \A held \in heldIndexes(call.srv) : index > held
           /\ pending' \subseteq pending \cup {[index |-> index, op |-> call.op]}
           /\ \E R : Replaces(call, R) /\ \A r \in R : r.stage = "started" /\ r.index = index
<1> DEFINE a == [call EXCEPT !.stage = "started", !.index = index]
<1>1. call \in Call /\ call.srv \in Server /\ call.op \in Op /\ sc[call.srv].applied \in Nat
    BY ZenonT(60), CallFacts DEF Memory
<1>2. /\ call.stage = "sent" /\ UNCHANGED <<log, sc, clerk, acked>> /\ index > sc[call.srv].applied
      /\ \A held \in heldIndexes(call.srv) : index > held
      /\ calls' = (calls \ {call}) \cup {a}
      /\ pending' \subseteq pending \cup {[index |-> index, op |-> call.op]}
    BY ZenonT(60) DEF RequestHandlerStarts, startInRaft
<1>3. index \in Index
    BY <1>1, <1>2 DEF Index
<1>4. /\ a \in Call /\ a.op = call.op /\ a.srv = call.srv /\ a.live = call.live
      /\ a.stage = "started" /\ a.index = index
    BY ZenonT(60), <1>1 DEF Call
<1> HIDE DEF a
<1>5. Replaces(call, {a})
    BY ZenonT(60), <1>2, <1>3, <1>4 DEF Replaces, Index
<1>6. pending' \subseteq [index : Index, op : Op]
    BY <1>1, <1>2, <1>3 DEF Types
<1>7. Types'
    BY ZenonT(60), <1>2, <1>5, <1>6, ReplacesType DEF Types
<1>8. \E R : Replaces(call, R) /\ \A r \in R : r.stage = "started" /\ r.index = index
    BY <1>4, <1>5
<1> QED BY ZenonT(60), <1>2, <1>5, <1>7, <1>8

\* RequestHandlerWaits
LEMMA WaitsIs ==
    ASSUME Types, NEW call \in calls, RequestHandlerWaits(call)
    PROVE  /\ Types' /\ call.stage = "started" /\ UNCHANGED <<log, pending, clerk, acked>>
           /\ \A t \in Server : t # call.srv => sc'[t] = sc[t]
           /\ sc'[call.srv] = [sc[call.srv] EXCEPT !.waitChan = getWaitCh(sc[call.srv].waitChan, call.index)]
           /\ \E r : Replaces(call, {r}) /\ r.stage = "waiting" /\ r.index = call.index
<1> DEFINE a == [call EXCEPT !.stage = "waiting"]
           m == [sc[call.srv] EXCEPT !.waitChan = getWaitCh(sc[call.srv].waitChan, call.index)]
<1>1. call \in Call /\ call.srv \in Server /\ sc[call.srv] \in Memory
    BY ZenonT(60), CallFacts
<1>2. /\ call.stage = "started" /\ UNCHANGED <<log, pending, clerk, acked>>
      /\ calls' = (calls \ {call}) \cup {a} /\ sc' = [sc EXCEPT ![call.srv] = m]
    BY ZenonT(60) DEF RequestHandlerWaits
<1>3. call.index \in Index
    BY ZenonT(60), <1>2, CallFacts DEF Types, Index
<1>4. a \in Call /\ a.op = call.op /\ a.srv = call.srv /\ a.live = call.live /\ a.stage = "waiting" /\ a.index = call.index
    BY ZenonT(60), <1>1 DEF Call
<1>5. m \in Memory
    <2>1. getWaitCh(sc[call.srv].waitChan, call.index) \in WaitChans
        BY ZenonT(60), <1>1, <1>3, GetWaitChType DEF Memory
    <2> QED BY ZenonT(60), <1>1, <2>1 DEF Memory
<1> HIDE DEF a, m
<1>6. Replaces(call, {a})
    BY ZenonT(60), <1>2, <1>3, <1>4 DEF Replaces, Index
<1>7. sc' \in [Server -> Memory] /\ sc'[call.srv] = m /\ \A t \in Server : t # call.srv => sc'[t] = sc[t]
    BY ZenonT(60), <1>1, <1>2, <1>5, SetMemory
<1>8. Types'
    BY ZenonT(60), <1>2, <1>6, <1>7, ReplacesType DEF Types
<1> QED BY ZenonT(60), <1>2, <1>4, <1>6, <1>7, <1>8 DEF m

\* RequestHandlerTimesOut
LEMMA TimesOutIs ==
    ASSUME Types, NEW call \in calls, RequestHandlerTimesOut(call)
    PROVE  /\ Types' /\ call.stage = "waiting" /\ UNCHANGED <<log, pending, clerk, acked>>
           /\ \A t \in Server : t # call.srv => sc'[t] = sc[t]
           /\ sc'[call.srv] = [sc[call.srv] EXCEPT !.closing = sc[call.srv].closing \cup {call.index}]
           /\ \E R : Replaces(call, R) /\ \A r \in R : r.live /\ r.stage = "answered" /\ r.WrongLeader
<1> DEFINE m == [sc[call.srv] EXCEPT !.closing = sc[call.srv].closing \cup {call.index}]
<1>1. call.srv \in Server /\ sc[call.srv] \in Memory
    BY ZenonT(60), CallFacts
<1>2. /\ call.stage = "waiting" /\ UNCHANGED <<log, pending, clerk, acked>>
      /\ calls' = answered(call, TRUE, EmptyConfig) /\ sc' = [sc EXCEPT ![call.srv] = m]
    BY ZenonT(60) DEF RequestHandlerTimesOut, closeLater
<1>3. call.index \in Index
    BY ZenonT(60), <1>2, CallFacts DEF Types, Index
<1>4. m \in Memory
    <2>1. sc[call.srv].closing \cup {call.index} \in SUBSET Index
        BY ZenonT(60), <1>1, <1>3 DEF Memory
    <2> QED BY ZenonT(60), <1>1, <2>1 DEF Memory
<1> HIDE DEF m
<1>5. PICK R : Replaces(call, R) /\ \A r \in R : r.live /\ r.stage = "answered" /\ r.WrongLeader
    BY ZenonT(60), <1>2, AnsweredIs, EmptyConfigType
<1>6. sc' \in [Server -> Memory] /\ sc'[call.srv] = m /\ \A t \in Server : t # call.srv => sc'[t] = sc[t]
    BY ZenonT(60), <1>1, <1>2, <1>4, SetMemory
<1>7. Types'
    BY ZenonT(60), <1>2, <1>5, <1>6, ReplacesType DEF Types
<1> QED BY ZenonT(60), <1>2, <1>5, <1>6, <1>7 DEF m

\* RequestHandlerReceives: a Query is answered from the configurations that
\* the server has by now.
LEMMA ReceivesIs ==
    ASSUME Counting, Types, Configs, Owned, NEW call \in calls, RequestHandlerReceives(call)
    PROVE  LET s == call.srv
               waitChan == sc[s].waitChan
           IN  /\ Types' /\ call.stage = "waiting" /\ UNCHANGED <<log, pending, clerk, acked>>
               /\ call.index \in DOMAIN waitChan /\ waitChan[call.index] # << >>
               /\ \A t \in Server : t # s => sc'[t] = sc[t]
               /\ sc'[s] = [sc[s] EXCEPT !.closing = sc[s].closing \cup {call.index},
                                        !.waitChan = [waitChan EXCEPT ![call.index] = << >>]]
               /\ \E R : /\ Replaces(call, R)
                         /\ \A r \in R : /\ r.live /\ r.stage = "answered"
                                         /\ ~r.WrongLeader =>
                                                /\ sameOp(waitChan[call.index][1], call.op)
                                                /\ IsQuery(call.op) =>
                                                    r.Config = getConfig(sc[s].configs, call.op.args.Num)
<1> DEFINE s == call.srv
           waitChan == sc[s].waitChan
           config == IF IsQuery(call.op) THEN getConfig(sc[s].configs, call.op.args.Num) ELSE EmptyConfig
           m == [sc[s] EXCEPT !.closing = sc[s].closing \cup {call.index},
                              !.waitChan = [waitChan EXCEPT ![call.index] = << >>]]
<1>1. s \in Server /\ sc[s] \in Memory /\ call.op \in Op
    BY ZenonT(60), CallFacts
<1>2. /\ call.stage = "waiting" /\ UNCHANGED <<log, pending, clerk, acked>> /\ waitChan[call.index] # << >>
      /\ sc' = [sc EXCEPT ![s] = m]
      /\ \/ calls' = answered(call, TRUE, EmptyConfig)
         \/ sameOp(Head(waitChan[call.index]), call.op) /\ calls' = answered(call, FALSE, config)
    BY ZenonT(60), <1>1 DEF RequestHandlerReceives, Types, Memory
<1>3. call.index \in Index
    BY ZenonT(60), <1>2, CallFacts DEF Types, Index
<1>4. call.index \in DOMAIN waitChan /\ waitChan \in WaitChans
    BY ZenonT(60), <1>1, <1>2 DEF Owned, OwnedAt, Held, Memory
<1>5. Head(waitChan[call.index]) = waitChan[call.index][1]
    <2>1. waitChan[call.index] \in Seq(Op)
        BY ZenonT(60), <1>4, ChannelType
    <2> QED BY <1>2, <2>1
<1>6. m \in Memory
    <2>1. sc[s].closing \cup {call.index} \in SUBSET Index
        BY ZenonT(60), <1>1, <1>3 DEF Memory
    <2>2. << >> \in Seq(Op)
        OBVIOUS
    <2>3. [waitChan EXCEPT ![call.index] = << >>] \in WaitChans
        BY ZenonT(60), <1>4, <2>2, SetChannelType
    <2> QED BY ZenonT(60), <1>1, <2>1, <2>3 DEF Memory
<1>7. config \in Config
    <2>1. sc[s].configs \in Seq(Config) /\ ConfigsAt(s)
        BY ZenonT(60), <1>1 DEF Memory, Configs
    <2>2. Len(sc[s].configs) >= 1
        <3>1. log \in Seq(Op) /\ Len(log) \in Nat /\ sc[s].applied \in Nat /\ sc[s].applied <= Len(log)
            BY <1>1, <2>1 DEF Types, Memory, ConfigsAt
        <3>2. made(log, sc[s].applied) \in Nat
            BY <3>1 DEF Counting
        <3> QED BY SMTT(40), <2>1, <3>2 DEF ConfigsAt
    <2>3. \A k \in DOMAIN sc[s].configs : sc[s].configs[k].Num = k - 1
        BY ZenonT(60), <2>1 DEF ConfigsAt
    <2>4. IsQuery(call.op) => call.op.args.Num \in Nat \cup {-1}
        BY ZenonT(60), <1>1, OpFacts
    <2> QED BY ZenonT(60), <2>1, <2>2, <2>3, <2>4, GetConfigIs, EmptyConfigType
<1> HIDE DEF m
<1>8. \E R : /\ Replaces(call, R)
             /\ \A r \in R : /\ r.live /\ r.stage = "answered"
                             /\ ~r.WrongLeader => /\ sameOp(waitChan[call.index][1], call.op)
                                                  /\ IsQuery(call.op) => r.Config = getConfig(sc[s].configs, call.op.args.Num)
    <2>1. CASE calls' = answered(call, TRUE, EmptyConfig)
        BY ZenonT(60), <2>1, AnsweredIs, EmptyConfigType
    <2>2. CASE sameOp(Head(waitChan[call.index]), call.op) /\ calls' = answered(call, FALSE, config)
        <3> HIDE DEF config
        <3>1. PICK R : /\ Replaces(call, R)
                       /\ \A r \in R : r.live /\ r.stage = "answered" /\ r.WrongLeader = FALSE /\ r.Config = config
            <4>1. FALSE \in BOOLEAN /\ calls' = answered(call, FALSE, config)
                BY ZenonT(60), <2>2
            <4> QED BY ZenonT(60), <1>7, <4>1, AnsweredIs
        <3>2. IsQuery(call.op) => config = getConfig(sc[s].configs, call.op.args.Num)
            BY ZenonT(60) DEF config
        <3>3. sameOp(waitChan[call.index][1], call.op)
            BY ZenonT(60), <1>5, <2>2
        <3>4. \A r \in R : /\ r.live /\ r.stage = "answered"
                          /\ ~r.WrongLeader => /\ sameOp(waitChan[call.index][1], call.op)
                                               /\ IsQuery(call.op) => r.Config = getConfig(sc[s].configs, call.op.args.Num)
            BY ZenonT(60), <3>1, <3>2, <3>3
        <3> QED BY ZenonT(60), <3>1, <3>4
    <2> QED BY ZenonT(60), <1>2, <2>1, <2>2
<1>9. sc' \in [Server -> Memory] /\ sc'[s] = m /\ \A t \in Server : t # s => sc'[t] = sc[t]
    BY ZenonT(60), <1>1, <1>2, <1>6, SetMemory
<1>10. Types'
    BY ZenonT(60), <1>2, <1>8, <1>9, ReplacesType DEF Types
<1> QED BY ZenonT(60), <1>2, <1>4, <1>8, <1>9, <1>10 DEF m

\* closeWaitCh
LEMMA CloseIs ==
    ASSUME Types, NEW s \in Server, NEW index \in sc[s].closing, closeWaitCh(s, index)
    PROVE  /\ Types' /\ UNCHANGED <<log, pending, calls, clerk, acked>>
           /\ \A t \in Server : t # s => sc'[t] = sc[t]
           /\ sc'[s] = [sc[s] EXCEPT !.closing = sc[s].closing \ {index},
                                     !.waitChan = [i \in DOMAIN sc[s].waitChan \ {index} |-> sc[s].waitChan[i]]]
<1> DEFINE after == [i \in DOMAIN sc[s].waitChan \ {index} |-> sc[s].waitChan[i]]
           m == [sc[s] EXCEPT !.closing = sc[s].closing \ {index}, !.waitChan = after]
<1>1. sc[s] \in Memory
    BY ZenonT(60) DEF Types
<1>2. sc' = [sc EXCEPT ![s] = m] /\ UNCHANGED <<log, pending, calls, clerk, acked>>
    BY ZenonT(60), <1>1 DEF closeWaitCh, Types, Memory
<1>3. m \in Memory
    <2>1. after \in WaitChans
        BY ZenonT(60), <1>1, DropChannelType DEF Memory
    <2>2. sc[s].closing \ {index} \in SUBSET Index
        BY ZenonT(60), <1>1 DEF Memory
    <2> HIDE DEF after
    <2> QED BY ZenonT(60), <1>1, <2>1, <2>2 DEF Memory
<1> HIDE DEF m
<1>4. sc' \in [Server -> Memory] /\ sc'[s] = m /\ \A t \in Server : t # s => sc'[t] = sc[t]
    BY ZenonT(60), <1>2, <1>3, SetMemory
<1>5. Types'
    BY ZenonT(60), <1>2, <1>4 DEF Types
<1> QED BY ZenonT(60), <1>2, <1>4, <1>5 DEF m

\* A server and its configurations.
LEMMA ConfigsFacts ==
    ASSUME Counting, Types, Configs, NEW s \in Server
    PROVE  /\ log \in Seq(Op) /\ Len(log) \in Nat /\ DOMAIN log = 1..Len(log)
           /\ sc[s].applied \in Nat /\ sc[s].applied <= Len(log)
           /\ made(log, sc[s].applied) \in Nat /\ made(log, sc[s].applied) <= made(log, Len(log))
           /\ made(log, Len(log)) \in Nat
           /\ sc[s].configs \in Seq(Config) /\ Len(sc[s].configs) = made(log, sc[s].applied) + 1
           /\ Len(sc[s].configs) >= 1 /\ DOMAIN sc[s].configs = 1..Len(sc[s].configs)
           /\ \A k \in DOMAIN sc[s].configs : sc[s].configs[k] \in Config /\ sc[s].configs[k].Num = k - 1
<1>1. sc[s] \in Memory /\ log \in Seq(Op) /\ ConfigsAt(s)
    BY ZenonT(60) DEF Types, Configs
<1>2. /\ sc[s].applied \in Nat /\ sc[s].configs \in Seq(Config) /\ sc[s].applied <= Len(log)
      /\ Len(sc[s].configs) = made(log, sc[s].applied) + 1
      /\ \A k \in DOMAIN sc[s].configs : sc[s].configs[k].Num = k - 1
    BY ZenonT(60), <1>1 DEF Memory, ConfigsAt
<1>3. Len(log) \in Nat /\ DOMAIN log = 1..Len(log)
    BY <1>1
<1>4. /\ made(log, sc[s].applied) \in Nat /\ made(log, sc[s].applied) <= made(log, Len(log))
      /\ made(log, Len(log)) \in Nat
    BY <1>1, <1>2, <1>3 DEF Counting
<1>5. /\ Len(sc[s].configs) >= 1 /\ DOMAIN sc[s].configs = 1..Len(sc[s].configs)
      /\ \A k \in DOMAIN sc[s].configs : sc[s].configs[k] \in Config
    BY <1>2, <1>4
<1> QED BY ZenonT(60), <1>1, <1>2, <1>3, <1>4, <1>5

\* applyToStateMachine adds the configuration that the operation makes.
LEMMA ApplyMakes ==
    ASSUME NEW configs \in Seq(Config), Len(configs) >= 1, NEW op \in Op,
           NEW order \in orders(nextGroups(lastConfig(configs), op.args))
    PROVE  \/ IsQuery(op) /\ applyToStateMachine(configs, op.args, order) = configs
           \/ ~IsQuery(op) /\ \E next \in Config : /\ Makes(configs[Len(configs)], op.args, next)
                                                   /\ applyToStateMachine(configs, op.args, order) = Append(configs, next)
<1> DEFINE config == configs[Len(configs)]
<1>1. lastConfig(configs) = config /\ config \in Config
    BY DEF lastConfig
<1>2. CASE op.args.ArgsType = "Query"
    BY Zenon, <1>2 DEF applyToStateMachine, IsQuery
<1>3. CASE op.args.ArgsType = "Move"
    <2> DEFINE next == moveConfig(config, op.args.Shard, op.args.GID)
    <2>1. applyToStateMachine(configs, op.args, order) = Append(configs, next)
        BY ZenonT(60), <1>1, <1>3 DEF applyToStateMachine
    <2>2. Makes(config, op.args, next)
        BY ZenonT(60), <1>1, <1>3 DEF Makes
    <2>3. ~IsQuery(op)
        BY ZenonT(60), <1>3 DEF IsQuery
    <2> HIDE DEF next
    <2>4. next \in Config
        BY ZenonT(60), <1>1, <2>2, <2>3, MakesType
    <2> QED BY ZenonT(60), <2>1, <2>2, <2>3, <2>4
<1>4. CASE op.args.ArgsType \in {"Join", "Leave"}
    <2> DEFINE next == nextConfig(config, nextGroups(config, op.args), order)
    <2>1. applyToStateMachine(configs, op.args, order) = Append(configs, next)
        BY ZenonT(60), <1>1, <1>4 DEF applyToStateMachine
    <2>2. Makes(config, op.args, next)
        BY ZenonT(60), <1>1, <1>4 DEF Makes
    <2>3. ~IsQuery(op)
        BY ZenonT(60), <1>4 DEF IsQuery
    <2> HIDE DEF next
    <2>4. next \in Config
        BY ZenonT(60), <1>1, <2>2, <2>3, MakesType
    <2> QED BY ZenonT(60), <2>1, <2>2, <2>3, <2>4
<1> QED BY ZenonT(60), <1>2, <1>3, <1>4, OpFacts

\* applyHandler
LEMMA ApplyIs ==
    ASSUME Counting, Types, Configs, Clerks, NEW s \in Server, applyHandler(s)
    PROVE  LET index == sc[s].applied + 1
           IN  /\ Types' /\ UNCHANGED <<log, pending, calls, clerk, acked>>
               /\ index \in DOMAIN log
               /\ \A t \in Server : t # s => sc'[t] = sc[t]
               /\ sc'[s].applied = index /\ sc'[s].clientSeq = sc[s].clientSeq
               /\ sc'[s].closing = sc[s].closing
               /\ sc'[s].waitChan = sendApplied(sc[s].waitChan, index, log[index])
               /\ \/ IsQuery(log[index]) /\ sc'[s].configs = sc[s].configs
                  \/ ~IsQuery(log[index]) /\ \E next \in Config :
                        /\ Makes(sc[s].configs[Len(sc[s].configs)], log[index].args, next)
                        /\ sc'[s].configs = Append(sc[s].configs, next)
<1> DEFINE index == sc[s].applied + 1
           op == log[index]
<1>1. sc[s] \in Memory /\ sc[s].applied \in Nat /\ log \in Seq(Op) /\ Len(log) \in Nat /\ DOMAIN log = 1..Len(log)
    BY ZenonT(60), ConfigsFacts DEF Types
<1>2. index <= Len(log) /\ UNCHANGED <<log, pending, calls, clerk, acked>>
    BY ZenonT(60) DEF applyHandler
<1>3. index \in DOMAIN log /\ index \in Index
    BY <1>1, <1>2 DEF Index
<1>4. op \in Op
    BY <1>1, <1>3
<1>5. ~(op.SeqNum <= sc[s].clientSeq[op.ClientID])
    <2>1. op \in Ops
        BY ZenonT(60), <1>3 DEF Ops
    <2>2. op.SeqNum \in Nat /\ op.SeqNum >= 1 /\ op.ClientID \in Client
        BY ZenonT(60), <1>4, <2>1, OpFacts DEF Clerks, Current
    <2>3. sc[s].clientSeq[op.ClientID] = 0
        BY ZenonT(60), <2>2 DEF Configs, ConfigsAt
    <2> HIDE DEF op
    <2> QED BY <2>2, <2>3
<1> HIDE DEF op
<1>6. PICK order \in orders(nextGroups(lastConfig(sc[s].configs), op.args)) :
        sc' = [sc EXCEPT ![s] = [sc[s] EXCEPT !.applied = index,
                                              !.configs = applyToStateMachine(sc[s].configs, op.args, order),
                                              !.waitChan = sendApplied(sc[s].waitChan, index, op)]]
    BY ZenonT(60), <1>1, <1>5 DEF applyHandler, op, Types, Memory
<1> DEFINE configs == applyToStateMachine(sc[s].configs, op.args, order)
           waitChan == sendApplied(sc[s].waitChan, index, op)
           m == [sc[s] EXCEPT !.applied = index, !.configs = configs, !.waitChan = waitChan]
<1>7. \/ IsQuery(op) /\ configs = sc[s].configs
      \/ ~IsQuery(op) /\ \E next \in Config : /\ Makes(sc[s].configs[Len(sc[s].configs)], op.args, next)
                                              /\ configs = Append(sc[s].configs, next)
    BY ZenonT(60), <1>4, ConfigsFacts, ApplyMakes
<1> HIDE DEF configs
<1>8. configs \in Seq(Config)
    <2>1. sc[s].configs \in Seq(Config)
        BY ZenonT(60), <1>1 DEF Memory
    <2>2. ASSUME NEW next \in Config, configs = Append(sc[s].configs, next)
          PROVE  configs \in Seq(Config)
        <3> DEFINE R == sc[s].configs
        <3>1. R \in Seq(Config) /\ configs = Append(R, next)
            BY ZenonT(60), <2>1, <2>2
        <3> HIDE DEF R
        <3> QED BY SMTT(40), <3>1
    <2> QED BY ZenonT(60), <1>7, <2>1, <2>2
<1>9. waitChan \in WaitChans
    BY ZenonT(60), <1>1, <1>4, SendAppliedType DEF Memory
<1>10. index \in Nat
    BY <1>1
<1> HIDE DEF waitChan
<1>11. /\ m \in Memory /\ m.applied = index /\ m.configs = configs /\ m.waitChan = waitChan
       /\ m.clientSeq = sc[s].clientSeq /\ m.closing = sc[s].closing
    BY ZenonT(60), <1>1, <1>8, <1>9, <1>10 DEF Memory
<1>12. sc' = [sc EXCEPT ![s] = m]
    BY ZenonT(60), <1>6 DEF configs, waitChan
<1> HIDE DEF m
<1>13. sc' \in [Server -> Memory] /\ sc'[s] = m /\ \A t \in Server : t # s => sc'[t] = sc[t]
    BY ZenonT(60), <1>11, <1>12, SetMemory
<1>14. Types'
    BY ZenonT(60), <1>2, <1>13 DEF Types
<1>15. waitChan = sendApplied(sc[s].waitChan, index, log[index])
    BY ZenonT(60) DEF waitChan, op
<1> QED BY ZenonT(60), <1>2, <1>3, <1>7, <1>11, <1>13, <1>14, <1>15 DEF op

\* Restart
LEMMA RestartIs ==
    ASSUME Types, NEW s \in Server, Restart(s)
    PROVE  /\ Types' /\ UNCHANGED <<log, pending, clerk, acked>>
           /\ \A t \in Server : t # s => sc'[t] = sc[t]
           /\ sc'[s] = StartServer
           /\ calls' = {call \in calls : ~(call.srv = s /\ call.stage \in {"started", "waiting"})}
<1>1. /\ sc' = [sc EXCEPT ![s] = StartServer] /\ UNCHANGED <<log, pending, clerk, acked>>
      /\ calls' = {call \in calls : ~(call.srv = s /\ call.stage \in {"started", "waiting"})}
    BY ZenonT(60) DEF Restart
<1>2. sc' \in [Server -> Memory] /\ sc'[s] = StartServer /\ \A t \in Server : t # s => sc'[t] = sc[t]
    BY ZenonT(60), <1>1, StartServerType, SetMemory
<1>3. calls' \subseteq calls
    BY ZenonT(60), <1>1
<1>4. Types'
    BY ZenonT(60), <1>1, <1>2, <1>3 DEF Types
<1> QED BY ZenonT(60), <1>1, <1>2, <1>4

\* Commit
LEMMA CommitIs ==
    ASSUME Counting, Types, Commit
    PROVE  /\ Types' /\ UNCHANGED <<sc, calls, clerk, acked>> /\ pending' \subseteq pending
           /\ log \in Seq(Op) /\ Len(log) \in Nat /\ DOMAIN log = 1..Len(log) /\ Len(log') = Len(log) + 1
           /\ DOMAIN log' = DOMAIN log \cup {Len(log) + 1}
           /\ \A i \in DOMAIN log : log'[i] = log[i]
           /\ \A n \in 0..Len(log) : made(log', n) = made(log, n)
           /\ made(log', Len(log')) \in Nat /\ made(log', Len(log')) >= made(log, Len(log))
           /\ \E entry \in pending : log'[Len(log) + 1] = entry.op
<1>1. PICK entry \in pending : entry.index = Len(log) + 1 /\ log' = Append(log, entry.op)
    BY ZenonT(60) DEF Commit
<1>2. pending' \subseteq pending /\ UNCHANGED <<sc, calls, clerk, acked>>
    BY ZenonT(60) DEF Commit
<1>3. entry.op \in Op /\ log \in Seq(Op)
    BY <1>1 DEF Types
<1> DEFINE op == entry.op
<1>4. op \in Op /\ log' = Append(log, op)
    BY ZenonT(60), <1>1, <1>3
<1> HIDE DEF op
<1>5. /\ Len(log) \in Nat /\ DOMAIN log = 1..Len(log) /\ Len(log') = Len(log) + 1
      /\ DOMAIN log' = DOMAIN log \cup {Len(log) + 1}
      /\ \A i \in DOMAIN log : log'[i] = log[i]
      /\ log'[Len(log) + 1] = op /\ log' \in Seq(Op)
    BY <1>3, <1>4
<1>6. \A n \in 0..Len(log) : made(log', n) = made(log, n)
    BY ZenonT(60), <1>3, <1>4 DEF Counting
<1>7. made(log', Len(log')) \in Nat /\ made(log', Len(log')) >= made(log, Len(log))
    <2>1. Len(log) \in 0..Len(log) /\ Len(log') \in 0..Len(log') /\ Len(log) \in 0..Len(log')
        BY <1>5
    <2>2. made(log, Len(log)) \in Nat /\ made(log', Len(log')) \in Nat /\ made(log', Len(log)) <= made(log', Len(log'))
        BY ZenonT(60), <1>3, <1>5, <2>1 DEF Counting
    <2>3. made(log', Len(log)) = made(log, Len(log))
        BY ZenonT(60), <1>6, <2>1
    <2> QED BY <2>2, <2>3
<1>8. Types'
    BY ZenonT(60), <1>2, <1>5 DEF Types
<1> QED BY ZenonT(60), <1>1, <1>2, <1>3, <1>5, <1>6, <1>7, <1>8 DEF op

\* RequestBegins
LEMMA BeginsIs ==
    ASSUME Types, NEW c \in Client, NEW args \in Request, RequestBegins(c, args)
    PROVE  /\ Types' /\ UNCHANGED <<log, pending, sc, calls, acked>> /\ clerk[c].args = {}
           /\ \A d \in Client : d # c => clerk'[d] = clerk[d]
           /\ clerk'[c].args = {args} /\ clerk'[c].floor = acked /\ clerk'[c].got = {}
           /\ clerk'[c].seqNum = clerk[c].seqNum /\ clerk'[c].calling = clerk[c].calling
<1> DEFINE k == [clerk[c] EXCEPT !.args = {args}, !.floor = acked, !.got = {}]
<1>1. /\ clerk[c].args = {} /\ UNCHANGED <<log, pending, sc, calls, acked>>
      /\ clerk' = [clerk EXCEPT ![c] = k]
    BY ZenonT(60) DEF RequestBegins
<1>2. clerk[c] \in Clerk /\ acked \in Nat
    BY ZenonT(60) DEF Types
<1>3. /\ k \in Clerk /\ k.args = {args} /\ k.floor = acked /\ k.got = {}
      /\ k.seqNum = clerk[c].seqNum /\ k.calling = clerk[c].calling
    <2>1. {args} \in SUBSET Request /\ {} \in SUBSET Answer
        BY ZenonT(60)
    <2> QED BY ZenonT(60), <1>2, <2>1 DEF Clerk
<1> HIDE DEF k
<1>4. clerk' \in [Client -> Clerk] /\ clerk'[c] = k /\ \A d \in Client : d # c => clerk'[d] = clerk[d]
    BY ZenonT(60), <1>1, <1>3, SetClerk
<1>5. Types'
    BY ZenonT(60), <1>1, <1>4 DEF Types
<1> QED BY ZenonT(60), <1>1, <1>3, <1>4, <1>5

\* RequestSends
LEMMA SendsIs ==
    ASSUME Types, NEW c \in Client, RequestSends(c)
    PROVE  /\ Types' /\ UNCHANGED <<log, pending, sc, acked>> /\ ~clerk[c].calling
           /\ \A d \in Client : d # c => clerk'[d] = clerk[d]
           /\ clerk'[c].args = clerk[c].args /\ clerk'[c].floor = clerk[c].floor /\ clerk'[c].got = clerk[c].got
           /\ clerk'[c].seqNum = clerk[c].seqNum /\ clerk'[c].calling = TRUE
           /\ \E sent : /\ calls' = calls \cup {sent} /\ sent.stage = "sent"
                        /\ sent.op.ClientID = c /\ sent.op.SeqNum = clerk[c].seqNum /\ sent.op.args \in clerk[c].args
<1> DEFINE k == [clerk[c] EXCEPT !.calling = TRUE]
<1>1. /\ ~clerk[c].calling /\ UNCHANGED <<log, pending, sc, acked>>
      /\ clerk' = [clerk EXCEPT ![c] = k]
    BY ZenonT(60) DEF RequestSends
<1>2. clerk[c] \in Clerk
    BY ZenonT(60) DEF Types
<1>3. clerk[c].args \in SUBSET Request /\ clerk[c].seqNum \in Nat /\ clerk[c].srv \in Server
    BY ZenonT(60), <1>2 DEF Clerk
<1>4. /\ k \in Clerk /\ k.args = clerk[c].args /\ k.floor = clerk[c].floor /\ k.got = clerk[c].got
      /\ k.seqNum = clerk[c].seqNum /\ k.calling = TRUE
    BY ZenonT(60), <1>2 DEF Clerk
<1> HIDE DEF k
<1>5. clerk' \in [Client -> Clerk] /\ clerk'[c] = k /\ \A d \in Client : d # c => clerk'[d] = clerk[d]
    BY ZenonT(60), <1>1, <1>4, SetClerk
<1>6. PICK args \in clerk[c].args :
        calls' = calls \cup {[srv |-> clerk[c].srv, live |-> TRUE, stage |-> "sent", index |-> 0,
                              op |-> [args |-> args, SeqNum |-> clerk[c].seqNum, ClientID |-> c],
                              WrongLeader |-> FALSE, Config |-> EmptyConfig]}
    BY ZenonT(60) DEF RequestSends
<1> DEFINE op == [args |-> args, SeqNum |-> clerk[c].seqNum, ClientID |-> c]
           sent == [srv |-> clerk[c].srv, live |-> TRUE, stage |-> "sent", index |-> 0, op |-> op,
                    WrongLeader |-> FALSE, Config |-> EmptyConfig]
<1>7. op \in Op /\ op.ClientID = c /\ op.SeqNum = clerk[c].seqNum /\ op.args = args
    BY ZenonT(60), <1>3, <1>6 DEF Op
<1>8. calls' = calls \cup {sent}
    BY ZenonT(60), <1>6
<1> HIDE DEF op
<1>9. sent \in Call /\ sent.stage = "sent" /\ sent.op = op
    <2>1. 0 \in Nat
        OBVIOUS
    <2> QED BY ZenonT(60), <1>3, <1>7, <2>1, EmptyConfigType DEF Call
<1> HIDE DEF sent
<1>10. calls' \subseteq Call /\ \A q \in calls' : q.stage \in {"started", "waiting"} => q.index # 0
    <2>1. sent.stage \notin {"started", "waiting"}
        BY <1>9
    <2> QED BY ZenonT(60), <1>8, <1>9, <2>1 DEF Types
<1>11. Types'
    BY ZenonT(60), <1>1, <1>5, <1>10 DEF Types
<1>12. /\ calls' = calls \cup {sent} /\ sent.stage = "sent" /\ sent.op.ClientID = c
       /\ sent.op.SeqNum = clerk[c].seqNum /\ sent.op.args \in clerk[c].args
    BY ZenonT(60), <1>6, <1>7, <1>8, <1>9
<1> QED BY ZenonT(60), <1>1, <1>4, <1>5, <1>11, <1>12

\* The next server is a server.
LEMMA NextServerType == \A s \in Server : nextServer(s) \in Server
<1>1. \A s \in Nat : s % N \in 0..(N - 1)
    BY NAssumption
<1> QED BY <1>1, NAssumption DEF nextServer, Server

\* RequestReturns
LEMMA ReturnsIs ==
    ASSUME Counting, Types, NEW call \in calls, RequestReturns(call)
    PROVE  LET c == call.op.ClientID
           IN  /\ Types' /\ UNCHANGED <<log, pending, sc>> /\ call.stage = "answered" /\ call.live
               /\ calls' = calls \ {call} /\ acked' >= acked
               /\ \A d \in Client : d # c => clerk'[d] = clerk[d]
               /\ clerk'[c].floor = clerk[c].floor
               /\ \/ /\ call.WrongLeader /\ acked' = acked
                     /\ clerk'[c].args = clerk[c].args /\ clerk'[c].got = clerk[c].got
                     /\ clerk'[c].seqNum = clerk[c].seqNum
                  \/ /\ ~call.WrongLeader /\ clerk'[c].seqNum = clerk[c].seqNum + 1
                     /\ acked' \in {acked, IF IsQuery(call.op) THEN call.Config.Num ELSE madeConfig(call.op)}
                     /\ \A answer \in clerk'[c].got :
                            IsQuery(call.op) /\ answer.want = call.op.args.Num /\ answer.num = call.Config.Num
<1> DEFINE c == call.op.ClientID
           learnt == IF IsQuery(call.op) THEN call.Config.Num ELSE madeConfig(call.op)
           got == IF IsQuery(call.op) THEN {[want |-> call.op.args.Num, num |-> call.Config.Num]} ELSE {}
<1>1. /\ call.stage = "answered" /\ call.live /\ UNCHANGED <<log, pending, sc>> /\ calls' = calls \ {call}
    BY ZenonT(60) DEF RequestReturns
<1>2. c \in Client /\ clerk[c] \in Clerk /\ call.op \in Op /\ call.Config.Num \in Nat
    BY ZenonT(60), CallFacts
<1>3. /\ clerk[c].srv \in Server /\ clerk[c].seqNum \in Nat /\ nextServer(clerk[c].srv) \in Server
      /\ 1 \in Server /\ clerk[c].seqNum + 1 \in Nat \ {0} /\ acked \in Nat
    <2>1. clerk[c].srv \in Server /\ clerk[c].seqNum \in Nat /\ acked \in Nat
        BY ZenonT(60), <1>2 DEF Clerk, Types
    <2>2. 1 \in Server /\ clerk[c].seqNum + 1 \in Nat \ {0}
        BY <2>1, NAssumption DEF Server
    <2> QED BY ZenonT(60), <2>1, <2>2, NextServerType
<1>4. learnt \in Nat
    BY ZenonT(60), <1>2, MadeConfigIs
<1>5. got \in SUBSET Answer /\ \A answer \in got : /\ IsQuery(call.op) /\ answer.want = call.op.args.Num
                                                    /\ answer.num = call.Config.Num
    <2> DEFINE a == [want |-> call.op.args.Num, num |-> call.Config.Num]
    <2>1. IsQuery(call.op) => a \in Answer
        BY ZenonT(60), <1>2, OpFacts DEF Answer
    <2>2. a.want = call.op.args.Num /\ a.num = call.Config.Num
        OBVIOUS
    <2>3. got = IF IsQuery(call.op) THEN {a} ELSE {}
        OBVIOUS
    <2> HIDE DEF a, got
    <2> QED BY <2>1, <2>2, <2>3
<1>6. calls' \subseteq Call /\ \A q \in calls' : q.stage \in {"started", "waiting"} => q.index # 0
    BY ZenonT(60), <1>1 DEF Types
<1>7. CASE call.WrongLeader
    <2> DEFINE k == [clerk[c] EXCEPT !.calling = FALSE, !.srv = nextServer(clerk[c].srv)]
    <2>1. clerk' = [clerk EXCEPT ![c] = k] /\ acked' = acked
        BY ZenonT(60), <1>2, <1>7 DEF RequestReturns, Types, Clerk
    <2>2. k \in Clerk /\ k.args = clerk[c].args /\ k.got = clerk[c].got /\ k.seqNum = clerk[c].seqNum /\ k.floor = clerk[c].floor
        BY ZenonT(60), <1>2, <1>3 DEF Clerk
    <2> HIDE DEF k
    <2>3. clerk' \in [Client -> Clerk] /\ clerk'[c] = k /\ \A d \in Client : d # c => clerk'[d] = clerk[d]
        BY ZenonT(60), <1>2, <2>1, <2>2, SetClerk
    <2>4. Types'
        BY ZenonT(60), <1>1, <1>6, <2>1, <2>3 DEF Types
    <2>5. acked' >= acked
        BY <1>3, <2>1
    <2> QED BY ZenonT(60), <1>1, <1>7, <2>1, <2>2, <2>3, <2>4, <2>5
<1>8. CASE ~call.WrongLeader
    <2> DEFINE k == [clerk[c] EXCEPT !.calling = FALSE, !.args = {}, !.srv = 1,
                                     !.seqNum = clerk[c].seqNum + 1, !.got = got]
    <2>1. clerk' = [clerk EXCEPT ![c] = k] /\ acked' = Max({acked, learnt})
        BY ZenonT(60), <1>2, <1>8 DEF RequestReturns, Types, Clerk
    <2> HIDE DEF got, learnt
    <2>2. k \in Clerk /\ k.got = got /\ k.seqNum = clerk[c].seqNum + 1 /\ k.floor = clerk[c].floor
        BY ZenonT(60), <1>2, <1>3, <1>5 DEF Clerk
    <2> HIDE DEF k
    <2>3. clerk' \in [Client -> Clerk] /\ clerk'[c] = k /\ \A d \in Client : d # c => clerk'[d] = clerk[d]
        BY ZenonT(60), <1>2, <2>1, <2>2, SetClerk
    <2>4. acked' \in {acked, learnt} /\ acked' >= acked
        BY ZenonT(60), <1>3, <1>4, <2>1, MaxOfTwo
    <2>5. acked' \in Nat
        BY ZenonT(60), <1>3, <1>4, <2>4
    <2>6. Types'
        BY ZenonT(60), <1>1, <1>6, <2>3, <2>5 DEF Types
    <2>7. \A answer \in clerk'[c].got : /\ IsQuery(call.op) /\ answer.want = call.op.args.Num
                                        /\ answer.num = call.Config.Num
        BY ZenonT(60), <1>5, <2>2, <2>3
    <2> QED BY ZenonT(60), <1>1, <1>8, <2>2, <2>3, <2>4, <2>6, <2>7 DEF learnt
<1> QED BY ZenonT(60), <1>7, <1>8

\* RequestFails: what the handler of a lost call does is not answered.
LEMMA FailsIs ==
    ASSUME Types, NEW c \in Client, RequestFails(c)
    PROVE  /\ Types' /\ UNCHANGED <<log, pending, sc, acked>>
           /\ \A d \in Client : d # c => clerk'[d] = clerk[d]
           /\ clerk'[c].args = clerk[c].args /\ clerk'[c].floor = clerk[c].floor /\ clerk'[c].got = clerk[c].got
           /\ clerk'[c].seqNum = clerk[c].seqNum
           /\ \A q \in calls' : \/ q \in calls /\ ~(q.live /\ q.op.ClientID = c)
                                \/ /\ ~q.live /\ q.stage \in {"started", "waiting"}
                                   /\ \E call \in calls : q.op = call.op
<1> DEFINE k == [clerk[c] EXCEPT !.calling = FALSE, !.srv = nextServer(clerk[c].srv)]
<1>1. UNCHANGED <<log, pending, sc, acked>>
    BY ZenonT(60) DEF RequestFails
<1>2. clerk[c] \in Clerk
    BY ZenonT(60) DEF Types
<1>3. nextServer(clerk[c].srv) \in Server
    BY ZenonT(60), <1>2, NextServerType DEF Clerk
<1>4. clerk' = [clerk EXCEPT ![c] = k]
    BY ZenonT(60), <1>2 DEF RequestFails, Types, Clerk
<1>5. /\ k \in Clerk /\ k.args = clerk[c].args /\ k.got = clerk[c].got /\ k.seqNum = clerk[c].seqNum
      /\ k.floor = clerk[c].floor
    BY ZenonT(60), <1>2, <1>3 DEF Clerk
<1> HIDE DEF k
<1>6. clerk' \in [Client -> Clerk] /\ clerk'[c] = k /\ \A d \in Client : d # c => clerk'[d] = clerk[d]
    BY ZenonT(60), <1>4, <1>5, SetClerk
<1>7. ASSUME NEW q \in calls'
      PROVE  /\ q \in Call /\ (q.stage \in {"started", "waiting"} => q.index # 0)
             /\ \/ q \in calls /\ ~(q.live /\ q.op.ClientID = c)
                \/ ~q.live /\ q.stage \in {"started", "waiting"} /\ \E call \in calls : q.op = call.op
    <2>1. CASE \E m \in calls : m.stage \in {"started", "waiting"} /\ q = [m EXCEPT !.live = FALSE]
        <3>1. PICK m \in calls : m.stage \in {"started", "waiting"} /\ q = [m EXCEPT !.live = FALSE]
            BY ZenonT(60), <2>1
        <3>2. m \in Call /\ m.index # 0
            BY ZenonT(60), <3>1 DEF Types
        <3>3. q \in Call /\ q.live = FALSE /\ q.stage = m.stage /\ q.op = m.op /\ q.index = m.index
            BY ZenonT(60), <3>1, <3>2 DEF Call
        <3> QED BY ZenonT(60), <3>1, <3>2, <3>3
    <2>2. CASE q \in calls /\ ~(q.live /\ q.op.ClientID = c)
        BY ZenonT(60), <2>2 DEF Types
    <2> QED BY ZenonT(60), <2>1, <2>2 DEF RequestFails
<1>8. Types'
    BY ZenonT(60), <1>1, <1>6, <1>7 DEF Types
<1> QED BY ZenonT(60), <1>1, <1>5, <1>6, <1>7, <1>8
---------------------------------------------------------------------------
(* Replicas *)

\* Neither the log nor a server's configurations change.
Quiet ==
    /\ log' = log
    /\ \A s \in Server : /\ sc'[s].configs = sc[s].configs /\ sc'[s].applied = sc[s].applied
                         /\ sc'[s].clientSeq = sc[s].clientSeq

\* Three kinds of steps change them.
LEMMA StepKinds ==
    ASSUME Counting, IInv, [Next]_vars
    PROVE  Quiet \/ Commit \/ \E s \in Server : applyHandler(s) \/ Restart(s)
<1> USE DEF IInv
<1>1. ASSUME UNCHANGED <<log, sc>> PROVE Quiet
    BY ZenonT(60), <1>1 DEF Quiet
<1>2. ASSUME log' = log, NEW s \in Server, \A t \in Server : t # s => sc'[t] = sc[t],
             sc'[s].configs = sc[s].configs, sc'[s].applied = sc[s].applied, sc'[s].clientSeq = sc[s].clientSeq
      PROVE  Quiet
    BY ZenonT(60), <1>2 DEF Quiet
<1>3. ASSUME NEW call \in calls, RequestHandlerWaits(call) PROVE Quiet
    <2> DEFINE m == [sc[call.srv] EXCEPT !.waitChan = getWaitCh(sc[call.srv].waitChan, call.index)]
    <2>1. call.srv \in Server /\ sc[call.srv] \in Memory
        BY ZenonT(60), CallFacts DEF Types
    <2>2. log' = log /\ sc'[call.srv] = m /\ \A t \in Server : t # call.srv => sc'[t] = sc[t]
        BY ZenonT(60), <1>3, WaitsIs
    <2>3. m.configs = sc[call.srv].configs /\ m.applied = sc[call.srv].applied /\ m.clientSeq = sc[call.srv].clientSeq
        BY ZenonT(60), <2>1 DEF Memory
    <2> HIDE DEF m
    <2> QED BY ZenonT(60), <1>2, <2>1, <2>2, <2>3
<1>4. ASSUME NEW call \in calls, RequestHandlerTimesOut(call) PROVE Quiet
    <2> DEFINE m == [sc[call.srv] EXCEPT !.closing = sc[call.srv].closing \cup {call.index}]
    <2>1. call.srv \in Server /\ sc[call.srv] \in Memory
        BY ZenonT(60), CallFacts DEF Types
    <2>2. log' = log /\ sc'[call.srv] = m /\ \A t \in Server : t # call.srv => sc'[t] = sc[t]
        BY ZenonT(60), <1>4, TimesOutIs
    <2>3. m.configs = sc[call.srv].configs /\ m.applied = sc[call.srv].applied /\ m.clientSeq = sc[call.srv].clientSeq
        BY ZenonT(60), <2>1 DEF Memory
    <2> HIDE DEF m
    <2> QED BY ZenonT(60), <1>2, <2>1, <2>2, <2>3
<1>5. ASSUME NEW call \in calls, RequestHandlerReceives(call) PROVE Quiet
    <2> DEFINE m == [sc[call.srv] EXCEPT !.closing = sc[call.srv].closing \cup {call.index},
                                     !.waitChan = [sc[call.srv].waitChan EXCEPT ![call.index] = << >>]]
    <2>1. call.srv \in Server /\ sc[call.srv] \in Memory
        BY ZenonT(60), CallFacts DEF Types
    <2>2. log' = log /\ sc'[call.srv] = m /\ \A t \in Server : t # call.srv => sc'[t] = sc[t]
        BY ZenonT(60), <1>5, ReceivesIs
    <2>3. m.configs = sc[call.srv].configs /\ m.applied = sc[call.srv].applied /\ m.clientSeq = sc[call.srv].clientSeq
        BY ZenonT(60), <2>1 DEF Memory
    <2> HIDE DEF m
    <2> QED BY ZenonT(60), <1>2, <2>1, <2>2, <2>3
<1>6. ASSUME NEW s \in Server, NEW index \in sc[s].closing, closeWaitCh(s, index) PROVE Quiet
    <2> DEFINE m == [sc[s] EXCEPT !.closing = sc[s].closing \ {index},
                              !.waitChan = [i \in DOMAIN sc[s].waitChan \ {index} |-> sc[s].waitChan[i]]]
    <2>1. s \in Server /\ sc[s] \in Memory
        BY ZenonT(60), CallFacts DEF Types
    <2>2. log' = log /\ sc'[s] = m /\ \A t \in Server : t # s => sc'[t] = sc[t]
        BY ZenonT(60), <1>6, CloseIs
    <2>3. m.configs = sc[s].configs /\ m.applied = sc[s].applied /\ m.clientSeq = sc[s].clientSeq
        BY ZenonT(60), <2>1 DEF Memory
    <2> HIDE DEF m
    <2> QED BY ZenonT(60), <1>2, <2>1, <2>2, <2>3
<1>7. ASSUME NEW call \in calls, RequestReturns(call) \/ RequestHandlerRefuses(call) PROVE Quiet
    BY ZenonT(60), <1>1, <1>7 DEF RequestReturns, RequestHandlerRefuses
<1>8. ASSUME NEW call \in calls, NEW index \in Nat, RequestHandlerStarts(call, index) PROVE Quiet
    BY ZenonT(60), <1>1, <1>8 DEF RequestHandlerStarts
<1>9. ASSUME NEW c \in Client, RequestSends(c) \/ RequestFails(c) \/ \E args \in Request : RequestBegins(c, args)
      PROVE  Quiet
    BY ZenonT(60), <1>1, <1>9 DEF RequestSends, RequestFails, RequestBegins
<1>10. CASE UNCHANGED vars
    BY ZenonT(60), <1>1, <1>10 DEF vars
<1> QED BY ZenonT(60), <1>3, <1>4, <1>5, <1>6, <1>7, <1>8, <1>9, <1>10 DEF Next, StepNext

\* Where the configuration is that an applied operation made.
LEMMA MadeAt ==
    ASSUME Counting, Types, Configs, NEW s \in Server, NEW i \in 1..sc[s].applied
    PROVE  /\ i \in DOMAIN log /\ i \in 0..Len(log)
           /\ ~IsQuery(log[i]) => made(log, i) \in DOMAIN sc[s].configs /\ made(log, i) + 1 \in DOMAIN sc[s].configs
<1>1. /\ log \in Seq(Op) /\ Len(log) \in Nat /\ DOMAIN log = 1..Len(log)
      /\ sc[s].applied \in Nat /\ sc[s].applied <= Len(log) /\ made(log, sc[s].applied) \in Nat
      /\ Len(sc[s].configs) = made(log, sc[s].applied) + 1 /\ DOMAIN sc[s].configs = 1..Len(sc[s].configs)
    BY ZenonT(60), ConfigsFacts
<1>2. /\ i \in DOMAIN log /\ i \in 0..Len(log) /\ i - 1 \in 0..Len(log) /\ i \in 0..sc[s].applied
      /\ sc[s].applied \in 0..Len(log)
    BY SMTT(40), <1>1
<1>3. /\ made(log, i - 1) \in Nat /\ made(log, i) \in Nat /\ made(log, i) <= made(log, sc[s].applied)
      /\ made(log, i) = made(log, i - 1) + IF IsQuery(log[i]) THEN 0 ELSE 1
    BY ZenonT(60), <1>1, <1>2 DEF Counting
<1>4. ~IsQuery(log[i]) => made(log, i) = made(log, i - 1) + 1
    BY ZenonT(60), <1>3
<1>5. ASSUME made(log, i) = made(log, i - 1) + 1
      PROVE  made(log, i) \in DOMAIN sc[s].configs /\ made(log, i) + 1 \in DOMAIN sc[s].configs
    BY SMTT(40), <1>1, <1>3, <1>5
<1> QED BY ZenonT(60), <1>2, <1>4, <1>5

\* The configuration that the next operation makes comes after the last one.
LEMMA MadeNext ==
    ASSUME Counting, Types, Configs, NEW s \in Server, sc[s].applied + 1 \in DOMAIN log
    PROVE  /\ IsQuery(log[sc[s].applied + 1]) => made(log, sc[s].applied + 1) = made(log, sc[s].applied)
           /\ ~IsQuery(log[sc[s].applied + 1]) => made(log, sc[s].applied + 1) = Len(sc[s].configs)
<1>1. /\ log \in Seq(Op) /\ sc[s].applied \in Nat /\ made(log, sc[s].applied) \in Nat
      /\ Len(sc[s].configs) = made(log, sc[s].applied) + 1
    BY ZenonT(60), ConfigsFacts
<1> DEFINE index == sc[s].applied + 1
<1>2. index - 1 = sc[s].applied /\ made(log, sc[s].applied) + 0 = made(log, sc[s].applied)
    BY <1>1
<1> HIDE DEF index
<1>3. made(log, index) = made(log, index - 1) + IF IsQuery(log[index]) THEN 0 ELSE 1
    <2>1. index \in DOMAIN log
        BY ZenonT(60) DEF index
    <2> QED BY ZenonT(60), <1>1, <2>1 DEF Counting
<1> QED BY ZenonT(60), <1>1, <1>2, <1>3 DEF index

\* A server whose configurations do not change.
LEMMA ConfigsSame ==
    ASSUME NEW s, ConfigsAt(s), log' = log, sc'[s].configs = sc[s].configs, sc'[s].applied = sc[s].applied,
           sc'[s].clientSeq = sc[s].clientSeq
    PROVE  ConfigsAt(s)'
BY ZenonT(60) DEF ConfigsAt

\* A log that grows has what the servers have applied.
LEMMA ConfigsCommit ==
    ASSUME Counting, Types, Configs, Commit, NEW s \in Server
    PROVE  ConfigsAt(s)'
<1>1. ConfigsAt(s) /\ sc' = sc
    BY ZenonT(60), CommitIs DEF Configs
<1>2. /\ Len(log) \in Nat /\ Len(log') = Len(log) + 1 /\ sc[s].applied \in Nat /\ sc[s].applied <= Len(log)
      /\ \A n \in 0..Len(log) : made(log', n) = made(log, n)
      /\ \A i \in DOMAIN log : log'[i] = log[i]
    BY ZenonT(60), CommitIs, ConfigsFacts
<1>3. sc[s].applied <= Len(log') /\ sc[s].applied \in 0..Len(log)
    BY <1>2
<1>4. \A i \in 1..sc[s].applied : log'[i] = log[i] /\ made(log', i) = made(log, i)
    BY ZenonT(60), <1>2, MadeAt
<1>5. made(log', sc[s].applied) = made(log, sc[s].applied)
    BY ZenonT(60), <1>2, <1>3
<1> QED BY ZenonT(60), <1>1, <1>3, <1>4, <1>5 DEF ConfigsAt

\* A server that starts has made nothing.
LEMMA ConfigsRestart ==
    ASSUME Counting, Types, NEW s \in Server, Restart(s)
    PROVE  ConfigsAt(s)' /\ sc'[s].configs = <<EmptyConfig>>
<1>1. sc'[s] = StartServer /\ log' = log /\ log \in Seq(Op) /\ made(log, 0) = 0
    BY ZenonT(60), RestartIs DEF Types, Counting
<1>2. /\ sc'[s].configs = <<EmptyConfig>> /\ sc'[s].applied = 0 /\ sc'[s].clientSeq = [c \in Client |-> 0]
    BY <1>1 DEF StartServer
<1>3. /\ Len(<<EmptyConfig>>) = 0 + 1 /\ DOMAIN <<EmptyConfig>> = {1} /\ <<EmptyConfig>>[1] = EmptyConfig
      /\ 1..0 = {} /\ 0 = 1 - 1 /\ 0 <= Len(log)
    BY <1>1
<1>4. EmptyConfig.Num = 0
    BY ZenonT(60) DEF EmptyConfig
<1> QED BY ZenonT(60), <1>1, <1>2, <1>3, <1>4 DEF ConfigsAt

\* An applied Query makes no configuration.
LEMMA ConfigsQuery ==
    ASSUME Counting, Types, Configs, NEW s \in Server, sc[s].applied + 1 \in DOMAIN log, IsQuery(log[sc[s].applied + 1]),
           log' = log, sc'[s].applied = sc[s].applied + 1, sc'[s].clientSeq = sc[s].clientSeq,
           sc'[s].configs = sc[s].configs
    PROVE  ConfigsAt(s)'
<1> DEFINE index == sc[s].applied + 1
<1>1. ConfigsAt(s) /\ made(log, index) = made(log, sc[s].applied)
    BY ZenonT(60), MadeNext DEF Configs
<1>2. index <= Len(log) /\ \A i \in 1..index : i \in 1..sc[s].applied \/ i = index
    BY ConfigsFacts
<1> HIDE DEF index
<1>3. IsQuery(log[index]) /\ sc'[s].applied = index
    BY ZenonT(60) DEF index
<1> QED BY ZenonT(60), <1>1, <1>2, <1>3 DEF ConfigsAt

\* Another operation makes the next one.
LEMMA ConfigsMade ==
    ASSUME Counting, Types, Configs, NEW s \in Server, sc[s].applied + 1 \in DOMAIN log, ~IsQuery(log[sc[s].applied + 1]),
           log' = log, sc'[s].applied = sc[s].applied + 1, sc'[s].clientSeq = sc[s].clientSeq,
           NEW next \in Config, Makes(sc[s].configs[Len(sc[s].configs)], log[sc[s].applied + 1].args, next),
           sc'[s].configs = Append(sc[s].configs, next)
    PROVE  ConfigsAt(s)'
<1> DEFINE index == sc[s].applied + 1
           before == sc[s].configs
           after == sc'[s].configs
<1>1. ConfigsAt(s) /\ made(log, index) = Len(before) /\ log \in Seq(Op) /\ index \in DOMAIN log
    BY ZenonT(60), MadeNext DEF Configs, Types
<1>2. index <= Len(log) /\ \A i \in 1..index : i \in 1..sc[s].applied \/ i = index
    BY SMTT(40), ConfigsFacts
<1>3. /\ before \in Seq(Config) /\ Len(before) >= 1 /\ DOMAIN before = 1..Len(before)
      /\ \A k \in DOMAIN before : before[k].Num = k - 1
    BY ZenonT(60), ConfigsFacts
<1>4. next.Num = Len(before)
    <2>1. before[Len(before)] \in Config /\ before[Len(before)].Num = Len(before) - 1
        BY SMTT(40), <1>3
    <2>2. log[index] \in Op
        BY <1>1
    <2>3. next.Num = before[Len(before)].Num + 1
        BY ZenonT(60), <2>1, <2>2, MakesType
    <2> QED BY SMTT(40), <1>3, <2>1, <2>3
<1> HIDE DEF index
<1>5. ~IsQuery(log[index]) /\ sc'[s].applied = index /\ Makes(before[Len(before)], log[index].args, next)
    BY ZenonT(60) DEF index
<1>6. after = Append(before, next)
    BY ZenonT(60)
<1> HIDE DEF before, after
<1>7. /\ Len(after) = Len(before) + 1 /\ after[Len(before) + 1] = next
      /\ \A k \in DOMAIN before : after[k] = before[k]
      /\ \A k \in DOMAIN after : k \in DOMAIN before \/ k = Len(before) + 1
      /\ 1 \in DOMAIN before /\ Len(before) \in DOMAIN before /\ Len(before) + 1 - 1 = Len(before)
    BY <1>3, <1>6
<1>8. \A k \in DOMAIN after : after[k].Num = k - 1
    <2>1. ASSUME NEW k \in DOMAIN before PROVE after[k].Num = k - 1
        BY ZenonT(60), <1>3, <1>7, <2>1
    <2>2. after[Len(before) + 1].Num = Len(before) + 1 - 1
        BY <1>3, <1>4, <1>7
    <2>3. ASSUME NEW k \in DOMAIN after PROVE k \in DOMAIN before \/ k = Len(before) + 1
        BY ZenonT(60), <1>7
    <2>4. ASSUME NEW k, k = Len(before) + 1 PROVE after[k].Num = k - 1
        BY <2>2, <2>4
    <2> QED BY ZenonT(60), <2>1, <2>3, <2>4
<1>9. after[1] = EmptyConfig /\ \A c \in Client : sc'[s].clientSeq[c] = 0
    BY ZenonT(60), <1>1, <1>7 DEF ConfigsAt, before
<1>10. ASSUME NEW i \in 1..index, ~IsQuery(log[i])
       PROVE  Makes(after[made(log, i)], log[i].args, after[made(log, i) + 1])
    <2>1. CASE i \in 1..sc[s].applied
        <3>1. made(log, i) \in DOMAIN before /\ made(log, i) + 1 \in DOMAIN before
            BY ZenonT(60), <1>10, <2>1, MadeAt DEF before
        <3>2. Makes(before[made(log, i)], log[i].args, before[made(log, i) + 1])
            BY ZenonT(60), <1>1, <1>10, <2>1 DEF ConfigsAt, before
        <3> QED BY ZenonT(60), <1>7, <3>1, <3>2
    <2>2. CASE i = index
        BY ZenonT(60), <1>1, <1>5, <1>7, <2>2
    <2> QED BY ZenonT(60), <1>2, <2>1, <2>2
<1> QED BY ZenonT(60), <1>1, <1>2, <1>5, <1>7, <1>8, <1>9, <1>10 DEF ConfigsAt, after

\* The configuration that a server makes is the one another server has made.
LEMMA AgreeMade ==
    ASSUME Counting, Sorting, Types, Configs, NEW s \in Server, NEW t \in Server,
           sc[s].applied + 1 \in DOMAIN log, ~IsQuery(log[sc[s].applied + 1]),
           NEW next \in Config, Makes(sc[s].configs[Len(sc[s].configs)], log[sc[s].applied + 1].args, next),
           Len(sc[s].configs) + 1 \in DOMAIN sc[t].configs
    PROVE  sc[t].configs[Len(sc[s].configs) + 1] = next
<1> DEFINE index == sc[s].applied + 1
           n == Len(sc[s].configs)
<1>1. made(log, index) = n /\ index \in DOMAIN log /\ ~IsQuery(log[index]) /\ log \in Seq(Op)
    BY ZenonT(60), MadeNext DEF Types
<1>2. /\ sc[s].applied \in Nat /\ sc[t].applied \in Nat /\ Len(log) \in Nat
      /\ sc[s].applied <= Len(log) /\ sc[t].applied <= Len(log)
      /\ made(log, sc[s].applied) \in Nat /\ made(log, sc[t].applied) \in Nat
      /\ n = made(log, sc[s].applied) + 1 /\ Len(sc[t].configs) = made(log, sc[t].applied) + 1
      /\ DOMAIN sc[t].configs = 1..Len(sc[t].configs) /\ DOMAIN sc[s].configs = 1..Len(sc[s].configs)
    BY ZenonT(60), ConfigsFacts
<1>3. index \in 1..sc[t].applied
    <2>1. sc[t].applied <= sc[s].applied => made(log, sc[t].applied) <= made(log, sc[s].applied)
        <3>1. sc[s].applied \in 0..Len(log) /\ (sc[t].applied <= sc[s].applied => sc[t].applied \in 0..sc[s].applied)
            BY <1>2
        <3> QED BY ZenonT(60), <1>1, <3>1 DEF Counting
    <2>2. n + 1 <= Len(sc[t].configs)
        BY SMTT(40), <1>2
    <2> DEFINE i == sc[s].applied
               j == sc[t].applied
               f == made(log, i)
               h == made(log, j)
    <2>3. i \in Nat /\ j \in Nat /\ f \in Nat /\ h \in Nat /\ (j <= i => h <= f) /\ (f + 1) + 1 <= h + 1
        BY ZenonT(60), <1>2, <2>1, <2>2
    <2> HIDE DEF i, j, f, h
    <2>4. i + 1 \in 1..j
        BY <2>3
    <2> QED BY ZenonT(60), <2>4 DEF i, j
<1>4. n \in DOMAIN sc[s].configs /\ n \in DOMAIN sc[t].configs
    BY SMTT(40), <1>2
<1>5. sc[t].configs[n] = sc[s].configs[n] /\ sc[t].configs[n] \in Config
    BY ZenonT(60), <1>4, ConfigsFacts DEF Configs, AgreeAt
<1>6. log[index] \in Op
    BY <1>1
<1> HIDE DEF index, n
<1>7. Makes(sc[t].configs[n], log[index].args, sc[t].configs[n + 1])
    BY ZenonT(60), <1>1, <1>3 DEF Configs, ConfigsAt
<1>8. Makes(sc[t].configs[n], log[index].args, next)
    BY ZenonT(60), <1>5 DEF n, index
<1>9. sc[t].configs[n + 1] = next
    BY ZenonT(60), <1>1, <1>5, <1>6, <1>7, <1>8, MakesOne
<1> QED BY ZenonT(60), <1>9 DEF n

\* Servers whose configurations do not change.
LEMMA AgreeSame ==
    ASSUME NEW s, NEW t, AgreeAt(s, t), sc'[s].configs = sc[s].configs, sc'[t].configs = sc[t].configs
    PROVE  AgreeAt(s, t)'
BY ZenonT(60) DEF AgreeAt

\* A server agrees with others if they agree with it.
LEMMA AgreeSym == ASSUME NEW s, NEW t, AgreeAt(s, t)' PROVE AgreeAt(t, s)'
BY ZenonT(60) DEF AgreeAt

\* The servers keep making the same configurations.
LEMMA ConfigsNext == Counting /\ Sorting /\ IInv /\ [Next]_vars => Configs'
<1> SUFFICES ASSUME Counting, Sorting, IInv, [Next]_vars PROVE Configs'
    OBVIOUS
<1> USE DEF IInv
<1>1. \A s \in Server : ConfigsAt(s) /\ AgreeAt(s, s) /\ \A t \in Server : AgreeAt(s, t)
    BY ZenonT(60) DEF Configs
<1>2. CASE Quiet
    <2>1. \A s \in Server : ConfigsAt(s)'
        BY ZenonT(60), <1>1, <1>2, ConfigsSame DEF Quiet
    <2>2. \A s, t \in Server : AgreeAt(s, t)'
        BY ZenonT(60), <1>1, <1>2, AgreeSame DEF Quiet
    <2> QED BY ZenonT(60), <2>1, <2>2 DEF Configs
<1>3. CASE Commit
    <2>1. \A s \in Server : ConfigsAt(s)'
        BY ZenonT(60), <1>3, ConfigsCommit
    <2>2. \A s, t \in Server : AgreeAt(s, t)'
        BY ZenonT(60), <1>1, <1>3, CommitIs, AgreeSame
    <2> QED BY ZenonT(60), <2>1, <2>2 DEF Configs
<1>4. ASSUME NEW s \in Server, Restart(s) PROVE Configs'
    <2>1. log' = log /\ \A t \in Server : t # s => sc'[t] = sc[t]
        BY ZenonT(60), <1>4, RestartIs
    <2>2. \A t \in Server : ConfigsAt(t)'
        BY ZenonT(60), <1>1, <1>4, <2>1, ConfigsRestart, ConfigsSame
    <2>3. \A t \in Server : sc'[t].configs[1] = EmptyConfig
        BY ZenonT(60), <2>2 DEF ConfigsAt
    <2>4. sc'[s].configs = <<EmptyConfig>>
        BY ZenonT(60), <1>4, ConfigsRestart
    <2>5. \A k \in DOMAIN sc'[s].configs : k = 1
        BY <2>4
    <2>6. \A t \in Server : AgreeAt(s, t)'
        BY ZenonT(60), <2>3, <2>5 DEF AgreeAt
    <2>7. \A t, u \in Server : t # s /\ u # s => AgreeAt(t, u)'
        BY ZenonT(60), <1>1, <2>1, AgreeSame
    <2> QED BY ZenonT(60), <2>2, <2>6, <2>7, AgreeSym DEF Configs
<1>5. ASSUME NEW s \in Server, applyHandler(s) PROVE Configs'
    <2> DEFINE index == sc[s].applied + 1
    <2>1. /\ log' = log /\ index \in DOMAIN log /\ \A t \in Server : t # s => sc'[t] = sc[t]
          /\ sc'[s].applied = index /\ sc'[s].clientSeq = sc[s].clientSeq
        BY ZenonT(60), <1>5, ApplyIs
    <2>2. \A t \in Server : t # s => ConfigsAt(t)'
        BY ZenonT(60), <1>1, <2>1, ConfigsSame
    <2>3. \A t, u \in Server : t # s /\ u # s => AgreeAt(t, u)'
        BY ZenonT(60), <1>1, <2>1, AgreeSame
    <2>4. CASE IsQuery(log[index]) /\ sc'[s].configs = sc[s].configs
        <3>1. ConfigsAt(s)'
            BY ZenonT(60), <2>1, <2>4, ConfigsQuery
        <3>2. \A t \in Server : sc'[t].configs = sc[t].configs
            BY ZenonT(60), <2>1, <2>4
        <3>3. \A t, u \in Server : AgreeAt(t, u)'
            BY ZenonT(60), <1>1, <3>2, AgreeSame
        <3> QED BY ZenonT(60), <2>2, <3>1, <3>3 DEF Configs
    <2>5. ASSUME ~IsQuery(log[index]), NEW next \in Config,
                 Makes(sc[s].configs[Len(sc[s].configs)], log[index].args, next),
                 sc'[s].configs = Append(sc[s].configs, next)
          PROVE  Configs'
        <3> DEFINE n == Len(sc[s].configs) + 1
        <3>1. ConfigsAt(s)'
            BY ZenonT(60), <2>1, <2>5, ConfigsMade
        <3>2. \A t \in Server : n \in DOMAIN sc[t].configs => sc[t].configs[n] = next
            BY ZenonT(60), <2>1, <2>5, AgreeMade
        <3>3. /\ sc'[s].configs[n] = next
              /\ \A k \in DOMAIN sc'[s].configs : k = n \/ (k \in DOMAIN sc[s].configs /\ sc'[s].configs[k] = sc[s].configs[k])
            <4>1. sc[s].configs \in Seq(Config)
                BY ZenonT(60), ConfigsFacts
            <4>2. /\ sc'[s].configs[Len(sc[s].configs) + 1] = next
                  /\ \A k \in DOMAIN sc[s].configs : sc'[s].configs[k] = sc[s].configs[k]
                  /\ \A k \in DOMAIN sc'[s].configs : k = Len(sc[s].configs) + 1 \/ k \in DOMAIN sc[s].configs
                BY ZenonT(60), <2>5, <4>1, AddsConfig
            <4> QED BY ZenonT(60), <4>2
        <3> HIDE DEF n
        <3>4. ASSUME NEW t \in Server, t # s PROVE AgreeAt(s, t)'
            <4>1. sc'[t].configs = sc[t].configs /\ AgreeAt(s, t)
                BY ZenonT(60), <1>1, <2>1, <3>4
            <4> QED BY ZenonT(60), <3>2, <3>3, <4>1 DEF AgreeAt
        <3>5. AgreeAt(s, s)'
            BY ZenonT(60) DEF AgreeAt
        <3> QED BY ZenonT(60), <2>2, <2>3, <3>1, <3>4, <3>5, AgreeSym DEF Configs
    <2> QED BY ZenonT(60), <1>5, <2>4, <2>5, ApplyIs
<1> QED BY ZenonT(60), <1>2, <1>3, <1>4, <1>5, StepKinds

\* Servers that agree have configurations one of which starts the other.
LEMMA AgreePrefix ==
    ASSUME Counting, Types, Configs, NEW s \in Server, NEW t \in Server, sc[s].applied <= sc[t].applied
    PROVE  IsRestriction(sc[s].configs, sc[t].configs)
<1> DEFINE a == sc[s].configs
           b == sc[t].configs
<1>1. /\ sc[s].applied \in Nat /\ sc[t].applied \in Nat /\ Len(log) \in Nat /\ log \in Seq(Op)
      /\ sc[t].applied <= Len(log) /\ made(log, sc[s].applied) \in Nat /\ made(log, sc[t].applied) \in Nat
      /\ Len(a) = made(log, sc[s].applied) + 1 /\ Len(b) = made(log, sc[t].applied) + 1
      /\ DOMAIN a = 1..Len(a) /\ DOMAIN b = 1..Len(b) /\ a \in Seq(Config) /\ b \in Seq(Config)
    BY ZenonT(60), ConfigsFacts
<1>2. sc[s].applied \in 0..sc[t].applied /\ sc[t].applied \in 0..Len(log)
    BY <1>1
<1>3. made(log, sc[s].applied) <= made(log, sc[t].applied)
    BY ZenonT(60), <1>1, <1>2 DEF Counting
<1>4. \A k \in DOMAIN a \cap DOMAIN b : a[k] = b[k]
    BY ZenonT(60) DEF Configs, AgreeAt
<1> HIDE DEF a, b
<1>5. DOMAIN a \subseteq DOMAIN b
    BY SMTT(40), <1>1, <1>3
<1> QED BY ZenonT(60), <1>4, <1>5 DEF IsRestriction, a, b
---------------------------------------------------------------------------
(* Wait channels *)

\* A handler with a new index.
LEMMA OwnedStarts ==
    ASSUME Types, Owned, NEW call \in calls, NEW index \in Nat, RequestHandlerStarts(call, index), NEW t \in Server
    PROVE  OwnedAt(t)'
<1>1. PICK R : Replaces(call, R) /\ \A r \in R : r.stage = "started" /\ r.index = index
    BY ZenonT(60), StartsIs
<1>2. call.stage = "sent" /\ sc' = sc /\ call \notin Held(t) /\ \A held \in heldIndexes(call.srv) : index > held
    BY ZenonT(60), StartsIs DEF Held
<1>3. CASE t # call.srv
    <2>1. \A r \in R : r.srv # t
        BY ZenonT(60), <1>1, <1>3 DEF Replaces
    <2>2. Held(t)' = Held(t)
        BY ZenonT(60), <1>1, <1>2, <2>1, HeldAfter
    <2> QED BY ZenonT(60), <1>2, <2>2, OwnedSame
<1>4. CASE t = call.srv
    <2>1. Held(t)' = (Held(t) \ {call}) \cup R
        <3>1. \A r \in R : r.srv = t /\ r.stage \in {"started", "waiting"}
            BY ZenonT(60), <1>1, <1>4 DEF Replaces
        <3> QED BY ZenonT(60), <1>1, <3>1, HeldNew
    <2>2. /\ \A held \in sc[t].closing : held \in Nat /\ index > held
          /\ \A other \in Held(t) : other.index \in Nat /\ index > other.index
        BY ZenonT(60), <1>2, <1>4, CallFacts DEF heldIndexes, Held, Types, Memory, Index
    <2>3. index \notin sc[t].closing /\ \A other \in Held(t) : index # other.index
        BY <2>2
    <2>4. OwnedAt(t) /\ \A r, q \in R : r = q
        BY ZenonT(60), <1>1 DEF Owned, Replaces
    <2> QED BY ZenonT(60), <1>1, <1>2, <2>1, <2>3, <2>4 DEF OwnedAt
<1> QED BY ZenonT(60), <1>3, <1>4

\* A handler that takes its channel.
LEMMA OwnedWaits ==
    ASSUME Types, Owned, NEW call \in calls, RequestHandlerWaits(call), NEW t \in Server
    PROVE  OwnedAt(t)'
<1>1. PICK r : Replaces(call, {r}) /\ r.stage = "waiting" /\ r.index = call.index
    BY ZenonT(60), WaitsIs
<1>2. r.srv = call.srv /\ call.stage = "started" /\ call.srv \in Server /\ call.index \in Index
    BY ZenonT(60), <1>1, WaitsIs, CallFacts DEF Replaces, Types, Index
<1>3. CASE t # call.srv
    <2>1. Held(t)' = Held(t)
        <3> DEFINE R == {r}
        <3>1. call \notin Held(t) /\ Replaces(call, R) /\ \A q \in R : q.srv # t
            BY ZenonT(60), <1>1, <1>2, <1>3 DEF Held
        <3> HIDE DEF R
        <3> QED BY ZenonT(60), <3>1, HeldAfter
    <2> QED BY ZenonT(60), <1>3, <2>1, WaitsIs, OwnedSame
<1>4. CASE t = call.srv
    <2>1. Held(t)' = (Held(t) \ {call}) \cup {r} /\ call \in Held(t)
        <3>1. call \in Held(t) /\ \A q \in {r} : q.srv = t /\ q.stage \in {"started", "waiting"}
            BY ZenonT(60), <1>1, <1>2, <1>4 DEF Held
        <3> QED BY ZenonT(60), <1>1, <3>1, HeldNew
    <2> DEFINE waitChan == getWaitCh(sc[t].waitChan, call.index)
    <2>2. sc[t] \in Memory /\ sc[t].waitChan \in WaitChans
        BY ZenonT(60) DEF Types, Memory
    <2>3. DOMAIN waitChan = DOMAIN sc[t].waitChan \cup {call.index}
        BY ZenonT(60), <1>2, <2>2, GetWaitChType
    <2>4. sc'[t] = [sc[t] EXCEPT !.waitChan = waitChan]
        BY ZenonT(60), <1>4, WaitsIs
    <2> HIDE DEF waitChan
    <2>5. sc'[t].waitChan = waitChan /\ sc'[t].closing = sc[t].closing
        BY ZenonT(60), <2>2, <2>4 DEF Memory
    <2>6. OwnedAt(t)
        BY ZenonT(60) DEF Owned
    <2>7. DOMAIN sc'[t].waitChan = DOMAIN sc[t].waitChan \cup {call.index}
        BY ZenonT(60), <2>3, <2>5
    <2>8. r.index \notin sc[t].closing /\ \A other \in Held(t) : other.index = r.index => other = call
        BY ZenonT(60), <1>1, <2>1, <2>6 DEF OwnedAt
    <2>9. \A i \in DOMAIN sc'[t].waitChan :
            i \in sc'[t].closing \/ \E held \in Held(t)' : held.index = i /\ held.stage = "waiting"
        BY ZenonT(60), <1>1, <1>2, <2>1, <2>5, <2>6, <2>7 DEF OwnedAt
    <2> QED BY ZenonT(60), <1>1, <2>1, <2>5, <2>6, <2>7, <2>8, <2>9 DEF OwnedAt
<1> QED BY ZenonT(60), <1>3, <1>4

\* A call that fails leaves its handler what it holds.
LEMMA OwnedFails ==
    ASSUME Types, Owned, NEW c \in Client, RequestFails(c), NEW t \in Server
    PROVE  OwnedAt(t)'
<1> DEFINE mine == {call \in calls : call.live /\ call.op.ClientID = c}
           failed(call) == IF call \in mine THEN [call EXCEPT !.live = FALSE] ELSE call
<1>1. sc' = sc /\ calls' = (calls \ mine) \cup {[call EXCEPT !.live = FALSE] :
                            call \in {m \in mine : m.stage \in {"started", "waiting"}}}
    BY ZenonT(60) DEF RequestFails
<1>2. \A call \in calls : /\ failed(call).srv = call.srv /\ failed(call).stage = call.stage
                         /\ failed(call).index = call.index
    BY ZenonT(60) DEF Types, Call
<1>3. \A call \in Held(t) : failed(call) \in Held(t)'
    <2> SUFFICES ASSUME NEW call \in Held(t) PROVE failed(call) \in Held(t)'
        BY ZenonT(60)
    <2>1. call \in calls /\ call.srv = t /\ call.stage \in {"started", "waiting"}
        BY ZenonT(60) DEF Held
    <2>2. failed(call) \in calls'
        BY ZenonT(60), <1>1, <2>1
    <2> QED BY ZenonT(60), <1>2, <2>1, <2>2 DEF Held
<1>4. \A q \in Held(t)' : \E call \in Held(t) : q = failed(call)
    <2> SUFFICES ASSUME NEW q \in Held(t)' PROVE \E call \in Held(t) : q = failed(call)
        BY ZenonT(60)
    <2>1. q \in calls' /\ q.srv = t /\ q.stage \in {"started", "waiting"}
        BY ZenonT(60) DEF Held
    <2>2. CASE q \in calls \ mine
        BY ZenonT(60), <2>1, <2>2 DEF Held
    <2>3. CASE q \notin calls \ mine
        <3>1. PICK call \in mine : call.stage \in {"started", "waiting"} /\ q = [call EXCEPT !.live = FALSE]
            BY ZenonT(60), <1>1, <2>1, <2>3
        <3>2. call \in calls /\ q = failed(call)
            BY ZenonT(60), <3>1
        <3>3. call \in Held(t)
            BY ZenonT(60), <1>2, <2>1, <3>1, <3>2 DEF Held
        <3> QED BY ZenonT(60), <3>2, <3>3
    <2> QED BY ZenonT(60), <2>2, <2>3
<1>5. \A call \in Held(t) : failed(call).stage = call.stage /\ failed(call).index = call.index
    BY ZenonT(60), <1>2 DEF Held
<1> DEFINE f == [call \in Held(t) |-> failed(call)]
<1> HIDE DEF failed
<1>6. \A call \in Held(t) : f[call] = failed(call)
    BY ZenonT(60)
<1> HIDE DEF f
<1>7. Held(t)' = {f[call] : call \in Held(t)}
    BY ZenonT(60), <1>3, <1>4, <1>6
<1>8. \A call \in Held(t) : f[call].stage = call.stage /\ f[call].index = call.index
    BY ZenonT(60), <1>5, <1>6
<1> QED BY ZenonT(60), <1>1, <1>7, <1>8, OwnedMapped

\* The goroutine that closes a channel.
LEMMA OwnedCloses ==
    ASSUME Types, Owned, NEW s \in Server, NEW index \in sc[s].closing, closeWaitCh(s, index), NEW t \in Server
    PROVE  OwnedAt(t)'
<1>1. Held(t)' = Held(t)
    BY ZenonT(60), CloseIs DEF Held
<1>2. CASE t # s
    BY ZenonT(60), <1>1, <1>2, CloseIs, OwnedSame
<1>3. CASE t = s
    <2> DEFINE waitChan == [i \in DOMAIN sc[t].waitChan \ {index} |-> sc[t].waitChan[i]]
    <2>1. sc'[t] = [sc[t] EXCEPT !.closing = sc[t].closing \ {index}, !.waitChan = waitChan] /\ sc[t] \in Memory
        BY ZenonT(60), <1>3, CloseIs DEF Types
    <2>2. DOMAIN waitChan = DOMAIN sc[t].waitChan \ {index}
        BY ZenonT(60)
    <2> HIDE DEF waitChan
    <2>3. sc'[t].waitChan = waitChan /\ sc'[t].closing = sc[t].closing \ {index}
        BY ZenonT(60), <2>1 DEF Memory
    <2>4. index \in sc[t].closing /\ DOMAIN sc'[t].waitChan = DOMAIN sc[t].waitChan \ {index}
        BY ZenonT(60), <1>3, <2>2, <2>3
    <2> QED BY ZenonT(60), <1>1, <2>3, <2>4, OwnedClosed
<1> QED BY ZenonT(60), <1>2, <1>3

\* A server that starts holds nothing.
LEMMA OwnedRestart ==
    ASSUME Types, Owned, NEW s \in Server, Restart(s), NEW t \in Server
    PROVE  OwnedAt(t)'
<1>1. calls' = {call \in calls : ~(call.srv = s /\ call.stage \in {"started", "waiting"})}
    BY ZenonT(60), RestartIs
<1>2. CASE t # s
    <2>1. Held(t)' = Held(t)
        BY ZenonT(60), <1>1, <1>2 DEF Held
    <2> QED BY ZenonT(60), <1>2, <2>1, RestartIs, OwnedSame
<1>3. CASE t = s
    <2>1. Held(t)' = {}
        BY ZenonT(60), <1>1, <1>3 DEF Held
    <2>2. sc'[t] = StartServer
        BY ZenonT(60), <1>3, RestartIs
    <2>3. sc'[t].closing = {} /\ DOMAIN sc'[t].waitChan = {}
        BY <2>2, StartServerType DEF StartServer
    <2> QED BY ZenonT(60), <2>1, <2>3 DEF OwnedAt
<1> QED BY ZenonT(60), <1>2, <1>3

\* Every channel keeps its owner.
LEMMA OwnedNext == Counting /\ IInv /\ [Next]_vars => Owned'
<1> SUFFICES ASSUME Counting, IInv, [Next]_vars, NEW t \in Server PROVE OwnedAt(t)'
    BY ZenonT(60) DEF Owned
<1> USE DEF IInv
<1>1. ASSUME Held(t)' = Held(t), sc' = sc PROVE OwnedAt(t)'
    BY ZenonT(60), <1>1, OwnedSame
<1>2. ASSUME NEW c \in Client, RequestSends(c) PROVE OwnedAt(t)'
    <2>1. PICK sent : calls' = calls \cup {sent} /\ sent.stage = "sent"
        BY ZenonT(60), <1>2, SendsIs
    <2>2. sent.stage \notin {"started", "waiting"} /\ sc' = sc
        BY ZenonT(60), <1>2, <2>1, SendsIs, Stages
    <2>3. Held(t)' = Held(t)
        BY ZenonT(60), <2>1, <2>2 DEF Held
    <2> QED BY ZenonT(60), <1>1, <2>2, <2>3
<1>3. ASSUME NEW c \in Client, NEW args \in Request, RequestBegins(c, args) PROVE OwnedAt(t)'
    BY ZenonT(60), <1>1, <1>3 DEF RequestBegins, Held
<1>4. ASSUME NEW call \in calls, RequestReturns(call) PROVE OwnedAt(t)'
    <2>1. calls' = calls \ {call} /\ sc' = sc /\ call.stage = "answered"
        BY ZenonT(60), <1>4, ReturnsIs
    <2>2. call.stage \notin {"started", "waiting"}
        BY ZenonT(60), <2>1, Stages
    <2>3. Held(t)' = Held(t)
        BY ZenonT(60), <2>1, <2>2 DEF Held
    <2> QED BY ZenonT(60), <1>1, <2>1, <2>3
<1>5. ASSUME NEW call \in calls, RequestHandlerRefuses(call) PROVE OwnedAt(t)'
    <2>1. PICK R : Replaces(call, R) /\ \A r \in R : r.stage = "answered"
        BY ZenonT(60), <1>5, RefusesIs
    <2>2. call.stage \notin {"started", "waiting"} /\ sc' = sc /\ \A r \in R : r.stage \notin {"started", "waiting"}
        BY ZenonT(60), <1>5, <2>1, RefusesIs, Stages
    <2>3. Held(t)' = Held(t)
        BY ZenonT(60), <2>1, <2>2 DEF Held, Replaces
    <2> QED BY ZenonT(60), <1>1, <2>2, <2>3
<1>6. ASSUME NEW call \in calls, RequestHandlerTimesOut(call) PROVE OwnedAt(t)'
    <2> DEFINE s == call.srv
    <2>1. PICK R : Replaces(call, R) /\ \A r \in R : r.stage = "answered"
        BY ZenonT(60), <1>6, TimesOutIs
    <2>2. /\ sc'[s] = [sc[s] EXCEPT !.closing = sc[s].closing \cup {call.index}] /\ sc[s] \in Memory
          /\ call.stage = "waiting" /\ \A u \in Server : u # s => sc'[u] = sc[u]
        BY ZenonT(60), <1>6, TimesOutIs, CallFacts
    <2>3. sc'[s].closing = sc[s].closing \cup {call.index} /\ sc'[s].waitChan = sc[s].waitChan
        BY ZenonT(60), <2>2 DEF Memory
    <2> QED BY ZenonT(60), <2>1, <2>2, <2>3, OwnedLeaves
<1>7. ASSUME NEW call \in calls, RequestHandlerReceives(call) PROVE OwnedAt(t)'
    <2> DEFINE s == call.srv
               waitChan == [sc[s].waitChan EXCEPT ![call.index] = << >>]
    <2>1. PICK R : Replaces(call, R) /\ \A r \in R : r.stage = "answered"
        BY ZenonT(60), <1>7, ReceivesIs
    <2>2. /\ sc'[s] = [sc[s] EXCEPT !.closing = sc[s].closing \cup {call.index}, !.waitChan = waitChan]
          /\ sc[s] \in Memory
          /\ call.stage = "waiting" /\ \A u \in Server : u # s => sc'[u] = sc[u]
        BY ZenonT(60), <1>7, ReceivesIs, CallFacts
    <2>3. DOMAIN waitChan = DOMAIN sc[s].waitChan
        BY ZenonT(60)
    <2> HIDE DEF waitChan
    <2>4. sc'[s].closing = sc[s].closing \cup {call.index} /\ sc'[s].waitChan = waitChan
        BY ZenonT(60), <2>2 DEF Memory
    <2> QED BY ZenonT(60), <2>1, <2>2, <2>3, <2>4, OwnedLeaves
<1>8. ASSUME NEW s \in Server, applyHandler(s) PROVE OwnedAt(t)'
    <2>1. Held(t)' = Held(t) /\ (t # s => sc'[t] = sc[t]) /\ (t = s => sc'[t].closing = sc[t].closing)
        BY ZenonT(60), <1>8, ApplyIs DEF Held
    <2>2. t = s => DOMAIN sc'[t].waitChan = DOMAIN sc[t].waitChan
        <3>1. sc'[s].waitChan = sendApplied(sc[s].waitChan, sc[s].applied + 1, log[sc[s].applied + 1])
            BY ZenonT(60), <1>8, ApplyIs
        <3>2. DOMAIN sc'[s].waitChan = DOMAIN sc[s].waitChan
            BY ZenonT(60), <3>1, SendAppliedDomain
        <3> QED BY ZenonT(60), <3>2
    <2> QED BY ZenonT(60), <2>1, <2>2, OwnedSame
<1>9. CASE Commit
    BY ZenonT(60), <1>1, <1>9, CommitIs DEF Held
<1>10. CASE UNCHANGED vars
    BY ZenonT(60), <1>1, <1>10 DEF vars, Held
<1> QED BY ZenonT(60), <1>2, <1>3, <1>4, <1>5, <1>6, <1>7, <1>8, <1>9, <1>10,
           OwnedStarts, OwnedWaits, OwnedFails, OwnedCloses, OwnedRestart DEF Next, StepNext
---------------------------------------------------------------------------
(* Clerks *)

\* A handler's step leaves a clerk its call.
LEMMA LiveReplaced ==
    ASSUME NEW call \in calls, NEW R, Replaces(call, R), \A q \in calls : Live(q), clerk' = clerk
    PROVE  \A q \in calls' : Live(q)'
<1>1. \A r \in R : r.op = call.op /\ (r.live => call.live) /\ \A other \in R : other = r
    BY ZenonT(60) DEF Replaces
<1>2. \A q \in calls' : (q \in calls /\ q # call) \/ q \in R
    BY ZenonT(60) DEF Replaces
<1> SUFFICES ASSUME NEW q \in calls', q.live
             PROVE  /\ clerk[q.op.ClientID].calling /\ q.op.SeqNum = clerk[q.op.ClientID].seqNum
                    /\ \A other \in calls' : other.live /\ other.op.ClientID = q.op.ClientID => other = q
    BY ZenonT(60) DEF Live
<1>3. CASE q \in calls /\ q # call
    <2>1. /\ clerk[q.op.ClientID].calling /\ q.op.SeqNum = clerk[q.op.ClientID].seqNum
          /\ \A other \in calls : other.live /\ other.op.ClientID = q.op.ClientID => other = q
        BY ZenonT(60), <1>3 DEF Live
    <2>2. \A r \in R : ~(r.live /\ r.op.ClientID = q.op.ClientID)
        BY ZenonT(60), <1>1, <1>3, <2>1
    <2> QED BY ZenonT(60), <1>2, <2>1, <2>2
<1>4. CASE q \in R
    <2>1. q.op = call.op /\ call.live
        BY ZenonT(60), <1>1, <1>4
    <2>2. /\ clerk[q.op.ClientID].calling /\ q.op.SeqNum = clerk[q.op.ClientID].seqNum
          /\ \A other \in calls : other.live /\ other.op.ClientID = q.op.ClientID => other = call
        BY ZenonT(60), <2>1 DEF Live
    <2> QED BY ZenonT(60), <1>1, <1>2, <1>4, <2>2
<1> QED BY ZenonT(60), <1>2, <1>3, <1>4

\* So does a step without new calls.
LEMMA LiveFewer ==
    ASSUME calls' \subseteq calls, \A q \in calls : Live(q), clerk' = clerk
    PROVE  \A q \in calls' : Live(q)'
BY ZenonT(60) DEF Live

\* Neither step makes an operation.
LEMMA OpsFewer ==
    ASSUME log' = log, pending' \subseteq pending, calls' \subseteq calls
    PROVE  Ops' \subseteq Ops
BY ZenonT(60) DEF Ops

\* The operation that a handler starts is that of its call.
LEMMA OpsReplaced ==
    ASSUME NEW call \in calls, NEW R, Replaces(call, R), log' = log,
           \A entry \in pending' : entry \in pending \/ entry.op = call.op
    PROVE  Ops' \subseteq Ops
<1>1. \A q \in calls' : q \in calls \/ q.op = call.op
    BY ZenonT(60) DEF Replaces
<1> QED BY ZenonT(60), <1>1 DEF Ops

\* Steps of servers that no clerk sees.
Inner == UNCHANGED <<log, clerk, acked>> /\ Ops' \subseteq Ops /\ \A q \in calls' : Live(q)'

\* The other steps are those of clerks, and Commit.
LEMMA InnerSteps ==
    ASSUME Counting, IInv, [Next]_vars
    PROVE  \/ Inner \/ Commit
           \/ \E c \in Client : RequestSends(c) \/ RequestFails(c) \/ \E args \in Request : RequestBegins(c, args)
           \/ \E call \in calls : RequestReturns(call)
<1> USE DEF IInv
<1>1. \A q \in calls : Live(q)
    BY ZenonT(60) DEF Clerks
<1>2. ASSUME UNCHANGED <<log, clerk, acked>>, pending' \subseteq pending, calls' \subseteq calls PROVE Inner
    BY ZenonT(60), <1>1, <1>2, LiveFewer, OpsFewer DEF Inner
<1>3. ASSUME UNCHANGED <<log, clerk, acked>>, NEW call \in calls, NEW R, Replaces(call, R),
             \A entry \in pending' : entry \in pending \/ entry.op = call.op
      PROVE  Inner
    BY ZenonT(60), <1>1, <1>3, LiveReplaced, OpsReplaced DEF Inner
<1>4. ASSUME NEW call \in calls, RequestHandlerRefuses(call) PROVE Inner
    BY ZenonT(60), <1>3, <1>4, RefusesIs
<1>5. ASSUME NEW call \in calls, NEW index \in Nat, RequestHandlerStarts(call, index) PROVE Inner
    <2>1. PICK R : Replaces(call, R)
        BY ZenonT(60), <1>5, StartsIs
    <2>2. UNCHANGED <<log, clerk, acked>> /\ pending' \subseteq pending \cup {[index |-> index, op |-> call.op]}
        BY ZenonT(60), <1>5, StartsIs
    <2>3. \A entry \in pending' : entry \in pending \/ entry.op = call.op
        BY <2>2
    <2> QED BY ZenonT(60), <1>3, <2>1, <2>2, <2>3
<1>6. ASSUME NEW call \in calls, RequestHandlerWaits(call) PROVE Inner
    <2>1. PICK r : Replaces(call, {r})
        BY ZenonT(60), <1>6, WaitsIs
    <2> DEFINE R == {r}
    <2>2. Replaces(call, R) /\ UNCHANGED <<log, pending, clerk, acked>>
        BY ZenonT(60), <1>6, <2>1, WaitsIs
    <2> HIDE DEF R
    <2> QED BY ZenonT(60), <1>3, <2>2
<1>7. ASSUME NEW call \in calls, RequestHandlerTimesOut(call) PROVE Inner
    BY ZenonT(60), <1>3, <1>7, TimesOutIs
<1>8. ASSUME NEW call \in calls, RequestHandlerReceives(call) PROVE Inner
    <2>1. PICK R : Replaces(call, R)
        BY ZenonT(60), <1>8, ReceivesIs
    <2>2. UNCHANGED <<log, pending, clerk, acked>>
        BY ZenonT(60), <1>8, ReceivesIs
    <2> QED BY ZenonT(60), <1>3, <2>1, <2>2
<1>9. ASSUME NEW s \in Server, applyHandler(s) PROVE Inner
    BY ZenonT(60), <1>2, <1>9 DEF applyHandler
<1>10. ASSUME NEW s \in Server, NEW index \in sc[s].closing, closeWaitCh(s, index) PROVE Inner
    BY ZenonT(60), <1>2, <1>10 DEF closeWaitCh
<1>11. ASSUME NEW s \in Server, Restart(s) PROVE Inner
    BY ZenonT(60), <1>2, <1>11 DEF Restart
<1>12. CASE UNCHANGED vars
    BY ZenonT(60), <1>2, <1>12 DEF vars
<1> QED BY ZenonT(60), <1>4, <1>5, <1>6, <1>7, <1>8, <1>9, <1>10, <1>11, <1>12 DEF Next, StepNext

\* Arithmetic of sequence numbers.
LEMMA SeqNums == \A a, b \in Nat : a <= b => a <= b + 1 /\ a # b + 1
OBVIOUS

\* The operations on their way are operations.
LEMMA OpsType == ASSUME Types PROVE Ops \subseteq Op
<1>1. \A i \in DOMAIN log : log[i] \in Op
    BY DEF Types
<1>2. \A entry \in pending : entry.op \in Op
    BY DEF Types
<1>3. \A call \in calls : call.op \in Op
    BY ZenonT(60), CallFacts
<1> QED BY ZenonT(60), <1>1, <1>2, <1>3 DEF Ops

\* An operation stays a clerk's current one, or an older one.
LEMMA CurrentNext ==
    ASSUME Counting, IInv, [Next]_vars, NEW op \in Ops
    PROVE  Current(op)'
<1> USE DEF IInv
<1> DEFINE d == op.ClientID
<1>1. Current(op) /\ d \in Client /\ op \in Op /\ op.SeqNum \in Nat /\ clerk[d] \in Clerk /\ clerk[d].seqNum \in Nat
    <2>1. Current(op) /\ op \in Op
        BY ZenonT(60), OpsType DEF Clerks
    <2>2. d \in Client /\ op.SeqNum \in Nat
        BY ZenonT(60), <2>1, OpFacts
    <2> QED BY ZenonT(60), <2>1, <2>2 DEF Types, Clerk
<1>2. ASSUME clerk'[d].seqNum = clerk[d].seqNum, clerk'[d].args = clerk[d].args PROVE Current(op)'
    BY ZenonT(60), <1>1, <1>2 DEF Current
<1>3. CASE Inner
    BY ZenonT(60), <1>2, <1>3 DEF Inner
<1>4. CASE Commit
    BY ZenonT(60), <1>2, <1>4, CommitIs
<1>5. ASSUME NEW c \in Client, RequestSends(c) PROVE Current(op)'
    BY ZenonT(60), <1>1, <1>2, <1>5, SendsIs
<1>6. ASSUME NEW c \in Client, RequestFails(c) PROVE Current(op)'
    BY ZenonT(60), <1>1, <1>2, <1>6, FailsIs
<1>7. ASSUME NEW c \in Client, NEW args \in Request, RequestBegins(c, args) PROVE Current(op)'
    <2>1. CASE d # c
        BY ZenonT(60), <1>1, <1>2, <1>7, <2>1, BeginsIs
    <2>2. CASE d = c
        <3>1. clerk[d].args = {} /\ clerk'[d].seqNum = clerk[d].seqNum
            BY ZenonT(60), <1>7, <2>2, BeginsIs
        <3>2. op.SeqNum # clerk[d].seqNum
            BY ZenonT(60), <1>1, <3>1 DEF Current
        <3> QED BY ZenonT(60), <1>1, <3>1, <3>2 DEF Current
    <2> QED BY ZenonT(60), <2>1, <2>2
<1>8. ASSUME NEW call \in calls, RequestReturns(call) PROVE Current(op)'
    <2>1. CASE d # call.op.ClientID
        BY ZenonT(60), <1>1, <1>2, <1>8, <2>1, ReturnsIs
    <2>2. CASE d = call.op.ClientID /\ clerk'[d].seqNum = clerk[d].seqNum + 1
        <3>1. op.SeqNum >= 1 /\ op.SeqNum <= clerk[d].seqNum + 1 /\ op.SeqNum # clerk[d].seqNum + 1
            BY ZenonT(60), <1>1, SeqNums DEF Current
        <3> QED BY ZenonT(60), <2>2, <3>1 DEF Current
    <2>3. d = call.op.ClientID => \/ clerk'[d].seqNum = clerk[d].seqNum + 1
                                  \/ clerk'[d].seqNum = clerk[d].seqNum /\ clerk'[d].args = clerk[d].args
        BY ZenonT(60), <1>8, ReturnsIs
    <2> QED BY ZenonT(60), <1>2, <2>1, <2>2, <2>3
<1> QED BY ZenonT(60), <1>3, <1>4, <1>5, <1>6, <1>7, <1>8, InnerSteps

\* Only a clerk's call makes a new one, and it is the current one.
LEMMA OpsNext ==
    ASSUME Counting, IInv, [Next]_vars, NEW op \in Ops'
    PROVE  op \in Ops \/ Current(op)'
<1> USE DEF IInv
<1>1. op \in {log'[i] : i \in DOMAIN log'} \cup {entry.op : entry \in pending'} \cup {call.op : call \in calls'}
    BY ZenonT(60) DEF Ops
<1>2. CASE Inner
    BY ZenonT(60), <1>2 DEF Inner
<1>3. CASE Commit
    <2>1. /\ pending' \subseteq pending /\ calls' = calls /\ DOMAIN log' = DOMAIN log \cup {Len(log) + 1}
          /\ \A i \in DOMAIN log : log'[i] = log[i]
        BY ZenonT(60), <1>3, CommitIs
    <2>2. PICK entry \in pending : log'[Len(log) + 1] = entry.op
        BY ZenonT(60), <1>3, CommitIs
    <2>3. \A i \in DOMAIN log' : log'[i] \in Ops
        BY ZenonT(60), <2>1, <2>2 DEF Ops
    <2>4. \A e \in pending' : e.op \in Ops
        BY ZenonT(60), <2>1 DEF Ops
    <2>5. \A call \in calls' : call.op \in Ops
        BY ZenonT(60), <2>1 DEF Ops
    <2> QED BY ZenonT(60), <1>1, <2>3, <2>4, <2>5
<1>4. ASSUME NEW c \in Client, RequestSends(c) PROVE op \in Ops \/ Current(op)'
    <2>1. PICK sent : /\ calls' = calls \cup {sent} /\ sent.op.ClientID = c
                      /\ sent.op.SeqNum = clerk[c].seqNum /\ sent.op.args \in clerk[c].args
        BY ZenonT(60), <1>4, SendsIs
    <2>2. log' = log /\ pending' = pending /\ clerk'[c].seqNum = clerk[c].seqNum /\ clerk'[c].args = clerk[c].args
        BY ZenonT(60), <1>4, SendsIs
    <2>3. clerk[c].seqNum >= 1 /\ clerk[c].seqNum <= clerk[c].seqNum
        BY DEF Types, Clerk
    <2>4. Current(sent.op)'
        BY ZenonT(60), <2>1, <2>2, <2>3 DEF Current
    <2> QED BY ZenonT(60), <1>1, <2>1, <2>2, <2>4 DEF Ops
<1>5. ASSUME NEW c \in Client, RequestFails(c) PROVE op \in Ops
    <2>1. log' = log /\ pending' = pending /\ \A q \in calls' : \E call \in calls : q.op = call.op
        BY ZenonT(60), <1>5, FailsIs
    <2> QED BY ZenonT(60), <1>1, <2>1 DEF Ops
<1>6. ASSUME NEW c \in Client, NEW args \in Request, RequestBegins(c, args) PROVE op \in Ops
    BY ZenonT(60), <1>1, <1>6, BeginsIs DEF Ops
<1>7. ASSUME NEW call \in calls, RequestReturns(call) PROVE op \in Ops
    <2>1. log' = log /\ pending' = pending /\ calls' \subseteq calls
        BY ZenonT(60), <1>7, ReturnsIs
    <2> QED BY ZenonT(60), <1>1, <2>1 DEF Ops
<1> QED BY ZenonT(60), <1>2, <1>3, <1>4, <1>5, <1>6, <1>7, InnerSteps

\* A clerk's call stays the only one that can be answered.
LEMMA LiveNext ==
    ASSUME Counting, IInv, [Next]_vars, NEW q \in calls'
    PROVE  Live(q)'
<1> USE DEF IInv
<1>1. \A call \in calls : Live(call)
    BY ZenonT(60) DEF Clerks
<1>2. CASE Inner
    BY ZenonT(60), <1>2 DEF Inner
<1>3. CASE Commit
    BY ZenonT(60), <1>1, <1>3, CommitIs, LiveFewer
<1>4. ASSUME NEW c \in Client, RequestSends(c) PROVE Live(q)'
    <2>1. PICK sent : calls' = calls \cup {sent} /\ sent.op.ClientID = c /\ sent.op.SeqNum = clerk[c].seqNum
        BY ZenonT(60), <1>4, SendsIs
    <2>2. /\ ~clerk[c].calling /\ clerk'[c].calling /\ clerk'[c].seqNum = clerk[c].seqNum
          /\ \A d \in Client : d # c => clerk'[d] = clerk[d]
        BY ZenonT(60), <1>4, SendsIs
    <2>3. \A call \in calls : call.op.ClientID \in Client /\ (call.live => call.op.ClientID # c)
        BY ZenonT(60), <1>1, <2>2, CallFacts DEF Live
    <2>4. CASE q = sent
        BY ZenonT(60), <2>1, <2>2, <2>3, <2>4 DEF Live
    <2>5. CASE q \in calls
        <3>1. Live(q) /\ q.op.ClientID \in Client /\ (q.live => q.op.ClientID # c)
            BY ZenonT(60), <1>1, <2>3, <2>5
        <3> QED BY ZenonT(60), <2>1, <2>2, <3>1 DEF Live
    <2> QED BY ZenonT(60), <2>1, <2>4, <2>5
<1>5. ASSUME NEW c \in Client, RequestFails(c) PROVE Live(q)'
    <2>1. \A r \in calls' : r.live => r \in calls /\ r.op.ClientID # c
        BY ZenonT(60), <1>5, FailsIs
    <2>2. \A d \in Client : d # c => clerk'[d] = clerk[d]
        BY ZenonT(60), <1>5, FailsIs
    <2>3. ASSUME q.live PROVE q \in calls /\ Live(q) /\ q.op.ClientID \in Client /\ clerk'[q.op.ClientID] = clerk[q.op.ClientID]
        BY ZenonT(60), <1>1, <2>1, <2>2, <2>3, CallFacts
    <2> QED BY ZenonT(60), <2>1, <2>3 DEF Live
<1>6. ASSUME NEW c \in Client, NEW args \in Request, RequestBegins(c, args) PROVE Live(q)'
    <2>1. calls' = calls /\ \A d \in Client : clerk'[d].calling = clerk[d].calling /\ clerk'[d].seqNum = clerk[d].seqNum
        BY ZenonT(60), <1>6, BeginsIs
    <2>2. q.op.ClientID \in Client /\ Live(q)
        BY ZenonT(60), <1>1, <2>1, CallFacts
    <2> QED BY ZenonT(60), <2>1, <2>2 DEF Live
<1>7. ASSUME NEW call \in calls, RequestReturns(call) PROVE Live(q)'
    <2>1. /\ calls' = calls \ {call} /\ call.live
          /\ \A d \in Client : d # call.op.ClientID => clerk'[d] = clerk[d]
        BY ZenonT(60), <1>7, ReturnsIs
    <2>2. q \in calls /\ q # call /\ Live(q) /\ Live(call) /\ q.op.ClientID \in Client
        BY ZenonT(60), <1>1, <2>1, CallFacts
    <2>3. q.live => q.op.ClientID # call.op.ClientID
        BY ZenonT(60), <2>1, <2>2 DEF Live
    <2>4. q.live => clerk'[q.op.ClientID] = clerk[q.op.ClientID]
        BY ZenonT(60), <2>1, <2>2, <2>3
    <2> QED BY ZenonT(60), <2>1, <2>2, <2>4 DEF Live
<1> QED BY ZenonT(60), <1>2, <1>3, <1>4, <1>5, <1>6, <1>7, InnerSteps

\* The operations and calls of clerks keep in step with them.
LEMMA ClerksNext == Counting /\ IInv /\ [Next]_vars => Clerks'
BY ZenonT(60), OpsNext, CurrentNext, LiveNext DEF Clerks

\* Numbers of configurations.
LEMMA Bounds == \A a, b, c \in Nat : a <= b /\ b <= c => a <= c /\ c >= a
OBVIOUS

\* The log, and what it makes.
LEMMA LogFacts ==
    ASSUME Counting, Types
    PROVE  /\ log \in Seq(Op) /\ Len(log) \in Nat /\ DOMAIN log = 1..Len(log) /\ made(log, Len(log)) \in Nat
           /\ \A i \in DOMAIN log : /\ log[i] \in Op /\ log[i].ClientID \in Client /\ log[i].SeqNum \in Nat
                                    /\ i \in 0..Len(log) /\ made(log, i) \in Nat
<1>1. /\ log \in Seq(Op) /\ Len(log) \in Nat /\ DOMAIN log = 1..Len(log)
      /\ \A i \in DOMAIN log : log[i] \in Op /\ i \in 0..Len(log)
      /\ Len(log) \in 0..Len(log)
    BY DEF Types
<1>2. \A n \in 0..Len(log) : made(log, n) \in Nat
    BY ZenonT(60), <1>1 DEF Counting
<1> QED BY ZenonT(60), <1>1, <1>2, OpFacts

\* An entry that is added has a clerk.
LEMMA OpsTyped == ASSUME Types', NEW i \in DOMAIN log' PROVE log'[i].ClientID \in Client
<1>1. log'[i] \in Op
    BY DEF Types
<1> QED BY ZenonT(60), <1>1, OpFacts

\* What clerks are told of stays in the log.
LEMMA ToldNext == Counting /\ IInv /\ [Next]_vars => Told'
<1> SUFFICES ASSUME Counting, IInv, [Next]_vars PROVE Told'
    BY ZenonT(60)
<1> USE DEF IInv
<1>1. /\ acked <= made(log, Len(log)) /\ \A c \in Client : clerk[c].floor <= acked
      /\ \A i \in DOMAIN log : log[i].SeqNum = clerk[log[i].ClientID].seqNum => made(log, i) >= clerk[log[i].ClientID].floor
    BY ZenonT(60) DEF Told
<1>2. /\ acked \in Nat /\ made(log, Len(log)) \in Nat /\ \A i \in DOMAIN log : log[i].ClientID \in Client
      /\ \A c \in Client : clerk[c].floor \in Nat /\ clerk[c].seqNum \in Nat
    BY ZenonT(60), LogFacts DEF Types, Clerk
<1>3. ASSUME UNCHANGED <<log, acked>>,
             \A c \in Client : clerk'[c].floor = clerk[c].floor /\ clerk'[c].seqNum = clerk[c].seqNum
      PROVE  Told'
    BY ZenonT(60), <1>1, <1>2, <1>3 DEF Told
<1>4. CASE Inner
    BY ZenonT(60), <1>3, <1>4 DEF Inner
<1>5. CASE Commit
    <2> DEFINE n == Len(log')
    <2>1. /\ n = Len(log) + 1 /\ DOMAIN log' = DOMAIN log \cup {Len(log) + 1} /\ \A i \in DOMAIN log : log'[i] = log[i]
          /\ made(log', n) \in Nat /\ made(log', n) >= made(log, Len(log)) /\ UNCHANGED <<clerk, acked>>
          /\ \A i \in 0..Len(log) : made(log', i) = made(log, i)
        BY ZenonT(60), <1>5, CommitIs
    <2>2. made(log, Len(log)) <= made(log', n)
        BY <1>2, <2>1
    <2>3. acked <= made(log', n) /\ \A c \in Client : made(log', n) >= clerk[c].floor
        BY ZenonT(60), <1>1, <1>2, <2>1, <2>2, Bounds
    <2>4. log'[n].ClientID \in Client
        <3>1. Types' /\ n \in DOMAIN log'
            BY ZenonT(60), <1>5, <2>1, CommitIs
        <3> QED BY ZenonT(60), <3>1, OpsTyped
    <2>5. \A i \in DOMAIN log' : log'[i].SeqNum = clerk[log'[i].ClientID].seqNum => made(log', i) >= clerk[log'[i].ClientID].floor
        BY ZenonT(60), <1>1, <2>1, <2>3, <2>4, LogFacts
    <2> QED BY ZenonT(60), <1>1, <2>1, <2>3, <2>5 DEF Told
<1>6. ASSUME NEW c \in Client, RequestSends(c) PROVE Told'
    BY ZenonT(60), <1>3, <1>6, SendsIs
<1>7. ASSUME NEW c \in Client, RequestFails(c) PROVE Told'
    BY ZenonT(60), <1>3, <1>7, FailsIs
<1>8. ASSUME NEW c \in Client, NEW args \in Request, RequestBegins(c, args) PROVE Told'
    <2>1. /\ UNCHANGED <<log, acked>> /\ clerk[c].args = {} /\ clerk'[c].floor = acked
          /\ \A d \in Client : clerk'[d].seqNum = clerk[d].seqNum /\ (d # c => clerk'[d].floor = clerk[d].floor)
        BY ZenonT(60), <1>8, BeginsIs
    <2>2. \A d \in Client : clerk'[d].floor <= acked
        <3>1. acked <= acked
            BY <1>2
        <3> QED BY ZenonT(60), <1>1, <2>1, <3>1
    <2>3. \A i \in DOMAIN log : log[i].ClientID = c => log[i].SeqNum # clerk[c].seqNum
        BY ZenonT(60), <2>1 DEF Clerks, Current, Ops
    <2> QED BY ZenonT(60), <1>1, <1>2, <2>1, <2>2, <2>3 DEF Told
<1>9. ASSUME NEW call \in calls, RequestReturns(call) PROVE Told'
    <2> DEFINE c == call.op.ClientID
    <2>1. /\ log' = log /\ acked' >= acked /\ acked' \in Nat /\ call.stage = "answered" /\ call.live
          /\ \A d \in Client : clerk'[d].floor = clerk[d].floor /\ (d # c => clerk'[d].seqNum = clerk[d].seqNum)
        BY ZenonT(60), <1>9, ReturnsIs DEF Types
    <2>2. acked <= acked'
        BY <1>2, <2>1
    <2>3. \A d \in Client : clerk'[d].floor <= acked'
        BY ZenonT(60), <1>1, <1>2, <2>1, <2>2, Bounds
    <2>4. CASE call.WrongLeader
        BY ZenonT(60), <1>3, <1>9, <2>1, <2>4, ReturnsIs
    <2>5. CASE ~call.WrongLeader
        <3>1. /\ clerk'[c].seqNum = clerk[c].seqNum + 1
              /\ acked' \in {acked, IF IsQuery(call.op) THEN call.Config.Num ELSE madeConfig(call.op)}
            BY ZenonT(60), <1>9, <2>5, ReturnsIs
        <3>2. IsQuery(call.op) => call.Config.Num <= made(log, Len(log))
            BY ZenonT(60), <2>1, <2>5 DEF Answers, Answered, Fresh
        <3>3. acked' <= made(log, Len(log))
            BY ZenonT(60), <1>1, <3>1, <3>2, MadeConfigIs
        <3>4. \A i \in DOMAIN log : log[i].ClientID = c => log[i].SeqNum # clerk'[c].seqNum
            <4>1. ASSUME NEW i \in DOMAIN log, log[i].ClientID = c PROVE log[i].SeqNum # clerk[c].seqNum + 1
                <5>1. log[i].SeqNum \in Nat /\ log[i].SeqNum <= clerk[c].seqNum /\ clerk[c].seqNum \in Nat
                    BY ZenonT(60), <1>2, <4>1, LogFacts DEF Clerks, Current, Ops
                <5> QED BY ZenonT(60), <5>1, SeqNums
            <4> QED BY ZenonT(60), <3>1, <4>1
        <3> QED BY ZenonT(60), <1>1, <1>2, <2>1, <2>3, <3>3, <3>4 DEF Told
    <2> QED BY ZenonT(60), <2>4, <2>5
<1> QED BY ZenonT(60), <1>4, <1>5, <1>6, <1>7, <1>8, <1>9, InnerSteps

\* A clerk's requests up to the current one.
LEMMA SeqUpTo == \A n \in Nat \ {0} : \A seq \in 1..((n + 1) - 1) : seq \in 1..(n - 1) \/ seq = n
OBVIOUS

\* What was answered stays committed, and the request that is answered is.
LEMMA AckedNext == Counting /\ IInv /\ [Next]_vars => AckedCommitted'
<1> SUFFICES ASSUME Counting, IInv, [Next]_vars PROVE AckedCommitted'
    BY ZenonT(60)
<1> USE DEF IInv
<1>1. ASSUME \A i \in DOMAIN log : i \in DOMAIN log' /\ log'[i] = log[i],
             \A c \in Client : clerk'[c].seqNum = clerk[c].seqNum
      PROVE  AckedCommitted'
    <2> SUFFICES ASSUME NEW c \in Client, NEW seq \in 1..(clerk'[c].seqNum - 1)
                 PROVE  \E i \in DOMAIN log' : log'[i].ClientID = c /\ log'[i].SeqNum = seq
        BY ZenonT(60) DEF AckedCommitted
    <2>1. seq \in 1..(clerk[c].seqNum - 1)
        BY ZenonT(60), <1>1
    <2>2. PICK i \in DOMAIN log : log[i].ClientID = c /\ log[i].SeqNum = seq
        BY ZenonT(60), <2>1 DEF AckedCommitted
    <2>3. i \in DOMAIN log' /\ log'[i].ClientID = c /\ log'[i].SeqNum = seq
        BY ZenonT(60), <1>1, <2>2
    <2> QED BY ZenonT(60), <2>3
<1>2. CASE Inner
    BY ZenonT(60), <1>1, <1>2 DEF Inner
<1>3. CASE Commit
    BY ZenonT(60), <1>1, <1>3, CommitIs
<1>4. ASSUME NEW c \in Client, RequestSends(c) PROVE AckedCommitted'
    BY ZenonT(60), <1>1, <1>4, SendsIs
<1>5. ASSUME NEW c \in Client, RequestFails(c) PROVE AckedCommitted'
    BY ZenonT(60), <1>1, <1>5, FailsIs
<1>6. ASSUME NEW c \in Client, NEW args \in Request, RequestBegins(c, args) PROVE AckedCommitted'
    BY ZenonT(60), <1>1, <1>6, BeginsIs
<1>7. ASSUME NEW call \in calls, RequestReturns(call) PROVE AckedCommitted'
    <2> DEFINE c == call.op.ClientID
    <2>1. log' = log /\ call.stage = "answered" /\ call.live /\ \A d \in Client : d # c => clerk'[d] = clerk[d]
        BY ZenonT(60), <1>7, ReturnsIs
    <2>2. c \in Client
        BY ZenonT(60), CallFacts
    <2>3. CASE clerk'[c].seqNum = clerk[c].seqNum
        BY ZenonT(60), <1>1, <2>1, <2>3
    <2>4. CASE ~call.WrongLeader /\ clerk'[c].seqNum = clerk[c].seqNum + 1
        <3>1. clerk[c].seqNum \in Nat \ {0}
            BY ZenonT(60), <2>2 DEF Types, Clerk
        <3>2. \E i \in DOMAIN log : log[i].ClientID = c /\ log[i].SeqNum = clerk[c].seqNum
            <4>1. PICK i \in DOMAIN log : sameOp(log[i], call.op)
                BY ZenonT(60), <2>1, <2>4 DEF Answers, Answered
            <4>2. call.op.SeqNum = clerk[c].seqNum
                BY ZenonT(60), <2>1 DEF Clerks, Live
            <4>3. log[i].ClientID = c /\ log[i].SeqNum = clerk[c].seqNum
                BY ZenonT(60), <4>1, <4>2 DEF sameOp
            <4> QED BY ZenonT(60), <4>3
        <3>3. \A seq \in 1..(clerk'[c].seqNum - 1) : seq \in 1..(clerk[c].seqNum - 1) \/ seq = clerk[c].seqNum
            BY ZenonT(60), <2>4, <3>1, SeqUpTo
        <3> SUFFICES ASSUME NEW d \in Client, NEW seq \in 1..(clerk'[d].seqNum - 1)
                     PROVE  \E i \in DOMAIN log' : log'[i].ClientID = d /\ log'[i].SeqNum = seq
            BY ZenonT(60) DEF AckedCommitted
        <3>4. CASE seq \in 1..(clerk[d].seqNum - 1)
            <4>1. \E i \in DOMAIN log : log[i].ClientID = d /\ log[i].SeqNum = seq
                BY ZenonT(60), <3>4 DEF AckedCommitted
            <4> QED BY ZenonT(60), <2>1, <4>1
        <3>5. CASE d = c /\ seq = clerk[c].seqNum
            BY ZenonT(60), <2>1, <3>2, <3>5
        <3>6. d # c => seq \in 1..(clerk[d].seqNum - 1)
            BY ZenonT(60), <2>1
        <3>7. d = c => seq \in 1..(clerk[d].seqNum - 1) \/ seq = clerk[c].seqNum
            BY ZenonT(60), <3>3
        <3> QED BY ZenonT(60), <3>4, <3>5, <3>6, <3>7
    <2> QED BY ZenonT(60), <1>7, <2>3, <2>4, ReturnsIs
<1> QED BY ZenonT(60), <1>2, <1>3, <1>4, <1>5, <1>6, <1>7, InnerSteps

\* A clerk gets the answer of its call, which is fresh.
LEMMA QueriesNext == Counting /\ IInv /\ [Next]_vars => QueriesSeeAcked'
<1> SUFFICES ASSUME Counting, IInv, [Next]_vars PROVE QueriesSeeAcked'
    BY ZenonT(60)
<1> USE DEF IInv
<1>1. ASSUME \A c \in Client : \/ clerk'[c].got = {}
                               \/ clerk'[c].got = clerk[c].got /\ clerk'[c].floor = clerk[c].floor
      PROVE  QueriesSeeAcked'
    BY ZenonT(60), <1>1 DEF QueriesSeeAcked
<1>2. CASE Inner
    BY ZenonT(60), <1>1, <1>2 DEF Inner
<1>3. CASE Commit
    BY ZenonT(60), <1>1, <1>3, CommitIs
<1>4. ASSUME NEW c \in Client, RequestSends(c) PROVE QueriesSeeAcked'
    BY ZenonT(60), <1>1, <1>4, SendsIs
<1>5. ASSUME NEW c \in Client, RequestFails(c) PROVE QueriesSeeAcked'
    BY ZenonT(60), <1>1, <1>5, FailsIs
<1>6. ASSUME NEW c \in Client, NEW args \in Request, RequestBegins(c, args) PROVE QueriesSeeAcked'
    BY ZenonT(60), <1>1, <1>6, BeginsIs
<1>7. ASSUME NEW call \in calls, RequestReturns(call) PROVE QueriesSeeAcked'
    <2> DEFINE c == call.op.ClientID
    <2>1. /\ call.stage = "answered" /\ clerk'[c].floor = clerk[c].floor
          /\ \A d \in Client : d # c => clerk'[d] = clerk[d]
        BY ZenonT(60), <1>7, ReturnsIs
    <2>2. CASE clerk'[c].got = clerk[c].got
        BY ZenonT(60), <1>1, <2>1, <2>2
    <2>3. CASE /\ ~call.WrongLeader
               /\ \A answer \in clerk'[c].got :
                    IsQuery(call.op) /\ answer.want = call.op.args.Num /\ answer.num = call.Config.Num
        <3>1. IsQuery(call.op) => Fresh(call)
            BY ZenonT(60), <2>1, <2>3 DEF Answers, Answered
        <3>2. \A answer \in clerk'[c].got : IF answer.want \in 0..clerk'[c].floor THEN answer.num = answer.want
                                             ELSE answer.num >= clerk'[c].floor
            BY ZenonT(60), <2>1, <2>3, <3>1 DEF Fresh
        <3> QED BY ZenonT(60), <2>1, <3>2 DEF QueriesSeeAcked
    <2> QED BY ZenonT(60), <1>7, <2>2, <2>3, ReturnsIs
<1> QED BY ZenonT(60), <1>2, <1>3, <1>4, <1>5, <1>6, <1>7, InnerSteps
---------------------------------------------------------------------------
(* Answers *)

\* What getWaitCh leaves in the channels,
LEMMA WaitChIs ==
    \A f, i : \A j \in DOMAIN getWaitCh(f, i) :
        (j \in DOMAIN f /\ getWaitCh(f, i)[j] = f[j]) \/ getWaitCh(f, i)[j] = << >>
BY DEF getWaitCh

\* and sendApplied.
LEMMA SendAppliedIs ==
    \A f, i, op : \A j \in DOMAIN sendApplied(f, i, op) :
        (j \in DOMAIN f /\ sendApplied(f, i, op)[j] = f[j]) \/ (j = i /\ sendApplied(f, i, op)[j] = <<op>>)
BY DEF sendApplied

\* What is in a channel stays what was applied there.
LEMMA SentSame ==
    ASSUME NEW s, NEW i, Sent(s, i), \A j \in DOMAIN log : j \in DOMAIN log' /\ log'[j] = log[j],
           sc'[s].waitChan[i] = sc[s].waitChan[i], i <= sc[s].applied => i <= sc'[s].applied
    PROVE  Sent(s, i)'
BY ZenonT(60) DEF Sent

\* applyHandler sends what it applies.
LEMMA SentNext ==
    ASSUME Counting, IInv, [Next]_vars, NEW s \in Server, NEW i \in DOMAIN sc'[s].waitChan
    PROVE  Sent(s, i)'
<1> USE DEF IInv
<1>1. sc[s] \in Memory /\ \A j \in DOMAIN sc[s].waitChan : Sent(s, j)
    BY ZenonT(60) DEF Types, Answers
<1>2. ASSUME sc'[s] = sc[s], \A j \in DOMAIN log : j \in DOMAIN log' /\ log'[j] = log[j] PROVE Sent(s, i)'
    BY ZenonT(60), <1>1, <1>2, SentSame
<1>3. ASSUME log' = log, sc'[s].applied = sc[s].applied, NEW f, sc'[s].waitChan = f,
             \A j \in DOMAIN f : (j \in DOMAIN sc[s].waitChan /\ f[j] = sc[s].waitChan[j]) \/ f[j] = << >>
      PROVE  Sent(s, i)'
    <2>1. CASE sc'[s].waitChan[i] = << >>
        BY ZenonT(60), <2>1 DEF Sent
    <2>2. CASE i \in DOMAIN sc[s].waitChan /\ sc'[s].waitChan[i] = sc[s].waitChan[i]
        BY ZenonT(60), <1>1, <1>3, <2>2, SentSame
    <2> QED BY ZenonT(60), <1>3, <2>1, <2>2
<1>4. ASSUME NEW call \in calls, RequestHandlerWaits(call) PROVE Sent(s, i)'
    <2>1. log' = log /\ (s # call.srv => sc'[s] = sc[s])
        BY ZenonT(60), <1>4, WaitsIs
    <2>2. CASE s = call.srv
        <3> DEFINE f == getWaitCh(sc[s].waitChan, call.index)
        <3>1. sc'[s] = [sc[s] EXCEPT !.waitChan = f]
            BY ZenonT(60), <1>4, <2>2, WaitsIs
        <3>2. \A j \in DOMAIN f : (j \in DOMAIN sc[s].waitChan /\ f[j] = sc[s].waitChan[j]) \/ f[j] = << >>
            BY ZenonT(60), WaitChIs
        <3> HIDE DEF f
        <3>3. sc'[s].waitChan = f /\ sc'[s].applied = sc[s].applied
            BY ZenonT(60), <1>1, <3>1 DEF Memory
        <3> QED BY ZenonT(60), <1>3, <2>1, <3>2, <3>3
    <2> QED BY ZenonT(60), <1>2, <2>1, <2>2
<1>5. ASSUME NEW call \in calls, RequestHandlerTimesOut(call) PROVE Sent(s, i)'
    <2>1. log' = log /\ (s # call.srv => sc'[s] = sc[s])
        BY ZenonT(60), <1>5, TimesOutIs
    <2>2. CASE s = call.srv
        <3>1. sc'[s] = [sc[s] EXCEPT !.closing = sc[s].closing \cup {call.index}]
            BY ZenonT(60), <1>5, <2>2, TimesOutIs
        <3>2. sc'[s].waitChan = sc[s].waitChan /\ sc'[s].applied = sc[s].applied
            BY ZenonT(60), <1>1, <3>1 DEF Memory
        <3> QED BY ZenonT(60), <1>3, <2>1, <3>2
    <2> QED BY ZenonT(60), <1>2, <2>1, <2>2
<1>6. ASSUME NEW call \in calls, RequestHandlerReceives(call) PROVE Sent(s, i)'
    <2>1. log' = log /\ (s # call.srv => sc'[s] = sc[s])
        BY ZenonT(60), <1>6, ReceivesIs
    <2>2. CASE s = call.srv
        <3> DEFINE f == [sc[s].waitChan EXCEPT ![call.index] = << >>]
        <3>1. sc'[s] = [sc[s] EXCEPT !.closing = sc[s].closing \cup {call.index}, !.waitChan = f]
            BY ZenonT(60), <1>6, <2>2, ReceivesIs
        <3>2. \A j \in DOMAIN f : (j \in DOMAIN sc[s].waitChan /\ f[j] = sc[s].waitChan[j]) \/ f[j] = << >>
            BY ZenonT(60)
        <3> HIDE DEF f
        <3>3. sc'[s].waitChan = f /\ sc'[s].applied = sc[s].applied
            BY ZenonT(60), <1>1, <3>1 DEF Memory
        <3> QED BY ZenonT(60), <1>3, <2>1, <3>2, <3>3
    <2> QED BY ZenonT(60), <1>2, <2>1, <2>2
<1>7. ASSUME NEW t \in Server, NEW index \in sc[t].closing, closeWaitCh(t, index) PROVE Sent(s, i)'
    <2>1. log' = log /\ (s # t => sc'[s] = sc[s])
        BY ZenonT(60), <1>7, CloseIs
    <2>2. CASE s = t
        <3> DEFINE f == [j \in DOMAIN sc[s].waitChan \ {index} |-> sc[s].waitChan[j]]
        <3>1. sc'[s] = [sc[s] EXCEPT !.closing = sc[s].closing \ {index}, !.waitChan = f]
            BY ZenonT(60), <1>7, <2>2, CloseIs
        <3>2. \A j \in DOMAIN f : (j \in DOMAIN sc[s].waitChan /\ f[j] = sc[s].waitChan[j]) \/ f[j] = << >>
            BY ZenonT(60)
        <3> HIDE DEF f
        <3>3. sc'[s].waitChan = f /\ sc'[s].applied = sc[s].applied
            BY ZenonT(60), <1>1, <3>1 DEF Memory
        <3> QED BY ZenonT(60), <1>3, <2>1, <3>2, <3>3
    <2> QED BY ZenonT(60), <1>2, <2>1, <2>2
<1>8. ASSUME NEW t \in Server, applyHandler(t) PROVE Sent(s, i)'
    <2>1. log' = log /\ (s # t => sc'[s] = sc[s])
        BY ZenonT(60), <1>8, ApplyIs
    <2>2. CASE s = t
        <3> DEFINE index == sc[s].applied + 1
                   f == sendApplied(sc[s].waitChan, index, log[index])
        <3>1. sc'[s].applied = index /\ index \in DOMAIN log /\ sc'[s].waitChan = f
            BY ZenonT(60), <1>8, <2>2, ApplyIs
        <3>2. (i \in DOMAIN sc[s].waitChan /\ f[i] = sc[s].waitChan[i]) \/ (i = index /\ f[i] = <<log[index]>>)
            <4>1. i \in DOMAIN f
                BY ZenonT(60), <3>1
            <4> HIDE DEF index
            <4>2. \A j \in DOMAIN f : (j \in DOMAIN sc[s].waitChan /\ f[j] = sc[s].waitChan[j]) \/ (j = index /\ f[j] = <<log[index]>>)
                BY SendAppliedIs
            <4> HIDE DEF f
            <4> QED BY ZenonT(60), <4>1, <4>2
        <3>3. index <= index /\ (i \in DOMAIN sc[s].waitChan /\ i <= sc[s].applied => i <= index)
            <4>1. sc[s].applied \in Nat /\ (i \in DOMAIN sc[s].waitChan => i \in Index)
                BY ZenonT(60), <1>1, ChannelType DEF Memory
            <4> HIDE DEF f
            <4> QED BY <4>1 DEF Index
        <3> HIDE DEF f, index
        <3>4. CASE i \in DOMAIN sc[s].waitChan /\ f[i] = sc[s].waitChan[i]
            BY ZenonT(60), <1>1, <2>1, <3>1, <3>3, <3>4, SentSame
        <3>5. CASE i = index /\ f[i] = <<log[index]>>
            BY ZenonT(60), <2>1, <3>1, <3>3, <3>5 DEF Sent
        <3> QED BY ZenonT(60), <3>2, <3>4, <3>5
    <2> QED BY ZenonT(60), <1>2, <2>1, <2>2
<1>9. ASSUME NEW t \in Server, Restart(t) PROVE Sent(s, i)'
    <2>1. s # t
        BY ZenonT(60), <1>9, RestartIs, StartServerType
    <2> QED BY ZenonT(60), <1>2, <1>9, <2>1, RestartIs
<1>10. CASE Commit
    BY ZenonT(60), <1>2, <1>10, CommitIs
<1>11. ASSUME log' = log, sc' = sc PROVE Sent(s, i)'
    BY ZenonT(60), <1>2, <1>11
<1>12. ASSUME NEW call \in calls, RequestReturns(call) \/ RequestHandlerRefuses(call) PROVE Sent(s, i)'
    BY ZenonT(60), <1>11, <1>12 DEF RequestReturns, RequestHandlerRefuses
<1>13. ASSUME NEW call \in calls, NEW index \in Nat, RequestHandlerStarts(call, index) PROVE Sent(s, i)'
    BY ZenonT(60), <1>11, <1>13 DEF RequestHandlerStarts
<1>14. ASSUME NEW c \in Client, RequestSends(c) \/ RequestFails(c) \/ \E args \in Request : RequestBegins(c, args)
       PROVE  Sent(s, i)'
    BY ZenonT(60), <1>11, <1>14 DEF RequestSends, RequestFails, RequestBegins
<1>15. CASE UNCHANGED vars
    BY ZenonT(60), <1>11, <1>15 DEF vars
<1> QED BY ZenonT(60), <1>4, <1>5, <1>6, <1>7, <1>8, <1>9, <1>10, <1>12, <1>13, <1>14, <1>15 DEF Next, StepNext

\* What getConfig returns when the server knows of the clerk's floor.
LEMMA FreshNum ==
    \A want \in Nat \cup {-1} : \A num, last, floor, total \in Nat :
        /\ floor <= last /\ last <= total
        /\ (want \in 0..last /\ num = want) \/ (want \notin 0..last /\ num = last)
        => num <= total /\ IF want \in 0..floor THEN num = want ELSE num >= floor
OBVIOUS

\* An answer stays right while its clerk waits for it.
LEMMA AnsweredSame ==
    ASSUME Counting, Types, NEW q \in calls, Answered(q),
           \A i \in DOMAIN log : i \in DOMAIN log' /\ log'[i] = log[i],
           made(log', Len(log')) \in Nat, made(log, Len(log)) <= made(log', Len(log')),
           clerk'[q.op.ClientID].floor = clerk[q.op.ClientID].floor
    PROVE  Answered(q)'
<1>1. q.Config.Num \in Nat /\ made(log, Len(log)) \in Nat
    BY ZenonT(60), CallFacts, LogFacts
<1>2. Fresh(q) => Fresh(q)'
    BY ZenonT(60), <1>1, Bounds DEF Fresh
<1>3. (\E i \in DOMAIN log : sameOp(log[i], q.op)) => (\E i \in DOMAIN log' : sameOp(log'[i], q.op))
    BY ZenonT(60)
<1> QED BY ZenonT(60), <1>2, <1>3 DEF Answered

\* A handler receives what was applied at its index, and its server has then
\* all the configurations that the clerk may have heard of.
LEMMA ReceivesFresh ==
    ASSUME Counting, IInv, NEW call \in calls, RequestHandlerReceives(call), NEW r,
           r.op = call.op, call.live, sameOp(sc[call.srv].waitChan[call.index][1], call.op),
           IsQuery(call.op) => r.Config = getConfig(sc[call.srv].configs, call.op.args.Num)
    PROVE  (\E i \in DOMAIN log : sameOp(log[i], call.op)) /\ (IsQuery(call.op) => Fresh(r))
<1> USE DEF IInv
<1> DEFINE s == call.srv
           c == call.op.ClientID
           n == call.index
           applied == sc[s].applied
<1>1. s \in Server /\ c \in Client /\ call.op \in Op /\ n \in DOMAIN sc[s].waitChan /\ sc[s].waitChan[n] # << >>
    BY ZenonT(60), CallFacts, ReceivesIs
<1>2. n \in DOMAIN log /\ n <= applied /\ sc[s].waitChan[n] = <<log[n]>>
    BY ZenonT(60), <1>1 DEF Answers, Sent
<1>3. sc[s].waitChan[n][1] = log[n]
    BY <1>2
<1>4. sameOp(log[n], call.op)
    BY ZenonT(60), <1>3
<1>5. log[n].ClientID = c /\ log[n].SeqNum = clerk[c].seqNum
    BY ZenonT(60), <1>4 DEF Clerks, Live, sameOp
<1>6. made(log, n) >= clerk[c].floor /\ clerk[c].floor \in Nat
    BY ZenonT(60), <1>1, <1>2, <1>5 DEF Told, Types, Clerk
<1>7. /\ applied \in Nat /\ applied <= Len(log) /\ Len(log) \in Nat /\ DOMAIN log = 1..Len(log) /\ log \in Seq(Op)
      /\ made(log, applied) \in Nat /\ made(log, applied) <= made(log, Len(log)) /\ made(log, Len(log)) \in Nat
      /\ sc[s].configs \in Seq(Config) /\ Len(sc[s].configs) = made(log, applied) + 1 /\ Len(sc[s].configs) >= 1
      /\ \A k \in DOMAIN sc[s].configs : sc[s].configs[k].Num = k - 1
    BY ZenonT(60), <1>1, ConfigsFacts
<1>8. n \in 0..applied /\ applied \in 0..Len(log)
    <2> HIDE DEF n, applied
    <2> QED BY <1>2, <1>7
<1>9. made(log, n) \in Nat /\ made(log, n) <= made(log, applied)
    BY ZenonT(60), <1>2, <1>7, <1>8, LogFacts DEF Counting
<1>10. clerk[c].floor <= made(log, applied)
    <2> HIDE DEF c, n, applied
    <2> QED BY SMTT(40), <1>6, <1>7, <1>9
<1>11. ASSUME IsQuery(call.op) PROVE Fresh(r)
    <2> DEFINE want == call.op.args.Num
               config == getConfig(sc[s].configs, want)
               last == Len(sc[s].configs) - 1
    <2>1. want \in Nat \cup {-1}
        BY ZenonT(60), <1>1, <1>11, OpFacts
    <2>2. /\ config \in Config
          /\ (want \in 0..last /\ config.Num = want) \/ (want \notin 0..last /\ config.Num = last)
        BY ZenonT(60), <1>7, <2>1, GetConfigIs
    <2>3. last = made(log, applied)
        <3> HIDE DEF s, applied
        <3> QED BY <1>7
    <2>4. r.Config = config /\ config.Num \in Nat
        BY ZenonT(60), <1>11, <2>2 DEF Config
    <2> HIDE DEF last, config
    <2>5. /\ config.Num <= made(log, Len(log))
          /\ IF want \in 0..clerk[c].floor THEN config.Num = want ELSE config.Num >= clerk[c].floor
        <3> DEFINE floor == clerk[c].floor
                   total == made(log, Len(log))
                   num == config.Num
        <3>1. num \in Nat /\ last \in Nat /\ floor \in Nat /\ total \in Nat /\ floor <= last /\ last <= total
            BY ZenonT(60), <1>6, <1>7, <1>10, <2>3, <2>4
        <3> HIDE DEF floor, total, num, want
        <3>2. (want \in 0..last /\ num = want) \/ (want \notin 0..last /\ num = last)
            BY ZenonT(60), <2>2 DEF num
        <3>3. num <= total /\ IF want \in 0..floor THEN num = want ELSE num >= floor
            BY ZenonT(60), <2>1, <3>1, <3>2, FreshNum
        <3> QED BY ZenonT(60), <3>3 DEF floor, total, num
    <2> QED BY ZenonT(60), <2>4, <2>5 DEF Fresh
<1> QED BY ZenonT(60), <1>2, <1>4, <1>11

\* What handlers answer is right.
LEMMA AnsweredNext ==
    ASSUME Counting, IInv, [Next]_vars, NEW q \in calls'
    PROVE  Answered(q)'
<1> USE DEF IInv
<1>1. \A call \in calls : Answered(call) /\ Live(call) /\ Current(call.op)
    BY ZenonT(60) DEF Answers, Clerks, Ops
<1>2. ASSUME UNCHANGED <<log, clerk>>, NEW call \in calls, Answered(call) PROVE Answered(call)'
    BY ZenonT(60), <1>2 DEF Answered, Fresh
<1>3. ASSUME UNCHANGED <<log, clerk>>, NEW call \in calls, NEW R, Replaces(call, R), \A r \in R : Answered(r)'
      PROVE  Answered(q)'
    BY ZenonT(60), <1>1, <1>2, <1>3 DEF Replaces
<1>4. ASSUME UNCHANGED <<log, clerk>>, calls' \subseteq calls PROVE Answered(q)'
    BY ZenonT(60), <1>1, <1>2, <1>4
<1>5. ASSUME NEW r, r.stage # "answered" \/ (r.live /\ r.WrongLeader) PROVE Answered(r)'
    BY ZenonT(60), <1>5 DEF Answered
<1>6. ASSUME NEW call \in calls, RequestHandlerRefuses(call) PROVE Answered(q)'
    BY ZenonT(60), <1>3, <1>5, <1>6, RefusesIs
<1>7. ASSUME NEW call \in calls, NEW index \in Nat, RequestHandlerStarts(call, index) PROVE Answered(q)'
    <2>1. PICK R : Replaces(call, R) /\ \A r \in R : r.stage = "started"
        BY ZenonT(60), <1>7, StartsIs
    <2> QED BY ZenonT(60), <1>3, <1>5, <1>7, <2>1, StartsIs
<1>8. ASSUME NEW call \in calls, RequestHandlerWaits(call) PROVE Answered(q)'
    <2>1. PICK r : Replaces(call, {r}) /\ r.stage = "waiting"
        BY ZenonT(60), <1>8, WaitsIs
    <2> DEFINE R == {r}
    <2>2. Replaces(call, R) /\ UNCHANGED <<log, clerk>> /\ \A p \in R : p.stage = "waiting"
        BY ZenonT(60), <1>8, <2>1, WaitsIs
    <2> HIDE DEF R
    <2> QED BY ZenonT(60), <1>3, <1>5, <2>2
<1>9. ASSUME NEW call \in calls, RequestHandlerTimesOut(call) PROVE Answered(q)'
    BY ZenonT(60), <1>3, <1>5, <1>9, TimesOutIs
<1>10. ASSUME NEW call \in calls, RequestHandlerReceives(call) PROVE Answered(q)'
    <2> DEFINE waitChan == sc[call.srv].waitChan
    <2>1. UNCHANGED <<log, clerk>>
        BY ZenonT(60), <1>10, ReceivesIs
    <2>2. PICK R : /\ Replaces(call, R)
                   /\ \A r \in R : /\ r.live /\ r.stage = "answered"
                                   /\ ~r.WrongLeader => /\ sameOp(waitChan[call.index][1], call.op)
                                                        /\ IsQuery(call.op) => r.Config = getConfig(sc[call.srv].configs, call.op.args.Num)
        BY ZenonT(60), <1>10, ReceivesIs
    <2>3. ASSUME NEW r \in R PROVE Answered(r)'
        <3>1. r.op = call.op /\ r.live /\ call.live
            BY ZenonT(60), <2>2, <2>3 DEF Replaces
        <3>2. CASE r.WrongLeader
            BY ZenonT(60), <1>5, <3>1, <3>2
        <3>3. CASE ~r.WrongLeader
            <4>1. /\ sameOp(sc[call.srv].waitChan[call.index][1], call.op)
                  /\ IsQuery(call.op) => r.Config = getConfig(sc[call.srv].configs, call.op.args.Num)
                BY ZenonT(60), <2>2, <2>3, <3>3
            <4>2. (\E i \in DOMAIN log : sameOp(log[i], call.op)) /\ (IsQuery(call.op) => Fresh(r))
                BY ZenonT(60), <1>10, <3>1, <4>1, ReceivesFresh
            <4>3. Answered(r)
                BY ZenonT(60), <3>1, <4>2 DEF Answered
            <4> QED BY ZenonT(60), <2>1, <4>3 DEF Answered, Fresh
        <3> QED BY ZenonT(60), <3>2, <3>3
    <2> QED BY ZenonT(60), <1>3, <2>1, <2>2, <2>3
<1>11. ASSUME NEW s \in Server, applyHandler(s) \/ Restart(s) \/ \E index \in sc[s].closing : closeWaitCh(s, index)
       PROVE  Answered(q)'
    <2>1. UNCHANGED <<log, clerk>> /\ calls' \subseteq calls
        BY ZenonT(60), <1>11 DEF applyHandler, Restart, closeWaitCh
    <2> QED BY ZenonT(60), <1>4, <2>1
<1>12. CASE UNCHANGED vars
    BY ZenonT(60), <1>4, <1>12 DEF vars
<1>13. CASE Commit
    <2>1. /\ calls' = calls /\ clerk' = clerk /\ \A i \in DOMAIN log : i \in DOMAIN log' /\ log'[i] = log[i]
          /\ made(log', Len(log')) \in Nat /\ made(log', Len(log')) >= made(log, Len(log))
        BY ZenonT(60), <1>13, CommitIs
    <2>2. made(log, Len(log)) <= made(log', Len(log'))
        BY ZenonT(60), <2>1, LogFacts
    <2> QED BY ZenonT(60), <1>1, <2>1, <2>2, AnsweredSame
<1>14. ASSUME log' = log, q \in calls, clerk'[q.op.ClientID].floor = clerk[q.op.ClientID].floor
       PROVE  Answered(q)'
    BY ZenonT(60), <1>1, <1>14 DEF Answered, Fresh
<1>15. ASSUME NEW c \in Client, RequestSends(c) PROVE Answered(q)'
    <2>1. PICK sent : calls' = calls \cup {sent} /\ sent.stage = "sent"
        BY ZenonT(60), <1>15, SendsIs
    <2>2. log' = log /\ \A d \in Client : clerk'[d].floor = clerk[d].floor
        BY ZenonT(60), <1>15, SendsIs
    <2> QED BY ZenonT(60), <1>5, <1>14, <2>1, <2>2, CallFacts
<1>16. ASSUME NEW c \in Client, RequestFails(c) PROVE Answered(q)'
    <2>1. q \in calls \/ q.stage \in {"started", "waiting"}
        BY ZenonT(60), <1>16, FailsIs
    <2>2. log' = log /\ \A d \in Client : clerk'[d].floor = clerk[d].floor
        BY ZenonT(60), <1>16, FailsIs
    <2> QED BY ZenonT(60), <1>5, <1>14, <2>1, <2>2, CallFacts, Stages
<1>17. ASSUME NEW c \in Client, NEW args \in Request, RequestBegins(c, args) PROVE Answered(q)'
    <2>1. log' = log /\ calls' = calls /\ clerk[c].args = {} /\ \A d \in Client : d # c => clerk'[d] = clerk[d]
        BY ZenonT(60), <1>17, BeginsIs
    <2>2. q \in calls /\ q.op.ClientID \in Client
        BY ZenonT(60), <2>1, CallFacts
    <2>3. CASE q.op.ClientID # c
        BY ZenonT(60), <1>14, <2>1, <2>2, <2>3
    <2>4. CASE q.op.ClientID = c
        <3>1. ~q.live
            BY ZenonT(60), <1>1, <2>1, <2>2, <2>4 DEF Live, Current
        <3>2. q.stage # "answered"
            BY ZenonT(60), <1>1, <2>2, <3>1 DEF Answered
        <3> QED BY ZenonT(60), <1>5, <3>2
    <2> QED BY ZenonT(60), <2>3, <2>4
<1>18. ASSUME NEW call \in calls, RequestReturns(call) PROVE Answered(q)'
    <2>1. log' = log /\ calls' = calls \ {call} /\ \A d \in Client : clerk'[d].floor = clerk[d].floor
        BY ZenonT(60), <1>18, ReturnsIs
    <2>2. q \in calls
        BY ZenonT(60), <2>1
    <2> QED BY ZenonT(60), <1>14, <2>1, <2>2, CallFacts
<1> QED BY ZenonT(60), <1>6, <1>7, <1>8, <1>9, <1>10, <1>11, <1>12, <1>13, <1>15, <1>16, <1>17, <1>18 DEF Next, StepNext

\* Channels and answers.
LEMMA AnswersNext == Counting /\ IInv /\ [Next]_vars => Answers'
BY ZenonT(60), SentNext, AnsweredNext DEF Answers
---------------------------------------------------------------------------
(* The invariant *)

\* The variables keep their types.
LEMMA TypesNext == Counting /\ IInv /\ [Next]_vars => Types'
<1> SUFFICES ASSUME Counting, IInv, [Next]_vars PROVE Types'
    BY ZenonT(60)
<1> USE DEF IInv
<1>1. ASSUME NEW call \in calls,
             RequestReturns(call) \/ RequestHandlerRefuses(call) \/ RequestHandlerWaits(call)
             \/ RequestHandlerTimesOut(call) \/ RequestHandlerReceives(call)
             \/ \E index \in Nat : RequestHandlerStarts(call, index)
      PROVE  Types'
    BY ZenonT(60), <1>1, ReturnsIs, RefusesIs, WaitsIs, TimesOutIs, ReceivesIs, StartsIs
<1>2. ASSUME NEW c \in Client, RequestSends(c) \/ RequestFails(c) \/ \E args \in Request : RequestBegins(c, args)
      PROVE  Types'
    BY ZenonT(60), <1>2, SendsIs, FailsIs, BeginsIs
<1>3. ASSUME NEW s \in Server, applyHandler(s) \/ Restart(s) \/ \E index \in sc[s].closing : closeWaitCh(s, index)
      PROVE  Types'
    BY ZenonT(60), <1>3, ApplyIs, RestartIs, CloseIs
<1>4. CASE Commit
    BY ZenonT(60), <1>4, CommitIs
<1>5. CASE UNCHANGED vars
    BY ZenonT(60), <1>5 DEF vars, Types
<1> QED BY ZenonT(60), <1>1, <1>2, <1>3, <1>4, <1>5 DEF Next, StepNext

\* What Init sets.
LEMMA InitFacts ==
    ASSUME Init
    PROVE  /\ Types /\ log = << >> /\ DOMAIN log = {} /\ Len(log) = 0 /\ log \in Seq(Op)
           /\ calls = {} /\ pending = {} /\ acked = 0
           /\ \A s \in Server : sc[s] = StartServer
           /\ \A c \in Client : clerk[c].seqNum = 1 /\ clerk[c].floor = 0 /\ clerk[c].got = {}
<1>1. /\ log = << >> /\ pending = {} /\ calls = {} /\ acked = 0
      /\ sc = [s \in Server |-> StartServer] /\ clerk = [c \in Client |-> MakeClerk]
    BY ZenonT(60) DEF Init
<1>2. log \in Seq(Op) /\ DOMAIN log = {} /\ Len(log) = 0 /\ acked \in Nat
    BY <1>1
<1>3. MakeClerk \in Clerk /\ MakeClerk.seqNum = 1 /\ MakeClerk.floor = 0 /\ MakeClerk.got = {}
    BY NAssumption DEF MakeClerk, Clerk, Server
<1>4. sc \in [Server -> Memory] /\ \A s \in Server : sc[s] = StartServer
    BY ZenonT(60), <1>1, StartServerType
<1>5. /\ clerk \in [Client -> Clerk]
      /\ \A c \in Client : clerk[c].seqNum = 1 /\ clerk[c].floor = 0 /\ clerk[c].got = {}
    BY ZenonT(60), <1>1, <1>3
<1>6. Types
    BY ZenonT(60), <1>1, <1>2, <1>4, <1>5 DEF Types
<1> QED BY ZenonT(60), <1>1, <1>2, <1>4, <1>5, <1>6

\* A server that has applied nothing.
LEMMA StartServerIs ==
    /\ StartServer.configs = <<EmptyConfig>> /\ Len(StartServer.configs) = 1 /\ DOMAIN StartServer.configs = {1}
    /\ StartServer.configs[1] = EmptyConfig /\ EmptyConfig.Num = 1 - 1
    /\ StartServer.applied = 0 /\ (\A c \in Client : StartServer.clientSeq[c] = 0)
    /\ DOMAIN StartServer.waitChan = {} /\ StartServer.closing = {} /\ 1..0 = {} /\ 1..(1 - 1) = {}
BY DEF StartServer, EmptyConfig

\* The invariant holds at first.
LEMMA InitIs == Counting /\ Init => IInv
<1> SUFFICES ASSUME Counting, Init PROVE IInv
    BY ZenonT(60)
<1>1. made(log, 0) = 0
    BY ZenonT(60), InitFacts DEF Counting
<1>2. 0 <= 0 /\ 1 = 0 + 1
    OBVIOUS
<1>3. ASSUME NEW s \in Server PROVE ConfigsAt(s)
    BY ZenonT(60), <1>1, <1>2, <1>3, InitFacts, StartServerIs DEF ConfigsAt
<1>4. Configs
    BY ZenonT(60), <1>3, InitFacts DEF Configs, AgreeAt
<1>5. Owned
    BY ZenonT(60), InitFacts, StartServerIs DEF Owned, OwnedAt, Held
<1>6. Answers
    BY ZenonT(60), InitFacts, StartServerIs DEF Answers
<1>7. Clerks
    BY ZenonT(60), InitFacts DEF Clerks, Ops
<1>8. Told
    BY ZenonT(60), <1>1, <1>2, InitFacts DEF Told
<1>9. AckedCommitted /\ QueriesSeeAcked
    <2>1. \A c \in Client : 1..(clerk[c].seqNum - 1) = {}
        BY ZenonT(60), InitFacts, StartServerIs
    <2> QED BY ZenonT(60), <2>1, InitFacts DEF AckedCommitted, QueriesSeeAcked
<1> QED BY ZenonT(60), <1>4, <1>5, <1>6, <1>7, <1>8, <1>9, InitFacts DEF IInv

\* Every step keeps it.
LEMMA Inductive == Counting /\ IInv /\ [Next]_vars => IInv'
<1> SUFFICES ASSUME Counting, IInv, [Next]_vars PROVE IInv'
    BY ZenonT(60)
<1>1. Types' /\ Configs' /\ Owned'
    BY ZenonT(60), TypesNext, ConfigsNext, OwnedNext, SortingHolds
<1>2. Answers' /\ Clerks' /\ Told'
    BY ZenonT(60), AnswersNext, ClerksNext, ToldNext
<1>3. AckedCommitted' /\ QueriesSeeAcked'
    BY ZenonT(60), AckedNext, QueriesNext
<1> QED BY ZenonT(60), <1>1, <1>2, <1>3 DEF IInv

\* Numbers and ranges.
LEMMA NumbersAre == 1 \in Int /\ (\A n : \A m \in 0..n : m \in Int) /\ \A a \in Nat : a + 0 = a
OBVIOUS

\* The invariant has the types.
LEMMA InvType == Counting /\ IInv => TypeOK
<1> SUFFICES ASSUME Counting, IInv PROVE TypeOK
    BY ZenonT(60)
<1> USE DEF IInv
<1>1. log \in Seq(Op) /\ pending \subseteq [index : Nat \ {0}, op : Op] /\ acked \in Nat
    BY ZenonT(60) DEF Types, Index
<1>2. calls \subseteq [srv : Server, live : BOOLEAN, stage : {"sent", "started", "waiting", "answered"},
                       index : Nat, op : Op, WrongLeader : BOOLEAN, Config : Config]
    BY ZenonT(60) DEF Types, Call
<1>3. \A c \in Client : /\ clerk[c].seqNum \in Nat \ {0} /\ clerk[c].args \subseteq Request
                        /\ clerk[c].srv \in Server /\ clerk[c].calling \in BOOLEAN /\ clerk[c].floor \in Nat
    BY ZenonT(60) DEF Types, Clerk
<1>4. ASSUME NEW s \in Server
      PROVE  /\ sc[s].configs \in Seq(Config) /\ sc[s].configs # << >>
             /\ sc[s].clientSeq \in [Client -> Nat]
             /\ \A i \in DOMAIN sc[s].waitChan : i \in Nat \ {0} /\ sc[s].waitChan[i] \in Seq(Op)
             /\ sc[s].closing \subseteq DOMAIN sc[s].waitChan
             /\ sc[s].applied \in 0..Len(log)
    <2>1. sc[s] \in Memory /\ OwnedAt(s)
        BY ZenonT(60) DEF Types, Owned
    <2>2. sc[s].configs \in Seq(Config) /\ sc[s].clientSeq \in [Client -> Nat] /\ sc[s].waitChan \in WaitChans
        BY ZenonT(60), <2>1 DEF Memory
    <2>3. sc[s].applied \in Nat /\ sc[s].applied <= Len(log) /\ Len(log) \in Nat /\ Len(sc[s].configs) >= 1
        BY ZenonT(60), ConfigsFacts
    <2>4. sc[s].configs # << >> /\ sc[s].applied \in 0..Len(log)
        BY <2>2, <2>3
    <2>5. \A i \in DOMAIN sc[s].waitChan : i \in Nat \ {0} /\ sc[s].waitChan[i] \in Seq(Op)
        BY ZenonT(60), <2>2, ChannelType DEF Index
    <2>6. sc[s].closing \subseteq DOMAIN sc[s].waitChan
        BY ZenonT(60), <2>1 DEF OwnedAt
    <2> QED BY ZenonT(60), <2>2, <2>4, <2>5, <2>6
<1> QED BY ZenonT(60), <1>1, <1>2, <1>3, <1>4 DEF TypeOK

\* and its channels have their owners.
LEMMA InvChannels == IInv => ChannelsOwned
<1> DEFINE W(s, i) == {call \in calls : call.srv = s /\ call.index = i /\ call.stage = "waiting"}
<1> SUFFICES ASSUME IInv, NEW s \in Server, NEW i \in DOMAIN sc[s].waitChan
             PROVE  IF i \in sc[s].closing THEN W(s, i) = {} ELSE \E call \in W(s, i) : W(s, i) = {call}
    BY ZenonT(60) DEF ChannelsOwned
<1>1. OwnedAt(s)
    BY ZenonT(60) DEF IInv, Owned
<1>2. W(s, i) \subseteq Held(s) /\ \A call \in W(s, i) : call.index = i
    BY ZenonT(60) DEF Held
<1>3. CASE i \in sc[s].closing
    <2>1. \A call \in Held(s) : call.index # i
        BY ZenonT(60), <1>1, <1>3 DEF OwnedAt
    <2> HIDE DEF W
    <2>2. W(s, i) = {}
        BY ZenonT(60), <1>2, <2>1
    <2> QED BY ZenonT(60), <1>3, <2>2
<1>4. CASE i \notin sc[s].closing
    <2>1. PICK call \in Held(s) : call.index = i /\ call.stage = "waiting"
        BY ZenonT(60), <1>1, <1>4 DEF OwnedAt
    <2>2. call \in W(s, i)
        BY ZenonT(60), <2>1 DEF Held
    <2>3. \A other \in W(s, i) : other = call
        BY ZenonT(60), <1>1, <1>2, <2>1 DEF OwnedAt
    <2> QED BY ZenonT(60), <1>4, <2>2, <2>3
<1> QED BY ZenonT(60), <1>3, <1>4
---------------------------------------------------------------------------
(* Counting, and the theorems *)

LOCAL INSTANCE WellFoundedInduction

\* A set of indexes has a first one: the order of the naturals is well-founded.
LEMMA FirstIndex == \A S \in SUBSET Nat : S # {} => Min(S) \in S
<1> SUFFICES ASSUME NEW S \in SUBSET Nat, S # {} PROVE Min(S) \in S
    BY ZenonT(60)
<1> DEFINE R == {p \in Nat \X Nat : p[1] < p[2]}
<1>1. IsWellFoundedOn(OpToRel(<, Nat), Nat)
    BY Zenon, NatLessThanWellFounded
<1>2. OpToRel(<, Nat) = R
    BY Zenon DEF OpToRel
<1>3. IsWellFoundedOn(R, Nat)
    BY Zenon, <1>1, <1>2
<1> HIDE DEF R
<1>4. PICK m \in S : \A n \in S : ~(<<n, m>> \in R)
    BY Zenon, <1>3, WFMin
<1>5. ASSUME NEW n \in S PROVE m <= n
    <2>1. n < m => <<n, m>> \in R
        BY DEF R
    <2> QED BY SMTT(40), <1>4, <2>1
<1> QED BY ZenonT(60), <1>5 DEF Min

LOCAL F == INSTANCE FiniteSetTheorems

\* The operators of FiniteSets are the ones that the theorems of the library
\* are about.
LEMMA SameOperators == \A S : (F!IsFiniteSet(S) <=> IsFiniteSet(S)) /\ F!Cardinality(S) = Cardinality(S)
<1>1. \A S : F!IsFiniteSet(S) <=> IsFiniteSet(S)
    BY Zenon DEF IsFiniteSet, F!IsFiniteSet
<1>2. \A S : F!Cardinality(S) = Cardinality(S)
    BY Zenon DEF Cardinality, F!Cardinality
<1> QED BY Zenon, <1>1, <1>2

\* Configurations are counted one by one.
LEMMA CountingHolds == Counting
<1>1. \A S : made(S, 0) = Cardinality(making(S, 0)) /\ \A n : made(S, n) = F!Cardinality(making(S, n))
    BY ZenonT(60), SameOperators DEF made
<1>2. ASSUME NEW ops \in Seq(Op), NEW n \in 0..Len(ops)
      PROVE  F!IsFiniteSet(making(ops, n)) /\ made(ops, n) \in Nat
    <2>1. 1 \in Int /\ n \in Int
        BY Zenon, NumbersAre
    <2>2. F!IsFiniteSet(1..n)
        BY Zenon, <2>1, F!FS_Interval
    <2>3. making(ops, n) \in SUBSET (1..n)
        BY Zenon, MakingOne
    <2>4. F!IsFiniteSet(making(ops, n))
        BY Zenon, <2>2, <2>3, F!FS_Subset
    <2> QED BY Zenon, <1>1, <2>4, F!FS_CardinalityType
<1>3. ASSUME NEW ops \in Seq(Op) PROVE made(ops, 0) = 0
    BY Zenon, <1>1, MakingOne, F!FS_EmptySet
<1>4. ASSUME NEW ops \in Seq(Op), NEW n \in 0..Len(ops), NEW m \in 0..n PROVE made(ops, m) <= made(ops, n)
    <2>1. making(ops, m) \in SUBSET making(ops, n)
        BY Zenon, MakingOne
    <2> QED BY Zenon, <1>1, <1>2, <2>1, F!FS_Subset
<1>5. ASSUME NEW ops \in Seq(Op), NEW n \in DOMAIN ops
      PROVE  made(ops, n) = made(ops, n - 1) + IF IsQuery(ops[n]) THEN 0 ELSE 1
    <2>1. n - 1 \in 0..Len(ops) /\ made(ops, n - 1) \in Nat
        BY Zenon, <1>2, MakingOne
    <2>2. made(ops, n - 1) + 0 = made(ops, n - 1)
        BY Zenon, <2>1, NumbersAre
    <2>3. CASE IsQuery(ops[n])
        BY Zenon, <1>1, <2>2, <2>3, MakingOne
    <2>4. CASE ~IsQuery(ops[n])
        <3>1. n \notin making(ops, n - 1) /\ making(ops, n) = making(ops, n - 1) \cup {n}
            BY Zenon, <2>4, MakingOne
        <3>2. F!IsFiniteSet(making(ops, n - 1))
            BY Zenon, <1>2, <2>1
        <3>3. F!Cardinality(making(ops, n - 1) \cup {n}) = F!Cardinality(making(ops, n - 1)) + 1
            BY Zenon, <3>1, <3>2, F!FS_AddElement
        <3> QED BY Zenon, <1>1, <2>4, <3>1, <3>3
    <2> QED BY Zenon, <2>3, <2>4
<1>6. ASSUME NEW ops \in Seq(Op), NEW op \in Op, NEW n \in 0..Len(ops) PROVE made(Append(ops, op), n) = made(ops, n)
    BY Zenon, MakingAppend DEF made
<1> QED BY ZenonT(60), <1>2, <1>3, <1>4, <1>5, <1>6, FirstIndex DEF Counting

\* The invariant holds always.
LEMMA Invariance == Spec => []IInv
<1>1. Init => IInv
    BY ZenonT(60), CountingHolds, InitIs
<1>2. IInv /\ [Next]_vars => IInv'
    BY ZenonT(60), CountingHolds, Inductive
<1> QED BY <1>1, <1>2, PTL DEF Spec

\* The variables have their types at every step of the handlers and of Raft.
THEOREM TypeCorrect == Spec => []TypeOK
<1>1. IInv => TypeOK
    BY ZenonT(60), CountingHolds, InvType
<1> QED BY <1>1, Invariance, PTL

\* Replicas that have applied as much have the same configurations, although
\* rebalance ranges over Go maps and a restarted server applies the log again.
THEOREM ReplicasAgreeHolds == Spec => []ReplicasAgree
<1>1. IInv => ReplicasAgree
    BY ZenonT(60), CountingHolds, AgreePrefix DEF IInv, ReplicasAgree
<1> QED BY <1>1, Invariance, PTL

\* A request that RequestHandler answered OK is in the log: no handler takes
\* another clerk's operation, applied at its index, for its own.
THEOREM AckedCommittedHolds == Spec => []AckedCommitted
<1>1. IInv => AckedCommitted
    BY ZenonT(60) DEF IInv
<1> QED BY <1>1, Invariance, PTL

\* A Query of the latest configuration is never older than one that some clerk
\* was told of before the Query was called, whichever server answers it and
\* however far it has applied the log.
THEOREM QueriesSeeAckedHolds == Spec => []QueriesSeeAcked
<1>1. IInv => QueriesSeeAcked
    BY ZenonT(60) DEF IInv
<1> QED BY <1>1, Invariance, PTL

\* Every wait channel has either one handler waiting on it or one goroutine that
\* will close it: no channel leaks and none is closed twice.
THEOREM ChannelsOwnedHolds == Spec => []ChannelsOwned
<1>1. IInv => ChannelsOwned
    BY ZenonT(60), InvChannels
<1> QED BY <1>1, Invariance, PTL
=================================================================================
