-------------------------------- MODULE ShardKV ---------------------------------
(***************************************************************************)
(* The sharded key/value service, src/shardkv/server.go and client.go:     *)
(* replica groups that serve the shards the latest configuration gives     *)
(* them, pull the shards they gain from the groups that lose them, and     *)
(* delete a shard once its new owner has confirmed that it has it.         *)
(*                                                                         *)
(* Raft is used through what module Raft shows of it: the servers of a     *)
(* group apply one committed log in order.  What a log makes of a server   *)
(* is hist[g], one state per command that had an effect or an answer; a    *)
(* server is the place in hist[g] that it has reached.  Any server may     *)
(* believe itself leader, and a command it starts may be committed at any  *)
(* later time or never.                                                    *)
(*                                                                         *)
(* A key is its first byte.  A configuration is known by its number: the   *)
(* controller never changes one (module ShardConfig).  A wait channel      *)
(* belongs to the index of one command; here a waiting handler is answered *)
(* by a copy of its command or gives up, and which index it was promised   *)
(* is left out.  A call, its handler and what the caller does with the     *)
(* reply are one step: a reply that comes later is ignored when the        *)
(* caller's configuration has moved on, and otherwise does the same.       *)
(*                                                                         *)
(* An operator whose comment starts with "Slip:" is the definition that    *)
(* follows it with a plausible programming error.                          *)
(***************************************************************************)
EXTENDS Integers, Sequences, FiniteSets

CONSTANTS
    NShards,    \* the number of shards (10 in the code)
    Gid,        \* the replica groups, none of them 0
    Replica,    \* the servers of each group
    Client,     \* the clerks
    Key         \* the keys clerks use

ASSUME ShardAssumption == NShards \in Nat \ {0} /\ Key \subseteq Nat
ASSUME GroupAssumption == Gid \subseteq Nat \ {0}

VARIABLES
    configs,    \* the controller's history: configs[n + 1] has number n
    hist,       \* hist[g]: the states g's log leads through, with their commands
    pending,    \* pending[g]: commands started in g and not committed (Raft)
    applied,    \* applied[g][r]: the place of server r in hist[g]
    copied,     \* copied[g][r]: what the two background loops have copied
    calls,      \* ShardsRequest and ShardsConfirm calls under way
    clerk       \* clerk[c]: a clerk's memory

vars == <<configs, hist, pending, applied, copied, calls, clerk>>

Shard == 0..(NShards - 1)

key2shard(key) == key % NShards

Config == [Num : Nat, Shards : [Shard -> Gid \cup {0}], Groups : SUBSET Gid]

EmptyConfig == [Num |-> 0, Shards |-> [i \in Shard |-> 0], Groups |-> {}]

latest == Len(configs) - 1

Owner(n, i) == configs[n + 1].Shards[i]

Groups(n) == configs[n + 1].Groups

\* StartServer, on an empty memory.
StartServer ==
    [currentState |-> [k \in Key |-> << >>],
     clientSeq    |-> [c \in Client |-> 0],
     shardsState  |-> [i \in Shard |-> "NO_SERVING"],
     config       |-> 0,
     prevConfig   |-> 0]

\* What server r of group g has in memory, and what the whole log makes of it.
Kv(g, r) == hist[g][applied[g][r]].kv

Frontier(g) == hist[g][Len(hist[g])].kv

\* MakeClerk: seqNum starts at 1.
MakeClerk == [seqNum |-> 1, config |-> latest, op |-> {}, at |-> {}, got |-> {}]

Init ==
    /\ configs = <<EmptyConfig>>
    /\ hist = [g \in Gid |-> <<[kv |-> StartServer, cmd |-> {}, value |-> << >>]>>]
    /\ pending = [g \in Gid |-> {}]
    /\ applied = [g \in Gid |-> [r \in Replica |-> 1]]
    /\ copied = [g \in Gid |-> [r \in Replica |-> [pull |-> {}, confirm |-> {}]]]
    /\ calls = {}
    /\ clerk = [c \in Client |-> MakeClerk]
---------------------------------------------------------------------------
(* applyHandler: what a committed command does to a server's state *)

applyToStateMachine(kv, cmd) ==
    LET tag == <<cmd.ClientID, cmd.SeqNum>>
    IN  [kv EXCEPT !.clientSeq[cmd.ClientID] = cmd.SeqNum,
                   !.currentState[cmd.Key] = CASE cmd.Optype = "Put"    -> <<tag>>
                                               [] cmd.Optype = "Append" -> Append(@, tag)
                                               [] cmd.Optype = "Get"    -> @]

isServing(kv, cmd) == kv.shardsState[key2shard(cmd.Key)] = "SERVING"

\* KVOperation: a command of a shard that is not served is dropped, a command
\* of the clerk that was applied before is not applied again.
applyKV(kv, cmd) ==
    IF isServing(kv, cmd) /\ kv.clientSeq[cmd.ClientID] < cmd.SeqNum
    THEN applyToStateMachine(kv, cmd) ELSE kv

\* Slip: a shard is served as soon as the configuration assigns it.
servedAtOnce(g, prev, new) ==
    [i \in Shard |->
        CASE Owner(new, i) = g                       -> "SERVING"
          [] Owner(prev, i) = g /\ Owner(new, i) # g -> "BEPULLED"
          [] OTHER                                   -> "NO_SERVING"]

\* updateShardsState after the first configuration: nobody has the shards yet.
firstShardsState(shardsState, g, new) ==
    [i \in Shard |-> IF Owner(new, i) = g THEN "SERVING" ELSE shardsState[i]]

\* updateShardsState
nextShardsState(g, prev, new) ==
    [i \in Shard |->
        CASE Owner(prev, i) = g /\ Owner(new, i) = g -> "SERVING"
          [] Owner(prev, i) # g /\ Owner(new, i) = g -> "PULLING"
          [] Owner(prev, i) = g /\ Owner(new, i) # g -> "BEPULLED"
          [] OTHER                                   -> "NO_SERVING"]

\* ConfigOperation
applyConfig(kv, cmd, g) ==
    IF kv.config = 0 \/ cmd.Num = kv.config + 1
    THEN [kv EXCEPT !.prevConfig = kv.config,
                    !.config = cmd.Num,
                    !.shardsState = IF kv.config = 0 THEN firstShardsState(@, g, cmd.Num)
                                    ELSE nextShardsState(g, kv.config, cmd.Num)]
    ELSE kv

mergeShardData(currentState, shardIndex, shardData) ==
    [k \in Key |-> IF key2shard(k) = shardIndex /\ shardData[k] # << >> THEN shardData[k] ELSE currentState[k]]

\* Slip: the clerks' sessions stay where they are.
keepClientSeq(clientSeq, clientSeqNum) == clientSeq

mergeClientSeqNum(clientSeq, clientSeqNum) ==
    [c \in Client |-> IF clientSeq[c] < clientSeqNum[c] THEN clientSeqNum[c] ELSE clientSeq[c]]

\* Slip: a shard that has arrived is taken again.
mergeAgain(kv, cmd) ==
    IF cmd.ConfigNum = kv.config
    THEN [kv EXCEPT !.currentState = mergeShardData(@, cmd.ShardIndex, cmd.ShardData),
                    !.clientSeq = mergeClientSeqNum(@, cmd.ClientSeqNum),
                    !.shardsState[cmd.ShardIndex] = "SERVING"]
    ELSE kv

\* ShardRequestOperation
applyShardRequest(kv, cmd) ==
    IF cmd.ConfigNum = kv.config /\ kv.shardsState[cmd.ShardIndex] = "PULLING"
    THEN [kv EXCEPT !.currentState = mergeShardData(@, cmd.ShardIndex, cmd.ShardData),
                    !.clientSeq = mergeClientSeqNum(@, cmd.ClientSeqNum),
                    !.shardsState[cmd.ShardIndex] = "SERVING"]
    ELSE kv

\* ShardConfirmOperation: the shard's data is deleted.
applyShardConfirm(kv, cmd) ==
    IF cmd.ConfigNum = kv.config /\ kv.shardsState[cmd.ShardIndex] = "BEPULLED"
    THEN [kv EXCEPT !.shardsState[cmd.ShardIndex] = "NO_SERVING",
                    !.currentState = [k \in Key |-> IF key2shard(k) = cmd.ShardIndex THEN << >> ELSE @[k]]]
    ELSE kv

applyCommand(kv, cmd, g) ==
    CASE cmd.type = "KV"           -> applyKV(kv, cmd)
      [] cmd.type = "Config"       -> applyConfig(kv, cmd, g)
      [] cmd.type = "ShardRequest" -> applyShardRequest(kv, cmd)
      [] cmd.type = "ShardConfirm" -> applyShardConfirm(kv, cmd)

\* What is sent to a waiting handler: a Get's value.
answerOf(kv, cmd) == IF cmd.type = "KV" THEN kv.currentState[cmd.Key] ELSE << >>

\* A KV command that is not dropped is answered, even when it changes nothing.
leavesTrace(kv, cmd, g) == (cmd.type = "KV" /\ isServing(kv, cmd)) \/ applyCommand(kv, cmd, g) # kv

\* Raft commits a command of group g.
Commit(g, cmd) ==
    LET kv == Frontier(g)
        entry == [kv |-> applyCommand(kv, cmd, g), cmd |-> {cmd}, value |-> answerOf(kv, cmd)]
    IN  /\ cmd \in pending[g]
        /\ pending' = [pending EXCEPT ![g] = @ \ {cmd}]
        /\ hist' = IF leavesTrace(kv, cmd, g) THEN [hist EXCEPT ![g] = Append(@, entry)] ELSE hist
        /\ UNCHANGED <<configs, applied, copied, calls, clerk>>

\* A server applies its group's next command.  A handler that waits there for
\* this command answers its clerk, if this copy is the one at its index.
applyHandler(g, r) ==
    LET entry == hist[g][applied[g][r] + 1]
        isWaiting(c) == /\ clerk[c].at = {[gid |-> g, server |-> r]}
                        /\ \E cmd \in entry.cmd : /\ cmd.type = "KV" /\ cmd.ClientID = c
                                                  /\ cmd.SeqNum = clerk[c].seqNum
        returned(c) == IF \E cmd \in entry.cmd : cmd.Optype = "Get" THEN {entry.value} ELSE {}
    IN  /\ applied[g][r] < Len(hist[g])
        /\ applied' = [applied EXCEPT ![g][r] = @ + 1]
        /\ \/ UNCHANGED clerk
           \/ \E c \in Client :
                /\ isWaiting(c)
                /\ clerk' = [clerk EXCEPT ![c].seqNum = @ + 1, ![c].op = {}, ![c].at = {}, ![c].got = returned(c)]
        /\ UNCHANGED <<configs, hist, pending, copied, calls>>

\* Raft hands a server that is behind the snapshot of another.
installSnapshot(g, r, index) ==
    /\ index > applied[g][r] /\ \E s \in Replica : index <= applied[g][s]
    /\ applied' = [applied EXCEPT ![g][r] = index]
    /\ UNCHANGED <<configs, hist, pending, copied, calls, clerk>>

\* A crash, and StartServer with the snapshot saved at some index: any index,
\* since the size of the Raft state is not modelled.
Restart(g, r, index) ==
    /\ index \in 1..applied[g][r]
    /\ applied' = [applied EXCEPT ![g][r] = index]
    /\ copied' = [copied EXCEPT ![g][r] = [pull |-> {}, confirm |-> {}]]
    /\ calls' = {call \in calls : ~(call.gid = g /\ call.server = r)}
    /\ clerk' = [c \in Client |-> IF clerk[c].at = {[gid |-> g, server |-> r]}
                                  THEN [clerk[c] EXCEPT !.at = {}] ELSE clerk[c]]
    /\ UNCHANGED <<configs, hist, pending>>
---------------------------------------------------------------------------
(* The background loops of a server that believes itself leader *)

\* rf.Start
start(g, cmd) == pending' = [pending EXCEPT ![g] = @ \cup {cmd}]

\* Slip: the shards of the configuration before may still be on their way.
readyAnyway(kv) == TRUE

shardsStateReady(kv) == \A i \in Shard : kv.shardsState[i] \in {"SERVING", "NO_SERVING"}

\* getLastConfig, with the two queries to the controller.
getLastConfig(g, r) ==
    LET kv == Kv(g, r)
    IN  /\ kv.config < latest
        /\ kv.config = 0 \/ shardsStateReady(kv)
        /\ start(g, [type |-> "Config", Num |-> kv.config + 1])
        /\ UNCHANGED <<configs, hist, applied, copied, calls, clerk>>

\* The shards in a state, with the group that a configuration assigns them to;
\* a group without servers is passed over.
shardsAt(kv, state, num) ==
    {item \in [ShardIndex : Shard, target : Gid] :
        /\ kv.shardsState[item.ShardIndex] = state
        /\ item.target = Owner(num, item.ShardIndex) /\ item.target \in Groups(num)}

\* Slip: the shards to pull are looked up in the new configuration.
shardsToPullHere(kv) == shardsAt(kv, "PULLING", kv.config)

\* "need to use prevConfig to locate the shards"
shardsToPull(kv) == shardsAt(kv, "PULLING", kv.prevConfig)

\* The locked part of ShardsRequester: the old owners of the shards to pull.
ShardsRequester(g, r) ==
    /\ copied[g][r].pull = {}
    /\ copied' = [copied EXCEPT ![g][r].pull = shardsToPull(Kv(g, r))]
    /\ UNCHANGED <<configs, hist, pending, applied, calls, clerk>>

\* A call of type name for an item of a list, with the configuration number of
\* this moment: it is read without the lock.
callFor(name, g, r, item) ==
    [type |-> name, gid |-> g, server |-> r, ConfigNum |-> Kv(g, r).config,
     ShardIndex |-> item.ShardIndex, target |-> item.target]

ShardsRequesterCalls(g, r, item) ==
    /\ item \in copied[g][r].pull
    /\ copied' = [copied EXCEPT ![g][r].pull = @ \ {item}]
    /\ calls' = calls \cup {callFor("ShardsRequest", g, r, item)}
    /\ UNCHANGED <<configs, hist, pending, applied, clerk>>

\* The locked part of ShardsConfirm: the new owners of the shards to give away.
ShardsConfirm(g, r) ==
    LET kv == Kv(g, r)
    IN  /\ copied[g][r].confirm = {}
        /\ copied' = [copied EXCEPT ![g][r].confirm = shardsAt(kv, "BEPULLED", kv.config)]
        /\ UNCHANGED <<configs, hist, pending, applied, calls, clerk>>

ShardsConfirmCalls(g, r, item) ==
    /\ item \in copied[g][r].confirm
    /\ copied' = [copied EXCEPT ![g][r].confirm = @ \ {item}]
    /\ calls' = calls \cup {callFor("ShardsConfirm", g, r, item)}
    /\ UNCHANGED <<configs, hist, pending, applied, clerk>>

\* ShardsRequestHandler's answer is OK, also at a server that is not the leader.
handsOut(kv, call) == kv.config = call.ConfigNum /\ kv.shardsState[call.ShardIndex] = "BEPULLED"

\* ShardsRequestHandler at server s of the old owner, and the caller with its
\* reply: the shard's data and all the clerks' sessions go into the caller's log.
ShardsRequestHandler(call, s) ==
    LET kv == Kv(call.target, s)
    IN  /\ call.type = "ShardsRequest"
        /\ handsOut(kv, call) /\ Kv(call.gid, call.server).config = call.ConfigNum
        /\ calls' = calls \ {call}
        /\ start(call.gid, [type |-> "ShardRequest", ConfigNum |-> call.ConfigNum, ShardIndex |-> call.ShardIndex,
                            ShardData |-> [k \in Key |-> IF key2shard(k) = call.ShardIndex
                                                         THEN kv.currentState[k] ELSE << >>],
                            ClientSeqNum |-> kv.clientSeq])
        /\ UNCHANGED <<configs, hist, applied, copied, clerk>>

\* ShardsConfirmHandler's answer is OK.
confirms(kv, call) ==
    \/ kv.config = call.ConfigNum /\ kv.shardsState[call.ShardIndex] = "SERVING"
    \/ kv.config > call.ConfigNum

\* ShardsConfirmHandler at server s of the new owner, and the caller with its
\* reply, which carries the configuration number of s.
ShardsConfirmHandler(call, s) ==
    LET kv == Kv(call.target, s)
    IN  /\ call.type = "ShardsConfirm"
        /\ confirms(kv, call) /\ kv.config >= Kv(call.gid, call.server).config
        /\ calls' = calls \ {call}
        /\ start(call.gid, [type |-> "ShardConfirm", ConfigNum |-> call.ConfigNum, ShardIndex |-> call.ShardIndex])
        /\ UNCHANGED <<configs, hist, applied, copied, clerk>>

\* Every server of the target was tried in vain, or the calls were lost.
CallFails(call) ==
    /\ calls' = calls \ {call}
    /\ UNCHANGED <<configs, hist, pending, applied, copied, clerk>>
---------------------------------------------------------------------------
(* Clerks, and the handlers Get and PutAppend *)

Op == [Key : Key, Optype : {"Get", "Put", "Append"}]

\* Clerk.Get or Clerk.PutAppend is called.
ClerkCalls(c, op) ==
    /\ clerk[c].op = {}
    /\ clerk' = [clerk EXCEPT ![c].op = {op}, ![c].got = {}]
    /\ UNCHANGED <<configs, hist, pending, applied, copied, calls>>

\* Between two rounds over the servers the clerk asks for the latest configuration.
ClerkQueries(c) ==
    /\ clerk[c].op # {} /\ clerk[c].at = {}
    /\ clerk' = [clerk EXCEPT ![c].config = latest]
    /\ UNCHANGED <<configs, hist, pending, applied, copied, calls>>

isWrongGroup(kv, g, i) == Owner(kv.config, i) # g

\* A handler at a server of the group the clerk believes to own the key, up to
\* the wait.  A server that is not the leader, or finds the group wrong, refuses,
\* and nothing changes.
handlerStarts(c, r, op) ==
    LET i == key2shard(op.Key)
        g == Owner(clerk[c].config, i)
    IN  /\ op \in clerk[c].op /\ clerk[c].at = {}
        /\ g \in Groups(clerk[c].config) /\ ~isWrongGroup(Kv(g, r), g, i)
        /\ start(g, [type |-> "KV", ClientID |-> c, SeqNum |-> clerk[c].seqNum,
                     Key |-> op.Key, Optype |-> op.Optype])
        /\ clerk' = [clerk EXCEPT ![c].at = {[gid |-> g, server |-> r]}]
        /\ UNCHANGED <<configs, hist, applied, copied, calls>>

Get(c, r) == \E op \in clerk[c].op : op.Optype = "Get" /\ handlerStarts(c, r, op)

PutAppend(c, r) == \E op \in clerk[c].op : op.Optype # "Get" /\ handlerStarts(c, r, op)

\* The handler finds the group wrong after Start, waits 700 ms in vain or gets
\* another command at its index, or the call fails: the clerk goes on trying.
HandlerGivesUp(c) ==
    /\ clerk[c].at # {}
    /\ clerk' = [clerk EXCEPT ![c].at = {}]
    /\ UNCHANGED <<configs, hist, pending, applied, copied, calls>>

\* The controller makes its next configuration (module ShardConfig).
Reconfigure(config) ==
    /\ config.Num = Len(configs)
    /\ configs' = Append(configs, config)
    /\ UNCHANGED <<hist, pending, applied, copied, calls, clerk>>

\* applyHandler, the calls between groups and their handlers.
ServerNext ==
    \/ \E g \in Gid, r \in Replica :
        \/ applyHandler(g, r)
        \/ \E item \in copied[g][r].pull : ShardsRequesterCalls(g, r, item)
        \/ \E item \in copied[g][r].confirm : ShardsConfirmCalls(g, r, item)
    \/ \E call \in calls, s \in Replica : ShardsRequestHandler(call, s) \/ ShardsConfirmHandler(call, s)

ClerkNext ==
    \E c \in Client : \/ \E op \in Op : ClerkCalls(c, op)
                      \/ ClerkQueries(c)
                      \/ \E r \in Replica : Get(c, r) \/ PutAppend(c, r)
                      \/ HandlerGivesUp(c)

Next ==
    \/ ServerNext
    \/ \E g \in Gid : \E cmd \in pending[g] : Commit(g, cmd)
    \/ \E g \in Gid, r \in Replica : getLastConfig(g, r) \/ ShardsRequester(g, r) \/ ShardsConfirm(g, r)
    \/ \E call \in calls : CallFails(call)
    \/ ClerkNext
    \/ \E g \in Gid, r \in Replica : \E index \in 1..Len(hist[g]) :
        installSnapshot(g, r, index) \/ Restart(g, r, index)
    \/ \E config \in Config : Reconfigure(config)

Spec == Init /\ [][Next]_vars
---------------------------------------------------------------------------
ShardState == {"SERVING", "NO_SERVING", "PULLING", "BEPULLED"}

KvType ==
    [currentState : [Key -> Seq(Client \X Nat)], clientSeq : [Client -> Nat],
     shardsState : [Shard -> ShardState], config : Nat, prevConfig : Nat]

Command ==
    [type : {"KV"}, ClientID : Client, SeqNum : Nat, Key : Key, Optype : {"Get", "Put", "Append"}]
    \cup [type : {"Config"}, Num : Nat]
    \cup [type : {"ShardRequest"}, ConfigNum : Nat, ShardIndex : Shard,
          ShardData : [Key -> Seq(Client \X Nat)], ClientSeqNum : [Client -> Nat]]
    \cup [type : {"ShardConfirm"}, ConfigNum : Nat, ShardIndex : Shard]

Entry == [kv : KvType, cmd : SUBSET Command, value : Seq(Client \X Nat)]

Item == [ShardIndex : Shard, target : Gid]

CopiedType == [Gid -> [Replica -> [pull : SUBSET Item, confirm : SUBSET Item]]]

CallSet ==
    [type : {"ShardsRequest", "ShardsConfirm"}, gid : Gid, server : Replica,
     ConfigNum : Nat, ShardIndex : Shard, target : Gid]

ClerkType ==
    [seqNum : Nat, config : Nat, op : SUBSET Op, at : SUBSET [gid : Gid, server : Replica],
     got : SUBSET Seq(Client \X Nat)]

TypeOK ==
    /\ configs \in Seq(Config) /\ configs # << >>
    /\ hist \in [Gid -> Seq(Entry)]
    /\ pending \in [Gid -> SUBSET Command]
    /\ applied \in [Gid -> [Replica -> Nat]]
    /\ \A g \in Gid : hist[g] # << >> /\ \A r \in Replica : applied[g][r] \in 1..Len(hist[g])
    /\ copied \in CopiedType
    /\ calls \subseteq CallSet
    /\ clerk \in [Client -> ClerkType]
    /\ \A c \in Client : clerk[c].config <= latest

\* No two groups serve a shard at the same time, however far their logs, their
\* servers and the controller are apart: "SERVING: apply KVOperation" holds in
\* one group only (server.go, the states of a shard).
OneOwner ==
    \A g, h \in Gid, i \in Shard :
        (Frontier(g).shardsState[i] = "SERVING" /\ Frontier(h).shardsState[i] = "SERVING") => g = h

settled(kv) == \A i \in Shard : kv.shardsState[i] \notin {"PULLING", "BEPULLED"}

\* A group goes from one configuration to the next, and only when every shard
\* of the one before has arrived or is confirmed: getLastConfig looks at the
\* state of one server, before Start, and applyHandler does not look again.
ConfigWhenReady ==
    [][\A g \in Gid :
        Frontier(g).config' # Frontier(g).config =>
            /\ Frontier(g).config' = Frontier(g).config + 1
            /\ Frontier(g).config = 0 \/ settled(Frontier(g))]_vars

\* Entries that Raft delivers again after an installed snapshot change nothing:
\* ShardRequest and ShardConfirm commands are applied without the test of
\* lastIncludedIndex that guards the others.
ReplayIdle ==
    \A g \in Gid : \A i, j \in DOMAIN hist[g] : i < j =>
        \A cmd \in hist[g][i].cmd :
            cmd.type \in {"ShardRequest", "ShardConfirm"} =>
                applyCommand(hist[g][j].kv, cmd, g) = hist[g][j].kv

\* The comment on ShardsConfirmHandler: "If args.configNum < kv.configNum, reply
\* OK. Because kv must have been receive the shard data before" (server.go:239).
\* What a confirmation deletes is data that another group has taken over.
ConfirmedIsHeld ==
    \A g \in Gid : \A cmd \in pending[g] :
        (/\ cmd.type = "ShardConfirm" /\ cmd.ConfigNum = Frontier(g).config
         /\ Frontier(g).shardsState[cmd.ShardIndex] = "BEPULLED")
        => LET h == Owner(cmd.ConfigNum, cmd.ShardIndex)
           IN  \/ Frontier(h).config > cmd.ConfigNum
               \/ Frontier(h).config = cmd.ConfigNum /\ Frontier(h).shardsState[cmd.ShardIndex] = "SERVING"
---------------------------------------------------------------------------
(* Why a shard has one owner, in a form that every step preserves *)

\* Every other group that had shard i in one of the first n configurations has
\* gone on to a later one.
Handed(i, n, g) ==
    \A k \in 1..n : Owner(k, i) \in Gid \ {g} => Frontier(Owner(k, i)).config > k

\* A state that g's log has led to, be it one that a server is still in.
StateInv(g, kv) ==
    /\ kv.config <= Frontier(g).config /\ kv.config <= latest
    /\ \A i \in Shard :
        /\ kv.config = 0 => kv.shardsState[i] = "NO_SERVING"
        /\ kv.shardsState[i] \in {"SERVING", "PULLING"} <=> Owner(kv.config, i) = g
        /\ kv.shardsState[i] = "SERVING" => Handed(i, kv.config, g)
        /\ kv.shardsState[i] = "BEPULLED" => Handed(i, kv.config - 1, g)
        /\ kv.shardsState[i] \in {"SERVING", "NO_SERVING"} /\ kv.config = Frontier(g).config
              => Frontier(g).shardsState[i] = kv.shardsState[i]

\* A command that g may still commit.
CommandInv(g, cmd) ==
    /\ cmd.type = "Config" =>
        /\ cmd.Num \in 1..latest
        /\ \/ cmd.Num = 1
           \/ \E x \in DOMAIN hist[g] : hist[g][x].kv.config = cmd.Num - 1 /\ shardsStateReady(hist[g][x].kv)
    /\ cmd.type = "ShardRequest" =>
        cmd.ConfigNum <= latest /\ Handed(cmd.ShardIndex, cmd.ConfigNum - 1, g)

\* The inductive invariant of shard ownership: whoever serves a shard, or hands
\* it over, got it when all its earlier owners had left it, as configurations
\* are taken one by one, each when the migration before it is complete.
OwnershipInv ==
    \A g \in Gid : /\ \A x \in DOMAIN hist[g] : StateInv(g, hist[g][x].kv)
                   /\ \A cmd \in pending[g] : CommandInv(g, cmd)
---------------------------------------------------------------------------
(* The service implements KVStore *)

\* Between two owners of a shard, the later configuration has its data.
rank(kv, i) == 2 * kv.config + IF kv.shardsState[i] = "SERVING" THEN 1 ELSE 0

storeOf(k) ==
    LET i == key2shard(k)
        holders == {kv \in {Frontier(g) : g \in Gid} : kv.shardsState[i] \in {"SERVING", "BEPULLED"}}
    IN  IF holders = {} THEN << >>
        ELSE (CHOOSE kv \in holders : \A other \in holders : rank(other, i) <= rank(kv, i)).currentState[k]

\* The values that the copies of a clerk's Get have read.
seenBy(c) ==
    UNION {{hist[g][i].value : i \in {j \in DOMAIN hist[g] :
                \E cmd \in hist[g][j].cmd : /\ cmd.type = "KV" /\ cmd.ClientID = c
                                            /\ cmd.SeqNum = clerk[c].seqNum}} : g \in Gid}

calledBy(c, optypes) == \E op \in clerk[c].op : op.Optype \in optypes

Abstract ==
    INSTANCE KVStore WITH
        store    <- [k \in Key |-> storeOf(k)],
        seqNum   <- [c \in Client |-> clerk[c].seqNum],
        called   <- [c \in Client |-> clerk[c].op],
        executed <- [c \in Client |-> /\ calledBy(c, {"Put", "Append"})
                                      /\ \E g \in Gid : Frontier(g).clientSeq[c] >= clerk[c].seqNum],
        seen     <- [c \in Client |-> IF calledBy(c, {"Get"}) THEN seenBy(c) ELSE {}],
        got      <- [c \in Client |-> clerk[c].got]

\* Across migrations, retries, restarts and stale servers, clerks see one store
\* on which every Put and Append takes effect once between its call and its
\* return, and every Get returns a value its key had in between: the data and
\* the sessions of a shard move together.
Linearizable == Abstract!Spec
=================================================================================
