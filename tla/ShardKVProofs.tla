------------------------------ MODULE ShardKVProofs ------------------------------
(***************************************************************************)
(* Theorems about module ShardKV, for any number of shards, groups,        *)
(* servers, clerks and configurations: no shard is served by two groups,   *)
(* and a group takes configurations one by one, when it is ready.          *)
(***************************************************************************)
EXTENDS ShardKV, TLAPS

\* The number of the next configuration.
LEMMA NextNum == \A k \in Nat : k + 1 \in Nat /\ (k + 1) - 1 = k /\ ~(k + 1 <= k)
  OBVIOUS

\* The number of the configuration before.
LEMMA PreviousNum == \A k, n \in Nat : k <= n => k \in Int /\ k - 1 \in Int /\ k - 1 <= n
  OBVIOUS

\* The last state of a log is one of its states.
LEMMA LastState ==
    ASSUME TypeOK, NEW g \in Gid
    PROVE  /\ Len(hist[g]) \in DOMAIN hist[g] /\ Len(hist[g]) \in Nat
           /\ Frontier(g) \in KvType /\ \A x \in DOMAIN hist[g] : hist[g][x].kv \in KvType
  <1>1. hist[g] \in Seq(Entry) /\ hist[g] # << >> BY DEF TypeOK
  <1>2. Len(hist[g]) \in Nat /\ DOMAIN hist[g] = 1..Len(hist[g]) /\ Len(hist[g]) > 0 BY <1>1
  <1>3. \A x \in DOMAIN hist[g] : hist[g][x] \in Entry BY <1>1
  <1>4. \A x \in DOMAIN hist[g] : hist[g][x].kv \in KvType BY <1>3 DEF Entry
  <1> QED BY <1>2, <1>4 DEF Frontier

\* What a server has in memory is a state of its group's log.
LEMMA ServerState ==
    ASSUME TypeOK, NEW g \in Gid, NEW r \in Replica
    PROVE  applied[g][r] \in DOMAIN hist[g] /\ Kv(g, r) \in KvType
  <1>1. hist[g] \in Seq(Entry) /\ applied[g][r] \in 1..Len(hist[g]) BY DEF TypeOK
  <1> QED BY <1>1, LastState DEF Kv

\* Commands make states of states.
LEMMA ApplyType ==
    ASSUME NEW kv \in KvType, NEW cmd \in Command, NEW g \in Gid
    PROVE  applyCommand(kv, cmd, g) \in KvType
  <1>1. CASE cmd.type = "KV"
    <2>1. /\ cmd.ClientID \in Client /\ cmd.SeqNum \in Nat /\ cmd.Key \in Key
          /\ cmd.Optype \in {"Get", "Put", "Append"}
      BY <1>1 DEF Command
    <2>2. applyCommand(kv, cmd, g) = applyKV(kv, cmd) BY <1>1 DEF applyCommand
    <2>3. applyToStateMachine(kv, cmd) \in KvType
      <3> DEFINE tag == <<cmd.ClientID, cmd.SeqNum>>
                 value == CASE cmd.Optype = "Put"    -> <<tag>>
                            [] cmd.Optype = "Append" -> Append(kv.currentState[cmd.Key], tag)
                            [] cmd.Optype = "Get"    -> kv.currentState[cmd.Key]
      <3>1. kv.currentState \in [Key -> Seq(Client \X Nat)] /\ kv.clientSeq \in [Client -> Nat] BY DEF KvType
      <3>2. tag \in Client \X Nat BY <2>1
      <3>3. value \in Seq(Client \X Nat)
        <4>1. kv.currentState[cmd.Key] \in Seq(Client \X Nat) BY <2>1, <3>1
        <4> HIDE DEF tag
        <4>2. <<tag>> \in Seq(Client \X Nat) BY <3>2
        <4>3. Append(kv.currentState[cmd.Key], tag) \in Seq(Client \X Nat) BY <3>2, <4>1
        <4> QED BY <2>1, <4>1, <4>2, <4>3, Zenon
      <3> HIDE DEF value
      <3>4. applyToStateMachine(kv, cmd) =
              [kv EXCEPT !.clientSeq = [kv.clientSeq EXCEPT ![cmd.ClientID] = cmd.SeqNum],
                         !.currentState = [kv.currentState EXCEPT ![cmd.Key] = value]]
        BY Zenon DEF applyToStateMachine, value, KvType
      <3>5. [kv.clientSeq EXCEPT ![cmd.ClientID] = cmd.SeqNum] \in [Client -> Nat] BY <2>1, <3>1
      <3>6. [kv.currentState EXCEPT ![cmd.Key] = value] \in [Key -> Seq(Client \X Nat)] BY <2>1, <3>1, <3>3
      <3> QED BY <3>4, <3>5, <3>6, Zenon DEF KvType
    <2> QED BY <2>2, <2>3 DEF applyKV
  <1>2. CASE cmd.type = "Config"
    <2>1. cmd.Num \in Nat BY <1>2 DEF Command
    <2>2. applyCommand(kv, cmd, g) = applyConfig(kv, cmd, g) BY <1>2 DEF applyCommand
    <2>3. /\ firstShardsState(kv.shardsState, g, cmd.Num) \in [Shard -> ShardState]
          /\ nextShardsState(g, kv.config, cmd.Num) \in [Shard -> ShardState]
      BY DEF firstShardsState, nextShardsState, KvType, ShardState
    <2> QED BY <2>1, <2>2, <2>3, Zenon DEF applyConfig, KvType
  <1>3. CASE cmd.type = "ShardRequest"
    <2>1. /\ cmd.ShardIndex \in Shard /\ cmd.ShardData \in [Key -> Seq(Client \X Nat)]
          /\ cmd.ClientSeqNum \in [Client -> Nat]
      BY <1>3 DEF Command
    <2>2. applyCommand(kv, cmd, g) = applyShardRequest(kv, cmd) BY <1>3 DEF applyCommand
    <2>3. /\ mergeShardData(kv.currentState, cmd.ShardIndex, cmd.ShardData) \in [Key -> Seq(Client \X Nat)]
          /\ mergeClientSeqNum(kv.clientSeq, cmd.ClientSeqNum) \in [Client -> Nat]
          /\ [kv.shardsState EXCEPT ![cmd.ShardIndex] = "SERVING"] \in [Shard -> ShardState]
      BY <2>1 DEF mergeShardData, mergeClientSeqNum, KvType, ShardState
    <2> QED BY <2>2, <2>3, ZenonT(60) DEF applyShardRequest, KvType
  <1>4. CASE cmd.type = "ShardConfirm"
    <2>1. cmd.ShardIndex \in Shard BY <1>4 DEF Command
    <2>2. applyCommand(kv, cmd, g) = applyShardConfirm(kv, cmd) BY <1>4 DEF applyCommand
    <2>3. << >> \in Seq(Client \X Nat) OBVIOUS
    <2>4. /\ [k \in Key |-> IF key2shard(k) = cmd.ShardIndex THEN << >> ELSE kv.currentState[k]]
                \in [Key -> Seq(Client \X Nat)]
          /\ [kv.shardsState EXCEPT ![cmd.ShardIndex] = "NO_SERVING"] \in [Shard -> ShardState]
      BY <2>1, <2>3 DEF KvType, ShardState
    <2> QED BY <2>2, <2>4, ZenonT(60) DEF applyShardConfirm, KvType
  <1> QED BY <1>1, <1>2, <1>3, <1>4 DEF Command
---------------------------------------------------------------------------
(* Type correctness *)

\* StartServer, MakeClerk and the empty configuration.
LEMMA TypeInit == Init => TypeOK
<1> SUFFICES ASSUME Init PROVE TypeOK
  OBVIOUS
<1> USE ShardAssumption DEF Init
<1>1. EmptyConfig \in Config BY DEF EmptyConfig, Config
<1>2. configs \in Seq(Config) /\ configs # << >> /\ Len(configs) = 1 BY <1>1
<1>3. StartServer \in KvType
  <2>1. << >> \in Seq(Client \X Nat) OBVIOUS
  <2> QED BY <2>1 DEF StartServer, KvType, ShardState
<1>4. hist \in [Gid -> Seq(Entry)] /\ \A g \in Gid : hist[g] # << >> /\ Len(hist[g]) = 1
  <2>1. [kv |-> StartServer, cmd |-> {}, value |-> << >>] \in Entry BY <1>3 DEF Entry
  <2> QED BY <2>1
<1>5. clerk \in [Client -> ClerkType] BY <1>2 DEF MakeClerk, latest, ClerkType
<1>6. \A c \in Client : clerk[c].config <= latest BY <1>2 DEF MakeClerk, latest
<1>7. /\ pending \in [Gid -> SUBSET Command] /\ calls = {}
      /\ copied \in [Gid -> [Replica -> [pull : SUBSET Item, confirm : SUBSET Item]]]
  OBVIOUS
<1>8. applied \in [Gid -> [Replica -> Nat]] /\ \A g \in Gid, r \in Replica : applied[g][r] = 1 OBVIOUS
<1>9. \A g \in Gid : hist[g] # << >> /\ \A r \in Replica : applied[g][r] \in 1..Len(hist[g])
  BY <1>4, <1>8
<1> HIDE DEF Init
<1> QED BY <1>2, <1>4, <1>5, <1>6, <1>7, <1>8, <1>9 DEF TypeOK, CopiedType

\* Raft commits a command.
LEMMA CommitType ==
    ASSUME TypeOK, NEW g \in Gid, NEW cmd \in pending[g], Commit(g, cmd)
    PROVE  TypeOK'
<1> DEFINE kv == Frontier(g)
           entry == [kv |-> applyCommand(kv, cmd, g), cmd |-> {cmd}, value |-> answerOf(kv, cmd)]
<1>1. kv \in KvType /\ cmd \in Command BY LastState DEF TypeOK
<1>2. answerOf(kv, cmd) \in Seq(Client \X Nat)
  <2>1. << >> \in Seq(Client \X Nat) OBVIOUS
  <2>2. cmd.type = "KV" => cmd.Key \in Key BY <1>1 DEF Command
  <2> QED BY <1>1, <2>1, <2>2 DEF answerOf, KvType
<1>3. entry \in Entry BY <1>1, <1>2, ApplyType DEF Entry
<1>4. hist' = hist \/ hist' = [hist EXCEPT ![g] = Append(hist[g], entry)] BY DEF Commit
<1> HIDE DEF kv, entry
<1>5. hist' \in [Gid -> Seq(Entry)] /\ \A h \in Gid : hist'[h] # << >> /\ Len(hist'[h]) >= Len(hist[h])
  <2>1. CASE hist' = hist BY <2>1 DEF TypeOK
  <2>2. CASE hist' = [hist EXCEPT ![g] = Append(hist[g], entry)]
    <3>1. hist[g] \in Seq(Entry) /\ hist \in [Gid -> Seq(Entry)] BY DEF TypeOK
    <3>2. Append(hist[g], entry) \in Seq(Entry) /\ Len(Append(hist[g], entry)) = Len(hist[g]) + 1
      BY <1>3, <3>1
    <3>3. \A h \in Gid : hist'[h] = IF h = g THEN Append(hist[g], entry) ELSE hist[h] BY <2>2, <3>1
    <3>4. Append(hist[g], entry) # << >> BY <3>2, <3>1
    <3>5. hist' \in [Gid -> Seq(Entry)] BY <2>2, <3>1, <3>2
    <3>6. \A h \in Gid : hist[h] # << >> /\ Len(hist[h]) \in Nat BY DEF TypeOK
    <3> QED BY <3>2, <3>3, <3>4, <3>5, <3>6
  <2> QED BY <1>4, <2>1, <2>2
<1>6. pending' \in [Gid -> SUBSET Command] BY DEF Commit, TypeOK
<1>7. \A h \in Gid, r \in Replica : applied'[h][r] \in 1..Len(hist'[h])
  <2> SUFFICES ASSUME NEW h \in Gid, NEW r \in Replica PROVE applied[h][r] \in 1..Len(hist'[h])
    BY DEF Commit
  <2>1. applied[h][r] \in 1..Len(hist[h]) /\ hist[h] \in Seq(Entry) /\ hist'[h] \in Seq(Entry)
    BY <1>5 DEF TypeOK
  <2> QED BY <1>5, <2>1
<1> QED BY <1>5, <1>6, <1>7, Zenon DEF TypeOK, Commit, latest

\* A loop copies a list, or takes an item from it.
LEMMA CopyType ==
    ASSUME copied \in CopiedType, NEW g \in Gid, NEW r \in Replica, NEW S \in SUBSET Item
    PROVE  /\ [copied EXCEPT ![g][r].pull = S] \in CopiedType
           /\ [copied EXCEPT ![g][r].confirm = S] \in CopiedType
<1> DEFINE R == [pull : SUBSET Item, confirm : SUBSET Item]
<1>1. copied \in [Gid -> [Replica -> R]] BY DEF CopiedType
<1>2. copied[g] \in [Replica -> R] /\ copied[g][r] \in R BY <1>1
<1>3. [copied[g][r] EXCEPT !.pull = S] \in R /\ [copied[g][r] EXCEPT !.confirm = S] \in R BY <1>2
<1> HIDE DEF R
<1>4. /\ [copied[g] EXCEPT ![r] = [copied[g][r] EXCEPT !.pull = S]] \in [Replica -> R]
      /\ [copied[g] EXCEPT ![r] = [copied[g][r] EXCEPT !.confirm = S]] \in [Replica -> R]
  BY <1>2, <1>3
<1>5. /\ [copied EXCEPT ![g][r].pull = S] =
              [copied EXCEPT ![g] = [copied[g] EXCEPT ![r] = [copied[g][r] EXCEPT !.pull = S]]]
      /\ [copied EXCEPT ![g][r].confirm = S] =
              [copied EXCEPT ![g] = [copied[g] EXCEPT ![r] = [copied[g][r] EXCEPT !.confirm = S]]]
  OBVIOUS
<1> QED BY <1>1, <1>4, <1>5 DEF CopiedType, R

\* A server takes a command or a snapshot, or restarts.
LEMMA ServerType ==
    ASSUME TypeOK, NEW g \in Gid, NEW r \in Replica,
           \/ applyHandler(g, r)
           \/ \E index \in 1..Len(hist[g]) : installSnapshot(g, r, index) \/ Restart(g, r, index)
    PROVE  TypeOK'
<1>1. hist[g] \in Seq(Entry) /\ applied[g][r] \in 1..Len(hist[g]) /\ Len(hist[g]) \in Nat BY DEF TypeOK
<1>2. PICK n \in 1..Len(hist[g]) : applied' = [applied EXCEPT ![g][r] = n]
  <2>1. CASE applyHandler(g, r)
    <3>1. applied[g][r] < Len(hist[g]) /\ applied' = [applied EXCEPT ![g][r] = applied[g][r] + 1]
      BY <2>1, Zenon DEF applyHandler
    <3>2. applied[g][r] + 1 \in 1..Len(hist[g]) BY <1>1, <3>1
    <3> QED BY <3>1, <3>2, Zenon
  <2>2. CASE \E index \in 1..Len(hist[g]) : installSnapshot(g, r, index) \/ Restart(g, r, index)
    BY <1>1, <2>2, SMTT(40) DEF installSnapshot, Restart
  <2> QED BY <2>1, <2>2
<1>3. UNCHANGED <<configs, hist, pending>> BY Zenon DEF applyHandler, installSnapshot, Restart
<1>4. copied' \in CopiedType
  <2>1. copied' = copied \/ copied' = [copied EXCEPT ![g][r] = [pull |-> {}, confirm |-> {}]]
    BY Zenon DEF applyHandler, installSnapshot, Restart
  <2>2. [pull |-> {}, confirm |-> {}] \in [pull : SUBSET Item, confirm : SUBSET Item] OBVIOUS
  <2>3. copied \in CopiedType /\ copied[g] \in [Replica -> [pull : SUBSET Item, confirm : SUBSET Item]]
    BY DEF TypeOK, CopiedType
  <2>4. [copied[g] EXCEPT ![r] = [pull |-> {}, confirm |-> {}]]
            \in [Replica -> [pull : SUBSET Item, confirm : SUBSET Item]]
    BY <2>2, <2>3
  <2>5. [copied EXCEPT ![g][r] = [pull |-> {}, confirm |-> {}]] =
            [copied EXCEPT ![g] = [copied[g] EXCEPT ![r] = [pull |-> {}, confirm |-> {}]]]
    OBVIOUS
  <2>6. [copied EXCEPT ![g] = [copied[g] EXCEPT ![r] = [pull |-> {}, confirm |-> {}]]] \in CopiedType
    BY <2>3, <2>4, Zenon DEF CopiedType
  <2> QED BY <2>1, <2>3, <2>5, <2>6, Zenon
<1>5. calls' \subseteq calls BY Zenon DEF applyHandler, installSnapshot, Restart
<1>6. /\ clerk' \in [Client -> ClerkType]
      /\ \A c \in Client : clerk'[c].config = clerk[c].config
  <2>1. CASE applyHandler(g, r)
    <3>1. CASE clerk' = clerk BY <3>1 DEF TypeOK
    <3>2. CASE clerk' # clerk
      <4>1. applied[g][r] + 1 \in DOMAIN hist[g]
        <5>1. applied[g][r] < Len(hist[g]) BY <2>1, Zenon DEF applyHandler
        <5> QED BY <1>1, <5>1
      <4> DEFINE value == hist[g][applied[g][r] + 1].value
      <4>2. value \in Seq(Client \X Nat)
        <5>1. hist[g][applied[g][r] + 1] \in Entry BY <1>1, <4>1
        <5> QED BY <5>1 DEF Entry
      <4>3. PICK c \in Client, S \in SUBSET Seq(Client \X Nat) :
              clerk' = [clerk EXCEPT ![c].seqNum = @ + 1, ![c].op = {}, ![c].at = {}, ![c].got = S]
        <5>1. {value} \in SUBSET Seq(Client \X Nat) /\ {} \in SUBSET Seq(Client \X Nat) BY <4>2
        <5> QED BY <2>1, <3>2, <5>1, ZenonT(60) DEF applyHandler
      <4>4. clerk[c] \in ClerkType /\ clerk \in [Client -> ClerkType] BY DEF TypeOK
      <4>5. [clerk[c] EXCEPT !.seqNum = clerk[c].seqNum + 1, !.op = {}, !.at = {}, !.got = S] \in ClerkType
        <5>1. clerk[c].seqNum + 1 \in Nat /\ {} \in SUBSET Op /\ {} \in SUBSET [gid : Gid, server : Replica]
          BY <4>4 DEF ClerkType
        <5> HIDE DEF Op
        <5> QED BY <4>4, <5>1, Zenon DEF ClerkType
      <4>6. clerk' = [clerk EXCEPT ![c] = [clerk[c] EXCEPT !.seqNum = clerk[c].seqNum + 1, !.op = {},
                                                           !.at = {}, !.got = S]]
        BY <4>3, <4>4, Zenon
      <4>7. [clerk[c] EXCEPT !.seqNum = clerk[c].seqNum + 1, !.op = {}, !.at = {}, !.got = S].config = clerk[c].config
        BY <4>4 DEF ClerkType
      <4> QED BY <4>4, <4>5, <4>6, <4>7
    <3> QED BY <3>1, <3>2
  <2>2. CASE \E index \in 1..Len(hist[g]) : installSnapshot(g, r, index)
    BY <2>2 DEF installSnapshot, TypeOK
  <2>3. CASE \E index \in 1..Len(hist[g]) : Restart(g, r, index)
    <3>1. clerk' = [c \in Client |-> IF clerk[c].at = {[gid |-> g, server |-> r]}
                                     THEN [clerk[c] EXCEPT !.at = {}] ELSE clerk[c]]
      BY <2>3 DEF Restart
    <3>2. ASSUME NEW c \in Client
          PROVE  [clerk[c] EXCEPT !.at = {}] \in ClerkType /\ [clerk[c] EXCEPT !.at = {}].config = clerk[c].config
      BY ZenonT(60) DEF TypeOK, ClerkType
    <3>3. clerk \in [Client -> ClerkType] BY DEF TypeOK
    <3> QED BY <3>1, <3>2, <3>3
  <2> QED BY <2>1, <2>2, <2>3
<1>7. applied' \in [Gid -> [Replica -> Nat]] /\ \A h \in Gid, q \in Replica : applied'[h][q] \in 1..Len(hist[h])
  BY <1>1, <1>2 DEF TypeOK
<1> QED BY <1>3, <1>4, <1>5, <1>6, <1>7 DEF TypeOK, latest

\* What a loop copies, calls and starts.
LEMMA LoopType ==
    ASSUME TypeOK, NEW g \in Gid, NEW r \in Replica,
           \/ getLastConfig(g, r) \/ ShardsRequester(g, r) \/ ShardsConfirm(g, r)
           \/ \E item \in copied[g][r].pull : ShardsRequesterCalls(g, r, item)
           \/ \E item \in copied[g][r].confirm : ShardsConfirmCalls(g, r, item)
    PROVE  TypeOK'
<1>0. Kv(g, r) \in KvType /\ Kv(g, r).config \in Nat BY ServerState DEF KvType
<1>1. CASE getLastConfig(g, r)
  <2>1. [type |-> "Config", Num |-> Kv(g, r).config + 1] \in Command BY <1>0 DEF Command
  <2> QED BY <1>1, <2>1 DEF getLastConfig, start, TypeOK, latest
<1>2. CASE ShardsRequester(g, r)
  <2>1. shardsToPull(Kv(g, r)) \subseteq Item BY DEF shardsToPull, shardsAt, Item
  <2>2. copied' \in CopiedType BY <1>2, <2>1, CopyType, Zenon DEF ShardsRequester, TypeOK
  <2> QED BY <1>2, <2>2 DEF ShardsRequester, TypeOK, latest
<1>3. CASE ShardsConfirm(g, r)
  <2>1. shardsAt(Kv(g, r), "BEPULLED", Kv(g, r).config) \subseteq Item BY DEF shardsAt, Item
  <2>2. copied' \in CopiedType BY <1>3, <2>1, CopyType, Zenon DEF ShardsConfirm, TypeOK
  <2> QED BY <1>3, <2>2 DEF ShardsConfirm, TypeOK, latest
<1>4. ASSUME NEW item \in copied[g][r].pull, ShardsRequesterCalls(g, r, item) PROVE TypeOK'
  <2>1. item \in Item /\ copied[g][r].pull \in SUBSET Item BY DEF TypeOK, CopiedType
  <2>2. copied' \in CopiedType
    <3>1. copied' = [copied EXCEPT ![g][r].pull = copied[g][r].pull \ {item}]
      BY <1>4 DEF ShardsRequesterCalls
    <3> QED BY <2>1, <3>1, CopyType, Zenon DEF TypeOK
  <2>3. callFor("ShardsRequest", g, r, item) \in CallSet BY <1>0, <2>1 DEF callFor, Item, CallSet
  <2> QED BY <1>4, <2>2, <2>3 DEF ShardsRequesterCalls, TypeOK, latest
<1>5. ASSUME NEW item \in copied[g][r].confirm, ShardsConfirmCalls(g, r, item) PROVE TypeOK'
  <2>1. item \in Item /\ copied[g][r].confirm \in SUBSET Item BY DEF TypeOK, CopiedType
  <2>2. copied' \in CopiedType
    <3>1. copied' = [copied EXCEPT ![g][r].confirm = copied[g][r].confirm \ {item}]
      BY <1>5 DEF ShardsConfirmCalls, TypeOK
    <3> QED BY <2>1, <3>1, CopyType, ZenonT(60) DEF TypeOK
  <2>3. callFor("ShardsConfirm", g, r, item) \in CallSet BY <1>0, <2>1 DEF callFor, Item, CallSet
  <2> QED BY <1>5, <2>2, <2>3 DEF ShardsConfirmCalls, TypeOK, latest
<1> QED BY <1>1, <1>2, <1>3, <1>4, <1>5

\* Calls between groups, and what their replies start.
LEMMA CallType ==
    ASSUME TypeOK, NEW call \in calls,
           CallFails(call) \/ \E s \in Replica : ShardsRequestHandler(call, s) \/ ShardsConfirmHandler(call, s)
    PROVE  TypeOK'
<1>0. call \in CallSet BY DEF TypeOK
<1>1. CASE CallFails(call) BY <1>1 DEF CallFails, TypeOK, latest
<1>2. ASSUME NEW s \in Replica, ShardsRequestHandler(call, s) PROVE TypeOK'
  <2> DEFINE kv == Kv(call.target, s)
             data == [k \in Key |-> IF key2shard(k) = call.ShardIndex THEN kv.currentState[k] ELSE << >>]
  <2>1. kv.currentState \in [Key -> Seq(Client \X Nat)] /\ kv.clientSeq \in [Client -> Nat]
    BY <1>0, ServerState, ZenonT(60) DEF KvType, CallSet
  <2>2. << >> \in Seq(Client \X Nat) OBVIOUS
  <2> HIDE DEF kv
  <2>3. data \in [Key -> Seq(Client \X Nat)] BY <2>1, <2>2
  <2> HIDE DEF data
  <2>4. [type |-> "ShardRequest", ConfigNum |-> call.ConfigNum, ShardIndex |-> call.ShardIndex,
         ShardData |-> data, ClientSeqNum |-> kv.clientSeq] \in Command
    BY <1>0, <2>1, <2>3 DEF Command, CallSet
  <2> QED BY <1>0, <1>2, <2>4, Zenon DEF ShardsRequestHandler, start, kv, data, TypeOK, CallSet, latest
<1>3. ASSUME NEW s \in Replica, ShardsConfirmHandler(call, s) PROVE TypeOK'
  <2>1. [type |-> "ShardConfirm", ConfigNum |-> call.ConfigNum, ShardIndex |-> call.ShardIndex] \in Command
    BY <1>0 DEF Command, CallSet
  <2> QED BY ZenonT(60), <1>0, <1>3, <2>1 DEF ShardsConfirmHandler, start, TypeOK, CallSet, latest
<1> QED BY <1>1, <1>2, <1>3

\* Configurations up to the latest one.
LEMMA ConfigType ==
    ASSUME TypeOK
    PROVE  /\ Len(configs) \in Nat /\ latest \in Nat /\ DOMAIN configs = 1..Len(configs)
           /\ \A n \in 0..latest : configs[n + 1] \in Config /\ Groups(n) \subseteq Gid
<1>1. configs \in Seq(Config) /\ configs # << >> BY DEF TypeOK
<1>2. Len(configs) \in Nat /\ DOMAIN configs = 1..Len(configs) /\ Len(configs) > 0 BY <1>1
<1>3. \A n \in 0..latest : configs[n + 1] \in Config BY <1>1, <1>2 DEF latest
<1> QED BY <1>2, <1>3 DEF latest, Groups, Config

\* A clerk's steps.
LEMMA ClerkStepType ==
    ASSUME TypeOK, ClerkNext
    PROVE  TypeOK'
<1>1. PICK c \in Client : \/ \E op \in Op : ClerkCalls(c, op)
                          \/ ClerkQueries(c)
                          \/ \E r \in Replica : Get(c, r) \/ PutAppend(c, r)
                          \/ HandlerGivesUp(c)
  BY DEF ClerkNext
<1>2. clerk \in [Client -> ClerkType] /\ clerk[c] \in ClerkType /\ clerk[c].config <= latest BY DEF TypeOK
<1>3. ASSUME NEW rec \in ClerkType, rec.config <= latest, clerk' = [clerk EXCEPT ![c] = rec],
             UNCHANGED <<configs, hist, applied, copied, calls>>, pending' \in [Gid -> SUBSET Command]
      PROVE  TypeOK'
  <2>1. clerk' \in [Client -> ClerkType] /\ \A d \in Client : clerk'[d].config <= latest
    BY <1>2, <1>3 DEF TypeOK
  <2> QED BY <1>3, <2>1 DEF TypeOK, latest
<1>4. ASSUME NEW op \in Op, ClerkCalls(c, op) PROVE TypeOK'
  <2> DEFINE rec == [clerk[c] EXCEPT !.op = {op}, !.got = {}]
  <2>1. rec \in ClerkType /\ rec.config = clerk[c].config BY <1>2, Zenon DEF ClerkType
  <2>2. clerk' = [clerk EXCEPT ![c] = rec] BY <1>2, <1>4, Zenon DEF ClerkCalls
  <2>3. pending' \in [Gid -> SUBSET Command] BY <1>4 DEF ClerkCalls, TypeOK
  <2> HIDE DEF rec
  <2> QED BY <1>2, <1>3, <1>4, <2>1, <2>2, <2>3, Zenon DEF ClerkCalls
<1>5. CASE ClerkQueries(c)
  <2> DEFINE rec == [clerk[c] EXCEPT !.config = latest]
  <2>1. rec \in ClerkType /\ rec.config = latest BY <1>2, ConfigType, Zenon DEF ClerkType
  <2>2. clerk' = [clerk EXCEPT ![c] = rec] BY <1>2, <1>5 DEF ClerkQueries
  <2>3. pending' \in [Gid -> SUBSET Command] BY <1>5 DEF ClerkQueries, TypeOK
  <2> HIDE DEF rec
  <2>4. rec.config <= latest BY <2>1, ConfigType
  <2>5. UNCHANGED <<configs, hist, applied, copied, calls>> BY <1>5 DEF ClerkQueries
  <2> QED BY <1>3, <2>1, <2>2, <2>3, <2>4, <2>5, Zenon
<1>6. ASSUME NEW r \in Replica, Get(c, r) \/ PutAppend(c, r) PROVE TypeOK'
  <2>1. PICK op \in clerk[c].op : handlerStarts(c, r, op) BY <1>6 DEF Get, PutAppend
  <2> DEFINE i == key2shard(op.Key)
             g == Owner(clerk[c].config, i)
             rec == [clerk[c] EXCEPT !.at = {[gid |-> g, server |-> r]}]
             cmd == [type |-> "KV", ClientID |-> c, SeqNum |-> clerk[c].seqNum,
                     Key |-> op.Key, Optype |-> op.Optype]
  <2>2. op \in Op /\ clerk[c].seqNum \in Nat /\ clerk[c].config \in 0..latest
    BY <1>2, ConfigType DEF ClerkType
  <2>3. g \in Gid BY <2>1, <2>2, ConfigType DEF handlerStarts
  <2>4. pending' = [pending EXCEPT ![g] = pending[g] \cup {cmd}] /\ clerk' = [clerk EXCEPT ![c] = rec]
    BY <2>1, <1>2 DEF handlerStarts, start
  <2>5. cmd \in Command BY <2>2 DEF Op, Command
  <2> HIDE DEF g, cmd
  <2>6. pending' \in [Gid -> SUBSET Command] BY <2>3, <2>4, <2>5 DEF TypeOK
  <2>7. rec \in ClerkType /\ rec.config = clerk[c].config BY SMTT(40), <1>2, <2>3 DEF ClerkType
  <2> HIDE DEF rec
  <2> QED BY <1>2, <1>3, <2>1, <2>4, <2>6, <2>7, Zenon DEF handlerStarts
<1>7. CASE HandlerGivesUp(c)
  <2> DEFINE rec == [clerk[c] EXCEPT !.at = {}]
  <2>1. rec \in ClerkType /\ rec.config = clerk[c].config BY <1>2, Zenon DEF ClerkType
  <2>2. clerk' = [clerk EXCEPT ![c] = rec] BY <1>2, <1>7 DEF HandlerGivesUp
  <2>3. pending' \in [Gid -> SUBSET Command] BY <1>7 DEF HandlerGivesUp, TypeOK
  <2> HIDE DEF rec
  <2> QED BY <1>2, <1>3, <1>7, <2>1, <2>2, <2>3, Zenon DEF HandlerGivesUp
<1> QED BY <1>1, <1>4, <1>5, <1>6, <1>7

\* The controller's step.
LEMMA ReconfigureType ==
    ASSUME TypeOK, NEW config \in Config, Reconfigure(config)
    PROVE  TypeOK' /\ latest' = latest + 1 /\ \A n \in 0..latest : configs'[n + 1] = configs[n + 1]
<1>1. configs \in Seq(Config) /\ Len(configs) \in Nat /\ configs' = Append(configs, config)
  BY ConfigType DEF TypeOK, Reconfigure
<1>2. configs' \in Seq(Config) /\ Len(configs') = Len(configs) + 1 /\ configs' # << >>
  <2>1. Append(configs, config) \in Seq(Config) /\ Len(Append(configs, config)) = Len(configs) + 1 BY <1>1
  <2>2. Len(configs') # 0 BY <1>1, <2>1
  <2> QED BY <1>1, <2>1, <2>2
<1>3. latest' = latest + 1 BY <1>1, <1>2 DEF latest
<1>4. \A n \in 0..latest : configs'[n + 1] = configs[n + 1] BY SMTT(40), <1>1 DEF latest
<1>5. \A c \in Client : clerk[c].config <= latest + 1
  BY ConfigType DEF TypeOK, ClerkType
<1> QED BY <1>2, <1>3, <1>4, <1>5, ZenonT(60) DEF TypeOK, Reconfigure

\* Steps keep every variable in its type.
LEMMA TypeNext == TypeOK /\ [Next]_vars => TypeOK'
<1> SUFFICES ASSUME TypeOK, [Next]_vars PROVE TypeOK'
  BY ZenonT(60)
<1>1. CASE ServerNext BY <1>1, ServerType, LoopType, CallType DEF ServerNext
<1>2. ASSUME NEW g \in Gid, NEW cmd \in pending[g], Commit(g, cmd) PROVE TypeOK' BY <1>2, CommitType
<1>3. ASSUME NEW g \in Gid, NEW r \in Replica, getLastConfig(g, r) \/ ShardsRequester(g, r) \/ ShardsConfirm(g, r)
      PROVE  TypeOK'
  BY <1>3, LoopType
<1>4. ASSUME NEW call \in calls, CallFails(call) PROVE TypeOK' BY <1>4, CallType
<1>5. CASE ClerkNext BY <1>5, ClerkStepType
<1>6. ASSUME NEW g \in Gid, NEW r \in Replica, NEW index \in 1..Len(hist[g]),
             installSnapshot(g, r, index) \/ Restart(g, r, index)
      PROVE  TypeOK'
  BY <1>6, ServerType
<1>7. ASSUME NEW config \in Config, Reconfigure(config) PROVE TypeOK' BY <1>7, ReconfigureType
<1>8. CASE UNCHANGED vars BY <1>8 DEF vars, TypeOK, latest
<1> QED BY <1>1, <1>2, <1>3, <1>4, <1>5, <1>6, <1>7, <1>8 DEF Next

\* Every state of a log, every command, call and clerk's memory has its type,
\* and no clerk knows of a configuration the controller has not made.
THEOREM TypeCorrect == Spec => []TypeOK
<1> QED BY TypeInit, TypeNext, PTL DEF Spec
---------------------------------------------------------------------------
(* Ownership: what a step leaves as it was *)

\* A step that takes configurations and groups only forward.
Forward ==
    /\ latest <= latest' /\ \A n \in 0..latest : configs'[n + 1] = configs[n + 1]
    /\ \A g \in Gid : /\ Frontier(g).config <= Frontier(g)'.config
                      /\ \A x \in DOMAIN hist[g] : x \in DOMAIN hist'[g] /\ hist'[g][x] = hist[g][x]

\* What was handed over stays handed over.
LEMMA HandedStays ==
    ASSUME TypeOK, TypeOK', Forward, NEW g \in Gid, NEW i \in Shard, NEW n \in Int, n <= latest, Handed(i, n, g)
    PROVE  Handed(i, n, g)'
<1> SUFFICES ASSUME NEW k \in 1..n, Owner(k, i)' \in Gid \ {g} PROVE (Frontier(Owner(k, i)).config > k)'
  BY DEF Handed
<1>1. k \in 0..latest /\ k \in Nat BY ConfigType
<1>2. Owner(k, i)' = Owner(k, i) BY <1>1 DEF Forward, Owner
<1>3. Frontier(Owner(k, i)).config > k /\ Owner(k, i) \in Gid BY <1>2 DEF Handed
<1> DEFINE h == Owner(k, i)
<1>4. h \in Gid /\ h' = h BY <1>2, <1>3
<1> HIDE DEF h
<1>5. Frontier(h).config > k BY <1>3 DEF h
<1>6. \A p \in Gid : Frontier(p).config \in Nat BY LastState DEF KvType
<1>7. \A p \in Gid : (Frontier(p).config \in Nat)'
  <2>1. ASSUME NEW p \in Gid PROVE (Frontier(p) \in KvType)'
    <3>1. (hist[p] \in Seq(Entry) /\ hist[p] # << >>)' BY DEF TypeOK
    <3>2. (hist[p][Len(hist[p])] \in Entry)' BY <3>1
    <3> QED BY <3>2 DEF Frontier, Entry
  <2> QED BY <2>1 DEF KvType
<1>8. \A p \in Gid : Frontier(p).config <= (Frontier(p).config)' BY DEF Forward
<1>9. \A p \in Gid : Frontier(p).config > k => (Frontier(p).config)' > k BY <1>1, <1>6, <1>7, <1>8
<1>10. (Frontier(h).config)' > k BY ZenonT(60), <1>4, <1>5, <1>9 DEF Frontier
<1> QED BY <1>10 DEF h

\* A state that stays in the log of g keeps what StateInv says of it.
LEMMA StateStays ==
    ASSUME TypeOK, TypeOK', Forward, NEW g \in Gid, NEW kv \in KvType, StateInv(g, kv),
           \A i \in Shard : (/\ kv.shardsState[i] \in {"SERVING", "NO_SERVING"}
                             /\ kv.config = (Frontier(g).config)')
                            => (Frontier(g).shardsState[i])' = kv.shardsState[i]
    PROVE  StateInv(g, kv)'
<1>1. kv.config \in Nat /\ latest \in Nat /\ latest' \in Nat /\ latest <= latest'
  <2>1. latest' \in Nat
    <3>1. (configs \in Seq(Config) /\ configs # << >>)' BY DEF TypeOK
    <3> QED BY SMTT(40), <3>1 DEF latest
  <2> QED BY <2>1, ConfigType DEF KvType, Forward
<1>2. kv.config <= latest /\ kv.config <= latest' BY <1>1, SMTT(40) DEF StateInv
<1>3. Frontier(g).config \in Nat BY ZenonT(60), LastState DEF KvType
<1>4. kv.config <= (Frontier(g).config)'
  <2>1. (Frontier(g).config)' \in Nat
    <3>1. (hist[g] \in Seq(Entry) /\ hist[g] # << >>)' BY DEF TypeOK
    <3>2. (hist[g][Len(hist[g])] \in Entry)' BY <3>1
    <3> QED BY ZenonT(60), <3>2 DEF Frontier, Entry, KvType
  <2> QED BY <1>1, <1>3, <2>1 DEF StateInv, Forward
<1>5. \A i \in Shard : Owner(kv.config, i)' = Owner(kv.config, i) BY SMTT(40), <1>1, <1>2 DEF Owner, Forward
<1>6. ASSUME NEW i \in Shard, kv.shardsState[i] = "SERVING" PROVE Handed(i, kv.config, g)'
  BY SMTT(40), <1>1, <1>2, <1>6, HandedStays DEF StateInv
<1>7. ASSUME NEW i \in Shard, kv.shardsState[i] = "BEPULLED" PROVE Handed(i, kv.config - 1, g)'
  BY <1>1, <1>2, <1>7, HandedStays DEF StateInv
<1> QED BY ZenonT(60), <1>2, <1>4, <1>5, <1>6, <1>7 DEF StateInv

\* A command that g may still commit keeps what CommandInv says of it.
LEMMA CommandStays ==
    ASSUME TypeOK, TypeOK', Forward, NEW g \in Gid, NEW cmd \in Command, CommandInv(g, cmd)
    PROVE  CommandInv(g, cmd)'
<1>1. latest \in Nat /\ latest' \in Nat /\ latest <= latest'
  <2>1. latest' \in Nat
    <3>1. (configs \in Seq(Config) /\ configs # << >>)' BY ZenonT(60) DEF TypeOK
    <3> QED BY <3>1 DEF latest
  <2> QED BY <2>1, ConfigType DEF Forward
<1>2. CASE cmd.type = "Config"
  <2>1. cmd.Num \in 1..latest' BY SMTT(40), <1>1, <1>2 DEF CommandInv
  <2>2. ASSUME NEW x \in DOMAIN hist[g], hist[g][x].kv.config = cmd.Num - 1, shardsStateReady(hist[g][x].kv)
        PROVE  /\ x \in DOMAIN hist'[g] /\ hist'[g][x].kv.config = cmd.Num - 1
               /\ shardsStateReady(hist[g][x].kv)'
    BY <2>2 DEF Forward, shardsStateReady
  <2> QED BY <1>2, <2>1, <2>2 DEF CommandInv
<1>3. CASE cmd.type = "ShardRequest"
  <2>1. cmd.ConfigNum \in Nat /\ cmd.ShardIndex \in Shard BY <1>3 DEF Command
  <2>2. cmd.ConfigNum <= latest /\ Handed(cmd.ShardIndex, cmd.ConfigNum - 1, g) BY <1>3 DEF CommandInv
  <2>3. Handed(cmd.ShardIndex, cmd.ConfigNum - 1, g)'
    <3>1. cmd.ConfigNum - 1 \in Int /\ cmd.ConfigNum - 1 <= latest BY <1>1, <2>1, <2>2
    <3> QED BY <2>1, <2>2, <3>1, HandedStays
  <2>4. cmd.ConfigNum <= latest' BY SMTT(40), <1>1, <2>1, <2>2
  <2> QED BY <1>3, <2>3, <2>4 DEF CommandInv
<1> QED BY ZenonT(60), <1>2, <1>3 DEF CommandInv
---------------------------------------------------------------------------
(* Ownership: the commit of a command *)

\* What a command makes of the configuration and the states of the shards:
\* nothing, a new configuration, a shard that arrived, a shard that was confirmed.
KeepsShards(kv, new) == new.config = kv.config /\ new.shardsState = kv.shardsState

TakesConfig(kv, cmd, g, new) ==
    /\ cmd.type = "Config" /\ (kv.config = 0 \/ cmd.Num = kv.config + 1) /\ new.config = cmd.Num
    /\ new.shardsState = IF kv.config = 0 THEN firstShardsState(kv.shardsState, g, cmd.Num)
                         ELSE nextShardsState(g, kv.config, cmd.Num)

TakesShard(kv, cmd, new) ==
    /\ cmd.type = "ShardRequest" /\ cmd.ConfigNum = kv.config /\ kv.shardsState[cmd.ShardIndex] = "PULLING"
    /\ new.config = kv.config /\ new.shardsState = [kv.shardsState EXCEPT ![cmd.ShardIndex] = "SERVING"]

DropsShard(kv, cmd, new) ==
    /\ cmd.type = "ShardConfirm" /\ cmd.ConfigNum = kv.config /\ kv.shardsState[cmd.ShardIndex] = "BEPULLED"
    /\ new.config = kv.config /\ new.shardsState = [kv.shardsState EXCEPT ![cmd.ShardIndex] = "NO_SERVING"]

\* Every command does one of the four.
LEMMA ApplyShape ==
    ASSUME NEW kv \in KvType, NEW cmd \in Command, NEW g \in Gid, NEW new \in KvType,
           new = applyCommand(kv, cmd, g)
    PROVE  KeepsShards(kv, new) \/ TakesConfig(kv, cmd, g, new) \/ TakesShard(kv, cmd, new) \/ DropsShard(kv, cmd, new)
<1>1. CASE cmd.type = "KV"
  <2>1. new = applyKV(kv, cmd) BY <1>1 DEF applyCommand
  <2>2. KeepsShards(kv, new) BY <2>1 DEF applyKV, applyToStateMachine, KvType, KeepsShards
  <2> QED BY <2>2
<1>2. CASE cmd.type = "Config"
  <2>1. new = applyConfig(kv, cmd, g) BY <1>2 DEF applyCommand
  <2> QED BY <1>2, <2>1 DEF applyConfig, KvType, KeepsShards, TakesConfig
<1>3. CASE cmd.type = "ShardRequest"
  <2>1. new = applyShardRequest(kv, cmd) BY <1>3, SMTT(40) DEF applyCommand
  <2> QED BY <1>3, <2>1 DEF applyShardRequest, KvType, KeepsShards, TakesShard
<1>4. CASE cmd.type = "ShardConfirm"
  <2>1. new = applyShardConfirm(kv, cmd) BY ZenonT(60), <1>4 DEF applyCommand
  <2> QED BY <1>4, <2>1, ZenonT(60) DEF applyShardConfirm, KvType, KeepsShards, DropsShard
<1> QED BY <1>1, <1>2, <1>3, <1>4 DEF Command

\* A group's log grows by the new state, or stays as it is.
LEMMA CommitEffect ==
    ASSUME TypeOK, NEW g \in Gid, NEW cmd \in pending[g], Commit(g, cmd),
           NEW new, new = applyCommand(Frontier(g), cmd, g)
    PROVE  /\ Frontier(g)' = new
           /\ \A h \in Gid : \A x \in DOMAIN hist[h] : x \in DOMAIN hist'[h] /\ hist'[h][x] = hist[h][x]
           /\ \A h \in Gid : h # g => hist'[h] = hist[h] /\ Frontier(h)' = Frontier(h)
           /\ \A x \in DOMAIN hist'[g] : \/ x \in DOMAIN hist[g] /\ hist'[g][x] = hist[g][x]
                                         \/ hist'[g][x].kv = new
<1> DEFINE entry == [kv |-> new, cmd |-> {cmd}, value |-> answerOf(Frontier(g), cmd)]
<1>1. hist \in [Gid -> Seq(Entry)] /\ hist[g] \in Seq(Entry) /\ Len(hist[g]) \in Nat BY LastState DEF TypeOK
<1>2. \/ hist' = hist /\ new = Frontier(g)
      \/ hist' = [hist EXCEPT ![g] = Append(hist[g], entry)]
  BY DEF Commit, leavesTrace
<1>3. entry.kv = new OBVIOUS
<1> HIDE DEF entry
<1>4. CASE hist' = hist /\ new = Frontier(g) BY ZenonT(60), <1>4 DEF Frontier
<1>5. CASE hist' = [hist EXCEPT ![g] = Append(hist[g], entry)]
  <2>1. hist'[g] = Append(hist[g], entry) /\ \A h \in Gid : h # g => hist'[h] = hist[h] BY <1>1, <1>5
  <2>2. /\ Len(Append(hist[g], entry)) = Len(hist[g]) + 1
        /\ DOMAIN Append(hist[g], entry) = 1..(Len(hist[g]) + 1) /\ DOMAIN hist[g] = 1..Len(hist[g])
    BY <1>1
  <2>3. /\ \A x \in 1..Len(hist[g]) : Append(hist[g], entry)[x] = hist[g][x]
        /\ Append(hist[g], entry)[Len(hist[g]) + 1] = entry
    BY <1>1
  <2>4. Frontier(g)' = new BY <1>3, <2>1, <2>2, <2>3 DEF Frontier
  <2>5. \A x \in DOMAIN hist[g] : x \in DOMAIN hist'[g] /\ hist'[g][x] = hist[g][x] BY SMTT(40), <1>1, <2>1, <2>2, <2>3
  <2>6. \A x \in DOMAIN hist'[g] : x \in DOMAIN hist[g] \/ x = Len(hist[g]) + 1 BY <1>1, <2>1, <2>2
  <2>7. \A h \in Gid : h # g => Frontier(h)' = Frontier(h) BY <2>1 DEF Frontier
  <2> QED BY ZenonT(60), <1>3, <2>1, <2>3, <2>4, <2>5, <2>6, <2>7
<1> QED BY <1>2, <1>4, <1>5

\* The frontier's own state is one of those that StateInv speaks of.
LEMMA FrontierInv ==
    ASSUME TypeOK, OwnershipInv, NEW g \in Gid
    PROVE  StateInv(g, Frontier(g))
<1>1. Len(hist[g]) \in DOMAIN hist[g] BY LastState
<1> QED BY <1>1, Zenon DEF OwnershipInv, Frontier

\* A configuration that is applied is the next one, and the group is ready for
\* it: what one server saw before Start still holds of the whole log.
LEMMA ConfigIsNext ==
    ASSUME TypeOK, OwnershipInv, NEW g \in Gid, NEW cmd \in pending[g], cmd.type = "Config",
           Frontier(g).config = 0 \/ cmd.Num = Frontier(g).config + 1
    PROVE  /\ cmd.Num = Frontier(g).config + 1 /\ cmd.Num \in 1..latest
           /\ Frontier(g).config = 0 \/ shardsStateReady(Frontier(g))
<1> DEFINE m == Frontier(g).config
<1>1. m \in Nat /\ latest \in Nat BY ZenonT(60), LastState, ConfigType DEF KvType
<1>2. /\ cmd.Num \in 1..latest
      /\ \/ cmd.Num = 1
         \/ \E x \in DOMAIN hist[g] : hist[g][x].kv.config = cmd.Num - 1 /\ shardsStateReady(hist[g][x].kv)
  BY DEF OwnershipInv, CommandInv
<1>3. CASE m = 0
  <2>1. ASSUME NEW x \in DOMAIN hist[g], hist[g][x].kv.config = cmd.Num - 1 PROVE cmd.Num = 1
    <3>1. hist[g][x].kv.config <= m BY ZenonT(60) DEF OwnershipInv, StateInv
    <3> QED BY <1>2, <1>3, <2>1, <3>1, SMTT(40)
  <2> QED BY <1>2, <1>3, <2>1
<1>4. CASE m # 0
  <2>1. cmd.Num = m + 1 /\ cmd.Num # 1 BY <1>1, <1>4
  <2>2. PICK x \in DOMAIN hist[g] : hist[g][x].kv.config = cmd.Num - 1 /\ shardsStateReady(hist[g][x].kv)
    BY <1>2, <2>1
  <2>3. hist[g][x].kv.config = m BY <1>1, <2>1, <2>2
  <2>4. StateInv(g, hist[g][x].kv) BY ZenonT(60) DEF OwnershipInv
  <2>5. \A i \in Shard : Frontier(g).shardsState[i] \in {"SERVING", "NO_SERVING"}
    BY ZenonT(60), <2>2, <2>3, <2>4 DEF StateInv, shardsStateReady
  <2> QED BY <1>2, <2>1, <2>5 DEF shardsStateReady
<1> QED BY <1>3, <1>4

\* A commit takes its group forward.
LEMMA CommitForward ==
    ASSUME TypeOK, OwnershipInv, NEW g \in Gid, NEW cmd \in pending[g], Commit(g, cmd)
    PROVE  Forward
<1>1. Frontier(g) \in KvType /\ cmd \in Command BY ZenonT(60), LastState DEF TypeOK
<1>2. PICK kv \in KvType, new \in KvType : kv = Frontier(g) /\ new = applyCommand(kv, cmd, g) BY ZenonT(60), <1>1, ApplyType
<1>7. kv.config <= new.config
  <2>0. kv.config \in Nat BY DEF KvType
  <2>1. CASE new.config = kv.config BY <2>0, <2>1
  <2>2. CASE TakesConfig(kv, cmd, g, new)
    <3>1. cmd.Num = kv.config + 1 BY <1>2, <2>2, ConfigIsNext DEF TakesConfig
    <3> QED BY SMTT(40), <2>0, <2>2, <3>1 DEF TakesConfig
  <2>3. CASE KeepsShards(kv, new) \/ TakesShard(kv, cmd, new) \/ DropsShard(kv, cmd, new)
    BY ZenonT(60), <2>1, <2>3 DEF KeepsShards, TakesShard, DropsShard
  <2> QED BY ZenonT(60), <1>1, <1>2, <2>2, <2>3, ApplyShape
<1>3. \A h \in Gid : Frontier(h).config \in Nat BY LastState DEF KvType
<1>4. \A h \in Gid : Frontier(h).config <= (Frontier(h).config)'
  <2> SUFFICES ASSUME NEW h \in Gid PROVE Frontier(h).config <= (Frontier(h).config)'
    BY ZenonT(60)
  <2>1. CASE h = g BY SMTT(40), ZenonT(60), <1>2, <1>7, <2>1, CommitEffect
  <2>2. CASE h # g BY SMTT(40), <1>3, <2>2, CommitEffect
  <2> QED BY <2>1, <2>2
<1>5. \A h \in Gid : \A x \in DOMAIN hist[h] : x \in DOMAIN hist'[h] /\ hist'[h][x] = hist[h][x] BY CommitEffect
<1>6. latest \in Nat /\ configs' = configs BY ConfigType DEF Commit
<1> QED BY <1>4, <1>5, <1>6 DEF Forward, latest

\* What the new owner of a shard gets: it has been handed over by all others.
LEMMA HandedNext ==
    ASSUME TypeOK, NEW g \in Gid, NEW i \in Shard, NEW n \in Nat, Handed(i, n - 1, g), Owner(n, i) = g
    PROVE  Handed(i, n, g)
<1> SUFFICES ASSUME NEW k \in 1..n, Owner(k, i) \in Gid \ {g} PROVE Frontier(Owner(k, i)).config > k
  BY DEF Handed
<1>1. k # n OBVIOUS
<1>2. k \in 1..(n - 1) BY <1>1, SMTT(40)
<1> QED BY <1>2 DEF Handed

\* The state that a commit leads to, by the kind of command.
LEMMA CommitState ==
    ASSUME TypeOK, OwnershipInv, NEW g \in Gid, NEW cmd \in pending[g],
           NEW new \in KvType, new = applyCommand(Frontier(g), cmd, g)
    PROVE  /\ new.config <= latest
           /\ \A i \in Shard :
                /\ new.config = 0 => new.shardsState[i] = "NO_SERVING"
                /\ new.shardsState[i] \in {"SERVING", "PULLING"} <=> Owner(new.config, i) = g
                /\ new.shardsState[i] = "SERVING" => Handed(i, new.config, g)
                /\ new.shardsState[i] = "BEPULLED" => Handed(i, new.config - 1, g)
<1> DEFINE kv == Frontier(g)
           m == kv.config
<1>1. kv \in KvType /\ cmd \in Command /\ m \in Nat /\ StateInv(g, kv) /\ latest \in Nat
  BY LastState, FrontierInv, ConfigType, ZenonT(60) DEF TypeOK, KvType
<1> HIDE DEF kv
<1>2. CASE KeepsShards(kv, new) BY ZenonT(60), <1>1, <1>2 DEF StateInv, KeepsShards
<1>3. CASE TakesConfig(kv, cmd, g, new)
  <2> USE <1>3 DEF TakesConfig
  <2>1. cmd.Num = m + 1 /\ cmd.Num \in 1..latest /\ (m = 0 \/ shardsStateReady(kv)) BY ZenonT(60), ConfigIsNext DEF kv
  <2>2. new.config = m + 1 /\ new.config <= latest /\ new.config # 0 BY SMTT(40), <1>1, <1>3, <2>1
  <2>3. CASE m = 0
    <3>1. new.config = 1 BY <2>2, <2>3, SMTT(40)
    <3> SUFFICES ASSUME NEW i \in Shard
                 PROVE  /\ new.shardsState[i] \in {"SERVING", "PULLING"} <=> Owner(new.config, i) = g
                        /\ new.shardsState[i] = "SERVING" => Handed(i, new.config, g)
                        /\ new.shardsState[i] = "BEPULLED" => Handed(i, new.config - 1, g)
      BY ZenonT(60), <2>2
    <3>2. new.shardsState[i] = IF Owner(1, i) = g THEN "SERVING" ELSE "NO_SERVING"
      <4>1. kv.shardsState[i] = "NO_SERVING" BY <1>1, <2>3 DEF StateInv
      <4> QED BY SMTT(40), <1>3, <2>1, <2>3, <4>1 DEF firstShardsState
    <3>3. Handed(i, 0, g) BY SMTT(40) DEF Handed
    <3>4. Owner(1, i) = g => Handed(i, 1, g) BY <3>3, HandedNext
    <3> QED BY <3>1, <3>2, <3>4
  <2>4. CASE m # 0
    <3> SUFFICES ASSUME NEW i \in Shard
                 PROVE  /\ new.shardsState[i] \in {"SERVING", "PULLING"} <=> Owner(m + 1, i) = g
                        /\ new.shardsState[i] = "SERVING" => Handed(i, m + 1, g)
                        /\ new.shardsState[i] = "BEPULLED" => Handed(i, m, g)
      BY <1>1, <2>2
    <3>1. new.shardsState[i] =
              CASE Owner(m, i) = g /\ Owner(m + 1, i) = g -> "SERVING"
                [] Owner(m, i) # g /\ Owner(m + 1, i) = g -> "PULLING"
                [] Owner(m, i) = g /\ Owner(m + 1, i) # g -> "BEPULLED"
                [] OTHER -> "NO_SERVING"
      BY SMTT(40), ZenonT(60), <1>3, <2>1, <2>4 DEF nextShardsState
    <3>2. Owner(m, i) = g => Handed(i, m, g)
      <4>1. kv.shardsState[i] \in {"SERVING", "NO_SERVING"} BY ZenonT(60), <2>1, <2>4 DEF shardsStateReady
      <4> QED BY <1>1, <4>1 DEF StateInv
    <3>3. (Owner(m, i) = g /\ Owner(m + 1, i) = g) => Handed(i, m + 1, g)
      <4>1. m + 1 \in Nat /\ (m + 1) - 1 = m BY ZenonT(60), <1>1, NextNum
      <4> QED BY ZenonT(60), <3>2, <4>1, HandedNext
    <3> QED BY ZenonT(60), <3>1, <3>2, <3>3
  <2> QED BY ZenonT(60), <2>3, <2>4
<1>4. CASE TakesShard(kv, cmd, new)
  <2> USE <1>4 DEF TakesShard
  <2>1. cmd.ShardIndex \in Shard BY ZenonT(60), <1>1, <1>4 DEF Command
  <2>2. Owner(m, cmd.ShardIndex) = g /\ m # 0 BY ZenonT(60), <1>1, <1>4, <2>1 DEF StateInv
  <2>3. Handed(cmd.ShardIndex, m - 1, g) BY ZenonT(60), <1>4 DEF OwnershipInv, CommandInv
  <2>4. Handed(cmd.ShardIndex, m, g) BY ZenonT(60), <1>1, <2>1, <2>2, <2>3, HandedNext
  <2>5. kv.shardsState \in [Shard -> ShardState] BY ZenonT(60), <1>1 DEF KvType
  <2>6. \A i \in Shard : new.shardsState[i] = IF i = cmd.ShardIndex THEN "SERVING" ELSE kv.shardsState[i]
    BY ZenonT(60), <1>4, <2>5
  <2> QED BY <1>1, <1>4, <2>2, <2>4, <2>6, SMTT(40), ZenonT(60) DEF StateInv
<1>5. CASE DropsShard(kv, cmd, new)
  <2> USE <1>5 DEF DropsShard
  <2>1. cmd.ShardIndex \in Shard BY ZenonT(60), <1>1, <1>5 DEF Command
  <2>2. Owner(m, cmd.ShardIndex) # g BY ZenonT(60), <1>1, <1>5, <2>1 DEF StateInv
  <2>3. kv.shardsState \in [Shard -> ShardState] BY ZenonT(60), <1>1 DEF KvType
  <2>4. \A i \in Shard : new.shardsState[i] = IF i = cmd.ShardIndex THEN "NO_SERVING" ELSE kv.shardsState[i]
    BY <1>5, <2>3
  <2> QED BY <1>1, <1>5, <2>2, <2>4, SMTT(40), ZenonT(60) DEF StateInv
<1>6. new = applyCommand(kv, cmd, g) BY ZenonT(60) DEF kv
<1> QED BY <1>1, <1>2, <1>3, <1>4, <1>5, <1>6, ApplyShape, ZenonT(60)

\* Shards that a commit changes were on their way, so that no earlier state of
\* the same configuration has them settled.
LEMMA CommitSettled ==
    ASSUME TypeOK, OwnershipInv, NEW g \in Gid, NEW cmd \in pending[g],
           NEW new \in KvType, new = applyCommand(Frontier(g), cmd, g),
           NEW x \in DOMAIN hist[g], NEW i \in Shard,
           hist[g][x].kv.shardsState[i] \in {"SERVING", "NO_SERVING"}, hist[g][x].kv.config = new.config
    PROVE  new.shardsState[i] = hist[g][x].kv.shardsState[i]
<1> DEFINE kv == Frontier(g)
           m == kv.config
<1>1. kv \in KvType /\ cmd \in Command /\ m \in Nat /\ kv.shardsState \in [Shard -> ShardState]
  BY LastState, ZenonT(60) DEF TypeOK, KvType
<1>2. /\ hist[g][x].kv.config <= m
      /\ hist[g][x].kv.config = m => kv.shardsState[i] = hist[g][x].kv.shardsState[i]
  <2>1. StateInv(g, hist[g][x].kv) BY ZenonT(60) DEF OwnershipInv
  <2> QED BY ZenonT(60), <2>1 DEF StateInv
<1>3. CASE TakesConfig(kv, cmd, g, new)
  <2>1. cmd.Num = m + 1 /\ new.config = cmd.Num BY <1>3, ConfigIsNext DEF TakesConfig
  <2>2. m + 1 <= m BY ZenonT(60), <1>2, <2>1
  <2> QED BY ZenonT(60), <1>1, <2>2, NextNum
<1>4. new = applyCommand(kv, cmd, g) BY Zenon
<1> HIDE DEF kv
<1>5. CASE KeepsShards(kv, new) BY ZenonT(60), <1>2, <1>5 DEF KeepsShards
<1>6. CASE TakesShard(kv, cmd, new) BY ZenonT(60), <1>1, <1>2, <1>6 DEF TakesShard
<1>7. CASE DropsShard(kv, cmd, new) BY ZenonT(60), <1>1, <1>2, <1>7 DEF DropsShard
<1> QED BY <1>1, <1>3, <1>4, <1>5, <1>6, <1>7, ApplyShape, ZenonT(60)

\* A commit preserves the invariant of ownership.
LEMMA CommitOwnership ==
    ASSUME TypeOK, TypeOK', OwnershipInv, NEW g \in Gid, NEW cmd \in pending[g], Commit(g, cmd)
    PROVE  OwnershipInv'
<1>1. PICK new \in KvType : new = applyCommand(Frontier(g), cmd, g) BY ZenonT(60), LastState, ApplyType DEF TypeOK
<1>2. Forward BY ZenonT(60), CommitForward
<1>3. Frontier(g)' = new BY ZenonT(60), <1>1, CommitEffect
<1>4. StateInv(g, new)'
  <2>1. /\ new.config <= latest /\ new.config \in Nat /\ latest' = latest /\ latest \in Nat
        /\ \A i \in Shard : Owner(new.config, i)' = Owner(new.config, i)
    BY <1>1, CommitState, ConfigType, ZenonT(60) DEF Commit, latest, Owner, KvType
  <2>2. \A i \in Shard : /\ new.shardsState[i] = "SERVING" => Handed(i, new.config, g)'
                         /\ new.shardsState[i] = "BEPULLED" => Handed(i, new.config - 1, g)'
    <3>1. new.config \in Int /\ new.config - 1 \in Int /\ new.config - 1 <= latest BY ZenonT(60), <2>1, PreviousNum
    <3> QED BY ZenonT(60), <1>1, <1>2, <2>1, <3>1, CommitState, HandedStays
  <2>3. \A i \in Shard : /\ new.config = 0 => new.shardsState[i] = "NO_SERVING"
                         /\ new.shardsState[i] \in {"SERVING", "PULLING"} <=> Owner(new.config, i) = g
    BY <1>1, CommitState
  <2> QED BY <1>3, <2>1, <2>2, <2>3, SMTT(40) DEF StateInv
<1>5. ASSUME NEW h \in Gid, NEW x \in DOMAIN hist[h] PROVE StateInv(h, hist[h][x].kv)'
  <2>1. hist[h][x].kv \in KvType /\ StateInv(h, hist[h][x].kv) BY LastState DEF OwnershipInv
  <2>2. ASSUME NEW i \in Shard, hist[h][x].kv.shardsState[i] \in {"SERVING", "NO_SERVING"},
               hist[h][x].kv.config = (Frontier(h).config)'
        PROVE  (Frontier(h).shardsState[i])' = hist[h][x].kv.shardsState[i]
    <3>1. CASE h = g
      <4>1. x \in DOMAIN hist[g] /\ hist[g][x].kv.config = new.config BY ZenonT(60), <1>3, <2>2, <3>1
      <4>2. hist[g][x].kv.shardsState[i] \in {"SERVING", "NO_SERVING"} BY ZenonT(60), <2>2, <3>1
      <4>3. new.shardsState[i] = hist[g][x].kv.shardsState[i] BY ZenonT(60), <1>1, <4>1, <4>2, CommitSettled
      <4> QED BY ZenonT(60), <1>3, <3>1, <4>3
    <3>2. CASE h # g
      <4>1. Frontier(h)' = Frontier(h) BY <3>2, CommitEffect
      <4> QED BY ZenonT(60), <2>1, <2>2, <4>1 DEF StateInv
    <3> QED BY ZenonT(60), <3>1, <3>2
  <2>3. PICK kv \in KvType : kv = hist[h][x].kv BY ZenonT(60), <2>1
  <2>4. StateInv(h, kv)' BY <1>2, <2>1, <2>2, <2>3, StateStays
  <2>5. kv = hist'[h][x].kv BY ZenonT(60), <1>2, <2>3 DEF Forward
  <2> QED BY <2>4, <2>5, ZenonT(60) DEF StateInv, Handed, Owner
<1>6. ASSUME NEW h \in Gid PROVE (\A x \in DOMAIN hist[h] : StateInv(h, hist[h][x].kv))'
  <2> SUFFICES ASSUME NEW x \in DOMAIN hist'[h] PROVE StateInv(h, hist[h][x].kv)'
    OBVIOUS
  <2>1. CASE x \in DOMAIN hist[h] BY ZenonT(60), <1>5, <2>1
  <2>2. CASE h = g /\ hist'[h][x].kv = new
    BY ZenonT(60), <1>4, <2>2 DEF StateInv, Handed, Owner
  <2> QED BY <1>1, <2>1, <2>2, CommitEffect
<1>7. ASSUME NEW h \in Gid PROVE (\A c \in pending[h] : CommandInv(h, c))'
  <2> SUFFICES ASSUME NEW c \in pending'[h] PROVE CommandInv(h, c)'
    BY ZenonT(60)
  <2>1. c \in pending[h] /\ c \in Command BY DEF Commit, TypeOK
  <2> QED BY ZenonT(60), <1>2, <2>1, CommandStays DEF OwnershipInv
<1> QED BY ZenonT(60), <1>6, <1>7 DEF OwnershipInv
---------------------------------------------------------------------------
(* Ownership: the other steps *)

\* Empty logs and no commands.
LEMMA InitOwnership == Init => OwnershipInv
<1> SUFFICES ASSUME Init, NEW g \in Gid
             PROVE  \A x \in DOMAIN hist[g] : StateInv(g, hist[g][x].kv)
  BY ZenonT(60) DEF Init, OwnershipInv
<1>1. hist[g] = <<[kv |-> StartServer, cmd |-> {}, value |-> << >>]>> BY Zenon DEF Init
<1>2. DOMAIN hist[g] = {1} /\ hist[g][1].kv = StartServer /\ Frontier(g) = StartServer BY <1>1 DEF Frontier
<1>3. latest = 0 BY DEF Init, latest
<1>4. StartServer.config = 0 /\ \A i \in Shard : StartServer.shardsState[i] = "NO_SERVING" BY DEF StartServer
<1>5. \A i \in Shard : Owner(0, i) = 0 BY DEF Init, Owner, EmptyConfig
<1>6. g # 0 BY GroupAssumption
<1>7. StateInv(g, StartServer) BY <1>2, <1>3, <1>4, <1>5, <1>6, SMTT(40) DEF StateInv
<1> QED BY ZenonT(60), <1>2, <1>7

\* Steps that commit nothing: commands may be started, and configurations made.
LEMMA NoCommitOwnership ==
    ASSUME TypeOK, TypeOK', OwnershipInv, hist' = hist,
           latest <= latest', \A n \in 0..latest : configs'[n + 1] = configs[n + 1],
           \A h \in Gid : \A c \in pending'[h] : c \in pending[h] \/ CommandInv(h, c)
    PROVE  OwnershipInv'
<1>1. \A g \in Gid : Frontier(g).config \in Nat /\ Frontier(g)' = Frontier(g) BY LastState DEF KvType, Frontier
<1>2. Forward BY <1>1, SMTT(40) DEF Forward
<1>3. ASSUME NEW g \in Gid, NEW x \in DOMAIN hist'[g] PROVE StateInv(g, hist[g][x].kv)'
  <2>1. PICK kv \in KvType : kv = hist[g][x].kv BY LastState
  <2>2. StateInv(g, kv) BY ZenonT(60), <2>1 DEF OwnershipInv
  <2>3. StateInv(g, kv)'
    <3>1. \A i \in Shard : (/\ kv.shardsState[i] \in {"SERVING", "NO_SERVING"} /\ kv.config = (Frontier(g).config)')
                           => (Frontier(g).shardsState[i])' = kv.shardsState[i]
      BY <1>1, <2>2 DEF StateInv
    <3> QED BY ZenonT(60), <1>2, <2>2, <3>1, StateStays
  <2>4. kv = hist'[g][x].kv BY <2>1
  <2> QED BY <2>3, <2>4, ZenonT(60) DEF StateInv, Handed, Owner
<1>4. ASSUME NEW g \in Gid, NEW c \in pending'[g] PROVE CommandInv(g, c)'
  <2>1. c \in Command /\ CommandInv(g, c) BY DEF TypeOK, OwnershipInv
  <2> QED BY ZenonT(60), <1>2, <2>1, CommandStays
<1> QED BY ZenonT(60), <1>3, <1>4 DEF OwnershipInv

\* A server's or a clerk's step, with the command it may start.
LEMMA StartOwnership ==
    ASSUME TypeOK, TypeOK', OwnershipInv, UNCHANGED <<configs, hist>>,
           \A h \in Gid : \A c \in pending'[h] : c \in pending[h] \/ CommandInv(h, c)
    PROVE  OwnershipInv'
<1>1. latest' = latest /\ latest \in Nat BY ConfigType DEF latest
<1> QED BY <1>1, NoCommitOwnership

\* The loop that asks the controller for the next configuration.
LEMMA LastConfigOwnership ==
    ASSUME TypeOK, TypeOK', OwnershipInv, NEW g \in Gid, NEW r \in Replica, getLastConfig(g, r)
    PROVE  OwnershipInv'
<1>1. applied[g][r] \in DOMAIN hist[g] /\ Kv(g, r) \in KvType BY ServerState
<1>2. PICK kv \in KvType : kv = Kv(g, r) BY <1>1
<1>3. kv.config \in Nat /\ latest \in Nat BY ConfigType DEF KvType
<1> DEFINE cmd == [type |-> "Config", Num |-> kv.config + 1]
<1>4. kv.config < latest /\ (kv.config = 0 \/ shardsStateReady(kv)) BY ZenonT(60), <1>2 DEF getLastConfig
<1>5. CommandInv(g, cmd)
  <2>1. cmd.Num \in 1..latest /\ cmd.Num - 1 = kv.config BY <1>3, <1>4, SMTT(40)
  <2>2. kv.config # 0 => \E x \in DOMAIN hist[g] : hist[g][x].kv.config = cmd.Num - 1 /\ shardsStateReady(hist[g][x].kv)
    BY <1>1, <1>2, <1>4, <2>1, ZenonT(60) DEF Kv
  <2>3. kv.config = 0 => cmd.Num = 1 OBVIOUS
  <2>4. cmd.type = "Config" OBVIOUS
  <2> HIDE DEF cmd
  <2> QED BY <2>1, <2>2, <2>3, <2>4 DEF CommandInv
<1>6. pending' = [pending EXCEPT ![g] = pending[g] \cup {cmd}] BY <1>2 DEF getLastConfig, start
<1> HIDE DEF cmd
<1>7. \A h \in Gid : \A c \in pending'[h] : c \in pending[h] \/ CommandInv(h, c)
  BY <1>5, <1>6 DEF TypeOK
<1>8. UNCHANGED <<configs, hist>> BY SMTT(40) DEF getLastConfig
<1> QED BY <1>7, <1>8, StartOwnership

\* The old owner that hands out a shard has got it from all owners before, and
\* has itself left the configurations in which it had the shard.
LEMMA RequestOwnership ==
    ASSUME TypeOK, TypeOK', OwnershipInv, NEW call \in calls, NEW s \in Replica, ShardsRequestHandler(call, s)
    PROVE  OwnershipInv'
<1> DEFINE g == call.gid
           t == call.target
           i == call.ShardIndex
           n == call.ConfigNum
<1>1. call \in CallSet BY DEF TypeOK
<1>2. g \in Gid /\ t \in Gid /\ i \in Shard /\ n \in Nat BY <1>1 DEF CallSet
<1>3. applied[t][s] \in DOMAIN hist[t] /\ Kv(t, s) \in KvType BY ZenonT(60), <1>2, ServerState
<1>4. Kv(t, s).config = n /\ Kv(t, s).shardsState[i] = "BEPULLED" BY ZenonT(60) DEF ShardsRequestHandler, handsOut
<1>5. StateInv(t, Kv(t, s)) BY <1>2, <1>3, ZenonT(60) DEF OwnershipInv, Kv
<1>6. n <= latest /\ n <= Frontier(t).config /\ Handed(i, n - 1, t) BY <1>2, <1>4, <1>5, ZenonT(60) DEF StateInv
<1>7. Frontier(t).config \in Nat BY <1>2, LastState DEF KvType
<1> HIDE DEF g, t, i, n
<1>8. Handed(i, n - 1, g)
  <2> SUFFICES ASSUME NEW k \in 1..(n - 1), Owner(k, i) \in Gid \ {g} PROVE Frontier(Owner(k, i)).config > k
    BY DEF Handed
  <2>1. CASE Owner(k, i) = t
    <3>1. Frontier(t).config > k BY <1>2, <1>6, <1>7
    <3> QED BY <2>1, <3>1
  <2>2. CASE Owner(k, i) # t BY <1>6, <2>2, SMTT(40) DEF Handed
  <2> QED BY <2>1, <2>2
<1> DEFINE cmd == [type |-> "ShardRequest", ConfigNum |-> n, ShardIndex |-> i,
                   ShardData |-> [k \in Key |-> IF key2shard(k) = i THEN Kv(t, s).currentState[k] ELSE << >>],
                   ClientSeqNum |-> Kv(t, s).clientSeq]
<1>9. /\ pending' = [pending EXCEPT ![g] = pending[g] \cup {cmd}]
      /\ cmd.type = "ShardRequest" /\ cmd.ConfigNum = n /\ cmd.ShardIndex = i
  BY ZenonT(60) DEF ShardsRequestHandler, start, g, t, i, n
<1> HIDE DEF cmd
<1>10. CommandInv(g, cmd) BY ZenonT(60), <1>6, <1>8, <1>9 DEF CommandInv
<1>11. \A h \in Gid : \A c \in pending'[h] : c \in pending[h] \/ CommandInv(h, c)
  BY <1>2, <1>9, <1>10, SMTT(40) DEF TypeOK
<1>12. UNCHANGED <<configs, hist>> BY ZenonT(60) DEF ShardsRequestHandler
<1> QED BY ZenonT(60), <1>11, <1>12, StartOwnership

\* Confirmations and clerks' commands say nothing about configurations.
LEMMA OtherStartOwnership ==
    ASSUME TypeOK, TypeOK', OwnershipInv, UNCHANGED <<configs, hist>>, NEW cmd, cmd.type \in {"KV", "ShardConfirm"},
           \A h \in Gid : pending'[h] \subseteq pending[h] \cup {cmd}
    PROVE  OwnershipInv'
<1>1. \A h \in Gid : CommandInv(h, cmd) BY DEF CommandInv
<1>2. \A h \in Gid : \A c \in pending'[h] : c \in pending[h] \/ CommandInv(h, c) BY <1>1
<1> QED BY ZenonT(60), <1>2, StartOwnership

\* A new configuration of the controller.
LEMMA ReconfigureOwnership ==
    ASSUME TypeOK, TypeOK', OwnershipInv, NEW config \in Config, Reconfigure(config)
    PROVE  OwnershipInv'
<1>1. hist' = hist /\ pending' = pending BY DEF Reconfigure
<1>2. latest <= latest' /\ \A n \in 0..latest : configs'[n + 1] = configs[n + 1] BY ConfigType, ReconfigureType
<1> QED BY <1>1, <1>2, NoCommitOwnership

\* Clerks start commands of their own only.
LEMMA ClerkOwnership ==
    ASSUME TypeOK, TypeOK', OwnershipInv, ClerkNext
    PROVE  OwnershipInv'
<1>1. CASE UNCHANGED <<configs, hist, pending>> BY <1>1, StartOwnership
<1>2. ASSUME NEW c \in Client, NEW r \in Replica, NEW op \in clerk[c].op, handlerStarts(c, r, op)
      PROVE  OwnershipInv'
  <2> DEFINE g == Owner(clerk[c].config, key2shard(op.Key))
             cmd == [type |-> "KV", ClientID |-> c, SeqNum |-> clerk[c].seqNum,
                     Key |-> op.Key, Optype |-> op.Optype]
  <2>1. pending' = [pending EXCEPT ![g] = pending[g] \cup {cmd}] /\ UNCHANGED <<configs, hist>>
    BY ZenonT(60), <1>2 DEF handlerStarts, start
  <2>2. cmd.type = "KV" BY ZenonT(60)
  <2> HIDE DEF g, cmd
  <2>3. \A h \in Gid : pending'[h] \subseteq pending[h] \cup {cmd} BY ZenonT(60), <2>1 DEF TypeOK
  <2> QED BY <2>1, <2>2, <2>3, OtherStartOwnership
<1> QED BY <1>1, <1>2, ZenonT(60) DEF ClerkNext, ClerkCalls, ClerkQueries, Get, PutAppend, HandlerGivesUp

\* Every step preserves the invariant of ownership.
LEMMA OwnershipNext == TypeOK /\ TypeOK' /\ OwnershipInv /\ [Next]_vars => OwnershipInv'
<1> SUFFICES ASSUME TypeOK, TypeOK', OwnershipInv, [Next]_vars PROVE OwnershipInv'
  BY ZenonT(60)
<1>0. CASE UNCHANGED <<configs, hist, pending>> BY ZenonT(60), <1>0, StartOwnership
<1>1. CASE ServerNext
  <2>1. ASSUME NEW g \in Gid, NEW r \in Replica, applyHandler(g, r) PROVE OwnershipInv'
    BY <1>0, <2>1, Zenon DEF applyHandler
  <2>2. ASSUME NEW g \in Gid, NEW r \in Replica, NEW item \in copied[g][r].pull, ShardsRequesterCalls(g, r, item)
        PROVE  OwnershipInv'
    BY <1>0, <2>2 DEF ShardsRequesterCalls
  <2>3. ASSUME NEW g \in Gid, NEW r \in Replica, NEW item \in copied[g][r].confirm, ShardsConfirmCalls(g, r, item)
        PROVE  OwnershipInv'
    BY <1>0, <2>3 DEF ShardsConfirmCalls
  <2>4. ASSUME NEW call \in calls, NEW s \in Replica, ShardsRequestHandler(call, s) PROVE OwnershipInv'
    BY <2>4, RequestOwnership
  <2>5. ASSUME NEW call \in calls, NEW s \in Replica, ShardsConfirmHandler(call, s) PROVE OwnershipInv'
    <3> DEFINE g == call.gid
               cmd == [type |-> "ShardConfirm", ConfigNum |-> call.ConfigNum, ShardIndex |-> call.ShardIndex]
    <3>1. pending' = [pending EXCEPT ![g] = pending[g] \cup {cmd}] /\ UNCHANGED <<configs, hist>>
      BY <2>5 DEF ShardsConfirmHandler, start
    <3>2. cmd.type = "ShardConfirm" OBVIOUS
    <3> HIDE DEF g, cmd
    <3>3. \A h \in Gid : pending'[h] \subseteq pending[h] \cup {cmd} BY <3>1 DEF TypeOK
    <3> QED BY SMTT(40), <3>1, <3>2, <3>3, OtherStartOwnership
  <2> QED BY ZenonT(60), <1>1, <2>1, <2>2, <2>3, <2>4, <2>5 DEF ServerNext
<1>2. ASSUME NEW g \in Gid, NEW cmd \in pending[g], Commit(g, cmd) PROVE OwnershipInv' BY <1>2, CommitOwnership
<1>3. ASSUME NEW g \in Gid, NEW r \in Replica, getLastConfig(g, r) PROVE OwnershipInv' BY <1>3, LastConfigOwnership
<1>4. ASSUME NEW g \in Gid, NEW r \in Replica, ShardsRequester(g, r) \/ ShardsConfirm(g, r) PROVE OwnershipInv'
  BY <1>0, <1>4 DEF ShardsRequester, ShardsConfirm
<1>5. ASSUME NEW call \in calls, CallFails(call) PROVE OwnershipInv' BY <1>0, <1>5 DEF CallFails
<1>6. CASE ClerkNext BY <1>6, ClerkOwnership
<1>7. ASSUME NEW g \in Gid, NEW r \in Replica, NEW index \in 1..Len(hist[g]),
             installSnapshot(g, r, index) \/ Restart(g, r, index)
      PROVE  OwnershipInv'
  BY <1>0, <1>7 DEF installSnapshot, Restart
<1>8. ASSUME NEW config \in Config, Reconfigure(config) PROVE OwnershipInv' BY <1>8, ReconfigureOwnership
<1>9. CASE UNCHANGED vars BY <1>0, <1>9 DEF vars
<1> QED BY ZenonT(60), <1>1, <1>2, <1>3, <1>4, <1>5, <1>6, <1>7, <1>8, <1>9 DEF Next
---------------------------------------------------------------------------
(* The theorems *)

\* Whoever serves a shard, or hands it over, got it when all its earlier owners
\* had left it; the invariant that the two theorems below need.
THEOREM OwnershipHolds == Spec => []OwnershipInv
<1>1. Init => OwnershipInv BY InitOwnership
<1> QED BY <1>1, TypeCorrect, OwnershipNext, PTL DEF Spec

\* No two groups serve a shard at the same time, for any number of groups,
\* servers, shards and configurations, with servers of a group as far apart as
\* Raft lets them be (applyHandler and the loops of server.go).
THEOREM OneOwnerHolds == Spec => []OneOwner
<1>1. TypeOK /\ OwnershipInv => OneOwner
  <2> SUFFICES ASSUME TypeOK, OwnershipInv, NEW g \in Gid, NEW h \in Gid, NEW i \in Shard,
                      Frontier(g).shardsState[i] = "SERVING", Frontier(h).shardsState[i] = "SERVING", g # h
               PROVE  FALSE
    BY ZenonT(60) DEF OneOwner
  <2>1. \A p \in Gid : Frontier(p).config \in Nat BY ZenonT(60), LastState DEF KvType
  <2>2. \A p \in Gid : Frontier(p).shardsState[i] = "SERVING" =>
            /\ Owner(Frontier(p).config, i) = p /\ Handed(i, Frontier(p).config, p) /\ Frontier(p).config # 0
    <3>1. ASSUME NEW p \in Gid PROVE StateInv(p, Frontier(p)) BY ZenonT(60), FrontierInv
    <3> QED BY ZenonT(60), <3>1 DEF StateInv
  <2>3. ASSUME NEW p \in Gid, NEW q \in Gid, p # q, Frontier(p).config <= Frontier(q).config,
               Frontier(p).shardsState[i] = "SERVING", Frontier(q).shardsState[i] = "SERVING"
        PROVE  FALSE
    <3>1. Frontier(p).config \in 1..Frontier(q).config BY <2>1, <2>2, <2>3, SMTT(40)
    <3>2. Owner(Frontier(p).config, i) = p /\ Handed(i, Frontier(q).config, q) BY ZenonT(60), <2>2, <2>3
    <3>3. Frontier(p).config > Frontier(p).config BY <2>3, <3>1, <3>2, SMTT(40) DEF Handed
    <3> QED BY SMTT(40), <2>1, <3>3
  <2>4. Frontier(g).config <= Frontier(h).config \/ Frontier(h).config <= Frontier(g).config BY <2>1
  <2> QED BY <2>3, <2>4
<1> QED BY <1>1, TypeCorrect, OwnershipHolds, PTL

\* A group goes from one configuration to the next, and only when every shard
\* has arrived or is confirmed, although getLastConfig looks at the state of
\* one server before Start and applyHandler does not look again.
THEOREM ConfigWhenReadyHolds == Spec => ConfigWhenReady
<1> DEFINE Ready == \A g \in Gid :
                      (Frontier(g).config)' # Frontier(g).config =>
                          /\ (Frontier(g).config)' = Frontier(g).config + 1
                          /\ Frontier(g).config = 0 \/ settled(Frontier(g))
<1>1. TypeOK /\ OwnershipInv /\ [Next]_vars => [Ready]_vars
  <2> SUFFICES ASSUME TypeOK, OwnershipInv, Next PROVE Ready
    OBVIOUS
  <2>1. CASE hist' = hist BY ZenonT(60), <2>1 DEF Frontier
  <2>2. ASSUME NEW g \in Gid, NEW cmd \in pending[g], Commit(g, cmd) PROVE Ready
    <3>1. PICK kv \in KvType, new \in KvType : kv = Frontier(g) /\ new = applyCommand(kv, cmd, g)
      BY ZenonT(60), LastState, ApplyType DEF TypeOK
    <3>2. cmd \in Command BY ZenonT(60) DEF TypeOK
    <3>3. Frontier(g)' = new /\ \A h \in Gid : h # g => Frontier(h)' = Frontier(h) BY ZenonT(60), <2>2, <3>1, CommitEffect
    <3>4. new.config # kv.config => /\ new.config = kv.config + 1
                                    /\ kv.config = 0 \/ shardsStateReady(kv)
      <4>1. CASE TakesConfig(kv, cmd, g, new) BY ZenonT(60), <3>1, <4>1, ConfigIsNext DEF TakesConfig
      <4>2. CASE KeepsShards(kv, new) \/ TakesShard(kv, cmd, new) \/ DropsShard(kv, cmd, new)
        BY <4>2, SMTT(40) DEF KeepsShards, TakesShard, DropsShard
      <4> QED BY ZenonT(60), <3>1, <3>2, <4>1, <4>2, ApplyShape
    <3>5. shardsStateReady(kv) => settled(kv) BY SMTT(40) DEF shardsStateReady, settled
    <3> QED BY ZenonT(60), <3>1, <3>3, <3>4, <3>5
  <2>3. hist' = hist \/ \E g \in Gid : \E cmd \in pending[g] : Commit(g, cmd)
    <3>1. ServerNext => hist' = hist
      BY ZenonT(60) DEF ServerNext, applyHandler, ShardsRequesterCalls, ShardsConfirmCalls, ShardsRequestHandler,
             ShardsConfirmHandler
    <3>2. ClerkNext => hist' = hist
      <4>1. ASSUME NEW c \in Client, NEW r \in Replica, Get(c, r) \/ PutAppend(c, r) PROVE hist' = hist
        <5>1. PICK op \in clerk[c].op : handlerStarts(c, r, op) BY <4>1 DEF Get, PutAppend
        <5> QED BY <5>1 DEF handlerStarts
      <4> QED BY <4>1, Zenon DEF ClerkNext, ClerkCalls, ClerkQueries, HandlerGivesUp
    <3>3. (\E g \in Gid, r \in Replica : getLastConfig(g, r) \/ ShardsRequester(g, r) \/ ShardsConfirm(g, r))
            => hist' = hist
      BY DEF getLastConfig, ShardsRequester, ShardsConfirm
    <3>4. (\E call \in calls : CallFails(call)) => hist' = hist BY DEF CallFails
    <3>5. (\E g \in Gid, r \in Replica : \E index \in 1..Len(hist[g]) :
              installSnapshot(g, r, index) \/ Restart(g, r, index)) => hist' = hist
      BY DEF installSnapshot, Restart
    <3>6. (\E config \in Config : Reconfigure(config)) => hist' = hist BY DEF Reconfigure
    <3> QED BY <3>1, <3>2, <3>3, <3>4, <3>5, <3>6, ZenonT(60) DEF Next
  <2> QED BY <2>1, <2>2, <2>3, ZenonT(60)
<1> QED BY <1>1, TypeCorrect, OwnershipHolds, PTL DEF Spec, ConfigWhenReady
=================================================================================
