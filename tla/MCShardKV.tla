------------------------------- MODULE MCShardKV --------------------------------
(***************************************************************************)
(* Bounded instances of ShardKV, composed with the controller's history    *)
(* of configurations, module ShardConfig.  Every bound is a guard.         *)
(***************************************************************************)
EXTENDS ShardKV, TLC

CONSTANT Instances  \* the instances that the behaviours are of

VARIABLES
    bound,          \* the instance: what limits this behaviour
    restarts        \* restarts so far

bounds == <<bound, restarts>>

mcVars == <<vars, bounds>>

Ctrl == INSTANCE ShardConfig

(***************************************************************************)
(* An instance.  Gids: the groups.  Config: configurations the controller   *)
(* makes; Lead: how many of them the controller may be ahead of a group     *)
(* when it makes another; Moves: where the first, second... change after    *)
(* the Join may move shard 0; MoveOnly: there is no other change.  Replica: *)
(* the servers of a group.  Client: the clerks; Ops: the types their first, *)
(* second... operation may have; Copies: copies of an operation in one      *)
(* group's log.  Restarts: how many.  Installs: snapshots are installed.    *)
(* LoseCalls: calls between groups may fail.  Overlap: the loops of groups  *)
(* whose next round may begin while the calls it would make are under way.  *)
(***************************************************************************)
OneMove(R, C) ==
    [Gids |-> {1, 2}, Config |-> 2, Lead |-> 5, Moves |-> <<{1, 2}, {1, 2}, {1, 2}, {1, 2}>>, MoveOnly |-> TRUE,
     Replica |-> R, Client |-> C, Ops |-> <<{"Append"}>>, Copies |-> 1, Restarts |-> 0, Installs |-> FALSE,
     LoseCalls |-> FALSE, Overlap |-> {}]

\* Two clerks at one key.
TwoClerks(r) == [OneMove({r}, Client) EXCEPT !.Ops = <<{"Append", "Get"}>>]

\* A clerk that retries, so that copies are in the logs of both groups.
Copies(r, c) == [OneMove({r}, {c}) EXCEPT !.Ops = <<{"Append", "Put"}, {"Append"}>>, !.Copies = 2]

\* A restart from a snapshot of any age.
Restarted(r, c) == [OneMove({r}, {c}) EXCEPT !.Copies = 2, !.Restarts = 1]

\* A follower or deposed leader that is behind, and may get a snapshot.
Behind(c) == [OneMove(Replica, {c}) EXCEPT !.Installs = TRUE]

\* A shard that goes back and forth between two groups, with overlapping rounds.
BackAndForth == [OneMove(Replica, {}) EXCEPT !.Config = 4, !.Overlap = {1, 2} \X {"ShardsRequest", "ShardsConfirm"}]

\* The same, but the third time it goes to a third group, and on from there,
\* while group 1 may still have a round of ShardsConfirm about the first time.
ThirdGroup ==
    [OneMove(Replica, {}) EXCEPT !.Gids = {1, 2, 3}, !.Config = 5, !.Moves = <<{2}, {1}, {3}, {2}>>,
                                 !.Lead = 0, !.Overlap = {<<1, "ShardsConfirm">>}]

\* All changes of the configuration.
AllChanges == [OneMove(Replica, {}) EXCEPT !.Config = 3, !.MoveOnly = FALSE]

\* Joins and Leaves, until no group is left and one joins again.
LeaveAll == [AllChanges EXCEPT !.Config = 4, !.Moves = <<{}, {}, {}>>]

\* Calls that are lost.
Losses == [OneMove(Replica, {}) EXCEPT !.Config = 4, !.LoseCalls = TRUE]

ClerkInstances ==
    {TwoClerks(r) : r \in Replica} \cup {Behind(c) : c \in Client}
        \cup UNION {{Copies(r, c), Restarted(r, c)} : r \in Replica, c \in Client}

MigrationInstances == {BackAndForth, ThirdGroup, AllChanges, LeaveAll, Losses}

ThirdGroupInstance == {ThirdGroup}

MCInit == Init /\ bound \in Instances /\ restarts = 0

\* The first configuration has every group, and shards are moved to groups that
\* have joined.
Reconfigures ==
    /\ Len(configs) <= bound.Config /\ \A g \in bound.Gids : latest - Frontier(g).config <= bound.Lead
    /\ \/ Len(configs) = 1 /\ Ctrl!Join(bound.Gids)
       \/ /\ Len(configs) > 1
          /\ \/ \E g \in Groups(latest) \cap bound.Moves[latest] : Owner(latest, 0) # g /\ Ctrl!Move(0, g)
             \/ /\ ~bound.MoveOnly
                /\ \E g \in bound.Gids : IF g \in Groups(latest) THEN Ctrl!Leave({g}) ELSE Ctrl!Join({g})
    /\ UNCHANGED <<hist, pending, applied, copied, calls, clerk, bounds>>

\* The copies of a clerk's operation that group g has started or committed.
copies(c, g) ==
    LET mine(cmd) == cmd.type = "KV" /\ cmd.ClientID = c /\ cmd.SeqNum = clerk[c].seqNum
    IN  Cardinality({j \in DOMAIN hist[g] : \E cmd \in hist[g][j].cmd : mine(cmd)})
            + Cardinality({cmd \in pending[g] : mine(cmd)})

\* Two clerks that do nothing but read show nothing: one Get is enough.
mayCall(c, op) ==
    /\ clerk[c].seqNum <= Len(bound.Ops) /\ op.Optype \in bound.Ops[clerk[c].seqNum]
    /\ op.Optype = "Get" => \A other \in Client : clerk[other].got = {} /\ ~calledBy(other, {"Get"})

MCClerkNext ==
    /\ \E c \in bound.Client :
        \/ \E op \in Op : mayCall(c, op) /\ ClerkCalls(c, op)
        \/ clerk[c].config < latest /\ ClerkQueries(c)
        \/ /\ \A op \in clerk[c].op : LET g == Owner(clerk[c].config, key2shard(op.Key))
                                      IN  g \in Gid => copies(c, g) < bound.Copies
           /\ \E r \in bound.Replica : Get(c, r) \/ PutAppend(c, r)
        \/ HandlerGivesUp(c)
    /\ UNCHANGED bounds

\* Commands that can no longer have an effect, and calls that can only start
\* such commands, do not tell states apart.
spent(g, cmd) ==
    LET kv == Frontier(g)
    IN  CASE cmd.type = "KV"           -> FALSE
          [] cmd.type = "Config"       -> cmd.Num <= kv.config
          [] cmd.type = "ShardRequest" -> \/ cmd.ConfigNum < kv.config
                                          \/ cmd.ConfigNum = kv.config /\ kv.shardsState[cmd.ShardIndex] # "PULLING"
          [] cmd.type = "ShardConfirm" -> \/ cmd.ConfigNum < kv.config
                                          \/ cmd.ConfigNum = kv.config /\ kv.shardsState[cmd.ShardIndex] # "BEPULLED"

spentCall(call) ==
    LET kv == Frontier(call.gid)
    IN  \/ call.ConfigNum < kv.config
        \/ /\ call.ConfigNum = kv.config
           /\ kv.shardsState[call.ShardIndex] # IF call.type = "ShardsRequest" THEN "PULLING" ELSE "BEPULLED"

---------------------------------------------------------------------------
(* What the servers do, each as often as it tells states apart *)

runs(g, r) == g \in bound.Gids /\ r \in bound.Replica

MCCommit(g) == \E cmd \in pending[g] : ~spent(g, cmd) /\ Commit(g, cmd) /\ UNCHANGED bounds

MCApply(g, r) == runs(g, r) /\ applyHandler(g, r) /\ UNCHANGED bounds

MCGetLastConfig(g, r) ==
    LET config == [type |-> "Config", Num |-> Kv(g, r).config + 1]
    IN  /\ runs(g, r) /\ config \notin pending[g] /\ ~spent(g, config)
        /\ getLastConfig(g, r) /\ UNCHANGED bounds

\* No call that the round would make is still under way, or it does not matter.
mayBegin(name, g, r, items) ==
    <<g, name>> \in bound.Overlap \/ \A item \in items : callFor(name, g, r, item) \notin calls

MCShardsRequester(g, r) ==
    /\ runs(g, r) /\ mayBegin("ShardsRequest", g, r, shardsToPull(Kv(g, r)))
    /\ ShardsRequester(g, r) /\ UNCHANGED bounds

MCShardsConfirm(g, r) ==
    /\ runs(g, r) /\ mayBegin("ShardsConfirm", g, r, shardsAt(Kv(g, r), "BEPULLED", Kv(g, r).config))
    /\ ShardsConfirm(g, r) /\ UNCHANGED bounds

MCRequesterCalls(g, r) == \E item \in copied[g][r].pull : ShardsRequesterCalls(g, r, item) /\ UNCHANGED bounds

MCConfirmCalls(g, r) == \E item \in copied[g][r].confirm : ShardsConfirmCalls(g, r, item) /\ UNCHANGED bounds

MCRequestHandler(g) ==
    \E call \in calls, s \in Replica :
        call.gid = g /\ runs(call.target, s) /\ ~spentCall(call) /\ ShardsRequestHandler(call, s) /\ UNCHANGED bounds

MCConfirmHandler(g) ==
    \E call \in calls, s \in Replica :
        call.gid = g /\ runs(call.target, s) /\ ~spentCall(call) /\ ShardsConfirmHandler(call, s) /\ UNCHANGED bounds

\* A call that is not answered is as good as lost: losing it matters to liveness.
MCCallFails == \E call \in calls : bound.LoseCalls /\ ~spentCall(call) /\ CallFails(call) /\ UNCHANGED bounds

\* A snapshot of the next command alone does what applyHandler does.
MCInstallSnapshot(g, r) ==
    /\ bound.Installs /\ runs(g, r)
    /\ \E index \in (applied[g][r] + 2)..Len(hist[g]) : installSnapshot(g, r, index) /\ UNCHANGED bounds

MCRestart(g, r) ==
    \E index \in DOMAIN hist[g] :
        /\ runs(g, r) /\ restarts < bound.Restarts /\ Restart(g, r, index)
        /\ restarts' = restarts + 1 /\ UNCHANGED bound

MCNext ==
    \/ Reconfigures \/ MCCallFails \/ MCClerkNext
    \/ \E g \in Gid : MCCommit(g) \/ MCRequestHandler(g) \/ MCConfirmHandler(g)
    \/ \E g \in Gid, r \in Replica :
        \/ MCApply(g, r) \/ MCGetLastConfig(g, r)
        \/ MCShardsRequester(g, r) \/ MCShardsConfirm(g, r) \/ MCRequesterCalls(g, r) \/ MCConfirmCalls(g, r)
        \/ MCInstallSnapshot(g, r) \/ MCRestart(g, r)

MCSpec == MCInit /\ [][MCNext]_mcVars

View ==
    <<configs, hist, [g \in Gid |-> {cmd \in pending[g] : ~spent(g, cmd)}], applied, copied,
      {call \in calls : ~spentCall(call)}, clerk, bounds>>

\* Each loop of a server goes on, Raft commits what is started, applyHandler
\* applies it, and of the calls that a loop makes again and again one gets
\* through: the group has a leader and the network loses only some calls.  What
\* a behaviour does finitely often need be fair to all groups together only.
Fairness ==
    /\ WF_mcVars(\E g \in Gid : MCCommit(g))
    /\ WF_mcVars(\E g \in Gid, r \in Replica : MCApply(g, r))
    /\ WF_mcVars(\E g \in Gid, r \in Replica : MCGetLastConfig(g, r))
    /\ SF_mcVars(\E g \in Gid : MCRequestHandler(g))
    /\ SF_mcVars(\E g \in Gid : MCConfirmHandler(g))
    /\ \A g \in Gid, r \in Replica :
        /\ WF_mcVars(MCShardsRequester(g, r) \/ MCRequesterCalls(g, r))
        /\ WF_mcVars(MCShardsConfirm(g, r) \/ MCConfirmCalls(g, r))

FairSpec == MCSpec /\ Fairness

\* Group g waits for a shard whose old owner has it no more, or for somebody to
\* take a shard that the configuration assigns to no group.
stranded(g) ==
    LET kv == Frontier(g)
    IN  \E i \in Shard :
            \/ /\ kv.shardsState[i] = "PULLING"
               /\ LET h == Owner(kv.prevConfig, i)
                  IN  \/ h = 0
                      \/ Frontier(h).config > kv.config
                      \/ Frontier(h).config = kv.config /\ Frontier(h).shardsState[i] # "BEPULLED"
            \/ kv.shardsState[i] = "BEPULLED" /\ Owner(kv.config, i) = 0

\* Every group takes over the latest configuration, with all of its shards
\* arrived and confirmed: no group waits for ever for another's shard, although
\* calls are lost and groups are in different configurations.  There are two
\* ways to be stuck: the last group leaves, as nobody ever confirms a shard of
\* group 0 (ShardsConfirm passes it over), or the old owner deletes a shard on
\* the word of the wrong group (ConfirmedIsHeld).
MigrationsComplete ==
    \/ <>[](\A g \in bound.Gids : Frontier(g).config = latest /\ settled(Frontier(g)))
    \/ <>[](\E g \in bound.Gids : stranded(g))

Symmetry == Permutations(Client) \cup Permutations(Replica)
=================================================================================
