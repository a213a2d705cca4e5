------------------------------ MODULE ShardConfig -------------------------------
(***************************************************************************)
(* What the shard controller promises: one numbered history of             *)
(* configurations, each made from the one before it by a Join, a Leave or  *)
(* a Move.  The replicated service that keeps it is ShardCtrler.           *)
(***************************************************************************)
EXTENDS Rebalance

VARIABLE configs    \* sc.configs, indexed from 1: configs[n + 1] has number n

Init == configs = <<EmptyConfig>>

Join(gids) ==
    \E order \in orders(lastConfig(configs).Groups \cup gids) :
        configs' = Append(configs, nextConfig(lastConfig(configs), lastConfig(configs).Groups \cup gids, order))

Leave(gids) ==
    \E order \in orders(lastConfig(configs).Groups \ gids) :
        configs' = Append(configs, nextConfig(lastConfig(configs), lastConfig(configs).Groups \ gids, order))

Move(shard, gid) == configs' = Append(configs, moveConfig(lastConfig(configs), shard, gid))

Next ==
    \/ \E gids \in (SUBSET Gid) \ {{}} : Join(gids) \/ Leave(gids)
    \/ \E shard \in Shard, gid \in Gid : Move(shard, gid)

Spec == Init /\ [][Next]_configs
---------------------------------------------------------------------------
TypeOK == configs \in Seq(Config) /\ configs # <<>>

\* What any Join or Leave would make of the latest assignment.
Rebalanced(groups, order) == rebalance(lastConfig(configs).Shards, groups, order)

numOwned(shards, g) == Cardinality({i \in Shard : shards[i] = g})

\* Whatever earlier Joins, Leaves and Moves have left, a Join or Leave gives
\* every shard to a live group, and "max/min difference <= 1" (README); when
\* the last group leaves, every shard goes to group 0.
RebalanceBalanced ==
    \A groups \in SUBSET Gid : \A order \in orders(groups) :
        LET shards == Rebalanced(groups, order)
        IN  /\ \A i \in Shard : shards[i] \in IF groups = {} THEN {0} ELSE groups
            /\ \A g, h \in groups : numOwned(shards, g) - numOwned(shards, h) <= 1

\* No more shards change their live owner than any balanced assignment needs
\* (the "minimal transfers" tests of shardctrler/test_test.go, for every
\* assignment that Move can leave behind).
RebalanceMinimal ==
    \A groups \in (SUBSET Gid) \ {{}} : \A order \in orders(groups) :
        LET old == lastConfig(configs).Shards
            new == Rebalanced(groups, order)
            fair == NShards \div Cardinality(groups)
            quotas == {q \in [groups -> {fair, fair + 1}] : SumFunction(q) = NShards}
            surplus(q) == MapThenSumSet(LAMBDA g : Max({0, numOwned(old, g) - q[g]}), groups)
        IN  \A q \in quotas :
                Cardinality({i \in Shard : old[i] \in groups /\ new[i] # old[i]}) <= surplus(q)

\* rebalance's loop ends, within the bound on the iterations.
RebalanceTerminates ==
    \A groups \in SUBSET Gid : \A order \in orders(groups) :
        finished(rebalanceLoop(lastConfig(configs).Shards, groups, liveGroup(order)))

\* The result does not depend on the order in which Go iterates over the map
\* of groups: replicas that apply the same operation make the same configuration.
RebalanceDeterministic ==
    \A groups \in SUBSET Gid :
        Cardinality({Rebalanced(groups, order) : order \in orders(groups)}) = 1
=================================================================================
