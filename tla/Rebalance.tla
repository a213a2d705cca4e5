------------------------------- MODULE Rebalance -------------------------------
(***************************************************************************)
(* The assignment of shards to replica groups: getGIDtoShardsMap and       *)
(* rebalance of src/shardctrler/server.go, and the configurations that     *)
(* Join, Leave and Move make with them.                                    *)
(*                                                                         *)
(* Config.Groups maps a gid to its servers' names; only its keys matter    *)
(* here.  Go iterates over a map in an unpredictable order: the order in   *)
(* which rebalance meets the live groups, one of orders(groups), is its    *)
(* last argument.                                                          *)
(*                                                                         *)
(* An operator whose comment starts with "Slip:" is the definition that    *)
(* follows it with a plausible programming error.                          *)
(***************************************************************************)
EXTENDS Integers, Sequences, FiniteSets, FiniteSetsExt, Functions

CONSTANTS
    NShards,     \* the number of shards (10 in the code)
    Gid          \* the group identifiers clients may use, none of them 0

ASSUME NShardsAssumption == NShards \in Nat \ {0}
ASSUME GidAssumption == Gid \subseteq Nat \ {0} /\ IsFiniteSet(Gid)

Shard == 0..(NShards - 1)

\* The shards of a group in ascending order, as the loop over shards meets them.
shardsOf(shards, Owner(_)) ==
    SelectSeq([k \in 1..NShards |-> k - 1], LAMBDA i : Owner(shards[i]))

getGIDtoShardsMap(shards, groups) ==
    [g \in groups |-> shardsOf(shards, LAMBDA owner : owner = g)]

\* The shards of group 0 and of groups that are not alive.
freeShards(shards, groups) == shardsOf(shards, LAMBDA owner : owner \notin groups)

\* The orders in which a loop over a map with these keys may meet them.
orders(groups) == Bijection(1..Cardinality(groups), groups)

\* Slip: the groups in the order of the map.
liveGroupUnsorted(order) == order

\* sort.Ints
liveGroup(order) ==
    CHOOSE live \in orders(Range(order)) : \A i, j \in DOMAIN live : i < j => live[i] < live[j]

\* The first group of liveGroup with n shards.
firstWith(gidToShards, live, n) ==
    live[Min({k \in DOMAIN live : Len(gidToShards[live[k]]) = n})]

maxShards(gidToShards) == Max({Len(gidToShards[g]) : g \in DOMAIN gidToShards})

minShards(gidToShards) == Min({Len(gidToShards[g]) : g \in DOMAIN gidToShards})

\* Slip: the loop does not look at the free shards that are left.
finishedEarly(st) ==
    DOMAIN st.gidToShards = {} \/ maxShards(st.gidToShards) - minShards(st.gidToShards) <= 1

\* Slip: the loop waits until all groups have the same number of shards.
finishedEqual(st) ==
    /\ st.free = <<>>
    /\ DOMAIN st.gidToShards = {} \/ maxShards(st.gidToShards) = minShards(st.gidToShards)

\* The loop's exit.  Without a live group maxShards - minShards is negative.
finished(st) ==
    /\ st.free = <<>>
    /\ DOMAIN st.gidToShards = {} \/ maxShards(st.gidToShards) - minShards(st.gidToShards) <= 1

\* Without a live group the shard goes to gid -1, which nobody reads.
giveFreeShard(st, live) ==
    LET to == firstWith(st.gidToShards, live, minShards(st.gidToShards))
    IN  [gidToShards |-> IF live = <<>> THEN st.gidToShards
                         ELSE [st.gidToShards EXCEPT ![to] = Append(@, Head(st.free))],
         free        |-> Tail(st.free)]

\* The last shard of the group with the most goes to the group with the fewest.
moveShard(st, live) ==
    LET from == firstWith(st.gidToShards, live, maxShards(st.gidToShards))
        to   == firstWith(st.gidToShards, live, minShards(st.gidToShards))
        most == st.gidToShards[from]
    IN  [st EXCEPT !.gidToShards = [@ EXCEPT ![from] = SubSeq(most, 1, Len(most) - 1),
                                             ![to] = Append(@, most[Len(most)])]]

\* Slip: the groups are evened out before the free shards are handed out.
moveThenGive(st, live) ==
    IF live # <<>> /\ maxShards(st.gidToShards) - minShards(st.gidToShards) > 1
    THEN moveShard(st, live) ELSE giveFreeShard(st, live)

\* One iteration of the loop: free shards first.
giveOrMove(st, live) ==
    IF st.free # <<>> THEN giveFreeShard(st, live) ELSE moveShard(st, live)

\* The bound on the number of iterations; RebalanceTerminates says it is enough.
MaxIterations == 2 * NShards

\* The state of the loop when it ends.
rebalanceLoop(shards, groups, live) ==
    LET iteration[n \in 0..MaxIterations] ==
            IF n = 0
            THEN [gidToShards |-> getGIDtoShardsMap(shards, groups),
                  free        |-> freeShards(shards, groups)]
            ELSE LET st == iteration[n - 1] IN IF finished(st) THEN st ELSE giveOrMove(st, live)
    IN  iteration[MaxIterations]

\* newShards: each live group owns what the loop gave it, 0 owns the rest.
rebalance(shards, groups, order) ==
    LET end == rebalanceLoop(shards, groups, liveGroup(order)).gidToShards
        owners(i) == {g \in groups : i \in Range(end[g])}
    IN  [i \in Shard |-> IF owners(i) = {} THEN 0 ELSE CHOOSE g \in owners(i) : TRUE]
---------------------------------------------------------------------------
(* Configurations *)

Config == [Num : Nat, Shards : [Shard -> Gid \cup {0}], Groups : SUBSET Gid]

EmptyConfig == [Num |-> 0, Shards |-> [i \in Shard |-> 0], Groups |-> {}]

lastConfig(configs) == configs[Len(configs)]

\* The configuration after a Join or a Leave, whose groups are known.
nextConfig(config, groups, order) ==
    [Num    |-> config.Num + 1,
     Shards |-> rebalance(config.Shards, groups, order),
     Groups |-> groups]

moveConfig(config, shard, gid) ==
    [config EXCEPT !.Num = @ + 1, !.Shards[shard] = gid]
=================================================================================
