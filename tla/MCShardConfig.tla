----------------------------- MODULE MCShardConfig ------------------------------
(* Every assignment of shards that a bounded number of operations can reach. *)
EXTENDS ShardConfig

CONSTANT MaxConfigs     \* no operation once there are this many configurations

MCNext == Len(configs) < MaxConfigs /\ Next

MCSpec == Init /\ [][MCNext]_configs

\* The next configuration depends on the last one only.
View == <<lastConfig(configs).Shards, lastConfig(configs).Groups>>
=================================================================================
