# Sharded-KV in TLA+

A model of the distributed key/value store in this repository: what its Go code
does, as TLA+ modules that TLC checks on small instances, and theorems about
them that TLAPS checks for instances of every size. Paths are relative to the
directory of the Go packages: `raft/raft.go` stands for `src/raft/raft.go` of
the repository.

## The system

| Part | Code | State that matters |
|---|---|---|
| Raft | `raft/raft.go`, `raft/persister.go` | terms, votes, log, commit and apply indexes, snapshot; `nextIndex` and `matchIndex` of a leader; what the persister holds |
| Key/value service | `kvraft/server.go`, `client.go` | store, client sessions (`clientSeq`), wait channels per log index, snapshots |
| Shard controller | `shardctrler/server.go`, `client.go` | the history of configurations (shard -> group), wait channels, clerks that retry |
| Sharded service | `shardkv/server.go`, `client.go` | the store, sessions, the state of each shard (SERVING, NO_SERVING, PULLING, BEPULLED), current and previous configuration |
| MapReduce | `mr/coordinator.go`, `worker.go` | task tables and stage, files of map and reduce tasks |
| Linearizability checker | `porcupine/checker.go`, `bitset.go`, `models/kv.go` | the linked list, the stack and the cache of the search; the goroutines, timer and kill flag around it |
| Simulated network | `labrpc/labrpc.go`, `raft/config.go` | ends, servers, calls that are lost, delayed, reordered, cut off by a crash |
| Encoding, test tools | `labgob`, `porcupine/visualization.go`, `main`, `mrapps`, the other `config.go` | none of the protocols' |

Every service sits on a Raft group: a handler calls `Start`, a goroutine
(`applyHandler`) applies what Raft commits and wakes the handler through a wait
channel. Raft calls back into the service through `applyCh`, and the service
calls `Snapshot` and `CondInstallSnapshot`. The sharded service queries the
controller for configurations and moves shards between groups with two RPCs.

What is hard to test in this code is listed line by line as `hazards` in
`PROJECT.json`; the main groups are

* **Raft:** votes across crashes, requests and replies that arrive late or in
  another order, entries of old terms, index arithmetic behind a snapshot,
  `applyChecker` sending on `applyCh` without the lock, `InstallSnapshot`
  answered before anything is installed;
* **services:** an operation applied at an index that another leader's operation
  took, a handler that times out while its operation is being committed,
  channels left behind, batches that an installed snapshot overtakes, replicas
  that must agree although Go's maps have no order;
* **shard migration:** `config.Num` read without the lock, readiness checked
  before `Start` and not at apply time, groups that wait for one another,
  sessions that must move with their shard;
* **MapReduce:** workers that crash between two writes, slow workers whose tasks
  are given to somebody else, their late reports, `c.Stage` read before the lock;
* **porcupine and labrpc:** a timer that fires while goroutines answer, a server
  that is deleted while a call is in every stage.

## Modules

| Module | Models | Uses |
|---|---|---|
| `Raft` | one Raft group, with the apply loop of the service above it | |
| `KVStore` | the abstract store: what the key/value services promise | |
| `KVRaft` | the replicated service and its clerks | `KVStore` |
| `Rebalance` | the assignment of shards to groups, as operators | |
| `ShardConfig` | the abstract controller: one history of configurations | `Rebalance` |
| `ShardCtrler` | the replicated controller and its clerks | `Rebalance` |
| `ShardKV` | replica groups that migrate shards, and their clerks | `KVStore` |
| `MapReduce` | coordinator, workers and files | |
| `KvModel` | the sequential model the tests check against; linearizability by definition | |
| `Bitset` | sets of numbers as words | |
| `CheckSingle` | the search for a linearization | `KvModel`, `Bitset` |
| `CheckParallel` | the goroutines that run it, one per partition | |
| `Labrpc` | the network and the harness that crashes and restarts servers | |
| `MC...` | bounded instances of the module of that name | that module; `MCShardKV` composes `ShardKV` with `ShardConfig` |
| `...Proofs` | theorems about the module of that name | that module; `RaftProofs` extends `RaftElectionProofs` |

Operators whose comment begins with *Slip:* are not part of a specification.
Each is the definition that follows it with a plausible programming error, kept
to see that a property would notice it (`mutants` in `PROJECT.json`). Helpers
for sequences, sets and functions come from the community modules. The modules
that have theorems do without `SequencesExt`: it brings so many definitions into
every proof obligation that the prover becomes several times slower.

### Raft

`rf[s]` is the `Raft` object of server `s`, its persister included; the dummy
entry `Log[0]` is left out, so position `k` of `rf[s].Log` has index
`lastIncludedIndex + k`. A method that runs under `rf.mu` is an operator from
the old object to the new one, and each critical section is one action:

* `ticker` is an election timeout with the requests it sends; `RequestVote` and
  `candidateRequestVote` are the handler and the candidate's handling of one
  reply, including the victory and its `LeaderState`;
* `Start`, `leaderAppendEntries` and `leaderSendSnapshot` are the leader's side;
  the handler `AppendEntries` is three actions by outcome
  (`AppendEntriesRefuse`, `AppendEntriesMismatch` with the fast backup's hint,
  `AppendEntriesAccept`), and `leaderAppendEntriesReply`,
  `leaderSendSnapshotReply` handle replies (`handleLogInconsistency`,
  `countReplica`);
* `InstallSnapshot` queues the snapshot (`installs`), `CondInstallSnapshot` is
  the service taking it from `applyCh`;
* `applyCheckerCopy`, `applyHandler`, `applyCheckerDone` are `applyChecker`'s two
  critical sections and, in between, the service receiving one entry of the
  batch without Raft's lock, optionally taking a snapshot at it (`Snapshot`);
* `Restart` is a crash followed by `Make` on what was persisted;
  `loseVoteCall` (with its retry), `loseAppendCall`, `loseSnapCall` are a request
  or reply that the network drops.

A call is a record that lives from the moment the caller enters `Call` until it
gets the reply or gives up. The network never duplicates (as `labrpc`), and
delivers in any order. Timeouts are nondeterministic: a timeout may happen
whenever the code's state allows it. `kv[s].applied` is the sequence of entries
the service has applied, so that a snapshot is a sequence of entries.

### The services over a replicated log

`KVRaft`, `ShardCtrler` and `ShardKV` use Raft through what it promises, not
through module `Raft`: a committed `log` that only grows, operations that were
started at an index and may be committed there (`pending`), and any number of
servers that believe themselves leader, so that an index a server was given may
be taken by another server's operation. A server gets an index beyond what it
has applied. That it gets no index that one of its own handlers still holds is an
assumption about time: a handler waits 700 ms, and losing the leadership and
winning it back takes an election timeout of at least a second.

`KVRaft`: a clerk's operation is called, sent, answered or given up and sent to
another server. A handler (`Get`, `PutAppend`) refuses, starts (up to the return of
`Start`), waits (`getWaitCh`), times out or receives, and a goroutine closes its
channel. Raft hands batches to `applyHandler`, which applies one operation and
feeds the channel, takes a snapshot, or installs one that overtakes the batch; a
restart goes back to the last snapshot. Values are sequences of the writes they
consist of, so that a write applied twice or lost shows.

`ShardCtrler`: the same handler stages under its own names, without snapshots: a
restart replays the log. `Rebalance` has `getGIDtoShardsMap` and the loop of
`rebalance` as operators; Go's order of iteration over the map of groups is an
argument. `ShardConfig` is the abstract controller: `Join`, `Leave` and `Move`
append to one history.

`ShardKV`: `hist[g]` is what the log of group `g` has made of a server, state by
state, and a server is a place in it (`applied`), at which restarts and installed
snapshots put it back or forward. `getLastConfig`, `ShardsRequester` and
`ShardsConfirm` are the three background loops; a loop first copies what to do
under the lock (`copied`) and then makes one call after another, each reading
`config.Num` again without the lock. `ShardsRequestHandler` and
`ShardsConfirmHandler` are the calls between groups, which may be lost. `Commit`
applies a command of any of the four kinds to the group's state. Wait channels
are reduced to the answer a handler may give: their control is that of `KVRaft`.

### The rest

`MapReduce`: `requestTask`, `reportTask` and `checkTask` are the coordinator's
handlers (`checkTask` reads `c.Stage` before the lock); a worker's task is a step
for each file it makes, fills, renames or reads; `Crash` may come between any
two and `Respawn` replaces the worker. `TenSeconds` lets a task's ten seconds pass
at any time, whether its worker is dead or slow (`mrapps/crash.go` sleeps up to ten
seconds in each Map and for each key of a Reduce): the task is given out again,
two live workers write the same files, and either's report counts. The history
variable `shared` has the tasks for which this happened.

`CheckSingle` is `checkSingle` turn by turn: the doubly linked list, `lift` and
`unlift`, the cache of configurations and the longest partial linearizations,
with `kill` set at any time. `CheckParallel` is `checkParallel`: goroutines that
send on a buffered channel, the caller's loop, its timer, and the wait for the
rest when information is wanted.

`Labrpc` is `Call`, `processReq` and the network's tables, together with the
order in which `crash1`, `start1`, `connect` and `disconnect` of the harness touch
them: a crashed instance goes on running with a persister that nobody reads.

## What TLC checks

| Run | Instances (a behaviour is one of one of them) | Properties |
|---|---|---|
| `raft` | 3 servers: `Votes` (two candidates, a crash), `Retries` (lost votes), `OldEntry` (4 terms, Figure 8 of the Raft paper), `Conflicts` (2 terms, 2 indexes), `Reordered` (2 log calls), `BatchAndSnapshot`, `SnapshotAndLeader`, `SnapshotAndCrash`, `SnapshotAndLoss` | `ElectionSafety`, `ElectionInv`, `CommitAgreement`, `ElectableHasCommitted`, `LogMatching`, `IndexesInLog`, `MatchIndexSound`, `AppliedInOrder`, `CommittedStays` |
| `shard_config` | 4 shards, 3 groups, 7 configurations | `RebalanceBalanced`, `RebalanceMinimal`, `RebalanceTerminates` |
| `ctrler` | 2 servers, 2 shards, 2 groups: `TwoClerks` (one changes what the other reads), `OneClerk` (all requests, a restart) | `ReplicasAgree`, `AckedCommitted`, `QueriesSeeAcked`, `ChannelsOwned` |
| `ctrler_dedup` | the same | `AppliedOnce` is violated |
| `kvraft` | 2 servers, 1 key: `TwoClerks`, `Retries`, `Restarted`, `Overtaken` (snapshots overtake a batch) | `StateIsLogPrefix`, `Linearizable` |
| `shardkv_clerks` | 1 shard that moves between 2 groups: `TwoClerks`, `Copies`, `Restarted`, `Behind` (2 replicas, installed snapshots) | `ReplayIdle`, `Linearizable` |
| `shardkv_migration` | 2 shards: `BackAndForth` (2 groups, all rounds overlap), `ThirdGroup` (3 groups, 5 configurations), `AllChanges`, `LeaveAll` (no group is left, one joins again), `Losses` | `OneOwner`, `OwnershipInv`, `ConfigWhenReady`, `MigrationsComplete` |
| `shardkv_confirm` | 1 shard, 3 groups: `ThirdGroup` | `ConfirmedIsHeld` is violated |
| `mr` | 2 workers, 3 map and 2 reduce tasks, 2 faults (a crash, or a live worker that is late) | `DoneMeansOutput`, `FinalizedOnExit`, `NothingLost`, `NoPanic`, `JobFinishes` |
| `porcupine_search` | histories on one key: 3 operations with two times for their calls and returns, and 4 operations as events in every order; words of 2 bits | `Verdict`, `ListIntact`, `PartialsAreLongest` |
| `porcupine_parallel` | up to 3 partitions, with and without timer and information | `ResultRight`, `InfoComplete`, `Returns`, `GoroutinesEnd` |
| `labrpc` | 2 hosts, one restarted once, 2 calls, one of which may hang | `PositiveMeansKept`, `CrashedCannotSend`, `CallsReturn`, `GoroutinesEnd` |

What the properties say:

* `ElectionSafety`: one leader per term. `ElectionInv` says why: a vote that is
  granted in a reply, or counted, is remembered by its voter, also on disk.
* `CommitAgreement`, `ElectableHasCommitted`, `LogMatching`: servers never
  disagree on a committed entry, no server that could win an election lacks one,
  and logs that agree on an entry agree on everything before it.
* `CommittedStays` (an action property): no step removes an entry below the
  commit index from the log that holds it, delayed requests included.
* `MatchIndexSound`: above its snapshot, what a leader counts as replicated on a
  peer is on it. At or below the snapshot `matchIndex` may be wrong, because
  `InstallSnapshot` answers before anything is installed; `countReplica` never
  counts there. `IndexesInLog`: the index arithmetic of the fast backup and of
  `applyChecker` never leaves the log.
* `AppliedInOrder`: every service applies each entry once and in order, with
  batches and snapshots racing for `applyCh`, and across crashes.
* `RebalanceBalanced`, `RebalanceMinimal`, `RebalanceTerminates`: for every
  assignment that Joins, Leaves and Moves can reach and every set of groups that
  may come next, the loop ends with counts that differ by at most one, moves no
  more shards than any balanced assignment must, and ends in time, whatever the
  order of the map.
* `ReplicasAgree`, `AckedCommitted`, `QueriesSeeAcked`, `ChannelsOwned`: replicas
  of the controller make the same configurations, an OK means that this operation
  is committed, a query returns nothing older than what any clerk had been told
  before it was called, and every wait channel is removed once.
* `StateIsLogPrefix`: the maps of a kvraft server, and every snapshot, are what a
  prefix of the log makes of them.
* `Linearizable` (of `KVRaft` and of `ShardKV`): the service implements `KVStore`.
  The mapping takes the store from the end of the log, respectively from the group
  that holds a shard; a write is executed when a session has its number, and a
  Get has seen what its copies in the log have read.
* `OneOwner`, `OwnershipInv`: no two groups serve a shard, because whoever serves
  it got it when all earlier owners had gone on. `ConfigWhenReady`: a group takes
  configurations one by one, each when its shards have arrived and are confirmed.
  `ConfirmedIsHeld`: what a confirmation deletes is held by its new owner.
  `ReplayIdle`: entries that Raft delivers again after an installed snapshot
  would change nothing, in any later state.
* `MigrationsComplete`: every group reaches the last configuration with its shards
  arrived and confirmed, or some group is stranded for ever. There are two ways to
  be (`stranded`), and the instances reach both: the old owner of a shard has
  deleted it on the word of the wrong group (`ThirdGroup`, see below), or the last
  group has left: nobody confirms a shard of group 0 (`shardkv/server.go:312`),
  and a group that joins later pulls from group 0, which has no servers
  (`LeaveAll`). There is no third way.
* `DoneMeansOutput`, `FinalizedOnExit`, `NothingLost`: a task marked done has its
  output, nobody exits before the output is complete, and no record is lost, with
  crashes between any two writes and slow workers, but for what two live workers
  shared: each names the tasks that must not have been `shared`. `NoPanic`: only the
  late report of a shared map task takes the coordinator down, and no reducer misses
  a file. `JobFinishes`: all processes exit in the end, unless that happened.
* `Verdict`: the search answers whether the history is linearizable by
  definition. `ListIntact`, `PartialsAreLongest`: its list is restored, and the
  partial linearizations it reports cannot be extended.
* `ResultRight`, `InfoComplete`, `Returns`, `GoroutinesEnd`: Ok and Illegal are
  right however the timer and the goroutines race, `longest` is read when it is
  complete, the caller returns and no goroutine is left.
* `PositiveMeansKept`, `CrashedCannotSend`, `CallsReturn`, `GoroutinesEnd`: what was
  answered positively survives a crash at any point, a crashed instance sends
  nothing, `Call` returns and the handler's goroutine ends.

Two statements of the repository do not hold of the code:

* `shardctrler/common.go:89` has `SeqNum` *for deduplication*, but
  `applyToStateMachine` (`shardctrler/server.go:148`) never advances `clientSeq`: a
  retried `Join`, `Leave` or `Move` makes two configurations (`AppliedOnce`).
* `shardkv/server.go:239` answers OK to a confirmation of an older configuration
  *because kv must have been receive the shard data before*. `ShardsConfirm` copies
  targets under the lock and reads `config.Num` after it (`:311`); with three groups
  a round that two configurations overtake asks the old target about the new
  configuration, and the shard is deleted before its new owner has it
  (`ConfirmedIsHeld`). The shard's data is lost, and its new owner waits for ever.

A third holds of crashes only. `mrapps/crash.go:4` is an application that *sometimes
crashes, and sometimes takes a long time, to test MapReduce's ability to recover*;
`main/test-mr.sh:204` says that *a process has exited. this means that the output
should be finalized*, and `:267` compares the output with the right one. Without
their exceptions `DoneMeansOutput`, `FinalizedOnExit` and `NothingLost` are violated
by a single `TenSeconds` for a live worker: the second worker of a map task renames
an empty file over the complete one that the first is credited for
(`mr/worker.go:195`), the second worker of a reduce task truncates the output
(`:123`), and a map report that comes in the reduce stage marks the reduce task of
the same number as done (`mr/coordinator.go:184`), or is an index out of range where
there are more map tasks than reduce tasks. Run `mr` checks that nothing else goes
wrong in these behaviours.

### Bounds

Every bound is a guard in an `MC` module and has a name: terms, log indexes,
calls in flight, and budgets for starts, faults, crashes, losses, batches and
snapshots in a behaviour. They are chosen per instance so that its case happens:
three servers are the smallest group in which majorities differ; the Figure 8
history needs four terms and one index; a conflict that the fast backup repairs
needs two indexes; a reordering needs two log calls in flight; a batch that races
a snapshot needs two batches. For the services two servers, both of which may
believe themselves leader, are enough for lost indexes and stale answers. The
confirmation that comes too late needs three groups and five configurations
(`ThirdGroup`: the shard's route is fixed, the controller waits for all groups
before it makes the next configuration, and only group 1's confirmations overlap);
back and forth between two groups a round meets a second handover with four. Where
the rounds of a loop do not overlap, a round waits for the calls it would make
again. Clerks meet one move of their shard: a longer journey is left to the
migrations without clerks. In `porcupine_search` the two times make calls and
returns that coincide; operations one after the other are among the events. `WordBits` is 2 so that three operations
need two words. Views drop what no later step reads: calls whose remaining steps
change nothing, and the tables of servers that are not leader; the instances that
check `ElectionInv` or fairness of the calls use none. Servers, replicas, clerks
and workers are interchangeable, which gives the symmetry; runs with liveness
properties use none. Runs set `CHECK_DEADLOCK FALSE` because the budgets run out,
or because the program ends.

In `mr`, two faults are enough for a task that is shared while another worker
crashes, and for a task that is late twice.

Some cases the bounds or an assumption leave out. The fast backup's hint is computed
on logs with conflicting terms and on logs behind a snapshot, not on one that is
both. What `matchIndex` says at or below a snapshot is not checked (nothing reads
it). That Raft's apply loop goes on after a restart from a snapshot is checked with
few entries; `kvraft` checks what a service makes of it. A wait channel closed twice
would need two handlers of one server at one index, which the assumption about time
above excludes. `CheckParallel`'s channel has room for every answer (`room`), as the
code makes it with that capacity; a smaller one is the slip.

### Fairness

Fairness is of the actions that the `MC` module's next-state relation takes, bounds
included.

* `ShardKV`: weakly fair are Raft's commits, `applyHandler` and the three loops
  with their calls (goroutines that run for ever, in a group that has a leader);
  strongly fair is that a call a loop makes again and again is answered once (the
  network loses some calls, not all). Commands and calls that can have no effect any
  more are neither committed nor answered, and the view leaves them out.
* `MapReduce`: weakly fair are the workers' loops (a slow worker goes on in the
  end), `Respawn` (the tests restart workers), the ten seconds of a task nobody
  holds, and the coordinator's `Done`.
* `CheckParallel`: goroutines, the caller and the timer.
* `Labrpc`: `processReq`, the goroutine that drains the channel, and the handlers
  of calls that are not meant to hang.

## What is proved

For every value of the constants; the assumptions are the named `ASSUME`s of the
modules (finite sets of servers and groups, a sentinel that is no server, sizes
that are positive numbers), and the runs evaluate them. All theorems are about
the components' own specifications, without the bounds of the `MC` modules.

| Module | Theorem | States |
|---|---|---|
| `RaftProofs` | `TypeCorrect` | `Spec => []TypeOK` |
| | `ElectionInvariant`, `OneLeaderPerTerm` | `[]ElectionInv`, `[]ElectionSafety` |
| `KVRaftProofs` | `TypeCorrect` | the types of all variables |
| | `StateIsLogPrefixHolds`, `ChannelsOwnedHolds` | `[]StateIsLogPrefix`, `[]ChannelsOwned` |
| | `Refinement` | `Spec => Linearizable`: the service implements `KVStore` |
| `ShardCtrlerProofs` | `TypeCorrect` | the types of all variables |
| | `ReplicasAgreeHolds`, `AckedCommittedHolds`, `QueriesSeeAckedHolds`, `ChannelsOwnedHolds` | the four invariants of run `ctrler` |
| `ShardKVProofs` | `TypeCorrect` | `[]TypeOK` |
| | `OwnershipHolds`, `OneOwnerHolds` | `[]OwnershipInv`, `[]OneOwner` |
| | `ConfigWhenReadyHolds` | the action property `ConfigWhenReady` |
| `MapReduceProofs` | `DoneMeansOutputHolds`, `FinalizedOnExitHolds`, `NothingLostHolds` | invariants of run `mr`, with crashes and slow workers |
| | `Invariance`, `NoPanicHolds` | the inductive invariant `IInv`, `[]NoPanic` |
| `CheckParallelProofs` | `ResultRightHolds`, `InfoCompleteHolds` | the invariants of run `porcupine_parallel` |
| `LabrpcProofs` | `Invariance`, `PositiveMeansKeptHolds`, `CrashedCannotSendHolds` | `[]LabrpcInv` and the invariants of run `labrpc` |

The argument of each:

**Raft, elections.** `ElectionSafety` is not inductive: two leaders of a term must
have shared a voter, and the voter's promise sits in replies, in the candidates'
counts and on disk. `ElectionInv` adds that (`VotePersisted`) the persisted term
and vote are the ones in memory, (`VotesCounted`) a candidate's `getVotesNum` is
the number of `voters` and a leader has a majority of them, (`VoteCallsCurrent`,
`OneVoteCall`) a vote call carries a term its caller has reached, and there is one
per peer and term whose vote has not been counted, (`GrantsRemembered`) whoever
granted a vote is a follower of that term with that vote, or in a later term, and
(`OneGrantPerTerm`) no server grants votes to two candidates of one term. An
AppendEntries request makes a candidate of the same term forget its vote
(`FollowerState`); the invariant is stated so that this is harmless. Steps that
concern logs, snapshots and applying are `Quiet`: they leave the election's part
of the state alone, or move a server to a later term without a vote. A timeout, a
granted vote and a counted vote are proved one by one; then two majorities
intersect. `TypeOK` is inductive, with a lemma per operator on the `Raft` object.

**KVRaft.** `machine[n]` is the state after the first `n` operations of the log.
The inductive invariant says that (`Indexes`) what Raft hands over is in the log,
(`States`) maps and snapshots are states `machine[n]`, (`Owned`) every channel has
one handler or one goroutine that closes it, (`Answers`) what is on a channel or
in a reply is the outcome of that operation where the log has it, (`Sessions`)
`clientSeq` is the greatest number of the client in the log, and (`Clerks`) a
clerk has one operation with one live call, and what it had before is in the log.
With it every step maps to a step of `KVStore` or to a stutter: committing the
first copy of a write executes it, committing a copy of a Get adds to what it has
seen, a clerk's return is a return, everything else changes nothing.

**ShardCtrler.** `Configs`: a server's configurations are one per applied operation
that is no Query, each made by its operation from the one before (`Makes`), for
some order of Go's map; two servers that have both have the same, because sorting
forgets the order (`Sorting`). `Told`: what any clerk knew of when a request was
called is in the log before that request's operation. So a Query's answer, taken
when its own operation is applied, cannot be older.

**ShardKV.** `StateInv` holds of every state of a group's log and `CommandInv` of
every command that may still be committed: a group in state SERVING or handing
over got the shard when all its earlier owners had gone on (`Handed`), and a
configuration command was justified by a state of the log in which the group was
ready. From there a group cannot have become unready in the same configuration.

**MapReduce.** `Workers` says what a worker with a task has done so far: more if
nobody shared it, since nobody else then touched its files. `Distinct`: two live
workers have one task only if it is in `shared`. `Tables`: what the tables and files
say of each other, again for the tasks that were not shared; a report that is taken
for a task of the other stage is one of a shared map task. `Exits`: when processes
exit or panic. The only assumption is that there is a map task and a reduce task.

**CheckParallel.** `Honest`: nobody is killed while the caller counts, so answers are
verdicts; `Counted` is what `ok` then says.

**Labrpc.** `HarnessInv`, `EndsInv`, `RequestInv`: a server is registered while its
instance is the harness's own, ends of crashed instances are disabled, and a
handler that went on after the crash is not answered positively.

Facts about numbers that need the library (a set of naturals has a least element,
finite sets are counted, what a recursive function such as `machineOf` computes)
are the hypotheses `Least`, `Counting`, `Machine` of the lemmas and are proved at
the end of a module: the library's theorems slow down every obligation below them.
Induction over the log's length is done by its least counterexample.

## What is only model-checked

* Liveness: `MigrationsComplete`, `JobFinishes`, `Returns`, `GoroutinesEnd`,
  `CallsReturn`. Fairness and `ENABLED` are out of the prover's reach.
* `RebalanceBalanced`, `RebalanceMinimal`, `RebalanceTerminates`, and porcupine's
  `Verdict`, `ListIntact`, `PartialsAreLongest`: what a loop computes for every
  input is an induction over data; the search also uses `Bitwise`.
* `ReplayIdle` and `Linearizable` of `ShardKV`: their invariant relates the data of
  a shard, its sessions and all copies of an operation in several logs.
  `ConfirmedIsHeld` is violated.
* Raft's log: `CommitAgreement`, `ElectableHasCommitted`, `LogMatching`,
  `IndexesInLog`, `MatchIndexSound`, `AppliedInOrder`, `CommittedStays`. They
  depend on one another through snapshots, which stand for a prefix of the log
  that is no longer there.

## Not modelled

`labgob` (encoding), `porcupine/visualization.go` (an HTML page), `main` and
`mrapps` (programs and plug-ins), debug output, statistics. Of porcupine,
`checkOperations`' partition by key; of shardkv, `RaftLogChecker`, which only adds
empty entries; of Raft, randomised timeouts and therefore the liveness of
elections. `ShardKV`'s instances leave out that a shard is moved to a group that has
not joined: no group would ever serve it. That `Raft`
implements the log that the services assume is not shown as a refinement; its
safety properties are what that log needs. `PROJECT.json` gives the reason for
each part under `components`. Type invariants are proved where a module has
proofs, and are not repeated in the runs.
