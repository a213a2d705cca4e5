---------------------------------- MODULE Raft ----------------------------------
(***************************************************************************)
(* One Raft group as src/raft/raft.go implements it, together with the     *)
(* part of the service above it that Raft depends on: the apply loop of    *)
(* src/kvraft/server.go, which installs and takes snapshots.               *)
(*                                                                         *)
(* rf[s] is the Raft object of server s.  Every method that runs under     *)
(* rf.mu is an operator from the old object to the new one, and every      *)
(* critical section is one action.  An RPC is a record that lives from the *)
(* moment the caller's goroutine enters Call() until it gets the reply or  *)
(* gives up: the network may delay, reorder or lose the request or the     *)
(* reply, but never duplicates either.  Two calls in flight with the same  *)
(* caller, callee and arguments are one element of the set.                *)
(*                                                                         *)
(* The dummy entry rf.Log[0] is left out: position k of rf[s].Log is       *)
(* rf.Log[k], the entry with index lastIncludedIndex + k.  The leader's    *)
(* own slots of nextIndex and matchIndex are only ever written by the      *)
(* code, and keep their LeaderState value here.                            *)
(*                                                                         *)
(* Operators whose comment starts with "Slip:" are not part of the         *)
(* specification.  Each is the definition that follows it with a plausible *)
(* programming error, used to see that a property would notice.            *)
(***************************************************************************)
EXTENDS Integers, Sequences, FiniteSets, FiniteSetsExt

CONSTANTS
    Server,      \* the peers of the group
    Command,     \* the commands the service may start
    Nil,         \* votedFor = -1
    MaxRetry     \* candidateRequestVote gives up after this many retries (3)

ASSUME ServerAssumption == IsFiniteSet(Server) /\ Nil \notin Server
ASSUME RetryAssumption == MaxRetry \in Nat

VARIABLES
    rf,          \* the Raft object of each server, with its persister
    kv,          \* the service of each server
    applying,    \* the locals of applyChecker, between its two critical sections
    installs,    \* goroutines of InstallSnapshot blocked on applyCh
    voteCalls,   \* RequestVote calls in flight
    appendCalls, \* AppendEntries calls in flight
    snapCalls    \* InstallSnapshot calls in flight

vars == <<rf, kv, applying, installs, voteCalls, appendCalls, snapCalls>>
---------------------------------------------------------------------------
(* Reading the log *)

Larger(a, b) == IF a >= b THEN a ELSE b

Smaller(a, b) == IF a <= b THEN a ELSE b

getLastLogIndex(r) == r.lastIncludedIndex + Len(r.Log)

\* The term of the entry with (logical) index i; -1 past the end of the log.
getLogAt(r, i) ==
    IF i > getLastLogIndex(r) THEN -1
    ELSE IF i = r.lastIncludedIndex THEN r.lastIncludedTerm
    ELSE r.Log[i - r.lastIncludedIndex].Term

getLastLogTerm(r) == getLogAt(r, getLastLogIndex(r))

\* Slip: the index before the run, as if the loop ran once more.
beforeSameTerm(r, i) ==
    IF i = r.lastIncludedIndex THEN i
    ELSE Min({k \in (r.lastIncludedIndex + 1)..i :
                 \A l \in k..i : getLogAt(r, l) = getLogAt(r, i)}) - 1

\* The first index of the run of entries with the same term that ends at i;
\* the run is cut at the snapshot, whose slot has term 0 in the code.
getSameTermFirst(r, i) ==
    IF i = r.lastIncludedIndex THEN i
    ELSE Min({k \in (r.lastIncludedIndex + 1)..i :
                 \A l \in k..i : getLogAt(r, l) = getLogAt(r, i)})

\* len(rf.peers)/2 < n
IsMajority(n) == n > Cardinality(Server) \div 2

\* Slip: without the requirement log[N].term == currentTerm.
countReplicaAnyTerm(r, me) ==
    LET replicated == {n \in (r.commitIndex + 1)..getLastLogIndex(r) :
                          IsMajority(1 + Cardinality({j \in Server \ {me} : r.matchIndex[j] >= n}))}
    IN  IF replicated = {} THEN Larger(r.commitIndex, r.lastIncludedIndex) ELSE Max(replicated)

\* The highest index of the current term that a majority has, else the old one.
countReplica(r, me) ==
    LET replicated == {n \in (r.commitIndex + 1)..getLastLogIndex(r) :
                          /\ getLogAt(r, n) = r.currentTerm
                          /\ IsMajority(1 + Cardinality({j \in Server \ {me} : r.matchIndex[j] >= n}))}
    IN  IF replicated = {} THEN Larger(r.commitIndex, r.lastIncludedIndex) ELSE Max(replicated)
---------------------------------------------------------------------------
(* The persister, and the changes of role *)

\* Every persistent field at once: SaveRaftState and SaveStateAndSnapshot.
SaveState(r, snapshot) ==
    [r EXCEPT !.persister = [currentTerm       |-> r.currentTerm,
                             votedFor          |-> r.votedFor,
                             Log               |-> r.Log,
                             lastIncludedIndex |-> r.lastIncludedIndex,
                             lastIncludedTerm  |-> r.lastIncludedTerm,
                             snapshot          |-> snapshot]]

\* Slip: the vote is not written to stable storage.
persistWithoutVote(r) ==
    [SaveState(r, r.persister.snapshot) EXCEPT !.persister.votedFor = r.persister.votedFor]

persist(r) == SaveState(r, r.persister.snapshot)

LeaderState(r) ==
    [r EXCEPT !.state = "LEADER",
              !.nextIndex = [p \in Server |-> getLastLogIndex(r) + 1],
              !.matchIndex = [p \in Server |-> -1]]

FollowerState(r, newTerm) ==
    persist([r EXCEPT !.state = "FOLLOWER", !.currentTerm = newTerm, !.votedFor = Nil,
                      !.getVotesNum = 0, !.voters = {}])

CandidateState(r, me) ==
    persist([r EXCEPT !.state = "CANDIDATE", !.currentTerm = @ + 1, !.votedFor = me,
                      !.getVotesNum = 1, !.voters = {me}])

\* Make() on a persister: what a server is after its start, or its restart.
\* voters is a history variable: the servers whose votes getVotesNum counts.
Make(p) ==
    [state |-> "FOLLOWER", currentTerm |-> p.currentTerm, votedFor |-> p.votedFor,
     getVotesNum |-> 0, voters |-> {}, Log |-> p.Log,
     lastIncludedIndex |-> p.lastIncludedIndex, lastIncludedTerm |-> p.lastIncludedTerm,
     commitIndex |-> p.lastIncludedIndex, lastApplied |-> p.lastIncludedIndex,
     nextIndex |-> [s \in Server |-> 1], matchIndex |-> [s \in Server |-> 0],
     persister |-> p]

EmptyPersister ==
    [currentTerm |-> 0, votedFor |-> Nil, Log |-> <<>>, lastIncludedIndex |-> 0,
     lastIncludedTerm |-> 0, snapshot |-> <<>>]

\* The service of a (re)started server: its state is the persisted snapshot.
\* The service state is the sequence of the entries applied so far.
StartKVServer(p) == [applied |-> p.snapshot, lastIncludedIndex |-> 0]

Idle == [busy |-> FALSE, entries |-> <<>>, commitIndex |-> 0]

Init ==
    /\ rf = [s \in Server |-> Make(EmptyPersister)]
    /\ kv = [s \in Server |-> StartKVServer(EmptyPersister)]
    /\ applying = [s \in Server |-> Idle]
    /\ installs = [s \in Server |-> {}]
    /\ voteCalls = {} /\ appendCalls = {} /\ snapCalls = {}
---------------------------------------------------------------------------
(* RPC: labrpc's Call() as seen by its two ends *)

Call(from, to, args, noReply) ==
    [from |-> from, to |-> to, args |-> args, reply |-> noReply,
     stage |-> "sent", retry |-> 0, live |-> TRUE]

NoVote == [Term |-> 0, VoteGranted |-> FALSE]
NoAppend == [Term |-> 0, Success |-> FALSE, LogInconsistency |-> FALSE, XTerm |-> 0, XIndex |-> 0]
NoInstall == [Term |-> 0]

\* The handler has returned; nobody waits for the reply of a killed caller.
Answer(calls, c, reply) ==
    (calls \ {c}) \cup
    (IF c.live THEN {[c EXCEPT !.stage = "answered", !.reply = reply]} ELSE {})

\* What a restart of s does to its calls: their goroutines are gone, but a
\* request that has left may still reach its handler.
Orphan(calls, s) ==
    {c \in calls : c.from # s} \cup
    {[c EXCEPT !.live = FALSE] : c \in {d \in calls : d.from = s /\ d.stage = "sent"}}
---------------------------------------------------------------------------
(* Elections *)

\* The election timer of s fires.
ticker(s) ==
    /\ rf[s].state # "LEADER"
    /\ LET r == CandidateState(rf[s], s)
           args == [Term |-> r.currentTerm, LastLogIndex |-> getLastLogIndex(r),
                    LastLogTerm |-> getLastLogTerm(r)]
       IN  /\ rf' = [rf EXCEPT ![s] = r]
           /\ voteCalls' = voteCalls \cup {Call(s, p, args, NoVote) : p \in Server \ {s}}
    /\ UNCHANGED <<kv, applying, installs, appendCalls, snapCalls>>

upToDate(r, args) ==
    \/ args.LastLogTerm > getLastLogTerm(r)
    \/ args.LastLogTerm = getLastLogTerm(r) /\ args.LastLogIndex >= getLastLogIndex(r)

\* Slip: a vote without a look at the candidate's log.
mayVoteBlindly(r, args, candidate) == args.Term = r.currentTerm /\ r.votedFor \in {Nil, candidate}

mayVote(r, args, candidate) ==
    /\ args.Term = r.currentTerm
    /\ r.votedFor \in {Nil, candidate}
    /\ upToDate(r, args)

RequestVote(c) ==
    LET r == IF c.args.Term > rf[c.to].currentTerm THEN FollowerState(rf[c.to], c.args.Term)
             ELSE rf[c.to]
        grant == mayVote(r, c.args, c.from)
    IN  /\ c.stage = "sent"
        /\ rf' = [rf EXCEPT ![c.to] = IF grant THEN persist([r EXCEPT !.votedFor = c.from]) ELSE r]
        /\ voteCalls' = Answer(voteCalls, c, [Term |-> r.currentTerm, VoteGranted |-> grant])
        /\ UNCHANGED <<kv, applying, installs, appendCalls, snapCalls>>

countVote(r, voter) ==
    LET v == [r EXCEPT !.getVotesNum = @ + 1, !.voters = @ \cup {voter}]
    IN  IF IsMajority(v.getVotesNum) THEN LeaderState(v) ELSE v

\* The candidate's goroutine for one peer gets the reply.
candidateRequestVote(c) ==
    LET r == rf[c.from]
        counts == /\ r.state = "CANDIDATE" /\ r.currentTerm = c.args.Term
                  /\ c.reply.Term = r.currentTerm /\ c.reply.VoteGranted
    IN  /\ c.stage = "answered"
        /\ rf' = [rf EXCEPT ![c.from] =
                      IF c.reply.Term > r.currentTerm THEN FollowerState(r, c.reply.Term)
                      ELSE IF counts THEN countVote(r, c.to) ELSE r]
        /\ voteCalls' = voteCalls \ {c}
        /\ UNCHANGED <<kv, applying, installs, appendCalls, snapCalls>>
---------------------------------------------------------------------------
(* Log replication: the leader's goroutine for one peer *)

\* Reached from Start and from heartBeat, for each peer on its own.
leaderAppendEntries(s, p) ==
    LET r == rf[s]
        prev == r.nextIndex[p] - 1
        args == [Term |-> r.currentTerm, PrevLogIndex |-> prev, PrevLogTerm |-> getLogAt(r, prev),
                 Entries |-> SubSeq(r.Log, prev - r.lastIncludedIndex + 1, Len(r.Log)),
                 LeaderCommit |-> r.commitIndex]
    IN  /\ p # s
        /\ r.state = "LEADER"
        /\ prev >= r.lastIncludedIndex
        /\ appendCalls' = appendCalls \cup {Call(s, p, args, NoAppend)}
        /\ UNCHANGED <<rf, kv, applying, installs, voteCalls, snapCalls>>

\* The same goroutine when the peer needs entries the leader has dropped.
leaderSendSnapshot(s, p) ==
    LET r == rf[s]
        args == [Term |-> r.currentTerm, LastIncludedIndex |-> r.lastIncludedIndex,
                 LastIncludedTerm |-> r.lastIncludedTerm, Data |-> r.persister.snapshot]
    IN  /\ p # s
        /\ r.state = "LEADER"
        /\ r.nextIndex[p] - 1 < r.lastIncludedIndex
        /\ snapCalls' = snapCalls \cup {Call(s, p, args, NoInstall)}
        /\ UNCHANGED <<rf, kv, applying, installs, voteCalls, appendCalls>>

appendCommand(r, command) ==
    persist([r EXCEPT !.Log = Append(@, [Term |-> r.currentTerm, Command |-> command,
                                         Index |-> getLastLogIndex(r) + 1])])

\* The service starts agreement on a command.
Start(s, command) ==
    /\ rf[s].state = "LEADER"
    /\ rf' = [rf EXCEPT ![s] = appendCommand(rf[s], command)]
    /\ UNCHANGED <<kv, applying, installs, voteCalls, appendCalls, snapCalls>>
---------------------------------------------------------------------------
(* Log replication: the follower's handler *)

\* The first thing the handler does: a newer term, or a leader of this term.
appendStepDown(r, args) ==
    IF \/ args.Term > r.currentTerm
       \/ args.Term = r.currentTerm /\ r.state = "CANDIDATE"
    THEN FollowerState(r, args.Term)
    ELSE r

AppendEntriesRefuse(c) ==
    /\ c.stage = "sent"
    /\ c.args.Term < rf[c.to].currentTerm
    /\ appendCalls' = Answer(appendCalls, c, [NoAppend EXCEPT !.Term = rf[c.to].currentTerm])
    /\ UNCHANGED <<rf, kv, applying, installs, voteCalls, snapCalls>>

\* The log contains PrevLogIndex, with PrevLogTerm.
prevMatches(r, args) ==
    /\ args.PrevLogIndex \in r.lastIncludedIndex..getLastLogIndex(r)
    /\ getLogAt(r, args.PrevLogIndex) = args.PrevLogTerm

\* The hint for the leader's fast backup.
backupHint(r, args) ==
    IF args.PrevLogIndex < r.lastIncludedIndex
    THEN [XTerm |-> -1, XIndex |-> r.lastIncludedIndex + 1]
    ELSE IF args.PrevLogIndex > getLastLogIndex(r)
    THEN [XTerm |-> -1, XIndex |-> getLastLogIndex(r) + 1]
    ELSE [XTerm |-> getLogAt(r, args.PrevLogIndex),
          XIndex |-> getSameTermFirst(r, args.PrevLogIndex)]

AppendEntriesMismatch(c) ==
    LET r == appendStepDown(rf[c.to], c.args)
        hint == backupHint(r, c.args)
    IN  /\ c.stage = "sent"
        /\ c.args.Term = r.currentTerm
        /\ ~prevMatches(r, c.args)
        /\ rf' = [rf EXCEPT ![c.to] = r]
        /\ appendCalls' = Answer(appendCalls, c,
                              [Term |-> r.currentTerm, Success |-> FALSE, LogInconsistency |-> TRUE,
                               XTerm |-> hint.XTerm, XIndex |-> hint.XIndex])
        /\ UNCHANGED <<kv, applying, installs, voteCalls, snapCalls>>

\* Slip: everything after PrevLogIndex is replaced by what the leader sent.
replaceSuffix(r, args) ==
    SubSeq(r.Log, 1, args.PrevLogIndex - r.lastIncludedIndex) \o args.Entries

\* Slip: entries at indexes that the log already has are skipped, whatever their term.
keepEntries(r, args) ==
    r.Log \o SubSeq(args.Entries, Len(r.Log) - (args.PrevLogIndex - r.lastIncludedIndex) + 1, Len(args.Entries))

\* The log is cut at the first entry whose term conflicts; then the entries
\* it does not have yet are appended.
mergeEntries(r, args) ==
    LET real == args.PrevLogIndex - r.lastIncludedIndex
        conflicts == {k \in 1..Smaller(Len(args.Entries), Len(r.Log) - real) :
                         args.Entries[k].Term # r.Log[real + k].Term}
        keep == IF conflicts = {} THEN Len(r.Log) ELSE real + Min(conflicts) - 1
    IN  SubSeq(r.Log, 1, keep) \o SubSeq(args.Entries, keep - real + 1, Len(args.Entries))

\* The commit index is bounded by the last index before the new entries.
followerCommit(r, args) ==
    IF args.LeaderCommit > r.commitIndex
    THEN Smaller(args.LeaderCommit, getLastLogIndex(r))
    ELSE r.commitIndex

AppendEntriesAccept(c) ==
    LET r == appendStepDown(rf[c.to], c.args)
        merged == mergeEntries(r, c.args)
        stored == IF merged = r.Log THEN r ELSE persist([r EXCEPT !.Log = merged])
    IN  /\ c.stage = "sent"
        /\ c.args.Term = r.currentTerm
        /\ prevMatches(r, c.args)
        /\ rf' = [rf EXCEPT ![c.to] = [stored EXCEPT !.commitIndex = followerCommit(r, c.args)]]
        /\ appendCalls' = Answer(appendCalls, c,
                              [NoAppend EXCEPT !.Term = r.currentTerm, !.Success = TRUE])
        /\ UNCHANGED <<kv, applying, installs, voteCalls, snapCalls>>
---------------------------------------------------------------------------
(* Log replication: the leader gets the reply *)

\* The last index of the leader's log (the snapshot's slot excluded) with the
\* conflicting term, plus one; the follower's XIndex when it has none.
backupTarget(r, reply) ==
    LET same == {k \in 1..Len(r.Log) : r.Log[k].Term = reply.XTerm}
    IN  IF same = {} THEN reply.XIndex ELSE r.lastIncludedIndex + Max(same) + 1

handleLogInconsistency(r, p, reply) ==
    [r EXCEPT !.nextIndex[p] =
        IF reply.XTerm = -1 THEN Larger(reply.XIndex, r.matchIndex[p] + 1)
        ELSE backupTarget(r, reply)]

\* The follower's copy of the log now ends where the leader's request did.
acknowledged(r, p, index) ==
    [r EXCEPT !.matchIndex[p] = index, !.nextIndex[p] = index + 1]

\* Slip: the log may have grown since the request was sent.
appendRepliedNow(r, c) ==
    IF c.reply.Success THEN acknowledged(r, c.to, getLastLogIndex(r))
    ELSE IF c.reply.LogInconsistency THEN handleLogInconsistency(r, c.to, c.reply)
    ELSE r

appendReplied(r, c) ==
    IF c.reply.Success THEN acknowledged(r, c.to, c.args.PrevLogIndex + Len(c.args.Entries))
    ELSE IF c.reply.LogInconsistency THEN handleLogInconsistency(r, c.to, c.reply)
    ELSE r

leaderAppendEntriesReply(c) ==
    LET r == rf[c.from]
        n == appendReplied(r, c)
    IN  /\ c.stage = "answered"
        /\ rf' = [rf EXCEPT ![c.from] =
                      IF c.reply.Term > r.currentTerm THEN FollowerState(r, c.reply.Term)
                      ELSE IF r.state = "LEADER" /\ r.currentTerm = c.args.Term
                      THEN [n EXCEPT !.commitIndex = countReplica(n, c.from)]
                      ELSE r]
        /\ appendCalls' = appendCalls \ {c}
        /\ UNCHANGED <<kv, applying, installs, voteCalls, snapCalls>>
---------------------------------------------------------------------------
(* Snapshots *)

\* The reply only says in which term the follower was: it installs later, or
\* never.  The term of the request is not compared with the current one.
installReplied(r, c) ==
    IF c.reply.Term = r.currentTerm /\ r.matchIndex[c.to] <= c.args.LastIncludedIndex
    THEN acknowledged(r, c.to, c.args.LastIncludedIndex)
    ELSE r

leaderSendSnapshotReply(c) ==
    LET r == rf[c.from]
        n == installReplied(r, c)
    IN  /\ c.stage = "answered"
        /\ rf' = [rf EXCEPT ![c.from] =
                      IF c.reply.Term > r.currentTerm THEN FollowerState(r, c.reply.Term)
                      ELSE IF r.state = "LEADER"
                      THEN [n EXCEPT !.commitIndex = countReplica(n, c.from)]
                      ELSE r]
        /\ snapCalls' = snapCalls \ {c}
        /\ UNCHANGED <<kv, applying, installs, voteCalls, appendCalls>>

\* A follower hands a snapshot it needs to the service, in a goroutine.
InstallSnapshot(c) ==
    LET r == IF c.args.Term > rf[c.to].currentTerm THEN FollowerState(rf[c.to], c.args.Term)
             ELSE rf[c.to]
        wanted == c.args.Term = r.currentTerm /\ c.args.LastIncludedIndex > r.commitIndex
        msg == [Term |-> c.args.LastIncludedTerm, Index |-> c.args.LastIncludedIndex,
                Data |-> c.args.Data]
    IN  /\ c.stage = "sent"
        /\ rf' = [rf EXCEPT ![c.to] = r]
        /\ installs' = [installs EXCEPT ![c.to] = IF wanted THEN @ \cup {msg} ELSE @]
        /\ snapCalls' = Answer(snapCalls, c, [Term |-> r.currentTerm])
        /\ UNCHANGED <<kv, applying, voteCalls, appendCalls>>

\* The log after entry (index, term): all of it is dropped if it lacks that entry.
trimLog(r, index, term) ==
    IF index \in r.lastIncludedIndex..getLastLogIndex(r) /\ getLogAt(r, index) = term
    THEN SubSeq(r.Log, index - r.lastIncludedIndex + 1, Len(r.Log))
    ELSE <<>>

\* What both ways of moving to a snapshot do to the Raft object.
switchToSnapshot(r, index, term, data) ==
    SaveState([r EXCEPT !.Log = trimLog(r, index, term), !.lastIncludedIndex = index,
                        !.lastIncludedTerm = term,
                        !.commitIndex = Larger(@, index), !.lastApplied = Larger(@, index)], data)

\* CondInstallSnapshot declines a snapshot at or behind commitIndex.
snapshotIsNews(r, msg) == msg.Index > r.commitIndex

CondInstallSnapshot(s, msg) ==
    LET news == snapshotIsNews(rf[s], msg)
    IN  /\ installs' = [installs EXCEPT ![s] = @ \ {msg}]
        /\ rf' = [rf EXCEPT ![s] = IF news THEN switchToSnapshot(@, msg.Index, msg.Term, msg.Data)
                                   ELSE @]
        /\ kv' = [kv EXCEPT ![s] = IF news THEN [applied |-> msg.Data, lastIncludedIndex |-> msg.Index]
                                   ELSE @]
        /\ UNCHANGED <<applying, voteCalls, appendCalls, snapCalls>>

\* The service has a snapshot of everything up to index.
Snapshot(r, index, data) ==
    IF index <= r.lastIncludedIndex THEN r
    ELSE switchToSnapshot(r, index, getLogAt(r, index), data)
---------------------------------------------------------------------------
(* Applying committed entries *)

\* applyChecker copies the newly committed entries and releases rf.mu.  The
\* third conjunct is Go's check of the slice bounds, which panics; LogBounds
\* says it never does.
applyCheckerCopy(s) ==
    LET r == rf[s]
        first == r.lastApplied + 1 - r.lastIncludedIndex
        last == r.commitIndex - r.lastIncludedIndex
    IN  /\ ~applying[s].busy
        /\ r.lastApplied < r.commitIndex
        /\ first >= 1 /\ last <= Len(r.Log)
        /\ applying' = [applying EXCEPT ![s] = [busy |-> TRUE, commitIndex |-> r.commitIndex,
                                                entries |-> SubSeq(r.Log, first, last)]]
        /\ UNCHANGED <<rf, kv, installs, voteCalls, appendCalls, snapCalls>>

\* Slip: the service does not know of snapshots.
neverApplied(k, entry) == FALSE

\* The service drops what the snapshot it installed last already contains.
alreadyApplied(k, entry) == entry.Index <= k.lastIncludedIndex

\* The service receives the next entry from applyCh; it may take a snapshot.
applyHandler(s, takeSnapshot) ==
    LET entry == Head(applying[s].entries)
        applied == Append(kv[s].applied, entry)
        skip == alreadyApplied(kv[s], entry)
    IN  /\ applying[s].entries # <<>>
        /\ applying' = [applying EXCEPT ![s].entries = Tail(@)]
        /\ kv' = [kv EXCEPT ![s].applied = IF skip THEN @ ELSE applied]
        /\ rf' = [rf EXCEPT ![s] = IF ~skip /\ takeSnapshot THEN Snapshot(@, entry.Index, applied)
                                   ELSE @]
        /\ UNCHANGED <<installs, voteCalls, appendCalls, snapCalls>>

\* applyChecker has sent its copy and takes rf.mu again.
applyCheckerDone(s) ==
    /\ applying[s].busy /\ applying[s].entries = <<>>
    /\ rf' = [rf EXCEPT ![s].lastApplied = Larger(@, applying[s].commitIndex)]
    /\ applying' = [applying EXCEPT ![s] = Idle]
    /\ UNCHANGED <<kv, installs, voteCalls, appendCalls, snapCalls>>
---------------------------------------------------------------------------
(* Faults *)

\* The server crashes and is started again from its persister.
Restart(s) ==
    /\ rf' = [rf EXCEPT ![s] = Make(@.persister)]
    /\ kv' = [kv EXCEPT ![s] = StartKVServer(rf[s].persister)]
    /\ applying' = [applying EXCEPT ![s] = Idle]
    /\ installs' = [installs EXCEPT ![s] = {}]
    /\ voteCalls' = Orphan(voteCalls, s)
    /\ appendCalls' = Orphan(appendCalls, s)
    /\ snapCalls' = Orphan(snapCalls, s)

\* Call() returns false for a RequestVote, whose goroutine tries again.
loseVoteCall(c) ==
    /\ voteCalls' = (voteCalls \ {c}) \cup
           {[Call(c.from, c.to, c.args, NoVote) EXCEPT !.retry = c.retry + 1] :
                retried \in {x \in {TRUE} : c.live /\ c.retry < MaxRetry}}
    /\ UNCHANGED <<rf, kv, applying, installs, appendCalls, snapCalls>>

loseAppendCall(c) ==
    /\ appendCalls' = appendCalls \ {c}
    /\ UNCHANGED <<rf, kv, applying, installs, voteCalls, snapCalls>>

loseSnapCall(c) ==
    /\ snapCalls' = snapCalls \ {c}
    /\ UNCHANGED <<rf, kv, applying, installs, voteCalls, appendCalls>>
---------------------------------------------------------------------------
ServerNext(s) ==
    \/ ticker(s)
    \/ Restart(s)
    \/ applyCheckerCopy(s)
    \/ applyCheckerDone(s)
    \/ \E command \in Command : Start(s, command)
    \/ \E p \in Server : leaderAppendEntries(s, p) \/ leaderSendSnapshot(s, p)
    \/ \E msg \in installs[s] : CondInstallSnapshot(s, msg)
    \/ \E takeSnapshot \in BOOLEAN : applyHandler(s, takeSnapshot)

CallNext ==
    \/ \E c \in voteCalls : RequestVote(c) \/ candidateRequestVote(c)
    \/ \E c \in appendCalls : \/ AppendEntriesRefuse(c) \/ AppendEntriesMismatch(c)
                              \/ AppendEntriesAccept(c) \/ leaderAppendEntriesReply(c)
    \/ \E c \in snapCalls : InstallSnapshot(c) \/ leaderSendSnapshotReply(c)

LossNext ==
    \/ \E c \in voteCalls : loseVoteCall(c)
    \/ \E c \in appendCalls : loseAppendCall(c)
    \/ \E c \in snapCalls : loseSnapCall(c)

Next == (\E s \in Server : ServerNext(s)) \/ CallNext \/ LossNext

Spec == Init /\ [][Next]_vars
---------------------------------------------------------------------------
(* Correctness *)

LogEntry == [Term : Nat, Command : Command, Index : Nat]

Persister ==
    [currentTerm : Nat, votedFor : Server \cup {Nil}, Log : Seq(LogEntry),
     lastIncludedIndex : Nat, lastIncludedTerm : Int, snapshot : Seq(LogEntry)]

RaftObject ==
    [state : {"FOLLOWER", "CANDIDATE", "LEADER"}, currentTerm : Nat, votedFor : Server \cup {Nil},
     getVotesNum : Nat, voters : SUBSET Server, Log : Seq(LogEntry),
     lastIncludedIndex : Nat, lastIncludedTerm : Int, commitIndex : Nat, lastApplied : Nat,
     nextIndex : [Server -> Int], matchIndex : [Server -> Int], persister : Persister]

CallOf(Args, Reply) ==
    [from : Server, to : Server, args : Args, reply : Reply,
     stage : {"sent", "answered"}, retry : 0..MaxRetry, live : BOOLEAN]

VoteCall ==
    CallOf([Term : Nat, LastLogIndex : Nat, LastLogTerm : Int],
           [Term : Nat, VoteGranted : BOOLEAN])

AppendCall ==
    CallOf([Term : Nat, PrevLogIndex : Nat, PrevLogTerm : Int, Entries : Seq(LogEntry),
            LeaderCommit : Nat],
           [Term : Nat, Success : BOOLEAN, LogInconsistency : BOOLEAN, XTerm : Int, XIndex : Int])

SnapCall ==
    CallOf([Term : Nat, LastIncludedIndex : Nat, LastIncludedTerm : Int, Data : Seq(LogEntry)],
           [Term : Nat])

\* The type of every field of the Raft struct, of the RPC structs and of the
\* service's state.
TypeOK ==
    /\ rf \in [Server -> RaftObject]
    /\ kv \in [Server -> [applied : Seq(LogEntry), lastIncludedIndex : Nat]]
    /\ applying \in [Server -> [busy : BOOLEAN, entries : Seq(LogEntry), commitIndex : Nat]]
    /\ installs \in [Server -> SUBSET [Term : Int, Index : Nat, Data : Seq(LogEntry)]]
    /\ voteCalls \subseteq VoteCall
    /\ appendCalls \subseteq AppendCall
    /\ snapCalls \subseteq SnapCall

\* The whole log of s: the entries its persisted snapshot stands for, then rf.Log.
FullLog(s) == rf[s].persister.snapshot \o rf[s].Log

CommittedLog(s) == SubSeq(FullLog(s), 1, rf[s].commitIndex)

\* There is one leader per term at most, although FollowerState forgets the
\* vote of its own term when a candidate meets that term's leader
\* (AppendEntries), and although votes are counted after crashes and retries.
ElectionSafety ==
    \A s, t \in Server :
        rf[s].state = "LEADER" /\ rf[t].state = "LEADER" /\ rf[s].currentTerm = rf[t].currentTerm
            => s = t

\* The votes that count or may still count: those a candidate or leader has
\* counted in its term, and the granted replies still in flight.
Grants ==
    {[voter |-> c.to, candidate |-> c.from, term |-> c.args.Term] :
        c \in {d \in voteCalls : d.stage = "answered" /\ d.reply.VoteGranted}}
    \cup
    UNION {{[voter |-> v, candidate |-> s, term |-> rf[s].currentTerm] : v \in rf[s].voters} :
               s \in {t \in Server : rf[t].state # "FOLLOWER"}}

VotePersisted ==
    \A s \in Server : /\ rf[s].persister.currentTerm = rf[s].currentTerm
                      /\ rf[s].persister.votedFor = rf[s].votedFor

VotesCounted ==
    \A s \in Server : rf[s].state # "FOLLOWER" =>
        /\ rf[s].votedFor = s /\ s \in rf[s].voters
        /\ rf[s].getVotesNum = Cardinality(rf[s].voters)
        /\ rf[s].state = "LEADER" => IsMajority(rf[s].getVotesNum)

VoteCallsCurrent ==
    \A c \in voteCalls :
        /\ c.from # c.to
        /\ c.args.Term <= rf[c.from].currentTerm
        /\ rf[c.from].state # "FOLLOWER" /\ c.args.Term = rf[c.from].currentTerm
               => c.to \notin rf[c.from].voters

OneVoteCall ==
    \A c, d \in voteCalls :
        c.from = d.from /\ c.to = d.to /\ c.args.Term = d.args.Term => c = d

GrantsRemembered ==
    \A g \in Grants : g.voter # g.candidate =>
        \/ rf[g.voter].currentTerm > g.term
        \/ /\ rf[g.voter].currentTerm = g.term
           /\ rf[g.voter].votedFor = g.candidate /\ rf[g.voter].state = "FOLLOWER"

OneGrantPerTerm ==
    \A g, h \in Grants :
        /\ g.voter = h.voter /\ g.term = h.term
        /\ g.voter # g.candidate /\ h.voter # h.candidate
        => g.candidate = h.candidate

\* Why there is one leader per term: a server that gave its vote away stays a
\* follower that remembers it for the rest of the term, in memory and on disk,
\* a candidate counts each peer once whatever its retries, and so two
\* majorities of a term share a voter that voted twice.  A candidate that
\* AppendEntries sends back to its own term with votedFor = -1 may vote again:
\* its vote for itself is not in Grants any more.
ElectionInv ==
    /\ VotePersisted /\ VotesCounted /\ VoteCallsCurrent
    /\ OneVoteCall /\ GrantsRemembered /\ OneGrantPerTerm

\* Two logs with an entry of the same term at the same index are the same up
\* to it, through every truncation, snapshot and restart.
LogMatching ==
    \A s, t \in Server :
        LET mine == FullLog(s)
            other == FullLog(t)
        IN  \A i \in DOMAIN mine \cap DOMAIN other :
                mine[i].Term = other[i].Term => SubSeq(mine, 1, i) = SubSeq(other, 1, i)

Begins(first, whole) ==
    Len(first) <= Len(whole) /\ \A i \in 1..Len(first) : first[i] = whole[i]

\* No two servers commit different entries at an index (config.go's checkLogs:
\* "some server has already committed a different value for this entry").
CommitAgreement ==
    \A s, t \in Server :
        \/ Begins(CommittedLog(s), CommittedLog(t))
        \/ Begins(CommittedLog(t), CommittedLog(s))

\* Whoever RequestVote's comparison lets a majority elect has every committed
\* entry.  This is what the term condition of countReplica is for.
ElectableHasCommitted ==
    \A s \in Server :
        IsMajority(Cardinality({v \in Server :
            upToDate(rf[v], [LastLogTerm |-> getLastLogTerm(rf[s]),
                             LastLogIndex |-> getLastLogIndex(rf[s])])}))
            => \A t \in Server : Begins(CommittedLog(t), FullLog(s))

\* "we can't modify committed Log" (raft.go:672): no step of AppendEntries,
\* CondInstallSnapshot, Snapshot or a restart changes or loses an entry the
\* server has committed, whatever the age of the request that is handled.
CommittedStays ==
    [][\A s \in Server : Begins(CommittedLog(s), FullLog(s)')]_vars

\* The bounds every slice expression of applyChecker and Snapshot relies on, and
\* the log really starts where the snapshot ends.
LogBounds ==
    \A s \in Server :
        /\ rf[s].lastIncludedIndex <= rf[s].lastApplied
        /\ rf[s].lastApplied <= rf[s].commitIndex
        /\ rf[s].commitIndex <= getLastLogIndex(rf[s])
        /\ Len(rf[s].persister.snapshot) = rf[s].lastIncludedIndex
        /\ \A i \in DOMAIN applying[s].entries :
               applying[s].entries[i].Index <= getLastLogIndex(rf[s])

\* A leader's nextIndex never leaves its log, whatever replies handleLogInconsistency
\* is given and in which order: the next PrevLogIndex has a term to send.
NextIndexInLog ==
    \A s, p \in Server :
        rf[s].state = "LEADER" => /\ rf[s].nextIndex[p] \in 1..(getLastLogIndex(rf[s]) + 1)
                                  /\ rf[s].matchIndex[p] <= getLastLogIndex(rf[s])

\* No index that applyChecker, Snapshot or leaderAppendEntries slices the log with
\* is out of its range, which would panic.
IndexesInLog == LogBounds /\ NextIndexInLog

\* The service applies every committed entry once, in the order of the log:
\* entries of a batch copied before a snapshot was installed are not applied
\* again, and none is skipped after a restart (config.go: "apply out of order").
AppliedInOrder ==
    \A s \in Server :
        /\ \A i \in DOMAIN kv[s].applied : kv[s].applied[i].Index = i
        /\ Begins(kv[s].applied, CommittedLog(s))

\* Above the leader's snapshot matchIndex is right, in whatever order the
\* replies come: every entry it says a peer has is in the peer's log, as long
\* as the peer is in the leader's term.  countReplica only counts such entries.
\* (At or below the snapshot it may be wrong: the reply to InstallSnapshot moves
\* it although the snapshot is installed later, or lost in a crash.)
MatchIndexSound ==
    \A s, p \in Server :
        rf[s].state = "LEADER" /\ p # s /\ rf[p].currentTerm = rf[s].currentTerm
            => \A n \in (rf[s].lastIncludedIndex + 1)..rf[s].matchIndex[p] :
                   n <= Len(FullLog(p)) /\ FullLog(p)[n] = FullLog(s)[n]
=================================================================================
