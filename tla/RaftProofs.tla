------------------------------- MODULE RaftProofs -------------------------------
(* Proofs about Raft, for any number of servers, commands and retries. *)
EXTENDS RaftElectionProofs

LOCAL INSTANCE WellFoundedInduction

---------------------------------------------------------------------------
(* Numbers and sequences *)

\* A non-empty set of naturals has a least element: the order of the naturals is
\* well-founded.
LEMMA LeastNatural ==
    ASSUME NEW S \in SUBSET Nat, S # {}
    PROVE  \E x \in S : \A y \in S : x <= y
<1> DEFINE R == {p \in Nat \X Nat : p[1] < p[2]}
<1>1. IsWellFoundedOn(OpToRel(<, Nat), Nat)
    BY Zenon, NatLessThanWellFounded
<1>2. OpToRel(<, Nat) = R
    BY Zenon DEF OpToRel
<1>3. IsWellFoundedOn(R, Nat)
    BY Zenon, <1>1, <1>2
<1> HIDE DEF R
<1>4. PICK x \in S : \A y \in S : ~(<<y, x>> \in R)
    BY Zenon, <1>3, WFMin
<1>5. ASSUME NEW y \in S PROVE x <= y
    <2>1. x \in Nat /\ y \in Nat
        OBVIOUS
    <2>2. y < x => <<y, x>> \in R
        BY <2>1 DEF R
    <2> QED BY <1>4, <2>1, <2>2
<1> QED BY <1>5

\* Min picks an element of a non-empty set of integers that is bounded below.
LEMMA MinInSet ==
    ASSUME NEW S \in SUBSET Int, S # {}, NEW b \in Int, \A x \in S : b <= x
    PROVE  Min(S) \in S /\ \A x \in S : Min(S) <= x
<1> DEFINE D == {n \in Nat : n + b \in S}
<1>1. D # {}
    <2>1. PICK x \in S : TRUE
        BY ZenonT(60)
    <2>2. x - b \in D
        OBVIOUS
    <2>3. QED
        BY ZenonT(60), <2>2
<1>2. PICK d \in D : \A e \in D : d <= e
    <2> HIDE DEF D
    <2>1. D \in SUBSET Nat
        BY DEF D
    <2>2. QED
        BY <1>1, <2>1, LeastNatural
<1>3. ASSUME NEW y \in S
      PROVE  d + b <= y
    <2>1. y - b \in D
        OBVIOUS
    <2>2. QED
        BY <1>2, <2>1
<1>4. d + b \in S
    OBVIOUS
<1>5. \E x \in S : \A y \in S : x <= y
    BY <1>3, <1>4
<1>6. QED
    BY ZenonT(60), <1>5 DEF Min

\* Max picks an element of a non-empty set of integers that is bounded above.
LEMMA MaxInSet ==
    ASSUME NEW S \in SUBSET Int, S # {}, NEW b \in Int, \A x \in S : x <= b
    PROVE  Max(S) \in S /\ \A x \in S : x <= Max(S)
<1> DEFINE D == {n \in Nat : b - n \in S}
<1>1. D # {}
    <2>1. PICK x \in S : TRUE
        BY ZenonT(60)
    <2>2. b - x \in D
        OBVIOUS
    <2>3. QED
        BY ZenonT(60), <2>2
<1>2. PICK d \in D : \A e \in D : d <= e
    <2> HIDE DEF D
    <2>1. D \in SUBSET Nat
        BY DEF D
    <2>2. QED
        BY <1>1, <2>1, LeastNatural
<1>3. ASSUME NEW y \in S
      PROVE  y <= b - d
    <2>1. b - y \in D
        OBVIOUS
    <2>2. QED
        BY <1>2, <2>1
<1>4. b - d \in S
    OBVIOUS
<1>5. \E x \in S : \A y \in S : y <= x
    BY <1>3, <1>4
<1>6. QED
    BY ZenonT(60), <1>5 DEF Max

\* SubSeq is a sequence of the same elements, also when it is empty.
LEMMA SubSeqType ==
    ASSUME NEW S, NEW s \in Seq(S), NEW m \in Int, NEW n \in Int, m >= 1, n <= Len(s)
    PROVE  SubSeq(s, m, n) \in Seq(S)
<1>1. \A i \in m..n : s[i] \in S
    OBVIOUS
<1>2. QED
    BY <1>1
---------------------------------------------------------------------------
(* The methods of the Raft object keep its type *)

\* A server that starts an election has its type.
LEMMA CandidateStateType ==
    ASSUME NEW r \in RaftObject, NEW me \in Server
    PROVE  CandidateState(r, me) \in RaftObject
<1> DEFINE q == [r EXCEPT !.state = "CANDIDATE", !.currentTerm = @ + 1, !.votedFor = me,
                          !.getVotesNum = 1, !.voters = {me}]
<1>1. q \in RaftObject
    <2>1. r.currentTerm + 1 \in Nat /\ {me} \in SUBSET Server
        BY SMTT(40) DEF RaftObject
    <2>2. QED
        BY Zenon, <2>1 DEF RaftObject
<1>2. QED
    BY <1>1, PersistType DEF CandidateState

\* The last index is a number: the snapshot's when the log is empty.
LEMMA LastLogIndexType ==
    ASSUME NEW r \in RaftObject
    PROVE  getLastLogIndex(r) \in Nat /\ getLastLogIndex(r) >= r.lastIncludedIndex
BY DEF getLastLogIndex, RaftObject

\* getLogAt returns an entry, at most one since indexes do not repeat.
LEMMA LogAtType ==
    ASSUME NEW r \in RaftObject, NEW i \in Int, i >= r.lastIncludedIndex
    PROVE  getLogAt(r, i) \in Int
<1>1. r.Log \in Seq(LogEntry) /\ r.lastIncludedIndex \in Nat /\ r.lastIncludedTerm \in Int
    BY DEF RaftObject
<1>2. ASSUME i <= getLastLogIndex(r), i # r.lastIncludedIndex
      PROVE  r.Log[i - r.lastIncludedIndex].Term \in Int
    <2>1. r.Log[i - r.lastIncludedIndex] \in LogEntry
        BY <1>1, <1>2 DEF getLastLogIndex
    <2>2. QED
        BY <2>1 DEF LogEntry
<1>3. QED
    BY <1>1, <1>2, LastLogIndexType DEF getLogAt

\* A server that wins an election has its type.
LEMMA LeaderStateType ==
    ASSUME NEW r \in RaftObject
    PROVE  LeaderState(r) \in RaftObject
<1>1. [p \in Server |-> getLastLogIndex(r) + 1] \in [Server -> Int]
    BY LastLogIndexType
<1>2. [p \in Server |-> -1] \in [Server -> Int]
    OBVIOUS
<1>3. QED
    BY Zenon, <1>1, <1>2 DEF LeaderState, RaftObject

\* What Make builds from a persister has its type.
LEMMA MakeType ==
    ASSUME NEW p \in Persister
    PROVE  Make(p) \in RaftObject
BY DEF Make, RaftObject, Persister

\* Installing a snapshot keeps the server's type.
LEMMA SwitchType ==
    ASSUME NEW r \in RaftObject, NEW index \in Nat, NEW term \in Int, NEW data \in Seq(LogEntry)
    PROVE  switchToSnapshot(r, index, term, data) \in RaftObject
<1>1. trimLog(r, index, term) \in Seq(LogEntry)
    <2>1. CASE /\ index \in r.lastIncludedIndex..getLastLogIndex(r)
               /\ getLogAt(r, index) = term
        BY SMTT(40), <2>1, SubSeqType, LastLogIndexType DEF trimLog, RaftObject
    <2>2. QED
        BY <2>1 DEF trimLog
<1> DEFINE q == [r EXCEPT !.Log = trimLog(r, index, term), !.lastIncludedIndex = index,
                          !.lastIncludedTerm = term,
                          !.commitIndex = Larger(@, index), !.lastApplied = Larger(@, index)]
<1>2. q \in RaftObject
    BY Zenon, <1>1 DEF RaftObject, Larger
<1>3. QED
    BY <1>2, SaveStateType DEF switchToSnapshot

\* Trimming the log behind a snapshot of the service keeps the server's type.
LEMMA SnapshotType ==
    ASSUME NEW r \in RaftObject, NEW index \in Nat, NEW data \in Seq(LogEntry)
    PROVE  Snapshot(r, index, data) \in RaftObject
<1>1. CASE index <= r.lastIncludedIndex
    BY <1>1 DEF Snapshot
<1>2. CASE index > r.lastIncludedIndex
    <2>1. getLogAt(r, index) \in Int
        BY SMTT(40), <1>2, LogAtType DEF RaftObject
    <2>2. QED
        BY <1>2, <2>1, SwitchType DEF Snapshot
<1>3. index \in Int /\ r.lastIncludedIndex \in Int
    BY DEF RaftObject
<1>4. QED
    BY <1>1, <1>2, <1>3

\* The commit index that countReplica finds is a number.
LEMMA CountReplicaType ==
    ASSUME NEW r \in RaftObject, NEW me \in Server
    PROVE  countReplica(r, me) \in Nat /\ countReplica(r, me) >= r.commitIndex
<1> DEFINE replicated == {n \in (r.commitIndex + 1)..getLastLogIndex(r) :
                /\ getLogAt(r, n) = r.currentTerm
                /\ IsMajority(1 + Cardinality({j \in Server \ {me} : r.matchIndex[j] >= n}))}
<1>1. r.commitIndex \in Nat /\ r.lastIncludedIndex \in Nat /\ getLastLogIndex(r) \in Nat
    BY ZenonT(60), LastLogIndexType DEF RaftObject
<1>2. countReplica(r, me) = IF replicated = {} THEN Larger(r.commitIndex, r.lastIncludedIndex)
                            ELSE Max(replicated)
    BY DEF countReplica
<1>3. /\ replicated \in SUBSET Int /\ getLastLogIndex(r) \in Int
      /\ \A x \in replicated : x <= getLastLogIndex(r)
      /\ \A x \in replicated : x \in Nat /\ x >= r.commitIndex
    BY <1>1
<1> HIDE DEF replicated
<1>4. ASSUME replicated # {}
      PROVE  Max(replicated) \in replicated
    BY Zenon, <1>3, <1>4, MaxInSet
<1>5. CASE replicated = {}
    BY <1>1, <1>2, <1>5 DEF Larger
<1>6. CASE replicated # {}
    <2>1. countReplica(r, me) = Max(replicated)
        BY <1>2, <1>6
    <2>2. QED
        BY Zenon, <1>3, <1>4, <1>6, <2>1
<1>7. QED
    BY <1>5, <1>6

\* getSameTermFirst returns a number.
LEMMA SameTermFirstType ==
    ASSUME NEW r \in RaftObject, NEW i \in Int, i >= r.lastIncludedIndex
    PROVE  getSameTermFirst(r, i) \in Int
<1> DEFINE run == {k \in (r.lastIncludedIndex + 1)..i :
                      \A l \in k..i : getLogAt(r, l) = getLogAt(r, i)}
<1>1. r.lastIncludedIndex \in Nat
    BY DEF RaftObject
<1>2. getSameTermFirst(r, i) = IF i = r.lastIncludedIndex THEN i ELSE Min(run)
    BY DEF getSameTermFirst
<1>3. ASSUME i # r.lastIncludedIndex
      PROVE  Min(run) \in Int
    <2>1. i \in run
        BY <1>1, <1>3
    <2>2. /\ run \in SUBSET Int /\ r.lastIncludedIndex \in Int
          /\ \A x \in run : r.lastIncludedIndex <= x
        BY <1>1
    <2> HIDE DEF run
    <2>3. Min(run) \in run
        BY Zenon, <2>1, <2>2, MinInSet
    <2>4. QED
        BY Zenon, <2>2, <2>3
<1>4. QED
    BY <1>2, <1>3

\* Merging the entries of a request into the log gives a log.
LEMMA MergeType ==
    ASSUME NEW r \in RaftObject, NEW args, args.PrevLogIndex \in Nat, args.Entries \in Seq(LogEntry),
           args.PrevLogIndex \in r.lastIncludedIndex..getLastLogIndex(r)
    PROVE  mergeEntries(r, args) \in Seq(LogEntry)
<1> DEFINE real == args.PrevLogIndex - r.lastIncludedIndex
           conflicts == {k \in 1..Smaller(Len(args.Entries), Len(r.Log) - real) :
                            args.Entries[k].Term # r.Log[real + k].Term}
           keep == IF conflicts = {} THEN Len(r.Log) ELSE real + Min(conflicts) - 1
<1>1. /\ r.Log \in Seq(LogEntry) /\ Len(r.Log) \in Nat /\ Len(args.Entries) \in Nat
      /\ real \in Int /\ 0 <= real /\ real <= Len(r.Log)
    BY SMTT(40) DEF RaftObject, getLastLogIndex
<1>2. mergeEntries(r, args) =
          SubSeq(r.Log, 1, keep) \o SubSeq(args.Entries, keep - real + 1, Len(args.Entries))
    BY DEF mergeEntries
<1>3. keep \in Int /\ real <= keep /\ keep <= Len(r.Log)
    <2>1. /\ conflicts \in SUBSET Int /\ \A k \in conflicts : 1 <= k
          /\ \A k \in conflicts : real + k <= Len(r.Log)
        BY <1>1 DEF Smaller
    <2> HIDE DEF conflicts, real
    <2>2. ASSUME conflicts # {}
          PROVE  Min(conflicts) \in conflicts
        BY <2>1, <2>2, MinInSet
    <2>3. CASE conflicts = {}
        BY <1>1, <2>3
    <2>4. CASE conflicts # {}
        <3>1. Min(conflicts) \in Int /\ 1 <= Min(conflicts) /\ real + Min(conflicts) <= Len(r.Log)
            BY Zenon, <2>1, <2>2, <2>4
        <3>2. keep = real + Min(conflicts) - 1
            BY <2>4
        <3>3. QED
            BY <1>1, <3>1, <3>2
    <2>5. QED
        BY <2>3, <2>4
<1> HIDE DEF real, keep
<1>4. SubSeq(r.Log, 1, keep) \in Seq(LogEntry)
    BY <1>1, <1>3, SubSeqType
<1>5. SubSeq(args.Entries, keep - real + 1, Len(args.Entries)) \in Seq(LogEntry)
    BY <1>1, <1>3, SubSeqType
<1>6. QED
    BY <1>2, <1>4, <1>5

---------------------------------------------------------------------------
(* Calls *)

\* Answer and Orphan only change fields of calls that keep their type.
LEMMA AnswerType ==
    ASSUME NEW A, NEW R, NEW calls \in SUBSET CallOf(A, R), NEW c \in calls, NEW reply \in R
    PROVE  Answer(calls, c, reply) \in SUBSET CallOf(A, R)
BY Zenon DEF Answer, CallOf

\* Calls of a server that restarts lose their caller and keep their type.
LEMMA OrphanType ==
    ASSUME NEW A, NEW R, NEW calls \in SUBSET CallOf(A, R), NEW s
    PROVE  Orphan(calls, s) \in SUBSET CallOf(A, R)
<1>1. ASSUME NEW c \in CallOf(A, R) PROVE [c EXCEPT !.live = FALSE] \in CallOf(A, R)
    BY Zenon, <1>1 DEF CallOf
<1> HIDE DEF CallOf
<1>2. QED
    BY <1>1 DEF Orphan

\* A call that has just been sent has its type.
LEMMA NewCallType ==
    ASSUME NEW A, NEW R, NEW s \in Server, NEW p \in Server, NEW args \in A, NEW reply \in R
    PROVE  Call(s, p, args, reply) \in CallOf(A, R)
BY RetryAssumption DEF Call, CallOf

---------------------------------------------------------------------------
(* Type correctness *)

\* What a server has persisted has its type.
LEMMA PersisterField ==
    ASSUME NEW r \in RaftObject
    PROVE  r.persister \in Persister /\ r.persister.snapshot \in Seq(LogEntry)
BY DEF RaftObject, Persister

\* The type invariant holds initially.
LEMMA InitType == Init => TypeOK
<1> SUFFICES ASSUME Init PROVE TypeOK
    OBVIOUS
<1>1. EmptyPersister \in Persister
    BY DEF EmptyPersister, Persister
<1>2. Make(EmptyPersister) \in RaftObject
    BY <1>1, MakeType
<1>3. StartKVServer(EmptyPersister) \in [applied : Seq(LogEntry), lastIncludedIndex : Nat]
    BY DEF StartKVServer, EmptyPersister
<1>4. Idle \in [busy : BOOLEAN, entries : Seq(LogEntry), commitIndex : Nat]
    BY DEF Idle
<1>5. QED
    BY <1>2, <1>3, <1>4 DEF Init, TypeOK

\* An election timeout keeps the type invariant.
LEMMA TickerType ==
    ASSUME TypeOK, NEW s \in Server, ticker(s)
    PROVE  TypeOK'
<1> DEFINE r == CandidateState(rf[s], s)
           args == [Term |-> r.currentTerm, LastLogIndex |-> getLastLogIndex(r),
                    LastLogTerm |-> getLastLogTerm(r)]
<1>1. rf[s] \in RaftObject
    BY DEF TypeOK
<1>2. r \in RaftObject
    BY <1>1, CandidateStateType
<1> HIDE DEF r
<1>3. args \in [Term : Nat, LastLogIndex : Nat, LastLogTerm : Int]
    <2>1. getLastLogIndex(r) \in Nat /\ getLastLogTerm(r) \in Int
        BY <1>2, LastLogIndexType, LogAtType DEF getLastLogTerm
    <2>2. QED
        BY <1>2, <2>1 DEF RaftObject
<1>4. NoVote \in [Term : Nat, VoteGranted : BOOLEAN]
    BY DEF NoVote
<1> HIDE DEF args
<1>5. \A p \in Server : Call(s, p, args, NoVote) \in VoteCall
    BY Zenon, <1>3, <1>4, NewCallType DEF VoteCall
<1>6. rf' = [rf EXCEPT ![s] = r]
    BY DEF ticker, r
<1>7. voteCalls' = voteCalls \cup {Call(s, p, args, NoVote) : p \in Server \ {s}}
    BY DEF ticker, r, args
<1>8. rf' \in [Server -> RaftObject] /\ voteCalls' \subseteq VoteCall
    BY ZenonT(60), <1>2, <1>5, <1>6, <1>7 DEF TypeOK
<1>9. QED
    BY ZenonT(60), <1>8 DEF ticker, TypeOK

\* The RequestVote handler keeps the type invariant.
LEMMA RequestVoteType ==
    ASSUME TypeOK, NEW c \in voteCalls, RequestVote(c)
    PROVE  TypeOK'
<1> DEFINE r == IF c.args.Term > rf[c.to].currentTerm THEN FollowerState(rf[c.to], c.args.Term)
                ELSE rf[c.to]
           grant == mayVote(r, c.args, c.from)
           voted == persist([r EXCEPT !.votedFor = c.from])
           reply == [Term |-> r.currentTerm, VoteGranted |-> grant]
<1>1. c.to \in Server /\ c.from \in Server /\ c.args.Term \in Nat
    BY ZenonT(60) DEF TypeOK, VoteCall, CallOf
<1>2. rf[c.to] \in RaftObject
    BY <1>1 DEF TypeOK
<1>3. r \in RaftObject
    BY <1>1, <1>2, FollowerStateType
<1> HIDE DEF r
<1>4. [r EXCEPT !.votedFor = c.from] \in RaftObject
    BY Zenon, <1>1, <1>3 DEF RaftObject
<1>5. voted \in RaftObject
    BY <1>4, PersistType
<1>6. grant \in BOOLEAN
    BY DEF mayVote, upToDate
<1> HIDE DEF voted, grant
<1>7. reply \in [Term : Nat, VoteGranted : BOOLEAN]
    BY ZenonT(60), <1>3, <1>6 DEF RaftObject
<1>8. rf' = [rf EXCEPT ![c.to] = IF grant THEN voted ELSE r]
    BY DEF RequestVote, r, grant, voted
<1>9. voteCalls' = Answer(voteCalls, c, reply)
    BY DEF RequestVote, r, grant
<1> HIDE DEF reply
<1>10. rf' \in [Server -> RaftObject]
    BY <1>1, <1>3, <1>5, <1>8 DEF TypeOK
<1>11. voteCalls' \subseteq VoteCall
    BY Zenon, <1>7, <1>9, AnswerType DEF TypeOK, VoteCall
<1>12. QED
    BY <1>10, <1>11 DEF RequestVote, TypeOK

\* Counting a vote, and winning with it, keeps the server's type.
LEMMA CountVoteType ==
    ASSUME NEW r \in RaftObject, NEW v \in Server
    PROVE  countVote(r, v) \in RaftObject
<1> DEFINE q == [r EXCEPT !.getVotesNum = @ + 1, !.voters = @ \cup {v}]
<1>1. r.getVotesNum + 1 \in Nat /\ r.voters \cup {v} \in SUBSET Server
    BY SMTT(40) DEF RaftObject
<1>2. q \in RaftObject
    BY Zenon, <1>1 DEF RaftObject
<1>3. LeaderState(q) \in RaftObject
    BY <1>2, LeaderStateType
<1>4. QED
    BY <1>2, <1>3 DEF countVote

\* A candidate's handling of a vote keeps the type invariant.
LEMMA VoteReplyType ==
    ASSUME TypeOK, NEW c \in voteCalls, candidateRequestVote(c)
    PROVE  TypeOK'
<1> DEFINE r == rf[c.from]
<1>1. c.to \in Server /\ c.from \in Server /\ c.reply.Term \in Nat
    BY ZenonT(60) DEF TypeOK, VoteCall, CallOf
<1>2. r \in RaftObject
    BY <1>1 DEF TypeOK
<1>3. FollowerState(r, c.reply.Term) \in RaftObject /\ countVote(r, c.to) \in RaftObject
    BY <1>1, <1>2, FollowerStateType, CountVoteType
<1>4. \E q \in {FollowerState(r, c.reply.Term), countVote(r, c.to), r} :
          rf' = [rf EXCEPT ![c.from] = q]
    BY Zenon DEF candidateRequestVote
<1>5. rf' \in [Server -> RaftObject]
    BY <1>1, <1>2, <1>3, <1>4 DEF TypeOK
<1>6. QED
    BY <1>5 DEF candidateRequestVote, TypeOK

AppendReply ==
    [Term : Nat, Success : BOOLEAN, LogInconsistency : BOOLEAN, XTerm : Int, XIndex : Int]

\* The empty reply to AppendEntries has its type.
LEMMA NoAppendType == NoAppend \in AppendReply
BY DEF NoAppend, AppendReply

\* Sending AppendEntries keeps the type invariant: the entries are a log.
LEMMA SendAppendType ==
    ASSUME TypeOK, NEW s \in Server, NEW p \in Server, leaderAppendEntries(s, p)
    PROVE  TypeOK'
<1> DEFINE r == rf[s]
           prev == r.nextIndex[p] - 1
           entries == SubSeq(r.Log, prev - r.lastIncludedIndex + 1, Len(r.Log))
           args == [Term |-> r.currentTerm, PrevLogIndex |-> prev, PrevLogTerm |-> getLogAt(r, prev),
                    Entries |-> entries, LeaderCommit |-> r.commitIndex]
<1>1. r \in RaftObject
    BY DEF TypeOK
<1>2. /\ r.currentTerm \in Nat /\ r.commitIndex \in Nat /\ r.lastIncludedIndex \in Nat
      /\ prev \in Int /\ r.Log \in Seq(LogEntry) /\ Len(r.Log) \in Nat
    <2> HIDE DEF r
    <2>1. r.nextIndex \in [Server -> Int] /\ r.Log \in Seq(LogEntry)
        BY <1>1 DEF RaftObject
    <2>2. QED
        BY SMTT(40), <1>1, <2>1 DEF RaftObject
<1>3. prev >= r.lastIncludedIndex /\ appendCalls' = appendCalls \cup {Call(s, p, args, NoAppend)}
    BY DEF leaderAppendEntries
<1> HIDE DEF r, prev
<1>4. getLogAt(r, prev) \in Int
    BY <1>1, <1>2, <1>3, LogAtType
<1>5. entries \in Seq(LogEntry)
    <2>1. prev - r.lastIncludedIndex + 1 \in Int /\ prev - r.lastIncludedIndex + 1 >= 1
        BY SMTT(40), <1>2, <1>3
    <2>2. QED
        BY <1>2, <2>1, SubSeqType
<1> HIDE DEF entries
<1>6. args \in [Term : Nat, PrevLogIndex : Nat, PrevLogTerm : Int, Entries : Seq(LogEntry),
                LeaderCommit : Nat]
    BY <1>2, <1>3, <1>4, <1>5
<1> HIDE DEF args
<1>7. Call(s, p, args, NoAppend) \in AppendCall
    BY Zenon, <1>6, NoAppendType, NewCallType DEF AppendCall, AppendReply
<1>8. QED
    BY Zenon, <1>3, <1>7 DEF leaderAppendEntries, TypeOK

\* Sending InstallSnapshot keeps the type invariant.
LEMMA SendSnapshotType ==
    ASSUME TypeOK, NEW s \in Server, NEW p \in Server, leaderSendSnapshot(s, p)
    PROVE  TypeOK'
<1> DEFINE r == rf[s]
           args == [Term |-> r.currentTerm, LastIncludedIndex |-> r.lastIncludedIndex,
                    LastIncludedTerm |-> r.lastIncludedTerm, Data |-> r.persister.snapshot]
<1>1. r \in RaftObject
    BY DEF TypeOK
<1>2. args \in [Term : Nat, LastIncludedIndex : Nat, LastIncludedTerm : Int, Data : Seq(LogEntry)]
    BY Zenon, <1>1 DEF RaftObject, Persister
<1>3. NoInstall \in [Term : Nat]
    BY DEF NoInstall
<1>4. snapCalls' = snapCalls \cup {Call(s, p, args, NoInstall)}
    BY DEF leaderSendSnapshot
<1> HIDE DEF args
<1>5. Call(s, p, args, NoInstall) \in SnapCall
    BY Zenon, <1>2, <1>3, NewCallType DEF SnapCall
<1>6. QED
    BY ZenonT(60), <1>4, <1>5 DEF leaderSendSnapshot, TypeOK

\* Start keeps the type invariant.
LEMMA StartType ==
    ASSUME TypeOK, NEW s \in Server, NEW command \in Command, Start(s, command)
    PROVE  TypeOK'
<1> DEFINE r == rf[s]
           entry == [Term |-> r.currentTerm, Command |-> command, Index |-> getLastLogIndex(r) + 1]
<1>1. r \in RaftObject
    BY DEF TypeOK
<1>2. r.currentTerm \in Nat /\ r.Log \in Seq(LogEntry)
    BY ZenonT(60), <1>1 DEF RaftObject
<1>3. entry \in LogEntry
    BY <1>1, <1>2, LastLogIndexType DEF LogEntry
<1> HIDE DEF r, entry
<1>4. Append(r.Log, entry) \in Seq(LogEntry)
    BY <1>2, <1>3
<1>5. [r EXCEPT !.Log = Append(@, entry)] \in RaftObject
    BY Zenon, <1>1, <1>4 DEF RaftObject
<1>6. appendCommand(r, command) \in RaftObject
    BY <1>5, PersistType DEF appendCommand, entry
<1>7. rf' = [rf EXCEPT ![s] = appendCommand(r, command)]
    BY DEF Start, r
<1>8. rf' \in [Server -> RaftObject]
    BY <1>6, <1>7 DEF TypeOK
<1>9. QED
    BY <1>8 DEF Start, TypeOK

\* Stepping down for an AppendEntries request keeps the server's type.
LEMMA StepDownType ==
    ASSUME NEW r \in RaftObject, NEW args, args.Term \in Nat
    PROVE  appendStepDown(r, args) \in RaftObject
BY FollowerStateType DEF appendStepDown

\* The parts of an AppendEntries call have their types.
LEMMA AppendCallFields ==
    ASSUME TypeOK, NEW c \in appendCalls
    PROVE  /\ c.to \in Server /\ c.from \in Server
           /\ c.args.Term \in Nat /\ c.args.PrevLogIndex \in Nat /\ c.args.LeaderCommit \in Nat
           /\ c.args.Entries \in Seq(LogEntry)
           /\ c.reply.Term \in Nat /\ c.reply.XTerm \in Int /\ c.reply.XIndex \in Int
           /\ rf[c.to] \in RaftObject /\ rf[c.from] \in RaftObject
           /\ \A reply \in AppendReply : Answer(appendCalls, c, reply) \subseteq AppendCall
<1>1. appendCalls \in SUBSET AppendCall /\ rf \in [Server -> RaftObject]
    BY DEF TypeOK
<1>2. \A reply \in AppendReply : Answer(appendCalls, c, reply) \subseteq AppendCall
    BY Zenon, <1>1, AnswerType DEF AppendCall, AppendReply
<1>3. c \in AppendCall
    BY <1>1
<1>4. /\ c.to \in Server /\ c.from \in Server
      /\ c.args.Term \in Nat /\ c.args.PrevLogIndex \in Nat /\ c.args.LeaderCommit \in Nat
      /\ c.args.Entries \in Seq(LogEntry)
      /\ c.reply.Term \in Nat /\ c.reply.XTerm \in Int /\ c.reply.XIndex \in Int
    BY ZenonT(60), <1>3 DEF AppendCall, CallOf
<1>5. QED
    BY ZenonT(60), <1>1, <1>2, <1>4

\* Refusing AppendEntries keeps the type invariant.
LEMMA RefuseType ==
    ASSUME TypeOK, NEW c \in appendCalls, AppendEntriesRefuse(c)
    PROVE  TypeOK'
<1> DEFINE reply == [NoAppend EXCEPT !.Term = rf[c.to].currentTerm]
<1>1. rf[c.to].currentTerm \in Nat
    BY AppendCallFields DEF RaftObject
<1>2. reply \in AppendReply
    BY <1>1, NoAppendType DEF AppendReply
<1>3. appendCalls' = Answer(appendCalls, c, reply)
    BY DEF AppendEntriesRefuse
<1> HIDE DEF reply
<1>4. appendCalls' \subseteq AppendCall
    BY <1>2, <1>3, AppendCallFields
<1>5. QED
    BY Zenon, <1>4 DEF AppendEntriesRefuse, TypeOK

\* Answering AppendEntries with a conflict hint keeps the type invariant.
LEMMA MismatchType ==
    ASSUME TypeOK, NEW c \in appendCalls, AppendEntriesMismatch(c)
    PROVE  TypeOK'
<1> DEFINE r == appendStepDown(rf[c.to], c.args)
           hint == backupHint(r, c.args)
           reply == [Term |-> r.currentTerm, Success |-> FALSE, LogInconsistency |-> TRUE,
                     XTerm |-> hint.XTerm, XIndex |-> hint.XIndex]
<1>1. r \in RaftObject
    BY ZenonT(60), AppendCallFields, StepDownType
<1>2. rf' = [rf EXCEPT ![c.to] = r] /\ appendCalls' = Answer(appendCalls, c, reply)
    BY DEF AppendEntriesMismatch
<1> HIDE DEF r
<1>3. hint.XTerm \in Int /\ hint.XIndex \in Int
    <2> DEFINE prev == c.args.PrevLogIndex
    <2>1. prev \in Nat /\ r.lastIncludedIndex \in Nat /\ getLastLogIndex(r) \in Nat
        BY Zenon, <1>1, AppendCallFields, LastLogIndexType DEF RaftObject
    <2>2. CASE prev < r.lastIncludedIndex
        BY SMTT(40), <2>1, <2>2 DEF backupHint
    <2>3. CASE prev >= r.lastIncludedIndex /\ prev > getLastLogIndex(r)
        BY SMTT(40), <2>1, <2>3 DEF backupHint
    <2>4. CASE prev >= r.lastIncludedIndex /\ prev <= getLastLogIndex(r)
        <3>1. getLogAt(r, prev) \in Int /\ getSameTermFirst(r, prev) \in Int
            BY SMTT(40), <1>1, <2>1, <2>4, LogAtType, SameTermFirstType
        <3>2. QED
            BY SMTT(40), <2>1, <2>4, <3>1 DEF backupHint
    <2>5. QED
        BY <2>1, <2>2, <2>3, <2>4
<1> HIDE DEF hint
<1>4. reply \in AppendReply
    BY ZenonT(60), <1>1, <1>3 DEF RaftObject, AppendReply
<1> HIDE DEF reply
<1>5. rf' \in [Server -> RaftObject] /\ appendCalls' \subseteq AppendCall
    BY ZenonT(60), <1>1, <1>2, <1>4, AppendCallFields DEF TypeOK
<1>6. QED
    BY Zenon, <1>5 DEF AppendEntriesMismatch, TypeOK

\* Accepting AppendEntries keeps the type invariant.
LEMMA AcceptType ==
    ASSUME TypeOK, NEW c \in appendCalls, AppendEntriesAccept(c)
    PROVE  TypeOK'
<1> DEFINE r == appendStepDown(rf[c.to], c.args)
           merged == mergeEntries(r, c.args)
           saved == persist([r EXCEPT !.Log = merged])
           stored == IF merged = r.Log THEN r ELSE saved
           final == [stored EXCEPT !.commitIndex = followerCommit(r, c.args)]
           reply == [NoAppend EXCEPT !.Term = r.currentTerm, !.Success = TRUE]
<1>1. r \in RaftObject
    BY ZenonT(60), AppendCallFields, StepDownType
<1>2. /\ prevMatches(r, c.args)
      /\ rf' = [rf EXCEPT ![c.to] = final] /\ appendCalls' = Answer(appendCalls, c, reply)
    BY DEF AppendEntriesAccept
<1> HIDE DEF r
<1>3. merged \in Seq(LogEntry)
    BY <1>1, <1>2, AppendCallFields, MergeType DEF prevMatches
<1> HIDE DEF merged
<1>4. [r EXCEPT !.Log = merged] \in RaftObject
    BY Zenon, <1>1, <1>3 DEF RaftObject
<1>5. stored \in RaftObject
    BY ZenonT(60), <1>1, <1>4, PersistType
<1> HIDE DEF saved, stored
<1>6. followerCommit(r, c.args) \in Nat
    <2>1. r.commitIndex \in Nat /\ getLastLogIndex(r) \in Nat
        BY ZenonT(60), <1>1, LastLogIndexType DEF RaftObject
    <2>2. QED
        BY ZenonT(60), <2>1, AppendCallFields DEF followerCommit, Smaller
<1>7. final \in RaftObject
    BY Zenon, <1>5, <1>6 DEF RaftObject
<1>8. reply \in AppendReply
    BY Zenon, <1>1, NoAppendType DEF RaftObject, AppendReply
<1> HIDE DEF final, reply
<1>9. rf' \in [Server -> RaftObject] /\ appendCalls' \subseteq AppendCall
    BY ZenonT(60), <1>2, <1>7, <1>8, AppendCallFields DEF TypeOK
<1>10. QED
    BY ZenonT(60), <1>9 DEF AppendEntriesAccept, TypeOK

\* The index a successful AppendEntries acknowledges is a number.
LEMMA AcknowledgedType ==
    ASSUME NEW r \in RaftObject, NEW p \in Server, NEW index \in Int
    PROVE  acknowledged(r, p, index) \in RaftObject
<1>1. r.matchIndex \in [Server -> Int] /\ r.nextIndex \in [Server -> Int]
    BY ZenonT(60) DEF RaftObject
<1>2. /\ [r.matchIndex EXCEPT ![p] = index] \in [Server -> Int]
      /\ [r.nextIndex EXCEPT ![p] = index + 1] \in [Server -> Int]
    BY <1>1
<1>3. QED
    BY Zenon, <1>2 DEF acknowledged, RaftObject

\* The fast backup sets nextIndex to a number.
LEMMA InconsistencyType ==
    ASSUME NEW r \in RaftObject, NEW p \in Server, NEW reply, reply.XTerm \in Int, reply.XIndex \in Int
    PROVE  handleLogInconsistency(r, p, reply) \in RaftObject
<1> DEFINE same == {k \in 1..Len(r.Log) : r.Log[k].Term = reply.XTerm}
           target == IF reply.XTerm = -1 THEN Larger(reply.XIndex, r.matchIndex[p] + 1)
                     ELSE backupTarget(r, reply)
<1>1. /\ r.nextIndex \in [Server -> Int] /\ r.matchIndex[p] \in Int
      /\ r.lastIncludedIndex \in Int /\ Len(r.Log) \in Int
    <2>1. r.Log \in Seq(LogEntry) /\ r.matchIndex \in [Server -> Int]
        BY DEF RaftObject
    <2>2. QED
        BY <2>1 DEF RaftObject
<1>2. backupTarget(r, reply) = IF same = {} THEN reply.XIndex ELSE r.lastIncludedIndex + Max(same) + 1
    BY DEF backupTarget
<1>3. same \in SUBSET Int /\ \A k \in same : k <= Len(r.Log)
    BY <1>1
<1> HIDE DEF same
<1>4. ASSUME same # {}
      PROVE  Max(same) \in Int
    <2>1. Max(same) \in same
        BY Zenon, <1>1, <1>3, <1>4, MaxInSet
    <2>2. QED
        BY Zenon, <1>3, <2>1
<1>5. backupTarget(r, reply) \in Int
    BY SMTT(40), <1>1, <1>2, <1>4
<1>6. target \in Int
    BY <1>1, <1>5 DEF Larger
<1>7. handleLogInconsistency(r, p, reply) = [r EXCEPT !.nextIndex[p] = target]
    BY DEF handleLogInconsistency
<1> HIDE DEF target
<1>8. [r.nextIndex EXCEPT ![p] = target] \in [Server -> Int]
    BY <1>1, <1>6
<1>9. QED
    BY Zenon, <1>7, <1>8 DEF RaftObject

\* Advancing the commit index keeps the server's type.
LEMMA CommitType ==
    ASSUME NEW r \in RaftObject, NEW s \in Server
    PROVE  [r EXCEPT !.commitIndex = countReplica(r, s)] \in RaftObject
<1>1. countReplica(r, s) \in Nat
    BY ZenonT(60), CountReplicaType
<1>2. QED
    BY Zenon, <1>1 DEF RaftObject

\* A leader's handling of an AppendEntries reply keeps the type invariant.
LEMMA AppendReplyType ==
    ASSUME TypeOK, NEW c \in appendCalls, leaderAppendEntriesReply(c)
    PROVE  TypeOK'
<1> DEFINE r == rf[c.from]
           n == appendReplied(r, c)
           committed == [n EXCEPT !.commitIndex = countReplica(n, c.from)]
<1>1. /\ c.from \in Server /\ r \in RaftObject
      /\ FollowerState(r, c.reply.Term) \in RaftObject
    BY AppendCallFields, FollowerStateType
<1>2. n \in RaftObject
    <2>1. c.args.PrevLogIndex + Len(c.args.Entries) \in Int
        BY AppendCallFields
    <2>2. QED
        BY Zenon, <1>1, <2>1, AppendCallFields, AcknowledgedType, InconsistencyType DEF appendReplied
<1>3. \E q \in {FollowerState(r, c.reply.Term), committed, r} : rf' = [rf EXCEPT ![c.from] = q]
    BY Zenon DEF leaderAppendEntriesReply
<1> HIDE DEF r, n
<1>4. committed \in RaftObject
    BY ZenonT(60), <1>1, <1>2, CommitType
<1> HIDE DEF committed
<1>5. rf' \in [Server -> RaftObject]
    BY SMTT(40), ZenonT(60), <1>1, <1>3, <1>4 DEF TypeOK
<1>6. QED
    BY ZenonT(60), <1>5 DEF leaderAppendEntriesReply, TypeOK

\* The parts of an InstallSnapshot call have their types.
LEMMA SnapCallFields ==
    ASSUME TypeOK, NEW c \in snapCalls
    PROVE  /\ c.to \in Server /\ c.from \in Server
           /\ c.args.Term \in Nat /\ c.args.LastIncludedIndex \in Nat
           /\ c.args.LastIncludedTerm \in Int /\ c.args.Data \in Seq(LogEntry)
           /\ c.reply.Term \in Nat
           /\ rf[c.to] \in RaftObject /\ rf[c.from] \in RaftObject
           /\ \A reply \in [Term : Nat] : Answer(snapCalls, c, reply) \subseteq SnapCall
<1>1. snapCalls \in SUBSET SnapCall /\ rf \in [Server -> RaftObject]
    BY DEF TypeOK
<1>2. \A reply \in [Term : Nat] : Answer(snapCalls, c, reply) \subseteq SnapCall
    BY Zenon, <1>1, AnswerType DEF SnapCall
<1>3. c \in SnapCall
    BY <1>1
<1>4. /\ c.to \in Server /\ c.from \in Server
      /\ c.args.Term \in Nat /\ c.args.LastIncludedIndex \in Nat
      /\ c.args.LastIncludedTerm \in Int /\ c.args.Data \in Seq(LogEntry)
      /\ c.reply.Term \in Nat
    BY <1>3 DEF SnapCall, CallOf
<1>5. QED
    BY ZenonT(60), <1>1, <1>2, <1>4

\* A leader's handling of an InstallSnapshot reply keeps the type invariant.
LEMMA SnapReplyType ==
    ASSUME TypeOK, NEW c \in snapCalls, leaderSendSnapshotReply(c)
    PROVE  TypeOK'
<1> DEFINE r == rf[c.from]
           n == installReplied(r, c)
           committed == [n EXCEPT !.commitIndex = countReplica(n, c.from)]
<1>1. /\ c.from \in Server /\ r \in RaftObject
      /\ FollowerState(r, c.reply.Term) \in RaftObject
    BY ZenonT(60), SnapCallFields, FollowerStateType
<1>2. n \in RaftObject
    BY <1>1, SnapCallFields, AcknowledgedType DEF installReplied
<1>3. \E q \in {FollowerState(r, c.reply.Term), committed, r} : rf' = [rf EXCEPT ![c.from] = q]
    BY Zenon DEF leaderSendSnapshotReply
<1> HIDE DEF r, n
<1>4. committed \in RaftObject
    BY ZenonT(60), <1>1, <1>2, CommitType
<1> HIDE DEF committed
<1>5. rf' \in [Server -> RaftObject]
    BY SMTT(40), ZenonT(60), <1>1, <1>3, <1>4 DEF TypeOK
<1>6. QED
    BY <1>5 DEF leaderSendSnapshotReply, TypeOK

\* The InstallSnapshot handler keeps the type invariant.
LEMMA InstallType ==
    ASSUME TypeOK, NEW c \in snapCalls, InstallSnapshot(c)
    PROVE  TypeOK'
<1> DEFINE r == IF c.args.Term > rf[c.to].currentTerm THEN FollowerState(rf[c.to], c.args.Term)
                ELSE rf[c.to]
           msg == [Term |-> c.args.LastIncludedTerm, Index |-> c.args.LastIncludedIndex,
                   Data |-> c.args.Data]
           M == [Term : Int, Index : Nat, Data : Seq(LogEntry)]
<1>1. c.to \in Server /\ r \in RaftObject /\ msg \in M
    BY SnapCallFields, FollowerStateType
<1>2. /\ rf' = [rf EXCEPT ![c.to] = r] /\ snapCalls' = Answer(snapCalls, c, [Term |-> r.currentTerm])
      /\ \/ installs' = [installs EXCEPT ![c.to] = @ \cup {msg}]
         \/ installs' = [installs EXCEPT ![c.to] = @]
    BY Zenon DEF InstallSnapshot
<1> HIDE DEF r, msg
<1>3. [Term |-> r.currentTerm] \in [Term : Nat]
    BY <1>1 DEF RaftObject
<1>4. snapCalls' \subseteq SnapCall
    BY ZenonT(60), <1>2, <1>3, SnapCallFields
<1>5. rf' \in [Server -> RaftObject]
    BY <1>1, <1>2 DEF TypeOK
<1>6. installs' \in [Server -> SUBSET M]
    <2>1. installs \in [Server -> SUBSET M]
        BY DEF TypeOK
    <2>2. installs[c.to] \cup {msg} \in SUBSET M
        BY ZenonT(60), <1>1, <2>1
    <2>3. QED
        BY Zenon, <1>1, <1>2, <2>1, <2>2
<1>7. QED
    BY ZenonT(60), <1>4, <1>5, <1>6 DEF InstallSnapshot, TypeOK

\* CondInstallSnapshot keeps the type invariant.
LEMMA CondInstallType ==
    ASSUME TypeOK, NEW s \in Server, NEW msg \in installs[s], CondInstallSnapshot(s, msg)
    PROVE  TypeOK'
<1> DEFINE r == switchToSnapshot(rf[s], msg.Index, msg.Term, msg.Data)
           k == [applied |-> msg.Data, lastIncludedIndex |-> msg.Index]
           M == [Term : Int, Index : Nat, Data : Seq(LogEntry)]
           K == [applied : Seq(LogEntry), lastIncludedIndex : Nat]
<1>1. rf[s] \in RaftObject /\ msg \in M /\ installs \in [Server -> SUBSET M] /\ kv \in [Server -> K]
    BY DEF TypeOK
<1>2. r \in RaftObject /\ k \in K
    BY <1>1, SwitchType
<1>3. /\ installs' = [installs EXCEPT ![s] = @ \ {msg}]
      /\ rf' = [rf EXCEPT ![s] = r] \/ rf' = [rf EXCEPT ![s] = rf[s]]
      /\ kv' = [kv EXCEPT ![s] = k] \/ kv' = [kv EXCEPT ![s] = kv[s]]
    BY Zenon DEF CondInstallSnapshot
<1> HIDE DEF r, k
<1>4. rf' \in [Server -> RaftObject]
    BY Zenon, <1>1, <1>2, <1>3 DEF TypeOK
<1>5. kv' \in [Server -> K]
    BY Zenon, <1>1, <1>2, <1>3
<1>6. installs' \in [Server -> SUBSET M]
    BY <1>1, <1>3
<1>7. QED
    BY ZenonT(60), <1>4, <1>5, <1>6 DEF CondInstallSnapshot, TypeOK

\* applyChecker's copy of a batch keeps the type invariant.
LEMMA ApplyCopyType ==
    ASSUME TypeOK, NEW s \in Server, applyCheckerCopy(s)
    PROVE  TypeOK'
<1> DEFINE r == rf[s]
           first == r.lastApplied + 1 - r.lastIncludedIndex
           last == r.commitIndex - r.lastIncludedIndex
           entries == SubSeq(r.Log, first, last)
           batch == [busy |-> TRUE, commitIndex |-> r.commitIndex, entries |-> entries]
<1>1. r \in RaftObject
    BY DEF TypeOK
<1>2. first >= 1 /\ last <= Len(r.Log) /\ applying' = [applying EXCEPT ![s] = batch]
    BY DEF applyCheckerCopy
<1> HIDE DEF r
<1>3. first \in Int /\ last \in Int /\ r.Log \in Seq(LogEntry) /\ r.commitIndex \in Nat
    BY SMTT(40), <1>1 DEF RaftObject
<1> HIDE DEF first, last
<1>4. entries \in Seq(LogEntry)
    BY <1>2, <1>3, SubSeqType
<1> HIDE DEF entries
<1>5. batch \in [busy : BOOLEAN, entries : Seq(LogEntry), commitIndex : Nat]
    BY ZenonT(60), <1>3, <1>4
<1> HIDE DEF batch
<1>6. QED
    BY Zenon, <1>2, <1>5 DEF applyCheckerCopy, TypeOK

\* The service's handling of a message, with or without a snapshot, keeps the type invariant.
LEMMA ApplyHandlerType ==
    ASSUME TypeOK, NEW s \in Server, NEW takeSnapshot \in BOOLEAN, applyHandler(s, takeSnapshot)
    PROVE  TypeOK'
<1> DEFINE a == applying[s]
           entry == Head(a.entries)
           applied == Append(kv[s].applied, entry)
           K == [applied : Seq(LogEntry), lastIncludedIndex : Nat]
           B == [busy : BOOLEAN, entries : Seq(LogEntry), commitIndex : Nat]
<1>1. rf[s] \in RaftObject /\ a \in B /\ kv[s] \in K /\ kv \in [Server -> K] /\ applying \in [Server -> B]
    BY DEF TypeOK
<1>2. a.entries \in Seq(LogEntry) /\ a.entries # <<>> /\ kv[s].applied \in Seq(LogEntry)
    BY <1>1 DEF applyHandler
<1>3. entry \in LogEntry /\ Tail(a.entries) \in Seq(LogEntry)
    BY <1>2
<1>4. applied \in Seq(LogEntry) /\ entry.Index \in Nat
    <2> HIDE DEF entry
    <2>1. QED
        BY <1>2, <1>3 DEF LogEntry
<1>5. /\ applying' = [applying EXCEPT ![s].entries = Tail(@)]
      /\ kv' = [kv EXCEPT ![s].applied = IF alreadyApplied(kv[s], entry) THEN @ ELSE applied]
      /\ \/ rf' = [rf EXCEPT ![s] = Snapshot(rf[s], entry.Index, applied)]
         \/ rf' = [rf EXCEPT ![s] = rf[s]]
    BY Zenon DEF applyHandler
<1> HIDE DEF entry, applied
<1>6. Snapshot(rf[s], entry.Index, applied) \in RaftObject
    BY ZenonT(60), <1>1, <1>4, SnapshotType
<1>7. rf' \in [Server -> RaftObject]
    BY Zenon, <1>1, <1>5, <1>6 DEF TypeOK
<1>8. kv' \in [Server -> K]
    BY Zenon, <1>1, <1>4, <1>5
<1>9. applying' \in [Server -> B]
    BY Zenon, <1>1, <1>3, <1>5
<1>10. QED
    BY ZenonT(60), <1>7, <1>8, <1>9 DEF applyHandler, TypeOK

\* The end of a batch keeps the type invariant.
LEMMA ApplyDoneType ==
    ASSUME TypeOK, NEW s \in Server, applyCheckerDone(s)
    PROVE  TypeOK'
<1> DEFINE r == [rf[s] EXCEPT !.lastApplied = Larger(@, applying[s].commitIndex)]
<1>1. rf[s] \in RaftObject /\ applying[s].commitIndex \in Nat
    BY DEF TypeOK
<1>2. r \in RaftObject
    BY Zenon, <1>1 DEF RaftObject, Larger
<1>3. rf' = [rf EXCEPT ![s] = r] /\ applying' = [applying EXCEPT ![s] = Idle]
    BY DEF applyCheckerDone
<1> HIDE DEF r
<1>4. Idle \in [busy : BOOLEAN, entries : Seq(LogEntry), commitIndex : Nat]
    BY DEF Idle
<1>5. QED
    BY ZenonT(60), <1>2, <1>3, <1>4 DEF applyCheckerDone, TypeOK

\* A crash and restart keep the type invariant.
LEMMA RestartType ==
    ASSUME TypeOK, NEW s \in Server, Restart(s)
    PROVE  TypeOK'
<1> DEFINE p == rf[s].persister
<1>1. rf[s] \in RaftObject
    BY DEF TypeOK
<1>2. p \in Persister /\ p.snapshot \in Seq(LogEntry)
    BY ZenonT(60), <1>1, PersisterField
<1>3. /\ rf' = [rf EXCEPT ![s] = Make(p)] /\ kv' = [kv EXCEPT ![s] = StartKVServer(p)]
      /\ applying' = [applying EXCEPT ![s] = Idle] /\ installs' = [installs EXCEPT ![s] = {}]
      /\ voteCalls' = Orphan(voteCalls, s) /\ appendCalls' = Orphan(appendCalls, s)
      /\ snapCalls' = Orphan(snapCalls, s)
    BY DEF Restart
<1> HIDE DEF p
<1>4. Make(p) \in RaftObject
    BY <1>2, MakeType
<1>5. StartKVServer(p) \in [applied : Seq(LogEntry), lastIncludedIndex : Nat]
    BY <1>2 DEF StartKVServer
<1>6. Idle \in [busy : BOOLEAN, entries : Seq(LogEntry), commitIndex : Nat]
    BY DEF Idle
<1>7. /\ voteCalls \in SUBSET VoteCall /\ appendCalls \in SUBSET AppendCall
      /\ snapCalls \in SUBSET SnapCall
    BY DEF TypeOK
<1>8. voteCalls' \subseteq VoteCall
    BY <1>3, <1>7, OrphanType DEF VoteCall
<1>9. appendCalls' \subseteq AppendCall
    BY Zenon, <1>3, <1>7, OrphanType DEF AppendCall
<1>10. snapCalls' \subseteq SnapCall
    BY Zenon, <1>3, <1>7, OrphanType DEF SnapCall
<1>11. /\ rf' \in [Server -> RaftObject]
       /\ kv' \in [Server -> [applied : Seq(LogEntry), lastIncludedIndex : Nat]]
       /\ applying' \in [Server -> [busy : BOOLEAN, entries : Seq(LogEntry), commitIndex : Nat]]
       /\ installs' \in [Server -> SUBSET [Term : Int, Index : Nat, Data : Seq(LogEntry)]]
    BY ZenonT(60), <1>3, <1>4, <1>5, <1>6 DEF TypeOK
<1>12. QED
    BY ZenonT(60), <1>8, <1>9, <1>10, <1>11 DEF TypeOK

\* A lost RequestVote, retried or given up, keeps the type invariant.
LEMMA LoseVoteType ==
    ASSUME TypeOK, NEW c \in voteCalls, loseVoteCall(c)
    PROVE  TypeOK'
<1> DEFINE again == [Call(c.from, c.to, c.args, NoVote) EXCEPT !.retry = c.retry + 1]
<1>1. c \in VoteCall
    BY DEF TypeOK
<1>2. /\ voteCalls' \subseteq voteCalls \cup {again}
      /\ again \in voteCalls' /\ again \notin voteCalls => c.retry < MaxRetry
    BY Zenon DEF loseVoteCall
<1>3. ASSUME c.retry < MaxRetry
      PROVE  again \in VoteCall
    <2> DEFINE A == [Term : Nat, LastLogIndex : Nat, LastLogTerm : Int]
               R == [Term : Nat, VoteGranted : BOOLEAN]
    <2>1. c.from \in Server /\ c.to \in Server /\ c.args \in A /\ c.retry \in 0..MaxRetry
        BY <1>1 DEF VoteCall, CallOf
    <2>2. NoVote \in R
        BY DEF NoVote
    <2> HIDE DEF A, R
    <2>3. Call(c.from, c.to, c.args, NoVote) \in CallOf(A, R)
        BY <2>1, <2>2, NewCallType
    <2>4. c.retry + 1 \in 0..MaxRetry
        BY <1>3, <2>1, RetryAssumption
    <2>5. again \in CallOf(A, R)
        BY ZenonT(60), <2>3, <2>4 DEF CallOf
    <2>6. QED
        BY <2>5 DEF VoteCall, A, R
<1> HIDE DEF again
<1>4. voteCalls' \subseteq VoteCall
    BY <1>2, <1>3 DEF TypeOK
<1>5. QED
    BY Zenon, <1>4 DEF loseVoteCall, TypeOK

\* Every step of the group keeps the type of its state.
LEMMA NextType == TypeOK /\ [Next]_vars => TypeOK'
<1> SUFFICES ASSUME TypeOK, [Next]_vars PROVE TypeOK'
    BY ZenonT(60)
<1>1. CASE UNCHANGED vars
    BY ZenonT(60), <1>1 DEF vars, TypeOK
<1>2. ASSUME NEW s \in Server, ServerNext(s)
      PROVE  TypeOK'
    BY ZenonT(60), <1>2, TickerType, RestartType, ApplyCopyType, ApplyDoneType, StartType, SendAppendType,
       SendSnapshotType, CondInstallType, ApplyHandlerType DEF ServerNext
<1>3. CASE CallNext
    BY ZenonT(60), <1>3, RequestVoteType, VoteReplyType, RefuseType, MismatchType, AcceptType,
       AppendReplyType, InstallType, SnapReplyType DEF CallNext
<1>4. CASE LossNext
    <2>1. ASSUME NEW c \in appendCalls, loseAppendCall(c) PROVE TypeOK'
        BY ZenonT(60), <2>1 DEF loseAppendCall, TypeOK
    <2>2. ASSUME NEW c \in snapCalls, loseSnapCall(c) PROVE TypeOK'
        BY <2>2 DEF loseSnapCall, TypeOK
    <2>3. QED
        BY ZenonT(60), <1>4, <2>1, <2>2, LoseVoteType DEF LossNext
<1>5. QED
    BY ZenonT(60), <1>1, <1>2, <1>3, <1>4 DEF Next

\* The type invariant: whatever is delivered, lost or restarted, every field of
\* the Raft objects, the services and the calls keeps its type.
THEOREM TypeCorrect == Spec => []TypeOK
BY InitType, NextType, PTL DEF Spec
---------------------------------------------------------------------------
(* Sets of servers, and the theorems *)

LOCAL F == INSTANCE FiniteSetTheorems

\* The operators of FiniteSets are the ones that the theorems of the library
\* are about.
LEMMA SameOperators == \A S : (F!IsFiniteSet(S) <=> IsFiniteSet(S)) /\ F!Cardinality(S) = Cardinality(S)
<1>1. \A S : F!IsFiniteSet(S) <=> IsFiniteSet(S)
    BY Zenon DEF IsFiniteSet, F!IsFiniteSet
<1>2. \A S : F!Cardinality(S) = Cardinality(S)
    BY Zenon DEF Cardinality, F!Cardinality
<1> QED BY Zenon, <1>1, <1>2

\* Votes are counted one by one, and two majorities have a server in common.
LEMMA CountingHolds == Counting
<1>1. F!IsFiniteSet(Server) /\ \A V \in SUBSET Server : F!IsFiniteSet(V)
    BY Zenon, ServerAssumption, SameOperators, F!FS_Subset
<1>2. \A s \in Server : Cardinality({s}) = 1
    BY Zenon, SameOperators, F!FS_Singleton
<1>3. ASSUME NEW V \in SUBSET Server
      PROVE  /\ Cardinality(V) \in Nat
             /\ \A s \in Server : s \notin V => Cardinality(V \cup {s}) = Cardinality(V) + 1
    <2>1. F!Cardinality(V) \in Nat
        BY Zenon, <1>1, F!FS_CardinalityType
    <2>2. \A s \in Server : s \notin V => F!Cardinality(V \cup {s}) = F!Cardinality(V) + 1
        BY Zenon, <1>1, F!FS_AddElement
    <2> QED BY Zenon, <2>1, <2>2, SameOperators
<1>4. ASSUME NEW V \in SUBSET Server, NEW W \in SUBSET Server,
             Cardinality(V) + Cardinality(W) > Cardinality(Server)
      PROVE  \E s \in Server : s \in V /\ s \in W
    <2>1. F!Cardinality(V) + F!Cardinality(W) > F!Cardinality(Server)
        BY Zenon, <1>4, SameOperators
    <2>2. V \subseteq Server /\ W \subseteq Server
        BY Zenon
    <2>3. V \cap W # {}
        BY Zenon, <1>1, <2>1, <2>2, F!FS_MajoritiesIntersect
    <2> QED BY Zenon, <2>3
<1> QED BY Zenon, <1>2, <1>3, <1>4 DEF Counting

\* The invariant holds in every reachable state, for any group and any fault.
THEOREM ElectionInvariant == Spec => []ElectionInv
BY InitType, NextType, InitElection, NextElection, CountingHolds, PTL DEF Spec

\* Raft's Election Safety for this code: there is at most one leader in a term.
THEOREM OneLeaderPerTerm == Spec => []ElectionSafety
BY TypeCorrect, ElectionInvariant, InvElectionSafety, CountingHolds, PTL
=================================================================================
