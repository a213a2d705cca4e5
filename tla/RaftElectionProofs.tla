--------------------------- MODULE RaftElectionProofs ---------------------------
(* At most one leader per term, for every number of servers, every behaviour of  *)
(* the network and every crash.  Most steps of the system are quiet for the      *)
(* election: they leave the ballot of a server alone or only take something away *)
(* from it.  What is left is the election timeout, a granted vote and a counted  *)
(* vote.                                                                         *)
EXTENDS Raft, TLAPS

\* The part of a Raft object that the election reads.
SameBallot(q, r) ==
    /\ r.state = q.state /\ r.currentTerm = q.currentTerm /\ r.votedFor = q.votedFor
    /\ r.voters = q.voters /\ r.getVotesNum = q.getVotesNum

\* FollowerState: a newer term, or a candidate that has met its term's leader.
SteppedDown(q, r) ==
    /\ r.state = "FOLLOWER" /\ r.votedFor = Nil
    /\ \/ r.currentTerm > q.currentTerm
       \/ r.currentTerm = q.currentTerm /\ q.state = "CANDIDATE"

\* A restart keeps the term and the vote.
CameBack(q, r) ==
    r.state = "FOLLOWER" /\ r.currentTerm = q.currentTerm /\ r.votedFor = q.votedFor

Saved(r) == r.persister.currentTerm = r.currentTerm /\ r.persister.votedFor = r.votedFor

Quiet(q, r) ==
    /\ Saved(r)
    /\ SameBallot(q, r) \/ SteppedDown(q, r) \/ CameBack(q, r)

\* A call that is still there, or one that stands for it without a vote in it.
SameCall(c, d) ==
    /\ d.from = c.from /\ d.to = c.to /\ d.args = c.args
    /\ d.stage = "answered" /\ d.reply.VoteGranted => d = c

\* What is said about counting votes rests on this: CountingHolds in module RaftProofs proves it.
Counting ==
    /\ \A s \in Server : Cardinality({s}) = 1
    /\ \A V \in SUBSET Server :
        /\ Cardinality(V) \in Nat
        /\ \A s \in Server : s \notin V => Cardinality(V \cup {s}) = Cardinality(V) + 1
        /\ \A W \in SUBSET Server : Cardinality(V) + Cardinality(W) > Cardinality(Server) =>
            \E s \in Server : s \in V /\ s \in W

QuietStep ==
    /\ \A s \in Server : Quiet(rf[s], rf'[s])
    /\ \A d \in voteCalls' : \E c \in voteCalls : SameCall(c, d)
    /\ OneVoteCall'

---------------------------------------------------------------------------
(* Objects that are persisted *)

\* Saving the persistent fields gives a Raft object.
LEMMA SaveStateType ==
    ASSUME NEW r \in RaftObject, NEW data \in Seq(LogEntry)
    PROVE  SaveState(r, data) \in RaftObject
BY Zenon DEF SaveState, RaftObject, Persister

\* persist writes the state that a restart reads back.
LEMMA PersistType ==
    ASSUME NEW r \in RaftObject
    PROVE  persist(r) \in RaftObject
BY Zenon, SaveStateType DEF persist, RaftObject, Persister

\* A server that becomes follower, in a new term or in its own, has its type.
LEMMA FollowerStateType ==
    ASSUME NEW r \in RaftObject, NEW t \in Nat
    PROVE  FollowerState(r, t) \in RaftObject
<1> DEFINE q == [r EXCEPT !.state = "FOLLOWER", !.currentTerm = t, !.votedFor = Nil,
                          !.getVotesNum = 0, !.voters = {}]
<1>1. q \in RaftObject
    BY Zenon DEF RaftObject
<1>2. QED
    BY <1>1, PersistType DEF FollowerState

---------------------------------------------------------------------------
(* The votes there are *)

\* A vote is in Grants because a granted reply is in flight or because a
\* candidate or leader has counted it.
LEMMA GrantIntro ==
    /\ \A c \in voteCalls : c.stage = "answered" /\ c.reply.VoteGranted
           => [voter |-> c.to, candidate |-> c.from, term |-> c.args.Term] \in Grants
    /\ \A s \in Server : \A v \in rf[s].voters : rf[s].state # "FOLLOWER"
           => [voter |-> v, candidate |-> s, term |-> rf[s].currentTerm] \in Grants
<1>1. ASSUME NEW c \in voteCalls, c.stage = "answered", c.reply.VoteGranted
      PROVE  [voter |-> c.to, candidate |-> c.from, term |-> c.args.Term] \in Grants
    BY <1>1 DEF Grants
<1>2. ASSUME NEW s \in Server, NEW v \in rf[s].voters, rf[s].state # "FOLLOWER"
      PROVE  [voter |-> v, candidate |-> s, term |-> rf[s].currentTerm] \in Grants
    <2> DEFINE counted(t) == {[voter |-> w, candidate |-> t, term |-> rf[t].currentTerm] :
                                  w \in rf[t].voters}
               elected == {t \in Server : rf[t].state # "FOLLOWER"}
    <2>1. [voter |-> v, candidate |-> s, term |-> rf[s].currentTerm] \in counted(s)
        OBVIOUS
    <2>2. s \in elected
        BY <1>2
    <2>3. UNION {counted(t) : t \in elected} \subseteq Grants
        BY DEF Grants
    <2> HIDE DEF counted, elected
    <2>4. QED
        BY <2>1, <2>2, <2>3
<1>3. QED
    BY <1>1, <1>2

\* ... and for no other reason.
LEMMA GrantElim ==
    ASSUME NEW g \in Grants
    PROVE  \/ \E c \in voteCalls : /\ c.stage = "answered" /\ c.reply.VoteGranted
                                   /\ g = [voter |-> c.to, candidate |-> c.from, term |-> c.args.Term]
           \/ \E s \in Server : \E v \in rf[s].voters :
                  /\ rf[s].state # "FOLLOWER"
                  /\ g = [voter |-> v, candidate |-> s, term |-> rf[s].currentTerm]
BY DEF Grants

\* The same after a step.
LEMMA GrantElimNext ==
    ASSUME NEW g \in Grants'
    PROVE  \/ \E c \in voteCalls' : /\ c.stage = "answered" /\ c.reply.VoteGranted
                                    /\ g = [voter |-> c.to, candidate |-> c.from, term |-> c.args.Term]
           \/ \E s \in Server : \E v \in rf'[s].voters :
                  /\ rf'[s].state # "FOLLOWER"
                  /\ g = [voter |-> v, candidate |-> s, term |-> rf'[s].currentTerm]
BY DEF Grants

\* The servers and the term of a vote.
LEMMA GrantType ==
    ASSUME TypeOK, NEW g \in Grants
    PROVE  g.voter \in Server /\ g.candidate \in Server /\ g.term \in Nat
<1>1. ASSUME NEW c \in voteCalls,
             g = [voter |-> c.to, candidate |-> c.from, term |-> c.args.Term]
      PROVE  g.voter \in Server /\ g.candidate \in Server /\ g.term \in Nat
    BY ZenonT(60), <1>1 DEF TypeOK, VoteCall, CallOf
<1>2. ASSUME NEW s \in Server, NEW v \in rf[s].voters,
             g = [voter |-> v, candidate |-> s, term |-> rf[s].currentTerm]
      PROVE  g.voter \in Server /\ g.candidate \in Server /\ g.term \in Nat
    BY <1>2 DEF TypeOK, RaftObject
<1>3. QED
    BY <1>1, <1>2, GrantElim

\* A quiet step hands out no vote.
LEMMA QuietGrants ==
    ASSUME TypeOK, ElectionInv, QuietStep
    PROVE  Grants' \subseteq Grants
<1> SUFFICES ASSUME NEW g \in Grants' PROVE g \in Grants
    OBVIOUS
<1>1. ASSUME NEW d \in voteCalls', d.stage = "answered", d.reply.VoteGranted,
             g = [voter |-> d.to, candidate |-> d.from, term |-> d.args.Term]
      PROVE  g \in Grants
    <2>1. d \in voteCalls
        BY <1>1 DEF QuietStep, SameCall
    <2>2. QED
        BY <1>1, <2>1, GrantIntro
<1>2. ASSUME NEW s \in Server, NEW v \in rf'[s].voters, rf'[s].state # "FOLLOWER",
             g = [voter |-> v, candidate |-> s, term |-> rf'[s].currentTerm]
      PROVE  g \in Grants
    <2>1. SameBallot(rf[s], rf'[s])
        BY <1>2 DEF QuietStep, Quiet, SteppedDown, CameBack
    <2>2. QED
        BY <1>2, <2>1, GrantIntro DEF SameBallot
<1>3. QED
    BY <1>1, <1>2 DEF Grants

\* A quiet step keeps the invariant.
LEMMA QuietKeeps ==
    ASSUME TypeOK, TypeOK', ElectionInv, QuietStep
    PROVE  ElectionInv'
<1>1. VotePersisted'
    BY DEF QuietStep, Quiet, Saved, VotePersisted
<1>2. VotesCounted'
    <2> SUFFICES ASSUME NEW s \in Server, rf'[s].state # "FOLLOWER"
                 PROVE  /\ rf'[s].votedFor = s /\ s \in rf'[s].voters
                        /\ rf'[s].getVotesNum = Cardinality(rf'[s].voters)
                        /\ rf'[s].state = "LEADER" => IsMajority(rf'[s].getVotesNum)
        BY DEF VotesCounted, IsMajority
    <2>1. SameBallot(rf[s], rf'[s])
        BY DEF QuietStep, Quiet, SteppedDown, CameBack
    <2>2. QED
        BY <2>1 DEF SameBallot, ElectionInv, VotesCounted
<1>3. VoteCallsCurrent'
    <2> SUFFICES ASSUME NEW d \in voteCalls'
                 PROVE  /\ d.from # d.to /\ d.args.Term <= rf'[d.from].currentTerm
                        /\ rf'[d.from].state # "FOLLOWER" /\ d.args.Term = rf'[d.from].currentTerm
                               => d.to \notin rf'[d.from].voters
        BY DEF VoteCallsCurrent
    <2>1. PICK c \in voteCalls : SameCall(c, d)
        BY DEF QuietStep
    <2>2. c.from \in Server /\ c.args.Term \in Nat
        BY Zenon DEF TypeOK, VoteCall, CallOf
    <2>3. Quiet(rf[c.from], rf'[c.from])
        BY <2>2 DEF QuietStep
    <2>4. rf[c.from].currentTerm \in Nat /\ rf'[c.from].currentTerm \in Nat
        BY ZenonT(60), <2>2 DEF TypeOK, RaftObject
    <2>5. QED
        BY <2>1, <2>2, <2>3, <2>4
           DEF SameCall, Quiet, SameBallot, SteppedDown, CameBack, ElectionInv, VoteCallsCurrent
<1>4. GrantsRemembered'
    <2> SUFFICES ASSUME NEW g \in Grants', g.voter # g.candidate
                 PROVE  \/ rf'[g.voter].currentTerm > g.term
                        \/ /\ rf'[g.voter].currentTerm = g.term
                           /\ rf'[g.voter].votedFor = g.candidate
                           /\ rf'[g.voter].state = "FOLLOWER"
        BY DEF GrantsRemembered
    <2>1. g \in Grants
        BY QuietGrants
    <2>2. g.voter \in Server /\ g.term \in Nat
        BY <2>1, GrantType
    <2>3. Quiet(rf[g.voter], rf'[g.voter])
        BY <2>2 DEF QuietStep
    <2>4. rf[g.voter].currentTerm \in Nat /\ rf'[g.voter].currentTerm \in Nat
        BY ZenonT(60), <2>2 DEF TypeOK, RaftObject
    <2>5. QED
        BY <2>1, <2>2, <2>3, <2>4
           DEF Quiet, SameBallot, SteppedDown, CameBack, ElectionInv, GrantsRemembered
<1>5. OneGrantPerTerm'
    BY QuietGrants DEF ElectionInv, OneGrantPerTerm
<1>6. QED
    BY <1>1, <1>2, <1>3, <1>4, <1>5 DEF QuietStep, ElectionInv

---------------------------------------------------------------------------
(* The quiet steps *)

\* A step that replaces one Raft object by a quiet successor and adds no call.
LEMMA ObjectQuiet ==
    ASSUME TypeOK, ElectionInv, NEW s \in Server, NEW x, rf' = [rf EXCEPT ![s] = x],
           Quiet(rf[s], x), voteCalls' \subseteq voteCalls
    PROVE  QuietStep
<1>1. rf'[s] = x /\ \A t \in Server : t # s => rf'[t] = rf[t]
    BY DEF TypeOK
<1>2. \A t \in Server : t # s => Quiet(rf[t], rf'[t])
    <2> TAKE t \in Server
    <2> HAVE t # s
    <2>1. Saved(rf[t])
        BY DEF ElectionInv, VotePersisted, Saved
    <2>2. QED
        BY <1>1, <2>1 DEF Quiet, SameBallot
<1>3. \A d \in voteCalls' : SameCall(d, d)
    BY DEF SameCall
<1>4. OneVoteCall'
    BY DEF ElectionInv, OneVoteCall
<1>5. QED
    BY <1>1, <1>2, <1>3, <1>4 DEF QuietStep

\* Stepping down for a newer term, or as a candidate, is quiet.
LEMMA FollowerQuiet ==
    ASSUME NEW r \in RaftObject, NEW term \in Nat,
           term > r.currentTerm \/ (term = r.currentTerm /\ r.state = "CANDIDATE")
    PROVE  Quiet(r, FollowerState(r, term))
BY DEF FollowerState, persist, SaveState, RaftObject, Quiet, Saved, SteppedDown

\* The object itself is quiet, since its term and vote are saved.
LEMMA SelfQuiet ==
    ASSUME TypeOK, ElectionInv, NEW s \in Server
    PROVE  rf[s] \in RaftObject /\ Saved(rf[s]) /\ Quiet(rf[s], rf[s])
BY DEF TypeOK, ElectionInv, VotePersisted, Quiet, Saved, SameBallot

\* What AppendEntries does first is quiet.
LEMMA StepDownQuiet ==
    ASSUME TypeOK, ElectionInv, NEW s \in Server, NEW args, args.Term \in Nat
    PROVE  /\ appendStepDown(rf[s], args) \in RaftObject
           /\ Quiet(rf[s], appendStepDown(rf[s], args))
<1>1. rf[s] \in RaftObject /\ Quiet(rf[s], rf[s])
    BY SelfQuiet
<1> DEFINE older == \/ args.Term > rf[s].currentTerm
                    \/ args.Term = rf[s].currentTerm /\ rf[s].state = "CANDIDATE"
<1>2. appendStepDown(rf[s], args) = IF older THEN FollowerState(rf[s], args.Term) ELSE rf[s]
    BY DEF appendStepDown
<1>3. older => /\ FollowerState(rf[s], args.Term) \in RaftObject
               /\ Quiet(rf[s], FollowerState(rf[s], args.Term))
    <2>1. FollowerState(rf[s], args.Term) \in RaftObject
        BY <1>1, FollowerStateType
    <2>2. ASSUME older PROVE Quiet(rf[s], FollowerState(rf[s], args.Term))
        BY <1>1, <2>2, FollowerQuiet
    <2>3. QED
        BY <2>1, <2>2
<1> HIDE DEF older
<1>4. QED
    BY <1>1, <1>2, <1>3

\* Changes of the log, of the indices and of the snapshot keep the ballot.
LEMMA LogQuiet ==
    ASSUME NEW r \in RaftObject, Saved(r), NEW Log, NEW commitIndex, NEW index, NEW term, NEW data
    PROVE  /\ Quiet(r, persist([r EXCEPT !.Log = Log]))
           /\ Quiet(r, [persist([r EXCEPT !.Log = Log]) EXCEPT !.commitIndex = commitIndex])
           /\ Quiet(r, [r EXCEPT !.commitIndex = commitIndex])
           /\ Quiet(r, [r EXCEPT !.lastApplied = index])
           /\ Quiet(r, switchToSnapshot(r, index, term, data))
<1>1. /\ Quiet(r, persist([r EXCEPT !.Log = Log]))
      /\ Quiet(r, [persist([r EXCEPT !.Log = Log]) EXCEPT !.commitIndex = commitIndex])
    BY DEF Quiet, SameBallot, Saved, persist, SaveState, RaftObject
<1>2. /\ Quiet(r, [r EXCEPT !.commitIndex = commitIndex])
      /\ Quiet(r, [r EXCEPT !.lastApplied = index])
    BY DEF Quiet, SameBallot, Saved, RaftObject
<1>3. Quiet(r, switchToSnapshot(r, index, term, data))
    BY DEF Quiet, SameBallot, Saved, switchToSnapshot, SaveState, RaftObject
<1>4. QED
    BY <1>1, <1>2, <1>3

\* What the leader does with a reply to AppendEntries or InstallSnapshot keeps the ballot.
LEMMA ReplyQuiet ==
    ASSUME NEW r \in RaftObject, Saved(r), NEW c, NEW commitIndex
    PROVE  /\ Quiet(r, [appendReplied(r, c) EXCEPT !.commitIndex = commitIndex])
           /\ Quiet(r, [installReplied(r, c) EXCEPT !.commitIndex = commitIndex])
<1>1. \A p, i : /\ Quiet(r, [acknowledged(r, p, i) EXCEPT !.commitIndex = commitIndex])
                /\ Quiet(r, [r EXCEPT !.commitIndex = commitIndex])
    BY DEF Quiet, SameBallot, Saved, acknowledged, RaftObject
<1>2. \A p, reply :
          Quiet(r, [handleLogInconsistency(r, p, reply) EXCEPT !.commitIndex = commitIndex])
    BY DEF Quiet, SameBallot, Saved, handleLogInconsistency, RaftObject
<1>3. QED
    BY <1>1, <1>2, Zenon DEF appendReplied, installReplied

\* A composition: what keeps the ballot after stepping down is quiet.
LEMMA QuietTrans ==
    ASSUME NEW q, NEW r, NEW x, Quiet(q, r), SameBallot(r, x), Saved(x)
    PROVE  Quiet(q, x)
BY DEF Quiet, SameBallot, SteppedDown, CameBack

\* The steps of one server other than its election timeout and its restart.
LEMMA ServerQuiet ==
    ASSUME TypeOK, ElectionInv, NEW s \in Server, ServerNext(s), ~ticker(s), ~Restart(s)
    PROVE  QuietStep
<1> USE SelfQuiet
<1>1. ASSUME NEW command \in Command, Start(s, command) PROVE QuietStep
    <2>1. Quiet(rf[s], appendCommand(rf[s], command))
        BY Zenon, LogQuiet DEF appendCommand
    <2>2. QED
        BY Zenon, <1>1, <2>1, ObjectQuiet DEF Start
<1>2. ASSUME applyCheckerDone(s) PROVE QuietStep
    <2> DEFINE last == Larger(rf[s].lastApplied, applying[s].commitIndex)
               x == [rf[s] EXCEPT !.lastApplied = last]
    <2>1. rf' = [rf EXCEPT ![s] = x] /\ voteCalls' = voteCalls
        BY <1>2 DEF applyCheckerDone
    <2> HIDE DEF last
    <2>2. Quiet(rf[s], x)
        BY Zenon, LogQuiet
    <2> HIDE DEF x
    <2>3. QED
        BY Zenon, <2>1, <2>2, ObjectQuiet
<1>3. ASSUME NEW msg \in installs[s], CondInstallSnapshot(s, msg) PROVE QuietStep
    <2> DEFINE x == IF snapshotIsNews(rf[s], msg)
                    THEN switchToSnapshot(rf[s], msg.Index, msg.Term, msg.Data) ELSE rf[s]
    <2>1. rf' = [rf EXCEPT ![s] = x] /\ voteCalls' = voteCalls
        BY <1>3 DEF CondInstallSnapshot
    <2>2. Quiet(rf[s], x)
        BY Zenon, LogQuiet
    <2> HIDE DEF x
    <2>3. QED
        BY Zenon, <2>1, <2>2, ObjectQuiet
<1>4. ASSUME NEW takeSnapshot \in BOOLEAN, applyHandler(s, takeSnapshot) PROVE QuietStep
    <2> DEFINE entry == Head(applying[s].entries)
               applied == Append(kv[s].applied, entry)
               x == IF ~alreadyApplied(kv[s], entry) /\ takeSnapshot
                    THEN Snapshot(rf[s], entry.Index, applied) ELSE rf[s]
    <2>1. rf' = [rf EXCEPT ![s] = x] /\ voteCalls' = voteCalls
        BY <1>4 DEF applyHandler
    <2> HIDE DEF entry, applied
    <2>2. Quiet(rf[s], Snapshot(rf[s], entry.Index, applied))
        BY Zenon, LogQuiet DEF Snapshot
    <2>3. Quiet(rf[s], x)
        BY <2>2
    <2> HIDE DEF x
    <2>4. QED
        BY Zenon, <2>1, <2>3, ObjectQuiet
<1>5. ASSUME UNCHANGED <<rf, voteCalls>> PROVE QuietStep
    <2>1. rf' = [rf EXCEPT ![s] = rf[s]]
        BY <1>5 DEF TypeOK
    <2>2. QED
        BY ZenonT(60), <1>5, <2>1, ObjectQuiet
<1>6. ASSUME \/ applyCheckerCopy(s)
             \/ \E p \in Server : leaderAppendEntries(s, p) \/ leaderSendSnapshot(s, p)
      PROVE  QuietStep
    BY Zenon, <1>5, <1>6 DEF applyCheckerCopy, leaderAppendEntries, leaderSendSnapshot
<1>7. QED
    BY SMTT(40), <1>1, <1>2, <1>3, <1>4, <1>6 DEF ServerNext

\* The handlers of AppendEntries, and the leader's handling of their replies.
LEMMA AppendQuiet ==
    ASSUME TypeOK, ElectionInv, NEW c \in appendCalls,
           \/ AppendEntriesRefuse(c) \/ AppendEntriesMismatch(c)
           \/ AppendEntriesAccept(c) \/ leaderAppendEntriesReply(c)
    PROVE  QuietStep
<1> DEFINE r == appendStepDown(rf[c.to], c.args)
<1>1. c.to \in Server /\ c.from \in Server /\ c.args.Term \in Nat /\ c.reply.Term \in Nat
    BY ZenonT(60) DEF TypeOK, AppendCall, CallOf
<1>2. r \in RaftObject /\ Quiet(rf[c.to], r)
    BY <1>1, StepDownQuiet
<1>3. CASE AppendEntriesRefuse(c)
    <2>1. rf' = [rf EXCEPT ![c.to] = rf[c.to]] /\ voteCalls' = voteCalls
        BY <1>1, <1>3 DEF AppendEntriesRefuse, TypeOK
    <2>2. QED
        BY Zenon, <1>1, <2>1, SelfQuiet, ObjectQuiet
<1>4. CASE AppendEntriesMismatch(c)
    <2>1. rf' = [rf EXCEPT ![c.to] = r] /\ voteCalls' = voteCalls
        BY <1>4 DEF AppendEntriesMismatch
    <2> HIDE DEF r
    <2>2. QED
        BY Zenon, <1>1, <1>2, <2>1, ObjectQuiet
<1>5. CASE AppendEntriesAccept(c)
    <2> DEFINE merged == mergeEntries(r, c.args)
               n == followerCommit(r, c.args)
    <2>1. \E x \in {[r EXCEPT !.commitIndex = n],
                    [persist([r EXCEPT !.Log = merged]) EXCEPT !.commitIndex = n]} :
              rf' = [rf EXCEPT ![c.to] = x]
        BY Zenon, <1>5 DEF AppendEntriesAccept
    <2>2. voteCalls' = voteCalls
        BY <1>5 DEF AppendEntriesAccept
    <2>3. Saved(r)
        BY <1>2 DEF Quiet
    <2> HIDE DEF r, merged, n
    <2>4. /\ SameBallot(r, [r EXCEPT !.commitIndex = n])
          /\ Saved([r EXCEPT !.commitIndex = n])
        BY <1>2, <2>3 DEF SameBallot, Saved, RaftObject
    <2>5. /\ SameBallot(r, [persist([r EXCEPT !.Log = merged]) EXCEPT !.commitIndex = n])
          /\ Saved([persist([r EXCEPT !.Log = merged]) EXCEPT !.commitIndex = n])
        BY <1>2 DEF SameBallot, Saved, persist, SaveState, RaftObject
    <2>6. \A x \in {[r EXCEPT !.commitIndex = n],
                    [persist([r EXCEPT !.Log = merged]) EXCEPT !.commitIndex = n]} :
              Quiet(rf[c.to], x)
        BY <1>2, <2>4, <2>5, QuietTrans
    <2>7. QED
        BY Zenon, <1>1, <2>1, <2>2, <2>6, ObjectQuiet
<1>6. CASE leaderAppendEntriesReply(c)
    <2> DEFINE q == rf[c.from]
               n == appendReplied(q, c)
               m == [n EXCEPT !.commitIndex = countReplica(n, c.from)]
    <2>1. \/ c.reply.Term > q.currentTerm /\ rf' = [rf EXCEPT ![c.from] = FollowerState(q, c.reply.Term)]
          \/ rf' = [rf EXCEPT ![c.from] = m]
          \/ rf' = [rf EXCEPT ![c.from] = q]
        BY Zenon, <1>6 DEF leaderAppendEntriesReply
    <2>2. voteCalls' = voteCalls
        BY <1>6 DEF leaderAppendEntriesReply
    <2>3. q \in RaftObject /\ Saved(q) /\ Quiet(q, q)
        BY <1>1, SelfQuiet
    <2>4. Quiet(q, m)
        BY Zenon, <2>3, ReplyQuiet
    <2>5. c.reply.Term > q.currentTerm => Quiet(q, FollowerState(q, c.reply.Term))
        BY <1>1, <2>3, FollowerQuiet
    <2> HIDE DEF m
    <2>6. QED
        BY ZenonT(60), <1>1, <2>1, <2>2, <2>3, <2>4, <2>5, ObjectQuiet
<1>7. QED
    BY <1>3, <1>4, <1>5, <1>6

\* The handler of InstallSnapshot, and the leader's handling of its reply.
LEMMA SnapQuiet ==
    ASSUME TypeOK, ElectionInv, NEW c \in snapCalls,
           InstallSnapshot(c) \/ leaderSendSnapshotReply(c)
    PROVE  QuietStep
<1>1. c.to \in Server /\ c.from \in Server /\ c.args.Term \in Nat /\ c.reply.Term \in Nat
    BY ZenonT(60) DEF TypeOK, SnapCall, CallOf
<1>2. CASE InstallSnapshot(c)
    <2> DEFINE q == rf[c.to]
    <2>1. \/ c.args.Term > q.currentTerm /\ rf' = [rf EXCEPT ![c.to] = FollowerState(q, c.args.Term)]
          \/ rf' = [rf EXCEPT ![c.to] = q]
        BY Zenon, <1>2 DEF InstallSnapshot
    <2>2. voteCalls' = voteCalls
        BY <1>2 DEF InstallSnapshot
    <2>3. q \in RaftObject /\ Quiet(q, q)
        BY <1>1, SelfQuiet
    <2>4. c.args.Term > q.currentTerm => Quiet(q, FollowerState(q, c.args.Term))
        BY <1>1, <2>3, FollowerQuiet
    <2>5. QED
        BY <1>1, <2>1, <2>2, <2>3, <2>4, ObjectQuiet
<1>3. CASE leaderSendSnapshotReply(c)
    <2> DEFINE q == rf[c.from]
               n == installReplied(q, c)
               m == [n EXCEPT !.commitIndex = countReplica(n, c.from)]
    <2>1. \/ c.reply.Term > q.currentTerm /\ rf' = [rf EXCEPT ![c.from] = FollowerState(q, c.reply.Term)]
          \/ rf' = [rf EXCEPT ![c.from] = m]
          \/ rf' = [rf EXCEPT ![c.from] = q]
        BY Zenon, <1>3 DEF leaderSendSnapshotReply
    <2>2. voteCalls' = voteCalls
        BY <1>3 DEF leaderSendSnapshotReply
    <2>3. q \in RaftObject /\ Saved(q) /\ Quiet(q, q)
        BY <1>1, SelfQuiet
    <2>4. Quiet(q, m)
        BY ZenonT(60), <2>3, ReplyQuiet
    <2>5. c.reply.Term > q.currentTerm => Quiet(q, FollowerState(q, c.reply.Term))
        BY <1>1, <2>3, FollowerQuiet
    <2> HIDE DEF m
    <2>6. QED
        BY <1>1, <2>1, <2>2, <2>3, <2>4, <2>5, ObjectQuiet
<1>4. QED
    BY <1>2, <1>3

\* RequestVote without a vote: the handler may step down, nothing more.
LEMMA RefuseQuiet ==
    ASSUME TypeOK, ElectionInv, NEW c \in voteCalls, RequestVote(c),
           NEW r, r = (IF c.args.Term > rf[c.to].currentTerm
                       THEN FollowerState(rf[c.to], c.args.Term) ELSE rf[c.to]),
           ~mayVote(r, c.args, c.from)
    PROVE  QuietStep
<1> DEFINE d == [c EXCEPT !.stage = "answered",
                          !.reply = [Term |-> r.currentTerm, VoteGranted |-> FALSE]]
<1>1. c \in VoteCall /\ c.to \in Server /\ c.args.Term \in Nat
    BY DEF TypeOK, VoteCall, CallOf
<1>2. rf' = [rf EXCEPT ![c.to] = r] /\ voteCalls' \subseteq (voteCalls \ {c}) \cup {d}
    <2> HIDE DEF d
    <2>0. mayVote(r, c.args, c.from) = FALSE
        BY DEF mayVote
    <2>1. voteCalls' = Answer(voteCalls, c, [Term |-> r.currentTerm, VoteGranted |-> FALSE])
        BY ZenonT(60), <2>0 DEF RequestVote
    <2>2. rf' = [rf EXCEPT ![c.to] = r]
        BY DEF RequestVote
    <2>3. QED
        BY <2>1, <2>2 DEF Answer, d
<1>3. Quiet(rf[c.to], r)
    BY <1>1, SelfQuiet, FollowerQuiet
<1>4. d.from = c.from /\ d.to = c.to /\ d.args = c.args /\ ~d.reply.VoteGranted
    BY <1>1 DEF VoteCall, CallOf
<1> HIDE DEF d
<1>5. rf'[c.to] = r /\ \A t \in Server : t # c.to => rf'[t] = rf[t]
    BY <1>1, <1>2 DEF TypeOK
<1>6. \A t \in Server : Quiet(rf[t], rf'[t])
    BY <1>3, <1>5, SelfQuiet
<1>7. SameCall(c, d) /\ \A e \in voteCalls : SameCall(e, e)
    BY <1>4 DEF SameCall
<1>8. \A e \in voteCalls' : \E b \in voteCalls : SameCall(b, e)
    BY <1>2, <1>7
<1>9. OneVoteCall'
    BY <1>2, <1>4 DEF ElectionInv, OneVoteCall
<1>10. QED
    BY <1>6, <1>8, <1>9 DEF QuietStep

\* A lost RequestVote, tried again or given up.
LEMMA LossQuiet ==
    ASSUME TypeOK, ElectionInv, NEW c \in voteCalls, loseVoteCall(c)
    PROVE  QuietStep
<1> DEFINE d == [Call(c.from, c.to, c.args, NoVote) EXCEPT !.retry = c.retry + 1]
<1>1. voteCalls' \subseteq (voteCalls \ {c}) \cup {d} /\ rf' = rf
    BY ZenonT(60) DEF loseVoteCall
<1>2. d.from = c.from /\ d.to = c.to /\ d.args = c.args /\ d.stage = "sent"
    BY DEF Call
<1> HIDE DEF d
<1>3. SameCall(c, d) /\ \A e \in voteCalls : SameCall(e, e)
    BY <1>2 DEF SameCall
<1>4. OneVoteCall'
    BY <1>1, <1>2 DEF ElectionInv, OneVoteCall
<1>5. \A t \in Server : Quiet(rf[t], rf'[t])
    BY <1>1, SelfQuiet
<1>6. QED
    BY <1>1, <1>3, <1>4, <1>5 DEF QuietStep

\* A restart: the term and the vote come back from the persister, and the
\* calls of the old goroutines get no reply.
LEMMA RestartQuiet ==
    ASSUME TypeOK, ElectionInv, NEW s \in Server, Restart(s)
    PROVE  QuietStep
<1> DEFINE x == Make(rf[s].persister)
           dead(c) == [c EXCEPT !.live = FALSE]
<1>1. /\ rf' = [rf EXCEPT ![s] = x]
      /\ voteCalls' = Orphan(voteCalls, s)
    BY SMTT(40) DEF Restart
<1>2. Quiet(rf[s], x)
    BY Zenon, SelfQuiet DEF Make, Quiet, CameBack, Saved
<1> HIDE DEF x
<1>3. rf'[s] = x /\ \A t \in Server : t # s => rf'[t] = rf[t]
    BY <1>1 DEF TypeOK
<1>4. \A t \in Server : Quiet(rf[t], rf'[t])
    BY <1>2, <1>3, SelfQuiet
<1>5. \A d \in voteCalls' :
          \/ d \in voteCalls /\ d.from # s
          \/ \E c \in voteCalls : c.from = s /\ c.stage = "sent" /\ d = dead(c)
    BY <1>1 DEF Orphan
<1>6. \A c \in voteCalls : /\ dead(c).from = c.from /\ dead(c).to = c.to
                           /\ dead(c).args = c.args /\ dead(c).stage = c.stage
    BY DEF TypeOK, VoteCall, CallOf
<1> HIDE DEF dead
<1>7. \A d \in voteCalls' : \E c \in voteCalls : SameCall(c, d)
    BY <1>5, <1>6 DEF SameCall
<1>8. OneVoteCall'
    <2> SUFFICES ASSUME NEW a \in voteCalls', NEW b \in voteCalls',
                        a.from = b.from, a.to = b.to, a.args.Term = b.args.Term
                 PROVE  a = b
        BY DEF OneVoteCall
    <2>1. CASE a.from # s
        <3>1. a \in voteCalls /\ b \in voteCalls
            BY <1>5, <1>6, <2>1
        <3>2. QED
            BY <3>1 DEF ElectionInv, OneVoteCall
    <2>2. CASE a.from = s
        <3>1. PICK c \in voteCalls : a = dead(c)
            BY <1>5, <2>2
        <3>2. PICK d \in voteCalls : b = dead(d)
            BY Zenon, <1>5, <2>2
        <3>3. c = d
            BY <1>6, <3>1, <3>2 DEF ElectionInv, OneVoteCall
        <3>4. QED
            BY <3>1, <3>2, <3>3
    <2>3. QED
        BY <2>1, <2>2
<1>9. QED
    BY <1>4, <1>7, <1>8 DEF QuietStep

---------------------------------------------------------------------------
(* The steps that are not quiet *)

\* Election timeout: a new term, whose only vote so far is the candidate's own.
LEMMA TickerElection ==
    ASSUME Counting, TypeOK, TypeOK', ElectionInv, NEW s \in Server, ticker(s)
    PROVE  ElectionInv'
<1> DEFINE r == CandidateState(rf[s], s)
           args == [Term |-> r.currentTerm, LastLogIndex |-> getLastLogIndex(r),
                    LastLogTerm |-> getLastLogTerm(r)]
           own == [voter |-> s, candidate |-> s, term |-> r.currentTerm]
           fresh == {Call(s, p, args, NoVote) : p \in Server \ {s}}
<1>1. rf' = [rf EXCEPT ![s] = r] /\ voteCalls' = voteCalls \cup fresh
    BY DEF ticker
<1>2. rf[s] \in RaftObject
    BY DEF TypeOK
<1>3. /\ r.state = "CANDIDATE" /\ r.currentTerm = rf[s].currentTerm + 1 /\ r.votedFor = s
      /\ r.getVotesNum = 1 /\ r.voters = {s} /\ Saved(r)
    BY <1>2 DEF CandidateState, persist, SaveState, Saved, RaftObject
<1>4. \A d \in fresh : /\ d.from = s /\ d.to \in Server \ {s} /\ d.args.Term = r.currentTerm
                       /\ d.stage = "sent" /\ d = Call(s, d.to, args, NoVote)
    BY DEF Call
<1> HIDE DEF r, args, fresh
<1>5. rf[s].currentTerm \in Nat /\ r.currentTerm \in Nat
    BY SMTT(40), <1>2, <1>3 DEF RaftObject
<1>6. rf'[s] = r /\ \A t \in Server : t # s => rf'[t] = rf[t]
    BY <1>1 DEF TypeOK
<1>7. Grants' \subseteq Grants \cup {own}
    <2> SUFFICES ASSUME NEW g \in Grants' PROVE g \in Grants \/ g = own
        OBVIOUS
    <2>1. ASSUME NEW d \in voteCalls', d.stage = "answered", d.reply.VoteGranted,
                 g = [voter |-> d.to, candidate |-> d.from, term |-> d.args.Term]
          PROVE  g \in Grants
        <3>1. d \in voteCalls
            BY <1>1, <1>4, <2>1
        <3>2. QED
            BY <2>1, <3>1, GrantIntro
    <2>2. ASSUME NEW t \in Server, NEW v \in rf'[t].voters, rf'[t].state # "FOLLOWER",
                 g = [voter |-> v, candidate |-> t, term |-> rf'[t].currentTerm]
          PROVE  g \in Grants \/ g = own
        <3>1. CASE t = s
            BY <1>3, <1>6, <2>2, <3>1
        <3>2. CASE t # s
            BY <1>6, <2>2, <3>2, GrantIntro
        <3>3. QED
            BY <3>1, <3>2
    <2>3. QED
        BY ZenonT(60), <2>1, <2>2, GrantElimNext
<1>8. VotePersisted'
    BY <1>3, <1>6 DEF ElectionInv, VotePersisted, Saved
<1>9. VotesCounted'
    <2>1. Cardinality({s}) = 1
        BY Zenon DEF Counting
    <2> SUFFICES ASSUME NEW t \in Server, rf'[t].state # "FOLLOWER"
                 PROVE  /\ rf'[t].votedFor = t /\ t \in rf'[t].voters
                        /\ rf'[t].getVotesNum = Cardinality(rf'[t].voters)
                        /\ rf'[t].state = "LEADER" => IsMajority(rf'[t].getVotesNum)
        BY DEF VotesCounted, IsMajority
    <2>2. CASE t = s
        BY <1>3, <1>6, <2>1, <2>2
    <2>3. CASE t # s
        BY ZenonT(60), <1>6, <2>3 DEF ElectionInv, VotesCounted
    <2>4. QED
        BY <2>2, <2>3
<1>10. VoteCallsCurrent'
    <2> SUFFICES ASSUME NEW d \in voteCalls'
                 PROVE  /\ d.from # d.to /\ d.args.Term <= rf'[d.from].currentTerm
                        /\ rf'[d.from].state # "FOLLOWER" /\ d.args.Term = rf'[d.from].currentTerm
                               => d.to \notin rf'[d.from].voters
        BY DEF VoteCallsCurrent
    <2>1. CASE d \in fresh
        BY <1>3, <1>4, <1>5, <1>6, <2>1
    <2>2. CASE d \in voteCalls
        <3>1. d.from \in Server /\ d.args.Term \in Nat
            BY ZenonT(60), <2>2 DEF TypeOK, VoteCall, CallOf
        <3>2. d.from # d.to /\ d.args.Term <= rf[d.from].currentTerm
            BY <2>2 DEF ElectionInv, VoteCallsCurrent
        <3>3. CASE d.from = s
            BY SMTT(40), <1>3, <1>5, <1>6, <3>1, <3>2, <3>3
        <3>4. CASE d.from # s
            BY <1>6, <2>2, <3>1, <3>4 DEF ElectionInv, VoteCallsCurrent
        <3>5. QED
            BY <3>3, <3>4
    <2>3. QED
        BY <1>1, <2>1, <2>2
<1>11. OneVoteCall'
    <2>1. \A c \in voteCalls : c.from = s => c.args.Term < r.currentTerm
        <3> SUFFICES ASSUME NEW c \in voteCalls, c.from = s PROVE c.args.Term < r.currentTerm
            OBVIOUS
        <3>1. c.args.Term \in Nat
            BY ZenonT(60) DEF TypeOK, VoteCall, CallOf
        <3>2. c.args.Term <= rf[s].currentTerm
            BY DEF ElectionInv, VoteCallsCurrent
        <3>3. QED
            BY <1>3, <1>5, <3>1, <3>2
    <2> SUFFICES ASSUME NEW c \in voteCalls', NEW d \in voteCalls',
                        c.from = d.from, c.to = d.to, c.args.Term = d.args.Term
                 PROVE  c = d
        BY DEF OneVoteCall
    <2>2. CASE c \in fresh /\ d \in fresh
        BY <1>4, <2>2
    <2>3. CASE c \in voteCalls /\ d \in voteCalls
        BY <2>3 DEF ElectionInv, OneVoteCall
    <2>4. CASE c \in voteCalls /\ d \in fresh
        BY <1>4, <1>5, <2>1, <2>4
    <2>5. CASE c \in fresh /\ d \in voteCalls
        BY <1>4, <1>5, <2>1, <2>5
    <2>6. QED
        BY <1>1, <2>2, <2>3, <2>4, <2>5
<1>12. GrantsRemembered'
    <2> SUFFICES ASSUME NEW g \in Grants', g.voter # g.candidate
                 PROVE  \/ rf'[g.voter].currentTerm > g.term
                        \/ /\ rf'[g.voter].currentTerm = g.term
                           /\ rf'[g.voter].votedFor = g.candidate
                           /\ rf'[g.voter].state = "FOLLOWER"
        BY DEF GrantsRemembered
    <2>1. g \in Grants
        BY <1>7
    <2>2. g.voter \in Server /\ g.term \in Nat
        BY <2>1, GrantType
    <2>3. \/ rf[g.voter].currentTerm > g.term
          \/ /\ rf[g.voter].currentTerm = g.term
             /\ rf[g.voter].votedFor = g.candidate /\ rf[g.voter].state = "FOLLOWER"
        BY <2>1 DEF ElectionInv, GrantsRemembered
    <2>4. CASE g.voter = s
        BY <1>3, <1>5, <1>6, <2>2, <2>3, <2>4
    <2>5. CASE g.voter # s
        BY <1>6, <2>2, <2>3, <2>5
    <2>6. QED
        BY <2>4, <2>5
<1>13. OneGrantPerTerm'
    BY <1>7 DEF ElectionInv, OneGrantPerTerm
<1>14. QED
    BY <1>8, <1>9, <1>10, <1>11, <1>12, <1>13 DEF ElectionInv

\* RequestVote: a server that is not a candidate or leader of the term, and has
\* not voted for another in it, gives its vote and remembers it.
LEMMA GrantElection ==
    ASSUME TypeOK, TypeOK', ElectionInv, NEW c \in voteCalls, RequestVote(c),
           NEW r, NEW reply,
           r = (IF c.args.Term > rf[c.to].currentTerm THEN FollowerState(rf[c.to], c.args.Term)
                ELSE rf[c.to]),
           mayVote(r, c.args, c.from),
           reply = [Term |-> r.currentTerm, VoteGranted |-> TRUE]
    PROVE  ElectionInv'
<1> DEFINE v == c.to
           n == persist([r EXCEPT !.votedFor = c.from])
           d == [c EXCEPT !.stage = "answered", !.reply = reply]
           given == [voter |-> c.to, candidate |-> c.from, term |-> c.args.Term]
<1>1. /\ c \in VoteCall /\ v \in Server /\ c.from \in Server /\ c.args.Term \in Nat
      /\ rf[v] \in RaftObject /\ rf[v].currentTerm \in Nat /\ c.from # v
    BY ZenonT(60) DEF TypeOK, VoteCall, CallOf, RaftObject, ElectionInv, VoteCallsCurrent
<1>2. FollowerState(rf[v], c.args.Term) \in RaftObject
    BY <1>1, FollowerStateType
<1>3. r \in RaftObject
    BY SMTT(40), <1>1, <1>2
<1>4. /\ c.args.Term > rf[v].currentTerm => r.state = "FOLLOWER" /\ r.currentTerm = c.args.Term
      /\ ~(c.args.Term > rf[v].currentTerm) => r = rf[v]
      /\ r.currentTerm = c.args.Term /\ r.votedFor \in {Nil, c.from}
    BY ZenonT(60), <1>1 DEF mayVote, FollowerState, persist, SaveState, RaftObject
<1>5. r.state = "FOLLOWER"
    <2>1. CASE c.args.Term > rf[v].currentTerm
        BY ZenonT(60), <1>4, <2>1
    <2>2. CASE ~(c.args.Term > rf[v].currentTerm)
        BY ZenonT(60), <1>1, <1>4, <2>2, ServerAssumption DEF ElectionInv, VotesCounted
    <2>3. QED
        BY ZenonT(60), <2>1, <2>2
<1>6. /\ n.state = "FOLLOWER" /\ n.currentTerm = c.args.Term /\ n.votedFor = c.from /\ Saved(n)
    BY <1>3, <1>4, <1>5 DEF persist, SaveState, Saved, RaftObject
<1>7. rf' = [rf EXCEPT ![v] = n] /\ voteCalls' \subseteq (voteCalls \ {c}) \cup {d}
    BY ZenonT(60) DEF RequestVote, Answer
<1>8. /\ d.from = c.from /\ d.to = c.to /\ d.args = c.args
    BY ZenonT(60), <1>1 DEF VoteCall, CallOf
<1> HIDE DEF n, d
<1>9. rf'[v] = n /\ \A t \in Server : t # v => rf'[t] = rf[t]
    BY ZenonT(60), <1>1, <1>7 DEF TypeOK
<1>10. c.args.Term >= rf[v].currentTerm
    BY <1>1, <1>4
<1>11. Grants' \subseteq Grants \cup {given}
    <2> SUFFICES ASSUME NEW g \in Grants' PROVE g \in Grants \/ g = given
        BY ZenonT(60)
    <2>1. ASSUME NEW e \in voteCalls', e.stage = "answered", e.reply.VoteGranted,
                 g = [voter |-> e.to, candidate |-> e.from, term |-> e.args.Term]
          PROVE  g \in Grants \/ g = given
        <3>1. CASE e = d
            BY ZenonT(60), <1>8, <2>1, <3>1
        <3>2. CASE e \in voteCalls
            BY ZenonT(60), <2>1, <3>2, GrantIntro
        <3>3. QED
            BY ZenonT(60), <1>7, <3>1, <3>2
    <2>2. ASSUME NEW t \in Server, NEW w \in rf'[t].voters, rf'[t].state # "FOLLOWER",
                 g = [voter |-> w, candidate |-> t, term |-> rf'[t].currentTerm]
          PROVE  g \in Grants
        <3>1. t # v
            BY ZenonT(60), <1>6, <1>9, <2>2
        <3>2. QED
            BY ZenonT(60), <1>9, <2>2, <3>1, GrantIntro
    <2>3. QED
        BY ZenonT(60), <2>1, <2>2, GrantElimNext
<1>12. VotePersisted'
    BY ZenonT(60), <1>6, <1>9 DEF ElectionInv, VotePersisted, Saved
<1>13. VotesCounted'
    <2> SUFFICES ASSUME NEW t \in Server, rf'[t].state # "FOLLOWER"
                 PROVE  /\ rf'[t].votedFor = t /\ t \in rf'[t].voters
                        /\ rf'[t].getVotesNum = Cardinality(rf'[t].voters)
                        /\ rf'[t].state = "LEADER" => IsMajority(rf'[t].getVotesNum)
        BY DEF VotesCounted, IsMajority
    <2>1. t # v
        BY ZenonT(60), <1>6, <1>9
    <2>2. QED
        BY ZenonT(60), <1>9, <2>1 DEF ElectionInv, VotesCounted
<1>14. VoteCallsCurrent'
    <2> SUFFICES ASSUME NEW e \in voteCalls'
                 PROVE  /\ e.from # e.to /\ e.args.Term <= rf'[e.from].currentTerm
                        /\ rf'[e.from].state # "FOLLOWER" /\ e.args.Term = rf'[e.from].currentTerm
                               => e.to \notin rf'[e.from].voters
        BY DEF VoteCallsCurrent
    <2>1. PICK b \in voteCalls : b.from = e.from /\ b.to = e.to /\ b.args = e.args
        BY ZenonT(60), <1>7, <1>8
    <2>2. b.from \in Server /\ b.args.Term \in Nat
        BY ZenonT(60) DEF TypeOK, VoteCall, CallOf
    <2>3. /\ b.from # b.to /\ b.args.Term <= rf[b.from].currentTerm
          /\ rf[b.from].state # "FOLLOWER" /\ b.args.Term = rf[b.from].currentTerm
                 => b.to \notin rf[b.from].voters
        BY ZenonT(60) DEF ElectionInv, VoteCallsCurrent
    <2>4. CASE b.from = v
        BY SMTT(40), <1>1, <1>6, <1>9, <1>10, <2>1, <2>2, <2>3, <2>4
    <2>5. CASE b.from # v
        BY ZenonT(60), <1>9, <2>1, <2>2, <2>3, <2>5
    <2>6. QED
        BY ZenonT(60), <2>4, <2>5
<1>15. OneVoteCall'
    <2> SUFFICES ASSUME NEW a \in voteCalls', NEW b \in voteCalls',
                        a.from = b.from, a.to = b.to, a.args.Term = b.args.Term
                 PROVE  a = b
        BY DEF OneVoteCall
    <2>1. \A e \in voteCalls : e.from = c.from /\ e.to = c.to /\ e.args.Term = c.args.Term => e = c
        BY ZenonT(60) DEF ElectionInv, OneVoteCall
    <2>2. CASE a = d \/ b = d
        BY ZenonT(60), <1>7, <1>8, <2>1, <2>2
    <2>3. CASE a \in voteCalls /\ b \in voteCalls
        BY ZenonT(60), <2>3 DEF ElectionInv, OneVoteCall
    <2>4. QED
        BY ZenonT(60), <1>7, <2>2, <2>3
<1>16. GrantsRemembered'
    <2> SUFFICES ASSUME NEW g \in Grants', g.voter # g.candidate
                 PROVE  \/ rf'[g.voter].currentTerm > g.term
                        \/ /\ rf'[g.voter].currentTerm = g.term
                           /\ rf'[g.voter].votedFor = g.candidate
                           /\ rf'[g.voter].state = "FOLLOWER"
        BY ZenonT(60) DEF GrantsRemembered
    <2>1. CASE g = given
        BY ZenonT(60), <1>6, <1>9, <2>1
    <2>2. CASE g \in Grants
        <3>1. g.voter \in Server /\ g.term \in Nat
            BY ZenonT(60), <2>2, GrantType
        <3>2. \/ rf[g.voter].currentTerm > g.term
              \/ /\ rf[g.voter].currentTerm = g.term
                 /\ rf[g.voter].votedFor = g.candidate /\ rf[g.voter].state = "FOLLOWER"
            BY ZenonT(60), <2>2 DEF ElectionInv, GrantsRemembered
        <3>3. CASE g.voter = v /\ c.args.Term > rf[v].currentTerm
            BY SMTT(40), <1>1, <1>6, <1>9, <3>1, <3>2, <3>3
        <3>4. CASE g.voter = v /\ ~(c.args.Term > rf[v].currentTerm)
            <4>1. r = rf[v] /\ rf[v].currentTerm = c.args.Term
                BY ZenonT(60), <1>4, <3>4
            <4>2. CASE rf[v].currentTerm > g.term
                BY ZenonT(60), <1>6, <1>9, <3>4, <4>1, <4>2
            <4>3. CASE rf[v].currentTerm = g.term /\ rf[v].votedFor = g.candidate
                <5>1. g.candidate \in Server
                    BY ZenonT(60), <2>2, GrantType
                <5>2. g.candidate = c.from
                    BY ZenonT(60), <1>4, <4>1, <4>3, <5>1, ServerAssumption
                <5>3. QED
                    BY ZenonT(60), <1>6, <1>9, <3>4, <4>1, <4>3, <5>2
            <4>4. QED
                BY ZenonT(60), <3>2, <3>4, <4>2, <4>3
        <3>5. CASE g.voter # v
            BY ZenonT(60), <1>9, <3>1, <3>2, <3>5
        <3>6. QED
            BY ZenonT(60), <3>3, <3>4, <3>5
    <2>3. QED
        BY ZenonT(60), <1>11, <2>1, <2>2
<1>17. OneGrantPerTerm'
    <2>1. ASSUME NEW g \in Grants, g.voter = v, g.term = c.args.Term, g.voter # g.candidate
          PROVE  g.candidate = c.from
        <3>1. g.candidate \in Server /\ g.term \in Nat
            BY ZenonT(60), GrantType
        <3>2. /\ rf[v].currentTerm = c.args.Term /\ rf[v].votedFor = g.candidate
            BY SMTT(40), <1>1, <1>10, <2>1, <3>1 DEF ElectionInv, GrantsRemembered
        <3>3. r = rf[v]
            BY SMTT(40), <1>1, <1>4, <3>2
        <3>4. QED
            BY ZenonT(60), <1>4, <3>1, <3>2, <3>3, ServerAssumption
    <2> SUFFICES ASSUME NEW g \in Grants', NEW h \in Grants',
                        g.voter = h.voter, g.term = h.term,
                        g.voter # g.candidate, h.voter # h.candidate
                 PROVE  g.candidate = h.candidate
        BY DEF OneGrantPerTerm
    <2>2. CASE g \in Grants /\ h \in Grants
        BY ZenonT(60), <2>2 DEF ElectionInv, OneGrantPerTerm
    <2>3. CASE g = given /\ h \in Grants
        BY ZenonT(60), <2>1, <2>3
    <2>4. CASE g \in Grants /\ h = given
        BY ZenonT(60), <2>1, <2>4
    <2>5. QED
        BY ZenonT(60), <1>11, <2>2, <2>3, <2>4
<1>18. QED
    BY SMTT(40), <1>12, <1>13, <1>14, <1>15, <1>16, <1>17 DEF ElectionInv

\* The ballot of a candidate that has counted one more vote.
LEMMA CountVoteFields ==
    ASSUME NEW r \in RaftObject, NEW voter \in Server, r.state = "CANDIDATE"
    PROVE  LET n == countVote(r, voter)
           IN  /\ n.currentTerm = r.currentTerm /\ n.votedFor = r.votedFor /\ n.state # "FOLLOWER"
               /\ n.voters = r.voters \cup {voter} /\ n.getVotesNum = r.getVotesNum + 1
               /\ n.state = "LEADER" => IsMajority(n.getVotesNum)
               /\ n.persister = r.persister
<1> DEFINE v == [r EXCEPT !.getVotesNum = @ + 1, !.voters = @ \cup {voter}]
<1>1. r.getVotesNum + 1 \in Nat /\ r.voters \cup {voter} \in SUBSET Server
    BY DEF RaftObject
<1>2. v \in RaftObject
    BY ZenonT(60), <1>1 DEF RaftObject
<1>3. /\ v.state = "CANDIDATE" /\ v.currentTerm = r.currentTerm /\ v.votedFor = r.votedFor
      /\ v.voters = r.voters \cup {voter} /\ v.getVotesNum = r.getVotesNum + 1
      /\ v.persister = r.persister
    BY DEF RaftObject
<1>4. countVote(r, voter) = IF IsMajority(v.getVotesNum) THEN LeaderState(v) ELSE v
    BY DEF countVote
<1> HIDE DEF v
<1>5. /\ LeaderState(v).currentTerm = v.currentTerm /\ LeaderState(v).votedFor = v.votedFor
      /\ LeaderState(v).state = "LEADER" /\ LeaderState(v).voters = v.voters
      /\ LeaderState(v).getVotesNum = v.getVotesNum
      /\ LeaderState(v).persister = v.persister
    BY <1>2 DEF LeaderState, RaftObject
<1>6. QED
    BY <1>3, <1>4, <1>5

\* candidateRequestVote: the candidate counts a vote of its own term, from a
\* peer it has not counted yet.
LEMMA CountElection ==
    ASSUME Counting, TypeOK, TypeOK', ElectionInv, NEW c \in voteCalls, candidateRequestVote(c),
           rf[c.from].state = "CANDIDATE", rf[c.from].currentTerm = c.args.Term,
           c.reply.VoteGranted,
           rf' = [rf EXCEPT ![c.from] = countVote(rf[c.from], c.to)]
    PROVE  ElectionInv'
<1> DEFINE s == c.from
           q == rf[s]
           n == countVote(q, c.to)
           given == [voter |-> c.to, candidate |-> c.from, term |-> c.args.Term]
<1>1. /\ c \in VoteCall /\ s \in Server /\ c.to \in Server /\ c.args.Term \in Nat
      /\ q \in RaftObject /\ q.currentTerm \in Nat /\ q.getVotesNum \in Nat
    BY Zenon DEF TypeOK, VoteCall, CallOf, RaftObject
<1>3. /\ n.currentTerm = q.currentTerm /\ n.votedFor = q.votedFor /\ n.state # "FOLLOWER"
      /\ n.voters = q.voters \cup {c.to} /\ n.getVotesNum = q.getVotesNum + 1
      /\ n.state = "LEADER" => IsMajority(n.getVotesNum)
      /\ n.persister = q.persister
    BY <1>1, CountVoteFields
<1>4. voteCalls' = voteCalls \ {c} /\ rf' = [rf EXCEPT ![s] = n] /\ c.stage = "answered"
    BY ZenonT(60) DEF candidateRequestVote
<1> HIDE DEF n
<1>5. rf'[s] = n /\ \A t \in Server : t # s => rf'[t] = rf[t]
    BY ZenonT(60), <1>1, <1>4 DEF TypeOK
<1>6. given \in Grants
    BY ZenonT(60), <1>4, GrantIntro
<1>7. c.to \notin q.voters /\ c.to # s
    BY ZenonT(60), <1>1 DEF ElectionInv, VoteCallsCurrent
<1>8. Grants' \subseteq Grants
    <2> SUFFICES ASSUME NEW g \in Grants' PROVE g \in Grants
        BY ZenonT(60)
    <2>1. ASSUME NEW e \in voteCalls', e.stage = "answered", e.reply.VoteGranted,
                 g = [voter |-> e.to, candidate |-> e.from, term |-> e.args.Term]
          PROVE  g \in Grants
        BY ZenonT(60), <1>4, <2>1, GrantIntro
    <2>2. ASSUME NEW t \in Server, NEW w \in rf'[t].voters, rf'[t].state # "FOLLOWER",
                 g = [voter |-> w, candidate |-> t, term |-> rf'[t].currentTerm]
          PROVE  g \in Grants
        <3>1. CASE t = s /\ w = c.to
            BY ZenonT(60), <1>3, <1>5, <1>6, <2>2, <3>1
        <3>2. CASE t = s /\ w \in q.voters
            BY ZenonT(60), <1>1, <1>3, <1>5, <2>2, <3>2, GrantIntro
        <3>3. CASE t # s
            BY ZenonT(60), <1>5, <2>2, <3>3, GrantIntro
        <3>4. QED
            BY ZenonT(60), <1>3, <1>5, <2>2, <3>1, <3>2, <3>3
    <2>3. QED
        BY ZenonT(60), <2>1, <2>2, GrantElimNext
<1>9. VotePersisted'
    BY <1>3, <1>5 DEF ElectionInv, VotePersisted
<1>10. VotesCounted'
    <2>1. q.votedFor = s /\ s \in q.voters /\ q.getVotesNum = Cardinality(q.voters)
        BY <1>1 DEF ElectionInv, VotesCounted
    <2>2. q.voters \in SUBSET Server
        BY Zenon, <1>1 DEF RaftObject
    <2>3. Cardinality(q.voters \cup {c.to}) = Cardinality(q.voters) + 1
        BY Zenon, <1>1, <1>7, <2>2 DEF Counting
    <2> SUFFICES ASSUME NEW t \in Server, rf'[t].state # "FOLLOWER"
                 PROVE  /\ rf'[t].votedFor = t /\ t \in rf'[t].voters
                        /\ rf'[t].getVotesNum = Cardinality(rf'[t].voters)
                        /\ rf'[t].state = "LEADER" => IsMajority(rf'[t].getVotesNum)
        BY ZenonT(60) DEF VotesCounted, IsMajority
    <2>4. CASE t = s
        BY SMTT(40), ZenonT(60), <1>3, <1>5, <2>1, <2>3, <2>4
    <2>5. CASE t # s
        BY ZenonT(60), <1>5, <2>5 DEF ElectionInv, VotesCounted
    <2>6. QED
        BY ZenonT(60), <2>4, <2>5
<1>11. VoteCallsCurrent'
    <2> SUFFICES ASSUME NEW e \in voteCalls'
                 PROVE  /\ e.from # e.to /\ e.args.Term <= rf'[e.from].currentTerm
                        /\ rf'[e.from].state # "FOLLOWER" /\ e.args.Term = rf'[e.from].currentTerm
                               => e.to \notin rf'[e.from].voters
        BY DEF VoteCallsCurrent
    <2>1. e \in voteCalls /\ e # c /\ e.from \in Server
        BY ZenonT(60), <1>4 DEF TypeOK, VoteCall, CallOf
    <2>2. /\ e.from # e.to /\ e.args.Term <= rf[e.from].currentTerm
          /\ rf[e.from].state # "FOLLOWER" /\ e.args.Term = rf[e.from].currentTerm
                 => e.to \notin rf[e.from].voters
        BY ZenonT(60), <2>1 DEF ElectionInv, VoteCallsCurrent
    <2>3. CASE e.from = s
        <3>1. e.args.Term = c.args.Term => e.to # c.to
            BY ZenonT(60), <2>1, <2>3 DEF ElectionInv, OneVoteCall
        <3>2. QED
            BY <1>3, <1>5, <2>2, <2>3, <3>1
    <2>4. CASE e.from # s
        BY ZenonT(60), <1>5, <2>1, <2>2, <2>4
    <2>5. QED
        BY ZenonT(60), <2>3, <2>4
<1>12. OneVoteCall'
    BY ZenonT(60), <1>4 DEF ElectionInv, OneVoteCall
<1>13. GrantsRemembered'
    <2> SUFFICES ASSUME NEW g \in Grants', g.voter # g.candidate
                 PROVE  \/ rf'[g.voter].currentTerm > g.term
                        \/ /\ rf'[g.voter].currentTerm = g.term
                           /\ rf'[g.voter].votedFor = g.candidate
                           /\ rf'[g.voter].state = "FOLLOWER"
        BY DEF GrantsRemembered
    <2>1. g \in Grants
        BY <1>8
    <2>2. g.voter \in Server
        BY ZenonT(60), <2>1, GrantType
    <2>3. \/ rf[g.voter].currentTerm > g.term
          \/ /\ rf[g.voter].currentTerm = g.term
             /\ rf[g.voter].votedFor = g.candidate /\ rf[g.voter].state = "FOLLOWER"
        BY <2>1 DEF ElectionInv, GrantsRemembered
    <2>4. QED
        BY ZenonT(60), <1>3, <1>5, <2>2, <2>3
<1>14. OneGrantPerTerm'
    BY <1>8 DEF ElectionInv, OneGrantPerTerm
<1>15. QED
    BY SMTT(40), <1>9, <1>10, <1>11, <1>12, <1>13, <1>14 DEF ElectionInv

---------------------------------------------------------------------------
\* A group that starts has no votes.
LEMMA InitElection == Init => ElectionInv
<1> SUFFICES ASSUME Init PROVE ElectionInv
    BY ZenonT(60)
<1>1. \A s \in Server : /\ rf[s].state = "FOLLOWER" /\ rf[s].persister = EmptyPersister
                        /\ rf[s].currentTerm = EmptyPersister.currentTerm
                        /\ rf[s].votedFor = EmptyPersister.votedFor
    BY DEF Init, Make
<1>2. voteCalls = {}
    BY DEF Init
<1>3. Grants = {}
    BY <1>1, <1>2 DEF Grants
<1>4. VotePersisted /\ VotesCounted
    BY <1>1 DEF VotePersisted, VotesCounted
<1>5. QED
    BY <1>2, <1>3, <1>4 DEF ElectionInv, VoteCallsCurrent, OneVoteCall, GrantsRemembered, OneGrantPerTerm

\* Every step of the group keeps the votes of a term apart.
LEMMA NextElection == Counting /\ TypeOK /\ TypeOK' /\ ElectionInv /\ [Next]_vars => ElectionInv'
<1> SUFFICES ASSUME Counting, TypeOK, TypeOK', ElectionInv, [Next]_vars PROVE ElectionInv'
    OBVIOUS
<1>1. ASSUME rf' = rf, voteCalls' = voteCalls PROVE ElectionInv'
    <2>1. Grants' = Grants
        BY <1>1 DEF Grants
    <2>2. VotePersisted' /\ VotesCounted'
        BY ZenonT(60), <1>1 DEF ElectionInv, VotePersisted, VotesCounted, IsMajority
    <2>3. VoteCallsCurrent' /\ OneVoteCall'
        BY ZenonT(60), <1>1 DEF ElectionInv, VoteCallsCurrent, OneVoteCall
    <2>4. GrantsRemembered' /\ OneGrantPerTerm'
        BY <1>1, <2>1 DEF ElectionInv, GrantsRemembered, OneGrantPerTerm
    <2>5. QED
        BY ZenonT(60), <2>2, <2>3, <2>4 DEF ElectionInv
<1>2. CASE UNCHANGED vars
    BY <1>1, <1>2 DEF vars
<1>3. ASSUME NEW s \in Server, ServerNext(s) PROVE ElectionInv'
    <2>1. CASE ticker(s)
        BY <2>1, TickerElection
    <2>2. CASE Restart(s)
        BY <2>2, RestartQuiet, QuietKeeps
    <2>3. CASE ~ticker(s) /\ ~Restart(s)
        BY ZenonT(60), <1>3, <2>3, ServerQuiet, QuietKeeps
    <2>4. QED
        BY <2>1, <2>2, <2>3
<1>4. ASSUME NEW c \in voteCalls, RequestVote(c) PROVE ElectionInv'
    <2> DEFINE r == IF c.args.Term > rf[c.to].currentTerm
                    THEN FollowerState(rf[c.to], c.args.Term) ELSE rf[c.to]
    <2>1. CASE mayVote(r, c.args, c.from)
        BY ZenonT(60), <1>4, <2>1, GrantElection
    <2>2. CASE ~mayVote(r, c.args, c.from)
        <3>1. QuietStep
            BY ZenonT(60), <1>4, <2>2, RefuseQuiet
        <3>2. QED
            BY ZenonT(60), <3>1, QuietKeeps
    <2>3. QED
        BY <2>1, <2>2
<1>5. ASSUME NEW c \in voteCalls, candidateRequestVote(c) PROVE ElectionInv'
    <2> DEFINE q == rf[c.from]
    <2>1. c.from \in Server /\ c.reply.Term \in Nat /\ voteCalls' \subseteq voteCalls
        BY ZenonT(60), <1>5 DEF TypeOK, VoteCall, CallOf, candidateRequestVote
    <2>2. q \in RaftObject /\ Quiet(q, q)
        BY SMTT(40), <2>1, SelfQuiet
    <2>3. CASE c.reply.Term > q.currentTerm
        <3>1. rf' = [rf EXCEPT ![c.from] = FollowerState(q, c.reply.Term)]
            BY ZenonT(60), <1>5, <2>3 DEF candidateRequestVote
        <3>2. Quiet(q, FollowerState(q, c.reply.Term))
            BY <2>1, <2>2, <2>3, FollowerQuiet
        <3>3. QuietStep
            BY Zenon, <2>1, <3>1, <3>2, ObjectQuiet
        <3>4. QED
            BY ZenonT(60), <3>3, QuietKeeps
    <2>4. CASE /\ ~(c.reply.Term > q.currentTerm)
               /\ q.state = "CANDIDATE" /\ q.currentTerm = c.args.Term
               /\ c.reply.Term = q.currentTerm /\ c.reply.VoteGranted
        <3>1. rf' = [rf EXCEPT ![c.from] = countVote(q, c.to)]
            BY Zenon, <1>5, <2>4 DEF candidateRequestVote
        <3>2. QED
            BY Zenon, <1>5, <2>4, <3>1, CountElection
    <2>5. CASE /\ ~(c.reply.Term > q.currentTerm)
               /\ ~(/\ q.state = "CANDIDATE" /\ q.currentTerm = c.args.Term
                    /\ c.reply.Term = q.currentTerm /\ c.reply.VoteGranted)
        <3>1. rf' = [rf EXCEPT ![c.from] = q]
            BY Zenon, <1>5, <2>5 DEF candidateRequestVote
        <3>2. QuietStep
            BY ZenonT(60), <2>1, <2>2, <3>1, ObjectQuiet
        <3>3. QED
            BY <3>2, QuietKeeps
    <2>6. QED
        BY <2>3, <2>4, <2>5
<1>6. CASE CallNext
    BY <1>4, <1>5, <1>6, AppendQuiet, SnapQuiet, QuietKeeps DEF CallNext
<1>7. CASE LossNext
    <2>1. ASSUME NEW c \in voteCalls, loseVoteCall(c) PROVE ElectionInv'
        BY <2>1, LossQuiet, QuietKeeps
    <2>2. ASSUME \/ \E c \in appendCalls : loseAppendCall(c)
                 \/ \E c \in snapCalls : loseSnapCall(c)
          PROVE  ElectionInv'
        BY <1>1, <2>2 DEF loseAppendCall, loseSnapCall
    <2>3. QED
        BY <1>7, <2>1, <2>2 DEF LossNext
<1>8. QED
    BY <1>2, <1>3, <1>6, <1>7 DEF Next

\* Two leaders of a term would have a common voter, and that voter would have
\* voted twice in the term.
LEMMA InvElectionSafety == Counting /\ TypeOK /\ ElectionInv => ElectionSafety
<1> SUFFICES ASSUME Counting, TypeOK, ElectionInv, NEW s \in Server, NEW t \in Server, s # t,
                    rf[s].state = "LEADER", rf[t].state = "LEADER",
                    rf[s].currentTerm = rf[t].currentTerm
             PROVE  FALSE
    BY DEF ElectionSafety
<1>1. /\ rf[s].voters \in SUBSET Server /\ rf[t].voters \in SUBSET Server
      /\ rf[s].currentTerm \in Nat
    BY ZenonT(60) DEF TypeOK, RaftObject
<1>2. IsMajority(Cardinality(rf[s].voters)) /\ IsMajority(Cardinality(rf[t].voters))
    BY DEF ElectionInv, VotesCounted
<1>3. Cardinality(Server) \in Nat
    BY Zenon DEF Counting
<1>4. Cardinality(rf[s].voters) \in Nat /\ Cardinality(rf[t].voters) \in Nat
    BY Zenon, <1>1 DEF Counting
<1>5. Cardinality(rf[s].voters) + Cardinality(rf[t].voters) > Cardinality(Server)
    BY <1>2, <1>3, <1>4 DEF IsMajority
<1>6. PICK v \in Server : v \in rf[s].voters /\ v \in rf[t].voters
    BY Zenon, <1>1, <1>5 DEF Counting
<1> DEFINE g == [voter |-> v, candidate |-> s, term |-> rf[s].currentTerm]
           h == [voter |-> v, candidate |-> t, term |-> rf[t].currentTerm]
<1>7. g \in Grants /\ h \in Grants
    BY ZenonT(60), <1>6, GrantIntro
<1>8. CASE v # s /\ v # t
    BY ZenonT(60), <1>7, <1>8 DEF ElectionInv, OneGrantPerTerm
<1>9. CASE v = s
    BY SMTT(40), <1>1, <1>7, <1>9 DEF ElectionInv, GrantsRemembered
<1>10. CASE v = t
    BY <1>1, <1>7, <1>10 DEF ElectionInv, GrantsRemembered
<1>11. QED
    BY <1>8, <1>9, <1>10

=================================================================================
