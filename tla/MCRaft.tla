--------------------------------- MODULE MCRaft ---------------------------------
(* Bounded instances of Raft for TLC.  Every bound is a guard on the action it *)
(* limits; the states reached are states of Raft.                              *)
EXTENDS Raft, TLC

VARIABLES
    bound,          \* the instance: what limits this behaviour
    restarts,       \* crashes so far
    losses,         \* messages lost so far
    batches,        \* batches copied so far
    snapshots       \* snapshots taken so far

counters == <<restarts, losses, batches, snapshots>>

mcVars == <<vars, counters, bound>>

(***************************************************************************)
(* The instances; a behaviour is one of one of them.  Term: no election     *)
(* timeout at this term.  LogIndex: no Start beyond this index.  VoteCalls: *)
(* no election timeout with this many RequestVotes in flight.  LogCalls:    *)
(* AppendEntries and InstallSnapshot calls in flight together.  Restarts,   *)
(* Losses, Batches, Snapshots: crashes, lost requests and replies, batches  *)
(* that applyChecker copies and snapshots that services take.               *)
(***************************************************************************)
OneTerm == [Term |-> 1, LogIndex |-> 1, VoteCalls |-> 1, LogCalls |-> 1,
            Restarts |-> 0, Losses |-> 0, Batches |-> 0, Snapshots |-> 0]

\* Two candidates with calls in flight, and a crash; and calls of one term that
\* are lost and retried.
Votes == [OneTerm EXCEPT !.Term = 2, !.LogIndex = 0, !.VoteCalls = 2, !.LogCalls = 0, !.Restarts = 1]
Retries == [Votes EXCEPT !.Term = 1, !.VoteCalls = 3, !.Losses = 2]

\* An entry of an old term that a later leader replicates (Raft's Figure 8).
OldEntry == [OneTerm EXCEPT !.Term = 4]

\* Logs that differ in two entries, for the fast backup to repair.
Conflicts == [OneTerm EXCEPT !.Term = 2, !.LogIndex = 2]

\* A log call that is overtaken by another.
Reordered == [OneTerm EXCEPT !.Term = 2, !.LogCalls = 2]

\* A batch being applied while a snapshot is taken or arrives.
BatchAndSnapshot == [OneTerm EXCEPT !.LogIndex = 2, !.Batches = 2, !.Snapshots = 1]

\* A new leader, a crash or a lost call around a snapshot.
SnapshotAndLeader == [OneTerm EXCEPT !.Term = 2, !.Batches = 1, !.Snapshots = 1]
SnapshotAndCrash == [SnapshotAndLeader EXCEPT !.Term = 1, !.Restarts = 1]
SnapshotAndLoss == [SnapshotAndLeader EXCEPT !.Term = 1, !.Losses = 1]

Instances ==
    {Votes, Retries, OldEntry, Conflicts, Reordered, BatchAndSnapshot,
     SnapshotAndLeader, SnapshotAndCrash, SnapshotAndLoss}

(***************************************************************************)
(* Calls whose remaining steps change nothing: the caller will ignore the   *)
(* reply, now and later, or the caller is gone and the callee will ignore   *)
(* the request.  The bounds do not count them and the view drops them; it   *)
(* also drops the tables of a server that is not leader and the votes of    *)
(* one that is not candidate, which are overwritten before they are read.   *)
(***************************************************************************)
Ignored(c, role) ==
    \/ /\ c.stage = "answered" /\ c.reply.Term <= rf[c.from].currentTerm
       /\ c.args.Term < rf[c.from].currentTerm \/ rf[c.from].state # role
    \/ c.stage = "sent" /\ ~c.live /\ c.args.Term < rf[c.to].currentTerm

VotesInFlight ==
    {c \in voteCalls : ~Ignored(c, "CANDIDATE") /\
        (c.stage = "answered" /\ c.reply.Term <= rf[c.from].currentTerm => c.reply.VoteGranted)}

AppendsInFlight == {c \in appendCalls : ~Ignored(c, "LEADER")}

SnapsInFlight == {c \in snapCalls : ~(c.stage = "answered" /\ c.reply.Term < rf[c.from].currentTerm)}

LogCalls == Cardinality(AppendsInFlight) + Cardinality(SnapsInFlight)

\* ElectionInv is about these calls and votes too.
View ==
    LET tables(r) == IF r.state = "LEADER" THEN r
                     ELSE [r EXCEPT !.nextIndex = <<>>, !.matchIndex = <<>>]
        votes(r) == IF r.state = "CANDIDATE" THEN r
                    ELSE [r EXCEPT !.voters = {}, !.getVotesNum = 0]
    IN  IF bound.LogCalls = 0 THEN mcVars
        ELSE <<[s \in Server |-> tables(votes(rf[s]))], kv, applying, installs,
               VotesInFlight, AppendsInFlight, SnapsInFlight, counters, bound>>

MCInit == Init /\ bound \in Instances /\ restarts = 0 /\ losses = 0 /\ batches = 0 /\ snapshots = 0

\* The steps that use up no budget.
MCFree ==
    \/ CallNext
    \/ \E s \in Server : \/ applyCheckerDone(s)
                         \/ applyHandler(s, FALSE)
                         \/ \E msg \in installs[s] : CondInstallSnapshot(s, msg)
    \/ \E s \in Server, command \in Command : getLastLogIndex(rf[s]) < bound.LogIndex /\ Start(s, command)
    \/ /\ Cardinality(VotesInFlight) < bound.VoteCalls
       /\ \E s \in Server : rf[s].currentTerm < bound.Term /\ ticker(s)
    \/ /\ LogCalls < bound.LogCalls
       /\ \E s, p \in Server : leaderAppendEntries(s, p) \/ leaderSendSnapshot(s, p)

MCStep ==
    \/ MCFree /\ UNCHANGED counters
    \/ \E s \in Server : /\ restarts < bound.Restarts /\ Restart(s)
                         /\ restarts' = restarts + 1 /\ UNCHANGED <<losses, batches, snapshots>>
    \/ losses < bound.Losses /\ LossNext /\ losses' = losses + 1 /\ UNCHANGED <<restarts, batches, snapshots>>
    \/ \E s \in Server : /\ batches < bound.Batches /\ applyCheckerCopy(s)
                         /\ batches' = batches + 1 /\ UNCHANGED <<restarts, losses, snapshots>>
    \/ \E s \in Server : /\ snapshots < bound.Snapshots /\ applyHandler(s, TRUE)
                         /\ snapshots' = snapshots + 1 /\ UNCHANGED <<restarts, losses, batches>>

MCNext == MCStep /\ UNCHANGED bound

MCSpec == MCInit /\ [][MCNext]_mcVars

Symmetry == Permutations(Server)
=================================================================================
