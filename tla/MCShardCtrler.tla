----------------------------- MODULE MCShardCtrler ------------------------------
(* Bounded instances of ShardCtrler.  Every bound is a guard. *)
EXTENDS ShardCtrler, TLC

VARIABLES
    bound,          \* the instance: what limits this behaviour
    starts,         \* operations started so far
    fails,          \* calls that failed so far
    restarts        \* restarts so far

mcVars == <<vars, bound, starts, fails, restarts>>

JoinBoth == [ArgsType |-> "Join", GIDs |-> {1, 2}]
LeaveOne == [ArgsType |-> "Leave", GIDs |-> {1}]
MoveTo2 == [ArgsType |-> "Move", Shard |-> 0, GID |-> 2]
QueryLast == [ArgsType |-> "Query", Num |-> -1]
QueryFirst == [ArgsType |-> "Query", Num |-> 1]

Requests == {JoinBoth, LeaveOne, MoveTo2, QueryLast, QueryFirst}

\* Instances: the clerks, their requests and how many each makes, and how many
\* operations are started, calls fail and servers restart.  Two clerks, one
\* changing what the other reads; and one clerk whose requests meet a restart.
TwoClerks(C) ==
    [Client |-> C, Request |-> {JoinBoth, QueryLast}, SeqNum |-> 1, Starts |-> 2, Fails |-> 1, Restarts |-> 0]
OneClerk(C) ==
    [Client |-> C, Request |-> Requests \ {QueryLast}, SeqNum |-> 2, Starts |-> 2, Fails |-> 1, Restarts |-> 1]

Instances == {TwoClerks(Client)} \cup {OneClerk({c}) : c \in Client}

MCInit == Init /\ bound \in Instances /\ starts = 0 /\ fails = 0 /\ restarts = 0

MCFree ==
    \/ StepNext
    \/ \E c \in bound.Client, args \in bound.Request : clerk[c].seqNum <= bound.SeqNum /\ RequestBegins(c, args)

MCStep ==
    \/ MCFree /\ UNCHANGED <<starts, fails, restarts>>
    \/ \E call \in calls : \E index \in 1..(starts + 1) :
        /\ starts < bound.Starts /\ RequestHandlerStarts(call, index)
        /\ starts' = starts + 1 /\ UNCHANGED <<fails, restarts>>
    \/ \E c \in Client : /\ fails < bound.Fails /\ RequestFails(c)
                         /\ fails' = fails + 1 /\ UNCHANGED <<starts, restarts>>
    \/ \E s \in Server : /\ restarts < bound.Restarts /\ Restart(s)
                         /\ restarts' = restarts + 1 /\ UNCHANGED <<starts, fails>>

MCNext == MCStep /\ UNCHANGED bound

MCSpec == MCInit /\ [][MCNext]_mcVars

Symmetry == Permutations(Client)
=================================================================================
