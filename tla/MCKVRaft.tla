-------------------------------- MODULE MCKVRaft --------------------------------
(* Bounded instances of KVRaft.  Every bound is a guard. *)
EXTENDS KVRaft, TLC

VARIABLES
    bound,          \* the instance: what limits this behaviour
    starts,         \* operations started so far
    faults,         \* calls that failed, handlers that refused or timed out so far
    restarts        \* restarts so far

mcVars == <<vars, bound, starts, faults, restarts>>

(***************************************************************************)
(* An instance.  Client: the clerks; Ops: the types their first, second...  *)
(* operation may have.  Starts, Faults, Snapshots, Restarts: how many; a    *)
(* fault is a call that fails or a handler that refuses or times out.       *)
(* Lag: how far behind the log a server's commitIndex may be.               *)
(***************************************************************************)
TwoClerks ==
    [Client |-> Client, Ops |-> <<{"Get", "Append"}>>, Starts |-> 2, Faults |-> 1,
     Snapshots |-> 0, Restarts |-> 0, Lag |-> 0]

\* Copies of an operation that are committed late.
Retries(c) == [TwoClerks EXCEPT !.Client = {c}, !.Ops = <<{"Append"}, {"Append"}>>, !.Starts = 3, !.Faults = 2]

\* A snapshot, read after a restart or installed, between copies.
Restarted(c) ==
    [TwoClerks EXCEPT !.Client = {c}, !.Ops = <<{"Append"}, {"Get"}>>, !.Starts = 3, !.Snapshots = 1, !.Restarts = 1]

\* Snapshots that overtake a batch.
Overtaken(c) ==
    [TwoClerks EXCEPT !.Client = {c}, !.Ops = <<{"Append"}, {"Append"}, {"Append"}>>,
                      !.Starts = 3, !.Faults = 0, !.Snapshots = 2, !.Restarts = 1, !.Lag = 2]

Instances == {TwoClerks} \cup UNION {{Retries(c), Restarted(c), Overtaken(c)} : c \in Client}

MCInit == Init /\ bound \in Instances /\ starts = 0 /\ faults = 0 /\ restarts = 0

\* A clerk's next operation.
Begin ==
    \E c \in bound.Client, k \in Key : \E n \in {clerk[c].seqNum} \cap DOMAIN bound.Ops : \E type \in bound.Ops[n] :
        ClerkCalls(c, [ClientID |-> c, SeqNum |-> n, Key |-> k, Optype |-> type])

Apply ==
    \/ \E s \in Server, index \in 1..Len(log) : Len(log) - index <= bound.Lag /\ applyChecker(s, index)
    \/ \E s \in Server, takeSnapshot \in BOOLEAN :
        (takeSnapshot => Cardinality(snapshots) < bound.Snapshots) /\ applyHandler(s, takeSnapshot)

Install == \E s \in Server, snapshot \in snapshots : installSnapshot(s, snapshot)

Fault ==
    \/ \E c \in Client : CallFails(c)
    \/ \E call \in calls : HandlerRefuses(call) \/ HandlerTimesOut(call)

MCStep ==
    \/ (StepNext \/ Begin \/ Apply \/ Install) /\ UNCHANGED <<starts, faults, restarts>>
    \/ starts < bound.Starts /\ StartNext /\ starts' = starts + 1 /\ UNCHANGED <<faults, restarts>>
    \/ faults < bound.Faults /\ Fault /\ faults' = faults + 1 /\ UNCHANGED <<starts, restarts>>
    \/ \E s \in Server : /\ restarts < bound.Restarts /\ Restart(s)
                         /\ restarts' = restarts + 1 /\ UNCHANGED <<starts, faults>>

MCNext == MCStep /\ UNCHANGED bound

MCSpec == MCInit /\ [][MCNext]_mcVars

Symmetry == Permutations(Client) \cup Permutations(Server)
=================================================================================
