------------------------------ MODULE MCMapReduce -------------------------------
(* Bounded instances of MapReduce.  The bound is a guard. *)
EXTENDS MapReduce, TLC

CONSTANT MaxFaults      \* crashes of workers, and tasks a live worker is late with

VARIABLE faults         \* how many there were

mcVars == <<vars, faults>>

MCInit == Init /\ faults = 0

\* A task whose worker has crashed always times out.
MCNext ==
    \/ ((\E w \in Worker : WorkerNext(w) \/ Respawn(w)) \/ Done) /\ UNCHANGED faults
    \/ \E t \in Task : holders(t) = {} /\ TenSeconds(t) /\ UNCHANGED faults
    \/ \E t \in Task : holders(t) # {} /\ faults < MaxFaults /\ TenSeconds(t) /\ faults' = faults + 1
    \/ \E w \in Worker : faults < MaxFaults /\ Crash(w) /\ faults' = faults + 1

MCSpec == MCInit /\ [][MCNext]_mcVars

\* Live workers go on with what they do, another worker is started for one
\* that crashed, time passes, and main polls Done.
Fairness ==
    /\ \A w \in Worker : WF_vars(WorkerNext(w)) /\ WF_vars(Respawn(w))
    /\ \A t \in Task : WF_vars(holders(t) = {} /\ TenSeconds(t))
    /\ WF_vars(Done)

FairSpec == MCSpec /\ Fairness

\* The job finishes and every process exits although workers crash and are late,
\* "to test MapReduce's ability to recover" (mrapps/crash.go:6), unless a late
\* report takes the coordinator down.
JobFinishes ==
    \/ <>(coordinator = "panicked")
    \/ <>[](coordinator = "exited" /\ \A w \in Worker : pc[w] = "exited")
=================================================================================
