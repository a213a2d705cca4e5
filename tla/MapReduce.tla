------------------------------- MODULE MapReduce --------------------------------
(***************************************************************************)
(* MapReduce, src/mr/coordinator.go and worker.go: a coordinator that      *)
(* hands out map tasks, then reduce tasks, and hands a task out again when *)
(* ten seconds have passed since it was assigned, and workers that may     *)
(* crash at any point and be started again, or be slow: nothing tells the  *)
(* coordinator a slow worker from a dead one, so two live workers can have *)
(* one task, and either's report counts.                                   *)
(*                                                                         *)
(* The coordinator's handlers are one step where they hold c.mu; checkTask *)
(* reads c.Stage before it takes the lock.  A worker's task is a step for  *)
(* each file it makes, fills or reads.  A file is known by the map tasks   *)
(* whose records it has; the lines a reducer prints are one write, and no  *)
(* property says what a file is like that two reducers write by turns.     *)
(*                                                                         *)
(* An operator whose comment starts with "Slip:" is the definition that    *)
(* follows it with a plausible programming error.                          *)
(***************************************************************************)
EXTENDS Naturals, FiniteSets

CONSTANTS
    Worker,         \* worker processes
    nMap,           \* input files, one map task for each
    nReduce         \* reduce tasks

ASSUME SizeAssumption == nMap \in Nat \ {0} /\ nReduce \in Nat \ {0}

VARIABLES
    Stage,          \* "MAPPING", "REDUCING", "FINISHED"
    task,           \* task[<<"MAPPING", m>>]: c.MapTask[m].Status; "REDUCING" likewise
    late,           \* the tasks whose StartTime is more than ten seconds ago
    coordinator,    \* the coordinator process: "running", "exited", "panicked"
    pc,             \* pc[w]: where a worker process is
    job,            \* job[w]: the task it was given
    next,           \* next[w]: the file of that task it is at
    read,           \* read[w]: the map tasks whose records it has read
    mid,            \* mid[m][r]: the file mr-m-r
    out,            \* out[r]: the file mr-out-r
    shared          \* history: the tasks given out while a live worker had them

vars == <<Stage, task, late, coordinator, pc, job, next, read, mid, out, shared>>

coordVars == <<Stage, task, late, coordinator, shared>>
jobVars == <<job, next, read>>
fileVars == <<mid, out>>

MapId == 0..(nMap - 1)
ReduceId == 0..(nReduce - 1)
Task == ({"MAPPING"} \X MapId) \cup ({"REDUCING"} \X ReduceId)

\* by is the process whose file has the name: a name given to another file
\* leaves the first process writing to a file without a name.
noFile == [by |-> {}, full |-> FALSE]

\* MakeCoordinator.  out[r] is {} before the file exists.
Init ==
    /\ Stage = "MAPPING" /\ coordinator = "running" /\ late = {}
    /\ task = [t \in Task |-> "IDLE"]
    /\ pc = [w \in Worker |-> "idle"] /\ job = [w \in Worker |-> <<"MAPPING", 0>>]
    /\ next = [w \in Worker |-> 0] /\ read = [w \in Worker |-> {}]
    /\ mid = [m \in MapId |-> [r \in ReduceId |-> noFile]]
    /\ out = [r \in ReduceId |-> {}]
    /\ shared = {}

\* The workers that have a task and are alive.
active(w) == pc[w] \notin {"idle", "crashed", "exited"}

holders(t) == {w \in Worker : active(w) /\ job[w] = t}

\* Nothing is left of the worker's taskinfo.
forgetTask(w) ==
    /\ job' = [job EXCEPT ![w] = <<"MAPPING", 0>>]
    /\ next' = [next EXCEPT ![w] = 0] /\ read' = [read EXCEPT ![w] = {}]
---------------------------------------------------------------------------
(* The coordinator: assignTask *)

\* Slip: a task is given out once.
timeOutNone(t) == FALSE

\* The tasks of the stage that become idle again.
timeOutTask(t) == task[t] = "WORKING" /\ t \in late

Idle(t) == task[t] = "IDLE" \/ timeOutTask(t)

\* The first idle task of the stage.
findIdleTask(t) ==
    t[1] = Stage /\ Idle(t) /\ \A u \in Task : u[1] = Stage /\ u[2] < t[2] => ~Idle(u)

\* Slip: the stage ends when there is no task left to give out.
noIdleTask == \A t \in Task : t[1] = Stage => ~Idle(t)

\* True when no task of the stage is uncompleted.
finduncompletedTask == \A t \in Task : t[1] = Stage => task[t] = "DONE"

nextStage == IF Stage = "MAPPING" THEN "REDUCING" ELSE "FINISHED"

\* The tasks timed out are idle, the one handed out is being worked on.
markWorking(t) ==
    [u \in Task |-> IF u = t THEN "WORKING" ELSE IF u[1] = Stage /\ timeOutTask(u) THEN "IDLE" ELSE task[u]]

assignTask(w, t) ==
    /\ Stage # "FINISHED" /\ findIdleTask(t)
    /\ task' = markWorking(t)
    /\ late' = {u \in late : u[1] # Stage}
    /\ shared' = IF holders(t) = {} THEN shared ELSE shared \cup {t}
    /\ pc' = [pc EXCEPT ![w] = t[1]] /\ job' = [job EXCEPT ![w] = t]
    /\ next' = [next EXCEPT ![w] = 0] /\ read' = [read EXCEPT ![w] = {}]
    /\ UNCHANGED <<Stage, coordinator>>

\* RPC_FAIL: the stage is complete, or every task is being worked on.  The
\* worker sleeps and asks again.
assignNothing(w) ==
    /\ Stage # "FINISHED" /\ \A t \in Task : t[1] = Stage => ~Idle(t)
    /\ Stage' = IF finduncompletedTask THEN nextStage ELSE Stage
    /\ UNCHANGED <<task, late, coordinator, shared, pc, jobVars>>

\* RPC_ALLDONE: the worker returns.
assignAllDone(w) ==
    /\ Stage = "FINISHED"
    /\ pc' = [pc EXCEPT ![w] = "exited"]
    /\ UNCHANGED <<coordVars, jobVars>>

requestTask(w) ==
    /\ pc[w] = "idle" /\ coordinator = "running"
    /\ (\E t \in Task : assignTask(w, t)) \/ assignNothing(w) \/ assignAllDone(w)
    /\ UNCHANGED fileVars

\* Nobody listens any more: log.Fatal, when dialing, or when the empty reply
\* is taken for a map task without a file; a failed report is not noticed
\* before the next request.
callFails(w) ==
    /\ pc[w] \in {"idle", "report", "checkMap", "checkReduce"} /\ coordinator # "running"
    /\ pc' = [pc EXCEPT ![w] = "exited"]
    /\ UNCHANGED <<coordVars, jobVars, fileVars>>
---------------------------------------------------------------------------
(* The coordinator: checkTask, Done *)

\* c.Stage is read without the lock.  There is no case for STAGE_FINISHED.
reportTask(w) ==
    /\ pc[w] = "report" /\ coordinator = "running"
    /\ pc' = [pc EXCEPT ![w] = IF Stage = "MAPPING" THEN "checkMap"
                               ELSE IF Stage = "REDUCING" THEN "checkReduce" ELSE "idle"]
    /\ UNCHANGED <<coordVars, jobVars, fileVars>>

\* The report is taken to be about a task of the stage that was read, whatever
\* task the worker had.
reported(w) == <<IF pc[w] = "checkMap" THEN "MAPPING" ELSE "REDUCING", job[w][2]>>

\* An index out of range is a panic.
checkTask(w) ==
    /\ pc[w] \in {"checkMap", "checkReduce"} /\ coordinator = "running"
    /\ pc' = [pc EXCEPT ![w] = "idle"] /\ forgetTask(w)
    /\ IF reported(w) \in Task
       THEN /\ task' = [t \in Task |-> IF t = reported(w) /\ task[t] = "WORKING" THEN "DONE" ELSE task[t]]
            /\ UNCHANGED coordinator
       ELSE coordinator' = "panicked" /\ UNCHANGED task
    /\ UNCHANGED <<Stage, late, shared, fileVars>>

\* main polls Done and exits.
Done ==
    /\ coordinator = "running" /\ Stage = "FINISHED"
    /\ coordinator' = "exited"
    /\ UNCHANGED <<Stage, task, late, shared, pc, jobVars, fileVars>>
---------------------------------------------------------------------------
(* Workers *)

\* TempFile and Rename: the name has an empty file from now on.
execMapRename(w) ==
    /\ pc[w] = "MAPPING"
    /\ mid' = [mid EXCEPT ![job[w][2]][next[w]] = [by |-> {w}, full |-> FALSE]]
    /\ pc' = [pc EXCEPT ![w] = "fill"]
    /\ UNCHANGED <<coordVars, jobVars, out>>

\* Slip: the last file is not made.
lastFileShort(r) == r + 2 >= nReduce

lastFile(r) == r + 1 = nReduce

\* The records are encoded into the file, whatever name it has by now.
execMapFill(w) ==
    LET m == job[w][2]
        r == next[w]
    IN  /\ pc[w] = "fill"
        /\ mid' = IF mid[m][r].by = {w} THEN [mid EXCEPT ![m][r] = [by |-> {w}, full |-> TRUE]] ELSE mid
        /\ pc' = [pc EXCEPT ![w] = IF lastFile(r) THEN "report" ELSE "MAPPING"]
        /\ next' = [next EXCEPT ![w] = r + 1]
        /\ UNCHANGED <<coordVars, job, read, out>>

\* The map task whose records a file gives, if it is complete.
recordsOf(m, file) == {k \in {m} : file.full}

\* The files mr-0-r, mr-1-r, ... are read; one that does not exist is a panic.
execReduceRead(w) ==
    LET file == mid[next[w]][job[w][2]]
    IN  /\ pc[w] = "REDUCING" /\ next[w] < nMap
        /\ pc' = [pc EXCEPT ![w] = IF file.by = {} THEN "crashed" ELSE @]
        /\ next' = [next EXCEPT ![w] = next[w] + 1]
        /\ read' = [read EXCEPT ![w] = @ \cup recordsOf(next[w], file)]
        /\ UNCHANGED <<coordVars, job, fileVars>>

\* Create makes the file, or empties the one there is.
execReduceCreate(w) ==
    /\ pc[w] = "REDUCING" /\ next[w] = nMap
    /\ out' = [out EXCEPT ![job[w][2]] = {{}}]
    /\ pc' = [pc EXCEPT ![w] = "print"]
    /\ UNCHANGED <<coordVars, jobVars, mid>>

execReducePrint(w) ==
    /\ pc[w] = "print"
    /\ out' = [out EXCEPT ![job[w][2]] = {read[w]}]
    /\ pc' = [pc EXCEPT ![w] = "report"]
    /\ UNCHANGED <<coordVars, jobVars, mid>>

\* A crash, as the applications make it, and another worker process.  The delay
\* they make is a worker that takes no step while TenSeconds happens.
Crash(w) ==
    /\ pc[w] \notin {"crashed", "exited"}
    /\ pc' = [pc EXCEPT ![w] = "crashed"] /\ forgetTask(w)
    /\ UNCHANGED <<coordVars, fileVars>>

Respawn(w) ==
    /\ pc[w] = "crashed"
    /\ pc' = [pc EXCEPT ![w] = "idle"]
    /\ UNCHANGED <<coordVars, jobVars, fileVars>>

\* Ten seconds have passed since a task was assigned, be its worker dead or
\* slow: Map and Reduce may sleep, a Reduce once for each of its keys.
TenSeconds(t) ==
    /\ task[t] = "WORKING" /\ t \notin late
    /\ late' = late \cup {t}
    /\ UNCHANGED <<Stage, task, coordinator, shared, pc, jobVars, fileVars>>

execMap(w) == execMapRename(w) \/ execMapFill(w)

execReduce(w) == execReduceRead(w) \/ execReduceCreate(w) \/ execReducePrint(w)

\* One turn of the loop in func Worker.
WorkerNext(w) ==
    \/ requestTask(w) \/ execMap(w) \/ execReduce(w)
    \/ reportTask(w) \/ checkTask(w) \/ callFails(w)

Next ==
    \/ \E w \in Worker : WorkerNext(w) \/ Crash(w) \/ Respawn(w)
    \/ \E t \in Task : TenSeconds(t)
    \/ Done

Spec == Init /\ [][Next]_vars
---------------------------------------------------------------------------
TypeOK ==
    /\ Stage \in {"MAPPING", "REDUCING", "FINISHED"} /\ coordinator \in {"running", "exited", "panicked"}
    /\ task \in [Task -> {"IDLE", "WORKING", "DONE"}] /\ late \subseteq Task
    /\ pc \in [Worker -> {"idle", "MAPPING", "fill", "REDUCING", "print", "report", "checkMap",
                          "checkReduce", "crashed", "exited"}]
    /\ job \in [Worker -> Task] /\ next \in [Worker -> Nat] /\ read \in [Worker -> SUBSET MapId]
    /\ mid \in [MapId -> [ReduceId -> [by : SUBSET Worker, full : BOOLEAN]]]
    /\ out \in [ReduceId -> SUBSET SUBSET MapId] /\ shared \subseteq Task

\* Every map task had one live worker at a time.
mapsUnshared == \A m \in MapId : <<"MAPPING", m>> \notin shared

\* Whatever checkTask marks as done is done, through crashes between any two
\* writes, unless a slow worker shared the work: the files of a map task that
\* no two live workers had are complete once it is DONE, whatever happens to
\* other tasks; so is the output of such a reduce task, if no map task was
\* shared.  Late workers of other reduce tasks do it no harm.  In any case the
\* reduce stage begins when every map task is DONE.
DoneMeansOutput ==
    /\ Stage # "MAPPING" => \A m \in MapId : task[<<"MAPPING", m>>] = "DONE"
    /\ \A m \in MapId :
        task[<<"MAPPING", m>>] = "DONE" /\ <<"MAPPING", m>> \notin shared => \A r \in ReduceId : mid[m][r].full
    /\ \A r \in ReduceId :
        task[<<"REDUCING", r>>] = "DONE" /\ mapsUnshared /\ <<"REDUCING", r>> \notin shared => out[r] = {MapId}

\* "a process has exited. this means that the output should be finalized"
\* (main/test-mr.sh:204), as far as slow workers let it: a worker returns, and
\* the coordinator exits, only when every output file has the records of every
\* map task, but for reduce tasks that two live workers had.
FinalizedOnExit ==
    (coordinator # "running" \/ \E w \in Worker : pc[w] = "exited") /\ mapsUnshared =>
        \A r \in ReduceId : <<"REDUCING", r>> \notin shared => out[r] = {MapId}

\* "crash output is not the same as mr-correct-crash.txt" is a failure
\* (main/test-mr.sh:267): as long as no map task was shared, no reducer, late
\* or not, prints an output that lacks the records of a map task.
NothingLost == mapsUnshared => \A r \in ReduceId : out[r] \subseteq {{}, MapId}

\* The coordinator is taken down only by the late report of a map task that two
\* workers had and whose number no reduce task has: checkTask looks it up in
\* the other table.  No reducer looks for a file that is not there, however
\* slow the workers are.
NoPanic ==
    /\ coordinator = "panicked" => \E m \in MapId \ ReduceId : <<"MAPPING", m>> \in shared
    /\ \A w \in Worker : pc[w] = "REDUCING" /\ next[w] < nMap => mid[next[w]][job[w][2]].by # {}
=================================================================================
