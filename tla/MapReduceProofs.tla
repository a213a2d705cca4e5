---------------------------- MODULE MapReduceProofs -----------------------------
(***************************************************************************)
(* Theorems about module MapReduce, for any number of workers, map tasks   *)
(* and reduce tasks, and for any crashes and delays: what is lost when two *)
(* live workers have one task is confined to that task and, if it is a map *)
(* task, to what reducers make of its files; everything else is complete   *)
(* when it is marked as done.                                              *)
(***************************************************************************)
EXTENDS MapReduce, TLAPS

\* What a worker with the map task m has done, alone with it or not.
MapBegun(w, m) ==
    /\ pc[w] \in {"MAPPING", "fill", "report", "checkMap", "checkReduce"}
    /\ pc[w] = "checkReduce" => Stage # "MAPPING"
    /\ pc[w] \in {"MAPPING", "fill"} =>
        next[w] \in ReduceId /\ \A r \in ReduceId : r < next[w] => mid[m][r].by # {}
    /\ pc[w] = "fill" => mid[m][next[w]].by # {}
    /\ pc[w] \in {"report", "checkMap", "checkReduce"} => \A r \in ReduceId : mid[m][r].by # {}

\* What it has done if no other live worker ever had the task with it.
MapAlone(w, m) ==
    /\ task[<<"MAPPING", m>>] # "DONE"
    /\ pc[w] \in {"MAPPING", "fill"} => \A r \in ReduceId : r < next[w] => mid[m][r].full
    /\ pc[w] = "fill" => mid[m][next[w]].by = {w}
    /\ pc[w] \in {"report", "checkMap", "checkReduce"} => \A r \in ReduceId : mid[m][r].full

\* What a worker with a reduce task has done.
ReduceBegun(w) ==
    /\ Stage # "MAPPING" /\ pc[w] \in {"REDUCING", "print", "report", "checkReduce"}
    /\ pc[w] = "REDUCING" => next[w] \in 0..nMap

\* What it has read if no map task was shared.
ReduceReads(w) ==
    /\ pc[w] = "REDUCING" => read[w] = {m \in MapId : m < next[w]}
    /\ pc[w] = "print" => read[w] = MapId

\* What it has written if, besides, it had the task r alone.
ReduceAlone(w, r) ==
    /\ task[<<"REDUCING", r>>] # "DONE"
    /\ pc[w] \in {"report", "checkReduce"} => out[r] = {MapId}

Fine(w) ==
    /\ \A m \in MapId : job[w] = <<"MAPPING", m>> =>
        /\ MapBegun(w, m)
        /\ <<"MAPPING", m>> \notin shared => MapAlone(w, m)
    /\ \A r \in ReduceId : job[w] = <<"REDUCING", r>> =>
        /\ ReduceBegun(w)
        /\ mapsUnshared => ReduceReads(w)
        /\ mapsUnshared /\ <<"REDUCING", r>> \notin shared => ReduceAlone(w, r)

Workers == \A w \in Worker : active(w) => Fine(w)

\* Two workers have two tasks, or one that is shared.
Distinct == \A w, v \in Worker : active(w) /\ active(v) /\ job[w] = job[v] /\ job[w] \notin shared => w = v

\* The tables and the files they speak of.
Tables ==
    /\ DoneMeansOutput
    /\ Stage = "FINISHED" => \A r \in ReduceId : task[<<"REDUCING", r>>] = "DONE"
    /\ \A m \in MapId : task[<<"MAPPING", m>>] = "DONE" => \A r \in ReduceId : mid[m][r].by # {}
    /\ NothingLost

\* Who has exited, and why.
Exits ==
    /\ coordinator = "panicked" => \E m \in MapId \ ReduceId : <<"MAPPING", m>> \in shared
    /\ coordinator = "exited" => Stage = "FINISHED"
    /\ \A w \in Worker : pc[w] = "exited" => Stage = "FINISHED" \/ coordinator = "panicked"

IInv == TypeOK /\ Workers /\ Distinct /\ Tables /\ Exits
---------------------------------------------------------------------------
\* A map and a reduce task are different tasks, and every task is one of them.
LEMMA TaskFacts ==
  /\ \A m \in MapId : <<"MAPPING", m>> \in Task
  /\ \A r \in ReduceId : <<"REDUCING", r>> \in Task
  /\ \A t \in Task : \/ \E m \in MapId : t = <<"MAPPING", m>>
                     \/ \E r \in ReduceId : t = <<"REDUCING", r>>
  /\ \A m, r \in Nat : <<"MAPPING", m>> # <<"REDUCING", r>>
BY DEF Task

\* If fewer map tasks were shared after a step there were no more before it.
LEMMA UnsharedBefore ==
  ASSUME shared \subseteq shared', mapsUnshared'
  PROVE  mapsUnshared
BY Zenon DEF mapsUnshared

\* A step of somebody else leaves a worker as it was: its own state is the same,
\* files keep their names, and neither its task nor its files change unless the
\* task is shared.
LEMMA Untouched ==
  ASSUME TypeOK, NEW v \in Worker, Fine(v),
         pc'[v] = pc[v], job'[v] = job[v], next'[v] = next[v], read'[v] = read[v],
         shared \subseteq shared', Stage # "MAPPING" => Stage' # "MAPPING",
         \A k \in MapId, i \in ReduceId : mid[k][i].by # {} => mid'[k][i].by # {},
         \A k \in MapId : job[v] = <<"MAPPING", k>> /\ job[v] \notin shared' => mid'[k] = mid[k],
         \A i \in ReduceId : job[v] = <<"REDUCING", i>> /\ job[v] \notin shared' => out'[i] = out[i],
         task'[job[v]] = "DONE" /\ task[job[v]] # "DONE" =>
            job[v] \in shared' \/ (~mapsUnshared' /\ \E i \in ReduceId : job[v] = <<"REDUCING", i>>)
  PROVE  Fine(v)'
<1>1. ASSUME NEW m \in MapId, job'[v] = <<"MAPPING", m>>
      PROVE  MapBegun(v, m)'
  <2>1. MapBegun(v, m) BY Zenon, <1>1 DEF Fine
  <2>2. /\ pc'[v] \in {"MAPPING", "fill", "report", "checkMap", "checkReduce"}
        /\ pc'[v] = "checkReduce" => Stage' # "MAPPING"
    BY Zenon, <2>1 DEF MapBegun
  <2>3. pc'[v] \in {"MAPPING", "fill"} =>
          next'[v] \in ReduceId /\ \A r \in ReduceId : r < next'[v] => mid'[m][r].by # {}
    BY Zenon, <2>1 DEF MapBegun
  <2>4. pc'[v] = "fill" => mid'[m][next'[v]].by # {}
    BY Zenon, <2>1, <2>3 DEF MapBegun
  <2>5. pc'[v] \in {"report", "checkMap", "checkReduce"} => \A r \in ReduceId : mid'[m][r].by # {}
    BY Zenon, <2>1 DEF MapBegun
  <2> QED BY Zenon, <2>2, <2>3, <2>4, <2>5 DEF MapBegun
<1>2. ASSUME NEW m \in MapId, job'[v] = <<"MAPPING", m>>, <<"MAPPING", m>> \notin shared'
      PROVE  MapAlone(v, m)'
  <2>1. job[v] = <<"MAPPING", m>> /\ job[v] \notin shared' /\ <<"MAPPING", m>> \notin shared
    BY Zenon, <1>2
  <2>2. MapAlone(v, m) BY Zenon, <1>2, <2>1 DEF Fine
  <2>3. mid'[m] = mid[m] BY Zenon, <2>1
  <2>4. ~\E i \in ReduceId : job[v] = <<"REDUCING", i>>
    BY <2>1 DEF MapId, ReduceId
  <2>5. task'[<<"MAPPING", m>>] # "DONE"
    BY Zenon, <2>1, <2>2, <2>4 DEF MapAlone
  <2>6. pc'[v] \in {"MAPPING", "fill"} => \A r \in ReduceId : r < next'[v] => mid'[m][r].full
    BY Zenon, <2>2, <2>3 DEF MapAlone
  <2>7. pc'[v] = "fill" => mid'[m][next'[v]].by = {v}
    BY Zenon, <2>2, <2>3 DEF MapAlone
  <2>8. pc'[v] \in {"report", "checkMap", "checkReduce"} => \A r \in ReduceId : mid'[m][r].full
    BY Zenon, <2>2, <2>3 DEF MapAlone
  <2> QED BY Zenon, <2>5, <2>6, <2>7, <2>8 DEF MapAlone
<1>3. ASSUME NEW r \in ReduceId, job'[v] = <<"REDUCING", r>>
      PROVE  ReduceBegun(v)'
  <2>1. ReduceBegun(v) BY Zenon, <1>3 DEF Fine
  <2> QED BY Zenon, <2>1 DEF ReduceBegun
<1>4. ASSUME NEW r \in ReduceId, job'[v] = <<"REDUCING", r>>, mapsUnshared'
      PROVE  ReduceReads(v)'
  <2>1. ReduceReads(v) BY Zenon, <1>4, UnsharedBefore DEF Fine
  <2> QED BY Zenon, <2>1 DEF ReduceReads
<1>5. ASSUME NEW r \in ReduceId, job'[v] = <<"REDUCING", r>>, mapsUnshared', <<"REDUCING", r>> \notin shared'
      PROVE  ReduceAlone(v, r)'
  <2>1. job[v] = <<"REDUCING", r>> /\ job[v] \notin shared' /\ <<"REDUCING", r>> \notin shared
    BY Zenon, <1>5
  <2>2. ReduceAlone(v, r) BY Zenon, <1>5, <2>1, UnsharedBefore DEF Fine
  <2>3. out'[r] = out[r] BY Zenon, <2>1
  <2>4. task'[<<"REDUCING", r>>] # "DONE"
    BY Zenon, <1>5, <2>1, <2>2 DEF ReduceAlone
  <2> QED BY Zenon, <2>2, <2>3, <2>4 DEF ReduceAlone
<1> QED BY Zenon, <1>1, <1>2, <1>3, <1>4, <1>5 DEF Fine

\* A step that makes nobody active and gives nobody a task keeps Distinct.
LEMMA StillDistinct ==
  ASSUME Distinct, shared \subseteq shared',
         \A v \in Worker : active(v)' => active(v) /\ job'[v] = job[v]
  PROVE  Distinct'
<1> SUFFICES ASSUME NEW w \in Worker, NEW v \in Worker, active(w)', active(v)',
                    job'[w] = job'[v], job'[w] \notin shared'
             PROVE  w = v
  BY Zenon DEF Distinct
<1>1. active(w) /\ active(v) /\ job[w] = job[v] /\ job[w] \notin shared
  BY Zenon
<1> QED BY Zenon, <1>1 DEF Distinct

\* A step that changes no task, no file and no stage keeps the tables.
LEMMA StillTables ==
  ASSUME Tables, Stage' = Stage, task' = task, mid' = mid, out' = out, shared' = shared
  PROVE  Tables'
BY Zenon DEF Tables, DoneMeansOutput, NothingLost, mapsUnshared

\* A worker that Untouched speaks of, when the tables and the files are as they
\* were.
LEMMA Bystander ==
  ASSUME TypeOK, NEW v \in Worker, Fine(v),
         pc'[v] = pc[v], job'[v] = job[v], next'[v] = next[v], read'[v] = read[v],
         shared' = shared, Stage' = Stage, mid' = mid, out' = out, task' = task
  PROVE  Fine(v)'
<1>1. /\ shared \subseteq shared' /\ (Stage # "MAPPING" => Stage' # "MAPPING")
      /\ \A k \in MapId, i \in ReduceId : mid[k][i].by # {} => mid'[k][i].by # {}
      /\ \A k \in MapId : job[v] = <<"MAPPING", k>> /\ job[v] \notin shared' => mid'[k] = mid[k]
      /\ \A i \in ReduceId : job[v] = <<"REDUCING", i>> /\ job[v] \notin shared' => out'[i] = out[i]
  BY Zenon
<1>2. task'[job[v]] = "DONE" /\ task[job[v]] # "DONE" =>
        job[v] \in shared' \/ (~mapsUnshared' /\ \E i \in ReduceId : job[v] = <<"REDUCING", i>>)
  BY Zenon
<1> QED BY Zenon, <1>1, <1>2, Untouched
---------------------------------------------------------------------------
\* A worker that takes leave (it crashes, exits, or is started again) has no task
\* afterwards, and nobody else notices.
LEMMA LeaveStep ==
  ASSUME IInv, NEW w \in Worker, callFails(w) \/ Crash(w) \/ Respawn(w)
  PROVE  IInv'
<1>1. UNCHANGED <<Stage, task, late, coordinator, shared, mid, out>>
  BY Zenon DEF callFails, Crash, Respawn, coordVars, fileVars
<1>2. TypeOK'
  <2>1. <<"MAPPING", 0>> \in Task BY SizeAssumption, TaskFacts DEF MapId
  <2>2. forgetTask(w) => job' \in [Worker -> Task] /\ next' \in [Worker -> Nat] /\ read' \in [Worker -> SUBSET MapId]
    BY <2>1 DEF IInv, TypeOK, forgetTask
  <2>3. forgetTask(w) \/ UNCHANGED jobVars BY Zenon DEF callFails, Crash, Respawn
  <2>4. job' \in [Worker -> Task] /\ next' \in [Worker -> Nat] /\ read' \in [Worker -> SUBSET MapId]
    BY Zenon, <2>2, <2>3 DEF jobVars, IInv, TypeOK
  <2>5. pc' \in [Worker -> {"idle", "MAPPING", "fill", "REDUCING", "print", "report", "checkMap",
                            "checkReduce", "crashed", "exited"}]
    <3>1. \E s \in {"idle", "crashed", "exited"} : pc' = [pc EXCEPT ![w] = s]
      BY Zenon DEF callFails, Crash, Respawn
    <3> QED BY <3>1 DEF IInv, TypeOK
  <2> QED BY Zenon, <1>1, <2>4, <2>5 DEF IInv, TypeOK
<1>3. \A v \in Worker : v # w =>
        pc'[v] = pc[v] /\ job'[v] = job[v] /\ next'[v] = next[v] /\ read'[v] = read[v]
  BY DEF callFails, Crash, Respawn, forgetTask, jobVars, IInv, TypeOK
<1>4. pc'[w] \in {"exited", "crashed", "idle"} /\ (pc'[w] = "exited" => coordinator # "running")
  BY DEF callFails, Crash, Respawn, IInv, TypeOK
<1>5. \A v \in Worker : active(v)' => v # w /\ active(v) /\ job'[v] = job[v]
  BY Zenon, <1>3, <1>4 DEF active
<1>6. Workers'
  <2> SUFFICES ASSUME NEW v \in Worker, active(v)' PROVE Fine(v)'
    BY Zenon DEF Workers
  <2>1. Fine(v) BY Zenon, <1>5 DEF IInv, Workers
  <2> QED BY Zenon, <1>1, <1>3, <1>5, <2>1, Bystander DEF IInv
<1>7. Distinct' BY Zenon, <1>1, <1>5, StillDistinct DEF IInv
<1>8. Tables' BY Zenon, <1>1, StillTables DEF IInv
<1>9. Exits'
  <2>1. coordinator \in {"running", "exited", "panicked"} BY Zenon DEF IInv, TypeOK
  <2>2. ASSUME NEW v \in Worker, pc'[v] = "exited" PROVE Stage = "FINISHED" \/ coordinator = "panicked"
    <3>1. CASE v = w BY Zenon, <1>4, <2>1, <2>2, <3>1 DEF IInv, Exits
    <3>2. CASE v # w BY Zenon, <1>3, <2>2, <3>2 DEF IInv, Exits
    <3> QED BY Zenon, <3>1, <3>2
  <2> QED BY Zenon, <1>1, <2>2 DEF IInv, Exits
<1> QED BY Zenon, <1>2, <1>6, <1>7, <1>8, <1>9 DEF IInv

\* reportTask: a report changes nothing but where the worker is.
LEMMA ReportStep ==
  ASSUME IInv, NEW w \in Worker, reportTask(w)
  PROVE  IInv'
<1> USE DEF reportTask, coordVars, jobVars, fileVars
<1>1. TypeOK' BY DEF IInv, TypeOK
<1>2. \A v \in Worker : v # w => pc'[v] = pc[v]
  BY DEF IInv, TypeOK
<1>3. /\ pc[w] = "report" /\ pc'[w] \in {"checkMap", "checkReduce", "idle"}
      /\ pc'[w] = "checkMap" => Stage = "MAPPING"
      /\ pc'[w] = "checkReduce" => Stage = "REDUCING"
  BY DEF IInv, TypeOK
<1>4. \A v \in Worker : active(v)' => active(v)
  BY Zenon, <1>2, <1>3 DEF active
<1>5. Workers'
  <2> SUFFICES ASSUME NEW v \in Worker, active(v)' PROVE Fine(v)'
    BY Zenon DEF Workers
  <2>1. Fine(v) BY Zenon, <1>4 DEF IInv, Workers
  <2>2. CASE v # w
    BY Zenon, <1>2, <2>1, <2>2, Bystander DEF IInv
  <2>3. CASE v = w
    <3>1. pc'[w] \in {"checkMap", "checkReduce"} BY Zenon, <1>3, <2>3 DEF active
    <3>2. ASSUME NEW m \in MapId, job'[w] = <<"MAPPING", m>>
          PROVE  MapBegun(w, m)' /\ (<<"MAPPING", m>> \notin shared' => MapAlone(w, m)')
      <4>1. MapBegun(w, m) /\ (<<"MAPPING", m>> \notin shared => MapAlone(w, m))
        BY Zenon, <2>1, <2>3, <3>2 DEF Fine
      <4>2. MapBegun(w, m)'
        BY Zenon, <1>3, <3>1, <4>1 DEF MapBegun
      <4>3. <<"MAPPING", m>> \notin shared' => MapAlone(w, m)'
        BY Zenon, <1>3, <3>1, <4>1 DEF MapAlone
      <4> QED BY Zenon, <4>2, <4>3
    <3>3. ASSUME NEW r \in ReduceId, job'[w] = <<"REDUCING", r>>
          PROVE  /\ ReduceBegun(w)' /\ (mapsUnshared' => ReduceReads(w)')
                 /\ mapsUnshared' /\ <<"REDUCING", r>> \notin shared' => ReduceAlone(w, r)'
      <4>1. /\ ReduceBegun(w)
            /\ mapsUnshared /\ <<"REDUCING", r>> \notin shared => ReduceAlone(w, r)
        BY Zenon, <2>1, <2>3, <3>3 DEF Fine
      <4>2. mapsUnshared' = mapsUnshared BY Zenon DEF mapsUnshared
      <4>3. ReduceBegun(w)' BY Zenon, <1>3, <3>1, <4>1 DEF ReduceBegun
      <4>4. ReduceReads(w)' BY Zenon, <3>1 DEF ReduceReads
      <4>5. mapsUnshared' /\ <<"REDUCING", r>> \notin shared' => ReduceAlone(w, r)'
        BY Zenon, <1>3, <4>1, <4>2 DEF ReduceAlone
      <4> QED BY Zenon, <4>3, <4>4, <4>5
    <3> QED BY Zenon, <2>3, <3>2, <3>3 DEF Fine
  <2> QED BY Zenon, <2>2, <2>3
<1>6. Distinct' BY Zenon, <1>4, StillDistinct DEF IInv
<1>7. Tables' BY Zenon, StillTables DEF IInv
<1>8. Exits' BY Zenon, <1>2, <1>3 DEF IInv, Exits
<1> QED BY Zenon, <1>1, <1>5, <1>6, <1>7, <1>8 DEF IInv

\* TenSeconds changes nothing the invariant speaks of; Done and assignAllDone end
\* a process when the stage is FINISHED.
LEMMA EndStep ==
  ASSUME IInv, (\E t \in Task : TenSeconds(t)) \/ Done \/ UNCHANGED vars
               \/ \E w \in Worker : pc[w] = "idle" /\ assignAllDone(w) /\ UNCHANGED fileVars
  PROVE  IInv'
<1> USE DEF TenSeconds, Done, assignAllDone, vars, coordVars, jobVars, fileVars
<1>1. TypeOK' BY DEF IInv, TypeOK
<1>2. UNCHANGED <<Stage, task, shared, job, next, read, mid, out>>
  BY Zenon
<1>3. \A v \in Worker : pc'[v] = pc[v] \/ (pc[v] = "idle" /\ pc'[v] = "exited" /\ Stage = "FINISHED")
  BY DEF IInv, TypeOK
<1>4. \A v \in Worker : active(v)' => active(v) /\ pc'[v] = pc[v]
  BY Zenon, <1>3 DEF active
<1>5. Workers'
  <2> SUFFICES ASSUME NEW v \in Worker, active(v)' PROVE Fine(v)'
    BY Zenon DEF Workers
  <2>1. Fine(v) BY Zenon, <1>4 DEF IInv, Workers
  <2> QED BY Zenon, <1>2, <1>4, <2>1, Bystander DEF IInv
<1>6. Distinct' BY Zenon, <1>2, <1>4, StillDistinct DEF IInv
<1>7. Tables' BY Zenon, <1>2, StillTables DEF IInv
<1>8. coordinator' = coordinator \/ (coordinator = "running" /\ coordinator' = "exited" /\ Stage = "FINISHED")
  BY Zenon
<1>9. Exits' BY Zenon, <1>2, <1>3, <1>8 DEF IInv, Exits
<1> QED BY Zenon, <1>1, <1>5, <1>6, <1>7, <1>9 DEF IInv
---------------------------------------------------------------------------
\* assignTask: a worker that has a task already makes it a shared one.
LEMMA AssignStep ==
  ASSUME IInv, NEW w \in Worker, pc[w] = "idle", NEW t \in Task, assignTask(w, t), UNCHANGED fileVars
  PROVE  IInv'
<1>1. TypeOK'
  <2>1. task' \in [Task -> {"IDLE", "WORKING", "DONE"}]
    BY DEF IInv, TypeOK, assignTask, markWorking
  <2>2. pc' = [pc EXCEPT ![w] = t[1]] /\ t[1] \in {"MAPPING", "REDUCING"}
    BY DEF assignTask, Task
  <2>3. shared' \subseteq Task BY DEF IInv, TypeOK, assignTask
  <2>4. pc' \in [Worker -> {"idle", "MAPPING", "fill", "REDUCING", "print", "report", "checkMap",
                            "checkReduce", "crashed", "exited"}]
    BY <2>2 DEF IInv, TypeOK
  <2>5. job' \in [Worker -> Task] /\ next' \in [Worker -> Nat] /\ read' \in [Worker -> SUBSET MapId]
    BY DEF IInv, TypeOK, assignTask
  <2>6. late' \subseteq Task BY DEF IInv, TypeOK, assignTask
  <2> QED BY Zenon, <2>1, <2>3, <2>4, <2>5, <2>6 DEF IInv, TypeOK, assignTask, fileVars
<1>2. UNCHANGED <<Stage, coordinator, mid, out>>
  BY Zenon DEF assignTask, fileVars
<1>3. \A v \in Worker : v # w =>
        pc'[v] = pc[v] /\ job'[v] = job[v] /\ next'[v] = next[v] /\ read'[v] = read[v]
  BY DEF IInv, TypeOK, assignTask
<1>4. job'[w] = t /\ pc'[w] = Stage /\ t[1] = Stage /\ next'[w] = 0 /\ read'[w] = {}
  BY DEF IInv, TypeOK, assignTask, findIdleTask
<1>5. shared \subseteq shared' /\ (holders(t) # {} => t \in shared')
  BY Zenon DEF assignTask
<1>6. task'[t] = "WORKING" /\ \A u \in Task : task'[u] = "DONE" <=> u # t /\ task[u] = "DONE"
  <2>1. task'[t] = "WORKING" /\ \A u \in Task : task'[u] = "DONE" => u # t /\ task[u] = "DONE"
    BY DEF IInv, TypeOK, assignTask, markWorking
  <2>2. \A u \in Task : u # t /\ task[u] = "DONE" => task'[u] = "DONE"
    BY DEF IInv, TypeOK, assignTask, markWorking, timeOutTask
  <2> QED BY Zenon, <2>1, <2>2
<1>7. task[t] # "DONE"
  BY DEF assignTask, findIdleTask, Idle, timeOutTask
<1>8. Workers'
  <2> SUFFICES ASSUME NEW v \in Worker, active(v)' PROVE Fine(v)'
    BY Zenon DEF Workers
  <2>1. CASE v # w
    <3>1. active(v) /\ Fine(v) /\ job[v] \in Task
      BY Zenon, <1>3, <2>1 DEF IInv, TypeOK, Workers, active
    <3>2. ~(task'[job[v]] = "DONE" /\ task[job[v]] # "DONE")
      BY Zenon, <1>6, <3>1
    <3>3. pc'[v] = pc[v] /\ job'[v] = job[v] /\ next'[v] = next[v] /\ read'[v] = read[v]
      BY Zenon, <1>3, <2>1
    <3> QED BY Zenon, <1>2, <1>5, <3>1, <3>2, <3>3, Untouched DEF IInv
  <2>2. CASE v = w
    <3>1. ASSUME NEW m \in MapId, t = <<"MAPPING", m>>
          PROVE  MapBegun(w, m)' /\ MapAlone(w, m)'
      <4>1. pc'[w] = "MAPPING" /\ next'[w] = 0 /\ task'[<<"MAPPING", m>>] = "WORKING"
        BY <1>4, <1>6, <3>1
      <4>2. 0 \in ReduceId /\ \A r \in ReduceId : ~(r < 0)
        BY SizeAssumption DEF ReduceId
      <4> QED BY <4>1, <4>2 DEF MapBegun, MapAlone
    <3>2. ASSUME NEW r \in ReduceId, t = <<"REDUCING", r>>
          PROVE  ReduceBegun(w)' /\ ReduceReads(w)' /\ ReduceAlone(w, r)'
      <4>1. /\ pc'[w] = "REDUCING" /\ next'[w] = 0 /\ read'[w] = {} /\ Stage' # "MAPPING"
            /\ task'[<<"REDUCING", r>>] = "WORKING"
        BY <1>2, <1>4, <1>6, <3>2
      <4>2. 0 \in 0..nMap /\ {m \in MapId : m < 0} = {}
        BY SizeAssumption DEF MapId
      <4> QED BY <4>1, <4>2 DEF ReduceBegun, ReduceReads, ReduceAlone
    <3> QED BY Zenon, <1>4, <2>2, <3>1, <3>2 DEF Fine
  <2> QED BY Zenon, <2>1, <2>2
<1>9. Distinct'
  <2> SUFFICES ASSUME NEW u \in Worker, NEW v \in Worker, active(u)', active(v)',
                      job'[u] = job'[v], job'[u] \notin shared', u # v
               PROVE  FALSE
    BY Zenon DEF Distinct
  <2>1. \A x \in Worker : x # w /\ active(x)' => active(x) /\ job'[x] = job[x]
    BY Zenon, <1>3 DEF active
  <2>2. \A x \in Worker : x # w /\ active(x)' /\ job'[x] = t => t \in shared'
    BY Zenon, <1>5, <2>1 DEF holders
  <2>3. u # w /\ v # w BY Zenon, <1>4, <2>2
  <2> QED BY Zenon, <1>5, <2>1, <2>3 DEF IInv, Distinct
<1>10. Tables'
  <2>1. \A m \in MapId : task'[<<"MAPPING", m>>] = "DONE" => task[<<"MAPPING", m>>] = "DONE"
    BY Zenon, <1>6, TaskFacts
  <2>2. \A r \in ReduceId : task'[<<"REDUCING", r>>] = "DONE" => task[<<"REDUCING", r>>] = "DONE"
    BY Zenon, <1>6, TaskFacts
  <2>3. Stage # "FINISHED" BY Zenon DEF assignTask
  <2>4. Stage' # "MAPPING" => \A m \in MapId : task'[<<"MAPPING", m>>] = "DONE"
    <3> SUFFICES ASSUME Stage # "MAPPING", NEW m \in MapId PROVE task'[<<"MAPPING", m>>] = "DONE"
      BY Zenon, <1>2
    <3>1. task[<<"MAPPING", m>>] = "DONE" BY Zenon DEF IInv, Tables, DoneMeansOutput
    <3> QED BY Zenon, <1>6, <1>7, <3>1, TaskFacts
  <2>5. mapsUnshared' => mapsUnshared BY Zenon, <1>5, UnsharedBefore
  <2>6. DoneMeansOutput'
    BY Zenon, <1>2, <1>5, <2>1, <2>2, <2>4, <2>5 DEF IInv, Tables, DoneMeansOutput
  <2> QED BY Zenon, <1>2, <2>1, <2>3, <2>5, <2>6 DEF IInv, Tables, NothingLost
<1>11. Exits'
  <2>1. \A v \in Worker : pc'[v] = "exited" => pc[v] = "exited"
    <3>1. pc'[w] # "exited" BY Zenon, <1>4 DEF IInv, TypeOK
    <3> QED BY Zenon, <1>3, <3>1
  <2> QED BY Zenon, <1>2, <1>5, <2>1 DEF IInv, Exits
<1> QED BY Zenon, <1>1, <1>8, <1>9, <1>10, <1>11 DEF IInv

\* assignNothing: the stage ends when every task of it is DONE, whoever is still
\* at work.
LEMMA StageStep ==
  ASSUME IInv, NEW w \in Worker, assignNothing(w), UNCHANGED fileVars
  PROVE  IInv'
<1>1. UNCHANGED <<task, late, coordinator, shared, pc, job, next, read, mid, out>>
  BY Zenon DEF assignNothing, jobVars, fileVars
<1>2. /\ Stage' = Stage \/ (finduncompletedTask /\ Stage' = nextStage)
      /\ Stage # "FINISHED" /\ Stage \in {"MAPPING", "REDUCING", "FINISHED"}
  BY Zenon DEF assignNothing, IInv, TypeOK
<1>3. /\ Stage' \in {"MAPPING", "REDUCING", "FINISHED"}
      /\ Stage # "MAPPING" => Stage' # "MAPPING"
      /\ Stage = "MAPPING" /\ Stage' # "MAPPING" => finduncompletedTask
      /\ Stage' = "FINISHED" => Stage = "REDUCING" /\ finduncompletedTask
  BY Zenon, <1>2 DEF nextStage
<1>4. TypeOK' BY Zenon, <1>1, <1>3 DEF IInv, TypeOK
<1>5. \A v \in Worker : active(v)' = active(v) BY Zenon, <1>1 DEF active
<1>6. Workers'
  <2> SUFFICES ASSUME NEW v \in Worker, active(v)' PROVE Fine(v)'
    BY Zenon DEF Workers
  <2>1. Fine(v) BY Zenon, <1>5 DEF IInv, Workers
  <2>2. /\ shared \subseteq shared' /\ ~(task'[job[v]] = "DONE" /\ task[job[v]] # "DONE")
        /\ pc'[v] = pc[v] /\ job'[v] = job[v] /\ next'[v] = next[v] /\ read'[v] = read[v]
        /\ \A k \in MapId, i \in ReduceId : mid[k][i].by # {} => mid'[k][i].by # {}
    BY Zenon, <1>1
  <2> QED BY Zenon, <1>1, <1>3, <2>1, <2>2, Untouched DEF IInv
<1>7. Distinct' BY Zenon, <1>1, <1>5, StillDistinct DEF IInv
<1>8. Tables'
  <2>1. Stage' # "MAPPING" => \A m \in MapId : task'[<<"MAPPING", m>>] = "DONE"
    <3> SUFFICES ASSUME Stage' # "MAPPING", NEW m \in MapId PROVE task[<<"MAPPING", m>>] = "DONE"
      BY Zenon, <1>1
    <3>1. CASE Stage = "MAPPING"
      BY <1>3, <3>1, TaskFacts DEF finduncompletedTask
    <3>2. CASE Stage # "MAPPING"
      BY Zenon, <3>2 DEF IInv, Tables, DoneMeansOutput
    <3> QED BY Zenon, <3>1, <3>2
  <2>2. Stage' = "FINISHED" => \A r \in ReduceId : task'[<<"REDUCING", r>>] = "DONE"
    <3> SUFFICES ASSUME Stage' = "FINISHED", NEW r \in ReduceId PROVE task[<<"REDUCING", r>>] = "DONE"
      BY Zenon, <1>1
    <3> QED BY <1>3, TaskFacts DEF finduncompletedTask
  <2>3. mapsUnshared' = mapsUnshared BY Zenon, <1>1 DEF mapsUnshared
  <2>4. DoneMeansOutput' BY Zenon, <1>1, <2>1, <2>3 DEF IInv, Tables, DoneMeansOutput
  <2> QED BY Zenon, <1>1, <2>2, <2>3, <2>4 DEF IInv, Tables, NothingLost
<1>9. Exits'
  <2>1. Stage # "FINISHED" BY Zenon, <1>2
  <2> QED BY Zenon, <1>1, <2>1 DEF IInv, Exits
<1> QED BY Zenon, <1>4, <1>6, <1>7, <1>8, <1>9 DEF IInv
---------------------------------------------------------------------------
\* What checkTask marks as done is the task the worker had; but for a map worker
\* whose report came in the reduce stage, which had company.
LEMMA Reported ==
  ASSUME IInv, NEW w \in Worker, pc[w] \in {"checkMap", "checkReduce"}
  PROVE  \/ reported(w) = job[w]
         \/ \E m \in MapId : /\ job[w] = <<"MAPPING", m>> /\ job[w] \in shared
                             /\ reported(w) = <<"REDUCING", m>>
<1>1. active(w) /\ Fine(w) /\ job[w] \in Task
  BY Zenon DEF IInv, TypeOK, Workers, active
<1>2. ASSUME NEW m \in MapId, job[w] = <<"MAPPING", m>>, pc[w] = "checkReduce"
      PROVE  job[w] \in shared /\ reported(w) = <<"REDUCING", m>>
  <2>1. MapBegun(w, m) /\ (<<"MAPPING", m>> \notin shared => MapAlone(w, m))
    BY Zenon, <1>1, <1>2 DEF Fine
  <2>2. task[<<"MAPPING", m>>] = "DONE"
    BY Zenon, <1>2, <2>1 DEF MapBegun, IInv, Tables, DoneMeansOutput
  <2>3. job[w] \in shared BY Zenon, <1>2, <2>1, <2>2 DEF MapAlone
  <2>4. reported(w) = <<"REDUCING", m>> BY <1>2 DEF reported
  <2> QED BY Zenon, <2>3, <2>4
<1>3. ASSUME NEW m \in MapId, job[w] = <<"MAPPING", m>>, pc[w] = "checkMap"
      PROVE  reported(w) = job[w]
  BY <1>3 DEF reported
<1>4. ASSUME NEW r \in ReduceId, job[w] = <<"REDUCING", r>>
      PROVE  reported(w) = job[w]
  <2>1. pc[w] = "checkReduce" BY Zenon, <1>1, <1>4 DEF Fine, ReduceBegun
  <2> QED BY <1>4, <2>1 DEF reported
<1> QED BY Zenon, <1>1, <1>2, <1>3, <1>4, TaskFacts

\* checkTask: the task of the report is DONE, and its output is there.
LEMMA CheckStep ==
  ASSUME IInv, NEW w \in Worker, checkTask(w)
  PROVE  IInv'
<1> DEFINE t == reported(w)
<1>1. UNCHANGED <<Stage, late, shared, mid, out>> /\ pc[w] \in {"checkMap", "checkReduce"}
  BY Zenon DEF checkTask, fileVars
<1>2. active(w) /\ Fine(w) /\ job[w] \in Task
  BY Zenon, <1>1 DEF IInv, TypeOK, Workers, active
<1>3. /\ pc' = [pc EXCEPT ![w] = "idle"]
      /\ job' = [job EXCEPT ![w] = <<"MAPPING", 0>>]
      /\ next' = [next EXCEPT ![w] = 0] /\ read' = [read EXCEPT ![w] = {}]
  BY Zenon DEF checkTask, forgetTask
<1>4. /\ task' \in [Task -> {"IDLE", "WORKING", "DONE"}]
      /\ \A u \in Task : task[u] = "DONE" => task'[u] = "DONE"
      /\ \A u \in Task : task'[u] = "DONE" => task[u] = "DONE" \/ u = t
  <2>1. CASE t \in Task
    <3>1. task' = [u \in Task |-> IF u = t /\ task[u] = "WORKING" THEN "DONE" ELSE task[u]]
      BY Zenon, <2>1 DEF checkTask
    <3> HIDE DEF t
    <3> QED BY <3>1 DEF IInv, TypeOK
  <2>2. CASE t \notin Task
    BY Zenon, <2>2 DEF checkTask, IInv, TypeOK
  <2> QED BY Zenon, <2>1, <2>2
<1>5. coordinator' = coordinator \/ (coordinator' = "panicked" /\ t \notin Task)
  BY Zenon DEF checkTask
<1> HIDE DEF t
<1>6. \/ t = job[w]
      \/ \E m \in MapId : job[w] = <<"MAPPING", m>> /\ job[w] \in shared /\ t = <<"REDUCING", m>>
  BY Zenon, <1>1, Reported DEF t
<1>7. \A v \in Worker : v # w =>
        pc'[v] = pc[v] /\ job'[v] = job[v] /\ next'[v] = next[v] /\ read'[v] = read[v]
  BY <1>3 DEF IInv, TypeOK
<1>8. pc'[w] = "idle" BY <1>3 DEF IInv, TypeOK
<1>9. \A v \in Worker : active(v)' => v # w /\ active(v) /\ job'[v] = job[v]
  BY Zenon, <1>7, <1>8 DEF active
<1>10. TypeOK'
  <2>1. <<"MAPPING", 0>> \in Task BY SizeAssumption, TaskFacts DEF MapId
  <2>2. job' \in [Worker -> Task] /\ next' \in [Worker -> Nat] /\ read' \in [Worker -> SUBSET MapId]
    BY <1>3, <2>1 DEF IInv, TypeOK
  <2>3. pc' \in [Worker -> {"idle", "MAPPING", "fill", "REDUCING", "print", "report", "checkMap",
                            "checkReduce", "crashed", "exited"}]
    BY <1>3 DEF IInv, TypeOK
  <2> QED BY Zenon, <1>1, <1>4, <1>5, <2>2, <2>3 DEF IInv, TypeOK
<1>11. mapsUnshared' = mapsUnshared BY Zenon, <1>1 DEF mapsUnshared
<1>12. Workers'
  <2> SUFFICES ASSUME NEW v \in Worker, active(v)' PROVE Fine(v)'
    BY Zenon DEF Workers
  <2>1. /\ active(v) /\ Fine(v) /\ job[v] \in Task /\ v # w
        /\ pc'[v] = pc[v] /\ job'[v] = job[v] /\ next'[v] = next[v] /\ read'[v] = read[v]
    BY Zenon, <1>7, <1>9 DEF IInv, TypeOK, Workers
  <2>2. ASSUME task'[job[v]] = "DONE", task[job[v]] # "DONE"
        PROVE  job[v] \in shared' \/ (~mapsUnshared' /\ \E i \in ReduceId : job[v] = <<"REDUCING", i>>)
    <3>1. job[v] = t BY Zenon, <1>4, <2>1, <2>2
    <3>2. CASE t = job[w]
      BY Zenon, <1>1, <1>2, <2>1, <3>1, <3>2 DEF IInv, Distinct
    <3>3. ASSUME NEW m \in MapId, job[w] = <<"MAPPING", m>>, job[w] \in shared, t = <<"REDUCING", m>>
          PROVE  ~mapsUnshared' /\ \E i \in ReduceId : job[v] = <<"REDUCING", i>>
      <4>1. ~mapsUnshared' BY Zenon, <1>11, <3>3 DEF mapsUnshared
      <4>2. m \in Nat /\ \A k \in MapId : k \in Nat BY DEF MapId
      <4>3. \E i \in ReduceId : job[v] = <<"REDUCING", i>>
        BY Zenon, <2>1, <3>1, <3>3, <4>2, TaskFacts
      <4> QED BY Zenon, <4>1, <4>3
    <3> QED BY Zenon, <1>6, <3>2, <3>3
  <2>3. /\ shared \subseteq shared'
        /\ \A k \in MapId, i \in ReduceId : mid[k][i].by # {} => mid'[k][i].by # {}
    BY Zenon, <1>1
  <2> QED BY Zenon, <1>1, <2>1, <2>2, <2>3, Untouched DEF IInv
<1>13. Distinct' BY Zenon, <1>1, <1>9, StillDistinct DEF IInv
<1>14. Tables'
  <2>1. ASSUME NEW m \in MapId, task'[<<"MAPPING", m>>] = "DONE", task[<<"MAPPING", m>>] # "DONE"
        PROVE  job[w] = <<"MAPPING", m>>
    <3>1. t = <<"MAPPING", m>> BY Zenon, <1>4, <2>1, TaskFacts
    <3>2. \A k \in MapId : k \in Nat BY DEF MapId
    <3> QED BY Zenon, <1>6, <3>1, <3>2, TaskFacts
  <2>2. \A m \in MapId : job[w] = <<"MAPPING", m>> =>
          /\ \A r \in ReduceId : mid[m][r].by # {}
          /\ <<"MAPPING", m>> \notin shared => \A r \in ReduceId : mid[m][r].full
    BY Zenon, <1>1, <1>2 DEF Fine, MapBegun, MapAlone
  <2>3. ASSUME NEW r \in ReduceId, task'[<<"REDUCING", r>>] = "DONE", mapsUnshared', <<"REDUCING", r>> \notin shared'
        PROVE  out'[r] = {MapId}
    <3>1. CASE task[<<"REDUCING", r>>] = "DONE"
      BY Zenon, <1>1, <1>11, <2>3, <3>1 DEF IInv, Tables, DoneMeansOutput
    <3>2. CASE task[<<"REDUCING", r>>] # "DONE"
      <4>1. t = <<"REDUCING", r>> BY Zenon, <1>4, <2>3, <3>2, TaskFacts
      <4>2. job[w] = <<"REDUCING", r>> BY Zenon, <1>6, <1>11, <2>3, <4>1 DEF mapsUnshared
      <4>3. ReduceBegun(w) /\ ReduceAlone(w, r) BY Zenon, <1>1, <1>2, <1>11, <2>3, <4>2 DEF Fine
      <4> QED BY Zenon, <1>1, <4>3 DEF ReduceBegun, ReduceAlone
    <3> QED BY Zenon, <3>1, <3>2
  <2>4. Stage' # "MAPPING" => \A m \in MapId : task'[<<"MAPPING", m>>] = "DONE"
    BY Zenon, <1>1, <1>4, TaskFacts DEF IInv, Tables, DoneMeansOutput
  <2>5. \A m \in MapId : task'[<<"MAPPING", m>>] = "DONE" /\ <<"MAPPING", m>> \notin shared' =>
          \A r \in ReduceId : mid'[m][r].full
    BY Zenon, <1>1, <2>1, <2>2 DEF IInv, Tables, DoneMeansOutput
  <2>6. DoneMeansOutput' BY Zenon, <2>3, <2>4, <2>5 DEF DoneMeansOutput
  <2>7. \A m \in MapId : task'[<<"MAPPING", m>>] = "DONE" => \A r \in ReduceId : mid'[m][r].by # {}
    BY Zenon, <1>1, <2>1, <2>2 DEF IInv, Tables
  <2>8. Stage' = "FINISHED" => \A r \in ReduceId : task'[<<"REDUCING", r>>] = "DONE"
    BY Zenon, <1>1, <1>4, TaskFacts DEF IInv, Tables
  <2> QED BY Zenon, <1>1, <1>11, <2>6, <2>7, <2>8 DEF IInv, Tables, NothingLost
<1>15. Exits'
  <2>1. t \notin Task => \E m \in MapId \ ReduceId : <<"MAPPING", m>> \in shared
    BY Zenon, <1>2, <1>6, TaskFacts
  <2>2. \A v \in Worker : pc'[v] = "exited" => pc[v] = "exited" BY Zenon, <1>7, <1>8
  <2> QED BY Zenon, <1>1, <1>5, <2>1, <2>2 DEF IInv, Exits
<1> QED BY Zenon, <1>10, <1>12, <1>13, <1>14, <1>15 DEF IInv
---------------------------------------------------------------------------
\* A worker at MAPPING or fill has a map task, one at REDUCING or print a reduce
\* task.
LEMMA HasTask ==
  ASSUME IInv, NEW w \in Worker
  PROVE  /\ pc[w] \in {"MAPPING", "fill"} =>
            \E m \in MapId : /\ job[w] = <<"MAPPING", m>> /\ job[w][2] = m /\ MapBegun(w, m)
                             /\ <<"MAPPING", m>> \notin shared => MapAlone(w, m)
         /\ pc[w] \in {"REDUCING", "print"} =>
            \E r \in ReduceId : /\ job[w] = <<"REDUCING", r>> /\ job[w][2] = r /\ ReduceBegun(w)
                                /\ mapsUnshared => ReduceReads(w)
                                /\ mapsUnshared /\ <<"REDUCING", r>> \notin shared => ReduceAlone(w, r)
<1>1. job[w] \in Task BY DEF IInv, TypeOK
<1>2. \A k : /\ job[w] = <<"MAPPING", k>> => job[w][2] = k
             /\ job[w] = <<"REDUCING", k>> => job[w][2] = k
  OBVIOUS
<1>3. active(w) /\ pc[w] \in {"MAPPING", "fill"} => ~\E r \in ReduceId : job[w] = <<"REDUCING", r>>
  BY Zenon DEF IInv, Workers, Fine, ReduceBegun
<1>4. active(w) /\ pc[w] \in {"REDUCING", "print"} => ~\E m \in MapId : job[w] = <<"MAPPING", m>>
  BY Zenon DEF IInv, Workers, Fine, MapBegun
<1>5. pc[w] \in {"MAPPING", "fill", "REDUCING", "print"} => active(w) /\ Fine(w)
  BY Zenon DEF IInv, Workers, active
<1> QED BY Zenon, <1>1, <1>2, <1>3, <1>4, <1>5, TaskFacts DEF Fine

\* What a step that writes a file of the map task m has to keep: files keep their
\* names, and only files of m change.
LEMMA MapFileStep ==
  ASSUME IInv, TypeOK', NEW w \in Worker, NEW m \in MapId, job[w] = <<"MAPPING", m>>, active(w),
         <<"MAPPING", m>> \notin shared => MapAlone(w, m), Fine(w)', pc'[w] # "exited",
         UNCHANGED <<Stage, task, late, coordinator, shared, job, read, out>>,
         \A v \in Worker : v # w => pc'[v] = pc[v] /\ next'[v] = next[v],
         \A k \in MapId, i \in ReduceId : mid[k][i].by # {} => mid'[k][i].by # {},
         \A k \in MapId : k # m => mid'[k] = mid[k]
  PROVE  IInv'
<1>1. \A v \in Worker : active(v)' => active(v)
  BY Zenon DEF active
<1>2. mapsUnshared' = mapsUnshared BY Zenon DEF mapsUnshared
<1>3. Workers'
  <2> SUFFICES ASSUME NEW v \in Worker, active(v)', v # w PROVE Fine(v)'
    BY Zenon DEF Workers
  <2>1. active(v) /\ Fine(v) BY Zenon, <1>1 DEF IInv, Workers
  <2>2. ASSUME NEW k \in MapId, job[v] = <<"MAPPING", k>>, job[v] \notin shared' PROVE mid'[k] = mid[k]
    <3>1. k # m BY Zenon, <2>1, <2>2 DEF IInv, Distinct
    <3> QED BY Zenon, <3>1
  <2>3. /\ shared \subseteq shared' /\ ~(task'[job[v]] = "DONE" /\ task[job[v]] # "DONE")
        /\ pc'[v] = pc[v] /\ job'[v] = job[v] /\ next'[v] = next[v] /\ read'[v] = read[v]
        /\ \A i \in ReduceId : out'[i] = out[i]
    BY Zenon
  <2> QED BY Zenon, <2>1, <2>2, <2>3, Untouched DEF IInv
<1>4. Distinct' BY Zenon, <1>1, StillDistinct DEF IInv
<1>5. Tables'
  <2>1. \A k \in MapId : task'[<<"MAPPING", k>>] = "DONE" /\ <<"MAPPING", k>> \notin shared' => mid'[k] = mid[k]
    BY Zenon DEF MapAlone
  <2>2. \A k \in MapId : task'[<<"MAPPING", k>>] = "DONE" /\ <<"MAPPING", k>> \notin shared' =>
          \A i \in ReduceId : mid'[k][i].full
    BY Zenon, <2>1 DEF IInv, Tables, DoneMeansOutput
  <2>3. DoneMeansOutput' BY Zenon, <1>2, <2>2 DEF IInv, Tables, DoneMeansOutput
  <2>4. NothingLost' BY Zenon, <1>2 DEF IInv, Tables, NothingLost
  <2>5. \A k \in MapId : task'[<<"MAPPING", k>>] = "DONE" => \A i \in ReduceId : mid'[k][i].by # {}
    BY Zenon DEF IInv, Tables
  <2> QED BY Zenon, <2>3, <2>4, <2>5 DEF IInv, Tables
<1>6. Exits' BY Zenon DEF IInv, Exits
<1> QED BY Zenon, <1>3, <1>4, <1>5, <1>6 DEF IInv

\* execMap: TempFile and Rename.
LEMMA RenameStep ==
  ASSUME IInv, NEW w \in Worker, execMapRename(w)
  PROVE  IInv'
<1>1. /\ pc[w] = "MAPPING" /\ pc' = [pc EXCEPT ![w] = "fill"]
      /\ UNCHANGED <<Stage, task, late, coordinator, shared, job, next, read, out>>
  BY Zenon DEF execMapRename, coordVars, jobVars
<1>2. PICK m \in MapId : /\ job[w] = <<"MAPPING", m>> /\ job[w][2] = m /\ MapBegun(w, m)
                         /\ <<"MAPPING", m>> \notin shared => MapAlone(w, m)
  BY Zenon, <1>1, HasTask
<1> DEFINE n == next[w]
<1>3. n \in ReduceId BY Zenon, <1>1, <1>2 DEF MapBegun
<1>4. mid' = [mid EXCEPT ![m][n] = [by |-> {w}, full |-> FALSE]]
  BY Zenon, <1>2 DEF execMapRename
<1> HIDE DEF n
<1>5. TypeOK'
  <2>1. mid' \in [MapId -> [ReduceId -> [by : SUBSET Worker, full : BOOLEAN]]]
    BY <1>3, <1>4 DEF IInv, TypeOK
  <2>2. pc' \in [Worker -> {"idle", "MAPPING", "fill", "REDUCING", "print", "report", "checkMap",
                            "checkReduce", "crashed", "exited"}]
    BY <1>1 DEF IInv, TypeOK
  <2> QED BY Zenon, <1>1, <2>1, <2>2 DEF IInv, TypeOK
<1>6. /\ \A k \in MapId : k # m => mid'[k] = mid[k]
      /\ \A i \in ReduceId : i # n => mid'[m][i] = mid[m][i]
      /\ mid'[m][n].by = {w}
  BY <1>3, <1>4 DEF IInv, TypeOK
<1>7. \A k \in MapId, i \in ReduceId : mid[k][i].by # {} => mid'[k][i].by # {}
  BY Zenon, <1>6
<1>8. pc'[w] = "fill" /\ \A v \in Worker : v # w => pc'[v] = pc[v] /\ next'[v] = next[v]
  BY <1>1 DEF IInv, TypeOK
<1>9. Fine(w)'
  <2>1. \A i \in ReduceId : i < n => i # n BY <1>3 DEF ReduceId
  <2>2. MapBegun(w, m)'
    <3>1. \A i \in ReduceId : i < n => mid'[m][i].by # {}
      BY Zenon, <1>1, <1>2, <1>7 DEF MapBegun, n
    <3>2. mid'[m][n].by # {} BY <1>6
    <3> QED BY Zenon, <1>1, <1>3, <1>8, <3>1, <3>2 DEF MapBegun, n
  <2>3. <<"MAPPING", m>> \notin shared => MapAlone(w, m)'
    <3> SUFFICES ASSUME <<"MAPPING", m>> \notin shared PROVE MapAlone(w, m)'
      OBVIOUS
    <3>1. \A i \in ReduceId : i < n => mid'[m][i].full
      BY Zenon, <1>1, <1>2, <1>6, <2>1 DEF MapAlone, n
    <3>2. task'[<<"MAPPING", m>>] # "DONE" BY Zenon, <1>1, <1>2 DEF MapAlone
    <3> QED BY Zenon, <1>1, <1>6, <1>8, <3>1, <3>2 DEF MapAlone, n
  <2>4. ~\E r \in ReduceId : job'[w] = <<"REDUCING", r>> BY <1>1, <1>2
  <2>5. \A k \in MapId : job'[w] = <<"MAPPING", k>> => k = m BY <1>1, <1>2
  <2> QED BY Zenon, <1>1, <2>2, <2>3, <2>4, <2>5 DEF Fine
<1>10. active(w) /\ pc'[w] # "exited" BY Zenon, <1>1, <1>8 DEF active
<1> QED BY Zenon, <1>1, <1>2, <1>5, <1>6, <1>7, <1>8, <1>9, <1>10, MapFileStep

\* execMap: the records.
LEMMA FillStep ==
  ASSUME IInv, NEW w \in Worker, execMapFill(w)
  PROVE  IInv'
<1> DEFINE n == next[w]
<1>1. /\ pc[w] = "fill" /\ pc' = [pc EXCEPT ![w] = IF lastFile(n) THEN "report" ELSE "MAPPING"]
      /\ next' = [next EXCEPT ![w] = n + 1]
      /\ UNCHANGED <<Stage, task, late, coordinator, shared, job, read, out>>
  BY Zenon DEF execMapFill, coordVars
<1>2. PICK m \in MapId : /\ job[w] = <<"MAPPING", m>> /\ job[w][2] = m /\ MapBegun(w, m)
                         /\ <<"MAPPING", m>> \notin shared => MapAlone(w, m)
  BY Zenon, <1>1, HasTask
<1>3. n \in ReduceId /\ mid[m][n].by # {} BY Zenon, <1>1, <1>2 DEF MapBegun
<1>4. mid' = IF mid[m][n].by = {w} THEN [mid EXCEPT ![m][n] = [by |-> {w}, full |-> TRUE]] ELSE mid
  BY Zenon, <1>2 DEF execMapFill
<1>5. <<"MAPPING", m>> \notin shared => mid[m][n].by = {w}
  BY Zenon, <1>1, <1>2 DEF MapAlone
<1> HIDE DEF n
<1>6. TypeOK'
  <2>1. mid' \in [MapId -> [ReduceId -> [by : SUBSET Worker, full : BOOLEAN]]]
    BY <1>3, <1>4 DEF IInv, TypeOK
  <2>2. pc' \in [Worker -> {"idle", "MAPPING", "fill", "REDUCING", "print", "report", "checkMap",
                            "checkReduce", "crashed", "exited"}]
    BY <1>1 DEF IInv, TypeOK
  <2>3. next' \in [Worker -> Nat] BY <1>1, <1>3 DEF IInv, TypeOK, ReduceId
  <2> QED BY Zenon, <1>1, <2>1, <2>2, <2>3 DEF IInv, TypeOK
<1>7. /\ \A k \in MapId : k # m => mid'[k] = mid[k]
      /\ \A i \in ReduceId : i # n => mid'[m][i] = mid[m][i]
      /\ mid'[m][n].by # {}
      /\ mid[m][n].by = {w} => mid'[m][n].full
  BY <1>3, <1>4 DEF IInv, TypeOK
<1>8. \A k \in MapId, i \in ReduceId : mid[k][i].by # {} => mid'[k][i].by # {}
  BY Zenon, <1>7
<1>9. /\ pc'[w] \in {"report", "MAPPING"} /\ next'[w] = n + 1
      /\ pc'[w] = "report" <=> n + 1 = nReduce
      /\ \A v \in Worker : v # w => pc'[v] = pc[v] /\ next'[v] = next[v]
  BY <1>1 DEF IInv, TypeOK, lastFile
<1>10. Fine(w)'
  <2>1. /\ \A i \in ReduceId : i < n + 1 => i < n \/ i = n
        /\ n + 1 # nReduce => n + 1 \in ReduceId
        /\ n + 1 = nReduce => \A i \in ReduceId : i < n + 1
    BY <1>3, SizeAssumption DEF ReduceId
  <2>2. \A i \in ReduceId : i < n => i # n BY <1>3 DEF ReduceId
  <2>3. \A i \in ReduceId : i < n + 1 => mid'[m][i].by # {}
    <3>1. \A i \in ReduceId : i < n => mid[m][i].by # {} BY Zenon, <1>1, <1>2 DEF MapBegun, n
    <3> QED BY Zenon, <1>7, <1>8, <2>1, <3>1
  <2>4. MapBegun(w, m)' BY Zenon, <1>9, <2>1, <2>3 DEF MapBegun
  <2>5. <<"MAPPING", m>> \notin shared => MapAlone(w, m)'
    <3> SUFFICES ASSUME <<"MAPPING", m>> \notin shared PROVE MapAlone(w, m)'
      OBVIOUS
    <3>1. \A i \in ReduceId : i < n => mid[m][i].full BY Zenon, <1>1, <1>2 DEF MapAlone, n
    <3>2. \A i \in ReduceId : i < n + 1 => mid'[m][i].full
      BY Zenon, <1>5, <1>7, <2>1, <2>2, <3>1
    <3>3. task'[<<"MAPPING", m>>] # "DONE" BY Zenon, <1>1, <1>2 DEF MapAlone
    <3> QED BY Zenon, <1>9, <2>1, <3>2, <3>3 DEF MapAlone
  <2>6. ~\E r \in ReduceId : job'[w] = <<"REDUCING", r>> BY <1>1, <1>2
  <2>7. \A k \in MapId : job'[w] = <<"MAPPING", k>> => k = m BY <1>1, <1>2
  <2> QED BY Zenon, <1>1, <2>4, <2>5, <2>6, <2>7 DEF Fine
<1>11. active(w) /\ pc'[w] # "exited" BY Zenon, <1>1, <1>9 DEF active
<1> QED BY Zenon, <1>1, <1>2, <1>6, <1>7, <1>8, <1>9, <1>10, <1>11, MapFileStep
---------------------------------------------------------------------------
\* execReduce: every intermediate file exists, and is complete if its map task
\* was not shared.
LEMMA ReadStep ==
  ASSUME IInv, NEW w \in Worker, execReduceRead(w)
  PROVE  IInv'
<1> DEFINE n == next[w]
           file == mid[n][job[w][2]]
<1>1. /\ pc[w] = "REDUCING" /\ n < nMap
      /\ pc' = [pc EXCEPT ![w] = IF file.by = {} THEN "crashed" ELSE @]
      /\ next' = [next EXCEPT ![w] = n + 1]
      /\ read' = [read EXCEPT ![w] = @ \cup recordsOf(n, file)]
      /\ UNCHANGED <<Stage, task, late, coordinator, shared, job, mid, out>>
  BY Zenon DEF execReduceRead, coordVars, fileVars
<1>2. PICK r \in ReduceId : /\ job[w] = <<"REDUCING", r>> /\ job[w][2] = r /\ ReduceBegun(w)
                            /\ mapsUnshared => ReduceReads(w)
                            /\ mapsUnshared /\ <<"REDUCING", r>> \notin shared => ReduceAlone(w, r)
  BY Zenon, <1>1, HasTask
<1>3. n \in 0..nMap BY Zenon, <1>1, <1>2 DEF ReduceBegun
<1>4. n \in MapId BY <1>1, <1>3, SizeAssumption DEF MapId
<1>5. task[<<"MAPPING", n>>] = "DONE"
  BY Zenon, <1>2, <1>4 DEF ReduceBegun, IInv, Tables, DoneMeansOutput
<1>6. file.by # {} BY Zenon, <1>2, <1>4, <1>5 DEF IInv, Tables
<1>7. mapsUnshared => file.full
  BY Zenon, <1>2, <1>4, <1>5 DEF mapsUnshared, IInv, Tables, DoneMeansOutput
<1> HIDE DEF n, file
<1>8. \A v \in Worker : pc'[v] = pc[v] BY <1>1, <1>6 DEF IInv, TypeOK
<1>9. \A v \in Worker : v # w => next'[v] = next[v] /\ read'[v] = read[v]
  BY <1>1 DEF IInv, TypeOK
<1>10. next'[w] = n + 1 /\ read'[w] = read[w] \cup recordsOf(n, file)
  BY <1>1 DEF IInv, TypeOK
<1>11. TypeOK'
  <2>1. pc' = pc BY <1>1, <1>6 DEF IInv, TypeOK
  <2>2. next' \in [Worker -> Nat] BY <1>1, <1>3, SizeAssumption DEF IInv, TypeOK
  <2>3. recordsOf(n, file) \subseteq MapId BY <1>4 DEF recordsOf
  <2>4. read' \in [Worker -> SUBSET MapId] BY <1>1, <2>3 DEF IInv, TypeOK
  <2> QED BY Zenon, <1>1, <2>1, <2>2, <2>4 DEF IInv, TypeOK
<1>12. \A v \in Worker : active(v)' = active(v) BY Zenon, <1>8 DEF active
<1>13. mapsUnshared' = mapsUnshared BY Zenon, <1>1 DEF mapsUnshared
<1>14. Fine(w)'
  <2>1. ~\E m \in MapId : job'[w] = <<"MAPPING", m>> BY <1>1, <1>2
  <2>2. ReduceBegun(w)'
    <3>1. n + 1 \in 0..nMap BY <1>1, <1>3, SizeAssumption DEF n
    <3> QED BY Zenon, <1>1, <1>2, <1>8, <1>10, <3>1 DEF ReduceBegun
  <2>3. mapsUnshared => ReduceReads(w)'
    <3> SUFFICES ASSUME mapsUnshared PROVE ReduceReads(w)'
      OBVIOUS
    <3>1. read[w] = {m \in MapId : m < n} BY Zenon, <1>1, <1>2 DEF ReduceReads, n
    <3>2. recordsOf(n, file) = {n} BY <1>7 DEF recordsOf
    <3>3. read'[w] = {m \in MapId : m < n + 1} BY <1>4, <1>10, <3>1, <3>2 DEF MapId
    <3>4. pc'[w] = "REDUCING" BY Zenon, <1>1, <1>8
    <3> QED BY Zenon, <1>10, <3>3, <3>4 DEF ReduceReads
  <2>4. mapsUnshared /\ <<"REDUCING", r>> \notin shared => ReduceAlone(w, r)'
    BY Zenon, <1>1, <1>2, <1>8 DEF ReduceAlone
  <2>5. \A k \in ReduceId : job'[w] = <<"REDUCING", k>> => k = r BY <1>1, <1>2
  <2> QED BY Zenon, <1>1, <1>13, <2>1, <2>2, <2>3, <2>4, <2>5 DEF Fine
<1>15. Workers'
  <2> SUFFICES ASSUME NEW v \in Worker, active(v)', v # w PROVE Fine(v)'
    BY Zenon, <1>14 DEF Workers
  <2>1. Fine(v) /\ pc'[v] = pc[v] /\ job'[v] = job[v] /\ next'[v] = next[v] /\ read'[v] = read[v]
    BY Zenon, <1>1, <1>8, <1>9, <1>12 DEF IInv, Workers
  <2> QED BY Zenon, <1>1, <2>1, Bystander DEF IInv
<1>16. Distinct' BY Zenon, <1>1, <1>12, StillDistinct DEF IInv
<1>17. Tables' BY Zenon, <1>1, StillTables DEF IInv
<1>18. Exits' BY Zenon, <1>1, <1>8 DEF IInv, Exits
<1> QED BY Zenon, <1>11, <1>15, <1>16, <1>17, <1>18 DEF IInv

\* execReduce: Create, and the records.
LEMMA OutputStep ==
  ASSUME IInv, NEW w \in Worker, execReduceCreate(w) \/ execReducePrint(w)
  PROVE  IInv'
<1>1. /\ pc[w] \in {"REDUCING", "print"}
      /\ UNCHANGED <<Stage, task, late, coordinator, shared, job, next, read, mid>>
  BY Zenon DEF execReduceCreate, execReducePrint, coordVars, jobVars
<1>2. PICK r \in ReduceId : /\ job[w] = <<"REDUCING", r>> /\ job[w][2] = r /\ ReduceBegun(w)
                            /\ mapsUnshared => ReduceReads(w)
                            /\ mapsUnshared /\ <<"REDUCING", r>> \notin shared => ReduceAlone(w, r)
  BY Zenon, <1>1, HasTask
<1>3. \/ pc[w] = "REDUCING" /\ next[w] = nMap /\ out' = [out EXCEPT ![r] = {{}}] /\ pc' = [pc EXCEPT ![w] = "print"]
      \/ pc[w] = "print" /\ out' = [out EXCEPT ![r] = {read[w]}] /\ pc' = [pc EXCEPT ![w] = "report"]
  BY Zenon, <1>2 DEF execReduceCreate, execReducePrint
<1>4. /\ \A v \in Worker : v # w => pc'[v] = pc[v]
      /\ \A i \in ReduceId : i # r => out'[i] = out[i]
      /\ \/ pc[w] = "REDUCING" /\ next[w] = nMap /\ out'[r] = {{}} /\ pc'[w] = "print"
         \/ pc[w] = "print" /\ out'[r] = {read[w]} /\ pc'[w] = "report"
  BY <1>3 DEF IInv, TypeOK
<1>5. mapsUnshared' = mapsUnshared BY Zenon, <1>1 DEF mapsUnshared
<1>6. mapsUnshared => read[w] = MapId
  <2>1. {m \in MapId : m < nMap} = MapId BY SizeAssumption DEF MapId
  <2> QED BY Zenon, <1>2, <1>4, <2>1 DEF ReduceReads
<1>7. TypeOK'
  <2>1. out' \in [ReduceId -> SUBSET SUBSET MapId]
    <3>1. \E x \in SUBSET MapId : out' = [out EXCEPT ![r] = {x}]
      <4>1. read[w] \in SUBSET MapId /\ {} \in SUBSET MapId BY DEF IInv, TypeOK
      <4> QED BY Zenon, <1>3, <4>1
    <3> QED BY <3>1 DEF IInv, TypeOK
  <2>2. pc' \in [Worker -> {"idle", "MAPPING", "fill", "REDUCING", "print", "report", "checkMap",
                            "checkReduce", "crashed", "exited"}]
    <3>1. \E s \in {"print", "report"} : pc' = [pc EXCEPT ![w] = s] BY Zenon, <1>3
    <3> QED BY <3>1 DEF IInv, TypeOK
  <2> QED BY Zenon, <1>1, <2>1, <2>2 DEF IInv, TypeOK
<1>8. active(w) /\ \A v \in Worker : active(v)' => active(v) BY Zenon, <1>1, <1>4 DEF active
<1>9. Fine(w)'
  <2>1. ~\E m \in MapId : job'[w] = <<"MAPPING", m>> BY <1>1, <1>2
  <2>2. ReduceBegun(w)' BY Zenon, <1>1, <1>2, <1>4 DEF ReduceBegun
  <2>3. mapsUnshared => ReduceReads(w)' BY Zenon, <1>1, <1>4, <1>6 DEF ReduceReads
  <2>4. mapsUnshared /\ <<"REDUCING", r>> \notin shared => ReduceAlone(w, r)'
    BY Zenon, <1>1, <1>2, <1>4, <1>6 DEF ReduceAlone
  <2>5. \A k \in ReduceId : job'[w] = <<"REDUCING", k>> => k = r BY <1>1, <1>2
  <2> QED BY Zenon, <1>1, <1>5, <2>1, <2>2, <2>3, <2>4, <2>5 DEF Fine
<1>10. Workers'
  <2> SUFFICES ASSUME NEW v \in Worker, active(v)', v # w PROVE Fine(v)'
    BY Zenon, <1>9 DEF Workers
  <2>1. active(v) /\ Fine(v) BY Zenon, <1>8 DEF IInv, Workers
  <2>2. ASSUME NEW i \in ReduceId, job[v] = <<"REDUCING", i>>, job[v] \notin shared' PROVE out'[i] = out[i]
    <3>1. i # r BY Zenon, <1>1, <1>2, <1>8, <2>1, <2>2 DEF IInv, Distinct
    <3> QED BY Zenon, <1>4, <3>1
  <2>3. /\ shared \subseteq shared' /\ ~(task'[job[v]] = "DONE" /\ task[job[v]] # "DONE")
        /\ pc'[v] = pc[v] /\ job'[v] = job[v] /\ next'[v] = next[v] /\ read'[v] = read[v]
        /\ \A k \in MapId, i \in ReduceId : mid[k][i].by # {} => mid'[k][i].by # {}
    BY Zenon, <1>1, <1>4
  <2> QED BY Zenon, <1>1, <2>1, <2>2, <2>3, Untouched DEF IInv
<1>11. Distinct' BY Zenon, <1>1, <1>8, StillDistinct DEF IInv
<1>12. Tables'
  <2>1. ASSUME NEW i \in ReduceId, task'[<<"REDUCING", i>>] = "DONE", mapsUnshared', <<"REDUCING", i>> \notin shared'
        PROVE  out'[i] = {MapId}
    <3>1. i # r BY Zenon, <1>1, <1>2, <1>5, <2>1 DEF ReduceAlone
    <3> QED BY Zenon, <1>1, <1>4, <1>5, <2>1, <3>1 DEF IInv, Tables, DoneMeansOutput
  <2>2. DoneMeansOutput' BY Zenon, <1>1, <2>1 DEF IInv, Tables, DoneMeansOutput
  <2>3. NothingLost'
    <3> SUFFICES ASSUME mapsUnshared, NEW i \in ReduceId PROVE out'[i] \subseteq {{}, MapId}
      BY Zenon, <1>5 DEF NothingLost
    <3>1. CASE i = r BY Zenon, <1>4, <1>6, <3>1
    <3>2. CASE i # r BY Zenon, <1>4, <3>2 DEF IInv, Tables, NothingLost
    <3> QED BY Zenon, <3>1, <3>2
  <2> QED BY Zenon, <1>1, <2>2, <2>3 DEF IInv, Tables
<1>13. Exits' BY Zenon, <1>1, <1>4 DEF IInv, Exits
<1> QED BY Zenon, <1>7, <1>10, <1>11, <1>12, <1>13 DEF IInv
---------------------------------------------------------------------------
LEMMA InitIInv == Init => IInv
<1> SUFFICES ASSUME Init PROVE IInv
  OBVIOUS
<1>1. TypeOK
  <2>1. <<"MAPPING", 0>> \in Task BY SizeAssumption, TaskFacts DEF MapId
  <2> QED BY <2>1 DEF Init, TypeOK, noFile
<1>2. \A w \in Worker : ~active(w) BY DEF Init, active
<1>3. \A t \in Task : task[t] # "DONE" BY DEF Init
<1>4. Tables
  BY <1>3, TaskFacts DEF Tables, DoneMeansOutput, NothingLost, Init
<1>5. Exits BY DEF Exits, Init
<1> QED BY Zenon, <1>1, <1>2, <1>4, <1>5 DEF IInv, Workers, Distinct

LEMMA NextIInv == IInv /\ [Next]_vars => IInv'
<1> SUFFICES ASSUME IInv, [Next]_vars PROVE IInv'
  OBVIOUS
<1>1. ASSUME NEW w \in Worker, WorkerNext(w) PROVE IInv'
  <2>1. CASE requestTask(w)
    BY Zenon, <2>1, AssignStep, StageStep, EndStep DEF requestTask
  <2>2. CASE execMap(w) BY Zenon, <2>2, RenameStep, FillStep DEF execMap
  <2>3. CASE execReduce(w) BY Zenon, <2>3, ReadStep, OutputStep DEF execReduce
  <2>4. CASE reportTask(w) BY Zenon, <2>4, ReportStep
  <2>5. CASE checkTask(w) BY Zenon, <2>5, CheckStep
  <2>6. CASE callFails(w) BY Zenon, <2>6, LeaveStep
  <2> QED BY Zenon, <1>1, <2>1, <2>2, <2>3, <2>4, <2>5, <2>6 DEF WorkerNext
<1>2. ASSUME NEW w \in Worker, Crash(w) \/ Respawn(w) PROVE IInv'
  BY Zenon, <1>2, LeaveStep
<1>3. CASE (\E t \in Task : TenSeconds(t)) \/ Done \/ UNCHANGED vars
  BY Zenon, <1>3, EndStep
<1> QED BY Zenon, <1>1, <1>2, <1>3 DEF Next

\* The coordinator's tables, the workers and the files fit together in every
\* reachable state, whoever crashes and whoever is slow.
THEOREM Invariance == Spec => []IInv
BY InitIInv, NextIInv, PTL DEF Spec

\* What checkTask marks as done is done: the files of a map task that no two live
\* workers had are complete, and the output of such a reduce task is, if no map
\* task was shared; no reduce task begins before every map task is DONE.
THEOREM DoneMeansOutputHolds == Spec => []DoneMeansOutput
<1>1. IInv => DoneMeansOutput BY Zenon DEF IInv, Tables
<1> QED BY <1>1, Invariance, PTL

\* A worker returns, and the coordinator exits, when every output file is complete,
\* but for what slow workers shared.
THEOREM FinalizedOnExitHolds == Spec => []FinalizedOnExit
<1>1. ASSUME IInv, mapsUnshared, coordinator # "running" \/ \E w \in Worker : pc[w] = "exited"
      PROVE  Stage = "FINISHED"
  <2>1. coordinator # "panicked" BY Zenon, <1>1 DEF IInv, Exits, mapsUnshared
  <2> QED BY Zenon, <1>1, <2>1 DEF IInv, TypeOK, Exits
<1>2. IInv => FinalizedOnExit
  BY Zenon, <1>1 DEF FinalizedOnExit, IInv, Tables, DoneMeansOutput
<1> QED BY <1>2, Invariance, PTL

\* No reducer prints an output that lacks the records of a map task, as long as no
\* map task was shared.
THEOREM NothingLostHolds == Spec => []NothingLost
<1>1. IInv => NothingLost BY Zenon DEF IInv, Tables
<1> QED BY <1>1, Invariance, PTL

\* No reducer opens a file that is not there, and only the late report of a map
\* task that two workers had and no reduce task is numbered like takes the
\* coordinator down.
THEOREM NoPanicHolds == Spec => []NoPanic
<1>1. ASSUME IInv, NEW w \in Worker, pc[w] = "REDUCING", next[w] < nMap
      PROVE  mid[next[w]][job[w][2]].by # {}
  <2>1. PICK r \in ReduceId : job[w][2] = r /\ ReduceBegun(w) BY Zenon, <1>1, HasTask
  <2>2. next[w] \in 0..nMap BY Zenon, <1>1, <2>1 DEF ReduceBegun
  <2>3. next[w] \in MapId BY <1>1, <2>2, SizeAssumption DEF MapId
  <2>4. task[<<"MAPPING", next[w]>>] = "DONE"
    BY Zenon, <1>1, <2>1, <2>3 DEF ReduceBegun, IInv, Tables, DoneMeansOutput
  <2> QED BY Zenon, <1>1, <2>1, <2>3, <2>4 DEF IInv, Tables
<1>2. IInv => NoPanic BY Zenon, <1>1 DEF NoPanic, IInv, Exits
<1> QED BY <1>2, Invariance, PTL
=================================================================================
