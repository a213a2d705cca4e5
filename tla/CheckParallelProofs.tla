-------------------------- MODULE CheckParallelProofs ---------------------------
(***************************************************************************)
(* Theorems about module CheckParallel, for any number of partitions:      *)
(* whatever the order in which goroutines answer, are killed and a timer   *)
(* fires, the result returned is right, and longest is read when complete. *)
(***************************************************************************)
EXTENDS CheckParallel, TLAPS

\* Nobody is killed while the caller counts answers: they are verdicts.
Honest == pc = "loop" => ~kill /\ ~timedOut /\ result = "none" /\ \A i \in parts : go[i] # "run" => answer[i] = verdict[i]

\* What ok says of the answers received.
Counted ==
    /\ ~ok => \E i \in parts : ~verdict[i]
    /\ pc = "loop" /\ ok => \A i \in parts : go[i] = "received" => verdict[i]
    /\ pc # "loop" /\ ok /\ ~timedOut => \A i \in parts : verdict[i]

\* Before the result is there, and when it is.
Result ==
    /\ timedOut => timeout
    /\ pc # "returned" => result = "none"
    /\ pc = "returned" => result = checkResult(ok, timedOut)

IInv == TypeOK /\ Honest /\ Counted /\ Result /\ InfoComplete
---------------------------------------------------------------------------
\* The caller has just started the goroutines.
LEMMA InitIInv == Init => IInv
  BY Zenon DEF Init, Start, IInv, TypeOK, Honest, Counted, Result, InfoComplete

\* A goroutine's own steps do not touch what the caller knows.
LEMMA GoroutineStep ==
  ASSUME IInv, NEW i \in parts, Goroutine(i)
  PROVE  IInv'
<1> USE DEF IInv
<1>1. UNCHANGED <<parts, verdict, computeInfo, timeout, kill, ok, timedOut, pc, result>>
  BY Zenon DEF Goroutine, checkSingle, send, inputs
<1>2. /\ go' \in [parts -> {"run", "stored", "sent", "received"}] /\ answer' \in [parts -> BOOLEAN]
      /\ \A j \in parts : go'[j] = "received" <=> go[j] = "received"
      /\ \A j \in parts : go[j] # "run" => go'[j] # "run" /\ answer'[j] = answer[j]
      /\ ~kill => \A j \in parts : go'[j] # "run" => (go[j] # "run" /\ answer'[j] = answer[j]) \/ answer'[j] = verdict[j]
  <2>1. CASE checkSingle(i)
    BY Zenon, <2>1 DEF TypeOK, checkSingle
  <2>2. CASE send(i)
    BY <2>2 DEF TypeOK, send
  <2> QED BY <2>1, <2>2 DEF Goroutine
<1>3. TypeOK'
  BY <1>1, <1>2 DEF TypeOK
<1>4. Honest' /\ Counted'
  BY <1>1, <1>2 DEF Honest, Counted
<1>5. Result' /\ InfoComplete'
  BY <1>1, <1>2 DEF Result, InfoComplete, checkResult
<1> QED BY <1>3, <1>4, <1>5

\* An answer that counts is a verdict.
LEMMA ReceiveStep ==
  ASSUME IInv, NEW i \in parts, receive(i)
  PROVE  IInv'
<1> USE DEF IInv
<1>1. /\ UNCHANGED <<parts, verdict, computeInfo, timeout, answer, timedOut>>
      /\ pc = "loop" /\ ~kill /\ ~timedOut /\ result = "none"
      /\ go' = [go EXCEPT ![i] = "received"] /\ go[i] = "sent"
      /\ ok' = (ok /\ verdict[i])
      /\ kill' \in BOOLEAN /\ ok' \in BOOLEAN
  <2>1. answer[i] = verdict[i]
    BY DEF receive, Honest
  <2>2. ok' = (ok /\ verdict[i])
    BY <2>1 DEF receive
  <2>3. kill' \in BOOLEAN /\ ok' \in BOOLEAN
    BY <2>2 DEF receive
  <2> QED BY <2>2, <2>3 DEF receive, inputs, Honest
<1>2. /\ go' \in [parts -> {"run", "stored", "sent", "received"}]
      /\ \A j \in parts : j # i => go'[j] = go[j]
      /\ go'[i] = "received"
  BY <1>1 DEF TypeOK
<1>3. \/ pc' = "loop" /\ result' = result /\ (ok' \/ computeInfo) /\ ~kill'
      \/ /\ (~ok' /\ ~computeInfo) \/ allCounted(go')
         /\ leaveLoop(ok', timedOut)
  BY Zenon, <1>1 DEF receive
<1>4. ok' => \A j \in parts : go'[j] = "received" => verdict[j]
  BY Zenon, <1>1, <1>2 DEF Counted
<1>5. ~ok' => \E j \in parts : ~verdict[j]
  BY <1>1 DEF Counted, TypeOK
<1>6. CASE pc' = "loop" /\ result' = result /\ ~kill'
  <2>1. TypeOK'
    BY <1>6, <1>1, <1>2 DEF TypeOK
  <2>2. Honest'
    BY <1>6, <1>1, <1>2 DEF Honest
  <2>3. Counted' /\ Result' /\ InfoComplete'
    BY <1>6, <1>1, <1>4, <1>5 DEF Counted, Result, InfoComplete
  <2> QED BY <2>1, <2>2, <2>3
<1>7. CASE ((~ok' /\ ~computeInfo) \/ allCounted(go')) /\ leaveLoop(ok', timedOut)
  <2>1. /\ pc' = IF computeInfo THEN "wait" ELSE "returned"
        /\ result' = IF computeInfo THEN "none" ELSE checkResult(ok', timedOut)
    BY <1>7, <1>1 DEF leaveLoop
  <2>2. checkResult(ok', timedOut) \in {"Illegal", "Unknown", "Ok"}
    BY DEF checkResult
  <2>3. TypeOK'
    BY <2>1, <2>2, <1>1, <1>2 DEF TypeOK
  <2>4. Counted'
    BY <2>1, <1>1, <1>4, <1>5, <1>7 DEF Counted, allCounted
  <2>5. Honest' /\ InfoComplete'
    BY <2>1, <1>1 DEF Honest, InfoComplete
  <2>6. Result'
    BY <2>1, <1>1 DEF Result, checkResult
  <2> QED BY <2>3, <2>4, <2>5, <2>6
<1> QED BY <1>3, <1>6, <1>7

\* The timer, and the answers that do not count.
LEMMA LateStep ==
  ASSUME IInv, expire \/ finish \/ \E i \in parts : wait(i)
  PROVE  IInv'
<1> USE DEF IInv
<1>1. CASE expire
  <2>1. /\ UNCHANGED <<parts, verdict, computeInfo, timeout, go, answer, ok>>
        /\ timedOut' = TRUE /\ kill' = TRUE /\ timeout /\ pc = "loop" /\ result = "none"
        /\ pc' = IF computeInfo THEN "wait" ELSE "returned"
        /\ result' = IF computeInfo THEN "none" ELSE checkResult(ok, TRUE)
    BY <1>1 DEF expire, leaveLoop, inputs, Honest
  <2>2. checkResult(ok, TRUE) \in {"Illegal", "Unknown", "Ok"}
    BY DEF checkResult
  <2>3. TypeOK'
    BY Zenon, <2>1, <2>2 DEF TypeOK
  <2>4. Honest' /\ Counted' /\ InfoComplete'
    BY <2>1 DEF Honest, Counted, InfoComplete
  <2>5. Result'
    BY <2>1 DEF Result, checkResult
  <2> QED BY <2>3, <2>4, <2>5
<1>2. CASE finish
  <2>1. /\ UNCHANGED <<parts, verdict, computeInfo, timeout, go, answer, kill, ok, timedOut>>
        /\ pc = "wait" /\ pc' = "returned" /\ result' = checkResult(ok, timedOut)
        /\ \A i \in parts : go[i] = "received"
    BY <1>2 DEF finish, inputs, waited, allCounted
  <2>2. checkResult(ok, timedOut) \in {"Illegal", "Unknown", "Ok"}
    BY DEF checkResult
  <2>3. TypeOK'
    BY <2>1, <2>2 DEF TypeOK
  <2>4. Honest' /\ Counted' /\ InfoComplete'
    BY <2>1 DEF Honest, Counted, InfoComplete
  <2>5. Result'
    BY <2>1 DEF Result, checkResult
  <2> QED BY <2>3, <2>4, <2>5
<1>3. ASSUME NEW i \in parts, wait(i) PROVE IInv'
  <2>1. /\ UNCHANGED <<parts, verdict, computeInfo, timeout, answer, kill, ok, timedOut, pc, result>>
        /\ pc = "wait" /\ go' = [go EXCEPT ![i] = "received"]
    BY <1>3 DEF wait, inputs
  <2>2. TypeOK'
    BY <2>1 DEF TypeOK
  <2>3. Honest' /\ Counted' /\ InfoComplete' /\ Result'
    BY <2>1 DEF Honest, Counted, InfoComplete, Result, checkResult
  <2> QED BY <2>2, <2>3
<1> QED BY <1>1, <1>2, <1>3

\* Every step preserves the invariant.
LEMMA NextIInv == IInv /\ [Next]_vars => IInv'
<1> SUFFICES ASSUME IInv, [Next]_vars PROVE IInv'
  OBVIOUS
<1>1. CASE UNCHANGED vars
  BY <1>1 DEF vars, inputs, IInv, TypeOK, Honest, Counted, Result, InfoComplete, checkResult
<1>2. CASE Next
  BY <1>2, GoroutineStep, ReceiveStep, LateStep DEF Next, Caller
<1> QED BY <1>1, <1>2
---------------------------------------------------------------------------
\* For any set of partitions and any schedule, Ok, Illegal and Unknown mean what
\* they say.
THEOREM ResultRightHolds == Spec => []ResultRight
<1>1. IInv => ResultRight
  BY DEF IInv, TypeOK, Counted, Result, ResultRight, checkResult
<1> QED BY <1>1, InitIInv, NextIInv, PTL DEF Spec

\* The information about partial linearizations is read when all of it is there.
THEOREM InfoCompleteHolds == Spec => []InfoComplete
<1>1. IInv => InfoComplete
  BY DEF IInv
<1> QED BY <1>1, InitIInv, NextIInv, PTL DEF Spec
=================================================================================
