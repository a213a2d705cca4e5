------------------------------ MODULE CheckParallel -----------------------------
(***************************************************************************)
(* checkParallel (porcupine/checker.go): one goroutine per partition runs  *)
(* checkSingle and sends its answer on a buffered channel; the caller      *)
(* collects answers until it knows enough or a timer fires, and stops the  *)
(* others with kill.  What checkSingle answers is module CheckSingle's     *)
(* Verdict: whether the partition is linearizable, or FALSE once killed.   *)
(***************************************************************************)
EXTENDS Integers

CONSTANT Partition      \* what partitions there may be

VARIABLES
    parts,          \* the partitions of the history
    verdict,        \* verdict[i]: partition i is linearizable
    computeInfo,    \* BOOLEAN
    timeout,        \* BOOLEAN: there is a timer
    go,             \* go[i]: "run", "stored", "sent", "received"
    answer,         \* answer[i]: what checkSingle returned
    kill, ok, timedOut,
    pc,             \* the caller: "loop", "wait", "returned"
    result

inputs == <<parts, verdict, computeInfo, timeout>>
vars == <<inputs, go, answer, kill, ok, timedOut, pc, result>>

\* The caller has started the goroutines.
Start ==
    /\ go = [i \in parts |-> "run"] /\ answer = [i \in parts |-> FALSE]
    /\ kill = FALSE /\ ok = TRUE /\ timedOut = FALSE
    /\ pc = "loop" /\ result = "none"

Init ==
    /\ parts \in SUBSET Partition /\ verdict \in [parts -> BOOLEAN]
    /\ computeInfo \in BOOLEAN /\ timeout \in BOOLEAN
    /\ Start
---------------------------------------------------------------------------
(* The goroutines *)

\* checkSingle returns, and longest[i] is set.
checkSingle(i) ==
    /\ go[i] = "run"
    /\ go' = [go EXCEPT ![i] = "stored"]
    /\ \E v \in {verdict[i]} \cup {b \in {FALSE} : kill} : answer' = [answer EXCEPT ![i] = v]
    /\ UNCHANGED <<inputs, kill, ok, timedOut, pc, result>>

\* Slip: the channel has no buffer.
roomUnbuffered == pc # "returned"

\* There is room for the answers of all.
room == TRUE

send(i) ==
    /\ go[i] = "stored" /\ room
    /\ go' = [go EXCEPT ![i] = "sent"]
    /\ UNCHANGED <<inputs, answer, kill, ok, timedOut, pc, result>>
---------------------------------------------------------------------------
(* The caller *)

\* Slip: one answer more is waited for.
allCountedLater(g) == FALSE

\* count >= len(history)
allCounted(g) == \A i \in parts : g[i] = "received"

\* Slip: what timed out is taken to be linearizable.
checkResultOk(o, t) == IF ~o THEN "Illegal" ELSE "Ok"

checkResult(o, t) == IF ~o THEN "Illegal" ELSE IF t THEN "Unknown" ELSE "Ok"

\* Behind the loop: the others are waited for, or the result is returned.
leaveLoop(o, t) ==
    /\ pc' = IF computeInfo THEN "wait" ELSE "returned"
    /\ result' = IF computeInfo THEN result ELSE checkResult(o, t)

\* An answer arrives in the loop.
receive(i) ==
    /\ pc = "loop" /\ go[i] = "sent"
    /\ go' = [go EXCEPT ![i] = "received"]
    /\ ok' = (ok /\ answer[i])
    /\ kill' = (kill \/ (~ok' /\ ~computeInfo))
    /\ IF (~ok' /\ ~computeInfo) \/ allCounted(go') THEN leaveLoop(ok', timedOut) ELSE UNCHANGED <<pc, result>>
    /\ UNCHANGED <<inputs, answer, timedOut>>

\* The timer fires.
expire ==
    /\ pc = "loop" /\ timeout
    /\ timedOut' = TRUE /\ kill' = TRUE
    /\ leaveLoop(ok, TRUE)
    /\ UNCHANGED <<inputs, go, answer, ok>>

\* Another answer, which does not count.
wait(i) ==
    /\ pc = "wait" /\ go[i] = "sent"
    /\ go' = [go EXCEPT ![i] = "received"]
    /\ UNCHANGED <<inputs, answer, kill, ok, timedOut, pc, result>>

\* Slip: the others are not waited for.
waitedNot == TRUE

\* Every answer has been received.
waited == allCounted(go)

\* longest is read, and the result is returned.
finish ==
    /\ pc = "wait" /\ waited
    /\ pc' = "returned" /\ result' = checkResult(ok, timedOut)
    /\ UNCHANGED <<inputs, go, answer, kill, ok, timedOut>>

Goroutine(i) == checkSingle(i) \/ send(i)

Caller == (\E i \in parts : receive(i) \/ wait(i)) \/ finish

Next == (\E i \in parts : Goroutine(i)) \/ Caller \/ expire

Spec == Init /\ [][Next]_vars

\* Goroutines and the caller are scheduled; a timer fires.
Fairness == (\A i \in Partition : WF_vars(i \in parts /\ Goroutine(i))) /\ WF_vars(Caller) /\ WF_vars(expire)

FairSpec == Spec /\ Fairness
---------------------------------------------------------------------------
TypeOK ==
    /\ parts \subseteq Partition /\ verdict \in [parts -> BOOLEAN]
    /\ computeInfo \in BOOLEAN /\ timeout \in BOOLEAN
    /\ go \in [parts -> {"run", "stored", "sent", "received"}] /\ answer \in [parts -> BOOLEAN]
    /\ kill \in BOOLEAN /\ ok \in BOOLEAN /\ timedOut \in BOOLEAN
    /\ pc \in {"loop", "wait", "returned"} /\ result \in {"none", "Illegal", "Unknown", "Ok"}

\* "if we time out, we might get a false positive" (checker.go:308), which is
\* returned as Unknown; a killed goroutine's answer never makes a result: Ok
\* only if every partition is linearizable, Illegal only if one is not, Unknown
\* only with a timer.
ResultRight ==
    /\ result = "Ok" => \A i \in parts : verdict[i]
    /\ result = "Illegal" => \E i \in parts : ~verdict[i]
    /\ result = "Unknown" => timeout

\* "make sure we've waited for all goroutines to finish, otherwise we might race
\* on access to longest[]" (checker.go:313).
InfoComplete == pc = "returned" /\ computeInfo => \A i \in parts : go[i] # "run"

\* The caller returns, unless there is neither a partition nor a timer.
Returns == (parts # {} \/ timeout) ~> (pc = "returned")

\* No goroutine is left behind, also when the caller does not want its answer.
GoroutinesEnd == <>[](\A i \in parts : go[i] \in {"sent", "received"})
=================================================================================
