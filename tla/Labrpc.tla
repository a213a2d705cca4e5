---------------------------------- MODULE Labrpc --------------------------------
(***************************************************************************)
(* The network of the tests (labrpc/labrpc.go) and what the test harness   *)
(* does to it when it crashes and restarts servers (raft/config.go, and    *)
(* the same in the other config.go).  A server cannot really be killed:    *)
(* an instance that was crashed goes on running, with ends that are        *)
(* disabled and a Persister that nobody reads any more.                    *)
(*                                                                         *)
(* A request stands for one Call: it goes from an instance to a host, and  *)
(* its handler persists it.  The names of an instance's ends are its own.  *)
(***************************************************************************)
EXTENDS Integers

CONSTANTS
    Host,
    Instance,       \* what start1 makes, one after another
    hostOf,         \* hostOf[a]: the host that instance a is of
    first,          \* first[h]: the instance that make_config starts
    Request,
    Hanging,        \* the requests whose handler need not return
    Nobody

ASSUME InstanceAssumption ==
    /\ hostOf \in [Instance -> Host] /\ Nobody \notin Instance \cup Host
    /\ first \in [Host -> Instance] /\ \A h \in Host : hostOf[first[h]] = h

VARIABLES
    (* the harness *)
    phase,          \* phase[h]: how far crash1 or start1 is
    cur,            \* cur[h]: whose ends are endnames[h]
    made,           \* the instances that Make was called for
    connected,      \* the hosts on the net
    store,          \* store[a]: the requests in the Persister of a
    saved,          \* saved[h]: those in cfg.saved[h], when no instance has it
    (* the network *)
    servers,        \* servers[h]: the instance registered for h
    enabled,        \* the ends <<a, j>> that are enabled
    reliable, longReordering,
    done,           \* Cleanup was called
    (* calls *)
    from, to,       \* from[r], to[r]: an instance, a host
    late,           \* late[r]: from[r] had been crashed when it called
    status,         \* status[r]: where the network is with r
    server,         \* server[r]: the instance that executes it
    lossy, reorder, \* the requests for which the network was not reliable, or reordering
    handler         \* handler[r]: "none", "running", "persisted", "returned", "gone"

harnessVars == <<phase, cur, made, connected, saved>>
flagVars == <<reliable, longReordering, done>>
netVars == <<servers, enabled, flagVars>>
callVars == <<from, to, late>>
reqVars == <<status, server, lossy, reorder, handler>>
vars == <<harnessVars, store, netVars, callVars, reqVars>>

\* make_config has started and connected everyone.
Init ==
    /\ phase = [h \in Host |-> "up"] /\ cur = first /\ connected = Host
    /\ made = {first[h] : h \in Host}
    /\ store = [a \in Instance |-> {}] /\ saved = [h \in Host |-> {}]
    /\ servers = first
    /\ enabled = {<<first[h], j>> : h \in Host, j \in Host}
    /\ reliable = TRUE /\ longReordering = FALSE /\ done = FALSE
    /\ from = [r \in Request |-> Nobody] /\ to = [r \in Request |-> Nobody]
    /\ late = [r \in Request |-> FALSE]
    /\ status = [r \in Request |-> "none"] /\ server = [r \in Request |-> Nobody]
    /\ lossy = {} /\ reorder = {}
    /\ handler = [r \in Request |-> "none"]
---------------------------------------------------------------------------
(* The harness *)

\* Slip: a restarted server has the names of its predecessor's ends.
endOfHost(a, j) == <<first[hostOf[a]], j>>

endname(a, j) == <<a, j>>

\* The ends from and to h.
endnames(h) == {endname(cur[h], j) : j \in Host} \cup {endname(cur[j], h) : j \in Host}

disconnect(h) ==
    /\ phase[h] = "up" /\ h \in connected
    /\ connected' = connected \ {h} /\ enabled' = enabled \ endnames(h)
    /\ UNCHANGED <<phase, cur, made, saved, store, servers, flagVars, callVars, reqVars>>

connect(h) ==
    /\ phase[h] = "up"
    /\ connected' = connected \cup {h}
    /\ enabled' = enabled \cup {endname(cur[h], j) : j \in connected'} \cup {endname(cur[j], h) : j \in connected'}
    /\ UNCHANGED <<phase, cur, made, saved, store, servers, flagVars, callVars, reqVars>>

\* crash1, up to its call of DeleteServer.  The calls of Enable in disconnect,
\* which lock one by one, are one step: a request looks at the end it uses only.
crash1(h) ==
    /\ phase[h] = "up"
    /\ phase' = [phase EXCEPT ![h] = "disconnected"]
    /\ connected' = connected \ {h} /\ enabled' = enabled \ endnames(h)
    /\ UNCHANGED <<cur, made, saved, store, servers, flagVars, callVars, reqVars>>

DeleteServer(h) ==
    /\ phase[h] = "disconnected"
    /\ phase' = [phase EXCEPT ![h] = "deleted"]
    /\ servers' = [servers EXCEPT ![h] = Nobody]
    /\ UNCHANGED <<cur, made, connected, saved, store, enabled, flagVars, callVars, reqVars>>

\* cfg.saved[h] is the Persister of the instance until it is copied.
copyPersister(h) ==
    /\ phase[h] = "deleted"
    /\ phase' = [phase EXCEPT ![h] = "down"]
    /\ saved' = [saved EXCEPT ![h] = store[cur[h]]]
    /\ UNCHANGED <<cur, made, connected, store, netVars, callVars, reqVars>>

\* start1 after crash1: fresh ends, a copy of the Persister, Make.
start1(h, a) ==
    /\ phase[h] = "down" /\ a \in Instance \ made /\ hostOf[a] = h
    /\ phase' = [phase EXCEPT ![h] = "made"]
    /\ cur' = [cur EXCEPT ![h] = a] /\ made' = made \cup {a}
    /\ store' = [store EXCEPT ![a] = saved[h]]
    /\ UNCHANGED <<connected, saved, netVars, callVars, reqVars>>

AddServer(h) ==
    /\ phase[h] = "made"
    /\ phase' = [phase EXCEPT ![h] = "up"]
    /\ servers' = [servers EXCEPT ![h] = cur[h]]
    /\ UNCHANGED <<cur, made, connected, saved, store, enabled, flagVars, callVars, reqVars>>

Reliable(yes) ==
    /\ reliable # yes /\ reliable' = yes
    /\ UNCHANGED <<harnessVars, store, servers, enabled, longReordering, done, callVars, reqVars>>

LongReordering(yes) ==
    /\ longReordering # yes /\ longReordering' = yes
    /\ UNCHANGED <<harnessVars, store, servers, enabled, reliable, done, callVars, reqVars>>

Cleanup ==
    /\ ~done /\ done' = TRUE
    /\ UNCHANGED <<harnessVars, store, servers, enabled, reliable, longReordering, callVars, reqVars>>

Harness(h) ==
    \/ disconnect(h) \/ connect(h) \/ crash1(h) \/ DeleteServer(h) \/ copyPersister(h)
    \/ (\E a \in Instance : start1(h, a)) \/ AddServer(h)
---------------------------------------------------------------------------
(* Calls *)

\* crash1 of the instance has begun.
crashed(a) == a # cur[hostOf[a]] \/ phase[hostOf[a]] \in {"disconnected", "deleted", "down"}

\* The dispatcher takes the request, or the end sees that the network is gone.
Call(r, a, j) ==
    /\ status[r] = "none" /\ a \in made
    /\ from' = [from EXCEPT ![r] = a] /\ to' = [to EXCEPT ![r] = j]
    /\ late' = [late EXCEPT ![r] = crashed(a)]
    /\ \/ status' = [status EXCEPT ![r] = "sent"]
       \/ done /\ status' = [status EXCEPT ![r] = "false"]
    /\ UNCHANGED <<harnessVars, store, netVars, server, lossy, reorder, handler>>

\* What is read of the network, at once, decides where the request goes.
readEndnameInfo(r) ==
    LET accepted == endname(from[r], to[r]) \in enabled /\ servers[to[r]] # Nobody
    IN  /\ status[r] = "sent"
        /\ status' = [status EXCEPT ![r] = IF accepted THEN "accepted" ELSE "refused"]
        /\ server' = [server EXCEPT ![r] = servers[to[r]]]
        /\ lossy' = (IF reliable THEN lossy ELSE lossy \cup {r})
        /\ reorder' = (IF longReordering THEN reorder \cup {r} ELSE reorder)
        /\ UNCHANGED <<harnessVars, store, netVars, callVars, handler>>

isServerDead(r) == endname(from[r], to[r]) \notin enabled \/ servers[to[r]] # server[r]

\* One step of processReq to status s.
move(r, S, s) == status[r] \in S /\ status' = [status EXCEPT ![r] = s]

\* The goroutine that calls the handler.
dispatch(r) ==
    /\ move(r, {"accepted"}, "waiting")
    /\ handler' = [handler EXCEPT ![r] = "running"]
    /\ UNCHANGED <<harnessVars, store, netVars, callVars, server, lossy, reorder>>

\* The handler persists what it was asked for.
persist(r) ==
    /\ handler[r] = "running" /\ handler' = [handler EXCEPT ![r] = "persisted"]
    /\ store' = [store EXCEPT ![server[r]] = @ \cup {r}]
    /\ UNCHANGED <<harnessVars, netVars, callVars, status, server, lossy, reorder>>

handlerReturns(r) ==
    /\ handler[r] = "persisted" /\ handler' = [handler EXCEPT ![r] = "returned"]
    /\ UNCHANGED <<harnessVars, store, netVars, callVars, status, server, lossy, reorder>>

\* The reply is taken from ech.
takeReply(r) ==
    /\ handler[r] = "returned" /\ handler' = [handler EXCEPT ![r] = "gone"]
    /\ move(r, {"waiting"}, "replied")
    /\ UNCHANGED <<harnessVars, store, netVars, callVars, server, lossy, reorder>>

\* Slip: the server is not looked at while its handler runs.
pollNothing(r) == FALSE

\* 100 ms have passed.
pollDead(r) == isServerDead(r)

\* ech is left to a goroutine that drains it.
giveUp(r) ==
    /\ move(r, {"waiting"}, "dead") /\ pollDead(r)
    /\ UNCHANGED <<harnessVars, store, netVars, callVars, server, lossy, reorder, handler>>

\* Slip: nobody reads ech any more.
drainNothing(r) == FALSE

drained(r) == status[r] \in {"dead", "false"}

drain(r) ==
    /\ handler[r] = "returned" /\ drained(r)
    /\ handler' = [handler EXCEPT ![r] = "gone"]
    /\ UNCHANGED <<harnessVars, store, netVars, callVars, status, server, lossy, reorder>>

\* The request is dropped, never had a server, or its server is dead.
replyFalse(r) ==
    /\ \/ move(r, {"refused", "dead"}, "false")
       \/ r \in lossy /\ move(r, {"accepted", "replied"}, "false")
       \/ move(r, {"replied"}, "false") /\ isServerDead(r)
    /\ UNCHANGED <<harnessVars, store, netVars, callVars, server, lossy, reorder, handler>>

\* Slip: the server is not looked at again when its handler has returned.
replyAnyway(r) ==
    /\ move(r, {"replied", "delayed"}, "true")
    /\ UNCHANGED <<harnessVars, store, netVars, callVars, server, lossy, reorder, handler>>

\* The reply of a server that is alive is sent, perhaps after a delay.
replyTrue(r) ==
    /\ \/ move(r, {"replied"}, "delayed") /\ r \in reorder /\ ~isServerDead(r)
       \/ move(r, {"replied"}, "true") /\ ~isServerDead(r)
       \/ move(r, {"delayed"}, "true")
    /\ UNCHANGED <<harnessVars, store, netVars, callVars, server, lossy, reorder, handler>>

processReq(r) ==
    readEndnameInfo(r) \/ dispatch(r) \/ takeReply(r) \/ giveUp(r) \/ replyFalse(r) \/ replyTrue(r)

RequestNext(r) ==
    processReq(r) \/ persist(r) \/ handlerReturns(r) \/ drain(r)

Next ==
    \/ \E h \in Host : Harness(h)
    \/ Cleanup
    \/ \E yes \in BOOLEAN : Reliable(yes) \/ LongReordering(yes)
    \/ \E r \in Request : RequestNext(r) \/ \E a \in Instance, j \in Host : Call(r, a, j)

Spec == Init /\ [][Next]_vars

\* The goroutines run.  Nothing says that tests crash, start or call anything.
Fairness ==
    \A r \in Request :
        /\ WF_vars(processReq(r)) /\ WF_vars(drain(r))
        /\ r \notin Hanging => WF_vars(persist(r)) /\ WF_vars(handlerReturns(r))
---------------------------------------------------------------------------
Status == {"none", "sent", "accepted", "refused", "waiting", "replied", "dead", "delayed", "true", "false"}

TypeOK ==
    /\ phase \in [Host -> {"up", "disconnected", "deleted", "down", "made"}]
    /\ cur \in [Host -> Instance] /\ \A h \in Host : hostOf[cur[h]] = h
    /\ made \subseteq Instance /\ connected \subseteq Host
    /\ store \in [Instance -> SUBSET Request] /\ saved \in [Host -> SUBSET Request]
    /\ servers \in [Host -> Instance \cup {Nobody}] /\ enabled \subseteq Instance \X Host
    /\ reliable \in BOOLEAN /\ longReordering \in BOOLEAN /\ done \in BOOLEAN
    /\ from \in [Request -> Instance \cup {Nobody}] /\ to \in [Request -> Host \cup {Nobody}]
    /\ late \in [Request -> BOOLEAN]
    /\ status \in [Request -> Status] /\ server \in [Request -> Instance \cup {Nobody}]
    /\ lossy \subseteq Request /\ reorder \subseteq Request
    /\ handler \in [Request -> {"none", "running", "persisted", "returned", "gone"}]

\* What the instance of a host that is made next will find in its Persister, if
\* crash1 began now.
Kept(h) == IF phase[h] = "down" THEN saved[h] ELSE store[cur[h]]

\* "this is needed to avoid situation in which a client gets a positive reply to
\* an Append, but the server persisted the update into the old Persister"
\* (labrpc.go:268): what a positive reply speaks of is in the state that the
\* host's later instances start with, through any number of restarts.
PositiveMeansKept ==
    \A r \in Request : status[r] \in {"delayed", "true"} => r \in Kept(to[r])

\* "so that old crashed instance's ClientEnds can't send" (raft/config.go:244):
\* what an instance calls after it was crashed is executed nowhere.
CrashedCannotSend ==
    \A r \in Request : late[r] => handler[r] = "none" /\ status[r] \in {"sent", "refused", "false"}

---------------------------------------------------------------------------
(* Why the safety properties hold, in a form that every step preserves. *)

\* A server is registered while its instance is the one of the harness and crash1
\* has not deleted it; only hosts that are up are connected.
HarnessInv ==
    \A h \in Host :
        /\ cur[h] \in made
        /\ servers[h] = IF phase[h] \in {"up", "disconnected"} THEN cur[h] ELSE Nobody
        /\ h \in connected => phase[h] = "up"

EndsInv == \A a \in Instance, j \in Host : <<a, j>> \in enabled => ~crashed(a)

RequestInv ==
    \A r \in Request :
        /\ status[r] = "none" => handler[r] = "none" /\ ~late[r]
        /\ status[r] # "none" => from[r] \in made /\ to[r] \in Host
        /\ late[r] => crashed(from[r])
        /\ status[r] \in {"sent", "refused"} => handler[r] = "none"
        /\ status[r] \in {"accepted", "waiting"} \/ handler[r] # "none" => server[r] \in made
        /\ handler[r] \in {"persisted", "returned", "gone"} => r \in store[server[r]]
        /\ status[r] = "replied" => handler[r] = "gone"

\* The inductive invariant of the network and its harness.
LabrpcInv ==
    TypeOK /\ HarnessInv /\ EndsInv /\ RequestInv /\ PositiveMeansKept /\ CrashedCannotSend
---------------------------------------------------------------------------
Returned(r) == status[r] \in {"true", "false"}

\* "Call() is guaranteed to return (perhaps after a delay) *except* if the handler
\* function on the server side does not return" (labrpc.go:37), and then too once
\* the server has been deleted or replaced (labrpc.go:247).
CallsReturn ==
    \A r \in Request :
        /\ (status[r] = "sent") ~> (Returned(r) \/ (r \in Hanging /\ handler[r] \in {"running", "persisted"}))
        /\ (status[r] = "waiting" /\ servers[to[r]] # server[r]) ~> Returned(r)

\* "drain channel to let the goroutine created earlier terminate"
\* (labrpc.go:260): a handler that returned leaves no goroutine behind, whatever
\* became of the request.
GoroutinesEnd == \A r \in Request : (handler[r] = "returned") ~> (handler[r] = "gone")
=================================================================================
