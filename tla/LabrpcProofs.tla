------------------------------- MODULE LabrpcProofs ------------------------------
(***************************************************************************)
(* What a positive reply means, and that a crashed instance is cut off,    *)
(* for any number of hosts, restarts and calls.                            *)
(***************************************************************************)
EXTENDS Labrpc, TLAPS

\* make_config leaves a network that satisfies the invariant.
LEMMA InitInv == Init => LabrpcInv
<1> SUFFICES ASSUME Init PROVE LabrpcInv
  OBVIOUS
<1> USE InstanceAssumption DEF Init
<1>1. TypeOK
  <2>1. made \subseteq Instance /\ enabled \subseteq Instance \X Host OBVIOUS
  <2> QED BY Zenon, <2>1 DEF TypeOK, Status
<1>2. HarnessInv BY Zenon DEF HarnessInv
<1>3. EndsInv BY DEF EndsInv, crashed
<1>4. RequestInv BY DEF RequestInv
<1>5. PositiveMeansKept /\ CrashedCannotSend BY DEF PositiveMeansKept, CrashedCannotSend
<1> QED BY <1>1, <1>2, <1>3, <1>4, <1>5 DEF LabrpcInv

\* An instance that was crashed stays so while the harness works, and one that the
\* network serves is not crashed.
LEMMA HarnessStep ==
    ASSUME LabrpcInv, NEW h \in Host, Harness(h)
    PROVE  LabrpcInv'
<1> USE InstanceAssumption DEF LabrpcInv
<1>1. CASE disconnect(h)
  <2>1. TypeOK' /\ HarnessInv' /\ EndsInv' BY <1>1 DEF disconnect, TypeOK, HarnessInv, EndsInv, crashed, reqVars, callVars, flagVars
  <2>2. RequestInv' BY <1>1 DEF disconnect, RequestInv, crashed, reqVars, callVars
  <2>3. PositiveMeansKept' /\ CrashedCannotSend'
    BY <1>1 DEF disconnect, PositiveMeansKept, CrashedCannotSend, Kept, reqVars, callVars
  <2> QED BY <2>1, <2>2, <2>3
<1>2. CASE connect(h)
  <2>1. TypeOK' BY <1>2 DEF connect, TypeOK, endname, reqVars, callVars, flagVars
  <2>2. HarnessInv' BY <1>2 DEF connect, HarnessInv
  <2>3. EndsInv'
    <3>1. \A j \in connected' : ~crashed(cur[j])
      BY <1>2 DEF connect, crashed, HarnessInv, TypeOK
    <3>2. h \in connected' BY <1>2 DEF connect
    <3>3. \A a \in Instance : crashed(a)' = crashed(a) BY <1>2 DEF connect, crashed
    <3>4. ASSUME NEW a \in Instance, NEW j \in Host, <<a, j>> \in enabled'
          PROVE  ~crashed(a)
      BY <1>2, <3>1, <3>2, <3>4 DEF connect, endname, EndsInv
    <3> QED BY <3>3, <3>4 DEF EndsInv
  <2>4. RequestInv' BY <1>2 DEF connect, RequestInv, crashed, reqVars, callVars
  <2>5. PositiveMeansKept' /\ CrashedCannotSend'
    BY <1>2 DEF connect, PositiveMeansKept, CrashedCannotSend, Kept, reqVars, callVars
  <2> QED BY <2>1, <2>2, <2>3, <2>4, <2>5
<1>3. CASE crash1(h)
  <2>1. TypeOK' /\ HarnessInv' BY <1>3 DEF crash1, TypeOK, HarnessInv, reqVars, callVars, flagVars
  <2>2. EndsInv' BY <1>3 DEF crash1, EndsInv, crashed, endnames, endname, TypeOK
  <2>3. RequestInv' BY <1>3 DEF crash1, RequestInv, crashed, TypeOK, reqVars, callVars
  <2>4. PositiveMeansKept' /\ CrashedCannotSend'
    BY <1>3 DEF crash1, PositiveMeansKept, CrashedCannotSend, Kept, TypeOK, reqVars, callVars
  <2> QED BY <2>1, <2>2, <2>3, <2>4
<1>4. CASE DeleteServer(h)
  <2>1. TypeOK' /\ HarnessInv' BY <1>4 DEF DeleteServer, TypeOK, HarnessInv, reqVars, callVars, flagVars
  <2>2. EndsInv' BY <1>4 DEF DeleteServer, EndsInv, crashed, TypeOK
  <2>3. RequestInv' BY <1>4 DEF DeleteServer, RequestInv, crashed, TypeOK, reqVars, callVars
  <2>4. PositiveMeansKept' /\ CrashedCannotSend'
    BY <1>4 DEF DeleteServer, PositiveMeansKept, CrashedCannotSend, Kept, TypeOK, reqVars, callVars
  <2> QED BY <2>1, <2>2, <2>3, <2>4
<1>5. CASE copyPersister(h)
  <2>1. TypeOK' /\ HarnessInv'
    BY <1>5 DEF copyPersister, TypeOK, HarnessInv, netVars, reqVars, callVars, flagVars
  <2>2. EndsInv' BY <1>5 DEF copyPersister, EndsInv, crashed, TypeOK, netVars
  <2>3. RequestInv' BY <1>5 DEF copyPersister, RequestInv, crashed, TypeOK, reqVars, callVars
  <2>4. PositiveMeansKept' /\ CrashedCannotSend'
    BY <1>5 DEF copyPersister, PositiveMeansKept, CrashedCannotSend, Kept, TypeOK, reqVars, callVars
  <2> QED BY <2>1, <2>2, <2>3, <2>4
<1>6. ASSUME NEW a \in Instance, start1(h, a) PROVE LabrpcInv'
  <2> USE <1>6
  <2>1. TypeOK' BY DEF start1, TypeOK, netVars, reqVars, callVars, flagVars
  <2>2. HarnessInv' BY DEF start1, TypeOK, HarnessInv, netVars
  <2>3. \A b \in made : crashed(b) => crashed(b)'
    BY DEF start1, TypeOK, crashed
  <2>4. crashed(a) BY DEF start1, TypeOK, HarnessInv, crashed
  <2>5. EndsInv'
    <3>1. \A b \in Instance : ~crashed(b) => ~crashed(b)' BY <2>4 DEF start1, TypeOK, crashed
    <3> QED BY <3>1 DEF start1, EndsInv, netVars
  <2>6. \A b \in made : store'[b] = store[b] BY ZenonT(60) DEF start1, TypeOK
  <2>7. RequestInv'
    <3> SUFFICES ASSUME NEW r \in Request PROVE RequestInv!(r)'
      BY DEF RequestInv
    <3>1. RequestInv!(r) BY DEF RequestInv
    <3>2. /\ status' = status /\ handler' = handler /\ server' = server
          /\ from' = from /\ to' = to /\ late' = late /\ made' = made \cup {a}
      BY DEF start1, reqVars, callVars
    <3>3. handler[r] # "none" => store'[server[r]] = store[server[r]] BY <2>6, <3>1
    <3>4. late[r] => crashed(from[r])' BY ZenonT(60), <2>3, <3>1, <3>2 DEF TypeOK
    <3> QED BY <3>1, <3>2, <3>3, <3>4
  <2>8. PositiveMeansKept'
    <3>1. \A k \in Host : Kept(k)' = Kept(k)
      <4> SUFFICES ASSUME NEW k \in Host PROVE Kept(k)' = Kept(k)
        OBVIOUS
      <4>1. CASE k = h BY <4>1 DEF start1, Kept, TypeOK
      <4>2. CASE k # h BY <4>2, <2>6 DEF start1, Kept, TypeOK, HarnessInv
      <4> QED BY <4>1, <4>2
    <3> QED BY <3>1 DEF start1, PositiveMeansKept, RequestInv, reqVars, callVars
  <2>9. CrashedCannotSend' BY DEF start1, CrashedCannotSend, reqVars, callVars
  <2> QED BY <2>1, <2>2, <2>5, <2>7, <2>8, <2>9
<1>7. CASE AddServer(h)
  <2>1. TypeOK' /\ HarnessInv' BY SMTT(40), ZenonT(60), <1>7 DEF AddServer, TypeOK, HarnessInv, reqVars, callVars, flagVars
  <2>2. EndsInv' BY ZenonT(60), <1>7 DEF AddServer, EndsInv, crashed, TypeOK
  <2>3. RequestInv' BY <1>7 DEF AddServer, RequestInv, crashed, TypeOK, reqVars, callVars
  <2>4. PositiveMeansKept' /\ CrashedCannotSend'
    BY SMTT(40), <1>7 DEF AddServer, PositiveMeansKept, CrashedCannotSend, Kept, TypeOK, reqVars, callVars
  <2> QED BY <2>1, <2>2, <2>3, <2>4
<1> QED BY <1>1, <1>2, <1>3, <1>4, <1>5, <1>6, <1>7 DEF Harness

\* A step of processReq, or of a handler, speaks of its own request only.  A
\* handler may add to what an instance has persisted.
LEMMA RequestStep ==
    ASSUME LabrpcInv, NEW r \in Request, TypeOK',
           UNCHANGED <<harnessVars, netVars, callVars>>,
           \A q \in Request \ {r} : /\ status'[q] = status[q] /\ handler'[q] = handler[q]
                                    /\ server'[q] = server[q],
           \A a \in Instance : store[a] \subseteq store'[a],
           status[r] # "none", status'[r] # "none",
           late[r] => handler'[r] = "none" /\ status'[r] \in {"sent", "refused", "false"},
           status'[r] \in {"sent", "refused"} => handler'[r] = "none",
           status'[r] \in {"accepted", "waiting"} \/ handler'[r] # "none" => server'[r] \in made,
           handler'[r] \in {"persisted", "returned", "gone"} => r \in store'[server'[r]],
           status'[r] = "replied" => handler'[r] = "gone",
           status'[r] \in {"delayed", "true"} => r \in Kept(to[r])
    PROVE  LabrpcInv'
<1> USE DEF LabrpcInv
<1>1. HarnessInv' BY DEF HarnessInv, harnessVars, netVars
<1>2. \A a \in Instance : crashed(a)' = crashed(a) BY DEF crashed, harnessVars
<1>3. EndsInv' BY ZenonT(60), <1>2 DEF EndsInv, netVars
<1>4. made' = made /\ made \subseteq Instance BY ZenonT(60) DEF harnessVars, TypeOK
<1>5. from' = from /\ to' = to /\ late' = late BY ZenonT(60) DEF callVars
<1>6. \A h \in Host : Kept(h) \subseteq Kept(h)' BY ZenonT(60) DEF Kept, harnessVars, TypeOK
<1>7. RequestInv'
  <2> SUFFICES ASSUME NEW q \in Request PROVE RequestInv!(q)'
    BY ZenonT(60) DEF RequestInv
  <2>1. RequestInv!(q) BY ZenonT(60) DEF RequestInv
  <2>2. late'[q] => crashed(from[q])' BY ZenonT(60), <1>2, <1>4, <1>5, <2>1 DEF TypeOK
  <2>3. CASE q = r BY ZenonT(60), <1>4, <1>5, <2>1, <2>2, <2>3
  <2>4. CASE q # r BY <1>4, <1>5, <2>1, <2>2, <2>4
  <2> QED BY ZenonT(60), <2>3, <2>4
<1>8. PositiveMeansKept'
  <2> SUFFICES ASSUME NEW q \in Request, status'[q] \in {"delayed", "true"}
               PROVE  q \in Kept(to[q])'
    BY <1>5 DEF PositiveMeansKept
  <2>1. to[q] \in Host BY DEF RequestInv
  <2>2. q \in Kept(to[q]) BY DEF PositiveMeansKept
  <2> QED BY <1>5, <1>6, <2>1, <2>2 DEF Kept
<1>9. CrashedCannotSend' BY <1>5 DEF CrashedCannotSend
<1> QED BY <1>1, <1>3, <1>7, <1>8, <1>9

\* A request that the network works on has been called, and of a server that is
\* alive, what its handler persisted is what the host will keep.
LEMMA AliveKeeps ==
    ASSUME LabrpcInv, NEW r \in Request, status[r] = "replied", ~isServerDead(r)
    PROVE  r \in Kept(to[r])
<1> USE DEF LabrpcInv
<1>1. to[r] \in Host /\ server[r] \in made /\ r \in store[server[r]] BY DEF RequestInv
<1>2. servers[to[r]] = server[r] /\ server[r] # Nobody
  BY <1>1, InstanceAssumption DEF isServerDead, TypeOK
<1>3. phase[to[r]] \in {"up", "disconnected"} /\ cur[to[r]] = server[r] BY <1>1, <1>2 DEF HarnessInv
<1> QED BY ZenonT(60), <1>1, <1>3 DEF Kept

\* The steps of a request after Call.
LEMMA RequestNextStep ==
    ASSUME LabrpcInv, NEW r \in Request, RequestNext(r)
    PROVE  LabrpcInv'
<1> USE DEF LabrpcInv
<1>0. RequestInv!(r) /\ CrashedCannotSend!(r) /\ PositiveMeansKept!(r)
  BY SMTT(60) DEF RequestInv, CrashedCannotSend, PositiveMeansKept
<1>1. CASE readEndnameInfo(r)
  <2>1. TypeOK'
    BY ZenonT(60), <1>1, <1>0 DEF readEndnameInfo, TypeOK, Status, harnessVars, netVars, flagVars, callVars
  <2>2. late[r] => status'[r] = "refused"
    BY ZenonT(60), <1>1, <1>0 DEF readEndnameInfo, EndsInv, endname, TypeOK
  <2>3. status'[r] = "accepted" => server'[r] \in made
    BY ZenonT(60), <1>1, <1>0 DEF readEndnameInfo, HarnessInv, TypeOK
  <2>4. status'[r] \in {"accepted", "refused"} /\ status[r] = "sent" /\ handler' = handler /\ store' = store
    BY SMTT(60), <1>1 DEF readEndnameInfo, TypeOK
  <2> QED BY ZenonT(60), <1>1, <1>0, <2>1, <2>2, <2>3, <2>4, RequestStep DEF readEndnameInfo, TypeOK
<1>2. CASE dispatch(r)
  <2>1. TypeOK' BY ZenonT(60), <1>2 DEF dispatch, move, TypeOK, Status, harnessVars, netVars, flagVars, callVars
  <2>2. /\ status[r] = "accepted" /\ status'[r] = "waiting" /\ handler'[r] = "running"
        /\ server' = server /\ store' = store
    BY <1>2 DEF dispatch, move, TypeOK
  <2>3. ~late[r] /\ server[r] \in made BY SMTT(60), <1>0, <2>2
  <2> QED BY ZenonT(60), <1>2, <2>1, <2>2, <2>3, RequestStep DEF dispatch, move, TypeOK
<1>3. CASE persist(r)
  <2>1. status[r] # "none" /\ server[r] \in Instance BY ZenonT(60), <1>3, <1>0 DEF persist, TypeOK
  <2>2. TypeOK' BY SMTT(60), <1>3, <2>1 DEF persist, TypeOK, harnessVars, netVars, flagVars, callVars
  <2>3. r \in store'[server[r]] /\ \A a \in Instance : store[a] \subseteq store'[a]
    BY ZenonT(60), <1>3, <2>1 DEF persist, TypeOK
  <2>4. handler'[r] = "persisted" /\ status' = status /\ server' = server /\ handler[r] = "running"
    BY SMTT(60), <1>3 DEF persist, TypeOK
  <2> QED BY ZenonT(60), <1>3, <1>0, <2>1, <2>2, <2>3, <2>4, RequestStep DEF persist, TypeOK
<1>4. CASE handlerReturns(r)
  <2>1. TypeOK' BY ZenonT(60), <1>4 DEF handlerReturns, TypeOK, harnessVars, netVars, flagVars, callVars
  <2> QED BY ZenonT(60), <1>4, <1>0, <2>1, RequestStep DEF handlerReturns, TypeOK
<1>5. CASE takeReply(r)
  <2>1. TypeOK' BY ZenonT(60), <1>5 DEF takeReply, move, TypeOK, Status, harnessVars, netVars, flagVars, callVars
  <2>2. /\ status[r] = "waiting" /\ status'[r] = "replied" /\ handler[r] = "returned" /\ handler'[r] = "gone"
        /\ server' = server /\ store' = store
    BY <1>5 DEF takeReply, move, TypeOK
  <2>3. ~late[r] /\ server[r] \in made /\ r \in store[server[r]] BY SMTT(60), <1>0, <2>2
  <2> QED BY ZenonT(60), <1>5, <2>1, <2>2, <2>3, RequestStep DEF takeReply, move, TypeOK
<1>6. CASE giveUp(r)
  <2>1. TypeOK' BY ZenonT(60), <1>6 DEF giveUp, move, TypeOK, Status, harnessVars, netVars, flagVars, callVars
  <2>2. /\ status[r] = "waiting" /\ status'[r] = "dead"
        /\ handler' = handler /\ server' = server /\ store' = store
    BY <1>6 DEF giveUp, move, TypeOK
  <2>3. ~late[r] BY SMTT(60), <1>0, <2>2
  <2> QED BY ZenonT(60), <1>6, <1>0, <2>1, <2>2, <2>3, RequestStep DEF giveUp, move, TypeOK
<1>7. CASE drain(r)
  <2>1. TypeOK' BY SMTT(60), <1>7 DEF drain, TypeOK, harnessVars, netVars, flagVars, callVars
  <2> QED BY ZenonT(60), <1>7, <1>0, <2>1, RequestStep DEF drain, drained, TypeOK
<1>8. CASE replyFalse(r)
  <2>1. /\ status[r] \in {"refused", "dead", "accepted", "replied"}
        /\ status' = [status EXCEPT ![r] = "false"]
    BY <1>8 DEF replyFalse, move
  <2>2. TypeOK' BY ZenonT(60), <1>8, <2>1 DEF replyFalse, TypeOK, Status, harnessVars, netVars, flagVars, callVars
  <2>3. status'[r] = "false" /\ handler' = handler /\ server' = server /\ store' = store
    BY ZenonT(60), <1>8, <2>1 DEF replyFalse, TypeOK
  <2> QED BY ZenonT(60), <1>8, <1>0, <2>1, <2>2, <2>3, RequestStep DEF replyFalse, TypeOK
<1>9. CASE replyTrue(r)
  <2>1. PICK s \in {"delayed", "true"} : status' = [status EXCEPT ![r] = s]
    BY ZenonT(60), <1>9 DEF replyTrue, move
  <2>2. status[r] \in {"replied", "delayed"} /\ r \in Kept(to[r])
    BY ZenonT(60), <1>9, <1>0, AliveKeeps DEF replyTrue, move
  <2>3. TypeOK' BY ZenonT(60), <1>9, <2>1 DEF replyTrue, TypeOK, Status, harnessVars, netVars, flagVars, callVars
  <2>4. status'[r] = s /\ ~late[r] BY <1>0, <2>1, <2>2 DEF TypeOK
  <2> QED BY Zenon, <1>9, <1>0, <2>1, <2>2, <2>3, <2>4, RequestStep DEF replyTrue, TypeOK
<1> QED BY ZenonT(60), <1>1, <1>2, <1>3, <1>4, <1>5, <1>6, <1>7, <1>8, <1>9 DEF RequestNext, processReq

\* A step that leaves a request, and what the instances have persisted, as they are.
LEMMA SameRequest ==
    ASSUME NEW q \in Request, RequestInv!(q),
           status'[q] = status[q], handler'[q] = handler[q], server'[q] = server[q],
           from'[q] = from[q], to'[q] = to[q], late'[q] = late[q], store' = store, made' = made,
           late[q] => crashed(from[q])'
    PROVE  RequestInv!(q)'
<1>1. /\ status'[q] = "none" => handler'[q] = "none" /\ ~late'[q]
      /\ status'[q] # "none" => from'[q] \in made' /\ to'[q] \in Host
  BY Zenon
<1>2. late'[q] => crashed(from[q])'
  BY Zenon
<1>3. status'[q] \in {"sent", "refused"} => handler'[q] = "none"
  BY Zenon
<1>4. status'[q] \in {"accepted", "waiting"} \/ handler'[q] # "none" => server'[q] \in made'
  BY Zenon
<1>5. handler'[q] \in {"persisted", "returned", "gone"} => q \in store'[server'[q]]
  BY Zenon
<1>6. status'[q] = "replied" => handler'[q] = "gone"
  BY Zenon
<1> QED BY Zenon, <1>1, <1>2, <1>3, <1>4, <1>5, <1>6

\* Call, from an instance that runs or one that was crashed and does not know it.
LEMMA CallStep ==
    ASSUME LabrpcInv, NEW r \in Request, NEW a \in Instance, NEW j \in Host, Call(r, a, j)
    PROVE  LabrpcInv'
<1> USE DEF LabrpcInv
<1>0. RequestInv!(r) BY DEF RequestInv
<1>1. /\ status[r] = "none" /\ a \in made
      /\ from' = [from EXCEPT ![r] = a] /\ to' = [to EXCEPT ![r] = j]
      /\ late' = [late EXCEPT ![r] = crashed(a)]
      /\ server' = server /\ handler' = handler /\ store' = store /\ made' = made
      /\ cur' = cur /\ phase' = phase /\ saved' = saved
  BY DEF Call, harnessVars
<1>2. PICK s \in {"sent", "false"} : status' = [status EXCEPT ![r] = s] BY ZenonT(60) DEF Call
<1>3. TypeOK'
  <2>1. crashed(a) \in BOOLEAN BY Zenon DEF crashed
  <2> QED BY <1>1, <1>2, <2>1 DEF Call, TypeOK, Status, harnessVars, netVars, flagVars
<1>4. HarnessInv' BY ZenonT(60) DEF Call, HarnessInv, harnessVars, netVars
<1>5. \A b \in Instance : crashed(b)' = crashed(b) BY ZenonT(60), <1>1 DEF crashed
<1>6. EndsInv' BY ZenonT(60), <1>5 DEF Call, EndsInv, netVars
<1>7. RequestInv'
  <2> SUFFICES ASSUME NEW q \in Request PROVE RequestInv!(q)'
    BY ZenonT(60) DEF RequestInv
  <2>1. RequestInv!(q) BY ZenonT(60) DEF RequestInv
  <2>2. CASE q = r
    <3>1. from'[r] = a /\ to'[r] = j /\ late'[r] = crashed(a) /\ status'[r] = s
      BY <1>1, <1>2 DEF TypeOK
    <3>2. handler'[r] = "none"
      BY ZenonT(60), <1>0, <1>1
    <3>3. from'[r] \in made' /\ to'[r] \in Host
      <4>1. a \in made' BY ZenonT(60), <1>1
      <4> QED BY ZenonT(60), <3>1, <4>1
    <3>4. status'[r] \notin {"none", "accepted", "waiting", "replied"}
      BY ZenonT(60), <3>1
    <3>5. crashed(a) => crashed(from[r])'
      BY ZenonT(60), <1>1, <3>1 DEF crashed
    <3>6. late'[r] => crashed(from[r])'
      BY ZenonT(60), <3>1, <3>5
    <3> QED BY ZenonT(60), <2>2, <3>2, <3>3, <3>4, <3>6
  <2>3. CASE q # r
    <3>1. from'[q] = from[q] /\ to'[q] = to[q] /\ late'[q] = late[q] /\ status'[q] = status[q]
      BY ZenonT(60), <1>1, <1>2, <2>3 DEF TypeOK
    <3>2. late[q] => crashed(from[q])' BY ZenonT(60), <1>1, <2>1, <3>1 DEF crashed
    <3>3. handler'[q] = handler[q] /\ server'[q] = server[q] /\ store' = store /\ made' = made
      BY Zenon, <1>1
    <3> QED BY ZenonT(60), <2>1, <3>1, <3>2, <3>3, SameRequest
  <2> QED BY ZenonT(60), <2>2, <2>3
<1>8. PositiveMeansKept' BY ZenonT(60), <1>1, <1>2 DEF PositiveMeansKept, Kept, TypeOK
<1>9. CrashedCannotSend' BY SMTT(60), <1>0, <1>1, <1>2 DEF CrashedCannotSend, TypeOK
<1> QED BY ZenonT(60), <1>3, <1>4, <1>6, <1>7, <1>8, <1>9

\* Changing how unreliable the network is, and destroying it, affects no request.
LEMMA FlagStep ==
    ASSUME LabrpcInv, Cleanup \/ \E yes \in BOOLEAN : Reliable(yes) \/ LongReordering(yes)
    PROVE  LabrpcInv'
<1>1. /\ UNCHANGED <<harnessVars, store, servers, enabled, callVars, reqVars>>
      /\ reliable' \in BOOLEAN /\ longReordering' \in BOOLEAN /\ done' \in BOOLEAN
  BY Zenon DEF LabrpcInv, TypeOK, Cleanup, Reliable, LongReordering
<1> QED BY ZenonT(60), <1>1
   DEF LabrpcInv, TypeOK, HarnessInv, EndsInv, RequestInv, PositiveMeansKept, CrashedCannotSend,
       crashed, Kept, harnessVars, callVars, reqVars

\* The invariant holds of the network and its harness in every reachable state.
THEOREM Invariance == Spec => []LabrpcInv
<1>1. LabrpcInv /\ [Next]_vars => LabrpcInv'
  <2> SUFFICES ASSUME LabrpcInv, [Next]_vars PROVE LabrpcInv'
    BY Zenon
  <2>1. CASE UNCHANGED vars
    BY ZenonT(60), <2>1
    DEF vars, LabrpcInv, TypeOK, HarnessInv, EndsInv, RequestInv, PositiveMeansKept, CrashedCannotSend,
        crashed, Kept, harnessVars, netVars, flagVars, callVars, reqVars
  <2>2. CASE Next BY <2>2, HarnessStep, FlagStep, RequestNextStep, CallStep DEF Next
  <2> QED BY <2>1, <2>2
<1> QED BY InitInv, <1>1, PTL DEF Spec

\* What was answered positively is in the state that every later instance of the
\* server starts with (labrpc.go:267, config.go:105).
THEOREM PositiveMeansKeptHolds == Spec => []PositiveMeansKept
<1>1. LabrpcInv => PositiveMeansKept BY DEF LabrpcInv
<1> QED BY Invariance, <1>1, PTL

\* What a crashed instance calls is executed nowhere (config.go:243).
THEOREM CrashedCannotSendHolds == Spec => []CrashedCannotSend
<1>1. LabrpcInv => CrashedCannotSend BY DEF LabrpcInv
<1> QED BY Invariance, <1>1, PTL
=================================================================================
