--------------------------------- MODULE MCLabrpc -------------------------------
(***************************************************************************)
(* Labrpc on two hosts, one of which is restarted once: only the instances *)
(* listed exist.                                                           *)
(***************************************************************************)
EXTENDS Labrpc, FiniteSets

VARIABLE bound      \* the instance: what limits this behaviour

mcVars == <<vars, bound>>

mcInstance == {"a1", "a2", "b1"}
mcHostOf == [a \in mcInstance |-> IF a = "b1" THEN "h2" ELSE "h1"]
mcFirst == [h \in {"h1", "h2"} |-> IF h = "h1" THEN "a1" ELSE "b1"]

(***************************************************************************)
(* Calls: the instances and hosts that a Call may be between.  Request: the *)
(* calls.  Flags: the tests change Reliable and LongReordering, and clean   *)
(* up.                                                                      *)
(***************************************************************************)
TwoCalls == [Calls |-> {<<"b1", "h1">>}, Request |-> Request, Flags |-> FALSE]

UnreliableCall(r) ==
    [Calls |-> {<<"a1", "h2">>}, Request |-> {r}, Flags |-> TRUE]

mcInit == Init /\ bound \in {TwoCalls} \cup {UnreliableCall(r) : r \in Request \ Hanging}

mcNext ==
    /\ \/ \E h \in Host : Harness(h)
       \/ bound.Flags /\ (Cleanup \/ \E yes \in BOOLEAN : Reliable(yes) \/ LongReordering(yes))
       \/ \E r \in bound.Request : RequestNext(r) \/ \E c \in bound.Calls : Call(r, c[1], c[2])
    /\ UNCHANGED bound

mcSpec == mcInit /\ [][mcNext]_mcVars

mcFairSpec == mcSpec /\ Fairness
=================================================================================
