---------------------------- MODULE LoadBalancers ----------------------------
(***************************************************************************)
(* The three load balancers through which the Router of the Frontier proxy *)
(* may send a request (frontier/proxy/src/router.rs, loadbalancer.rs).     *)
(* A request takes an endpoint, waits for the upstream, and marks the      *)
(* endpoint healthy if it was answered; health reports come from others.   *)
(***************************************************************************)
EXTENDS Integers, Sequences, FiniteSets, SequencesExt

CONSTANTS
    Endpoints,     \* the endpoints, 1 .. n in the order of the configuration
    LbTasks,       \* tasks with a request or a health report
    CountMax,      \* usize::MAX
    CountLimit,    \* the limit of 1000 connections
    MaxReports     \* bound: health reports

ASSUME BalancerAssumption ==
    /\ IsFiniteSet(Endpoints) /\ Endpoints # {} /\ Endpoints = 1 .. Cardinality(Endpoints)
    /\ IsFiniteSet(LbTasks) /\ MaxReports \in Nat
    /\ CountLimit \in Nat /\ CountMax \in Nat /\ CountLimit + MaxReports < CountMax

VARIABLES
    lKind,         \* "roundrobin", "least" or "hash"
    lUnhealthy,    \* unhealthy
    lIndex,        \* index, as the number of endpoints given out
    lCount,        \* connections
    lRing,         \* the endpoints on the ring
    lTask,         \* what each task does: [at, ep, up]
    lReports,      \* health reports made
    lMarked,       \* lMarked[e]: the last report of e, "none", "up" or "down", or
                   \* "back": a good one after a bad one
    lPicks         \* round robin: the picks since the last change of health

lVars == <<lKind, lUnhealthy, lIndex, lCount, lRing, lTask, lReports, lMarked, lPicks>>

Resting == [at |-> "idle", ep |-> 1, up |-> TRUE]
LTypeOK ==
    /\ lKind \in {"roundrobin", "least", "hash"} /\ lUnhealthy \subseteq Endpoints /\ lIndex \in Nat
    /\ lCount \in [Endpoints -> 0 .. CountMax] /\ lRing \subseteq Endpoints
    /\ lTask \in [LbTasks -> [at : {"idle", "sent", "marking", "rebuild"}, ep : Endpoints, up : BOOLEAN]]

LInit ==
    /\ lKind \in {"roundrobin", "least", "hash"}
    /\ lUnhealthy = {} /\ lIndex = 0 /\ lCount = [e \in Endpoints |-> 0] /\ lRing = Endpoints
    /\ lTask = [t \in LbTasks |-> Resting] /\ lReports = 0
    /\ lMarked = [e \in Endpoints |-> "none"] /\ lPicks = <<>>
-----------------------------------------------------------------------------
(* next_endpoint                                                           *)

\* The healthy ones, all of them if there are none.
UpOrAll == IF lUnhealthy = Endpoints THEN Endpoints ELSE Endpoints \ lUnhealthy
Place(e) == Cardinality({f \in UpOrAll : f < e})

\* The one at place `index % healthy.len()` among them.
RoundRobinNext(e) ==
    /\ lKind = "roundrobin"
    /\ e \in UpOrAll /\ Place(e) = lIndex % Cardinality(UpOrAll)
    /\ lIndex' = lIndex + 1
    /\ lPicks' = Append(lPicks, e)

\* The endpoint is the first of those with the fewest connections, which
\* nobody counts.
Open == {e \in Endpoints : lCount[e] < CountLimit}
LeastNext(e) ==
    /\ lKind = "least"
    /\ e \in Open
    /\ \A f \in Open : lCount[e] < lCount[f] \/ (lCount[e] = lCount[f] /\ e <= f)
    /\ UNCHANGED <<lIndex, lPicks>>

\* get_node with the key of a random number: any endpoint on the ring.
HashNext(e) == lKind = "hash" /\ e \in lRing /\ UNCHANGED <<lIndex, lPicks>>

NextEndpoint(e) == RoundRobinNext(e) \/ LeastNext(e) \/ HashNext(e)
-----------------------------------------------------------------------------
(* Router::route                                                           *)

Route(t) ==
    /\ lTask[t].at = "idle" /\ lIndex < MaxReports + Cardinality(Endpoints)
    /\ \E e \in Endpoints :
         /\ NextEndpoint(e)
         /\ lTask' = [lTask EXCEPT ![t] = [at |-> "sent", ep |-> e, up |-> TRUE]]
    /\ UNCHANGED <<lKind, lUnhealthy, lCount, lRing, lReports, lMarked>>

\* The upstream answers and the endpoint is marked healthy; or the request
\* fails, and nothing is marked.
Answered(t) ==
    /\ lTask[t].at = "sent" /\ lReports < MaxReports
    /\ lTask' = [lTask EXCEPT ![t].at = "marking"]
    /\ lReports' = lReports + 1
    /\ UNCHANGED <<lKind, lUnhealthy, lIndex, lCount, lRing, lMarked, lPicks>>
RequestFails(t) ==
    /\ lTask[t].at = "sent"
    /\ lTask' = [lTask EXCEPT ![t] = Resting]
    /\ UNCHANGED <<lKind, lUnhealthy, lIndex, lCount, lRing, lReports, lMarked, lPicks>>

\* Somebody reports an endpoint's health.
Report(t) ==
    /\ lTask[t].at = "idle" /\ lReports < MaxReports
    /\ \E e \in Endpoints, up \in BOOLEAN : lTask' = [lTask EXCEPT ![t] = [at |-> "marking", ep |-> e, up |-> up]]
    /\ lReports' = lReports + 1
    /\ UNCHANGED <<lKind, lUnhealthy, lIndex, lCount, lRing, lMarked, lPicks>>
-----------------------------------------------------------------------------
(* mark_healthy and mark_unhealthy                                         *)

Marked(t) ==
    lMarked' = [lMarked EXCEPT ![lTask[t].ep] =
                  IF ~lTask[t].up THEN "down" ELSE IF @ \in {"down", "back"} THEN "back" ELSE "up"]
MarkSet(t) ==
    /\ lTask[t].at = "marking" /\ lKind # "least"
    /\ lUnhealthy' = IF lTask[t].up THEN lUnhealthy \ {lTask[t].ep} ELSE lUnhealthy \cup {lTask[t].ep}
    /\ lPicks' = IF lUnhealthy' = lUnhealthy THEN lPicks ELSE <<>>
    /\ lTask' = [lTask EXCEPT ![t] = IF lKind = "hash" THEN [@ EXCEPT !.at = "rebuild"] ELSE Resting]
    /\ Marked(t)
    /\ UNCHANGED <<lKind, lIndex, lCount, lRing, lReports>>

\* One is taken off without looking whether there is one.
MarkCountUnchecked(t) ==
    /\ lTask[t].at = "marking" /\ lKind = "least"
    /\ lCount' = [lCount EXCEPT ![lTask[t].ep] = IF lTask[t].up THEN @ - 1 ELSE CountMax]
    /\ lTask' = [lTask EXCEPT ![t] = Resting]
    /\ Marked(t)
    /\ UNCHANGED <<lKind, lUnhealthy, lIndex, lRing, lReports, lPicks>>
\* An endpoint that is marked unhealthy has the largest count there is, and a
\* healthy one has one less than before.
MarkCount(t) ==
    /\ lTask[t].at = "marking" /\ lKind = "least"
    /\ lCount' = [lCount EXCEPT ![lTask[t].ep] = IF ~lTask[t].up THEN CountMax ELSE IF @ = 0 THEN 0 ELSE @ - 1]
    /\ lTask' = [lTask EXCEPT ![t] = Resting]
    /\ Marked(t)
    /\ UNCHANGED <<lKind, lUnhealthy, lIndex, lRing, lReports, lPicks>>

\* Only what is new to the ring is put there.
RebuildRingAdds(t) ==
    /\ lTask[t].at = "rebuild"
    /\ lRing' = lRing \cup UpOrAll
    /\ lTask' = [lTask EXCEPT ![t] = Resting]
    /\ UNCHANGED <<lKind, lUnhealthy, lIndex, lCount, lReports, lMarked, lPicks>>
\* rebuild_ring holds the set for reading until the ring is done.
RebuildRing(t) ==
    /\ lTask[t].at = "rebuild"
    /\ lRing' = UpOrAll
    /\ lTask' = [lTask EXCEPT ![t] = Resting]
    /\ UNCHANGED <<lKind, lUnhealthy, lIndex, lCount, lReports, lMarked, lPicks>>

LNext == \E t \in LbTasks : Route(t) \/ Answered(t) \/ RequestFails(t) \/ Report(t)
                               \/ MarkSet(t) \/ MarkCount(t) \/ RebuildRing(t)

LSpec == LInit /\ [][LNext]_lVars
-----------------------------------------------------------------------------
\* Where nobody is in the middle of a report, the endpoints a balancer chooses
\* from are those whose last report was good, or that have none, or all if none
\* is left.  A least-connections balancer never takes an endpoint back that was
\* once reported unhealthy.
ChoosesTheHealthy ==
    (\A t \in LbTasks : lTask[t].at \notin {"marking", "rebuild"}) =>
       LET up == {e \in Endpoints : lMarked[e] # "down"}
           fit == IF up = {} THEN Endpoints ELSE up
       IN  CASE lKind = "roundrobin" -> UpOrAll = fit
             [] lKind = "hash"       -> lRing = fit
             [] lKind = "least"      -> \A e \in Open : lMarked[e] \in {"none", "up"}

\* Round robin gives every endpoint its turn: among as many successive picks
\* as there are endpoints to choose from, no two are the same.
EachInTurn ==
    \A i, j \in DOMAIN lPicks : i < j /\ j < i + Cardinality(UpOrAll) => lPicks[i] # lPicks[j]

\* The balancers, together.
RoutingSound == ChoosesTheHealthy /\ EachInTurn
=============================================================================
