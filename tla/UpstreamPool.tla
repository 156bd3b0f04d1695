---------------------------- MODULE UpstreamPool ----------------------------
(***************************************************************************)
(* UpstreamPool of the Frontier proxy (frontier/proxy/src/upstream.rs): a  *)
(* list of healthy and one of unhealthy endpoints, each behind a lock, the *)
(* reports that move an endpoint from one to the other, taking the locks   *)
(* in opposite orders, and the health check.                               *)
(***************************************************************************)
EXTENDS Integers, FiniteSets

CONSTANTS
    PoolEndpoints, \* UpstreamConfig.endpoints
    Checkers,      \* tasks in run_health_checks
    Reporters,     \* tasks that call mark_healthy and mark_unhealthy
    MaxMarks       \* bound: calls of mark_healthy and mark_unhealthy, and checks

PoolTasks == Checkers \cup Reporters
Nobody == "nobody"

ASSUME PoolAssumption ==
    /\ MaxMarks \in Nat
    /\ PoolEndpoints # {}
    /\ Checkers \cap Reporters = {} /\ Nobody \notin PoolTasks

VARIABLES
    uHealthy,      \* healthy_endpoints
    uUnhealthy,    \* unhealthy_endpoints: how often each is listed
    uHLock,        \* who holds the lock of each
    uULock,
    uTask,         \* [at, ep, rest, down]: rest and down are locals of health_check
    uMarks

uVars == <<uHealthy, uUnhealthy, uHLock, uULock, uTask, uMarks>>

NoTask(e) == [at |-> "idle", ep |-> e, rest |-> {}, down |-> {}]
MarkSteps == {"idle", "probe", "next", "down1", "down2", "up1", "up2"}

UTypeOK ==
    /\ uHealthy \subseteq PoolEndpoints /\ uUnhealthy \in [PoolEndpoints -> Nat]
    /\ uHLock \in PoolTasks \cup {Nobody} /\ uULock \in PoolTasks \cup {Nobody}
    /\ uTask \in [PoolTasks -> [at : MarkSteps, ep : PoolEndpoints, rest : SUBSET PoolEndpoints, down : SUBSET PoolEndpoints]]

UInit ==
    /\ uHealthy = PoolEndpoints /\ uUnhealthy = [e \in PoolEndpoints |-> 0]
    /\ uHLock = Nobody /\ uULock = Nobody
    /\ uTask = [t \in PoolTasks |-> NoTask(CHOOSE e \in PoolEndpoints : TRUE)] /\ uMarks = 0

At(t, at) == uTask[t].at = at
Goto(t, at) == uTask' = [uTask EXCEPT ![t].at = at]
-----------------------------------------------------------------------------
(* health_check                                                            *)

\* The list is read, and the lock released before the first connect.
StartCheck(t) ==
    /\ At(t, "idle") /\ uMarks < MaxMarks /\ uHLock = Nobody
    /\ uMarks' = uMarks + 1
    /\ uTask' = [uTask EXCEPT ![t] = [@ EXCEPT !.at = "probe", !.rest = uHealthy, !.down = {}]]
    /\ UNCHANGED <<uHealthy, uUnhealthy, uHLock, uULock>>

\* A connect succeeds, or fails or times out.
Probe(t) ==
    /\ At(t, "probe")
    /\ IF uTask[t].rest = {} THEN Goto(t, "next")
       ELSE \E e \in uTask[t].rest, down \in BOOLEAN :
              uTask' = [uTask EXCEPT ![t].rest = @ \ {e}, ![t].down = IF down THEN @ \cup {e} ELSE @]
    /\ UNCHANGED <<uHealthy, uUnhealthy, uHLock, uULock, uMarks>>

\* Those that failed are marked one by one.
MarkNext(t) ==
    /\ At(t, "next")
    /\ IF uTask[t].down = {} THEN Goto(t, "idle")
       ELSE \E e \in uTask[t].down : uTask' = [uTask EXCEPT ![t].at = "down1", ![t].ep = e, ![t].down = @ \ {e}]
    /\ UNCHANGED <<uHealthy, uUnhealthy, uHLock, uULock, uMarks>>
-----------------------------------------------------------------------------
(* mark_unhealthy and mark_healthy: each lock is held to the end           *)

Call(t) ==
    /\ At(t, "idle") /\ uMarks < MaxMarks
    /\ uMarks' = uMarks + 1
    /\ \E e \in PoolEndpoints, at \in {"down1", "up1"} : uTask' = [uTask EXCEPT ![t].at = at, ![t].ep = e]
    /\ UNCHANGED <<uHealthy, uUnhealthy, uHLock, uULock>>

\* The first lock is released before the second is taken.
MarkUnhealthyFirstScoped(t) ==
    /\ At(t, "down1") /\ uHLock = Nobody
    /\ uHealthy' = uHealthy \ {uTask[t].ep}
    /\ Goto(t, "down2")
    /\ UNCHANGED <<uUnhealthy, uHLock, uULock, uMarks>>
MarkUnhealthyFirst(t) ==
    /\ At(t, "down1") /\ uHLock = Nobody
    /\ uHLock' = t
    /\ uHealthy' = uHealthy \ {uTask[t].ep}
    /\ Goto(t, "down2")
    /\ UNCHANGED <<uUnhealthy, uULock, uMarks>>
MarkUnhealthySecond(t) ==
    /\ At(t, "down2") /\ uULock = Nobody
    /\ uUnhealthy' = [uUnhealthy EXCEPT ![uTask[t].ep] = @ + 1]
    /\ uHLock' = IF uHLock = t THEN Nobody ELSE uHLock
    /\ Goto(t, IF t \in Checkers THEN "next" ELSE "idle")
    /\ UNCHANGED <<uHealthy, uULock, uMarks>>

MarkHealthyFirst(t) ==
    /\ At(t, "up1") /\ uULock = Nobody
    /\ uULock' = t
    /\ uUnhealthy' = [uUnhealthy EXCEPT ![uTask[t].ep] = 0]
    /\ Goto(t, "up2")
    /\ UNCHANGED <<uHealthy, uHLock, uMarks>>
MarkHealthySecond(t) ==
    /\ At(t, "up2") /\ uHLock = Nobody
    /\ uHealthy' = uHealthy \cup {uTask[t].ep}
    /\ uULock' = Nobody
    /\ Goto(t, "idle")
    /\ UNCHANGED <<uUnhealthy, uHLock, uMarks>>

Mark(t) == MarkUnhealthyFirst(t) \/ MarkUnhealthySecond(t) \/ MarkHealthyFirst(t) \/ MarkHealthySecond(t)
UNext ==
    \/ \E t \in Checkers : StartCheck(t) \/ Probe(t) \/ MarkNext(t) \/ Mark(t)
    \/ \E t \in Reporters : Call(t) \/ Mark(t)

USpec == UInit /\ [][UNext]_uVars
-----------------------------------------------------------------------------
\* With both locks free, every endpoint is in one list and not in the other.
PoolPartition ==
    uHLock = Nobody /\ uULock = Nobody =>
       \A e \in PoolEndpoints : e \in uHealthy <=> uUnhealthy[e] = 0

\* The locks block each other in one way only: a report of an unhealthy
\* endpoint has the first and waits for the second, a report of a healthy one
\* has the second and waits for the first.
Blocked(t) ==
    \/ At(t, "down1") /\ uHLock # Nobody
    \/ At(t, "up1") /\ uULock # Nobody
    \/ At(t, "down2") /\ uULock # Nobody
    \/ At(t, "up2") /\ uHLock # Nobody
StuckOnlyCrossed ==
    (\E t \in PoolTasks : ~At(t, "idle")) /\ (\A t \in PoolTasks : At(t, "idle") \/ Blocked(t)) =>
       uHLock # Nobody /\ uULock # Nobody /\ At(uHLock, "down2") /\ At(uULock, "up2")
PoolSound == PoolPartition /\ StuckOnlyCrossed
=============================================================================
