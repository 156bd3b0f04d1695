----------------------------- MODULE ProxyProofs ------------------------------
(***************************************************************************)
(* Proofs about the parts of the Frontier proxy: ProxyRouter, for any      *)
(* rules; UpstreamPool and LoadBalancers, for every set of endpoints and   *)
(* every number of tasks; ProxyPlugins, for every set of plugins and       *)
(* limits and any number of loaders; and RateLimiter, for every limit,     *)
(* window and rate.                                                        *)
(*                                                                         *)
(* PoolSound speaks of the moments when both locks are free and of those   *)
(* when nobody can move.  Between them an endpoint is in neither list, and *)
(* what is inductive says where: a task that waits for its second lock     *)
(* holds the first, has taken its endpoint out of the list behind that     *)
(* lock, and is the only reason for an endpoint to be in neither.          *)
(*                                                                         *)
(* PluginsSound is inductive with the types of what the loaders carry: a   *)
(* limit that a task is about to write is a limit, so a module without one *)
(* is a module whose loader has not written it yet.                        *)
(*                                                                         *)
(* RoutingSound needs the reports that are made and not yet marked, and    *)
(* the places of the picks; RatesHold a potential: what a bucket gave away *)
(* since any moment, and what is left, is a full one and the refill.       *)
(***************************************************************************)
EXTENDS UpstreamPool, ProxyPlugins, LoadBalancers, ProxyRouter, RateLimiter, TLAPS, FiniteSetTheorems,
        WellFoundedInduction

-----------------------------------------------------------------------------
(* Upstream pools.                                                         *)

\* The tasks that wait for their second lock are those that hold one.
LocksHeld ==
    \A t \in PoolTasks : /\ At(t, "down2") <=> uHLock = t
                         /\ At(t, "up2") <=> uULock = t

\* They have taken their endpoint out of the list that they have locked.
TakenOut ==
    \A t \in PoolTasks : /\ At(t, "down2") => uTask[t].ep \notin uHealthy
                         /\ At(t, "up2") => uUnhealthy[uTask[t].ep] = 0

\* Every other endpoint is in exactly one list.
InOneList ==
    \A e \in PoolEndpoints :
        \/ e \in uHealthy <=> uUnhealthy[e] = 0
        \/ \E t \in PoolTasks : uTask[t].ep = e /\ (At(t, "down2") \/ At(t, "up2"))

UInv == UTypeOK /\ LocksHeld /\ TakenOut /\ InOneList

\* A step of task t that leaves the lists, the locks and the tasks at their
\* second lock alone.
LEMMA QuietStep ==
    ASSUME UInv, UTypeOK', NEW t \in PoolTasks,
           \A x \in PoolTasks \ {t} : uTask'[x] = uTask[x],
           uTask[t].at \notin {"down2", "up2"}, uTask'[t].at \notin {"down2", "up2"},
           UNCHANGED <<uHealthy, uUnhealthy, uHLock, uULock>>
    PROVE  UInv'
<1>1. \A x \in PoolTasks : /\ At(x, "down2")' <=> At(x, "down2")
                           /\ At(x, "up2")' <=> At(x, "up2")
                           /\ At(x, "down2") \/ At(x, "up2") => uTask'[x] = uTask[x]
  BY DEF At
<1>2. LocksHeld'
  BY <1>1 DEF UInv, LocksHeld, At
<1>3. TakenOut'
  <2> SUFFICES ASSUME NEW x \in PoolTasks
               PROVE  /\ uTask'[x].at = "down2" => uTask'[x].ep \notin uHealthy'
                      /\ uTask'[x].at = "up2" => uUnhealthy'[uTask'[x].ep] = 0
    BY DEF TakenOut, At
  <2> QED
    BY <1>1 DEF UInv, TakenOut, At
<1>4. InOneList'
  <2> SUFFICES ASSUME NEW e \in PoolEndpoints
               PROVE  \/ e \in uHealthy' <=> uUnhealthy'[e] = 0
                      \/ \E x \in PoolTasks : uTask'[x].ep = e /\ uTask'[x].at \in {"down2", "up2"}
    BY DEF InOneList, At
  <2>1. CASE e \in uHealthy <=> uUnhealthy[e] = 0
    BY <2>1
  <2>2. CASE \E x \in PoolTasks : uTask[x].ep = e /\ (At(x, "down2") \/ At(x, "up2"))
    BY <2>2, <1>1 DEF At
  <2> QED
    BY <2>1, <2>2 DEF UInv, InOneList
<1> QED
  BY <1>2, <1>3, <1>4 DEF UInv

\* The invariant holds at the start.
LEMMA UInitInv == UInit => UInv
<1> SUFFICES ASSUME UInit PROVE UInv
  OBVIOUS
<1>1. (CHOOSE e \in PoolEndpoints : TRUE) \in PoolEndpoints
  BY PoolAssumption
<1>2. UTypeOK
  BY <1>1 DEF UInit, UTypeOK, NoTask, MarkSteps
<1>3. LocksHeld /\ TakenOut /\ InOneList
  BY PoolAssumption DEF UInit, LocksHeld, TakenOut, InOneList, At, NoTask
<1> QED
  BY <1>2, <1>3 DEF UInv

TaskType == [at : MarkSteps, ep : PoolEndpoints, rest : SUBSET PoolEndpoints, down : SUBSET PoolEndpoints]

\* Every step keeps the types.
LEMMA UTypeStep == UTypeOK /\ [UNext]_uVars => UTypeOK'
<1> SUFFICES ASSUME UTypeOK, [UNext]_uVars PROVE UTypeOK'
  OBVIOUS
<1> USE DEF UTypeOK, MarkSteps, At, Goto
<1>1. ASSUME NEW t \in Checkers, StartCheck(t) PROVE UTypeOK'
  BY <1>1 DEF StartCheck, PoolTasks
<1>2. ASSUME NEW t \in Checkers, Probe(t) PROVE UTypeOK'
  <2>1. CASE uTask[t].rest = {}
    BY <1>2, <2>1 DEF Probe, PoolTasks
  <2>2. CASE uTask[t].rest # {}
    <3>1. PICK e \in uTask[t].rest, down \in BOOLEAN :
             uTask' = [uTask EXCEPT ![t].rest = @ \ {e}, ![t].down = IF down THEN @ \cup {e} ELSE @]
      BY <1>2, <2>2 DEF Probe
    <3> DEFINE task == [uTask[t] EXCEPT !.rest = @ \ {e}, !.down = IF down THEN @ \cup {e} ELSE @]
    <3>2. t \in PoolTasks /\ e \in PoolEndpoints /\ task \in TaskType
      BY DEF PoolTasks, TaskType
    <3>3. uTask' = [uTask EXCEPT ![t] = task]
      BY <3>1, <3>2
    <3> QED
      BY <1>2, <3>2, <3>3 DEF Probe, TaskType
  <2> QED
    BY <2>1, <2>2
<1>3. ASSUME NEW t \in Checkers, MarkNext(t) PROVE UTypeOK'
  <2>1. CASE uTask[t].down = {}
    BY <1>3, <2>1 DEF MarkNext, PoolTasks
  <2>2. CASE uTask[t].down # {}
    <3>1. PICK e \in uTask[t].down :
             uTask' = [uTask EXCEPT ![t].at = "down1", ![t].ep = e, ![t].down = @ \ {e}]
      BY <1>3, <2>2 DEF MarkNext
    <3> DEFINE task == [uTask[t] EXCEPT !.at = "down1", !.ep = e, !.down = @ \ {e}]
    <3>2. t \in PoolTasks /\ e \in PoolEndpoints /\ task \in TaskType
      BY DEF PoolTasks, TaskType
    <3>3. uTask' = [uTask EXCEPT ![t] = task]
      BY <3>1, <3>2
    <3> QED
      BY <1>3, <3>2, <3>3 DEF MarkNext, TaskType
  <2> QED
    BY <2>1, <2>2
<1>4. ASSUME NEW t \in Reporters, Call(t) PROVE UTypeOK'
  <2>1. PICK e \in PoolEndpoints, at \in {"down1", "up1"} : uTask' = [uTask EXCEPT ![t].at = at, ![t].ep = e]
    BY <1>4 DEF Call
  <2> DEFINE task == [uTask[t] EXCEPT !.at = at, !.ep = e]
  <2>2. t \in PoolTasks /\ task \in TaskType
    BY DEF PoolTasks, TaskType
  <2>3. uTask' = [uTask EXCEPT ![t] = task]
    BY <2>1, <2>2
  <2> QED
    BY <1>4, <2>2, <2>3 DEF Call, TaskType
<1>5. ASSUME NEW t \in PoolTasks, Mark(t) PROVE UTypeOK'
  <2>1. CASE MarkUnhealthyFirst(t)
    BY <2>1 DEF MarkUnhealthyFirst
  <2>2. CASE MarkUnhealthySecond(t)
    BY <2>2 DEF MarkUnhealthySecond
  <2>3. CASE MarkHealthyFirst(t)
    BY <2>3 DEF MarkHealthyFirst
  <2>4. CASE MarkHealthySecond(t)
    BY <2>4 DEF MarkHealthySecond
  <2> QED
    BY <1>5, <2>1, <2>2, <2>3, <2>4 DEF Mark
<1>6. CASE UNCHANGED uVars
  BY <1>6 DEF uVars
<1> QED
  BY <1>1, <1>2, <1>3, <1>4, <1>5, <1>6 DEF UNext, PoolTasks

\* Every step keeps the invariant.
LEMMA UStep == UInv /\ [UNext]_uVars => UInv'
<1> SUFFICES ASSUME UInv, [UNext]_uVars PROVE UInv'
  OBVIOUS
<1>t. UTypeOK /\ UTypeOK'
  BY UTypeStep DEF UInv
<1>1. ASSUME NEW t \in Checkers, StartCheck(t) PROVE UInv'
  <2> t \in PoolTasks
    BY DEF PoolTasks
  <2> QED
    BY <1>1, <1>t, QuietStep DEF StartCheck, UTypeOK, At
<1>2. ASSUME NEW t \in Checkers, Probe(t) PROVE UInv'
  <2> t \in PoolTasks
    BY DEF PoolTasks
  <2>1. /\ \A x \in PoolTasks \ {t} : uTask'[x] = uTask[x]
        /\ uTask[t].at = "probe" /\ uTask'[t].at \in {"probe", "next"}
    <3>1. CASE uTask[t].rest = {}
      BY <1>2, <3>1, <1>t DEF Probe, UTypeOK, At, Goto
    <3>2. CASE uTask[t].rest # {}
      <4>1. uTask[t].at = "probe"
        BY <1>2 DEF Probe, At
      <4>2. PICK e \in uTask[t].rest, down \in BOOLEAN :
               uTask' = [uTask EXCEPT ![t].rest = @ \ {e}, ![t].down = IF down THEN @ \cup {e} ELSE @]
        BY <1>2, <3>2 DEF Probe
      <4> QED
        BY <4>1, <4>2, <1>t DEF UTypeOK
    <3> QED
      BY <3>1, <3>2
  <2> QED
    BY <1>2, <1>t, <2>1, QuietStep DEF Probe
<1>3. ASSUME NEW t \in Checkers, MarkNext(t) PROVE UInv'
  <2> t \in PoolTasks
    BY DEF PoolTasks
  <2>1. /\ \A x \in PoolTasks \ {t} : uTask'[x] = uTask[x]
        /\ uTask[t].at = "next" /\ uTask'[t].at \in {"idle", "down1"}
    <3>1. CASE uTask[t].down = {}
      BY <1>3, <3>1, <1>t DEF MarkNext, UTypeOK, At, Goto
    <3>2. CASE uTask[t].down # {}
      <4>1. uTask[t].at = "next"
        BY <1>3 DEF MarkNext, At
      <4>2. PICK e \in uTask[t].down :
               uTask' = [uTask EXCEPT ![t].at = "down1", ![t].ep = e, ![t].down = @ \ {e}]
        BY <1>3, <3>2 DEF MarkNext
      <4> QED
        BY <4>1, <4>2, <1>t DEF UTypeOK
    <3> QED
      BY <3>1, <3>2
  <2> QED
    BY <1>3, <1>t, <2>1, QuietStep DEF MarkNext
<1>4. ASSUME NEW t \in Reporters, Call(t) PROVE UInv'
  <2> t \in PoolTasks
    BY DEF PoolTasks
  <2>1. /\ \A x \in PoolTasks \ {t} : uTask'[x] = uTask[x]
        /\ uTask[t].at = "idle" /\ uTask'[t].at \in {"down1", "up1"}
    BY <1>4, <1>t DEF Call, UTypeOK, At
  <2> QED
    BY <1>4, <1>t, <2>1, QuietStep DEF Call
<1>5. ASSUME NEW t \in PoolTasks, MarkUnhealthyFirst(t) PROVE UInv'
  <2> DEFINE ep == uTask[t].ep
  <2>1. /\ uTask' = [uTask EXCEPT ![t].at = "down2"] /\ uTask'[t].ep = ep
        /\ uHealthy' = uHealthy \ {ep} /\ uHLock = Nobody /\ uHLock' = t
        /\ UNCHANGED <<uUnhealthy, uULock>> /\ uTask[t].at = "down1"
    BY <1>5, <1>t DEF MarkUnhealthyFirst, UTypeOK, At, Goto
  <2>2. \A x \in PoolTasks \ {t} : uTask'[x] = uTask[x]
    BY <2>1, <1>t DEF UTypeOK
  <2>3. uTask'[t].at = "down2" /\ t # Nobody /\ Nobody \notin PoolTasks
    BY <2>1, <1>t, PoolAssumption DEF UTypeOK
  <2>4. LocksHeld'
    BY <2>1, <2>2, <2>3 DEF UInv, LocksHeld, At
  <2>5. TakenOut'
    <3> SUFFICES ASSUME NEW x \in PoolTasks
                 PROVE  /\ uTask'[x].at = "down2" => uTask'[x].ep \notin uHealthy'
                        /\ uTask'[x].at = "up2" => uUnhealthy'[uTask'[x].ep] = 0
      BY DEF TakenOut, At
    <3>1. CASE x = t
      BY <3>1, <2>1, <2>3
    <3>2. CASE x # t
      <4>1. uTask'[x] = uTask[x]
        BY <3>2, <2>2
      <4>2. uTask[x].ep \in PoolEndpoints
        BY <1>t DEF UTypeOK
      <4>3. /\ uTask[x].at = "down2" => uTask[x].ep \notin uHealthy
            /\ uTask[x].at = "up2" => uUnhealthy[uTask[x].ep] = 0
        BY DEF UInv, TakenOut, At
      <4>4. /\ uHealthy' \subseteq uHealthy
            /\ \A e \in PoolEndpoints : uUnhealthy'[e] = uUnhealthy[e] \/ uUnhealthy'[e] = 0
        BY <2>1, <1>t DEF UTypeOK
      <4> QED
        BY <4>1, <4>2, <4>3, <4>4
    <3> QED
      BY <3>1, <3>2
  <2>6. InOneList'
    <3> SUFFICES ASSUME NEW e \in PoolEndpoints
                 PROVE  \/ e \in uHealthy' <=> uUnhealthy'[e] = 0
                        \/ \E x \in PoolTasks : uTask'[x].ep = e /\ uTask'[x].at \in {"down2", "up2"}
      BY DEF InOneList, At
    <3>1. CASE e = ep
      BY <3>1, <2>1, <2>3 DEF At
    <3>2. CASE e # ep
      BY <3>2, <2>1, <2>2, <2>3 DEF UInv, InOneList, At
    <3> QED
      BY <3>1, <3>2
  <2> QED
    BY <1>t, <2>4, <2>5, <2>6 DEF UInv
<1>6. ASSUME NEW t \in PoolTasks, MarkUnhealthySecond(t) PROVE UInv'
  <2> DEFINE ep == uTask[t].ep
  <2>1. /\ uTask[t].at = "down2" /\ uHLock = t /\ uHLock' = Nobody /\ uULock = Nobody
        /\ uUnhealthy' = [uUnhealthy EXCEPT ![ep] = @ + 1]
        /\ UNCHANGED <<uHealthy, uULock>> /\ ep \in PoolEndpoints /\ ep \notin uHealthy
    BY <1>6, <1>t DEF MarkUnhealthySecond, UTypeOK, At, UInv, LocksHeld, TakenOut
  <2>2. \A x \in PoolTasks \ {t} : uTask'[x] = uTask[x]
    BY <1>6, <1>t DEF MarkUnhealthySecond, UTypeOK, Goto
  <2>3. uTask'[t].at \in {"next", "idle"} /\ Nobody \notin PoolTasks
    BY <1>6, <1>t, PoolAssumption DEF MarkUnhealthySecond, UTypeOK, Goto
  <2>4. \A x \in PoolTasks : ~At(x, "up2") /\ (At(x, "down2") => x = t)
    BY <2>1, <2>3 DEF UInv, LocksHeld, At
  <2>5. LocksHeld'
    BY <2>1, <2>2, <2>3, <2>4 DEF UInv, LocksHeld, At
  <2>6. TakenOut'
    <3>1. \A x \in PoolTasks : uTask'[x].at \notin {"down2", "up2"}
      BY <2>2, <2>3, <2>4 DEF At
    <3> QED
      BY <3>1 DEF TakenOut, At
  <2>7. InOneList'
    <3> SUFFICES ASSUME NEW e \in PoolEndpoints
                 PROVE  \/ e \in uHealthy' <=> uUnhealthy'[e] = 0
                        \/ \E x \in PoolTasks : uTask'[x].ep = e /\ uTask'[x].at \in {"down2", "up2"}
      BY DEF InOneList, At
    <3>1. CASE e = ep
      BY <3>1, <2>1, <1>t DEF UTypeOK
    <3>2. CASE e # ep
      BY <3>2, <2>1, <2>4, <1>t DEF UInv, InOneList, UTypeOK
    <3> QED
      BY <3>1, <3>2
  <2> QED
    BY <1>t, <2>5, <2>6, <2>7 DEF UInv
<1>7. ASSUME NEW t \in PoolTasks, MarkHealthyFirst(t) PROVE UInv'
  <2> DEFINE ep == uTask[t].ep
  <2>1. /\ uTask' = [uTask EXCEPT ![t].at = "up2"] /\ uTask'[t].ep = ep /\ ep \in PoolEndpoints
        /\ uUnhealthy' = [uUnhealthy EXCEPT ![ep] = 0] /\ uULock = Nobody /\ uULock' = t
        /\ UNCHANGED <<uHealthy, uHLock>> /\ uTask[t].at = "up1"
    BY <1>7, <1>t DEF MarkHealthyFirst, UTypeOK, At, Goto
  <2>2. \A x \in PoolTasks \ {t} : uTask'[x] = uTask[x]
    BY <2>1, <1>t DEF UTypeOK
  <2>3. uTask'[t].at = "up2" /\ t # Nobody /\ Nobody \notin PoolTasks /\ uUnhealthy'[ep] = 0
    BY <2>1, <1>t, PoolAssumption DEF UTypeOK
  <2>4. LocksHeld'
    BY <2>1, <2>2, <2>3 DEF UInv, LocksHeld, At
  <2>5. TakenOut'
    <3> SUFFICES ASSUME NEW x \in PoolTasks
                 PROVE  /\ uTask'[x].at = "down2" => uTask'[x].ep \notin uHealthy'
                        /\ uTask'[x].at = "up2" => uUnhealthy'[uTask'[x].ep] = 0
      BY DEF TakenOut, At
    <3>1. CASE x = t
      BY <3>1, <2>1, <2>3
    <3>2. CASE x # t
      <4>1. uTask'[x] = uTask[x]
        BY <3>2, <2>2
      <4>2. uTask[x].ep \in PoolEndpoints
        BY <1>t DEF UTypeOK
      <4>3. /\ uTask[x].at = "down2" => uTask[x].ep \notin uHealthy
            /\ uTask[x].at = "up2" => uUnhealthy[uTask[x].ep] = 0
        BY DEF UInv, TakenOut, At
      <4>4. /\ uHealthy' \subseteq uHealthy
            /\ \A e \in PoolEndpoints : uUnhealthy'[e] = uUnhealthy[e] \/ uUnhealthy'[e] = 0
        BY <2>1, <1>t DEF UTypeOK
      <4> QED
        BY <4>1, <4>2, <4>3, <4>4
    <3> QED
      BY <3>1, <3>2
  <2>6. InOneList'
    <3> SUFFICES ASSUME NEW e \in PoolEndpoints
                 PROVE  \/ e \in uHealthy' <=> uUnhealthy'[e] = 0
                        \/ \E x \in PoolTasks : uTask'[x].ep = e /\ uTask'[x].at \in {"down2", "up2"}
      BY DEF InOneList, At
    <3>1. CASE e = ep
      BY <3>1, <2>1, <2>3 DEF At
    <3>2. CASE e # ep
      <4>1. uUnhealthy'[e] = uUnhealthy[e]
        BY <3>2, <2>1, <1>t DEF UTypeOK
      <4> QED
        BY <4>1, <3>2, <2>1, <2>2, <2>3 DEF UInv, InOneList, At
    <3> QED
      BY <3>1, <3>2
  <2> QED
    BY <1>t, <2>4, <2>5, <2>6 DEF UInv
<1>8. ASSUME NEW t \in PoolTasks, MarkHealthySecond(t) PROVE UInv'
  <2> DEFINE ep == uTask[t].ep
  <2>1. /\ uTask[t].at = "up2" /\ uULock = t /\ uULock' = Nobody /\ uHLock = Nobody
        /\ uHealthy' = uHealthy \cup {ep} /\ uUnhealthy[ep] = 0
        /\ UNCHANGED <<uUnhealthy, uHLock>> /\ ep \in PoolEndpoints
    BY <1>8, <1>t DEF MarkHealthySecond, UTypeOK, At, UInv, LocksHeld, TakenOut
  <2>2. \A x \in PoolTasks \ {t} : uTask'[x] = uTask[x]
    BY <1>8, <1>t DEF MarkHealthySecond, UTypeOK, Goto
  <2>3. uTask'[t].at = "idle" /\ Nobody \notin PoolTasks
    BY <1>8, <1>t, PoolAssumption DEF MarkHealthySecond, UTypeOK, Goto
  <2>4. \A x \in PoolTasks : ~At(x, "down2") /\ (At(x, "up2") => x = t)
    BY <2>1, <2>3 DEF UInv, LocksHeld, At
  <2>5. LocksHeld'
    BY <2>1, <2>2, <2>3, <2>4 DEF UInv, LocksHeld, At
  <2>6. TakenOut'
    <3>1. \A x \in PoolTasks : uTask'[x].at \notin {"down2", "up2"}
      BY <2>2, <2>3, <2>4 DEF At
    <3> QED
      BY <3>1 DEF TakenOut, At
  <2>7. InOneList'
    <3> SUFFICES ASSUME NEW e \in PoolEndpoints
                 PROVE  \/ e \in uHealthy' <=> uUnhealthy'[e] = 0
                        \/ \E x \in PoolTasks : uTask'[x].ep = e /\ uTask'[x].at \in {"down2", "up2"}
      BY DEF InOneList, At
    <3>1. CASE e = ep
      BY <3>1, <2>1
    <3>2. CASE e # ep
      BY <3>2, <2>1, <2>4 DEF UInv, InOneList
    <3> QED
      BY <3>1, <3>2
  <2> QED
    BY <1>t, <2>5, <2>6, <2>7 DEF UInv
<1>9. CASE UNCHANGED uVars
  BY <1>9 DEF uVars, UInv, UTypeOK, LocksHeld, TakenOut, InOneList, At
<1> QED
  BY <1>1, <1>2, <1>3, <1>4, <1>5, <1>6, <1>7, <1>8, <1>9 DEF UNext, Mark, PoolTasks

\* What PoolSound says follows: with both locks free no task is between its
\* two, and of tasks that all wait, those with a lock wait for each other's.
LEMMA UInvSound == UInv => PoolSound
<1> SUFFICES ASSUME UInv PROVE PoolSound
  OBVIOUS
<1>n. Nobody \notin PoolTasks
  BY PoolAssumption
<1>1. PoolPartition
  BY <1>n DEF UInv, PoolPartition, LocksHeld, InOneList
<1>2. StuckOnlyCrossed
  <2> SUFFICES ASSUME \E t \in PoolTasks : ~At(t, "idle"),
                      \A t \in PoolTasks : At(t, "idle") \/ Blocked(t)
               PROVE  uHLock # Nobody /\ uULock # Nobody /\ At(uHLock, "down2") /\ At(uULock, "up2")
    BY DEF StuckOnlyCrossed
  <2>1. uHLock \in PoolTasks \cup {Nobody} /\ uULock \in PoolTasks \cup {Nobody}
    BY DEF UInv, UTypeOK
  <2>2. uHLock # Nobody => At(uHLock, "down2") /\ uULock # Nobody
    BY <2>1 DEF UInv, LocksHeld, Blocked, At
  <2>3. uULock # Nobody => At(uULock, "up2") /\ uHLock # Nobody
    BY <2>1 DEF UInv, LocksHeld, Blocked, At
  <2>4. uHLock # Nobody \/ uULock # Nobody
    BY DEF Blocked
  <2> QED
    BY <2>2, <2>3, <2>4
<1> QED
  BY <1>1, <1>2 DEF PoolSound

\* The lists, the locks and the tasks hold values of their types, whatever
\* endpoints and tasks there are.
THEOREM PoolTypeCorrect == USpec => []UTypeOK
<1>1. UInit => UTypeOK
  BY UInitInv DEF UInv
<1> QED
  BY <1>1, UTypeStep, PTL DEF USpec

\* With both locks free every endpoint is in one of the lists, and if no task
\* can move it is because two hold one lock each and wait for the other's.
THEOREM PoolListsSound == USpec => []PoolSound
<1> QED
  BY UInitInv, UStep, UInvSound, PTL DEF USpec
-----------------------------------------------------------------------------
(* Plugins.                                                                *)

LoaderType == [at : {"idle", "read", "register", "config"}, p : Plugins, limit : PluginConf \ {NoConfig}, bytes : Nat]

LoaderTypeOK ==
    /\ gFile \in [Plugins -> [mtime : Nat, ok : BOOLEAN]] /\ gModule \in [Plugins -> Nat]
    /\ gConfig \in [Plugins -> PluginConf] /\ gTask \in [Loaders -> LoaderType]
    /\ gCount.writes \in Nat

GInv == LoaderTypeOK /\ PluginsSound

\* A task that does nothing is a task, and its limits are limits.
LEMMA TaskFacts ==
    /\ Default \in PluginConf \ {NoConfig} /\ NoConfig \in PluginConf
    /\ \A l \in Limits : l \in PluginConf \ {NoConfig}
    /\ Reloader \in Loaders
    /\ NotLoading.at = "idle"
    /\ Plugins # {} => NotLoading \in LoaderType
<1>1. Plugins # {} => (CHOOSE p \in Plugins : TRUE) \in Plugins
  OBVIOUS
<1> QED
  BY <1>1, PluginAssumption DEF PluginConf, NotLoading, LoaderType

\* The invariant holds at the start.
LEMMA GInitInv == Plugins # {} /\ GInit => GInv
  BY TaskFacts DEF GInit, GInv, LoaderTypeOK, PluginsSound, LimitsOrLoading, ReloadKeepsLimits

\* Every step keeps the types of the loaders and of what they write.
LEMMA GTypeStep == Plugins # {} /\ LoaderTypeOK /\ [GNext]_gVars => LoaderTypeOK'
<1> SUFFICES ASSUME Plugins # {}, LoaderTypeOK, [GNext]_gVars PROVE LoaderTypeOK'
  OBVIOUS
<1> USE TaskFacts DEF LoaderTypeOK, LoaderType
<1>1. CASE WriteFile
  BY <1>1 DEF WriteFile
<1>2. CASE Unload
  BY <1>2 DEF Unload
<1>3. CASE HotReload
  <2>1. PICK p \in Plugins :
           gTask' = [gTask EXCEPT ![Reloader] =
                       [@ EXCEPT !.at = "read", !.p = p, !.limit = IF gConfig[p] = NoConfig THEN Default ELSE gConfig[p]]]
    BY <1>3 DEF HotReload
  <2> DEFINE limit == IF gConfig[p] = NoConfig THEN Default ELSE gConfig[p]
             task == [gTask[Reloader] EXCEPT !.at = "read", !.p = p, !.limit = limit]
  <2>2. limit \in PluginConf \ {NoConfig}
    OBVIOUS
  <2>3. task \in LoaderType
    BY <2>2
  <2>4. gTask' = [gTask EXCEPT ![Reloader] = task]
    BY <2>1
  <2> HIDE DEF task
  <2> QED
    BY <1>3, <2>3, <2>4 DEF HotReload
<1>4. CASE Manage
  BY <1>4 DEF Manage
<1>5. ASSUME NEW t \in Loaders, StartLoad(t) PROVE LoaderTypeOK'
  <2>1. PICK p \in Plugins, l \in Limits :
           gTask' = [gTask EXCEPT ![t] = [@ EXCEPT !.at = "read", !.p = p, !.limit = l]]
    BY <1>5 DEF StartLoad
  <2>2. [gTask[t] EXCEPT !.at = "read", !.p = p, !.limit = l] \in LoaderType
    OBVIOUS
  <2> QED
    BY <1>5, <2>1, <2>2 DEF StartLoad
<1>6. ASSUME NEW t \in Loaders, PullFromOci(t) PROVE LoaderTypeOK'
  BY <1>6 DEF PullFromOci
<1>7. ASSUME NEW t \in Loaders, ReadFile(t) PROVE LoaderTypeOK'
  <2>1. gFile[gTask[t].p].mtime \in Nat /\ gTask[t] \in LoaderType
    OBVIOUS
  <2>2. [gTask[t] EXCEPT !.at = "register", !.bytes = gFile[gTask[t].p].mtime] \in LoaderType
    BY <2>1
  <2> QED
    BY <1>7, <2>2 DEF ReadFile
<1>8. ASSUME NEW t \in Loaders, RegisterModule(t) PROVE LoaderTypeOK'
  BY <1>8 DEF RegisterModule
<1>9. ASSUME NEW t \in Loaders, InsertConfig(t) PROVE LoaderTypeOK'
  BY <1>9 DEF InsertConfig
<1>10. CASE UNCHANGED gVars
  BY <1>10 DEF gVars
<1> QED
  BY <1>1, <1>2, <1>3, <1>4, <1>5, <1>6, <1>7, <1>8, <1>9, <1>10 DEF GNext

\* Every step keeps the invariant.
LEMMA GStep == Plugins # {} /\ GInv /\ [GNext]_gVars => GInv'
<1> SUFFICES ASSUME Plugins # {}, GInv, [GNext]_gVars PROVE GInv'
  OBVIOUS
<1>t. LoaderTypeOK /\ LoaderTypeOK'
  BY GTypeStep DEF GInv
<1>y. /\ gTask \in [Loaders -> LoaderType] /\ gConfig \in [Plugins -> PluginConf]
      /\ gModule \in [Plugins -> Nat] /\ Reloader \in Loaders
      /\ \A t \in Loaders : gTask[t].p \in Plugins /\ gTask[t].limit \in PluginConf \ {NoConfig}
  BY <1>t, TaskFacts DEF LoaderTypeOK, LoaderType
<1>i. /\ \A p \in Plugins : gModule[p] # 0 /\ gConfig[p] = NoConfig
                              => \E t \in Loaders : gTask[t].at = "config" /\ gTask[t].p = p
      /\ gTask[Reloader].at # "idle" /\ gTask[Reloader].p \notin gCrossed
           => gTask[Reloader].limit = InstanceLimit(gTask[Reloader].p)
  BY DEF GInv, PluginsSound, LimitsOrLoading, ReloadKeepsLimits
<1>1. CASE UNCHANGED <<gModule, gConfig, gTask, gCrossed>>
  BY <1>1, <1>t, <1>i DEF GInv, PluginsSound, LimitsOrLoading, ReloadKeepsLimits, InstanceLimit
<1>2. CASE Unload
  BY <1>2, <1>t, <1>y, <1>i DEF Unload, GInv, PluginsSound, LimitsOrLoading, ReloadKeepsLimits, InstanceLimit
<1>3. CASE HotReload
  <2>1. PICK p \in Plugins :
           /\ gTask' = [gTask EXCEPT ![Reloader] =
                          [@ EXCEPT !.at = "read", !.p = p, !.limit = IF gConfig[p] = NoConfig THEN Default ELSE gConfig[p]]]
           /\ gTask[Reloader].at = "idle" /\ UNCHANGED <<gModule, gConfig>>
    BY <1>3 DEF HotReload
  <2>2. gTask'[Reloader].p = p /\ gTask'[Reloader].limit = InstanceLimit(p)
    BY <1>y, <2>1 DEF LoaderType, InstanceLimit
  <2>3. \A t \in Loaders : t # Reloader => gTask'[t] = gTask[t]
    BY <1>y, <2>1
  <2>4. LimitsOrLoading'
    BY <1>i, <2>1, <2>3 DEF LimitsOrLoading
  <2>5. ReloadKeepsLimits'
    BY <2>1, <2>2 DEF ReloadKeepsLimits, InstanceLimit
  <2> QED
    BY <1>t, <2>4, <2>5 DEF GInv, PluginsSound
<1>5. ASSUME NEW t \in Loaders, StartLoad(t) PROVE GInv'
  <2>1. /\ gTask[t].at = "idle" /\ t # Reloader /\ UNCHANGED <<gModule, gConfig, gCrossed>>
        /\ \A u \in Loaders : u # t => gTask'[u] = gTask[u]
    BY <1>5, <1>y DEF StartLoad
  <2>2. LimitsOrLoading'
    BY <1>i, <2>1 DEF LimitsOrLoading
  <2>3. ReloadKeepsLimits'
    BY <1>i, <1>y, <2>1 DEF ReloadKeepsLimits, InstanceLimit
  <2> QED
    BY <1>t, <2>2, <2>3 DEF GInv, PluginsSound
<1>6. ASSUME NEW t \in Loaders, PullFromOci(t) PROVE GInv'
  <2>1. /\ gTask[t].at = "idle" /\ t # Reloader /\ UNCHANGED <<gModule, gConfig, gCrossed>>
        /\ \A u \in Loaders : u # t => gTask'[u] = gTask[u]
    BY <1>6, <1>y DEF PullFromOci
  <2>2. LimitsOrLoading'
    BY <1>i, <2>1 DEF LimitsOrLoading
  <2>3. ReloadKeepsLimits'
    BY <1>i, <1>y, <2>1 DEF ReloadKeepsLimits, InstanceLimit
  <2> QED
    BY <1>t, <2>2, <2>3 DEF GInv, PluginsSound
<1>7. ASSUME NEW t \in Loaders, ReadFile(t) PROVE GInv'
  <2>1. /\ gTask[t].at = "read" /\ UNCHANGED <<gModule, gConfig, gCrossed>>
        /\ \A u \in Loaders : u # t => gTask'[u] = gTask[u]
    BY <1>7, <1>y DEF ReadFile
  <2>2. gTask'[t].at = "idle" \/ (gTask'[t].p = gTask[t].p /\ gTask'[t].limit = gTask[t].limit)
    BY <1>7, <1>y, TaskFacts DEF ReadFile, LoaderType
  <2>3. LimitsOrLoading'
    BY <1>i, <2>1 DEF LimitsOrLoading
  <2>4. ReloadKeepsLimits'
    BY <1>i, <1>y, <2>1, <2>2 DEF ReloadKeepsLimits, InstanceLimit
  <2> QED
    BY <1>t, <2>3, <2>4 DEF GInv, PluginsSound
<1>8. ASSUME NEW t \in Loaders, RegisterModule(t) PROVE GInv'
  <2>1. /\ gTask[t].at = "register" /\ UNCHANGED <<gConfig, gCrossed>>
        /\ gModule' = [gModule EXCEPT ![gTask[t].p] = gTask[t].bytes]
        /\ gTask' = [gTask EXCEPT ![t].at = "config"]
    BY <1>8 DEF RegisterModule
  <2>2. /\ \A u \in Loaders : u # t => gTask'[u] = gTask[u]
        /\ gTask'[t].at = "config" /\ gTask'[t].p = gTask[t].p /\ gTask'[t].limit = gTask[t].limit
    BY <1>y, <2>1 DEF LoaderType
  <2>3. \A p \in Plugins : p # gTask[t].p => gModule'[p] = gModule[p]
    BY <1>y, <2>1
  <2>4. LimitsOrLoading'
    BY <1>i, <2>1, <2>2, <2>3 DEF LimitsOrLoading
  <2>5. ReloadKeepsLimits'
    BY <1>i, <1>y, <2>1, <2>2 DEF ReloadKeepsLimits, InstanceLimit
  <2> QED
    BY <1>t, <2>4, <2>5 DEF GInv, PluginsSound
<1>9. ASSUME NEW t \in Loaders, InsertConfig(t) PROVE GInv'
  <2>1. /\ gTask[t].at = "config" /\ UNCHANGED gModule
        /\ gConfig' = [gConfig EXCEPT ![gTask[t].p] = gTask[t].limit]
        /\ gTask' = [gTask EXCEPT ![t] = NotLoading] /\ gCrossed' = gCrossed \cup {gTask[t].p}
    BY <1>9 DEF InsertConfig
  <2>2. /\ \A u \in Loaders : u # t => gTask'[u] = gTask[u]
        /\ gTask'[t].at = "idle"
    BY <1>y, <2>1, TaskFacts
  <2>3. /\ \A p \in Plugins : p # gTask[t].p => gConfig'[p] = gConfig[p]
        /\ gConfig'[gTask[t].p] # NoConfig
    BY <1>y, <2>1
  <2>4. LimitsOrLoading'
    BY <1>i, <2>1, <2>2, <2>3 DEF LimitsOrLoading
  <2>5. ReloadKeepsLimits'
    BY <1>i, <1>y, <2>1, <2>2, <2>3 DEF ReloadKeepsLimits, InstanceLimit
  <2> QED
    BY <1>t, <2>4, <2>5 DEF GInv, PluginsSound
<1>10. [GNext]_gVars => \/ UNCHANGED <<gModule, gConfig, gTask, gCrossed>> \/ Unload \/ HotReload
                        \/ \E t \in Loaders : \/ StartLoad(t) \/ PullFromOci(t) \/ ReadFile(t)
                                              \/ RegisterModule(t) \/ InsertConfig(t)
  BY DEF GNext, gVars, WriteFile, Manage
<1> QED
  BY <1>1, <1>2, <1>3, <1>5, <1>6, <1>7, <1>8, <1>9, <1>10

\* A loaded plugin is never left without the limits of a load, and a hot reload
\* keeps the limits that nobody else changed, whatever is loaded and unloaded
\* beside it.
THEOREM PluginLimitsHold == ASSUME Plugins # {} PROVE GSpec => []PluginsSound
<1>1. GInit => GInv
  BY GInitInv
<1>2. GInv /\ [GNext]_gVars => GInv'
  BY GStep
<1>3. GInv => PluginsSound
  BY DEF GInv
<1> QED
  BY <1>1, <1>2, <1>3, PTL DEF GSpec
-----------------------------------------------------------------------------
(* Load balancers.                                                         *)

PlaceIn(eps, e) == Cardinality({f \in eps : f < e})

\* The places of what was picked follow each other, round and round ...
TurnInv ==
    /\ lIndex \in Nat /\ Len(lPicks) \in 0 .. lIndex /\ DOMAIN lPicks = 1 .. Len(lPicks) /\ lPicks \in Seq(Endpoints)
    /\ \A i \in DOMAIN lPicks : PlaceIn(UpOrAll, lPicks[i]) = (lIndex - Len(lPicks) + i - 1) % Cardinality(UpOrAll)

\* ... the reports that were made and are not yet marked ...
Pending == {t \in LbTasks : lTask[t].at = "marking"}

\* ... and what each balancer keeps of the reports.
MarkedInv ==
    /\ lMarked \in [Endpoints -> {"none", "up", "down", "back"}]
    /\ lKind # "least" => lUnhealthy = {e \in Endpoints : lMarked[e] = "down"}
    /\ lKind = "hash" => lRing = UpOrAll \/ \E t \in LbTasks : lTask[t].at = "rebuild"
    /\ lReports \in 0 .. MaxReports /\ Cardinality(Pending) <= lReports
    /\ lKind = "least" => \A e \in Endpoints :
          lMarked[e] \in {"down", "back"} => lCount[e] >= CountMax - lReports + Cardinality(Pending)

BalancerInv == LTypeOK /\ TurnInv /\ MarkedInv
-----------------------------------------------------------------------------
\* Two numbers that are less than n apart have different remainders.
LEMMA DifferentRemainders ==
    ASSUME NEW n \in Nat \ {0}, NEW x \in Nat, NEW y \in Nat, x < y, y < x + n
    PROVE  x % n # y % n
<1> SUFFICES ASSUME x % n = y % n PROVE FALSE
  OBVIOUS
<1>1. x = n * (x \div n) + (x % n) /\ y = n * (y \div n) + (y % n) /\ x \div n \in Int /\ y \div n \in Int
  OBVIOUS
<1>2. PICK p \in Int : p = x \div n
  BY <1>1
<1>3. PICK q \in Int : q = y \div n
  BY <1>1
<1>4. y - x = n * q - n * p
  BY <1>1, <1>2, <1>3
<1>5. n * q - n * p = n * (q - p)
  OBVIOUS
<1>6. PICK d \in Int : d = q - p
  OBVIOUS
<1>7. 0 < n * d /\ n * d < n
  BY <1>4, <1>5, <1>6
<1>8. CASE d <= 0
  <2>1. n * d <= 0
    BY <1>8
  <2> QED
    BY <1>7, <2>1
<1>9. CASE d >= 1
  <2>1. n * d >= n
    BY <1>9
  <2> QED
    BY <1>7, <2>1
<1> QED
  BY <1>8, <1>9

LEMMA EndpointFacts ==
    /\ IsFiniteSet(Endpoints) /\ Endpoints # {} /\ 1 \in Endpoints /\ Endpoints \subseteq Nat
<1>1. PICK n \in Nat \ {0} : Endpoints = 1 .. n
  <2>1. Cardinality(Endpoints) \in Nat /\ Cardinality(Endpoints) # 0
    BY BalancerAssumption, FS_CardinalityType, FS_EmptySet
  <2> QED
    BY <2>1, BalancerAssumption
<1>2. IsFiniteSet(1 .. n)
  BY FS_Interval
<1> QED
  BY <1>1, <1>2

LEMMA SomeToChoose ==
    ASSUME lUnhealthy \subseteq Endpoints
    PROVE  /\ UpOrAll # {} /\ UpOrAll \subseteq Endpoints
           /\ Cardinality(UpOrAll) \in Nat \ {0}
<1>1. UpOrAll # {} /\ UpOrAll \subseteq Endpoints
  BY EndpointFacts DEF UpOrAll
<1>2. IsFiniteSet(UpOrAll)
  BY <1>1, EndpointFacts, FS_Subset
<1>3. Cardinality(UpOrAll) \in Nat
  BY <1>2, FS_CardinalityType
<1>4. Cardinality(UpOrAll) # 0
  BY <1>1, <1>2, FS_EmptySet
<1> QED
  BY <1>1, <1>3, <1>4

LEMMA BalancerInitInv == LInit => BalancerInv
<1> SUFFICES ASSUME LInit PROVE BalancerInv
  OBVIOUS
<1>1. LTypeOK
  BY EndpointFacts, BalancerAssumption DEF LInit, LTypeOK, Resting
<1>2. TurnInv
  BY DEF LInit, TurnInv
<1>3. MarkedInv
  <2>1. UpOrAll = Endpoints /\ MaxReports \in Nat
    BY EndpointFacts, BalancerAssumption DEF LInit, UpOrAll
  <2>2. Pending = {} /\ Cardinality({}) = 0
    BY FS_EmptySet DEF LInit, Pending, Resting
  <2> QED
    BY <2>1, <2>2 DEF LInit, MarkedInv
<1> QED
  BY <1>1, <1>2, <1>3 DEF BalancerInv

\* One task leaves "marking", another comes to it.
LEMMA PendingChanges ==
    ASSUME BalancerInv, NEW t \in LbTasks, NEW v, lTask' = [lTask EXCEPT ![t] = v]
    PROVE  /\ Cardinality(Pending) \in Nat /\ Cardinality(Pending') \in Nat
           /\ lTask[t].at # "marking" /\ v.at = "marking" => Cardinality(Pending') = Cardinality(Pending) + 1
           /\ lTask[t].at = "marking" /\ v.at # "marking" => Cardinality(Pending') = Cardinality(Pending) - 1
           /\ lTask[t].at # "marking" /\ v.at # "marking" => Cardinality(Pending') = Cardinality(Pending)
<1>1. IsFiniteSet(Pending) /\ IsFiniteSet(Pending')
  <2>1. IsFiniteSet(LbTasks) /\ Pending \in SUBSET LbTasks /\ Pending' \in SUBSET LbTasks
    BY BalancerAssumption DEF Pending
  <2> QED
    BY <2>1, FS_Subset
<1>2. Cardinality(Pending) \in Nat /\ Cardinality(Pending') \in Nat
  BY <1>1, FS_CardinalityType
<1>3. lTask'[t] = v /\ \A u \in LbTasks : u # t => lTask'[u] = lTask[u]
  BY DEF BalancerInv, LTypeOK
<1>4. ASSUME lTask[t].at # "marking", v.at = "marking" PROVE Cardinality(Pending') = Cardinality(Pending) + 1
  <2>1. Pending' = Pending \cup {t} /\ t \notin Pending
    BY <1>3, <1>4 DEF Pending
  <2> QED
    BY <1>1, <2>1, FS_AddElement
<1>5. ASSUME lTask[t].at = "marking", v.at # "marking" PROVE Cardinality(Pending') = Cardinality(Pending) - 1
  <2>1. Pending' = Pending \ {t} /\ t \in Pending
    BY <1>3, <1>5 DEF Pending
  <2> QED
    BY <1>1, <2>1, FS_RemoveElement
<1>6. ASSUME lTask[t].at # "marking", v.at # "marking" PROVE Cardinality(Pending') = Cardinality(Pending)
  <2>1. Pending' = Pending
    BY <1>3, <1>6 DEF Pending
  <2> QED
    BY <2>1
<1> QED
  BY <1>2, <1>4, <1>5, <1>6

\* A task's new state is of its type.
LEMMA TaskStep ==
    ASSUME BalancerInv, NEW t \in LbTasks, NEW v, lTask' = [lTask EXCEPT ![t] = v],
           v \in [at : {"idle", "sent", "marking", "rebuild"}, ep : Endpoints, up : BOOLEAN]
    PROVE  lTask' \in [LbTasks -> [at : {"idle", "sent", "marking", "rebuild"}, ep : Endpoints, up : BOOLEAN]]
BY DEF BalancerInv, LTypeOK

LEMMA RouteKeeps == ASSUME BalancerInv, NEW t \in LbTasks, Route(t) PROVE BalancerInv'
<1>1. PICK e \in Endpoints : NextEndpoint(e) /\ lTask' = [lTask EXCEPT ![t] = [at |-> "sent", ep |-> e, up |-> TRUE]]
  BY DEF Route
<1>2. UNCHANGED <<lKind, lUnhealthy, lCount, lRing, lReports, lMarked>> /\ lTask[t].at = "idle"
  BY DEF Route
<1>3. UpOrAll' = UpOrAll
  BY <1>2 DEF UpOrAll
<1>4. lIndex' \in Nat
  BY <1>1 DEF BalancerInv, TurnInv, NextEndpoint, RoundRobinNext, LeastNext, HashNext
<1>5. LTypeOK'
  <2>1. [at |-> "sent", ep |-> e, up |-> TRUE] \in
          [at : {"idle", "sent", "marking", "rebuild"}, ep : Endpoints, up : BOOLEAN]
    BY <1>1
  <2>2. lTask' \in [LbTasks -> [at : {"idle", "sent", "marking", "rebuild"}, ep : Endpoints, up : BOOLEAN]]
    BY <1>1, <2>1, TaskStep
  <2> QED
    BY <1>2, <1>4, <2>2 DEF BalancerInv, LTypeOK
<1>6. MarkedInv'
  <2>1. Cardinality(Pending') = Cardinality(Pending)
    <3>1. PICK v : v = [at |-> "sent", ep |-> e, up |-> TRUE]
      OBVIOUS
    <3>2. v.at = "sent" /\ lTask' = [lTask EXCEPT ![t] = v]
      BY <1>1, <3>1
    <3> QED
      BY <1>2, <3>2, PendingChanges
  <2>2. lTask'[t].at # "rebuild" /\ \A u \in LbTasks : u # t => lTask'[u] = lTask[u]
    BY <1>1 DEF BalancerInv, LTypeOK
  <2>3. lKind = "hash" => lRing = UpOrAll \/ \E u \in LbTasks : lTask'[u].at = "rebuild"
    BY <1>2, <2>2 DEF BalancerInv, MarkedInv
  <2> QED
    BY <1>2, <1>3, <2>1, <2>3 DEF BalancerInv, MarkedInv
<1>7. TurnInv'
  <2>1. CASE RoundRobinNext(e)
    <3>1. lIndex' = lIndex + 1 /\ lPicks' = Append(lPicks, e) /\ PlaceIn(UpOrAll, e) = lIndex % Cardinality(UpOrAll)
      BY <2>1 DEF RoundRobinNext, Place, PlaceIn
    <3>2. PICK k : k = Len(lPicks)
      OBVIOUS
    <3>3. k \in Nat /\ k <= lIndex /\ lPicks \in Seq(Endpoints) /\ lIndex \in Nat
      BY <3>2 DEF BalancerInv, TurnInv
    <3>4. /\ Len(lPicks') = k + 1 /\ DOMAIN lPicks' = 1 .. k + 1 /\ lPicks' \in Seq(Endpoints)
          /\ lPicks'[k + 1] = e /\ \A i \in 1 .. k : lPicks'[i] = lPicks[i]
      BY <3>1, <3>2, <3>3
    <3>5. ASSUME NEW i \in 1 .. k + 1
          PROVE  PlaceIn(UpOrAll, lPicks'[i]) = (((lIndex + 1) - (k + 1)) + i - 1) % Cardinality(UpOrAll)
      <4>1. CASE i = k + 1
        <5>1. ((lIndex + 1) - (k + 1)) + i - 1 = lIndex
          BY <3>3, <4>1
        <5> QED
          BY <3>1, <3>4, <4>1, <5>1
      <4>2. CASE i # k + 1
        <5>1. i \in 1 .. k /\ ((lIndex + 1) - (k + 1)) + i - 1 = lIndex - k + i - 1
          BY <3>3, <4>2
        <5>2. PlaceIn(UpOrAll, lPicks[i]) = (lIndex - k + i - 1) % Cardinality(UpOrAll)
          BY <3>2, <5>1 DEF BalancerInv, TurnInv
        <5> QED
          BY <3>4, <5>1, <5>2
      <4> QED
        BY <4>1, <4>2
    <3>7. \A i \in 1 .. k + 1 :
            PlaceIn(UpOrAll', lPicks'[i]) = (lIndex' - Len(lPicks') + i - 1) % Cardinality(UpOrAll')
      <4>1. lIndex' = lIndex + 1 /\ Len(lPicks') = k + 1
        BY <3>1, <3>4
      <4> QED
        BY <1>3, <3>5, <4>1, Zenon
    <3> QED
      BY <3>1, <3>3, <3>4, <3>7 DEF TurnInv
  <2>2. CASE lPicks' = lPicks /\ lIndex' = lIndex
    BY <1>3, <2>2 DEF BalancerInv, TurnInv
  <2> QED
    BY <1>1, <2>1, <2>2 DEF NextEndpoint, LeastNext, HashNext
<1> QED
  BY <1>5, <1>6, <1>7 DEF BalancerInv

LEMMA RequestsKeep == ASSUME BalancerInv, NEW t \in LbTasks, Answered(t) \/ RequestFails(t) \/ Report(t) PROVE BalancerInv'
<1>1. UNCHANGED <<lKind, lUnhealthy, lIndex, lCount, lRing, lMarked, lPicks>>
  BY DEF Answered, RequestFails, Report
<1>2. UpOrAll' = UpOrAll
  BY <1>1 DEF UpOrAll
<1>3. lTask[t] \in [at : {"idle", "sent", "marking", "rebuild"}, ep : Endpoints, up : BOOLEAN]
  BY DEF BalancerInv, LTypeOK
<1>4. PICK v : /\ lTask' = [lTask EXCEPT ![t] = v]
               /\ v \in [at : {"idle", "sent", "marking", "rebuild"}, ep : Endpoints, up : BOOLEAN]
               /\ \/ v.at = "marking" /\ lReports' = lReports + 1 /\ lReports < MaxReports
                  \/ v.at = "idle" /\ lReports' = lReports
  <2>1. CASE Answered(t)
    <3>1. PICK v : v = [lTask[t] EXCEPT !.at = "marking"]
      OBVIOUS
    <3>2. v \in [at : {"idle", "sent", "marking", "rebuild"}, ep : Endpoints, up : BOOLEAN] /\ v.at = "marking"
      BY <1>3, <3>1
    <3>3. lTask' = [lTask EXCEPT ![t] = v] /\ lReports' = lReports + 1 /\ lReports < MaxReports
      BY <2>1, <3>1 DEF Answered
    <3> QED
      BY <3>2, <3>3
  <2>2. CASE RequestFails(t)
    <3>1. Resting \in [at : {"idle", "sent", "marking", "rebuild"}, ep : Endpoints, up : BOOLEAN] /\ Resting.at = "idle"
      BY EndpointFacts DEF Resting
    <3> QED
      BY <2>2, <3>1 DEF RequestFails
  <2>3. CASE Report(t)
    <3>1. PICK e \in Endpoints, up \in BOOLEAN : lTask' = [lTask EXCEPT ![t] = [at |-> "marking", ep |-> e, up |-> up]]
      BY <2>3 DEF Report
    <3>2. PICK v : v = [at |-> "marking", ep |-> e, up |-> up]
      OBVIOUS
    <3>3. v \in [at : {"idle", "sent", "marking", "rebuild"}, ep : Endpoints, up : BOOLEAN] /\ v.at = "marking"
      BY <3>1, <3>2
    <3>4. lTask' = [lTask EXCEPT ![t] = v] /\ lReports' = lReports + 1 /\ lReports < MaxReports
      BY <2>3, <3>1, <3>2 DEF Report
    <3> QED
      BY <3>3, <3>4
  <2> QED
    BY <2>1, <2>2, <2>3
<1>5. lTask[t].at \in {"idle", "sent"}
  BY DEF Answered, RequestFails, Report
<1>6. LTypeOK'
  BY <1>1, <1>4, TaskStep DEF BalancerInv, LTypeOK
<1>7. TurnInv'
  BY <1>1, <1>2 DEF BalancerInv, TurnInv
<1>8. lReports' - Cardinality(Pending') = lReports - Cardinality(Pending) /\ lReports' \in 0 .. MaxReports
      /\ Cardinality(Pending) \in Nat /\ Cardinality(Pending') \in Nat /\ lReports \in Nat
  <2>1. /\ Cardinality(Pending) \in Nat /\ Cardinality(Pending') \in Nat
        /\ v.at = "marking" => Cardinality(Pending') = Cardinality(Pending) + 1
        /\ v.at # "marking" => Cardinality(Pending') = Cardinality(Pending)
    BY <1>4, <1>5, PendingChanges
  <2>2. lReports \in 0 .. MaxReports /\ MaxReports \in Nat
    BY BalancerAssumption DEF BalancerInv, MarkedInv
  <2> QED
    BY <1>4, <2>1, <2>2
<1>9. MarkedInv'
  <2>1. lTask[t].at # "rebuild" /\ \A u \in LbTasks : u # t => lTask'[u] = lTask[u]
    BY <1>4, <1>5 DEF BalancerInv, LTypeOK
  <2>2. lKind = "hash" => lRing = UpOrAll \/ \E u \in LbTasks : lTask'[u].at = "rebuild"
    BY <2>1 DEF BalancerInv, MarkedInv
  <2>3. ASSUME lKind = "least", NEW e \in Endpoints, lMarked[e] \in {"down", "back"}
        PROVE  lCount[e] >= CountMax - lReports' + Cardinality(Pending')
    <3>1. lCount[e] >= CountMax - lReports + Cardinality(Pending)
      BY <2>3 DEF BalancerInv, MarkedInv
    <3>2. lCount[e] \in Nat /\ CountMax \in Nat
      BY BalancerAssumption DEF BalancerInv, LTypeOK
    <3> QED
      BY <1>8, <3>1, <3>2
  <2> QED
    BY <1>1, <1>2, <1>8, <2>2, <2>3 DEF BalancerInv, MarkedInv
<1> QED
  BY <1>6, <1>7, <1>9 DEF BalancerInv

LEMMA MarkSetKeeps == ASSUME BalancerInv, NEW t \in LbTasks, MarkSet(t) PROVE BalancerInv'
<1>1. UNCHANGED <<lKind, lIndex, lCount, lRing, lReports>> /\ lTask[t].at = "marking" /\ lKind # "least"
  BY DEF MarkSet
<1>2. PICK e \in Endpoints : e = lTask[t].ep
  BY DEF BalancerInv, LTypeOK
<1>3. lTask[t] \in [at : {"idle", "sent", "marking", "rebuild"}, ep : Endpoints, up : BOOLEAN]
  BY DEF BalancerInv, LTypeOK
<1>4. PICK v : /\ lTask' = [lTask EXCEPT ![t] = v]
               /\ v \in [at : {"idle", "sent", "marking", "rebuild"}, ep : Endpoints, up : BOOLEAN]
               /\ v.at # "marking" /\ (lKind = "hash" => v.at = "rebuild")
  <2>1. PICK v : v = [lTask[t] EXCEPT !.at = "rebuild"]
    OBVIOUS
  <2>2. v \in [at : {"idle", "sent", "marking", "rebuild"}, ep : Endpoints, up : BOOLEAN] /\ v.at = "rebuild"
    BY <1>3, <2>1
  <2>3. Resting \in [at : {"idle", "sent", "marking", "rebuild"}, ep : Endpoints, up : BOOLEAN] /\ Resting.at = "idle"
    BY EndpointFacts DEF Resting
  <2>4. lTask' = [lTask EXCEPT ![t] = IF lKind = "hash" THEN v ELSE Resting]
    BY <2>1 DEF MarkSet
  <2> QED
    BY <2>2, <2>3, <2>4
<1>5. /\ lUnhealthy' = IF lTask[t].up THEN lUnhealthy \ {e} ELSE lUnhealthy \cup {e}
      /\ lMarked' = [lMarked EXCEPT ![e] = IF ~lTask[t].up THEN "down"
                                           ELSE IF lMarked[e] \in {"down", "back"} THEN "back" ELSE "up"]
      /\ lPicks' = IF lUnhealthy' = lUnhealthy THEN lPicks ELSE <<>>
  BY <1>2 DEF MarkSet, Marked, BalancerInv, MarkedInv
<1>6. LTypeOK'
  <2>1. lTask' \in [LbTasks -> [at : {"idle", "sent", "marking", "rebuild"}, ep : Endpoints, up : BOOLEAN]]
    BY <1>4, TaskStep
  <2>2. lUnhealthy' \subseteq Endpoints
    BY <1>5 DEF BalancerInv, LTypeOK
  <2> QED
    BY <1>1, <2>1, <2>2 DEF BalancerInv, LTypeOK
<1>7. TurnInv'
  <2>1. CASE lUnhealthy' = lUnhealthy
    <3>1. UpOrAll' = UpOrAll /\ lPicks' = lPicks
      BY <1>5, <2>1 DEF UpOrAll
    <3> QED
      BY <1>1, <3>1 DEF BalancerInv, TurnInv
  <2>2. CASE lUnhealthy' # lUnhealthy
    <3>1. lPicks' = <<>>
      BY <1>5, <2>2
    <3> QED
      BY <1>1, <3>1 DEF BalancerInv, TurnInv
  <2> QED
    BY <2>1, <2>2
<1>8. MarkedInv'
  <2>1. lUnhealthy = {f \in Endpoints : lMarked[f] = "down"} /\ lMarked \in [Endpoints -> {"none", "up", "down", "back"}]
    BY <1>1 DEF BalancerInv, MarkedInv
  <2>2. lMarked' \in [Endpoints -> {"none", "up", "down", "back"}]
    BY <1>5, <2>1
  <2>3. lMarked'[e] = "down" <=> ~lTask[t].up
    BY <1>5, <2>1
  <2>4. \A f \in Endpoints : f # e => lMarked'[f] = lMarked[f]
    BY <1>5, <2>1
  <2>5. lUnhealthy' = {f \in Endpoints : lMarked'[f] = "down"}
    BY <1>5, <2>1, <2>3, <2>4
  <2>6. lKind = "hash" => lTask'[t].at = "rebuild"
    BY <1>4 DEF BalancerInv, LTypeOK
  <2>7. Cardinality(Pending') <= lReports
    <3>1. v.at # "marking" => Cardinality(Pending') = Cardinality(Pending) - 1
      BY <1>1, <1>4, PendingChanges
    <3>2. v.at # "marking"
      BY <1>4
    <3>3. Cardinality(Pending) \in Nat
      BY <1>4, PendingChanges
    <3>4. Cardinality(Pending) <= lReports /\ lReports \in 0 .. MaxReports
      BY DEF BalancerInv, MarkedInv
    <3>5. MaxReports \in Nat
      BY BalancerAssumption
    <3> QED
      BY <3>1, <3>2, <3>3, <3>4, <3>5
  <2> QED
    BY <1>1, <2>2, <2>5, <2>6, <2>7 DEF BalancerInv, MarkedInv
<1> QED
  BY <1>6, <1>7, <1>8 DEF BalancerInv

LEMMA MarkCountKeeps == ASSUME BalancerInv, NEW t \in LbTasks, MarkCount(t) PROVE BalancerInv'
<1>1. UNCHANGED <<lKind, lUnhealthy, lIndex, lRing, lReports, lPicks>> /\ lTask[t].at = "marking" /\ lKind = "least"
  BY DEF MarkCount
<1>2. PICK e \in Endpoints : e = lTask[t].ep
  BY DEF BalancerInv, LTypeOK
<1>3. /\ lTask' = [lTask EXCEPT ![t] = Resting]
      /\ Resting \in [at : {"idle", "sent", "marking", "rebuild"}, ep : Endpoints, up : BOOLEAN] /\ Resting.at = "idle"
  BY EndpointFacts DEF MarkCount, Resting
<1>4. UpOrAll' = UpOrAll
  BY <1>1 DEF UpOrAll
<1>5. PICK c : c = IF ~lTask[t].up THEN CountMax ELSE IF lCount[e] = 0 THEN 0 ELSE lCount[e] - 1
  OBVIOUS
<1>6. lCount' = [lCount EXCEPT ![e] = c] /\ lCount[e] \in 0 .. CountMax /\ c \in 0 .. CountMax
      /\ c >= lCount[e] - 1 /\ (~lTask[t].up => c = CountMax) /\ CountMax \in Nat
  <2>1. lCount' = [lCount EXCEPT ![e] = c]
    BY <1>2, <1>5 DEF MarkCount, BalancerInv, LTypeOK
  <2>2. lCount[e] \in 0 .. CountMax /\ CountMax \in Nat
    BY BalancerAssumption DEF BalancerInv, LTypeOK
  <2> QED
    BY <1>5, <2>1, <2>2
<1>7. lMarked' = [lMarked EXCEPT ![e] = IF ~lTask[t].up THEN "down"
                                        ELSE IF lMarked[e] \in {"down", "back"} THEN "back" ELSE "up"]
  BY <1>2 DEF MarkCount, Marked, BalancerInv, MarkedInv
<1>8. LTypeOK'
  <2>1. lTask' \in [LbTasks -> [at : {"idle", "sent", "marking", "rebuild"}, ep : Endpoints, up : BOOLEAN]]
    BY <1>3, TaskStep
  <2>2. lCount' \in [Endpoints -> 0 .. CountMax]
    BY <1>6 DEF BalancerInv, LTypeOK
  <2> QED
    BY <1>1, <2>1, <2>2 DEF BalancerInv, LTypeOK
<1>9. TurnInv'
  BY <1>1, <1>4 DEF BalancerInv, TurnInv
<1>10. Cardinality(Pending) \in Nat /\ Cardinality(Pending') \in Nat /\ Cardinality(Pending') = Cardinality(Pending) - 1
  BY <1>1, <1>3, PendingChanges
<1>11. MarkedInv'
  <2>1. lMarked \in [Endpoints -> {"none", "up", "down", "back"}] /\ lReports \in 0 .. MaxReports /\ MaxReports \in Nat
    BY BalancerAssumption DEF BalancerInv, MarkedInv
  <2>2. lMarked' \in [Endpoints -> {"none", "up", "down", "back"}]
    BY <1>7, <2>1
  <2>3. ASSUME NEW f \in Endpoints, lMarked'[f] \in {"down", "back"}
        PROVE  lCount'[f] >= CountMax - lReports' + Cardinality(Pending')
    <3>1. lCount[f] \in 0 .. CountMax /\ lReports' = lReports
      BY <1>1 DEF BalancerInv, LTypeOK
    <3>2. CASE f # e
      <4>1. lMarked[f] \in {"down", "back"} /\ lCount'[f] = lCount[f]
        BY <1>6, <1>7, <2>1, <2>3, <3>2 DEF BalancerInv, LTypeOK
      <4>2. lCount[f] >= CountMax - lReports + Cardinality(Pending)
        BY <1>1, <4>1 DEF BalancerInv, MarkedInv
      <4> QED
        BY <1>6, <1>10, <2>1, <3>1, <4>1, <4>2
    <3>3. CASE f = e
      <4>1. lCount'[f] = c
        BY <1>6, <3>3 DEF BalancerInv, LTypeOK
      <4>2. CASE ~lTask[t].up
        <5>1. Cardinality(Pending') <= lReports
          BY <1>10, <2>1 DEF BalancerInv, MarkedInv
        <5> QED
          BY <1>6, <1>10, <2>1, <3>1, <4>1, <4>2, <5>1
      <4>3. CASE lTask[t].up
        <5>1. lMarked[e] \in {"down", "back"}
          BY <1>7, <2>1, <2>3, <3>3, <4>3
        <5>2. lCount[e] >= CountMax - lReports + Cardinality(Pending)
          BY <1>1, <5>1 DEF BalancerInv, MarkedInv
        <5> QED
          BY <1>6, <1>10, <2>1, <3>1, <4>1, <5>2
      <4> QED
        BY <4>2, <4>3
    <3> QED
      BY <3>2, <3>3
  <2>4. lReports' = lReports /\ lKind' = "least" /\ Cardinality(Pending') <= lReports
    BY <1>1, <1>10, <2>1 DEF BalancerInv, MarkedInv
  <2> QED
    BY <2>1, <2>2, <2>3, <2>4 DEF MarkedInv
<1> QED
  BY <1>8, <1>9, <1>11 DEF BalancerInv

LEMMA RebuildKeeps == ASSUME BalancerInv, NEW t \in LbTasks, RebuildRing(t) PROVE BalancerInv'
<1>1. UNCHANGED <<lKind, lUnhealthy, lIndex, lCount, lReports, lMarked, lPicks>> /\ lTask[t].at = "rebuild"
      /\ lRing' = UpOrAll
  BY DEF RebuildRing
<1>2. UpOrAll' = UpOrAll
  BY <1>1 DEF UpOrAll
<1>3. /\ lTask' = [lTask EXCEPT ![t] = Resting]
      /\ Resting \in [at : {"idle", "sent", "marking", "rebuild"}, ep : Endpoints, up : BOOLEAN] /\ Resting.at = "idle"
  BY EndpointFacts DEF RebuildRing, Resting
<1>4. LTypeOK'
  <2>1. lTask' \in [LbTasks -> [at : {"idle", "sent", "marking", "rebuild"}, ep : Endpoints, up : BOOLEAN]]
    BY <1>3, TaskStep
  <2>2. lRing' \subseteq Endpoints
    BY <1>1, SomeToChoose DEF BalancerInv, LTypeOK
  <2> QED
    BY <1>1, <2>1, <2>2 DEF BalancerInv, LTypeOK
<1>5. TurnInv'
  BY <1>1, <1>2 DEF BalancerInv, TurnInv
<1>6. Cardinality(Pending') = Cardinality(Pending)
  BY <1>1, <1>3, PendingChanges
<1>7. MarkedInv'
  BY <1>1, <1>2, <1>6 DEF BalancerInv, MarkedInv
<1> QED
  BY <1>4, <1>5, <1>7 DEF BalancerInv

LEMMA BalancerInvStep == BalancerInv /\ [LNext]_lVars => BalancerInv'
<1> SUFFICES ASSUME BalancerInv, [LNext]_lVars PROVE BalancerInv'
  OBVIOUS
<1>1. CASE UNCHANGED lVars
  <2>1. /\ lKind' = lKind /\ lUnhealthy' = lUnhealthy /\ lIndex' = lIndex /\ lCount' = lCount /\ lRing' = lRing
        /\ lTask' = lTask /\ lReports' = lReports /\ lMarked' = lMarked /\ lPicks' = lPicks
    BY <1>1 DEF lVars
  <2>2. UpOrAll' = UpOrAll /\ Pending' = Pending
    BY <2>1 DEF UpOrAll, Pending
  <2> QED
    BY <2>1, <2>2 DEF BalancerInv, LTypeOK, TurnInv, MarkedInv
<1> QED
  BY <1>1, RouteKeeps, RequestsKeep, MarkSetKeeps, MarkCountKeeps, RebuildKeeps DEF LNext

LEMMA BalancerInvSound == BalancerInv => RoutingSound
<1> SUFFICES ASSUME BalancerInv PROVE ChoosesTheHealthy /\ EachInTurn
  BY DEF RoutingSound
<1>1. UpOrAll # {} /\ UpOrAll \subseteq Endpoints /\ Cardinality(UpOrAll) \in Nat \ {0}
  BY SomeToChoose DEF BalancerInv, LTypeOK
<1>2. EachInTurn
  <2>1. SUFFICES ASSUME NEW i \in DOMAIN lPicks, NEW j \in DOMAIN lPicks, i < j, j < i + Cardinality(UpOrAll)
                 PROVE  lPicks[i] # lPicks[j]
    BY DEF EachInTurn
  <2>2. PICK k \in 0 .. lIndex : k = Len(lPicks)
    BY DEF BalancerInv, TurnInv
  <2>3. lIndex \in Nat /\ i \in 1 .. k /\ j \in 1 .. k
    BY <2>2 DEF BalancerInv, TurnInv
  <2>4. PICK x : x = lIndex - k + i - 1
    OBVIOUS
  <2>5. PICK y : y = lIndex - k + j - 1
    OBVIOUS
  <2>6. PICK n \in Nat \ {0} : n = Cardinality(UpOrAll)
    BY <1>1
  <2>7. x \in Nat /\ y \in Nat /\ x < y /\ y < x + n
    BY <2>1, <2>2, <2>3, <2>4, <2>5, <2>6
  <2>8. PlaceIn(UpOrAll, lPicks[i]) = x % n /\ PlaceIn(UpOrAll, lPicks[j]) = y % n
    BY <2>2, <2>4, <2>5, <2>6 DEF BalancerInv, TurnInv
  <2>9. x % n # y % n
    BY <2>7, DifferentRemainders
  <2> QED
    BY <2>8, <2>9
<1>3. ChoosesTheHealthy
  <2>1. SUFFICES ASSUME \A t \in LbTasks : lTask[t].at \notin {"marking", "rebuild"},
                        NEW up, up = {e \in Endpoints : lMarked[e] # "down"},
                        NEW fit, fit = IF up = {} THEN Endpoints ELSE up
                 PROVE  CASE lKind = "roundrobin" -> UpOrAll = fit
                          [] lKind = "hash"       -> lRing = fit
                          [] lKind = "least"      -> \A e \in Open : lMarked[e] \in {"none", "up"}
    BY DEF ChoosesTheHealthy
  <2>2. lKind # "least" => UpOrAll = fit
    <3>1. ASSUME lKind # "least" PROVE UpOrAll = fit
      <4>1. lUnhealthy = {e \in Endpoints : lMarked[e] = "down"}
        BY <3>1 DEF BalancerInv, MarkedInv
      <4>2. up = Endpoints \ lUnhealthy /\ lUnhealthy \subseteq Endpoints
        BY <2>1, <4>1
      <4>3. up = {} <=> lUnhealthy = Endpoints
        BY <4>2
      <4> QED
        BY <2>1, <4>2, <4>3 DEF UpOrAll
    <3> QED
      BY <3>1
  <2>3. lKind = "hash" => lRing = fit
    BY <2>1, <2>2 DEF BalancerInv, MarkedInv
  <2>4. lKind = "least" => \A e \in Open : lMarked[e] \in {"none", "up"}
    <3>1. ASSUME lKind = "least", NEW e \in Open, lMarked[e] \in {"down", "back"} PROVE FALSE
      <4>1. e \in Endpoints /\ lCount[e] < CountLimit
        BY <3>1 DEF Open
      <4>2. lCount[e] >= CountMax - lReports + Cardinality(Pending)
        BY <3>1, <4>1 DEF BalancerInv, MarkedInv
      <4>3. Cardinality(Pending) = 0
        <5>1. Pending = {}
          BY <2>1 DEF Pending
        <5> QED
          BY <5>1, FS_EmptySet
      <4>4. /\ lReports \in 0 .. MaxReports /\ CountLimit + MaxReports < CountMax /\ CountLimit \in Nat
            /\ MaxReports \in Nat /\ CountMax \in Nat /\ lCount[e] \in 0 .. CountMax
        BY <4>1, BalancerAssumption DEF BalancerInv, MarkedInv, LTypeOK
      <4> QED
        BY <4>1, <4>2, <4>3, <4>4
    <3>2. \A e \in Open : lMarked[e] \in {"none", "up", "down", "back"}
      BY DEF BalancerInv, MarkedInv, Open
    <3> QED
      BY <3>1, <3>2
  <2>5. lKind \in {"roundrobin", "least", "hash"}
    BY DEF BalancerInv, LTypeOK
  <2> QED
    BY <2>2, <2>3, <2>4, <2>5
<1> QED
  BY <1>2, <1>3

\* A balancer chooses among the endpoints whose last report was good, in turn if
\* it is the round robin one, and the one that counts connections never takes an
\* endpoint back: for any number of endpoints, tasks and reports below the
\* largest count (frontier/proxy/src/loadbalancer.rs).
THEOREM BalancersAlwaysChoose == LSpec => []RoutingSound
<1>1. LInit => BalancerInv
  BY BalancerInitInv
<1>2. BalancerInv /\ [LNext]_lVars => BalancerInv'
  BY BalancerInvStep
<1>3. BalancerInv => RoutingSound
  BY BalancerInvSound
<1> QED
  BY <1>1, <1>2, <1>3, PTL DEF LSpec
-----------------------------------------------------------------------------
(* Rate limits.                                                            *)

\* How many of the times in s are from a to b.
CountIn(s, a, b) == Cardinality({i \in DOMAIN s : s[i] \in a .. b})

LEMMA CountFinite ==
    ASSUME NEW s \in Seq(Nat), NEW a, NEW b
    PROVE  IsFiniteSet({i \in DOMAIN s : s[i] \in a .. b}) /\ CountIn(s, a, b) \in Nat
<1>1. Len(s) \in Nat /\ DOMAIN s = 1 .. Len(s)
  OBVIOUS
<1>2. IsFiniteSet(DOMAIN s)
  BY <1>1, FS_Interval
<1>3. {i \in DOMAIN s : s[i] \in a .. b} \in SUBSET DOMAIN s
  OBVIOUS
<1>4. IsFiniteSet({i \in DOMAIN s : s[i] \in a .. b})
  BY <1>2, <1>3, FS_Subset
<1> QED
  BY <1>4, FS_CardinalityType DEF CountIn

LEMMA CountNone == ASSUME NEW s, NEW a, NEW b, \A i \in DOMAIN s : s[i] \notin a .. b PROVE CountIn(s, a, b) = 0
<1>1. {i \in DOMAIN s : s[i] \in a .. b} = {}
  OBVIOUS
<1> QED
  BY <1>1, FS_EmptySet DEF CountIn

LEMMA CountAppend ==
    ASSUME NEW s \in Seq(Nat), NEW x \in Nat, NEW a \in Nat, NEW b \in Nat
    PROVE  CountIn(Append(s, x), a, b) = IF a <= x /\ x <= b THEN CountIn(s, a, b) + 1 ELSE CountIn(s, a, b)
<1>1. PICK n \in Nat : n = Len(s)
  OBVIOUS
<1>2. PICK u : u = Append(s, x)
  OBVIOUS
<1>3. DOMAIN s = 1 .. n /\ DOMAIN u = 1 .. n + 1 /\ u[n + 1] = x /\ \A i \in 1 .. n : u[i] = s[i]
  BY <1>1, <1>2
<1>4. PICK S : S = {i \in DOMAIN s : s[i] \in a .. b}
  OBVIOUS
<1>5. PICK U : U = {i \in DOMAIN u : u[i] \in a .. b}
  OBVIOUS
<1>6. IsFiniteSet(S) /\ n + 1 \notin S
  <2>1. n + 1 \notin 1 .. n
    OBVIOUS
  <2>2. IsFiniteSet(S)
    BY <1>4, CountFinite
  <2> QED
    BY <1>3, <1>4, <2>1, <2>2
<1>7. \A i \in 1 .. n + 1 : i \in 1 .. n \/ i = n + 1
  OBVIOUS
<1>8. U = IF a <= x /\ x <= b THEN S \cup {n + 1} ELSE S
  BY <1>3, <1>4, <1>5, <1>7
<1>9. Cardinality(S \cup {n + 1}) = Cardinality(S) + 1
  BY <1>6, FS_AddElement
<1> QED
  BY <1>2, <1>4, <1>5, <1>8, <1>9 DEF CountIn

\* An interval that ends after the last time counts as much as one that ends
\* there.
LEMMA CountUpTo ==
    ASSUME NEW s \in Seq(Nat), NEW a \in Nat, NEW l \in Nat, NEW b \in Nat, l <= b, \A i \in DOMAIN s : s[i] <= l
    PROVE  CountIn(s, a, b) = CountIn(s, a, l)
<1>1. \A i \in DOMAIN s : s[i] \in Nat
  OBVIOUS
<1>2. {i \in DOMAIN s : s[i] \in a .. b} = {i \in DOMAIN s : s[i] \in a .. l}
  BY <1>1
<1> QED
  BY <1>2 DEF CountIn
UpTo(s, l) == \A i \in DOMAIN s : s[i] <= l
LEMMA CountAtEnd ==
    \A s \in Seq(Nat) : \A a, l, b \in Nat : l <= b /\ UpTo(s, l) => CountIn(s, a, b) = CountIn(s, a, l)
BY CountUpTo DEF UpTo
-----------------------------------------------------------------------------
\* The sliding window of a key: c are the requests it keeps, s the times of all
\* that it allowed, l the last time it was used with.
WindowKey(c, s, l) ==
    /\ IsFiniteSet(c)
    /\ l # -1 =>
         /\ \A i \in DOMAIN s : s[i] <= l
         /\ \A i \in DOMAIN s : s[i] >= l - Window => [at |-> s[i], no |-> i] \in c
         /\ \A a, b \in Nat : b - a <= Window => CountIn(s, a, b) <= MaxRequests

\* The bucket of a key: up to its last refill it gave away what it was filled
\* with, but for the tokens that are left.
BucketKey(c, s, l) ==
    /\ c \in [tokens : 0 .. Burst * TokenUnit, lastRefill : Nat]
    /\ l # -1 =>
         /\ \A i \in DOMAIN s : s[i] <= c.lastRefill
         /\ \A a \in 0 .. c.lastRefill :
              CountIn(s, a, c.lastRefill) * TokenUnit + c.tokens <= Burst * TokenUnit + (c.lastRefill - a) * Refill
         /\ \A a, b \in Nat : a <= b => CountIn(s, a, b) * TokenUnit <= Burst * TokenUnit + (b - a) * Refill

LatestAfter(l, at) == IF at < l THEN -1 ELSE IF l = -1 THEN -1 ELSE at

\* The requests in a window that ends with this one are among those kept.
LEMMA KeptCounts ==
    ASSUME NEW c, IsFiniteSet(c), NEW s \in Seq(Nat), NEW x \in Nat, NEW a \in Nat, NEW b \in Nat,
           \A i \in DOMAIN s : s[i] \in a .. b => [at |-> s[i], no |-> i] \in c
    PROVE  CountIn(s, a, b) <= Cardinality(c)
<1>1. PICK S : S = {i \in DOMAIN s : s[i] \in a .. b}
  OBVIOUS
<1>2. PICK f : f = [i \in S |-> [at |-> s[i], no |-> i]]
  OBVIOUS
<1>3. f \in [S -> c]
  BY <1>1, <1>2
<1>4. \A i, j \in S : f[i] = f[j] => i = j
  <2>1. ASSUME NEW i \in S, NEW j \in S, f[i] = f[j] PROVE i = j
    <3>1. f[i].no = i /\ f[j].no = j
      BY <1>2
    <3> QED
      BY <2>1, <3>1
  <2> QED
    BY <2>1
<1>5. f \in Injection(S, c)
  BY <1>3, <1>4 DEF Injection, IsInjective
<1>6. Cardinality(S) <= Cardinality(c)
  BY <1>5, FS_Injection
<1> QED
  BY <1>1, <1>6 DEF CountIn

LEMMA RecordKeeps ==
    ASSUME NEW c, NEW s \in Seq(Nat), NEW l \in Nat \cup {-1}, WindowKey(c, s, l), NEW at \in Nat,
           NEW r, r = Record(c, at, Len(s) + 1), NEW u, u = IF r.allowed THEN Append(s, at) ELSE s
    PROVE  WindowKey(r.counter, u, LatestAfter(l, at)) /\ u \in Seq(Nat) /\ LatestAfter(l, at) \in Nat \cup {-1}
<1>1. PICK kept : kept = {q \in c : q.at >= at - Window}
  OBVIOUS
<1>2. IsFiniteSet(kept) /\ Cardinality(kept) \in Nat
  <2>1. kept \in SUBSET c /\ IsFiniteSet(c)
    BY <1>1 DEF WindowKey
  <2> QED
    BY <2>1, FS_Subset, FS_CardinalityType
<1>3. PICK new : new = [at |-> at, no |-> Len(s) + 1]
  OBVIOUS
<1>4. \/ r.allowed = FALSE /\ r.counter = kept /\ u = s
      \/ r.allowed = TRUE /\ r.counter = kept \cup {new} /\ u = Append(s, at) /\ Cardinality(kept) < MaxRequests
  <2>1. r = IF Cardinality(kept) >= MaxRequests THEN [allowed |-> FALSE, counter |-> kept]
            ELSE [allowed |-> TRUE, counter |-> kept \cup {new}]
    BY <1>1, <1>3 DEF Record, Retain
  <2>2. MaxRequests \in Nat
    BY RateLimiterAssumption
  <2> QED
    BY <1>2, <2>1, <2>2
<1>5. IsFiniteSet(r.counter)
  <2>1. IsFiniteSet(kept \cup {new})
    BY <1>2, FS_AddElement
  <2> QED
    BY <1>2, <1>4, <2>1
<1>6. u \in Seq(Nat)
  BY <1>4
<1>7. LatestAfter(l, at) \in Nat \cup {-1}
  BY DEF LatestAfter
<1>8. ASSUME LatestAfter(l, at) # -1
      PROVE  /\ \A i \in DOMAIN u : u[i] <= at
             /\ \A i \in DOMAIN u : u[i] >= at - Window => [at |-> u[i], no |-> i] \in r.counter
             /\ \A a, b \in Nat : b - a <= Window => CountIn(u, a, b) <= MaxRequests
  <2>1. l \in Nat /\ l <= at
    BY <1>8 DEF LatestAfter
  <2>2. /\ \A i \in DOMAIN s : s[i] \in Nat /\ s[i] <= l
        /\ \A i \in DOMAIN s : s[i] >= l - Window => [at |-> s[i], no |-> i] \in c
        /\ \A a, b \in Nat : b - a <= Window => CountIn(s, a, b) <= MaxRequests
    BY <2>1 DEF WindowKey
  <2>3. Window \in Nat /\ MaxRequests \in Nat
    BY RateLimiterAssumption
  <2>4. \A i \in DOMAIN s : s[i] <= at
    BY <2>1, <2>2
  <2>5. ASSUME NEW i \in DOMAIN s, s[i] >= at - Window PROVE [at |-> s[i], no |-> i] \in kept
    <3>1. [at |-> s[i], no |-> i] \in c
      BY <2>1, <2>2, <2>3, <2>5
    <3> QED
      BY <1>1, <2>5, <3>1
  <2>6. CASE u = s /\ r.counter = kept
    BY <2>2, <2>4, <2>5, <2>6
  <2>7. CASE u = Append(s, at) /\ r.counter = kept \cup {new} /\ Cardinality(kept) < MaxRequests
    <3>1. PICK n \in Nat : n = Len(s)
      OBVIOUS
    <3>2. DOMAIN s = 1 .. n /\ DOMAIN u = 1 .. n + 1 /\ u[n + 1] = at /\ \A i \in 1 .. n : u[i] = s[i]
      BY <2>7, <3>1
    <3>3. \A i \in 1 .. n + 1 : i \in 1 .. n \/ i = n + 1
      OBVIOUS
    <3>4. \A i \in DOMAIN u : u[i] <= at
      BY <2>4, <3>2, <3>3
    <3>5. ASSUME NEW i \in DOMAIN u, u[i] >= at - Window PROVE [at |-> u[i], no |-> i] \in r.counter
      <4>1. CASE i = n + 1
        BY <1>3, <2>7, <3>1, <3>2, <4>1
      <4>2. CASE i \in 1 .. n
        <5>1. u[i] = s[i] /\ i \in DOMAIN s /\ s[i] >= at - Window
          BY <3>2, <3>5, <4>2
        <5> QED
          BY <2>5, <2>7, <5>1
      <4> QED
        BY <3>2, <3>3, <4>1, <4>2
    <3>6. ASSUME NEW a \in Nat, NEW b \in Nat, b - a <= Window PROVE CountIn(u, a, b) <= MaxRequests
      <4>1. CountIn(s, a, b) \in Nat /\ CountIn(s, a, b) <= MaxRequests
        BY <2>2, <3>6, CountFinite
      <4>2. CountIn(u, a, b) = IF a <= at /\ at <= b THEN CountIn(s, a, b) + 1 ELSE CountIn(s, a, b)
        BY <2>7, CountAppend
      <4>3. CASE a <= at /\ at <= b
        <5>1. \A i \in DOMAIN s : s[i] \in a .. b => s[i] >= at - Window
          BY <2>2, <2>3, <3>6, <4>3
        <5>2. \A i \in DOMAIN s : s[i] \in a .. b => [at |-> s[i], no |-> i] \in kept
          BY <2>5, <5>1
        <5>3. CountIn(s, a, b) <= Cardinality(kept)
          BY <1>2, <5>2, KeptCounts
        <5> QED
          BY <1>2, <2>3, <2>7, <4>1, <4>2, <4>3, <5>3
      <4>4. CASE ~(a <= at /\ at <= b)
        BY <4>1, <4>2, <4>4
      <4> QED
        BY <4>3, <4>4
    <3> QED
      BY <3>4, <3>5, <3>6
  <2> QED
    BY <1>4, <2>6, <2>7
<1>9. LatestAfter(l, at) # -1 => LatestAfter(l, at) = at
  BY DEF LatestAfter
<1> QED
  BY <1>5, <1>6, <1>7, <1>8, <1>9 DEF WindowKey
-----------------------------------------------------------------------------
\* Arithmetic of the bucket.
LEMMA Moved ==
    ASSUME NEW m \in Int, NEW had \in Int, NEW got \in Int, NEW full \in Int, NEW x \in Int, NEW y, NEW has \in Int,
           m + had <= full + x, y = x + got, has <= had + got
    PROVE  m + has <= full + y
OBVIOUS
LEMMA Distributes == ASSUME NEW x \in Int, NEW y \in Int, NEW k \in Nat PROVE (x + y) * k = x * k + y * k
OBVIOUS
LEMMA Grows == ASSUME NEW x \in Nat, NEW y \in Nat, NEW k \in Nat, x <= y PROVE x * k \in Nat /\ y * k \in Nat /\ x * k <= y * k
<1>1. PICK d \in Nat : y = x + d
  <2>1. y - x \in Nat /\ y = x + (y - x)
    OBVIOUS
  <2> QED
    BY <2>1
<1>2. d * k \in Nat /\ x * k \in Nat
  OBVIOUS
<1>3. y * k = x * k + d * k
  BY <1>1, Distributes
<1> QED
  BY <1>2, <1>3

\* A time that is not before the last one is not before the last refill.
NotLate(c, l, at) == l # -1 /\ at >= l => at >= c.lastRefill

LEMMA ConsumedAt == ASSUME NEW c, NEW at PROVE TryConsume(c, at).counter.lastRefill = at
<1>1. PICK b : b = RefillAt(c, at)
  OBVIOUS
<1>2. b.lastRefill = at /\ DOMAIN b = {"tokens", "lastRefill"}
  BY <1>1 DEF RefillAt
<1> QED
  BY <1>1, <1>2 DEF TryConsume

LEMMA ConsumeKeeps ==
    ASSUME NEW c, NEW s \in Seq(Nat), NEW l \in Nat \cup {-1}, BucketKey(c, s, l), NEW at \in Nat,
           NotLate(c, l, at),
           NEW r, r = TryConsume(c, at), NEW u, u = IF r.allowed THEN Append(s, at) ELSE s
    PROVE  BucketKey(r.counter, u, LatestAfter(l, at)) /\ u \in Seq(Nat) /\ LatestAfter(l, at) \in Nat \cup {-1}
<1>0. Burst \in Nat /\ TokenUnit \in Nat \ {0} /\ Refill \in Nat
  BY RateLimiterAssumption
<1>1. PICK full : full = Burst * TokenUnit
  OBVIOUS
<1>2. full \in Nat
  BY <1>0, <1>1
<1>3. c.tokens \in 0 .. full /\ c.lastRefill \in Nat
  BY <1>1 DEF BucketKey
<1>4. PICK last \in Nat : last = c.lastRefill
  BY <1>3
<1>5. PICK elapsed \in Nat : elapsed = IF at > last THEN at - last ELSE 0
  <2>1. (IF at > last THEN at - last ELSE 0) \in Nat
    OBVIOUS
  <2> QED
    BY <2>1
<1>6. PICK got \in Nat : got = elapsed * Refill
  BY <1>0
<1>7. PICK tokens \in 0 .. full : tokens = IF c.tokens + got > full THEN full ELSE c.tokens + got
  BY <1>2, <1>3
<1>8. RefillAt(c, at) = [tokens |-> tokens, lastRefill |-> at]
  BY <1>1, <1>4, <1>5, <1>6, <1>7 DEF RefillAt
<1>9. \/ r.allowed = FALSE /\ r.counter = [tokens |-> tokens, lastRefill |-> at] /\ u = s
      \/ /\ r.allowed = TRUE /\ tokens >= TokenUnit /\ u = Append(s, at)
         /\ r.counter = [tokens |-> tokens - TokenUnit, lastRefill |-> at]
  BY <1>8 DEF TryConsume
<1>10. PICK left \in 0 .. full : /\ r.counter = [tokens |-> left, lastRefill |-> at]
                                 /\ \/ u = s /\ left = tokens
                                    \/ u = Append(s, at) /\ left = tokens - TokenUnit
  <2>1. CASE r.allowed = FALSE /\ r.counter = [tokens |-> tokens, lastRefill |-> at] /\ u = s
    BY <2>1
  <2>2. CASE /\ r.allowed = TRUE /\ tokens >= TokenUnit /\ u = Append(s, at)
             /\ r.counter = [tokens |-> tokens - TokenUnit, lastRefill |-> at]
    <3>1. tokens - TokenUnit \in 0 .. full
      BY <1>0, <1>2, <2>2
    <3> QED
      BY <2>2, <3>1
  <2> QED
    BY <1>9, <2>1, <2>2
<1>11. u \in Seq(Nat) /\ LatestAfter(l, at) \in Nat \cup {-1} /\ r.counter.lastRefill = at /\ r.counter.tokens = left
  BY <1>10 DEF LatestAfter
<1>12. ASSUME LatestAfter(l, at) # -1
       PROVE  /\ \A i \in DOMAIN u : u[i] <= at
              /\ \A a \in 0 .. at : CountIn(u, a, at) * TokenUnit + left <= full + (at - a) * Refill
              /\ \A a, b \in Nat : a <= b => CountIn(u, a, b) * TokenUnit <= full + (b - a) * Refill
  <2>1. l \in Nat /\ l <= at /\ last <= at
    BY <1>4, <1>12 DEF LatestAfter, NotLate
  <2>2. /\ \A i \in DOMAIN s : s[i] <= last
        /\ \A a \in 0 .. last : CountIn(s, a, last) * TokenUnit + c.tokens <= full + (last - a) * Refill
        /\ \A a, b \in Nat : a <= b => CountIn(s, a, b) * TokenUnit <= full + (b - a) * Refill
    BY <1>1, <1>4, <2>1 DEF BucketKey
  <2>3. \A i \in DOMAIN s : s[i] \in Nat /\ s[i] <= at
    <3>1. ASSUME NEW i \in DOMAIN s PROVE s[i] \in Nat /\ s[i] <= at
      <4>1. s[i] \in Nat
        OBVIOUS
      <4>2. s[i] <= last
        BY <2>2
      <4> QED
        BY <2>1, <4>1, <4>2
    <3> QED
      BY <3>1
  <2>4. \A i \in DOMAIN u : u[i] <= at
    <3>1. CASE u = s
      BY <2>3, <3>1
    <3>2. CASE u = Append(s, at)
      <4>1. PICK n \in Nat : n = Len(s)
        OBVIOUS
      <4>2. DOMAIN s = 1 .. n /\ DOMAIN u = 1 .. n + 1 /\ u[n + 1] = at /\ \A i \in 1 .. n : u[i] = s[i]
        BY <3>2, <4>1
      <4>3. \A i \in 1 .. n + 1 : i \in 1 .. n \/ i = n + 1
        OBVIOUS
      <4> QED
        BY <2>3, <4>2, <4>3
    <3> QED
      BY <1>10, <3>1, <3>2
  <2>5. ASSUME NEW a \in 0 .. at PROVE CountIn(s, a, at) * TokenUnit + tokens <= full + (at - a) * Refill
    <3>1. CASE a <= last
      <4>1. CountIn(s, a, at) = CountIn(s, a, last)
        BY <2>1, <2>2, <2>5, CountUpTo
      <4>2. PICK m \in Nat : m = CountIn(s, a, last) * TokenUnit
        <5>1. PICK k \in Nat : k = CountIn(s, a, last)
          BY CountFinite
        <5>2. k * TokenUnit \in Nat
          BY <1>0
        <5> QED
          BY <5>1, <5>2
      <4>3. m + c.tokens <= full + (last - a) * Refill
        BY <2>2, <2>5, <3>1, <4>2
      <4>4. (at - a) * Refill = (last - a) * Refill + got
        <5>1. at - a = (last - a) + elapsed /\ last - a \in Int /\ elapsed \in Int
          BY <1>5, <2>1, <2>5
        <5> QED
          BY <1>0, <1>6, <5>1, Distributes
      <4>5. (last - a) * Refill \in Int
        BY <1>0, <2>5
      <4>6. tokens <= c.tokens + got
        BY <1>2, <1>3, <1>7
      <4>7. m + tokens <= full + (at - a) * Refill
        <5>1. m \in Int /\ c.tokens \in Int /\ got \in Int /\ full \in Int /\ tokens \in Int
          BY <1>2, <1>3
        <5> QED
          BY <4>3, <4>4, <4>5, <4>6, <5>1, Moved
      <4> QED
        BY <4>1, <4>2, <4>7
    <3>2. CASE a > last
      <4>1. \A i \in DOMAIN s : s[i] \notin a .. at
        BY <2>2, <2>3, <2>5, <3>2
      <4>2. CountIn(s, a, at) = 0
        BY <4>1, CountNone
      <4>3. (at - a) * Refill \in Nat
        BY <1>0, <2>5
      <4>4. 0 * TokenUnit = 0
        BY <1>0
      <4>5. tokens <= full + (at - a) * Refill
        BY <1>2, <4>3
      <4> QED
        BY <1>2, <4>2, <4>4, <4>5
    <3> QED
      BY <2>5, <3>1, <3>2
  <2>6. ASSUME NEW a \in 0 .. at PROVE CountIn(u, a, at) * TokenUnit + left <= full + (at - a) * Refill
    <3>1. CASE u = s /\ left = tokens
      BY <2>5, <3>1
    <3>2. CASE u = Append(s, at) /\ left = tokens - TokenUnit
      <4>1. PICK m \in Nat : m = CountIn(s, a, at)
        BY CountFinite
      <4>2. CountIn(u, a, at) = m + 1
        BY <2>6, <3>2, <4>1, CountAppend
      <4>3. (m + 1) * TokenUnit = m * TokenUnit + TokenUnit
        BY <1>0, Distributes
      <4>4. m * TokenUnit + tokens <= full + (at - a) * Refill
        BY <2>5, <4>1
      <4>5. m * TokenUnit \in Nat /\ (at - a) * Refill \in Nat
        BY <1>0, <2>6
      <4>6. (m + 1) * TokenUnit + left <= full + (at - a) * Refill
        BY <1>0, <1>2, <3>2, <4>3, <4>4, <4>5
      <4> QED
        BY <4>2, <4>6
    <3> QED
      BY <1>10, <3>1, <3>2
  <2>7. ASSUME NEW a \in Nat, NEW b \in Nat, a <= b PROVE CountIn(u, a, b) * TokenUnit <= full + (b - a) * Refill
    <3>1. CASE a <= at /\ at <= b
      <4>1. CountIn(u, a, b) = CountIn(u, a, at)
        <5>1. at <= b /\ u \in Seq(Nat) /\ UpTo(u, at)
          BY <1>11, <2>4, <3>1 DEF UpTo
        <5> QED
          <6>1. a \in Nat /\ at \in Nat /\ b \in Nat
            OBVIOUS
          <6>2. \A x, y, z \in Nat : y <= z /\ UpTo(u, y) => CountIn(u, x, z) = CountIn(u, x, y)
            BY <5>1, CountAtEnd
          <6> QED
            BY <5>1, <6>1, <6>2
      <4>2. PICK m \in Nat : m = CountIn(u, a, at) * TokenUnit
        <5>1. PICK k \in Nat : k = CountIn(u, a, at)
          BY <1>11, CountFinite
        <5>2. k * TokenUnit \in Nat
          BY <1>0
        <5> QED
          BY <5>1, <5>2
      <4>3. m + left <= full + (at - a) * Refill
        BY <2>6, <3>1, <4>2
      <4>4. (at - a) * Refill \in Nat /\ (b - a) * Refill \in Nat /\ (at - a) * Refill <= (b - a) * Refill
        <5>1. at - a \in Nat /\ b - a \in Nat /\ at - a <= b - a
          BY <3>1
        <5> QED
          BY <1>0, <5>1, Grows
      <4>5. m <= full + (b - a) * Refill
        BY <1>2, <4>3, <4>4
      <4> QED
        BY <4>1, <4>2, <4>5
    <3>2. CASE ~(a <= at /\ at <= b)
      <4>1. CountIn(u, a, b) = CountIn(s, a, b)
        BY <1>10, <3>2, CountAppend
      <4> QED
        BY <2>2, <2>7, <4>1
    <3> QED
      BY <3>1, <3>2
  <2> QED
    BY <2>4, <2>6, <2>7
<1>13. r.counter \in [tokens : 0 .. full, lastRefill : Nat]
  BY <1>10
<1> QED
  BY <1>1, <1>11, <1>12, <1>13 DEF BucketKey
-----------------------------------------------------------------------------
Checks == [key : RlKeys \cup {NoKey}, now : Nat]
RateTypes ==
    /\ rNow \in Nat /\ rStrategy \in {"SlidingWindow", "TokenBucket"}
    /\ Registered \subseteq RlKeys /\ rAllowed \in [RlKeys -> Seq(Nat)] /\ rLatest \in [RlKeys -> Nat \cup {-1}]
    /\ rTask \in [RlTasks -> Checks]
    /\ \A t \in RlTasks : rTask[t] # NotChecking => rTask[t].key \in Registered

\* What holds of the counter of each key.
CountersHold ==
    \A k \in Registered :
       IF rStrategy = "SlidingWindow" THEN WindowKey(rCounter[k], rAllowed[k], rLatest[k])
       ELSE BucketKey(rCounter[k], rAllowed[k], rLatest[k])

\* A check that is not late for its key's lock is not late for the last refill.
NotBeforeRefill ==
    rStrategy = "TokenBucket" =>
       /\ \A k \in Registered : rCounter[k].lastRefill <= rNow
       /\ \A t \in RlTasks :
             /\ rTask[t].now <= rNow
             /\ rTask[t] # NotChecking /\ rLatest[rTask[t].key] # -1 /\ rTask[t].now >= rLatest[rTask[t].key]
                  => rTask[t].now >= rCounter[rTask[t].key].lastRefill

RateInv == RateTypes /\ CountersHold /\ NotBeforeRefill

LEMMA RateInitInv == RlInit => RateInv
<1> SUFFICES ASSUME RlInit PROVE RateInv
  OBVIOUS
<1>1. Window \in Nat
  BY RateLimiterAssumption
<1>2. Registered = {}
  BY DEF RlInit, Registered
<1>3. RateTypes
  <2>1. NotChecking \in Checks
    BY DEF NotChecking, Checks
  <2>2. \A k \in RlKeys : rAllowed[k] = <<>>
    BY DEF RlInit
  <2>3. rAllowed \in [RlKeys -> Seq(Nat)]
    BY DEF RlInit
  <2> QED
    BY <1>1, <1>2, <2>1, <2>3 DEF RlInit, RateTypes
<1>4. CountersHold
  BY <1>2 DEF CountersHold
<1>5. NotBeforeRefill
  BY <1>1, <1>2 DEF RlInit, NotBeforeRefill, NotChecking
<1> QED
  BY <1>3, <1>4, <1>5 DEF RateInv

LEMMA TickKeeps == RateInv /\ ClockTick => RateInv'
<1> SUFFICES ASSUME RateInv, ClockTick PROVE RateInv'
  OBVIOUS
<1>1. /\ rNow' = rNow + 1 /\ rStrategy' = rStrategy /\ rCounter' = rCounter /\ rTask' = rTask /\ rAllowed' = rAllowed
      /\ rLatest' = rLatest /\ rNow \in Nat /\ Registered' = Registered
  BY DEF ClockTick, RateInv, RateTypes, Registered
<1>2. RateTypes' /\ CountersHold'
  BY <1>1 DEF RateInv, RateTypes, CountersHold
<1>3. ASSUME rStrategy = "TokenBucket" PROVE
        /\ \A k \in Registered : rCounter[k].lastRefill <= rNow + 1
        /\ \A t \in RlTasks : rTask[t].now <= rNow + 1
  <2>1. ASSUME NEW k \in Registered PROVE rCounter[k].lastRefill <= rNow + 1
    <3>1. rCounter[k].lastRefill \in Nat /\ rCounter[k].lastRefill <= rNow
      BY <1>3 DEF RateInv, CountersHold, BucketKey, NotBeforeRefill
    <3> QED
      BY <1>1, <3>1
  <2>2. ASSUME NEW t \in RlTasks PROVE rTask[t].now <= rNow + 1
    <3>1. rTask[t].now \in Nat /\ rTask[t].now <= rNow
      BY <1>3 DEF RateInv, RateTypes, Checks, NotBeforeRefill
    <3> QED
      BY <1>1, <3>1
  <2> QED
    BY <2>1, <2>2
<1>4. NotBeforeRefill'
  BY <1>1, <1>3 DEF RateInv, NotBeforeRefill
<1> QED
  BY <1>2, <1>4 DEF RateInv

\* A new counter has given away nothing.
LEMMA NewCounterHolds ==
    ASSUME RateInv
    PROVE  IF rStrategy = "SlidingWindow" THEN WindowKey(NewCounter, <<>>, 0)
           ELSE BucketKey(NewCounter, <<>>, 0) /\ NewCounter.lastRefill = rNow
<1>1. Burst \in Nat /\ TokenUnit \in Nat \ {0} /\ Refill \in Nat /\ MaxRequests \in Nat /\ rNow \in Nat
  BY RateLimiterAssumption DEF RateInv, RateTypes
<1>2. \A a, b : CountIn(<<>>, a, b) = 0
  <2>1. DOMAIN <<>> = {}
    OBVIOUS
  <2> QED
    BY <2>1, CountNone
<1>3. CASE rStrategy = "SlidingWindow"
  <2>1. NewCounter = {}
    BY <1>3 DEF NewCounter
  <2> QED
    BY <1>1, <1>2, <1>3, <2>1, FS_EmptySet DEF WindowKey
<1>4. CASE rStrategy # "SlidingWindow"
  <2>1. PICK full : full = Burst * TokenUnit
    OBVIOUS
  <2>2. full \in Nat
    BY <1>1, <2>1
  <2>3. NewCounter = [tokens |-> full, lastRefill |-> rNow]
    BY <1>4, <2>1 DEF NewCounter
  <2>4. NewCounter \in [tokens : 0 .. full, lastRefill : Nat] /\ NewCounter.tokens = full /\ NewCounter.lastRefill = rNow
    BY <1>1, <2>2, <2>3
  <2>5. 0 * TokenUnit = 0
    BY <1>1
  <2>6. \A a \in 0 .. rNow : CountIn(<<>>, a, rNow) * TokenUnit + full <= full + (rNow - a) * Refill
    <3>1. ASSUME NEW a \in 0 .. rNow PROVE CountIn(<<>>, a, rNow) * TokenUnit + full <= full + (rNow - a) * Refill
      <4>1. (rNow - a) * Refill \in Nat
        BY <1>1
      <4>2. 0 + full <= full + (rNow - a) * Refill
        BY <2>2, <4>1
      <4> QED
        BY <1>2, <2>5, <4>2
    <3> QED
      BY <3>1
  <2>7. \A a, b \in Nat : a <= b => CountIn(<<>>, a, b) * TokenUnit <= full + (b - a) * Refill
    <3>1. ASSUME NEW a \in Nat, NEW b \in Nat, a <= b
          PROVE  CountIn(<<>>, a, b) * TokenUnit <= full + (b - a) * Refill
      <4>1. (b - a) * Refill \in Nat
        BY <1>1, <3>1
      <4>2. 0 <= full + (b - a) * Refill
        BY <2>2, <4>1
      <4> QED
        BY <1>2, <2>5, <4>2
    <3> QED
      BY <3>1
  <2>8. BucketKey(NewCounter, <<>>, 0)
    BY <2>1, <2>4, <2>6, <2>7 DEF BucketKey
  <2> QED
    BY <1>4, <2>4, <2>8
<1> QED
  BY <1>3, <1>4

LEMMA RegisterKeeps == ASSUME RateInv, RegisterKey PROVE RateInv'
<1>1. rStrategy' = rStrategy /\ rNow' = rNow /\ rTask' = rTask /\ \A t \in RlTasks : rTask[t] = NotChecking
  BY DEF RegisterKey, NobodyChecks
<1>2. PICK k \in RlKeys :
        /\ rCounter' = [i \in Registered \cup {k} |-> IF i = k THEN NewCounter ELSE rCounter[i]]
        /\ rAllowed' = [rAllowed EXCEPT ![k] = <<>>] /\ rLatest' = [rLatest EXCEPT ![k] = 0]
  BY DEF RegisterKey, ForgetKey
<1>3. Registered' = Registered \cup {k}
  BY <1>2 DEF Registered
<1>4. RateTypes'
  <2>1. rAllowed' \in [RlKeys -> Seq(Nat)]
    BY <1>2 DEF RateInv, RateTypes
  <2>2. rLatest' \in [RlKeys -> Nat \cup {-1}]
    BY <1>2 DEF RateInv, RateTypes
  <2> QED
    BY <1>1, <1>3, <2>1, <2>2 DEF RateInv, RateTypes
<1>5. \A i \in Registered' : i # k => i \in Registered /\ rCounter'[i] = rCounter[i]
  BY <1>2, <1>3
<1>6. rCounter'[k] = NewCounter
  BY <1>2
<1>7. CountersHold'
  <2>1. rAllowed'[k] = <<>> /\ rLatest'[k] = 0 /\ \A i \in Registered : i # k => rAllowed'[i] = rAllowed[i] /\ rLatest'[i] = rLatest[i]
    BY <1>2 DEF RateInv, RateTypes
  <2>2. ASSUME NEW i \in Registered'
        PROVE  IF rStrategy = "SlidingWindow" THEN WindowKey(rCounter'[i], rAllowed'[i], rLatest'[i])
               ELSE BucketKey(rCounter'[i], rAllowed'[i], rLatest'[i])
    <3>1. CASE i = k
      BY <1>6, <2>1, <3>1, NewCounterHolds
    <3>2. CASE i # k
      BY <1>5, <2>1, <3>2 DEF RateInv, CountersHold
    <3> QED
      BY <3>1, <3>2
  <2> QED
    BY <1>1, <2>2 DEF CountersHold
<1>8. NotBeforeRefill'
  <2>1. ASSUME rStrategy = "TokenBucket", NEW i \in Registered' PROVE rCounter'[i].lastRefill <= rNow
    <3>1. CASE i = k
      <4>1. NewCounter.lastRefill = rNow /\ rNow \in Nat
        BY <2>1, NewCounterHolds DEF RateInv, RateTypes
      <4> QED
        BY <1>6, <3>1, <4>1
    <3>2. CASE i # k
      BY <1>5, <2>1, <3>2 DEF RateInv, NotBeforeRefill
    <3> QED
      BY <3>1, <3>2
  <2> QED
    BY <1>1, <2>1 DEF RateInv, NotBeforeRefill
<1> QED
  BY <1>4, <1>7, <1>8 DEF RateInv

LEMMA RemoveKeeps == ASSUME RateInv, RemoveKey PROVE RateInv'
<1>1. rStrategy' = rStrategy /\ rNow' = rNow /\ rTask' = rTask /\ \A t \in RlTasks : rTask[t] = NotChecking
  BY DEF RemoveKey, NobodyChecks
<1>2. PICK k \in Registered :
        /\ rCounter' = [i \in Registered \ {k} |-> rCounter[i]]
        /\ rAllowed' = [rAllowed EXCEPT ![k] = <<>>] /\ rLatest' = [rLatest EXCEPT ![k] = 0]
  BY DEF RemoveKey, ForgetKey
<1>3. Registered' = Registered \ {k}
  BY <1>2 DEF Registered
<1>4. RateTypes'
  <2>1. k \in RlKeys
    BY DEF RateInv, RateTypes
  <2>2. rAllowed' \in [RlKeys -> Seq(Nat)]
    BY <1>2, <2>1 DEF RateInv, RateTypes
  <2>3. rLatest' \in [RlKeys -> Nat \cup {-1}]
    BY <1>2, <2>1 DEF RateInv, RateTypes
  <2> QED
    BY <1>1, <1>3, <2>2, <2>3 DEF RateInv, RateTypes
<1>5. \A i \in Registered' : i # k /\ i \in Registered /\ rCounter'[i] = rCounter[i] /\ rAllowed'[i] = rAllowed[i] /\ rLatest'[i] = rLatest[i]
  BY <1>2, <1>3 DEF RateInv, RateTypes
<1>6. CountersHold'
  BY <1>1, <1>5 DEF RateInv, CountersHold
<1>7. NotBeforeRefill'
  BY <1>1, <1>5 DEF RateInv, NotBeforeRefill
<1> QED
  BY <1>4, <1>6, <1>7 DEF RateInv

LEMMA ReadClockKeeps == ASSUME RateInv, NEW t \in RlTasks, ReadClock(t) PROVE RateInv'
<1>1. UNCHANGED <<rStrategy, rNow, rCounter, rAllowed, rLatest>> /\ Registered' = Registered
  BY DEF ReadClock, Registered
<1>2. PICK k \in Registered : rTask' = [rTask EXCEPT ![t] = [key |-> k, now |-> rNow]]
  BY DEF ReadClock
<1>3. PICK v : v = [key |-> k, now |-> rNow]
  OBVIOUS
<1>4. v \in Checks /\ v.key = k /\ v.now = rNow /\ rNow \in Nat
  BY <1>2, <1>3 DEF RateInv, RateTypes, Checks
<1>5. rTask' \in [RlTasks -> Checks] /\ rTask'[t] = v /\ \A u \in RlTasks : u # t => rTask'[u] = rTask[u]
  BY <1>2, <1>3, <1>4 DEF RateInv, RateTypes
<1>6. RateTypes'
  <2>1. \A u \in RlTasks : rTask'[u] # NotChecking => rTask'[u].key \in Registered
    BY <1>4, <1>5 DEF RateInv, RateTypes
  <2> QED
    BY <1>1, <1>5, <2>1 DEF RateInv, RateTypes
<1>7. CountersHold'
  BY <1>1 DEF RateInv, CountersHold
<1>8. NotBeforeRefill'
  <2>1. ASSUME rStrategy = "TokenBucket", NEW u \in RlTasks
        PROVE  /\ rTask'[u].now <= rNow
               /\ rTask'[u] # NotChecking /\ rLatest[rTask'[u].key] # -1 /\ rTask'[u].now >= rLatest[rTask'[u].key]
                    => rTask'[u].now >= rCounter[rTask'[u].key].lastRefill
    <3>1. CASE u = t
      <4>1. rCounter[k].lastRefill \in Nat /\ rCounter[k].lastRefill <= rNow
        BY <2>1 DEF RateInv, CountersHold, BucketKey, NotBeforeRefill
      <4> QED
        BY <1>4, <1>5, <3>1, <4>1
    <3>2. CASE u # t
      BY <1>5, <2>1, <3>2 DEF RateInv, NotBeforeRefill
    <3> QED
      BY <3>1, <3>2
  <2> QED
    BY <1>1, <2>1 DEF RateInv, NotBeforeRefill
<1> QED
  BY <1>6, <1>7, <1>8 DEF RateInv

LEMMA CountKeeps == ASSUME RateInv, NEW t \in RlTasks, CountRequest(t) PROVE RateInv'
<1>1. rStrategy' = rStrategy /\ rNow' = rNow /\ rTask[t] # NotChecking /\ rTask' = [rTask EXCEPT ![t] = NotChecking]
  BY DEF CountRequest
<1>2. PICK k \in Registered : k = rTask[t].key
  BY <1>1 DEF RateInv, RateTypes
<1>3. PICK at \in Nat : at = rTask[t].now
  BY DEF RateInv, RateTypes, Checks
<1>4. k \in RlKeys /\ rAllowed[k] \in Seq(Nat) /\ rLatest[k] \in Nat \cup {-1}
  BY DEF RateInv, RateTypes
<1>5. PICK r : r = IF rStrategy = "SlidingWindow" THEN Record(rCounter[k], at, Len(rAllowed[k]) + 1)
                   ELSE TryConsume(rCounter[k], at)
  OBVIOUS
<1>6. PICK u : u = IF r.allowed THEN Append(rAllowed[k], at) ELSE rAllowed[k]
  OBVIOUS
<1>7. PICK l : l = LatestAfter(rLatest[k], at)
  OBVIOUS
<1>8. rCounter' = [rCounter EXCEPT ![k] = r.counter]
  BY <1>2, <1>3, <1>5 DEF CountRequest
<1>9. rAllowed' = [rAllowed EXCEPT ![k] = u]
  <2>1. rAllowed' = IF r.allowed THEN [rAllowed EXCEPT ![k] = Append(rAllowed[k], at)] ELSE rAllowed
    BY <1>2, <1>3, <1>5 DEF CountRequest
  <2>2. rAllowed = [rAllowed EXCEPT ![k] = rAllowed[k]]
    BY <1>4 DEF RateInv, RateTypes
  <2> QED
    BY <1>6, <2>1, <2>2
<1>10. rLatest' = [rLatest EXCEPT ![k] = l]
  BY <1>2, <1>3, <1>4, <1>7 DEF CountRequest, LatestAfter, RateInv, RateTypes
<1>11. /\ IF rStrategy = "SlidingWindow" THEN WindowKey(r.counter, u, l)
          ELSE BucketKey(r.counter, u, l) /\ r.counter.lastRefill = at
       /\ u \in Seq(Nat) /\ l \in Nat \cup {-1}
  <2>1. CASE rStrategy = "SlidingWindow"
    <3>1. PICK s \in Seq(Nat), la \in Nat \cup {-1} : s = rAllowed[k] /\ la = rLatest[k]
      BY <1>4
    <3>2. PICK c : c = rCounter[k]
      OBVIOUS
    <3>31. WindowKey(c, s, la)
      BY <2>1, <3>1, <3>2 DEF RateInv, CountersHold
    <3>3. r = Record(c, at, Len(s) + 1) /\ u = IF r.allowed THEN Append(s, at) ELSE s
      BY <1>5, <1>6, <2>1, <3>1, <3>2
    <3>4. WindowKey(r.counter, u, LatestAfter(la, at)) /\ u \in Seq(Nat) /\ LatestAfter(la, at) \in Nat \cup {-1}
      BY <3>31, <3>3, RecordKeeps
    <3> QED
      BY <1>7, <2>1, <3>1, <3>4
  <2>2. CASE rStrategy # "SlidingWindow"
    <3>1. BucketKey(rCounter[k], rAllowed[k], rLatest[k])
      BY <2>2 DEF RateInv, CountersHold
    <3>2. rLatest[k] # -1 /\ at >= rLatest[k] => at >= rCounter[k].lastRefill
      BY <1>1, <1>2, <1>3, <2>2 DEF RateInv, RateTypes, NotBeforeRefill
    <3>3. PICK s \in Seq(Nat), la \in Nat \cup {-1} : s = rAllowed[k] /\ la = rLatest[k]
      BY <1>4
    <3>32. PICK c : c = rCounter[k]
      OBVIOUS
    <3>4. BucketKey(c, s, la)
      BY <3>1, <3>3, <3>32
    <3>41. NotLate(c, la, at)
      BY <3>2, <3>3, <3>32 DEF NotLate
    <3>5. r = TryConsume(c, at) /\ u = IF r.allowed THEN Append(s, at) ELSE s
      BY <1>5, <1>6, <2>2, <3>3, <3>32
    <3>6. BucketKey(r.counter, u, LatestAfter(la, at)) /\ u \in Seq(Nat) /\ LatestAfter(la, at) \in Nat \cup {-1}
      BY <3>4, <3>41, <3>5, ConsumeKeeps
    <3>7. r.counter.lastRefill = at
      BY <3>5, ConsumedAt
    <3> QED
      BY <1>7, <2>2, <3>3, <3>6, <3>7
  <2> QED
    BY <2>1, <2>2
<1>12. /\ Registered' = Registered /\ rCounter'[k] = r.counter
       /\ \A i \in Registered : i # k => rCounter'[i] = rCounter[i]
  BY <1>8 DEF Registered
<1>13. /\ rAllowed'[k] = u /\ rLatest'[k] = l
       /\ \A i \in Registered : i # k => rAllowed'[i] = rAllowed[i] /\ rLatest'[i] = rLatest[i]
  BY <1>4, <1>9, <1>10 DEF RateInv, RateTypes
<1>14. rTask'[t] = NotChecking /\ \A v \in RlTasks : v # t => rTask'[v] = rTask[v]
  BY <1>1 DEF RateInv, RateTypes
<1>15. RateTypes'
  <2>1. NotChecking \in Checks
    BY DEF NotChecking, Checks
  <2>2. rTask' \in [RlTasks -> Checks]
    BY <1>1, <2>1 DEF RateInv, RateTypes
  <2>3. \A v \in RlTasks : rTask'[v] # NotChecking => rTask'[v].key \in Registered
    BY <1>14 DEF RateInv, RateTypes
  <2>4. rAllowed' \in [RlKeys -> Seq(Nat)]
    BY <1>9, <1>11 DEF RateInv, RateTypes
  <2>5. rLatest' \in [RlKeys -> Nat \cup {-1}]
    BY <1>10, <1>11 DEF RateInv, RateTypes
  <2> QED
    BY <1>1, <1>12, <2>2, <2>3, <2>4, <2>5 DEF RateInv, RateTypes
<1>16. CountersHold'
  <2>1. ASSUME NEW i \in Registered
        PROVE  IF rStrategy = "SlidingWindow" THEN WindowKey(rCounter'[i], rAllowed'[i], rLatest'[i])
               ELSE BucketKey(rCounter'[i], rAllowed'[i], rLatest'[i])
    <3>1. CASE i = k
      BY <1>11, <1>12, <1>13, <3>1
    <3>2. CASE i # k
      BY <1>12, <1>13, <3>2 DEF RateInv, CountersHold
    <3> QED
      BY <3>1, <3>2
  <2> QED
    BY <1>1, <1>12, <2>1 DEF CountersHold
<1>17. NotBeforeRefill'
  <2>1. ASSUME rStrategy = "TokenBucket" PROVE r.counter.lastRefill = at /\ at <= rNow
    BY <1>3, <1>11, <2>1 DEF RateInv, NotBeforeRefill
  <2>2. ASSUME rStrategy = "TokenBucket", NEW i \in Registered PROVE rCounter'[i].lastRefill <= rNow
    <3>1. CASE i = k
      BY <1>12, <2>1, <2>2, <3>1
    <3>2. CASE i # k
      BY <1>12, <2>2, <3>2 DEF RateInv, NotBeforeRefill
    <3> QED
      BY <3>1, <3>2
  <2>3. ASSUME rStrategy = "TokenBucket", NEW v \in RlTasks
        PROVE  /\ rTask'[v].now <= rNow
               /\ rTask'[v] # NotChecking /\ rLatest'[rTask'[v].key] # -1 /\ rTask'[v].now >= rLatest'[rTask'[v].key]
                    => rTask'[v].now >= rCounter'[rTask'[v].key].lastRefill
    <3>1. CASE v = t
      <4>1. rTask'[v].now = 0 /\ rNow \in Nat
        BY <1>14, <3>1 DEF NotChecking, RateInv, RateTypes
      <4> QED
        BY <1>14, <3>1, <4>1
    <3>2. CASE v # t
      <4>1. rTask'[v] = rTask[v] /\ rTask[v].now <= rNow /\ rTask[v].now \in Nat
        BY <1>14, <2>3, <3>2 DEF RateInv, RateTypes, Checks, NotBeforeRefill
      <4>2. ASSUME rTask[v] # NotChecking, rTask[v].key = k, l # -1, rTask[v].now >= l PROVE rTask[v].now >= at
        <5>1. l = at
          BY <1>7, <4>2 DEF LatestAfter
        <5> QED
          BY <4>2, <5>1
      <4>3. ASSUME rTask[v] # NotChecking, rTask[v].key # k, rLatest'[rTask[v].key] # -1, rTask[v].now >= rLatest'[rTask[v].key]
            PROVE  rTask[v].now >= rCounter'[rTask[v].key].lastRefill
        <5>1. rTask[v].key \in Registered
          BY <4>3 DEF RateInv, RateTypes
        <5> QED
          BY <1>12, <1>13, <2>3, <4>3, <5>1 DEF RateInv, NotBeforeRefill
      <4> QED
        BY <1>12, <1>13, <2>1, <2>3, <4>1, <4>2, <4>3
    <3> QED
      BY <3>1, <3>2
  <2> QED
    BY <1>1, <1>12, <2>2, <2>3 DEF NotBeforeRefill
<1> QED
  BY <1>15, <1>16, <1>17 DEF RateInv

LEMMA RateInvStep == RateInv /\ [RlNext]_rlVars => RateInv'
<1> SUFFICES ASSUME RateInv, [RlNext]_rlVars PROVE RateInv'
  OBVIOUS
<1>1. CASE UNCHANGED rlVars
  BY <1>1 DEF rlVars, RateInv, RateTypes, CountersHold, NotBeforeRefill, Registered
<1> QED
  BY <1>1, TickKeeps, RegisterKeeps, RemoveKeeps, ReadClockKeeps, CountKeeps DEF RlNext

LEMMA RateInvSound == RateInv => RatesHold
<1> SUFFICES ASSUME RateInv, NEW k \in Registered, rLatest[k] # -1,
                    NEW a \in Window .. Window + MaxTime, NEW b \in Window .. Window + MaxTime, a <= b
             PROVE  IF rStrategy = "SlidingWindow" THEN b - a <= Window => AllowedIn(k, a, b) <= MaxRequests
                    ELSE AllowedIn(k, a, b) * TokenUnit <= Burst * TokenUnit + (b - a) * Refill
  BY DEF RatesHold
<1>1. a \in Nat /\ b \in Nat
  BY RateLimiterAssumption
<1>2. AllowedIn(k, a, b) = CountIn(rAllowed[k], a, b)
  BY DEF AllowedIn, CountIn
<1> QED
  BY <1>1, <1>2 DEF RateInv, CountersHold, WindowKey, BucketKey

\* While the checks of a key take its lock in the order in which they read the
\* clock, no window lets more than the configured number of requests through and
\* no interval more than the burst and the refill: for any limits, windows,
\* rates, keys and tasks (frontier/proxy/src/plugins/ratelimit.rs).
THEOREM RatesAlwaysHold == RlSpec => []RatesHold
<1>1. RlInit => RateInv
  BY RateInitInv
<1>2. RateInv /\ [RlNext]_rlVars => RateInv'
  BY RateInvStep
<1>3. RateInv => RatesHold
  BY RateInvSound
<1> QED
  BY <1>1, <1>2, <1>3, PTL DEF RlSpec
-----------------------------------------------------------------------------
(* The router: its rules are those that were added, in the order of Before *)

LEMMA FirstOfNumbers ==
    ASSUME NEW T, T \subseteq Nat, T # {}
    PROVE  \E m \in T : \A k \in T : m <= k
<1>1. PICK R : R = OpToRel(<, Nat)
  OBVIOUS
<1>2. IsWellFoundedOn(R, Nat)
  BY <1>1, NatLessThanWellFounded
<1>3. PICK x \in T : \A y \in T : ~(<<y, x>> \in R)
  BY <1>2, WFMin
<1>4. \A a, b \in Nat : <<a, b>> \in R <=> a < b
  BY <1>1 DEF OpToRel
<1>5. ASSUME NEW y \in T PROVE x <= y
  <2>1. ~(y < x) /\ x \in Nat /\ y \in Nat
    BY <1>3, <1>4
  <2> QED
    BY <2>1
<1> QED
  BY <1>5

\* Before is a total order on the places of a sequence of rules.
LEMMA BeforeTotal ==
    ASSUME NEW s \in Seq(Rules)
    PROVE  /\ \A i, j \in DOMAIN s : i = j \/ Before(s, i, j) \/ Before(s, j, i)
           /\ \A i, j \in DOMAIN s : ~(Before(s, i, j) /\ Before(s, j, i))
           /\ \A i, j, k \in DOMAIN s : Before(s, i, j) /\ Before(s, j, k) => Before(s, i, k)
<1>1. DOMAIN s \subseteq Nat /\ \A i \in DOMAIN s : s[i].priority \in Nat
  BY RulesAssumption
<1> QED
  BY <1>1 DEF Before

\* Every rule has a place after the sort, and no two have the same.
LEMMA PlacesDiffer ==
    ASSUME NEW s \in Seq(Rules), NEW n \in Nat, n = Len(s)
    PROVE  /\ \A i \in 1 .. n : PlaceOfRule(s, i) \in 1 .. n
           /\ \A i, j \in 1 .. n : Before(s, i, j) => PlaceOfRule(s, i) < PlaceOfRule(s, j)
<1>1. DOMAIN s = 1 .. n
  OBVIOUS
<1> DEFINE Earlier(i) == {j \in 1 .. n : Before(s, j, i)}
<1>2. IsFiniteSet(1 .. n) /\ Cardinality(1 .. n) = n
  <2>1. 1 \in Int /\ n \in Int
    OBVIOUS
  <2>2. IsFiniteSet(1 .. n) /\ Cardinality(1 .. n) = IF 1 > n THEN 0 ELSE n - 1 + 1
    BY <2>1, FS_Interval
  <2> QED
    BY <2>2
<1>3. \A i \in 1 .. n : IsFiniteSet(Earlier(i)) /\ Cardinality(Earlier(i)) \in Nat
  BY <1>2, FS_Subset, FS_CardinalityType
<1>4. \A i \in 1 .. n : PlaceOfRule(s, i) = Cardinality(Earlier(i)) + 1
  BY <1>1 DEF PlaceOfRule
<1>5. \A i \in 1 .. n : i \notin Earlier(i)
  BY <1>1, BeforeTotal
<1>6. ASSUME NEW i \in 1 .. n PROVE PlaceOfRule(s, i) \in 1 .. n
  <2>1. Cardinality(Earlier(i)) < n
    <3>1. Earlier(i) \subseteq 1 .. n /\ Earlier(i) # 1 .. n
      BY <1>5
    <3>2. PICK E : E = Earlier(i)
      OBVIOUS
    <3>3. PICK N : N = 1 .. n
      OBVIOUS
    <3>4. E \in SUBSET N /\ E # N /\ IsFiniteSet(N) /\ Cardinality(N) = n
      BY <1>2, <3>1, <3>2, <3>3
    <3>5. Cardinality(E) <= n /\ Cardinality(E) # n
      BY <3>4, FS_Subset
    <3>6. Cardinality(E) \in Nat
      BY <1>3, <3>2
    <3> QED
      BY <3>2, <3>5, <3>6
  <2>2. PICK e \in Nat : e = Cardinality(Earlier(i))
    BY <1>3
  <2> HIDE DEF Earlier
  <2> QED
    BY <1>4, <2>1, <2>2
<1>7. ASSUME NEW i \in 1 .. n, NEW j \in 1 .. n, Before(s, i, j) PROVE PlaceOfRule(s, i) < PlaceOfRule(s, j)
  <2>1. Earlier(i) \subseteq Earlier(j)
    BY <1>1, <1>7, BeforeTotal
  <2>2. i \in Earlier(j) /\ i \notin Earlier(i)
    BY <1>5, <1>7
  <2>3. Cardinality(Earlier(i)) < Cardinality(Earlier(j))
    <3>1. PICK E, F : E = Earlier(i) /\ F = Earlier(j)
      OBVIOUS
    <3>2. E \in SUBSET F /\ E # F /\ IsFiniteSet(F)
      BY <1>3, <2>1, <2>2, <3>1
    <3>3. Cardinality(E) <= Cardinality(F) /\ Cardinality(E) # Cardinality(F)
      BY <3>2, FS_Subset
    <3>4. Cardinality(E) \in Nat /\ Cardinality(F) \in Nat
      BY <1>3, <3>1
    <3> QED
      BY <3>1, <3>3, <3>4
  <2>4. PICK d \in Nat, e \in Nat : d = Cardinality(Earlier(i)) /\ e = Cardinality(Earlier(j))
    BY <1>3
  <2> HIDE DEF Earlier
  <2> QED
    BY <1>4, <2>3, <2>4
<1> QED
  BY <1>6, <1>7

\* t has the entries of s in the order of Before, g says where from.
SortedBy(t, s, g) ==
    /\ \A k \in 1 .. Len(t) : g[k] \in 1 .. Len(s) /\ t[k] = s[g[k]]
    /\ \A j, k \in 1 .. Len(t) : j < k => Before(s, g[j], g[k])
    /\ \A i \in 1 .. Len(s) : \E k \in 1 .. Len(t) : g[k] = i

LEMMA SortedSorts ==
    ASSUME NEW s \in Seq(Rules)
    PROVE  /\ Sorted(s) \in Seq(Rules) /\ Len(Sorted(s)) = Len(s)
           /\ \E g : SortedBy(Sorted(s), s, g)
<1>1. PICK n \in Nat : n = Len(s) /\ DOMAIN s = 1 .. n
  OBVIOUS
<1>2. PICK p : p = [i \in 1 .. n |-> PlaceOfRule(s, i)]
  OBVIOUS
<1>3. p \in [1 .. n -> 1 .. n] /\ \A i, j \in 1 .. n : Before(s, i, j) => p[i] < p[j]
  BY <1>1, <1>2, PlacesDiffer
<1>4. \A i, j \in 1 .. n : p[i] = p[j] => i = j
  BY <1>1, <1>3, BeforeTotal
<1>5. p \in Surjection(1 .. n, 1 .. n)
  <2>1. p \in Injection(1 .. n, 1 .. n)
    BY <1>3, <1>4 DEF Injection, IsInjective
  <2> QED
    BY <2>1, FS_Interval, FS_Injection
<1>6. \A k \in 1 .. n : \E i \in 1 .. n : p[i] = k
  BY <1>5 DEF Surjection
<1>7. PICK g : g = [k \in 1 .. n |-> CHOOSE i \in 1 .. n : p[i] = k]
  OBVIOUS
<1>8. \A k \in 1 .. n : g[k] \in 1 .. n /\ p[g[k]] = k
  BY <1>6, <1>7
<1>9. PICK t : t = Sorted(s)
  OBVIOUS
<1>10. t = [k \in 1 .. n |-> s[g[k]]]
  <2>1. \A k \in 1 .. n : (CHOOSE i \in 1 .. n : PlaceOfRule(s, i) = k) = g[k]
    BY <1>2, <1>7
  <2> QED
    BY <1>1, <1>9, <2>1 DEF Sorted
<1>11. t \in Seq(Rules) /\ Len(t) = n /\ \A k \in 1 .. n : t[k] = s[g[k]]
  BY <1>1, <1>8, <1>10
<1>12. \A j, k \in 1 .. n : j < k => Before(s, g[j], g[k])
  <2>1. SUFFICES ASSUME NEW j \in 1 .. n, NEW k \in 1 .. n, j < k PROVE Before(s, g[j], g[k])
    OBVIOUS
  <2>2. PICK a \in 1 .. n, b \in 1 .. n : a = g[j] /\ b = g[k] /\ p[a] = j /\ p[b] = k
    BY <1>8
  <2>3. a = b \/ Before(s, a, b) \/ Before(s, b, a)
    BY <1>1, BeforeTotal
  <2> QED
    BY <1>3, <2>1, <2>2, <2>3
<1>13. \A i \in 1 .. n : \E k \in 1 .. n : g[k] = i
  <2>1. SUFFICES ASSUME NEW i \in 1 .. n PROVE \E k \in 1 .. n : g[k] = i
    OBVIOUS
  <2>2. PICK k \in 1 .. n : k = p[i]
    BY <1>3
  <2>3. g[k] = i
    BY <1>4, <1>8, <2>2
  <2> QED
    BY <2>3
<1>14. SortedBy(t, s, g)
  BY <1>1, <1>8, <1>11, <1>12, <1>13 DEF SortedBy
<1> QED
  BY <1>1, <1>9, <1>11, <1>14

RouterInv == TTypeOK /\ \E f : SortedBy(tRules, tAdded, f)

LEMMA RouterInit == TInit => RouterInv
<1> SUFFICES ASSUME TInit PROVE RouterInv
  OBVIOUS
<1>1. SortedBy(tRules, tAdded, <<>>)
  BY DEF TInit, SortedBy
<1> QED
  BY <1>1 DEF TInit, RouterInv, TTypeOK

LEMMA RouterStep == RouterInv /\ [TNext]_tVars => RouterInv'
<1> SUFFICES ASSUME RouterInv, [TNext]_tVars PROVE RouterInv'
  OBVIOUS
<1>1. CASE UNCHANGED tVars
  BY <1>1 DEF tVars, RouterInv, TTypeOK
<1>2. ASSUME NEW r \in Rules, AddRule(r) PROVE RouterInv'
  <2>1. PICK n \in Nat : n = Len(tRules) /\ n = Len(tAdded)
    BY DEF RouterInv, TTypeOK
  <2>2. PICK f : SortedBy(tRules, tAdded, f)
    BY DEF RouterInv
  <2>3. Append(tRules, r) \in Seq(Rules) /\ Append(tAdded, r) \in Seq(Rules)
    BY DEF RouterInv, TTypeOK
  <2>4. PICK s \in Seq(Rules) : s = Append(tRules, r)
    BY <2>3
  <2>5. PICK a \in Seq(Rules) : a = Append(tAdded, r)
    BY <2>3
  <2>6. /\ Len(s) = n + 1 /\ s[n + 1] = r /\ \A i \in 1 .. n : s[i] = tRules[i]
        /\ Len(a) = n + 1 /\ a[n + 1] = r /\ \A i \in 1 .. n : a[i] = tAdded[i]
    BY <2>1, <2>4, <2>5 DEF RouterInv, TTypeOK
  <2>7. PICK t : t = Sorted(s)
    OBVIOUS
  <2>8. PICK g : SortedBy(t, s, g)
    BY <2>7, SortedSorts
  <2>9. t \in Seq(Rules) /\ Len(t) = n + 1
    BY <2>6, <2>7, SortedSorts
  <2>10. tRules' = t /\ tAdded' = a
    BY <1>2, <2>4, <2>5, <2>7 DEF AddRule
  <2>11. PICK h : h = [k \in 1 .. n + 1 |-> IF g[k] = n + 1 THEN n + 1 ELSE f[g[k]]]
    OBVIOUS
  <2>12. \A i \in 1 .. n : f[i] \in 1 .. n /\ tRules[i] = tAdded[f[i]]
    BY <2>1, <2>2 DEF SortedBy
  <2>13. \A k \in 1 .. n + 1 : /\ g[k] \in 1 .. n + 1 /\ t[k] = s[g[k]]
                               /\ g[k] # n + 1 => g[k] \in 1 .. n
    <3>1. \A k \in 1 .. n + 1 : g[k] \in 1 .. n + 1 /\ t[k] = s[g[k]]
      BY <2>6, <2>8, <2>9 DEF SortedBy
    <3>2. \A m \in 1 .. n + 1 : m # n + 1 => m \in 1 .. n
      BY <2>1
    <3> QED
      BY <3>1, <3>2
  <2>14. \A k \in 1 .. n + 1 : h[k] \in 1 .. n + 1 /\ t[k] = a[h[k]]
    BY <2>6, <2>11, <2>12, <2>13
  <2>15. ASSUME NEW j \in 1 .. n + 1, NEW k \in 1 .. n + 1, j < k PROVE Before(a, h[j], h[k])
    <3>1. Before(s, g[j], g[k])
      BY <2>8, <2>9, <2>15 DEF SortedBy
    <3>2. /\ s[g[j]] = a[h[j]] /\ s[g[k]] = a[h[k]]
          /\ a[h[j]].priority \in Nat /\ a[h[k]].priority \in Nat
      BY <2>6, <2>11, <2>12, <2>13, <2>14, RulesAssumption
    <3>3. CASE a[h[j]].priority > a[h[k]].priority
      BY <3>3 DEF Before
    <3>4. CASE ~(a[h[j]].priority > a[h[k]].priority)
      <4>1. g[j] < g[k] /\ a[h[j]].priority = a[h[k]].priority
        BY <3>1, <3>2, <3>4 DEF Before
      <4>2. g[j] \in 1 .. n /\ h[j] = f[g[j]] /\ f[g[j]] \in 1 .. n
        BY <2>11, <2>12, <2>13, <4>1
      <4>3. CASE g[k] = n + 1
        BY <2>11, <4>1, <4>2, <4>3 DEF Before
      <4>4. CASE g[k] # n + 1
        <5>1. g[k] \in 1 .. n /\ h[k] = f[g[k]] /\ f[g[k]] \in 1 .. n
          BY <2>11, <2>12, <2>13, <4>4
        <5>2. Before(tAdded, f[g[j]], f[g[k]])
          BY <2>1, <2>2, <4>1, <4>2, <5>1 DEF SortedBy
        <5>3. tAdded[f[g[j]]] = a[h[j]] /\ tAdded[f[g[k]]] = a[h[k]]
          BY <2>6, <4>2, <5>1
        <5> QED
          BY <3>2, <4>1, <4>2, <5>1, <5>2, <5>3 DEF Before
      <4> QED
        BY <4>3, <4>4
    <3> QED
      BY <3>3, <3>4
  <2>16. ASSUME NEW i \in 1 .. n + 1 PROVE \E k \in 1 .. n + 1 : h[k] = i
    <3>1. PICK e \in 1 .. n + 1 : (i = n + 1 /\ e = n + 1) \/ (e \in 1 .. n /\ f[e] = i /\ e # n + 1)
      <4>1. CASE i = n + 1
        BY <4>1
      <4>2. CASE i # n + 1
        <5>1. i \in 1 .. n
          BY <4>2
        <5>2. PICK e \in 1 .. n : f[e] = i
          BY <2>1, <2>2, <5>1 DEF SortedBy
        <5> QED
          BY <5>2
      <4> QED
        BY <4>1, <4>2
    <3>2. PICK k \in 1 .. n + 1 : g[k] = e
      BY <2>6, <2>8, <2>9 DEF SortedBy
    <3> QED
      BY <2>11, <3>1, <3>2
  <2>17. SortedBy(t, a, h)
    BY <2>6, <2>9, <2>14, <2>15, <2>16 DEF SortedBy
  <2> QED
    BY <2>6, <2>9, <2>10, <2>17 DEF RouterInv, TTypeOK
<1> QED
  BY <1>1, <1>2 DEF TNext

\* A request goes by the rule of the highest priority that fits it, and of those
\* of one priority by the one that was added first: for any rules, added in any
\* order (frontier/proxy/src/router.rs).
THEOREM RouterAlwaysSound == TSpec => []RouteSound
<1>1. RouterInv => RouteSound
  <2> SUFFICES ASSUME RouterInv, NEW req \in Reqs
               PROVE  LET fit == {i \in DOMAIN tAdded : Fits(tAdded[i], req)}
                      IN  IF fit = {} THEN FindRule(req) = "none"
                          ELSE \E i \in fit : /\ FindRule(req) = tAdded[i].cluster
                                              /\ \A j \in fit \ {i} : Before(tAdded, i, j)
    BY DEF RouteSound
  <2>1. PICK n \in Nat : DOMAIN tRules = 1 .. n /\ DOMAIN tAdded = 1 .. n /\ n = Len(tRules) /\ n = Len(tAdded)
    BY DEF RouterInv, TTypeOK
  <2>2. PICK f : SortedBy(tRules, tAdded, f)
    BY DEF RouterInv
  <2>3. /\ \A k \in 1 .. n : f[k] \in 1 .. n /\ tRules[k] = tAdded[f[k]]
        /\ \A j, k \in 1 .. n : j < k => Before(tAdded, f[j], f[k])
        /\ \A i \in 1 .. n : \E k \in 1 .. n : f[k] = i
    BY <2>1, <2>2 DEF SortedBy
  <2>4. CASE \A i \in 1 .. n : ~Fits(tAdded[i], req)
    BY <2>1, <2>3, <2>4 DEF FindRule
  <2>5. CASE \E i \in 1 .. n : Fits(tAdded[i], req)
    <3>1. PICK T : T = {k \in 1 .. n : Fits(tRules[k], req)}
      OBVIOUS
    <3>2. T \subseteq Nat /\ T # {}
      BY <2>3, <2>5, <3>1
    <3>3. PICK m \in T : \A k \in T : m <= k
      BY <3>2, FirstOfNumbers
    <3>4. m \in 1 .. n /\ Fits(tRules[m], req) /\ \A j \in 1 .. m - 1 : ~Fits(tRules[j], req)
      BY <3>1, <3>3
    <3>5. PICK c : c = FirstFit(req)
      OBVIOUS
    <3>6. c \in 1 .. n /\ Fits(tRules[c], req) /\ \A j \in 1 .. c - 1 : ~Fits(tRules[j], req)
      BY <2>1, <3>4, <3>5 DEF FirstFit
    <3>7. FindRule(req) = tRules[c].cluster
      BY <2>1, <3>5, <3>6 DEF FindRule
    <3>8. PICK i \in 1 .. n : i = f[c] /\ tRules[c] = tAdded[i]
      BY <2>3, <3>6
    <3>9. ASSUME NEW j \in 1 .. n, Fits(tAdded[j], req), j # i PROVE Before(tAdded, i, j)
      <4>1. PICK k \in 1 .. n : f[k] = j
        BY <2>3
      <4>2. Fits(tRules[k], req) /\ k # c
        BY <2>3, <3>8, <3>9, <4>1
      <4>3. ~(k < c)
        BY <3>6, <4>2
      <4>4. c < k
        BY <3>6, <4>2, <4>3
      <4> QED
        BY <2>3, <3>6, <3>8, <4>1, <4>4
    <3> QED
      BY <2>1, <3>6, <3>7, <3>8, <3>9
  <2> QED
    BY <2>4, <2>5
<1> QED
  BY <1>1, RouterInit, RouterStep, PTL DEF TSpec
-----------------------------------------------------------------------------
\* The numbers of the places in a finite set of them.
LEMMA PlacesNumbered ==
    ASSUME NEW S, S \subseteq Nat, IsFiniteSet(S), NEW n \in Nat, n = Cardinality(S)
    PROVE  \A k \in 1 .. n : \E i \in S : Cardinality({j \in S : j <= i}) = k
<1> DEFINE NoLater(i) == {j \in S : j <= i}
<1>1. \A i \in S : NoLater(i) \in SUBSET S
  OBVIOUS
<1>2. ASSUME NEW i \in S PROVE IsFiniteSet(NoLater(i)) /\ Cardinality(NoLater(i)) \in 1 .. n
  <2>1. NoLater(i) \in SUBSET S /\ i \in NoLater(i)
    OBVIOUS
  <2>2. PICK U : U = NoLater(i) /\ U \in SUBSET S /\ i \in U
    BY <2>1
  <2>3. IsFiniteSet(U) /\ Cardinality(U) <= n
    BY <2>2, FS_Subset
  <2>4. Cardinality(U) \in Nat /\ Cardinality(U) # 0
    BY <2>2, <2>3, FS_CardinalityType, FS_EmptySet
  <2> HIDE DEF NoLater
  <2> QED
    BY <2>2, <2>3, <2>4
<1>3. ASSUME NEW i \in S, NEW j \in S, i < j PROVE Cardinality(NoLater(i)) # Cardinality(NoLater(j))
  <2>1. (\A x \in S : x <= i => x <= j) /\ j <= j /\ ~(j <= i)
    BY <1>3
  <2>2. NoLater(i) \in SUBSET NoLater(j) /\ j \in NoLater(j) /\ j \notin NoLater(i)
    BY <2>1
  <2>3. PICK U, V : U = NoLater(i) /\ V = NoLater(j)
    OBVIOUS
  <2> HIDE DEF NoLater
  <2>4. U \in SUBSET V /\ U # V /\ IsFiniteSet(V)
    BY <1>2, <2>2, <2>3
  <2>5. Cardinality(U) # Cardinality(V)
    BY <2>4, FS_Subset
  <2> QED
    BY <2>3, <2>5
<1>4. PICK f : f = [i \in S |-> Cardinality(NoLater(i))]
  OBVIOUS
<1> HIDE DEF NoLater
<1>5. f \in [S -> 1 .. n]
  BY <1>2, <1>4
<1>6. \A i, j \in S : f[i] = f[j] => i = j
  <2> SUFFICES ASSUME NEW i \in S, NEW j \in S, f[i] = f[j], i # j PROVE FALSE
    OBVIOUS
  <2>1. i < j \/ j < i
    OBVIOUS
  <2> QED
    BY <1>3, <1>4, <2>1
<1>7. f \in Injection(S, 1 .. n)
  BY <1>5, <1>6 DEF Injection, IsInjective
<1>8. PICK T : T = 1 .. n
  OBVIOUS
<1>9. 1 \in Int /\ n \in Int
  OBVIOUS
<1>10. IsFiniteSet(T) /\ Cardinality(T) = Cardinality(S)
  BY <1>8, <1>9, FS_Interval
<1>11. f \in Surjection(S, T)
  BY <1>7, <1>8, <1>10, FS_Injection
<1>12. \A k \in T : \E i \in S : f[i] = k
  BY <1>11 DEF Surjection
<1> QED
  BY <1>4, <1>8, <1>12 DEF NoLater


(* The plugins' types, with the bounds of the files' times.                *)

ListEntry == [name : Plugins, enabled : BOOLEAN]
TimesBounded ==
    /\ gCount.writes \in 0 .. MaxWrites
    /\ \A p \in Plugins : /\ gFile[p].mtime \in 0 .. gCount.writes
                          /\ gModule[p] \in 0 .. MaxWrites /\ gSeen[p] \in 0 .. MaxWrites
    /\ \A t \in Loaders : gTask[t].bytes \in 0 .. MaxWrites
PluginTypes ==
    /\ LoaderTypeOK /\ gCount = [writes |-> gCount.writes, loads |-> gCount.loads]
    /\ gSeen \in [Plugins -> Nat] /\ gCrossed \subseteq Plugins
    /\ gList \in Seq(ListEntry) /\ TimesBounded

LEMMA PluginTypesInit == Plugins # {} /\ GInit => PluginTypes
<1> SUFFICES ASSUME Plugins # {}, GInit PROVE PluginTypes
  OBVIOUS
<1>1. LoaderTypeOK
  BY GInitInv DEF GInv
<1>2. MaxWrites \in Nat /\ 0 \in 0 .. MaxWrites
  BY PluginAssumption
<1>3. TimesBounded
  BY <1>2, PluginAssumption DEF GInit, TimesBounded, NotLoading
<1> QED
  BY <1>1, <1>3 DEF GInit, PluginTypes

\* What is left of the list is of the list.
LEMMA UnregisterTypes ==
    ASSUME NEW p \in Plugins, gList \in Seq(ListEntry), UnregisterPlugin(p) PROVE gList' \in Seq(ListEntry)
<1>1. PICK m \in Nat : DOMAIN gList = 1 .. m
  OBVIOUS
<1>2. PICK S : S = PlacesBut(p) /\ S \subseteq 1 .. m
  BY <1>1 DEF PlacesBut
<1>3. 1 \in Int /\ m \in Int /\ S \in SUBSET (1 .. m)
  BY <1>1, <1>2
<1>4. IsFiniteSet(1 .. m)
  BY <1>3, FS_Interval
<1>5. IsFiniteSet(S)
  BY <1>3, <1>4, FS_Subset
<1>6. PICK n \in Nat : n = Cardinality(S)
  BY <1>5, FS_CardinalityType
<1>7. S \subseteq Nat
  BY <1>2
<1>8. \A k \in 1 .. n : \E i \in S : Cardinality({j \in S : j <= i}) = k
  BY <1>5, <1>6, <1>7, PlacesNumbered, ZenonT(60)
<1>9. \A k \in 1 .. n : NthPlaceBut(p, k) \in S
  BY <1>2, <1>8 DEF NthPlaceBut
<1>10. gList' = [k \in 1 .. n |-> gList[NthPlaceBut(p, k)]]
  BY <1>2, <1>6 DEF UnregisterPlugin
<1>11. \A k \in 1 .. n : gList[NthPlaceBut(p, k)] \in ListEntry
  BY <1>1, <1>2, <1>9
<1> QED
  BY <1>10, <1>11

LEMMA ManageTypes ==
    ASSUME gList \in Seq(ListEntry), Manage PROVE gList' \in Seq(ListEntry)
<1>1. PICK p \in Plugins : RegisterPlugin(p) \/ UnregisterPlugin(p) \/ \E on \in BOOLEAN : SetEnabled(p, on)
  BY DEF Manage
<1>2. CASE RegisterPlugin(p)
  BY <1>2 DEF RegisterPlugin, ListEntry
<1>3. CASE UnregisterPlugin(p)
  BY <1>3, UnregisterTypes
<1>4. ASSUME NEW on \in BOOLEAN, SetEnabled(p, on) PROVE gList' \in Seq(ListEntry)
  <2>1. PICK i \in DOMAIN gList : gList' = [gList EXCEPT ![i].enabled = on]
    BY <1>4 DEF SetEnabled
  <2>2. PICK e : e = [gList[i] EXCEPT !.enabled = on]
    OBVIOUS
  <2>3. gList[i] \in ListEntry
    OBVIOUS
  <2>4. e \in ListEntry
    BY <2>2, <2>3 DEF ListEntry
  <2>5. gList' = [gList EXCEPT ![i] = e]
    BY <2>1, <2>2
  <2> QED
    BY <2>4, <2>5
<1> QED
  BY <1>1, <1>2, <1>3, <1>4

LEMMA PluginTypesStep == Plugins # {} /\ PluginTypes /\ [GNext]_gVars => PluginTypes'
<1> SUFFICES ASSUME Plugins # {}, PluginTypes, [GNext]_gVars PROVE PluginTypes'
  OBVIOUS
<1>1. LoaderTypeOK /\ LoaderTypeOK'
  BY GTypeStep DEF PluginTypes
<1>2. MaxWrites \in Nat /\ gCount.writes \in 0 .. MaxWrites /\ 0 \in 0 .. MaxWrites
  BY PluginAssumption DEF PluginTypes, TimesBounded
<1>3. /\ \A p \in Plugins : gFile[p].mtime \in 0 .. MaxWrites /\ gModule[p] \in 0 .. MaxWrites /\ gSeen[p] \in 0 .. MaxWrites
      /\ \A t \in Loaders : gTask[t].bytes \in 0 .. MaxWrites /\ gTask[t].p \in Plugins /\ gTask[t] \in LoaderType
      /\ gFile \in [Plugins -> [mtime : Nat, ok : BOOLEAN]] /\ gModule \in [Plugins -> Nat] /\ gSeen \in [Plugins -> Nat]
      /\ gTask \in [Loaders -> LoaderType] /\ Reloader \in Loaders
  <2>1. \A t \in Loaders : gTask[t] \in LoaderType /\ gTask[t].p \in Plugins
    BY <1>1 DEF LoaderTypeOK, LoaderType
  <2>2. \A p \in Plugins : gFile[p].mtime \in 0 .. MaxWrites
    BY <1>1, <1>2 DEF PluginTypes, TimesBounded, LoaderTypeOK
  <2> QED
    BY <1>1, <2>1, <2>2, PluginAssumption DEF PluginTypes, TimesBounded, LoaderTypeOK
<1>4. NotLoading.bytes = 0
  BY DEF NotLoading
<1>5. CASE WriteFile
  <2>1. PICK p \in Plugins, ok \in BOOLEAN : gFile' = [gFile EXCEPT ![p] = [mtime |-> gCount.writes + 1, ok |-> ok]]
    BY <1>5 DEF WriteFile
  <2>2. gCount.writes < MaxWrites /\ gCount' = [gCount EXCEPT !.writes = @ + 1] /\ UNCHANGED <<gSeen, gModule, gTask, gCrossed, gList>>
    BY <1>5 DEF WriteFile
  <2>3. gCount'.writes = gCount.writes + 1 /\ gCount' = [writes |-> gCount'.writes, loads |-> gCount'.loads]
    BY <2>2 DEF PluginTypes
  <2>4. \A q \in Plugins : gFile'[q].mtime \in 0 .. gCount'.writes
    BY <1>2, <1>3, <2>1, <2>3 DEF PluginTypes, TimesBounded
  <2>5. TimesBounded'
    BY <1>2, <2>2, <2>3, <2>4 DEF PluginTypes, TimesBounded
  <2> QED
    BY <1>1, <2>2, <2>3, <2>5 DEF PluginTypes
<1>6. CASE Unload
  BY <1>1, <1>2, <1>3, <1>6 DEF Unload, PluginTypes, TimesBounded
<1>7. CASE HotReload
  <2>1. PICK p, task :
           /\ p \in Plugins
           /\ task = [gTask[Reloader] EXCEPT !.at = "read", !.p = p,
                                             !.limit = IF gConfig[p] = NoConfig THEN Default ELSE gConfig[p]]
           /\ gTask' = [gTask EXCEPT ![Reloader] = task]
           /\ gSeen' = [gSeen EXCEPT ![p] = gFile[p].mtime] /\ gCrossed' = gCrossed \ {p}
    BY <1>7 DEF HotReload
  <2>2. task.bytes = gTask[Reloader].bytes
    BY <1>3, <2>1 DEF LoaderType
  <2>3. (\A t \in Loaders : gTask'[t].bytes \in 0 .. MaxWrites) /\ gSeen' \in [Plugins -> Nat]
        /\ \A q \in Plugins : gSeen'[q] \in 0 .. MaxWrites
    BY <1>3, <2>1, <2>2
  <2>4. UNCHANGED <<gFile, gModule, gCount, gList>>
    BY <1>7 DEF HotReload
  <2> QED
    BY <1>1, <2>1, <2>3, <2>4 DEF PluginTypes, TimesBounded
<1>8. CASE Manage
  BY <1>1, <1>8, ManageTypes DEF Manage, PluginTypes, TimesBounded
<1>9. ASSUME NEW t \in Loaders, StartLoad(t) PROVE PluginTypes'
  <2>1. PICK p, l, task :
           /\ p \in Plugins /\ l \in Limits
           /\ task = [gTask[t] EXCEPT !.at = "read", !.p = p, !.limit = l]
           /\ gTask' = [gTask EXCEPT ![t] = task]
    BY <1>9 DEF StartLoad
  <2>2. task.bytes = gTask[t].bytes
    BY <1>3, <2>1 DEF LoaderType
  <2>3. gCount' = [gCount EXCEPT !.loads = @ + 1] /\ UNCHANGED <<gFile, gSeen, gModule, gCrossed, gList>>
    BY <1>9 DEF StartLoad
  <2>4. gCount'.writes = gCount.writes /\ gCount' = [writes |-> gCount'.writes, loads |-> gCount'.loads]
    BY <2>3 DEF PluginTypes
  <2>5. \A u \in Loaders : gTask'[u].bytes \in 0 .. MaxWrites
    BY <1>3, <2>1, <2>2
  <2> QED
    BY <1>1, <2>3, <2>4, <2>5 DEF PluginTypes, TimesBounded
<1>10. ASSUME NEW t \in Loaders, PullFromOci(t) PROVE PluginTypes'
  <2>1. PICK p \in Plugins :
           gTask' = [gTask EXCEPT ![t] = [at |-> "register", p |-> p, limit |-> Default, bytes |-> gFile[p].mtime]]
    BY <1>10 DEF PullFromOci
  <2>2. gCount' = [gCount EXCEPT !.loads = @ + 1] /\ UNCHANGED <<gFile, gSeen, gModule, gCrossed, gList>>
    BY <1>10 DEF PullFromOci
  <2>3. gCount'.writes = gCount.writes /\ gCount' = [writes |-> gCount'.writes, loads |-> gCount'.loads]
    BY <2>2 DEF PluginTypes
  <2>4. \A u \in Loaders : gTask'[u].bytes \in 0 .. MaxWrites
    BY <1>3, <2>1
  <2> QED
    BY <1>1, <2>2, <2>3, <2>4 DEF PluginTypes, TimesBounded
<1>11. ASSUME NEW t \in Loaders, ReadFile(t) PROVE PluginTypes'
  <2>1. PICK f, task : /\ f = gFile[gTask[t].p] /\ task = [gTask[t] EXCEPT !.at = "register", !.bytes = f.mtime]
                       /\ gTask' \in {[gTask EXCEPT ![t] = task], [gTask EXCEPT ![t] = NotLoading]}
    BY <1>11 DEF ReadFile
  <2>2. task.bytes = f.mtime /\ f.mtime \in 0 .. MaxWrites
    BY <1>3, <2>1 DEF LoaderType
  <2>3. \A u \in Loaders : gTask'[u].bytes \in 0 .. MaxWrites
    BY <1>2, <1>3, <1>4, <2>1, <2>2
  <2>4. UNCHANGED <<gFile, gSeen, gModule, gCrossed, gCount, gList>>
    BY <1>11 DEF ReadFile
  <2> QED
    BY <1>1, <2>3, <2>4 DEF PluginTypes, TimesBounded
<1>12. ASSUME NEW t \in Loaders, RegisterModule(t) PROVE PluginTypes'
  <2>1. /\ gModule' = [gModule EXCEPT ![gTask[t].p] = gTask[t].bytes] /\ gTask' = [gTask EXCEPT ![t].at = "config"]
        /\ UNCHANGED <<gFile, gSeen, gCrossed, gCount, gList>>
    BY <1>12 DEF RegisterModule
  <2>2. \A u \in Loaders : gTask'[u].bytes = gTask[u].bytes
    BY <1>3, <2>1 DEF LoaderType
  <2>3. \A p \in Plugins : gModule'[p] \in 0 .. MaxWrites
    BY <1>3, <2>1
  <2> QED
    BY <1>1, <1>3, <2>1, <2>2, <2>3 DEF PluginTypes, TimesBounded
<1>13. ASSUME NEW t \in Loaders, InsertConfig(t) PROVE PluginTypes'
  <2>1. /\ gTask' = [gTask EXCEPT ![t] = NotLoading] /\ gCrossed' = gCrossed \cup {gTask[t].p}
        /\ UNCHANGED <<gFile, gSeen, gModule, gCount, gList>>
    BY <1>13 DEF InsertConfig
  <2>2. \A u \in Loaders : gTask'[u].bytes \in 0 .. MaxWrites
    BY <1>2, <1>3, <1>4, <2>1
  <2> QED
    BY <1>1, <1>3, <2>1, <2>2 DEF PluginTypes, TimesBounded
<1>14. CASE UNCHANGED gVars
  BY <1>1, <1>14 DEF gVars, PluginTypes, TimesBounded
<1> QED
  BY <1>5, <1>6, <1>7, <1>8, <1>9, <1>10, <1>11, <1>12, <1>13, <1>14 DEF GNext

\* The types of the loader and of the manager's list are kept, for any plugins,
\* loaders and limits.
THEOREM PluginTypeCorrect == ASSUME Plugins # {} PROVE GSpec => []GTypeOK
<1>1. PluginTypes => GTypeOK
  <2> SUFFICES ASSUME PluginTypes PROVE GTypeOK
    OBVIOUS
  <2>1. \A t \in Loaders : gTask[t].at \in {"idle", "read", "register", "config"} /\ gTask[t].limit \in PluginConf \ {NoConfig}
    BY DEF PluginTypes, LoaderTypeOK, LoaderType
  <2>2. \A i \in DOMAIN gList : gList[i].name \in Plugins /\ gList[i].enabled \in BOOLEAN
    <3>1. \A i \in DOMAIN gList : gList[i] \in ListEntry
      BY DEF PluginTypes
    <3> QED
      BY <3>1 DEF ListEntry
  <2>3. gModule \in [Plugins -> 0 .. MaxWrites] /\ gSeen \in [Plugins -> 0 .. MaxWrites] /\ gConfig \in [Plugins -> PluginConf]
    BY DEF PluginTypes, LoaderTypeOK, TimesBounded
  <2> QED
    BY <2>1, <2>2, <2>3 DEF PluginTypes, GTypeOK
<1>2. GInit => PluginTypes
  BY PluginTypesInit
<1>3. PluginTypes /\ [GNext]_gVars => PluginTypes'
  BY PluginTypesStep
<1> QED
  BY <1>1, <1>2, <1>3, PTL DEF GSpec
-----------------------------------------------------------------------------
(* The types of the other parts of the proxy                               *)

\* The router keeps as many rules as were added.
THEOREM RouterTypeCorrect == TSpec => []TTypeOK
<1>1. RouterInv => TTypeOK
  BY DEF RouterInv
<1> QED
  BY <1>1, RouterInit, RouterStep, PTL DEF TSpec

\* The types of the load balancers are kept, for any endpoints and tasks.
THEOREM BalancerTypeCorrect == LSpec => []LTypeOK
<1>1. BalancerInv => LTypeOK
  BY DEF BalancerInv
<1> QED
  BY <1>1, BalancerInitInv, BalancerInvStep, PTL DEF LSpec

\* The times that counters and checks hold are times of the clock, and a bucket
\* has no more than the burst in it.
TimesOfClock ==
    /\ rNow \in Window .. Window + MaxTime
    /\ \A t \in RlTasks : rTask[t] # NotChecking => rTask[t].now \in Window .. rNow
    /\ \A k \in Registered :
         IF rStrategy = "SlidingWindow" THEN \A r \in rCounter[k] : r.at \in Window .. rNow
         ELSE rCounter[k].tokens \in 0 .. Burst * TokenUnit /\ rCounter[k].lastRefill \in Window .. rNow

LEMMA ClockNumbers ==
    ASSUME TimesOfClock
    PROVE  /\ Window \in Nat /\ MaxTime \in Nat /\ rNow \in Nat /\ Window <= rNow /\ Window \in Window .. rNow /\ rNow \in Window .. rNow
           /\ Burst * TokenUnit \in Nat /\ TokenUnit \in Nat \ {0} /\ Refill \in Nat
<1>1. Window \in Nat /\ MaxTime \in Nat /\ TokenUnit \in Nat \ {0} /\ Refill \in Nat /\ Burst \in Nat
  BY RateLimiterAssumption
<1>2. rNow \in Nat /\ Window <= rNow
  BY <1>1 DEF TimesOfClock
<1>3. Burst * TokenUnit \in Nat
  BY <1>1
<1> QED
  BY <1>1, <1>2, <1>3

LEMMA RefillBounded ==
    ASSUME NEW b, NEW now \in Nat, b.tokens \in 0 .. Burst * TokenUnit, b.lastRefill \in Nat
    PROVE  /\ RefillAt(b, now).tokens \in 0 .. Burst * TokenUnit /\ RefillAt(b, now).lastRefill = now
           /\ TryConsume(b, now).counter.tokens \in 0 .. Burst * TokenUnit
           /\ TryConsume(b, now).counter.lastRefill = now
<1>1. PICK full \in Nat : full = Burst * TokenUnit
  BY RateLimiterAssumption
<1>2. TokenUnit \in Nat \ {0} /\ Refill \in Nat
  BY RateLimiterAssumption
<1>3. PICK e \in Nat : e = IF now > b.lastRefill THEN now - b.lastRefill ELSE 0
  OBVIOUS
<1>4. PICK m \in Nat : m = e * Refill
  BY <1>2
<1>5. PICK c : c = RefillAt(b, now)
  OBVIOUS
<1>6. c = [tokens |-> IF b.tokens + m > full THEN full ELSE b.tokens + m, lastRefill |-> now]
  BY <1>1, <1>3, <1>4, <1>5 DEF RefillAt
<1>7. c.tokens \in 0 .. full /\ c.lastRefill = now
  BY <1>1, <1>6
<1>8. PICK d : d = TryConsume(b, now).counter
  OBVIOUS
<1>9. d = IF c.tokens >= TokenUnit THEN [c EXCEPT !.tokens = @ - TokenUnit] ELSE c
  BY <1>5, <1>8 DEF TryConsume
<1>10. d.tokens \in 0 .. full /\ d.lastRefill = now
  BY <1>2, <1>6, <1>7, <1>9
<1> QED
  BY <1>1, <1>5, <1>7, <1>8, <1>10

LEMMA RecordBounded ==
    ASSUME NEW requests, NEW now, NEW no, NEW r \in Record(requests, now, no).counter
    PROVE  r \in requests \/ r.at = now
BY DEF Record, Retain

LEMMA ClockStep == RateTypes /\ TimesOfClock /\ [RlNext]_rlVars => TimesOfClock'
<1> SUFFICES ASSUME RateTypes, TimesOfClock, [RlNext]_rlVars PROVE TimesOfClock'
  OBVIOUS
<1>1. CASE ClockTick
  <2>1. /\ rNow < Window + MaxTime /\ rNow' = rNow + 1 /\ UNCHANGED <<rStrategy, rCounter, rTask>>
        /\ Registered' = Registered
    BY <1>1 DEF ClockTick, Registered
  <2>2. \A x \in Window .. rNow : x \in Window .. rNow'
    BY <2>1, ClockNumbers
  <2>3. rNow' \in Window .. Window + MaxTime
    BY <2>1, ClockNumbers
  <2> QED
    BY <2>1, <2>2, <2>3 DEF TimesOfClock
<1>2. CASE RegisterKey
  <2>1. PICK k \in RlKeys : rCounter' = [i \in Registered \cup {k} |-> IF i = k THEN NewCounter ELSE rCounter[i]]
    BY <1>2 DEF RegisterKey
  <2>2. UNCHANGED <<rStrategy, rNow, rTask>> /\ Registered' = Registered \cup {k}
    BY <1>2, <2>1 DEF RegisterKey, Registered
  <2>3. IF rStrategy = "SlidingWindow" THEN NewCounter = {}
        ELSE NewCounter.tokens \in 0 .. Burst * TokenUnit /\ NewCounter.lastRefill \in Window .. rNow
    BY ClockNumbers DEF NewCounter
  <2> QED
    BY <2>1, <2>2, <2>3 DEF TimesOfClock
<1>3. CASE RemoveKey
  <2>1. PICK k \in Registered : rCounter' = [i \in Registered \ {k} |-> rCounter[i]]
    BY <1>3 DEF RemoveKey
  <2>2. UNCHANGED <<rStrategy, rNow, rTask>> /\ Registered' = Registered \ {k}
    BY <1>3, <2>1 DEF RemoveKey, Registered
  <2> QED
    BY <2>1, <2>2 DEF TimesOfClock
<1>4. ASSUME NEW t \in RlTasks, ReadClock(t) PROVE TimesOfClock'
  <2>1. PICK k \in Registered : rTask' = [rTask EXCEPT ![t] = [key |-> k, now |-> rNow]]
    BY <1>4 DEF ReadClock
  <2>2. UNCHANGED <<rStrategy, rNow, rCounter>> /\ Registered' = Registered
    BY <1>4 DEF ReadClock, Registered
  <2>3. \A u \in RlTasks : rTask'[u] = rTask[u] \/ rTask'[u].now = rNow
    BY <2>1 DEF RateTypes
  <2> QED
    BY <2>2, <2>3, ClockNumbers DEF TimesOfClock
<1>5. ASSUME NEW t \in RlTasks, CountRequest(t) PROVE TimesOfClock'
  <2>1. PICK k \in Registered, at \in Window .. rNow : k = rTask[t].key /\ at = rTask[t].now
    BY <1>5 DEF CountRequest, RateTypes, TimesOfClock
  <2>2. PICK c : /\ c = IF rStrategy = "SlidingWindow" THEN Record(rCounter[k], at, Len(rAllowed[k]) + 1).counter
                        ELSE TryConsume(rCounter[k], at).counter
                 /\ rCounter' = [rCounter EXCEPT ![k] = c]
    BY <1>5, <2>1 DEF CountRequest
  <2>3. UNCHANGED <<rStrategy, rNow>> /\ rTask' = [rTask EXCEPT ![t] = NotChecking] /\ Registered' = Registered
    BY <1>5, <2>2 DEF CountRequest, Registered
  <2>4. CASE rStrategy = "SlidingWindow"
    <3>1. \A r \in c : r.at \in Window .. rNow
      BY <2>1, <2>2, <2>4, RecordBounded DEF TimesOfClock
    <3> QED
      BY <2>2, <2>3, <2>4, <3>1 DEF TimesOfClock, RateTypes, Registered
  <2>5. CASE rStrategy # "SlidingWindow"
    <3>1. rCounter[k].tokens \in 0 .. Burst * TokenUnit /\ rCounter[k].lastRefill \in Nat /\ at \in Nat
      BY <2>1, <2>5, ClockNumbers DEF TimesOfClock
    <3>2. c.tokens \in 0 .. Burst * TokenUnit /\ c.lastRefill \in Window .. rNow
      BY <2>1, <2>2, <2>5, <3>1, RefillBounded
    <3> QED
      BY <2>2, <2>3, <2>5, <3>2 DEF TimesOfClock, RateTypes, Registered
  <2> QED
    BY <2>4, <2>5
<1>6. CASE UNCHANGED rlVars
  BY <1>6 DEF rlVars, TimesOfClock, Registered
<1> QED
  BY <1>1, <1>2, <1>3, <1>4, <1>5, <1>6 DEF RlNext

\* The types of the rate limiter are kept: no bucket has more than the burst in
\* it, for any limits, rates, keys and tasks.
THEOREM LimiterTypeCorrect == RlSpec => []RlTypeOK
<1>1. RlInit => RateInv /\ TimesOfClock
  <2> SUFFICES ASSUME RlInit PROVE TimesOfClock
    BY RateInitInv
  <2>1. Window \in Nat /\ MaxTime \in Nat
    BY RateLimiterAssumption
  <2> QED
    BY <2>1 DEF RlInit, TimesOfClock, Registered
<1>2. RateInv /\ TimesOfClock /\ [RlNext]_rlVars => RateInv' /\ TimesOfClock'
  BY RateInvStep, ClockStep DEF RateInv
<1>3. RateInv /\ TimesOfClock => RlTypeOK
  <2> SUFFICES ASSUME RateInv, TimesOfClock PROVE RlTypeOK
    OBVIOUS
  <2>1. \A t \in RlTasks : rTask[t].key \in RlKeys \cup {NoKey}
    BY DEF RateInv, RateTypes, NotChecking
  <2> QED
    BY <2>1 DEF RateInv, RateTypes, TimesOfClock, RlTypeOK
<1> QED
  BY <1>1, <1>2, <1>3, PTL DEF RlSpec
=============================================================================
