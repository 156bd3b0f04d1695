---------------------------- MODULE HealthMonitor ----------------------------
(***************************************************************************)
(* Tether's health monitor (tether/proxy/src/health.rs): the health of     *)
(* each connection, recorded by whoever pinged it, and the ping loop,      *)
(* which checks the connections that were registered when it was started   *)
(* and asks for the eviction of those that fail.  Nobody receives what it  *)
(* asks: the receiver of the channel is dropped where it is made.          *)
(***************************************************************************)
EXTENDS Integers, Sequences, FiniteSets, SequencesExt

CONSTANTS
    HealthIds,     \* connections
    MaxFailures,   \* max_failures
    MaxOutcomes    \* bound: outcomes recorded of one connection

ASSUME HealthAssumption == MaxFailures \in Nat \ {0} /\ MaxOutcomes \in Nat

VARIABLES
    hHealth,       \* health: [status, streak] of the registered connections
    hOutcomes,     \* history: hOutcomes[i]: "ok" or "failed", the outcomes of i since it
                   \* was registered
    hLoop,         \* the ping loop: the ids it was started with, in the order it
                   \* goes through them, and the next one; it ends
    hFailed        \* history: a check of the loop has failed

hVars == <<hHealth, hOutcomes, hLoop, hFailed>>

Statuses == {"Healthy", "Degraded", "Unhealthy"}
Monitored == DOMAIN hHealth
NewHealth == [status |-> "Healthy", streak |-> 0]

HTypeOK ==
    /\ Monitored \subseteq HealthIds
    /\ \A i \in Monitored : hHealth[i].status \in Statuses /\ hHealth[i].streak \in 0 .. MaxOutcomes
    /\ hLoop.at \in {"off", "check", "evict", "ended"} /\ hFailed \in BOOLEAN

HInit ==
    /\ hHealth = [i \in {} |-> NewHealth] /\ hOutcomes = [i \in HealthIds |-> <<>>]
    /\ hLoop = [at |-> "off", ids |-> <<>>, next |-> 0] /\ hFailed = FALSE

ForgetOutcomes(i) == hOutcomes' = [hOutcomes EXCEPT ![i] = <<>>]

Register(i) ==
    /\ hHealth' = [j \in Monitored \cup {i} |-> IF j = i THEN NewHealth ELSE hHealth[j]]
    /\ ForgetOutcomes(i)
    /\ UNCHANGED <<hLoop, hFailed>>

Unregister(i) ==
    /\ i \in Monitored
    /\ hHealth' = [j \in Monitored \ {i} |-> hHealth[j]] /\ ForgetOutcomes(i)
    /\ UNCHANGED <<hLoop, hFailed>>

Observed(i, outcome) == Len(hOutcomes[i]) < MaxOutcomes /\ hOutcomes' = [hOutcomes EXCEPT ![i] = Append(@, outcome)]

RecordSuccessKeepsStreak(i) ==
    /\ i \in Monitored /\ Observed(i, "ok")
    /\ hHealth' = [hHealth EXCEPT ![i].status = "Healthy"]
    /\ UNCHANGED <<hLoop, hFailed>>
RecordSuccess(i) ==
    /\ i \in Monitored /\ Observed(i, "ok")
    /\ hHealth' = [hHealth EXCEPT ![i] = NewHealth]
    /\ UNCHANGED <<hLoop, hFailed>>

\* Below half of max_failures the status stays what it was.
RecordFailure(i) ==
    /\ i \in Monitored /\ Observed(i, "failed")
    /\ LET n == hHealth[i].streak + 1
       IN hHealth' = [hHealth EXCEPT ![i] =
            [streak |-> n, status |-> IF n >= MaxFailures THEN "Unhealthy"
                                      ELSE IF n >= MaxFailures \div 2 THEN "Degraded" ELSE @.status]]
    /\ UNCHANGED <<hLoop, hFailed>>
-----------------------------------------------------------------------------
\* start_ping_loop: the connections that are registered now, and no others.
StartPingLoop ==
    /\ hLoop.at = "off"
    /\ \E order \in SetToSeqs(Monitored) : hLoop' = [at |-> "check", ids |-> order, next |-> 1]
    /\ UNCHANGED <<hHealth, hOutcomes, hFailed>>

\* One check; after the last the loop waits for its next tick.  The check is
\* not of a connection in particular and is not recorded in its health.
CheckNext(ok) ==
    /\ hLoop.at = "check" /\ hLoop.ids # <<>>
    /\ hLoop' = IF ok THEN [hLoop EXCEPT !.next = (@ % Len(hLoop.ids)) + 1] ELSE [hLoop EXCEPT !.at = "evict"]
    /\ hFailed' = (hFailed \/ ~ok)
    /\ UNCHANGED <<hHealth, hOutcomes>>

\* The receiver is gone, so the send fails and the task returns.
SendEviction ==
    /\ hLoop.at = "evict"
    /\ hLoop' = [hLoop EXCEPT !.at = "ended"]
    /\ UNCHANGED <<hHealth, hOutcomes, hFailed>>

HNext ==
    \/ StartPingLoop \/ SendEviction \/ \E ok \in BOOLEAN : CheckNext(ok)
    \/ \E i \in HealthIds : Register(i) \/ Unregister(i) \/ RecordSuccess(i) \/ RecordFailure(i)

HSpec == HInit /\ [][HNext]_hVars
-----------------------------------------------------------------------------
\* The failures of a connection since its last success.
Streak(i) ==
    LET os == hOutcomes[i]
        lastOk == CHOOSE n \in 0 .. Len(os) : (n = 0 \/ os[n] = "ok") /\ \A j \in n + 1 .. Len(os) : os[j] = "failed"
    IN Len(os) - lastOk

\* The status of a connection is that of its run of failures, whatever came
\* before it: unhealthy from max_failures on, degraded from half of it on,
\* healthy with none (health.rs, record_success and record_failure).
StatusFollowsStreak ==
    \A i \in Monitored :
       LET n == Streak(i)
       IN /\ hHealth[i].status = "Unhealthy" <=> n >= MaxFailures
          /\ hHealth[i].status = "Degraded" <=> n # 0 /\ n < MaxFailures /\ n >= MaxFailures \div 2

\* The loop never goes past a check that failed: one bad answer and nothing is
\* checked any more.
HealthSound == StatusFollowsStreak /\ (hFailed => hLoop.at \in {"evict", "ended"})
=============================================================================
