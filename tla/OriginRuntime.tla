---------------------------- MODULE OriginRuntime ----------------------------
(***************************************************************************)
(* Starting, stopping, watching and probing the services of a TPT Origin   *)
(* environment: RuntimeManager of origin/core/src/runtime.rs, and the      *)
(* containerd client it uses for OCI services                              *)
(* (origin/core/src/containerd/mod.rs).                                    *)
(*                                                                         *)
(* The host's processes are a function from process ids to what a parent   *)
(* can see of them; an id is used again once nobody refers to it.          *)
(***************************************************************************)
EXTENDS OriginHost

CONSTANTS
    MaxFails       \* bound: failed probes in a row that are counted

ASSUME RuntimeAssumption ==
    /\ MaxFails \in Nat /\ MaxFails >= Retries

VARIABLES
    svc,           \* RuntimeManager.services: an entry per tracked service, or NoEntry
    proc,          \* the processes of the host
    task,          \* task[s]: the task containerd lists for container s, 0 if none
    container      \* the container records of containerd

runtimeVars == <<svc, proc, task, container>>

Pids == 1 .. MaxPid
Statuses == {"Starting", "Running", "Stopped", "Failed", "HealthChecking", "Paused"}
NoEntry == [status |-> "none", pid |-> 0, fails |-> 0]
FreeProc == [of |-> "nobody", state |-> "free", bad |-> 0]
Live(p) == p \in Pids /\ proc[p].state \in {"running", "frozen"}

RuntimeTypeOK ==
    /\ svc \in [Services -> [status : Statuses \cup {"none"}, pid : 0 .. MaxPid, fails : 0 .. MaxFails]]
    /\ proc \in [Pids -> [of : Services \cup {"nobody"}, bad : 0 .. MaxFails,
                          state : {"free", "running", "frozen", "succeeded", "failed"}]]
    /\ task \in [Services -> 0 .. MaxPid]
    /\ container \subseteq Services

RuntimeInit ==
    /\ svc = [s \in Services |-> NoEntry]
    /\ proc = [p \in Pids |-> FreeProc]
    /\ task = [s \in Services |-> 0]
    /\ container = {}

Tracked == {s \in Services : svc[s] # NoEntry}

\* The process ids nothing runs under and nothing holds; of these the lowest
\* is taken (they are interchangeable).
Unused == {p \in Pids : ~Live(p) /\ \A s \in Services : svc[s].pid # p /\ task[s] # p}
NextPid == {p \in Unused : \A q \in Unused : p <= q}

\* A process is started for s.  The host forgets the dead nobody holds; where
\* the start succeeds the entry of s is replaced, so that the one before is no
\* longer held.
Spawned(s, p, replaced) ==
    [q \in Pids |-> IF q = p THEN [of |-> s, state |-> "running", bad |-> 0]
                    ELSE IF \/ Live(q)
                            \/ \E t \in Services \ replaced : svc[t].pid = q
                            \/ \E t \in Services \ {s} : task[t] = q
                    THEN proc[q] ELSE FreeProc]
Entry(status, p) == [status |-> status, pid |-> p, fails |-> 0]
-----------------------------------------------------------------------------
(* start_service: the set of ways in which it can end.  `entry` is NoEntry  *)
(* where the result is an error.                                           *)

Failing == IF host.flaky
           THEN {[entry |-> NoEntry, proc |-> proc, task |-> task, container |-> container]}
           ELSE {}

\* run_container with task_pid: `ctr run` is refused when a container of that
\* name exists.  When no pid is found afterwards the call fails although the
\* container runs.
RunContainer(s) ==
    LET run(p, entry) == [entry |-> entry,
                          proc |-> Spawned(s, p, IF entry = NoEntry THEN {} ELSE {s}),
                          task |-> [task EXCEPT ![s] = p], container |-> container \cup {s}]
    IN  IF s \in container
        THEN {[entry |-> NoEntry, proc |-> proc, task |-> task, container |-> container]}
        ELSE {run(p, Entry("Running", p)) : p \in NextPid}
               \cup (IF host.flaky THEN {run(p, NoEntry) : p \in NextPid} ELSE {})

\* start_oci: connecting to containerd, pulling the image and resolving mounts
\* and secrets come first; an error there leaves everything as it is.
StartOci(s) == Failing \cup RunContainer(s)

\* instantiate_and_run: the module's _start runs to its end, or traps.
InstantiateAndRun == {"Running", "Failed"}

\* start_wasm: a missing module, a signature that does not verify or a secret
\* that cannot be resolved is an error; a module that trapped is not.
StartWasm(s) ==
    Failing \cup {[entry |-> Entry(st, 0), proc |-> proc, task |-> task, container |-> container]
                     : st \in InstantiateAndRun}

\* start_process: nothing is spawned, or the process is gone when it is first
\* looked at (nobody holds it then), or it runs.
StartProcess(s) ==
    Failing \cup {[entry |-> Entry("Running", p), proc |-> Spawned(s, p, {s}),
                   task |-> task, container |-> container] : p \in NextPid}

StartService(s) ==
    CASE Kind[s] = "oci" -> StartOci(s)
      [] Kind[s] = "wasm" -> StartWasm(s)
      [] Kind[s] = "process" -> StartProcess(s)
-----------------------------------------------------------------------------
(* stop_service                                                            *)

Dead(p, how) == IF Live(p) THEN [proc EXCEPT ![p].state = how] ELSE proc

\* stop_container: SIGTERM, SIGKILL ten seconds later, then the task and the
\* container are deleted.  An RPC that fails ends it: before the signal, with
\* the task dead but listed, or with the container record left.
StopContainer(s) ==
    LET killed == Dead(task[s], "failed")
    IN  {[proc |-> killed, task |-> 0, kept |-> FALSE]} \cup
        (IF host.flaky
         THEN {[proc |-> proc, task |-> task[s], kept |-> s \in container],
               [proc |-> killed, task |-> task[s], kept |-> s \in container],
               [proc |-> killed, task |-> 0, kept |-> s \in container]}
         ELSE {})

\* The child gets SIGTERM, which one that is frozen does not see.
StopOutcomesTerm(s) ==
    CASE Kind[s] = "oci" -> StopContainer(s)
      [] Kind[s] = "wasm" -> {[proc |-> proc, task |-> 0, kept |-> FALSE]}
      [] Kind[s] = "process" ->
           {[proc |-> IF svc[s].pid \in Pids /\ proc[svc[s].pid].state = "frozen" THEN proc
                      ELSE Dead(svc[s].pid, "failed"), task |-> 0, kept |-> FALSE]}

\* stop_service of a tracked service: its child is killed and waited for; a
\* container that could not be stopped is only warned about.  The entry stays.
StopOutcomes(s) ==
    CASE Kind[s] = "oci" -> StopContainer(s)
      [] Kind[s] = "wasm" -> {[proc |-> proc, task |-> 0, kept |-> FALSE]}
      [] Kind[s] = "process" -> {[proc |-> Dead(svc[s].pid, "failed"), task |-> 0, kept |-> FALSE]}

-----------------------------------------------------------------------------
(* reap_and_restart                                                        *)

\* check_exited: "no" is None.  A child is asked for its exit status; of a
\* container's task it is asked only whether containerd still lists one, and a
\* failed call says nothing.
CheckExited(s) ==
    CASE Kind[s] = "process" ->
           IF svc[s].pid \in Pids /\ ~Live(svc[s].pid) THEN {proc[svc[s].pid].state} ELSE {"no"}
      [] Kind[s] = "oci" -> IF task[s] = 0 THEN {"succeeded", "no"} ELSE {"no"}
      [] Kind[s] = "wasm" -> {"no"}

ShouldRestart(s, exit) == Policy[s] = "always" \/ (Policy[s] = "on-failure" /\ exit = "failed")
-----------------------------------------------------------------------------
(* poll_healthchecks: the loop body for one service whose interval is over *)
(* (an http, tcp or exec probe; any answer).                               *)
Probe(s, healthy) ==
    LET e == svc[s]
    IN  IF healthy
        THEN [status |-> IF e.status = "HealthChecking" THEN "Running" ELSE e.status,
              pid |-> e.pid, fails |-> 0]
        ELSE [status |-> IF e.fails + 1 >= Retries THEN "Failed" ELSE "HealthChecking",
              pid |-> e.pid, fails |-> e.fails + 1]

\* What the probe that failed was aimed at: the process of the entry.
Blamed(probes) ==
    [p \in Pids |-> IF \E s \in DOMAIN probes : svc[s].pid = p /\ ~probes[s] /\ proc[p].bad < MaxFails
                    THEN [proc[p] EXCEPT !.bad = @ + 1] ELSE proc[p]]

PollHealthchecks ==
    \E due \in SUBSET {s \in Tracked \cap Probed : ~host.quiet} : \E probes \in [due -> BOOLEAN] :
       /\ \A s \in due : ~probes[s] => svc[s].fails < MaxFails
       /\ svc' = [s \in Services |-> IF s \in due THEN Probe(s, probes[s]) ELSE svc[s]]
       /\ proc' = Blamed(probes)
       /\ UNCHANGED <<task, container>>
-----------------------------------------------------------------------------
\* pause_service and unpause_service: SIGSTOP and SIGCONT, or the task's
\* freezer; the status is set whatever became of the process.
Pause(s, from, to, status) ==
    /\ s \in Tracked
    /\ LET p == IF Kind[s] = "oci" THEN task[s] ELSE svc[s].pid
       IN  proc' = IF p \in Pids /\ proc[p].state = from THEN [proc EXCEPT ![p].state = to] ELSE proc
    /\ svc' = [svc EXCEPT ![s].status = status]
    /\ UNCHANGED <<task, container>>

PauseService(s) == Pause(s, "running", "frozen", "Paused")
UnpauseService(s) == Pause(s, "frozen", "running", "Running")

\* A process ends by itself, crashes or is killed from outside.
ProcessExits(p, how) ==
    /\ proc[p].state = "running" \/ (proc[p].state = "frozen" /\ how = "failed")
    /\ proc' = [proc EXCEPT ![p].state = how]
    /\ UNCHANGED <<svc, task, container>>

\* Somebody removes a dead task from containerd (`ctr task delete`).
TaskDeleted(s) ==
    /\ task[s] # 0 /\ ~Live(task[s])
    /\ task' = [task EXCEPT ![s] = 0]
    /\ UNCHANGED <<svc, proc, container>>
-----------------------------------------------------------------------------
\* Whatever crashed, was restarted, or could not be stopped, a service never has
\* two live processes.
OneInstance ==
    \A p, q \in Pids : Live(p) /\ Live(q) /\ proc[p].of = proc[q].of => p = q

\* A service is held to have failed its healthcheck only by probes of the very
\* process that runs now: a restart starts the count again.
FailuresAreOwn ==
    \A s \in Tracked : svc[s].pid # 0 => svc[s].fails <= proc[svc[s].pid].bad
=============================================================================
