------------------------------ MODULE OriginCli ------------------------------
(***************************************************************************)
(* The commands of the `tpt origin` CLI (origin/cli/src/main.rs) that meet *)
(* each other: `up`, which stays as the supervisor of what it started,     *)
(* `down`, `pause` and `unpause`, which are processes of their own and     *)
(* know the environment only from the state file (origin/cli/src/state.rs) *)
(* and reach it only by signals.                                           *)
(*                                                                         *)
(* The services are the process services.  What a supervisor does to       *)
(* networks, ports and containers is in OriginLifecycle.                   *)
(***************************************************************************)
EXTENDS OriginManifest

CONSTANTS
    MaxSups        \* bound: the `up` commands given

ASSUME CliAssumption == MaxSups \in Nat

VARIABLES
    sup,           \* sup[u]: where the u-th `up` is
    checks,        \* the services its tick or its restart has still to deal with
    kids,          \* kids[u][s]: the child that runs s, 0 if none
    cliProc,       \* the processes of the services
    record,        \* the state file, or NoRecord
    downAt,        \* where the `down` command is
    found,         \* the state it read
    signals        \* the services whose process it has still to signal

cliVars == <<sup, checks, kids, cliProc, record, downAt, found, signals>>

Ups == 1 .. MaxSups
CliServices == {s \in Services : Kind[s] = "process"}
CliPids == 1 .. MaxPid
NoKids == [s \in CliServices |-> 0]
NoRecord == [up |-> 0, pids |-> NoKids]
FreeSlot == [by |-> 0, state |-> "free"]
Alive(p) == p \in CliPids /\ cliProc[p].state \in {"running", "frozen"}

CliTypeOK ==
    /\ sup \in [Ups -> {"off", "starting", "written", "select", "tick", "restart", "stopping",
                        "exited", "dead"}]
    /\ checks \in [Ups -> SUBSET CliServices]
    /\ kids \in [Ups -> [CliServices -> 0 .. MaxPid]]
    /\ cliProc \in [CliPids -> [by : 0 .. MaxSups, state : {"free", "running", "frozen", "succeeded", "failed"}]]
    /\ record \in [up : 0 .. MaxSups, pids : [CliServices -> 0 .. MaxPid]]
    /\ found \in [up : 0 .. MaxSups, pids : [CliServices -> 0 .. MaxPid]]
    /\ downAt \in {"off", "services", "supervisor", "clear", "done"}
    /\ signals \subseteq CliServices

CliInit ==
    /\ sup = [u \in Ups |-> "off"] /\ checks = [u \in Ups |-> {}]
    /\ kids = [u \in Ups |-> NoKids]
    /\ cliProc = [p \in CliPids |-> FreeSlot]
    /\ record = NoRecord /\ found = NoRecord
    /\ downAt = "off" /\ signals = {}
-----------------------------------------------------------------------------
(* Processes.  An id is free again once its parent has waited for it, or    *)
(* has gone.                                                               *)

Held(p) == \E u \in Ups : sup[u] \notin {"exited", "dead"} /\ \E s \in CliServices : kids[u][s] = p
FreePids == {p \in CliPids : ~Alive(p) /\ ~Held(p)}

\* start_service for s, by supervisor u; it fails without a process.
Starts(u, s) ==
    \/ \E p \in FreePids :
         /\ \A q \in FreePids : p <= q
         /\ kids' = [kids EXCEPT ![u][s] = p]
         /\ cliProc' = [cliProc EXCEPT ![p] = [by |-> u, state |-> "running"]]
    \/ kids' = [kids EXCEPT ![u][s] = 0] /\ UNCHANGED cliProc

\* A process ends by itself.
CliExit(p) ==
    /\ cliProc[p].state = "running"
    /\ \E how \in {"succeeded", "failed"} : cliProc' = [cliProc EXCEPT ![p].state = how]
    /\ UNCHANGED <<sup, checks, kids, record, downAt, found, signals>>
-----------------------------------------------------------------------------
(* up                                                                      *)

\* cmd_up: the manifest is read, extended, filtered and interpolated; it does
\* not look whether an environment is running already.
CmdUp(u) ==
    /\ sup[u] = "off" /\ \A v \in Ups : v < u => sup[v] # "off"
    /\ sup' = [sup EXCEPT ![u] = "starting"]
    /\ checks' = [checks EXCEPT ![u] = CliServices]
    /\ UNCHANGED <<kids, cliProc, record, downAt, found, signals>>

\* origin.up: an error ends the command, and leaves its children running.
UpService(u, s) ==
    /\ sup[u] = "starting" /\ s \in checks[u]
    /\ checks' = [checks EXCEPT ![u] = @ \ {s}]
    /\ Starts(u, s)
    /\ sup' = [sup EXCEPT ![u] = IF kids'[u][s] = 0 THEN "dead" ELSE @]
    /\ UNCHANGED <<record, downAt, found, signals>>

\* state::write: whatever file was there is replaced.
WriteState(u) ==
    /\ sup[u] = "starting" /\ checks[u] = {}
    /\ record' = [up |-> u, pids |-> kids[u]]
    /\ sup' = [sup EXCEPT ![u] = "written"]
    /\ UNCHANGED <<checks, kids, cliProc, downAt, found, signals>>
-----------------------------------------------------------------------------
(* run_supervisor and run_with_watch: a select over SIGINT, the tick and    *)
(* the file watcher.  The interrupt is waited for only inside select, by a  *)
(* future made anew each time round.                                       *)

EnterSelect(u) ==
    /\ sup[u] \in {"written", "tick", "restart"} /\ (sup[u] # "written" => checks[u] = {})
    /\ sup' = [sup EXCEPT ![u] = "select"]
    /\ UNCHANGED <<checks, kids, cliProc, record, downAt, found, signals>>

Tick(u) ==
    /\ sup[u] = "select"
    /\ sup' = [sup EXCEPT ![u] = "tick"]
    /\ checks' = [checks EXCEPT ![u] = {s \in CliServices : kids[u][s] # 0}]
    /\ UNCHANGED <<kids, cliProc, record, downAt, found, signals>>

\* reap_and_restart for one service; a start that fails ends the tick.
TickService(u, s) ==
    /\ sup[u] = "tick" /\ s \in checks[u]
    /\ IF ~Alive(kids[u][s]) /\ (Policy[s] = "always" \/ (Policy[s] = "on-failure"
                                   /\ cliProc[kids[u][s]].state = "failed"))
       THEN /\ Starts(u, s)
            /\ checks' = [checks EXCEPT ![u] = IF kids'[u][s] = 0 THEN {} ELSE @ \ {s}]
       ELSE /\ checks' = [checks EXCEPT ![u] = @ \ {s}]
            /\ UNCHANGED <<kids, cliProc>>
    /\ UNCHANGED <<sup, record, downAt, found, signals>>

\* The services whose source is in a directory that changed: only a program
\* given by a relative path is watched.  Which of them is an input.
FindAffected == (SUBSET CliServices) \ {{}}

\* A file changed, and no restart was begun in the last half second.
Change(u) ==
    /\ sup[u] = "select"
    /\ \E affected \in FindAffected :
         checks' = [checks EXCEPT ![u] = affected]
    /\ sup' = [sup EXCEPT ![u] = "restart"]
    /\ UNCHANGED <<kids, cliProc, record, downAt, found, signals>>

Killed(p) == IF Alive(p) THEN [cliProc EXCEPT ![p].state = "failed"] ELSE cliProc

\* restart_service, in its two steps: the child is killed and waited for, a new
\* one is started.
RestartKill(u, s) ==
    /\ sup[u] = "restart" /\ s \in checks[u] /\ Alive(kids[u][s])
    /\ cliProc' = Killed(kids[u][s])
    /\ UNCHANGED <<sup, checks, kids, record, downAt, found, signals>>
RestartSpawn(u, s) ==
    /\ sup[u] = "restart" /\ s \in checks[u] /\ ~Alive(kids[u][s])
    /\ checks' = [checks EXCEPT ![u] = @ \ {s}]
    /\ Starts(u, s)
    /\ UNCHANGED <<sup, record, downAt, found, signals>>

\* The environment is left as soon as no child of it runs: a frozen one stays.
LeaveFrozen(u) ==
    /\ sup[u] = "stopping" /\ \A s \in CliServices : kids[u][s] # 0 => cliProc[kids[u][s]].state # "running"
    /\ record' = NoRecord
    /\ sup' = [sup EXCEPT ![u] = "exited"]
    /\ UNCHANGED <<checks, kids, cliProc, downAt, found, signals>>
\* origin.down, one service, and then the state file: whoever wrote it.
StopKid(u, s) ==
    /\ sup[u] = "stopping" /\ Alive(kids[u][s])
    /\ cliProc' = Killed(kids[u][s])
    /\ UNCHANGED <<sup, checks, kids, record, downAt, found, signals>>
Leave(u) ==
    /\ sup[u] = "stopping" /\ \A s \in CliServices : ~Alive(kids[u][s])
    /\ record' = NoRecord
    /\ sup' = [sup EXCEPT ![u] = "exited"]
    /\ UNCHANGED <<checks, kids, cliProc, downAt, found, signals>>

\* SIGINT.  Before the first select it kills the process; in select it ends the
\* loop; at any other time nobody listens.
Interrupted(u) ==
    [sup EXCEPT ![u] = IF @ \in {"starting", "written"} THEN "dead"
                       ELSE IF @ = "select" THEN "stopping" ELSE @]

\* Ctrl+C, at the terminal of `up`; or the supervisor is killed, and what it
\* knew of its children goes with it.
CtrlC(u) ==
    /\ sup[u] = "select" /\ sup' = Interrupted(u)
    /\ UNCHANGED <<checks, kids, cliProc, record, downAt, found, signals>>
Crash(u) ==
    /\ sup[u] \notin {"off", "exited", "dead"}
    /\ sup' = [sup EXCEPT ![u] = "dead"]
    /\ checks' = [checks EXCEPT ![u] = {}] /\ kids' = [kids EXCEPT ![u] = NoKids]
    /\ UNCHANGED <<cliProc, record, downAt, found, signals>>
-----------------------------------------------------------------------------
(* down                                                                    *)

CmdDown ==
    /\ downAt = "off" /\ record # NoRecord
    /\ found' = record /\ downAt' = "services"
    /\ signals' = {s \in CliServices : record.pids[s] # 0}
    /\ UNCHANGED <<sup, checks, kids, cliProc, record>>

\* state::terminate of a service: the process that has the recorded id now gets
\* the signal.  It may handle it; a frozen one does not see it.
DownService(s) ==
    /\ downAt = "services" /\ s \in signals
    /\ signals' = signals \ {s}
    /\ \/ Alive(found.pids[s]) /\ cliProc[found.pids[s]].state = "running"
          /\ cliProc' = [cliProc EXCEPT ![found.pids[s]].state = "failed"]
       \/ UNCHANGED cliProc
    /\ UNCHANGED <<sup, checks, kids, record, downAt, found>>

DownSupervisor ==
    /\ downAt = "services" /\ signals = {}
    /\ downAt' = "clear"
    /\ sup' = Interrupted(found.up)
    /\ UNCHANGED <<checks, kids, cliProc, record, found, signals>>

\* state::clear; the command ends, and what it read goes with it.
DownClear ==
    /\ downAt = "clear"
    /\ record' = NoRecord /\ downAt' = "done" /\ found' = NoRecord
    /\ UNCHANGED <<sup, checks, kids, cliProc, signals>>

\* cmd_pause and cmd_unpause: the recorded id again.
CmdPause(s) ==
    /\ record.pids[s] # 0
    /\ cliProc[record.pids[s]].state = "running"
    /\ cliProc' = [cliProc EXCEPT ![record.pids[s]].state = "frozen"]
    /\ UNCHANGED <<sup, checks, kids, record, downAt, found, signals>>
CmdUnpause(s) ==
    /\ record.pids[s] # 0
    /\ cliProc[record.pids[s]].state = "frozen"
    /\ cliProc' = [cliProc EXCEPT ![record.pids[s]].state = "running"]
    /\ UNCHANGED <<sup, checks, kids, record, downAt, found, signals>>

SupervisorStep(u) ==
    \/ WriteState(u) \/ EnterSelect(u) \/ Leave(u)
    \/ \E s \in CliServices : \/ UpService(u, s) \/ TickService(u, s)
                              \/ RestartKill(u, s) \/ RestartSpawn(u, s) \/ StopKid(u, s)
CliNext ==
    \/ \E u \in Ups : CmdUp(u) \/ SupervisorStep(u) \/ Tick(u) \/ Change(u) \/ CtrlC(u) \/ Crash(u)
    \/ CmdDown \/ DownSupervisor \/ DownClear
    \/ \E s \in CliServices : DownService(s) \/ CmdPause(s) \/ CmdUnpause(s)
    \/ \E p \in CliPids : CliExit(p)

CliSpec == CliInit /\ [][CliNext]_cliVars
-----------------------------------------------------------------------------
\* A supervisor that left in order left nothing: no process it ever started is
\* alive, even one that was frozen, restarted or hit by a signal meant for
\* another, and the state file does not name it.
CleanExit ==
    \A u \in Ups : sup[u] = "exited" =>
       /\ record.up # u
       /\ \A p \in CliPids : Alive(p) => cliProc[p].by # u
=============================================================================
