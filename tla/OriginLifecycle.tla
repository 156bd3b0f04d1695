--------------------------- MODULE OriginLifecycle ---------------------------
(***************************************************************************)
(* LifecycleManager of origin/core/src/lifecycle.rs: it owns the runtime,  *)
(* the networks, the DNS table and the port mapper of an environment and   *)
(* takes them through up, the supervisor's tick (reap, then healthchecks), *)
(* restart, pause and down.  Every call takes the manager by &mut, so the  *)
(* calls never overlap; what goes on around them is processes that die,    *)
(* containerd, and the accept loops of the port mapper                     *)
(* (origin/core/src/portmap.rs), whose sockets close only when the         *)
(* scheduler gets to a task that was aborted.                              *)
(***************************************************************************)
EXTENDS OriginRuntime, OriginNetwork

CONSTANTS
    MaxUps         \* bound: times `up` is called

Nobody == "nobody"   \* no service

ASSUME LifecycleAssumption ==
    /\ MaxUps \in Nat
    /\ Nobody \notin Services

VARIABLES
    op,            \* the call being executed, "idle" between calls
    todo,          \* the services it has still to deal with
    restarted,     \* reap: services started again, not attached yet
    cur,           \* the service being attached to its networks, or Nobody
    netsTodo,      \* the networks cur has still to be attached to
    health,        \* LifecycleManager.health: the status, "none" if absent
    proxies,       \* PortMapper.proxies: (service, host port)
    listeners,     \* the listening sockets of the accept loops
    ups            \* calls of up so far

lifeVars == <<op, todo, restarted, cur, netsTodo, health>>
portVars == <<proxies, listeners>>
vars == <<runtimeVars, networkVars, lifeVars, portVars, ups, host>>

Localhost == [net |-> 127, host |-> 1]
Listener == [svc : Services, port : Nat, fam : {4, 6}, target : [net : Int, host : Nat],
             aborted : BOOLEAN]

LifecycleTypeOK ==
    /\ host \in Hosts
    /\ NetworkTypeOK /\ RuntimeTypeOK
    /\ op \in {"new", "up", "idle", "reap", "refresh", "poll", "restart", "starting", "down",
               "failed", "stopped"}
    /\ todo \subseteq Services /\ restarted \subseteq Services /\ netsTodo \subseteq Networks
    /\ cur \in Services \cup {Nobody}
    /\ health \in [Services -> Statuses \cup {"none"}]
    /\ proxies \subseteq {q \in Services \X Nat : q[2] \in HostPorts[q[1]]}
    /\ \A l \in listeners : /\ l.svc \in Services /\ l.port \in HostPorts[l.svc] /\ l.fam \in {4, 6}
                            /\ l.aborted \in BOOLEAN
    /\ ups \in 0 .. MaxUps

Init ==
    /\ host \in Hosts
    /\ NetworkInit /\ RuntimeInit
    /\ op = "new" /\ todo = {} /\ restarted = {} /\ cur = Nobody /\ netsTodo = {}
    /\ health = [s \in Services |-> "none"]
    /\ proxies = {} /\ listeners = {} /\ ups = 0
-----------------------------------------------------------------------------
(* Port mappings.                                                          *)

Bound(port, fam, ls) == \E l \in ls : l.port = port /\ l.fam = fam

\* stop_proxy: only the IPv4 accept loop is aborted; dropping the handle of the
\* other detaches it.
Aborted(S) ==
    {[l EXCEPT !.aborted = @ \/ (l.fam = 4 /\ l.svc \in S /\ <<l.svc, l.port>> \in proxies)] : l \in listeners}

\* PortMapper::apply, for the ports of service s: the old proxy is stopped, and
\* the port is bound again at once.  The aborted accept loop may still hold it;
\* then the mapping is skipped.
ApplyPorts(s, target) ==
    LET new(port, fam) == [svc |-> s, port |-> port, fam |-> fam, target |-> target, aborted |-> FALSE]
    IN  \E closed \in SUBSET {l \in Aborted({s}) : l.aborted} :
          LET old == Aborted({s}) \ closed
              got == {p \in HostPorts[s] : ~Bound(p, 4, old)}
              got6 == {p \in got : host.v6only /\ ~Bound(p, 6, old)}
          IN  /\ listeners' = old \cup {new(p, 4) : p \in got} \cup {new(p, 6) : p \in got6}
              /\ proxies' = {q \in proxies : q[1] # s} \cup {<<s, p>> : p \in got}

\* stop_service of the port mapper.
StopPorts(s) == /\ listeners' = Aborted({s})
                /\ proxies' = {q \in proxies : q[1] # s}

\* stop_all clears the map: the handles are dropped and the loops run on.
StopAllPorts == proxies' = {} /\ UNCHANGED listeners

\* The scheduler drops an aborted accept loop, or accept() fails and the loop
\* ends.
ListenerCloses(l) ==
    /\ listeners' = listeners \ {l}
    /\ UNCHANGED <<runtimeVars, networkVars, lifeVars, proxies, ups>>
-----------------------------------------------------------------------------
(* up                                                                      *)

\* topological_waves: the first wave with a service left is worked off before
\* the next.  wave[s] is one more than the highest wave of what s depends on.
Wave == CHOOSE w \in [Services -> 1 .. Cardinality(Services)] :
           \A s \in Services :
              /\ \A d \in DependsOn[s] : w[d] < w[s]
              /\ w[s] > 1 => \E d \in DependsOn[s] : w[d] = w[s] - 1
InWave == {s \in todo : \A t \in todo : Wave[s] <= Wave[t]}

\* up, as far as the first wave: networks, placeholder names (numbered by the
\* size of the health table, which a second `up` finds full), DNS listener.
UpBegin ==
    /\ op \in {"new", "stopped"} /\ ups < MaxUps
    /\ ups' = ups + 1
    /\ CreateNetworks
    /\ \E rank \in [Services -> 1 .. Cardinality(Services)] :
         /\ \A s, t \in Services : rank[s] = rank[t] => s = t
         /\ dns' = [s \in Services |-> [net |-> PlaceholderNet,
              host |-> IF health[s] = "none" THEN rank[s] + 1 ELSE Cardinality(Services) + 2]]
    /\ health' = [s \in Services |-> "Starting"]
    /\ \/ op' = "up" /\ todo' = Services
       \/ host.flaky /\ op' = "failed" /\ todo' = {}            \* dns.start()
    /\ UNCHANGED <<runtimeVars, restarted, cur, netsTodo, portVars>>

\* Start one service of the wave.  An error ends `up` and leaves running what
\* was started.
UpStart(s) ==
    /\ op = "up" /\ cur = Nobody /\ s \in InWave
    /\ \E r \in StartService(s) :
         /\ proc' = r.proc /\ task' = r.task /\ container' = r.container
         /\ IF r.entry = NoEntry
            THEN /\ op' = "failed" /\ todo' = {}
                 /\ UNCHANGED <<svc, health, cur, netsTodo>>
            ELSE /\ svc' = [svc EXCEPT ![s] = r.entry]
                 /\ health' = [health EXCEPT ![s] = "Running"]
                 /\ cur' = s /\ netsTodo' = Networks
                 /\ UNCHANGED <<op, todo>>
    /\ UNCHANGED <<networkVars, restarted, portVars, ups>>

UpDone ==
    /\ op = "up" /\ todo = {} /\ cur = Nobody
    /\ op' = "idle"
    /\ UNCHANGED <<runtimeVars, networkVars, todo, restarted, cur, netsTodo, health, portVars, ups>>

\* connect_service_networks, one network, in the order of a hash map.  The pid
\* is that of any service that has one; only a container has a network
\* namespace of its own.
ConnectNext(n) ==
    /\ cur # Nobody /\ n \in netsTodo
    /\ LET p == svc[cur].pid
       IN  ConnectService(cur, n, p # 0, IF ~Live(p) THEN NoNs ELSE IF Kind[cur] = "oci" THEN p ELSE HostNs)
    /\ netsTodo' = netsTodo \ {n}
    /\ UNCHANGED <<runtimeVars, op, todo, restarted, cur, health, portVars, ups>>

\* apply_port_mappings, the last step of bringing up a service.  FirstNet is
\* network_names[0].
FirstNet == CHOOSE n \in Networks : TRUE
Target(s) == IF Networks = {} \/ Assigned(FirstNet, s) = NoAddr THEN Localhost
             ELSE Assigned(FirstNet, s)

\* The service is up: on with the call.
Attached ==
    /\ cur # Nobody /\ netsTodo = {}
    /\ IF HostPorts[cur] = {} THEN UNCHANGED portVars ELSE ApplyPorts(cur, Target(cur))
    /\ cur' = Nobody
    /\ todo' = IF op = "up" THEN todo \ {cur} ELSE todo
    /\ restarted' = restarted \ {cur}
    /\ op' = IF op = "starting" THEN "idle" ELSE op
    /\ UNCHANGED <<runtimeVars, networkVars, netsTodo, health, ups>>
-----------------------------------------------------------------------------
(* The supervisor's tick                                                   *)

TickBegin ==
    /\ op = "idle"
    /\ op' = "reap" /\ todo' = Tracked /\ restarted' = {}
    /\ UNCHANGED <<runtimeVars, networkVars, cur, netsTodo, health, portVars, ups>>

\* RuntimeManager::reap_and_restart for one service.  Its entry is removed
\* before it is started again; if that fails, the call fails and the list of
\* services restarted so far is lost.
ReapOne(s) ==
    /\ op = "reap" /\ s \in todo
    /\ \E exit \in CheckExited(s) :
         IF exit = "no"
         THEN /\ todo' = todo \ {s}
              /\ UNCHANGED <<runtimeVars, op, restarted>>
         ELSE IF ~ShouldRestart(s, exit)
         THEN /\ todo' = todo \ {s}
              /\ svc' = [svc EXCEPT ![s].status = "Failed"]
              /\ UNCHANGED <<proc, task, container, op, restarted>>
         ELSE \E r \in StartService(s) :
              /\ proc' = r.proc /\ task' = r.task /\ container' = r.container
              /\ svc' = [svc EXCEPT ![s] = r.entry]
              /\ IF r.entry = NoEntry
                 THEN op' = "poll" /\ todo' = {} /\ restarted' = {}
                 ELSE todo' = todo \ {s} /\ restarted' = restarted \cup {s} /\ UNCHANGED op
    /\ UNCHANGED <<networkVars, cur, netsTodo, health, portVars, ups>>

\* LifecycleManager::reap_and_restart for one service that was restarted: drop
\* the connections of the process before, then connect and publish again.
ReapRefresh ==
    /\ op \in {"reap", "refresh"} /\ todo = {} /\ cur = Nobody
    /\ IF restarted = {}
       THEN op' = "poll" /\ UNCHANGED <<networkVars, health, cur, netsTodo>>
       ELSE \E s \in restarted :
              /\ op' = "refresh"
              /\ health' = [health EXCEPT ![s] = "Running"]
              /\ DisconnectServices({s})
              /\ cur' = s /\ netsTodo' = Networks
    /\ UNCHANGED <<runtimeVars, todo, restarted, portVars, ups>>

\* poll_healthchecks: probes, then the statuses of the tracked services are
\* copied to the health table.
PollAndMirror ==
    /\ op = "poll"
    /\ PollHealthchecks
    /\ health' = [s \in Services |-> IF s \in Tracked /\ health[s] # "none" THEN svc'[s].status ELSE health[s]]
    /\ op' = "idle"
    /\ UNCHANGED <<networkVars, todo, restarted, cur, netsTodo, portVars, ups>>
-----------------------------------------------------------------------------
(* restart_service, pause_service, unpause_service, down                   *)

\* Mutant: the ports stay open until they are published again.
RestartServiceKeepsPorts(s) ==
    /\ op = "idle"
    /\ DisconnectServices({s})
    /\ op' = "restart" /\ todo' = {s}
    /\ UNCHANGED <<runtimeVars, restarted, cur, netsTodo, health, portVars, ups>>

\* restart_service: ports and networks, then the process; if the new one does
\* not start, the entry of the old one stays, as Stopped.
RestartService(s) ==
    /\ op = "idle"
    /\ StopPorts(s)
    /\ DisconnectServices({s})
    /\ op' = "restart" /\ todo' = {s}
    /\ UNCHANGED <<runtimeVars, restarted, cur, netsTodo, health, ups>>

\* RuntimeManager::stop_service: nothing for a service that is not tracked.
StopService(s) ==
    IF svc[s] = NoEntry THEN UNCHANGED <<runtimeVars, networkVars>>
    ELSE /\ \E r \in StopOutcomes(s) :
              /\ proc' = r.proc
              /\ task' = [task EXCEPT ![s] = r.task]
              /\ container' = IF r.kept THEN container ELSE container \ {s}
              /\ veth' = NamespacesGone({p \in Pids : Live(p) /\ r.proc[p] # proc[p]})
         /\ svc' = [svc EXCEPT ![s].status = "Stopped"]
         /\ UNCHANGED <<netVars, bridgeDev, vxlan, dns>>

RestartStop(s) ==
    /\ op = "restart" /\ s \in todo /\ cur = Nobody
    /\ StopService(s)
    /\ op' = "starting"
    /\ UNCHANGED <<todo, restarted, cur, netsTodo, health, portVars, ups>>

RestartStart(s) ==
    /\ op = "starting" /\ s \in todo
    /\ todo' = {}
    /\ \E r \in StartService(s) :
         /\ proc' = r.proc /\ task' = r.task /\ container' = r.container
         /\ IF r.entry = NoEntry
            THEN op' = "idle" /\ UNCHANGED <<svc, health, cur, netsTodo>>
            ELSE /\ svc' = [svc EXCEPT ![s] = r.entry]
                 /\ health' = [health EXCEPT ![s] = "Running"]
                 /\ cur' = s /\ netsTodo' = Networks
                 /\ UNCHANGED op
    /\ UNCHANGED <<networkVars, restarted, portVars, ups>>

PauseOrUnpause(s) ==
    /\ op = "idle"
    /\ \/ PauseService(s) /\ health' = [health EXCEPT ![s] = "Paused"]
       \/ UnpauseService(s) /\ health' = [health EXCEPT ![s] = "Running"]
    /\ UNCHANGED <<networkVars, op, todo, restarted, cur, netsTodo, portVars, ups>>

DownBegin ==
    /\ op \in {"idle", "failed"}
    /\ op' = "down" /\ todo' = Tracked
    /\ StopAllPorts
    /\ DisconnectServices({s \in Services : health[s] # "none"})
    /\ UNCHANGED <<runtimeVars, restarted, cur, netsTodo, health, ups>>

DownStop(s) ==
    /\ op = "down" /\ s \in todo
    /\ todo' = todo \ {s}
    /\ StopService(s)
    /\ UNCHANGED <<op, restarted, cur, netsTodo, health, portVars, ups>>

DownEnd ==
    /\ op = "down" /\ todo = {}
    /\ op' = "stopped"
    /\ DeleteNetworks
    /\ UNCHANGED <<runtimeVars, todo, restarted, cur, netsTodo, health, portVars, ups>>
-----------------------------------------------------------------------------
\* A process ends: by itself, or killed.  The namespace of a container goes
\* with it, and nobody asks how a container's process ended.
Exit(p) ==
    /\ ProcessExits(p, "failed") \/ (ProcessExits(p, "succeeded") /\ Kind[proc[p].of] = "process")
    /\ veth' = NamespacesGone({p})
    /\ UNCHANGED <<netVars, bridgeDev, vxlan, dns, lifeVars, portVars, ups>>

DeleteTask(s) == TaskDeleted(s) /\ UNCHANGED <<networkVars, lifeVars, portVars, ups>>

Supervise ==
    \/ UpDone \/ TickBegin \/ ReapRefresh \/ PollAndMirror \/ Attached \/ DownEnd
    \/ \E n \in Networks : ConnectNext(n)
    \/ \E s \in Services : UpStart(s) \/ ReapOne(s) \/ RestartStop(s) \/ RestartStart(s) \/ DownStop(s)

Next ==
    /\ \/ Supervise \/ UpBegin \/ DownBegin
       \/ \E s \in Services : RestartService(s) \/ PauseOrUnpause(s) \/ DeleteTask(s)
       \/ \E p \in Pids : Exit(p)
       \/ \E l \in listeners : ListenerCloses(l)
    /\ UNCHANGED host

Spec == Init /\ [][Next]_vars
-----------------------------------------------------------------------------
\* Between two calls, a published port leads to the address its service holds now
\* on the first network, and to the host if it holds none: after a restart that
\* gave it another address, one that left it without, a port that could not be
\* bound again, or a start that failed.  A container has that address; for a
\* process, which listens on the host, it is an entry of the table that no device has.
ProxyTargetsCurrent ==
    op = "idle" =>
       \A l \in listeners :
          l.fam = 4 /\ ~l.aborted /\ <<l.svc, l.port>> \in proxies => l.target = Target(l.svc)

\* `down` leaves no process of a process service behind: not one that was
\* frozen, restarted by the supervisor, or started by an `up` that then failed.
DownStopsProcesses ==
    op = "stopped" => \A p \in Pids : Live(p) => Kind[proc[p].of] # "process"

\* In an environment of one network, a container that is held to be on it has
\* the far end of its veth, and the near end is on the bridge: a process that
\* died and took its end away, a restart, or a chain of commands that broke off
\* leaves none that is only believed to be there.  (The veth is named after the
\* service, so a second network takes the device of the first.)
LinkReachesContainer ==
    op = "idle" /\ Cardinality(Networks) = 1 =>
       \A n \in nets, s \in Services :
          Kind[s] = "oci" /\ vethOn[n][s] /\ Live(svc[s].pid) =>
             veth[s] = Link(n, svc[s].pid)

\* Where devices can be deleted, `down` leaves no VXLAN device that has joined a
\* bridge, whichever network came up halfway: the bridge is not gone before it.
\* (One that could not join, it does not find.)
DownRemovesVxlans ==
    op = "stopped" /\ ~host.stubborn => \A n \in Networks : vxlan[n] \notin {"port", "detached"}

\* An environment runs what it should, once each.
RunsSound == LifecycleTypeOK /\ OneInstance /\ FailuresAreOwn
\* Its addresses and names lead to one service each.
AddressesSound == UniqueAddresses /\ NoMisroute
\* Its ports and links lead where the services are now.
LinksSound == ProxyTargetsCurrent /\ LinkReachesContainer
\* `down` takes it down.
DownSound == DownStopsProcesses /\ DownRemovesVxlans
=============================================================================
