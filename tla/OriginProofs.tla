----------------------------- MODULE OriginProofs -----------------------------
(***************************************************************************)
(* What the lifecycle manager of TPT Origin guarantees, for every manifest *)
(* and host: one instance per service, addresses of its own, ports and     *)
(* links that lead where the service is now, and a `down` that takes it    *)
(* down.  One invariant per concern; each is inductive together with those *)
(* before it.                                                              *)
(***************************************************************************)
EXTENDS OriginLifecycle, FiniteSetTheorems, TLAPS

TypeInv == LifecycleTypeOK /\ listeners \subseteq Listener

\* Where a call has got to.
ControlInv ==
    /\ cur # Nobody => op \in {"up", "refresh", "starting"}
    /\ op = "up" /\ cur # Nobody => cur \in todo
    /\ op = "starting" /\ cur # Nobody => todo = {}
    /\ op \in {"restart", "starting"} => \A s, t \in todo : s = t
    /\ op \notin {"reap", "refresh"} => restarted = {}
    /\ op = "refresh" => todo = {}
    /\ op # "new" => \A s \in Services : health[s] # "none"
    /\ nets \in {{}, Networks}

\* The process a service is stopped by.
Home(s) == IF Kind[s] = "oci" THEN task[s] ELSE svc[s].pid

\* A process that lives is the one its service is stopped by.
LiveAtHome ==
    \A p \in Pids : Live(p) =>
       /\ proc[p].of \in Services
       /\ Kind[proc[p].of] \in {"oci", "process"}
       /\ Home(proc[p].of) = p
       /\ Kind[proc[p].of] = "oci" => proc[p].of \in container

\* The services the call under way has left without a process.
Halted(s) ==
    \/ op \in {"new", "stopped"}
    \/ op = "up" /\ s \in todo \ {cur}
    \/ op = "starting" /\ s \in todo
    \/ op = "down" /\ s \notin todo

HaltedAreDead == \A s \in Services : Kind[s] = "process" /\ Halted(s) => ~Live(svc[s].pid)

BlameInv == \A s \in Services : svc[s].pid # 0 => svc[s].fails <= proc[svc[s].pid].bad

\* An entry without a status is none.
EntriesInv == \A s \in Services : svc[s].status = "none" => svc[s] = NoEntry

ProcessInv == LiveAtHome /\ HaltedAreDead /\ BlameInv /\ EntriesInv

\* The octets of a network: those given out are below the next, and differ.
OctetsInv ==
    \A n \in Networks :
       /\ nextHost[n] >= FirstHost
       /\ \A s \in Services : conn[n][s] # 0 => FirstHost <= conn[n][s] /\ conn[n][s] < nextHost[n]
       /\ \A s, t \in Services : s # t /\ conn[n][s] # 0 => conn[n][s] # conn[n][t]

\* The subnets of the networks differ.
SubnetsInv == nets # {} => \A n, k \in Networks : subnetOf[n] = subnetOf[k] => n = k

\* A name that leads into a network leads below its next octet, to nobody else.
NamesInv ==
    \A n \in nets, s \in Services : dns[s].net = subnetOf[n] =>
       /\ dns[s].host < nextHost[n]
       /\ \A t \in Services \ {s} : conn[n][t] # 0 => dns[s].host # conn[n][t]

AddressInv == OctetsInv /\ SubnetsInv /\ NamesInv

\* The listeners of a service that is not being attached lead to its address.
PortsInv ==
    /\ \A l \in listeners :
          l.fam = 4 /\ ~l.aborted /\ <<l.svc, l.port>> \in proxies /\ l.svc # cur
             => l.target = Target(l.svc)
    /\ op \in {"new", "down", "stopped"} => proxies = {}
    /\ op \in {"restart", "starting"} => \A q \in proxies : q[1] \notin todo

\* An entry holds a process of its own service.
OwnInv == \A s \in Services : svc[s].pid # 0 => proc[svc[s].pid].of = s

\* The container at the far end of a link.
LinksInv ==
    \A n \in Networks, s \in Services :
       Kind[s] = "oci" /\ vethOn[n][s] =>
          /\ s \in container
          /\ ~Halted(s)
          /\ op \in {"restart", "starting"} => s \notin todo
          /\ op # "down"
          /\ Live(svc[s].pid) => veth[s] = Link(n, svc[s].pid)

\* A VXLAN port hangs on a bridge the manager knows of.
VxlanInv ==
    ~host.stubborn =>
       \A n \in Networks :
          /\ vxlan[n] # "detached"
          /\ vxlan[n] = "port" => n \in nets /\ hasBridge[n] /\ n \in bridgeDev
          /\ op \in {"new", "stopped"} => vxlan[n] # "port"
-----------------------------------------------------------------------------
(* The ways starting and stopping a service can end.                       *)

Alive(pr, p) == p \in Pids /\ pr[p].state \in {"running", "frozen"}
States == {"free", "running", "frozen", "succeeded", "failed"}
ProcRecord == [of : Services \cup {"nobody"}, bad : 0 .. MaxFails, state : States]
EntryRecord == [status : Statuses \cup {"none"}, pid : 0 .. MaxPid, fails : 0 .. MaxFails]

\* The types of the runtime, as a fact to expand no further.
LEMMA RuntimeTypes ==
    ASSUME TypeInv
    PROVE  /\ svc \in [Services -> EntryRecord] /\ proc \in [Pids -> ProcRecord]
           /\ task \in [Services -> 0 .. MaxPid] /\ container \subseteq Services
           /\ 0 \notin Pids /\ Pids \subseteq 0 .. MaxPid /\ 0 \in 0 .. MaxPid /\ 0 \in 0 .. MaxFails
  BY ManifestAssumption, RuntimeAssumption
     DEF TypeInv, LifecycleTypeOK, RuntimeTypeOK, EntryRecord, ProcRecord, States, Pids

\* A process is started under an id that was free and held by nobody; those
\* that live, and those another entry or task holds, are as they were.
LEMMA SpawnedFacts ==
    ASSUME TypeInv, NEW s \in Services, NEW p \in NextPid, NEW replaced \in SUBSET {s}
    PROVE  /\ p \in Pids /\ ~Live(p)
           /\ \A t \in Services : svc[t].pid # p /\ task[t] # p
           /\ Spawned(s, p, replaced) \in [Pids -> ProcRecord]
           /\ Spawned(s, p, replaced)[p] = [of |-> s, state |-> "running", bad |-> 0]
           /\ \A q \in Pids \ {p} : Live(q) => Spawned(s, p, replaced)[q] = proc[q]
           /\ \A q \in Pids \ {p} : Alive(Spawned(s, p, replaced), q) => Live(q)
<1>1. p \in Pids /\ ~Live(p) /\ \A t \in Services : svc[t].pid # p /\ task[t] # p
  BY DEF NextPid, Unused
<1>2. FreeProc \in ProcRecord /\ [of |-> s, state |-> "running", bad |-> 0] \in ProcRecord
  BY RuntimeTypes DEF FreeProc, ProcRecord, States
<1>3. Spawned(s, p, replaced) \in [Pids -> ProcRecord]
  BY <1>2, RuntimeTypes DEF Spawned
<1>4. \A q \in Pids \ {p} : Live(q) => Spawned(s, p, replaced)[q] = proc[q]
  BY DEF Spawned
<1>5. \A q \in Pids \ {p} : Alive(Spawned(s, p, replaced), q) => Live(q)
  BY DEF Spawned, Alive, FreeProc, Live
<1> QED
  BY <1>1, <1>3, <1>4, <1>5 DEF Spawned

LEMMA SpawnedKeepsHeld ==
    ASSUME NEW s \in Services, NEW p \in NextPid, NEW replaced,
           NEW t \in Services \ replaced, svc[t].pid \in Pids
    PROVE  Spawned(s, p, replaced)[svc[t].pid] = proc[svc[t].pid]
  BY DEF NextPid, Unused, Spawned

\* A start that leaves the processes and containerd as they are: one that
\* failed early, or a module that has run to its end.
Untouched(r) == r.proc = proc /\ r.task = task /\ r.container = container

\* The cases of start_service.
LEMMA StartCases ==
    ASSUME TypeInv, NEW s \in Services, NEW r \in StartService(s)
    PROVE  \/ Untouched(r) /\ r.entry = NoEntry
           \/ /\ Untouched(r) /\ Kind[s] = "wasm"
              /\ \E st \in {"Running", "Failed"} : r.entry = Entry(st, 0)
           \/ \E p \in NextPid :
                 /\ Kind[s] = "process" /\ r.entry = Entry("Running", p)
                 /\ r.proc = Spawned(s, p, {s}) /\ r.task = task /\ r.container = container
           \/ \E p \in NextPid :
                 /\ Kind[s] = "oci" /\ s \notin container
                 /\ r.task = [task EXCEPT ![s] = p] /\ r.container = container \cup {s}
                 /\ \/ r.entry = Entry("Running", p) /\ r.proc = Spawned(s, p, {s})
                    \/ r.entry = NoEntry /\ r.proc = Spawned(s, p, {})
<1>1. CASE Kind[s] = "oci"
  <2>1. \A p \in NextPid : Entry("Running", p) # NoEntry
    BY DEF Entry, NoEntry
  <2>2. r \in StartOci(s)
    BY <1>1 DEF StartService
  <2> QED
    BY <1>1, <2>1, <2>2 DEF StartOci, Failing, RunContainer, Untouched
<1>2. CASE Kind[s] = "wasm"
  BY <1>2 DEF StartService, StartWasm, Failing, InstantiateAndRun, Untouched
<1>3. CASE Kind[s] = "process"
  BY <1>3 DEF StartService, StartProcess, Failing, Untouched
<1> QED
  BY <1>1, <1>2, <1>3, ManifestAssumption

LEMMA StartedEntry ==
    ASSUME TypeInv, NEW s \in Services, NEW r \in StartService(s), r.entry # NoEntry
    PROVE  r.entry.status # "none"
<1>1. \A st \in {"Running", "Failed"}, p \in Int : Entry(st, p).status # "none"
  BY DEF Entry
<1>2. NextPid \subseteq Int /\ 0 \in Int
  BY ManifestAssumption DEF NextPid, Unused, Pids
<1>3. \E st \in {"Running", "Failed"}, p \in Int : r.entry = Entry(st, p)
  BY <1>2, StartCases
<1> QED
  BY <1>1, <1>3

\* What every start of a service keeps.
LEMMA StartFacts ==
    ASSUME TypeInv, NEW s \in Services, NEW r \in StartService(s)
    PROVE  /\ r.entry \in EntryRecord /\ r.proc \in [Pids -> ProcRecord]
           /\ r.task \in [Services -> 0 .. MaxPid] /\ r.container \subseteq Services
           /\ container \subseteq r.container /\ r.container \subseteq container \cup {s}
           /\ \A t \in Services \ {s} : r.task[t] = task[t]
           /\ \A t \in Services : svc[t].pid \in Pids /\ (t # s \/ r.entry = NoEntry) =>
                 r.proc[svc[t].pid] = proc[svc[t].pid]
           /\ \A q \in Pids : Live(q) => r.proc[q] = proc[q]
           /\ \A q \in Pids : Alive(r.proc, q) /\ ~Live(q) =>
                 /\ r.proc[q].of = s /\ Kind[s] \in {"oci", "process"}
                 /\ Kind[s] = "process" => r.entry.pid = q
                 /\ Kind[s] = "oci" => s \in r.container /\ r.task[s] = q
           /\ Kind[s] = "oci" => (r.task[s] = task[s] /\ r.entry = NoEntry) \/ s \notin container
           /\ Kind[s] = "process" => r.entry # NoEntry \/ r.proc = proc
           /\ r.entry.pid # 0 => r.entry.fails = 0 /\ r.entry.pid \in Pids
<1>1. NoEntry \in EntryRecord /\ NoEntry.pid = 0
  BY RuntimeTypes DEF NoEntry, EntryRecord
<1>2. \A st \in {"Running", "Failed"}, p \in 0 .. MaxPid :
         Entry(st, p) \in EntryRecord /\ Entry(st, p).pid = p /\ Entry(st, p).fails = 0
  BY RuntimeTypes DEF Entry, EntryRecord, Statuses
<1>3. CASE Untouched(r) /\ r.entry = NoEntry
  BY <1>1, <1>3, RuntimeTypes DEF Untouched, Alive, Live
<1>4. CASE /\ Untouched(r) /\ Kind[s] = "wasm"
           /\ \E st \in {"Running", "Failed"} : r.entry = Entry(st, 0)
  BY <1>2, <1>4, RuntimeTypes DEF Untouched, Alive, Live
<1>5. CASE \E p \in NextPid :
              /\ Kind[s] = "process" /\ r.entry = Entry("Running", p)
              /\ r.proc = Spawned(s, p, {s}) /\ r.task = task /\ r.container = container
  <2>1. PICK p \in NextPid :
              /\ Kind[s] = "process" /\ r.entry = Entry("Running", p)
              /\ r.proc = Spawned(s, p, {s}) /\ r.task = task /\ r.container = container
    BY <1>5
  <2>2. p \in Pids /\ p \in 0 .. MaxPid /\ p # 0
    BY SpawnedFacts, RuntimeTypes
  <2>3. r.entry \in EntryRecord /\ r.entry.pid = p /\ r.entry.fails = 0 /\ r.entry # NoEntry
    BY <1>1, <1>2, <2>1, <2>2
  <2>4. /\ r.proc \in [Pids -> ProcRecord]
        /\ r.proc[p] = [of |-> s, state |-> "running", bad |-> 0]
        /\ \A q \in Pids \ {p} : Live(q) => r.proc[q] = proc[q]
        /\ \A q \in Pids \ {p} : Alive(r.proc, q) => Live(q)
        /\ ~Live(p) /\ \A t \in Services : svc[t].pid # p
    BY <2>1, SpawnedFacts
  <2>5. \A t \in Services \ {s} : svc[t].pid \in Pids => r.proc[svc[t].pid] = proc[svc[t].pid]
    BY <2>1, SpawnedKeepsHeld
  <2>6. \A q \in Pids : Alive(r.proc, q) /\ ~Live(q) => r.proc[q].of = s /\ r.entry.pid = q
    BY <2>3, <2>4
  <2>7. r.entry # NoEntry /\ Kind[s] # "oci"
    BY <2>1, <2>3
  <2> QED
    BY <2>1, <2>2, <2>3, <2>4, <2>5, <2>6, <2>7, RuntimeTypes
<1>6. CASE \E p \in NextPid :
              /\ Kind[s] = "oci" /\ s \notin container
              /\ r.task = [task EXCEPT ![s] = p] /\ r.container = container \cup {s}
              /\ \/ r.entry = Entry("Running", p) /\ r.proc = Spawned(s, p, {s})
                 \/ r.entry = NoEntry /\ r.proc = Spawned(s, p, {})
  <2>1. PICK p \in NextPid :
              /\ Kind[s] = "oci" /\ s \notin container
              /\ r.task = [task EXCEPT ![s] = p] /\ r.container = container \cup {s}
              /\ \/ r.entry = Entry("Running", p) /\ r.proc = Spawned(s, p, {s})
                 \/ r.entry = NoEntry /\ r.proc = Spawned(s, p, {})
    BY <1>6
  <2>2. p \in Pids /\ p \in 0 .. MaxPid /\ p # 0
    BY SpawnedFacts, RuntimeTypes
  <2>3. r.task \in [Services -> 0 .. MaxPid] /\ r.task[s] = p /\ \A t \in Services \ {s} : r.task[t] = task[t]
    BY <2>1, <2>2, RuntimeTypes
  <2>4. CASE r.entry = Entry("Running", p) /\ r.proc = Spawned(s, p, {s})
    <3>1. r.entry \in EntryRecord /\ r.entry.pid = p /\ r.entry.fails = 0 /\ r.entry # NoEntry
      BY <1>1, <1>2, <2>2, <2>4
    <3>2. /\ r.proc \in [Pids -> ProcRecord]
          /\ r.proc[p] = [of |-> s, state |-> "running", bad |-> 0]
          /\ \A q \in Pids \ {p} : Live(q) => r.proc[q] = proc[q]
          /\ \A q \in Pids \ {p} : Alive(r.proc, q) => Live(q)
          /\ ~Live(p) /\ \A t \in Services : svc[t].pid # p
      BY <2>4, SpawnedFacts
    <3>3. \A t \in Services \ {s} : svc[t].pid \in Pids => r.proc[svc[t].pid] = proc[svc[t].pid]
      BY <2>4, SpawnedKeepsHeld
    <3> QED
      BY <2>1, <2>2, <2>3, <3>1, <3>2, <3>3, RuntimeTypes
  <2>5. CASE r.entry = NoEntry /\ r.proc = Spawned(s, p, {})
    <3>1. /\ r.proc \in [Pids -> ProcRecord]
          /\ r.proc[p] = [of |-> s, state |-> "running", bad |-> 0]
          /\ \A q \in Pids \ {p} : Live(q) => r.proc[q] = proc[q]
          /\ \A q \in Pids \ {p} : Alive(r.proc, q) => Live(q)
          /\ ~Live(p) /\ \A t \in Services : svc[t].pid # p
      BY <2>5, SpawnedFacts
    <3>2. \A t \in Services : svc[t].pid \in Pids => r.proc[svc[t].pid] = proc[svc[t].pid]
      BY <2>5, SpawnedKeepsHeld
    <3> QED
      BY <1>1, <2>1, <2>2, <2>3, <2>5, <3>1, <3>2, RuntimeTypes
  <2> QED
    BY <2>1, <2>4, <2>5
<1> QED
  BY <1>3, <1>4, <1>5, <1>6, StartCases

\* The cases of stop_service of a tracked service, without those of its outcome.
LEMMA StopFacts ==
    ASSUME TypeInv, NEW s \in Services, NEW r \in StopOutcomes(s)
    PROVE  /\ r.proc \in [Pids -> ProcRecord] /\ r.task \in 0 .. MaxPid
           /\ r.kept => s \in container
           /\ \A q \in Pids : r.proc[q].of = proc[q].of /\ r.proc[q].bad = proc[q].bad
           /\ \A q \in Pids : Alive(r.proc, q) => Live(q) /\ r.proc[q] = proc[q]
           /\ Kind[s] = "process" => ~Alive(r.proc, svc[s].pid)
           /\ Kind[s] = "oci" /\ Alive(r.proc, task[s]) => r.task = task[s] /\ (s \in container => r.kept)
<1>1. \A p \in 0 .. MaxPid : 
        LET d == Dead(p, "failed")
        IN /\ d \in [Pids -> ProcRecord] /\ ~Alive(d, p)
           /\ \A q \in Pids : d[q].of = proc[q].of /\ d[q].bad = proc[q].bad
           /\ \A q \in Pids : Alive(d, q) => Live(q) /\ d[q] = proc[q]
  BY RuntimeTypes DEF Dead, Live, Alive, ProcRecord, States
<1>2. /\ task[s] \in 0 .. MaxPid /\ svc[s].pid \in 0 .. MaxPid /\ 0 \in 0 .. MaxPid /\ ~Alive(proc, 0)
      /\ \A q : Alive(proc, q) <=> Live(q)
  BY RuntimeTypes DEF EntryRecord, Alive, Live
<1>3. CASE Kind[s] = "oci"
  <2>1. /\ r.proc \in {proc, Dead(task[s], "failed")} /\ r.task \in {0, task[s]}
        /\ r.kept => s \in container
        /\ r.proc # Dead(task[s], "failed") => r.task = task[s] /\ (s \in container => r.kept)
    <3>1. r \in StopContainer(s)
      BY <1>3 DEF StopOutcomes
    <3> QED
      <4>1. \/ r = [proc |-> Dead(task[s], "failed"), task |-> 0, kept |-> FALSE]
            \/ r = [proc |-> proc, task |-> task[s], kept |-> s \in container]
            \/ r = [proc |-> Dead(task[s], "failed"), task |-> task[s], kept |-> s \in container]
            \/ r = [proc |-> Dead(task[s], "failed"), task |-> 0, kept |-> s \in container]
        BY <3>1 DEF StopContainer
      <4>2. r.kept = FALSE \/ r.kept = (s \in container)
        BY <4>1
      <4>3. r.proc # Dead(task[s], "failed") => r.kept = (s \in container)
        BY <4>1
      <4>4. /\ r.proc \in {proc, Dead(task[s], "failed")} /\ r.task \in {0, task[s]}
            /\ r.proc # Dead(task[s], "failed") => r.task = task[s]
        BY <4>1
      <4> QED
        BY <4>2, <4>3, <4>4
  <2>2. CASE r.proc = Dead(task[s], "failed")
    BY <1>1, <1>2, <1>3, <2>1, <2>2, RuntimeTypes
  <2>3. CASE r.proc = proc /\ r.proc # Dead(task[s], "failed")
    BY <1>2, <1>3, <2>1, <2>3, RuntimeTypes
  <2> QED
    BY <2>1, <2>2, <2>3
<1>4. CASE Kind[s] = "wasm"
  BY <1>2, <1>4, RuntimeTypes DEF StopOutcomes
<1>5. CASE Kind[s] = "process"
  BY <1>1, <1>2, <1>5, RuntimeTypes DEF StopOutcomes
<1> QED
  BY <1>3, <1>4, <1>5, ManifestAssumption
-----------------------------------------------------------------------------
(* The operations of the networks.                                         *)

VethRecord == [exists : BOOLEAN, master : Networks \cup {NoNet}, peerNs : HostNs .. MaxPid]
Namespaces == HostNs .. MaxPid \cup {NoNs}

LEMMA NetworkTypes ==
    ASSUME TypeInv
    PROVE  /\ nets \subseteq Networks /\ bridgeDev \subseteq Networks
           /\ vxlan \in [Networks -> VxlanStates]
           /\ subnetOf \in [Networks -> Nat] /\ hasBridge \in [Networks -> BOOLEAN]
           /\ nextHost \in [Networks -> Nat] /\ nextSubnet \in 0 .. SubnetCount - 1
           /\ conn \in [Networks -> [Services -> Nat]]
           /\ vethOn \in [Networks -> [Services -> BOOLEAN]]
           /\ veth \in [Services -> VethRecord]
           /\ dns \in [Services -> [net : Int, host : Nat]]
  BY DEF TypeInv, LifecycleTypeOK, NetworkTypeOK, VethRecord

NetworkTypesNext ==
    /\ nets' \subseteq Networks /\ bridgeDev' \subseteq Networks
    /\ vxlan' \in [Networks -> VxlanStates]
    /\ subnetOf' \in [Networks -> Nat] /\ hasBridge' \in [Networks -> BOOLEAN]
    /\ nextHost' \in [Networks -> Nat] /\ nextSubnet' \in 0 .. SubnetCount - 1
    /\ conn' \in [Networks -> [Services -> Nat]]
    /\ vethOn' \in [Networks -> [Services -> BOOLEAN]]
    /\ veth' \in [Services -> VethRecord]

\* Attaching a service leaves a veth of the right form; where it succeeded, the
\* far end is in the namespace asked for.
LEMMA AttachmentFacts ==
    ASSUME TypeInv, NEW s \in Services, NEW n \in Networks, NEW ns \in Namespaces,
           NEW a \in NetnsAttachments(s, n, ns)
    PROVE  /\ a.link \in VethRecord /\ a.ok \in BOOLEAN
           /\ a.ok => ns # NoNs /\ a.link = Link(n, ns)
<1> DEFINE added == Link(veth[s].master, veth[s].peerNs)
           onBridge == Link(n, veth[s].peerNs)
           moved == Link(n, ns)
<1>1. \/ a = [link |-> veth[s], ok |-> FALSE]
      \/ a = [link |-> added, ok |-> FALSE]
      \/ a = [link |-> onBridge, ok |-> FALSE]
      \/ a = [link |-> moved, ok |-> FALSE] /\ ns # NoNs
      \/ a = [link |-> moved, ok |-> TRUE] /\ ns # NoNs
  BY DEF NetnsAttachments
<1>2. veth[s] \in VethRecord /\ added \in VethRecord /\ onBridge \in VethRecord
  BY NetworkTypes DEF VethRecord, Link
<1>3. ns # NoNs => moved \in VethRecord
  BY DEF VethRecord, Link, Namespaces
<1>4. a.ok = TRUE \/ a.ok = FALSE
  BY <1>1
<1>5. a.link \in VethRecord
  <2> HIDE DEF added, onBridge, moved
  <2> QED
    BY <1>1, <1>2, <1>3
<1>6. a.ok = TRUE => ns # NoNs /\ a.link = Link(n, ns)
  BY <1>1
<1> QED
  BY <1>4, <1>5, <1>6

\* What connecting a service to a network changes.
LEMMA ConnectFacts ==
    ASSUME TypeInv, NEW s \in Services, NEW n \in Networks, NEW ns \in Namespaces, NEW hasPid,
           ConnectService(s, n, hasPid, ns)
    PROVE  /\ NetworkTypesNext /\ dns' \in [Services -> [net : Int, host : Nat]]
           /\ UNCHANGED <<nets, subnetOf, hasBridge, nextSubnet, bridgeDev, vxlan>>
           /\ \A k \in Networks, t \in Services : k # n \/ t # s =>
                 conn'[k][t] = conn[k][t] /\ vethOn'[k][t] = vethOn[k][t]
           /\ \A k \in Networks \ {n} : nextHost'[k] = nextHost[k]
           /\ \A t \in Services \ {s} : veth'[t] = veth[t] /\ dns'[t] = dns[t]
           /\ \/ conn'[n][s] = conn[n][s] /\ nextHost'[n] = nextHost[n]
              \/ conn[n][s] = 0 /\ conn'[n][s] = nextHost[n] /\ nextHost'[n] = nextHost[n] + 1
           /\ \/ vethOn'[n][s] = vethOn[n][s] /\ veth'[s] = veth[s]
              \/ ~vethOn'[n][s]
              \/ ns # NoNs /\ veth'[s] = Link(n, ns)
           /\ dns'[s] = IF conn'[n][s] # 0 THEN [net |-> subnetOf[n], host |-> conn'[n][s]] ELSE dns[s]
<1>1. UNCHANGED <<nets, subnetOf, hasBridge, nextSubnet, bridgeDev, vxlan>>
  BY DEF ConnectService
<1>2. CASE UNCHANGED <<conn, vethOn, nextHost, veth>>
  BY <1>1, <1>2, NetworkTypes DEF ConnectService, NetworkTypesNext
<1>3. CASE /\ ~(conn[n][s] # 0 \/ nextHost[n] >= HostLimit)
           /\ UNCHANGED <<veth, vethOn>>
  <2>1. /\ nextHost' = [nextHost EXCEPT ![n] = @ + 1] /\ conn' = [conn EXCEPT ![n][s] = nextHost[n]]
        /\ dns' = [dns EXCEPT ![s] = IF conn'[n][s] # 0
                                     THEN [net |-> subnetOf[n], host |-> conn'[n][s]] ELSE @]
    BY <1>3 DEF ConnectService
  <2>2. /\ nextHost' \in [Networks -> Nat] /\ conn' \in [Networks -> [Services -> Nat]]
        /\ \A k \in Networks, t \in Services : k # n \/ t # s => conn'[k][t] = conn[k][t]
        /\ \A k \in Networks \ {n} : nextHost'[k] = nextHost[k]
        /\ conn[n][s] = 0 /\ conn'[n][s] = nextHost[n] /\ nextHost'[n] = nextHost[n] + 1
    BY <1>3, <2>1, NetworkTypes
  <2>3. dns' \in [Services -> [net : Int, host : Nat]] /\ \A t \in Services \ {s} : dns'[t] = dns[t]
    BY <2>1, <2>2, NetworkTypes
  <2> QED
    BY <1>1, <1>3, <2>1, <2>2, <2>3, NetworkTypes DEF NetworkTypesNext
<1>4. CASE /\ ~(conn[n][s] # 0 \/ nextHost[n] >= HostLimit)
           /\ \E a \in NetnsAttachments(s, n, ns) :
                 /\ veth' = [veth EXCEPT ![s] = a.link]
                 /\ vethOn' = [vethOn EXCEPT ![n][s] = a.ok]
  <2>1. PICK a \in NetnsAttachments(s, n, ns) :
                 /\ veth' = [veth EXCEPT ![s] = a.link]
                 /\ vethOn' = [vethOn EXCEPT ![n][s] = a.ok]
    BY <1>4
  <2>2. /\ a.link \in VethRecord /\ a.ok \in BOOLEAN
        /\ a.ok => ns # NoNs /\ a.link = Link(n, ns)
    BY AttachmentFacts
  <2>3. /\ veth' \in [Services -> VethRecord] /\ vethOn' \in [Networks -> [Services -> BOOLEAN]]
        /\ \A t \in Services \ {s} : veth'[t] = veth[t]
        /\ \A k \in Networks, t \in Services : k # n \/ t # s => vethOn'[k][t] = vethOn[k][t]
        /\ vethOn'[n][s] = a.ok /\ veth'[s] = a.link
    BY <2>1, <2>2, NetworkTypes
  <2>4. /\ nextHost' = [nextHost EXCEPT ![n] = @ + 1] /\ conn' = [conn EXCEPT ![n][s] = nextHost[n]]
        /\ dns' = [dns EXCEPT ![s] = IF conn'[n][s] # 0
                                     THEN [net |-> subnetOf[n], host |-> conn'[n][s]] ELSE @]
    BY <1>4 DEF ConnectService
  <2>5. /\ nextHost' \in [Networks -> Nat] /\ conn' \in [Networks -> [Services -> Nat]]
        /\ \A k \in Networks, t \in Services : k # n \/ t # s => conn'[k][t] = conn[k][t]
        /\ \A k \in Networks \ {n} : nextHost'[k] = nextHost[k]
        /\ conn[n][s] = 0 /\ conn'[n][s] = nextHost[n] /\ nextHost'[n] = nextHost[n] + 1
    BY <1>4, <2>4, NetworkTypes
  <2>6. dns' \in [Services -> [net : Int, host : Nat]] /\ \A t \in Services \ {s} : dns'[t] = dns[t]
    BY <2>4, <2>5, NetworkTypes
  <2> QED
    BY <1>1, <2>2, <2>3, <2>4, <2>5, <2>6, NetworkTypes DEF NetworkTypesNext
<1> QED
  BY <1>2, <1>3, <1>4 DEF ConnectService

\* What disconnecting services changes.
LEMMA DisconnectFacts ==
    ASSUME TypeInv, NEW S \in SUBSET Services, DisconnectServices(S)
    PROVE  /\ NetworkTypesNext
           /\ UNCHANGED <<nets, subnetOf, hasBridge, nextHost, nextSubnet, bridgeDev, vxlan, dns>>
           /\ \A n \in Networks, s \in S : conn'[n][s] = 0 /\ ~vethOn'[n][s]
           /\ \A n \in Networks, s \in Services \ S : conn'[n][s] = conn[n][s] /\ vethOn'[n][s] = vethOn[n][s]
           /\ \A s \in Services \ S : veth'[s] = veth[s]
<1>1. NoVeth \in VethRecord
  BY ManifestAssumption DEF NoVeth, VethRecord, HostNs
<1>2. veth' \in [Services -> VethRecord] /\ \A s \in Services \ S : veth'[s] = veth[s]
  <2>1. PICK gone \in Deletions({s \in S : \E n \in nets : vethOn[n][s]}) : veth' = TornDown(gone)
    BY DEF DisconnectServices
  <2>2. gone \subseteq S
    BY <2>1 DEF Deletions
  <2> QED
    BY <1>1, <2>1, <2>2, NetworkTypes DEF TornDown
<1>3. /\ conn' \in [Networks -> [Services -> Nat]] /\ vethOn' \in [Networks -> [Services -> BOOLEAN]]
      /\ \A n \in Networks, s \in S : conn'[n][s] = 0 /\ ~vethOn'[n][s]
      /\ \A n \in Networks, s \in Services \ S : conn'[n][s] = conn[n][s] /\ vethOn'[n][s] = vethOn[n][s]
  <2>1. /\ conn' = [n \in Networks |-> [s \in Services |-> IF s \in S THEN 0 ELSE conn[n][s]]]
        /\ vethOn' = [n \in Networks |-> [s \in Services |-> s \notin S /\ vethOn[n][s]]]
    BY DEF DisconnectServices
  <2>2. \A n \in Networks, s \in Services : vethOn'[n][s] = (s \notin S /\ vethOn[n][s])
    BY <2>1
  <2>3. vethOn' \in [Networks -> [Services -> BOOLEAN]]
    BY <2>1
  <2>4. /\ \A n \in Networks, s \in S : ~vethOn'[n][s]
        /\ \A n \in Networks, s \in Services \ S : vethOn'[n][s] <=> vethOn[n][s]
    BY <2>2, Zenon
  <2>5. /\ conn' \in [Networks -> [Services -> Nat]]
        /\ \A n \in Networks, s \in S : conn'[n][s] = 0
        /\ \A n \in Networks, s \in Services \ S : conn'[n][s] = conn[n][s]
    BY <2>1, NetworkTypes
  <2>6. \A n \in Networks, s \in Services \ S : vethOn'[n][s] = vethOn[n][s]
    BY <2>3, <2>4, NetworkTypes
  <2> QED
    BY <2>3, <2>4, <2>5, <2>6
<1> QED
  BY <1>2, <1>3, NetworkTypes DEF DisconnectServices, NetworkTypesNext

\* The veths whose far end is not in a namespace that is gone stay.
LEMMA NamespacesGoneFacts ==
    ASSUME TypeInv, NEW dead
    PROVE  /\ NamespacesGone(dead) \in [Services -> VethRecord]
           /\ \A s \in Services : veth[s].peerNs \notin dead => NamespacesGone(dead)[s] = veth[s]
  BY ManifestAssumption, NetworkTypes DEF NamespacesGone, NoVeth, VethRecord, HostNs
\* Numbers less than m apart have different remainders.
LEMMA RemaindersDiffer ==
    ASSUME NEW m \in Nat \ {0}, NEW a \in Nat, NEW b \in Nat, a < b, b - a < m
    PROVE  a % m # b % m
<1> DEFINE q(x) == x \div m
<1>1. /\ a = m * q(a) + (a % m) /\ b = m * q(b) + (b % m)
      /\ q(a) \in Int /\ q(b) \in Int /\ a % m \in Int /\ b % m \in Int
  OBVIOUS
<1> HIDE DEF q
<1> SUFFICES ASSUME a % m = b % m PROVE FALSE
  OBVIOUS
<1>2. b - a = m * (q(b) - q(a))
  BY <1>1
<1>3. q(b) - q(a) \in Int /\ q(b) - q(a) > 0
  BY <1>1, <1>2
<1>4. \A d \in Int : d > 0 => m * d >= m
  OBVIOUS
<1> QED
  BY <1>2, <1>3, <1>4

LEMMA InOrder == ASSUME NEW a \in Nat, NEW b \in Nat, a # b PROVE a < b \/ b < a
  OBVIOUS

LEMMA RemainderInRange ==
    ASSUME NEW m \in Nat \ {0}, NEW a \in Nat
    PROVE  a % m \in 0 .. m - 1
  OBVIOUS
\* What creating the networks does, and why their subnets differ.
LEMMA CreateFacts ==
    ASSUME TypeInv, CreateNetworks
    PROVE  /\ NetworkTypesNext /\ nets' = Networks
           /\ nextHost' = [n \in Networks |-> FirstHost]
           /\ \A n \in Networks, s \in Services : conn'[n][s] = 0 /\ ~vethOn'[n][s]
           /\ SubnetsApart => \A n, k \in Networks : subnetOf'[n] = subnetOf'[k] => n = k
           /\ (\A n \in Networks : vxlan[n] \notin {"port", "detached"}) =>
                 \A n \in Networks :
                    vxlan'[n] # "detached" /\ (vxlan'[n] = "port" => hasBridge'[n] /\ n \in bridgeDev')
<1> DEFINE autos == {n \in Networks : Subnet[n] = AutoSubnet}
           count == Cardinality(autos)
<1>1. PICK made \in [Networks -> [dev : BOOLEAN, name : BOOLEAN]],
           vx \in [Networks -> VxlanStates], rank \in [autos -> 0 .. count - 1] :
          /\ \A n, k \in autos : rank[n] = rank[k] => n = k
          /\ \A n \in Networks :
               /\ made[n] \in IF host.rootless THEN RootlessNetwork(n) ELSE LinuxBridge(n)
               /\ vx[n] \in OverlayUplink(n, made[n])
          /\ nets' = Networks
          /\ subnetOf' = [n \in Networks |->
               IF n \in autos THEN (nextSubnet + rank[n]) % SubnetCount ELSE Subnet[n]]
          /\ nextSubnet' = (nextSubnet + count) % SubnetCount
          /\ hasBridge' = [n \in Networks |-> made[n].name]
          /\ nextHost' = [n \in Networks |-> FirstHost]
          /\ conn' = [n \in Networks |-> [s \in Services |-> 0]]
          /\ vethOn' = [n \in Networks |-> [s \in Services |-> FALSE]]
          /\ bridgeDev' = {n \in Networks : made[n].dev}
          /\ vxlan' = vx
          /\ UNCHANGED veth
  BY DEF CreateNetworks
<1>2. count \in Nat
  BY ManifestAssumption, FS_Subset, FS_CardinalityType
<1> HIDE DEF count
<1>3. SubnetCount \in Nat \ {0} /\ nextSubnet \in 0 .. SubnetCount - 1 /\ nextSubnet \in Nat
  BY NetworkAssumption, NetworkTypes
<1>4. \A n \in autos : rank[n] \in 0 .. count - 1 /\ rank[n] \in Nat /\ nextSubnet + rank[n] \in Nat
  BY <1>2, <1>3
<1>5. \A n \in autos : subnetOf'[n] = (nextSubnet + rank[n]) % SubnetCount /\ subnetOf'[n] \in 0 .. SubnetCount - 1
  <2> TAKE n \in autos
  <2>1. (nextSubnet + rank[n]) % SubnetCount \in 0 .. SubnetCount - 1
    BY <1>3, <1>4, RemainderInRange
  <2> QED
    BY <1>1, <2>1
<1>6. \A n \in Networks \ autos : subnetOf'[n] = Subnet[n] /\ Subnet[n] \in Nat /\ Subnet[n] # AutoSubnet
  BY <1>1, ManifestAssumption
<1>7. subnetOf' \in [Networks -> Nat] /\ nextSubnet' \in 0 .. SubnetCount - 1
  <2>1. nextSubnet + count \in Nat
    BY <1>2, <1>3
  <2>2. nextSubnet' \in 0 .. SubnetCount - 1
    BY <1>1, <1>3, <2>1, RemainderInRange
  <2>3. \A n \in Networks : subnetOf'[n] \in Nat
    BY <1>3, <1>5, <1>6
  <2> QED
    BY <1>1, <2>2, <2>3
<1>8. SubnetsApart => \A n, k \in Networks : subnetOf'[n] = subnetOf'[k] => n = k
  <2> SUFFICES ASSUME SubnetsApart, NEW n \in Networks, NEW k \in Networks, n # k
               PROVE  subnetOf'[n] # subnetOf'[k]
    OBVIOUS
  <2>1. count <= SubnetCount
    BY DEF SubnetsApart, count
  <2>2. CASE n \in autos /\ k \in autos
    <3>1. rank[n] # rank[k]
      BY <1>1, <2>2
    <3>2. CASE rank[n] < rank[k]
      <4>1. (nextSubnet + rank[k]) - (nextSubnet + rank[n]) < SubnetCount /\ nextSubnet + rank[n] < nextSubnet + rank[k]
        BY <1>2, <1>3, <1>4, <2>1, <2>2, <3>2
      <4> QED
        BY <1>3, <1>4, <1>5, <2>2, <4>1, RemaindersDiffer
    <3>3. CASE rank[k] < rank[n]
      <4>1. (nextSubnet + rank[n]) - (nextSubnet + rank[k]) < SubnetCount /\ nextSubnet + rank[k] < nextSubnet + rank[n]
        BY <1>2, <1>3, <1>4, <2>1, <2>2, <3>3
      <4> QED
        BY <1>3, <1>4, <1>5, <2>2, <4>1, RemaindersDiffer
    <3>4. rank[n] \in Nat /\ rank[k] \in Nat
      BY <1>4, <2>2
    <3>5. rank[n] < rank[k] \/ rank[k] < rank[n]
      BY <3>1, <3>4, InOrder
    <3> QED
      BY <3>2, <3>3, <3>5
  <2>3. CASE n \notin autos
    BY <1>3, <1>5, <1>6, <2>3 DEF SubnetsApart
  <2>4. CASE k \notin autos
    BY <1>3, <1>5, <1>6, <2>4 DEF SubnetsApart
  <2> QED
    BY <2>2, <2>3, <2>4
<1>9. ASSUME \A n \in Networks : vxlan[n] \notin {"port", "detached"}, NEW n \in Networks
      PROVE  vxlan'[n] # "detached" /\ (vxlan'[n] = "port" => hasBridge'[n] /\ n \in bridgeDev')
  <2>1. vxlan'[n] \in OverlayUplink(n, made[n])
    BY <1>1
  <2>2. vxlan'[n] # "detached" /\ (vxlan'[n] = "port" => made[n].name /\ made[n].dev)
    BY <1>9, <2>1 DEF OverlayUplink
  <2> QED
    BY <1>1, <2>2
<1>10. \A n \in Networks, s \in Services : conn'[n][s] = 0 /\ ~vethOn'[n][s]
  BY <1>1
<1>11. NetworkTypesNext
  <2>1. nextHost' \in [Networks -> Nat] /\ hasBridge' \in [Networks -> BOOLEAN]
    BY <1>1 DEF FirstHost
  <2>2. conn' \in [Networks -> [Services -> Nat]] /\ vethOn' \in [Networks -> [Services -> BOOLEAN]]
    BY <1>1
  <2>3. nets' \subseteq Networks /\ bridgeDev' \subseteq Networks /\ vxlan' \in [Networks -> VxlanStates]
    BY <1>1
  <2> QED
    BY <1>1, <1>7, <2>1, <2>2, <2>3, NetworkTypes DEF NetworkTypesNext
<1> QED
  BY <1>1, <1>8, <1>9, <1>10, <1>11

\* What deleting the networks does.
LEMMA DeleteFacts ==
    ASSUME TypeInv, DeleteNetworks
    PROVE  /\ NetworkTypesNext /\ nets' = {}
           /\ \A n \in Networks, s \in Services : conn'[n][s] = 0 /\ ~vethOn'[n][s]
           /\ nextHost' = nextHost /\ dns' = dns
           /\ ~host.stubborn /\ VxlanInv =>
                 \A n \in Networks : vxlan'[n] \notin {"port", "detached"}
<1>1. NoVeth \in VethRecord
  BY ManifestAssumption DEF NoVeth, VethRecord, HostNs
<1>2. veth' \in [Services -> VethRecord]
  <2>1. PICK gone \in Deletions({s \in Services : \E n \in nets : vethOn[n][s]}) : veth' = TornDown(gone)
    BY DEF DeleteNetworks
  <2> QED
    BY <1>1, <2>1, NetworkTypes DEF TornDown
<1>3. /\ conn' \in [Networks -> [Services -> Nat]] /\ vethOn' \in [Networks -> [Services -> BOOLEAN]]
      /\ hasBridge' \in [Networks -> BOOLEAN]
      /\ \A n \in Networks, s \in Services : conn'[n][s] = 0 /\ ~vethOn'[n][s]
  BY DEF DeleteNetworks
<1>4. PICK ports \in Deletions({n \in Bridged : vxlan[n] = "port"}), bridges \in Deletions(Bridged) :
         /\ bridgeDev' = bridgeDev \ bridges
         /\ vxlan' = [n \in Networks |-> IF n \in ports THEN "none"
                                         ELSE IF n \in bridges /\ vxlan[n] = "port" THEN "detached"
                                         ELSE vxlan[n]]
  BY DEF DeleteNetworks, DeleteBridges
<1>5. bridgeDev' \subseteq Networks /\ vxlan' \in [Networks -> VxlanStates]
  BY <1>4, NetworkTypes DEF VxlanStates
<1>6. ASSUME ~host.stubborn, VxlanInv, NEW n \in Networks PROVE vxlan'[n] \notin {"port", "detached"}
  <2>1. ports = {k \in Bridged : vxlan[k] = "port"}
    BY <1>4, <1>6 DEF Deletions
  <2>2. vxlan[n] # "detached" /\ (vxlan[n] = "port" => n \in Bridged)
    BY <1>6 DEF VxlanInv, Bridged
  <2> QED
    BY <1>4, <2>1, <2>2
<1> QED
  BY <1>2, <1>3, <1>5, <1>6, NetworkTypes DEF DeleteNetworks, NetworkTypesNext
-----------------------------------------------------------------------------
(* The types of the state.                                                 *)

\* The ways a step touches the networks.
Detach(dead) ==
    /\ veth' = NamespacesGone(dead)
    /\ UNCHANGED <<netVars, bridgeDev, vxlan, dns>>

\* The namespace a service is attached in.
NsOf(s) == IF ~Live(svc[s].pid) THEN NoNs ELSE IF Kind[s] = "oci" THEN svc[s].pid ELSE HostNs

LEMMA NsOfType == ASSUME TypeInv, NEW s \in Services PROVE NsOf(s) \in Namespaces
  BY ManifestAssumption, RuntimeTypes DEF NsOf, Namespaces, EntryRecord, HostNs, Live, Pids

LEMMA StopServiceCases ==
    ASSUME TypeInv, NEW s \in Services, StopService(s)
    PROVE  \/ svc[s] = NoEntry /\ UNCHANGED <<runtimeVars, networkVars>>
           \/ /\ svc[s] # NoEntry
              /\ \E r \in StopOutcomes(s) :
                    /\ proc' = r.proc
                    /\ task' = [task EXCEPT ![s] = r.task]
                    /\ container' = IF r.kept THEN container ELSE container \ {s}
                    /\ Detach({p \in Pids : Live(p) /\ r.proc[p] # proc[p]})
              /\ svc' = [svc EXCEPT ![s].status = "Stopped"]
  BY DEF StopService, Detach

LEMMA NetworkStep ==
    ASSUME TypeInv, Next
    PROVE  \/ UNCHANGED networkVars
           \/ UpBegin
           \/ \E n \in netsTodo : cur # Nobody /\ ConnectNext(n)
           \/ \E S \in SUBSET Services : DisconnectServices(S)
           \/ DownEnd /\ DeleteNetworks
           \/ \E dead : Detach(dead)
<1>1. ASSUME NEW s \in Services, StopService(s)
      PROVE  UNCHANGED networkVars \/ \E dead : Detach(dead)
  <2>1. CASE svc[s] = NoEntry
    BY <1>1, <2>1, StopServiceCases
  <2>2. CASE svc[s] # NoEntry
    <3>1. PICK r \in StopOutcomes(s) : Detach({p \in Pids : Live(p) /\ r.proc[p] # proc[p]})
      BY <1>1, <2>2, StopServiceCases
    <3> QED
      BY <3>1
  <2> QED
    BY <2>1, <2>2
<1>2. ASSUME NEW s \in Services, RestartStop(s) \/ DownStop(s)
      PROVE  UNCHANGED networkVars \/ \E dead : Detach(dead)
  BY <1>1, <1>2 DEF RestartStop, DownStop
<1>3. ASSUME NEW p \in Pids, Exit(p) PROVE \E dead : Detach(dead)
  BY <1>3 DEF Exit, Detach
<1>4. ASSUME ReapRefresh
      PROVE  UNCHANGED networkVars \/ \E S \in SUBSET Services : DisconnectServices(S)
  <2>1. \A s \in restarted : {s} \in SUBSET Services
    BY DEF TypeInv, LifecycleTypeOK
  <2> QED
    BY <1>4, <2>1 DEF ReapRefresh
<1>5. ASSUME NEW s \in Services, RestartService(s) PROVE \E S \in SUBSET Services : DisconnectServices(S)
  BY <1>5 DEF RestartService
<1>6. ASSUME DownBegin PROVE \E S \in SUBSET Services : DisconnectServices(S)
  BY <1>6 DEF DownBegin
<1>7. ASSUME DownEnd PROVE DeleteNetworks
  BY <1>7 DEF DownEnd
<1>8. ASSUME NEW n \in Networks, ConnectNext(n) PROVE \E k \in netsTodo : cur # Nobody /\ ConnectNext(k)
  BY <1>8 DEF ConnectNext
<1>9. ASSUME UpDone \/ TickBegin \/ PollAndMirror \/ Attached \/ \E l \in listeners : ListenerCloses(l)
      PROVE  UNCHANGED networkVars
  BY <1>9 DEF UpDone, TickBegin, PollAndMirror, Attached, ListenerCloses
<1>10. ASSUME NEW s \in Services, UpStart(s) \/ ReapOne(s) \/ RestartStart(s) \/ PauseOrUnpause(s) \/ DeleteTask(s)
      PROVE  UNCHANGED networkVars
  BY <1>10 DEF UpStart, ReapOne, RestartStart, PauseOrUnpause, DeleteTask
<1> QED
  BY <1>2, <1>3, <1>4, <1>5, <1>6, <1>7, <1>8, <1>9, <1>10 DEF Next, Supervise

LEMMA NetworkTypesKept == ASSUME TypeInv, [Next]_vars PROVE NetworkTypeOK'
<1>1. NetworkTypesNext /\ dns' \in [Services -> [net : Int, host : Nat]] => NetworkTypeOK'
  BY DEF NetworkTypesNext, NetworkTypeOK, VethRecord
<1>2. CASE UNCHANGED networkVars
  BY <1>2, NetworkTypes DEF networkVars, netVars, devVars, NetworkTypeOK, VethRecord
<1>3. CASE UpBegin
  <2>1. NetworkTypesNext
    BY <1>3, CreateFacts DEF UpBegin
  <2>2. PICK rank \in [Services -> 1 .. Cardinality(Services)] :
           dns' = [s \in Services |-> [net |-> PlaceholderNet,
              host |-> IF health[s] = "none" THEN rank[s] + 1 ELSE Cardinality(Services) + 2]]
    BY <1>3 DEF UpBegin
  <2>3. Cardinality(Services) \in Nat
    BY ManifestAssumption, FS_CardinalityType
  <2>4. dns' \in [Services -> [net : Int, host : Nat]]
    BY <2>2, <2>3 DEF PlaceholderNet
  <2> QED
    BY <1>1, <2>1, <2>4
<1>4. ASSUME NEW n \in netsTodo, cur # Nobody, ConnectNext(n) PROVE NetworkTypeOK'
  <2>1. n \in Networks /\ cur \in Services
    BY <1>4 DEF TypeInv, LifecycleTypeOK
  <2>2. ConnectService(cur, n, svc[cur].pid # 0, NsOf(cur))
    BY <1>4 DEF ConnectNext, NsOf
  <2> QED
    BY <1>1, <2>1, <2>2, ConnectFacts, NsOfType
<1>5. ASSUME NEW S \in SUBSET Services, DisconnectServices(S) PROVE NetworkTypeOK'
  BY <1>1, <1>5, DisconnectFacts, NetworkTypes
<1>6. CASE DeleteNetworks
  BY <1>1, <1>6, DeleteFacts, NetworkTypes
<1>7. ASSUME NEW dead, Detach(dead) PROVE NetworkTypeOK'
  BY <1>7, NamespacesGoneFacts, NetworkTypes DEF Detach, netVars, NetworkTypeOK, VethRecord
<1>8. CASE UNCHANGED vars
  BY <1>2, <1>8 DEF vars
<1> QED
  BY <1>2, <1>3, <1>4, <1>5, <1>6, <1>7, <1>8, NetworkStep
\* The ways a step touches the processes.
Start(s, r) ==
    /\ r \in StartService(s)
    /\ proc' = r.proc /\ task' = r.task /\ container' = r.container
    /\ svc' = [svc EXCEPT ![s] = r.entry] \/ (r.entry = NoEntry /\ svc' = svc)
Stop(s, r) ==
    /\ r \in StopOutcomes(s)
    /\ proc' = r.proc /\ task' = [task EXCEPT ![s] = r.task]
    /\ container' = IF r.kept THEN container ELSE container \ {s}
    /\ svc' = [svc EXCEPT ![s].status = "Stopped"]
GivenUp(s) ==
    /\ svc' = [svc EXCEPT ![s].status = "Failed"]
    /\ UNCHANGED <<proc, task, container>>

LEMMA CheckExitedDead ==
    ASSUME NEW s \in Services, Kind[s] = "process", NEW exit \in CheckExited(s), exit # "no"
    PROVE  ~Live(svc[s].pid)
<1>1. exit \in IF svc[s].pid \in Pids /\ ~Live(svc[s].pid) THEN {proc[svc[s].pid].state} ELSE {"no"}
  BY DEF CheckExited
<1> QED
  BY <1>1

\* A service is started only when its process is gone.
LEMMA RuntimeStep ==
    ASSUME TypeInv, HaltedAreDead, Next
    PROVE  \/ UNCHANGED runtimeVars
           \/ \E s \in Services : (Kind[s] = "process" => ~Live(svc[s].pid)) /\ \E r : Start(s, r)
           \/ \E s \in Services : (RestartStop(s) \/ DownStop(s)) /\ \E r : Stop(s, r)
           \/ \E s \in Services : GivenUp(s)
           \/ PollHealthchecks
           \/ \E s \in Services : PauseService(s) \/ UnpauseService(s)
           \/ \E p \in Pids, how \in {"failed", "succeeded"} : ProcessExits(p, how)
           \/ \E s \in Services : TaskDeleted(s)
<1>1. ASSUME NEW s \in Services, StopService(s)
      PROVE  UNCHANGED runtimeVars \/ \E r : Stop(s, r)
  BY <1>1, StopServiceCases DEF Stop
<1>2. ASSUME NEW s \in Services, RestartStop(s) \/ DownStop(s)
      PROVE  UNCHANGED runtimeVars \/ \E r : Stop(s, r)
  BY <1>1, <1>2 DEF RestartStop, DownStop
<1>3. ASSUME NEW s \in Services, UpStart(s)
      PROVE  (Kind[s] = "process" => ~Live(svc[s].pid)) /\ \E r : Start(s, r)
  <2>1. s \in todo /\ op = "up" /\ s # cur
    BY <1>3, LifecycleAssumption DEF UpStart, InWave
  <2>2. \E r : Start(s, r)
    BY <1>3 DEF UpStart, Start
  <2> QED
    BY <2>1, <2>2 DEF HaltedAreDead, Halted
<1>4. ASSUME NEW s \in Services, RestartStart(s)
      PROVE  (Kind[s] = "process" => ~Live(svc[s].pid)) /\ \E r : Start(s, r)
  <2>1. s \in todo /\ op = "starting"
    BY <1>4 DEF RestartStart
  <2>2. \E r : Start(s, r)
    BY <1>4 DEF RestartStart, Start
  <2> QED
    BY <2>1, <2>2 DEF HaltedAreDead, Halted
<1>5. ASSUME NEW s \in Services, ReapOne(s)
      PROVE  \/ UNCHANGED runtimeVars
             \/ GivenUp(s)
             \/ (Kind[s] = "process" => ~Live(svc[s].pid)) /\ \E r : Start(s, r)
  <2>1. PICK exit \in CheckExited(s) :
           \/ exit = "no" /\ UNCHANGED runtimeVars
           \/ exit # "no" /\ GivenUp(s)
           \/ exit # "no" /\ \E r : Start(s, r)
    BY <1>5 DEF ReapOne, GivenUp, Start
  <2> QED
    BY <2>1, CheckExitedDead
<1>6. ASSUME NEW s \in Services, PauseOrUnpause(s) PROVE PauseService(s) \/ UnpauseService(s)
  BY <1>6 DEF PauseOrUnpause
<1>7. ASSUME NEW p \in Pids, Exit(p) PROVE \E how \in {"failed", "succeeded"} : ProcessExits(p, how)
  BY <1>7 DEF Exit
<1>8. ASSUME NEW s \in Services, DeleteTask(s) PROVE TaskDeleted(s)
  BY <1>8 DEF DeleteTask
<1>9. ASSUME PollAndMirror PROVE PollHealthchecks
  BY <1>9 DEF PollAndMirror
<1>10. ASSUME \/ UpBegin \/ UpDone \/ TickBegin \/ ReapRefresh \/ Attached \/ DownBegin \/ DownEnd
              \/ \E n \in Networks : ConnectNext(n)
              \/ \E s \in Services : RestartService(s)
              \/ \E l \in listeners : ListenerCloses(l)
       PROVE  UNCHANGED runtimeVars
  BY <1>10 DEF UpBegin, UpDone, TickBegin, ReapRefresh, Attached, DownBegin, DownEnd, ConnectNext,
               RestartService, ListenerCloses
<1> QED
  BY <1>2, <1>3, <1>4, <1>5, <1>6, <1>7, <1>8, <1>9, <1>10 DEF Next, Supervise

\* What each of them changes.
LEMMA StartChanges ==
    ASSUME TypeInv, NEW s \in Services, NEW r, Start(s, r)
    PROVE  /\ svc' \in [Services -> EntryRecord] /\ proc' \in [Pids -> ProcRecord]
           /\ task' \in [Services -> 0 .. MaxPid] /\ container' \subseteq Services
           /\ \A t \in Services \ {s} : svc'[t] = svc[t] /\ task'[t] = task[t]
           /\ svc'[s] = r.entry \/ (r.entry = NoEntry /\ svc' = svc)
  BY StartFacts, RuntimeTypes DEF Start

LEMMA StopChanges ==
    ASSUME TypeInv, NEW s \in Services, NEW r, Stop(s, r)
    PROVE  /\ svc' \in [Services -> EntryRecord] /\ proc' \in [Pids -> ProcRecord]
           /\ task' \in [Services -> 0 .. MaxPid] /\ container' \subseteq Services
           /\ \A t \in Services : svc'[t].pid = svc[t].pid /\ svc'[t].fails = svc[t].fails
           /\ svc'[s].status # "none" /\ \A t \in Services \ {s} : svc'[t] = svc[t]
           /\ \A t \in Services \ {s} : task'[t] = task[t]
           /\ task'[s] = r.task
<1>1. /\ svc' \in [Services -> EntryRecord]
      /\ \A t \in Services : svc'[t].pid = svc[t].pid /\ svc'[t].fails = svc[t].fails
      /\ svc'[s].status # "none" /\ \A t \in Services \ {s} : svc'[t] = svc[t]
  BY RuntimeTypes DEF Stop, EntryRecord, Statuses
<1>2. r.proc \in [Pids -> ProcRecord] /\ r.task \in 0 .. MaxPid
  BY StopFacts DEF Stop
<1> QED
  BY <1>1, <1>2, RuntimeTypes DEF Stop

LEMMA GivenUpChanges ==
    ASSUME TypeInv, NEW s \in Services, GivenUp(s)
    PROVE  /\ svc' \in [Services -> EntryRecord]
           /\ \A t \in Services : svc'[t].pid = svc[t].pid /\ svc'[t].fails = svc[t].fails
           /\ svc'[s].status # "none" /\ \A t \in Services \ {s} : svc'[t] = svc[t]
  BY RuntimeTypes DEF GivenUp, EntryRecord, Statuses

LEMMA PauseChanges ==
    ASSUME TypeInv, NEW s \in Services, PauseService(s) \/ UnpauseService(s)
    PROVE  /\ svc' \in [Services -> EntryRecord] /\ proc' \in [Pids -> ProcRecord]
           /\ task' = task /\ container' = container
           /\ \A t \in Services : svc'[t].pid = svc[t].pid /\ svc'[t].fails = svc[t].fails
           /\ svc'[s].status # "none" /\ \A t \in Services \ {s} : svc'[t] = svc[t]
           /\ \A p \in Pids : proc'[p].of = proc[p].of /\ proc'[p].bad = proc[p].bad
           /\ \A p \in Pids : Alive(proc', p) <=> Live(p)
<1>1. PICK from, to \in {"running", "frozen"}, status \in {"Paused", "Running"} : Pause(s, from, to, status)
  BY DEF PauseService, UnpauseService
<1>2. /\ svc' \in [Services -> EntryRecord]
      /\ \A t \in Services : svc'[t].pid = svc[t].pid /\ svc'[t].fails = svc[t].fails
      /\ svc'[s].status # "none" /\ \A t \in Services \ {s} : svc'[t] = svc[t]
  BY <1>1, RuntimeTypes DEF Pause, EntryRecord, Statuses
<1>3. \/ proc' = proc
      \/ \E p \in Pids : proc[p].state = from /\ proc' = [proc EXCEPT ![p].state = to]
  BY <1>1 DEF Pause
<1>4. /\ proc' \in [Pids -> ProcRecord]
      /\ \A p \in Pids : proc'[p].of = proc[p].of /\ proc'[p].bad = proc[p].bad
      /\ \A p \in Pids : Alive(proc', p) <=> Live(p)
  BY <1>3, RuntimeTypes DEF Alive, Live, ProcRecord, States
<1> QED
  BY <1>1, <1>2, <1>4 DEF Pause

LEMMA ExitChanges ==
    ASSUME TypeInv, NEW p \in Pids, NEW how \in {"failed", "succeeded"}, ProcessExits(p, how)
    PROVE  /\ UNCHANGED <<svc, task, container>> /\ proc' \in [Pids -> ProcRecord]
           /\ \A q \in Pids : proc'[q].of = proc[q].of /\ proc'[q].bad = proc[q].bad
           /\ \A q \in Pids : Alive(proc', q) <=> Live(q) /\ q # p
  BY RuntimeTypes DEF ProcessExits, Alive, Live, ProcRecord, States

\* A probe that fails is counted against the entry and its process alike.
LEMMA PollChanges ==
    ASSUME TypeInv, PollHealthchecks
    PROVE  /\ svc' \in [Services -> EntryRecord] /\ proc' \in [Pids -> ProcRecord]
           /\ task' = task /\ container' = container
           /\ \A s \in Services : svc'[s].pid = svc[s].pid
           /\ \A p \in Pids : proc'[p].of = proc[p].of /\ proc'[p].state = proc[p].state
           /\ BlameInv => BlameInv'
           /\ \A s \in Services \ Tracked : svc'[s] = svc[s]
           /\ EntriesInv => \A s \in Tracked : svc'[s].status # "none"
<1>1. PICK due \in SUBSET {s \in Tracked \cap Probed : ~host.quiet} : \E probes \in [due -> BOOLEAN] :
        /\ \A s \in due : ~probes[s] => svc[s].fails < MaxFails
        /\ svc' = [s \in Services |-> IF s \in due THEN Probe(s, probes[s]) ELSE svc[s]]
        /\ proc' = Blamed(probes)
        /\ UNCHANGED <<task, container>>
  BY DEF PollHealthchecks
<1>2. PICK probes \in [due -> BOOLEAN] :
        /\ \A s \in due : ~probes[s] => svc[s].fails < MaxFails
        /\ svc' = [s \in Services |-> IF s \in due THEN Probe(s, probes[s]) ELSE svc[s]]
        /\ proc' = Blamed(probes)
        /\ UNCHANGED <<task, container>>
  BY <1>1
<1>3. \A p \in Pids : proc'[p] = IF \E s \in due : svc[s].pid = p /\ ~probes[s] /\ proc[p].bad < MaxFails
                               THEN [proc[p] EXCEPT !.bad = @ + 1] ELSE proc[p]
  BY <1>2 DEF Blamed
<1>4. \A s \in due : /\ Probe(s, probes[s]) \in EntryRecord /\ Probe(s, probes[s]).pid = svc[s].pid
                    /\ Probe(s, probes[s]).fails = IF probes[s] THEN 0 ELSE svc[s].fails + 1
  <2> SUFFICES ASSUME NEW s \in due
               PROVE  /\ Probe(s, probes[s]) \in EntryRecord /\ Probe(s, probes[s]).pid = svc[s].pid
                      /\ Probe(s, probes[s]).fails = IF probes[s] THEN 0 ELSE svc[s].fails + 1
    OBVIOUS
  <2>1. s \in Services /\ svc[s] \in EntryRecord
    BY RuntimeTypes DEF Tracked
  <2>2. CASE probes[s]
    BY <2>1, <2>2, RuntimeTypes DEF Probe, EntryRecord, Statuses
  <2>3. CASE ~probes[s]
    <3>1. svc[s].fails + 1 \in 0 .. MaxFails
      BY <1>2, <2>1, <2>3, RuntimeAssumption DEF EntryRecord
    <3> QED
      BY <2>1, <2>3, <3>1 DEF Probe, EntryRecord, Statuses
  <2> QED
    BY <2>2, <2>3
<1>5. /\ svc' \in [Services -> EntryRecord]
      /\ \A s \in Services : svc'[s].pid = svc[s].pid
      /\ \A s \in Services \ due : svc'[s] = svc[s]
      /\ \A s \in due : svc'[s].fails = IF probes[s] THEN 0 ELSE svc[s].fails + 1
  <2>1. \A s \in Services : svc'[s] = IF s \in due THEN Probe(s, probes[s]) ELSE svc[s]
    BY <1>2
  <2>2. \A s \in Services : svc'[s] \in EntryRecord
    BY <1>4, <2>1, RuntimeTypes
  <2>3. svc' = [s \in Services |-> svc'[s]]
    BY <1>2
  <2>4. due \subseteq Services
    BY DEF Tracked
  <2> QED
    BY <1>4, <2>1, <2>2, <2>3, <2>4
<1>6. ASSUME NEW p \in Pids
      PROVE  /\ proc'[p] \in ProcRecord
             /\ proc'[p].of = proc[p].of /\ proc'[p].state = proc[p].state /\ proc'[p].bad >= proc[p].bad
             /\ (\E s \in due : svc[s].pid = p /\ ~probes[s] /\ proc[p].bad < MaxFails)
                  => proc'[p].bad = proc[p].bad + 1
  <2>1. proc[p] \in ProcRecord
    BY RuntimeTypes
  <2>2. proc[p].bad < MaxFails => proc[p].bad + 1 \in 0 .. MaxFails
    BY <2>1, RuntimeAssumption DEF ProcRecord
  <2>3. CASE \E s \in due : svc[s].pid = p /\ ~probes[s] /\ proc[p].bad < MaxFails
    <3>1. proc'[p] = [proc[p] EXCEPT !.bad = @ + 1]
      BY <1>3, <2>3
    <3>2. proc'[p] = [of |-> proc[p].of, bad |-> proc[p].bad + 1, state |-> proc[p].state]
      BY <2>1, <3>1 DEF ProcRecord
    <3> QED
      BY <2>1, <2>2, <2>3, <3>2 DEF ProcRecord
  <2>4. CASE ~(\E s \in due : svc[s].pid = p /\ ~probes[s] /\ proc[p].bad < MaxFails)
    <3>1. proc'[p] = proc[p]
      BY <1>3, <2>4
    <3>2. proc[p].bad \in Int
      BY <2>1, RuntimeAssumption DEF ProcRecord
    <3> QED
      BY <2>1, <2>4, <3>1, <3>2
  <2> QED
    BY <2>3, <2>4
<1>7. proc' \in [Pids -> ProcRecord]
  BY <1>2, <1>6 DEF Blamed
<1>8. ASSUME BlameInv PROVE BlameInv'
  <2> SUFFICES ASSUME NEW s \in Services, svc'[s].pid # 0 PROVE svc'[s].fails <= proc'[svc'[s].pid].bad
    BY DEF BlameInv
  <2> DEFINE p == svc[s].pid
  <2>1. p \in Pids /\ svc'[s].pid = p /\ svc[s].fails <= proc[p].bad
    BY <1>5, <1>8, RuntimeTypes DEF BlameInv, EntryRecord, Pids
  <2>2. svc[s].fails \in 0 .. MaxFails /\ proc[p].bad \in 0 .. MaxFails /\ proc'[p].bad \in 0 .. MaxFails
    BY <1>6, <2>1, RuntimeTypes DEF EntryRecord, ProcRecord
  <2>3. CASE s \in due /\ ~probes[s]
    <3>1. svc'[s].fails = svc[s].fails + 1 /\ svc[s].fails < MaxFails
      BY <1>2, <1>5, <2>3
    <3>2. proc[p].bad < MaxFails => proc'[p].bad = proc[p].bad + 1
      BY <1>6, <2>1, <2>3
    <3>3. proc'[p].bad >= proc[p].bad
      BY <1>6, <2>1
    <3> QED
      BY <2>1, <2>2, <3>1, <3>2, <3>3, RuntimeAssumption
  <2>4. CASE ~(s \in due /\ ~probes[s])
    BY <1>5, <1>6, <2>1, <2>2, <2>4
  <2> QED
    BY <2>3, <2>4
<1>9. \A s \in Services \ Tracked : svc'[s] = svc[s]
  BY <1>5
<1>10. ASSUME EntriesInv, NEW s \in Tracked PROVE svc'[s].status # "none"
  <2>1. s \in Services /\ svc[s].status # "none"
    BY <1>10 DEF EntriesInv, Tracked
  <2>2. CASE s \in due
    <3>1. svc'[s] = Probe(s, probes[s])
      BY <1>2, <2>1, <2>2
    <3> QED
      BY <2>1, <3>1 DEF Probe
  <2>3. CASE s \notin due
    BY <1>5, <2>1, <2>3
  <2> QED
    BY <2>2, <2>3
<1> QED
  BY <1>2, <1>5, <1>6, <1>7, <1>8, <1>9, <1>10

LEMMA RuntimeTypesKept ==
    ASSUME TypeInv, HaltedAreDead, [Next]_vars
    PROVE  RuntimeTypeOK'
<1>1. (/\ svc' \in [Services -> EntryRecord] /\ proc' \in [Pids -> ProcRecord]
       /\ task' \in [Services -> 0 .. MaxPid] /\ container' \subseteq Services) => RuntimeTypeOK'
  BY DEF RuntimeTypeOK, EntryRecord, ProcRecord, States
<1>2. CASE UNCHANGED runtimeVars
  BY <1>1, <1>2, RuntimeTypes DEF runtimeVars
<1>3. ASSUME NEW s \in Services, NEW r, Start(s, r) PROVE RuntimeTypeOK'
  BY <1>1, <1>3, StartChanges
<1>4. ASSUME NEW s \in Services, NEW r, Stop(s, r) PROVE RuntimeTypeOK'
  BY <1>1, <1>4, StopChanges
<1>5. ASSUME NEW s \in Services, GivenUp(s) PROVE RuntimeTypeOK'
  BY <1>1, <1>5, GivenUpChanges, RuntimeTypes DEF GivenUp
<1>6. CASE PollHealthchecks
  BY <1>1, <1>6, PollChanges, RuntimeTypes
<1>7. ASSUME NEW s \in Services, PauseService(s) \/ UnpauseService(s) PROVE RuntimeTypeOK'
  BY <1>1, <1>7, PauseChanges, RuntimeTypes
<1>8. ASSUME NEW p \in Pids, NEW how \in {"failed", "succeeded"}, ProcessExits(p, how) PROVE RuntimeTypeOK'
  BY <1>1, <1>8, ExitChanges, RuntimeTypes
<1>9. ASSUME NEW s \in Services, TaskDeleted(s) PROVE RuntimeTypeOK'
  BY <1>1, <1>9, RuntimeTypes DEF TaskDeleted
<1>10. CASE UNCHANGED vars
  BY <1>2, <1>10 DEF vars
<1> QED
  BY <1>2, <1>3, <1>4, <1>5, <1>6, <1>7, <1>8, <1>9, <1>10, RuntimeStep
LifeTypeOK ==
    /\ op \in {"new", "up", "idle", "reap", "refresh", "poll", "restart", "starting", "down",
               "failed", "stopped"}
    /\ todo \subseteq Services /\ restarted \subseteq Services /\ netsTodo \subseteq Networks
    /\ cur \in Services \cup {Nobody}
    /\ health \in [Services -> Statuses \cup {"none"}]
    /\ ups \in 0 .. MaxUps

LEMMA LifeTypes == TypeInv => LifeTypeOK
  BY DEF TypeInv, LifecycleTypeOK, LifeTypeOK

LEMMA LifeTypesKept ==
    ASSUME TypeInv, HaltedAreDead, [Next]_vars, svc' \in [Services -> EntryRecord]
    PROVE  LifeTypeOK'
<1> USE LifeTypes DEF LifeTypeOK
<1>1. Tracked \subseteq Services /\ Nobody \in Services \cup {Nobody}
      /\ {"Running", "Paused", "Starting"} \subseteq Statuses
  BY DEF Tracked, Statuses
<1>2. CASE UNCHANGED lifeVars /\ ups' = ups
  BY <1>2 DEF lifeVars
<1>3. ASSUME UpBegin PROVE LifeTypeOK'
  <2>1. ups' \in 0 .. MaxUps
    BY <1>3, LifecycleAssumption DEF UpBegin
  <2>2. health' \in [Services -> Statuses \cup {"none"}]
    BY <1>1, <1>3 DEF UpBegin
  <2> QED
    BY <1>3, <2>1, <2>2 DEF UpBegin
<1>4. ASSUME NEW s \in Services, UpStart(s) \/ RestartStart(s) PROVE LifeTypeOK'
  BY <1>1, <1>4 DEF UpStart, RestartStart
<1>5. ASSUME UpDone \/ TickBegin \/ Attached \/ DownEnd PROVE LifeTypeOK'
  BY <1>1, <1>5 DEF UpDone, TickBegin, Attached, DownEnd
<1>6. ASSUME NEW n \in Networks, ConnectNext(n) PROVE LifeTypeOK'
  BY <1>6 DEF ConnectNext
<1>7. ASSUME NEW s \in Services, ReapOne(s) PROVE LifeTypeOK'
  BY <1>7 DEF ReapOne
<1>8. ASSUME ReapRefresh PROVE LifeTypeOK'
  BY <1>1, <1>8 DEF ReapRefresh
<1>9. ASSUME PollAndMirror PROVE LifeTypeOK'
  <2>1. \A s \in Services : svc'[s].status \in Statuses \cup {"none"}
    BY DEF EntryRecord
  <2>2. health' \in [Services -> Statuses \cup {"none"}]
    BY <1>9, <2>1 DEF PollAndMirror
  <2> QED
    BY <1>9, <2>2 DEF PollAndMirror
<1>10. ASSUME NEW s \in Services, RestartService(s) \/ RestartStop(s) \/ DownStop(s) PROVE LifeTypeOK'
  BY <1>10 DEF RestartService, RestartStop, DownStop
<1>11. ASSUME NEW s \in Services, PauseOrUnpause(s) PROVE LifeTypeOK'
  BY <1>1, <1>11 DEF PauseOrUnpause
<1>12. ASSUME DownBegin PROVE LifeTypeOK'
  BY <1>1, <1>12 DEF DownBegin
<1>13. ASSUME \/ \E p \in Pids : Exit(p)
              \/ \E s \in Services : DeleteTask(s)
              \/ \E l \in listeners : ListenerCloses(l)
       PROVE  UNCHANGED lifeVars /\ ups' = ups
  BY <1>13 DEF Exit, DeleteTask, ListenerCloses
<1>14. CASE UNCHANGED vars
  BY <1>2, <1>14 DEF vars
<1> QED
  BY <1>2, <1>3, <1>4, <1>5, <1>6, <1>7, <1>8, <1>9, <1>10, <1>11, <1>12, <1>13, <1>14 DEF Next, Supervise

\* The listening sockets and the table of the port mapper.
PortsTypeOK ==
    /\ proxies \subseteq {q \in Services \X Nat : q[2] \in HostPorts[q[1]]}
    /\ \A l \in listeners : l.svc \in Services /\ l.port \in HostPorts[l.svc] /\ l.fam \in {4, 6} /\ l.aborted \in BOOLEAN
    /\ listeners \subseteq Listener

LEMMA PortsTypes == TypeInv => PortsTypeOK
  BY DEF TypeInv, LifecycleTypeOK, PortsTypeOK

\* Aborting keeps what a listener listens to and where it leads.
LEMMA AbortedFacts ==
    ASSUME TypeInv, NEW S \in SUBSET Services, NEW l \in Aborted(S)
    PROVE  /\ l \in Listener /\ l.port \in HostPorts[l.svc]
           /\ \E k \in listeners :
                 /\ l.svc = k.svc /\ l.port = k.port /\ l.fam = k.fam /\ l.target = k.target
                 /\ k.aborted => l.aborted
                 /\ l.fam = 4 /\ l.svc \in S /\ <<l.svc, l.port>> \in proxies => l.aborted
<1>1. PICK k \in listeners :
        l = [k EXCEPT !.aborted = @ \/ (k.fam = 4 /\ k.svc \in S /\ <<k.svc, k.port>> \in proxies)]
  BY DEF Aborted
<1>2. k \in Listener /\ k.port \in HostPorts[k.svc]
  BY PortsTypes DEF PortsTypeOK
<1>3. l = [svc |-> k.svc, port |-> k.port, fam |-> k.fam, target |-> k.target,
           aborted |-> k.aborted \/ (k.fam = 4 /\ k.svc \in S /\ <<k.svc, k.port>> \in proxies)]
  BY <1>1, <1>2 DEF Listener
<1> QED
  BY <1>2, <1>3 DEF Listener
\* What publishing the ports of a service does: its own listeners that are not
\* aborted are new ones, the others are as they were.
Published(s, target) ==
    /\ PortsTypeOK'
    /\ \A l \in listeners' :
          \/ l.svc = s /\ l.target = target
          \/ l.svc = s /\ l.fam = 4 /\ <<s, l.port>> \notin proxies'
          \/ l.fam # 4 \/ l.aborted
          \/ /\ l.svc # s
             /\ \E k \in listeners :
                   /\ l.svc = k.svc /\ l.port = k.port /\ l.fam = k.fam
                   /\ l.target = k.target /\ ~k.aborted
    /\ \A q \in proxies' : q[1] = s \/ q \in proxies

LEMMA ApplyPortsFacts ==
    ASSUME TypeInv, NEW s \in Services, NEW target \in [net : Int, host : Nat], ApplyPorts(s, target)
    PROVE  Published(s, target)
<1> DEFINE new(port, fam) == [svc |-> s, port |-> port, fam |-> fam, target |-> target, aborted |-> FALSE]
<1>1. PICK closed \in SUBSET {l \in Aborted({s}) : l.aborted} :
          LET old == Aborted({s}) \ closed
              got == {p \in HostPorts[s] : ~Bound(p, 4, old)}
              got6 == {p \in got : host.v6only /\ ~Bound(p, 6, old)}
          IN  /\ listeners' = old \cup {new(p, 4) : p \in got} \cup {new(p, 6) : p \in got6}
              /\ proxies' = {q \in proxies : q[1] # s} \cup {<<s, p>> : p \in got}
  BY DEF ApplyPorts
<1> DEFINE old == Aborted({s}) \ closed
           got == {p \in HostPorts[s] : ~Bound(p, 4, old)}
           got6 == {p \in got : host.v6only /\ ~Bound(p, 6, old)}
<1>2. /\ listeners' = old \cup {new(p, 4) : p \in got} \cup {new(p, 6) : p \in got6}
      /\ proxies' = {q \in proxies : q[1] # s} \cup {<<s, p>> : p \in got}
  BY <1>1
<1>3. HostPorts[s] \subseteq Nat /\ {s} \in SUBSET Services
  BY ManifestAssumption
<1>4. \A l \in old : /\ l \in Listener /\ l.port \in HostPorts[l.svc]
                    /\ \E k \in listeners :
                          /\ l.svc = k.svc /\ l.port = k.port /\ l.fam = k.fam
                          /\ l.target = k.target /\ (k.aborted => l.aborted)
  <2> TAKE l \in old
  <2>1. l \in Aborted({s})
    OBVIOUS
  <2> HIDE DEF old
  <2>3. l \in Listener /\ l.port \in HostPorts[l.svc]
    BY <1>3, <2>1, AbortedFacts
  <2>4. PICK k \in listeners :
           /\ l.svc = k.svc /\ l.port = k.port /\ l.fam = k.fam /\ l.target = k.target
           /\ k.aborted => l.aborted
           /\ l.fam = 4 /\ l.svc \in {s} /\ <<l.svc, l.port>> \in proxies => l.aborted
    BY <1>3, <2>1, AbortedFacts
  <2> QED
    BY <2>3, <2>4
<1>5. \A p \in got : p \in HostPorts[s] /\ p \in Nat /\ \A l \in old : ~(l.port = p /\ l.fam = 4)
  BY <1>3 DEF Bound
<1>6. \A p \in Nat, fam \in {4, 6} : new(p, fam) \in Listener
  BY DEF Listener
<1> HIDE DEF old, got, got6
<1>7. got6 \subseteq got
  BY DEF got6
<1>8. \A l \in listeners' : \/ l \in old
                         \/ \E p \in got, fam \in {4, 6} : l = new(p, fam)
  BY <1>2, <1>7
<1>9. \A l \in listeners' : l \in Listener /\ l.port \in HostPorts[l.svc]
  <2> TAKE l \in listeners'
  <2>1. CASE l \in old
    BY <1>4, <2>1
  <2>2. CASE \E p \in got, fam \in {4, 6} : l = new(p, fam)
    <3>1. PICK p \in got, fam \in {4, 6} : l = new(p, fam)
      BY <2>2
    <3>2. p \in HostPorts[s] /\ p \in Nat
      BY <1>5
    <3>3. l \in Listener
      BY <1>6, <3>1, <3>2
    <3> QED
      BY <3>1, <3>2, <3>3
  <2> QED
    BY <1>8, <2>1, <2>2
<1>10. proxies' \subseteq {q \in Services \X Nat : q[2] \in HostPorts[q[1]]}
  BY <1>2, <1>5, PortsTypes DEF PortsTypeOK
<1>11. PortsTypeOK'
  BY <1>9, <1>10 DEF PortsTypeOK, Listener
<1>12. \A q \in proxies' : q[1] = s \/ q \in proxies
  BY <1>2
<1>13. ASSUME NEW l \in listeners'
       PROVE  \/ l.svc = s /\ l.target = target
              \/ l.svc = s /\ l.fam = 4 /\ <<s, l.port>> \notin proxies'
              \/ l.fam # 4 \/ l.aborted
              \/ /\ l.svc # s
                 /\ \E k \in listeners :
                       /\ l.svc = k.svc /\ l.port = k.port /\ l.fam = k.fam
                       /\ l.target = k.target /\ ~k.aborted
  <2>1. CASE \E p \in got, fam \in {4, 6} : l = new(p, fam)
    BY <2>1
  <2>2. CASE l \in old /\ l.svc # s
    BY <1>4, <2>2
  <2>3. CASE l \in old /\ l.svc = s /\ l.fam = 4
    <3>1. l.port \notin got
      BY <1>5, <2>3
    <3>2. <<s, l.port>> \notin proxies'
      BY <1>2, <3>1
    <3> QED
      BY <2>3, <3>2
  <2> QED
    BY <1>8, <2>1, <2>2, <2>3
<1> QED
  BY <1>11, <1>12, <1>13 DEF Published

LEMMA StopPortsFacts ==
    ASSUME TypeInv, NEW s \in Services, StopPorts(s)
    PROVE  /\ PortsTypeOK'
           /\ \A l \in listeners' : \E k \in listeners :
                 l.svc = k.svc /\ l.port = k.port /\ l.fam = k.fam /\ l.target = k.target /\ (k.aborted => l.aborted)
           /\ proxies' = {q \in proxies : q[1] # s}
<1>1. \A l \in listeners' : /\ l \in Listener /\ l.port \in HostPorts[l.svc]
                         /\ \E k \in listeners :
                               l.svc = k.svc /\ l.port = k.port /\ l.fam = k.fam /\ l.target = k.target /\ (k.aborted => l.aborted)
  <2>1. {s} \in SUBSET Services
    OBVIOUS
  <2> TAKE l \in listeners'
  <2>2. l \in Aborted({s})
    BY DEF StopPorts
  <2>3. l \in Listener /\ l.port \in HostPorts[l.svc]
    BY <2>1, <2>2, AbortedFacts
  <2>4. PICK k \in listeners :
           /\ l.svc = k.svc /\ l.port = k.port /\ l.fam = k.fam /\ l.target = k.target
           /\ k.aborted => l.aborted
           /\ l.fam = 4 /\ l.svc \in {s} /\ <<l.svc, l.port>> \in proxies => l.aborted
    BY <2>1, <2>2, AbortedFacts
  <2> QED
    BY <2>3, <2>4
<1>2. proxies' = {q \in proxies : q[1] # s}
  BY DEF StopPorts
<1>3. PortsTypeOK'
  BY <1>1, <1>2, PortsTypes DEF PortsTypeOK, Listener
<1> QED
  BY <1>1, <1>2, <1>3

LEMMA TargetType == ASSUME TypeInv, NEW s \in Services PROVE Target(s) \in [net : Int, host : Nat]
<1>1. Networks # {} => FirstNet \in Networks
  BY DEF FirstNet
<1> QED
  BY <1>1, NetworkTypes DEF Target, Assigned, Localhost, NoAddr

\* The ways a step touches the port mapper.
LEMMA PortsStep ==
    ASSUME TypeInv, Next
    PROVE  \/ UNCHANGED portVars
           \/ Attached /\ ApplyPorts(cur, Target(cur))
           \/ \E s \in Services : RestartService(s)
           \/ DownBegin
           \/ \E l \in listeners : ListenerCloses(l)
<1>1. ASSUME NEW s \in Services,
             UpStart(s) \/ ReapOne(s) \/ RestartStop(s) \/ RestartStart(s) \/ DownStop(s) \/ PauseOrUnpause(s) \/ DeleteTask(s)
      PROVE  UNCHANGED portVars
  BY <1>1 DEF UpStart, ReapOne, RestartStop, RestartStart, DownStop, PauseOrUnpause, DeleteTask
<1>2. ASSUME \/ UpBegin \/ UpDone \/ TickBegin \/ ReapRefresh \/ PollAndMirror \/ DownEnd
             \/ \E n \in Networks : ConnectNext(n)
             \/ \E p \in Pids : Exit(p)
      PROVE  UNCHANGED portVars
  BY <1>2 DEF UpBegin, UpDone, TickBegin, ReapRefresh, PollAndMirror, DownEnd, ConnectNext, Exit
<1>3. ASSUME Attached PROVE UNCHANGED portVars \/ ApplyPorts(cur, Target(cur))
  BY <1>3 DEF Attached
<1> QED
  BY <1>1, <1>2, <1>3 DEF Next, Supervise

LEMMA PortsTypesKept == ASSUME TypeInv, [Next]_vars PROVE PortsTypeOK'
<1>1. CASE UNCHANGED portVars
  BY <1>1, PortsTypes DEF portVars, PortsTypeOK
<1>2. ASSUME Attached, ApplyPorts(cur, Target(cur)) PROVE PortsTypeOK'
  <2>1. cur \in Services
    BY <1>2, LifeTypes DEF LifeTypeOK, Attached
  <2> QED
    BY <1>2, <2>1, TargetType, ApplyPortsFacts DEF Published
<1>3. ASSUME NEW s \in Services, RestartService(s) PROVE PortsTypeOK'
  BY <1>3, StopPortsFacts DEF RestartService
<1>4. CASE DownBegin
  BY <1>4, PortsTypes DEF DownBegin, StopAllPorts, PortsTypeOK
<1>5. ASSUME NEW l \in listeners, ListenerCloses(l) PROVE PortsTypeOK'
  BY <1>5, PortsTypes DEF ListenerCloses, PortsTypeOK
<1>6. CASE UNCHANGED vars
  BY <1>1, <1>6 DEF vars
<1> QED
  BY <1>1, <1>2, <1>3, <1>4, <1>5, <1>6, PortsStep

LEMMA TypesKept ==
    ASSUME TypeInv, HaltedAreDead, [Next]_vars
    PROVE  TypeInv'
<1>1. NetworkTypeOK' /\ RuntimeTypeOK' /\ PortsTypeOK'
  BY NetworkTypesKept, RuntimeTypesKept, PortsTypesKept
<1>2. svc' \in [Services -> EntryRecord]
  BY <1>1 DEF RuntimeTypeOK, EntryRecord
<1>3. LifeTypeOK'
  BY <1>2, LifeTypesKept
<1>4. host' \in Hosts
  BY DEF TypeInv, LifecycleTypeOK, Next, vars
<1> QED
  BY <1>1, <1>3, <1>4 DEF TypeInv, LifecycleTypeOK, LifeTypeOK, PortsTypeOK
-----------------------------------------------------------------------------
(* Where a call has got to.                                                *)

LEMMA ControlKept == ASSUME TypeInv, EntriesInv, ControlInv, [Next]_vars PROVE ControlInv'
<1> USE LifecycleAssumption, LifeTypes DEF LifeTypeOK
<1>1. CASE UNCHANGED <<op, todo, restarted, cur, health, nets>>
  BY <1>1 DEF ControlInv
<1>2. ASSUME UpBegin PROVE ControlInv'
  <2>1. nets' = Networks
    BY <1>2, CreateFacts DEF UpBegin
  <2>2. \A s \in Services : health'[s] = "Starting"
    BY <1>2 DEF UpBegin
  <2> QED
    BY <1>2, <2>1, <2>2 DEF UpBegin, ControlInv
<1>3. ASSUME NEW s \in Services, UpStart(s) PROVE ControlInv'
  <2>1. s \in todo /\ nets' = nets
    BY <1>3 DEF UpStart, InWave, networkVars, netVars
  <2> QED
    BY <1>3, <2>1 DEF UpStart, ControlInv
<1>4. ASSUME NEW s \in Services, RestartStart(s) PROVE ControlInv'
  BY <1>4 DEF RestartStart, ControlInv, networkVars, netVars
<1>5. ASSUME UpDone \/ TickBegin \/ Attached PROVE ControlInv'
  BY <1>5 DEF UpDone, TickBegin, Attached, ControlInv, networkVars, netVars
<1>6. ASSUME DownEnd PROVE ControlInv'
  BY <1>6 DEF DownEnd, ControlInv, DeleteNetworks
<1>7. ASSUME NEW n \in Networks, ConnectNext(n) PROVE UNCHANGED <<op, todo, restarted, cur, health, nets>>
  BY <1>7 DEF ConnectNext, ConnectService
<1>8. ASSUME NEW s \in Services, ReapOne(s) PROVE ControlInv'
  BY <1>8 DEF ReapOne, ControlInv, networkVars, netVars
<1>9. ASSUME ReapRefresh PROVE ControlInv'
  <2>1. CASE restarted = {}
    BY <1>9, <2>1 DEF ReapRefresh, ControlInv, networkVars, netVars
  <2>2. CASE restarted # {}
    <3>1. PICK s \in restarted : /\ op' = "refresh" /\ health' = [health EXCEPT ![s] = "Running"]
                                /\ DisconnectServices({s}) /\ cur' = s
      BY <1>9, <2>2 DEF ReapRefresh
    <3>2. nets' = nets /\ todo' = {} /\ restarted' = restarted /\ op # "new"
      BY <1>9, <3>1 DEF ReapRefresh, DisconnectServices
    <3> QED
      BY <3>1, <3>2 DEF ControlInv
  <2> QED
    BY <2>1, <2>2
<1>10. ASSUME PollAndMirror PROVE ControlInv'
  <2>1. \A s \in Tracked : svc'[s].status # "none"
    BY <1>10, PollChanges DEF PollAndMirror
  <2>2. /\ op' = "idle" /\ op # "new"
        /\ UNCHANGED <<todo, restarted, cur, nets>>
        /\ health' = [s \in Services |-> IF s \in Tracked /\ health[s] # "none" THEN svc'[s].status ELSE health[s]]
    BY <1>10 DEF PollAndMirror, networkVars, netVars
  <2> QED
    BY <1>10, <2>1, <2>2 DEF PollAndMirror, ControlInv
<1>11. ASSUME NEW s \in Services, RestartService(s) PROVE ControlInv'
  BY <1>11 DEF RestartService, ControlInv, DisconnectServices
<1>12. ASSUME NEW s \in Services, RestartStop(s) \/ DownStop(s) PROVE ControlInv'
  <2>1. nets' = nets
    BY <1>12 DEF RestartStop, DownStop, StopService, networkVars, netVars
  <2> QED
    BY <1>12, <2>1 DEF RestartStop, DownStop, ControlInv
<1>13. ASSUME NEW s \in Services, PauseOrUnpause(s) PROVE ControlInv'
  BY <1>13 DEF PauseOrUnpause, ControlInv, networkVars, netVars
<1>14. ASSUME DownBegin PROVE ControlInv'
  BY <1>14 DEF DownBegin, ControlInv, DisconnectServices
<1>15. ASSUME \/ \E p \in Pids : Exit(p)
              \/ \E s \in Services : DeleteTask(s)
              \/ \E l \in listeners : ListenerCloses(l)
       PROVE  UNCHANGED <<op, todo, restarted, cur, health, nets>>
  BY <1>15 DEF Exit, DeleteTask, ListenerCloses, lifeVars, networkVars, netVars
<1>16. CASE UNCHANGED vars
  BY <1>1, <1>16 DEF vars, lifeVars, networkVars, netVars
<1> QED
  BY <1>1, <1>2, <1>3, <1>4, <1>5, <1>6, <1>7, <1>8, <1>9, <1>10, <1>11, <1>12, <1>13, <1>14, <1>15, <1>16
     DEF Next, Supervise
-----------------------------------------------------------------------------
(* The processes.                                                          *)

LEMMA EntriesKept == ASSUME TypeInv, HaltedAreDead, EntriesInv, [Next]_vars PROVE EntriesInv'
<1>1. CASE UNCHANGED svc
  BY <1>1 DEF EntriesInv
<1>2. ASSUME NEW s \in Services, NEW r, Start(s, r) PROVE EntriesInv'
  <2>1. r.entry.status = "none" => r.entry = NoEntry
    BY <1>2, StartedEntry DEF Start
  <2> QED
    BY <1>2, <2>1, StartChanges DEF EntriesInv
<1>3. ASSUME NEW s \in Services, GivenUp(s) \/ \E r : Stop(s, r) PROVE EntriesInv'
  BY <1>3, GivenUpChanges, StopChanges DEF EntriesInv
<1>4. CASE PollHealthchecks
  BY <1>4, PollChanges DEF EntriesInv, Tracked
<1>5. ASSUME NEW s \in Services, PauseService(s) \/ UnpauseService(s) PROVE EntriesInv'
  BY <1>5, PauseChanges DEF EntriesInv
<1> QED
  BY <1>1, <1>2, <1>3, <1>4, <1>5, RuntimeStep DEF ProcessExits, TaskDeleted, runtimeVars, vars

LEMMA HeldPids == ASSUME TypeInv PROVE \A s \in Services : svc[s].pid # 0 => svc[s].pid \in Pids
  BY RuntimeTypes, ManifestAssumption DEF EntryRecord, Pids

LEMMA BlameKept == ASSUME TypeInv, HaltedAreDead, BlameInv, [Next]_vars PROVE BlameInv'
<1>1. (/\ \A s \in Services : svc'[s].pid = svc[s].pid /\ svc'[s].fails = svc[s].fails
       /\ \A p \in Pids : proc'[p].bad = proc[p].bad) => BlameInv'
  BY HeldPids DEF BlameInv
<1>2. ASSUME NEW s \in Services, NEW r, Start(s, r) PROVE BlameInv'
  <2> SUFFICES ASSUME NEW t \in Services, svc'[t].pid # 0
               PROVE  svc'[t].fails <= proc'[svc'[t].pid].bad
    BY DEF BlameInv
  <2>1. CASE t = s /\ svc'[s] = r.entry
    <3>1. svc'[t].fails = 0 /\ svc'[t].pid \in Pids
      BY <1>2, <2>1, StartFacts DEF Start
    <3>2. proc'[svc'[t].pid].bad \in 0 .. MaxFails
      BY <1>2, <3>1, StartChanges DEF ProcRecord
    <3> QED
      BY <3>1, <3>2, RuntimeAssumption
  <2>2. CASE (t # s \/ r.entry = NoEntry) /\ svc'[t] = svc[t]
    <3>1. svc[t].pid \in Pids
      BY <2>2, RuntimeTypes DEF EntryRecord, Pids
    <3>2. proc'[svc[t].pid] = proc[svc[t].pid]
      BY <1>2, <2>2, <3>1, StartFacts DEF Start
    <3> QED
      BY <2>2, <3>1, <3>2 DEF BlameInv
  <2> QED
    BY <1>2, <2>1, <2>2, StartChanges
<1>3. ASSUME NEW s \in Services, NEW r, Stop(s, r) PROVE BlameInv'
  BY <1>1, <1>3, StopChanges, StopFacts DEF Stop
<1>4. ASSUME NEW s \in Services, GivenUp(s) PROVE BlameInv'
  BY <1>1, <1>4, GivenUpChanges DEF GivenUp
<1>5. CASE PollHealthchecks
  BY <1>5, PollChanges
<1>6. ASSUME NEW s \in Services, PauseService(s) \/ UnpauseService(s) PROVE BlameInv'
  BY <1>1, <1>6, PauseChanges
<1>7. ASSUME NEW p \in Pids, NEW how \in {"failed", "succeeded"}, ProcessExits(p, how) PROVE BlameInv'
  BY <1>1, <1>7, ExitChanges
<1>8. CASE UNCHANGED <<svc, proc>>
  BY <1>8 DEF BlameInv
<1> QED
  BY <1>2, <1>3, <1>4, <1>5, <1>6, <1>7, <1>8, RuntimeStep DEF TaskDeleted, runtimeVars, vars

LEMMA LiveAtHomeKept == ASSUME TypeInv, HaltedAreDead, LiveAtHome, [Next]_vars PROVE LiveAtHome'
<1>0. \A p \in Pids : Live(p)' <=> Alive(proc', p)
  BY DEF Live, Alive
<1>1. (/\ \A s \in Services : svc'[s].pid = svc[s].pid /\ task'[s] = task[s] /\ (s \in container => s \in container')
       /\ \A p \in Pids : proc'[p].of = proc[p].of /\ (Alive(proc', p) => Live(p))) => LiveAtHome'
  BY <1>0 DEF LiveAtHome, Home
<1>2. ASSUME NEW s \in Services, Kind[s] = "process" => ~Live(svc[s].pid), NEW r, Start(s, r) PROVE LiveAtHome'
  <2> SUFFICES ASSUME NEW p \in Pids, Alive(r.proc, p)
               PROVE  /\ r.proc[p].of \in Services
                      /\ Kind[r.proc[p].of] \in {"oci", "process"}
                      /\ Home(r.proc[p].of)' = p
                      /\ Kind[r.proc[p].of] = "oci" => r.proc[p].of \in container'
    BY <1>0, <1>2 DEF LiveAtHome, Start
  <2>1. CASE Live(p)
    <3>1. PICK t \in Services :
             /\ t = proc[p].of /\ Kind[t] \in {"oci", "process"} /\ Home(t) = p
             /\ Kind[t] = "oci" => t \in container
      BY <2>1 DEF LiveAtHome
    <3>2. r.proc[p].of = t /\ container \subseteq container'
      BY <1>2, <2>1, <3>1, StartFacts DEF Start
    <3>3. Home(t)' = p
      <4>1. CASE t # s
        BY <1>2, <3>1, <4>1, StartChanges DEF Home
      <4>2. CASE t = s /\ Kind[s] = "oci"
        BY <1>2, <3>1, <4>2, StartFacts DEF Home, Start
      <4>3. CASE t = s /\ Kind[s] = "process"
        BY <1>2, <2>1, <3>1, <4>3 DEF Home
      <4> QED
        BY <3>1, <4>1, <4>2, <4>3
    <3> QED
      BY <3>1, <3>2, <3>3
  <2>2. CASE ~Live(p)
    <3>1. /\ r.proc[p].of = s /\ Kind[s] \in {"oci", "process"}
          /\ Kind[s] = "process" => r.entry.pid = p
          /\ Kind[s] = "oci" => s \in r.container /\ r.task[s] = p
      BY <1>2, <2>2, StartFacts DEF Start
    <3>2. CASE Kind[s] = "oci"
      BY <1>2, <3>1, <3>2 DEF Start, Home
    <3>3. CASE Kind[s] = "process"
      <4>1. r.entry # NoEntry
        BY <3>1, <3>3 DEF NoEntry, Pids
      <4>2. svc'[s] = r.entry
        BY <1>2, <4>1, StartChanges
      <4> QED
        BY <3>1, <3>3, <4>2 DEF Home
    <3> QED
      BY <3>1, <3>2, <3>3
  <2> QED
    BY <2>1, <2>2
<1>3. ASSUME NEW s \in Services, NEW r, Stop(s, r) PROVE LiveAtHome'
  <2> SUFFICES ASSUME NEW p \in Pids, Alive(r.proc, p)
               PROVE  /\ r.proc[p].of \in Services
                      /\ Kind[r.proc[p].of] \in {"oci", "process"}
                      /\ Home(r.proc[p].of)' = p
                      /\ Kind[r.proc[p].of] = "oci" => r.proc[p].of \in container'
    BY <1>0, <1>3 DEF LiveAtHome, Stop
  <2> DEFINE t == proc[p].of
  <2>1. r.proc[p] = proc[p] /\ Live(p)
    BY <1>3, StopFacts DEF Stop
  <2>2. /\ t \in Services /\ Kind[t] \in {"oci", "process"} /\ Home(t) = p
        /\ Kind[t] = "oci" => t \in container
    BY <2>1 DEF LiveAtHome
  <2>3. svc'[t].pid = svc[t].pid /\ (t # s => task'[t] = task[t])
    BY <1>3, <2>2, StopChanges
  <2>4. CASE t # s
    BY <1>3, <2>1, <2>2, <2>3, <2>4 DEF Home, Stop
  <2>5. CASE t = s /\ Kind[s] = "oci"
    <3>1. r.task = task[s] /\ r.kept
      BY <1>3, <2>2, <2>5, StopFacts DEF Home, Stop
    <3> QED
      BY <1>3, <2>1, <2>2, <2>5, <3>1, StopChanges DEF Home, Stop
  <2>6. CASE t = s /\ Kind[s] = "process"
    BY <2>1, <2>2, <2>3, <2>6 DEF Home
  <2> QED
    BY <2>2, <2>4, <2>5, <2>6
<1>4. ASSUME NEW s \in Services, GivenUp(s) PROVE LiveAtHome'
  BY <1>1, <1>4, GivenUpChanges DEF GivenUp, Live, Alive
<1>5. CASE PollHealthchecks
  BY <1>1, <1>5, PollChanges DEF Live, Alive
<1>6. ASSUME NEW s \in Services, PauseService(s) \/ UnpauseService(s) PROVE LiveAtHome'
  BY <1>1, <1>6, PauseChanges
<1>7. ASSUME NEW p \in Pids, NEW how \in {"failed", "succeeded"}, ProcessExits(p, how) PROVE LiveAtHome'
  BY <1>1, <1>7, ExitChanges
<1>8. ASSUME NEW s \in Services, TaskDeleted(s) PROVE LiveAtHome'
  BY <1>8 DEF TaskDeleted, LiveAtHome, Home, Live
<1>9. CASE UNCHANGED runtimeVars
  BY <1>1, <1>9 DEF runtimeVars, Live, Alive
<1> QED
  BY <1>2, <1>3, <1>4, <1>5, <1>6, <1>7, <1>8, <1>9, RuntimeStep DEF vars
\* Stopping a process service leaves it without a live process.
LEMMA StopServiceKills ==
    ASSUME TypeInv, NEW s \in Services, StopService(s)
    PROVE  /\ Kind[s] = "process" => ~Live(svc[s].pid)'
           /\ \A t \in Services : svc'[t].pid = svc[t].pid
           /\ \A p \in Pids : Live(p)' => Live(p)
<1>1. CASE svc[s] = NoEntry
  <2>1. UNCHANGED runtimeVars
    BY <1>1, StopServiceCases
  <2> QED
    BY <1>1, <2>1 DEF NoEntry, Live, Pids, runtimeVars
<1>2. CASE svc[s] # NoEntry
  <2>1. PICK r : Stop(s, r)
    BY <1>2, StopServiceCases DEF Stop
  <2>2. \A t \in Services : svc'[t].pid = svc[t].pid
    BY <2>1, StopChanges
  <2>3. /\ Kind[s] = "process" => ~Alive(r.proc, svc[s].pid)
        /\ \A p \in Pids : Alive(r.proc, p) => Live(p)
    BY <2>1, StopFacts DEF Stop
  <2> QED
    BY <2>1, <2>2, <2>3 DEF Stop, Alive, Live
<1> QED
  BY <1>1, <1>2

LEMMA HaltedKept == ASSUME TypeInv, ControlInv, HaltedAreDead, [Next]_vars PROVE HaltedAreDead'
<1> USE LifecycleAssumption, LifeTypes DEF LifeTypeOK
<1>1. (/\ \A s \in Services : Halted(s)' => Halted(s)
       /\ \A s \in Services : svc'[s].pid = svc[s].pid
       /\ \A p \in Pids : Live(p)' => Live(p)) => HaltedAreDead'
  BY DEF HaltedAreDead, Live
<1>2. (\A s \in Services : ~Halted(s)') => HaltedAreDead'
  BY DEF HaltedAreDead
<1>3. UNCHANGED runtimeVars => /\ \A s \in Services : svc'[s].pid = svc[s].pid
                               /\ \A p \in Pids : Live(p)' => Live(p)
  BY DEF runtimeVars, Live
<1>4. ASSUME UpBegin \/ Attached \/ DownEnd PROVE HaltedAreDead'
  <2>1. \A s \in Services : Halted(s)' => Halted(s)
    BY <1>4 DEF UpBegin, Attached, DownEnd, Halted, ControlInv
  <2>2. UNCHANGED runtimeVars
    BY <1>4 DEF UpBegin, Attached, DownEnd
  <2> QED
    BY <1>1, <1>3, <2>1, <2>2
<1>5. ASSUME NEW s \in Services, UpStart(s) PROVE HaltedAreDead'
  <2>1. PICK r \in StartService(s) :
           /\ proc' = r.proc /\ task' = r.task /\ container' = r.container
           /\ IF r.entry = NoEntry
              THEN /\ op' = "failed" /\ todo' = {}
                   /\ UNCHANGED <<svc, health, cur, netsTodo>>
              ELSE /\ svc' = [svc EXCEPT ![s] = r.entry]
                   /\ health' = [health EXCEPT ![s] = "Running"]
                   /\ cur' = s /\ netsTodo' = Networks
                   /\ UNCHANGED <<op, todo>>
    BY <1>5 DEF UpStart
  <2>2. CASE r.entry = NoEntry
    BY <1>2, <2>1, <2>2 DEF Halted
  <2>3. CASE r.entry # NoEntry
    <3> SUFFICES ASSUME NEW t \in Services, Kind[t] = "process", Halted(t)'
                 PROVE  ~Alive(proc', svc'[t].pid)
      BY DEF HaltedAreDead, Live, Alive
    <3>1. t # s /\ Halted(t) /\ svc'[t] = svc[t]
      BY <1>5, <2>1, <2>3, RuntimeTypes DEF Halted, UpStart
    <3>2. ~Live(svc[t].pid)
      BY <3>1 DEF HaltedAreDead
    <3>3. svc[t].pid \in Pids => r.proc[svc[t].pid] = proc[svc[t].pid]
      BY <3>1, StartFacts
    <3> QED
      BY <2>1, <3>1, <3>2, <3>3 DEF Alive, Live
  <2> QED
    BY <2>2, <2>3
<1>6. ASSUME NEW s \in Services, RestartStart(s) \/ ReapOne(s) \/ RestartService(s) \/ PauseOrUnpause(s)
      PROVE  HaltedAreDead'
  <2>1. op' \in {"idle", "starting", "reap", "poll", "restart"} /\ (op' = "starting" => todo' = {})
    BY <1>6 DEF RestartStart, ReapOne, RestartService, PauseOrUnpause
  <2> QED
    BY <1>2, <2>1 DEF Halted
<1>7. ASSUME UpDone \/ TickBegin \/ ReapRefresh \/ PollAndMirror PROVE HaltedAreDead'
  <2>1. op' \in {"idle", "reap", "refresh", "poll"}
    BY <1>7 DEF UpDone, TickBegin, ReapRefresh, PollAndMirror
  <2> QED
    BY <1>2, <2>1 DEF Halted
<1>8. ASSUME NEW s \in Services, RestartStop(s) \/ DownStop(s) PROVE HaltedAreDead'
  <2>1. StopService(s)
    BY <1>8 DEF RestartStop, DownStop
  <2>2. \A t \in Services \ {s} : Halted(t)' => Halted(t)
    BY <1>8 DEF RestartStop, DownStop, Halted, ControlInv
  <2> QED
    BY <2>1, <2>2, StopServiceKills DEF HaltedAreDead, Live
<1>9. ASSUME DownBegin PROVE HaltedAreDead'
  <2> SUFFICES ASSUME NEW s \in Services, Halted(s)' PROVE ~Live(svc[s].pid)'
    BY DEF HaltedAreDead
  <2>1. svc[s] = NoEntry /\ svc' = svc
    BY <1>9 DEF DownBegin, Halted, Tracked, runtimeVars
  <2> QED
    BY <2>1 DEF NoEntry, Live, Pids
<1>10. ASSUME NEW p \in Pids, Exit(p) PROVE HaltedAreDead'
  <2>1. PICK how \in {"failed", "succeeded"} : ProcessExits(p, how)
    BY <1>10 DEF Exit
  <2>2. UNCHANGED <<op, todo, cur>>
    BY <1>10 DEF Exit, lifeVars
  <2>3. svc' = svc /\ \A q \in Pids : Live(q)' => Live(q)
    BY <2>1, ExitChanges DEF Alive, Live
  <2> QED
    BY <1>1, <2>2, <2>3 DEF Halted
<1>11. ASSUME \/ \E n \in Networks : ConnectNext(n)
              \/ \E s \in Services : DeleteTask(s)
              \/ \E l \in listeners : ListenerCloses(l)
              \/ UNCHANGED vars
       PROVE  HaltedAreDead'
  <2>1. UNCHANGED <<op, todo, cur>> /\ UNCHANGED <<svc, proc>>
    BY <1>11 DEF ConnectNext, DeleteTask, TaskDeleted, ListenerCloses, vars, lifeVars, runtimeVars
  <2> QED
    BY <1>1, <2>1 DEF Halted, Live
<1> QED
  BY <1>4, <1>5, <1>6, <1>7, <1>8, <1>9, <1>10, <1>11 DEF Next, Supervise
-----------------------------------------------------------------------------
(* One instance of each service, and its own failures.                     *)

CoreInv == TypeInv /\ ControlInv /\ ProcessInv

LEMMA CoreInit == Init => CoreInv
<1> SUFFICES ASSUME Init PROVE CoreInv
  OBVIOUS
<1>1. NetworkTypeOK
  BY ManifestAssumption, NetworkAssumption DEF Init, NetworkInit, NetworkTypeOK, NoVeth, NoAddr, HostNs, FirstHost, VxlanStates
<1>2. RuntimeTypeOK
  BY ManifestAssumption, RuntimeAssumption DEF Init, RuntimeInit, RuntimeTypeOK, NoEntry, FreeProc
<1>3. TypeInv
  BY <1>1, <1>2, LifecycleAssumption DEF Init, TypeInv, LifecycleTypeOK
<1>4. ControlInv
  BY DEF Init, NetworkInit, ControlInv
<1>5. ProcessInv
  BY DEF Init, RuntimeInit, ProcessInv, LiveAtHome, HaltedAreDead, BlameInv, EntriesInv, NoEntry, FreeProc, Live, Pids
<1> QED
  BY <1>3, <1>4, <1>5 DEF CoreInv

LEMMA CoreKept == CoreInv /\ [Next]_vars => CoreInv'
  BY TypesKept, ControlKept, EntriesKept, BlameKept, LiveAtHomeKept, HaltedKept DEF CoreInv, ProcessInv

LEMMA CoreHolds == Spec => []CoreInv
  BY CoreInit, CoreKept, PTL DEF Spec

\* Whatever crashed, was restarted or could not be stopped, a service has one
\* live process at most, and is held to have failed its healthcheck only by
\* probes of the process that runs now.
THEOREM RunsSoundAlways == Spec => []RunsSound
<1>1. CoreInv => OneInstance
  BY DEF CoreInv, ProcessInv, LiveAtHome, OneInstance
<1>2. CoreInv => FailuresAreOwn
  BY DEF CoreInv, ProcessInv, BlameInv, FailuresAreOwn, Tracked
<1>3. CoreInv => RunsSound
  BY <1>1, <1>2 DEF CoreInv, TypeInv, RunsSound
<1> QED
  BY <1>3, CoreHolds, PTL

\* `down` leaves no process of a process service behind.
THEOREM DownStopsProcessesAlways == Spec => []DownStopsProcesses
<1>1. CoreInv => DownStopsProcesses
  BY DEF CoreInv, ProcessInv, LiveAtHome, HaltedAreDead, Halted, Home, DownStopsProcesses, Live
<1> QED
  BY <1>1, CoreHolds, PTL
-----------------------------------------------------------------------------
(* Addresses and names.                                                    *)

LEMMA ConnectKeepsAddresses ==
    ASSUME TypeInv, AddressInv, ControlInv, NEW s \in Services, NEW n \in Networks, NEW ns \in Namespaces, NEW hasPid,
           ConnectService(s, n, hasPid, ns)
    PROVE  AddressInv'
<1> USE NetworkTypes DEF FirstHost
<1>1. /\ UNCHANGED <<nets, subnetOf>>
      /\ \A k \in Networks, t \in Services : k # n \/ t # s => conn'[k][t] = conn[k][t]
      /\ \A k \in Networks \ {n} : nextHost'[k] = nextHost[k]
      /\ \A t \in Services \ {s} : dns'[t] = dns[t]
      /\ \/ conn'[n][s] = conn[n][s] /\ nextHost'[n] = nextHost[n]
         \/ conn[n][s] = 0 /\ conn'[n][s] = nextHost[n] /\ nextHost'[n] = nextHost[n] + 1
      /\ dns'[s] = IF conn'[n][s] # 0 THEN [net |-> subnetOf[n], host |-> conn'[n][s]] ELSE dns[s]
  BY ConnectFacts
<1>2. /\ nextHost' \in [Networks -> Nat] /\ conn' \in [Networks -> [Services -> Nat]]
      /\ dns' \in [Services -> [net : Int, host : Nat]]
  BY ConnectFacts DEF NetworkTypesNext
<1>3. SubnetsInv'
  BY <1>1 DEF AddressInv, SubnetsInv
<1>4. OctetsInv'
  <2> SUFFICES ASSUME NEW k \in Networks
               PROVE  /\ nextHost'[k] >= FirstHost
                      /\ \A t \in Services : conn'[k][t] # 0 => FirstHost <= conn'[k][t] /\ conn'[k][t] < nextHost'[k]
                      /\ \A t, u \in Services : t # u /\ conn'[k][t] # 0 => conn'[k][t] # conn'[k][u]
    BY DEF OctetsInv
  <2>1. /\ nextHost[k] >= FirstHost
        /\ \A t \in Services : conn[k][t] # 0 => FirstHost <= conn[k][t] /\ conn[k][t] < nextHost[k]
        /\ \A t, u \in Services : t # u /\ conn[k][t] # 0 => conn[k][t] # conn[k][u]
    BY DEF AddressInv, OctetsInv
  <2>2. CASE k # n
    BY <1>1, <2>1, <2>2
  <2>3. CASE conn'[n][s] = conn[n][s] /\ nextHost'[n] = nextHost[n]
    <3>1. nextHost'[k] = nextHost[k] /\ \A t \in Services : conn'[k][t] = conn[k][t]
      BY <1>1, <2>3
    <3> QED
      BY <2>1, <3>1
  <2>4. CASE k = n /\ conn[n][s] = 0 /\ conn'[n][s] = nextHost[n] /\ nextHost'[n] = nextHost[n] + 1
    <3>1. \A t \in Services \ {s} : conn'[k][t] = conn[k][t]
      BY <1>1
    <3>2. nextHost[k] \in Nat /\ \A t \in Services : conn[k][t] \in Nat
      OBVIOUS
    <3>3. conn'[k][s] = nextHost[k] /\ nextHost'[k] = nextHost[k] + 1
      BY <2>4
    <3>4. \A t \in Services : conn'[k][t] # 0 => FirstHost <= conn'[k][t] /\ conn'[k][t] < nextHost'[k]
      <4> TAKE t \in Services
      <4>1. CASE t = s
        BY <2>1, <3>2, <3>3, <4>1
      <4>2. CASE t # s
        <5>1. conn'[k][t] = conn[k][t] /\ conn[k][t] \in Nat
          BY <3>1, <3>2, <4>2
        <5> QED
          BY <2>1, <3>2, <3>3, <5>1
      <4> QED
        BY <4>1, <4>2
    <3>5. \A t, u \in Services : t # u /\ conn'[k][t] # 0 => conn'[k][t] # conn'[k][u]
      <4> TAKE t, u \in Services
      <4>1. CASE t # s /\ u # s
        BY <2>1, <3>1, <4>1
      <4>2. ASSUME NEW v \in Services \ {s} PROVE conn'[k][v] # nextHost[k]
        <5>1. conn[k][v] = 0 \/ conn[k][v] < nextHost[k]
          BY <2>1, <4>2
        <5>2. conn[k][v] # nextHost[k]
          BY <2>1, <3>2, <4>2, <5>1 DEF FirstHost
        <5> QED
          BY <3>1, <4>2, <5>2
      <4> QED
        BY <3>1, <3>3, <4>1, <4>2
    <3> QED
      BY <2>1, <3>2, <3>3, <3>4, <3>5
  <2> QED
    BY <1>1, <2>2, <2>3, <2>4
<1>5. NamesInv'
  <2> SUFFICES ASSUME NEW k \in nets, NEW t \in Services, dns'[t].net = subnetOf[k]
               PROVE  /\ dns'[t].host < nextHost'[k]
                      /\ \A u \in Services \ {t} : conn'[k][u] # 0 => dns'[t].host # conn'[k][u]
    BY <1>1 DEF NamesInv
  <2>1. k \in Networks
    OBVIOUS
  <2>2. ASSUME dns'[t] = dns[t]
        PROVE  /\ dns[t].host < nextHost[k]
               /\ \A u \in Services \ {t} : conn[k][u] # 0 => dns[t].host # conn[k][u]
    BY <2>2 DEF AddressInv, NamesInv
  <2>3. CASE dns'[t] = dns[t]
    BY <1>1, <2>1, <2>2, <2>3
  <2>4. CASE t = s /\ conn'[n][s] # 0 /\ dns'[s] = [net |-> subnetOf[n], host |-> conn'[n][s]]
    <3>1. k = n
      BY <2>1, <2>4 DEF AddressInv, SubnetsInv
    <3> QED
      BY <1>4, <2>4, <3>1 DEF OctetsInv
  <2> QED
    BY <1>1, <2>3, <2>4
<1> QED
  BY <1>3, <1>4, <1>5 DEF AddressInv

LEMMA AddressKept == ASSUME SubnetsApart, TypeInv, ControlInv, AddressInv, [Next]_vars PROVE AddressInv'
<1> USE NetworkTypes
<1>1. CASE UNCHANGED <<nets, subnetOf, nextHost, conn, dns>>
  BY <1>1 DEF AddressInv, OctetsInv, SubnetsInv, NamesInv
<1>2. CASE UpBegin
  <2>1. /\ NetworkTypesNext /\ nextHost' = [n \in Networks |-> FirstHost]
        /\ \A n \in Networks, s \in Services : conn'[n][s] = 0
        /\ \A n, k \in Networks : subnetOf'[n] = subnetOf'[k] => n = k
    BY <1>2, CreateFacts DEF UpBegin
  <2>2. \A s \in Services : dns'[s].net = PlaceholderNet
    BY <1>2 DEF UpBegin
  <2>3. \A n \in Networks : subnetOf'[n] # PlaceholderNet
    BY <2>1 DEF NetworkTypesNext, PlaceholderNet
  <2>4. nets' \subseteq Networks
    BY <2>1 DEF NetworkTypesNext
  <2> QED
    BY <2>1, <2>2, <2>3, <2>4 DEF AddressInv, OctetsInv, SubnetsInv, NamesInv, FirstHost
<1>3. ASSUME NEW n \in netsTodo, cur # Nobody, ConnectNext(n) PROVE AddressInv'
  <2>1. n \in Networks /\ cur \in Services
    BY <1>3, LifeTypes DEF LifeTypeOK
  <2>2. ConnectService(cur, n, svc[cur].pid # 0, NsOf(cur))
    BY <1>3 DEF ConnectNext, NsOf
  <2> QED
    BY <2>1, <2>2, NsOfType, ConnectKeepsAddresses
<1>4. ASSUME NEW S \in SUBSET Services, DisconnectServices(S) PROVE AddressInv'
  <2>1. /\ UNCHANGED <<nets, subnetOf, nextHost, dns>>
        /\ \A n \in Networks, s \in Services : conn'[n][s] = 0 \/ conn'[n][s] = conn[n][s]
    BY <1>4, DisconnectFacts
  <2>2. OctetsInv'
    BY <2>1 DEF AddressInv, OctetsInv, FirstHost
  <2> QED
    BY <2>1, <2>2 DEF AddressInv, SubnetsInv, NamesInv
<1>5. CASE DeleteNetworks
  <2>1. nets' = {} /\ nextHost' = nextHost /\ \A n \in Networks, s \in Services : conn'[n][s] = 0
    BY <1>5, DeleteFacts
  <2> QED
    BY <2>1 DEF AddressInv, OctetsInv, SubnetsInv, NamesInv
<1>6. ASSUME NEW dead, Detach(dead) PROVE AddressInv'
  BY <1>1, <1>6 DEF Detach, netVars
<1> QED
  BY <1>1, <1>2, <1>3, <1>4, <1>5, <1>6, NetworkStep DEF networkVars, netVars, vars

\* Two services never have one address, and no name leads to the address of
\* another service, where the subnets of the manifest differ: whatever was
\* disconnected, restarted or left without an address since.
THEOREM AddressesSoundAlways == ASSUME SubnetsApart PROVE Spec => []AddressesSound
<1>1. Init => AddressInv
  BY DEF Init, NetworkInit, AddressInv, OctetsInv, SubnetsInv, NamesInv, FirstHost
<1>2. CoreInv /\ AddressInv /\ [Next]_vars => AddressInv'
  BY AddressKept DEF CoreInv
<1>3. CoreInv /\ AddressInv => UniqueAddresses
  BY NetworkTypes DEF CoreInv, AddressInv, OctetsInv, SubnetsInv, UniqueAddresses, Assigned, NoAddr
<1>4. CoreInv /\ AddressInv => NoMisroute
  BY NetworkTypes DEF CoreInv, AddressInv, NamesInv, NoMisroute, Assigned, NoAddr
<1>5. CoreInv /\ AddressInv => AddressesSound
  BY <1>3, <1>4 DEF AddressesSound
<1> QED
  BY <1>1, <1>2, <1>5, CoreHolds, PTL DEF Spec
-----------------------------------------------------------------------------
(* VXLAN ports.                                                            *)

LEMMA VxlanKept == ASSUME TypeInv, VxlanInv, [Next]_vars PROVE VxlanInv'
<1>0. host' = host
  BY DEF Next, vars
<1>1. ASSUME UNCHANGED <<vxlan, nets, hasBridge, bridgeDev>>, op' \in {"new", "stopped"} => op \in {"new", "stopped"}
      PROVE  VxlanInv'
  BY <1>0, <1>1 DEF VxlanInv
<1>2. CASE UpBegin
  BY <1>0, <1>2, CreateFacts, NetworkTypes DEF UpBegin, VxlanInv, NetworkTypesNext
<1>3. CASE DownEnd
  BY <1>0, <1>3, DeleteFacts DEF DownEnd, VxlanInv
<1>4. ASSUME Next, ~UpBegin, ~DownEnd PROVE VxlanInv'
  <2>1. op' \in {"new", "stopped"} => op \in {"new", "stopped"}
    <3>1. ASSUME NEW s \in Services,
                 \/ UpStart(s) \/ ReapOne(s) \/ RestartStop(s) \/ RestartStart(s) \/ DownStop(s)
                 \/ RestartService(s) \/ PauseOrUnpause(s) \/ DeleteTask(s)
          PROVE  op' = op \/ op' \notin {"new", "stopped"}
      BY <3>1 DEF UpStart, ReapOne, RestartStop, RestartStart, DownStop, RestartService, PauseOrUnpause,
                  DeleteTask, lifeVars
    <3>2. ASSUME UpDone \/ TickBegin \/ ReapRefresh \/ PollAndMirror \/ Attached \/ DownBegin
          PROVE  op' = op \/ op' \notin {"new", "stopped"}
      BY <3>2 DEF UpDone, TickBegin, ReapRefresh, PollAndMirror, Attached, DownBegin
    <3>3. ASSUME \/ \E n \in Networks : ConnectNext(n)
                 \/ \E p \in Pids : Exit(p)
                 \/ \E l \in listeners : ListenerCloses(l)
          PROVE  op' = op
      BY <3>3 DEF ConnectNext, Exit, ListenerCloses, lifeVars
    <3> QED
      BY <1>4, <3>1, <3>2, <3>3 DEF Next, Supervise
  <2>2. UNCHANGED <<vxlan, nets, hasBridge, bridgeDev>>
    BY <1>4, NetworkStep
       DEF networkVars, netVars, devVars, ConnectNext, ConnectService, DisconnectServices, Detach
  <2> QED
    BY <1>1, <2>1, <2>2
<1> QED
  BY <1>1, <1>2, <1>3, <1>4 DEF vars, lifeVars, networkVars, netVars, devVars

\* `down` leaves no process of a process service behind, not one that was frozen
\* or that a failed `up` had started, and, where devices can be deleted, no VXLAN
\* device that had joined its bridge.
THEOREM DownSoundAlways == Spec => []DownSound
<1>1. Init => VxlanInv
  BY DEF Init, NetworkInit, VxlanInv
<1>2. CoreInv /\ VxlanInv /\ [Next]_vars => VxlanInv'
  BY VxlanKept DEF CoreInv
<1>3. CoreInv /\ VxlanInv => DownSound
  BY DEF CoreInv, ProcessInv, LiveAtHome, HaltedAreDead, Halted, Home, VxlanInv, DownSound,
         DownStopsProcesses, DownRemovesVxlans, Live
<1> QED
  BY <1>1, <1>2, <1>3, CoreHolds, PTL DEF Spec
-----------------------------------------------------------------------------
(* Published ports.                                                        *)

LEMMA TargetKept ==
    ASSUME TypeInv, NEW s \in Services, UNCHANGED <<nets, subnetOf>>, \A n \in Networks : conn'[n][s] = conn[n][s]
    PROVE  Target(s)' = Target(s)
<1>1. Networks # {} => FirstNet \in Networks
  BY DEF FirstNet
<1>2. Networks # {} => conn'[FirstNet][s] = conn[FirstNet][s]
  BY <1>1
<1> QED
  BY <1>2 DEF Target, Assigned

\* A step that publishes nothing keeps the ports right where it leaves the
\* address of every service but the next to be attached.
LEMMA PortsUndisturbed ==
    ASSUME TypeInv, ControlInv, PortsInv, UNCHANGED <<nets, subnetOf>>, proxies' \subseteq proxies,
           cur' = cur \/ cur = Nobody,
           \A l \in listeners' : \E k \in listeners :
              l.svc = k.svc /\ l.port = k.port /\ l.fam = k.fam /\ l.target = k.target /\ (k.aborted => l.aborted),
           \A s \in Services : (\E q \in proxies' : q[1] = s) /\ s # cur' => \A n \in Networks : conn'[n][s] = conn[n][s],
           op' \in {"new", "down", "stopped"} => op \in {"new", "down", "stopped"} \/ proxies' = {},
           op' \in {"restart", "starting"} => \A q \in proxies' : q[1] \notin todo'
    PROVE  PortsInv'
<1> SUFFICES ASSUME NEW l \in listeners', l.fam = 4, ~l.aborted, <<l.svc, l.port>> \in proxies', l.svc # cur'
             PROVE  l.target = Target(l.svc)'
  BY DEF PortsInv
<1>1. PICK k \in listeners :
        l.svc = k.svc /\ l.port = k.port /\ l.fam = k.fam /\ l.target = k.target /\ (k.aborted => l.aborted)
  OBVIOUS
<1>2. k.svc \in Services /\ k.svc # cur
  BY <1>1, LifecycleAssumption, PortsTypes DEF PortsTypeOK
<1>3. k.target = Target(k.svc)
  BY <1>1, <1>2 DEF PortsInv
<1>4. \A n \in Networks : conn'[n][k.svc] = conn[n][k.svc]
  BY <1>1, <1>2
<1>5. Target(k.svc)' = Target(k.svc)
  BY <1>2, <1>4, TargetKept
<1> QED
  BY <1>1, <1>3, <1>5

\* Publishing the ports of the service that has been attached.
LEMMA PublishedKeeps ==
    ASSUME TypeInv, ControlInv, PortsInv, Attached, Published(cur, Target(cur))
    PROVE  PortsInv'
<1>1. cur \in Services /\ cur' = Nobody /\ UNCHANGED <<nets, subnetOf, conn>>
  BY LifeTypes DEF Attached, LifeTypeOK, networkVars, netVars
<1>2. \A s \in Services : Target(s)' = Target(s)
  BY <1>1, TargetKept
<1>3. op' \notin {"new", "down", "stopped", "restart", "starting"}
  BY DEF Attached, ControlInv
<1> SUFFICES ASSUME NEW l \in listeners', l.fam = 4, ~l.aborted, <<l.svc, l.port>> \in proxies'
             PROVE  l.target = Target(l.svc)'
  BY <1>3 DEF PortsInv
<1>4. CASE l.svc = cur /\ l.target = Target(cur)
  BY <1>1, <1>2, <1>4
<1>5. CASE /\ l.svc # cur
           /\ \E k \in listeners :
                 l.svc = k.svc /\ l.port = k.port /\ l.fam = k.fam /\ l.target = k.target /\ ~k.aborted
  <2>1. PICK k \in listeners :
          l.svc = k.svc /\ l.port = k.port /\ l.fam = k.fam /\ l.target = k.target /\ ~k.aborted
    BY <1>5
  <2>2. <<l.svc, l.port>> \in proxies
    BY <1>5 DEF Published
  <2>3. k.target = Target(k.svc) /\ k.svc \in Services
    BY <1>5, <2>1, <2>2, PortsTypes DEF PortsInv, PortsTypeOK
  <2> QED
    BY <1>2, <2>1, <2>3
<1> QED
  BY <1>4, <1>5 DEF Published

LEMMA PortsKept == ASSUME TypeInv, ControlInv, PortsInv, [Next]_vars PROVE PortsInv'
<1> USE LifecycleAssumption, LifeTypes DEF LifeTypeOK
<1>1. ASSUME UNCHANGED <<nets, subnetOf, portVars>>, cur' = cur \/ cur = Nobody,
             \A s \in Services \ {cur'}, n \in Networks : conn'[n][s] = conn[n][s],
             op' \in {"new", "down", "stopped"} => op \in {"new", "down", "stopped"},
             op' \in {"restart", "starting"} => op \in {"restart", "starting"} /\ todo' \subseteq todo
      PROVE  PortsInv'
  <2>1. /\ proxies' = proxies /\ listeners' = listeners
        /\ op \in {"new", "down", "stopped"} => proxies = {}
        /\ op \in {"restart", "starting"} => \A q \in proxies : q[1] \notin todo
    BY <1>1 DEF portVars, PortsInv
  <2> QED
    BY <1>1, <2>1, PortsUndisturbed
<1>2. CASE UpBegin
  BY <1>2 DEF UpBegin, PortsInv, portVars
<1>3. ASSUME NEW s \in Services, UpStart(s) \/ ReapOne(s) \/ RestartStart(s) \/ PauseOrUnpause(s)
      PROVE  PortsInv'
  <2>1. UNCHANGED <<nets, subnetOf, conn, portVars>>
    BY <1>3 DEF UpStart, ReapOne, RestartStart, PauseOrUnpause, networkVars, netVars
  <2>2. cur' = cur \/ cur = Nobody
    BY <1>3 DEF UpStart, ReapOne, RestartStart, PauseOrUnpause, ControlInv
  <2>3. /\ op' \notin {"new", "down", "stopped"}
        /\ op' \in {"restart", "starting"} => op = "starting" /\ todo' = {}
    BY <1>3 DEF UpStart, ReapOne, RestartStart, PauseOrUnpause
  <2> QED
    BY <1>1, <2>1, <2>2, <2>3
<1>4. ASSUME UpDone \/ TickBegin \/ PollAndMirror \/ DownEnd PROVE PortsInv'
  <2>1. CASE DownEnd
    BY <1>4, <2>1 DEF DownEnd, PortsInv, portVars
  <2>2. CASE UpDone \/ TickBegin \/ PollAndMirror
    <3>1. UNCHANGED <<nets, subnetOf, conn, portVars, cur>> /\ op' \in {"idle", "reap"}
      BY <2>2 DEF UpDone, TickBegin, PollAndMirror, networkVars, netVars
    <3> QED
      BY <1>1, <3>1
  <2> QED
    BY <1>4, <2>1, <2>2
<1>5. ASSUME NEW n \in Networks, ConnectNext(n) PROVE PortsInv'
  <2>1. UNCHANGED <<op, todo, cur, portVars>> /\ cur \in Services /\ svc' = svc
    BY <1>5 DEF ConnectNext, runtimeVars
  <2>2. ConnectService(cur, n, svc[cur].pid # 0, NsOf(cur))
    BY <1>5 DEF ConnectNext, NsOf
  <2>3. /\ UNCHANGED <<nets, subnetOf>>
        /\ \A k \in Networks, t \in Services : k # n \/ t # cur => conn'[k][t] = conn[k][t]
    BY <2>1, <2>2, NetworkTypes DEF ConnectService
  <2> QED
    BY <1>1, <2>1, <2>3
<1>6. ASSUME Attached PROVE PortsInv'
  <2>1. CASE HostPorts[cur] = {}
    <3>1. UNCHANGED <<nets, subnetOf, conn>> /\ proxies' = proxies /\ listeners' = listeners /\ cur' = Nobody /\ cur \in Services
      BY <1>6, <2>1 DEF Attached, networkVars, netVars, portVars
    <3>2. \A s \in Services : Target(s)' = Target(s)
      BY <3>1, TargetKept
    <3>3. op' \notin {"new", "down", "stopped", "restart", "starting"}
      BY <1>6 DEF Attached, ControlInv
    <3>4. \A l \in listeners : l.svc # cur /\ l.svc \in Services
      BY <2>1, PortsTypes DEF PortsTypeOK
    <3> QED
      BY <3>1, <3>2, <3>3, <3>4 DEF PortsInv
  <2>2. CASE HostPorts[cur] # {}
    <3>1. cur \in Services /\ ApplyPorts(cur, Target(cur))
      BY <1>6, <2>2 DEF Attached
    <3>2. Published(cur, Target(cur))
      BY <3>1, ApplyPortsFacts, TargetType
    <3> QED
      BY <1>6, <3>2, PublishedKeeps
  <2> QED
    BY <2>1, <2>2
<1>7. ASSUME ReapRefresh PROVE PortsInv'
  <2>1. CASE restarted = {}
    <3>1. UNCHANGED <<nets, subnetOf, conn, portVars, cur>> /\ op' = "poll"
      BY <1>7, <2>1 DEF ReapRefresh, networkVars, netVars
    <3> QED
      BY <1>1, <3>1
  <2>2. CASE restarted # {}
    <3>1. PICK s \in restarted : op' = "refresh" /\ DisconnectServices({s}) /\ cur' = s
      BY <1>7, <2>2 DEF ReapRefresh
    <3>2. s \in Services /\ {s} \in SUBSET Services /\ cur = Nobody /\ UNCHANGED portVars
      BY <1>7, <3>1 DEF ReapRefresh
    <3>3. UNCHANGED <<nets, subnetOf>> /\ \A n \in Networks, t \in Services \ {s} : conn'[n][t] = conn[n][t]
      BY <3>1, <3>2, DisconnectFacts
    <3> QED
      BY <1>1, <3>1, <3>2, <3>3
  <2> QED
    BY <2>1, <2>2
<1>8. ASSUME NEW s \in Services, RestartService(s) PROVE PortsInv'
  <2>1. {s} \in SUBSET Services /\ StopPorts(s) /\ DisconnectServices({s}) /\ op' = "restart" /\ todo' = {s} /\ cur' = cur
    BY <1>8 DEF RestartService
  <2>2. UNCHANGED <<nets, subnetOf>> /\ \A n \in Networks, t \in Services \ {s} : conn'[n][t] = conn[n][t]
    BY <2>1, DisconnectFacts
  <2>3. /\ \A l \in listeners' : \E k \in listeners :
              l.svc = k.svc /\ l.port = k.port /\ l.fam = k.fam /\ l.target = k.target /\ (k.aborted => l.aborted)
        /\ proxies' \subseteq proxies /\ \A q \in proxies' : q[1] # s
    BY <2>1, StopPortsFacts
  <2> QED
    BY <2>1, <2>2, <2>3, PortsUndisturbed
<1>9. ASSUME NEW s \in Services, RestartStop(s) \/ DownStop(s) PROVE PortsInv'
  <2>1. UNCHANGED <<nets, subnetOf, conn, portVars, cur>>
    BY <1>9 DEF RestartStop, DownStop, StopService, networkVars, netVars
  <2>2. \/ op = "restart" /\ op' = "starting" /\ todo' = todo
        \/ op = "down" /\ op' = "down"
    BY <1>9 DEF RestartStop, DownStop
  <2> QED
    BY <1>1, <2>1, <2>2
<1>10. ASSUME DownBegin PROVE PortsInv'
  BY <1>10 DEF DownBegin, StopAllPorts, PortsInv
<1>11. ASSUME \/ \E p \in Pids : Exit(p)
              \/ \E s \in Services : DeleteTask(s)
              \/ UNCHANGED vars
       PROVE  PortsInv'
  <2>1. UNCHANGED <<nets, subnetOf, conn, portVars, cur, op, todo>>
    BY <1>11 DEF Exit, DeleteTask, vars, lifeVars, networkVars, netVars
  <2> QED
    BY <1>1, <2>1
<1>12. ASSUME NEW l \in listeners, ListenerCloses(l) PROVE PortsInv'
  <2>1. UNCHANGED <<nets, subnetOf, conn, proxies, cur, op, todo>> /\ listeners' \subseteq listeners
    BY <1>12 DEF ListenerCloses, lifeVars, networkVars, netVars
  <2>2. /\ op \in {"new", "down", "stopped"} => proxies = {}
        /\ op \in {"restart", "starting"} => \A q \in proxies : q[1] \notin todo
    BY DEF PortsInv
  <2> QED
    BY <2>1, <2>2, PortsUndisturbed
<1> QED
  BY <1>2, <1>3, <1>4, <1>5, <1>6, <1>7, <1>8, <1>9, <1>10, <1>11, <1>12 DEF Next, Supervise
-----------------------------------------------------------------------------
(* Links.                                                                  *)

LEMMA OwnKept == ASSUME TypeInv, HaltedAreDead, OwnInv, [Next]_vars PROVE OwnInv'
<1>1. (/\ \A s \in Services : svc'[s].pid = svc[s].pid
       /\ \A p \in Pids : proc'[p].of = proc[p].of) => OwnInv'
  BY HeldPids DEF OwnInv
<1>2. ASSUME NEW s \in Services, NEW r, Start(s, r) PROVE OwnInv'
  <2> SUFFICES ASSUME NEW t \in Services, svc'[t].pid # 0
               PROVE  proc'[svc'[t].pid].of = t
    BY DEF OwnInv
  <2>1. CASE t = s /\ svc'[s] = r.entry /\ r.entry # NoEntry
    <3>1. \A q \in Pids \cup {0} : Entry("Running", q).pid = q /\ Entry("Failed", q).pid = q
      BY DEF Entry
    <3>4. \A st \in {"Running", "Failed"} : r.entry # Entry(st, 0)
      BY <2>1, <3>1
    <3>5. r \in StartService(s) /\ r.entry # NoEntry
      BY <1>2, <2>1 DEF Start
    <3>6. \E p \in NextPid : r.entry = Entry("Running", p) /\ r.proc = Spawned(s, p, {s})
      <4>1. \/ Untouched(r) /\ r.entry = NoEntry
            \/ /\ Untouched(r) /\ Kind[s] = "wasm"
               /\ \E st \in {"Running", "Failed"} : r.entry = Entry(st, 0)
            \/ \E p \in NextPid :
                  /\ Kind[s] = "process" /\ r.entry = Entry("Running", p)
                  /\ r.proc = Spawned(s, p, {s}) /\ r.task = task /\ r.container = container
            \/ \E p \in NextPid :
                  /\ Kind[s] = "oci" /\ s \notin container
                  /\ r.task = [task EXCEPT ![s] = p] /\ r.container = container \cup {s}
                  /\ \/ r.entry = Entry("Running", p) /\ r.proc = Spawned(s, p, {s})
                     \/ r.entry = NoEntry /\ r.proc = Spawned(s, p, {})
        BY <3>5, StartCases
      <4> QED
        BY <3>4, <3>5, <4>1
    <3>2. PICK p \in NextPid : r.entry = Entry("Running", p) /\ r.proc = Spawned(s, p, {s})
      BY <3>6
    <3>3. p \in Pids /\ Spawned(s, p, {s})[p] = [of |-> s, state |-> "running", bad |-> 0]
      BY <3>2, SpawnedFacts
    <3> QED
      BY <1>2, <2>1, <3>1, <3>2, <3>3 DEF Start
  <2>2. CASE (t # s \/ r.entry = NoEntry) /\ svc'[t] = svc[t]
    <3>1. svc[t].pid \in Pids
      BY <2>2, RuntimeTypes DEF EntryRecord, Pids
    <3>2. proc'[svc[t].pid] = proc[svc[t].pid]
      BY <1>2, <2>2, <3>1, StartFacts DEF Start
    <3> QED
      BY <2>2, <3>1, <3>2 DEF OwnInv
  <2>3. CASE t = s /\ svc'[s] = NoEntry
    BY <2>3 DEF NoEntry
  <2> QED
    BY <1>2, <2>1, <2>2, <2>3, StartChanges
<1>3. ASSUME NEW s \in Services, NEW r, Stop(s, r) PROVE OwnInv'
  BY <1>1, <1>3, StopChanges, StopFacts DEF Stop
<1>4. ASSUME NEW s \in Services, GivenUp(s) PROVE OwnInv'
  BY <1>1, <1>4, GivenUpChanges DEF GivenUp
<1>5. CASE PollHealthchecks
  BY <1>1, <1>5, PollChanges
<1>6. ASSUME NEW s \in Services, PauseService(s) \/ UnpauseService(s) PROVE OwnInv'
  BY <1>1, <1>6, PauseChanges
<1>7. ASSUME NEW p \in Pids, NEW how \in {"failed", "succeeded"}, ProcessExits(p, how) PROVE OwnInv'
  BY <1>1, <1>7, ExitChanges
<1>8. CASE UNCHANGED <<svc, proc>>
  BY <1>8 DEF OwnInv
<1> QED
  BY <1>2, <1>3, <1>4, <1>5, <1>6, <1>7, <1>8, RuntimeStep DEF TaskDeleted, runtimeVars, vars

\* Nothing but a stop takes a container away, and a container that exists is
\* not started: its process can only die.
ContainersKept ==
    \A t \in Services : Kind[t] = "oci" /\ t \in container =>
       /\ t \in container'
       /\ Live(svc[t].pid)' => Live(svc[t].pid) /\ svc'[t].pid = svc[t].pid

\* The steps that stop no service.
StopsNothing ==
    \/ \E s \in Services : \E r : Start(s, r)
    \/ \E s \in Services : GivenUp(s) \/ PauseService(s) \/ UnpauseService(s)
    \/ PollHealthchecks
    \/ \E p \in Pids, how \in {"failed", "succeeded"} : ProcessExits(p, how)
    \/ UNCHANGED <<svc, proc, container>>

LEMMA ContainersStay == ASSUME TypeInv, StopsNothing PROVE ContainersKept
<1>0. \A p : Live(p)' <=> Alive(proc', p)
  BY DEF Live, Alive
<1>1. (/\ container' = container
       /\ \A s \in Services : svc'[s].pid = svc[s].pid
       /\ \A p \in Pids : Alive(proc', p) => Live(p)) => ContainersKept
  BY <1>0 DEF ContainersKept, Alive
<1>2. ASSUME NEW s \in Services, NEW r, Start(s, r) PROVE ContainersKept
  <2> SUFFICES ASSUME NEW t \in Services, Kind[t] = "oci", t \in container
               PROVE  /\ t \in container'
                      /\ Alive(proc', svc'[t].pid) => Live(svc[t].pid) /\ svc'[t].pid = svc[t].pid
    BY <1>0 DEF ContainersKept
  <2>1. t \in container'
    BY <1>2, StartFacts DEF Start
  <2>2. t # s \/ r.entry = NoEntry
    BY <1>2, StartFacts DEF Start
  <2>3. CASE svc'[t] = NoEntry
    BY <2>1, <2>3 DEF NoEntry, Alive, Pids
  <2>4. CASE svc'[t] = svc[t]
    <3>1. svc[t].pid \in Pids => proc'[svc[t].pid] = proc[svc[t].pid]
      BY <1>2, <2>2, StartFacts DEF Start
    <3> QED
      BY <2>1, <2>4, <3>1 DEF Alive, Live
  <2> QED
    BY <1>2, <2>2, <2>3, <2>4, StartChanges
<1>3. ASSUME NEW s \in Services, GivenUp(s) PROVE ContainersKept
  BY <1>1, <1>3, GivenUpChanges DEF GivenUp, Alive, Live
<1>4. CASE PollHealthchecks
  BY <1>1, <1>4, PollChanges DEF Alive, Live
<1>5. ASSUME NEW s \in Services, PauseService(s) \/ UnpauseService(s) PROVE ContainersKept
  BY <1>1, <1>5, PauseChanges
<1>6. ASSUME NEW p \in Pids, NEW how \in {"failed", "succeeded"}, ProcessExits(p, how) PROVE ContainersKept
  BY <1>1, <1>6, ExitChanges
<1>7. CASE UNCHANGED <<svc, proc, container>>
  BY <1>1, <1>7 DEF Alive, Live
<1> QED
  BY <1>2, <1>3, <1>4, <1>5, <1>6, <1>7 DEF StopsNothing

\* What attaching s to n in the namespace ns does to the links.
LinksAfter(s, n, ns) ==
    /\ \A t \in Services \ {s} : vethOn'[n][t] = vethOn[n][t] /\ veth'[t] = veth[t]
    /\ \/ vethOn'[n][s] = vethOn[n][s] /\ veth'[s] = veth[s]
       \/ ~vethOn'[n][s]
       \/ ns # NoNs /\ veth'[s] = Link(n, ns)

LEMMA ConnectLinks ==
    ASSUME TypeInv, NEW s \in Services, NEW n \in Networks, NEW ns \in Namespaces, NEW hasPid,
           ConnectService(s, n, hasPid, ns)
    PROVE  LinksAfter(s, n, ns)
<1>1. /\ \A k \in Networks, t \in Services : k # n \/ t # s =>
            conn'[k][t] = conn[k][t] /\ vethOn'[k][t] = vethOn[k][t]
      /\ \A t \in Services \ {s} : veth'[t] = veth[t] /\ dns'[t] = dns[t]
  BY ConnectFacts
<1>2. \/ vethOn'[n][s] = vethOn[n][s] /\ veth'[s] = veth[s]
      \/ ~vethOn'[n][s]
      \/ ns # NoNs /\ veth'[s] = Link(n, ns)
  BY ConnectFacts
<1> QED
  BY <1>1, <1>2 DEF LinksAfter

LEMMA LinksKept ==
    ASSUME \A n, k \in Networks : n = k, CoreInv, OwnInv, LinksInv, [Next]_vars
    PROVE  LinksInv'
<1> USE LifecycleAssumption, LifeTypes DEF CoreInv, LifeTypeOK
<1>0. TypeInv /\ ControlInv /\ HaltedAreDead /\ LiveAtHome
  BY DEF ProcessInv
<1>1. (\A n \in Networks, s \in Services : ~vethOn'[n][s]) => LinksInv'
  BY DEF LinksInv
\* A step that attaches nothing.
<1>2. ASSUME ContainersKept, op' # "down",
             \A n \in Networks, s \in Services : vethOn'[n][s] => vethOn[n][s] /\ veth'[s] = veth[s],
             \A n \in Networks, s \in Services : vethOn'[n][s] /\ Halted(s)' => Halted(s),
             \A n \in Networks, s \in Services : vethOn'[n][s] /\ op' \in {"restart", "starting"} /\ s \in todo' =>
                op \in {"restart", "starting"} /\ s \in todo
      PROVE  LinksInv'
  <2> SUFFICES ASSUME NEW n \in Networks, NEW s \in Services, Kind[s] = "oci", vethOn'[n][s]
               PROVE  /\ s \in container' /\ ~Halted(s)' /\ op' # "down"
                      /\ op' \in {"restart", "starting"} => s \notin todo'
                      /\ Live(svc[s].pid)' => veth'[s] = Link(n, svc'[s].pid)
    BY DEF LinksInv
  <2>1. /\ s \in container /\ ~Halted(s)
        /\ op \in {"restart", "starting"} => s \notin todo
        /\ Live(svc[s].pid) => veth[s] = Link(n, svc[s].pid)
    BY <1>2 DEF LinksInv
  <2> QED
    BY <1>2, <2>1 DEF ContainersKept
<1>3. ASSUME Next, op \notin {"restart", "down"} PROVE ContainersKept
  <2>1. \A s \in Services : ~RestartStop(s) /\ ~DownStop(s)
    BY <1>3 DEF RestartStop, DownStop
  <2>2. StopsNothing
    BY <1>0, <1>3, <2>1, RuntimeStep DEF StopsNothing, TaskDeleted, runtimeVars
  <2> QED
    BY <1>0, <2>2, ContainersStay
<1>4. ASSUME UpBegin \/ DownBegin \/ DownEnd PROVE LinksInv'
  <2>1. CASE UpBegin
    BY <1>0, <1>1, <2>1, CreateFacts DEF UpBegin
  <2>2. CASE DownBegin
    <3>1. {s \in Services : health[s] # "none"} = Services
      BY <1>0, <2>2 DEF DownBegin, ControlInv
    <3> QED
      BY <1>0, <1>1, <2>2, <3>1, DisconnectFacts DEF DownBegin
  <2>3. CASE DownEnd
    BY <1>0, <1>1, <2>3, DeleteFacts DEF DownEnd
  <2> QED
    BY <1>4, <2>1, <2>2, <2>3
<1>5. ASSUME Next, NEW s \in Services, UpStart(s) \/ ReapOne(s) \/ RestartStart(s) \/ PauseOrUnpause(s)
      PROVE  LinksInv'
  <2>1. UNCHANGED <<vethOn, veth>> /\ op \notin {"restart", "down"}
    BY <1>5 DEF UpStart, ReapOne, RestartStart, PauseOrUnpause, networkVars, netVars, devVars
  <2>2. op' # "down" /\ op' # "restart" /\ (op' = "starting" => todo' = {})
    BY <1>5 DEF UpStart, ReapOne, RestartStart, PauseOrUnpause
  <2>3. \A t \in Services : Halted(t)' => Halted(t)
    <3>1. CASE UpStart(s)
      <4>1. cur = Nobody /\ op = "up" /\ s \in todo
        BY <3>1 DEF UpStart, InWave
      <4>2. op' = "failed" \/ (op' = "up" /\ todo' = todo)
        BY <3>1 DEF UpStart
      <4> QED
        BY <4>1, <4>2 DEF Halted
    <3>2. CASE ReapOne(s) \/ RestartStart(s) \/ PauseOrUnpause(s)
      <4>1. op' \in {"reap", "poll", "idle"} \/ (op' = "starting" /\ todo' = {})
        BY <3>2 DEF ReapOne, RestartStart, PauseOrUnpause
      <4> QED
        BY <4>1 DEF Halted
    <3> QED
      BY <1>5, <3>1, <3>2
  <2> QED
    BY <1>2, <1>3, <1>5, <2>1, <2>2, <2>3
<1>6. ASSUME Next, UpDone \/ TickBegin \/ PollAndMirror \/ Attached PROVE LinksInv'
  <2>1. UNCHANGED <<vethOn, veth>> /\ op \notin {"restart", "down"}
    BY <1>0, <1>6 DEF UpDone, TickBegin, PollAndMirror, Attached, ControlInv, networkVars, netVars, devVars
  <2>2. op' \notin {"down", "restart", "starting"}
    BY <1>0, <1>6 DEF UpDone, TickBegin, PollAndMirror, Attached, ControlInv
  <2>3. \A t \in Services : Halted(t)' => Halted(t)
    BY <1>0, <1>6 DEF UpDone, TickBegin, PollAndMirror, Attached, ControlInv, Halted
  <2> QED
    BY <1>2, <1>3, <1>6, <2>1, <2>2, <2>3
<1>7. ASSUME NEW n \in Networks, ConnectNext(n) PROVE LinksInv'
  <2>1. UNCHANGED <<op, todo, cur, svc, proc, container>> /\ cur \in Services
    BY <1>7 DEF ConnectNext, runtimeVars
  <2>2. ConnectService(cur, n, svc[cur].pid # 0, NsOf(cur)) /\ NsOf(cur) \in Namespaces
    BY <1>0, <1>7, <2>1, NsOfType DEF ConnectNext, NsOf
  <2>3. LinksAfter(cur, n, NsOf(cur))
    BY <1>0, <2>1, <2>2, ConnectLinks
  <2>4. \A t \in Services : Halted(t)' <=> Halted(t)
    BY <2>1 DEF Halted
  <2>5. \A t \in Services : Live(svc[t].pid)' <=> Live(svc[t].pid)
    BY <2>1 DEF Live
  <2> SUFFICES ASSUME NEW k \in Networks, NEW s \in Services, Kind[s] = "oci", vethOn'[k][s]
               PROVE  /\ s \in container /\ ~Halted(s) /\ op # "down"
                      /\ op \in {"restart", "starting"} => s \notin todo
                      /\ Live(svc[s].pid) => veth'[s] = Link(k, svc[s].pid)
    BY <2>1, <2>4, <2>5 DEF LinksInv
  <2>6. k = n
    OBVIOUS
  <2>7. CASE vethOn[n][s] /\ veth'[s] = veth[s]
    BY <2>6, <2>7 DEF LinksInv
  <2>8. CASE s = cur /\ NsOf(cur) # NoNs /\ veth'[cur] = Link(n, NsOf(cur))
    <3>1. Live(svc[cur].pid) /\ NsOf(cur) = svc[cur].pid
      BY <2>8 DEF NsOf
    <3>2. proc[svc[cur].pid].of = cur /\ svc[cur].pid \in Pids
      BY <2>1, <3>1, ManifestAssumption DEF OwnInv, Live, Pids
    <3>3. cur \in container
      BY <1>0, <2>8, <3>1, <3>2 DEF LiveAtHome
    <3>4. /\ ~Halted(cur) /\ op # "down"
          /\ op \in {"restart", "starting"} => cur \notin todo
      BY <1>0, <2>1 DEF ControlInv, Halted
    <3> QED
      BY <2>6, <2>8, <3>1, <3>3, <3>4
  <2> QED
    BY <2>3, <2>6, <2>7, <2>8 DEF LinksAfter
<1>8. ASSUME Next, ReapRefresh PROVE LinksInv'
  <2>1. ContainersKept
    BY <1>3, <1>8 DEF ReapRefresh
  <2>2. op' \in {"poll", "refresh"}
    BY <1>8 DEF ReapRefresh
  <2>3. \A n \in Networks, s \in Services : vethOn'[n][s] => vethOn[n][s] /\ veth'[s] = veth[s]
    <3>1. CASE restarted = {}
      BY <1>8, <3>1 DEF ReapRefresh, networkVars, netVars, devVars
    <3>2. CASE restarted # {}
      <4>1. PICK s \in restarted : DisconnectServices({s})
        BY <1>8, <3>2 DEF ReapRefresh
      <4>2. {s} \in SUBSET Services
        BY <1>0
      <4> QED
        BY <1>0, <4>1, <4>2, DisconnectFacts
    <3> QED
      BY <3>1, <3>2
  <2>4. \A s \in Services : ~Halted(s)'
    BY <2>2 DEF Halted
  <2> QED
    BY <1>2, <2>1, <2>2, <2>3, <2>4
<1>9. ASSUME Next, NEW s \in Services, RestartService(s) PROVE LinksInv'
  <2>1. ContainersKept
    BY <1>3, <1>9 DEF RestartService
  <2>2. op' = "restart" /\ todo' = {s} /\ DisconnectServices({s}) /\ {s} \in SUBSET Services
    BY <1>9 DEF RestartService
  <2>3. \A n \in Networks : ~vethOn'[n][s]
    BY <1>0, <2>2, DisconnectFacts
  <2>4. \A n \in Networks, t \in Services : vethOn'[n][t] => vethOn[n][t] /\ veth'[t] = veth[t]
    BY <1>0, <2>2, DisconnectFacts
  <2>5. \A t \in Services : ~Halted(t)'
    BY <2>2 DEF Halted
  <2> QED
    BY <1>2, <2>1, <2>2, <2>3, <2>4, <2>5
\* A stop takes the links of the dead away, and no other.
<1>10. ASSUME NEW s \in Services, RestartStop(s) PROVE LinksInv'
  <2>1. /\ StopService(s) /\ op = "restart" /\ s \in todo /\ op' = "starting" /\ todo' = todo
        /\ vethOn' = vethOn
    BY <1>10 DEF RestartStop, StopService, networkVars, netVars
  <2> SUFFICES ASSUME NEW n \in Networks, NEW t \in Services, Kind[t] = "oci", vethOn[n][t]
               PROVE  /\ t \in container' /\ t \notin todo
                      /\ Live(svc[t].pid)' => veth'[t] = Link(n, svc'[t].pid)
    <3>1. \A t \in Services : t \notin todo => ~Halted(t)'
      BY <2>1 DEF Halted
    <3> QED
      BY <2>1, <3>1 DEF LinksInv
  <2>2. t \in container /\ t \notin todo /\ (Live(svc[t].pid) => veth[t] = Link(n, svc[t].pid))
    BY <2>1 DEF LinksInv
  <2>3. CASE svc[s] = NoEntry
    <3>1. UNCHANGED <<svc, proc, container, veth>>
      BY <2>1, <2>3 DEF StopService, runtimeVars, networkVars, devVars
    <3> QED
      BY <2>2, <3>1 DEF Live
  <2>4. CASE svc[s] # NoEntry
    <3>1. PICK r \in StopOutcomes(s) :
                    /\ proc' = r.proc
                    /\ task' = [task EXCEPT ![s] = r.task]
                    /\ container' = IF r.kept THEN container ELSE container \ {s}
                    /\ Detach({p \in Pids : Live(p) /\ r.proc[p] # proc[p]})
      BY <1>0, <2>1, <2>4, StopServiceCases
    <3>2. svc'[t].pid = svc[t].pid /\ \A q \in Pids : Live(q)' => Live(q) /\ r.proc[q] = proc[q]
      BY <1>0, <2>1, <3>1, StopServiceKills, StopFacts DEF Live, Alive
    <3>3. ASSUME Live(svc[t].pid)' PROVE veth'[t] = veth[t]
      <4>1. svc[t].pid \in Pids
        BY <3>2, <3>3 DEF Live, Pids
      <4>2. veth[t].peerNs = svc[t].pid /\ r.proc[svc[t].pid] = proc[svc[t].pid]
        BY <2>2, <3>2, <3>3, <4>1 DEF Link
      <4> QED
        BY <1>0, <3>1, <4>2, NamespacesGoneFacts DEF Detach
    <3>4. Live(svc[t].pid)' => Live(svc[t].pid)
      BY <3>2 DEF Live, Pids
    <3> QED
      BY <2>1, <2>2, <3>1, <3>2, <3>3, <3>4
  <2> QED
    BY <2>3, <2>4
<1>11. ASSUME NEW s \in Services, DownStop(s) PROVE LinksInv'
  <2>1. op = "down" /\ vethOn' = vethOn
    BY <1>11 DEF DownStop, StopService, networkVars, netVars
  <2> QED
    BY <2>1 DEF LinksInv
<1>12. ASSUME NEW p \in Pids, Exit(p) PROVE LinksInv'
  <2>1. PICK how \in {"failed", "succeeded"} : ProcessExits(p, how)
    BY <1>12 DEF Exit
  <2>2. UNCHANGED <<op, todo, cur, vethOn>> /\ veth' = NamespacesGone({p})
    BY <1>12 DEF Exit, lifeVars, netVars
  <2>3. UNCHANGED <<svc, container>> /\ \A q \in Pids : Live(q)' => Live(q) /\ q # p
    BY <1>0, <2>1, ExitChanges DEF Alive, Live
  <2>4. \A t \in Services : Halted(t)' <=> Halted(t)
    BY <2>2 DEF Halted
  <2> SUFFICES ASSUME NEW n \in Networks, NEW t \in Services, Kind[t] = "oci", vethOn[n][t], Live(svc[t].pid)'
               PROVE  veth'[t] = Link(n, svc[t].pid)
    BY <2>2, <2>3, <2>4 DEF LinksInv
  <2>5. svc[t].pid \in Pids /\ Live(svc[t].pid) /\ svc[t].pid # p
    BY <2>3 DEF Live, Pids
  <2>6. veth[t] = Link(n, svc[t].pid)
    BY <2>5 DEF LinksInv
  <2> QED
    BY <1>0, <2>2, <2>5, <2>6, NamespacesGoneFacts DEF Link
<1>13. ASSUME \/ \E s \in Services : DeleteTask(s)
              \/ \E l \in listeners : ListenerCloses(l)
              \/ UNCHANGED vars
       PROVE  LinksInv'
  <2>1. UNCHANGED <<op, todo, cur, vethOn, veth, svc, proc, container>>
    BY <1>13 DEF DeleteTask, TaskDeleted, ListenerCloses, vars, lifeVars, runtimeVars, networkVars, netVars, devVars
  <2>2. \A t \in Services : Halted(t)' <=> Halted(t)
    BY <2>1 DEF Halted
  <2> QED
    BY <2>1, <2>2 DEF LinksInv, Live
<1> QED
  BY <1>4, <1>5, <1>6, <1>7, <1>8, <1>9, <1>10, <1>11, <1>12, <1>13 DEF Next, Supervise

\* Between two calls a published port leads to the address the service has now,
\* and in an environment of one network a live container that is held to be on
\* it has the far end of its veth and the bridge the near one.
THEOREM LinksSoundAlways == Spec => []LinksSound
<1> DEFINE OneNet == \A n, k \in Networks : n = k
           LI == OwnInv /\ (OneNet => LinksInv) /\ PortsInv
<1>1. Init => LI
  <2> SUFFICES ASSUME Init PROVE LI
    OBVIOUS
  <2>1. OwnInv
    BY DEF Init, RuntimeInit, OwnInv, NoEntry
  <2>2. LinksInv
    BY DEF Init, NetworkInit, LinksInv
  <2>3. PortsInv
    BY DEF Init, PortsInv
  <2> QED
    BY <2>1, <2>2, <2>3
<1>2. CoreInv /\ LI /\ [Next]_vars => LI'
  BY OwnKept, LinksKept, PortsKept DEF CoreInv, ProcessInv
<1>3. CoreInv /\ LI => ProxyTargetsCurrent
  <2> SUFFICES ASSUME CoreInv, LI, op = "idle" PROVE \A l \in listeners : l.svc # cur
    BY DEF PortsInv, ProxyTargetsCurrent
  <2>1. cur = Nobody
    BY DEF CoreInv, ControlInv
  <2> QED
    BY <2>1, LifecycleAssumption, PortsTypes DEF CoreInv, PortsTypeOK
<1>4. CoreInv /\ LI => LinkReachesContainer
  <2>1. Cardinality(Networks) = 1 => OneNet
    <3> SUFFICES ASSUME Cardinality(Networks) = 1 PROVE OneNet
      OBVIOUS
    <3>1. PICK m : Networks = {m}
      BY FS_Singleton, ManifestAssumption
    <3> QED
      BY <3>1
  <2>2. CoreInv => nets \subseteq Networks
    BY NetworkTypes DEF CoreInv
  <2> QED
    BY <2>1, <2>2 DEF LinksInv, LinkReachesContainer
<1>5. CoreInv /\ LI => LinksSound
  BY <1>3, <1>4 DEF LinksSound
<1> QED
  BY <1>1, <1>2, <1>5, CoreHolds, PTL DEF Spec
=============================================================================
