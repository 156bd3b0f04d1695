----------------------------- MODULE ScopeAgent -----------------------------
(***************************************************************************)
(* The Scope agent: the kernel probe and its ring buffer                   *)
(* (scope/ebpf/probe), the loader's reader thread and queue                *)
(* (scope/ebpf/loader), the probes of the agent and their manager          *)
(* (scope/agent/src/probes.rs), the enrichment of events with the          *)
(* container of their process (enrichment.rs) and the exporter (otel.rs).  *)
(*                                                                         *)
(* There is one probe of the kernel, with a filter, and one stub, the Wasm *)
(* probe Origin records its invocations with.                              *)
(***************************************************************************)
EXTENDS Integers, Sequences, FiniteSets, SequencesExt

CONSTANTS
    Pids,          \* process ids, which are used again
    EventTypes,    \* types of events the kernel probe sees
    Filter,        \* those the agent's probe lets through
    RingCap,       \* the room in the kernel's ring buffer
    MaxKernel,     \* bound: events in the kernel
    MaxProcesses,  \* bound: processes
    MaxInvoked     \* bound: Wasm invocations recorded

ASSUME AgentAssumption ==
    /\ Filter \subseteq EventTypes /\ RingCap \in Nat /\ MaxKernel \in Nat
    /\ MaxProcesses \in Nat \ {0} /\ MaxInvoked \in Nat

VARIABLES
    eRing,         \* the kernel's ring buffer, of [id, type, pid]
    eQueue,        \* the loader's queue
    eReader,       \* the reader: "off", "stopCheck" or "reading"
    eProbe,        \* the probe: [state, attached, stopping]
    eStub,         \* the Wasm probe: [state, events]
    eOwner,        \* the process that has each process id
    eCache,        \* EnrichmentProvider.cache: [container, pod], the process each
                   \* was read from; pod is NoProcess if none was
                   \* found, both are if there is no entry
    eHand,         \* the event the agent has taken and not yet exported
    eSpans,        \* history: the events exported, with what they were enriched with
    eGone,         \* history: the ids of events that were filtered out or lost in a detachment
    eCount,        \* [kernel, accepted, processes, invoked, drained]
    eStale         \* history: process ids used again since they were cached or looked up

eVars == <<eRing, eQueue, eReader, eProbe, eStub, eOwner, eCache, eHand, eSpans, eGone, eCount, eStale>>

NoProcess == 0
NoEntry == [container |-> NoProcess, pod |-> NoProcess]
EmptyHand == [id |-> 0, pid |-> CHOOSE p \in Pids : TRUE, at |-> "none", container |-> NoProcess]
ProbeStates == {"Detached", "Attached", "Paused"}

ETypeOK ==
    /\ Len(eRing) <= RingCap /\ eReader \in {"off", "stopCheck", "reading"}
    /\ eProbe.state \in ProbeStates /\ eStub.state \in ProbeStates
    /\ (eReader # "off") => eProbe.attached
    /\ eOwner \in [Pids -> 0 .. MaxProcesses] /\ eStale \subseteq Pids
    /\ \A p \in Pids : eCache[p].container \in 0 .. MaxProcesses /\ eCache[p].pod \in 0 .. MaxProcesses
    /\ eHand.at \in {"none", "taken", "container"} /\ eCount.accepted \in 0 .. MaxKernel

EInit ==
    /\ eRing = <<>> /\ eQueue = <<>> /\ eReader = "off" /\ eHand = EmptyHand /\ eSpans = <<>> /\ eGone = {}
    /\ eProbe = [state |-> "Detached", attached |-> FALSE, stopping |-> FALSE]
    /\ eStub = [state |-> "Detached", events |-> <<>>]
    /\ eOwner = [p \in Pids |-> 1] /\ eCache = [p \in Pids |-> NoEntry]
    /\ eCount = [kernel |-> 0, accepted |-> 0, processes |-> 1, invoked |-> 0, drained |-> 0]
    /\ eStale = {}
-----------------------------------------------------------------------------
\* A kprobe fires.  A full ring buffer drops the event.
KernelEvent ==
    /\ eProbe.attached /\ eCount.kernel < MaxKernel
    /\ \E t \in EventTypes, p \in Pids :
         LET room == Len(eRing) < RingCap
         IN /\ eRing' = IF room THEN Append(eRing, [id |-> eCount.accepted + 1, type |-> t, pid |-> p]) ELSE eRing
            /\ eCount' = [eCount EXCEPT !.kernel = @ + 1, !.accepted = IF room THEN @ + 1 ELSE @]
    /\ UNCHANGED <<eQueue, eReader, eProbe, eStub, eOwner, eCache, eHand, eSpans, eGone, eStale>>

\* A process ends and its id goes to another one.
ReusePid ==
    /\ eCount.processes < MaxProcesses
    /\ \E p \in Pids :
         /\ eOwner' = [eOwner EXCEPT ![p] = eCount.processes + 1]
         /\ eStale' = eStale \cup {p}
    /\ eCount' = [eCount EXCEPT !.processes = @ + 1]
    /\ UNCHANGED <<eRing, eQueue, eReader, eProbe, eStub, eCache, eHand, eSpans, eGone>>
-----------------------------------------------------------------------------
(* The reader thread: the stop flag is looked at when the ring buffer has  *)
(* been emptied.                                                           *)

CheckStop ==
    /\ eReader = "stopCheck"
    /\ eReader' = IF eProbe.stopping THEN "off" ELSE "reading"
    /\ UNCHANGED <<eRing, eQueue, eProbe, eStub, eOwner, eCache, eHand, eSpans, eGone, eCount, eStale>>

ReadNext ==
    /\ eReader = "reading"
    /\ IF eRing = <<>> THEN eReader' = "stopCheck" /\ UNCHANGED <<eRing, eQueue>>
       ELSE eRing' = Tail(eRing) /\ eQueue' = Append(eQueue, Head(eRing)) /\ UNCHANGED eReader
    /\ UNCHANGED <<eProbe, eStub, eOwner, eCache, eHand, eSpans, eGone, eCount, eStale>>
-----------------------------------------------------------------------------
(* The probes.  Attaching takes privileges.                                *)

IdsOf(es) == {es[i].id : i \in DOMAIN es}

\* A probe that is attached again gets a new queue; the old one is dropped with
\* what it holds, once its reader is gone.
AttachKernelProbe(ok) ==
    /\ ~eProbe.stopping
    /\ IF ok THEN /\ eProbe' = [state |-> "Attached", attached |-> TRUE, stopping |-> FALSE]
                  /\ eRing' = <<>> /\ eQueue' = <<>> /\ eReader' = "stopCheck"
                  /\ eGone' = eGone \cup IdsOf(eRing) \cup IdsOf(eQueue)
             ELSE UNCHANGED <<eProbe, eRing, eQueue, eReader, eGone>>
SetStub(state) == eStub' = [eStub EXCEPT !.state = state]

\* attach_all goes through the probes in an order of its own and stops at the
\* first that fails.
AttachAll ==
    /\ \E ok, kernelFirst \in BOOLEAN :
         /\ AttachKernelProbe(ok)
         /\ IF kernelFirst /\ ~ok THEN UNCHANGED eStub ELSE SetStub("Attached")
    /\ UNCHANGED <<eOwner, eCache, eHand, eSpans, eCount, eStale>>

\* detach waits for the reader, then the probe goes, with its queue.
StartDetach ==
    /\ eProbe.attached /\ ~eProbe.stopping
    /\ eProbe' = [eProbe EXCEPT !.stopping = TRUE]
    /\ UNCHANGED <<eRing, eQueue, eReader, eStub, eOwner, eCache, eHand, eSpans, eGone, eCount, eStale>>
EndDetach ==
    /\ eProbe.stopping /\ eReader = "off"
    /\ eProbe' = [state |-> "Detached", attached |-> FALSE, stopping |-> FALSE]
    /\ eRing' = <<>> /\ eQueue' = <<>> /\ eGone' = eGone \cup IdsOf(eRing) \cup IdsOf(eQueue)
    /\ UNCHANGED <<eReader, eStub, eOwner, eCache, eHand, eSpans, eCount, eStale>>

\* pause and resume only change the state; the kernel probe goes on capturing,
\* and resume makes a probe that is detached look attached.
PauseOrResume ==
    /\ ~eProbe.stopping
    /\ \E s \in {"Paused", "Attached"} : eProbe' = [eProbe EXCEPT !.state = s] /\ SetStub(s)
    /\ UNCHANGED <<eRing, eQueue, eReader, eOwner, eCache, eHand, eSpans, eGone, eCount, eStale>>

DetachStub ==
    /\ SetStub("Detached")
    /\ UNCHANGED <<eRing, eQueue, eReader, eProbe, eOwner, eCache, eHand, eSpans, eGone, eCount, eStale>>

\* record_invocation and drain_events of the Wasm probe, in whatever state.
RecordInvocation ==
    /\ eCount.invoked < MaxInvoked
    /\ eStub' = [eStub EXCEPT !.events = Append(@, eCount.invoked + 1)]
    /\ eCount' = [eCount EXCEPT !.invoked = @ + 1]
    /\ UNCHANGED <<eRing, eQueue, eReader, eProbe, eOwner, eCache, eHand, eSpans, eGone, eStale>>
DrainInvocations ==
    /\ eStub.events # <<>>
    /\ eCount' = [eCount EXCEPT !.drained = @ + Len(eStub.events)] /\ eStub' = [eStub EXCEPT !.events = <<>>]
    /\ UNCHANGED <<eRing, eQueue, eReader, eProbe, eOwner, eCache, eHand, eSpans, eGone, eStale>>
-----------------------------------------------------------------------------
(* The agent: poll_event, enrich_with_fallback, emit_event                 *)

PollNewest ==
    /\ eHand.at = "none" /\ eQueue # <<>> /\ eProbe.attached /\ ~eProbe.stopping
    /\ LET e == Last(eQueue)
       IN IF e.type \in Filter THEN eHand' = [EmptyHand EXCEPT !.id = e.id, !.pid = e.pid, !.at = "taken"] /\ UNCHANGED eGone
          ELSE eGone' = eGone \cup {e.id} /\ UNCHANGED eHand
    /\ eQueue' = Front(eQueue)
    /\ UNCHANGED <<eRing, eReader, eProbe, eStub, eOwner, eCache, eSpans, eCount, eStale>>

\* An event that the filter stops is gone: the poll returns nothing, as if the
\* queue were empty.
PollEvent ==
    /\ eHand.at = "none" /\ eQueue # <<>> /\ eProbe.attached /\ ~eProbe.stopping
    /\ LET e == Head(eQueue)
       IN IF e.type \in Filter THEN eHand' = [EmptyHand EXCEPT !.id = e.id, !.pid = e.pid, !.at = "taken"] /\ UNCHANGED eGone
          ELSE eGone' = eGone \cup {e.id} /\ UNCHANGED eHand
    /\ eQueue' = Tail(eQueue)
    /\ UNCHANGED <<eRing, eReader, eProbe, eStub, eOwner, eCache, eSpans, eCount, eStale>>

Export(entry) ==
    /\ eSpans' = Append(eSpans, [id |-> eHand.id, pid |-> eHand.pid, container |-> entry.container, pod |-> entry.pod])
    /\ eHand' = EmptyHand

EnrichFromCache ==
    /\ eHand.at = "taken" /\ eCache[eHand.pid] # NoEntry
    /\ Export(eCache[eHand.pid])
    /\ UNCHANGED <<eRing, eQueue, eReader, eProbe, eStub, eOwner, eCache, eGone, eCount, eStale>>

\* extract_container_id: from here on the id may change hands.  A process that
\* is in no container, or is gone, is exported under its id and not cached.
ExtractContainerId ==
    /\ eHand.at = "taken" /\ eCache[eHand.pid] = NoEntry
    /\ \/ Export(NoEntry) /\ UNCHANGED eStale
       \/ /\ eHand' = [eHand EXCEPT !.at = "container", !.container = eOwner[eHand.pid]]
          /\ eStale' = eStale \ {eHand.pid} /\ UNCHANGED eSpans
    /\ UNCHANGED <<eRing, eQueue, eReader, eProbe, eStub, eOwner, eCache, eGone, eCount>>

\* build_enrichment: the environment of whatever process has the id now, or
\* nothing, if it cannot be read or names no pod; cached either way.
BuildEnrichment ==
    /\ eHand.at = "container"
    /\ \E pod \in {eOwner[eHand.pid], NoProcess} :
         LET entry == [container |-> eHand.container, pod |-> pod]
         IN eCache' = [eCache EXCEPT ![eHand.pid] = entry] /\ Export(entry)
    /\ UNCHANGED <<eRing, eQueue, eReader, eProbe, eStub, eOwner, eGone, eCount, eStale>>

\* invalidate; the entry of an id that is looked up at the moment is not there.
Invalidate ==
    /\ eHand.at # "container"
    /\ \E p \in Pids : eCache[p] # NoEntry /\ eCache' = [eCache EXCEPT ![p] = NoEntry]
    /\ UNCHANGED <<eRing, eQueue, eReader, eProbe, eStub, eOwner, eHand, eSpans, eGone, eCount, eStale>>

ENext ==
    \/ KernelEvent \/ ReusePid \/ CheckStop \/ ReadNext
    \/ AttachAll \/ StartDetach \/ EndDetach \/ PauseOrResume \/ DetachStub \/ RecordInvocation \/ DrainInvocations
    \/ PollEvent \/ EnrichFromCache \/ ExtractContainerId \/ BuildEnrichment \/ Invalidate

ESpec == EInit /\ [][ENext]_eVars
-----------------------------------------------------------------------------
\* Every event the ring buffer took is in one place: in the ring, the queue or
\* the agent's hands, exported, filtered out or lost in a detachment; and
\* events are exported once, in the order in which they happened.
EventsAccounted ==
    LET held == <<IdsOf(eRing), IdsOf(eQueue), IdsOf(eSpans), eGone, {eHand.id} \ {0}>>
    IN /\ UNION ToSet(held) = 1 .. eCount.accepted
       /\ \A i, j \in DOMAIN held : i # j => held[i] \cap held[j] = {}
       /\ \A i, j \in DOMAIN eSpans : i < j => eSpans[i].id < eSpans[j].id
       /\ Len(eStub.events) + eCount.drained = eCount.invoked

\* What is cached of a process id is of the process that has it, its container
\* and its pod, if that could be read, unless the id was used again since it was
\* looked up: never the container of one process with the pod of another.
EnrichedRight ==
    \A p \in Pids \ eStale :
       eCache[p] # NoEntry => eCache[p].container = eOwner[p] /\ eCache[p].pod \in {eOwner[p], NoProcess}

AgentSound == EventsAccounted /\ EnrichedRight
=============================================================================
