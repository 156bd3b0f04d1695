---------------------------- MODULE ConfigStore ----------------------------
(***************************************************************************)
(* The Frontier control plane's in-memory configuration store              *)
(* (frontier/control-plane/internal/store), the handlers that write to it  *)
(* (internal/rest, internal/consul) and the WatchConfig streams that read  *)
(* its event bus (internal/grpc).                                          *)
(*                                                                         *)
(* A writer changes the configuration and takes the new version under mu,  *)
(* releases mu, and only then publishes the diff under subMu: the change   *)
(* and its publication are separate steps, and two writers may publish in  *)
(* either order.  A subscriber is a bounded channel: a diff that finds it  *)
(* full is dropped.                                                        *)
(*                                                                         *)
(* The four resource kinds (routes, upstreams, plugins, TLS certificates)  *)
(* have the same code four times over; a Resource here is a (kind, name)   *)
(* pair and a Value its contents.                                          *)
(***************************************************************************)
EXTENDS Integers, Sequences

CONSTANTS
    Resources,      \* the (kind, name) pairs that may be configured
    Values,         \* what a resource may contain
    Absent,         \* marks a resource that is not in its map
    Writers,        \* goroutines running REST handlers or the Consul syncer
    Watchers,       \* clients of WatchConfig, one stream each
    QueueCap,       \* capacity of a subscriber channel (64 in the code)
    MaxVersion,     \* bound: writes in one life of the process
    MaxRestarts     \* bound: crashes of the control plane

ASSUME AbsentAssumption == Absent \notin Values
ASSUME BoundsAssumption == /\ QueueCap \in Nat \ {0}
                           /\ MaxVersion \in Nat
                           /\ MaxRestarts \in Nat

VARIABLES
    config,         \* Store.routes, .upstreams, .plugins and .tlsCerts
    version,        \* Store.version
    writerPc,       \* where each writer is
    request,        \* the resource and value a writer was asked to write
    pending,        \* the diff a writer holds between mu and subMu
    subscribers,    \* Store.subscribers
    queue,          \* the channel of each watcher's stream
    streamPc,       \* where each WatchConfigStream.Run is
    asked,          \* its argument lastKnownVersion
    opening,        \* the event it sent on connecting
    start,          \* its local snap.Version
    view,           \* client: the configuration built from the events
    known,          \* client: the version of the last event it received
    log,            \* history: log[v] is the configuration of version v
    seen,           \* history: versions delivered on the current stream
    inOrder,        \* history: each followed on the one before
    dropped,        \* history: versions dropped because the queue was full
    restarts

storeVars  == <<config, version, log>>
writerVars == <<writerPc, request, pending>>
streamVars == <<streamPc, asked, opening, start>>
clientVars == <<view, known>>
vars == <<storeVars, writerVars, subscribers, queue, streamVars, clientVars,
          seen, inOrder, dropped, restarts>>

----------------------------------------------------------------------------
Configs == [Resources -> Values \cup {Absent}]
Empty   == [r \in Resources |-> Absent]

\* ConfigDiff: what was added, updated (a value) or removed (Absent) between
\* two versions.
Changes == UNION {[R -> Values \cup {Absent}] : R \in SUBSET Resources}
Diffs   == [base: Nat, target: Nat, changes: Changes]
NoDiff == [base |-> 0, target |-> 0, changes |-> <<>>]

\* The meaning of a diff to whoever follows the stream.
Apply(c, diff) ==
    [r \in Resources |-> IF r \in DOMAIN diff.changes THEN diff.changes[r] ELSE c[r]]

\* Mutant: DeleteX forgets to fill in the Removed field.
DiffOfSetsOnly(r, val, v) ==
    [base |-> v - 1, target |-> v,
     changes |-> [x \in (IF val = Absent THEN {} ELSE {r}) |-> val]]

\* The diff SetX and DeleteX build for the write they have just made.
DiffOf(r, val, v) == [base |-> v - 1, target |-> v, changes |-> [x \in {r} |-> val]]

\* buildDiffSince: every resource of the snapshot as added, none as removed.
BuildDiffSince(base, c, v) ==
    [base |-> base, target |-> v,
     changes |-> [r \in {x \in Resources : c[x] # Absent} |-> c[r]]]

Targets(q) == {q[i].target : i \in 1..Len(q)}
PendingTargets == {pending[w].target : w \in {x \in Writers : writerPc[x] = "publish"}}

----------------------------------------------------------------------------
\* Every variable holds a value of its type.
TypeOK ==
    /\ config \in Configs
    /\ version \in 0..MaxVersion
    /\ log \in [0..version -> Configs]
    /\ writerPc \in [Writers -> {"idle", "update", "publish"}]
    /\ request \in [Writers -> (Resources \X Values) \cup {<<>>}]
    /\ pending \in [Writers -> Diffs]
    /\ subscribers \in SUBSET Watchers
    /\ queue \in [Watchers -> Seq(Diffs)]
    /\ streamPc \in [Watchers -> {"closed", "subscribed", "streaming"}]
    /\ asked \in [Watchers -> Nat]
    /\ opening \in [Watchers -> {"none", "snapshot", "diff"}]
    /\ start \in [Watchers -> Nat]
    /\ view \in [Watchers -> Configs]
    /\ known \in [Watchers -> Nat]
    /\ seen \in [Watchers -> SUBSET Nat]
    /\ inOrder \in [Watchers -> BOOLEAN]
    /\ dropped \in [Watchers -> SUBSET Nat]
    /\ restarts \in 0..MaxRestarts

Init ==
    /\ config = Empty
    /\ version = 0
    /\ log = [v \in {0} |-> Empty]
    /\ writerPc = [w \in Writers |-> "idle"]
    /\ request = [w \in Writers |-> <<>>]
    /\ pending = [w \in Writers |-> NoDiff]
    /\ subscribers = {}
    /\ queue = [s \in Watchers |-> <<>>]
    /\ streamPc = [s \in Watchers |-> "closed"]
    /\ asked = [s \in Watchers |-> 0]
    /\ opening = [s \in Watchers |-> "none"]
    /\ start = [s \in Watchers |-> 0]
    /\ view = [s \in Watchers |-> Empty]
    /\ known = [s \in Watchers |-> 0]
    /\ seen = [s \in Watchers |-> {}]
    /\ inOrder = [s \in Watchers |-> TRUE]
    /\ dropped = [s \in Watchers |-> {}]
    /\ restarts = 0

----------------------------------------------------------------------------
(* Writers *)

\* The critical section under Store.mu that SetX and DeleteX share: write the
\* map, take the next version, keep the diff for publishDiff.
Commit(w, r, val) ==
    /\ version < MaxVersion
    /\ config' = [config EXCEPT ![r] = val]
    /\ version' = version + 1
    /\ log' = [v \in 0..(version + 1) |-> IF v \in DOMAIN log THEN log[v] ELSE config']
    /\ pending' = [pending EXCEPT ![w] = DiffOf(r, val, version + 1)]
    /\ writerPc' = [writerPc EXCEPT ![w] = "publish"]

\* POST and the Consul syncer: SetX whether or not the name is taken.
Create(w, r, val) ==
    /\ writerPc[w] = "idle"
    /\ Commit(w, r, val)
    /\ UNCHANGED <<request, subscribers, queue, streamVars, clientVars, seen, inOrder, dropped, restarts>>

\* PUT, first half: GetX under its own read lock; 404 (no step) if absent.
UpdateLookup(w, r, val) ==
    /\ writerPc[w] = "idle"
    /\ config[r] # Absent
    /\ writerPc' = [writerPc EXCEPT ![w] = "update"]
    /\ request' = [request EXCEPT ![w] = <<r, val>>]
    /\ UNCHANGED <<storeVars, pending, subscribers, queue, streamVars, clientVars,
                   seen, inOrder, dropped, restarts>>

\* PUT, second half: SetX, which no longer looks whether the name exists.
UpdateSet(w) ==
    /\ writerPc[w] = "update"
    /\ Commit(w, request[w][1], request[w][2])
    /\ request' = [request EXCEPT ![w] = <<>>]
    /\ UNCHANGED <<subscribers, queue, streamVars, clientVars, seen, inOrder, dropped, restarts>>

\* DELETE: DeleteX checks and removes in one critical section.
Delete(w, r) ==
    /\ writerPc[w] = "idle"
    /\ config[r] # Absent
    /\ Commit(w, r, Absent)
    /\ UNCHANGED <<request, subscribers, queue, streamVars, clientVars, seen, inOrder, dropped, restarts>>

\* Mutant: the writer does not forget the diff it has published.
PublishDiffAgain(w) ==
    /\ writerPc[w] = "publish"
    /\ queue' = [s \in Watchers |->
                    IF s \in subscribers /\ Len(queue[s]) < QueueCap
                    THEN Append(queue[s], pending[w]) ELSE queue[s]]
    /\ UNCHANGED <<storeVars, writerVars, subscribers, streamVars, clientVars,
                   seen, inOrder, dropped, restarts>>

\* publishDiff: under subMu, a non-blocking send to every subscriber.
PublishDiff(w) ==
    LET hasRoom(s) == s \in subscribers /\ Len(queue[s]) < QueueCap
        isFull(s)  == s \in subscribers /\ Len(queue[s]) >= QueueCap
        d == pending[w]
    IN  /\ writerPc[w] = "publish"
        /\ queue' = [s \in Watchers |->
                        IF hasRoom(s) THEN Append(queue[s], d) ELSE queue[s]]
        /\ dropped' = [s \in Watchers |->
                        IF isFull(s) THEN dropped[s] \cup {d.target} ELSE dropped[s]]
        /\ writerPc' = [writerPc EXCEPT ![w] = "idle"]
        /\ pending' = [pending EXCEPT ![w] = NoDiff]
        /\ UNCHANGED <<storeVars, request, subscribers, streamVars, clientVars, seen, inOrder, restarts>>

----------------------------------------------------------------------------
(* WatchConfig streams *)

\* A client (re)connects, naming the version it has; Run subscribes first.
Subscribe(s) ==
    /\ streamPc[s] = "closed"
    /\ asked' = [asked EXCEPT ![s] = known[s]]
    /\ subscribers' = subscribers \cup {s}
    /\ queue' = [queue EXCEPT ![s] = <<>>]
    /\ streamPc' = [streamPc EXCEPT ![s] = "subscribed"]
    /\ opening' = [opening EXCEPT ![s] = "none"]
    /\ seen' = [seen EXCEPT ![s] = {}]
    /\ inOrder' = [inOrder EXCEPT ![s] = TRUE]
    /\ dropped' = [dropped EXCEPT ![s] = {}]
    /\ UNCHANGED <<storeVars, writerVars, start, clientVars, restarts>>

\* Which event Run opens the stream with.
OpeningFor(lastKnown, v) ==
    IF lastKnown > 0 /\ lastKnown < v THEN "diff"
    ELSE IF lastKnown = 0 \/ lastKnown < v THEN "snapshot"
    ELSE "none"

\* Run takes its snapshot and sends the opening event.
Open(s) ==
    LET kind == OpeningFor(asked[s], version)
    IN  /\ streamPc[s] = "subscribed"
        /\ start' = [start EXCEPT ![s] = version]
        /\ opening' = [opening EXCEPT ![s] = kind]
        /\ view' = [view EXCEPT ![s] =
              CASE kind = "snapshot" -> config
                [] kind = "diff"     -> Apply(@, BuildDiffSince(asked[s], config, version))
                [] OTHER             -> @]
        /\ known' = [known EXCEPT ![s] = IF kind = "none" THEN @ ELSE version]
        /\ streamPc' = [streamPc EXCEPT ![s] = "streaming"]
        /\ UNCHANGED <<storeVars, writerVars, subscribers, queue, asked, seen, inOrder, dropped, restarts>>

\* Mutant: Run skips a diff that is not newer than what it sent last.
DeliverNewerOnly(s) ==
    /\ streamPc[s] = "streaming"
    /\ queue[s] # <<>>
    /\ LET d == Head(queue[s]) IN
         IF d.target > known[s]
         THEN /\ view' = [view EXCEPT ![s] = Apply(@, d)]
              /\ known' = [known EXCEPT ![s] = d.target]
              /\ seen' = [seen EXCEPT ![s] = @ \cup {d.target}]
         ELSE UNCHANGED <<clientVars, seen>>
    /\ UNCHANGED inOrder
    /\ queue' = [queue EXCEPT ![s] = Tail(@)]
    /\ UNCHANGED <<storeVars, writerVars, subscribers, streamVars, dropped, restarts>>

\* Run's loop: receive one event from the channel and send it.
Deliver(s) ==
    /\ streamPc[s] = "streaming"
    /\ queue[s] # <<>>
    /\ LET d == Head(queue[s]) IN
         /\ view' = [view EXCEPT ![s] = Apply(@, d)]
         /\ known' = [known EXCEPT ![s] = d.target]
         /\ seen' = [seen EXCEPT ![s] = @ \cup {d.target}]
         /\ inOrder' = [inOrder EXCEPT ![s] = @ /\ (seen[s] = {} \/ d.base = known[s])]
    /\ queue' = [queue EXCEPT ![s] = Tail(@)]
    /\ UNCHANGED <<storeVars, writerVars, subscribers, streamVars, dropped, restarts>>

\* What is local to a stream, or said of it by the history, ends with it.
ForgetStreams(S) ==
    /\ asked' = [s \in Watchers |-> IF s \in S THEN 0 ELSE asked[s]]
    /\ opening' = [s \in Watchers |-> IF s \in S THEN "none" ELSE opening[s]]
    /\ start' = [s \in Watchers |-> IF s \in S THEN 0 ELSE start[s]]
    /\ seen' = [s \in Watchers |-> IF s \in S THEN {} ELSE seen[s]]
    /\ inOrder' = [s \in Watchers |-> s \in S \/ inOrder[s]]
    /\ dropped' = [s \in Watchers |-> IF s \in S THEN {} ELSE dropped[s]]

\* The context ends or sendFn fails: the deferred Unsubscribe removes the
\* channel, and what it still held is lost.
Disconnect(s) ==
    /\ streamPc[s] # "closed"
    /\ streamPc' = [streamPc EXCEPT ![s] = "closed"]
    /\ subscribers' = subscribers \ {s}
    /\ queue' = [queue EXCEPT ![s] = <<>>]
    /\ ForgetStreams({s})
    /\ UNCHANGED <<storeVars, writerVars, clientVars, restarts>>

\* The control plane dies and comes back: the store is in memory only, so it
\* is empty again and its version is 0; every stream is broken.
Restart ==
    /\ restarts < MaxRestarts
    /\ restarts' = restarts + 1
    /\ config' = Empty
    /\ version' = 0
    /\ log' = [v \in {0} |-> Empty]
    /\ writerPc' = [w \in Writers |-> "idle"]
    /\ request' = [w \in Writers |-> <<>>]
    /\ pending' = [w \in Writers |-> NoDiff]
    /\ subscribers' = {}
    /\ queue' = [s \in Watchers |-> <<>>]
    /\ streamPc' = [s \in Watchers |-> "closed"]
    /\ ForgetStreams(Watchers)
    /\ UNCHANGED clientVars

Next ==
    \/ \E w \in Writers, r \in Resources, val \in Values :
          Create(w, r, val) \/ UpdateLookup(w, r, val)
    \/ \E w \in Writers, r \in Resources : Delete(w, r)
    \/ \E w \in Writers : UpdateSet(w) \/ PublishDiff(w)
    \/ \E s \in Watchers : Subscribe(s) \/ Open(s) \/ Deliver(s) \/ Disconnect(s)
    \/ Restart

\* A goroutine that holds a diff publishes it (subMu is never held across a
\* blocking call), and a stream whose client reads keeps sending.
Fairness ==
    /\ \A w \in Writers : WF_vars(PublishDiff(w))
    /\ \A s \in Watchers : WF_vars(Open(s)) /\ WF_vars(Deliver(s))

Spec     == Init /\ [][Next]_vars
FairSpec == Spec /\ Fairness

----------------------------------------------------------------------------
(* Properties *)

\* A stream misses nothing silently: every version committed after its opening
\* snapshot is on its way to it (held by a writer or queued), was delivered, or
\* found the channel full.  This is what subscribing before taking the snapshot
\* buys (Run, server.go:93-96); a commit may fall anywhere between the two.
NoMissedUpdate ==
    \A s \in Watchers : streamPc[s] = "streaming" =>
        \A v \in (start[s] + 1)..version :
            v \in PendingTargets \cup Targets(queue[s]) \cup seen[s] \cup dropped[s]

\* No version reaches a stream twice: the diffs that writers hold, those in the
\* channel and those already sent are of different versions, however the
\* publications of concurrent writers interleave.
AtMostOnce ==
    /\ \A w1, w2 \in Writers :
          writerPc[w1] = "publish" /\ writerPc[w2] = "publish" /\ w1 # w2
            => pending[w1].target # pending[w2].target
    /\ \A s \in Watchers : streamPc[s] # "closed" =>
          /\ \A i, j \in 1..Len(queue[s]) :
                i # j => queue[s][i].target # queue[s][j].target
          /\ PendingTargets \cap (Targets(queue[s]) \cup seen[s]) = {}
          /\ Targets(queue[s]) \cap seen[s] = {}

\* A diff is exactly the change between the two versions it names, whenever it
\* is published and whatever was committed in between.
IsExact(l, d) ==
    /\ d.base \in DOMAIN l
    /\ d.target \in DOMAIN l
    /\ Apply(l[d.base], d) = l[d.target]
DiffsReplay ==
    /\ config = log[version]
    /\ \A w \in Writers : writerPc[w] = "publish" => IsExact(log, pending[w])
    /\ \A s \in Watchers : \A i \in 1..Len(queue[s]) : IsExact(log, queue[s][i])

\* A client that was sent a full snapshot and has drained its channel without a
\* drop has the store's configuration, provided the diffs it was sent follow one
\* on the other up to the store's version.  The first ones may be older than the
\* snapshot, for they were queued before it was taken: they take the client's
\* configuration back, and those that follow must repair that.
FollowedStore(s) ==
    /\ streamPc[s] = "streaming" /\ opening[s] = "snapshot"
    /\ queue[s] = <<>> /\ dropped[s] = {} /\ PendingTargets = {}
Converged ==
    \A s \in Watchers : FollowedStore(s) /\ inOrder[s] /\ known[s] = version => view[s] = config

\* Every version committed under an open stream is eventually sent on it, unless
\* it was dropped or the stream ends.
EventuallyDelivered ==
    \A s \in Watchers, v \in 1..MaxVersion :
        (streamPc[s] = "streaming" /\ v \in (start[s] + 1)..version)
            ~> (v \in seen[s] \cup dropped[s] \/ streamPc[s] # "streaming")

----------------------------------------------------------------------------
(* What the repository says and the code does not do: each is checked by a
   run that TLC must find violated. *)

\* frontier.proto:11, "WatchConfig streams the full snapshot on connect, then
\* incremental diffs": a client that applies them as they come follows the store,
\* with any number of writers.
SnapshotThenDiffs == \A s \in Watchers : FollowedStore(s) => view[s] = config

\* server.go:129, "constructs a diff from a base version to the current
\* snapshot": applied to the base version it gives the current one.
ResumeDiffExact ==
    \A s \in Watchers :
        streamPc[s] = "subscribed" /\ OpeningFor(asked[s], version) = "diff"
            => Apply(log[asked[s]], BuildDiffSince(asked[s], config, version)) = config
=============================================================================
