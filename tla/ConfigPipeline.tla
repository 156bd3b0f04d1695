--------------------------- MODULE ConfigPipeline ---------------------------
(***************************************************************************)
(* The path of a configuration from the control plane's store through the  *)
(* pusher and the file to the data plane's Router: ConfigPusher and        *)
(* ConfigWatcher, in two processes that share nothing but the file.        *)
(***************************************************************************)
EXTENDS ConfigPusher

CONSTANTS Requests, MaxReadFailures, MaxProxyRestarts

ASSUME PipelineAssumption == MaxReadFailures \in Nat /\ MaxProxyRestarts \in Nat

VARIABLES lastMtime, watchPc, data, router, reqPc, routedBy, readFailures, proxyRestarts

Watcher == INSTANCE ConfigWatcher WITH NoRouter <- NoSnap

watcherVars == <<lastMtime, watchPc, data, router, reqPc, routedBy, readFailures, proxyRestarts>>
pipelineVars == <<vars, watcherVars>>

\* Every variable holds a value of its type.
PipelineTypeOK ==
    /\ TypeOK
    /\ lastMtime \in Nat
    /\ watchPc \in {"sleep", "read", "parse", "install"}
    /\ data \in Snapshots
    /\ router \in Snapshots
    /\ reqPc \in [Requests -> {"none", "waiting", "routing"}]
    /\ routedBy \in [Requests -> Snapshots]
    /\ readFailures \in 0..MaxReadFailures
    /\ proxyRestarts \in 0..MaxProxyRestarts

PipelineInit == Init /\ Watcher!Init

PipelineNext ==
    \/ Next /\ UNCHANGED watcherVars
    \/ Watcher!Next /\ UNCHANGED vars

\* The watcher's loop polls for ever, and the fair lock keeps Install enabled
\* once the requests ahead of it are done; an upstream answers every request it is
\* sent (route sets no timeout of its own, so this is asked of the upstreams).
PipelineFairness ==
    /\ WF_pipelineVars(TakeSnapshot(Ticker) /\ UNCHANGED watcherVars)
    /\ \A p \in Pushers : WF_pipelineVars(Push(p) /\ UNCHANGED watcherVars)
    /\ WF_pipelineVars((Watcher!NoticeChange \/ Watcher!Read \/ Watcher!ReadFails
                          \/ Watcher!Parse) /\ UNCHANGED vars)
    /\ WF_pipelineVars(Watcher!Install /\ UNCHANGED vars)
    /\ \A r \in Requests : WF_pipelineVars(Watcher!Respond(r) /\ UNCHANGED vars)

PipelineSpec == PipelineInit /\ [][PipelineNext]_pipelineVars /\ PipelineFairness

----------------------------------------------------------------------------
(* Properties *)

\* A request is routed by one Router from its arrival to its response: the
\* Router is never replaced under it.
RoutedByOneRouter ==
    \A r \in Requests : reqPc[r] = "routing" => routedBy[r] = router

\* A configuration that does not parse never displaces one that does.
RouterParses == router.ok

\* The proxy keeps routing while the file changes under it: the variables hold
\* values of their types, and the Router is one that parses and stays in place
\* under a request.
RouterSound == PipelineTypeOK /\ RoutedByOneRouter /\ RouterParses

\* The Router of a running proxy never goes back to an older configuration,
\* although the watcher reads the file after its modification time, pushes come
\* in between, and either side may crash.
Older(a, b) == a.epoch < b.epoch \/ (a.epoch = b.epoch /\ a.version < b.version)
RouterMovesForward ==
    [][proxyRestarts' = proxyRestarts => ~Older(router', router)]_pipelineVars

\* A parseable configuration that the watcher has not noticed yet reaches the
\* Router, or one that was written after it does, through failed writes and restarts
\* of either process, unless a read of the file fails or the store is left with one
\* that does not parse, or lost: the modification time is remembered before the
\* read, and what could not be read is not read again.
Wanted == store.ok /\ store.version > 0
RouterCatchesUp ==
    \A n \in 0..MaxReadFailures :
        (Wanted /\ (file.content # store \/ file.mtime # lastMtime) /\ readFailures = n)
            ~> (router = store \/ ~Wanted \/ readFailures > n)

\* As long as the upstreams answer, the lock leaves nobody behind: a reload that
\* waits for the requests under way gets it although new requests keep arriving,
\* and the requests that queue behind the reload are served with it done.
SomeoneWaits == watchPc = "install" \/ \E r \in Requests : reqPc[r] = "waiting"
=============================================================================
