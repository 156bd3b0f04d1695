--------------------------- MODULE ConfigWatcher ---------------------------
(***************************************************************************)
(* The data plane's side of the configuration file (frontier/proxy          *)
(* listener.rs): ConfigWatcher polls the file's modification time, reads   *)
(* and parses it, and replaces the Router behind a tokio RwLock; every     *)
(* request holds that lock for reading from its arrival to its response.   *)
(* The lock is fair: a waiting writer holds back the readers that come     *)
(* after it.                                                               *)
(*                                                                         *)
(* The file belongs to whoever writes it; nothing here changes it.         *)
(***************************************************************************)
EXTENDS Integers

CONSTANTS
    Requests,           \* HTTP requests being served
    NoRouter,           \* the content of Router::new()
    MaxReadFailures,    \* bound: failed reads of the file
    MaxProxyRestarts    \* bound: restarts of the proxy

VARIABLES
    file,           \* the configuration file: content and modification time
    lastMtime,      \* ConfigWatcher.last_mtime, 0 for None
    watchPc,        \* where reload is
    data,           \* its local data
    router,         \* the content the Router was built from
    reqPc,          \* where each request is
    routedBy,       \* the Router a request is using
    readFailures,
    proxyRestarts

requestVars == <<reqPc, routedBy>>
watchVars == <<lastMtime, watchPc, data, router, requestVars, readFailures, proxyRestarts>>

Init ==
    /\ lastMtime = 0
    /\ watchPc = "sleep"
    /\ data = NoRouter
    /\ router = NoRouter
    /\ reqPc = [r \in Requests |-> "none"]
    /\ routedBy = [r \in Requests |-> NoRouter]
    /\ readFailures = 0
    /\ proxyRestarts = 0

----------------------------------------------------------------------------
\* reload, lines 217-228: the file exists and its modification time is not the
\* one remembered; the new one is remembered before the file is read.
NoticeChange ==
    /\ watchPc = "sleep"
    /\ file.mtime # 0 /\ file.mtime # lastMtime
    /\ lastMtime' = file.mtime
    /\ watchPc' = "read"
    /\ UNCHANGED <<data, router, requestVars, readFailures, proxyRestarts>>

\* Lines 230-232: what is read is the file as it is now, which may be newer
\* than the modification time that was remembered.
Read ==
    /\ watchPc = "read"
    /\ data' = file.content
    /\ watchPc' = "parse"
    /\ UNCHANGED <<lastMtime, router, requestVars, readFailures, proxyRestarts>>

\* The read fails; the error is logged and the file is not read again until
\* its modification time changes.
ReadFails ==
    /\ watchPc = "read"
    /\ readFailures < MaxReadFailures
    /\ readFailures' = readFailures + 1
    /\ watchPc' = "sleep"
    /\ UNCHANGED <<lastMtime, data, router, requestVars, proxyRestarts>>

\* Mutant: the modification time is remembered once more after the read.
ParseThenStat ==
    /\ watchPc = "parse"
    /\ lastMtime' = file.mtime
    /\ watchPc' = IF data.ok THEN "install" ELSE "sleep"
    /\ UNCHANGED <<data, router, requestVars, readFailures, proxyRestarts>>

\* Mutant: a file that does not parse is replaced by a default configuration.
ParseOrDefault ==
    /\ watchPc = "parse"
    /\ watchPc' = "install"
    /\ UNCHANGED <<lastMtime, data, router, requestVars, readFailures, proxyRestarts>>

\* Lines 234-237: serde_json and build_router.
Parse ==
    /\ watchPc = "parse"
    /\ watchPc' = IF data.ok THEN "install" ELSE "sleep"
    /\ UNCHANGED <<lastMtime, data, router, requestVars, readFailures, proxyRestarts>>

\* Mutant: the write lock is not waited for.
InstallNow ==
    /\ watchPc = "install"
    /\ router' = data
    /\ watchPc' = "sleep"
    /\ UNCHANGED <<lastMtime, data, requestVars, readFailures, proxyRestarts>>

\* Lines 239-242: the writer gets the lock when no request holds it, and its
\* release lets in the requests that queued behind it.
Install ==
    /\ watchPc = "install"
    /\ \A r \in Requests : reqPc[r] # "routing"
    /\ router' = data
    /\ watchPc' = "sleep"
    /\ reqPc' = [r \in Requests |-> IF reqPc[r] = "waiting" THEN "routing" ELSE reqPc[r]]
    /\ routedBy' = [r \in Requests |-> IF reqPc[r] = "waiting" THEN data ELSE routedBy[r]]
    /\ UNCHANGED <<lastMtime, data, readFailures, proxyRestarts>>

----------------------------------------------------------------------------
\* serve_connection, line 94: router.read().await.
Arrive(r) ==
    /\ reqPc[r] = "none"
    /\ IF watchPc = "install"
       THEN reqPc' = [reqPc EXCEPT ![r] = "waiting"] /\ UNCHANGED routedBy
       ELSE /\ reqPc' = [reqPc EXCEPT ![r] = "routing"]
            /\ routedBy' = [routedBy EXCEPT ![r] = router]
    /\ UNCHANGED <<lastMtime, watchPc, data, router, readFailures, proxyRestarts>>


\* route has its response, or an error, and the guard is dropped.
Respond(r) ==
    /\ reqPc[r] = "routing"
    /\ reqPc' = [reqPc EXCEPT ![r] = "none"]
    /\ routedBy' = [routedBy EXCEPT ![r] = NoRouter]
    /\ UNCHANGED <<lastMtime, watchPc, data, router, readFailures, proxyRestarts>>

\* The proxy process dies and starts again with an empty Router.
ProxyRestart ==
    /\ proxyRestarts < MaxProxyRestarts
    /\ proxyRestarts' = proxyRestarts + 1
    /\ lastMtime' = 0
    /\ watchPc' = "sleep"
    /\ data' = NoRouter
    /\ router' = NoRouter
    /\ reqPc' = [r \in Requests |-> "none"]
    /\ routedBy' = [r \in Requests |-> NoRouter]
    /\ UNCHANGED readFailures

Reload == NoticeChange \/ Read \/ ReadFails \/ Parse \/ Install
Serve  == \E r \in Requests : Arrive(r) \/ Respond(r)
Next   == Reload \/ Serve \/ ProxyRestart
=============================================================================
