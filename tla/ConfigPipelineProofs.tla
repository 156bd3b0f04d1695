------------------------- MODULE ConfigPipelineProofs -------------------------
(***************************************************************************)
(* Proofs about ConfigPusher and ConfigPipeline, for every number of       *)
(* requests, failures, versions and restarts of either process.            *)
(*                                                                         *)
(* The pusher's types hold whoever pushes.  With the ticker as the only    *)
(* pusher, which is how main.go runs it, it implements PublishedFile;      *)
(* MCConfigPusher shows a run where it does not with a second pusher.      *)
(*                                                                         *)
(* That the Router never goes back needs the pusher's own invariant: the   *)
(* file only moves forward, so what the watcher has read of it lies        *)
(* between the Router and the file, however late it was read.              *)
(***************************************************************************)
EXTENDS ConfigPipeline, TLAPS

-----------------------------------------------------------------------------
(* The pusher.                                                             *)

\* The snapshots the model starts from are snapshots.
LEMMA SnapshotTypes ==
    /\ NoSnap \in Snapshots
    /\ \A e \in 0..MaxEpoch : Fresh(e) \in Snapshots
    /\ 1 \in 0..MaxEpoch
BY PusherAssumption DEF NoSnap, Fresh, Snapshots

\* The initial state is well typed.
LEMMA InitType == Init => TypeOK
<1> SUFFICES ASSUME Init PROVE TypeOK
  OBVIOUS
<1>1. store \in Snapshots
  BY SnapshotTypes DEF Init
<1>2. file \in [content: Snapshots, mtime: Nat]
  BY SnapshotTypes DEF Init, NoFile
<1>3. snap \in [Pushers -> Snapshots]
  BY SnapshotTypes DEF Init
<1>4. pushPc \in [Pushers -> {"idle", "compare", "write", "record"}]
  BY DEF Init
<1>5. lastVer \in 0..MaxVersion /\ failures \in 0..MaxFailures
  BY PusherAssumption DEF Init
<1> QED
  BY <1>1, <1>2, <1>3, <1>4, <1>5 DEF TypeOK

\* Every step keeps the types, however many goroutines push.
LEMMA TypeStep == TypeOK /\ [Next]_vars => TypeOK'
<1> SUFFICES ASSUME TypeOK, [Next]_vars PROVE TypeOK'
  OBVIOUS
<1>1. CASE Write
  <2>1. ASSUME NEW ok \in BOOLEAN, store' = [store EXCEPT !.version = @ + 1, !.ok = ok],
               store.version < MaxVersion
        PROVE  store' \in Snapshots
    <3>1. store.version + 1 \in 0..MaxVersion /\ store \in Snapshots
      BY <2>1, PusherAssumption DEF TypeOK, Snapshots
    <3>2. store' = [epoch |-> store.epoch, version |-> store.version + 1, ok |-> ok]
      BY <2>1, <3>1 DEF Snapshots
    <3> QED
      BY <3>1, <3>2 DEF Snapshots
  <2> QED
    BY <1>1, <2>1 DEF Write, TypeOK
<1>2. CASE Crash
  <2>1. store.epoch + 1 \in 0..MaxEpoch
    BY <1>2, PusherAssumption DEF Crash, TypeOK, Snapshots
  <2>2. Fresh(store.epoch + 1) \in Snapshots /\ NoSnap \in Snapshots
    BY <2>1, SnapshotTypes
  <2>3. snap' \in [Pushers -> Snapshots]
    BY <1>2, <2>2 DEF Crash
  <2>4. pushPc' \in [Pushers -> {"idle", "compare", "write", "record"}]
    BY <1>2 DEF Crash
  <2>5. lastVer' \in 0..MaxVersion
    BY <1>2, PusherAssumption DEF Crash
  <2>6. store' \in Snapshots
    BY <1>2, <2>2 DEF Crash
  <2> QED
    BY <1>2, <2>3, <2>4, <2>5, <2>6 DEF Crash, TypeOK
<1>3. ASSUME NEW p \in Pushers, TakeSnapshot(p) PROVE TypeOK'
  BY <1>3 DEF TakeSnapshot, Goto, TypeOK
<1>4. ASSUME NEW p \in Pushers, Unchanged(p) \/ Changed(p) PROVE TypeOK'
  BY <1>4 DEF Unchanged, Changed, Goto, TypeOK
<1>5. ASSUME NEW p \in Pushers, WriteFails(p) PROVE TypeOK'
  BY <1>5, PusherAssumption DEF WriteFails, Goto, TypeOK
<1>6. ASSUME NEW p \in Pushers, Rename(p) PROVE TypeOK'
  <2>1. PICK m \in {file.mtime, file.mtime + 1} : file' = [content |-> snap[p], mtime |-> m]
    BY <1>6 DEF Rename
  <2>2. snap[p] \in Snapshots /\ m \in Nat
    BY <2>1 DEF TypeOK
  <2> QED
    BY <1>6, <2>1, <2>2 DEF Rename, Goto, TypeOK
<1>7. ASSUME NEW p \in Pushers, Record(p) PROVE TypeOK'
  <2>1. snap[p].version \in 0..MaxVersion
    BY DEF TypeOK, Snapshots
  <2> QED
    BY <1>7, <2>1 DEF Record, Goto, TypeOK
<1>8. CASE UNCHANGED vars
  BY <1>8 DEF vars, pusherVars, TypeOK
<1> QED
  BY <1>1, <1>2, <1>3, <1>4, <1>5, <1>6, <1>7, <1>8 DEF Next, Push

\* Every variable keeps its type, however many goroutines push.
THEOREM TypeCorrect == Spec => []TypeOK
BY InitType, TypeStep, PTL DEF Spec

----------------------------------------------------------------------------
\* With one pusher: what it has in hand is the past of this life's store and
\* newer than what it recorded; what it recorded is what is in the file; and
\* until it records something the file belongs to an earlier life.
InHand ==
    pushPc[Ticker] # "idle" =>
        /\ snap[Ticker].epoch = store.epoch
        /\ lastVer <= snap[Ticker].version
        /\ snap[Ticker].version <= store.version

WorthWriting == pushPc[Ticker] \in {"write", "record"} => snap[Ticker].version # lastVer

InFile ==
    /\ pushPc[Ticker] = "record" => file.content = snap[Ticker]
    /\ pushPc[Ticker] # "record" /\ lastVer = 0 => file.content.epoch < store.epoch
    /\ LastVerIsFile

OnePusherInv == TypeOK /\ lastVer <= store.version /\ InHand /\ WorthWriting /\ InFile

\* The invariant of a single pusher holds at the start.
LEMMA OnePusherInit == Init => OnePusherInv
<1>1. Init => TypeOK
  BY InitType
<1> QED
  BY <1>1 DEF Init, OnePusherInv, InHand, WorthWriting, InFile, LastVerIsFile, Fresh,
              NoFile, NoSnap, Pushers

\* The invariant of a single pusher is inductive.
LEMMA OnePusherStep ==
    ASSUME Callers = {}, OnePusherInv, TypeOK', [Next]_vars
    PROVE  OnePusherInv'
<1> USE DEF OnePusherInv
<1>1. /\ Pushers = {Ticker} /\ Ticker \in Pushers
      /\ store.epoch \in Nat /\ store.version \in Nat /\ lastVer \in Nat
      /\ snap[Ticker].version \in Nat /\ snap[Ticker].epoch \in Nat
      /\ file.content.epoch \in Nat /\ file.content.version \in Nat
      /\ pushPc \in [Pushers -> {"idle", "compare", "write", "record"}]
      /\ snap \in [Pushers -> Snapshots]
  BY PusherAssumption DEF Pushers, TypeOK, Snapshots
<1>2. CASE Write
  <2>1. store'.version = store.version + 1 /\ store'.epoch = store.epoch
    BY <1>2 DEF Write, TypeOK, Snapshots
  <2> QED
    BY <1>1, <1>2, <2>1 DEF Write, InHand, WorthWriting, InFile, LastVerIsFile
<1>3. CASE Crash
  <2>1. store'.version = 0 /\ store'.epoch = store.epoch + 1 /\ pushPc'[Ticker] = "idle"
    BY <1>1, <1>3 DEF Crash, Fresh
  <2>2. file.content.epoch <= store.epoch
    BY <1>1 DEF InHand, InFile, LastVerIsFile
  <2> QED
    BY <1>1, <1>3, <2>1, <2>2 DEF Crash, InHand, WorthWriting, InFile, LastVerIsFile
<1>4. CASE TakeSnapshot(Ticker)
  BY <1>1, <1>4 DEF TakeSnapshot, Goto, InHand, WorthWriting, InFile, LastVerIsFile
<1>5. CASE Unchanged(Ticker) \/ Changed(Ticker) \/ WriteFails(Ticker)
  BY <1>1, <1>5 DEF Unchanged, Changed, WriteFails, Goto, InHand, WorthWriting,
                    InFile, LastVerIsFile
<1>6. CASE Rename(Ticker)
  <2>1. file'.content = snap[Ticker]
    BY <1>6 DEF Rename
  <2> QED
    BY <1>1, <1>6, <2>1 DEF Rename, Goto, InHand, WorthWriting, InFile, LastVerIsFile
<1>7. CASE Record(Ticker)
  BY <1>1, <1>7 DEF Record, Goto, InHand, WorthWriting, InFile, LastVerIsFile
<1>8. CASE UNCHANGED vars
  BY <1>8 DEF vars, pusherVars, InHand, WorthWriting, InFile, LastVerIsFile
<1> QED
  BY <1>1, <1>2, <1>3, <1>4, <1>5, <1>6, <1>7, <1>8 DEF Next, Push

\* The invariant of a single pusher holds in every reachable state.
LEMMA OnePusher == ASSUME Callers = {} PROVE Spec => []OnePusherInv
<1>1. OnePusherInv /\ TypeOK' /\ [Next]_vars => OnePusherInv'
  BY OnePusherStep
<1> QED
  BY <1>1, OnePusherInit, TypeCorrect, PTL DEF Spec

\* With one pusher lastVer never claims more than the file holds, whatever
\* writes fail and whenever the control plane restarts.
THEOREM RecordedIsInFile == ASSUME Callers = {} PROVE Spec => []LastVerIsFile
<1>1. OnePusherInv => LastVerIsFile
  BY DEF OnePusherInv, InFile
<1> QED
  BY <1>1, OnePusher, PTL

\* With one pusher the file is only ever replaced by a newer snapshot of this
\* life's store, or by the first one of this life.
THEOREM PusherPublishes == ASSUME Callers = {} PROVE Spec => PublishedSpec
<1>1. Init => Published!Init
  BY DEF Init, Published!Init, Fresh, Published!Fresh, NoFile, NoSnap, Published!NoSnap
<1>2. OnePusherInv /\ [Next]_vars => [Published!Next]_<<store, file.content>>
  <2> SUFFICES ASSUME OnePusherInv, [Next]_vars
               PROVE  [Published!Next]_<<store, file.content>>
    OBVIOUS
  <2>1. Pushers = {Ticker}
    BY DEF Pushers
  <2>2. CASE Write
    BY <2>2 DEF Write, Published!Next, Published!Write
  <2>3. CASE Crash
    BY <2>3 DEF Crash, Published!Next, Published!Restart, Fresh, Published!Fresh
  <2>4. CASE Rename(Ticker)
    <3>1. file'.content = snap[Ticker] /\ pushPc[Ticker] = "write" /\ store' = store
      BY <2>4 DEF Rename
    <3>2. /\ snap[Ticker] \in Snapshots /\ snap[Ticker].epoch = store.epoch
          /\ snap[Ticker].version <= store.version
      BY <2>1, <3>1 DEF OnePusherInv, TypeOK, InHand
    <3>3. snap[Ticker].epoch = file.content.epoch =>
              snap[Ticker].version > file.content.version
      <4>1. /\ lastVer \in Nat /\ snap[Ticker].version \in Nat
            /\ file.content.epoch \in Nat /\ store.epoch \in Nat
        BY <3>2, PusherAssumption DEF OnePusherInv, TypeOK, Snapshots
      <4> QED
        BY <3>1, <3>2, <4>1 DEF OnePusherInv, InHand, WorthWriting, InFile, LastVerIsFile
    <3> QED
      BY <3>1, <3>2, <3>3
      DEF Published!Next, Published!Publish, Published!Past, Snapshots, Published!Snapshots
  <2>5. CASE \/ TakeSnapshot(Ticker) \/ Unchanged(Ticker) \/ Changed(Ticker)
             \/ WriteFails(Ticker) \/ Record(Ticker) \/ UNCHANGED vars
    BY <2>5 DEF TakeSnapshot, Unchanged, Changed, WriteFails, Record, vars, pusherVars
  <2> QED
    BY <2>1, <2>2, <2>3, <2>4, <2>5 DEF Next, Push
<1> QED
  BY <1>1, <1>2, OnePusher, PTL DEF Spec, PublishedSpec, Published!Spec
-----------------------------------------------------------------------------
(* The pipeline.                                                           *)

\* What waits to be installed has been parsed.
InstallsParsed == watchPc = "install" => data.ok

RouterInv == PipelineTypeOK /\ RoutedByOneRouter /\ RouterParses /\ InstallsParsed

\* The Router is no newer than what was read of the file, nor that than the file.
InOrderOfReading ==
    /\ ~Older(file.content, router)
    /\ watchPc \in {"parse", "install"} => ~Older(data, router) /\ ~Older(file.content, data)

ForwardInv == OnePusherInv /\ PipelineTypeOK /\ InOrderOfReading

-----------------------------------------------------------------------------
\* Being no older is transitive.
LEMMA NotOlderTransitive ==
    ASSUME NEW a \in Snapshots, NEW b \in Snapshots, NEW c \in Snapshots, ~Older(b, a), ~Older(c, b)
    PROVE  ~Older(c, a)
  BY PusherAssumption DEF Snapshots, Older

\* Nothing is older than no configuration, and nothing than itself.
LEMMA OlderFacts ==
    ASSUME NEW a \in Snapshots
    PROVE  ~Older(a, NoSnap) /\ ~Older(a, a) /\ NoSnap \in Snapshots
  BY PusherAssumption, SnapshotTypes DEF Snapshots, Older, NoSnap

\* The invariants hold at the start.
LEMMA PipelineStart == PipelineInit => RouterInv /\ InOrderOfReading
<1> SUFFICES ASSUME PipelineInit PROVE RouterInv /\ InOrderOfReading
  OBVIOUS
<1>1. TypeOK /\ NoSnap \in Snapshots
  BY InitType, SnapshotTypes DEF PipelineInit
<1>2. PipelineTypeOK
  BY <1>1, PipelineAssumption DEF PipelineInit, Watcher!Init, PipelineTypeOK
<1>3. RoutedByOneRouter /\ RouterParses /\ InstallsParsed
  BY DEF PipelineInit, Watcher!Init, RoutedByOneRouter, RouterParses, InstallsParsed, NoSnap
<1>4. InOrderOfReading
  BY <1>1, OlderFacts DEF PipelineInit, Init, NoFile, Watcher!Init, InOrderOfReading
<1> QED
  BY <1>2, <1>3, <1>4 DEF RouterInv

\* Every step of either process keeps the types.
LEMMA PipelineTypeStep == PipelineTypeOK /\ [PipelineNext]_pipelineVars => PipelineTypeOK'
<1> SUFFICES ASSUME PipelineTypeOK, [PipelineNext]_pipelineVars PROVE PipelineTypeOK'
  OBVIOUS
<1>1. CASE Next /\ UNCHANGED watcherVars
  BY <1>1, TypeStep DEF PipelineTypeOK, watcherVars
<1>2. CASE Watcher!Next /\ UNCHANGED vars
  <2>1. TypeOK' /\ file.content \in Snapshots /\ file.mtime \in Nat /\ NoSnap \in Snapshots
    BY <1>2, SnapshotTypes DEF vars, pusherVars, PipelineTypeOK, TypeOK
  <2>2. CASE Watcher!NoticeChange
    BY <2>1, <2>2 DEF Watcher!NoticeChange, Watcher!requestVars, PipelineTypeOK
  <2>3. CASE Watcher!Read
    BY <2>1, <2>3 DEF Watcher!Read, Watcher!requestVars, PipelineTypeOK
  <2>4. CASE Watcher!ReadFails
    BY <2>1, <2>4, PipelineAssumption DEF Watcher!ReadFails, Watcher!requestVars, PipelineTypeOK
  <2>5. CASE Watcher!Parse
    BY <2>1, <2>5 DEF Watcher!Parse, Watcher!requestVars, PipelineTypeOK
  <2>6. CASE Watcher!Install
    BY <2>1, <2>6 DEF Watcher!Install, PipelineTypeOK
  <2>7. ASSUME NEW r \in Requests, Watcher!Arrive(r) PROVE PipelineTypeOK'
    BY <2>1, <2>7 DEF Watcher!Arrive, PipelineTypeOK
  <2>8. ASSUME NEW r \in Requests, Watcher!Respond(r) PROVE PipelineTypeOK'
    BY <2>1, <2>8 DEF Watcher!Respond, PipelineTypeOK
  <2>9. CASE Watcher!ProxyRestart
    BY <2>1, <2>9, PipelineAssumption DEF Watcher!ProxyRestart, PipelineTypeOK
  <2> QED
    BY <1>2, <2>2, <2>3, <2>4, <2>5, <2>6, <2>7, <2>8, <2>9 DEF Watcher!Next, Watcher!Reload, Watcher!Serve
<1>3. CASE UNCHANGED pipelineVars
  BY <1>3 DEF pipelineVars, watcherVars, vars, pusherVars, PipelineTypeOK, TypeOK
<1> QED
  BY <1>1, <1>2, <1>3 DEF PipelineNext

\* Every step keeps the Router in place under the requests, and parsed.
LEMMA RouterStep == RouterInv /\ [PipelineNext]_pipelineVars => RouterInv'
<1> SUFFICES ASSUME RouterInv, [PipelineNext]_pipelineVars PROVE RouterInv'
  OBVIOUS
<1>t. PipelineTypeOK /\ PipelineTypeOK'
  BY PipelineTypeStep DEF RouterInv
<1> USE DEF RouterInv, RoutedByOneRouter, RouterParses, InstallsParsed
<1>1. CASE UNCHANGED watcherVars
  BY <1>1, <1>t DEF watcherVars
<1>2. CASE Watcher!NoticeChange \/ Watcher!Read \/ Watcher!ReadFails \/ Watcher!Parse
  BY <1>2, <1>t DEF Watcher!NoticeChange, Watcher!Read, Watcher!ReadFails, Watcher!Parse, Watcher!requestVars
<1>3. CASE Watcher!Install
  BY <1>3, <1>t DEF Watcher!Install
<1>4. ASSUME NEW r \in Requests, Watcher!Arrive(r) PROVE RouterInv'
  BY <1>4, <1>t DEF Watcher!Arrive, PipelineTypeOK
<1>5. ASSUME NEW r \in Requests, Watcher!Respond(r) PROVE RouterInv'
  BY <1>5, <1>t DEF Watcher!Respond, PipelineTypeOK
<1>6. CASE Watcher!ProxyRestart
  BY <1>6, <1>t DEF Watcher!ProxyRestart, NoSnap
<1> QED
  BY <1>1, <1>2, <1>3, <1>4, <1>5, <1>6
  DEF PipelineNext, Watcher!Next, Watcher!Reload, Watcher!Serve, pipelineVars

\* A step of a single pusher never replaces the file by something older.
LEMMA FileMovesForward ==
    ASSUME Callers = {}, OnePusherInv, [Next]_vars
    PROVE  ~Older(file'.content, file.content)
<1>1. /\ Pushers = {Ticker} /\ snap[Ticker] \in Snapshots /\ file.content \in Snapshots
      /\ lastVer \in Nat /\ store.epoch \in Nat
  BY PusherAssumption DEF Pushers, OnePusherInv, TypeOK, Snapshots
<1>2. CASE file' = file
  BY <1>1, <1>2, OlderFacts
<1>3. CASE Rename(Ticker)
  <2>1. file'.content = snap[Ticker] /\ pushPc[Ticker] = "write"
    BY <1>3 DEF Rename
  <2>2. /\ snap[Ticker].epoch = store.epoch /\ lastVer <= snap[Ticker].version
        /\ lastVer = 0 => file.content.epoch < store.epoch
        /\ lastVer > 0 => file.content.epoch = store.epoch /\ file.content.version = lastVer
    BY <2>1 DEF OnePusherInv, InHand, InFile, LastVerIsFile
  <2>3. file.content.epoch \in Nat /\ file.content.version \in Nat /\ snap[Ticker].version \in Nat
    BY <1>1, PusherAssumption DEF Snapshots
  <2> QED
    BY <1>1, <2>1, <2>2, <2>3 DEF Older
<1>4. file' = file \/ Rename(Ticker)
  BY <1>1 DEF Next, Push, Write, Crash, TakeSnapshot, Unchanged, Changed, WriteFails, Record, vars, pusherVars
<1> QED
  BY <1>2, <1>3, <1>4

\* Every step keeps what was read between the Router and the file.
LEMMA ForwardStep ==
    ASSUME Callers = {}, ForwardInv, [PipelineNext]_pipelineVars
    PROVE  ForwardInv'
<1>t. PipelineTypeOK /\ PipelineTypeOK' /\ OnePusherInv
  BY PipelineTypeStep DEF ForwardInv
<1>s. /\ router \in Snapshots /\ data \in Snapshots /\ file.content \in Snapshots /\ file'.content \in Snapshots
      /\ NoSnap \in Snapshots
  BY <1>t, SnapshotTypes DEF PipelineTypeOK, TypeOK
<1>1. CASE [Next]_vars /\ UNCHANGED watcherVars
  <2>1. OnePusherInv'
    BY <1>1, <1>t, OnePusherStep DEF PipelineTypeOK
  <2>2. ~Older(file'.content, file.content)
    BY <1>1, <1>t, FileMovesForward
  <2>3. InOrderOfReading'
    BY <1>1, <1>s, <2>2, NotOlderTransitive DEF ForwardInv, InOrderOfReading, watcherVars
  <2> QED
    BY <1>t, <2>1, <2>3 DEF ForwardInv
<1>2. CASE Watcher!Next /\ UNCHANGED vars
  <2>1. OnePusherInv' /\ file' = file
    BY <1>2, <1>t DEF vars, pusherVars, OnePusherInv, TypeOK, InHand, WorthWriting, InFile, LastVerIsFile
  <2>2. InOrderOfReading'
    <3>1. CASE Watcher!Read
      BY <2>1, <3>1, <1>s, OlderFacts DEF Watcher!Read, ForwardInv, InOrderOfReading
    <3>2. CASE Watcher!NoticeChange \/ Watcher!ReadFails \/ Watcher!Parse
      BY <2>1, <3>2 DEF Watcher!NoticeChange, Watcher!ReadFails, Watcher!Parse, ForwardInv, InOrderOfReading
    <3>3. CASE Watcher!Install
      BY <2>1, <3>3 DEF Watcher!Install, ForwardInv, InOrderOfReading
    <3>4. CASE Watcher!Serve
      BY <2>1, <3>4 DEF Watcher!Serve, Watcher!Arrive, Watcher!Respond, ForwardInv, InOrderOfReading
    <3>5. CASE Watcher!ProxyRestart
      BY <2>1, <3>5, <1>s, OlderFacts DEF Watcher!ProxyRestart, InOrderOfReading
    <3> QED
      BY <1>2, <3>1, <3>2, <3>3, <3>4, <3>5 DEF Watcher!Next, Watcher!Reload
  <2> QED
    BY <1>t, <2>1, <2>2 DEF ForwardInv
<1> QED
  BY <1>1, <1>2 DEF PipelineNext, pipelineVars

-----------------------------------------------------------------------------
\* The types of both processes hold, a request keeps one Router from its arrival
\* to its response, and the Router in place is always one that parsed, whoever
\* pushes and whatever fails.
THEOREM RouterStaysSound == PipelineSpec => []RouterSound
<1>1. PipelineInit => RouterInv
  BY PipelineStart
<1>2. RouterInv => RouterSound
  BY DEF RouterInv, RouterSound
<1> QED
  BY <1>1, <1>2, RouterStep, PTL DEF PipelineSpec

\* With the ticker as the only pusher, a running proxy's Router is never replaced
\* by an older configuration, through crashes and restarts of either process.
THEOREM RouterNeverGoesBack == ASSUME Callers = {} PROVE PipelineSpec => RouterMovesForward
<1>1. PipelineInit => ForwardInv
  BY PipelineStart, OnePusherInit DEF PipelineInit, RouterInv, ForwardInv
<1>2. ForwardInv /\ [PipelineNext]_pipelineVars => ForwardInv'
  BY ForwardStep
<1>3. ForwardInv /\ [PipelineNext]_pipelineVars
        => [proxyRestarts' = proxyRestarts => ~Older(router', router)]_pipelineVars
  <2> SUFFICES ASSUME ForwardInv, PipelineNext, proxyRestarts' = proxyRestarts
               PROVE  ~Older(router', router)
    OBVIOUS
  <2>1. router \in Snapshots /\ proxyRestarts \in Nat
    BY PipelineAssumption DEF ForwardInv, PipelineTypeOK
  <2>2. CASE router' = router
    BY <2>1, <2>2, OlderFacts
  <2>3. CASE Watcher!Install
    BY <2>3 DEF Watcher!Install, ForwardInv, InOrderOfReading
  <2>4. router' = router \/ Watcher!Install
    BY <2>1 DEF PipelineNext, watcherVars, Watcher!Next, Watcher!Reload, Watcher!Serve, Watcher!NoticeChange,
                Watcher!Read, Watcher!ReadFails, Watcher!Parse, Watcher!Arrive, Watcher!Respond,
                Watcher!ProxyRestart
  <2> QED
    BY <2>2, <2>3, <2>4
<1> QED
  BY <1>1, <1>2, <1>3, PTL DEF PipelineSpec, RouterMovesForward
=============================================================================
