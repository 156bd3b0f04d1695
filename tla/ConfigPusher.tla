---------------------------- MODULE ConfigPusher ----------------------------
(***************************************************************************)
(* The Frontier control plane's file pusher (internal/configpush): a ticker *)
(* goroutine, and callers of PushNow, each snapshot the store, compare its *)
(* version with lastVer, write a temporary file and rename it over the     *)
(* target, and record lastVer.  p.mu covers the comparison and the record  *)
(* only, so two pushes may interleave anywhere else.                       *)
(*                                                                         *)
(* A snapshot is named by the life of the control plane it was taken in    *)
(* and its version: within one life each version has one content.  "ok"    *)
(* says whether the data plane can parse it (see ConfigWatcher).           *)
(***************************************************************************)
EXTENDS Integers

CONSTANTS
    Ticker,         \* the goroutine of Pusher.Start
    Callers,        \* goroutines that call PushNow (none in main.go)
    MaxVersion,     \* bound: writes to the store in one life
    MaxEpoch,       \* bound: lives of the control plane
    MaxFailures     \* bound: I/O errors of atomicWrite

ASSUME PusherAssumption == /\ MaxVersion \in Nat
                           /\ MaxEpoch \in Nat \ {0}
                           /\ MaxFailures \in Nat
                           /\ Ticker \notin Callers

VARIABLES
    store,          \* what Store.Snapshot returns
    lastVer,        \* Pusher.lastVer
    pushPc,         \* where each push() is
    snap,           \* its local snap
    file,           \* the target file: its content and modification time
    failures

pusherVars == <<store, lastVer, pushPc, snap, failures>>
vars == <<pusherVars, file>>

Pushers   == Callers \cup {Ticker}
Snapshots == [epoch: 0..MaxEpoch, version: 0..MaxVersion, ok: BOOLEAN]
NoSnap    == [epoch |-> 0, version |-> 0, ok |-> TRUE]
NoFile    == [content |-> NoSnap, mtime |-> 0]
Fresh(e)  == [epoch |-> e, version |-> 0, ok |-> TRUE]

\* Every variable holds a value of its type.
TypeOK ==
    /\ store \in Snapshots
    /\ lastVer \in 0..MaxVersion
    /\ pushPc \in [Pushers -> {"idle", "compare", "write", "record"}]
    /\ snap \in [Pushers -> Snapshots]
    /\ file \in [content: Snapshots, mtime: Nat]
    /\ failures \in 0..MaxFailures

Init ==
    /\ store = Fresh(1)
    /\ lastVer = 0
    /\ pushPc = [p \in Pushers |-> "idle"]
    /\ snap = [p \in Pushers |-> NoSnap]
    /\ file = NoFile
    /\ failures = 0

----------------------------------------------------------------------------
\* A writer of the store (ConfigStore) commits one more version.
Write ==
    /\ store.version < MaxVersion
    /\ \E ok \in BOOLEAN : store' = [store EXCEPT !.version = @ + 1, !.ok = ok]
    /\ UNCHANGED <<lastVer, pushPc, snap, failures, file>>

Goto(p, label) == pushPc' = [pushPc EXCEPT ![p] = label]

\* push, line 86: the ticker fires or PushNow is called.
TakeSnapshot(p) ==
    /\ pushPc[p] = "idle"
    /\ snap' = [snap EXCEPT ![p] = store]
    /\ Goto(p, "compare")
    /\ UNCHANGED <<store, lastVer, failures, file>>

\* push, lines 89-94: skip if the version has not changed.
Unchanged(p) ==
    /\ pushPc[p] = "compare"
    /\ snap[p].version = lastVer
    /\ Goto(p, "idle")
    /\ UNCHANGED <<store, lastVer, snap, failures, file>>

Changed(p) ==
    /\ pushPc[p] = "compare"
    /\ snap[p].version # lastVer
    /\ Goto(p, "write")
    /\ UNCHANGED <<store, lastVer, snap, failures, file>>

\* Mutant: lastVer is recorded although the write failed.
WriteFailsRecorded(p) ==
    /\ pushPc[p] = "write"
    /\ failures < MaxFailures
    /\ failures' = failures + 1
    /\ lastVer' = snap[p].version
    /\ Goto(p, "idle")
    /\ UNCHANGED <<store, snap, file>>

\* Mutant: the target is written in place, and a failure leaves it truncated.
WriteFailsInPlace(p) ==
    /\ pushPc[p] = "write"
    /\ failures < MaxFailures
    /\ failures' = failures + 1
    /\ file' = [content |-> NoSnap, mtime |-> file.mtime + 1]
    /\ Goto(p, "idle")
    /\ UNCHANGED <<store, lastVer, snap>>

\* atomicWrite fails somewhere before the rename: the deferred cleanup removes
\* the temporary file and push returns before lastVer is recorded.
WriteFails(p) ==
    /\ pushPc[p] = "write"
    /\ failures < MaxFailures
    /\ failures' = failures + 1
    /\ Goto(p, "idle")
    /\ UNCHANGED <<store, lastVer, snap, file>>

\* The temporary file is complete and synced; the rename makes it the target.
\* Pushes of the ticker are an interval apart and get a modification time of
\* their own; a PushNow may share one with the push before it.
Rename(p) ==
    /\ pushPc[p] = "write"
    /\ \E m \in (IF Callers = {} \/ file = NoFile THEN {file.mtime + 1}
                                                 ELSE {file.mtime, file.mtime + 1}) :
          file' = [content |-> snap[p], mtime |-> m]
    /\ Goto(p, "record")
    /\ UNCHANGED <<store, lastVer, snap, failures>>

\* Mutant: the next version is recorded instead of the one written.
RecordNext(p) ==
    /\ pushPc[p] = "record"
    /\ lastVer' = snap[p].version + 1
    /\ Goto(p, "idle")
    /\ UNCHANGED <<store, snap, failures, file>>

\* push, lines 105-107.
Record(p) ==
    /\ pushPc[p] = "record"
    /\ lastVer' = snap[p].version
    /\ Goto(p, "idle")
    /\ UNCHANGED <<store, snap, failures, file>>

\* The control plane dies and starts again: store and lastVer are in memory
\* only, the file stays as it is.
Crash ==
    /\ store.epoch < MaxEpoch
    /\ store' = Fresh(store.epoch + 1)
    /\ lastVer' = 0
    /\ pushPc' = [p \in Pushers |-> "idle"]
    /\ snap' = [p \in Pushers |-> NoSnap]
    /\ UNCHANGED <<failures, file>>

Push(p) == Unchanged(p) \/ Changed(p) \/ WriteFails(p) \/ Rename(p) \/ Record(p)

Next == Write \/ Crash \/ \E p \in Pushers : TakeSnapshot(p) \/ Push(p)

\* The ticker goroutine keeps ticking, and a push that has begun goes on; only
\* finitely many writes fail.
Fairness == /\ WF_vars(TakeSnapshot(Ticker))
            /\ \A p \in Pushers : WF_vars(Push(p))

Spec     == Init /\ [][Next]_vars
FairSpec == Spec /\ Fairness

----------------------------------------------------------------------------
(* Properties *)

\* The pusher implements what it promises, when only the ticker pushes.
Published == INSTANCE PublishedFile WITH content <- file.content
PublishedSpec == Published!Spec
FileCatchesUp == Published!CatchesUp

\* lastVer never claims more than the file holds: between pushes, a recorded
\* version of this life is the one in the file (main.go: no PushNow caller).
LastVerIsFile ==
    pushPc[Ticker] # "record" /\ lastVer > 0
        => file.content.epoch = store.epoch /\ file.content.version = lastVer
=============================================================================
