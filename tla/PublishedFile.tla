--------------------------- MODULE PublishedFile ---------------------------
(***************************************************************************)
(* What the configuration pusher promises to whoever reads its file: the   *)
(* file is never there in part, it holds a snapshot the store really had,  *)
(* within one life of the control plane it only moves forward, and it      *)
(* catches up with a store that has been written to.                       *)
(***************************************************************************)
EXTENDS Integers

CONSTANTS MaxEpoch, MaxVersion      \* bounds: restarts and writes per life

VARIABLES
    store,      \* the store's snapshot: its life, its version, its content
    content     \* the snapshot in the file

Snapshots == [epoch: 0..MaxEpoch, version: 0..MaxVersion, ok: BOOLEAN]
NoSnap    == [epoch |-> 0, version |-> 0, ok |-> TRUE]
Fresh(e)  == [epoch |-> e, version |-> 0, ok |-> TRUE]

\* What the store's readers may have seen of it in this life: any version up
\* to the present one.
Past(s) == {x \in Snapshots : x.epoch = s.epoch /\ x.version <= s.version}

Init == store = Fresh(1) /\ content = NoSnap

Write ==
    /\ \E ok \in BOOLEAN :
          store' = [store EXCEPT !.version = @ + 1, !.ok = ok]
    /\ UNCHANGED content

Restart ==
    /\ store' = Fresh(store.epoch + 1)
    /\ UNCHANGED content

\* Publish a snapshot newer than the file's, or the first one of this life.
Publish ==
    /\ content' \in Past(store)
    /\ content'.epoch = content.epoch => content'.version > content.version
    /\ UNCHANGED store

Next == Write \/ Restart \/ Publish
Spec == Init /\ [][Next]_<<store, content>>

\* A configuration that is written is eventually in the file, unless the store
\* moves on or is lost.
CatchesUp ==
    \A e \in 1..MaxEpoch, v \in 1..MaxVersion :
        (store.epoch = e /\ store.version = v)
            ~> (content = store \/ store.epoch # e \/ store.version # v)
=============================================================================
