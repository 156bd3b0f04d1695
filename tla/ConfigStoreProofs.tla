------------------------- MODULE ConfigStoreProofs -------------------------
(***************************************************************************)
(* Proofs about ConfigStore, for any sets of resources, values, writers    *)
(* and watchers, any channel capacity and any bound on the versions.       *)
(***************************************************************************)
EXTENDS ConfigStore, TLAPS, SequenceTheorems

\* A writer between the two halves of a PUT remembers what it was asked.
RequestKept ==
    \A w \in Writers : writerPc[w] = "update" => request[w] \in Resources \X Values

TypeInv == TypeOK /\ RequestKept

\* The diff a writer builds is a diff.
LEMMA DiffOfType ==
    ASSUME NEW r \in Resources, NEW val \in Values \cup {Absent}, NEW v \in Nat, v > 0
    PROVE  DiffOf(r, val, v) \in Diffs
<1>1. [x \in {r} |-> val] \in [{r} -> Values \cup {Absent}]
  OBVIOUS
<1>2. [x \in {r} |-> val] \in Changes
  BY <1>1, {r} \in SUBSET Resources DEF Changes
<1>3. v - 1 \in Nat
  OBVIOUS
<1> QED  BY <1>2, <1>3 DEF DiffOf, Diffs

\* A diff applied to a configuration gives a configuration.
LEMMA ApplyType ==
    ASSUME NEW c \in Configs, NEW d \in Diffs
    PROVE  Apply(c, d) \in Configs
<1>1. PICK R \in SUBSET Resources : d.changes \in [R -> Values \cup {Absent}]
  BY DEF Diffs, Changes
<1>2. DOMAIN d.changes = R
  BY <1>1
<1> QED  BY <1>1, <1>2 DEF Apply, Configs

\* The diff a stream is resumed with is a diff.
LEMMA BuildDiffType ==
    ASSUME NEW c \in Configs, NEW base \in Nat, NEW v \in Nat
    PROVE  BuildDiffSince(base, c, v) \in Diffs
<1> DEFINE R == {x \in Resources : c[x] # Absent}
<1>1. R \in SUBSET Resources
  OBVIOUS
<1>2. [r \in R |-> c[r]] \in [R -> Values \cup {Absent}]
  BY DEF Configs
<1>3. [r \in R |-> c[r]] \in Changes
  BY <1>1, <1>2 DEF Changes
<1> QED  BY <1>3 DEF BuildDiffSince, Diffs

\* The empty diff is a diff.
LEMMA NoDiffType == NoDiff \in Diffs
<1>1. <<>> \in [{} -> Values \cup {Absent}]
  OBVIOUS
<1> QED  BY <1>1 DEF NoDiff, Diffs, Changes

\* The initial state is well typed.
LEMMA InitType == Init => TypeInv
<1> SUFFICES ASSUME Init PROVE TypeInv
  OBVIOUS
<1>2. Empty \in Configs
  BY DEF Empty, Configs
<1>3. \A s \in Watchers : <<>> \in Seq(Diffs)
  OBVIOUS
<1> QED  BY NoDiffType, <1>2, <1>3, BoundsAssumption DEF Init, TypeInv, TypeOK, RequestKept

\* What Commit leaves, for any resource and any new value or Absent.
LEMMA CommitType ==
    ASSUME TypeInv, NEW w \in Writers, NEW r \in Resources,
           NEW val \in Values \cup {Absent}, Commit(w, r, val)
    PROVE  /\ config' \in Configs
           /\ version' \in 0..MaxVersion
           /\ log' \in [0..version' -> Configs]
           /\ pending' \in [Writers -> Diffs]
           /\ writerPc' \in [Writers -> {"idle", "update", "publish"}]
<1>1. config' \in Configs
  BY DEF Commit, Configs, TypeInv, TypeOK
<1>2. version' \in 0..MaxVersion /\ version' = version + 1
  BY BoundsAssumption DEF Commit, TypeInv, TypeOK
<1>3. log' \in [0..version' -> Configs]
  BY <1>1, <1>2 DEF Commit, TypeInv, TypeOK
<1>4. DiffOf(r, val, version + 1) \in Diffs
  <2>1. version + 1 \in Nat /\ version + 1 > 0
    BY BoundsAssumption DEF TypeInv, TypeOK
  <2> QED  BY <2>1, DiffOfType
<1>5. pending' \in [Writers -> Diffs]
  BY <1>4 DEF Commit, TypeInv, TypeOK
<1>6. writerPc' \in [Writers -> {"idle", "update", "publish"}]
  BY DEF Commit, TypeInv, TypeOK
<1> QED  BY <1>1, <1>2, <1>3, <1>5, <1>6

\* Every step of a writer, a stream or a restart keeps the types.
LEMMA StepType == TypeInv /\ [Next]_vars => TypeInv'
<1> SUFFICES ASSUME TypeInv, [Next]_vars PROVE TypeInv'
  OBVIOUS
<1> USE DEF storeVars, writerVars, streamVars, clientVars
<1>1. ASSUME NEW w \in Writers, NEW r \in Resources, NEW val \in Values, Create(w, r, val)
      PROVE  TypeInv'
  <2>1. Commit(w, r, val)
    BY <1>1 DEF Create
  <2>2. RequestKept'
    BY <1>1 DEF Create, Commit, TypeInv, TypeOK, RequestKept
  <2> QED  BY <1>1, <2>1, <2>2, CommitType DEF Create, TypeInv, TypeOK
<1>2. ASSUME NEW w \in Writers, NEW r \in Resources, NEW val \in Values,
             UpdateLookup(w, r, val)
      PROVE  TypeInv'
  BY <1>2 DEF UpdateLookup, TypeInv, TypeOK, RequestKept
<1>3. ASSUME NEW w \in Writers, NEW r \in Resources, Delete(w, r)
      PROVE  TypeInv'
  <2>1. Commit(w, r, Absent)
    BY <1>3 DEF Delete
  <2>2. RequestKept'
    BY <1>3 DEF Delete, Commit, TypeInv, TypeOK, RequestKept
  <2> QED  BY <1>3, <2>1, <2>2, CommitType DEF Delete, TypeInv, TypeOK
<1>4. ASSUME NEW w \in Writers, UpdateSet(w)
      PROVE  TypeInv'
  <2>1. request[w][1] \in Resources /\ request[w][2] \in Values
    BY <1>4 DEF UpdateSet, TypeInv, RequestKept
  <2>2. Commit(w, request[w][1], request[w][2])
    BY <1>4 DEF UpdateSet
  <2>3. RequestKept'
    BY <1>4 DEF UpdateSet, Commit, TypeInv, TypeOK, RequestKept
  <2>4. request' \in [Writers -> (Resources \X Values) \cup {<<>>}]
    BY <1>4 DEF UpdateSet, TypeInv, TypeOK
  <2> QED  BY <1>4, <2>1, <2>2, <2>3, <2>4, CommitType DEF UpdateSet, TypeInv, TypeOK
<1>5. ASSUME NEW w \in Writers, PublishDiff(w)
      PROVE  TypeInv'
  <2>1. pending[w] \in Diffs /\ pending[w].target \in Nat
    BY DEF TypeInv, TypeOK, Diffs
  <2>2. NoDiff \in Diffs
    BY NoDiffType
  <2>3. queue' \in [Watchers -> Seq(Diffs)]
    BY <1>5, <2>1 DEF PublishDiff, TypeInv, TypeOK
  <2>4. dropped' \in [Watchers -> SUBSET Nat]
    BY <1>5, <2>1 DEF PublishDiff, TypeInv, TypeOK
  <2> QED  BY <1>5, <2>2, <2>3, <2>4 DEF PublishDiff, TypeInv, TypeOK, RequestKept
<1>6. ASSUME NEW s \in Watchers, Subscribe(s)
      PROVE  TypeInv'
  BY <1>6 DEF Subscribe, TypeInv, TypeOK, RequestKept
<1>7. ASSUME NEW s \in Watchers, Open(s)
      PROVE  TypeInv'
  <2>1. BuildDiffSince(asked[s], config, version) \in Diffs
    BY BuildDiffType DEF TypeInv, TypeOK
  <2>2. Apply(view[s], BuildDiffSince(asked[s], config, version)) \in Configs
    BY <2>1, ApplyType DEF TypeInv, TypeOK
  <2>3. view' \in [Watchers -> Configs]
    BY <1>7, <2>2 DEF Open, OpeningFor, TypeInv, TypeOK
  <2>4. start' \in [Watchers -> Nat] /\ known' \in [Watchers -> Nat]
    BY <1>7 DEF Open, TypeInv, TypeOK
  <2>5. opening' \in [Watchers -> {"none", "snapshot", "diff"}]
    BY <1>7 DEF Open, OpeningFor, TypeInv, TypeOK
  <2>6. streamPc' \in [Watchers -> {"closed", "subscribed", "streaming"}]
    BY <1>7 DEF Open, TypeInv, TypeOK
  <2> QED  BY <1>7, <2>3, <2>4, <2>5, <2>6 DEF Open, TypeInv, TypeOK, RequestKept
<1>8. ASSUME NEW s \in Watchers, Deliver(s)
      PROVE  TypeInv'
  <2> DEFINE d == Head(queue[s])
  <2>1. d \in Diffs /\ Tail(queue[s]) \in Seq(Diffs)
    BY <1>8 DEF Deliver, TypeInv, TypeOK
  <2>2. d.target \in Nat
    BY <2>1 DEF Diffs
  <2>3. Apply(view[s], d) \in Configs
    BY <2>1, ApplyType DEF TypeInv, TypeOK
  <2>4. view' = [view EXCEPT ![s] = Apply(view[s], d)]
    BY <1>8 DEF Deliver
  <2>5. view' \in [Watchers -> Configs]
    BY <2>3, <2>4 DEF TypeInv, TypeOK
  <2>6. /\ known' \in [Watchers -> Nat]
        /\ seen' \in [Watchers -> SUBSET Nat]
        /\ queue' \in [Watchers -> Seq(Diffs)]
    BY <1>8, <2>1, <2>2 DEF Deliver, TypeInv, TypeOK
  <2> QED  BY <1>8, <2>5, <2>6 DEF Deliver, TypeInv, TypeOK, RequestKept
<1>9. ASSUME NEW s \in Watchers, Disconnect(s)
      PROVE  TypeInv'
  BY <1>9 DEF Disconnect, ForgetStreams, TypeInv, TypeOK, RequestKept
<1>10. CASE Restart
  <2>1. Empty \in Configs
    BY DEF Empty, Configs
  <2> QED  BY <1>10, <2>1, NoDiffType, BoundsAssumption
           DEF Restart, ForgetStreams, TypeInv, TypeOK, RequestKept
<1>11. CASE UNCHANGED vars
  BY <1>11 DEF vars, TypeInv, TypeOK, RequestKept
<1> QED
  BY <1>1, <1>2, <1>3, <1>4, <1>5, <1>6, <1>7, <1>8, <1>9, <1>10, <1>11 DEF Next

\* The type invariant holds for every value of the constants.
THEOREM TypeCorrect == Spec => []TypeOK
<1>1. Spec => []TypeInv
  BY InitType, StepType, PTL DEF Spec
<1> QED  BY <1>1, PTL DEF TypeInv

----------------------------------------------------------------------------
(* Diffs in channels and in writers' hands *)

\* A send into a channel adds the version of the diff to those in it.
LEMMA TargetsAppend ==
    ASSUME NEW q \in Seq(Diffs), NEW d \in Diffs
    PROVE  Targets(Append(q, d)) = Targets(q) \cup {d.target}
<1> DEFINE r == Append(q, d)
<1>1. Len(r) = Len(q) + 1 /\ r[Len(q) + 1] = d
  OBVIOUS
<1>2. \A i \in 1..Len(q) : r[i] = q[i]
  OBVIOUS
<1>3. 1..Len(r) = (1..Len(q)) \cup {Len(q) + 1}
  BY <1>1
<1> HIDE DEF r
<1>4. Targets(r) = Targets(q) \cup {d.target}
  BY <1>1, <1>2, <1>3 DEF Targets
<1> QED  BY <1>4 DEF r

\* A receive takes the version of the first diff out of a channel.
LEMMA TargetsTail ==
    ASSUME NEW q \in Seq(Diffs), q # <<>>
    PROVE  Targets(q) = {Head(q).target} \cup Targets(Tail(q))
<1> DEFINE t == Tail(q)
<1>1. Len(q) \in Nat \ {0} /\ Len(t) = Len(q) - 1 /\ Head(q) = q[1]
  OBVIOUS
<1>2. \A i \in 1..Len(t) : t[i] = q[i + 1]
  OBVIOUS
<1> HIDE DEF t
<1>3. ASSUME NEW i \in 1..Len(q)
      PROVE  q[i].target \in {Head(q).target} \cup Targets(t)
  <2>1. CASE i = 1
    BY <2>1, <1>1
  <2>2. CASE i # 1
    <3>1. i - 1 \in 1..Len(t) /\ t[i - 1] = q[i]
      BY <2>2, <1>1, <1>2
    <3> QED  BY <3>1 DEF Targets
  <2> QED  BY <2>1, <2>2
<1>4. ASSUME NEW i \in 1..Len(t)
      PROVE  t[i].target \in Targets(q)
  <2>1. i + 1 \in 1..Len(q) /\ t[i] = q[i + 1]
    BY <1>1, <1>2
  <2> QED  BY <2>1 DEF Targets
<1>5. Head(q).target \in Targets(q)
  BY <1>1 DEF Targets
<1>6. Targets(q) = {Head(q).target} \cup Targets(t)
  BY <1>3, <1>4, <1>5 DEF Targets
<1> QED  BY <1>6 DEF t

\* An empty channel holds no version.
LEMMA TargetsEmpty == Targets(<<>>) = {}
BY DEF Targets

\* A commit adds the new version to those that writers hold.
LEMMA CommitPending ==
    ASSUME TypeInv, NEW w \in Writers, NEW r, NEW val, Commit(w, r, val),
           writerPc[w] # "publish"
    PROVE  PendingTargets' = PendingTargets \cup {version + 1}
<1>1. pending'[w].target = version + 1
  BY DEF Commit, DiffOf, TypeInv, TypeOK
<1>2. \A x \in Writers \ {w} : pending'[x] = pending[x] /\ writerPc'[x] = writerPc[x]
  BY DEF Commit, TypeInv, TypeOK
<1>3. writerPc'[w] = "publish"
  BY DEF Commit, TypeInv, TypeOK
<1> QED  BY <1>1, <1>2, <1>3 DEF PendingTargets

\* A publication gives up no version but its own.
LEMMA PublishPending ==
    ASSUME TypeInv, NEW w \in Writers, PublishDiff(w)
    PROVE  /\ PendingTargets \subseteq PendingTargets' \cup {pending[w].target}
           /\ PendingTargets' \subseteq PendingTargets
<1>1. \A x \in Writers \ {w} : pending'[x] = pending[x] /\ writerPc'[x] = writerPc[x]
  BY DEF PublishDiff, TypeInv, TypeOK
<1>2. writerPc'[w] = "idle"
  BY DEF PublishDiff, TypeInv, TypeOK
<1> QED  BY <1>1, <1>2 DEF PendingTargets

\* Create, UpdateSet and Delete are the same commit to everyone but the writer.
Commits(w) ==
    /\ writerPc[w] # "publish"
    /\ \E r \in Resources, val \in Values \cup {Absent} : Commit(w, r, val)
    /\ UNCHANGED <<subscribers, queue, streamPc, opening, start, view, known, seen, inOrder, dropped>>

\* The steps as the stream invariants see them.
LEMMA StepKinds ==
    ASSUME TypeInv, [Next]_vars
    PROVE  \/ \E w \in Writers : Commits(w) \/ PublishDiff(w)
           \/ \E s \in Watchers : Subscribe(s) \/ Open(s) \/ Deliver(s) \/ Disconnect(s)
           \/ Restart
           \/ /\ PendingTargets' = PendingTargets
              /\ \A w \in Writers : writerPc'[w] = "publish" =>
                    writerPc[w] = "publish" /\ pending'[w] = pending[w]
              /\ UNCHANGED <<storeVars, subscribers, queue, streamPc, opening, start, view, known,
                             seen, inOrder, dropped>>
<1> USE DEF storeVars, writerVars, streamVars, clientVars
<1>1. ASSUME NEW w \in Writers, NEW r \in Resources, NEW val \in Values, Create(w, r, val)
      PROVE  Commits(w)
  BY <1>1 DEF Create, Commits
<1>2. ASSUME NEW w \in Writers, NEW r \in Resources, Delete(w, r)
      PROVE  Commits(w)
  BY <1>2 DEF Delete, Commits
<1>3. ASSUME NEW w \in Writers, UpdateSet(w)
      PROVE  Commits(w)
  <2>1. request[w][1] \in Resources /\ request[w][2] \in Values
    BY <1>3 DEF UpdateSet, TypeInv, RequestKept
  <2> QED  BY <1>3, <2>1 DEF UpdateSet, Commits
<1>4. ASSUME NEW w \in Writers, NEW r \in Resources, NEW val \in Values,
             UpdateLookup(w, r, val)
      PROVE  /\ PendingTargets' = PendingTargets
             /\ \A x \in Writers : writerPc'[x] = "publish" =>
                   writerPc[x] = "publish" /\ pending'[x] = pending[x]
             /\ UNCHANGED <<storeVars, subscribers, queue, streamPc, opening, start, view, known,
                            seen, inOrder, dropped>>
  <2>1. \A x \in Writers : writerPc'[x] = "publish" <=> writerPc[x] = "publish"
    BY <1>4 DEF UpdateLookup, TypeInv, TypeOK
  <2>2. pending' = pending
    BY <1>4 DEF UpdateLookup
  <2> QED  BY <1>4, <2>1, <2>2 DEF UpdateLookup, PendingTargets
<1>5. CASE UNCHANGED vars
  BY <1>5 DEF vars, PendingTargets
<1> QED  BY <1>1, <1>2, <1>3, <1>4, <1>5 DEF Next

----------------------------------------------------------------------------
(* No stream misses an update silently *)

\* Run is subscribed before it takes its snapshot and until it returns.
Subscribed == \A s \in Watchers : streamPc[s] # "closed" => s \in subscribers

MissInv == TypeInv /\ Subscribed /\ NoMissedUpdate

\* No step makes a stream miss a version: a commit hands it to a writer, a
\* publication moves it into the channel or drops it, a delivery marks it seen.
LEMMA MissStep == MissInv /\ [Next]_vars => MissInv'
<1> SUFFICES ASSUME MissInv, [Next]_vars PROVE Subscribed' /\ NoMissedUpdate'
  BY StepType DEF MissInv
<1> USE DEF storeVars, writerVars, streamVars, clientVars
<1>t. TypeInv /\ TypeInv' /\ version \in Nat
  <2>1. TypeInv /\ TypeInv'
    BY StepType DEF MissInv
  <2>2. version \in Nat
    BY <2>1 DEF TypeInv, TypeOK
  <2> QED  BY <2>1, <2>2
<1>1. ASSUME NEW w \in Writers, Commits(w)
      PROVE  Subscribed' /\ NoMissedUpdate'
  <2>1. PendingTargets' = PendingTargets \cup {version + 1} /\ version' = version + 1
    BY <1>1, <1>t, CommitPending DEF Commits, Commit
  <2>2. UNCHANGED <<subscribers, queue, streamPc, start, seen, dropped>>
    BY <1>1 DEF Commits
  <2>3. \A s \in Watchers : \A v \in (start[s] + 1)..version' :
            v \in (start[s] + 1)..version \/ v = version + 1
    BY <2>1, <1>t DEF TypeInv, TypeOK
  <2>4. \A s \in Watchers : Targets(queue'[s]) = Targets(queue[s])
    BY <2>2
  <2> QED  BY <2>1, <2>2, <2>3, <2>4 DEF MissInv, Subscribed, NoMissedUpdate
<1>2. ASSUME NEW w \in Writers, PublishDiff(w)
      PROVE  Subscribed' /\ NoMissedUpdate'
  <2>1. Subscribed'
    BY <1>2 DEF PublishDiff, MissInv, Subscribed
  <2>2. pending[w] \in Diffs
    BY <1>t DEF TypeInv, TypeOK
  <2>3. SUFFICES ASSUME NEW s \in Watchers, streamPc'[s] = "streaming",
                        NEW v \in (start'[s] + 1)..version'
                 PROVE  v \in PendingTargets' \cup Targets(queue'[s]) \cup seen'[s] \cup dropped'[s]
    BY <2>1 DEF NoMissedUpdate
  <2>4. v \in PendingTargets \cup Targets(queue[s]) \cup seen[s] \cup dropped[s]
    BY <1>2, <2>3 DEF PublishDiff, MissInv, NoMissedUpdate
  <2>5. s \in subscribers /\ seen' = seen
    BY <1>2, <2>3 DEF PublishDiff, MissInv, Subscribed
  <2>6. CASE Len(queue[s]) < QueueCap
    <3>1. queue'[s] = Append(queue[s], pending[w]) /\ dropped'[s] = dropped[s]
      BY <1>2, <2>5, <2>6, <1>t, BoundsAssumption DEF PublishDiff, TypeInv, TypeOK
    <3>2. Targets(queue'[s]) = Targets(queue[s]) \cup {pending[w].target}
      BY <3>1, <2>2, <1>t, TargetsAppend DEF TypeInv, TypeOK
    <3> QED  BY <3>1, <3>2, <2>4, <2>5, <1>2, <1>t, PublishPending
  <2>7. CASE ~(Len(queue[s]) < QueueCap)
    <3>1. Len(queue[s]) >= QueueCap
      BY <2>7, <1>t, BoundsAssumption DEF TypeInv, TypeOK
    <3>2. queue'[s] = queue[s] /\ dropped'[s] = dropped[s] \cup {pending[w].target}
      BY <1>2, <2>5, <2>7, <3>1 DEF PublishDiff
    <3> QED  BY <3>2, <2>4, <2>5, <1>2, <1>t, PublishPending
  <2> QED  BY <2>6, <2>7
<1>3. ASSUME NEW s \in Watchers, Subscribe(s)
      PROVE  Subscribed' /\ NoMissedUpdate'
  <2>1. \A x \in Watchers \ {s} : /\ streamPc'[x] = streamPc[x] /\ queue'[x] = queue[x]
                                  /\ seen'[x] = seen[x] /\ dropped'[x] = dropped[x]
    BY <1>3, <1>t DEF Subscribe, TypeInv, TypeOK
  <2>2. streamPc'[s] = "subscribed" /\ subscribers' = subscribers \cup {s}
    BY <1>3, <1>t DEF Subscribe, TypeInv, TypeOK
  <2>3. PendingTargets' = PendingTargets /\ version' = version /\ start' = start
    BY <1>3 DEF Subscribe, PendingTargets
  <2> QED  BY <2>1, <2>2, <2>3 DEF MissInv, Subscribed, NoMissedUpdate
<1>4. ASSUME NEW s \in Watchers, Open(s)
      PROVE  Subscribed' /\ NoMissedUpdate'
  <2>1. \A x \in Watchers \ {s} : streamPc'[x] = streamPc[x] /\ start'[x] = start[x]
    BY <1>4, <1>t DEF Open, TypeInv, TypeOK
  <2>2. streamPc[s] = "subscribed" /\ (start'[s] + 1)..version' = {}
    BY <1>4, <1>t DEF Open, TypeInv, TypeOK
  <2>3. PendingTargets' = PendingTargets
    BY <1>4 DEF Open, PendingTargets
  <2>4. UNCHANGED <<version, subscribers, queue, seen, dropped>>
    BY <1>4 DEF Open
  <2> QED  BY <2>1, <2>2, <2>3, <2>4 DEF MissInv, Subscribed, NoMissedUpdate
<1>5. ASSUME NEW s \in Watchers, Deliver(s)
      PROVE  Subscribed' /\ NoMissedUpdate'
  <2>1. \A x \in Watchers \ {s} : queue'[x] = queue[x] /\ seen'[x] = seen[x]
    BY <1>5, <1>t DEF Deliver, TypeInv, TypeOK
  <2>2. queue[s] # <<>> /\ queue[s] \in Seq(Diffs)
    BY <1>5, <1>t DEF Deliver, TypeInv, TypeOK
  <2>3. queue'[s] = Tail(queue[s]) /\ seen'[s] = seen[s] \cup {Head(queue[s]).target}
    BY <1>5, <1>t DEF Deliver, TypeInv, TypeOK
  <2>4. Targets(queue[s]) \subseteq Targets(queue'[s]) \cup seen'[s] /\ seen[s] \subseteq seen'[s]
    BY <2>2, <2>3, TargetsTail
  <2>5. PendingTargets' = PendingTargets
    BY <1>5 DEF Deliver, PendingTargets
  <2>6. UNCHANGED <<version, subscribers, streamPc, start, dropped>>
    BY <1>5 DEF Deliver
  <2> QED  BY <2>1, <2>4, <2>5, <2>6 DEF MissInv, Subscribed, NoMissedUpdate
<1>6. ASSUME NEW s \in Watchers, Disconnect(s)
      PROVE  Subscribed' /\ NoMissedUpdate'
  <2>1. \A x \in Watchers \ {s} : /\ streamPc'[x] = streamPc[x] /\ queue'[x] = queue[x]
                                  /\ start'[x] = start[x] /\ seen'[x] = seen[x]
                                  /\ dropped'[x] = dropped[x]
    BY <1>6, <1>t DEF Disconnect, ForgetStreams, TypeInv, TypeOK
  <2>2. streamPc'[s] = "closed" /\ subscribers' = subscribers \ {s}
    BY <1>6, <1>t DEF Disconnect, ForgetStreams, TypeInv, TypeOK
  <2>3. PendingTargets' = PendingTargets /\ UNCHANGED version
    BY <1>6 DEF Disconnect, PendingTargets
  <2> QED  BY <2>1, <2>2, <2>3 DEF MissInv, Subscribed, NoMissedUpdate
<1>7. CASE Restart
  BY <1>7 DEF Restart, Subscribed, NoMissedUpdate
<1>8. ASSUME PendingTargets' = PendingTargets,
             UNCHANGED <<storeVars, subscribers, queue, streamPc, start, seen, dropped>>
      PROVE  Subscribed' /\ NoMissedUpdate'
  BY <1>8 DEF MissInv, Subscribed, NoMissedUpdate
<1> QED  BY <1>1, <1>2, <1>3, <1>4, <1>5, <1>6, <1>7, <1>8, <1>t, StepKinds

\* Whatever the interleaving of writers, streams and restarts, a version
\* committed under an open stream is on its way to it, delivered or dropped.
THEOREM NothingMissed == Spec => []NoMissedUpdate
<1>1. Init => MissInv
  BY InitType DEF Init, MissInv, Subscribed, NoMissedUpdate
<1>2. Spec => []MissInv
  BY <1>1, MissStep, PTL DEF Spec
<1> QED  BY <1>2, PTL DEF MissInv

----------------------------------------------------------------------------
(* Every version is published once, and as the change it made *)

\* Nothing in flight is newer than the store.
Bounded ==
    /\ \A w \in Writers : writerPc[w] = "publish" => pending[w].target <= version
    /\ \A s \in Watchers : streamPc[s] # "closed" =>
          \A v \in Targets(queue[s]) \cup seen[s] : v <= version

OnceInv == TypeInv /\ Bounded /\ AtMostOnce

\* A new version at the end of a channel keeps its versions distinct.
LEMMA DistinctAppend ==
    ASSUME NEW q \in Seq(Diffs), NEW d \in Diffs, d.target \notin Targets(q),
           \A i, j \in 1..Len(q) : i # j => q[i].target # q[j].target
    PROVE  \A i, j \in 1..Len(Append(q, d)) :
              i # j => Append(q, d)[i].target # Append(q, d)[j].target
<1> DEFINE r == Append(q, d)
<1>1. Len(r) = Len(q) + 1 /\ r[Len(q) + 1] = d
  OBVIOUS
<1>2. \A i \in 1..Len(q) : r[i] = q[i] /\ q[i].target # d.target
  BY DEF Targets
<1>3. \A i \in 1..Len(r) : i \in 1..Len(q) \/ i = Len(q) + 1
  BY <1>1
<1> HIDE DEF r
<1>4. \A i, j \in 1..Len(r) : i # j => r[i].target # r[j].target
  BY <1>1, <1>2, <1>3
<1> QED  BY <1>4 DEF r

\* A channel whose diffs have different versions keeps that when its first
\* diff is received, and the version received is no longer in it.
LEMMA DistinctTail ==
    ASSUME NEW q \in Seq(Diffs), q # <<>>,
           \A i, j \in 1..Len(q) : i # j => q[i].target # q[j].target
    PROVE  /\ \A i, j \in 1..Len(Tail(q)) : i # j => Tail(q)[i].target # Tail(q)[j].target
           /\ Head(q).target \notin Targets(Tail(q))
<1> DEFINE t == Tail(q)
<1>1. Len(q) \in Nat \ {0} /\ Len(t) = Len(q) - 1 /\ Head(q) = q[1]
  OBVIOUS
<1>2. \A i \in 1..Len(t) : t[i] = q[i + 1]
  OBVIOUS
<1> HIDE DEF t
<1>3. \A i \in 1..Len(t) : i + 1 \in 1..Len(q) /\ i + 1 # 1
  BY <1>1
<1>4. ASSUME NEW i \in 1..Len(t), NEW j \in 1..Len(t), i # j
      PROVE  t[i].target # t[j].target
  <2>1. i + 1 \in 1..Len(q) /\ j + 1 \in 1..Len(q) /\ i + 1 # j + 1
    BY <1>1, <1>4
  <2>2. t[i] = q[i + 1] /\ t[j] = q[j + 1]
    BY <1>2
  <2> QED  BY <2>1, <2>2
<1>5. 1 \in 1..Len(q)
  BY <1>1
<1>6. \A i \in 1..Len(t) : t[i].target # Head(q).target
  BY <1>1, <1>2, <1>3, <1>5
<1>7. Head(q).target \notin Targets(t)
  BY <1>6 DEF Targets
<1> QED  BY <1>4, <1>7 DEF t

\* No step gives one version two places on its way to a stream.
LEMMA OnceStep == OnceInv /\ [Next]_vars => OnceInv'
<1> SUFFICES ASSUME OnceInv, [Next]_vars PROVE Bounded' /\ AtMostOnce'
  BY StepType DEF OnceInv
<1> USE DEF storeVars, writerVars, streamVars, clientVars
<1>t. TypeInv /\ TypeInv' /\ version \in Nat
  <2>1. TypeInv /\ TypeInv'
    BY StepType DEF OnceInv
  <2>2. version \in Nat
    BY <2>1 DEF TypeInv, TypeOK
  <2> QED  BY <2>1, <2>2
<1>n. /\ \A w \in Writers : pending[w] \in Diffs /\ pending[w].target \in Nat
      /\ \A s \in Watchers : /\ queue[s] \in Seq(Diffs)
                             /\ Targets(queue[s]) \subseteq Nat
                             /\ seen[s] \subseteq Nat
  <2>1. \A w \in Writers : pending[w] \in Diffs
    BY <1>t DEF TypeInv, TypeOK
  <2>2. \A s \in Watchers : queue[s] \in Seq(Diffs) /\ seen[s] \subseteq Nat
    BY <1>t DEF TypeInv, TypeOK
  <2>3. \A d \in Diffs : d.target \in Nat
    BY DEF Diffs
  <2>4. \A s \in Watchers : \A i \in 1..Len(queue[s]) : queue[s][i] \in Diffs
    BY <2>2
  <2>5. \A s \in Watchers : Targets(queue[s]) \subseteq Nat
    BY <2>3, <2>4 DEF Targets
  <2> QED  BY <2>1, <2>2, <2>3, <2>5
<1>1. ASSUME NEW w \in Writers, Commits(w)
      PROVE  Bounded' /\ AtMostOnce'
  <2>1. PendingTargets' = PendingTargets \cup {version + 1} /\ version' = version + 1
    BY <1>1, <1>t, CommitPending DEF Commits, Commit
  <2>2. UNCHANGED <<subscribers, queue, streamPc, start, seen, dropped>>
    BY <1>1 DEF Commits
  <2>3. /\ \A x \in Writers \ {w} : pending'[x] = pending[x] /\ writerPc'[x] = writerPc[x]
        /\ pending'[w].target = version + 1
    BY <1>1, <1>t DEF Commits, Commit, DiffOf, TypeInv, TypeOK
  <2>4. \A x \in Writers : writerPc[x] = "publish" => pending[x].target # version + 1
    BY <1>t, <1>n DEF OnceInv, Bounded
  <2>5. \A s \in Watchers : streamPc[s] # "closed" =>
            version + 1 \notin Targets(queue[s]) \cup seen[s]
    <3>1. \A v \in Nat : v <= version => v # version + 1
      BY <1>t
    <3> QED  BY <3>1, <1>t, <1>n DEF OnceInv, Bounded
  <2>6. Bounded'
    <3>1. \A x \in Writers : writerPc'[x] = "publish" => pending'[x].target <= version + 1
      BY <2>3, <1>t, <1>n DEF OnceInv, Bounded
    <3>2. \A s \in Watchers : streamPc'[s] # "closed" =>
              \A v \in Targets(queue'[s]) \cup seen'[s] : v <= version + 1
      <4>1. \A v \in Nat : v <= version => v <= version + 1
        BY <1>t
      <4> QED  BY <2>2, <4>1, <1>n DEF OnceInv, Bounded
    <3> QED  BY <2>1, <3>1, <3>2 DEF Bounded
  <2>7. AtMostOnce'
    <3>1. \A w1, w2 \in Writers :
            writerPc'[w1] = "publish" /\ writerPc'[w2] = "publish" /\ w1 # w2
              => pending'[w1].target # pending'[w2].target
      BY <2>3, <2>4 DEF OnceInv, AtMostOnce
    <3>2. \A s \in Watchers : streamPc'[s] # "closed" =>
            /\ \A i, j \in 1..Len(queue'[s]) :
                  i # j => queue'[s][i].target # queue'[s][j].target
            /\ PendingTargets' \cap (Targets(queue'[s]) \cup seen'[s]) = {}
            /\ Targets(queue'[s]) \cap seen'[s] = {}
      BY <2>1, <2>2, <2>5 DEF OnceInv, AtMostOnce
    <3> QED  BY <3>1, <3>2 DEF AtMostOnce
  <2> QED  BY <2>6, <2>7
<1>2. ASSUME NEW w \in Writers, PublishDiff(w)
      PROVE  Bounded' /\ AtMostOnce'
  <2> DEFINE d == pending[w]
  <2>1. /\ \A x \in Writers \ {w} : pending'[x] = pending[x] /\ writerPc'[x] = writerPc[x]
        /\ writerPc[w] = "publish" /\ writerPc'[w] = "idle"
    BY <1>2, <1>t DEF PublishDiff, TypeInv, TypeOK
  <2>2. UNCHANGED <<version, streamPc, seen>>
    BY <1>2 DEF PublishDiff
  <2>3. d.target \in PendingTargets /\ d.target \notin PendingTargets'
    BY <2>1 DEF PendingTargets, OnceInv, AtMostOnce
  <2>4. PendingTargets' \subseteq PendingTargets
    BY <1>2, <1>t, PublishPending
  <2>5. d \in Diffs /\ d.target <= version
    BY <2>1, <1>n DEF OnceInv, Bounded
  <2>6. \A x \in Writers : writerPc'[x] = "publish" => x # w
    BY <2>1
  <2>7. ASSUME NEW s \in Watchers, streamPc'[s] # "closed"
        PROVE  /\ \A v \in Targets(queue'[s]) \cup seen'[s] : v <= version'
               /\ \A i, j \in 1..Len(queue'[s]) :
                     i # j => queue'[s][i].target # queue'[s][j].target
               /\ PendingTargets' \cap (Targets(queue'[s]) \cup seen'[s]) = {}
               /\ Targets(queue'[s]) \cap seen'[s] = {}
    <3>1. /\ \A v \in Targets(queue[s]) \cup seen[s] : v <= version
          /\ \A i, j \in 1..Len(queue[s]) : i # j => queue[s][i].target # queue[s][j].target
          /\ PendingTargets \cap (Targets(queue[s]) \cup seen[s]) = {}
          /\ Targets(queue[s]) \cap seen[s] = {}
      BY <2>2, <2>7 DEF OnceInv, Bounded, AtMostOnce
    <3>2. CASE queue'[s] = queue[s]
      BY <3>1, <3>2, <2>2, <2>4
    <3>3. CASE queue'[s] = Append(queue[s], d)
      <4>1. d.target \notin Targets(queue[s]) \cup seen[s]
        BY <3>1, <2>3
      <4>2. Targets(queue'[s]) = Targets(queue[s]) \cup {d.target}
        BY <3>3, <2>5, <1>n, TargetsAppend
      <4>3. \A i, j \in 1..Len(queue'[s]) :
              i # j => queue'[s][i].target # queue'[s][j].target
        BY <3>3, <3>1, <4>1, <2>5, <1>n, DistinctAppend
      <4> QED  BY <4>1, <4>2, <4>3, <3>1, <2>2, <2>3, <2>4, <2>5
    <3>4. queue'[s] = queue[s] \/ queue'[s] = Append(queue[s], d)
      BY <1>2 DEF PublishDiff
    <3> QED  BY <3>2, <3>3, <3>4
  <2>8. Bounded'
    BY <2>1, <2>2, <2>6, <2>7 DEF OnceInv, Bounded
  <2> QED  BY <2>1, <2>6, <2>7, <2>8 DEF OnceInv, AtMostOnce
<1>3. ASSUME NEW s \in Watchers, Subscribe(s)
      PROVE  Bounded' /\ AtMostOnce'
  <2>1. \A x \in Watchers \ {s} : /\ streamPc'[x] = streamPc[x] /\ queue'[x] = queue[x]
                                  /\ seen'[x] = seen[x]
    BY <1>3, <1>t DEF Subscribe, TypeInv, TypeOK
  <2>2. queue'[s] = <<>> /\ seen'[s] = {} /\ Targets(queue'[s]) = {}
    BY <1>3, <1>t, TargetsEmpty DEF Subscribe, TypeInv, TypeOK
  <2>3. PendingTargets' = PendingTargets /\ UNCHANGED <<version, writerPc, pending>>
    BY <1>3 DEF Subscribe, PendingTargets
  <2>4. \A i \in 1..Len(queue'[s]) : FALSE
    BY <2>2
  <2> QED  BY <2>1, <2>2, <2>3, <2>4 DEF OnceInv, Bounded, AtMostOnce
<1>4. ASSUME NEW s \in Watchers, Open(s)
      PROVE  Bounded' /\ AtMostOnce'
  <2>1. \A x \in Watchers : streamPc'[x] # "closed" => streamPc[x] # "closed"
    BY <1>4, <1>t DEF Open, TypeInv, TypeOK
  <2>2. PendingTargets' = PendingTargets /\ UNCHANGED <<version, writerPc, pending, queue, seen>>
    BY <1>4 DEF Open, PendingTargets
  <2> QED  BY <2>1, <2>2 DEF OnceInv, Bounded, AtMostOnce
<1>5. ASSUME NEW s \in Watchers, Deliver(s)
      PROVE  Bounded' /\ AtMostOnce'
  <2>1. \A x \in Watchers \ {s} : queue'[x] = queue[x] /\ seen'[x] = seen[x]
    BY <1>5, <1>t DEF Deliver, TypeInv, TypeOK
  <2>2. streamPc[s] = "streaming" /\ queue[s] # <<>>
    BY <1>5 DEF Deliver
  <2>3. queue'[s] = Tail(queue[s]) /\ seen'[s] = seen[s] \cup {Head(queue[s]).target}
    BY <1>5, <1>t DEF Deliver, TypeInv, TypeOK
  <2>4. Targets(queue[s]) = {Head(queue[s]).target} \cup Targets(queue'[s])
    BY <2>2, <2>3, <1>n, TargetsTail
  <2>5. /\ \A i, j \in 1..Len(queue'[s]) :
              i # j => queue'[s][i].target # queue'[s][j].target
        /\ Head(queue[s]).target \notin Targets(queue'[s])
    BY <2>2, <2>3, <1>n, DistinctTail DEF OnceInv, AtMostOnce
  <2>6. PendingTargets' = PendingTargets /\ UNCHANGED <<version, writerPc, pending, streamPc>>
    BY <1>5 DEF Deliver, PendingTargets
  <2>7. Targets(queue'[s]) \cup seen'[s] = Targets(queue[s]) \cup seen[s]
    BY <2>3, <2>4
  <2>8. \A x \in Watchers : Targets(queue'[x]) \cup seen'[x] = Targets(queue[x]) \cup seen[x]
    BY <2>1, <2>7
  <2>9. Bounded'
    BY <2>6, <2>8 DEF OnceInv, Bounded
  <2>10. Targets(queue'[s]) \cap seen'[s] = {}
    BY <2>2, <2>3, <2>4, <2>5 DEF OnceInv, AtMostOnce
  <2>11. ASSUME NEW x \in Watchers, streamPc'[x] # "closed"
         PROVE  /\ \A i, j \in 1..Len(queue'[x]) :
                      i # j => queue'[x][i].target # queue'[x][j].target
                /\ PendingTargets' \cap (Targets(queue'[x]) \cup seen'[x]) = {}
                /\ Targets(queue'[x]) \cap seen'[x] = {}
    BY <2>1, <2>5, <2>6, <2>8, <2>10, <2>11 DEF OnceInv, AtMostOnce
  <2> QED  BY <2>6, <2>9, <2>11 DEF OnceInv, AtMostOnce
<1>6. ASSUME NEW s \in Watchers, Disconnect(s)
      PROVE  Bounded' /\ AtMostOnce'
  <2>1. \A x \in Watchers \ {s} : /\ streamPc'[x] = streamPc[x] /\ queue'[x] = queue[x]
                                  /\ seen'[x] = seen[x]
    BY <1>6, <1>t DEF Disconnect, ForgetStreams, TypeInv, TypeOK
  <2>2. streamPc'[s] = "closed"
    BY <1>6, <1>t DEF Disconnect, ForgetStreams, TypeInv, TypeOK
  <2>3. PendingTargets' = PendingTargets /\ UNCHANGED <<version, writerPc, pending>>
    BY <1>6 DEF Disconnect, PendingTargets
  <2> QED  BY <2>1, <2>2, <2>3 DEF OnceInv, Bounded, AtMostOnce
<1>7. CASE Restart
  <2>1. \A w \in Writers : writerPc'[w] = "idle"
    BY <1>7 DEF Restart
  <2>2. \A s \in Watchers : streamPc'[s] = "closed"
    BY <1>7 DEF Restart
  <2> QED  BY <2>1, <2>2 DEF Bounded, AtMostOnce
<1>8. ASSUME PendingTargets' = PendingTargets,
             \A w \in Writers : writerPc'[w] = "publish" =>
                writerPc[w] = "publish" /\ pending'[w] = pending[w],
             UNCHANGED <<storeVars, subscribers, queue, streamPc, start, seen, dropped>>
      PROVE  Bounded' /\ AtMostOnce'
  BY <1>8 DEF OnceInv, Bounded, AtMostOnce
<1> QED  BY <1>1, <1>2, <1>3, <1>4, <1>5, <1>6, <1>7, <1>8, <1>t, StepKinds

\* No version is published twice to a stream, whatever the interleaving.
THEOREM PublishedAtMostOnce == Spec => []AtMostOnce
<1>1. Init => OnceInv
  <2>1. Init => Bounded /\ AtMostOnce
    BY DEF Init, Bounded, AtMostOnce
  <2> QED  BY <2>1, InitType DEF OnceInv
<1>2. Spec => []OnceInv
  BY <1>1, OnceStep, PTL DEF Spec
<1> QED  BY <1>2, PTL DEF OnceInv

ReplayInv == TypeInv /\ DiffsReplay

\* No step makes a diff that is on its way inexact: a commit only adds to the
\* log, and a restart empties every channel and every writer's hands.
LEMMA ReplayStep == ReplayInv /\ [Next]_vars => ReplayInv'
<1> SUFFICES ASSUME ReplayInv, [Next]_vars PROVE DiffsReplay'
  BY StepType DEF ReplayInv
<1> USE DEF storeVars, writerVars, streamVars, clientVars
<1>t. TypeInv /\ version \in Nat /\ DOMAIN log = 0..version
  <2>1. TypeInv
    BY DEF ReplayInv
  <2>2. version \in Nat /\ DOMAIN log = 0..version
    BY <2>1 DEF TypeInv, TypeOK
  <2> QED  BY <2>1, <2>2
<1>1. ASSUME NEW w \in Writers, Commits(w)
      PROVE  DiffsReplay'
  <2>1. PICK r \in Resources, val \in Values \cup {Absent} : Commit(w, r, val)
    BY <1>1 DEF Commits
  <2>2. /\ log' = [v \in 0..(version + 1) |-> IF v \in DOMAIN log THEN log[v] ELSE config']
        /\ version' = version + 1
        /\ config' = [config EXCEPT ![r] = val]
        /\ pending' = [pending EXCEPT ![w] = DiffOf(r, val, version + 1)]
        /\ writerPc' = [writerPc EXCEPT ![w] = "publish"]
    BY <2>1 DEF Commit
  <2>3. /\ DOMAIN log' = 0..(version + 1)
        /\ log'[version + 1] = config'
        /\ \A v \in DOMAIN log : v \in DOMAIN log' /\ log'[v] = log[v]
    BY <2>2, <1>t
  <2>4. \A d : IsExact(log, d) => IsExact(log', d)
    BY <2>3 DEF IsExact, Apply
  <2>5. IsExact(log', DiffOf(r, val, version + 1))
    <3> DEFINE d == DiffOf(r, val, version + 1)
    <3>1. d.base = version /\ d.target = version + 1 /\ d.changes = [x \in {r} |-> val]
      BY <1>t DEF DiffOf
    <3>2. d.base \in DOMAIN log' /\ d.target \in DOMAIN log'
      BY <3>1, <2>3, <1>t
    <3>3. log'[d.base] = config
      BY <3>1, <2>3, <1>t DEF ReplayInv, DiffsReplay
    <3>4. Apply(config, d) = config'
      BY <3>1, <2>2, <1>t DEF Apply, TypeInv, TypeOK, Configs
    <3> HIDE DEF d
    <3>5. IsExact(log', d)
      BY <3>1, <3>2, <3>3, <3>4, <2>3 DEF IsExact, Apply
    <3> QED  BY <3>5 DEF d
  <2>6. pending'[w] = DiffOf(r, val, version + 1)
    BY <2>2, <1>t DEF TypeInv, TypeOK
  <2>7. \A x \in Writers \ {w} : pending'[x] = pending[x] /\ writerPc'[x] = writerPc[x]
    BY <2>2, <1>t DEF TypeInv, TypeOK
  <2>8. queue' = queue
    BY <1>1 DEF Commits
  <2>9. config' = log'[version']
    BY <2>2, <2>3
  <2>10. \A x \in Writers : writerPc'[x] = "publish" => IsExact(log', pending'[x])
    BY <2>4, <2>5, <2>6, <2>7 DEF ReplayInv, DiffsReplay
  <2>11. \A s \in Watchers : \A i \in 1..Len(queue'[s]) : IsExact(log', queue'[s][i])
    BY <2>4, <2>8 DEF ReplayInv, DiffsReplay
  <2> QED  BY <2>9, <2>10, <2>11 DEF DiffsReplay
<1>2. ASSUME UNCHANGED storeVars,
             \A w \in Writers : writerPc'[w] = "publish" =>
                writerPc[w] = "publish" /\ pending'[w] = pending[w],
             \A s \in Watchers : \A i \in 1..Len(queue'[s]) : IsExact(log, queue'[s][i])
      PROVE  DiffsReplay'
  BY <1>2 DEF ReplayInv, DiffsReplay, IsExact, Apply
<1>3. \A s \in Watchers : queue[s] \in Seq(Diffs)
  BY <1>t DEF TypeInv, TypeOK
<1>4. ASSUME NEW w \in Writers, PublishDiff(w)
      PROVE  DiffsReplay'
  <2>1. /\ \A x \in Writers \ {w} : pending'[x] = pending[x] /\ writerPc'[x] = writerPc[x]
        /\ writerPc[w] = "publish" /\ writerPc'[w] = "idle"
    BY <1>4, <1>t DEF PublishDiff, TypeInv, TypeOK
  <2>2. IsExact(log, pending[w])
    BY <2>1 DEF ReplayInv, DiffsReplay
  <2>3. ASSUME NEW s \in Watchers, NEW i \in 1..Len(queue'[s])
        PROVE  IsExact(log, queue'[s][i])
    <3>1. CASE queue'[s] = queue[s]
      BY <3>1, <2>3 DEF ReplayInv, DiffsReplay
    <3>2. CASE queue'[s] = Append(queue[s], pending[w])
      <4>1. \/ i \in 1..Len(queue[s]) /\ queue'[s][i] = queue[s][i]
            \/ queue'[s][i] = pending[w]
        BY <3>2, <1>3
      <4> QED  BY <4>1, <2>2 DEF ReplayInv, DiffsReplay
    <3> QED  BY <3>1, <3>2, <1>4 DEF PublishDiff
  <2>4. UNCHANGED storeVars
    BY <1>4 DEF PublishDiff
  <2> QED  BY <2>1, <2>3, <2>4, <1>2
<1>5. ASSUME NEW s \in Watchers, Subscribe(s) \/ Open(s) \/ Deliver(s) \/ Disconnect(s)
      PROVE  DiffsReplay'
  <2>1. UNCHANGED <<config, version, log, writerPc, pending>>
    BY <1>5 DEF Subscribe, Open, Deliver, Disconnect, ForgetStreams
  <2>2. \A x \in Watchers : \/ queue'[x] = queue[x]
                            \/ queue'[x] = <<>>
                            \/ queue[x] # <<>> /\ queue'[x] = Tail(queue[x])
    BY <1>5, <1>t DEF Subscribe, Open, Deliver, Disconnect, ForgetStreams, TypeInv, TypeOK
  <2>3. ASSUME NEW x \in Watchers, NEW i \in 1..Len(queue'[x])
        PROVE  IsExact(log, queue'[x][i])
    <3>1. CASE queue'[x] = queue[x]
      BY <3>1, <2>3 DEF ReplayInv, DiffsReplay
    <3>2. CASE queue'[x] = <<>>
      BY <3>2, <2>3
    <3>3. CASE queue[x] # <<>> /\ queue'[x] = Tail(queue[x])
      <4>1. i + 1 \in 1..Len(queue[x]) /\ queue'[x][i] = queue[x][i + 1]
        BY <3>3, <2>3, <1>3
      <4> QED  BY <4>1 DEF ReplayInv, DiffsReplay
    <3> QED  BY <3>1, <3>2, <3>3, <2>2
  <2> QED  BY <2>1, <2>3, <1>2
<1>6. CASE Restart
  <2>1. /\ \A w \in Writers : writerPc'[w] = "idle"
        /\ config' = log'[version']
        /\ \A s \in Watchers : queue'[s] = <<>>
    BY <1>6 DEF Restart
  <2> QED  BY <2>1 DEF DiffsReplay
<1>7. ASSUME UNCHANGED <<storeVars, queue>>,
             \A w \in Writers : writerPc'[w] = "publish" =>
                writerPc[w] = "publish" /\ pending'[w] = pending[w]
      PROVE  DiffsReplay'
  BY <1>2, <1>7 DEF ReplayInv, DiffsReplay
<1> QED  BY <1>1, <1>4, <1>5, <1>6, <1>7, <1>t, StepKinds

\* A diff in flight is the change between the two versions it names.
THEOREM DiffsAreExact == Spec => []DiffsReplay
<1>1. Init => ReplayInv
  <2>1. Init => DiffsReplay
    BY DEF Init, DiffsReplay
  <2> QED  BY <2>1, InitType DEF ReplayInv
<1>2. Spec => []ReplayInv
  BY <1>1, ReplayStep, PTL DEF Spec
<1> QED  BY <1>2, PTL DEF ReplayInv

----------------------------------------------------------------------------
(* A client that follows the stream gets to the store's configuration *)

\* Every diff on its way is of one version.
OneVersion(d) == d.target = d.base + 1
StepDiffs ==
    /\ \A w \in Writers : writerPc[w] = "publish" => OneVersion(pending[w])
    /\ \A s \in Watchers : \A i \in 1..Len(queue[s]) : OneVersion(queue[s][i])

\* What a client that opened with the snapshot of version st holds, when it has
\* been sent the versions of sn, the last one kn, each following on the one
\* before: a resource is as in version kn, or it is still as in the snapshot and
\* none of the versions sent has touched it.
Follows(l, vw, st, kn, sn) ==
    /\ st \in DOMAIN l /\ kn \in DOMAIN l
    /\ \/ sn = {} /\ kn = st /\ vw = l[st]
       \/ \E first \in 1..kn :
             /\ sn = first..kn
             /\ \A r \in Resources :
                   \/ vw[r] = l[kn][r]
                   \/ vw[r] = l[st][r] /\ \A v \in (first - 1)..kn : l[v][r] = l[kn][r]

FollowInv ==
    /\ StepDiffs
    /\ \A s \in Watchers : streamPc[s] = "subscribed" => seen[s] = {}
    /\ \A s \in Watchers :
          streamPc[s] = "streaming" /\ opening[s] = "snapshot" /\ inOrder[s]
            => Follows(log, view[s], start[s], known[s], seen[s])

\* A diff that follows on the last one keeps the client on its way.
LEMMA FollowsOn ==
    ASSUME NEW n \in Nat, NEW l \in [0..n -> Configs], NEW vw \in Configs, NEW st, NEW kn, NEW sn,
           Follows(l, vw, st, kn, sn),
           NEW d \in Diffs, IsExact(l, d), OneVersion(d), sn = {} \/ d.base = kn
    PROVE  Follows(l, Apply(vw, d), st, d.target, sn \cup {d.target})
<1> DEFINE t == d.target
           nv == Apply(vw, d)
<1>1. /\ t \in 1..n /\ d.base = t - 1 /\ t - 1 \in 0..n /\ st \in 0..n /\ kn \in 0..n
      /\ t \in DOMAIN l
  BY DEF Diffs, IsExact, OneVersion, Follows
<1>2. /\ \A r \in Resources : nv[r] = IF r \in DOMAIN d.changes THEN d.changes[r] ELSE vw[r]
      /\ \A r \in Resources : l[t][r] = IF r \in DOMAIN d.changes THEN d.changes[r] ELSE l[t - 1][r]
  <2>1. Apply(l[t - 1], d) = l[t]
    BY <1>1 DEF IsExact
  <2> QED
    BY <2>1 DEF Apply
<1> HIDE DEF nv
<1>3. CASE sn = {} /\ kn = st /\ vw = l[st]
  <2>1. t \in 1..t /\ sn \cup {t} = t..t
    BY <1>1, <1>3
  <2>2. ASSUME NEW r \in Resources
        PROVE  \/ nv[r] = l[t][r]
               \/ nv[r] = l[st][r] /\ \A v \in (t - 1)..t : l[v][r] = l[t][r]
    <3>1. \A v \in (t - 1)..t : v = t - 1 \/ v = t
      BY <1>1
    <3> QED
      BY <1>2, <1>3, <3>1
  <2> QED
    BY <1>1, <2>1, <2>2 DEF Follows, nv
<1>4. CASE \E first \in 1..kn :
             /\ sn = first..kn
             /\ \A r \in Resources :
                   \/ vw[r] = l[kn][r]
                   \/ vw[r] = l[st][r] /\ \A v \in (first - 1)..kn : l[v][r] = l[kn][r]
  <2>1. PICK first \in 1..kn :
             /\ sn = first..kn
             /\ \A r \in Resources :
                   \/ vw[r] = l[kn][r]
                   \/ vw[r] = l[st][r] /\ \A v \in (first - 1)..kn : l[v][r] = l[kn][r]
    BY <1>4
  <2>2. kn \in sn
    BY <1>1, <2>1
  <2>3. kn = t - 1
    BY <1>1, <2>2
  <2>4. first \in 1..t /\ sn \cup {t} = first..t
    BY <1>1, <2>1, <2>3
  <2>5. ASSUME NEW r \in Resources
        PROVE  \/ nv[r] = l[t][r]
               \/ nv[r] = l[st][r] /\ \A v \in (first - 1)..t : l[v][r] = l[t][r]
    <3>1. \A v \in (first - 1)..t : v \in (first - 1)..kn \/ v = t
      BY <1>1, <2>3
    <3>2. CASE r \in DOMAIN d.changes
      BY <1>2, <3>2
    <3>3. CASE r \notin DOMAIN d.changes
      <4>1. nv[r] = vw[r] /\ l[t][r] = l[kn][r]
        BY <1>2, <2>3, <3>3
      <4> QED
        BY <2>1, <3>1, <4>1
    <3> QED
      BY <3>2, <3>3
  <2> QED
    BY <1>1, <2>4, <2>5 DEF Follows, nv
<1> QED
  BY <1>3, <1>4 DEF Follows

\* A commit adds to the log and takes nothing back.
LEMMA FollowsGrown ==
    ASSUME NEW n \in Nat, NEW l \in [0..n -> Configs], NEW longer \in [0..(n + 1) -> Configs],
           \A v \in 0..n : longer[v] = l[v],
           NEW vw, NEW st, NEW kn, NEW sn, Follows(l, vw, st, kn, sn)
    PROVE  Follows(longer, vw, st, kn, sn)
<1>1. st \in 0..n /\ kn \in 0..n /\ st \in DOMAIN longer /\ kn \in DOMAIN longer
  BY DEF Follows
<1>2. \A first \in 1..kn : \A v \in (first - 1)..kn : v \in 0..n
  BY <1>1
<1> QED
  BY <1>1, <1>2 DEF Follows

\* Every version on its way stays one version.
LEMMA StepDiffsKept == ASSUME TypeInv, StepDiffs, [Next]_vars PROVE StepDiffs'
<1> USE DEF storeVars, writerVars, streamVars, clientVars
<1>q. \A s \in Watchers : queue[s] \in Seq(Diffs)
  BY DEF TypeInv, TypeOK
<1>1. ASSUME NEW w \in Writers, Commits(w) PROVE StepDiffs'
  <2>1. OneVersion(pending'[w])
    <3>1. version \in Nat
      BY DEF TypeInv, TypeOK
    <3> QED
      BY <1>1, <3>1 DEF Commits, Commit, DiffOf, OneVersion, TypeInv, TypeOK
  <2>2. \A x \in Writers \ {w} : pending'[x] = pending[x] /\ writerPc'[x] = writerPc[x]
    BY <1>1 DEF Commits, Commit, TypeInv, TypeOK
  <2> QED
    BY <1>1, <2>1, <2>2 DEF Commits, StepDiffs
<1>2. ASSUME NEW w \in Writers, PublishDiff(w) PROVE StepDiffs'
  <2>1. /\ \A x \in Writers \ {w} : pending'[x] = pending[x] /\ writerPc'[x] = writerPc[x]
        /\ writerPc[w] = "publish" /\ writerPc'[w] = "idle"
    BY <1>2 DEF PublishDiff, TypeInv, TypeOK
  <2>2. OneVersion(pending[w])
    BY <2>1 DEF StepDiffs
  <2>3. ASSUME NEW s \in Watchers, NEW i \in 1..Len(queue'[s])
        PROVE  OneVersion(queue'[s][i])
    <3>1. CASE queue'[s] = queue[s]
      BY <3>1 DEF StepDiffs
    <3>2. CASE queue'[s] = Append(queue[s], pending[w])
      <4>1. \/ i \in 1..Len(queue[s]) /\ queue'[s][i] = queue[s][i]
            \/ queue'[s][i] = pending[w]
        BY <3>2, <1>q
      <4> QED
        BY <4>1, <2>2 DEF StepDiffs
    <3> QED
      BY <3>1, <3>2, <1>2 DEF PublishDiff
  <2> QED
    BY <2>1, <2>3 DEF StepDiffs
<1>3. ASSUME NEW s \in Watchers, Subscribe(s) \/ Open(s) \/ Deliver(s) \/ Disconnect(s)
      PROVE  StepDiffs'
  <2>1. UNCHANGED <<writerPc, pending>>
    BY <1>3 DEF Subscribe, Open, Deliver, Disconnect, ForgetStreams
  <2>2. \A x \in Watchers : \/ queue'[x] = queue[x]
                            \/ queue'[x] = <<>>
                            \/ queue[x] # <<>> /\ queue'[x] = Tail(queue[x])
    BY <1>3 DEF Subscribe, Open, Deliver, Disconnect, ForgetStreams, TypeInv, TypeOK
  <2>3. ASSUME NEW x \in Watchers, NEW i \in 1..Len(queue'[x])
        PROVE  OneVersion(queue'[x][i])
    <3>1. CASE queue'[x] = queue[x]
      BY <3>1 DEF StepDiffs
    <3>2. CASE queue'[x] = <<>>
      BY <3>2
    <3>3. CASE queue[x] # <<>> /\ queue'[x] = Tail(queue[x])
      <4>1. i + 1 \in 1..Len(queue[x]) /\ queue'[x][i] = queue[x][i + 1]
        BY <3>3, <1>q
      <4> QED
        BY <4>1 DEF StepDiffs
    <3> QED
      BY <3>1, <3>2, <3>3, <2>2
  <2> QED
    BY <2>1, <2>3 DEF StepDiffs
<1>4. CASE Restart
  <2>1. /\ \A w \in Writers : writerPc'[w] = "idle"
        /\ \A s \in Watchers : queue'[s] = <<>>
    BY <1>4 DEF Restart
  <2> QED
    BY <2>1 DEF StepDiffs
<1>5. ASSUME queue' = queue,
             \A w \in Writers : writerPc'[w] = "publish" =>
                writerPc[w] = "publish" /\ pending'[w] = pending[w]
      PROVE  StepDiffs'
  BY <1>5 DEF StepDiffs
<1> QED
  BY <1>1, <1>2, <1>3, <1>4, <1>5, StepKinds

\* No step takes a client off its way to the store's configuration.
LEMMA FollowStep == ASSUME ReplayInv, FollowInv, [Next]_vars PROVE FollowInv'
<1> USE DEF storeVars, writerVars, streamVars, clientVars
<1>t. /\ TypeInv /\ StepDiffs' /\ version \in Nat /\ config = log[version]
      /\ log \in [0..version -> Configs]
      /\ \A s \in Watchers : view[s] \in Configs /\ queue[s] \in Seq(Diffs)
  <2>1. TypeInv
    BY DEF ReplayInv
  <2> QED
    BY <2>1, StepDiffsKept DEF ReplayInv, FollowInv, DiffsReplay, TypeInv, TypeOK
<1>0. ASSUME UNCHANGED log, NEW s \in Watchers,
             \A x \in Watchers \ {s} :
                /\ streamPc'[x] = streamPc[x] /\ opening'[x] = opening[x] /\ start'[x] = start[x]
                /\ view'[x] = view[x] /\ known'[x] = known[x] /\ seen'[x] = seen[x] /\ inOrder'[x] = inOrder[x],
             streamPc'[s] = "subscribed" => seen'[s] = {},
             streamPc'[s] = "streaming" /\ opening'[s] = "snapshot" /\ inOrder'[s]
                => Follows(log, view'[s], start'[s], known'[s], seen'[s])
      PROVE  FollowInv'
  <2>1. \A x \in Watchers : streamPc'[x] = "subscribed" => seen'[x] = {}
    BY <1>0 DEF FollowInv
  <2>2. ASSUME NEW x \in Watchers,
               streamPc'[x] = "streaming" /\ opening'[x] = "snapshot" /\ inOrder'[x]
        PROVE  Follows(log', view'[x], start'[x], known'[x], seen'[x])
    <3>1. CASE x = s
      BY <1>0, <2>2, <3>1
    <3>2. CASE x # s
      BY <1>0, <2>2, <3>2 DEF FollowInv
    <3> QED
      BY <3>1, <3>2
  <2> QED
    BY <1>t, <2>1, <2>2 DEF FollowInv
<1>1. ASSUME NEW w \in Writers, Commits(w) PROVE FollowInv'
  <2>1. /\ version' = version + 1 /\ log' \in [0..(version + 1) -> Configs]
        /\ \A v \in 0..version : log'[v] = log[v]
    <3>1. PICK r \in Resources, val \in Values \cup {Absent} : Commit(w, r, val)
      BY <1>1 DEF Commits
    <3>2. log' \in [0..version' -> Configs] /\ version' = version + 1
      BY <1>t, <3>1, CommitType DEF Commit
    <3>3. \A v \in 0..version : log'[v] = log[v]
      BY <1>t, <3>1 DEF Commit
    <3> QED
      BY <3>2, <3>3
  <2>2. UNCHANGED <<streamPc, opening, start, view, known, seen, inOrder>>
    BY <1>1 DEF Commits
  <2>3. ASSUME NEW s \in Watchers,
               streamPc[s] = "streaming" /\ opening[s] = "snapshot" /\ inOrder[s]
        PROVE  Follows(log', view[s], start[s], known[s], seen[s])
    <3>1. Follows(log, view[s], start[s], known[s], seen[s])
      BY <2>3 DEF FollowInv
    <3> QED
      BY <1>t, <2>1, <3>1, FollowsGrown
  <2> QED
    BY <1>t, <2>2, <2>3 DEF FollowInv
<1>2. ASSUME NEW w \in Writers, PublishDiff(w) PROVE FollowInv'
  <2>1. UNCHANGED <<log, streamPc, opening, start, view, known, seen, inOrder>>
    BY <1>2 DEF PublishDiff
  <2> QED
    BY <1>t, <2>1 DEF FollowInv
<1>3. ASSUME NEW s \in Watchers, Subscribe(s) PROVE FollowInv'
  <2>1. /\ UNCHANGED log /\ streamPc'[s] = "subscribed" /\ seen'[s] = {}
        /\ \A x \in Watchers \ {s} :
              /\ streamPc'[x] = streamPc[x] /\ opening'[x] = opening[x] /\ start'[x] = start[x]
              /\ view'[x] = view[x] /\ known'[x] = known[x] /\ seen'[x] = seen[x] /\ inOrder'[x] = inOrder[x]
    BY <1>3, <1>t DEF Subscribe, TypeInv, TypeOK
  <2> QED
    BY <2>1, <1>0
<1>4. ASSUME NEW s \in Watchers, Open(s) PROVE FollowInv'
  <2>1. /\ UNCHANGED log /\ streamPc'[s] = "streaming" /\ start'[s] = version /\ streamPc[s] = "subscribed"
        /\ opening'[s] = OpeningFor(asked[s], version) /\ seen'[s] = seen[s]
        /\ opening'[s] = "snapshot" => view'[s] = config /\ known'[s] = version
        /\ \A x \in Watchers \ {s} :
              /\ streamPc'[x] = streamPc[x] /\ opening'[x] = opening[x] /\ start'[x] = start[x]
              /\ view'[x] = view[x] /\ known'[x] = known[x] /\ seen'[x] = seen[x] /\ inOrder'[x] = inOrder[x]
    BY <1>4, <1>t DEF Open, TypeInv, TypeOK
  <2>2. seen'[s] = {}
    BY <2>1 DEF FollowInv
  <2>3. version \in DOMAIN log
    BY <1>t
  <2>4. opening'[s] = "snapshot" => Follows(log, view'[s], start'[s], known'[s], seen'[s])
    BY <1>t, <2>1, <2>2, <2>3 DEF Follows
  <2> QED
    BY <2>1, <2>4, <1>0
<1>5. ASSUME NEW s \in Watchers, Deliver(s) PROVE FollowInv'
  <2> DEFINE d == Head(queue[s])
  <2>1. /\ UNCHANGED <<log, streamPc, opening, start>> /\ streamPc[s] = "streaming"
        /\ view'[s] = Apply(view[s], d) /\ known'[s] = d.target /\ seen'[s] = seen[s] \cup {d.target}
        /\ inOrder'[s] = (inOrder[s] /\ (seen[s] = {} \/ d.base = known[s]))
        /\ \A x \in Watchers \ {s} :
              /\ streamPc'[x] = streamPc[x] /\ opening'[x] = opening[x] /\ start'[x] = start[x]
              /\ view'[x] = view[x] /\ known'[x] = known[x] /\ seen'[x] = seen[x] /\ inOrder'[x] = inOrder[x]
    BY <1>5, <1>t DEF Deliver, TypeInv, TypeOK
  <2>2. d \in Diffs /\ d = queue[s][1] /\ 1 \in 1..Len(queue[s])
    BY <1>5, <1>t DEF Deliver
  <2>3. IsExact(log, d) /\ OneVersion(d)
    BY <2>2 DEF ReplayInv, DiffsReplay, FollowInv, StepDiffs
  <2> HIDE DEF d
  <2>4. ASSUME opening[s] = "snapshot", inOrder[s], seen[s] = {} \/ d.base = known[s]
        PROVE  Follows(log, view'[s], start[s], known'[s], seen'[s])
    <3>1. Follows(log, view[s], start[s], known[s], seen[s])
      BY <2>1, <2>4 DEF FollowInv
    <3>2. Follows(log, Apply(view[s], d), start[s], d.target, seen[s] \cup {d.target})
      BY <1>t, <2>2, <2>3, <2>4, <3>1, FollowsOn
    <3> QED
      BY <2>1, <3>2
  <2>5. streamPc'[s] # "subscribed" /\ start'[s] = start[s] /\ opening'[s] = opening[s]
    BY <2>1
  <2> QED
    BY <2>1, <2>4, <2>5, <1>0
<1>6. ASSUME NEW s \in Watchers, Disconnect(s) PROVE FollowInv'
  <2>1. /\ UNCHANGED log /\ streamPc'[s] = "closed"
        /\ \A x \in Watchers \ {s} :
              /\ streamPc'[x] = streamPc[x] /\ opening'[x] = opening[x] /\ start'[x] = start[x]
              /\ view'[x] = view[x] /\ known'[x] = known[x] /\ seen'[x] = seen[x] /\ inOrder'[x] = inOrder[x]
    BY <1>6, <1>t DEF Disconnect, ForgetStreams, TypeInv, TypeOK
  <2> QED
    BY <2>1, <1>0
<1>7. CASE Restart
  <2>1. \A s \in Watchers : streamPc'[s] = "closed"
    BY <1>7 DEF Restart
  <2> QED
    BY <1>t, <2>1 DEF FollowInv
<1>8. ASSUME UNCHANGED <<storeVars, subscribers, queue, streamPc, opening, start, view, known,
                         seen, inOrder, dropped>>
      PROVE  FollowInv'
  BY <1>t, <1>8 DEF FollowInv
<1> QED
  BY <1>1, <1>2, <1>3, <1>4, <1>5, <1>6, <1>7, <1>8, <1>t, StepKinds

\* A client that was sent everything, up to the store's version, has the store's
\* configuration: what it had been taken back to has been repaired.
LEMMA FollowedConverges == MissInv /\ ReplayInv /\ FollowInv => Converged
<1> SUFFICES ASSUME MissInv, ReplayInv, FollowInv, NEW s \in Watchers,
                    FollowedStore(s), inOrder[s], known[s] = version
             PROVE  view[s] = config
  BY DEF Converged
<1>1. /\ version \in Nat /\ log \in [0..version -> Configs] /\ config = log[version]
      /\ view[s] \in Configs /\ config \in Configs /\ seen[s] \subseteq Nat
  BY DEF ReplayInv, DiffsReplay, TypeInv, TypeOK
<1>2. Follows(log, view[s], start[s], version, seen[s])
  BY DEF FollowInv, FollowedStore
<1>3. \A v \in (start[s] + 1)..version : v \in seen[s]
  BY TargetsEmpty DEF MissInv, NoMissedUpdate, FollowedStore
<1>4. CASE seen[s] = {} /\ version = start[s] /\ view[s] = log[start[s]]
  BY <1>1, <1>4
<1>5. CASE \E first \in 1..version :
             /\ seen[s] = first..version
             /\ \A r \in Resources :
                   \/ view[s][r] = log[version][r]
                   \/ /\ view[s][r] = log[start[s]][r]
                      /\ \A v \in (first - 1)..version : log[v][r] = log[version][r]
  <2>1. PICK first \in 1..version :
             /\ seen[s] = first..version
             /\ \A r \in Resources :
                   \/ view[s][r] = log[version][r]
                   \/ /\ view[s][r] = log[start[s]][r]
                      /\ \A v \in (first - 1)..version : log[v][r] = log[version][r]
    BY <1>5
  <2>2. start[s] \in 0..version
    BY <1>1, <1>2 DEF Follows
  <2>3. start[s] \in (first - 1)..version
    <3>1. CASE start[s] = version
      BY <1>1, <3>1
    <3>2. CASE start[s] < version
      <4>1. start[s] + 1 \in first..version
        BY <1>1, <1>3, <2>1, <2>2, <3>2
      <4> QED
        BY <1>1, <2>2, <4>1
    <3> QED
      BY <1>1, <2>2, <3>1, <3>2
  <2>4. \A r \in Resources : view[s][r] = config[r]
    BY <1>1, <2>1, <2>3
  <2> QED
    BY <1>1, <2>4 DEF Configs
<1> QED
  BY <1>2, <1>4, <1>5 DEF Follows

\* A client that was sent a full snapshot, has drained its channel without a drop
\* and was sent diffs that follow one on the other up to the store's version has
\* the store's configuration, although the first of them may have been older than
\* the snapshot.
THEOREM FollowersConverge == Spec => []Converged
<1>1. Init => MissInv /\ ReplayInv /\ FollowInv
  <2>1. Init => Subscribed /\ NoMissedUpdate
    BY DEF Init, Subscribed, NoMissedUpdate
  <2>2. Init => DiffsReplay
    BY DEF Init, DiffsReplay
  <2>3. Init => FollowInv
    BY DEF Init, FollowInv, StepDiffs
  <2> QED
    BY <2>1, <2>2, <2>3, InitType DEF MissInv, ReplayInv
<1>2. MissInv /\ ReplayInv /\ FollowInv /\ [Next]_vars => (MissInv /\ ReplayInv /\ FollowInv)'
  BY MissStep, ReplayStep, FollowStep
<1> QED
  BY <1>1, <1>2, FollowedConverges, PTL DEF Spec
=============================================================================
