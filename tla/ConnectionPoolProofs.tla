------------------------ MODULE ConnectionPoolProofs ------------------------
(***************************************************************************)
(* Proofs about ConnectionPool, for every number of callers, pool size,    *)
(* number of shards and bound.                                             *)
(*                                                                         *)
(* WithinMaxSize and OneUser are not inductive.  What makes them so: every *)
(* permit is either free or held by a caller inside (PermitsCounted); the  *)
(* ids in the channel and the permits that stand for a connection, or for  *)
(* one about to be opened, share the MaxSize places (PlacesCounted); every *)
(* connection of the map is in the channel, in use or leaked (Located).    *)
(***************************************************************************)
EXTENDS ConnectionPool, TLAPS, FiniteSetTheorems, SequenceTheorems

PermitsCounted == permits + Cardinality(Inside) = MaxSize

PlacesCounted == Len(idleQueue) + Cardinality(Committed) <= MaxSize

\* An id that is being inserted is not in the map yet.
Located == \A id \in connections :
    \/ id \in leaked
    \/ \E i \in 1..Len(idleQueue) : idleQueue[i] = id
    \/ \E c \in WithConnection : conn[c] = id

\* The ids in use were given out.
Known == \A c \in WithConnection : conn[c] < nextId

\* Before initialize returns nobody is inside and nothing has been returned.
Fresh == ~ready => Inside = {} /\ Len(idleQueue) = nextId /\ nextId <= MinSize

IInv == TypeOK /\ PermitsCounted /\ PlacesCounted /\ Located /\ Known /\ Fresh /\ OneUser

----------------------------------------------------------------------------
\* Sets of callers are finite, and adding or removing one counts as one.
LEMMA CallerSets ==
    ASSUME NEW S \in SUBSET Callers, NEW c \in Callers
    PROVE  /\ IsFiniteSet(S)
           /\ Cardinality(S) \in Nat
           /\ c \notin S => Cardinality(S \cup {c}) = Cardinality(S) + 1
           /\ c \in S => Cardinality(S \ {c}) = Cardinality(S) - 1
<1>1. IsFiniteSet(S)
  BY FS_Subset, CallersAssumption
<1> QED
  BY <1>1, FS_CardinalityType, FS_AddElement, FS_RemoveElement

\* Who commits a permit is inside.
LEMMA CommittedInside ==
    ASSUME TypeOK
    PROVE  /\ Committed \subseteq Inside /\ Inside \subseteq Callers
           /\ WithConnection \subseteq Committed
           /\ Cardinality(Committed) <= Cardinality(Inside)
           /\ Cardinality(Inside) \in Nat /\ Cardinality(Committed) \in Nat
<1>1. /\ Committed \subseteq Inside /\ Inside \subseteq Callers
      /\ WithConnection \subseteq Committed
  BY DEF Committed, Inside, WithConnection
<1>2. IsFiniteSet(Inside) /\ IsFiniteSet(Committed)
  BY <1>1, FS_Subset, CallersAssumption
<1> QED
  BY <1>1, <1>2, FS_Subset, FS_CardinalityType

\* The length of the channel's content.
LEMMA QueueLength ==
    ASSUME TypeOK
    PROVE  /\ Len(idleQueue) \in Nat
           /\ idleQueue # << >> => Len(idleQueue) >= 1
  BY LenProperties, EmptySeq DEF TypeOK

\* The strengthened invariant holds initially.
LEMMA InitIInv == Init => IInv
<1> SUFFICES ASSUME Init PROVE IInv
  OBVIOUS
<1>1. Inside = {} /\ Committed = {} /\ WithConnection = {}
  BY DEF Init, Inside, Committed, WithConnection
<1>2. Cardinality({}) = 0
  BY FS_EmptySet
<1>3. Len(<< >>) = 0 /\ << >> \in Seq(0..(nextId - 1))
  <2> DEFINE Ids == 0..(nextId - 1)
  <2> HIDE DEF Ids
  <2>1. Len(<< >>) = 0 /\ << >> \in Seq(Ids)
    BY EmptySeq
  <2> QED
    BY <2>1 DEF Ids
<1>4. TypeOK
  <2>1. idleQueue \in Seq(0..(nextId - 1))
    BY <1>3 DEF Init
  <2>2. /\ pc \in [Callers -> PcValues]
        /\ conn \in [Callers -> Nat]
    BY DEF Init, PcValues
  <2>3. /\ permits \in 0..MaxSize
        /\ nextId \in 0..MaxIds
        /\ idleCount \in 0..(Wrap - 1)
        /\ shutPc \in 0..Resetting
        /\ shutdowns \in 0..MaxShutdowns
    BY SizeAssumption, ShardsAssumption, WrapAssumption, BoundsAssumption
    DEF Init, NotShutting, Resetting
  <2> QED
    BY <2>1, <2>2, <2>3 DEF Init, TypeOK
<1>5. PermitsCounted /\ PlacesCounted
  BY <1>1, <1>2, <1>3, SizeAssumption DEF Init, PermitsCounted, PlacesCounted
<1>6. Located /\ Known /\ Fresh
  BY <1>1, <1>3, SizeAssumption DEF Init, Located, Known, Fresh
<1>7. OneUser
  BY <1>1, <1>3 DEF Init, OneUser
<1> QED
  BY <1>4, <1>5, <1>6, <1>7 DEF IInv

----------------------------------------------------------------------------
\* Every step that moves a caller from inside to inside.
MovesInside(c) == \/ TakeIdle(c) \/ NoIdle(c) \/ PingAnswered(c) \/ Discard(c)
                  \/ Connect(c) \/ ConnectFails(c) \/ Insert(c)
                  \/ Query(c) \/ Drop(c) \/ SendIdle(c) \/ CountIdle(c)

\* A step keeps the count of the permits: one is taken on the way in and given
\* back on the way out.
LEMMA PermitsStep == IInv /\ [Next]_vars => PermitsCounted' /\ permits' \in 0..MaxSize
<1> SUFFICES ASSUME IInv, [Next]_vars
             PROVE  PermitsCounted' /\ permits' \in 0..MaxSize
  OBVIOUS
<1> USE DEF IInv
<1>1. /\ Inside \in SUBSET Callers /\ permits + Cardinality(Inside) = MaxSize
      /\ permits \in Nat /\ MaxSize \in Nat /\ Cardinality(Inside) \in Nat
      /\ pc \in [Callers -> PcValues]
  BY CommittedInside, SizeAssumption DEF PermitsCounted, TypeOK
<1>2. ASSUME permits' = permits, Inside' = Inside
      PROVE  PermitsCounted' /\ permits' \in 0..MaxSize
  BY <1>1, <1>2 DEF PermitsCounted
<1>3. ASSUME NEW c \in Callers, TakePermit(c)
      PROVE  PermitsCounted' /\ permits' \in 0..MaxSize
  <2>1. Inside' = Inside \cup {c} /\ c \notin Inside
    BY <1>1, <1>3 DEF TakePermit, Goto, Inside
  <2>2. Cardinality(Inside') = Cardinality(Inside) + 1
    BY <1>1, <2>1, CallerSets
  <2>3. permits' = permits - 1 /\ permits > 0
    BY <1>3 DEF TakePermit
  <2> QED
    BY <1>1, <2>2, <2>3 DEF PermitsCounted
<1>4. ASSUME NEW c \in Callers, Release(c) \/ Cancel(c)
      PROVE  PermitsCounted' /\ permits' \in 0..MaxSize
  <2>1. Inside' = Inside \ {c} /\ c \in Inside
    BY <1>1, <1>4 DEF Release, Cancel, Goto, Inside
  <2>2. Cardinality(Inside') = Cardinality(Inside) - 1 /\ Cardinality(Inside') \in Nat
    <3>1. Inside' \in SUBSET Callers
      BY <1>1, <2>1
    <3> QED
      BY <1>1, <2>1, <3>1, CallerSets
  <2>3. permits' = permits + 1
    BY <1>4 DEF Release, Cancel
  <2> QED
    BY <1>1, <2>2, <2>3 DEF PermitsCounted
<1>5. ASSUME NEW c \in Callers, MovesInside(c)
      PROVE  permits' = permits /\ Inside' = Inside
  BY <1>1, <1>5
  DEF MovesInside, TakeIdle, NoIdle, PingAnswered, Discard, Connect, ConnectFails,
      Insert, Query, StartQuery, EndQuery, Drop, SendIdle, CountIdle, Goto, Inside, poolVars
<1>6. ASSUME Prewarm \/ Initialized \/ Shutdown
      PROVE  permits' = permits /\ Inside' = Inside
  BY <1>6 DEF Prewarm, Initialized, Shutdown, StartShutdown, ClearShard, ResetCount,
              poolVars, callerVars, Inside
<1>7. CASE UNCHANGED vars
  BY <1>7, <1>2 DEF vars, poolVars, callerVars, Inside
<1> QED
  BY <1>2, <1>3, <1>4, <1>5, <1>6, <1>7 DEF Next, Acquire, Return, MovesInside

\* Taking the first id out of the channel.
LEMMA TakeFirst ==
    ASSUME TypeOK, idleQueue # << >>
    PROVE  /\ Tail(idleQueue) \in Seq(0..(nextId - 1))
           /\ Len(Tail(idleQueue)) = Len(idleQueue) - 1
           /\ \A i \in 1..Len(Tail(idleQueue)) : Tail(idleQueue)[i] = idleQueue[i + 1]
           /\ Head(idleQueue) = idleQueue[1]
           /\ Head(idleQueue) \in 0..(nextId - 1)
           /\ Len(idleQueue) \in Nat \ {0}
<1> DEFINE Ids == 0..(nextId - 1)
<1> SUFFICES /\ Tail(idleQueue) \in Seq(Ids)
             /\ Len(Tail(idleQueue)) = Len(idleQueue) - 1
             /\ \A i \in 1..Len(Tail(idleQueue)) : Tail(idleQueue)[i] = idleQueue[i + 1]
             /\ Head(idleQueue) = idleQueue[1]
             /\ Head(idleQueue) \in Ids
             /\ Len(idleQueue) \in Nat \ {0}
  OBVIOUS
<1>1. idleQueue \in Seq(Ids)
  BY DEF TypeOK
<1> HIDE DEF Ids
<1> QED
  BY <1>1, HeadTailProperties, EmptySeq

\* A step keeps the places in the channel and the committed permits within
\* MaxSize.  The step that needs the permits is the one that finds no idle id:
\* the channel is empty then, and whoever is committed holds a permit.
LEMMA PlacesStep == IInv /\ [Next]_vars => PlacesCounted'
<1> SUFFICES ASSUME IInv, [Next]_vars
             PROVE  PlacesCounted'
  OBVIOUS
<1> USE DEF IInv
<1>1. /\ Committed \in SUBSET Callers
      /\ Len(idleQueue) + Cardinality(Committed) <= MaxSize
      /\ MaxSize \in Nat /\ Cardinality(Committed) \in Nat /\ Len(idleQueue) \in Nat
      /\ pc \in [Callers -> PcValues]
  <2>1. Committed \in SUBSET Callers /\ pc \in [Callers -> PcValues]
    BY DEF Committed, TypeOK
  <2>2. Cardinality(Committed) \in Nat /\ Len(idleQueue) \in Nat
    BY CommittedInside, QueueLength
  <2> QED
    BY <2>1, <2>2, SizeAssumption DEF PlacesCounted
<1>2. ASSUME Len(idleQueue') = Len(idleQueue), Committed' = Committed
      PROVE  PlacesCounted'
  BY <1>1, <1>2 DEF PlacesCounted
<1>3. ASSUME NEW c \in Callers, c \in Committed, Committed' = Committed \ {c},
             Len(idleQueue') <= Len(idleQueue) + 1, Len(idleQueue') \in Nat
      PROVE  PlacesCounted'
  <2>1. Cardinality(Committed') = Cardinality(Committed) - 1
    BY <1>1, <1>3, CallerSets
  <2> QED
    BY <1>1, <1>3, <2>1 DEF PlacesCounted
<1>4. ASSUME NEW c \in Callers, c \notin Committed, Committed' = Committed \cup {c},
             Len(idleQueue') = Len(idleQueue) - 1, Len(idleQueue') \in Nat
      PROVE  PlacesCounted'
  <2>1. Cardinality(Committed') = Cardinality(Committed) + 1
    BY <1>1, <1>4, CallerSets
  <2> QED
    BY <1>1, <1>4, <2>1 DEF PlacesCounted
<1>5. ASSUME NEW c \in Callers, TakeIdle(c)
      PROVE  PlacesCounted'
  <2>1. c \notin Committed /\ Committed' = Committed \cup {c}
    BY <1>1, <1>5 DEF TakeIdle, Goto, Committed
  <2>2. idleQueue' = Tail(idleQueue) /\ idleQueue # << >>
    BY <1>5 DEF TakeIdle
  <2> QED
    BY <1>4, <2>1, <2>2, TakeFirst
<1>6. ASSUME NEW c \in Callers, NoIdle(c)
      PROVE  PlacesCounted'
  <2>1. c \notin Committed /\ Committed' = Committed \cup {c}
    BY <1>1, <1>6 DEF NoIdle, Goto, Committed
  <2>2. CASE idleQueue # << >>
    <3>1. idleQueue' = Tail(idleQueue)
      BY <1>6, <2>2 DEF NoIdle
    <3> QED
      BY <1>4, <2>1, <2>2, <3>1, TakeFirst
  <2>3. CASE idleQueue = << >>
    <3>1. idleQueue' = << >> /\ Len(<< >>) = 0
      BY <1>6, <2>3, EmptySeq DEF NoIdle
    <3>2. c \in Inside /\ Inside \in SUBSET Callers /\ Committed' \subseteq Inside
      BY <1>1, <1>6, <2>1, CommittedInside DEF NoIdle, Inside
    <3>3. Cardinality(Inside) <= MaxSize /\ IsFiniteSet(Inside) /\ Cardinality(Inside) \in Nat
      <4>1. IsFiniteSet(Inside) /\ Cardinality(Inside) \in Nat
        BY <3>2, CallerSets
      <4>2. permits \in Nat /\ permits + Cardinality(Inside) = MaxSize
        BY SizeAssumption DEF PermitsCounted, TypeOK
      <4> QED
        BY <4>1, <4>2, <1>1
    <3>4. Cardinality(Committed') <= Cardinality(Inside) /\ Cardinality(Committed') \in Nat
      BY <3>2, <3>3, FS_Subset, FS_CardinalityType
    <3> QED
      BY <1>1, <3>1, <3>3, <3>4 DEF PlacesCounted
  <2> QED
    BY <2>2, <2>3
<1>7. ASSUME NEW c \in Callers, SendIdle(c)
      PROVE  PlacesCounted'
  <2>1. c \in Committed /\ Committed' = Committed \ {c}
    BY <1>1, <1>7 DEF SendIdle, Goto, Committed
  <2>2. Len(idleQueue') \in Nat /\ Len(idleQueue') <= Len(idleQueue) + 1
    BY <1>1, <1>7 DEF SendIdle, TypeOK
  <2> QED
    BY <1>3, <2>1, <2>2
<1>8. ASSUME NEW c \in Callers, ConnectFails(c) \/ Drop(c) \/ Cancel(c)
      PROVE  PlacesCounted'
  <2>1. \/ Committed' = Committed
        \/ c \in Committed /\ Committed' = Committed \ {c}
    BY <1>1, <1>8 DEF ConnectFails, Drop, Cancel, Goto, Committed
  <2>2. idleQueue' = idleQueue
    BY <1>8 DEF ConnectFails, Drop, Cancel, poolVars
  <2> QED
    BY <1>1, <1>2, <1>3, <2>1, <2>2
<1>9. ASSUME NEW c \in Callers,
             \/ TakePermit(c) \/ PingAnswered(c) \/ Discard(c) \/ Connect(c) \/ Insert(c)
             \/ Query(c) \/ CountIdle(c) \/ Release(c)
      PROVE  idleQueue' = idleQueue /\ Committed' = Committed
  BY <1>1, <1>9
  DEF TakePermit, PingAnswered, Discard, Connect, Insert, Query, StartQuery, EndQuery,
      CountIdle, Release, Goto, Committed, poolVars
<1>10. ASSUME Prewarm
       PROVE  PlacesCounted'
  <2>1. Committed' = Committed /\ Committed = {}
    BY <1>10, CommittedInside DEF Prewarm, Fresh, Committed, callerVars
  <2>2. Len(idleQueue') = Len(idleQueue) + 1 /\ Len(idleQueue) = nextId /\ nextId < MinSize
    BY <1>10 DEF Prewarm, Fresh, TypeOK
  <2>3. Cardinality(Committed') = 0
    BY <2>1, FS_EmptySet
  <2> QED
    BY <1>1, <2>2, <2>3, SizeAssumption DEF PlacesCounted, TypeOK
<1>11. ASSUME Initialized \/ Shutdown
       PROVE  idleQueue' = idleQueue /\ Committed' = Committed
  BY <1>11 DEF Initialized, Shutdown, StartShutdown, ClearShard, ResetCount,
               poolVars, callerVars, Committed
<1>12. CASE UNCHANGED vars
  BY <1>12, <1>2 DEF vars, poolVars, callerVars, Committed
<1> QED
  BY <1>2, <1>5, <1>6, <1>7, <1>8, <1>9, <1>10, <1>11, <1>12 DEF Next, Acquire, Return

----------------------------------------------------------------------------
\* A counter stays within its width.
LEMMA Wraps == \A x \in Int : x % Wrap \in 0..(Wrap - 1)
BY WrapAssumption, SizeAssumption

\* The content of the channel stays well typed when an id is given out.
LEMMA QueueKept ==
    ASSUME TypeOK
    PROVE  idleQueue \in Seq(0..nextId) /\ nextId \in Nat
<1> DEFINE Old == 0..(nextId - 1)
           New == 0..nextId
<1>1. nextId \in Nat /\ Old \subseteq New /\ idleQueue \in Seq(Old)
  BY BoundsAssumption DEF TypeOK
<1> HIDE DEF Old, New
<1>2. idleQueue \in Seq(New)
  BY <1>1, SeqMonotonic
<1> QED
  BY <1>1, <1>2 DEF New

\* A step keeps the types.
LEMMA TypeStep == IInv /\ [Next]_vars => TypeOK'
<1> SUFFICES ASSUME IInv, [Next]_vars
             PROVE  TypeOK'
  OBVIOUS
<1>1. TypeOK /\ permits' \in 0..MaxSize
  BY PermitsStep DEF IInv
<1>2. \A c \in WithConnection : conn[c] \in 0..(nextId - 1)
  BY <1>1, BoundsAssumption DEF IInv, Known, TypeOK, WithConnection, Committed
<1>3. \A x \in Int : x % Wrap \in 0..(Wrap - 1)
  BY Wraps
<1>4. idleCount \in Int /\ idleCount - 1 \in Int /\ idleCount + 1 \in Int
      /\ nextId \in Nat /\ Shards \in Nat \ {0} /\ MaxIds \in Nat /\ MaxShutdowns \in Nat
  BY <1>1, BoundsAssumption, WrapAssumption, ShardsAssumption DEF TypeOK
<1>5. ASSUME Prewarm PROVE TypeOK'
  <2>1. idleQueue' \in Seq(0..(nextId' - 1))
    BY <1>1, <1>5, QueueKept DEF Prewarm
  <2>2. idleCount' \in 0..(Wrap - 1)
    BY <1>3, <1>4, <1>5 DEF Prewarm
  <2> QED
    BY <1>1, <1>4, <1>5, <2>1, <2>2 DEF Prewarm, TypeOK, callerVars
<1>6. ASSUME Initialized \/ StartShutdown PROVE TypeOK'
  <2>1. shutPc' \in 0..Resetting /\ shutdowns' \in 0..MaxShutdowns
    <3>1. CASE Initialized
      BY <1>1, <3>1 DEF Initialized, TypeOK
    <3>2. CASE StartShutdown
      <4>1. shutPc' = 0 /\ shutdowns' = shutdowns + 1 /\ shutdowns < MaxShutdowns
        BY <3>2 DEF StartShutdown
      <4>2. shutdowns \in 0..MaxShutdowns
        BY <1>1 DEF TypeOK
      <4> QED
        BY <1>4, <4>1, <4>2 DEF Resetting
    <3> QED
      BY <1>6, <3>1, <3>2
  <2> QED
    BY <1>1, <1>6, <2>1 DEF Initialized, StartShutdown, TypeOK, poolVars, callerVars
<1>7. ASSUME ClearShard \/ ResetCount PROVE TypeOK'
  <2>1. idleCount' \in 0..(Wrap - 1) /\ shutPc' \in 0..Resetting
    BY <1>1, <1>4, <1>7, WrapAssumption, SizeAssumption
    DEF ClearShard, ResetCount, TypeOK, NotShutting, Resetting
  <2> QED
    BY <1>1, <1>7, <2>1 DEF ClearShard, ResetCount, TypeOK, callerVars
<1>8. ASSUME NEW c \in Callers,
             \/ TakePermit(c) \/ Discard(c) \/ ConnectFails(c) \/ Query(c)
             \/ Drop(c) \/ Release(c)
      PROVE  TypeOK'
  BY <1>1, <1>8
  DEF TakePermit, Discard, ConnectFails, Query, StartQuery, EndQuery, Drop, Release,
      Goto, TypeOK, PcValues, poolVars
<1>9. ASSUME NEW c \in Callers, TakeIdle(c) PROVE TypeOK'
  <2>1. idleQueue # << >> /\ idleQueue' = Tail(idleQueue) /\ nextId' = nextId
    BY <1>9 DEF TakeIdle
  <2>2. idleQueue' \in Seq(0..(nextId' - 1)) /\ Head(idleQueue) \in Nat
    BY <1>1, <1>4, <2>1, TakeFirst
  <2> QED
    BY <1>1, <1>9, <2>2 DEF TakeIdle, Goto, TypeOK, PcValues
<1>10. ASSUME NEW c \in Callers, NoIdle(c) PROVE TypeOK'
  <2>1. idleQueue' \in Seq(0..(nextId' - 1))
    <3>1. CASE idleQueue' = idleQueue
      BY <1>1, <1>10, <3>1 DEF NoIdle, TypeOK
    <3>2. CASE idleQueue # << >> /\ idleQueue' = Tail(idleQueue)
      BY <1>1, <1>10, <3>2, TakeFirst DEF NoIdle
    <3> QED
      BY <1>10, <3>1, <3>2 DEF NoIdle
  <2> QED
    BY <1>1, <1>10, <2>1 DEF NoIdle, Goto, TypeOK, PcValues
<1>11. ASSUME NEW c \in Callers, PingAnswered(c) \/ CountIdle(c) PROVE TypeOK'
  <2>1. idleCount' \in 0..(Wrap - 1)
    BY <1>3, <1>4, <1>11 DEF PingAnswered, CountIdle
  <2> QED
    BY <1>1, <1>11, <2>1 DEF PingAnswered, CountIdle, Goto, TypeOK, PcValues
<1>12. ASSUME NEW c \in Callers, Connect(c) PROVE TypeOK'
  <2>1. idleQueue' \in Seq(0..(nextId' - 1))
    BY <1>1, <1>12, QueueKept DEF Connect
  <2> QED
    BY <1>1, <1>4, <1>12, <2>1 DEF Connect, Goto, TypeOK, PcValues
<1>13. ASSUME NEW c \in Callers, Insert(c) PROVE TypeOK'
  <2>1. conn[c] \in 0..(nextId - 1)
    BY <1>2, <1>13 DEF Insert, WithConnection, Committed
  <2> QED
    BY <1>1, <1>13, <2>1 DEF Insert, Goto, TypeOK, PcValues
<1>14. ASSUME NEW c \in Callers, SendIdle(c) PROVE TypeOK'
  <2>1. conn[c] \in 0..(nextId - 1)
    BY <1>2, <1>14 DEF SendIdle, WithConnection, Committed
  <2>2. idleQueue' \in Seq(0..(nextId' - 1))
    <3>1. nextId' = nextId /\ idleQueue \in Seq(0..(nextId - 1))
      BY <1>1, <1>14 DEF SendIdle, TypeOK
    <3>2. Append(idleQueue, conn[c]) \in Seq(0..(nextId - 1))
      BY <2>1, <3>1
    <3> QED
      BY <1>14, <3>1, <3>2 DEF SendIdle
  <2> QED
    BY <1>1, <1>14, <2>2 DEF SendIdle, Goto, TypeOK, PcValues
<1>15. ASSUME NEW c \in Callers, Cancel(c) PROVE TypeOK'
  <2>1. pc[c] = "pinging" => conn[c] \in 0..(nextId - 1)
    BY <1>2 DEF WithConnection, Committed
  <2> QED
    BY <1>1, <1>15, <2>1 DEF Cancel, Goto, TypeOK, PcValues
<1>16. CASE UNCHANGED vars
  BY <1>1, <1>16 DEF vars, poolVars, callerVars, TypeOK
<1> QED
  BY <1>5, <1>6, <1>7, <1>8, <1>9, <1>10, <1>11, <1>12, <1>13, <1>14, <1>15, <1>16
  DEF Next, Acquire, Return, Shutdown

----------------------------------------------------------------------------
\* While initialize runs nothing but initialize fills the channel.
LEMMA FreshStep == IInv /\ [Next]_vars => Fresh'
<1> SUFFICES ASSUME IInv, [Next]_vars
             PROVE  Fresh'
  OBVIOUS
<1>1. CASE ready
  BY <1>1 DEF Fresh, Next, Acquire, Return, Query, Shutdown, Prewarm, Initialized,
      TakePermit, TakeIdle, NoIdle, PingAnswered, Discard, Connect, ConnectFails, Insert,
      Cancel, StartQuery, EndQuery, Drop, SendIdle, CountIdle, Release, StartShutdown,
      ClearShard, ResetCount, vars, poolVars
<1>2. CASE ~ready
  <2>1. /\ Inside = {} /\ Len(idleQueue) = nextId /\ nextId <= MinSize
        /\ \A c \in Callers : pc[c] = "out"
    BY <1>2 DEF IInv, Fresh, Inside
  <2>2. CASE Prewarm
    BY <2>1, <2>2, SizeAssumption DEF Prewarm, Fresh, Inside, callerVars, IInv, TypeOK
  <2>3. CASE Initialized
    BY <2>3 DEF Initialized, Fresh
  <2>4. CASE ClearShard \/ ResetCount \/ UNCHANGED vars
    BY <2>1, <2>4
    DEF ClearShard, ResetCount, vars, poolVars, callerVars, Fresh, Inside
  <2> QED
    BY <1>2, <2>1, <2>2, <2>3, <2>4
    DEF Next, Acquire, Return, Query, Shutdown, TakePermit, TakeIdle, NoIdle, PingAnswered,
        Discard, Connect, ConnectFails, Insert, Cancel, StartQuery, EndQuery, Drop, SendIdle,
        CountIdle, Release, StartShutdown
<1> QED
  BY <1>1, <1>2

\* The steps after which no caller has a connection it had not, and the channel
\* and the leaked ids are as they were.
KeepsUsers(c) == \/ TakePermit(c) \/ PingAnswered(c) \/ Discard(c) \/ ConnectFails(c)
                 \/ Insert(c) \/ Query(c) \/ Drop(c) \/ CountIdle(c) \/ Release(c)

\* After those steps a caller still works with the connection it had.
LEMMA UsersKept ==
    ASSUME IInv, \/ Initialized \/ Shutdown \/ UNCHANGED vars
                 \/ \E c \in Callers : KeepsUsers(c)
    PROVE  /\ WithConnection' \subseteq WithConnection
           /\ UNCHANGED <<conn, leaked, idleQueue, nextId>>
<1>1. pc \in [Callers -> PcValues]
  BY DEF IInv, TypeOK
<1>2. CASE Initialized \/ Shutdown \/ UNCHANGED vars
  BY <1>2 DEF Initialized, Shutdown, StartShutdown, ClearShard, ResetCount, vars,
              poolVars, callerVars, WithConnection, Committed
<1>3. ASSUME NEW c \in Callers, KeepsUsers(c)
      PROVE  /\ WithConnection' \subseteq WithConnection
             /\ UNCHANGED <<conn, leaked, idleQueue, nextId>>
  BY <1>1, <1>3
  DEF KeepsUsers, TakePermit, PingAnswered, Discard, ConnectFails, Insert, Query, StartQuery,
      EndQuery, Drop, CountIdle, Release, Goto, poolVars, WithConnection, Committed
<1> QED
  BY <1>2, <1>3

\* A step hands out only ids that were given out.
LEMMA KnownStep == IInv /\ [Next]_vars => Known'
<1> SUFFICES ASSUME IInv, [Next]_vars
             PROVE  Known'
  OBVIOUS
<1>1. /\ TypeOK /\ pc \in [Callers -> PcValues] /\ conn \in [Callers -> Nat] /\ nextId \in Nat
      /\ \A c \in WithConnection : conn[c] < nextId
  BY BoundsAssumption DEF IInv, TypeOK, Known
<1>2. CASE \/ Initialized \/ Shutdown \/ UNCHANGED vars
           \/ \E c \in Callers : KeepsUsers(c)
  BY <1>1, <1>2, UsersKept DEF Known
<1>3. ASSUME NEW c \in Callers, TakeIdle(c) PROVE Known'
  <2>1. Head(idleQueue) < nextId
    BY <1>1, <1>3, TakeFirst DEF TakeIdle
  <2>2. WithConnection' = WithConnection \cup {c} /\ c \notin WithConnection
    BY <1>1, <1>3 DEF TakeIdle, Goto, WithConnection, Committed
  <2> QED
    BY <1>1, <1>3, <2>1, <2>2 DEF TakeIdle, Known, WithConnection, Committed
<1>4. ASSUME NEW c \in Callers, NoIdle(c) \/ SendIdle(c) \/ Cancel(c) PROVE Known'
  <2>1. WithConnection' \subseteq WithConnection
    BY <1>1, <1>4 DEF NoIdle, SendIdle, Cancel, Goto, WithConnection, Committed
  <2> QED
    BY <1>1, <1>4, <2>1 DEF NoIdle, SendIdle, Cancel, Known
<1>5. ASSUME NEW c \in Callers, Connect(c) PROVE Known'
  <2>1. WithConnection' = WithConnection \cup {c}
    BY <1>1, <1>5 DEF Connect, Goto, WithConnection, Committed
  <2> QED
    BY <1>1, <1>5, <2>1 DEF Connect, Known, WithConnection, Committed
<1>6. CASE Prewarm
  BY <1>1, <1>6 DEF Prewarm, callerVars, Known, WithConnection, Committed
<1> QED
  BY <1>2, <1>3, <1>4, <1>5, <1>6 DEF Next, Acquire, Return, KeepsUsers

\* The entries of the channel, what they are bounded by, and what they become
\* when an id is appended.
LEMMA QueueEntries ==
    ASSUME TypeOK
    PROVE  /\ Len(idleQueue) \in Nat /\ nextId \in Nat
           /\ \A i \in 1..Len(idleQueue) : idleQueue[i] \in 0..(nextId - 1)
           /\ \A id \in Nat :
                 /\ Len(Append(idleQueue, id)) = Len(idleQueue) + 1
                 /\ \A i \in 1..Len(idleQueue) : Append(idleQueue, id)[i] = idleQueue[i]
                 /\ Append(idleQueue, id)[Len(idleQueue) + 1] = id
<1>1. idleQueue \in Seq(0..(nextId - 1)) /\ idleQueue \in Seq(Nat) /\ nextId \in Nat
  BY QueueKept, SeqMonotonic, BoundsAssumption DEF TypeOK
<1> QED
  BY <1>1, ElementOfSeq

\* A step gives no connection a second user.
LEMMA OneUserStep == IInv /\ [Next]_vars => OneUser'
<1> SUFFICES ASSUME IInv, [Next]_vars
             PROVE  OneUser'
  OBVIOUS
<1>1. /\ TypeOK /\ pc \in [Callers -> PcValues] /\ conn \in [Callers -> Nat]
      /\ nextId \in Nat /\ leaked \subseteq 0..(nextId - 1)
      /\ \A c \in WithConnection : conn[c] < nextId
      /\ WithConnection \subseteq Callers
  BY BoundsAssumption DEF IInv, TypeOK, Known, WithConnection, Committed
<1>2. OneUser
  BY DEF IInv
<1>3. CASE \/ Initialized \/ Shutdown \/ UNCHANGED vars
           \/ \E c \in Callers : KeepsUsers(c)
  BY <1>2, <1>3, UsersKept DEF OneUser
<1>4. ASSUME NEW c \in Callers, TakeIdle(c) PROVE OneUser'
  <2>1. /\ idleQueue # << >> /\ idleQueue' = Tail(idleQueue)
        /\ conn' = [conn EXCEPT ![c] = idleQueue[1]] /\ leaked' = leaked
    BY <1>1, <1>4, TakeFirst DEF TakeIdle
  <2>2. WithConnection' = WithConnection \cup {c} /\ c \notin WithConnection
    BY <1>1, <1>4 DEF TakeIdle, Goto, WithConnection, Committed
  <2>3. /\ Len(idleQueue) \in Nat \ {0}
        /\ Len(idleQueue') = Len(idleQueue) - 1
        /\ \A i \in 1..Len(idleQueue') : idleQueue'[i] = idleQueue[i + 1]
    BY <1>1, <2>1, TakeFirst
  <2>4. \A i \in 1..Len(idleQueue') : i + 1 \in 1..Len(idleQueue) /\ i + 1 # 1
    BY <2>3
  <2>5. 1 \in 1..Len(idleQueue)
    BY <2>3
  <2>6. /\ conn'[c] = idleQueue[1]
        /\ \A d \in WithConnection : conn'[d] = conn[d]
    BY <1>1, <2>1, <2>2
  <2>7. \A d \in WithConnection' :
           /\ conn'[d] \notin leaked'
           /\ \A e \in WithConnection' : d # e => conn'[d] # conn'[e]
    BY <1>2, <2>1, <2>2, <2>5, <2>6 DEF OneUser
  <2>8. \A i \in 1..Len(idleQueue') :
           /\ \A j \in 1..Len(idleQueue') : i # j => idleQueue'[i] # idleQueue'[j]
           /\ \A d \in WithConnection' : idleQueue'[i] # conn'[d]
           /\ idleQueue'[i] \notin leaked'
    BY <1>2, <2>1, <2>2, <2>3, <2>4, <2>5, <2>6 DEF OneUser
  <2> QED
    BY <2>7, <2>8 DEF OneUser
<1>5. ASSUME NEW c \in Callers, NoIdle(c) PROVE OneUser'
  <2>1. WithConnection' = WithConnection /\ conn' = conn /\ leaked' = leaked
    BY <1>1, <1>5 DEF NoIdle, Goto, WithConnection, Committed
  <2>2. CASE idleQueue' = idleQueue
    BY <1>2, <2>1, <2>2 DEF OneUser
  <2>3. CASE idleQueue # << >> /\ idleQueue' = Tail(idleQueue)
    <3>1. /\ Len(idleQueue) \in Nat \ {0}
          /\ Len(idleQueue') = Len(idleQueue) - 1
          /\ \A i \in 1..Len(idleQueue') : idleQueue'[i] = idleQueue[i + 1]
      BY <1>1, <2>3, TakeFirst
    <3>2. \A i \in 1..Len(idleQueue') : i + 1 \in 1..Len(idleQueue)
      BY <3>1
    <3> QED
      BY <1>2, <2>1, <3>1, <3>2 DEF OneUser
  <2> QED
    BY <1>5, <2>2, <2>3 DEF NoIdle
<1>6. ASSUME NEW c \in Callers, Connect(c) PROVE OneUser'
  <2>1. WithConnection' = WithConnection \cup {c} /\ c \notin WithConnection
    BY <1>1, <1>6 DEF Connect, Goto, WithConnection, Committed
  <2>2. /\ conn'[c] = nextId /\ idleQueue' = idleQueue /\ leaked' = leaked
        /\ \A d \in WithConnection : conn'[d] = conn[d] /\ conn[d] # nextId
    BY <1>1, <1>6, <2>1 DEF Connect
  <2>3. /\ \A i \in 1..Len(idleQueue) : idleQueue[i] # nextId
        /\ nextId \notin leaked
    BY <1>1, QueueEntries
  <2> QED
    BY <1>2, <2>1, <2>2, <2>3 DEF OneUser
<1>7. ASSUME NEW c \in Callers, SendIdle(c) PROVE OneUser'
  <2>1. WithConnection' = WithConnection \ {c} /\ c \in WithConnection
    BY <1>1, <1>7 DEF SendIdle, Goto, WithConnection, Committed
  <2>2. conn' = conn /\ leaked' = leaked
    BY <1>7 DEF SendIdle
  <2>3. CASE idleQueue' = idleQueue
    BY <1>2, <2>1, <2>2, <2>3 DEF OneUser
  <2>4. CASE idleQueue' = Append(idleQueue, conn[c])
    <3>1. /\ Len(idleQueue) \in Nat
          /\ Len(idleQueue') = Len(idleQueue) + 1
          /\ \A i \in 1..Len(idleQueue) : idleQueue'[i] = idleQueue[i]
          /\ idleQueue'[Len(idleQueue) + 1] = conn[c]
      BY <1>1, <2>4, QueueEntries
    <3>2. \A i \in 1..Len(idleQueue') : i \in 1..Len(idleQueue) \/ i = Len(idleQueue) + 1
      BY <3>1
    <3> QED
      BY <1>2, <2>1, <2>2, <3>1, <3>2 DEF OneUser
  <2> QED
    BY <1>7, <2>3, <2>4 DEF SendIdle
<1>8. ASSUME NEW c \in Callers, Cancel(c) PROVE OneUser'
  <2>1. conn' = conn /\ idleQueue' = idleQueue
    BY <1>8 DEF Cancel
  <2>2. CASE pc[c] = "pinging"
    <3>1. WithConnection' = WithConnection \ {c} /\ c \in WithConnection
      BY <1>1, <1>8, <2>2 DEF Cancel, Goto, WithConnection, Committed
    <3>2. leaked' = leaked \cup {conn[c]}
      BY <1>8, <2>2 DEF Cancel
    <3> QED
      BY <1>2, <2>1, <3>1, <3>2 DEF OneUser
  <2>3. CASE pc[c] # "pinging"
    <3>1. WithConnection' = WithConnection /\ leaked' = leaked
      BY <1>1, <1>8, <2>3 DEF Cancel, Goto, WithConnection, Committed
    <3> QED
      BY <1>2, <2>1, <3>1 DEF OneUser
  <2> QED
    BY <2>2, <2>3
<1>9. CASE Prewarm
  <2>1. /\ WithConnection' = WithConnection /\ conn' = conn /\ leaked' = leaked
        /\ idleQueue' = Append(idleQueue, nextId)
    BY <1>9 DEF Prewarm, callerVars, WithConnection, Committed
  <2>2. /\ Len(idleQueue) \in Nat
        /\ Len(idleQueue') = Len(idleQueue) + 1
        /\ \A i \in 1..Len(idleQueue) : idleQueue'[i] = idleQueue[i] /\ idleQueue[i] # nextId
        /\ idleQueue'[Len(idleQueue) + 1] = nextId
    BY <1>1, <2>1, QueueEntries
  <2>3. \A i \in 1..Len(idleQueue') : i \in 1..Len(idleQueue) \/ i = Len(idleQueue) + 1
    BY <2>2
  <2>4. nextId \notin leaked /\ \A d \in WithConnection : conn[d] # nextId
    BY <1>1
  <2> QED
    BY <1>2, <2>1, <2>2, <2>3, <2>4 DEF OneUser
<1> QED
  BY <1>3, <1>4, <1>5, <1>6, <1>7, <1>8, <1>9 DEF Next, Acquire, Return, KeepsUsers

----------------------------------------------------------------------------
\* A step loses no connection: one that is in the map stays in the channel, in
\* use or leaked.  The channel has room for the id that is returned because the
\* caller that returns it is committed.
LEMMA LocatedStep == IInv /\ [Next]_vars => Located'
<1> SUFFICES ASSUME IInv, [Next]_vars
             PROVE  Located'
  OBVIOUS
<1>1. /\ TypeOK /\ pc \in [Callers -> PcValues] /\ conn \in [Callers -> Nat]
      /\ WithConnection \subseteq Callers /\ Located
  BY DEF IInv, TypeOK, WithConnection, Committed
<1>2. ASSUME connections' \subseteq connections, UNCHANGED <<conn, leaked, idleQueue>>,
             WithConnection' = WithConnection
      PROVE  Located'
  BY <1>1, <1>2 DEF Located
<1>3. CASE Initialized \/ Shutdown \/ UNCHANGED vars
  BY <1>2, <1>3 DEF Initialized, Shutdown, StartShutdown, ClearShard, ResetCount, vars,
                    poolVars, callerVars, WithConnection, Committed
<1>4. ASSUME NEW c \in Callers,
             \/ TakePermit(c) \/ PingAnswered(c) \/ Discard(c) \/ ConnectFails(c)
             \/ Query(c) \/ CountIdle(c) \/ Release(c)
      PROVE  Located'
  BY <1>1, <1>2, <1>4
  DEF TakePermit, PingAnswered, Discard, ConnectFails, Query, StartQuery, EndQuery,
      CountIdle, Release, Goto, poolVars, WithConnection, Committed
<1>5. ASSUME NEW c \in Callers, TakeIdle(c) PROVE Located'
  <2>1. /\ idleQueue # << >> /\ idleQueue' = Tail(idleQueue) /\ leaked' = leaked
        /\ conn' = [conn EXCEPT ![c] = idleQueue[1]] /\ connections' = connections
    BY <1>1, <1>5, TakeFirst DEF TakeIdle
  <2>2. WithConnection' = WithConnection \cup {c} /\ c \notin WithConnection
    BY <1>1, <1>5 DEF TakeIdle, Goto, WithConnection, Committed
  <2>3. /\ Len(idleQueue) \in Nat \ {0}
        /\ Len(idleQueue') = Len(idleQueue) - 1
        /\ \A i \in 1..Len(idleQueue') : idleQueue'[i] = idleQueue[i + 1]
    BY <1>1, <2>1, TakeFirst
  <2>4. /\ conn'[c] = idleQueue[1]
        /\ \A d \in WithConnection : conn'[d] = conn[d]
    BY <1>1, <2>1, <2>2
  <2>5. ASSUME NEW i \in 1..Len(idleQueue)
        PROVE  \/ idleQueue[i] = conn'[c]
               \/ \E j \in 1..Len(idleQueue') : idleQueue'[j] = idleQueue[i]
    <3>1. CASE i = 1
      BY <2>4, <3>1
    <3>2. CASE i # 1
      <4>1. i - 1 \in 1..Len(idleQueue') /\ (i - 1) + 1 = i
        BY <2>3, <3>2
      <4> QED
        BY <2>3, <4>1
    <3> QED
      BY <3>1, <3>2
  <2>6. ASSUME NEW id \in connections
        PROVE  \/ id \in leaked'
               \/ \E i \in 1..Len(idleQueue') : idleQueue'[i] = id
               \/ \E d \in WithConnection' : conn'[d] = id
    <3>1. CASE id \in leaked
      BY <2>1, <3>1
    <3>2. CASE \E i \in 1..Len(idleQueue) : idleQueue[i] = id
      BY <2>2, <2>5, <3>2
    <3>3. CASE \E d \in WithConnection : conn[d] = id
      BY <2>2, <2>4, <3>3
    <3> QED
      BY <1>1, <3>1, <3>2, <3>3 DEF Located
  <2> QED
    BY <2>1, <2>6 DEF Located
<1>6. ASSUME NEW c \in Callers, NoIdle(c) PROVE Located'
  <2>1. /\ WithConnection' = WithConnection /\ conn' = conn /\ leaked' = leaked
        /\ connections' = connections
    BY <1>1, <1>6 DEF NoIdle, Goto, WithConnection, Committed
  <2>2. CASE idleQueue' = idleQueue
    BY <1>2, <2>1, <2>2
  <2>3. CASE idleQueue # << >> /\ idleQueue' = Tail(idleQueue) /\ Head(idleQueue) \notin connections
    <3>1. /\ Len(idleQueue) \in Nat \ {0}
          /\ Len(idleQueue') = Len(idleQueue) - 1
          /\ \A i \in 1..Len(idleQueue') : idleQueue'[i] = idleQueue[i + 1]
          /\ idleQueue[1] \notin connections
      BY <1>1, <2>3, TakeFirst
    <3>2. ASSUME NEW i \in 1..Len(idleQueue), idleQueue[i] \in connections
          PROVE  \E j \in 1..Len(idleQueue') : idleQueue'[j] = idleQueue[i]
      <4>1. i - 1 \in 1..Len(idleQueue') /\ (i - 1) + 1 = i
        BY <3>1, <3>2
      <4> QED
        BY <3>1, <4>1
    <3> QED
      BY <1>1, <2>1, <3>2 DEF Located
  <2> QED
    BY <1>6, <2>2, <2>3 DEF NoIdle
<1>7. ASSUME NEW c \in Callers, Connect(c) PROVE Located'
  <2>1. WithConnection' = WithConnection \cup {c} /\ c \notin WithConnection
    BY <1>1, <1>7 DEF Connect, Goto, WithConnection, Committed
  <2>2. /\ UNCHANGED <<connections, idleQueue, leaked>>
        /\ \A d \in WithConnection : conn'[d] = conn[d]
    BY <1>1, <1>7, <2>1 DEF Connect
  <2> QED
    BY <1>1, <2>1, <2>2 DEF Located
<1>8. ASSUME NEW c \in Callers, Insert(c) PROVE Located'
  <2>1. WithConnection' = WithConnection /\ c \in WithConnection
    BY <1>1, <1>8 DEF Insert, Goto, WithConnection, Committed
  <2> QED
    BY <1>1, <1>8, <2>1 DEF Insert, Located
<1>9. ASSUME NEW c \in Callers, Drop(c) PROVE Located'
  <2>1. UNCHANGED <<connections, idleQueue, leaked, conn>>
    BY <1>9 DEF Drop, poolVars
  <2>2. CASE conn[c] \in connections
    <3>1. WithConnection' = WithConnection
      BY <1>1, <1>9, <2>2 DEF Drop, Goto, WithConnection, Committed
    <3> QED
      BY <1>2, <2>1, <3>1
  <2>3. CASE conn[c] \notin connections
    <3>1. WithConnection' = WithConnection \ {c}
      BY <1>1, <1>9, <2>3 DEF Drop, Goto, WithConnection, Committed
    <3> QED
      BY <1>1, <2>1, <2>3, <3>1 DEF Located
  <2> QED
    BY <2>2, <2>3
<1>10. ASSUME NEW c \in Callers, SendIdle(c) PROVE Located'
  <2>1. WithConnection' = WithConnection \ {c} /\ c \in Committed /\ Committed \in SUBSET Callers
    BY <1>1, <1>10 DEF SendIdle, Goto, WithConnection, Committed
  <2>2. Len(idleQueue) < MaxSize
    <3>1. Cardinality(Committed) - 1 \in Nat /\ Cardinality(Committed) \in Nat
      <4>1. Committed \ {c} \in SUBSET Callers
        BY <2>1
      <4>2. Cardinality(Committed \ {c}) \in Nat
        BY <4>1, CallerSets
      <4> QED
        BY <2>1, <4>2, CallerSets
    <3>2. Len(idleQueue) + Cardinality(Committed) <= MaxSize
      BY DEF IInv, PlacesCounted
    <3>3. Len(idleQueue) \in Nat /\ MaxSize \in Nat
      BY <1>1, QueueLength, SizeAssumption
    <3> QED
      BY <3>1, <3>2, <3>3
  <2>3. idleQueue' = Append(idleQueue, conn[c]) /\ UNCHANGED <<connections, leaked, conn>>
    BY <1>10, <2>2 DEF SendIdle
  <2>4. /\ Len(idleQueue) \in Nat
        /\ Len(idleQueue') = Len(idleQueue) + 1
        /\ \A i \in 1..Len(idleQueue) : idleQueue'[i] = idleQueue[i]
        /\ idleQueue'[Len(idleQueue) + 1] = conn[c]
    BY <1>1, <2>3, QueueEntries
  <2>5. /\ \A i \in 1..Len(idleQueue) : i \in 1..Len(idleQueue')
        /\ Len(idleQueue) + 1 \in 1..Len(idleQueue')
    BY <2>4
  <2> QED
    BY <1>1, <2>1, <2>3, <2>4, <2>5 DEF Located
<1>11. ASSUME NEW c \in Callers, Cancel(c) PROVE Located'
  <2>1. UNCHANGED <<connections, idleQueue, conn>>
    BY <1>11 DEF Cancel
  <2>2. CASE pc[c] = "pinging"
    <3>1. WithConnection' = WithConnection \ {c} /\ leaked' = leaked \cup {conn[c]}
      BY <1>1, <1>11, <2>2 DEF Cancel, Goto, WithConnection, Committed
    <3> QED
      BY <1>1, <2>1, <3>1 DEF Located
  <2>3. CASE pc[c] # "pinging"
    <3>1. WithConnection' = WithConnection /\ leaked' = leaked
      BY <1>1, <1>11, <2>3 DEF Cancel, Goto, WithConnection, Committed
    <3> QED
      BY <1>2, <2>1, <3>1
  <2> QED
    BY <2>2, <2>3
<1>12. CASE Prewarm
  <2>1. /\ WithConnection' = WithConnection /\ conn' = conn /\ leaked' = leaked
        /\ idleQueue' = Append(idleQueue, nextId)
        /\ connections' = connections \cup {nextId}
    BY <1>12 DEF Prewarm, callerVars, WithConnection, Committed
  <2>2. /\ Len(idleQueue) \in Nat
        /\ Len(idleQueue') = Len(idleQueue) + 1
        /\ \A i \in 1..Len(idleQueue) : idleQueue'[i] = idleQueue[i]
        /\ idleQueue'[Len(idleQueue) + 1] = nextId
    BY <1>1, <2>1, QueueEntries
  <2>3. /\ \A i \in 1..Len(idleQueue) : i \in 1..Len(idleQueue')
        /\ Len(idleQueue) + 1 \in 1..Len(idleQueue')
    BY <2>2
  <2> QED
    BY <1>1, <2>1, <2>2, <2>3 DEF Located
<1> QED
  BY <1>3, <1>4, <1>5, <1>6, <1>7, <1>8, <1>9, <1>10, <1>11, <1>12 DEF Next, Acquire, Return

\* The connections that have not leaked are in the channel or committed, and
\* these share the MaxSize places.
LEMMA PlacesBound == IInv => WithinMaxSize
<1> SUFFICES ASSUME IInv PROVE WithinMaxSize
  OBVIOUS
<1> DEFINE Indices == 1..Len(idleQueue)
           Queued == {idleQueue[i] : i \in Indices}
           Used == {conn[c] : c \in WithConnection}
           q == [i \in Indices |-> idleQueue[i]]
           u == [c \in WithConnection |-> conn[c]]
<1>1. /\ Len(idleQueue) \in Nat /\ MaxSize \in Nat
      /\ Len(idleQueue) + Cardinality(Committed) <= MaxSize
      /\ WithConnection \subseteq Committed /\ IsFiniteSet(Committed)
      /\ Cardinality(Committed) \in Nat
  <2>1. TypeOK /\ Len(idleQueue) + Cardinality(Committed) <= MaxSize
    BY DEF IInv, PlacesCounted
  <2>2. IsFiniteSet(Committed)
    BY <2>1, CommittedInside, FS_Subset, CallersAssumption
  <2> QED
    BY <2>1, <2>2, CommittedInside, QueueLength, SizeAssumption
<1>2. IsFiniteSet(Queued) /\ Cardinality(Queued) <= Len(idleQueue) /\ Cardinality(Queued) \in Nat
  <2>1. IsFiniteSet(Indices) /\ Cardinality(Indices) = Len(idleQueue)
    <3>1. 1 \in Int /\ Len(idleQueue) \in Int
      BY <1>1
    <3>2. /\ IsFiniteSet(1..Len(idleQueue))
          /\ Cardinality(1..Len(idleQueue)) =
                IF 1 > Len(idleQueue) THEN 0 ELSE Len(idleQueue) - 1 + 1
      BY <3>1, FS_Interval, Zenon
    <3> QED
      BY <1>1, <3>2
  <2>2. q \in Surjection(Indices, Queued)
    BY DEF Surjection
  <2> HIDE DEF q, Queued, Indices
  <2> QED
    BY <2>1, <2>2, FS_Surjection, FS_CardinalityType
<1>3. IsFiniteSet(Used) /\ Cardinality(Used) <= Cardinality(Committed) /\ Cardinality(Used) \in Nat
  <2>1. IsFiniteSet(WithConnection) /\ Cardinality(WithConnection) <= Cardinality(Committed)
        /\ Cardinality(WithConnection) \in Nat
    BY <1>1, FS_Subset, FS_CardinalityType
  <2>2. u \in Surjection(WithConnection, Used)
    BY DEF Surjection
  <2> HIDE DEF u, Used
  <2>3. IsFiniteSet(Used) /\ Cardinality(Used) <= Cardinality(WithConnection)
    BY <2>1, <2>2, FS_Surjection
  <2> QED
    BY <1>1, <2>1, <2>3, FS_CardinalityType
<1>4. connections \ leaked \subseteq Queued \cup Used
  BY DEF IInv, Located
<1> HIDE DEF Queued, Used
<1>5. IsFiniteSet(Queued \cup Used) /\ Cardinality(Queued \cup Used) <= MaxSize
      /\ Cardinality(Queued \cup Used) \in Nat
  <2>1. /\ IsFiniteSet(Queued \cup Used)
        /\ Cardinality(Queued \cup Used) =
              Cardinality(Queued) + Cardinality(Used) - Cardinality(Queued \cap Used)
    BY <1>2, <1>3, FS_Union
  <2>2. Cardinality(Queued \cap Used) \in Nat
    BY <1>2, <1>3, FS_Intersection, FS_CardinalityType
  <2> QED
    BY <1>1, <1>2, <1>3, <2>1, <2>2, FS_CardinalityType
<1>6. Cardinality(connections \ leaked) <= Cardinality(Queued \cup Used)
      /\ Cardinality(connections \ leaked) \in Nat
  BY <1>4, <1>5, FS_Subset, FS_CardinalityType
<1> QED
  BY <1>1, <1>5, <1>6 DEF WithinMaxSize

----------------------------------------------------------------------------
\* The strengthened invariant holds in every reachable state.
THEOREM InvariantHolds == Spec => []IInv
<1>1. IInv /\ [Next]_vars => IInv'
  BY TypeStep, PermitsStep, PlacesStep, LocatedStep, KnownStep, FreshStep, OneUserStep DEF IInv
<1> QED
  BY InitIInv, <1>1, PTL DEF Spec

\* Every variable of the pool keeps its type: in particular permits are given
\* back as often as they are taken, and idle_count stays within its width.
THEOREM TypeCorrect == Spec => []TypeOK
<1>1. IInv => TypeOK
  BY DEF IInv
<1> QED
  BY InvariantHolds, <1>1, PTL

\* The pool never opens more than max_size connections that it knows of,
\* however acquires, returns, failures and shutdowns interleave.
THEOREM PoolWithinMaxSize == Spec => []WithinMaxSize
BY InvariantHolds, PlacesBound, PTL

\* No connection is ever in two hands.
THEOREM ConnectionHasOneUser == Spec => []OneUser
<1>1. IInv => OneUser
  BY DEF IInv
<1> QED
  BY InvariantHolds, <1>1, PTL

----------------------------------------------------------------------------
(* idle_count *)

\* Until the pool is shut down every idle id, and every id about to be returned,
\* is that of a connection in the map.
StillOpen ==
    shutdowns = 0 =>
        /\ shutPc = NotShutting
        /\ \A i \in 1..Len(idleQueue) : idleQueue[i] \in connections
        /\ \A c \in Callers : pc[c] = "sending" => conn[c] \in connections

CountInv == IInv /\ StillOpen /\ IdleCountAccounted

\* No step but shutdown's takes a connection out of the map.
LEMMA StillOpenStep == IInv /\ StillOpen /\ [Next]_vars => StillOpen'
<1> SUFFICES ASSUME IInv, StillOpen, [Next]_vars, shutdowns' = 0
             PROVE  /\ shutPc' = NotShutting
                    /\ \A i \in 1..Len(idleQueue') : idleQueue'[i] \in connections'
                    /\ \A c \in Callers : pc'[c] = "sending" => conn'[c] \in connections'
  BY DEF StillOpen
<1> DEFINE Goal == /\ shutPc' = NotShutting
                   /\ \A i \in 1..Len(idleQueue') : idleQueue'[i] \in connections'
                   /\ \A c \in Callers : pc'[c] = "sending" => conn'[c] \in connections'
<1>0. /\ TypeOK /\ pc \in [Callers -> PcValues] /\ conn \in [Callers -> Nat] /\ nextId \in Nat
      /\ shutdowns \in Nat
  BY BoundsAssumption DEF IInv, TypeOK
<1>1. CASE StartShutdown
  BY <1>0, <1>1 DEF StartShutdown
<1>2. ASSUME shutdowns = 0, shutPc = NotShutting,
             \A i \in 1..Len(idleQueue) : idleQueue[i] \in connections,
             \A c \in Callers : pc[c] = "sending" => conn[c] \in connections
      PROVE  Goal
  <2> HIDE DEF Goal
  <2>1. CASE ClearShard \/ ResetCount
    BY <1>2, <2>1, ShardsAssumption DEF ClearShard, ResetCount, NotShutting, Resetting
  <2>2. CASE UNCHANGED vars \/ Initialized
    BY <1>2, <2>2 DEF Goal, Initialized, vars, poolVars, callerVars
  <2>3. CASE Prewarm
    <3>1. /\ idleQueue' = Append(idleQueue, nextId) /\ connections' = connections \cup {nextId}
          /\ UNCHANGED <<pc, conn, shutPc>>
      BY <2>3 DEF Prewarm, callerVars
    <3>2. /\ Len(idleQueue) \in Nat /\ Len(idleQueue') = Len(idleQueue) + 1
          /\ \A i \in 1..Len(idleQueue) : idleQueue'[i] = idleQueue[i]
          /\ idleQueue'[Len(idleQueue) + 1] = nextId
      BY <1>0, <3>1, QueueEntries
    <3>3. \A i \in 1..Len(idleQueue') : i \in 1..Len(idleQueue) \/ i = Len(idleQueue) + 1
      BY <3>2
    <3> QED
      BY <1>2, <3>1, <3>2, <3>3 DEF Goal
  <2>4. ASSUME NEW c \in Callers, SendIdle(c) PROVE Goal
    <3>1. /\ idleQueue' = idleQueue \/ idleQueue' = Append(idleQueue, conn[c])
          /\ conn[c] \in Nat /\ conn[c] \in connections
          /\ UNCHANGED <<connections, conn, shutPc>>
          /\ \A d \in Callers : pc'[d] = "sending" => pc[d] = "sending"
      BY <1>0, <1>2, <2>4 DEF SendIdle, Goto
    <3>2. CASE idleQueue' = Append(idleQueue, conn[c])
      <4>1. /\ Len(idleQueue) \in Nat /\ Len(idleQueue') = Len(idleQueue) + 1
            /\ \A i \in 1..Len(idleQueue) : idleQueue'[i] = idleQueue[i]
            /\ idleQueue'[Len(idleQueue) + 1] = conn[c]
        BY <1>0, <3>1, <3>2, QueueEntries
      <4>2. \A i \in 1..Len(idleQueue') : i \in 1..Len(idleQueue) \/ i = Len(idleQueue) + 1
        BY <4>1
      <4> QED
        BY <1>2, <3>1, <4>1, <4>2 DEF Goal
    <3> QED
      BY <1>2, <3>1, <3>2 DEF Goal
  <2>5. ASSUME NEW c \in Callers, TakeIdle(c) \/ NoIdle(c) PROVE Goal
    <3>1. /\ \/ idleQueue' = idleQueue \/ (idleQueue # << >> /\ idleQueue' = Tail(idleQueue))
          /\ UNCHANGED <<connections, shutPc>>
          /\ \A d \in Callers : pc'[d] = "sending" => pc[d] = "sending" /\ conn'[d] = conn[d]
      BY <1>0, <2>5 DEF TakeIdle, NoIdle, Goto
    <3>2. CASE idleQueue # << >> /\ idleQueue' = Tail(idleQueue)
      <4>1. /\ Len(idleQueue) \in Nat \ {0}
            /\ Len(idleQueue') = Len(idleQueue) - 1
            /\ \A i \in 1..Len(idleQueue') : idleQueue'[i] = idleQueue[i + 1]
        BY <1>0, <3>2, TakeFirst
      <4>2. \A i \in 1..Len(idleQueue') : i + 1 \in 1..Len(idleQueue)
        BY <4>1
      <4> QED
        BY <1>2, <3>1, <4>1, <4>2 DEF Goal
    <3> QED
      BY <1>2, <3>1, <3>2 DEF Goal
  <2>6. ASSUME NEW c \in Callers, Drop(c) PROVE Goal
    BY <1>0, <1>2, <2>6 DEF Goal, Drop, Goto, poolVars
  <2>7. ASSUME NEW c \in Callers, TakePermit(c) \/ Acquire(c) \/ Cancel(c) \/ Query(c) \/ Return(c),
               ~TakeIdle(c), ~NoIdle(c), ~SendIdle(c), ~Drop(c)
        PROVE  Goal
    <3>1. /\ idleQueue' = idleQueue /\ shutPc' = shutPc /\ connections \subseteq connections'
          /\ \A d \in Callers : pc'[d] = "sending" => pc[d] = "sending" /\ conn'[d] = conn[d]
      BY <1>0, <2>7
      DEF TakePermit, Acquire, Cancel, Query, Return, PingAnswered, Discard, Connect, ConnectFails,
          Insert, StartQuery, EndQuery, CountIdle, Release, Goto, poolVars
    <3> QED
      BY <1>2, <3>1 DEF Goal
  <2> QED
    BY <1>1, <2>1, <2>2, <2>3, <2>4, <2>5, <2>6, <2>7 DEF Goal, Next, Shutdown
<1>3. CASE ~StartShutdown
  <2>1. shutdowns' = shutdowns
    BY <1>3 DEF Next, Acquire, Return, Query, Shutdown, Prewarm, Initialized,
      TakePermit, TakeIdle, NoIdle, PingAnswered, Discard, Connect, ConnectFails, Insert,
      Cancel, StartQuery, EndQuery, Drop, SendIdle, CountIdle, Release,
      ClearShard, ResetCount, vars
  <2> QED
    BY <1>2, <2>1 DEF StillOpen
<1> QED
  BY <1>1, <1>3

\* A channel that a return is about to send to has room for its id.
LEMMA RoomForReturn ==
    ASSUME IInv, NEW c \in Callers, pc[c] = "sending"
    PROVE  Len(idleQueue) < MaxSize
<1>1. c \in Committed /\ Committed \in SUBSET Callers
  BY DEF Committed
<1>2. Cardinality(Committed) - 1 \in Nat /\ Cardinality(Committed) \in Nat
  <2>1. Committed \ {c} \in SUBSET Callers
    BY <1>1
  <2>2. Cardinality(Committed \ {c}) \in Nat
    BY <2>1, CallerSets
  <2> QED
    BY <1>1, <2>2, CallerSets
<1>3. /\ Len(idleQueue) + Cardinality(Committed) <= MaxSize
      /\ Len(idleQueue) \in Nat /\ MaxSize \in Nat
  BY QueueLength, SizeAssumption DEF IInv, PlacesCounted
<1> QED
  BY <1>2, <1>3

\* What the counter should be, and how far that can be from zero.
Idling == Len(idleQueue) + Cardinality(Claiming) - Cardinality(Counting)

IdlingBound ==
    /\ Len(idleQueue) \in Nat /\ Cardinality(Claiming) \in Nat /\ Cardinality(Counting) \in Nat
    /\ Claiming \in SUBSET Callers /\ Counting \in SUBSET Callers
    /\ Idling \in Int /\ -Wrap < Idling /\ Idling < Wrap

LEMMA IdlingBounds == IInv => IdlingBound
<1> SUFFICES ASSUME IInv PROVE IdlingBound
  OBVIOUS
<1>1. /\ Claiming \subseteq Committed /\ Counting \subseteq Inside
      /\ Inside \in SUBSET Callers /\ Committed \in SUBSET Callers
  BY DEF Claiming, Counting, Committed, Inside
<1>2. Claiming \in SUBSET Callers /\ Counting \in SUBSET Callers
  BY <1>1
<1>3. /\ IsFiniteSet(Inside) /\ IsFiniteSet(Committed)
      /\ Cardinality(Inside) \in Nat /\ Cardinality(Committed) \in Nat
      /\ Cardinality(Claiming) \in Nat /\ Cardinality(Counting) \in Nat
  <2>1. \A S \in SUBSET Callers : IsFiniteSet(S) /\ Cardinality(S) \in Nat
    BY FS_Subset, FS_CardinalityType, CallersAssumption
  <2> QED
    BY <1>1, <1>2, <2>1
<1>4. Cardinality(Claiming) <= Cardinality(Committed) /\ Cardinality(Counting) <= Cardinality(Inside)
  BY <1>1, <1>3, FS_Subset
<1>5. /\ Len(idleQueue) \in Nat /\ MaxSize \in Nat /\ permits \in Nat
      /\ Wrap \in Nat /\ Wrap > MaxSize
      /\ Len(idleQueue) + Cardinality(Committed) <= MaxSize
      /\ permits + Cardinality(Inside) = MaxSize
  BY QueueLength, SizeAssumption, WrapAssumption DEF IInv, PlacesCounted, PermitsCounted, TypeOK
<1>6. Idling \in Int /\ -Wrap < Idling /\ Idling < Wrap
  BY <1>3, <1>4, <1>5 DEF Idling
<1> QED
  BY <1>2, <1>3, <1>5, <1>6 DEF IdlingBound

\* Counting up or down by one, modulo the width.
LEMMA OneMore ==
    ASSUME NEW x \in Int, NEW y \in Int, -Wrap < x, x < Wrap, -Wrap < y, y < Wrap
    PROVE  /\ y = x + 1 => ((x % Wrap) + 1) % Wrap = y % Wrap
           /\ y = x - 1 => ((x % Wrap) - 1) % Wrap = y % Wrap
<1>1. Wrap \in Nat /\ Wrap > 0
  BY WrapAssumption, SizeAssumption
<1>2. \A n \in 0..(Wrap - 1) : n % Wrap = n
  BY <1>1
<1>3. \A n \in Int : -Wrap <= n /\ n < 0 => n % Wrap = n + Wrap
  BY <1>1
<1>4. Wrap % Wrap = 0
  BY <1>1
<1>5. CASE x >= 0 /\ y >= 0
  BY <1>1, <1>2, <1>5
<1>6. CASE x < 0 /\ y < 0
  <2>1. x % Wrap = x + Wrap /\ y % Wrap = y + Wrap
    BY <1>1, <1>3, <1>6
  <2>2. y + Wrap \in 0..(Wrap - 1)
    BY <1>1, <1>6
  <2> QED
    BY <1>1, <1>2, <2>1, <2>2
<1>7. CASE x < 0 /\ y >= 0
  <2>1. y = x + 1 => x = -1 /\ y = 0
    BY <1>7
  <2>2. (-1) % Wrap = Wrap - 1 /\ 0 % Wrap = 0
    BY <1>1, <1>2, <1>3
  <2>3. y = x + 1 => ((x % Wrap) + 1) % Wrap = y % Wrap
    <3>1. (((-1) % Wrap) + 1) = Wrap
      BY <1>1, <2>2
    <3> QED
      BY <1>4, <2>1, <2>2, <3>1
  <2> QED
    BY <1>7, <2>3
<1>8. CASE x >= 0 /\ y < 0
  <2>1. y = x - 1 => x = 0 /\ y = -1
    BY <1>8
  <2>2. 0 % Wrap = 0
    BY <1>1, <1>2
  <2> QED
    BY <1>8, <2>1, <2>2
<1> QED
  BY <1>5, <1>6, <1>7, <1>8

\* No step loses a count or counts twice, while nothing was shut down or cancelled.
LEMMA IdleCountStep == CountInv /\ [Next]_vars => IdleCountAccounted'
<1> SUFFICES ASSUME CountInv, [Next]_vars, shutdowns' = 0, leaked' = {}
             PROVE  idleCount' = Idling' % Wrap
  BY DEF IdleCountAccounted, Idling
<1>i. IInv /\ StillOpen /\ IInv'
  <2>1. IInv /\ [Next]_vars => IInv'
    BY TypeStep, PermitsStep, PlacesStep, LocatedStep, KnownStep, FreshStep, OneUserStep DEF IInv
  <2> QED
    BY <2>1 DEF CountInv
<1>0. /\ TypeOK /\ pc \in [Callers -> PcValues] /\ shutdowns \in Nat
      /\ Len(idleQueue) \in Nat /\ Cardinality(Claiming) \in Nat /\ Cardinality(Counting) \in Nat
      /\ Claiming \in SUBSET Callers /\ Counting \in SUBSET Callers
      /\ Idling \in Int /\ -Wrap < Idling /\ Idling < Wrap
  <2>1. TypeOK /\ pc \in [Callers -> PcValues] /\ shutdowns \in Nat
    <3>1. TypeOK
      BY <1>i DEF IInv
    <3>2. pc \in [Callers -> PcValues] /\ shutdowns \in 0 .. MaxShutdowns
      BY <3>1 DEF TypeOK
    <3> QED
      BY <3>1, <3>2, BoundsAssumption
  <2>2. IdlingBound
    BY <1>i, IdlingBounds
  <2> QED
    BY <2>1, <2>2 DEF IdlingBound
<1>p. /\ Len(idleQueue') \in Nat /\ Cardinality(Claiming') \in Nat /\ Cardinality(Counting') \in Nat
      /\ Claiming' \in SUBSET Callers /\ Counting' \in SUBSET Callers
      /\ Idling' \in Int /\ -Wrap < Idling' /\ Idling' < Wrap
  <2>1. IdlingBound'
    BY <1>i, IdlingBounds, PTL
  <2> QED
    BY <2>1 DEF IdlingBound
<1>s. shutdowns = 0 /\ leaked = {}
  <2>1. shutdowns' = shutdowns \/ shutdowns' = shutdowns + 1
    BY DEF Next, Acquire, Return, Query, Shutdown, Prewarm, Initialized, StartShutdown,
      TakePermit, TakeIdle, NoIdle, PingAnswered, Discard, Connect, ConnectFails, Insert,
      Cancel, StartQuery, EndQuery, Drop, SendIdle, CountIdle, Release,
      ClearShard, ResetCount, vars
  <2>2. leaked \subseteq leaked'
    BY DEF Next, Acquire, Return, Query, Shutdown, Prewarm, Initialized, StartShutdown,
      TakePermit, TakeIdle, NoIdle, PingAnswered, Discard, Connect, ConnectFails, Insert,
      Cancel, StartQuery, EndQuery, Drop, SendIdle, CountIdle, Release,
      ClearShard, ResetCount, vars
  <2> QED
    BY <1>0, <2>1, <2>2
<1>c. idleCount = Idling % Wrap
  BY <1>s DEF CountInv, IdleCountAccounted, Idling
<1>o. /\ \A i \in 1..Len(idleQueue) : idleQueue[i] \in connections
      /\ shutPc = NotShutting
  BY <1>i, <1>s DEF StillOpen
<1>1. ASSUME idleCount' = idleCount, Idling' = Idling PROVE idleCount' = Idling' % Wrap
  BY <1>c, <1>1
<1>2. ASSUME idleCount' = (idleCount + 1) % Wrap, Idling' = Idling + 1
      PROVE  idleCount' = Idling' % Wrap
  BY <1>0, <1>p, <1>c, <1>2, OneMore
<1>3. ASSUME idleCount' = (idleCount - 1) % Wrap, Idling' = Idling - 1
      PROVE  idleCount' = Idling' % Wrap
  BY <1>0, <1>p, <1>c, <1>3, OneMore
<1>4. ASSUME idleCount' = idleCount, idleQueue' = idleQueue, Claiming' = Claiming, Counting' = Counting
      PROVE  idleCount' = Idling' % Wrap
  BY <1>1, <1>4 DEF Idling
<1>5. CASE Prewarm
  <2>1. /\ idleCount' = (idleCount + 1) % Wrap /\ idleQueue' = Append(idleQueue, nextId)
        /\ Claiming' = Claiming /\ Counting' = Counting /\ nextId \in Nat
    BY <1>0, <1>5, QueueEntries DEF Prewarm, callerVars, Claiming, Counting
  <2>2. Len(idleQueue') = Len(idleQueue) + 1
    BY <1>0, <2>1, QueueEntries
  <2>3. Idling' = Idling + 1
    BY <1>0, <2>1, <2>2 DEF Idling
  <2> QED
    BY <1>2, <2>1, <2>3
<1>6. ASSUME NEW c \in Callers, TakeIdle(c) PROVE idleCount' = Idling' % Wrap
  <2>1. /\ idleCount' = idleCount /\ idleQueue # << >> /\ idleQueue' = Tail(idleQueue)
        /\ Claiming' = Claiming \cup {c} /\ c \notin Claiming /\ Counting' = Counting
    BY <1>0, <1>6 DEF TakeIdle, Goto, Claiming, Counting
  <2>2. Len(idleQueue') = Len(idleQueue) - 1
    BY <1>0, <2>1, TakeFirst
  <2>3. Cardinality(Claiming') = Cardinality(Claiming) + 1
    BY <1>0, <2>1, CallerSets
  <2>4. Idling' = Idling
    BY <1>0, <2>1, <2>2, <2>3 DEF Idling
  <2> QED
    BY <1>1, <2>1, <2>4
<1>7. ASSUME NEW c \in Callers, NoIdle(c) PROVE idleCount' = Idling' % Wrap
  <2>1. idleQueue' = idleQueue
    <3>1. idleQueue # << >> => Head(idleQueue) = idleQueue[1] /\ 1 \in 1..Len(idleQueue)
      BY <1>0, TakeFirst
    <3> QED
      BY <1>7, <1>o, <3>1 DEF NoIdle
  <2>2. idleCount' = idleCount /\ Claiming' = Claiming /\ Counting' = Counting
    BY <1>0, <1>7 DEF NoIdle, Goto, Claiming, Counting
  <2> QED
    BY <1>4, <2>1, <2>2
<1>8. ASSUME NEW c \in Callers, PingAnswered(c) PROVE idleCount' = Idling' % Wrap
  <2>1. /\ idleCount' = (idleCount - 1) % Wrap /\ idleQueue' = idleQueue
        /\ Claiming' = Claiming \ {c} /\ c \in Claiming /\ Counting' = Counting
    BY <1>0, <1>8 DEF PingAnswered, Goto, Claiming, Counting
  <2>2. Cardinality(Claiming') = Cardinality(Claiming) - 1
    BY <1>0, <2>1, CallerSets
  <2>3. Idling' = Idling - 1
    BY <1>0, <2>1, <2>2 DEF Idling
  <2> QED
    BY <1>3, <2>1, <2>3
<1>9. ASSUME NEW c \in Callers, SendIdle(c) PROVE idleCount' = Idling' % Wrap
  <2>1. /\ idleCount' = idleCount /\ idleQueue' = Append(idleQueue, conn[c]) /\ conn[c] \in Nat
        /\ Claiming' = Claiming /\ Counting' = Counting \cup {c} /\ c \notin Counting
    <3>1. pc[c] = "sending" /\ conn[c] \in Nat
      BY <1>0, <1>9 DEF SendIdle, TypeOK
    <3>2. Len(idleQueue) < MaxSize
      BY <1>i, <3>1, RoomForReturn
    <3> QED
      BY <1>0, <1>9, <3>1, <3>2 DEF SendIdle, Goto, Claiming, Counting
  <2>2. Len(idleQueue') = Len(idleQueue) + 1
    BY <1>0, <2>1, QueueEntries
  <2>3. Cardinality(Counting') = Cardinality(Counting) + 1
    BY <1>0, <2>1, CallerSets
  <2>4. Idling' = Idling
    BY <1>0, <2>1, <2>2, <2>3 DEF Idling
  <2> QED
    BY <1>1, <2>1, <2>4
<1>10. ASSUME NEW c \in Callers, CountIdle(c) PROVE idleCount' = Idling' % Wrap
  <2>1. /\ idleCount' = (idleCount + 1) % Wrap /\ idleQueue' = idleQueue
        /\ Claiming' = Claiming /\ Counting' = Counting \ {c} /\ c \in Counting
    BY <1>0, <1>10 DEF CountIdle, Goto, Claiming, Counting
  <2>2. Cardinality(Counting') = Cardinality(Counting) - 1
    BY <1>0, <2>1, CallerSets
  <2>3. Idling' = Idling + 1
    BY <1>0, <2>1, <2>2 DEF Idling
  <2> QED
    BY <1>2, <2>1, <2>3
<1>11. ASSUME NEW c \in Callers,
              \/ TakePermit(c) \/ Discard(c) \/ Connect(c) \/ ConnectFails(c) \/ Insert(c)
              \/ Query(c) \/ Drop(c) \/ Release(c)
       PROVE  idleCount' = Idling' % Wrap
  <2>1. idleCount' = idleCount /\ idleQueue' = idleQueue /\ Claiming' = Claiming /\ Counting' = Counting
    BY <1>0, <1>11
    DEF TakePermit, Discard, Connect, ConnectFails, Insert, Query, StartQuery, EndQuery, Drop,
        Release, Goto, poolVars, Claiming, Counting
  <2> QED
    BY <1>4, <2>1
<1>12. ASSUME NEW c \in Callers, Cancel(c) PROVE idleCount' = Idling' % Wrap
  <2>1. pc[c] # "pinging"
    BY <1>12 DEF Cancel
  <2>2. idleCount' = idleCount /\ idleQueue' = idleQueue /\ Claiming' = Claiming /\ Counting' = Counting
    BY <1>0, <1>12, <2>1 DEF Cancel, Goto, Claiming, Counting
  <2> QED
    BY <1>4, <2>2
<1>13. CASE Initialized \/ UNCHANGED vars
  BY <1>4, <1>13 DEF Initialized, vars, poolVars, callerVars, Claiming, Counting
<1>14. ~Shutdown
  BY <1>s, <1>o, ShardsAssumption
  DEF Shutdown, StartShutdown, ClearShard, ResetCount, NotShutting, Resetting
<1> QED
  BY <1>5, <1>6, <1>7, <1>8, <1>9, <1>10, <1>11, <1>12, <1>13, <1>14 DEF Next, Acquire, Return

\* idle_count is the number of idle ids up to the returns and the acquires under
\* way, modulo its width, as long as nothing was shut down or cancelled.
THEOREM IdleCountAlwaysAccounted == Spec => []IdleCountAccounted
<1>1. Init => CountInv
  <2> SUFFICES ASSUME Init PROVE StillOpen /\ IdleCountAccounted
    BY InitIInv DEF CountInv
  <2>1. Claiming = {} /\ Counting = {} /\ Cardinality({}) = 0 /\ Len(<< >>) = 0
    BY FS_EmptySet DEF Init, Claiming, Counting
  <2>2. StillOpen
    BY <2>1 DEF Init, StillOpen
  <2>3. 0 % Wrap = 0
    BY WrapAssumption, SizeAssumption
  <2> QED
    BY <2>1, <2>2, <2>3 DEF Init, IdleCountAccounted
<1>2. CountInv /\ [Next]_vars => CountInv'
  <2>1. IInv /\ [Next]_vars => IInv'
    BY TypeStep, PermitsStep, PlacesStep, LocatedStep, KnownStep, FreshStep, OneUserStep DEF IInv
  <2> QED
    BY <2>1, StillOpenStep, IdleCountStep DEF CountInv
<1>3. CountInv => IdleCountAccounted
  BY DEF CountInv
<1> QED
  BY <1>1, <1>2, <1>3, PTL DEF Spec
=============================================================================
