----------------------------- MODULE PartsProofs ------------------------------
(***************************************************************************)
(* Proofs about components that share no state with another module.        *)
(***************************************************************************)
EXTENDS Parts, ProxyProofs, TetherProofs, SequenceTheorems

-----------------------------------------------------------------------------
(* The Scope agent: events keep their order on the way from the kernel's   *)
(* ring buffer to the exporter, so that they cannot be in two places, and  *)
(* the places together hold all that were accepted.                        *)

RingEvents == [id : Nat \ {0}, type : EventTypes, pid : Pids]
Entries == [container : Nat, pod : Nat]
Exported == [id : Nat, pid : Pids \cup {EmptyHand.pid}, container : Nat, pod : Nat]
Hands ==
    [id : Nat, pid : Pids \cup {EmptyHand.pid}, at : {"none", "taken", "container"}, container : Nat]

AgentTypes ==
    /\ eRing \in Seq(RingEvents) /\ eQueue \in Seq(RingEvents)
    /\ eReader \in {"off", "stopCheck", "reading"}
    /\ eProbe \in [state : ProbeStates, attached : BOOLEAN, stopping : BOOLEAN]
    /\ eStub \in [state : ProbeStates, events : Seq(Nat)]
    /\ eOwner \in [Pids -> Nat] /\ eCache \in [Pids -> Entries]
    /\ eHand \in Hands
    /\ eSpans \in Seq(Exported)
    /\ eGone \in SUBSET Nat
    /\ eCount \in [kernel : Nat, accepted : Nat, processes : Nat, invoked : Nat, drained : Nat]
    /\ eStale \in SUBSET Pids

Rising(es) == \A i, j \in DOMAIN es : i < j => es[i].id < es[j].id
Precede(es, fs) == \A i \in DOMAIN es, j \in DOMAIN fs : es[i].id < fs[j].id

\* What was exported is older than what is in the agent's hands, that than what
\* is in the queue, and that than what is in the ring.
EventsInOrder ==
    /\ Rising(eSpans) /\ Rising(eQueue) /\ Rising(eRing)
    /\ Precede(eSpans, eQueue) /\ Precede(eSpans, eRing) /\ Precede(eQueue, eRing)
    /\ \A i \in DOMAIN eRing : eRing[i].id <= eCount.accepted
    /\ \A i \in DOMAIN eQueue : eQueue[i].id <= eCount.accepted
    /\ eHand.at = "none" <=> eHand.id = 0
    /\ eHand.at # "none" =>
          /\ eHand.pid \in Pids
          /\ eHand.id <= eCount.accepted
          /\ \A i \in DOMAIN eSpans : eSpans[i].id < eHand.id
          /\ \A i \in DOMAIN eQueue : eHand.id < eQueue[i].id
          /\ \A i \in DOMAIN eRing : eHand.id < eRing[i].id

\* Where an event is that was not lost.
Kept(n) ==
    \/ \E i \in DOMAIN eRing : eRing[i].id = n
    \/ \E i \in DOMAIN eQueue : eQueue[i].id = n
    \/ \E i \in DOMAIN eSpans : eSpans[i].id = n
    \/ eHand.id = n

EventsFound ==
    /\ \A n \in 1 .. eCount.accepted : Kept(n) <=> n \notin eGone
    /\ eGone \subseteq 1 .. eCount.accepted
    /\ \A i \in DOMAIN eSpans : eSpans[i].id \in 1 .. eCount.accepted
    /\ Len(eStub.events) + eCount.drained = eCount.invoked

\* A process id that was read and has not changed hands since.
LookedUpRight ==
    eHand.at = "container" /\ eHand.pid \notin eStale => eHand.container = eOwner[eHand.pid]

AgentInv == AgentTypes /\ EventsInOrder /\ EventsFound /\ EnrichedRight /\ LookedUpRight

LEMMA EventFields ==
    ASSUME NEW es \in Seq(RingEvents), NEW i \in DOMAIN es
    PROVE  es[i] \in RingEvents /\ es[i].id \in Nat /\ es[i].id >= 1
<1>1. es[i] \in RingEvents
  OBVIOUS
<1>2. es[i].id \in Nat \ {0}
  BY <1>1 DEF RingEvents
<1> QED
  BY <1>1, <1>2

LEMMA AgentFields ==
    ASSUME AgentTypes
    PROVE  /\ \A i \in DOMAIN eRing : eRing[i].id \in Nat /\ eRing[i].id >= 1
           /\ \A i \in DOMAIN eQueue : eQueue[i].id \in Nat /\ eQueue[i].id >= 1
           /\ \A i \in DOMAIN eSpans : eSpans[i].id \in Nat
           /\ eHand.id \in Nat /\ eHand.at \in {"none", "taken", "container"}
           /\ eCount.accepted \in Nat
<1>1. eRing \in Seq(RingEvents) /\ eQueue \in Seq(RingEvents)
  BY DEF AgentTypes
<1>2. eHand \in Hands
  BY DEF AgentTypes
<1>3. eSpans \in Seq(Exported)
  BY DEF AgentTypes
<1>4. eCount \in [kernel : Nat, accepted : Nat, processes : Nat, invoked : Nat, drained : Nat]
  BY DEF AgentTypes
<1>5. eHand.id \in Nat /\ eHand.at \in {"none", "taken", "container"}
  BY <1>2 DEF Hands
<1>6. ASSUME NEW i \in DOMAIN eSpans PROVE eSpans[i].id \in Nat
  <2>1. eSpans[i] \in Exported
    BY <1>3
  <2> QED
    BY <2>1 DEF Exported
<1>7. eCount.accepted \in Nat
  BY <1>4
<1> QED
  BY <1>1, <1>5, <1>6, <1>7, EventFields

LEMMA AgentInvSound == AgentInv => AgentSound
<1> SUFFICES ASSUME AgentInv PROVE AgentSound
  OBVIOUS
<1>0. /\ \A i \in DOMAIN eRing : eRing[i].id \in Nat /\ eRing[i].id >= 1
      /\ \A i \in DOMAIN eQueue : eQueue[i].id \in Nat /\ eQueue[i].id >= 1
      /\ \A i \in DOMAIN eSpans : eSpans[i].id \in Nat
      /\ eHand.id \in Nat /\ eHand.at \in {"none", "taken", "container"} /\ eCount.accepted \in Nat
  BY AgentFields DEF AgentInv
<1> USE DEF AgentInv
<1>1. IdsOf(eRing) \cup IdsOf(eQueue) \cup IdsOf(eSpans) \cup eGone \cup ({eHand.id} \ {0}) = 1 .. eCount.accepted
  <2>1. ASSUME NEW n \in 1 .. eCount.accepted
        PROVE  n \in IdsOf(eRing) \cup IdsOf(eQueue) \cup IdsOf(eSpans) \cup eGone \cup ({eHand.id} \ {0})
    BY DEF EventsFound, Kept, IdsOf
  <2>2. IdsOf(eRing) \subseteq 1 .. eCount.accepted /\ IdsOf(eQueue) \subseteq 1 .. eCount.accepted
    BY <1>0 DEF EventsInOrder, IdsOf
  <2>3. IdsOf(eSpans) \subseteq 1 .. eCount.accepted /\ eGone \subseteq 1 .. eCount.accepted
    BY DEF EventsFound, IdsOf
  <2>4. {eHand.id} \ {0} \subseteq 1 .. eCount.accepted
    BY <1>0 DEF EventsInOrder
  <2> QED
    BY <2>1, <2>2, <2>3, <2>4
<1>2. /\ IdsOf(eRing) \cap IdsOf(eQueue) = {} /\ IdsOf(eRing) \cap IdsOf(eSpans) = {}
      /\ IdsOf(eQueue) \cap IdsOf(eSpans) = {}
  <2>1. \A i \in DOMAIN eRing, j \in DOMAIN eQueue : eQueue[j].id < eRing[i].id
    BY DEF EventsInOrder, Precede
  <2>2. \A i \in DOMAIN eRing, j \in DOMAIN eSpans : eSpans[j].id < eRing[i].id
    BY DEF EventsInOrder, Precede
  <2>3. \A i \in DOMAIN eQueue, j \in DOMAIN eSpans : eSpans[j].id < eQueue[i].id
    BY DEF EventsInOrder, Precede
  <2> QED
    BY <1>0, <2>1, <2>2, <2>3 DEF IdsOf
<1>3. /\ IdsOf(eRing) \cap ({eHand.id} \ {0}) = {} /\ IdsOf(eQueue) \cap ({eHand.id} \ {0}) = {}
      /\ IdsOf(eSpans) \cap ({eHand.id} \ {0}) = {}
  BY <1>0 DEF EventsInOrder, IdsOf
<1>4. /\ IdsOf(eRing) \cap eGone = {} /\ IdsOf(eQueue) \cap eGone = {} /\ IdsOf(eSpans) \cap eGone = {}
      /\ ({eHand.id} \ {0}) \cap eGone = {}
  BY DEF EventsFound, Kept, IdsOf
<1>5. \A i, j \in DOMAIN eSpans : i < j => eSpans[i].id < eSpans[j].id
  BY DEF EventsInOrder, Rising
<1>6. Len(eStub.events) + eCount.drained = eCount.invoked
  BY DEF EventsFound
<1>7. EventsAccounted
  <2> DEFINE held == <<IdsOf(eRing), IdsOf(eQueue), IdsOf(eSpans), eGone, {eHand.id} \ {0}>>
  <2>1. DOMAIN held = 1 .. 5 /\ held[1] = IdsOf(eRing) /\ held[2] = IdsOf(eQueue) /\ held[3] = IdsOf(eSpans)
        /\ held[4] = eGone /\ held[5] = {eHand.id} \ {0}
    OBVIOUS
  <2> HIDE DEF held
  <2>2. UNION ToSet(held) = held[1] \cup held[2] \cup held[3] \cup held[4] \cup held[5]
    BY <2>1 DEF ToSet
  <2>3. UNION ToSet(held) = 1 .. eCount.accepted
    BY <1>1, <2>1, <2>2
  <2>4. \A i, j \in DOMAIN held : i # j => held[i] \cap held[j] = {}
    <3> SUFFICES ASSUME NEW i \in 1 .. 5, NEW j \in 1 .. 5, i < j PROVE held[i] \cap held[j] = {}
      BY <2>1
    <3> QED
      BY <1>2, <1>3, <1>4, <2>1
  <2> QED
    BY <1>5, <1>6, <2>3, <2>4 DEF EventsAccounted, held
<1> QED
  BY <1>7 DEF AgentSound

\* What a step may do to the events on their way.
Accepts ==
    /\ \E e \in RingEvents : e.id = eCount.accepted + 1 /\ eRing' = Append(eRing, e)
    /\ eCount'.accepted = eCount.accepted + 1
    /\ UNCHANGED <<eQueue, eHand, eSpans, eGone>>
MovesUp ==
    /\ eRing # <<>> /\ eRing' = Tail(eRing) /\ eQueue' = Append(eQueue, Head(eRing))
    /\ eCount'.accepted = eCount.accepted
    /\ UNCHANGED <<eHand, eSpans, eGone>>
Clears ==
    /\ eRing' = <<>> /\ eQueue' = <<>> /\ eGone' = eGone \cup IdsOf(eRing) \cup IdsOf(eQueue)
    /\ eCount'.accepted = eCount.accepted
    /\ UNCHANGED <<eHand, eSpans>>
TakesHead ==
    /\ eHand.at = "none" /\ eQueue # <<>> /\ eQueue' = Tail(eQueue)
    /\ eCount'.accepted = eCount.accepted
    /\ UNCHANGED <<eRing, eSpans>>
    /\ \/ /\ eHand'.id = Head(eQueue).id /\ eHand'.pid = Head(eQueue).pid /\ eHand'.at = "taken"
          /\ UNCHANGED eGone
       \/ eGone' = eGone \cup {Head(eQueue).id} /\ UNCHANGED eHand
Exports ==
    /\ eHand.at # "none" /\ eHand' = EmptyHand
    /\ \E e \in Exported : e.id = eHand.id /\ eSpans' = Append(eSpans, e)
    /\ eCount'.accepted = eCount.accepted
    /\ UNCHANGED <<eRing, eQueue, eGone>>
MovesNothing ==
    /\ eHand'.id = eHand.id /\ eHand'.pid = eHand.pid /\ (eHand'.at = "none" <=> eHand.at = "none")
    /\ eCount'.accepted = eCount.accepted
    /\ UNCHANGED <<eRing, eQueue, eSpans, eGone>>

EventMoves == Accepts \/ MovesUp \/ Clears \/ TakesHead \/ Exports \/ MovesNothing

\* Two parts of the order that change one end of a sequence.
LEMMA RisingAppend ==
    ASSUME NEW S, NEW es \in Seq(S), NEW e \in S, \A i \in DOMAIN es : es[i].id < e.id, Rising(es)
    PROVE  Rising(Append(es, e))
<1>1. /\ DOMAIN Append(es, e) = 1 .. Len(es) + 1 /\ DOMAIN es = 1 .. Len(es) /\ Len(es) \in Nat
      /\ \A i \in 1 .. Len(es) : Append(es, e)[i] = es[i]
      /\ Append(es, e)[Len(es) + 1] = e
  OBVIOUS
<1> DEFINE fs == Append(es, e)
<1> SUFFICES ASSUME NEW i \in 1 .. Len(es) + 1, NEW j \in 1 .. Len(es) + 1, i < j
             PROVE  fs[i].id < fs[j].id
  BY <1>1 DEF Rising
<1> HIDE DEF fs
<1>2. i \in 1 .. Len(es) /\ (j \in 1 .. Len(es) \/ j = Len(es) + 1)
  BY <1>1
<1>3. fs[i] = es[i] /\ (j \in 1 .. Len(es) => fs[j] = es[j]) /\ fs[Len(es) + 1] = e
  BY <1>1, <1>2 DEF fs
<1> QED
  BY <1>1, <1>2, <1>3 DEF Rising

LEMMA TailElements ==
    ASSUME NEW S, NEW es \in Seq(S), es # <<>>
    PROVE  /\ DOMAIN Tail(es) = 1 .. Len(es) - 1 /\ DOMAIN es = 1 .. Len(es) /\ Len(es) \in Nat \ {0}
           /\ \A i \in 1 .. Len(es) - 1 : i + 1 \in 1 .. Len(es) /\ Tail(es)[i] = es[i + 1]
           /\ 1 \in DOMAIN es /\ Head(es) = es[1] /\ Head(es) \in S
OBVIOUS

LEMMA RisingTail ==
    ASSUME NEW S, NEW es \in Seq(S), es # <<>>, Rising(es)
    PROVE  Rising(Tail(es)) /\ \A i \in DOMAIN Tail(es) : Head(es).id < Tail(es)[i].id
<1>1. /\ DOMAIN Tail(es) = 1 .. Len(es) - 1 /\ DOMAIN es = 1 .. Len(es) /\ Len(es) \in Nat \ {0}
      /\ \A i \in 1 .. Len(es) - 1 : i + 1 \in 1 .. Len(es) /\ Tail(es)[i] = es[i + 1]
      /\ 1 \in DOMAIN es /\ Head(es) = es[1]
  BY TailElements
<1>2. ASSUME NEW i \in DOMAIN Tail(es), NEW j \in DOMAIN Tail(es), i < j
      PROVE  Tail(es)[i].id < Tail(es)[j].id
  <2>1. i + 1 < j + 1 /\ i + 1 \in DOMAIN es /\ j + 1 \in DOMAIN es
    BY <1>1, <1>2
  <2> QED
    BY <1>1, <2>1 DEF Rising
<1>3. ASSUME NEW i \in DOMAIN Tail(es) PROVE Head(es).id < Tail(es)[i].id
  <2>1. 1 < i + 1 /\ i + 1 \in DOMAIN es
    BY <1>1
  <2> QED
    BY <1>1, <2>1 DEF Rising
<1> QED
  BY <1>2, <1>3 DEF Rising

\* The order is kept.
LEMMA OrderStep ==
    ASSUME AgentInv, AgentTypes', EventMoves
    PROVE  EventsInOrder'
<1>t. /\ eRing \in Seq(RingEvents) /\ eQueue \in Seq(RingEvents) /\ eSpans \in Seq(Exported)
  BY DEF AgentInv, AgentTypes
<1>f. /\ \A i \in DOMAIN eRing : eRing[i].id \in Nat /\ eRing[i].id >= 1
      /\ \A i \in DOMAIN eQueue : eQueue[i].id \in Nat /\ eQueue[i].id >= 1
      /\ \A i \in DOMAIN eSpans : eSpans[i].id \in Nat
      /\ eHand.id \in Nat /\ eHand.at \in {"none", "taken", "container"}
      /\ eCount.accepted \in Nat
  BY AgentFields DEF AgentInv
<1>o. /\ Rising(eSpans) /\ Rising(eQueue) /\ Rising(eRing)
      /\ Precede(eSpans, eQueue) /\ Precede(eSpans, eRing) /\ Precede(eQueue, eRing)
      /\ \A i \in DOMAIN eRing : eRing[i].id <= eCount.accepted
      /\ \A i \in DOMAIN eQueue : eQueue[i].id <= eCount.accepted
      /\ eHand.at = "none" <=> eHand.id = 0
      /\ eHand.at # "none" =>
            /\ eHand.pid \in Pids
            /\ eHand.id <= eCount.accepted
            /\ \A i \in DOMAIN eSpans : eSpans[i].id < eHand.id
            /\ \A i \in DOMAIN eQueue : eHand.id < eQueue[i].id
            /\ \A i \in DOMAIN eRing : eHand.id < eRing[i].id
  BY DEF AgentInv, EventsInOrder
<1>p. \A i \in DOMAIN eSpans : eSpans[i].id <= eCount.accepted
  BY DEF AgentInv, EventsFound
<1>1. CASE Accepts
  <2> PICK e \in RingEvents : e.id = eCount.accepted + 1 /\ eRing' = Append(eRing, e)
    BY <1>1 DEF Accepts
  <2>1. UNCHANGED <<eQueue, eHand, eSpans>> /\ eCount'.accepted = eCount.accepted + 1
    BY <1>1 DEF Accepts
  <2>2. /\ DOMAIN eRing' = 1 .. Len(eRing) + 1 /\ DOMAIN eRing = 1 .. Len(eRing) /\ Len(eRing) \in Nat
        /\ \A i \in 1 .. Len(eRing) : eRing'[i] = eRing[i]
        /\ eRing'[Len(eRing) + 1] = e
    BY <1>t
  <2>3. \A i \in DOMAIN eRing : eRing[i].id < e.id
    BY <1>f, <1>o
  <2>4. Rising(eRing)'
    BY <1>t, <1>o, <2>3, RisingAppend
  <2>5. \A i \in DOMAIN eRing' : i \in DOMAIN eRing \/ eRing'[i] = e
    BY <2>2
  <2>6. \A i \in DOMAIN eRing' : eRing'[i].id <= eCount'.accepted
    BY <1>f, <1>o, <2>1, <2>2, <2>5
  <2>7. Precede(eSpans, eRing)' /\ Precede(eQueue, eRing)'
    BY <1>f, <1>o, <1>p, <2>1, <2>2, <2>5 DEF Precede
  <2>8. eHand.at # "none" => \A i \in DOMAIN eRing' : eHand.id < eRing'[i].id
    BY <1>f, <1>o, <2>2, <2>5
  <2>9. \A i \in DOMAIN eQueue : eQueue[i].id <= eCount'.accepted
    BY <1>f, <1>o, <2>1
  <2>10. eHand.at # "none" => eHand.id <= eCount'.accepted
    BY <1>f, <1>o, <2>1
  <2> QED
    BY <1>o, <2>1, <2>4, <2>6, <2>7, <2>8, <2>9, <2>10 DEF EventsInOrder
<1>2. CASE MovesUp
  <2>1. /\ eRing # <<>> /\ eRing' = Tail(eRing) /\ eQueue' = Append(eQueue, Head(eRing))
        /\ eCount'.accepted = eCount.accepted /\ UNCHANGED <<eHand, eSpans>>
    BY <1>2 DEF MovesUp
  <2>2. /\ DOMAIN eRing' = 1 .. Len(eRing) - 1 /\ DOMAIN eRing = 1 .. Len(eRing) /\ Len(eRing) \in Nat \ {0}
        /\ \A i \in 1 .. Len(eRing) - 1 : i + 1 \in 1 .. Len(eRing) /\ eRing'[i] = eRing[i + 1]
        /\ 1 \in DOMAIN eRing /\ Head(eRing) = eRing[1] /\ Head(eRing) \in RingEvents
    BY <1>t, <2>1, TailElements
  <2>3. /\ DOMAIN eQueue' = 1 .. Len(eQueue) + 1 /\ DOMAIN eQueue = 1 .. Len(eQueue) /\ Len(eQueue) \in Nat
        /\ \A i \in 1 .. Len(eQueue) : eQueue'[i] = eQueue[i]
        /\ eQueue'[Len(eQueue) + 1] = eRing[1]
    BY <1>t, <2>1, <2>2
  <2>4. \A i \in DOMAIN eQueue' : i \in DOMAIN eQueue \/ eQueue'[i] = eRing[1]
    BY <2>3
  <2>5. \A i \in DOMAIN eRing' : i + 1 \in DOMAIN eRing /\ eRing'[i] = eRing[i + 1]
    BY <2>2
  <2>6. Rising(eRing)' /\ \A i \in DOMAIN eRing' : eRing[1].id < eRing'[i].id
    BY <1>t, <1>o, <2>1, <2>2, RisingTail
  <2>7. \A i \in DOMAIN eQueue : eQueue[i].id < Head(eRing).id
    BY <1>o, <2>2 DEF Precede
  <2>8. Rising(eQueue)'
    BY <1>t, <1>o, <2>1, <2>2, <2>7, RisingAppend
  <2>9. Precede(eSpans, eQueue)' /\ Precede(eSpans, eRing)'
    BY <1>o, <2>1, <2>2, <2>3, <2>4, <2>5 DEF Precede
  <2>10. Precede(eQueue, eRing)'
    BY <1>o, <2>2, <2>3, <2>4, <2>5, <2>6 DEF Precede
  <2>11. /\ \A i \in DOMAIN eRing' : eRing'[i].id <= eCount'.accepted
         /\ \A i \in DOMAIN eQueue' : eQueue'[i].id <= eCount'.accepted
    BY <1>o, <2>1, <2>2, <2>3, <2>4, <2>5
  <2>12. eHand.at # "none" => /\ \A i \in DOMAIN eQueue' : eHand.id < eQueue'[i].id
                              /\ \A i \in DOMAIN eRing' : eHand.id < eRing'[i].id
    BY <1>o, <2>2, <2>3, <2>4, <2>5
  <2> QED
    BY <1>o, <2>1, <2>6, <2>8, <2>9, <2>10, <2>11, <2>12 DEF EventsInOrder
<1>3. CASE Clears
  <2>1. /\ DOMAIN eRing' = {} /\ DOMAIN eQueue' = {} /\ eCount'.accepted = eCount.accepted
        /\ UNCHANGED <<eHand, eSpans>>
    BY <1>3 DEF Clears
  <2> QED
    BY <1>o, <2>1 DEF EventsInOrder, Rising, Precede
<1>4. CASE TakesHead
  <2>1. /\ eHand.at = "none" /\ eQueue # <<>> /\ eQueue' = Tail(eQueue)
        /\ eCount'.accepted = eCount.accepted /\ UNCHANGED <<eRing, eSpans>>
    BY <1>4 DEF TakesHead
  <2>2. /\ DOMAIN eQueue' = 1 .. Len(eQueue) - 1 /\ DOMAIN eQueue = 1 .. Len(eQueue) /\ Len(eQueue) \in Nat \ {0}
        /\ \A i \in 1 .. Len(eQueue) - 1 : i + 1 \in 1 .. Len(eQueue) /\ eQueue'[i] = eQueue[i + 1]
        /\ 1 \in DOMAIN eQueue /\ Head(eQueue) = eQueue[1] /\ Head(eQueue) \in RingEvents
    BY <1>t, <2>1, TailElements
  <2>3. \A i \in DOMAIN eQueue' : i + 1 \in DOMAIN eQueue /\ eQueue'[i] = eQueue[i + 1]
    BY <2>2
  <2>4. Rising(eQueue)' /\ \A i \in DOMAIN eQueue' : eQueue[1].id < eQueue'[i].id
    BY <1>t, <1>o, <2>1, <2>2, RisingTail
  <2>5. Precede(eSpans, eQueue)' /\ Precede(eQueue, eRing)'
    BY <1>o, <2>1, <2>3 DEF Precede
  <2>6. \A i \in DOMAIN eQueue' : eQueue'[i].id <= eCount'.accepted
    BY <1>o, <2>1, <2>3
  <2>7. CASE eHand'.id = Head(eQueue).id /\ eHand'.pid = Head(eQueue).pid /\ eHand'.at = "taken"
    <3>1. eHand'.pid \in Pids
      BY <2>2, <2>7 DEF RingEvents
    <3>2. eHand'.id # 0 /\ eHand'.id <= eCount'.accepted /\ eHand'.at # "none"
      BY <1>f, <1>o, <2>1, <2>2, <2>7
    <3>3. \A i \in DOMAIN eSpans : eSpans[i].id < eHand'.id
      BY <1>o, <2>2, <2>7 DEF Precede
    <3>4. \A i \in DOMAIN eRing : eHand'.id < eRing[i].id
      BY <1>o, <2>2, <2>7 DEF Precede
    <3>5. \A i \in DOMAIN eQueue' : eHand'.id < eQueue'[i].id
      BY <2>2, <2>4, <2>7
    <3> QED
      BY <1>o, <2>1, <2>4, <2>5, <2>6, <3>1, <3>2, <3>3, <3>4, <3>5 DEF EventsInOrder
  <2>8. CASE UNCHANGED eHand
    BY <1>o, <2>1, <2>4, <2>5, <2>6, <2>8 DEF EventsInOrder
  <2> QED
    BY <1>4, <2>7, <2>8 DEF TakesHead
<1>5. CASE Exports
  <2> PICK e \in Exported : e.id = eHand.id /\ eSpans' = Append(eSpans, e)
    BY <1>5 DEF Exports
  <2>1. /\ eHand.at # "none" /\ eHand' = EmptyHand /\ UNCHANGED <<eRing, eQueue>>
        /\ eCount'.accepted = eCount.accepted
    BY <1>5 DEF Exports
  <2>2. /\ DOMAIN eSpans' = 1 .. Len(eSpans) + 1 /\ DOMAIN eSpans = 1 .. Len(eSpans) /\ Len(eSpans) \in Nat
        /\ \A i \in 1 .. Len(eSpans) : eSpans'[i] = eSpans[i]
        /\ eSpans'[Len(eSpans) + 1] = e
    BY <1>t
  <2>3. \A i \in DOMAIN eSpans' : i \in DOMAIN eSpans \/ eSpans'[i] = e
    BY <2>2
  <2>4. Rising(eSpans)'
    BY <1>t, <1>o, <2>1, RisingAppend
  <2>5. Precede(eSpans, eQueue)' /\ Precede(eSpans, eRing)'
    BY <1>o, <2>1, <2>2, <2>3 DEF Precede
  <2>6. eHand'.id = 0 /\ eHand'.at = "none"
    BY <2>1 DEF EmptyHand
  <2> QED
    BY <1>o, <2>1, <2>4, <2>5, <2>6 DEF EventsInOrder
<1>6. CASE MovesNothing
  BY <1>o, <1>6 DEF EventsInOrder, MovesNothing
<1> QED
  BY <1>1, <1>2, <1>3, <1>4, <1>5, <1>6 DEF EventMoves

\* Nothing that was accepted gets out of sight, and nothing that was lost
\* comes back.
LEMMA FoundStep ==
    ASSUME AgentInv, AgentTypes', EventsInOrder', EventMoves
    PROVE  /\ \A n \in 1 .. eCount'.accepted : Kept(n)' <=> n \notin eGone'
           /\ eGone' \subseteq 1 .. eCount'.accepted
           /\ \A i \in DOMAIN eSpans' : eSpans'[i].id \in 1 .. eCount'.accepted
<1>t. /\ eRing \in Seq(RingEvents) /\ eQueue \in Seq(RingEvents) /\ eSpans \in Seq(Exported)
  BY DEF AgentInv, AgentTypes
<1>f. /\ \A i \in DOMAIN eRing : eRing[i].id \in Nat /\ eRing[i].id >= 1
      /\ \A i \in DOMAIN eQueue : eQueue[i].id \in Nat /\ eQueue[i].id >= 1
      /\ \A i \in DOMAIN eSpans : eSpans[i].id \in Nat
      /\ eHand.id \in Nat /\ eHand.at \in {"none", "taken", "container"}
      /\ eCount.accepted \in Nat
  BY AgentFields DEF AgentInv
<1>g. /\ \A n \in 1 .. eCount.accepted : Kept(n) <=> n \notin eGone
      /\ eGone \subseteq 1 .. eCount.accepted
      /\ \A i \in DOMAIN eSpans : eSpans[i].id \in 1 .. eCount.accepted
  BY DEF AgentInv, EventsFound
<1>o. /\ \A i \in DOMAIN eRing : eRing[i].id <= eCount.accepted
      /\ \A i \in DOMAIN eQueue : eQueue[i].id <= eCount.accepted
      /\ eHand.at = "none" <=> eHand.id = 0
      /\ eHand.at # "none" =>
            /\ eHand.id <= eCount.accepted
            /\ \A i \in DOMAIN eSpans : eSpans[i].id < eHand.id
            /\ \A i \in DOMAIN eQueue : eHand.id < eQueue[i].id
            /\ \A i \in DOMAIN eRing : eHand.id < eRing[i].id
  BY DEF AgentInv, EventsInOrder
<1>p. /\ \A i \in DOMAIN eSpans, j \in DOMAIN eQueue : eSpans[i].id < eQueue[j].id
      /\ \A i \in DOMAIN eSpans, j \in DOMAIN eRing : eSpans[i].id < eRing[j].id
      /\ \A i \in DOMAIN eQueue, j \in DOMAIN eRing : eQueue[i].id < eRing[j].id
  BY DEF AgentInv, EventsInOrder, Precede
<1>1. CASE Accepts
  <2> PICK e \in RingEvents : e.id = eCount.accepted + 1 /\ eRing' = Append(eRing, e)
    BY <1>1 DEF Accepts
  <2>1. UNCHANGED <<eQueue, eHand, eSpans, eGone>> /\ eCount'.accepted = eCount.accepted + 1
    BY <1>1 DEF Accepts
  <2>2. /\ DOMAIN eRing' = 1 .. Len(eRing) + 1 /\ DOMAIN eRing = 1 .. Len(eRing) /\ Len(eRing) \in Nat
        /\ \A i \in 1 .. Len(eRing) : eRing'[i] = eRing[i]
        /\ eRing'[Len(eRing) + 1] = e
    BY <1>t
  <2>3. \A n : Kept(n)' <=> Kept(n) \/ n = eCount.accepted + 1
    BY <2>1, <2>2 DEF Kept
  <2>4. eCount.accepted + 1 \notin eGone
    BY <1>f, <1>g
  <2>5. \A n \in 1 .. eCount.accepted + 1 : n \in 1 .. eCount.accepted \/ n = eCount.accepted + 1
    BY <1>f
  <2>6. 1 .. eCount.accepted \subseteq 1 .. eCount.accepted + 1
    BY <1>f
  <2> QED
    BY <1>g, <2>1, <2>3, <2>4, <2>5, <2>6
<1>2. CASE MovesUp
  <2>1. /\ eRing # <<>> /\ eRing' = Tail(eRing) /\ eQueue' = Append(eQueue, Head(eRing))
        /\ eCount'.accepted = eCount.accepted /\ UNCHANGED <<eHand, eSpans, eGone>>
    BY <1>2 DEF MovesUp
  <2>2. /\ DOMAIN eRing' = 1 .. Len(eRing) - 1 /\ DOMAIN eRing = 1 .. Len(eRing) /\ Len(eRing) \in Nat \ {0}
        /\ \A i \in 1 .. Len(eRing) - 1 : i + 1 \in 1 .. Len(eRing) /\ eRing'[i] = eRing[i + 1]
        /\ 1 \in DOMAIN eRing /\ Head(eRing) = eRing[1]
    BY <1>t, <2>1, TailElements
  <2>3. /\ DOMAIN eQueue' = 1 .. Len(eQueue) + 1 /\ DOMAIN eQueue = 1 .. Len(eQueue) /\ Len(eQueue) \in Nat
        /\ \A i \in 1 .. Len(eQueue) : eQueue'[i] = eQueue[i]
        /\ eQueue'[Len(eQueue) + 1] = eRing[1]
    BY <1>t, <2>1, <2>2
  <2>4. \A i \in DOMAIN eRing : i = 1 \/ (i - 1 \in DOMAIN eRing' /\ eRing'[i - 1] = eRing[i])
    BY <2>2
  <2>5. \A n : (\E i \in DOMAIN eRing : eRing[i].id = n)
                  <=> n = eRing[1].id \/ \E i \in DOMAIN eRing' : eRing'[i].id = n
    BY <2>2, <2>4
  <2>6. \A n : (\E i \in DOMAIN eQueue' : eQueue'[i].id = n)
                  <=> n = eRing[1].id \/ \E i \in DOMAIN eQueue : eQueue[i].id = n
    BY <2>3
  <2>7. \A n : Kept(n)' <=> Kept(n)
    BY <2>1, <2>5, <2>6 DEF Kept
  <2> QED
    BY <1>g, <2>1, <2>7
<1>3. CASE Clears
  <2>1. /\ DOMAIN eRing' = {} /\ DOMAIN eQueue' = {} /\ eCount'.accepted = eCount.accepted
        /\ eGone' = eGone \cup IdsOf(eRing) \cup IdsOf(eQueue)
        /\ UNCHANGED <<eHand, eSpans>>
    BY <1>3 DEF Clears
  <2>2. IdsOf(eRing) \cup IdsOf(eQueue) \subseteq 1 .. eCount.accepted
    BY <1>f, <1>o DEF IdsOf
  <2>3. \A n : Kept(n)' <=> \/ \E i \in DOMAIN eSpans : eSpans[i].id = n
                            \/ eHand.id = n
    BY <2>1 DEF Kept
  <2>4. \A n \in 1 .. eCount.accepted :
           n \in IdsOf(eRing) \cup IdsOf(eQueue) =>
              eHand.id # n /\ \A i \in DOMAIN eSpans : eSpans[i].id # n
    BY <1>f, <1>o, <1>p DEF IdsOf
  <2>5. \A n : Kept(n) <=> Kept(n)' \/ n \in IdsOf(eRing) \cup IdsOf(eQueue)
    BY <2>3 DEF Kept, IdsOf
  <2>6. \A n \in 1 .. eCount.accepted : Kept(n)' <=> n \notin eGone'
    BY <1>g, <2>1, <2>3, <2>4, <2>5
  <2> QED
    BY <1>g, <2>1, <2>2, <2>6
<1>4. CASE TakesHead
  <2>1. /\ eHand.at = "none" /\ eQueue # <<>> /\ eQueue' = Tail(eQueue)
        /\ eCount'.accepted = eCount.accepted /\ UNCHANGED <<eRing, eSpans>>
    BY <1>4 DEF TakesHead
  <2>2. /\ DOMAIN eQueue' = 1 .. Len(eQueue) - 1 /\ DOMAIN eQueue = 1 .. Len(eQueue) /\ Len(eQueue) \in Nat \ {0}
        /\ \A i \in 1 .. Len(eQueue) - 1 : i + 1 \in 1 .. Len(eQueue) /\ eQueue'[i] = eQueue[i + 1]
        /\ 1 \in DOMAIN eQueue /\ Head(eQueue) = eQueue[1]
    BY <1>t, <2>1, TailElements
  <2>3. \A i \in DOMAIN eQueue : i = 1 \/ (i - 1 \in DOMAIN eQueue' /\ eQueue'[i - 1] = eQueue[i])
    BY <2>2
  <2>4. \A n : (\E i \in DOMAIN eQueue : eQueue[i].id = n)
                  <=> n = eQueue[1].id \/ \E i \in DOMAIN eQueue' : eQueue'[i].id = n
    BY <2>2, <2>3
  <2>5. eQueue[1].id \in 1 .. eCount.accepted
    BY <1>f, <1>o, <2>2
  <2>6. eHand.id = 0
    BY <1>o, <2>1
  <2>7. CASE eHand'.id = eQueue[1].id /\ UNCHANGED eGone
    <3>1. ASSUME NEW n \in 1 .. eCount.accepted PROVE Kept(n)' <=> Kept(n)
      <4>1. eHand.id # n
        BY <1>f, <2>6
      <4>2. (\E i \in DOMAIN eQueue : eQueue[i].id = n)
               <=> n = eQueue[1].id \/ \E i \in DOMAIN eQueue' : eQueue'[i].id = n
        BY <2>4
      <4> QED
        BY <2>1, <2>7, <4>1, <4>2 DEF Kept
    <3> QED
      BY <1>g, <2>1, <2>7, <3>1
  <2>8. CASE eGone' = eGone \cup {eQueue[1].id} /\ UNCHANGED eHand
    <3>1. /\ \A i \in DOMAIN eQueue' : eQueue'[i].id # eQueue[1].id
          /\ \A i \in DOMAIN eRing : eRing[i].id # eQueue[1].id
          /\ \A i \in DOMAIN eSpans : eSpans[i].id # eQueue[1].id
      <4>1. \A i \in DOMAIN eQueue' : eQueue[1].id < eQueue'[i].id
        BY <1>t, <2>1, <2>2, RisingTail DEF AgentInv, EventsInOrder
      <4>2. \A i \in DOMAIN eQueue' : eQueue'[i].id \in Nat
        BY <1>f, <2>2
      <4>3. \A i \in DOMAIN eQueue' : eQueue'[i].id # eQueue[1].id
        BY <2>5, <4>1, <4>2
      <4>4. \A i \in DOMAIN eRing : eRing[i].id # eQueue[1].id
        BY <1>f, <1>p, <2>2
      <4>5. \A i \in DOMAIN eSpans : eSpans[i].id # eQueue[1].id
        BY <1>f, <1>p, <2>2
      <4> QED
        BY <4>3, <4>4, <4>5
    <3>2. ASSUME NEW n \in 1 .. eCount.accepted PROVE Kept(n)' <=> Kept(n) /\ n # eQueue[1].id
      <4>1. eHand.id # n
        BY <1>f, <2>6
      <4>2. (\E i \in DOMAIN eQueue : eQueue[i].id = n)
               <=> n = eQueue[1].id \/ \E i \in DOMAIN eQueue' : eQueue'[i].id = n
        BY <2>4
      <4> QED
        BY <2>1, <2>8, <3>1, <4>1, <4>2 DEF Kept
    <3> QED
      BY <1>g, <2>1, <2>5, <2>8, <3>2
  <2> QED
    BY <1>4, <2>2, <2>7, <2>8 DEF TakesHead
<1>5. CASE Exports
  <2> PICK e \in Exported : e.id = eHand.id /\ eSpans' = Append(eSpans, e)
    BY <1>5 DEF Exports
  <2>1. /\ eHand.at # "none" /\ eHand' = EmptyHand /\ UNCHANGED <<eRing, eQueue, eGone>>
        /\ eCount'.accepted = eCount.accepted
    BY <1>5 DEF Exports
  <2>2. /\ DOMAIN eSpans' = 1 .. Len(eSpans) + 1 /\ DOMAIN eSpans = 1 .. Len(eSpans) /\ Len(eSpans) \in Nat
        /\ \A i \in 1 .. Len(eSpans) : eSpans'[i] = eSpans[i]
        /\ eSpans'[Len(eSpans) + 1] = e
    BY <1>t
  <2>3. \A n : (\E i \in DOMAIN eSpans' : eSpans'[i].id = n)
                  <=> n = eHand.id \/ \E i \in DOMAIN eSpans : eSpans[i].id = n
    BY <2>2
  <2>4. eHand'.id = 0
    BY <2>1 DEF EmptyHand
  <2>5. \A n \in 1 .. eCount.accepted : Kept(n)' <=> Kept(n)
    BY <2>1, <2>3, <2>4 DEF Kept
  <2>6. \A i \in DOMAIN eSpans' : i \in DOMAIN eSpans \/ eSpans'[i] = e
    BY <2>2
  <2>7. eHand.id \in 1 .. eCount.accepted
    BY <1>f, <1>o, <2>1
  <2> QED
    BY <1>g, <2>1, <2>2, <2>5, <2>6, <2>7
<1>6. CASE MovesNothing
  <2>1. \A n : Kept(n)' <=> Kept(n)
    BY <1>6 DEF Kept, MovesNothing
  <2> QED
    BY <1>g, <1>6, <2>1 DEF MovesNothing
<1> QED
  BY <1>1, <1>2, <1>3, <1>4, <1>5, <1>6 DEF EventMoves

LEMMA AgentInitInv == EInit => AgentInv
<1> SUFFICES ASSUME EInit PROVE AgentInv
  OBVIOUS
<1>1. /\ eRing = <<>> /\ eQueue = <<>> /\ eReader = "off" /\ eHand = EmptyHand /\ eSpans = <<>> /\ eGone = {}
      /\ eProbe = [state |-> "Detached", attached |-> FALSE, stopping |-> FALSE]
      /\ eStub = [state |-> "Detached", events |-> <<>>]
      /\ eOwner = [p \in Pids |-> 1] /\ eCache = [p \in Pids |-> NoEntry]
      /\ eCount = [kernel |-> 0, accepted |-> 0, processes |-> 1, invoked |-> 0, drained |-> 0]
      /\ eStale = {}
  BY DEF EInit
<1>2. EmptyHand \in Hands /\ EmptyHand.id = 0 /\ EmptyHand.at = "none"
  BY DEF EmptyHand, Hands, NoProcess
<1>3. eStub \in [state : ProbeStates, events : Seq(Nat)] /\ eProbe \in [state : ProbeStates, attached : BOOLEAN, stopping : BOOLEAN]
  BY <1>1 DEF ProbeStates
<1>4. eCount \in [kernel : Nat, accepted : Nat, processes : Nat, invoked : Nat, drained : Nat]
  BY <1>1
<1>5. eOwner \in [Pids -> Nat] /\ eCache \in [Pids -> Entries]
  BY <1>1 DEF NoEntry, NoProcess, Entries
<1>6. eRing \in Seq(RingEvents) /\ eQueue \in Seq(RingEvents) /\ eSpans \in Seq(Exported)
  BY <1>1
<1>7. AgentTypes
  BY <1>1, <1>2, <1>3, <1>4, <1>5, <1>6 DEF AgentTypes
<1>8. EventsInOrder
  BY <1>1, <1>2 DEF EventsInOrder, Rising, Precede
<1>9. EventsFound
  <2>1. eCount.accepted = 0 /\ Len(eStub.events) + eCount.drained = eCount.invoked
    BY <1>1
  <2> QED
    BY <1>1, <2>1 DEF EventsFound
<1>10. EnrichedRight /\ LookedUpRight
  BY <1>1, <1>2 DEF EnrichedRight, LookedUpRight
<1> QED
  BY <1>7, <1>8, <1>9, <1>10 DEF AgentInv

LEMMA AgentTypesStep == AgentInv /\ [ENext]_eVars => AgentTypes'
<1> SUFFICES ASSUME AgentInv, [ENext]_eVars PROVE AgentTypes'
  OBVIOUS
<1>r. eRing \in Seq(RingEvents) /\ eQueue \in Seq(RingEvents) /\ eSpans \in Seq(Exported)
  BY DEF AgentInv, AgentTypes
<1>p. eProbe \in [state : ProbeStates, attached : BOOLEAN, stopping : BOOLEAN]
  BY DEF AgentInv, AgentTypes
<1>s. eStub \in [state : ProbeStates, events : Seq(Nat)]
  BY DEF AgentInv, AgentTypes
<1>o. eOwner \in [Pids -> Nat] /\ eCache \in [Pids -> Entries]
  BY DEF AgentInv, AgentTypes
<1>d. eHand \in Hands
  BY DEF AgentInv, AgentTypes
<1>c. eCount \in [kernel : Nat, accepted : Nat, processes : Nat, invoked : Nat, drained : Nat]
  BY DEF AgentInv, AgentTypes
<1>g. eGone \in SUBSET Nat /\ eStale \in SUBSET Pids /\ eReader \in {"off", "stopCheck", "reading"}
  BY DEF AgentInv, AgentTypes
<1>h. EmptyHand \in Hands /\ NoEntry \in Entries
  BY DEF EmptyHand, Hands, NoProcess, NoEntry, Entries
<1>i. IdsOf(eRing) \in SUBSET Nat /\ IdsOf(eQueue) \in SUBSET Nat
  BY AgentFields DEF AgentInv, IdsOf
<1>x. ASSUME NEW entry \in Entries
      PROVE  [id |-> eHand.id, pid |-> eHand.pid, container |-> entry.container, pod |-> entry.pod] \in Exported
  BY <1>d DEF Exported, Hands, Entries
<1>1. ASSUME KernelEvent PROVE AgentTypes'
  <2> PICK t \in EventTypes, p \in Pids :
         LET room == Len(eRing) < RingCap
         IN /\ eRing' = IF room THEN Append(eRing, [id |-> eCount.accepted + 1, type |-> t, pid |-> p]) ELSE eRing
            /\ eCount' = [eCount EXCEPT !.kernel = @ + 1, !.accepted = IF room THEN @ + 1 ELSE @]
    BY <1>1 DEF KernelEvent
  <2>1. [id |-> eCount.accepted + 1, type |-> t, pid |-> p] \in RingEvents
    BY <1>c DEF RingEvents
  <2>2. eRing' \in Seq(RingEvents)
    BY <1>r, <2>1
  <2>3. eCount' \in [kernel : Nat, accepted : Nat, processes : Nat, invoked : Nat, drained : Nat]
    <3> DEFINE seen == [eCount EXCEPT !.kernel = @ + 1]
               room == Len(eRing) < RingCap
    <3>1. seen \in [kernel : Nat, accepted : Nat, processes : Nat, invoked : Nat, drained : Nat]
      BY <1>c
    <3>2. eCount' = [seen EXCEPT !.accepted = IF room THEN @ + 1 ELSE @]
      OBVIOUS
    <3> HIDE DEF seen, room
    <3> QED
      BY <3>1, <3>2
  <2> QED
    BY <1>1, <1>r, <1>p, <1>s, <1>o, <1>d, <1>c, <1>g, <2>2, <2>3
    DEF AgentTypes, KernelEvent
<1>2. ASSUME ReusePid PROVE AgentTypes'
  <2> PICK p \in Pids : eOwner' = [eOwner EXCEPT ![p] = eCount.processes + 1] /\ eStale' = eStale \cup {p}
    BY <1>2 DEF ReusePid
  <2>1. eCount' = [eCount EXCEPT !.processes = @ + 1]
    BY <1>2 DEF ReusePid
  <2>2. eCount' \in [kernel : Nat, accepted : Nat, processes : Nat, invoked : Nat, drained : Nat]
    BY <1>c, <2>1
  <2>3. eOwner' \in [Pids -> Nat] /\ eStale' \in SUBSET Pids
    BY <1>o, <1>c, <1>g
  <2> QED
    BY <1>2, <1>r, <1>p, <1>s, <1>o, <1>d, <1>c, <1>g, <2>2, <2>3 DEF AgentTypes, ReusePid
<1>3. ASSUME CheckStop \/ ReadNext PROVE AgentTypes'
  <2>1. eRing # <<>> => /\ Tail(eRing) \in Seq(RingEvents)
                        /\ Append(eQueue, Head(eRing)) \in Seq(RingEvents)
    BY <1>r
  <2>2. eReader' \in {"off", "stopCheck", "reading"} /\ eRing' \in Seq(RingEvents) /\ eQueue' \in Seq(RingEvents)
    BY <1>3, <1>r, <1>g, <2>1 DEF CheckStop, ReadNext
  <2> QED
    BY <1>3, <1>r, <1>p, <1>s, <1>o, <1>d, <1>c, <1>g, <2>2 DEF AgentTypes, CheckStop, ReadNext
<1>4. ASSUME AttachAll PROVE AgentTypes'
  <2>1. \/ UNCHANGED <<eProbe, eRing, eQueue, eReader, eGone>>
        \/ /\ eProbe' = [state |-> "Attached", attached |-> TRUE, stopping |-> FALSE]
           /\ eRing' = <<>> /\ eQueue' = <<>> /\ eReader' = "stopCheck"
           /\ eGone' = eGone \cup IdsOf(eRing) \cup IdsOf(eQueue)
    BY <1>4 DEF AttachAll, AttachKernelProbe
  <2>2. eStub' = eStub \/ eStub' = [eStub EXCEPT !.state = "Attached"]
    BY <1>4 DEF AttachAll, SetStub
  <2>3. eStub' \in [state : ProbeStates, events : Seq(Nat)]
    BY <1>s, <2>2 DEF ProbeStates
  <2>4. [state |-> "Attached", attached |-> TRUE, stopping |-> FALSE] \in [state : ProbeStates, attached : BOOLEAN, stopping : BOOLEAN]
    BY DEF ProbeStates
  <2>5. /\ eProbe' \in [state : ProbeStates, attached : BOOLEAN, stopping : BOOLEAN]
        /\ eReader' \in {"off", "stopCheck", "reading"}
    BY <1>p, <1>g, <2>1, <2>4
  <2>6. eRing' \in Seq(RingEvents) /\ eQueue' \in Seq(RingEvents)
    <3>1. <<>> \in Seq(RingEvents)
      OBVIOUS
    <3> QED
      BY <1>r, <2>1, <3>1
  <2>7. eGone' \in SUBSET Nat
    BY <1>g, <1>i, <2>1
  <2> QED
    BY <1>4, <1>r, <1>p, <1>s, <1>o, <1>d, <1>c, <1>g, <2>3, <2>5, <2>6, <2>7
    DEF AgentTypes, AttachAll
<1>5. ASSUME StartDetach \/ EndDetach PROVE AgentTypes'
  <2>1. eProbe' \in [state : ProbeStates, attached : BOOLEAN, stopping : BOOLEAN]
    <3>1. [state |-> "Detached", attached |-> FALSE, stopping |-> FALSE] \in [state : ProbeStates, attached : BOOLEAN, stopping : BOOLEAN]
      BY DEF ProbeStates
    <3>2. [eProbe EXCEPT !.stopping = TRUE] \in [state : ProbeStates, attached : BOOLEAN, stopping : BOOLEAN]
      BY <1>p
    <3> QED
      BY <1>5, <3>1, <3>2 DEF StartDetach, EndDetach
  <2>2. eRing' \in Seq(RingEvents) /\ eQueue' \in Seq(RingEvents)
    <3>1. <<>> \in Seq(RingEvents)
      OBVIOUS
    <3> QED
      BY <1>5, <1>r, <3>1 DEF StartDetach, EndDetach
  <2>3. eGone' \in SUBSET Nat
    BY <1>5, <1>g, <1>i DEF StartDetach, EndDetach
  <2> QED
    BY <1>5, <1>r, <1>p, <1>s, <1>o, <1>d, <1>c, <1>g, <2>1, <2>2, <2>3
    DEF AgentTypes, StartDetach, EndDetach
<1>6. ASSUME PauseOrResume PROVE AgentTypes'
  <2> PICK s \in {"Paused", "Attached"} :
         eProbe' = [eProbe EXCEPT !.state = s] /\ eStub' = [eStub EXCEPT !.state = s]
    BY <1>6 DEF PauseOrResume, SetStub
  <2>1. eProbe' \in [state : ProbeStates, attached : BOOLEAN, stopping : BOOLEAN]
    BY <1>p DEF ProbeStates
  <2>2. eStub' \in [state : ProbeStates, events : Seq(Nat)]
    BY <1>s DEF ProbeStates
  <2> QED
    BY <1>6, <1>r, <1>p, <1>s, <1>o, <1>d, <1>c, <1>g, <2>1, <2>2 DEF AgentTypes, PauseOrResume
<1>7. ASSUME DetachStub PROVE AgentTypes'
  <2>1. eStub' \in [state : ProbeStates, events : Seq(Nat)]
    BY <1>7, <1>s DEF ProbeStates, DetachStub, SetStub
  <2> QED
    BY <1>7, <1>r, <1>p, <1>s, <1>o, <1>d, <1>c, <1>g, <2>1 DEF AgentTypes, DetachStub
<1>8. ASSUME RecordInvocation PROVE AgentTypes'
  <2>1. Append(eStub.events, eCount.invoked + 1) \in Seq(Nat)
    <3>1. eCount.invoked + 1 \in Nat /\ eStub.events \in Seq(Nat)
      BY <1>s, <1>c
    <3> QED
      BY <3>1
  <2>2. eStub' = [eStub EXCEPT !.events = Append(@, eCount.invoked + 1)] /\ eCount' = [eCount EXCEPT !.invoked = @ + 1]
    BY <1>8 DEF RecordInvocation
  <2>3. eStub' \in [state : ProbeStates, events : Seq(Nat)]
    BY <1>s, <2>1, <2>2
  <2>4. eCount' \in [kernel : Nat, accepted : Nat, processes : Nat, invoked : Nat, drained : Nat]
    BY <1>c, <2>2
  <2> QED
    BY <1>8, <1>r, <1>p, <1>s, <1>o, <1>d, <1>c, <1>g, <2>3, <2>4 DEF AgentTypes, RecordInvocation
<1>9. ASSUME DrainInvocations PROVE AgentTypes'
  <2>1. Len(eStub.events) \in Nat
    BY <1>s
  <2>2. eCount' = [eCount EXCEPT !.drained = @ + Len(eStub.events)] /\ eStub' = [eStub EXCEPT !.events = <<>>]
    BY <1>9 DEF DrainInvocations
  <2>3. eStub' \in [state : ProbeStates, events : Seq(Nat)]
    <3>1. <<>> \in Seq(Nat)
      OBVIOUS
    <3> QED
      BY <1>s, <2>2, <3>1
  <2>4. eCount' \in [kernel : Nat, accepted : Nat, processes : Nat, invoked : Nat, drained : Nat]
    BY <1>c, <2>1, <2>2
  <2> QED
    BY <1>9, <1>r, <1>p, <1>s, <1>o, <1>d, <1>c, <1>g, <2>3, <2>4 DEF AgentTypes, DrainInvocations
<1>10. ASSUME PollEvent PROVE AgentTypes'
  <2>1. eQueue # <<>> /\ eQueue' = Tail(eQueue)
    BY <1>10 DEF PollEvent
  <2>2. Head(eQueue) \in RingEvents /\ eQueue' \in Seq(RingEvents)
    BY <1>r, <2>1
  <2>3. Head(eQueue).id \in Nat /\ Head(eQueue).pid \in Pids
    BY <2>2 DEF RingEvents
  <2>4. [EmptyHand EXCEPT !.id = Head(eQueue).id, !.pid = Head(eQueue).pid, !.at = "taken"] \in Hands
    BY <1>h, <2>3 DEF Hands
  <2>5. eHand' \in Hands /\ eGone' \in SUBSET Nat
    BY <1>10, <1>d, <1>g, <2>3, <2>4 DEF PollEvent
  <2> QED
    BY <1>10, <1>r, <1>p, <1>s, <1>o, <1>d, <1>c, <1>g, <2>2, <2>5 DEF AgentTypes, PollEvent
<1>11. ASSUME EnrichFromCache PROVE AgentTypes'
  <2>1. eHand.at = "taken"
    BY <1>11 DEF EnrichFromCache
  <2>2. eHand.pid \in Pids
    BY <2>1 DEF AgentInv, EventsInOrder
  <2>3. eCache[eHand.pid] \in Entries
    BY <1>o, <2>2
  <2>4. eHand' \in Hands /\ eSpans' \in Seq(Exported)
    BY <1>11, <1>r, <1>h, <1>x, <2>3 DEF EnrichFromCache, Export
  <2> QED
    BY <1>11, <1>r, <1>p, <1>s, <1>o, <1>d, <1>c, <1>g, <2>4 DEF AgentTypes, EnrichFromCache
<1>12. ASSUME ExtractContainerId PROVE AgentTypes'
  <2>1. eHand.at = "taken"
    BY <1>12 DEF ExtractContainerId
  <2>2. eHand.pid \in Pids
    BY <2>1 DEF AgentInv, EventsInOrder
  <2>3. [eHand EXCEPT !.at = "container", !.container = eOwner[eHand.pid]] \in Hands
    BY <1>d, <1>o, <2>2 DEF Hands
  <2>4. CASE Export(NoEntry) /\ UNCHANGED eStale
    <3>1. eHand' \in Hands /\ eSpans' \in Seq(Exported)
      BY <1>r, <1>h, <1>x, <2>4 DEF Export
    <3> QED
      BY <1>12, <2>4, <3>1, <1>r, <1>p, <1>s, <1>o, <1>d, <1>c, <1>g DEF AgentTypes, ExtractContainerId
  <2>5. CASE /\ eHand' = [eHand EXCEPT !.at = "container", !.container = eOwner[eHand.pid]]
             /\ eStale' = eStale \ {eHand.pid} /\ UNCHANGED eSpans
    <3>1. eStale' \in SUBSET Pids
      BY <1>g, <2>5
    <3> QED
      BY <1>12, <2>3, <2>5, <3>1, <1>r, <1>p, <1>s, <1>o, <1>d, <1>c, <1>g DEF AgentTypes, ExtractContainerId
  <2> QED
    BY <1>12, <2>4, <2>5 DEF ExtractContainerId
<1>13. ASSUME BuildEnrichment PROVE AgentTypes'
  <2>0. PICK pod \in {eOwner[eHand.pid], NoProcess} :
          LET entry == [container |-> eHand.container, pod |-> pod]
          IN eCache' = [eCache EXCEPT ![eHand.pid] = entry] /\ Export(entry)
    BY <1>13 DEF BuildEnrichment
  <2> DEFINE entry == [container |-> eHand.container, pod |-> pod]
  <2>1. eHand.at = "container"
    BY <1>13 DEF BuildEnrichment
  <2>2. eHand.pid \in Pids
    BY <2>1 DEF AgentInv, EventsInOrder
  <2>3. entry \in Entries
    BY <1>d, <1>o, <2>2 DEF Entries, Hands, NoProcess
  <2>4. eCache' = [eCache EXCEPT ![eHand.pid] = entry] /\ Export(entry)
    BY <2>0
  <2> HIDE DEF entry
  <2>5. eHand' \in Hands /\ eSpans' \in Seq(Exported)
    BY <1>r, <1>h, <1>x, <2>3, <2>4 DEF Export
  <2>6. eCache' \in [Pids -> Entries]
    BY <1>o, <2>3, <2>4
  <2> QED
    BY <1>13, <1>r, <1>p, <1>s, <1>o, <1>d, <1>c, <1>g, <2>5, <2>6
    DEF AgentTypes, BuildEnrichment
<1>14. ASSUME Invalidate PROVE AgentTypes'
  <2> PICK p \in Pids : eCache' = [eCache EXCEPT ![p] = NoEntry]
    BY <1>14 DEF Invalidate
  <2>1. eCache' \in [Pids -> Entries]
    BY <1>o, <1>h
  <2> QED
    BY <1>14, <1>r, <1>p, <1>s, <1>o, <1>d, <1>c, <1>g, <2>1 DEF AgentTypes, Invalidate
<1>15. ASSUME UNCHANGED eVars PROVE AgentTypes'
  BY <1>15, <1>r, <1>p, <1>s, <1>o, <1>d, <1>c, <1>g DEF eVars, AgentTypes
<1> QED
  BY <1>1, <1>2, <1>3, <1>4, <1>5, <1>6, <1>7, <1>8, <1>9, <1>10, <1>11, <1>12, <1>13, <1>14, <1>15 DEF ENext

\* Every step moves the events in one of these ways.
LEMMA EventMovesStep == AgentInv /\ [ENext]_eVars => EventMoves
<1> SUFFICES ASSUME AgentInv, [ENext]_eVars PROVE EventMoves
  OBVIOUS
<1>t. /\ eRing \in Seq(RingEvents) /\ eQueue \in Seq(RingEvents) /\ eHand \in Hands
      /\ eCount \in [kernel : Nat, accepted : Nat, processes : Nat, invoked : Nat, drained : Nat]
      /\ eOwner \in [Pids -> Nat] /\ eCache \in [Pids -> Entries]
      /\ eHand.at # "none" => eHand.pid \in Pids
  BY DEF AgentInv, AgentTypes, EventsInOrder
<1>x. ASSUME NEW entry \in Entries
      PROVE  [id |-> eHand.id, pid |-> eHand.pid, container |-> entry.container, pod |-> entry.pod] \in Exported
  BY <1>t DEF Exported, Hands, Entries
<1>y. ASSUME NEW entry \in Entries, Export(entry), eHand.at # "none",
             eCount'.accepted = eCount.accepted, UNCHANGED <<eRing, eQueue, eGone>>
      PROVE  EventMoves
  BY <1>x, <1>y DEF Export, Exports, EventMoves
<1>1. ASSUME KernelEvent PROVE EventMoves
  <2> PICK t \in EventTypes, p \in Pids :
         LET room == Len(eRing) < RingCap
         IN /\ eRing' = IF room THEN Append(eRing, [id |-> eCount.accepted + 1, type |-> t, pid |-> p]) ELSE eRing
            /\ eCount' = [eCount EXCEPT !.kernel = @ + 1, !.accepted = IF room THEN @ + 1 ELSE @]
    BY <1>1 DEF KernelEvent
  <2>1. UNCHANGED <<eQueue, eHand, eSpans, eGone>>
    BY <1>1 DEF KernelEvent
  <2>2. CASE Len(eRing) < RingCap
    <3>1. [id |-> eCount.accepted + 1, type |-> t, pid |-> p] \in RingEvents
      BY <1>t DEF RingEvents
    <3>2. eCount'.accepted = eCount.accepted + 1
      BY <1>t, <2>2
    <3> QED
      BY <2>1, <2>2, <3>1, <3>2 DEF EventMoves, Accepts
  <2>3. CASE ~(Len(eRing) < RingCap)
    <3>1. eRing' = eRing /\ eCount'.accepted = eCount.accepted
      BY <1>t, <2>3
    <3> QED
      BY <2>1, <3>1 DEF EventMoves, MovesNothing
  <2> QED
    BY <2>2, <2>3
<1>2. ASSUME \/ ReusePid \/ RecordInvocation \/ DrainInvocations
      PROVE  EventMoves
  <2>1. eCount'.accepted = eCount.accepted
    BY <1>2, <1>t DEF ReusePid, RecordInvocation, DrainInvocations
  <2> QED
    BY <1>2, <2>1 DEF EventMoves, MovesNothing, ReusePid, RecordInvocation, DrainInvocations
<1>3. ASSUME CheckStop \/ ReadNext PROVE EventMoves
  BY <1>3 DEF CheckStop, ReadNext, EventMoves, MovesUp, MovesNothing
<1>4. ASSUME AttachAll PROVE EventMoves
  <2>1. \/ UNCHANGED <<eProbe, eRing, eQueue, eReader, eGone>>
        \/ eRing' = <<>> /\ eQueue' = <<>> /\ eGone' = eGone \cup IdsOf(eRing) \cup IdsOf(eQueue)
    BY <1>4 DEF AttachAll, AttachKernelProbe
  <2>2. UNCHANGED <<eHand, eSpans, eCount>>
    BY <1>4 DEF AttachAll
  <2> QED
    BY <2>1, <2>2 DEF EventMoves, Clears, MovesNothing
<1>5. ASSUME StartDetach \/ EndDetach PROVE EventMoves
  BY <1>5 DEF StartDetach, EndDetach, EventMoves, Clears, MovesNothing
<1>6. ASSUME PauseOrResume \/ DetachStub \/ Invalidate PROVE EventMoves
  BY <1>6 DEF PauseOrResume, DetachStub, Invalidate, EventMoves, MovesNothing
<1>7. ASSUME PollEvent PROVE EventMoves
  <2>1. /\ eHand.at = "none" /\ eQueue # <<>> /\ eQueue' = Tail(eQueue)
        /\ UNCHANGED <<eRing, eSpans, eCount>>
    BY <1>7 DEF PollEvent
  <2>2. LET h == [EmptyHand EXCEPT !.id = Head(eQueue).id, !.pid = Head(eQueue).pid, !.at = "taken"]
        IN  h.id = Head(eQueue).id /\ h.pid = Head(eQueue).pid /\ h.at = "taken"
    BY DEF EmptyHand
  <2>3. \/ /\ eHand'.id = Head(eQueue).id /\ eHand'.pid = Head(eQueue).pid /\ eHand'.at = "taken"
           /\ UNCHANGED eGone
        \/ eGone' = eGone \cup {Head(eQueue).id} /\ UNCHANGED eHand
    BY <1>7, <2>2 DEF PollEvent
  <2> QED
    BY <2>1, <2>3 DEF EventMoves, TakesHead
<1>8. ASSUME EnrichFromCache PROVE EventMoves
  <2>1. eHand.at = "taken" /\ Export(eCache[eHand.pid]) /\ UNCHANGED <<eRing, eQueue, eGone, eCount>>
    BY <1>8 DEF EnrichFromCache
  <2>2. eCache[eHand.pid] \in Entries
    BY <1>t, <2>1
  <2> QED
    BY <1>y, <2>1, <2>2
<1>9. ASSUME ExtractContainerId PROVE EventMoves
  <2>1. eHand.at = "taken" /\ UNCHANGED <<eRing, eQueue, eGone, eCount>>
    BY <1>9 DEF ExtractContainerId
  <2>2. NoEntry \in Entries
    BY DEF NoEntry, NoProcess, Entries
  <2>3. CASE Export(NoEntry)
    BY <1>y, <2>1, <2>2, <2>3
  <2>4. CASE eHand' = [eHand EXCEPT !.at = "container", !.container = eOwner[eHand.pid]] /\ UNCHANGED eSpans
    <3>1. eHand'.id = eHand.id /\ eHand'.pid = eHand.pid /\ eHand'.at = "container"
      BY <1>t, <2>4 DEF Hands
    <3> QED
      BY <2>1, <2>4, <3>1 DEF EventMoves, MovesNothing
  <2> QED
    BY <1>9, <2>3, <2>4 DEF ExtractContainerId
<1>10. ASSUME BuildEnrichment PROVE EventMoves
  <2>0. PICK pod \in {eOwner[eHand.pid], NoProcess} :
          LET entry == [container |-> eHand.container, pod |-> pod]
          IN eCache' = [eCache EXCEPT ![eHand.pid] = entry] /\ Export(entry)
    BY <1>10 DEF BuildEnrichment
  <2> DEFINE entry == [container |-> eHand.container, pod |-> pod]
  <2>1. eHand.at = "container" /\ Export(entry) /\ UNCHANGED <<eRing, eQueue, eGone, eCount>>
    BY <1>10, <2>0 DEF BuildEnrichment
  <2>2. entry \in Entries
    BY <1>t, <2>1 DEF Entries, Hands, NoProcess
  <2> HIDE DEF entry
  <2> QED
    BY <1>y, <2>1, <2>2
<1>11. ASSUME UNCHANGED eVars PROVE EventMoves
  BY <1>11 DEF eVars, EventMoves, MovesNothing
<1> QED
  BY <1>1, <1>2, <1>3, <1>4, <1>5, <1>6, <1>7, <1>8, <1>9, <1>10, <1>11 DEF ENext

\* Invocations are counted when they are recorded and when they are drained.
LEMMA InvocationsStep ==
    AgentInv /\ [ENext]_eVars => Len(eStub'.events) + eCount'.drained = eCount'.invoked
<1> SUFFICES ASSUME AgentInv, [ENext]_eVars
             PROVE  Len(eStub'.events) + eCount'.drained = eCount'.invoked
  OBVIOUS
<1>c. eCount \in [kernel : Nat, accepted : Nat, processes : Nat, invoked : Nat, drained : Nat]
  BY DEF AgentInv, AgentTypes
<1>s. eStub \in [state : ProbeStates, events : Seq(Nat)]
  BY DEF AgentInv, AgentTypes
<1>g. Len(eStub.events) + eCount.drained = eCount.invoked
  BY DEF AgentInv, EventsFound
<1>n. Len(eStub.events) \in Nat /\ eStub.events \in Seq(Nat) /\ eCount.drained \in Nat /\ eCount.invoked \in Nat
  BY <1>s, <1>c
<1>1. ASSUME RecordInvocation
      PROVE  Len(eStub'.events) + eCount'.drained = eCount'.invoked
  <2>1. eStub'.events = Append(eStub.events, eCount.invoked + 1)
    BY <1>1, <1>s DEF RecordInvocation
  <2>2. eCount'.invoked = eCount.invoked + 1 /\ eCount'.drained = eCount.drained
    BY <1>1, <1>c DEF RecordInvocation
  <2>3. Len(eStub'.events) = Len(eStub.events) + 1
    BY <1>n, <2>1
  <2> QED
    BY <1>g, <1>n, <2>2, <2>3
<1>2. ASSUME DrainInvocations
      PROVE  Len(eStub'.events) + eCount'.drained = eCount'.invoked
  <2>1. eStub'.events = <<>>
    BY <1>2, <1>s DEF DrainInvocations
  <2>2. eCount'.invoked = eCount.invoked /\ eCount'.drained = eCount.drained + Len(eStub.events)
    BY <1>2, <1>c DEF DrainInvocations
  <2> QED
    BY <1>g, <1>n, <2>1, <2>2
<1>3. ASSUME UNCHANGED <<eStub, eCount>>
      PROVE  Len(eStub'.events) + eCount'.drained = eCount'.invoked
  BY <1>3, <1>g
<1>4. ASSUME AttachAll \/ PauseOrResume \/ DetachStub
      PROVE  Len(eStub'.events) + eCount'.drained = eCount'.invoked
  <2>1. eCount' = eCount
    BY <1>4 DEF AttachAll, PauseOrResume, DetachStub
  <2>2. eStub' = eStub \/ \E state \in ProbeStates : eStub' = [eStub EXCEPT !.state = state]
    BY <1>4 DEF AttachAll, PauseOrResume, DetachStub, SetStub, ProbeStates
  <2>3. eStub'.events = eStub.events
    BY <1>s, <2>2
  <2> QED
    BY <1>g, <2>1, <2>3
<1>5. ASSUME KernelEvent \/ ReusePid
      PROVE  Len(eStub'.events) + eCount'.drained = eCount'.invoked
  <2>1. eCount'.drained = eCount.drained /\ eCount'.invoked = eCount.invoked
    BY <1>5, <1>c DEF KernelEvent, ReusePid
  <2>2. eStub' = eStub
    BY <1>5 DEF KernelEvent, ReusePid
  <2> QED
    BY <1>g, <2>1, <2>2
<1> QED
  BY <1>1, <1>2, <1>3, <1>4, <1>5
     DEF ENext, eVars, CheckStop, ReadNext, StartDetach, EndDetach, PollEvent, EnrichFromCache, ExtractContainerId,
         BuildEnrichment, Invalidate

\* What is cached or being looked up stays right until the id changes hands.
LEMMA EnrichStep == AgentInv /\ [ENext]_eVars => EnrichedRight' /\ LookedUpRight'
<1> SUFFICES ASSUME AgentInv, [ENext]_eVars PROVE EnrichedRight' /\ LookedUpRight'
  OBVIOUS
<1>o. eOwner \in [Pids -> Nat] /\ eCache \in [Pids -> Entries] /\ eHand \in Hands
  BY DEF AgentInv, AgentTypes
<1>r. \A p \in Pids \ eStale :
         eCache[p] # NoEntry => eCache[p].container = eOwner[p] /\ eCache[p].pod \in {eOwner[p], NoProcess}
  BY DEF AgentInv, EnrichedRight
<1>l. eHand.at = "container" /\ eHand.pid \notin eStale => eHand.container = eOwner[eHand.pid]
  BY DEF AgentInv, LookedUpRight
<1>p. eHand.at # "none" => eHand.pid \in Pids
  BY DEF AgentInv, EventsInOrder
<1>e. EmptyHand.at = "none"
  BY DEF EmptyHand
<1>1. ASSUME ReusePid PROVE EnrichedRight' /\ LookedUpRight'
  <2> PICK q \in Pids : eOwner' = [eOwner EXCEPT ![q] = eCount.processes + 1] /\ eStale' = eStale \cup {q}
    BY <1>1 DEF ReusePid
  <2>1. \A p \in Pids \ eStale' : p \in Pids \ eStale /\ eOwner'[p] = eOwner[p]
    BY <1>o
  <2>2. UNCHANGED <<eCache, eHand>>
    BY <1>1 DEF ReusePid
  <2>3. EnrichedRight'
    BY <1>r, <2>1, <2>2 DEF EnrichedRight
  <2>4. LookedUpRight'
    BY <1>l, <1>p, <2>1, <2>2 DEF LookedUpRight
  <2> QED
    BY <2>3, <2>4
<1>2. ASSUME PollEvent PROVE EnrichedRight' /\ LookedUpRight'
  <2>1. eHand'.at # "container"
    <3>1. [EmptyHand EXCEPT !.id = Head(eQueue).id, !.pid = Head(eQueue).pid, !.at = "taken"].at = "taken"
      BY DEF EmptyHand
    <3> QED
      BY <1>2, <3>1 DEF PollEvent
  <2>2. UNCHANGED <<eCache, eOwner, eStale>>
    BY <1>2 DEF PollEvent
  <2> QED
    BY <1>r, <2>1, <2>2 DEF EnrichedRight, LookedUpRight
<1>3. ASSUME EnrichFromCache PROVE EnrichedRight' /\ LookedUpRight'
  <2>1. eHand'.at = "none" /\ UNCHANGED <<eCache, eOwner, eStale>>
    BY <1>3, <1>e DEF EnrichFromCache, Export
  <2> QED
    BY <1>r, <2>1 DEF EnrichedRight, LookedUpRight
<1>4. ASSUME ExtractContainerId PROVE EnrichedRight' /\ LookedUpRight'
  <2>1. eHand.at = "taken" /\ eCache[eHand.pid] = NoEntry /\ UNCHANGED <<eCache, eOwner>>
    BY <1>4 DEF ExtractContainerId
  <2>2. CASE eHand' = EmptyHand /\ UNCHANGED eStale
    BY <1>r, <1>e, <2>1, <2>2 DEF EnrichedRight, LookedUpRight
  <2>3. CASE /\ eHand' = [eHand EXCEPT !.at = "container", !.container = eOwner[eHand.pid]]
             /\ eStale' = eStale \ {eHand.pid}
    <3>1. eHand'.pid = eHand.pid /\ eHand'.container = eOwner[eHand.pid]
      BY <1>o, <2>3 DEF Hands
    <3>2. LookedUpRight'
      BY <2>1, <3>1 DEF LookedUpRight
    <3>3. EnrichedRight'
      BY <1>r, <2>1, <2>3 DEF EnrichedRight
    <3> QED
      BY <3>2, <3>3
  <2> QED
    BY <1>4, <2>2, <2>3 DEF ExtractContainerId, Export
<1>5. ASSUME BuildEnrichment PROVE EnrichedRight' /\ LookedUpRight'
  <2>0. PICK pod \in {eOwner[eHand.pid], NoProcess} :
          LET entry == [container |-> eHand.container, pod |-> pod]
          IN eCache' = [eCache EXCEPT ![eHand.pid] = entry] /\ Export(entry)
    BY <1>5 DEF BuildEnrichment
  <2> DEFINE entry == [container |-> eHand.container, pod |-> pod]
  <2>1. /\ eHand.at = "container" /\ eHand' = EmptyHand /\ eCache' = [eCache EXCEPT ![eHand.pid] = entry]
        /\ UNCHANGED <<eOwner, eStale>>
    BY <1>5, <2>0 DEF BuildEnrichment, Export
  <2>2. /\ eHand.pid \notin eStale => entry.container = eOwner[eHand.pid]
        /\ entry.pod \in {eOwner[eHand.pid], NoProcess}
    BY <1>l, <2>1
  <2> HIDE DEF entry
  <2>3. EnrichedRight'
    BY <1>o, <1>r, <1>p, <2>1, <2>2 DEF EnrichedRight
  <2> QED
    BY <1>e, <2>1, <2>3 DEF LookedUpRight
<1>6. ASSUME Invalidate PROVE EnrichedRight' /\ LookedUpRight'
  <2> PICK q \in Pids : eCache' = [eCache EXCEPT ![q] = NoEntry]
    BY <1>6 DEF Invalidate
  <2>1. UNCHANGED <<eOwner, eStale, eHand>>
    BY <1>6 DEF Invalidate
  <2>2. EnrichedRight'
    BY <1>o, <1>r, <2>1 DEF EnrichedRight
  <2> QED
    BY <1>l, <2>1, <2>2 DEF LookedUpRight
<1>7. ASSUME UNCHANGED <<eOwner, eCache, eHand, eStale>> PROVE EnrichedRight' /\ LookedUpRight'
  BY <1>7, <1>r, <1>l DEF EnrichedRight, LookedUpRight
<1> QED
  BY <1>1, <1>2, <1>3, <1>4, <1>5, <1>6, <1>7
     DEF ENext, eVars, KernelEvent, CheckStop, ReadNext, AttachAll, StartDetach, EndDetach, PauseOrResume, DetachStub,
         RecordInvocation, DrainInvocations

LEMMA AgentInvStep == AgentInv /\ [ENext]_eVars => AgentInv'
<1> SUFFICES ASSUME AgentInv, [ENext]_eVars PROVE AgentInv'
  OBVIOUS
<1>1. AgentTypes'
  BY AgentTypesStep
<1>2. EventMoves
  BY EventMovesStep
<1>3. EventsInOrder'
  BY <1>1, <1>2, OrderStep
<1>4. EventsFound'
  BY <1>1, <1>2, <1>3, FoundStep, InvocationsStep DEF EventsFound
<1>5. EnrichedRight' /\ LookedUpRight'
  BY EnrichStep
<1> QED
  BY <1>1, <1>3, <1>4, <1>5 DEF AgentInv

\* The agent exports each event once and in order, loses none but those it
\* filters or detaches from, and its cache is right of every process id that
\* was not used again: for any process ids, types, filter and sizes.
THEOREM AgentAlwaysSound == ESpec => []AgentSound
<1>1. AgentInv => AgentSound
  BY AgentInvSound
<1> QED
  BY <1>1, AgentInitInv, AgentInvStep, PTL DEF ESpec
-----------------------------------------------------------------------------
(* Origin's command line, for every set of services, every number of `up`  *)
(* commands and every number of process ids.                               *)
(*                                                                         *)
(* CleanExit speaks of supervisors that have left.  What keeps it true is  *)
(* what holds before: a supervisor that has not died knows the child that  *)
(* runs each of its services (KidsKept), because it starts a child only    *)
(* where it has none alive, and an id that somebody still waits for is not *)
(* given to another process.                                               *)

\* A supervisor has no child before it starts one.
Unstarted ==
    \A u \in Ups : /\ sup[u] = "off" => kids[u] = NoKids
                   /\ sup[u] = "starting" => \A s \in checks[u] : kids[u][s] = 0

\* A live process is the child its supervisor knows of, unless that has died.
KidsKept ==
    \A u \in Ups, p \in CliPids :
        Alive(p) /\ cliProc[p].by = u => (sup[u] = "dead" \/ \E s \in CliServices : kids[u][s] = p)

\* The state file names a supervisor that has written it and not yet left.
RecordOfLive ==
    \A u \in Ups : record.up = u => sup[u] \notin {"off", "starting", "exited"}

\* What a supervisor that left in order started has ended.
LeftNothing ==
    \A u \in Ups, p \in CliPids : sup[u] = "exited" /\ Alive(p) => cliProc[p].by # u

CInv == CliTypeOK /\ Unstarted /\ KidsKept /\ RecordOfLive /\ LeftNothing

States == {"off", "starting", "written", "select", "tick", "restart", "stopping", "exited", "dead"}
Children == [CliServices -> 0 .. MaxPid]
Slots == [by : 0 .. MaxSups, state : {"free", "running", "frozen", "succeeded", "failed"}]
-----------------------------------------------------------------------------
\* The process ids are numbers from 1 on, and 0 is none of them.
LEMMA PidFacts ==
    /\ CliPids \subseteq 0 .. MaxPid /\ 0 \notin CliPids
    /\ Ups \subseteq 0 .. MaxSups /\ 0 \notin Ups /\ 0 \in 0 .. MaxPid /\ 0 \in 0 .. MaxSups
    /\ ~Alive(0)
  BY ManifestAssumption, CliAssumption DEF CliPids, Ups, Alive

\* Starting a service keeps the types of the children and of the processes, and
\* is a step of one supervisor's child.
LEMMA StartsChild ==
    ASSUME CliTypeOK, NEW u \in Ups, NEW s \in CliServices, Starts(u, s)
    PROVE  /\ kids' \in [Ups -> Children] /\ cliProc' \in [CliPids -> Slots]
           /\ \A v \in Ups, i \in CliServices : v # u \/ i # s => kids'[v][i] = kids[v][i]
           /\ \/ /\ kids'[u][s] \in FreePids
                 /\ cliProc' = [cliProc EXCEPT ![kids'[u][s]] = [by |-> u, state |-> "running"]]
              \/ kids'[u][s] = 0 /\ cliProc' = cliProc
<1> USE DEF CliTypeOK, Children, Slots
<1>1. CASE \E p \in FreePids : /\ kids' = [kids EXCEPT ![u][s] = p]
                               /\ cliProc' = [cliProc EXCEPT ![p] = [by |-> u, state |-> "running"]]
  <2>1. PICK p \in FreePids : /\ kids' = [kids EXCEPT ![u][s] = p]
                              /\ cliProc' = [cliProc EXCEPT ![p] = [by |-> u, state |-> "running"]]
    BY <1>1
  <2>2. p \in CliPids /\ p \in 0 .. MaxPid /\ u \in 0 .. MaxSups
    BY PidFacts DEF FreePids
  <2>3. kids' \in [Ups -> Children] /\ kids'[u][s] = p
    BY <2>1, <2>2
  <2>4. \A v \in Ups, i \in CliServices : v # u \/ i # s => kids'[v][i] = kids[v][i]
    BY <2>1, <2>2
  <2>5. cliProc' \in [CliPids -> Slots]
    BY <2>1, <2>2
  <2> QED
    BY <2>1, <2>3, <2>4, <2>5
<1>2. CASE kids' = [kids EXCEPT ![u][s] = 0] /\ UNCHANGED cliProc
  <2>1. kids' \in [Ups -> Children] /\ kids'[u][s] = 0
    BY <1>2, PidFacts
  <2>2. \A v \in Ups, i \in CliServices : v # u \/ i # s => kids'[v][i] = kids[v][i]
    BY <1>2, PidFacts
  <2> QED
    BY <1>2, <2>1, <2>2
<1> QED
  BY <1>1, <1>2 DEF Starts

\* A step that starts no process and lets no supervisor leave.
LEMMA StepWithoutStart ==
    ASSUME CInv, CliTypeOK',
           \A u \in Ups : kids'[u] = kids[u] \/ sup'[u] = "dead",
           \A p \in CliPids : /\ cliProc'[p].by = cliProc[p].by
                              /\ cliProc'[p].state \in {"running", "frozen"} => Alive(p),
           \A u \in Ups : \/ sup'[u] = sup[u]
                          \/ /\ sup'[u] \notin {"off", "exited"} /\ sup[u] \notin {"dead", "exited"}
                             /\ sup'[u] = "starting" => sup[u] = "off",
           \A u \in Ups : sup[u] = "starting" => checks'[u] \subseteq checks[u],
           record' = record \/ \A u \in Ups : record'.up = u => sup'[u] = "written"
    PROVE  CInv'
<1>1. Unstarted'
  <2> SUFFICES ASSUME NEW u \in Ups
               PROVE  /\ sup'[u] = "off" => kids'[u] = NoKids
                      /\ sup'[u] = "starting" => \A s \in checks'[u] : kids'[u][s] = 0
    BY DEF Unstarted, NoKids, Ups, CliServices
  <2>1. sup'[u] = "off" => kids'[u] = NoKids
    BY DEF CInv, Unstarted
  <2>2. CASE sup'[u] = "starting" /\ sup[u] = "starting"
    BY <2>1, <2>2 DEF CInv, Unstarted
  <2>3. CASE sup'[u] = "starting" /\ sup[u] = "off"
    <3>1. checks'[u] \subseteq CliServices
      BY DEF CliTypeOK, Ups, CliServices
    <3> QED
      BY <2>1, <2>3, <3>1 DEF CInv, Unstarted, NoKids
  <2> QED
    BY <2>1, <2>2, <2>3
<1>2. KidsKept'
  <2> SUFFICES ASSUME NEW u \in Ups, NEW p \in CliPids,
                      cliProc'[p].state \in {"running", "frozen"}, cliProc'[p].by = u
               PROVE  sup'[u] = "dead" \/ \E s \in CliServices : kids'[u][s] = p
    BY DEF KidsKept, Alive, Ups, CliPids, CliServices
  <2> QED
    BY DEF CInv, KidsKept
<1>3. RecordOfLive'
  <2> SUFFICES ASSUME NEW u \in Ups, record'.up = u
               PROVE  sup'[u] \notin {"off", "starting", "exited"}
    BY DEF RecordOfLive, Ups
  <2> QED
    BY DEF CInv, RecordOfLive
<1>4. LeftNothing'
  <2> SUFFICES ASSUME NEW u \in Ups, NEW p \in CliPids,
                      sup'[u] = "exited", cliProc'[p].state \in {"running", "frozen"}
               PROVE  cliProc'[p].by # u
    BY DEF LeftNothing, Alive, Ups, CliPids
  <2> QED
    BY DEF CInv, LeftNothing
<1> QED
  BY <1>1, <1>2, <1>3, <1>4 DEF CInv

\* A supervisor that has not left starts a child where it has none alive.
LEMMA StepWithStart ==
    ASSUME CInv, CliTypeOK', NEW u \in Ups, NEW s \in CliServices,
           sup[u] \notin {"off", "exited", "dead"}, ~Alive(kids[u][s]), Starts(u, s),
           \A v \in Ups : sup'[v] = sup[v] \/ (v = u /\ sup'[v] = "dead"),
           \A v \in Ups : sup[v] = "starting" => checks'[v] \subseteq checks[v],
           s \notin checks'[u], record' = record
    PROVE  CInv'
<1>k. /\ \A v \in Ups, i \in CliServices : v # u \/ i # s => kids'[v][i] = kids[v][i]
      /\ \/ /\ kids'[u][s] \in FreePids
            /\ cliProc' = [cliProc EXCEPT ![kids'[u][s]] = [by |-> u, state |-> "running"]]
         \/ kids'[u][s] = 0 /\ cliProc' = cliProc
  BY StartsChild DEF CInv
<1>t. /\ kids \in [Ups -> Children] /\ kids' \in [Ups -> Children] /\ cliProc \in [CliPids -> Slots]
      /\ \A v \in Ups : checks'[v] \subseteq CliServices
  BY DEF CInv, CliTypeOK, Children, Slots, Ups, CliPids, CliServices
<1>1. Unstarted'
  <2> SUFFICES ASSUME NEW v \in Ups
               PROVE  /\ sup'[v] = "off" => kids'[v] = NoKids
                      /\ sup'[v] = "starting" => \A i \in checks'[v] : kids'[v][i] = 0
    BY DEF Unstarted, NoKids, Ups, CliServices
  <2>1. CASE v = u
    BY <2>1, <1>k, <1>t DEF CInv, Unstarted
  <2>2. CASE v # u
    <3>1. kids'[v] = kids[v]
      BY <2>2, <1>k, <1>t DEF Children
    <3> QED
      BY <2>2, <3>1 DEF CInv, Unstarted
  <2> QED
    BY <2>1, <2>2
<1>2. KidsKept'
  <2> SUFFICES ASSUME NEW v \in Ups, NEW p \in CliPids,
                      cliProc'[p].state \in {"running", "frozen"}, cliProc'[p].by = v
               PROVE  sup'[v] = "dead" \/ \E i \in CliServices : kids'[v][i] = p
    BY DEF KidsKept, Alive, Ups, CliPids, CliServices
  <2>1. CASE p = kids'[u][s]
    BY <2>1, <1>k, <1>t, PidFacts
  <2>2. CASE p # kids'[u][s]
    <3>1. cliProc'[p] = cliProc[p]
      BY <2>2, <1>k, <1>t
    <3>2. Alive(p) /\ cliProc[p].by = v
      BY <3>1 DEF Alive
    <3>3. sup[v] = "dead" \/ \E i \in CliServices : kids[v][i] = p
      BY <3>2 DEF CInv, KidsKept
    <3>4. ~(v = u /\ kids[u][s] = p)
      BY <3>2
    <3> QED
      BY <3>3, <3>4, <1>k
  <2> QED
    BY <2>1, <2>2
<1>3. RecordOfLive'
  <2> SUFFICES ASSUME NEW v \in Ups, record'.up = v
               PROVE  sup'[v] \notin {"off", "starting", "exited"}
    BY DEF RecordOfLive, Ups
  <2> QED
    BY DEF CInv, RecordOfLive
<1>4. LeftNothing'
  <2> SUFFICES ASSUME NEW v \in Ups, NEW p \in CliPids,
                      sup'[v] = "exited", cliProc'[p].state \in {"running", "frozen"}
               PROVE  cliProc'[p].by # v
    BY DEF LeftNothing, Alive, Ups, CliPids
  <2>1. v # u /\ sup[v] = "exited"
    OBVIOUS
  <2>2. CASE p = kids'[u][s]
    BY <2>1, <2>2, <1>k, <1>t, PidFacts
  <2>3. CASE p # kids'[u][s]
    <3>1. cliProc'[p] = cliProc[p]
      BY <2>3, <1>k, <1>t
    <3> QED
      BY <2>1, <3>1 DEF CInv, LeftNothing, Alive
  <2> QED
    BY <2>2, <2>3
<1> QED
  BY <1>1, <1>2, <1>3, <1>4 DEF CInv
-----------------------------------------------------------------------------
\* The types and the invariant hold at the start.
LEMMA CliInitInv == CliInit => CInv
<1> SUFFICES ASSUME CliInit PROVE CInv
  OBVIOUS
<1>1. CliTypeOK
  BY PidFacts DEF CliInit, CliTypeOK, NoKids, NoRecord, FreeSlot
<1>2. \A p \in CliPids : ~Alive(p)
  BY DEF CliInit, Alive, FreeSlot
<1>3. Unstarted /\ RecordOfLive
  BY PidFacts DEF CliInit, Unstarted, RecordOfLive, NoRecord
<1>4. KidsKept /\ LeftNothing
  BY <1>2 DEF KidsKept, LeftNothing
<1> QED
  BY <1>1, <1>3, <1>4 DEF CInv

\* Ending, freezing or thawing a process keeps the types.
LEMMA ProcChange ==
    ASSUME CliTypeOK, NEW p \in CliPids, NEW st \in {"running", "frozen", "succeeded", "failed"},
           cliProc' = [cliProc EXCEPT ![p].state = st]
    PROVE  /\ cliProc' \in [CliPids -> Slots]
           /\ \A q \in CliPids : /\ cliProc'[q].by = cliProc[q].by
                                 /\ cliProc'[q].state = cliProc[q].state \/ (q = p /\ cliProc'[q].state = st)
<1> DEFINE slot == [cliProc[p] EXCEPT !.state = st]
<1>1. cliProc[p] \in Slots /\ cliProc \in [CliPids -> Slots]
  BY DEF CliTypeOK, Slots
<1>2. slot \in Slots /\ slot.by = cliProc[p].by /\ slot.state = st
  BY <1>1 DEF Slots
<1>3. cliProc' = [cliProc EXCEPT ![p] = slot]
  OBVIOUS
<1> HIDE DEF slot
<1>4. cliProc' \in [CliPids -> Slots]
  BY <1>1, <1>2, <1>3
<1>5. cliProc'[p] = slot /\ \A q \in CliPids \ {p} : cliProc'[q] = cliProc[q]
  BY <1>1, <1>3
<1>6. cliProc'[p].by = cliProc[p].by /\ cliProc'[p].state = st
  BY <1>2, <1>5
<1> QED
  BY <1>4, <1>5, <1>6

\* Every step keeps the types.
LEMMA CliTypeStep == CliTypeOK /\ [CliNext]_cliVars => CliTypeOK'
<1> SUFFICES ASSUME CliTypeOK, [CliNext]_cliVars PROVE CliTypeOK'
  OBVIOUS
<1> USE DEF CliTypeOK, Children, Slots
<1>1. ASSUME NEW u \in Ups, CmdUp(u) PROVE CliTypeOK'
  BY <1>1 DEF CmdUp
<1>2. ASSUME NEW u \in Ups, NEW s \in CliServices, UpService(u, s) PROVE CliTypeOK'
  BY <1>2, StartsChild DEF UpService
<1>3. ASSUME NEW u \in Ups, WriteState(u) PROVE CliTypeOK'
  BY <1>3, PidFacts DEF WriteState
<1>4. ASSUME NEW u \in Ups, EnterSelect(u) PROVE CliTypeOK'
  BY <1>4 DEF EnterSelect
<1>5. ASSUME NEW u \in Ups, Tick(u) PROVE CliTypeOK'
  BY <1>5 DEF Tick
<1>6. ASSUME NEW u \in Ups, NEW s \in CliServices, TickService(u, s) PROVE CliTypeOK'
  <2>1. CASE Starts(u, s)
    <3>1. checks' \in [Ups -> SUBSET CliServices]
      BY <1>6 DEF TickService
    <3> QED
      BY <1>6, <2>1, <3>1, StartsChild DEF TickService
  <2>2. CASE UNCHANGED <<kids, cliProc>>
    BY <1>6, <2>2 DEF TickService
  <2> QED
    BY <1>6, <2>1, <2>2 DEF TickService
<1>7. ASSUME NEW u \in Ups, Change(u) PROVE CliTypeOK'
  BY <1>7 DEF Change, FindAffected
<1>8. ASSUME NEW u \in Ups, NEW s \in CliServices, RestartKill(u, s) PROVE CliTypeOK'
  BY <1>8, ProcChange DEF RestartKill, Killed, Alive
<1>9. ASSUME NEW u \in Ups, NEW s \in CliServices, RestartSpawn(u, s) PROVE CliTypeOK'
  BY <1>9, StartsChild DEF RestartSpawn
<1>10. ASSUME NEW u \in Ups, NEW s \in CliServices, StopKid(u, s) PROVE CliTypeOK'
  BY <1>10, ProcChange DEF StopKid, Killed, Alive
<1>11. ASSUME NEW u \in Ups, Leave(u) PROVE CliTypeOK'
  BY <1>11, PidFacts DEF Leave, NoRecord, NoKids
<1>12. ASSUME NEW u \in Ups, CtrlC(u) PROVE CliTypeOK'
  BY <1>12 DEF CtrlC, Interrupted
<1>13. ASSUME NEW u \in Ups, Crash(u) PROVE CliTypeOK'
  BY <1>13, PidFacts DEF Crash, NoKids
<1>14. CASE CmdDown
  BY <1>14 DEF CmdDown
<1>15. CASE DownSupervisor
  BY <1>15 DEF DownSupervisor, Interrupted
<1>16. CASE DownClear
  BY <1>16, PidFacts DEF DownClear, NoRecord, NoKids
<1>17. ASSUME NEW s \in CliServices, DownService(s) PROVE CliTypeOK'
  BY <1>17, ProcChange DEF DownService, Alive
<1>18. ASSUME NEW s \in CliServices, CmdPause(s) \/ CmdUnpause(s) PROVE CliTypeOK'
  <2>1. record.pids[s] \in CliPids
    BY <1>18, ManifestAssumption DEF CmdPause, CmdUnpause, CliPids
  <2>2. CASE CmdPause(s)
    BY <2>1, <2>2, ProcChange DEF CmdPause
  <2>3. CASE CmdUnpause(s)
    BY <2>1, <2>3, ProcChange DEF CmdUnpause
  <2> QED
    BY <1>18, <2>2, <2>3
<1>19. ASSUME NEW p \in CliPids, CliExit(p) PROVE CliTypeOK'
  BY <1>19, ProcChange DEF CliExit
<1>20. CASE UNCHANGED cliVars
  BY <1>20 DEF cliVars
<1> QED
  BY <1>1, <1>2, <1>3, <1>4, <1>5, <1>6, <1>7, <1>8, <1>9, <1>10, <1>11, <1>12, <1>13, <1>14,
     <1>15, <1>16, <1>17, <1>18, <1>19, <1>20 DEF CliNext, SupervisorStep

\* Every step keeps the invariant: two actions start a process, one lets a
\* supervisor leave, and the others fall under StepWithoutStart.
LEMMA CStep == CInv /\ [CliNext]_cliVars => CInv'
<1> SUFFICES ASSUME CInv, [CliNext]_cliVars PROVE CInv'
  OBVIOUS
<1>t. CliTypeOK /\ CliTypeOK'
  BY CliTypeStep DEF CInv
<1>a. \A p \in CliPids : cliProc[p].state \in {"running", "frozen"} => Alive(p)
  BY DEF Alive
<1>f. sup \in [Ups -> States] /\ checks \in [Ups -> SUBSET CliServices]
  BY <1>t DEF CliTypeOK, States
<1>1. ASSUME NEW u \in Ups, CmdUp(u) PROVE CInv'
  BY <1>1, <1>t, <1>a, <1>f, StepWithoutStart DEF CmdUp
<1>2. ASSUME NEW u \in Ups, NEW s \in CliServices, UpService(u, s) PROVE CInv'
  <2>1. ~Alive(kids[u][s])
    BY <1>2, PidFacts DEF CInv, Unstarted, UpService
  <2> QED
    <3>0. /\ sup[u] = "starting" /\ Starts(u, s) /\ record' = record
          /\ checks' = [checks EXCEPT ![u] = @ \ {s}]
      BY <1>2 DEF UpService
    <3>1. s \notin checks'[u] /\ \A v \in Ups : checks'[v] \subseteq checks[v]
      BY <3>0, <1>f
    <3>3. sup' = [sup EXCEPT ![u] = IF kids'[u][s] = 0 THEN "dead" ELSE @]
      BY <1>2 DEF UpService
    <3>2. \A v \in Ups : sup'[v] = sup[v] \/ (v = u /\ sup'[v] = "dead")
      BY <3>3, <1>f
    <3> QED
      BY <1>t, <2>1, <3>0, <3>1, <3>2, StepWithStart
<1>3. ASSUME NEW u \in Ups, WriteState(u) PROVE CInv'
  BY <1>3, <1>t, <1>a, <1>f, StepWithoutStart DEF WriteState
<1>4. ASSUME NEW u \in Ups, EnterSelect(u) PROVE CInv'
  BY <1>4, <1>t, <1>a, <1>f, StepWithoutStart DEF EnterSelect
<1>5. ASSUME NEW u \in Ups, Tick(u) PROVE CInv'
  BY <1>5, <1>t, <1>a, <1>f, StepWithoutStart DEF Tick
<1>6. ASSUME NEW u \in Ups, NEW s \in CliServices, TickService(u, s) PROVE CInv'
  <2>1. CASE Starts(u, s) /\ ~Alive(kids[u][s]) /\ s \notin checks'[u]
    <3>1. /\ sup[u] = "tick" /\ sup' = sup /\ record' = record
          /\ \A v \in Ups : v # u => checks'[v] = checks[v]
      BY <1>6, <1>f DEF TickService
    <3>2. \A v \in Ups : sup'[v] = sup[v] \/ (v = u /\ sup'[v] = "dead")
      BY <3>1
    <3>3. \A v \in Ups : sup[v] = "starting" => checks'[v] \subseteq checks[v]
      BY <3>1
    <3>4. sup[u] \notin {"off", "exited", "dead"} /\ record' = record
      BY <3>1
    <3> QED
      BY <1>t, <2>1, <3>2, <3>3, <3>4, StepWithStart
  <2>2. CASE UNCHANGED <<kids, cliProc>>
    BY <1>6, <1>t, <1>a, <1>f, <2>2, StepWithoutStart DEF TickService
  <2>3. \/ Starts(u, s) /\ ~Alive(kids[u][s]) /\ s \notin checks'[u]
        \/ UNCHANGED <<kids, cliProc>>
    BY <1>6, <1>f DEF TickService
  <2> QED
    BY <2>1, <2>2, <2>3
<1>7. ASSUME NEW u \in Ups, Change(u) PROVE CInv'
  BY <1>7, <1>t, <1>a, <1>f, StepWithoutStart DEF Change
<1>8. ASSUME NEW u \in Ups, NEW s \in CliServices, RestartKill(u, s) PROVE CInv'
  BY <1>8, <1>t, <1>a, <1>f, ProcChange, StepWithoutStart DEF RestartKill, Killed, Alive
<1>9. ASSUME NEW u \in Ups, NEW s \in CliServices, RestartSpawn(u, s) PROVE CInv'
  <2>1. /\ sup[u] = "restart" /\ sup' = sup /\ record' = record /\ Starts(u, s) /\ ~Alive(kids[u][s])
        /\ checks' = [checks EXCEPT ![u] = @ \ {s}]
    BY <1>9 DEF RestartSpawn
  <2>2. \A v \in Ups : sup'[v] = sup[v] \/ (v = u /\ sup'[v] = "dead")
    BY <2>1
  <2>3. s \notin checks'[u] /\ \A v \in Ups : sup[v] = "starting" => checks'[v] \subseteq checks[v]
    BY <2>1, <1>f
  <2>4. /\ sup[u] \notin {"off", "exited", "dead"} /\ record' = record
        /\ Starts(u, s) /\ ~Alive(kids[u][s])
    BY <2>1
  <2> QED
    BY <1>t, <2>2, <2>3, <2>4, StepWithStart
<1>10. ASSUME NEW u \in Ups, NEW s \in CliServices, StopKid(u, s) PROVE CInv'
  BY <1>10, <1>t, <1>a, <1>f, ProcChange, StepWithoutStart DEF StopKid, Killed, Alive
<1>11. ASSUME NEW u \in Ups, Leave(u) PROVE CInv'
  <2>1. /\ \A s \in CliServices : ~Alive(kids[u][s])
        /\ record' = NoRecord /\ UNCHANGED <<checks, kids, cliProc>>
        /\ sup[u] = "stopping" /\ sup'[u] = "exited" /\ \A v \in Ups \ {u} : sup'[v] = sup[v]
    BY <1>11, <1>f DEF Leave
  <2>2. \A p \in CliPids : Alive(p) => cliProc[p].by # u
    BY <2>1 DEF CInv, KidsKept
  <2>3. Unstarted'
    BY <2>1 DEF CInv, Unstarted, NoKids
  <2>4. KidsKept'
    BY <2>1, <2>2 DEF CInv, KidsKept, Alive
  <2>5. RecordOfLive'
    BY <2>1, PidFacts DEF RecordOfLive, NoRecord
  <2>6. LeftNothing'
    BY <2>1, <2>2 DEF CInv, LeftNothing, Alive
  <2> QED
    BY <1>t, <2>3, <2>4, <2>5, <2>6 DEF CInv
<1>12. ASSUME NEW u \in Ups, CtrlC(u) PROVE CInv'
  BY <1>12, <1>t, <1>a, <1>f, StepWithoutStart DEF CtrlC, Interrupted
<1>13. ASSUME NEW u \in Ups, Crash(u) PROVE CInv'
  <2>1. \A v \in Ups : IF v = u THEN sup'[v] = "dead" ELSE sup'[v] = sup[v] /\ kids'[v] = kids[v]
    BY <1>13, <1>t, <1>f DEF Crash, CliTypeOK
  <2>2. \A v \in Ups : checks'[v] \subseteq checks[v]
    BY <1>13, <1>f DEF Crash
  <2> QED
    BY <1>13, <1>t, <1>a, <2>1, <2>2, StepWithoutStart DEF Crash
<1>14. CASE CmdDown
  BY <1>14, <1>t, <1>a, <1>f, StepWithoutStart DEF CmdDown
<1>15. CASE DownSupervisor
  BY <1>15, <1>t, <1>a, <1>f, StepWithoutStart DEF DownSupervisor, Interrupted
<1>16. CASE DownClear
  BY <1>16, <1>t, <1>a, <1>f, PidFacts, StepWithoutStart DEF DownClear, NoRecord
<1>17. ASSUME NEW s \in CliServices, DownService(s) PROVE CInv'
  BY <1>17, <1>t, <1>a, <1>f, ProcChange, StepWithoutStart DEF DownService, Alive
<1>18. ASSUME NEW s \in CliServices, CmdPause(s) \/ CmdUnpause(s) PROVE CInv'
  <2>1. record.pids[s] \in CliPids
    BY <1>18, <1>t, ManifestAssumption DEF CmdPause, CmdUnpause, CliPids, CliTypeOK
  <2> QED
    BY <1>18, <1>t, <1>a, <1>f, <2>1, ProcChange, StepWithoutStart DEF CmdPause, CmdUnpause, Alive
<1>19. ASSUME NEW p \in CliPids, CliExit(p) PROVE CInv'
  BY <1>19, <1>t, <1>a, <1>f, ProcChange, StepWithoutStart DEF CliExit
<1>20. CASE UNCHANGED cliVars
  BY <1>20, <1>t, <1>a, <1>f, StepWithoutStart DEF cliVars
<1> QED
  BY <1>1, <1>2, <1>3, <1>4, <1>5, <1>6, <1>7, <1>8, <1>9, <1>10, <1>11, <1>12, <1>13, <1>14,
     <1>15, <1>16, <1>17, <1>18, <1>19, <1>20 DEF CliNext, SupervisorStep

\* The supervisors, their children, the processes and the state file hold values
\* of their types.
THEOREM CliTypeCorrect == CliSpec => []CliTypeOK
<1>1. CliInit => CliTypeOK
  BY CliInitInv DEF CInv
<1> QED
  BY <1>1, CliTypeStep, PTL DEF CliSpec

\* An `up` that left in order left no process of its own and no state file that
\* names it, whatever the other `up`, `down`, `pause` and `unpause` commands did.
THEOREM UpLeavesNothing == CliSpec => []CleanExit
<1>1. CInv => CleanExit
  BY DEF CInv, RecordOfLive, LeftNothing, CleanExit
<1> QED
  BY <1>1, CliInitInv, CStep, PTL DEF CliSpec
-----------------------------------------------------------------------------
(* The Chisel pipeline: the module that is signed is the one that was       *)
(* compiled, of the crate that was asked for, unless the binary was built   *)
(* again below the pipeline.                                                *)

PipeStages == {"idle", "built", "located", "compiled", "module", "signed", "failed"}
Pipes ==
    [at : PipeStages, src : Sources \cup {NoSource}, out : Sources \cup {NoSource}, built : Nat, sha : Nat,
     signed : Nat, moved : BOOLEAN]

PipeTypes ==
    /\ kVersion \in [Sources -> Nat \ {0}] /\ kBinary \in [Sources -> Nat]
    /\ kPipe \in Pipes

\* Which binary is looked up is decided by the source; it is there from then
\* on, and a compiler that can build has written it.
PipeInv ==
    /\ PipeTypes
    /\ kPipe.at \in {"built", "located", "compiled", "module", "signed"} =>
         kPipe.src \in Sources /\ CanBuild(kPipe.src)
    /\ kPipe.at \in {"located", "compiled", "module", "signed"} =>
         /\ kPipe.out \in Sources /\ kBinary[kPipe.out] # 0
         /\ kPipe.out = IF kPipe.src \in CrateSet THEN Crates[1] ELSE kPipe.src
    /\ ~kPipe.moved =>
         /\ kPipe.at \in {"compiled", "module", "signed"} => kPipe.built = kBinary[kPipe.out]
         /\ kPipe.at \in {"module", "signed"} => kPipe.sha = kBinary[kPipe.out]
         /\ kPipe.at = "signed" => kPipe.signed = kBinary[kPipe.out]
-----------------------------------------------------------------------------
\* Only Rust and TinyGo build what is then a module: a source that Emscripten
\* could compile is one the C compiler has accepted.
LEMMA BuildsRustOrGo ==
    ASSUME NEW s, CanBuild(s)
    PROVE  DetectLanguage(s) \in {"rust", "go"}
<1>1. EmscriptenAccepts(s) /\ ~Source[s].file => CAccepts(s)
  BY DEF EmscriptenAccepts, CAccepts
<1>2. DetectLanguage(s) = "emscripten" => EmscriptenAccepts(s) /\ ~CAccepts(s)
  BY DEF DetectLanguage
<1> QED
  BY <1>1, <1>2 DEF CanBuild

LEMMA PipeFields ==
    ASSUME NEW c \in Pipes
    PROVE  /\ c.at \in PipeStages /\ c.src \in Sources \cup {NoSource} /\ c.out \in Sources \cup {NoSource}
           /\ c.built \in Nat /\ c.sha \in Nat /\ c.signed \in Nat /\ c.moved \in BOOLEAN
           /\ \A x \in PipeStages : LET d == [c EXCEPT !.at = x]
                                    IN /\ d \in Pipes /\ d.at = x /\ d.src = c.src /\ d.out = c.out /\ d.built = c.built
                                       /\ d.sha = c.sha /\ d.signed = c.signed /\ d.moved = c.moved
           /\ LET d == [c EXCEPT !.moved = TRUE]
              IN /\ d \in Pipes /\ d.at = c.at /\ d.src = c.src /\ d.out = c.out /\ d.moved
  BY DEF Pipes

LEMMA PipeRests == PipeResting \in Pipes /\ PipeResting.at = "idle" /\ ~PipeResting.moved
  BY DEF PipeResting, Pipes, PipeStages

LEMMA PipeInitInv == KInit => PipeInv
<1> SUFFICES ASSUME KInit PROVE PipeInv
  OBVIOUS
<1>1. PipeTypes
  BY PipeRests DEF KInit, PipeTypes
<1> QED
  BY <1>1, PipeRests DEF KInit, PipeInv

LEMMA FirstCrate == Crates[1] \in CrateSet /\ CrateSet \subseteq Sources
  BY PipelineAssumption DEF CrateSet, Sources
\* What the pipeline does while the binaries stay.
LEMMA PipeMoves ==
    ASSUME PipeInv, UNCHANGED <<kVersion, kBinary, kTools>>, kPipe' \in Pipes,
           kPipe'.at \in {"built", "located", "compiled", "module", "signed"} =>
             kPipe'.src \in Sources /\ CanBuild(kPipe'.src),
           kPipe'.at \in {"located", "compiled", "module", "signed"} =>
             /\ kPipe'.out \in Sources /\ kBinary[kPipe'.out] # 0
             /\ kPipe'.out = IF kPipe'.src \in CrateSet THEN Crates[1] ELSE kPipe'.src,
           ~kPipe'.moved =>
             /\ kPipe'.at \in {"compiled", "module", "signed"} => kPipe'.built = kBinary[kPipe'.out]
             /\ kPipe'.at \in {"module", "signed"} => kPipe'.sha = kBinary[kPipe'.out]
             /\ kPipe'.at = "signed" => kPipe'.signed = kBinary[kPipe'.out]
    PROVE  PipeInv'
<1>1. PipeTypes'
  BY DEF PipeInv, PipeTypes
<1>2. \A s : CanBuild(s)' <=> CanBuild(s)
  BY DEF CanBuild, DetectLanguage, RustAccepts, GoAccepts, CAccepts, EmscriptenAccepts
<1> QED
  BY <1>1, <1>2 DEF PipeInv

LEMMA StartCompileStep == ASSUME PipeInv, StartCompile PROVE PipeInv'
<1>1. PICK s \in Sources, ok \in BOOLEAN :
         /\ ok => CanBuild(s)
         /\ IF ok THEN /\ kBinary' = [kBinary EXCEPT ![s] = kVersion[s]]
                       /\ kPipe' = [kPipe EXCEPT !.at = "built", !.src = s]
                  ELSE kBinary' = kBinary /\ kPipe' = [kPipe EXCEPT !.at = "failed", !.src = s]
  BY DEF StartCompile
<1>2. kPipe \in Pipes /\ kPipe.at = "idle" /\ UNCHANGED <<kVersion, kTools>>
  BY DEF StartCompile, PipeInv, PipeTypes
<1>3. kVersion \in [Sources -> Nat \ {0}] /\ kBinary \in [Sources -> Nat]
  BY DEF PipeInv, PipeTypes
<1>4. kPipe' \in Pipes /\ kPipe'.src = s /\ kPipe'.at = IF ok THEN "built" ELSE "failed"
  BY <1>1, <1>2 DEF Pipes, PipeStages
<1>5. kBinary' \in [Sources -> Nat]
  BY <1>1, <1>3
<1>6. ok => CanBuild(s)'
  BY <1>1, <1>2 DEF CanBuild, DetectLanguage, RustAccepts, GoAccepts, CAccepts, EmscriptenAccepts
<1>7. PipeTypes'
  BY <1>2, <1>3, <1>4, <1>5 DEF PipeTypes
<1> QED
  BY <1>4, <1>6, <1>7 DEF PipeInv

LEMMA LocateStep == ASSUME PipeInv, LocateBinary PROVE PipeInv'
<1>1. PICK out : out = IF kPipe.src \in CrateSet THEN Crates[1] ELSE kPipe.src
  OBVIOUS
<1>2. /\ kPipe.at = "built" /\ UNCHANGED <<kVersion, kBinary, kTools>>
      /\ kPipe' = IF kBinary[out] # 0 THEN [kPipe EXCEPT !.at = "located", !.out = out] ELSE [kPipe EXCEPT !.at = "failed"]
  BY <1>1 DEF LocateBinary
<1>3. kPipe \in Pipes /\ kPipe.src \in Sources /\ CanBuild(kPipe.src)
  BY <1>2 DEF PipeInv, PipeTypes
<1>4. out \in Sources
  BY <1>1, <1>3, FirstCrate
<1>5. CASE kBinary[out] # 0
  <2>1. kPipe' = [kPipe EXCEPT !.at = "located", !.out = out]
    BY <1>2, <1>5
  <2>2. /\ kPipe' \in Pipes /\ kPipe'.at = "located" /\ kPipe'.src = kPipe.src /\ kPipe'.out = out
    BY <1>3, <1>4, <2>1 DEF Pipes, PipeStages
  <2> QED
    BY <1>1, <1>2, <1>3, <1>4, <1>5, <2>2, PipeMoves
<1>6. CASE kBinary[out] = 0
  <2>1. kPipe' = [kPipe EXCEPT !.at = "failed"]
    BY <1>2, <1>6
  <2>2. kPipe' \in Pipes /\ kPipe'.at = "failed"
    BY <1>3, <2>1 DEF Pipes, PipeStages
  <2> QED
    BY <1>2, <2>2, PipeMoves
<1> QED
  BY <1>5, <1>6

LEMMA ReadStep == ASSUME PipeInv, ReadBinary \/ CreateModule \/ SignModule PROVE PipeInv'
<1>1. /\ kPipe \in Pipes /\ kBinary \in [Sources -> Nat] /\ kPipe.at \in {"located", "compiled", "module"}
      /\ UNCHANGED <<kVersion, kBinary, kTools>>
  BY DEF PipeInv, PipeTypes, ReadBinary, CreateModule, SignModule
<1>2. PICK b : b = kBinary[kPipe.out]
  OBVIOUS
<1>3. /\ kPipe.src \in Sources /\ CanBuild(kPipe.src) /\ kPipe.out \in Sources /\ b # 0
      /\ kPipe.out = IF kPipe.src \in CrateSet THEN Crates[1] ELSE kPipe.src
      /\ ~kPipe.moved => /\ kPipe.at \in {"compiled", "module"} => kPipe.built = b
                         /\ kPipe.at = "module" => kPipe.sha = b
  BY <1>1, <1>2 DEF PipeInv
<1>4. b \in Nat
  BY <1>1, <1>2, <1>3
<1>5. CASE ReadBinary
  <2>1. kPipe.at = "located" /\ kPipe' = [kPipe EXCEPT !.at = "compiled", !.built = b]
    BY <1>2, <1>5 DEF ReadBinary
  <2>2. /\ kPipe' \in Pipes /\ kPipe'.at = "compiled" /\ kPipe'.src = kPipe.src /\ kPipe'.out = kPipe.out /\ kPipe'.built = b
    BY <1>1, <1>4, <2>1 DEF Pipes, PipeStages
  <2> QED
    BY <1>1, <1>2, <1>3, <2>2, PipeMoves
<1>6. CASE CreateModule
  <2>1. kPipe.at = "compiled" /\ kPipe' = [kPipe EXCEPT !.at = "module", !.sha = b]
    BY <1>2, <1>6 DEF CreateModule
  <2>2. /\ kPipe' \in Pipes /\ kPipe'.at = "module" /\ kPipe'.src = kPipe.src /\ kPipe'.out = kPipe.out
        /\ kPipe'.built = kPipe.built /\ kPipe'.sha = b /\ kPipe'.moved = kPipe.moved
    BY <1>1, <1>4, <2>1 DEF Pipes, PipeStages
  <2> QED
    BY <1>1, <1>2, <1>3, <2>1, <2>2, PipeMoves
<1>7. CASE SignModule
  <2>1. kPipe.at = "module" /\ kPipe' = [kPipe EXCEPT !.at = "signed", !.signed = b]
    BY <1>2, <1>7 DEF SignModule
  <2>2. /\ kPipe' \in Pipes /\ kPipe'.at = "signed" /\ kPipe'.src = kPipe.src /\ kPipe'.out = kPipe.out
        /\ kPipe'.built = kPipe.built /\ kPipe'.sha = kPipe.sha /\ kPipe'.signed = b /\ kPipe'.moved = kPipe.moved
    BY <1>1, <1>4, <2>1 DEF Pipes, PipeStages
  <2> QED
    BY <1>1, <1>2, <1>3, <2>1, <2>2, PipeMoves
<1> QED
  BY <1>5, <1>6, <1>7

LEMMA BuildElsewhereStep == ASSUME PipeInv, BuildElsewhere PROVE PipeInv'
<1>1. PICK s \in Sources :
         /\ kBinary' = [kBinary EXCEPT ![s] = kVersion[s]]
         /\ kPipe' = IF kPipe.at = "idle" THEN kPipe ELSE [kPipe EXCEPT !.moved = TRUE]
  BY DEF BuildElsewhere
<1>2. /\ kVersion \in [Sources -> Nat \ {0}] /\ kBinary \in [Sources -> Nat] /\ kPipe \in Pipes
      /\ UNCHANGED <<kVersion, kTools>>
  BY DEF PipeInv, PipeTypes, BuildElsewhere
<1>3. kBinary' \in [Sources -> Nat] /\ \A r \in Sources : kBinary[r] # 0 => kBinary'[r] # 0
  BY <1>1, <1>2
<1>4. /\ kPipe' \in Pipes /\ kPipe'.at = kPipe.at /\ kPipe'.src = kPipe.src /\ kPipe'.out = kPipe.out
      /\ kPipe.at # "idle" => kPipe'.moved
  BY <1>1, <1>2 DEF Pipes
<1>5. PipeTypes'
  BY <1>2, <1>3, <1>4 DEF PipeTypes
<1>6. \A r : CanBuild(r)' <=> CanBuild(r)
  BY <1>2 DEF CanBuild, DetectLanguage, RustAccepts, GoAccepts, CAccepts, EmscriptenAccepts
<1> QED
  BY <1>3, <1>4, <1>5, <1>6 DEF PipeInv

LEMMA PipeInvStep == PipeInv /\ [KNext]_kVars => PipeInv'
<1> SUFFICES ASSUME PipeInv, [KNext]_kVars PROVE PipeInv'
  OBVIOUS
<1>1. CASE StartCompile
  BY <1>1, StartCompileStep
<1>2. CASE LocateBinary
  BY <1>2, LocateStep
<1>3. CASE ReadBinary \/ CreateModule \/ SignModule
  BY <1>3, ReadStep
<1>4. CASE PipelineDone
  <2>1. kPipe' = PipeResting /\ UNCHANGED <<kVersion, kBinary, kTools>>
    BY <1>4 DEF PipelineDone
  <2> QED
    BY <2>1, PipeRests, PipeMoves
<1>5. CASE Edit
  <2>1. UNCHANGED <<kBinary, kTools, kPipe>> /\ \E s \in Sources : kVersion' = [kVersion EXCEPT ![s] = @ + 1]
    BY <1>5 DEF Edit
  <2>2. kVersion' \in [Sources -> Nat \ {0}]
    BY <2>1 DEF PipeInv, PipeTypes
  <2>3. \A r : CanBuild(r)' <=> CanBuild(r)
    BY <2>1 DEF CanBuild, DetectLanguage, RustAccepts, GoAccepts, CAccepts, EmscriptenAccepts
  <2> QED
    BY <2>1, <2>2, <2>3 DEF PipeInv, PipeTypes
<1>6. CASE BuildElsewhere
  BY <1>6, BuildElsewhereStep
<1>7. CASE UNCHANGED kVars
  <2>1. UNCHANGED <<kVersion, kBinary, kTools, kPipe>>
    BY <1>7 DEF kVars
  <2>2. \A r : CanBuild(r)' <=> CanBuild(r)
    BY <2>1 DEF CanBuild, DetectLanguage, RustAccepts, GoAccepts, CAccepts, EmscriptenAccepts
  <2> QED
    BY <2>1, <2>2 DEF PipeInv, PipeTypes
<1> QED
  BY <1>1, <1>2, <1>3, <1>4, <1>5, <1>6, <1>7 DEF KNext

LEMMA PipeInvSound == PipeInv => ModulesSound
<1> SUFFICES ASSUME PipeInv PROVE ModulesSound
  OBVIOUS
<1>1. SignsWhatItBuilt
  <2> SUFFICES ASSUME kPipe.at = "signed", ~kPipe.moved
               PROVE  /\ kPipe.signed = kPipe.sha /\ kPipe.sha = kPipe.built /\ kPipe.built # 0
                      /\ kPipe.src \in Others \cup {Crates[1]} => kPipe.out = kPipe.src
    BY DEF SignsWhatItBuilt
  <2>1. /\ kPipe.signed = kPipe.sha /\ kPipe.sha = kPipe.built /\ kPipe.built # 0
        /\ kPipe.out = IF kPipe.src \in CrateSet THEN Crates[1] ELSE kPipe.src
    BY DEF PipeInv
  <2>2. kPipe.src \in Others => kPipe.src \notin CrateSet
    BY PipelineAssumption DEF CrateSet
  <2> QED
    BY <2>1, <2>2
<1>2. NoModuleOfC
  BY BuildsRustOrGo DEF PipeInv, NoModuleOfC
<1> QED
  BY <1>1, <1>2 DEF ModulesSound

\* A signed module is the binary that was described, unless somebody builds
\* meanwhile, and none is of C: for any crates, sources, tools and edits
\* (chisel/core/src/wasm_pipeline.rs).
THEOREM ModulesAlwaysSound == KSpec => []ModulesSound
<1>1. KInit => PipeInv
  BY PipeInitInv
<1>2. PipeInv /\ [KNext]_kVars => PipeInv'
  BY PipeInvStep
<1>3. PipeInv => ModulesSound
  BY PipeInvSound
<1> QED
  BY <1>1, <1>2, <1>3, PTL DEF KSpec
-----------------------------------------------------------------------------
(* Sums over a sequence, by induction along the numbers: a set of numbers   *)
(* has a least one.                                                         *)

\* Induction, with a set for the property.
LEMMA EveryNumber ==
    ASSUME NEW S, 0 \in S, \A n \in Nat : n \in S => n + 1 \in S
    PROVE  Nat \subseteq S
<1> SUFFICES ASSUME Nat \ S # {} PROVE FALSE
  OBVIOUS
<1>1. PICK m \in Nat \ S : \A k \in Nat \ S : m <= k
  BY LeastNumber
<1>2. m # 0 /\ m - 1 \in Nat
  BY <1>1
<1>3. m - 1 \in S
  BY <1>1, <1>2
<1>4. (m - 1) + 1 = m
  BY <1>1
<1> QED
  BY <1>1, <1>2, <1>3, <1>4

\* The sum over a sequence, up to m, exists.
LEMMA SumExists ==
    ASSUME NEW s
    PROVE  \A m \in Nat : \E f : f = [n \in 0 .. m |-> IF n = 0 THEN 0 ELSE f[n - 1] + s[n]]
<1> DEFINE Good(m, f) == f = [n \in 0 .. m |-> IF n = 0 THEN 0 ELSE f[n - 1] + s[n]]
           S == {m \in Nat : \E f : Good(m, f)}
<1>1. 0 \in S
  <2>1. PICK f : f = [n \in 0 .. 0 |-> 0]
    OBVIOUS
  <2>2. Good(0, f)
    BY <2>1
  <2> QED
    BY <2>2
<1>2. ASSUME NEW m \in Nat, m \in S PROVE m + 1 \in S
  <2>1. PICK f : Good(m, f)
    BY <1>2
  <2>2. PICK g : g = [n \in 0 .. m + 1 |-> IF n = m + 1 THEN f[m] + s[m + 1] ELSE f[n]]
    OBVIOUS
  <2>3. ASSUME NEW n \in 0 .. m + 1 PROVE g[n] = IF n = 0 THEN 0 ELSE g[n - 1] + s[n]
    <3>1. CASE n = m + 1
      <4>1. n # 0 /\ m \in 0 .. m + 1 /\ m # m + 1 /\ n - 1 = m /\ m + 1 \in 0 .. m + 1
        BY <3>1
      <4>2. g[m] = f[m] /\ g[n] = f[m] + s[n]
        BY <2>2, <3>1, <4>1
      <4> QED
        BY <4>1, <4>2
    <3>2. CASE n # m + 1
      <4>1. n \in 0 .. m /\ (n # 0 => n - 1 \in 0 .. m /\ n - 1 \in 0 .. m + 1 /\ n - 1 # m + 1)
        BY <3>2
      <4>2. g[n] = f[n] /\ (n # 0 => g[n - 1] = f[n - 1])
        BY <2>2, <3>2, <4>1
      <4>3. f[n] = IF n = 0 THEN 0 ELSE f[n - 1] + s[n]
        BY <2>1, <4>1
      <4> QED
        BY <4>2, <4>3
    <3> QED
      BY <3>1, <3>2
  <2>4. Good(m + 1, g)
    BY <2>2, <2>3
  <2> QED
    BY <2>4
<1> HIDE DEF Good
<1>3. Nat \subseteq S
  <2> HIDE DEF S
  <2> QED
    BY <1>1, <1>2, EveryNumber
<1> QED
  BY <1>3 DEF Good

\* SizeOfAll adds one after the other.
LEMMA SizeUnfolds ==
    ASSUME NEW s, Len(s) \in Nat
    PROVE  \E f : /\ f[0] = 0 /\ SizeOfAll(s) = f[Len(s)]
                  /\ \A n \in 1 .. Len(s) : f[n] = f[n - 1] + s[n]
<1> DEFINE Good(f) == f = [n \in 0 .. Len(s) |-> IF n = 0 THEN 0 ELSE f[n - 1] + s[n]]
<1>1. \E f : Good(f)
  BY SumExists
<1>2. PICK f : f = CHOOSE g : Good(g)
  OBVIOUS
<1>3. Good(f)
  <2> HIDE DEF Good
  <2> QED
    BY <1>1, <1>2
<1>4. SizeOfAll(s) = f[Len(s)]
  BY <1>2 DEF SizeOfAll
<1>5. f[0] = 0
  BY <1>3
<1>6. \A n \in 1 .. Len(s) : f[n] = f[n - 1] + s[n]
  BY <1>3
<1> QED
  BY <1>4, <1>5, <1>6

\* A sum of no larger sizes is no larger.
LEMMA SmallerSum ==
    ASSUME NEW s \in Seq(Nat), NEW t \in Seq(Nat), Len(s) = Len(t), \A n \in 1 .. Len(s) : s[n] <= t[n]
    PROVE  SizeOfAll(s) <= SizeOfAll(t)
<1>0. Len(s) \in Nat /\ Len(t) \in Nat /\ \A n \in 1 .. Len(s) : s[n] \in Nat /\ t[n] \in Nat
  OBVIOUS
<1>1. PICK f : f[0] = 0 /\ SizeOfAll(s) = f[Len(s)] /\ \A n \in 1 .. Len(s) : f[n] = f[n - 1] + s[n]
  BY <1>0, SizeUnfolds
<1>2. PICK g : g[0] = 0 /\ SizeOfAll(t) = g[Len(t)] /\ \A n \in 1 .. Len(t) : g[n] = g[n - 1] + t[n]
  BY <1>0, SizeUnfolds
<1> DEFINE S == {n \in Nat : n <= Len(s) => f[n] \in Nat /\ g[n] \in Nat /\ f[n] <= g[n]}
<1>3. 0 \in S
  BY <1>1, <1>2
<1>4. ASSUME NEW n \in Nat, n \in S PROVE n + 1 \in S
  <2>1. PICK k \in Nat : k = n + 1 /\ k - 1 = n
    OBVIOUS
  <2>2. CASE k <= Len(s)
    <3>1. k \in 1 .. Len(s) /\ k \in 1 .. Len(t) /\ n <= Len(s)
      BY <1>0, <2>1, <2>2
    <3>2. f[n] \in Nat /\ g[n] \in Nat /\ f[n] <= g[n]
      BY <1>4, <3>1
    <3>3. f[k] = f[n] + s[k] /\ g[k] = g[n] + t[k]
      BY <1>1, <1>2, <2>1, <3>1
    <3>4. s[k] \in Nat /\ t[k] \in Nat
      BY <1>0, <3>1
    <3>5. s[k] <= t[k]
      BY <3>1
    <3>6. f[k] \in Nat /\ g[k] \in Nat /\ f[k] <= g[k]
      BY <3>2, <3>3, <3>4, <3>5
    <3> QED
      BY <2>1, <3>6
  <2>3. CASE ~(k <= Len(s))
    BY <2>1, <2>3
  <2> QED
    BY <2>2, <2>3
<1>5. Nat \subseteq S
  <2> HIDE DEF S
  <2> QED
    BY <1>3, <1>4, EveryNumber
<1>6. f[Len(s)] <= g[Len(s)]
  BY <1>0, <1>5
<1> QED
  BY <1>1, <1>2, <1>6

LEMMA DistilledNoLarger ==
    ASSUME NEW image \in Images
    PROVE  SizeOfAll([i \in DOMAIN image.layers |-> DistilledSize(image.layers[i])])
              <= SizeOfAll([i \in DOMAIN image.layers |-> image.layers[i].size])
<1>1. PICK q : q = image.layers
  OBVIOUS
<1>2. q \in Seq([size : Nat, command : {"install", "none", "run", "other"}])
  BY <1>1, AnalysisAssumption
<1>3. Len(q) \in Nat /\ DOMAIN q = 1 .. Len(q)
  BY <1>2
<1>4. ASSUME NEW i \in DOMAIN q PROVE q[i].size \in Nat /\ DistilledSize(q[i]) \in Nat /\ DistilledSize(q[i]) <= q[i].size
  <2>1. q[i] \in [size : Nat, command : {"install", "none", "run", "other"}]
    <3>1. PICK X : X = [size : Nat, command : {"install", "none", "run", "other"}]
      OBVIOUS
    <3>2. q \in Seq(X) /\ i \in 1 .. Len(q)
      BY <1>2, <1>3, <3>1
    <3>3. q[i] \in X
      BY <3>2
    <3> QED
      BY <3>1, <3>3
  <2>5. q[i].size \in Nat
    BY <2>1
  <2>2. PICK n : n = q[i].size
    OBVIOUS
  <2>3. (n * 6) \div 10 \in Nat /\ (n * 6) \div 10 <= n
    BY <2>5, <2>2
  <2>4. DistilledSize(q[i]) \in {(n * 6) \div 10, 0, n}
    BY <2>2 DEF DistilledSize
  <2> QED
    BY <2>5, <2>2, <2>3, <2>4
<1>5. PICK s : s = [i \in DOMAIN q |-> DistilledSize(q[i])]
  OBVIOUS
<1>6. PICK t : t = [i \in DOMAIN q |-> q[i].size]
  OBVIOUS
<1>7. s \in Seq(Nat) /\ Len(s) = Len(q) /\ \A i \in 1 .. Len(q) : s[i] = DistilledSize(q[i])
  <2>1. s \in [1 .. Len(q) -> Nat]
    BY <1>3, <1>4, <1>5
  <2> QED
    BY <1>3, <1>5, <2>1
<1>8. t \in Seq(Nat) /\ Len(t) = Len(q) /\ \A i \in 1 .. Len(q) : t[i] = q[i].size
  <2>1. t \in [1 .. Len(q) -> Nat]
    BY <1>3, <1>4, <1>6
  <2> QED
    BY <1>3, <1>6, <2>1
<1>9. \A n \in 1 .. Len(s) : s[n] <= t[n]
  BY <1>3, <1>4, <1>7, <1>8
<1>10. SizeOfAll(s) <= SizeOfAll(t)
  BY <1>7, <1>8, <1>9, SmallerSum
<1> QED
  BY <1>1, <1>5, <1>6, <1>10

-----------------------------------------------------------------------------
(* Chisel's analysis: what the steps read, what they compute of it, and how *)
(* long it is the image of the directory.                                   *)

FoundFields ==
    {"image", "trace", "deps", "hashed", "language", "compat", "sbom", "sbomBy", "cves", "cvesBy",
     "size", "base", "migrates", "adapts"}
Only(S) == CHOOSE i \in S : TRUE

\* What each step read is of one image ...
ReadInv ==
    /\ zImage \in Images /\ zStep \in 1 .. 9 /\ DOMAIN zFound = FoundFields
    /\ zStep > 1 => \E i \in Images : zFound.image = {i}
    /\ zStep > 2 => \E i \in Images : zFound.trace = {i}
    /\ zStep > 3 => \E i \in Images : zFound.deps = {i}
\* ... what is computed from it agrees with it ...
ComputedInv ==
    /\ zStep > 4 => zFound.compat = Compatibility(zFound.language, Only(zFound.trace).traces)
    /\ zStep > 8 =>
         /\ zFound.size = SizeOfAll([i \in DOMAIN Only(zFound.image).layers |->
                                       DistilledSize(Only(zFound.image).layers[i])])
         /\ zFound.migrates = (zFound.compat \in {"full", "partial"})
         /\ zFound.adapts = (zFound.compat = "partial")
         /\ zFound.base = CASE zFound.compat = "full" -> "static" [] zFound.compat = "partial" -> "base"
                            [] OTHER -> "original"
\* ... and until the directory is replaced below the command it is the image
\* of the directory.
SameInv ==
    ~zReplaced.seen =>
       /\ zStep > 1 => zFound.image = {zImage}
       /\ zStep > 2 => zFound.trace = {zImage}
       /\ zStep > 3 => zFound.deps = {zImage}
       /\ zStep > 5 => zFound.hashed = {zImage}
\* What is not a scanner's is marked so and made of what was read.
SbomInv(f) ==
    \/ f.sbomBy = "syft" /\ "syft" \in zScanner
    \/ f.sbomBy = "heuristic" /\ f.sbom = ToSet(Only(f.deps).deps)
CvesInv(f) ==
    \/ f.cvesBy = "grype" /\ "grype" \in zScanner
    \/ f.cvesBy = "heuristic" /\ f.cves = f.sbom \cap {"pre"}
HonestInv == (zStep > 6 => SbomInv(zFound)) /\ (zStep > 7 => CvesInv(zFound))
AnalysisInv == ReadInv /\ ComputedInv /\ SameInv /\ HonestInv

LEMMA OnlyOne == ASSUME NEW i PROVE Only({i}) = i
BY DEF Only

LEMMA StageNumbers ==
    ASSUME NEW n \in 1 .. 9
    PROVE  /\ Stages[n] = "metadata" => n = 1
           /\ Stages[n] = "trace" => n = 2
           /\ Stages[n] = "dependencies" => n = 3
           /\ Stages[n] = "language" => n = 4
           /\ Stages[n] = "hash" => n = 5
           /\ Stages[n] = "sbom" => n = 6
           /\ Stages[n] = "cves" => n = 7
           /\ Stages[n] = "assemble" => n = 8
           /\ Stages[n] = "done" => n = 9
BY DEF Stages

LEMMA AnalysisInit == ZInit => AnalysisInv
<1> SUFFICES ASSUME ZInit PROVE AnalysisInv
  OBVIOUS
<1>1. zImage \in Images /\ zStep = 1 /\ zFound = Nothing
  BY DEF ZInit
<1>2. DOMAIN zFound = FoundFields
  BY <1>1 DEF Nothing, FoundFields
<1> QED
  BY <1>1, <1>2 DEF AnalysisInv, ReadInv, ComputedInv, SameInv, HonestInv

LEMMA ReplaceImageKeeps == AnalysisInv /\ ReplaceImage => AnalysisInv'
<1> SUFFICES ASSUME AnalysisInv, ReplaceImage PROVE AnalysisInv'
  OBVIOUS
<1>1. zFound' = zFound /\ zStep' = zStep /\ zImage' \in Images /\ zScanner' = zScanner
  BY DEF ReplaceImage
<1>2. zReplaced'.seen = (zReplaced.seen \/ zStep > 1)
  BY DEF ReplaceImage
<1>3. zStep \in 1 .. 9
  BY DEF AnalysisInv, ReadInv
<1>4. ReadInv'
  BY <1>1 DEF AnalysisInv, ReadInv
<1>5. ComputedInv'
  BY <1>1 DEF AnalysisInv, ComputedInv
<1>6. SameInv'
  <2>1. CASE zStep = 1
    BY <1>1, <2>1 DEF SameInv
  <2>2. CASE zStep > 1
    BY <1>2, <2>2 DEF SameInv
  <2> QED
    BY <1>3, <2>1, <2>2
<1>7. HonestInv'
  BY <1>1 DEF AnalysisInv, HonestInv, SbomInv, CvesInv
<1> QED
  BY <1>4, <1>5, <1>6, <1>7 DEF AnalysisInv

LEMMA ReadingKeeps ==
    ASSUME AnalysisInv, LoadImageMetadata \/ CollectRuntimeTrace \/ ScanDependencies \/ ComputeImageHash
    PROVE  AnalysisInv'
<1>1. zImage' = zImage /\ zReplaced' = zReplaced /\ zStep' = zStep + 1 /\ zStep \in 1 .. 9 /\ zImage \in Images
  BY DEF LoadImageMetadata, CollectRuntimeTrace, ScanDependencies, ComputeImageHash, Do, AnalysisInv, ReadInv
<1>2. DOMAIN zFound = FoundFields
  BY DEF AnalysisInv, ReadInv
<1>3. CASE LoadImageMetadata
  <2>1. zStep = 1 /\ zFound' = [zFound EXCEPT !.image = {zImage}]
    BY <1>1, <1>3, StageNumbers DEF LoadImageMetadata, Do
  <2>2. DOMAIN zFound' = FoundFields /\ zFound'.image = {zImage}
    BY <1>2, <2>1 DEF FoundFields
  <2> QED
    BY <1>1, <2>1, <2>2 DEF AnalysisInv, ReadInv, ComputedInv, SameInv, HonestInv
<1>4. CASE CollectRuntimeTrace
  <2>1. zStep = 2 /\ zFound' = [zFound EXCEPT !.trace = {zImage}]
    BY <1>1, <1>4, StageNumbers DEF CollectRuntimeTrace, Do
  <2>2. DOMAIN zFound' = FoundFields /\ zFound'.trace = {zImage} /\ zFound'.image = zFound.image
    BY <1>2, <2>1 DEF FoundFields
  <2> QED
    BY <1>1, <2>1, <2>2 DEF AnalysisInv, ReadInv, ComputedInv, SameInv, HonestInv
<1>5. CASE ScanDependencies
  <2>1. zStep = 3 /\ zFound' = [zFound EXCEPT !.deps = {zImage}]
    BY <1>1, <1>5, StageNumbers DEF ScanDependencies, Do
  <2>2. DOMAIN zFound' = FoundFields /\ zFound'.deps = {zImage} /\ zFound'.image = zFound.image /\ zFound'.trace = zFound.trace
    BY <1>2, <2>1 DEF FoundFields
  <2> QED
    BY <1>1, <2>1, <2>2 DEF AnalysisInv, ReadInv, ComputedInv, SameInv, HonestInv
<1>6. CASE ComputeImageHash
  <2>1. zStep = 5 /\ zFound' = [zFound EXCEPT !.hashed = {zImage}]
    BY <1>1, <1>6, StageNumbers DEF ComputeImageHash, Do
  <2>2. /\ DOMAIN zFound' = FoundFields /\ zFound'.hashed = {zImage} /\ zFound'.image = zFound.image
        /\ zFound'.trace = zFound.trace /\ zFound'.deps = zFound.deps
        /\ zFound'.language = zFound.language /\ zFound'.compat = zFound.compat
    BY <1>2, <2>1 DEF FoundFields
  <2> QED
    BY <1>1, <2>1, <2>2 DEF AnalysisInv, ReadInv, ComputedInv, SameInv, HonestInv
<1> QED
  BY <1>3, <1>4, <1>5, <1>6

LEMMA LanguageKeeps == AnalysisInv /\ DetectSourceLanguage => AnalysisInv'
<1> SUFFICES ASSUME AnalysisInv, DetectSourceLanguage PROVE AnalysisInv'
  OBVIOUS
<1>1. /\ zImage' = zImage /\ zReplaced' = zReplaced /\ zStep' = zStep + 1 /\ zStep \in 1 .. 9 /\ zImage \in Images
      /\ DOMAIN zFound = FoundFields
  BY DEF DetectSourceLanguage, Do, AnalysisInv, ReadInv
<1>2. zStep = 4
  BY <1>1, StageNumbers DEF DetectSourceLanguage, Do
<1>3. PICK l : zFound' = [zFound EXCEPT !.language = l, !.compat = Compatibility(l, Only(zFound.trace).traces)]
  BY DEF DetectSourceLanguage, Do, Only
<1>4. PICK c : c = Compatibility(l, Only(zFound.trace).traces)
  OBVIOUS
<1>5. /\ DOMAIN zFound' = FoundFields /\ zFound'.image = zFound.image /\ zFound'.trace = zFound.trace
      /\ zFound'.deps = zFound.deps /\ zFound'.language = l /\ zFound'.compat = c
  BY <1>1, <1>3, <1>4 DEF FoundFields
<1>6. ReadInv'
  BY <1>1, <1>2, <1>5 DEF AnalysisInv, ReadInv
<1>7. ComputedInv'
  BY <1>1, <1>2, <1>4, <1>5 DEF ComputedInv
<1>8. SameInv'
  BY <1>1, <1>2, <1>5 DEF AnalysisInv, SameInv
<1>9. HonestInv'
  BY <1>1, <1>2 DEF HonestInv
<1> QED
  BY <1>6, <1>7, <1>8, <1>9 DEF AnalysisInv

LEMMA SbomKeeps == AnalysisInv /\ GenerateSbom => AnalysisInv'
<1> SUFFICES ASSUME AnalysisInv, GenerateSbom PROVE AnalysisInv'
  OBVIOUS
<1> DEFINE With(a, b) == [zFound EXCEPT !.sbom = a, !.sbomBy = b]
<1>3. PICK a, b : /\ Do("sbom", With(a, b))
                  /\ \/ b = "syft" /\ "syft" \in zScanner
                     \/ b = "heuristic" /\ a = ToSet(Only(zFound.deps).deps)
  <2>1. CASE "syft" \in zScanner
    <3>1. PICK listed : Do("sbom", With(listed, "syft"))
      BY <2>1 DEF GenerateSbom
    <3> HIDE DEF With
    <3> QED
      BY <2>1, <3>1
  <2>2. CASE "syft" \notin zScanner
    <3>1. Do("sbom", With(ToSet(Only(zFound.deps).deps), "heuristic"))
      BY <2>2 DEF GenerateSbom, Only
    <3> HIDE DEF With
    <3> QED
      BY <3>1
  <2> QED
    BY <2>1, <2>2
<1>1. /\ zImage' = zImage /\ zReplaced' = zReplaced /\ zScanner' = zScanner /\ zStep' = zStep + 1
      /\ zStep \in 1 .. 9 /\ zImage \in Images /\ DOMAIN zFound = FoundFields
  BY <1>3 DEF Do, AnalysisInv, ReadInv
<1>2. zStep = 6 /\ zFound' = With(a, b)
  BY <1>1, <1>3, StageNumbers DEF Do
<1>4. /\ DOMAIN zFound' = FoundFields /\ zFound'.image = zFound.image /\ zFound'.trace = zFound.trace
      /\ zFound'.deps = zFound.deps /\ zFound'.language = zFound.language /\ zFound'.compat = zFound.compat
      /\ zFound'.hashed = zFound.hashed /\ zFound'.sbom = a /\ zFound'.sbomBy = b
  BY <1>1, <1>2 DEF FoundFields
<1>5. ReadInv'
  BY <1>1, <1>2, <1>4 DEF AnalysisInv, ReadInv
<1>6. ComputedInv'
  BY <1>1, <1>2, <1>4 DEF AnalysisInv, ComputedInv
<1>7. SameInv'
  BY <1>1, <1>2, <1>4 DEF AnalysisInv, SameInv
<1>8. HonestInv'
  BY <1>1, <1>2, <1>3, <1>4 DEF HonestInv, SbomInv
<1> QED
  BY <1>5, <1>6, <1>7, <1>8 DEF AnalysisInv

LEMMA CvesKeep == AnalysisInv /\ ScanCves => AnalysisInv'
<1> SUFFICES ASSUME AnalysisInv, ScanCves PROVE AnalysisInv'
  OBVIOUS
<1> DEFINE With(a, b) == [zFound EXCEPT !.cves = a, !.cvesBy = b]
<1>3. PICK a, b : /\ Do("cves", With(a, b))
                  /\ \/ b = "grype" /\ "grype" \in zScanner
                     \/ b = "heuristic" /\ a = zFound.sbom \cap {"pre"}
  <2>1. CASE "grype" \in zScanner
    <3>1. PICK cves : Do("cves", With(cves, "grype"))
      BY <2>1 DEF ScanCves
    <3> HIDE DEF With
    <3> QED
      BY <2>1, <3>1
  <2>2. CASE "grype" \notin zScanner
    <3>1. Do("cves", With(zFound.sbom \cap {"pre"}, "heuristic"))
      BY <2>2 DEF ScanCves
    <3> HIDE DEF With
    <3> QED
      BY <3>1
  <2> QED
    BY <2>1, <2>2
<1>1. /\ zImage' = zImage /\ zReplaced' = zReplaced /\ zScanner' = zScanner /\ zStep' = zStep + 1
      /\ zStep \in 1 .. 9 /\ zImage \in Images /\ DOMAIN zFound = FoundFields
  BY <1>3 DEF Do, AnalysisInv, ReadInv
<1>2. zStep = 7 /\ zFound' = With(a, b)
  BY <1>1, <1>3, StageNumbers DEF Do
<1>4. /\ DOMAIN zFound' = FoundFields /\ zFound'.image = zFound.image /\ zFound'.trace = zFound.trace
      /\ zFound'.deps = zFound.deps /\ zFound'.language = zFound.language /\ zFound'.compat = zFound.compat
      /\ zFound'.hashed = zFound.hashed /\ zFound'.sbom = zFound.sbom /\ zFound'.sbomBy = zFound.sbomBy
      /\ zFound'.cves = a /\ zFound'.cvesBy = b
  BY <1>1, <1>2 DEF FoundFields
<1>5. ReadInv'
  BY <1>1, <1>2, <1>4 DEF AnalysisInv, ReadInv
<1>6. ComputedInv'
  BY <1>1, <1>2, <1>4 DEF AnalysisInv, ComputedInv
<1>7. SameInv'
  BY <1>1, <1>2, <1>4 DEF AnalysisInv, SameInv
<1>8. SbomInv(zFound)
  BY <1>2 DEF AnalysisInv, HonestInv
<1>9. HonestInv'
  BY <1>1, <1>2, <1>3, <1>4, <1>8 DEF HonestInv, SbomInv, CvesInv
<1> QED
  BY <1>5, <1>6, <1>7, <1>9 DEF AnalysisInv

LEMMA AssembleKeeps == AnalysisInv /\ Assemble => AnalysisInv'
<1> SUFFICES ASSUME AnalysisInv, Assemble PROVE AnalysisInv'
  OBVIOUS
<1>1. /\ zScanner' = zScanner /\ zImage' = zImage /\ zReplaced' = zReplaced /\ zStep' = zStep + 1 /\ zStep \in 1 .. 9 /\ zImage \in Images
      /\ DOMAIN zFound = FoundFields
  BY DEF Assemble, Do, AnalysisInv, ReadInv
<1>2. zStep = 8
  BY <1>1, StageNumbers DEF Assemble, Do
<1>3. PICK n : n = SizeOfAll([i \in DOMAIN Only(zFound.image).layers |->
                                DistilledSize(Only(zFound.image).layers[i])])
  OBVIOUS
<1>4. PICK b : b = CASE zFound.compat = "full" -> "static" [] zFound.compat = "partial" -> "base"
                     [] OTHER -> "original"
  OBVIOUS
<1>5. zFound' = [zFound EXCEPT !.size = n, !.migrates = zFound.compat \in {"full", "partial"},
                               !.adapts = zFound.compat = "partial", !.base = b]
  BY <1>3, <1>4 DEF Assemble, Do, Only
<1>6. /\ DOMAIN zFound' = FoundFields /\ zFound'.image = zFound.image /\ zFound'.trace = zFound.trace
      /\ zFound'.deps = zFound.deps /\ zFound'.language = zFound.language /\ zFound'.compat = zFound.compat
      /\ zFound'.hashed = zFound.hashed /\ zFound'.sbom = zFound.sbom /\ zFound'.cves = zFound.cves
      /\ zFound'.sbomBy = zFound.sbomBy /\ zFound'.cvesBy = zFound.cvesBy /\ zScanner' = zScanner
  BY <1>1, <1>5 DEF FoundFields
<1>7. zFound'.size = n /\ zFound'.base = b
  BY <1>1, <1>5 DEF FoundFields
<1>8. zFound'.migrates = (zFound.compat \in {"full", "partial"}) /\ zFound'.adapts = (zFound.compat = "partial")
  BY <1>1, <1>5, Zenon DEF FoundFields
<1>9. ReadInv'
  BY <1>1, <1>2, <1>6 DEF AnalysisInv, ReadInv
<1>10. zFound'.compat = Compatibility(zFound'.language, Only(zFound'.trace).traces)
  BY <1>2, <1>6 DEF AnalysisInv, ComputedInv
<1>11. ComputedInv'
  BY <1>3, <1>4, <1>6, <1>7, <1>8, <1>10, Zenon DEF ComputedInv
<1>12. SameInv'
  BY <1>1, <1>2, <1>6 DEF AnalysisInv, SameInv
<1>13. HonestInv'
  BY <1>1, <1>2, <1>6 DEF AnalysisInv, HonestInv, SbomInv, CvesInv
<1> QED
  BY <1>9, <1>11, <1>12, <1>13 DEF AnalysisInv

LEMMA AnalysisInductive == AnalysisInv /\ [ZNext]_zVars => AnalysisInv'
<1> SUFFICES ASSUME AnalysisInv, [ZNext]_zVars PROVE AnalysisInv'
  OBVIOUS
<1>1. CASE UNCHANGED zVars
  BY <1>1 DEF zVars, AnalysisInv, ReadInv, ComputedInv, SameInv, HonestInv, SbomInv, CvesInv
<1> QED
  BY <1>1, ReplaceImageKeeps, ReadingKeeps, LanguageKeeps, SbomKeeps, CvesKeep, AssembleKeeps DEF ZNext

LEMMA AnalysisInvSound == AnalysisInv => AnalysisSound
<1> SUFFICES ASSUME AnalysisInv, Done PROVE OfOneImage /\ ScansHonest /\ DistilledSound
  BY DEF AnalysisSound, OfOneImage, ScansHonest, DistilledSound
<1>1. zStep = 9
  BY StageNumbers DEF Done, AnalysisInv, ReadInv
<1>13. ScansHonest
  BY <1>1 DEF AnalysisInv, HonestInv, SbomInv, CvesInv, Only, ScansHonest
<1>2. OfOneImage
  BY <1>1 DEF AnalysisInv, SameInv, OfOneImage
<1>3. PICK i \in Images : zFound.image = {i}
  BY <1>1 DEF AnalysisInv, ReadInv
<1>4. (CHOOSE j \in zFound.image : TRUE) = i /\ Only(zFound.image) = i
  BY <1>3 DEF Only
<1>5. PICK tr : tr = (CHOOSE j \in zFound.trace : TRUE).traces
  OBVIOUS
<1>6. zFound.compat = Compatibility(zFound.language, tr)
  BY <1>1, <1>5 DEF AnalysisInv, ComputedInv, Only
<1>7. zFound.size <= SizeOfAll([j \in DOMAIN i.layers |-> i.layers[j].size])
  BY <1>1, <1>4, DistilledNoLarger DEF AnalysisInv, ComputedInv
<1>8. /\ zFound.migrates = (zFound.compat \in {"full", "partial"})
      /\ zFound.adapts = (zFound.compat = "partial")
      /\ zFound.base = CASE zFound.compat = "full" -> "static" [] zFound.compat = "partial" -> "base"
                         [] OTHER -> "original"
  BY <1>1 DEF AnalysisInv, ComputedInv
<1>9. zFound.compat = (IF zFound.language = "unknown" THEN "incompatible"
                       ELSE IF MissingFeatures(zFound.language, tr) = {} THEN "full" ELSE "partial")
  BY <1>6 DEF Compatibility
<1>10. (zFound.migrates <=> zFound.base # "original") /\ (zFound.language = "unknown" <=> ~zFound.migrates)
  BY <1>8, <1>9
<1>11. zFound.migrates /\ ~zFound.adapts => MissingFeatures(zFound.language, tr) = {}
  BY <1>8, <1>9
<1>12. DistilledSound
  BY <1>4, <1>5, <1>7, <1>10, <1>11 DEF DistilledSound
<1> QED
  BY <1>13, <1>2, <1>12

\* What the analysis says is of one image, unless the directory is replaced
\* below the command; what no scanner reported is marked so and made of what was
\* read; the distilled image is never larger, and it is moved to WebAssembly only
\* as far as the trace allows: for any images, with any number of layers, and
\* whatever the scanners report (chisel/core/src/analyzer.rs, distiller.rs).
THEOREM AnalysisAlwaysSound == ZSpec => []AnalysisSound
<1> QED
  BY AnalysisInit, AnalysisInductive, AnalysisInvSound, PTL DEF ZSpec
-----------------------------------------------------------------------------
(* Image builds: the image that the two walks over a Dockerfile leave is     *)
(* the one its lines ask for.                                              *)

\* In a finite set of numbers there is one of every rank.
LEMMA Ranked ==
    ASSUME NEW T \in SUBSET Nat, IsFiniteSet(T), NEW k \in 1 .. Cardinality(T)
    PROVE  \E x \in T : Cardinality({y \in T : y <= x}) = k
<1> DEFINE HasRank(U, j) == \E x \in U : Cardinality({y \in U : y <= x}) = j
           S == {n \in Nat : \A U \in SUBSET Nat :
                                IsFiniteSet(U) /\ Cardinality(U) = n => \A j \in 1 .. n : HasRank(U, j)}
<1>1. 0 \in S
  OBVIOUS
<1>2. ASSUME NEW n \in Nat, n \in S PROVE n + 1 \in S
  <2>1. SUFFICES ASSUME NEW U \in SUBSET Nat, IsFiniteSet(U), Cardinality(U) = n + 1, NEW j \in 1 .. n + 1
                 PROVE  HasRank(U, j)
    OBVIOUS
  <2>2. U # {}
    BY <2>1, FS_EmptySet
  <2>3. PICK m \in U : \A y \in U : m <= y
    BY <2>1, <2>2, LeastNumber
  <2>4. PICK V : V = U \ {m}
    OBVIOUS
  <2>5. IsFiniteSet(V) /\ Cardinality(V) = n /\ V \in SUBSET Nat
    <3>1. IsFiniteSet(U \ {m}) /\ Cardinality(U \ {m}) = Cardinality(U) - 1
      BY <2>1, <2>3, FS_RemoveElement
    <3> QED
      BY <2>1, <2>3, <2>4, <3>1
  <2>6. CASE j = 1
    <3>1. {y \in U : y <= m} = {m}
      <4>1. \A y \in U : y \in Nat /\ m \in Nat /\ m <= y
        BY <2>1, <2>3
      <4>2. \A y \in U : y <= m <=> y = m
        BY <4>1
      <4> QED
        BY <2>3, <4>2
    <3>2. Cardinality({m}) = 1
      BY FS_Singleton
    <3> QED
      BY <2>3, <2>6, <3>1, <3>2
  <2>7. CASE j # 1
    <3>1. j - 1 \in 1 .. n
      BY <2>7
    <3>2. PICK x \in V : Cardinality({y \in V : y <= x}) = j - 1
      BY <1>2, <2>5, <3>1
    <3>3. PICK W : W = {y \in V : y <= x}
      OBVIOUS
    <3>4. {y \in U : y <= x} = W \cup {m} /\ m \notin W /\ W \subseteq V /\ x \in U
      BY <2>3, <2>4, <3>2, <3>3
    <3>5. IsFiniteSet(W)
      BY <2>5, <3>4, FS_Subset
    <3>6. Cardinality(W \cup {m}) = Cardinality(W) + 1
      BY <3>4, <3>5, FS_AddElement
    <3>7. Cardinality({y \in U : y <= x}) = j
      BY <3>1, <3>2, <3>3, <3>4, <3>6
    <3> QED
      BY <3>4, <3>7
  <2> QED
    BY <2>6, <2>7
<1>3. Nat \subseteq S
  <2> HIDE DEF S
  <2> QED
    BY <1>1, <1>2, EveryNumber
<1>4. Cardinality(T) \in Nat
  BY FS_CardinalityType
<1> QED
  BY <1>3, <1>4

\* Of the numbers up to n that are in T there is a last one.
LEMMA LastUpTo ==
    ASSUME NEW n \in Nat, NEW T \in SUBSET (1 .. n), T # {}
    PROVE  \E i \in T : \A j \in i + 1 .. n : j \notin T
<1>1. PICK U : U = {n - i : i \in T}
  OBVIOUS
<1>2. U \subseteq Nat /\ U # {}
  <2>1. \A i \in T : n - i \in Nat
    OBVIOUS
  <2> QED
    BY <1>1, <2>1
<1>3. PICK m \in U : \A u \in U : m <= u
  BY <1>2, LeastNumber
<1>4. PICK i \in T : m = n - i
  BY <1>1
<1>5. ASSUME NEW j \in i + 1 .. n, j \in T PROVE FALSE
  <2>1. n - j \in U
    BY <1>1, <1>5
  <2>2. n - i <= n - j
    BY <1>3, <1>4, <2>1
  <2> QED
    BY <1>4, <1>5, <2>2
<1> QED
  BY <1>4, <1>5

-----------------------------------------------------------------------------
(* The two walks over the last stage: what the first has done up to a line  *)
(* is what the second makes of the lines up to there.                       *)

DirFun(steps) ==
    LET dir[i \in 0 .. Len(steps)] ==
          IF i = 0 THEN <<>>
          ELSE IF steps[i].kw = "WORKDIR" THEN Below(dir[i - 1], steps[i]) ELSE dir[i - 1]
    IN  dir

LEMMA DirExists ==
    ASSUME NEW s
    PROVE  \A m \in Nat : \E f : f = [i \in 0 .. m |->
              IF i = 0 THEN <<>>
              ELSE IF s[i].kw = "WORKDIR" THEN Below(f[i - 1], s[i]) ELSE f[i - 1]]
<1> DEFINE After(dir, i) == IF s[i].kw = "WORKDIR" THEN Below(dir, s[i]) ELSE dir
           Good(m, f) == f = [i \in 0 .. m |-> IF i = 0 THEN <<>> ELSE After(f[i - 1], i)]
           S == {m \in Nat : \E f : Good(m, f)}
<1> HIDE DEF After
<1>1. 0 \in S
  <2>1. PICK f : f = [i \in 0 .. 0 |-> <<>>]
    OBVIOUS
  <2>2. Good(0, f)
    BY <2>1
  <2> QED
    BY <2>2
<1>2. ASSUME NEW m \in Nat, m \in S PROVE m + 1 \in S
  <2>1. PICK f : Good(m, f)
    BY <1>2
  <2>2. PICK g : g = [n \in 0 .. m + 1 |-> IF n = m + 1 THEN After(f[m], m + 1) ELSE f[n]]
    OBVIOUS
  <2>3. ASSUME NEW n \in 0 .. m + 1 PROVE g[n] = IF n = 0 THEN <<>> ELSE After(g[n - 1], n)
    <3>1. CASE n = m + 1
      <4>1. n # 0 /\ m \in 0 .. m + 1 /\ m # m + 1 /\ n - 1 = m /\ m + 1 \in 0 .. m + 1
        BY <3>1
      <4>2. g[m] = f[m] /\ g[n] = After(f[m], n)
        BY <2>2, <3>1, <4>1
      <4> QED
        BY <4>1, <4>2
    <3>2. CASE n # m + 1
      <4>1. n \in 0 .. m /\ (n # 0 => n - 1 \in 0 .. m /\ n - 1 \in 0 .. m + 1 /\ n - 1 # m + 1)
        BY <3>2
      <4>2. g[n] = f[n] /\ (n # 0 => g[n - 1] = f[n - 1])
        BY <2>2, <3>2, <4>1
      <4>3. f[n] = IF n = 0 THEN <<>> ELSE After(f[n - 1], n)
        BY <2>1, <4>1
      <4> QED
        BY <4>2, <4>3
    <3> QED
      BY <3>1, <3>2
  <2>4. Good(m + 1, g)
    BY <2>2, <2>3
  <2> QED
    BY <2>4
<1> HIDE DEF Good
<1>3. Nat \subseteq S
  <2> HIDE DEF S
  <2> QED
    BY <1>1, <1>2, EveryNumber
<1> QED
  BY <1>3 DEF Good, After

LEMMA DirUnfolds ==
    ASSUME NEW s, Len(s) \in Nat
    PROVE  /\ DirFun(s)[0] = <<>>
           /\ \A i \in 1 .. Len(s) :
                DirFun(s)[i] = IF s[i].kw = "WORKDIR" THEN Below(DirFun(s)[i - 1], s[i]) ELSE DirFun(s)[i - 1]
<1> DEFINE Good(f) == f = [i \in 0 .. Len(s) |->
              IF i = 0 THEN <<>>
              ELSE IF s[i].kw = "WORKDIR" THEN Below(f[i - 1], s[i]) ELSE f[i - 1]]
<1>1. \E f : Good(f)
  BY DirExists
<1>2. DirFun(s) = CHOOSE g : Good(g)
  BY DEF DirFun
<1>3. Good(DirFun(s))
  <2> HIDE DEF Good
  <2> QED
    BY <1>1, <1>2
<1> HIDE DEF DirFun
<1>4. DirFun(s)[0] = <<>>
  BY <1>3
<1>5. \A i \in 1 .. Len(s) :
        DirFun(s)[i] = IF s[i].kw = "WORKDIR" THEN Below(DirFun(s)[i - 1], s[i]) ELSE DirFun(s)[i - 1]
  BY <1>3
<1> QED
  BY <1>4, <1>5

IsSet(steps, kw, k, i) == steps[i].kw = kw /\ steps[i].arg = k
\* c is the value that ENV, or else the arguments of the build, give k before
\* line n + 1.
IsConfigured(steps, k, n, c) ==
    \/ \E i \in 1 .. n : IsSet(steps, "ENV", k, i) /\ steps[i].val = c /\ \A j \in i + 1 .. n : ~IsSet(steps, "ENV", k, j)
    \/ (\A i \in 1 .. n : ~IsSet(steps, "ENV", k, i)) /\ c = BuildArgs[k]

EnvAgrees(steps, env, n) ==
    /\ DOMAIN env = BuildKeys
    /\ \A k \in BuildKeys : \A c : IsConfigured(steps, k, n, c) =>
          \/ env[k] = c \/ (c = "" /\ \E i \in 1 .. n : IsSet(steps, "ARG", k, i))
          \/ k = UserVar /\ \E i \in 1 .. n : steps[i].kw = "USER"

Walked(n) == bDir = DirFun(BuildSteps)[n] /\ EnvAgrees(BuildSteps, bEnv, n)

BuildInv ==
    /\ bLines \in Dockerfiles /\ bStage \in Nat \ {0}
    /\ bAt \in {"body", "compose", "done"} => bStage <= StageCount
    /\ bAt = "body" => bPos \in 1 .. Len(BuildSteps) + 1 /\ Walked(bPos - 1)
    /\ bAt \in {"compose", "done"} => Walked(Len(BuildSteps))
    /\ bAt = "done" => bImage = [env |-> ConfigEnv, dir |-> ConfigDir, cmd |-> ConfigCmd, layers |-> bLayers]

\* What a stage consists of is a sequence, not longer than the Dockerfile.
LEMMA StepsFinite ==
    ASSUME bLines \in Dockerfiles, bStage \in Nat \ {0}, bStage <= StageCount
    PROVE  Len(BuildSteps) \in Nat /\ Len(BuildSteps) <= Len(bLines)
<1>1. Len(bLines) \in Nat
  BY BuildAssumption
<1>2. CASE Froms = {}
  BY <1>1, <1>2 DEF BuildSteps, Body
<1>3. CASE Froms # {}
  <2>1. Froms \in SUBSET Nat /\ Froms \subseteq 1 .. Len(bLines)
    BY <1>1 DEF Froms
  <2>2. IsFiniteSet(Froms) /\ Cardinality(Froms) \in Nat
    <3>1. IsFiniteSet(1 .. Len(bLines))
      BY <1>1, FS_Interval
    <3>2. IsFiniteSet(Froms)
      BY <2>1, <3>1, FS_Subset
    <3> QED
      BY <3>2, FS_CardinalityType
  <2>3. ASSUME NEW k \in 1 .. Cardinality(Froms) PROVE FromAt(k) \in 1 .. Len(bLines)
    <3>1. \E x \in Froms : Cardinality({y \in Froms : y <= x}) = k
      BY <2>1, <2>2, Ranked
    <3>2. FromAt(k) \in Froms
      <4> DEFINE HasRank(x) == Cardinality({j \in Froms : j <= x}) = k
      <4>1. \E x \in Froms : HasRank(x)
        BY <3>1
      <4>2. FromAt(k) = CHOOSE x \in Froms : HasRank(x)
        BY DEF FromAt
      <4> HIDE DEF HasRank
      <4> QED
        BY <4>1, <4>2
    <3>3. \A x \in Froms : x \in 1 .. Len(bLines)
      BY <2>1
    <3> QED
      BY <3>2, <3>3, Zenon
  <2>4. StageCount = Cardinality(Froms)
    BY <1>3 DEF StageCount
  <2>5. PICK next : next = IF bStage = StageCount THEN Len(bLines) ELSE FromAt(bStage + 1) - 1
    OBVIOUS
  <2>6. next \in Int /\ next <= Len(bLines) /\ FromAt(bStage) \in 1 .. Len(bLines) /\ FromAt(1) \in 1 .. Len(bLines)
    <3>1. bStage \in 1 .. Cardinality(Froms) /\ 1 \in 1 .. Cardinality(Froms)
      BY <2>2, <2>4
    <3>2. CASE bStage = StageCount
      BY <1>1, <2>3, <2>5, <3>1, <3>2
    <3>3. CASE bStage # StageCount
      <4>1. bStage + 1 \in 1 .. Cardinality(Froms)
        BY <2>2, <2>4, <3>1, <3>3
      <4> QED
        BY <2>3, <2>5, <3>1, <3>3, <4>1
    <3> QED
      BY <3>2, <3>3
  <2>7. PICK a : a = IF bStage = 1 THEN SubSeq(bLines, 1, FromAt(1) - 1) ELSE <<>>
    OBVIOUS
  <2>8. PICK b : b = SubSeq(bLines, FromAt(bStage) + 1, next)
    OBVIOUS
  <2>9. PICK X : X = {bLines[i] : i \in Int}
    OBVIOUS
  <2>10. a \in Seq(X) /\ Len(a) = (IF bStage = 1 THEN FromAt(1) - 1 ELSE 0)
    <3>1. \A i \in 1 .. FromAt(1) - 1 : bLines[i] \in X
      BY <2>6, <2>9
    <3>2. FromAt(1) - 1 \in Nat
      BY <2>6
    <3>3. /\ SubSeq(bLines, 1, FromAt(1) - 1) \in Seq(X)
          /\ Len(SubSeq(bLines, 1, FromAt(1) - 1)) = IF 1 <= FromAt(1) - 1 THEN FromAt(1) - 1 - 1 + 1 ELSE 0
      BY <3>1, <3>2, SubSeqProperties
    <3>4. Len(SubSeq(bLines, 1, FromAt(1) - 1)) = FromAt(1) - 1
      BY <3>2, <3>3
    <3> QED
      BY <2>7, <3>3, <3>4
  <2>11. b \in Seq(X) /\ Len(b) = IF FromAt(bStage) + 1 <= next THEN next - (FromAt(bStage) + 1) + 1 ELSE 0
    <3>1. \A i \in FromAt(bStage) + 1 .. next : bLines[i] \in X
      BY <2>6, <2>9
    <3>2. FromAt(bStage) + 1 \in Int
      BY <2>6
    <3> QED
      BY <2>6, <2>8, <3>1, <3>2, SubSeqProperties
  <2>12. BuildSteps = a \o b
    BY <1>3, <2>5, <2>7, <2>8 DEF BuildSteps, Body
  <2>13. a \o b \in Seq(X) /\ Len(a \o b) = Len(a) + Len(b)
    BY <2>10, <2>11
  <2>14. Len(a) + Len(b) \in Nat /\ Len(a) + Len(b) <= Len(bLines)
    BY <1>1, <2>6, <2>10, <2>11
  <2> QED
    BY <2>12, <2>13, <2>14
<1> QED
  BY <1>2, <1>3

LEMMA BuildInitInv == BInit => BuildInv
BY DEF BInit, BuildInv

LEMMA NextLine ==
    ASSUME NEW n \in Nat
    PROVE  /\ n + 1 \in 1 .. n + 1 /\ \A i \in 1 .. n + 1 : i \in 1 .. n \/ i = n + 1
           /\ \A i \in 1 .. n : i \in 1 .. n + 1 /\ n + 1 \in i + 1 .. n + 1 /\ \A j \in i + 1 .. n : j \in i + 1 .. n + 1
OBVIOUS

\* The environment after one more line.
LEMMA EnvStep ==
    ASSUME NEW s, NEW n \in Nat, NEW e, EnvAgrees(s, e, n), NEW f, NEW l, l = s[n + 1],
           \/ l.kw = "ENV" /\ f = [e EXCEPT ![l.arg] = l.val]
           \/ l.kw = "ARG" /\ f = [e EXCEPT ![l.arg] = IF @ = "" THEN l.val ELSE @]
           \/ l.kw = "USER" /\ f = [e EXCEPT ![UserVar] = l.arg]
           \/ l.kw \notin {"ENV", "ARG", "USER"} /\ f = e
    PROVE  EnvAgrees(s, f, n + 1)
<1>1. DOMAIN f = BuildKeys
  BY DEF EnvAgrees
<1>2. SUFFICES ASSUME NEW k \in BuildKeys, NEW c, IsConfigured(s, k, n + 1, c)
               PROVE  \/ f[k] = c \/ (c = "" /\ \E i \in 1 .. n + 1 : IsSet(s, "ARG", k, i))
                      \/ k = UserVar /\ \E i \in 1 .. n + 1 : s[i].kw = "USER"
  BY <1>1 DEF EnvAgrees
<1>3. /\ n + 1 \in 1 .. n + 1 /\ \A i \in 1 .. n + 1 : i \in 1 .. n \/ i = n + 1
      /\ \A i \in 1 .. n : i \in 1 .. n + 1 /\ n + 1 \in i + 1 .. n + 1 /\ \A j \in i + 1 .. n : j \in i + 1 .. n + 1
  BY NextLine
<1>4. CASE IsSet(s, "ENV", k, n + 1)
  <2>1. l.kw = "ENV" /\ l.arg = k
    BY <1>4 DEF IsSet
  <2>2. f[k] = l.val
    BY <2>1 DEF EnvAgrees
  <2>3. c = l.val
    <3>1. PICK i \in 1 .. n + 1 : IsSet(s, "ENV", k, i) /\ s[i].val = c /\ \A j \in i + 1 .. n + 1 : ~IsSet(s, "ENV", k, j)
      BY <1>2, <1>3, <1>4 DEF IsConfigured
    <3>2. i = n + 1
      BY <1>3, <1>4, <3>1
    <3> QED
      BY <3>1, <3>2
  <2> QED
    BY <2>2, <2>3
<1>5. CASE ~IsSet(s, "ENV", k, n + 1)
  <2>1. IsConfigured(s, k, n, c)
    <3>1. ASSUME NEW i \in 1 .. n + 1, IsSet(s, "ENV", k, i), s[i].val = c, \A j \in i + 1 .. n + 1 : ~IsSet(s, "ENV", k, j)
          PROVE  IsConfigured(s, k, n, c)
      <4>1. i \in 1 .. n
        BY <1>3, <1>5, <3>1
      <4>2. \A j \in i + 1 .. n : ~IsSet(s, "ENV", k, j)
        BY <1>3, <3>1, <4>1
      <4> QED
        BY <3>1, <4>1, <4>2 DEF IsConfigured
    <3>2. ASSUME \A i \in 1 .. n + 1 : ~IsSet(s, "ENV", k, i), c = BuildArgs[k] PROVE IsConfigured(s, k, n, c)
      BY <1>3, <3>2 DEF IsConfigured
    <3> QED
      BY <1>2, <3>1, <3>2 DEF IsConfigured
  <2>2. \/ e[k] = c \/ (c = "" /\ \E i \in 1 .. n : IsSet(s, "ARG", k, i))
        \/ k = UserVar /\ \E i \in 1 .. n : s[i].kw = "USER"
    BY <2>1 DEF EnvAgrees
  <2>3. CASE c = "" /\ \E i \in 1 .. n : IsSet(s, "ARG", k, i)
    BY <1>3, <2>3
  <2>4. CASE k = UserVar /\ \E i \in 1 .. n : s[i].kw = "USER"
    BY <1>3, <2>4
  <2>5. CASE k = UserVar /\ l.kw = "USER"
    BY <1>3, <2>5
  <2>6. CASE e[k] = c /\ ~(k = UserVar /\ l.kw = "USER")
    <3>1. CASE f[k] = e[k]
      BY <2>6, <3>1
    <3>2. CASE f[k] # e[k]
      <4>1. l.arg = k /\ l.kw \in {"ENV", "ARG"}
        BY <2>6, <3>2 DEF EnvAgrees
      <4>2. l.kw = "ARG"
        BY <1>5, <4>1 DEF IsSet
      <4>3. e[k] = ""
        BY <3>2, <4>1, <4>2 DEF EnvAgrees
      <4>4. IsSet(s, "ARG", k, n + 1)
        BY <4>1, <4>2 DEF IsSet
      <4> QED
        BY <1>3, <2>6, <4>3, <4>4
    <3> QED
      BY <3>1, <3>2
  <2> QED
    BY <2>2, <2>3, <2>4, <2>5, <2>6
<1> QED
  BY <1>4, <1>5

\* An instruction of the body.
LEMMA InstructionStep ==
    ASSUME BuildInv, Run \/ Copy \/ CopyFrom \/ SetEnv \/ Arg \/ User \/ Workdir \/ Metadata
    PROVE  BuildInv'
<1>1. bAt = "body" /\ bPos <= Len(BuildSteps) /\ bAt' = "body" /\ bPos' = bPos + 1
      /\ bLines' = bLines /\ bStage' = bStage /\ bImage' = bImage
  BY DEF Run, Copy, CopyFrom, SetEnv, Arg, User, Workdir, Metadata, InBody, Captured
<1>2. BuildSteps' = BuildSteps /\ StageCount' = StageCount
  BY <1>1 DEF BuildSteps, Body, StageCount, FromAt, Froms
<1>3. Len(BuildSteps) \in Nat
  BY <1>1, StepsFinite DEF BuildInv
<1>4. PICK n : n = bPos - 1
  OBVIOUS
<1>5. n \in Nat /\ bPos = n + 1 /\ bPos' - 1 = n + 1 /\ bPos \in 1 .. Len(BuildSteps) /\ bPos' \in 1 .. Len(BuildSteps) + 1
  BY <1>1, <1>3, <1>4 DEF BuildInv
<1>6. Walked(n)
  BY <1>1, <1>4 DEF BuildInv
<1>7. \/ Cur.kw = "ENV" /\ bEnv' = [bEnv EXCEPT ![Cur.arg] = Cur.val]
      \/ Cur.kw = "ARG" /\ bEnv' = [bEnv EXCEPT ![Cur.arg] = IF @ = "" THEN Cur.val ELSE @]
      \/ Cur.kw = "USER" /\ bEnv' = [bEnv EXCEPT ![UserVar] = Cur.arg]
      \/ Cur.kw \notin {"ENV", "ARG", "USER"} /\ bEnv' = bEnv
  BY DEF Run, Copy, CopyFrom, SetEnv, Arg, User, Workdir, Metadata, InBody, Captured
<1>8. bDir' = IF Cur.kw = "WORKDIR" THEN Below(bDir, Cur) ELSE bDir
  BY DEF Run, Copy, CopyFrom, SetEnv, Arg, User, Workdir, Metadata, InBody, Captured
<1>9. Cur = BuildSteps[n + 1]
  BY <1>5 DEF Cur
<1>10. EnvAgrees(BuildSteps, bEnv', n + 1)
  <2>1. EnvAgrees(BuildSteps, bEnv, n)
    BY <1>6 DEF Walked
  <2> QED
    BY <1>5, <1>7, <1>9, <2>1, EnvStep
<1>11. bDir' = DirFun(BuildSteps)[n + 1]
  <2>1. bDir = DirFun(BuildSteps)[n]
    BY <1>6 DEF Walked
  <2>2. DirFun(BuildSteps)[n + 1] =
          IF BuildSteps[n + 1].kw = "WORKDIR" THEN Below(DirFun(BuildSteps)[n], BuildSteps[n + 1]) ELSE DirFun(BuildSteps)[n]
    <3>1. n + 1 \in 1 .. Len(BuildSteps) /\ (n + 1) - 1 = n
      BY <1>5
    <3> QED
      BY <1>3, <3>1, DirUnfolds
  <2> QED
    BY <1>8, <1>9, <2>1, <2>2
<1>12. Walked(bPos - 1)'
  BY <1>2, <1>5, <1>10, <1>11 DEF Walked
<1> QED
  BY <1>1, <1>2, <1>5, <1>12 DEF BuildInv

LEMMA EnterStageStep == ASSUME BuildInv, EnterStage PROVE BuildInv'
<1>1. /\ bAt' = "body" /\ bPos' = 1 /\ bEnv' = BuildArgs /\ bDir' = <<>> /\ bLines' = bLines /\ bStage' = bStage
      /\ bStage <= StageCount
  BY DEF EnterStage
<1>2. BuildSteps' = BuildSteps /\ StageCount' = StageCount
  BY <1>1 DEF BuildSteps, Body, StageCount, FromAt, Froms
<1>3. Len(BuildSteps) \in Nat
  BY <1>1, StepsFinite DEF BuildInv
<1>4. DirFun(BuildSteps)[0] = <<>>
  BY <1>3, DirUnfolds
<1>5. EnvAgrees(BuildSteps, BuildArgs, 0)
  <2>1. 1 .. 0 = {} /\ DOMAIN BuildArgs = BuildKeys
    BY BuildAssumption
  <2> QED
    BY <2>1 DEF EnvAgrees, IsConfigured
<1>6. Walked(bPos - 1)'
  BY <1>1, <1>2, <1>4, <1>5 DEF Walked
<1> QED
  BY <1>1, <1>2, <1>3, <1>6 DEF BuildInv

LEMMA LeaveStageStep == ASSUME BuildInv, LeaveStage PROVE BuildInv'
<1>1. /\ bAt = "body" /\ bPos > Len(BuildSteps) /\ bLines' = bLines /\ bDir' = bDir /\ bEnv' = bEnv
      /\ \/ bAt' = "compose" /\ bStage' = bStage
         \/ bAt' = "stage" /\ bStage' = bStage + 1
  BY DEF LeaveStage
<1>2. CASE bAt' = "stage" /\ bStage' = bStage + 1
  BY <1>1, <1>2 DEF BuildInv
<1>3. CASE bAt' = "compose" /\ bStage' = bStage
  <2>1. BuildSteps' = BuildSteps /\ StageCount' = StageCount
    BY <1>1, <1>3 DEF BuildSteps, Body, StageCount, FromAt, Froms
  <2>2. Len(BuildSteps) \in Nat
    BY <1>1, StepsFinite DEF BuildInv
  <2>3. bPos - 1 = Len(BuildSteps)
    BY <1>1, <2>2 DEF BuildInv
  <2>4. Walked(Len(BuildSteps))
    BY <1>1, <2>3 DEF BuildInv
  <2>5. Walked(Len(BuildSteps))'
    BY <1>1, <2>1, <2>4 DEF Walked
  <2> QED
    BY <1>1, <1>3, <2>1, <2>5 DEF BuildInv
<1> QED
  BY <1>1, <1>2, <1>3

LEMMA ComposeStep == ASSUME BuildInv, Fail \/ RemoveOld \/ CreateImage PROVE BuildInv'
<1>1. bLines' = bLines /\ bDir' = bDir /\ bEnv' = bEnv /\ bStage' = bStage /\ bLayers' = bLayers
  BY DEF Fail, RemoveOld, CreateImage
<1>2. BuildSteps' = BuildSteps /\ StageCount' = StageCount
  BY <1>1 DEF BuildSteps, Body, StageCount, FromAt, Froms
<1>3. ConfigEnv' = ConfigEnv /\ ConfigDir' = ConfigDir /\ ConfigCmd' = ConfigCmd
  BY <1>2 DEF ConfigEnv, ConfigDir, ConfigCmd, LastOf, Cmds
<1>4. CASE Fail
  BY <1>1, <1>4 DEF Fail, BuildInv
<1>5. ASSUME RemoveOld \/ CreateImage PROVE BuildInv'
  <2>1. bAt = "compose" /\ bAt' \in {"compose", "done"}
    BY <1>5 DEF RemoveOld, CreateImage
  <2>2. Walked(Len(BuildSteps))'
    BY <1>1, <1>2, <2>1 DEF BuildInv, Walked
  <2>3. bAt' = "done" => (bImage = [env |-> ConfigEnv, dir |-> ConfigDir, cmd |-> ConfigCmd, layers |-> bLayers])'
    BY <1>1, <1>3, <1>5 DEF RemoveOld, CreateImage
  <2> QED
    BY <1>1, <1>2, <2>1, <2>2, <2>3 DEF BuildInv
<1> QED
  BY <1>4, <1>5

LEMMA BuildInvStep == BuildInv /\ [BNext]_bVars => BuildInv'
<1> SUFFICES ASSUME BuildInv, [BNext]_bVars PROVE BuildInv'
  OBVIOUS
<1>1. CASE UNCHANGED bVars
  <2>1. /\ bLines' = bLines /\ bStage' = bStage /\ bAt' = bAt /\ bPos' = bPos /\ bEnv' = bEnv /\ bDir' = bDir
        /\ bImage' = bImage /\ bLayers' = bLayers
    BY <1>1 DEF bVars
  <2>2. BuildSteps' = BuildSteps /\ StageCount' = StageCount
    BY <2>1 DEF BuildSteps, Body, StageCount, FromAt, Froms
  <2>3. ConfigEnv' = ConfigEnv /\ ConfigDir' = ConfigDir /\ ConfigCmd' = ConfigCmd
    BY <2>2 DEF ConfigEnv, ConfigDir, ConfigCmd, LastOf, Cmds
  <2> QED
    BY <2>1, <2>2, <2>3 DEF BuildInv, Walked
<1> QED
  BY <1>1, InstructionStep, EnterStageStep, LeaveStageStep, ComposeStep DEF BNext

LEMMA BuildInvSound == BuildInv => ImageMatchesBuild
<1> SUFFICES ASSUME BuildInv, bAt = "done" PROVE ImageMatchesBuild
  BY DEF ImageMatchesBuild
<1>1. bImage = [env |-> ConfigEnv, dir |-> ConfigDir, cmd |-> ConfigCmd, layers |-> bLayers]
  BY DEF BuildInv
<1>2. bImage.env = ConfigEnv /\ bImage.dir = ConfigDir /\ bImage.layers = bLayers
  BY <1>1
<1>3. Walked(Len(BuildSteps)) /\ Len(BuildSteps) \in Nat
  BY StepsFinite DEF BuildInv
<1>4. PICK n : n = Len(BuildSteps)
  OBVIOUS
<1>5. PICK s : s = BuildSteps
  OBVIOUS
<1>6. ConfigDir = DirFun(BuildSteps)[Len(BuildSteps)]
  BY DEF ConfigDir, DirFun
<1>7. ASSUME NEW k \in BuildKeys PROVE IsConfigured(s, k, n, ConfigEnv[k])
  <2>1. PICK T : T = {i \in 1 .. n : IsSet(s, "ENV", k, i)}
    OBVIOUS
  <2>2. LastOf("ENV", k) = {i \in T : \A j \in i + 1 .. n : j \notin T}
    BY <1>3, <1>4, <1>5, <2>1 DEF LastOf, IsSet
  <2>3. CASE T = {}
    <3>1. LastOf("ENV", k) = {}
      BY <2>2, <2>3
    <3>2. ConfigEnv[k] = BuildArgs[k]
      BY <3>1 DEF ConfigEnv
    <3> QED
      BY <2>1, <2>3, <3>2 DEF IsConfigured
  <2>4. CASE T # {}
    <3>1. T \in SUBSET (1 .. n) /\ n \in Nat
      BY <1>3, <1>4, <2>1
    <3>2. LastOf("ENV", k) # {}
      BY <2>2, <2>4, <3>1, LastUpTo
    <3>3. PICK i : i = CHOOSE j \in LastOf("ENV", k) : TRUE
      OBVIOUS
    <3>4. i \in LastOf("ENV", k)
      BY <3>2, <3>3
    <3>5. ConfigEnv[k] = s[i].val
      BY <1>5, <3>2, <3>3 DEF ConfigEnv
    <3>6. i \in T /\ \A j \in i + 1 .. n : j \notin T
      BY <2>2, <3>4
    <3>7. \A j \in i + 1 .. n : ~IsSet(s, "ENV", k, j)
      BY <2>1, <3>1, <3>6
    <3> QED
      BY <2>1, <3>5, <3>6, <3>7 DEF IsConfigured
  <2> QED
    BY <2>3, <2>4
<1>8. ASSUME NEW k \in BuildKeys, bImage.env[k] # bEnv[k]
      PROVE  \/ bImage.env[k] = "" /\ \E i \in 1 .. Len(BuildSteps) : BuildSteps[i].kw = "ARG" /\ BuildSteps[i].arg = k
             \/ k = UserVar /\ \E i \in 1 .. Len(BuildSteps) : BuildSteps[i].kw = "USER"
  <2>1. \/ ConfigEnv[k] = "" /\ \E i \in 1 .. n : IsSet(s, "ARG", k, i)
        \/ k = UserVar /\ \E i \in 1 .. n : s[i].kw = "USER"
    BY <1>2, <1>3, <1>4, <1>5, <1>7, <1>8 DEF Walked, EnvAgrees
  <2> QED
    BY <1>2, <1>4, <1>5, <2>1 DEF IsSet
<1> QED
  BY <1>2, <1>3, <1>6, <1>8 DEF ImageMatchesBuild, Walked

\* The image that is built has the directory, the layers and the variables of the
\* walk that ran its last stage, but for the defaults of ARG and for the user of
\* the build where a USER set one: for any Dockerfiles and arguments (origin/core/src/build.rs, build and execute_stage).
THEOREM ImageAlwaysMatches == BSpec => []ImageMatchesBuild
<1>1. BInit => BuildInv
  BY BuildInitInv
<1>2. BuildInv /\ [BNext]_bVars => BuildInv'
  BY BuildInvStep
<1>3. BuildInv => ImageMatchesBuild
  BY BuildInvSound
<1> QED
  BY <1>1, <1>2, <1>3, PTL DEF BSpec
-----------------------------------------------------------------------------
(* Chisel's calls of language models: the cache has one entry for a prompt *)
(* and it is of the last answer to it, whatever order the entries are in;  *)
(* a call's place in its round says how often it has asked.                *)

CacheEntries == [prompt : Prompts, answer : Nat, at : Nat]
SaidAnswers == [prompt : Prompts, good : BOOLEAN, at : Nat]

\* The cache holds one entry for a prompt, of the last thing that was said of it.
HoldsLastSaid(cache, said) ==
    /\ cache \in Seq(CacheEntries) /\ said \in Seq(SaidAnswers)
    /\ \A i, j \in 1 .. Len(cache) : cache[i].prompt = cache[j].prompt => i = j
    /\ \A i \in 1 .. Len(cache) :
          /\ cache[i].answer \in 1 .. Len(said)
          /\ said[cache[i].answer].prompt = cache[i].prompt /\ said[cache[i].answer].at = cache[i].at
          /\ \A j \in cache[i].answer + 1 .. Len(said) : said[j].prompt # cache[i].prompt

Calls ==
    [at : {"idle", "ask", "sleep", "failed", "answered", "parsed", "unparsable"}, prompt : Prompts \cup {CallResting.prompt},
     attempt : 0 .. MaxRetries, provider : Nat, err : Errors \cup {"none"}, asked : Nat, answer : Nat]

\* A call in its round number `attempt` has asked every provider in each of the
\* rounds before, and in this one those before `provider`.
InRound(call, providers) ==
    /\ call.at \in {"ask", "sleep"} => call.prompt \in Prompts
    /\ providers # 0 =>
          /\ call.at = "ask" => /\ call.provider \in 1 .. providers
                                /\ call.asked = call.attempt * providers + (call.provider - 1)
          /\ call.at \in {"sleep", "failed"} => call.asked = (call.attempt + 1) * providers
          /\ call.at = "sleep" => call.provider = 1
          /\ call.at = "failed" /\ call.err # "Network" => call.attempt = MaxRetries

AnswerInv ==
    /\ aProviders \in Nat /\ aNow \in Nat /\ HoldsLastSaid(aCache, aSaid)
    /\ aCall \in [Callers -> Calls] /\ \A c \in Callers : InRound(aCall[c], aProviders)
-----------------------------------------------------------------------------
\* The entries of a sequence are some of another's, each once.
ComesFrom(new, old, f) ==
    /\ \A i \in 1 .. Len(new) : f[i] \in 1 .. Len(old) /\ new[i] = old[f[i]]
    /\ \A i, j \in 1 .. Len(new) : f[i] = f[j] => i = j

\* What has some of the entries of a cache, in any order, holds what was said
\* last if that does.
LEMMA RearrangedHolds ==
    ASSUME NEW old, NEW said, HoldsLastSaid(old, said), NEW new \in Seq(CacheEntries),
           NEW f, ComesFrom(new, old, f)
    PROVE  HoldsLastSaid(new, said)
<1>1. ASSUME NEW i \in 1 .. Len(new), NEW j \in 1 .. Len(new), new[i].prompt = new[j].prompt PROVE i = j
  <2>1. f[i] \in 1 .. Len(old) /\ f[j] \in 1 .. Len(old) /\ new[i] = old[f[i]] /\ new[j] = old[f[j]]
    BY DEF ComesFrom
  <2>2. f[i] = f[j]
    BY <1>1, <2>1 DEF HoldsLastSaid
  <2> QED
    BY <2>2 DEF ComesFrom
<1>2. ASSUME NEW i \in 1 .. Len(new)
      PROVE  /\ new[i].answer \in 1 .. Len(said)
             /\ said[new[i].answer].prompt = new[i].prompt /\ said[new[i].answer].at = new[i].at
             /\ \A j \in new[i].answer + 1 .. Len(said) : said[j].prompt # new[i].prompt
  <2>1. PICK k \in 1 .. Len(old) : new[i] = old[k]
    BY DEF ComesFrom
  <2> QED
    BY <2>1 DEF HoldsLastSaid
<1> QED
  BY <1>1, <1>2 DEF HoldsLastSaid

LEMMA RemovedAt ==
    ASSUME NEW S, NEW s \in Seq(S), NEW k \in 1 .. Len(s), NEW u, u = RemoveAt(s, k)
    PROVE  /\ u \in Seq(S) /\ Len(u) = Len(s) - 1
           /\ \A i \in 1 .. Len(u) : u[i] = s[IF i < k THEN i ELSE i + 1]
<1>1. PICK n \in Nat : n = Len(s)
  OBVIOUS
<1>2. PICK a : a = SubSeq(s, 1, k - 1)
  OBVIOUS
<1>3. PICK b : b = SubSeq(s, k + 1, n)
  OBVIOUS
<1>4. a \in Seq(S) /\ Len(a) = k - 1 /\ \A i \in 1 .. k - 1 : a[i] = s[i]
  BY <1>1, <1>2
<1>5. b \in Seq(S) /\ Len(b) = n - k /\ \A i \in 1 .. n - k : b[i] = s[k + i]
  BY <1>1, <1>3
<1>6. u = a \o b
  BY <1>1, <1>2, <1>3 DEF RemoveAt
<1>7. u \in Seq(S) /\ Len(u) = n - 1
  BY <1>1, <1>4, <1>5, <1>6
<1>8. ASSUME NEW i \in 1 .. n - 1 PROVE u[i] = s[IF i < k THEN i ELSE i + 1]
  <2>1. CASE i < k
    <3>1. u[i] = a[i]
      BY <1>1, <1>4, <1>5, <1>6, <2>1
    <3> QED
      BY <1>4, <2>1, <3>1
  <2>2. CASE ~(i < k)
    <3>1. u[i] = b[i - (k - 1)]
      BY <1>1, <1>4, <1>5, <1>6, <2>2
    <3>2. i - (k - 1) \in 1 .. n - k /\ k + (i - (k - 1)) = i + 1
      BY <1>1, <2>2
    <3> QED
      BY <1>5, <2>2, <3>1, <3>2
  <2> QED
    BY <2>1, <2>2
<1> QED
  BY <1>1, <1>7, <1>8

\* The place of a prompt that is in the cache.
LEMMA PlaceFound ==
    ASSUME HoldsLastSaid(aCache, aSaid), NEW p, Cached(p)
    PROVE  PlaceOf(p) \in 1 .. Len(aCache) /\ EntryOf(p).prompt = p
<1>1. DOMAIN aCache = 1 .. Len(aCache)
  BY DEF HoldsLastSaid
<1>2. \E i \in DOMAIN aCache : aCache[i].prompt = p
  BY DEF Cached
<1>3. PlaceOf(p) \in DOMAIN aCache /\ aCache[PlaceOf(p)].prompt = p
  BY <1>2 DEF PlaceOf
<1> QED
  BY <1>1, <1>3 DEF EntryOf

\* Without a prompt's entry the cache has the others.
LEMMA ButHolds ==
    ASSUME HoldsLastSaid(aCache, aSaid), NEW p, NEW u, u = EntriesBut(p)
    PROVE  /\ HoldsLastSaid(u, aSaid) /\ \A i \in 1 .. Len(u) : u[i].prompt # p
           /\ Cached(p) => HoldsLastSaid(Append(u, EntryOf(p)), aSaid)
<1>1. aCache \in Seq(CacheEntries) /\ DOMAIN aCache = 1 .. Len(aCache) /\ Len(aCache) \in Nat
  BY DEF HoldsLastSaid
<1>2. CASE ~Cached(p)
  BY <1>1, <1>2 DEF EntriesBut, Cached
<1>3. CASE Cached(p)
  <2>1. PICK n \in Nat : n = Len(aCache)
    BY <1>1
  <2>2. PICK k \in 1 .. n : k = PlaceOf(p) /\ aCache[k].prompt = p /\ EntryOf(p) = aCache[k]
    BY <1>3, <2>1, PlaceFound DEF EntryOf
  <2>3. u = RemoveAt(aCache, k)
    BY <1>3, <2>2 DEF EntriesBut
  <2>4. /\ u \in Seq(CacheEntries) /\ Len(u) = n - 1
        /\ \A i \in 1 .. n - 1 : u[i] = aCache[IF i < k THEN i ELSE i + 1]
    <3>1. aCache \in Seq(CacheEntries) /\ k \in 1 .. Len(aCache)
      BY <1>1, <2>1
    <3>2. /\ u \in Seq(CacheEntries) /\ Len(u) = Len(aCache) - 1
          /\ \A i \in 1 .. Len(u) : u[i] = aCache[IF i < k THEN i ELSE i + 1]
      BY <2>3, <3>1, RemovedAt
    <3> QED
      BY <2>1, <3>2
  <2>5. PICK f : f = [i \in 1 .. n |-> IF i = n THEN k ELSE IF i < k THEN i ELSE i + 1]
    OBVIOUS
  <2>6. \A i \in 1 .. n : f[i] \in 1 .. n /\ (i # n => f[i] # k)
    BY <2>5
  <2>7. \A i, j \in 1 .. n : f[i] = f[j] => i = j
    BY <2>5
  <2>8. \A i \in 1 .. n - 1 : u[i] = aCache[f[i]]
    BY <2>4, <2>5
  <2>9. HoldsLastSaid(u, aSaid)
    <3>1. \A i \in 1 .. n - 1 : i \in 1 .. n
      OBVIOUS
    <3>2. ComesFrom(u, aCache, f)
      BY <2>1, <2>4, <2>6, <2>7, <2>8, <3>1 DEF ComesFrom
    <3> QED
      BY <2>4, <3>2, RearrangedHolds
  <2>10. \A i \in 1 .. n - 1 : u[i].prompt # p
    <3>1. \A i \in 1 .. n : aCache[i].prompt = p => i = k
      BY <2>1, <2>2 DEF HoldsLastSaid
    <3> QED
      BY <2>6, <2>8, <3>1
  <2>11. PICK w : w = Append(u, EntryOf(p))
    OBVIOUS
  <2>12. w \in Seq(CacheEntries) /\ Len(w) = n /\ \A i \in 1 .. n : w[i] = aCache[f[i]]
    <3>1. EntryOf(p) \in CacheEntries
      BY <1>1, <2>1, <2>2
    <3>2. w \in Seq(CacheEntries) /\ Len(w) = n /\ w[n] = EntryOf(p) /\ \A i \in 1 .. n - 1 : w[i] = u[i]
      BY <2>4, <2>11, <3>1
    <3>3. f[n] = k /\ \A i \in 1 .. n : i = n \/ i \in 1 .. n - 1
      BY <2>2, <2>5
    <3> QED
      BY <2>2, <2>8, <3>2, <3>3
  <2>13. HoldsLastSaid(w, aSaid)
    <3>1. ComesFrom(w, aCache, f)
      BY <2>1, <2>6, <2>7, <2>12 DEF ComesFrom
    <3> QED
      BY <2>12, <3>1, RearrangedHolds
  <2> QED
    BY <2>4, <2>9, <2>10, <2>11, <2>13
<1> QED
  BY <1>2, <1>3

LEMMA GetHolds == ASSUME HoldsLastSaid(aCache, aSaid), NEW p PROVE HoldsLastSaid(CacheAfterGet(p), aSaid)
<1>1. PICK u : u = EntriesBut(p)
  OBVIOUS
<1> QED
  BY <1>1, ButHolds DEF CacheAfterGet

LEMMA LastOfRange ==
    \A m \in Nat : \A a \in 1 .. m :
       a \in 1 .. m + 1 /\ \A j \in a + 1 .. m + 1 : j = m + 1 \/ (j \in a + 1 .. m /\ j \in 1 .. m)
OBVIOUS

\* An answer that is kept is the last thing said of its prompt.
LEMMA PutHolds ==
    ASSUME AnswerInv, NEW p \in Prompts, NEW answer \in SaidAnswers, answer.prompt = p, answer.at = aNow,
           NEW said, said = Append(aSaid, answer)
    PROVE  HoldsLastSaid(CacheAfterPut(p, Len(said)), said)
<1>1. PICK u : u = EntriesBut(p)
  OBVIOUS
<1>2. HoldsLastSaid(u, aSaid) /\ \A i \in 1 .. Len(u) : u[i].prompt # p
  BY <1>1, ButHolds DEF AnswerInv
<1>3. PICK m \in Nat : m = Len(aSaid)
  BY DEF AnswerInv, HoldsLastSaid
<1>4. said \in Seq(SaidAnswers) /\ Len(said) = m + 1 /\ said[m + 1] = answer /\ \A i \in 1 .. m : said[i] = aSaid[i]
  BY <1>3 DEF AnswerInv, HoldsLastSaid
<1>5. PICK n \in Nat : n = Len(u)
  BY <1>2 DEF HoldsLastSaid
<1>6. PICK e \in CacheEntries : e = [prompt |-> p, answer |-> m + 1, at |-> aNow]
  <2>1. [prompt |-> p, answer |-> m + 1, at |-> aNow] \in CacheEntries
    BY <1>3 DEF CacheEntries, AnswerInv
  <2> QED
    BY <2>1
<1>7. e.prompt = p /\ e.answer = m + 1 /\ e.at = aNow
  BY <1>6
<1>8. PICK w : w = Append(u, e)
  OBVIOUS
<1>9. w \in Seq(CacheEntries) /\ Len(w) = n + 1 /\ w[n + 1] = e /\ \A i \in 1 .. n : w[i] = u[i]
  BY <1>2, <1>5, <1>8 DEF HoldsLastSaid
<1>10. \A i \in 1 .. n + 1 : i = n + 1 \/ i \in 1 .. n
  OBVIOUS
<1>11. \A i, j \in 1 .. n + 1 : w[i].prompt = w[j].prompt => i = j
  <2>1. \A i, j \in 1 .. n : u[i].prompt = u[j].prompt => i = j
    BY <1>2, <1>5 DEF HoldsLastSaid
  <2>2. \A i \in 1 .. n : u[i].prompt # p
    BY <1>2, <1>5
  <2> QED
    BY <1>7, <1>9, <1>10, <2>1, <2>2
<1>12. ASSUME NEW i \in 1 .. n + 1
       PROVE  /\ w[i].answer \in 1 .. m + 1
              /\ said[w[i].answer].prompt = w[i].prompt /\ said[w[i].answer].at = w[i].at
              /\ \A j \in w[i].answer + 1 .. m + 1 : said[j].prompt # w[i].prompt
  <2>1. CASE i = n + 1
    <3>1. \A j \in m + 1 + 1 .. m + 1 : FALSE
      OBVIOUS
    <3>2. w[i] = e /\ m + 1 \in 1 .. m + 1
      BY <1>9, <2>1
    <3> QED
      BY <1>4, <1>7, <3>1, <3>2
  <2>2. CASE i \in 1 .. n
    <3>1. PICK a \in 1 .. m : a = u[i].answer
      BY <1>2, <1>3, <1>5, <2>2 DEF HoldsLastSaid
    <3>2. w[i] = u[i] /\ u[i].prompt # p
      BY <1>2, <1>5, <1>9, <2>2
    <3>3. aSaid[a].prompt = u[i].prompt /\ aSaid[a].at = u[i].at /\ \A j \in a + 1 .. m : aSaid[j].prompt # u[i].prompt
      BY <1>2, <1>3, <1>5, <2>2, <3>1 DEF HoldsLastSaid
    <3>4. a \in 1 .. m + 1 /\ \A j \in a + 1 .. m + 1 : j = m + 1 \/ (j \in a + 1 .. m /\ j \in 1 .. m)
      BY <1>3, <3>1, LastOfRange
    <3> QED
      BY <1>4, <3>1, <3>2, <3>3, <3>4
  <2> QED
    BY <1>10, <2>1, <2>2
<1>13. HoldsLastSaid(w, said)
  BY <1>4, <1>9, <1>11, <1>12 DEF HoldsLastSaid
<1>14. PICK t : t = Tail(w)
  OBVIOUS
<1>15. t \in Seq(CacheEntries) /\ Len(t) = n /\ \A i \in 1 .. n : t[i] = w[i + 1]
  BY <1>5, <1>9, <1>14
<1>16. PICK f : f = [i \in 1 .. n |-> i + 1]
  OBVIOUS
<1>17. \A i \in 1 .. n : f[i] \in 1 .. n + 1 /\ t[i] = w[f[i]]
  BY <1>15, <1>16
<1>18. \A i, j \in 1 .. n : f[i] = f[j] => i = j
  BY <1>16
<1>19. HoldsLastSaid(t, said)
  <2>1. ComesFrom(t, w, f)
    BY <1>9, <1>15, <1>17, <1>18 DEF ComesFrom
  <2> QED
    BY <1>13, <1>15, <2>1, RearrangedHolds
<1>20. CacheAfterPut(p, Len(said)) = IF Len(w) > CacheCap THEN t ELSE w
  BY <1>1, <1>4, <1>6, <1>8, <1>14 DEF CacheAfterPut
<1> QED
  BY <1>13, <1>19, <1>20

LEMMA RoundComplete == \A n, q \in Nat : n * q + (q - 1) + 1 = (n + 1) * q /\ n * q \in Nat
OBVIOUS

LEMMA RoundBegins == \A n, q \in Nat : (n + 1) * q = (n + 1) * q + (1 - 1) /\ 0 = 0 * q + (1 - 1)
OBVIOUS

LEMMA RestingInRound == CallResting \in Calls /\ \A q : InRound(CallResting, q)
BY OrchestratorAssumption DEF CallResting, Calls, InRound, NoAnswer

LEMMA AnswersInit == AInit => AnswerInv
<1> SUFFICES ASSUME AInit PROVE AnswerInv
  OBVIOUS
<1>1. HoldsLastSaid(aCache, aSaid)
  BY DEF AInit, HoldsLastSaid
<1> QED
  BY <1>1, RestingInRound, OrchestratorAssumption DEF AInit, AnswerInv

\* What one call does to itself leaves the others in their rounds.
LEMMA CallMoves ==
    ASSUME AnswerInv, NEW c \in Callers, NEW call \in Calls, InRound(call, aProviders),
           aCall' = [aCall EXCEPT ![c] = call], aProviders' = aProviders, aNow' = aNow,
           HoldsLastSaid(aCache', aSaid')
    PROVE  AnswerInv'
BY DEF AnswerInv

LEMMA AsksInRound ==
    ASSUME AnswerInv, NEW c \in Callers, Ask(c) PROVE AnswerInv'
<1>1. PICK p \in Prompts :
         /\ aCache' = CacheAfterGet(p)
         /\ aCall' = [aCall EXCEPT ![c] =
              IF Cached(p) /\ IsFresh(EntryOf(p))
                THEN [CallResting EXCEPT !.at = "answered", !.prompt = p, !.answer = EntryOf(p).answer]
                ELSE [CallResting EXCEPT !.at = "ask", !.prompt = p]]
  BY DEF Ask
<1>2. aProviders' = aProviders /\ aNow' = aNow /\ aSaid' = aSaid
  BY DEF Ask
<1>3. HoldsLastSaid(aCache', aSaid')
  BY <1>1, <1>2, GetHolds DEF AnswerInv
<1>4. CASE Cached(p) /\ IsFresh(EntryOf(p))
  <2>1. PICK a \in Nat : a = EntryOf(p).answer
    <3>1. PICK i \in 1 .. Len(aCache) : EntryOf(p) = aCache[i]
      BY <1>4, PlaceFound DEF AnswerInv, EntryOf
    <3> QED
      BY <3>1 DEF AnswerInv, HoldsLastSaid, CacheEntries
  <2>2. PICK call : call = [CallResting EXCEPT !.at = "answered", !.prompt = p, !.answer = a]
    OBVIOUS
  <2>3. call \in Calls /\ InRound(call, aProviders)
    BY <2>2, RestingInRound DEF Calls, InRound
  <2> QED
    BY <1>1, <1>2, <1>3, <1>4, <2>1, <2>2, <2>3, CallMoves
<1>5. CASE ~(Cached(p) /\ IsFresh(EntryOf(p)))
  <2>1. PICK call : call = [CallResting EXCEPT !.at = "ask", !.prompt = p]
    OBVIOUS
  <2>2. call \in Calls /\ call.at = "ask" /\ call.prompt = p /\ call.provider = 1 /\ call.asked = 0 /\ call.attempt = 0
    BY <2>1, RestingInRound DEF Calls, CallResting
  <2>3. InRound(call, aProviders)
    BY <2>2, RoundBegins DEF AnswerInv, InRound
  <2> QED
    BY <1>1, <1>2, <1>3, <1>5, <2>1, <2>2, <2>3, CallMoves
<1> QED
  BY <1>4, <1>5

LEMMA AnswersInRound ==
    ASSUME AnswerInv, NEW c \in Callers, ProviderAnswers(c) PROVE AnswerInv'
<1>1. PICK p \in Prompts : p = aCall[c].prompt
  BY DEF ProviderAnswers, AnswerInv, InRound
<1>2. PICK answer \in SaidAnswers :
        answer.prompt = p /\ answer.at = aNow /\ aSaid' = Append(aSaid, answer)
  <2>1. PICK good \in BOOLEAN : aSaid' = Append(aSaid, [prompt |-> p, good |-> good, at |-> aNow])
    BY <1>1 DEF ProviderAnswers
  <2>2. [prompt |-> p, good |-> good, at |-> aNow] \in SaidAnswers
    BY DEF SaidAnswers, AnswerInv
  <2> QED
    BY <2>1, <2>2
<1>3. HoldsLastSaid(aCache', aSaid')
  BY <1>1, <1>2, PutHolds DEF ProviderAnswers
<1>4. PICK a \in Nat : a = Len(aSaid')
  BY <1>3 DEF HoldsLastSaid
<1>5. PICK n \in Nat : n = aCall[c].asked + 1
  BY DEF AnswerInv, Calls
<1>6. PICK call : call = [aCall[c] EXCEPT !.at = "answered", !.answer = a, !.asked = n]
  OBVIOUS
<1>7. call \in Calls
  BY <1>6 DEF AnswerInv, Calls
<1>8. InRound(call, aProviders)
  BY <1>6 DEF AnswerInv, Calls, InRound
<1>9. aCall' = [aCall EXCEPT ![c] = call] /\ aProviders' = aProviders /\ aNow' = aNow
  BY <1>4, <1>5, <1>6 DEF ProviderAnswers, AnswerInv
<1> QED
  BY <1>3, <1>7, <1>8, <1>9, CallMoves

\* A round that failed as a whole is slept over or is the last.
LEMMA RoundFails ==
    ASSUME NEW providers \in Nat, NEW call \in Calls, call.prompt \in Prompts, NEW err \in Errors,
           providers # 0 => call.asked = (call.attempt + 1) * providers /\ call.provider = 1
    PROVE  AfterRound(call, err) \in Calls /\ InRound(AfterRound(call, err), providers)
<1>1. CASE err = "RateLimit" \/ (err = "Unavailable" /\ call.attempt < MaxRetries)
  <2>1. AfterRound(call, err) = [call EXCEPT !.at = "sleep", !.err = err]
    BY <1>1 DEF AfterRound
  <2> QED
    BY <2>1 DEF Calls, InRound
<1>2. CASE ~(err = "RateLimit" \/ (err = "Unavailable" /\ call.attempt < MaxRetries))
  <2>1. AfterRound(call, err) = [call EXCEPT !.at = "failed", !.err = err]
    BY <1>2 DEF AfterRound
  <2>2. err # "Network" => call.attempt = MaxRetries
    BY <1>2, OrchestratorAssumption DEF Errors, Calls
  <2> QED
    BY <2>1, <2>2 DEF Calls, InRound
<1> QED
  BY <1>1, <1>2

LEMMA FailsInRound ==
    ASSUME AnswerInv, NEW c \in Callers, ProviderFails(c) PROVE AnswerInv'
<1>1. PICK call \in Calls : call = aCall[c] /\ call.at = "ask" /\ InRound(call, aProviders)
  BY DEF ProviderFails, AnswerInv
<1>2. PICK q \in Nat : q = aProviders /\ q # 0
  BY DEF ProviderFails, AnswerInv
<1>3. /\ call.provider \in 1 .. q /\ call.asked = call.attempt * q + (call.provider - 1)
      /\ call.prompt \in Prompts /\ call.attempt \in Nat
  BY <1>1, <1>2, OrchestratorAssumption DEF InRound, Calls
<1>4. PICK n \in Nat : n = call.asked + 1
  BY DEF Calls
<1>5. PICK k \in Nat : k = call.provider + 1
  BY DEF Calls
<1>6. PICK err \in Errors :
        aCall' = [aCall EXCEPT ![c] =
              IF call.provider < q THEN [[call EXCEPT !.asked = n] EXCEPT !.provider = k]
              ELSE AfterRound([[call EXCEPT !.asked = n] EXCEPT !.provider = 1], err)]
  BY <1>1, <1>2, <1>4, <1>5 DEF ProviderFails, Calls
<1>7. HoldsLastSaid(aCache', aSaid') /\ aProviders' = aProviders /\ aNow' = aNow
  BY DEF ProviderFails, AnswerInv
<1>8. CASE call.provider < q
  <2>1. PICK next : next = [[call EXCEPT !.asked = n] EXCEPT !.provider = k]
    OBVIOUS
  <2>2. next \in Calls /\ next.at = "ask" /\ next.prompt \in Prompts /\ next.attempt = call.attempt
        /\ next.provider = k /\ next.asked = n
    BY <1>1, <1>3, <2>1 DEF Calls
  <2>3. next.provider \in 1 .. q /\ next.asked = call.attempt * q + (next.provider - 1)
    BY <1>2, <1>3, <1>4, <1>5, <1>8, <2>2, RoundComplete
  <2>4. InRound(next, aProviders)
    BY <1>2, <2>2, <2>3 DEF InRound
  <2> QED
    BY <1>6, <1>7, <1>8, <2>1, <2>2, <2>4, CallMoves
<1>9. CASE ~(call.provider < q)
  <2>1. PICK done : done = [[call EXCEPT !.asked = n] EXCEPT !.provider = 1]
    OBVIOUS
  <2>2. done \in Calls /\ done.prompt \in Prompts /\ done.attempt = call.attempt
        /\ done.provider = 1 /\ done.asked = n
    BY <1>1, <1>3, <2>1 DEF Calls
  <2>3. call.provider = q
    BY <1>2, <1>3, <1>9
  <2>4. done.asked = (done.attempt + 1) * q
    BY <1>2, <1>3, <1>4, <2>2, <2>3, RoundComplete
  <2>5. PICK next \in Calls : next = AfterRound(done, err) /\ InRound(next, q)
    BY <2>2, <2>4, RoundFails
  <2> QED
    BY <1>2, <1>6, <1>7, <1>9, <2>1, <2>5, CallMoves
<1> QED
  BY <1>8, <1>9

LEMMA OthersInRound ==
    ASSUME AnswerInv, NEW c \in Callers, NoProviders(c) \/ Wake(c) \/ Parse(c) \/ EndCall(c) PROVE AnswerInv'
<1>1. HoldsLastSaid(aCache', aSaid') /\ aProviders' = aProviders /\ aNow' = aNow
  BY DEF NoProviders, Wake, Parse, EndCall, AnswerInv
<1>2. PICK call \in Calls : call = aCall[c] /\ InRound(call, aProviders)
  BY DEF AnswerInv
<1>3. CASE NoProviders(c)
  <2>1. aProviders = 0 /\ call.at = "ask" /\ call.prompt \in Prompts
    BY <1>2, <1>3 DEF NoProviders, InRound
  <2>2. PICK next \in Calls : next = AfterRound(call, "Unavailable") /\ InRound(next, aProviders)
    BY <2>1, RoundFails DEF Errors
  <2> QED
    BY <1>1, <1>2, <1>3, <2>2, CallMoves DEF NoProviders, AnswerInv
<1>4. CASE Wake(c) /\ call.attempt < MaxRetries
  <2>1. PICK n \in 0 .. MaxRetries : n = call.attempt + 1 /\ call.attempt \in Nat
    BY <1>4, OrchestratorAssumption DEF Calls
  <2>2. PICK next : next = [call EXCEPT !.at = "ask", !.attempt = n]
    OBVIOUS
  <2>3. call.at = "sleep" /\ call.prompt \in Prompts
    BY <1>2, <1>4 DEF Wake, InRound
  <2>4. next \in Calls /\ next.at = "ask" /\ next.prompt = call.prompt /\ next.attempt = call.attempt + 1
        /\ next.provider = call.provider /\ next.asked = call.asked /\ call.attempt \in Nat
    BY <2>1, <2>2 DEF Calls
  <2>5. aProviders # 0 => /\ next.provider \in 1 .. aProviders
                          /\ next.asked = next.attempt * aProviders + (next.provider - 1)
    BY <1>2, <2>3, <2>4, RoundBegins DEF InRound, AnswerInv
  <2>6. InRound(next, aProviders)
    BY <2>3, <2>4, <2>5 DEF InRound
  <2>7. aCall' = [aCall EXCEPT ![c] = next]
    BY <1>2, <1>4, <2>1, <2>2 DEF Wake, AnswerInv
  <2> QED
    BY <1>1, <2>4, <2>6, <2>7, CallMoves
<1>5. CASE Wake(c) /\ ~(call.attempt < MaxRetries)
  <2>1. PICK next : next = [call EXCEPT !.at = "failed"]
    OBVIOUS
  <2>2. call.at = "sleep" /\ call.attempt = MaxRetries
    BY <1>2, <1>5, OrchestratorAssumption DEF Wake, Calls
  <2>3. next \in Calls /\ InRound(next, aProviders)
    BY <1>2, <2>1, <2>2 DEF InRound, Calls
  <2>4. aCall' = [aCall EXCEPT ![c] = next]
    BY <1>2, <1>5, <2>1 DEF Wake, AnswerInv
  <2> QED
    BY <1>1, <2>3, <2>4, CallMoves
<1>6. CASE Parse(c)
  <2>1. PICK next : next = [call EXCEPT !.at = IF aSaid[call.answer].good THEN "parsed" ELSE "unparsable"]
    OBVIOUS
  <2>2. next \in Calls /\ InRound(next, aProviders)
    BY <2>1 DEF Calls, InRound
  <2>3. aCall' = [aCall EXCEPT ![c] = next]
    BY <1>2, <1>6, <2>1 DEF Parse, AnswerInv
  <2> QED
    BY <1>1, <2>2, <2>3, CallMoves
<1>7. CASE EndCall(c)
  BY <1>1, <1>7, RestingInRound, CallMoves DEF EndCall
<1> QED
  BY <1>3, <1>4, <1>5, <1>6, <1>7

LEMMA AnswersStep == AnswerInv /\ [ANext]_aVars => AnswerInv'
<1> SUFFICES ASSUME AnswerInv, [ANext]_aVars PROVE AnswerInv'
  OBVIOUS
<1>1. CASE PassTime
  BY <1>1 DEF PassTime, AnswerInv
<1>2. CASE UNCHANGED aVars
  BY <1>2 DEF aVars, AnswerInv
<1>3. CASE \E c \in Callers :
         Ask(c) \/ ProviderAnswers(c) \/ ProviderFails(c) \/ NoProviders(c) \/ Wake(c) \/ Parse(c) \/ EndCall(c)
  BY <1>3, AsksInRound, AnswersInRound, FailsInRound, OthersInRound
<1> QED
  BY <1>1, <1>2, <1>3 DEF ANext

\* What the prompt cache holds is the last thing a provider said of that prompt,
\* at the time the entry bears, and a call that gives up has gone through whole
\* rounds of providers, all it has unless its error is one that does not pass
\* (chisel/core/src/ai: cache.rs, retry.rs).
THEOREM AnswersAlwaysSound == ASpec => []AnswersSound
<1>1. AnswerInv => AnswersSound
  <2> SUFFICES ASSUME AnswerInv PROVE AnswersSound
    OBVIOUS
  <2>1. CacheIsLastSaid
    <3>1. DOMAIN aCache = 1 .. Len(aCache)
      BY DEF AnswerInv, HoldsLastSaid
    <3> QED
      BY <3>1 DEF AnswerInv, HoldsLastSaid, CacheIsLastSaid
  <2>2. GivesUpLast
    BY DEF AnswerInv, InRound, GivesUpLast
  <2> QED
    BY <2>1, <2>2 DEF AnswersSound
<1> QED
  BY <1>1, AnswersInit, AnswersStep, PTL DEF ASpec
-----------------------------------------------------------------------------
(* A manifest.  The types: all maps are of services, all frames of a name  *)
(* and a service.                                                          *)

CallFrames == [name : MNames, service : MService]
ManifestTypes ==
    /\ mIn \in Manifests /\ IsServiceMap(mIn.services) /\ IsServiceMap(mIn.files)
    /\ mAt \in {"read", "filter", "graph", "waves", "ready", "failed"}
    /\ IsServiceMap(mServices) /\ mTodo \subseteq DOMAIN mIn.services /\ mVisited \subseteq MNames
    /\ mStack \in Seq(CallFrames) /\ mResolved \subseteq MNames /\ mWaves \in Seq(SUBSET MNames)

LEMMA ServiceFields ==
    ASSUME NEW s \in MService
    PROVE  /\ s.base \in MNames \cup {Unset} /\ s.deps \in Seq(MNames)
           /\ s.main \in MNames \cup {Unset} /\ s.restart \in {"never", "always"}
           /\ s.env \in [EnvKeys -> MNames \cup {Unset}]
           /\ s.profiles \in SUBSET {"dev", "prod"} /\ s.type \in {"oci", "wasm", "process"}
BY DEF MService

LEMMA MergeIsService ==
    ASSUME NEW child \in MService, NEW base \in MService, NEW type \in {"oci", "wasm", "process"}
    PROVE  Merge(child, base, type) \in MService
<1> DEFINE E == [k \in EnvKeys |-> Over(child.env[k], base.env[k])]
           D == IF child.deps = <<>> THEN base.deps ELSE child.deps
           P == IF child.profiles = {} THEN base.profiles ELSE child.profiles
           M == Over(child.main, base.main)
           R == IF child.restart = "never" THEN base.restart ELSE child.restart
<1>1. E \in [EnvKeys -> MNames \cup {Unset}] /\ M \in MNames \cup {Unset}
  BY ServiceFields DEF Over
<1>2. D \in Seq(MNames)
  BY ServiceFields
<1>3. P \in SUBSET {"dev", "prod"} /\ R \in {"never", "always"}
  BY ServiceFields
<1>4. PICK m : m = [base EXCEPT !.type = type, !.main = M, !.restart = R, !.env = E, !.deps = D, !.profiles = P]
  OBVIOUS
<1>5. Merge(child, base, type) = m
  <2> HIDE DEF E, D, P, M, R
  <2> QED
    BY <1>4 DEF Merge, E, D, P, M, R
<1> HIDE DEF E, D, P, M, R
<1>6. m \in MService
  BY <1>1, <1>2, <1>3, <1>4 DEF MService
<1> QED
  BY <1>5, <1>6

LEMMA MergedIsService ==
    ASSUME NEW child \in MService, NEW base \in MService PROVE Merged(child, base) \in MService
BY MergeIsService DEF Merged, MergeOci, MergeWasm, MergeProcessOverWasm

LEMMA ManifestInitTypes == MInit => ManifestTypes
BY ExtendsAssumption DEF MInit, ManifestTypes

LEMMA TopOfStack ==
    ASSUME mStack \in Seq(CallFrames), mStack # <<>>
    PROVE  /\ Len(mStack) \in Nat \ {0} /\ Len(mStack) \in DOMAIN mStack
           /\ Top \in CallFrames /\ Top.name \in MNames /\ Top.service \in MService
           /\ Top = mStack[Len(mStack)]
<1>1. Len(mStack) \in Nat \ {0} /\ Len(mStack) \in DOMAIN mStack
  OBVIOUS
<1>2. Top \in CallFrames
  BY <1>1 DEF Top
<1> QED
  BY <1>1, <1>2 DEF Top, CallFrames

LEMMA BaseIsService ==
    ASSUME ManifestTypes, NEW s \in MService, s.base \in DOMAIN SourceOf(s)
    PROVE  BaseOf(s) \in MService /\ s.base \in MNames /\ s.base # Unset
BY ExtendsAssumption DEF ManifestTypes, IsServiceMap, BaseOf, SourceOf

LEMMA ManifestStepTypes == ManifestTypes /\ [MNext]_mVars => ManifestTypes'
<1> SUFFICES ASSUME ManifestTypes, [MNext]_mVars PROVE ManifestTypes'
  OBVIOUS
<1>1. ASSUME NEW n \in mTodo, ResolveService(n) PROVE ManifestTypes'
  <2>1. n \in MNames /\ mIn.services[n] \in MService
    BY DEF ManifestTypes, IsServiceMap
  <2>2. [name |-> n, service |-> mIn.services[n]] \in CallFrames
    BY <2>1 DEF CallFrames
  <2>3. mStack' \in Seq(CallFrames)
    BY <1>1, <2>2 DEF ResolveService
  <2> QED
    BY <1>1, <2>3 DEF ResolveService, wavesVars, ManifestTypes
<1>2. CASE ResolveBase
  <2>1. Top.service.base \in MNames /\ BaseOf(Top.service) \in MService
    BY <1>2, TopOfStack, BaseIsService DEF ResolveBase, ManifestTypes
  <2>2. mStack' \in Seq(CallFrames)
    BY <1>2, <2>1 DEF ResolveBase, CallFrames, ManifestTypes
  <2> QED
    BY <1>2, <2>2 DEF ResolveBase, wavesVars, ManifestTypes
<1>3. CASE MergeBase
  <2>1. Top.name \in MNames /\ Merged(Top.service, BaseOf(Top.service)) \in MService
    BY <1>3, TopOfStack, BaseIsService, MergedIsService DEF MergeBase, ManifestTypes
  <2>2. mStack' \in Seq(CallFrames)
    BY <1>3, TopOfStack DEF MergeBase, ManifestTypes
  <2>3. IsServiceMap(mServices')
    BY <1>3, <2>1 DEF MergeBase, ManifestTypes, IsServiceMap
  <2> QED
    BY <1>3, <2>1, <2>2, <2>3 DEF MergeBase, wavesVars, ManifestTypes
<1>4. CASE ResolveFails
  BY <1>4 DEF ResolveFails, wavesVars, extendsVars, ManifestTypes
<1>5. CASE Extended
  BY <1>5 DEF Extended, wavesVars, extendsVars, ManifestTypes
<1>6. CASE FilterByProfiles
  <2>1. IsServiceMap(mServices')
    BY <1>6 DEF FilterByProfiles, ManifestTypes, IsServiceMap
  <2> QED
    BY <1>6, <2>1 DEF FilterByProfiles, wavesVars, extendsVars, ManifestTypes
<1>7. CASE Graph
  BY <1>7 DEF Graph, extendsVars, ManifestTypes
<1>8. CASE NextWave
  <2>1. PICK wave : wave = {n \in DOMAIN mServices : mDegree[n] = 0 /\ n \notin mResolved}
    OBVIOUS
  <2>2. wave \in SUBSET MNames
    BY <2>1 DEF ManifestTypes, IsServiceMap
  <2>3. /\ UNCHANGED <<mIn, mServices, extendsVars>> /\ mAt' \in {"ready", "failed", mAt}
        /\ mResolved' \in {mResolved, mResolved \cup wave} /\ mWaves' \in {mWaves, Append(mWaves, wave)}
    BY <1>8, <2>1 DEF NextWave
  <2> QED
    BY <2>2, <2>3 DEF extendsVars, ManifestTypes
<1>9. CASE UNCHANGED mVars
  BY <1>9 DEF mVars, ManifestTypes
<1> QED
  BY <1>1, <1>2, <1>3, <1>4, <1>5, <1>6, <1>7, <1>8, <1>9 DEF MNext
-----------------------------------------------------------------------------
(* Resolving `extends`, as long as the services of other files extend      *)
(* nothing                                                                 *)

FilesExtendNothing == \A n \in DOMAIN mIn.files : mIn.files[n].base = Unset

\* The call for n has nothing to do, or nothing any more.
Settled(n) == mIn.services[n].base = Unset \/ n \in mVisited

\* What was visited could be merged, after its base, and is on no circle ...
VisitedInv ==
    /\ mVisited \subseteq DOMAIN mIn.services
    /\ \A n \in mVisited : /\ Extends(n) /\ mIn.services[n].base # Unset
                           /\ ~mIn.services[n].file => Settled(mIn.services[n].base)
    /\ \A names \in SUBSET mVisited : ~Circular(names)
\* ... a call is for a service of the manifest as it was read, and the next
\* one for its base ...
FrameOf(f) ==
    /\ f.name \in DOMAIN mIn.services /\ f.service = mIn.services[f.name]
    /\ f.service.base # Unset /\ f.name \notin mVisited
Linked(f, g) == ~f.service.file /\ f.service.base = g.name
StackInv ==
    /\ \A i \in 1 .. Len(mStack) : FrameOf(mStack[i])
    /\ \A i, j \in 1 .. Len(mStack) : mStack[i].name = mStack[j].name => i = j
    /\ \A i \in 1 .. Len(mStack) - 1 : Linked(mStack[i], mStack[i + 1])
\* ... nothing was left out ...
LeftInv == \A n \in DOMAIN mIn.services : n \in mTodo \/ Settled(n) \/ n \in Resolving
\* ... and the services are those that were read, with the visited ones merged.
AsVisited(n) == IF n \in mVisited THEN AsExtended(n) ELSE mIn.services[n]
MergedInv == mServices = [n \in DOMAIN mIn.services |-> AsVisited(n)]

ResolveInv == VisitedInv /\ StackInv /\ LeftInv /\ MergedInv
ExtendsInv ==
    /\ FilesExtendNothing /\ mAt = "read" => ResolveInv
    /\ mAt \notin {"read", "failed"} => mStack = <<>>
    /\ ExtendsSound
-----------------------------------------------------------------------------
LEMMA TopIsFrame ==
    ASSUME ManifestTypes, StackInv, mStack # <<>>
    PROVE  FrameOf(Top) /\ Top.name \in Resolving
<1>1. Len(mStack) \in 1 .. Len(mStack) /\ Len(mStack) \in DOMAIN mStack /\ Top = mStack[Len(mStack)]
  BY TopOfStack DEF ManifestTypes
<1> QED
  BY <1>1 DEF StackInv, Resolving

\* None of the calls under way is for a service that was visited.
LEMMA ResolvingNotVisited ==
    ASSUME ManifestTypes, StackInv
    PROVE  \A n \in Resolving : n \in DOMAIN mIn.services /\ n \notin mVisited /\ mIn.services[n].base # Unset
BY DEF StackInv, FrameOf, Resolving, ManifestTypes

\* A base that is in another file extends nothing, one of the manifest is
\* done with when the call for it returns at once.
LEMMA BaseReturns ==
    ASSUME ManifestTypes, FilesExtendNothing, ResolveInv, NEW s \in MService, s.base \in DOMAIN SourceOf(s)
    PROVE  /\ s.file => ReturnsAtOnce(s.base, BaseOf(s))
           /\ ~s.file => /\ BaseOf(s) = mIn.services[s.base]
                         /\ ReturnsAtOnce(s.base, BaseOf(s)) <=> Settled(s.base)
                         /\ s.base \in DOMAIN mIn.services
<1>1. CASE s.file
  BY <1>1 DEF FilesExtendNothing, BaseOf, SourceOf, ReturnsAtOnce
<1>2. CASE ~s.file
  <2>1. BaseOf(s) = mIn.services[s.base] /\ s.base \in DOMAIN mIn.services
    BY <1>2 DEF BaseOf, SourceOf
  <2>2. s.base \in mVisited => s.base \notin Resolving
    BY ResolvingNotVisited DEF ResolveInv
  <2> QED
    BY <1>2, <2>1, <2>2 DEF ReturnsAtOnce, Settled
<1> QED
  BY <1>1, <1>2

\* A service that is merged after its base closes no circle.
LEMMA NoNewCircle ==
    ASSUME ManifestTypes, VisitedInv, NEW t \in DOMAIN mIn.services, t \notin mVisited,
           ~mIn.services[t].file => mIn.services[t].base # t /\ Settled(mIn.services[t].base)
    PROVE  \A names \in SUBSET (mVisited \cup {t}) : ~Circular(names)
<1> SUFFICES ASSUME NEW names \in SUBSET (mVisited \cup {t}), Circular(names) PROVE FALSE
  OBVIOUS
<1>1. \A n \in names : n \in DOMAIN mIn.services /\ mIn.services[n].base \in names /\ mIn.services[n].base # Unset
  BY ExtendsAssumption DEF Circular, VisitedInv, ManifestTypes, IsServiceMap
<1>2. ASSUME NEW n \in names PROVE mIn.services[n].base \in mVisited
  <2>1. PICK b \in names : b = mIn.services[n].base
    BY <1>1
  <2>2. Settled(b)
    BY <1>2, <2>1 DEF Circular, VisitedInv
  <2> QED
    BY <1>1, <2>1, <2>2 DEF Settled
<1>3. names \cap mVisited # {}
  BY <1>1, <1>2 DEF Circular
<1>4. Circular(names \cap mVisited)
  BY <1>1, <1>2, <1>3 DEF Circular
<1> QED
  BY <1>4 DEF VisitedInv

\* The manifest as it was read stays.
LEMMA SameManifest ==
    ASSUME mIn' = mIn
    PROVE  /\ \A n : (Extends(n)' <=> Extends(n)) /\ AsExtended(n)' = AsExtended(n)
           /\ \A names : Circular(names)' <=> Circular(names)
           /\ CanExtend' <=> CanExtend
           /\ FilesExtendNothing' <=> FilesExtendNothing
<1>1. \A n : (Extends(n)' <=> Extends(n)) /\ AsExtended(n)' = AsExtended(n)
  BY DEF Extends, AsExtended, BaseOf, SourceOf
<1>2. \A names : Circular(names)' <=> Circular(names)
  BY DEF Circular
<1>3. CanExtend' <=> CanExtend
  BY <1>1, <1>2 DEF CanExtend
<1> QED
  BY <1>1, <1>2, <1>3 DEF FilesExtendNothing

LEMMA SameVisited ==
    ASSUME mIn' = mIn, mVisited' = mVisited
    PROVE  /\ \A n : Settled(n)' <=> Settled(n)
           /\ \A f : FrameOf(f)' <=> FrameOf(f)
           /\ VisitedInv' <=> VisitedInv
           /\ mServices' = mServices => (MergedInv' <=> MergedInv)
<1>1. (\A n : Settled(n)' <=> Settled(n)) /\ (\A f : FrameOf(f)' <=> FrameOf(f))
  BY DEF Settled, FrameOf
<1>2. VisitedInv' <=> VisitedInv
  BY <1>1, SameManifest DEF VisitedInv
<1>3. \A n : AsVisited(n)' = AsVisited(n)
  BY SameManifest DEF AsVisited
<1>4. mServices' = mServices => (MergedInv' <=> MergedInv)
  BY <1>3 DEF MergedInv
<1> QED
  BY <1>1, <1>2, <1>4

LEMMA ResolveServiceKeeps ==
    ASSUME ManifestTypes, ResolveInv, NEW n \in mTodo, ResolveService(n) PROVE ResolveInv'
<1>1. n \in DOMAIN mIn.services /\ mStack = <<>> /\ Resolving = {}
  BY DEF ResolveService, ManifestTypes, Resolving
<1>2. UNCHANGED <<mIn, mVisited, mServices>> /\ mTodo' = mTodo \ {n}
  BY DEF ResolveService
<1>3. VisitedInv' /\ MergedInv'
  BY <1>2, SameVisited DEF ResolveInv
<1>4. CASE ReturnsAtOnce(n, mIn.services[n])
  <2>1. mStack' = <<>>
    BY <1>4 DEF ResolveService
  <2>2. Settled(n)
    BY <1>4 DEF ReturnsAtOnce, Settled
  <2>3. LeftInv'
    BY <1>1, <1>2, <2>2, SameVisited DEF LeftInv, ResolveInv
  <2>4. StackInv'
    BY <2>1 DEF StackInv
  <2> QED
    BY <1>3, <2>3, <2>4 DEF ResolveInv
<1>5. CASE ~ReturnsAtOnce(n, mIn.services[n])
  <2>1. PICK f : f = [name |-> n, service |-> mIn.services[n]]
    OBVIOUS
  <2>2. mStack' = <<f>> /\ f.name = n /\ f.service = mIn.services[n]
    BY <1>5, <2>1 DEF ResolveService
  <2>3. Resolving' = {n}
    BY <2>2 DEF Resolving
  <2>4. FrameOf(f)
    BY <1>1, <1>5, <2>2 DEF ReturnsAtOnce, FrameOf
  <2>5. LeftInv'
    BY <1>1, <1>2, <2>3, SameVisited DEF LeftInv, ResolveInv
  <2>6. StackInv'
    BY <1>2, <2>2, <2>4, SameVisited DEF StackInv, Linked
  <2> QED
    BY <1>3, <2>5, <2>6 DEF ResolveInv
<1> QED
  BY <1>4, <1>5

LEMMA ResolveBaseKeeps ==
    ASSUME ManifestTypes, FilesExtendNothing, ResolveInv, ResolveBase PROVE ResolveInv'
<1> DEFINE b == Top.service.base
           g == [name |-> b, service |-> BaseOf(Top.service)]
<1>1. /\ mStack # <<>> /\ b \in DOMAIN SourceOf(Top.service) /\ ~ReturnsAtOnce(b, BaseOf(Top.service))
      /\ b \notin Resolving /\ mStack' = Append(mStack, g)
      /\ UNCHANGED <<mIn, mVisited, mServices, mTodo>>
  BY DEF ResolveBase
<1>2. VisitedInv' /\ MergedInv'
  BY <1>1, SameVisited DEF ResolveInv
<1>3. Top.service \in MService /\ FrameOf(Top)
  BY <1>1, TopOfStack, TopIsFrame DEF ManifestTypes, ResolveInv
<1>4. ~Top.service.file /\ b \in DOMAIN mIn.services /\ BaseOf(Top.service) = mIn.services[b] /\ ~Settled(b)
  BY <1>1, <1>3, BaseReturns
<1>5. FrameOf(g) /\ g.name = b
  BY <1>4 DEF FrameOf, Settled
<1>6. PICK n \in Nat \ {0} : n = Len(mStack) /\ DOMAIN mStack = 1 .. n /\ Top = mStack[n]
  BY <1>1, TopOfStack DEF ManifestTypes
<1>7. Len(mStack') = n + 1 /\ mStack'[n + 1] = g /\ \A i \in 1 .. n : mStack'[i] = mStack[i]
  BY <1>1, <1>6 DEF ManifestTypes
<1>8. \A i \in 1 .. n : mStack[i].name # b
  BY <1>1, <1>6 DEF Resolving
<1>9. \A i \in 1 .. n + 1 : i # n + 1 => i \in 1 .. n
  OBVIOUS
<1>10. Linked(Top, g)
  BY <1>4, <1>5 DEF Linked
<1> HIDE DEF b, g
<1>11. StackInv'
  <2>1. \A i \in 1 .. n + 1 : FrameOf(mStack'[i])
    BY <1>5, <1>6, <1>7, <1>9 DEF StackInv, ResolveInv
  <2>2. \A i, j \in 1 .. n + 1 : mStack'[i].name = mStack'[j].name => i = j
    BY <1>5, <1>6, <1>7, <1>8, <1>9 DEF StackInv, ResolveInv
  <2>3. \A i \in 1 .. n : Linked(mStack'[i], mStack'[i + 1])
    <3>1. SUFFICES ASSUME NEW i \in 1 .. n PROVE Linked(mStack'[i], mStack'[i + 1])
      OBVIOUS
    <3>2. CASE i = n
      BY <1>6, <1>7, <1>10, <3>2
    <3>3. CASE i # n
      <4>1. i \in 1 .. n - 1 /\ i + 1 \in 1 .. n
        BY <3>3
      <4> QED
        BY <1>6, <1>7, <4>1 DEF StackInv, ResolveInv
    <3> QED
      BY <3>2, <3>3
  <2> QED
    BY <1>1, <1>7, <2>1, <2>2, <2>3 DEF StackInv, Linked, FrameOf
<1>12. Resolving \subseteq Resolving'
  BY <1>6, <1>7 DEF Resolving
<1>13. LeftInv'
  BY <1>1, <1>12, SameVisited DEF LeftInv, ResolveInv
<1> QED
  BY <1>2, <1>11, <1>13 DEF ResolveInv

LEMMA MergeBaseKeeps ==
    ASSUME ManifestTypes, FilesExtendNothing, ResolveInv, MergeBase PROVE ResolveInv'
<1>1. PICK s \in MService : s = Top.service
  BY TopOfStack DEF MergeBase, ManifestTypes
<1>2. PICK t \in DOMAIN mIn.services : t = Top.name /\ s = mIn.services[t] /\ s.base # Unset /\ t \notin mVisited
  BY <1>1, TopIsFrame DEF MergeBase, ResolveInv, FrameOf
<1>3. /\ mStack # <<>> /\ s.base \in DOMAIN SourceOf(s) /\ ReturnsAtOnce(s.base, BaseOf(s)) /\ Mergeable(s, BaseOf(s))
      /\ mServices' = [n \in DOMAIN mServices \cup {t} |-> IF n = t THEN Merged(s, BaseOf(s)) ELSE mServices[n]]
      /\ mVisited' = mVisited \cup {t} /\ mStack' = SubSeq(mStack, 1, Len(mStack) - 1)
      /\ UNCHANGED <<mIn, mTodo>>
  BY <1>1, <1>2 DEF MergeBase
<1>4. ~s.file => Settled(s.base) /\ s.base # t
  BY <1>1, <1>2, <1>3, BaseReturns DEF Settled
<1>5. \A n : Settled(n) => Settled(n)'
  BY <1>3 DEF Settled
<1>6. Extends(t) /\ AsExtended(t) = Merged(s, BaseOf(s))
  BY <1>2, <1>3 DEF Extends, AsExtended
<1>7. VisitedInv'
  <2>1. mVisited' \subseteq DOMAIN mIn.services
    BY <1>3 DEF ResolveInv, VisitedInv
  <2>2. \A n \in mVisited' : /\ Extends(n) /\ mIn.services[n].base # Unset
                             /\ ~mIn.services[n].file => Settled(mIn.services[n].base)
    BY <1>2, <1>3, <1>4, <1>6 DEF ResolveInv, VisitedInv
  <2>3. \A names \in SUBSET (mVisited \cup {t}) : ~Circular(names)
    BY <1>2, <1>4, NoNewCircle DEF ResolveInv
  <2>4. \A n \in mVisited' : ~mIn.services[n].file => Settled(mIn.services[n].base)'
    BY <1>3, <1>5, <2>2 DEF Settled
  <2> QED
    BY <1>3, <2>1, <2>2, <2>3, <2>4, SameManifest DEF VisitedInv
<1>8. PICK n \in Nat \ {0} : n = Len(mStack) /\ DOMAIN mStack = 1 .. n /\ Top = mStack[n]
  BY <1>3, TopOfStack DEF ManifestTypes
<1>9. n - 1 \in Nat /\ Len(mStack') = n - 1 /\ \A i \in 1 .. n - 1 : mStack'[i] = mStack[i] /\ i \in 1 .. n /\ i # n
  <2>1. mStack \in Seq(CallFrames) /\ n - 1 \in Nat /\ n - 1 <= Len(mStack) /\ mStack' = SubSeq(mStack, 1, n - 1)
    BY <1>3, <1>8 DEF ManifestTypes
  <2>2. Len(mStack') = n - 1 /\ \A i \in 1 .. n - 1 : mStack'[i] = mStack[i]
    BY <2>1
  <2>3. \A i \in 1 .. n - 1 : i \in 1 .. n /\ i # n
    OBVIOUS
  <2> QED
    BY <2>1, <2>2, <2>3
<1>10. \A i \in 1 .. n - 1 : FrameOf(mStack[i]) /\ mStack[i].name # t
  <2>1. SUFFICES ASSUME NEW i \in 1 .. n - 1 PROVE FrameOf(mStack[i]) /\ mStack[i].name # t
    OBVIOUS
  <2>2. i \in 1 .. n /\ n \in 1 .. n /\ i # n /\ mStack[n].name = t
    BY <1>2, <1>8, <1>9
  <2> QED
    BY <1>8, <2>2 DEF ResolveInv, StackInv
<1>11. StackInv'
  <2>1. \A i \in 1 .. n - 1 : /\ mStack'[i].name \in DOMAIN mIn.services /\ mStack'[i].service = mIn.services[mStack'[i].name]
                              /\ mStack'[i].service.base # Unset /\ mStack'[i].name \notin mVisited'
    BY <1>3, <1>9, <1>10 DEF FrameOf
  <2>2. \A i, j \in 1 .. n - 1 : mStack'[i].name = mStack'[j].name => i = j
    BY <1>8, <1>9 DEF ResolveInv, StackInv
  <2>3. \A i \in 1 .. n - 1 - 1 : i \in 1 .. n - 1 /\ i + 1 \in 1 .. n - 1
    BY <1>9
  <2>4. \A i \in 1 .. n - 1 - 1 : Linked(mStack'[i], mStack'[i + 1])
    BY <1>8, <1>9, <2>3 DEF ResolveInv, StackInv
  <2> QED
    BY <1>3, <1>9, <2>1, <2>2, <2>4 DEF StackInv, FrameOf, Linked
<1>12. Resolving \subseteq Resolving' \cup {t}
  <2>1. SUFFICES ASSUME NEW i \in 1 .. n PROVE mStack[i].name \in Resolving' \cup {t}
    BY <1>8 DEF Resolving
  <2>2. DOMAIN mStack' = 1 .. n - 1
    BY <1>3, <1>8 DEF ManifestTypes
  <2>3. CASE i = n
    BY <1>2, <1>8, <2>3
  <2>4. CASE i # n
    <3>1. i \in 1 .. n - 1
      BY <2>4
    <3> QED
      BY <1>9, <2>2, <3>1 DEF Resolving
  <2> QED
    BY <2>3, <2>4
<1>13. LeftInv'
  BY <1>3, <1>5, <1>12 DEF LeftInv, ResolveInv, Settled
<1>14. MergedInv'
  <2>1. mServices = [m \in DOMAIN mIn.services |-> AsVisited(m)]
    BY DEF ResolveInv, MergedInv
  <2>2. DOMAIN mServices = DOMAIN mIn.services /\ DOMAIN mServices \cup {t} = DOMAIN mIn.services
    BY <2>1
  <2>3. \A m : m # t => AsVisited(m)' = AsVisited(m)
    BY <1>3, SameManifest DEF AsVisited
  <2>4. AsVisited(t)' = Merged(s, BaseOf(s))
    BY <1>3, <1>6, SameManifest DEF AsVisited
  <2>5. mServices' = [m \in DOMAIN mIn.services |-> IF m = t THEN Merged(s, BaseOf(s)) ELSE mServices[m]]
    BY <1>3, <2>2
  <2>6. \A m \in DOMAIN mIn.services : mServices'[m] = AsVisited(m)'
    BY <2>1, <2>3, <2>4, <2>5
  <2> QED
    BY <1>3, <2>5, <2>6 DEF MergedInv
<1> QED
  BY <1>7, <1>11, <1>13, <1>14 DEF ResolveInv

\* A name that is met again while its call is under way closes a circle.
LEMMA CircleFound ==
    ASSUME ManifestTypes, StackInv, mStack # <<>>, ~Top.service.file, Top.service.base \in Resolving
    PROVE  \E names \in SUBSET DOMAIN mIn.services : Circular(names)
<1>1. PICK n \in Nat \ {0} : n = Len(mStack) /\ DOMAIN mStack = 1 .. n /\ Top = mStack[n]
  BY TopOfStack DEF ManifestTypes
<1>2. PICK i \in 1 .. n : mStack[i].name = Top.service.base
  BY <1>1 DEF Resolving
<1>3. PICK names : names = {mStack[k].name : k \in i .. n}
  OBVIOUS
<1>4. \A k \in i .. n : k \in 1 .. n /\ FrameOf(mStack[k])
  BY <1>1 DEF StackInv
<1>5. ASSUME NEW k \in i .. n
      PROVE  ~mIn.services[mStack[k].name].file /\ mIn.services[mStack[k].name].base \in names
  <2>1. mStack[k].service = mIn.services[mStack[k].name]
    BY <1>4 DEF FrameOf
  <2>2. CASE k = n
    BY <1>1, <1>2, <1>3, <2>1, <2>2
  <2>3. CASE k # n
    <3>1. k \in 1 .. n - 1 /\ k + 1 \in i .. n
      BY <2>3
    <3>2. Linked(mStack[k], mStack[k + 1])
      BY <1>1, <3>1 DEF StackInv
    <3> QED
      BY <1>3, <2>1, <3>1, <3>2 DEF Linked
  <2> QED
    BY <2>2, <2>3
<1>6. names # {} /\ names \in SUBSET DOMAIN mIn.services
  BY <1>3, <1>4 DEF FrameOf
<1>7. \A m \in names : ~mIn.services[m].file /\ mIn.services[m].base \in names
  BY <1>3, <1>5
<1> QED
  BY <1>6, <1>7 DEF Circular

LEMMA FailsRightly ==
    ASSUME ManifestTypes, FilesExtendNothing, ResolveInv, ResolveFails PROVE ~CanExtend
<1>1. PICK s \in MService : s = Top.service
  BY TopOfStack DEF ResolveFails, ManifestTypes
<1>2. PICK t \in DOMAIN mIn.services : t = Top.name /\ s = mIn.services[t] /\ s.base # Unset
  BY <1>1, TopIsFrame DEF ResolveFails, ResolveInv, FrameOf
<1>3. CASE s.base \notin DOMAIN SourceOf(s)
  BY <1>2, <1>3 DEF CanExtend, Extends
<1>4. CASE s.base \in DOMAIN SourceOf(s)
  <2>1. CASE ReturnsAtOnce(s.base, BaseOf(s))
    <3>1. ~Mergeable(s, BaseOf(s))
      BY <1>1, <1>4, <2>1 DEF ResolveFails
    <3> QED
      BY <1>2, <3>1 DEF CanExtend, Extends
  <2>2. CASE ~ReturnsAtOnce(s.base, BaseOf(s))
    <3>1. s.base \in Resolving /\ mStack # <<>>
      BY <1>1, <1>4, <2>2 DEF ResolveFails
    <3>2. ~s.file
      BY <1>4, <2>2, BaseReturns
    <3> QED
      BY <1>1, <3>1, <3>2, CircleFound DEF CanExtend, ResolveInv
  <2> QED
    BY <2>1, <2>2
<1> QED
  BY <1>3, <1>4

LEMMA ExtendedRightly ==
    ASSUME ManifestTypes, ResolveInv, Extended
    PROVE  CanExtend /\ mServices = [n \in DOMAIN mIn.services |-> AsExtended(n)]
<1>1. mTodo = {} /\ Resolving = {}
  BY DEF Extended, Resolving
<1>2. \A n \in DOMAIN mIn.services : Settled(n)
  BY <1>1 DEF ResolveInv, LeftInv
<1>3. \A n \in DOMAIN mIn.services : Extends(n)
  BY <1>2 DEF Settled, ResolveInv, VisitedInv, Extends
<1>4. ASSUME NEW names \in SUBSET DOMAIN mIn.services, Circular(names) PROVE FALSE
  <2>1. \A n \in names : mIn.services[n].base # Unset
    BY <1>4, ExtendsAssumption DEF Circular, ManifestTypes, IsServiceMap
  <2>2. names \in SUBSET mVisited
    BY <1>2, <2>1 DEF Settled
  <2> QED
    BY <1>4, <2>2 DEF ResolveInv, VisitedInv
<1>5. \A n \in DOMAIN mIn.services : AsVisited(n) = AsExtended(n)
  BY <1>2 DEF AsVisited, Settled, AsExtended
<1> QED
  BY <1>3, <1>4, <1>5 DEF CanExtend, ResolveInv, MergedInv

LEMMA ExtendsInit == MInit => ExtendsInv
<1> SUFFICES ASSUME MInit PROVE ExtendsInv
  OBVIOUS
<1>1. ManifestTypes
  BY ManifestInitTypes
<1>2. VisitedInv /\ StackInv /\ LeftInv
  BY DEF MInit, VisitedInv, StackInv, LeftInv, Circular
<1>3. MergedInv
  <2>1. \A n \in DOMAIN mIn.services : AsVisited(n) = mIn.services[n]
    BY DEF MInit, AsVisited
  <2> QED
    BY <1>1, <2>1 DEF MInit, MergedInv, ManifestTypes, IsServiceMap
<1> QED
  BY <1>2, <1>3 DEF MInit, ExtendsInv, ResolveInv, ExtendsSound

LEMMA ExtendsStep == ManifestTypes /\ ExtendsInv /\ [MNext]_mVars => ExtendsInv'
<1> SUFFICES ASSUME ManifestTypes, ExtendsInv, [MNext]_mVars PROVE ExtendsInv'
  OBVIOUS
<1>1. mIn' = mIn
  BY DEF MNext, mVars, ResolveService, ResolveBase, MergeBase, ResolveFails, Extended, FilterByProfiles, Graph, NextWave
<1>2. CASE (\E n \in mTodo : ResolveService(n)) \/ ResolveBase \/ MergeBase
  <2>1. mAt = "read" /\ mAt' = "read"
    BY <1>2 DEF ResolveService, ResolveBase, MergeBase
  <2>2. FilesExtendNothing => ResolveInv'
    BY <1>2, <2>1, ResolveServiceKeeps, ResolveBaseKeeps, MergeBaseKeeps DEF ExtendsInv
  <2> QED
    BY <1>1, <2>1, <2>2, SameManifest DEF ExtendsInv, ExtendsSound
<1>3. CASE ResolveFails
  <2>1. mAt = "read" /\ mAt' = "failed"
    BY <1>3 DEF ResolveFails
  <2>2. FilesExtendNothing => ~CanExtend
    BY <1>3, <2>1, FailsRightly DEF ExtendsInv
  <2> QED
    BY <1>1, <2>1, <2>2, SameManifest DEF ExtendsInv, ExtendsSound, FilesExtendNothing
<1>4. CASE Extended
  <2>1. mAt = "read" /\ mAt' = "filter" /\ mStack' = <<>> /\ mServices' = mServices
    BY <1>4 DEF Extended, extendsVars
  <2>2. FilesExtendNothing => CanExtend /\ mServices = [n \in DOMAIN mIn.services |-> AsExtended(n)]
    BY <1>4, <2>1, ExtendedRightly DEF ExtendsInv
  <2>3. FilesExtendNothing => mServices' = [n \in DOMAIN mIn'.services |-> AsExtended(n)']
    BY <1>1, <2>1, <2>2, SameManifest
  <2> QED
    BY <1>1, <2>1, <2>2, <2>3, SameManifest DEF ExtendsInv, ExtendsSound, FilesExtendNothing
<1>5. CASE FilterByProfiles \/ Graph \/ NextWave
  <2>1. mAt \in {"filter", "graph", "waves"} /\ mAt' \in {"graph", "waves", "ready", "failed"} /\ mStack' = mStack
    BY <1>5 DEF FilterByProfiles, Graph, NextWave, extendsVars
  <2> QED
    BY <2>1 DEF ExtendsInv, ExtendsSound
<1>6. CASE UNCHANGED mVars
  <2>1. /\ UNCHANGED <<mIn, mAt, mServices, mTodo, mStack, mVisited>>
    BY <1>6 DEF mVars
  <2>2. ResolveInv' <=> ResolveInv
    BY <2>1, SameVisited DEF ResolveInv, StackInv, FrameOf, Linked, LeftInv, Settled, Resolving
  <2>3. [n \in DOMAIN mIn.services |-> AsExtended(n)]' = [n \in DOMAIN mIn.services |-> AsExtended(n)]
    BY <2>1, SameManifest
  <2> QED
    BY <2>1, <2>2, <2>3, SameManifest DEF ExtendsInv, ExtendsSound, FilesExtendNothing
<1> QED
  BY <1>2, <1>3, <1>4, <1>5, <1>6 DEF MNext
-----------------------------------------------------------------------------
(* The waves                                                               *)

\* The places at which n lists a dependency outside of names.
DepsOf(n) == mServices[n].deps
OpenPlaces(n, names) == {i \in DOMAIN DepsOf(n) : DepsOf(n)[i] \notin names}

\* The degree of a service counts what it still waits for ...
DegreeInv ==
    /\ \A n \in DOMAIN mServices : \A i \in DOMAIN DepsOf(n) : DepsOf(n)[i] \in DOMAIN mServices
    /\ mDegree = [n \in DOMAIN mServices |-> Cardinality(OpenPlaces(n, mResolved))]
\* ... what is resolved is in the waves, with all it depends on ...
InWaves ==
    /\ mResolved \subseteq DOMAIN mServices
    /\ \A n \in mResolved : OpenPlaces(n, mResolved) = {} /\ \E i \in DOMAIN mWaves : n \in mWaves[i]
    /\ \A i \in DOMAIN mWaves : mWaves[i] \subseteq mResolved
\* ... the waves are layers so far ...
Layered(n, i, j) ==
    /\ n \in mWaves[j] => i = j
    /\ \A d \in Range(DepsOf(n)) : \A k \in DOMAIN mWaves : d \in mWaves[k] => k < i
    /\ i > 1 => \E d \in Range(DepsOf(n)) : d \in mWaves[i - 1]
LayersInv == \A i, j \in DOMAIN mWaves : \A n \in mWaves[i] : Layered(n, i, j)
\* ... and no service could have been in an earlier one.
WaitsInv ==
    \A n \in DOMAIN mServices \ mResolved :
       mWaves # <<>> => \E d \in Range(DepsOf(n)) : d \in mWaves[Len(mWaves)] \/ d \notin mResolved

WavesInv ==
    /\ mAt \in {"read", "filter", "graph"} => mWaves = <<>> /\ mResolved = {} /\ mDegree = <<>>
    /\ mAt = "waves" => DegreeInv /\ InWaves /\ LayersInv /\ WaitsInv
    /\ WavesAreLayers
-----------------------------------------------------------------------------
LEMMA DepsAreSequences ==
    ASSUME ManifestTypes, NEW n \in DOMAIN mServices
    PROVE  /\ DepsOf(n) \in Seq(MNames) /\ Len(DepsOf(n)) \in Nat /\ DOMAIN DepsOf(n) = 1 .. Len(DepsOf(n))
           /\ \A names : OpenPlaces(n, names) \in SUBSET (1 .. Len(DepsOf(n)))
<1>1. DepsOf(n) \in Seq(MNames)
  BY ServiceFields DEF ManifestTypes, IsServiceMap, DepsOf
<1> QED
  BY <1>1 DEF OpenPlaces

LEMMA PlacesFinite ==
    ASSUME ManifestTypes, NEW n \in DOMAIN mServices, NEW p \in SUBSET DOMAIN DepsOf(n)
    PROVE  IsFiniteSet(p) /\ Cardinality(p) \in Nat /\ (Cardinality(p) = 0 <=> p = {})
<1>1. PICK k \in Nat : k = Len(DepsOf(n)) /\ DOMAIN DepsOf(n) = 1 .. k
  BY DepsAreSequences
<1>2. 1 \in Int /\ k \in Int
  BY <1>1
<1>3. IsFiniteSet(1 .. k)
  BY <1>2, FS_Interval
<1>4. p \in SUBSET (1 .. k)
  BY <1>1
<1>5. IsFiniteSet(p)
  BY <1>3, <1>4, FS_Subset
<1> QED
  BY <1>5, FS_CardinalityType, FS_EmptySet

\* At first a service waits for all it lists.
LEMMA FirstDegree ==
    ASSUME ManifestTypes, NEW n \in DOMAIN mServices
    PROVE  Cardinality(OpenPlaces(n, {})) = Len(DepsOf(n))
<1>1. PICK k \in Nat : k = Len(DepsOf(n)) /\ DOMAIN DepsOf(n) = 1 .. k
  BY DepsAreSequences
<1>2. 1 \in Int /\ k \in Int
  BY <1>1
<1>3. Cardinality(1 .. k) = IF 1 > k THEN 0 ELSE k - 1 + 1
  BY <1>2, FS_Interval
<1>4. OpenPlaces(n, {}) = 1 .. k
  BY <1>1 DEF OpenPlaces
<1> QED
  BY <1>1, <1>3, <1>4

\* A wave takes from what a service waits for as often as it is listed.
LEMMA WaveTakes ==
    ASSUME ManifestTypes, NEW n \in DOMAIN mServices, NEW done, NEW wave, wave \cap done = {}
    PROVE  /\ Cardinality(OpenPlaces(n, done)) \in Nat /\ TimesIn(wave, n) \in Nat
           /\ TimesIn(wave, n) <= Cardinality(OpenPlaces(n, done))
           /\ Cardinality(OpenPlaces(n, done \cup wave)) = Cardinality(OpenPlaces(n, done)) - TimesIn(wave, n)
<1>1. PICK O : O = OpenPlaces(n, done)
  OBVIOUS
<1>2. PICK I : I = {i \in DOMAIN DepsOf(n) : DepsOf(n)[i] \in wave}
  OBVIOUS
<1>3. PICK R : R = OpenPlaces(n, done \cup wave)
  OBVIOUS
<1>4. TimesIn(wave, n) = Cardinality(I)
  BY <1>2 DEF TimesIn, DepsOf
<1>5. O = I \cup R /\ I \cap R = {}
  BY <1>1, <1>2, <1>3 DEF OpenPlaces
<1>6. I \in SUBSET DOMAIN DepsOf(n) /\ R \in SUBSET DOMAIN DepsOf(n) /\ O \in SUBSET DOMAIN DepsOf(n)
  BY <1>1, <1>2, <1>3 DEF OpenPlaces
<1>7. /\ IsFiniteSet(I) /\ Cardinality(I) \in Nat /\ IsFiniteSet(R) /\ Cardinality(R) \in Nat
      /\ IsFiniteSet(O) /\ Cardinality(O) \in Nat
  <2>1. I \in SUBSET DOMAIN DepsOf(n)
    BY <1>6
  <2>2. IsFiniteSet(I) /\ Cardinality(I) \in Nat
    BY <2>1, PlacesFinite
  <2>3. R \in SUBSET DOMAIN DepsOf(n)
    BY <1>6
  <2>4. IsFiniteSet(R) /\ Cardinality(R) \in Nat
    BY <2>3, PlacesFinite
  <2>5. O \in SUBSET DOMAIN DepsOf(n)
    BY <1>6
  <2>6. IsFiniteSet(O) /\ Cardinality(O) \in Nat
    BY <2>5, PlacesFinite
  <2> QED
    BY <2>2, <2>4, <2>6
<1>8. Cardinality(I \cup R) = Cardinality(I) + Cardinality(R) - Cardinality(I \cap R)
  BY <1>7, FS_Union
<1>9. Cardinality(I \cap R) = 0
  BY <1>5, FS_EmptySet
<1>10. Cardinality(O) = Cardinality(I) + Cardinality(R)
  BY <1>5, <1>7, <1>8, <1>9
<1> QED
  BY <1>1, <1>3, <1>4, <1>7, <1>10
LEMMA GraphStarts ==
    ASSUME ManifestTypes, WavesInv, Graph PROVE WavesInv'
<1>1. mAt = "graph" /\ mWaves = <<>> /\ mResolved = {} /\ mDegree = <<>> /\ UNCHANGED <<mServices, mResolved, mWaves>>
  BY DEF Graph, WavesInv
<1>2. CASE mAt' = "failed"
  <2>1. mDegree' = <<>>
    BY <1>1, <1>2 DEF Graph
  <2> QED
    BY <1>2, <2>1 DEF WavesInv, WavesAreLayers
<1>3. CASE mAt' # "failed"
  <2>1. /\ mAt' = "waves" /\ mDegree' = [n \in DOMAIN mServices |-> Len(DepsOf(n))]
        /\ \A n \in DOMAIN mServices : \A i \in DOMAIN DepsOf(n) : DepsOf(n)[i] \in DOMAIN mServices
    BY <1>1, <1>3 DEF Graph, DepsOf
  <2>2. \A n \in DOMAIN mServices : Cardinality(OpenPlaces(n, mResolved)) = Len(DepsOf(n))
    BY <1>1, FirstDegree
  <2>3. \A n : DepsOf(n)' = DepsOf(n) /\ OpenPlaces(n, mResolved)' = OpenPlaces(n, mResolved)
    BY <1>1 DEF DepsOf, OpenPlaces
  <2>4. DegreeInv'
    BY <1>1, <2>1, <2>2, <2>3 DEF DegreeInv
  <2>5. InWaves' /\ LayersInv' /\ WaitsInv'
    BY <1>1 DEF InWaves, LayersInv, WaitsInv
  <2> QED
    BY <2>1, <2>4, <2>5 DEF WavesInv, WavesAreLayers
<1> QED
  BY <1>2, <1>3

\* The services of degree 0 are those that wait for nothing.
LEMMA NextWaveIs ==
    ASSUME ManifestTypes, DegreeInv, NEW n \in DOMAIN mServices
    PROVE  mDegree[n] = 0 <=> OpenPlaces(n, mResolved) = {}
<1>1. OpenPlaces(n, mResolved) \in SUBSET DOMAIN DepsOf(n)
  BY DEF OpenPlaces
<1>2. Cardinality(OpenPlaces(n, mResolved)) = 0 <=> OpenPlaces(n, mResolved) = {}
  BY <1>1, PlacesFinite
<1> QED
  BY <1>2 DEF DegreeInv

LEMMA InRange ==
    ASSUME NEW n PROVE \A d : d \in Range(DepsOf(n)) <=> \E i \in DOMAIN DepsOf(n) : DepsOf(n)[i] = d
BY DEF Range

LEMMA EndsRightly ==
    ASSUME ManifestTypes, DegreeInv, InWaves, LayersInv, mAt = "waves", NextWave, mAt' # "waves" PROVE WavesInv'
<1>1. PICK wave : wave = {n \in DOMAIN mServices : mDegree[n] = 0 /\ n \notin mResolved}
  OBVIOUS
<1>2. /\ UNCHANGED <<mServices, mResolved, mDegree, mWaves>> /\ mAt' \in {"ready", "failed"}
      /\ mAt' = "ready" => mResolved = DOMAIN mServices
      /\ mAt' = "failed" => mResolved # DOMAIN mServices /\ wave = {}
  BY <1>1 DEF NextWave
<1>3. CASE mAt' = "ready"
  <2>1. \A n \in DOMAIN mServices : \E i \in DOMAIN mWaves : n \in mWaves[i]
    BY <1>2, <1>3 DEF InWaves
  <2>2. \A i, j \in DOMAIN mWaves : \A n \in mWaves[i] :
           /\ n \in mWaves[j] => i = j
           /\ \A d \in Range(mServices[n].deps) : \A k \in DOMAIN mWaves : d \in mWaves[k] => k < i
           /\ i > 1 => \E d \in Range(mServices[n].deps) : d \in mWaves[i - 1]
    BY DEF LayersInv, Layered, DepsOf
  <2> QED
    BY <1>2, <1>3, <2>1, <2>2 DEF WavesInv, WavesAreLayers
<1>4. CASE mAt' = "failed"
  <2>1. PICK cycle : cycle = DOMAIN mServices \ mResolved
    OBVIOUS
  <2>2. cycle \in SUBSET DOMAIN mServices /\ cycle # {}
    BY <1>2, <1>4, <2>1 DEF InWaves
  <2>3. ASSUME NEW n \in cycle PROVE Range(mServices[n].deps) \cap cycle # {}
    <3>1. OpenPlaces(n, mResolved) # {}
      BY <1>1, <1>2, <1>4, <2>1, NextWaveIs
    <3>2. PICK i \in DOMAIN DepsOf(n) : DepsOf(n)[i] \notin mResolved
      BY <3>1 DEF OpenPlaces
    <3>3. DepsOf(n)[i] \in cycle /\ DepsOf(n)[i] \in Range(DepsOf(n))
      BY <2>1, <3>2, InRange DEF DegreeInv
    <3> QED
      BY <3>3 DEF DepsOf
  <2> QED
    BY <1>2, <1>4, <2>2, <2>3 DEF WavesInv, WavesAreLayers
<1> QED
  BY <1>2, <1>3, <1>4
LEMMA WaveKeeps ==
    ASSUME ManifestTypes, DegreeInv, InWaves, LayersInv, WaitsInv, mAt = "waves", NextWave, mAt' = "waves"
    PROVE  DegreeInv' /\ InWaves' /\ LayersInv' /\ WaitsInv'
<1>1. PICK wave : wave = {n \in DOMAIN mServices : mDegree[n] = 0 /\ n \notin mResolved}
  OBVIOUS
<1>2. /\ mServices' = mServices /\ mResolved' = mResolved \cup wave /\ mWaves' = Append(mWaves, wave) /\ wave # {}
      /\ mDegree' = [n \in DOMAIN mDegree |->
                        IF TimesIn(wave, n) > mDegree[n] THEN 0 ELSE mDegree[n] - TimesIn(wave, n)]
  BY <1>1 DEF NextWave
<1>3. \A n \in wave : n \in DOMAIN mServices /\ n \notin mResolved /\ OpenPlaces(n, mResolved) = {}
  BY <1>1, NextWaveIs
<1>4. wave \cap mResolved = {}
  BY <1>3
<1>5. \A n : DepsOf(n)' = DepsOf(n) /\ OpenPlaces(n, mResolved)' = OpenPlaces(n, mResolved \cup wave)
  BY <1>2 DEF DepsOf, OpenPlaces
<1>6. PICK m \in Nat : m = Len(mWaves) /\ DOMAIN mWaves = 1 .. m
  BY DEF ManifestTypes
<1>7. /\ DOMAIN mWaves' = 1 .. m + 1 /\ Len(mWaves') = m + 1 /\ mWaves'[m + 1] = wave
      /\ \A i \in 1 .. m : mWaves'[i] = mWaves[i]
  <2>1. wave \in SUBSET MNames
    BY <1>3 DEF ManifestTypes, IsServiceMap
  <2> QED
    BY <1>2, <1>6, <2>1 DEF ManifestTypes
<1>8. \A i \in 1 .. m + 1 : i # m + 1 => i \in 1 .. m
  OBVIOUS
\* What a service of a wave depends on was resolved before it.
<1>9. ASSUME NEW n \in mResolved', NEW d \in Range(DepsOf(n))
      PROVE  d \in mResolved
  <2>1. OpenPlaces(n, mResolved) = {}
    BY <1>2, <1>3, <1>9 DEF InWaves
  <2> QED
    BY <1>9, <2>1, InRange DEF OpenPlaces
<1>10. DegreeInv'
  <2>1. ASSUME NEW n \in DOMAIN mServices PROVE mDegree'[n] = Cardinality(OpenPlaces(n, mResolved \cup wave))
    <3>1. /\ Cardinality(OpenPlaces(n, mResolved)) \in Nat /\ TimesIn(wave, n) \in Nat
          /\ TimesIn(wave, n) <= Cardinality(OpenPlaces(n, mResolved))
          /\ Cardinality(OpenPlaces(n, mResolved \cup wave)) = Cardinality(OpenPlaces(n, mResolved)) - TimesIn(wave, n)
      BY <1>4, WaveTakes
    <3>2. mDegree[n] = Cardinality(OpenPlaces(n, mResolved)) /\ DOMAIN mDegree = DOMAIN mServices
      BY DEF DegreeInv
    <3>3. PICK g, t : g = mDegree[n] /\ t = TimesIn(wave, n)
      OBVIOUS
    <3>4. g \in Nat /\ t \in Nat /\ t <= g /\ Cardinality(OpenPlaces(n, mResolved \cup wave)) = g - t
      BY <3>1, <3>2, <3>3
    <3>5. mDegree'[n] = IF t > g THEN 0 ELSE g - t
      BY <1>2, <3>2, <3>3
    <3> QED
      BY <3>4, <3>5
  <2>2. mDegree' = [n \in DOMAIN mServices |-> Cardinality(OpenPlaces(n, mResolved \cup wave))]
    <3>1. DOMAIN mDegree' = DOMAIN mServices /\ mDegree' = [n \in DOMAIN mServices |-> mDegree'[n]]
      BY <1>2 DEF DegreeInv
    <3> QED
      BY <2>1, <3>1
  <2> QED
    BY <1>2, <1>5, <2>2 DEF DegreeInv
<1>11. InWaves'
  <2>1. mResolved' \subseteq DOMAIN mServices'
    BY <1>2, <1>3 DEF InWaves
  <2>2. ASSUME NEW n \in mResolved' PROVE OpenPlaces(n, mResolved \cup wave) = {} /\ \E i \in DOMAIN mWaves' : n \in mWaves'[i]
    <3>1. OpenPlaces(n, mResolved) = {}
      BY <1>2, <1>3, <2>2 DEF InWaves
    <3>2. CASE n \in mResolved
      BY <1>6, <1>7, <3>1, <3>2 DEF InWaves, OpenPlaces
    <3>3. CASE n \in wave
      BY <1>7, <3>1, <3>3 DEF OpenPlaces
    <3> QED
      BY <1>2, <3>2, <3>3
  <2>3. \A i \in 1 .. m + 1 : mWaves'[i] \subseteq mResolved'
    BY <1>2, <1>6, <1>7, <1>8 DEF InWaves
  <2> QED
    BY <1>5, <1>7, <2>1, <2>2, <2>3 DEF InWaves
<1>12. LayersInv'
  <2>1. ASSUME NEW i \in 1 .. m + 1, NEW j \in 1 .. m + 1, NEW n \in mWaves'[i]
        PROVE  /\ n \in mWaves'[j] => i = j
               /\ \A d \in Range(DepsOf(n)) : \A k \in 1 .. m + 1 : d \in mWaves'[k] => k < i
               /\ i > 1 => \E d \in Range(DepsOf(n)) : d \in mWaves'[i - 1]
    <3>1. \A k \in 1 .. m : mWaves'[k] \subseteq mResolved
      BY <1>6, <1>7 DEF InWaves
    <3>2. CASE i = m + 1
      <4>1. n \in wave /\ n \notin mResolved
        BY <1>3, <1>7, <2>1, <3>2
      <4>2. n \in mWaves'[j] => i = j
        BY <1>8, <3>1, <3>2, <4>1
      <4>3. ASSUME NEW d \in Range(DepsOf(n)), NEW k \in 1 .. m + 1, d \in mWaves'[k] PROVE k < i
        <5>1. d \in mResolved
          BY <1>2, <1>9, <4>1
        <5>2. k # m + 1
          BY <1>4, <1>7, <4>3, <5>1
        <5> QED
          BY <3>2, <5>2
      <4>4. ASSUME i > 1 PROVE \E d \in Range(DepsOf(n)) : d \in mWaves'[i - 1]
        <5>1. m \in 1 .. m /\ i - 1 = m /\ mWaves # <<>>
          BY <1>6, <3>2, <4>4
        <5>2. PICK d \in Range(DepsOf(n)) : d \in mWaves[m] \/ d \notin mResolved
          BY <1>3, <1>6, <4>1, <5>1 DEF WaitsInv
        <5>3. d \in mResolved
          BY <1>2, <1>9, <4>1
        <5> QED
          BY <1>7, <5>1, <5>2, <5>3
      <4> QED
        BY <4>2, <4>3, <4>4
    <3>3. CASE i # m + 1
      <4>1. i \in 1 .. m /\ n \in mWaves[i] /\ n \in mResolved /\ n \notin wave
        BY <1>4, <1>7, <1>8, <2>1, <3>1, <3>3
      <4>2. n \in mWaves'[j] => i = j
        BY <1>6, <1>7, <1>8, <4>1 DEF LayersInv, Layered
      <4>3. ASSUME NEW d \in Range(DepsOf(n)), NEW k \in 1 .. m + 1, d \in mWaves'[k] PROVE k < i
        <5>1. d \in mResolved
          BY <1>2, <1>9, <4>1
        <5>2. k # m + 1
          BY <1>4, <1>7, <4>3, <5>1
        <5> QED
          BY <1>6, <1>7, <1>8, <4>1, <4>3, <5>2 DEF LayersInv, Layered
      <4>4. ASSUME i > 1 PROVE \E d \in Range(DepsOf(n)) : d \in mWaves'[i - 1]
        <5>1. i - 1 \in 1 .. m
          BY <4>1, <4>4
        <5>2. \E d \in Range(DepsOf(n)) : d \in mWaves[i - 1]
          BY <1>6, <4>1, <4>4 DEF LayersInv, Layered
        <5> QED
          BY <1>7, <5>1, <5>2
      <4> QED
        BY <4>2, <4>3, <4>4
    <3> QED
      BY <3>2, <3>3
  <2> QED
    BY <1>5, <1>7, <2>1 DEF LayersInv, Layered
<1>13. WaitsInv'
  <2>1. ASSUME NEW n \in DOMAIN mServices, n \notin mResolved \cup wave
        PROVE  \E d \in Range(DepsOf(n)) : d \in wave \/ d \notin mResolved \cup wave
    <3>1. OpenPlaces(n, mResolved) # {}
      BY <1>1, <2>1, NextWaveIs
    <3>2. PICK i \in DOMAIN DepsOf(n) : DepsOf(n)[i] \notin mResolved
      BY <3>1 DEF OpenPlaces
    <3>3. DepsOf(n)[i] \in Range(DepsOf(n))
      BY <3>2, InRange
    <3> QED
      BY <3>2, <3>3
  <2> QED
    BY <1>2, <1>5, <1>7, <2>1 DEF WaitsInv
<1> QED
  BY <1>10, <1>11, <1>12, <1>13

LEMMA WavesInit == MInit => WavesInv
BY DEF MInit, WavesInv, WavesAreLayers

LEMMA WavesStep == ManifestTypes /\ WavesInv /\ [MNext]_mVars => WavesInv'
<1> SUFFICES ASSUME ManifestTypes, WavesInv, [MNext]_mVars PROVE WavesInv'
  OBVIOUS
<1>1. CASE \/ (\E n \in mTodo : ResolveService(n)) \/ ResolveBase \/ MergeBase \/ ResolveFails \/ Extended
           \/ FilterByProfiles
  <2>1. /\ mAt \in {"read", "filter"} /\ mAt' \in {"read", "filter", "graph", "failed"}
        /\ UNCHANGED <<mResolved, mDegree, mWaves>>
    BY <1>1 DEF ResolveService, ResolveBase, MergeBase, ResolveFails, Extended, FilterByProfiles, wavesVars
  <2> QED
    BY <2>1 DEF WavesInv, WavesAreLayers
<1>2. CASE Graph
  BY <1>2, GraphStarts
<1>3. CASE NextWave
  <2>1. mAt = "waves" /\ mAt' \in {"waves", "ready", "failed"}
    BY <1>3 DEF NextWave
  <2>2. CASE mAt' = "waves"
    BY <1>3, <2>1, <2>2, WaveKeeps DEF WavesInv, WavesAreLayers
  <2>3. CASE mAt' # "waves"
    BY <1>3, <2>1, <2>3, EndsRightly DEF WavesInv
  <2> QED
    BY <2>2, <2>3
<1>4. CASE UNCHANGED mVars
  <2>1. UNCHANGED <<mAt, mServices, mResolved, mDegree, mWaves>>
    BY <1>4 DEF mVars
  <2>2. DegreeInv' <=> DegreeInv
    BY <2>1 DEF DegreeInv, OpenPlaces, DepsOf
  <2>3. (InWaves' <=> InWaves) /\ (LayersInv' <=> LayersInv) /\ (WaitsInv' <=> WaitsInv)
    BY <2>1 DEF InWaves, LayersInv, WaitsInv, Layered, OpenPlaces, DepsOf
  <2>4. WavesAreLayers' <=> WavesAreLayers
    BY <2>1 DEF WavesAreLayers
  <2> QED
    BY <2>1, <2>2, <2>3, <2>4 DEF WavesInv
<1> QED
  BY <1>1, <1>2, <1>3, <1>4 DEF MNext

\* The types of a manifest, its calls and its waves are kept, for any manifests.
THEOREM ManifestTypeCorrect == MSpec => []MTypeOK
<1>1. ManifestTypes => MTypeOK
  BY DEF ManifestTypes, MTypeOK, CallFrames
<1> QED
  BY <1>1, ManifestInitTypes, ManifestStepTypes, PTL DEF MSpec

\* What one level of `extends` gives does not depend on the order of a hash map: a
\* service has its own settings and those the manifest writes for its base (what
\* the base takes from a base of its own is not among them), and it is an error
\* exactly when that cannot be, if the services of other files extend nothing.  The
\* waves are the layers of the dependency graph.  For any manifests
\* (origin/core/src/manifest.rs, lifecycle.rs).
THEOREM ManifestAlwaysSound == MSpec => []ManifestSound
<1>1. ExtendsInv /\ WavesInv => ManifestSound
  BY DEF ExtendsInv, WavesInv, ManifestSound
<1> QED
  BY <1>1, ManifestInitTypes, ManifestStepTypes, ExtendsInit, ExtendsStep, WavesInit, WavesStep, PTL DEF MSpec
-----------------------------------------------------------------------------
\* No version and no binary is newer than the edits.
VersionsBounded ==
    /\ kTools \subseteq {"tinygo", "emcc"} /\ kEdits \in 0 .. MaxEdits
    /\ \A s \in Sources : kVersion[s] <= kEdits + 1 /\ kBinary[s] <= kEdits + 1

LEMMA VersionsStep == PipeTypes /\ VersionsBounded /\ [KNext]_kVars => VersionsBounded'
<1> SUFFICES ASSUME PipeTypes, VersionsBounded, [KNext]_kVars PROVE VersionsBounded'
  OBVIOUS
<1>1. /\ kVersion \in [Sources -> Nat \ {0}] /\ kBinary \in [Sources -> Nat] /\ MaxEdits \in Nat
      /\ kEdits \in 0 .. MaxEdits
  BY PipelineAssumption DEF PipeTypes, VersionsBounded
<1>2. ASSUME UNCHANGED <<kVersion, kTools, kEdits>>,
             \/ kBinary' = kBinary
             \/ \E s \in Sources : kBinary' = [kBinary EXCEPT ![s] = kVersion[s]]
      PROVE  VersionsBounded'
  <2>1. \A r \in Sources : kBinary'[r] \in {kBinary[r], kVersion[r]}
    BY <1>1, <1>2
  <2> QED
    BY <1>1, <1>2, <2>1 DEF VersionsBounded
<1>3. CASE StartCompile
  BY <1>2, <1>3 DEF StartCompile
<1>4. CASE LocateBinary \/ ReadBinary \/ CreateModule \/ SignModule \/ PipelineDone \/ UNCHANGED kVars
  BY <1>2, <1>4 DEF LocateBinary, ReadBinary, CreateModule, SignModule, PipelineDone, kVars
<1>5. CASE BuildElsewhere
  BY <1>2, <1>5 DEF BuildElsewhere
<1>6. CASE Edit
  <2>1. PICK s \in Sources : kVersion' = [kVersion EXCEPT ![s] = kVersion[s] + 1]
    BY <1>6 DEF Edit
  <2>2. kEdits < MaxEdits /\ kEdits' = kEdits + 1 /\ UNCHANGED <<kBinary, kTools>>
    BY <1>6 DEF Edit
  <2>3. \A r \in Sources : kVersion'[r] = kVersion[r] \/ kVersion'[r] = kVersion[r] + 1
    BY <1>1, <2>1
  <2>4. \A r \in Sources : kVersion'[r] <= kEdits + 1 + 1 /\ kBinary[r] <= kEdits + 1 + 1
    <3>1. \A r \in Sources : kVersion[r] \in Nat /\ kBinary[r] \in Nat
      BY <1>1
    <3> QED
      BY <1>1, <2>3, <3>1 DEF VersionsBounded
  <2> QED
    BY <1>1, <2>2, <2>4 DEF VersionsBounded
<1> QED
  BY <1>3, <1>4, <1>5, <1>6 DEF KNext

\* The types of the pipeline are kept, for any sources and any number of edits:
\* no binary is of a version there has not been.
THEOREM PipelineTypeCorrect == KSpec => []KTypeOK
<1>1. KInit => VersionsBounded
  BY PipelineAssumption DEF KInit, VersionsBounded
<1>2. PipeInv /\ VersionsBounded => KTypeOK
  <2> SUFFICES ASSUME PipeInv, VersionsBounded PROVE KTypeOK
    OBVIOUS
  <2>1. /\ kVersion \in [Sources -> Nat \ {0}] /\ kBinary \in [Sources -> Nat] /\ MaxEdits \in Nat
        /\ kEdits \in 0 .. MaxEdits /\ kPipe \in Pipes
    BY PipelineAssumption DEF PipeInv, PipeTypes, VersionsBounded
  <2>2. \A s \in Sources : kVersion[s] \in 1 .. MaxEdits + 1 /\ kBinary[s] \in 0 .. MaxEdits + 1
    <3>1. \A s \in Sources : kVersion[s] \in Nat \ {0} /\ kBinary[s] \in Nat
      BY <2>1
    <3> QED
      BY <2>1, <3>1 DEF VersionsBounded
  <2>3. kVersion \in [Sources -> 1 .. MaxEdits + 1] /\ kBinary \in [Sources -> 0 .. MaxEdits + 1]
    BY <2>1, <2>2
  <2> QED
    BY <2>1, <2>3, PipeFields DEF VersionsBounded, KTypeOK, PipeStages
<1>3. PipeInv => PipeTypes
  BY DEF PipeInv
<1> QED
  BY <1>1, <1>2, <1>3, PipeInitInv, PipeInvStep, VersionsStep, PTL DEF KSpec
-----------------------------------------------------------------------------
\* The cache has no more entries than it may, and no call an answer that was
\* not given.
AnswersBounded ==
    /\ aProviders \in ProviderCounts /\ aNow <= MaxClock /\ Len(aSaid) <= MaxAnswers /\ Len(aCache) <= CacheCap
    /\ \A c \in Callers : aCall[c].answer <= Len(aSaid)

LEMMA ButLength ==
    ASSUME HoldsLastSaid(aCache, aSaid), NEW p
    PROVE  /\ EntriesBut(p) \in Seq(CacheEntries) /\ Len(EntriesBut(p)) = Len(aCache) - (IF Cached(p) THEN 1 ELSE 0)
           /\ Len(aCache) \in Nat
<1>1. aCache \in Seq(CacheEntries) /\ Len(aCache) \in Nat
  BY DEF HoldsLastSaid
<1>2. CASE Cached(p)
  <2>1. PICK k \in 1 .. Len(aCache) : k = PlaceOf(p)
    BY <1>2, PlaceFound
  <2>2. PICK u : u = RemoveAt(aCache, k)
    OBVIOUS
  <2>3. u \in Seq(CacheEntries) /\ Len(u) = Len(aCache) - 1
    BY <1>1, <2>1, <2>2, RemovedAt
  <2> QED
    BY <1>1, <1>2, <2>1, <2>2, <2>3 DEF EntriesBut
<1>3. CASE ~Cached(p)
  BY <1>1, <1>3 DEF EntriesBut
<1> QED
  BY <1>2, <1>3

LEMMA GetLength ==
    ASSUME HoldsLastSaid(aCache, aSaid), NEW p, Len(aCache) <= CacheCap
    PROVE  Len(CacheAfterGet(p)) <= CacheCap
<1>1. PICK u \in Seq(CacheEntries) : u = EntriesBut(p) /\ Len(u) = Len(aCache) - (IF Cached(p) THEN 1 ELSE 0)
  BY ButLength
<1>2. PICK n \in Nat : n = Len(aCache)
  BY ButLength
<1>3. Len(Append(u, EntryOf(p))) = Len(u) + 1
  BY <1>1
<1>4. CacheAfterGet(p) = u \/ (Cached(p) /\ CacheAfterGet(p) = Append(u, EntryOf(p)))
  BY <1>1 DEF CacheAfterGet
<1> QED
  BY <1>1, <1>2, <1>3, <1>4, OrchestratorAssumption

LEMMA PutLength ==
    ASSUME HoldsLastSaid(aCache, aSaid), NEW p, NEW answer, Len(aCache) <= CacheCap
    PROVE  Len(CacheAfterPut(p, answer)) <= CacheCap
<1>1. PICK u \in Seq(CacheEntries) : u = EntriesBut(p) /\ Len(u) = Len(aCache) - (IF Cached(p) THEN 1 ELSE 0)
  BY ButLength
<1>2. PICK n \in Nat : n = Len(aCache)
  BY ButLength
<1>3. PICK e : e = [prompt |-> p, answer |-> answer, at |-> aNow]
  OBVIOUS
<1>4. PICK w : w = Append(u, e)
  OBVIOUS
<1>5. Len(w) = Len(u) + 1 /\ Len(Tail(w)) = Len(w) - 1
  BY <1>1, <1>4
<1>6. CacheAfterPut(p, answer) = IF Len(w) > CacheCap THEN Tail(w) ELSE w
  BY <1>1, <1>3, <1>4 DEF CacheAfterPut
<1> QED
  BY <1>1, <1>2, <1>5, <1>6, OrchestratorAssumption

LEMMA AfterRoundAnswer == ASSUME NEW call \in Calls, NEW err PROVE AfterRound(call, err).answer = call.answer
<1>1. [call EXCEPT !.at = "sleep", !.err = err].answer = call.answer /\ [call EXCEPT !.at = "failed", !.err = err].answer = call.answer
  BY DEF Calls
<1> QED
  BY <1>1 DEF AfterRound

\* One call changes, and what it has for an answer was said.
LEMMA OneAnswer ==
    ASSUME AnswerInv, AnswersBounded, NEW c \in Callers, NEW call, call.answer <= Len(aSaid),
           aCall' = [aCall EXCEPT ![c] = call], UNCHANGED <<aProviders, aNow, aSaid>>, Len(aCache') <= CacheCap
    PROVE  AnswersBounded'
<1>1. aCall \in [Callers -> Calls]
  BY DEF AnswerInv
<1>2. \A d \in Callers : aCall'[d] = IF d = c THEN call ELSE aCall[d]
  BY <1>1
<1>3. \A d \in Callers : aCall'[d].answer <= Len(aSaid)
  BY <1>2 DEF AnswersBounded
<1> QED
  BY <1>3 DEF AnswersBounded

LEMMA AskBounded == ASSUME AnswerInv, AnswersBounded, NEW c \in Callers, Ask(c) PROVE AnswersBounded'
<1>1. PICK p \in Prompts :
         /\ aCache' = CacheAfterGet(p)
         /\ aCall' = [aCall EXCEPT ![c] =
              IF Cached(p) /\ IsFresh(EntryOf(p))
                THEN [CallResting EXCEPT !.at = "answered", !.prompt = p, !.answer = EntryOf(p).answer]
                ELSE [CallResting EXCEPT !.at = "ask", !.prompt = p]]
  BY DEF Ask
<1>2. UNCHANGED <<aProviders, aNow, aSaid>> /\ HoldsLastSaid(aCache, aSaid) /\ Len(aSaid) \in Nat
  BY DEF Ask, AnswerInv, HoldsLastSaid
<1>3. Len(aCache') <= CacheCap
  BY <1>1, <1>2, GetLength DEF AnswersBounded
<1>4. CASE Cached(p) /\ IsFresh(EntryOf(p))
  <2>1. PICK a : a = EntryOf(p).answer
    OBVIOUS
  <2>2. PICK i \in 1 .. Len(aCache) : EntryOf(p) = aCache[i]
    BY <1>2, <1>4, PlaceFound DEF EntryOf
  <2>3. a <= Len(aSaid)
    BY <1>2, <2>1, <2>2 DEF HoldsLastSaid
  <2>4. PICK call : call = [CallResting EXCEPT !.at = "answered", !.prompt = p, !.answer = a]
    OBVIOUS
  <2>5. call.answer = a
    BY <2>4 DEF CallResting
  <2>6. aCall' = [aCall EXCEPT ![c] = call]
    BY <1>1, <1>4, <2>1, <2>4
  <2> QED
    BY <1>2, <1>3, <2>3, <2>5, <2>6, OneAnswer
<1>5. CASE ~(Cached(p) /\ IsFresh(EntryOf(p)))
  <2>1. PICK call : call = [CallResting EXCEPT !.at = "ask", !.prompt = p]
    OBVIOUS
  <2>2. call.answer = 0
    BY <2>1 DEF CallResting, NoAnswer
  <2>3. aCall' = [aCall EXCEPT ![c] = call]
    BY <1>1, <1>5, <2>1
  <2>4. call.answer <= Len(aSaid)
    BY <1>2, <2>2
  <2> QED
    BY <1>2, <1>3, <2>3, <2>4, OneAnswer
<1> QED
  BY <1>4, <1>5

LEMMA AnswerBounded == ASSUME AnswerInv, AnswersBounded, NEW c \in Callers, ProviderAnswers(c) PROVE AnswersBounded'
<1>1. PICK m \in Nat : m = Len(aSaid) /\ m < MaxAnswers /\ MaxAnswers \in Nat
  BY OrchestratorAssumption DEF ProviderAnswers, AnswerInv, HoldsLastSaid
<1>2. PICK good, e : e = [prompt |-> aCall[c].prompt, good |-> good, at |-> aNow] /\ aSaid' = Append(aSaid, e)
  BY DEF ProviderAnswers
<1>3. Len(aSaid') = m + 1
  BY <1>1, <1>2 DEF AnswerInv, HoldsLastSaid
<1>4. HoldsLastSaid(aCache, aSaid) /\ Len(aCache) <= CacheCap /\ UNCHANGED <<aProviders, aNow>>
  BY DEF AnswerInv, AnswersBounded, ProviderAnswers
<1>5. PICK p : p = aCall[c].prompt
  OBVIOUS
<1>6. aCache' = CacheAfterPut(p, m + 1)
  BY <1>3, <1>5 DEF ProviderAnswers
<1>7. Len(aCache') <= CacheCap
  BY <1>4, <1>6, PutLength
<1>8. PICK call : call = [aCall[c] EXCEPT !.at = "answered", !.answer = m + 1, !.asked = @ + 1] /\ aCall' = [aCall EXCEPT ![c] = call]
  BY <1>3 DEF ProviderAnswers
<1>9. aCall \in [Callers -> Calls] /\ aCall[c] \in Calls
  BY DEF AnswerInv
<1>10. call.answer = m + 1
  BY <1>8, <1>9 DEF Calls
<1>11. \A d \in Callers : aCall[d].answer \in Nat /\ aCall[d].answer <= m
  BY <1>1, <1>9 DEF AnswersBounded, Calls
<1>12. \A d \in Callers : aCall'[d] = IF d = c THEN call ELSE aCall[d]
  BY <1>8, <1>9
<1>13. \A d \in Callers : aCall'[d].answer <= m + 1
  <2> SUFFICES ASSUME NEW d \in Callers PROVE aCall'[d].answer <= m + 1
    OBVIOUS
  <2>1. CASE d = c
    BY <1>10, <1>12, <2>1
  <2>2. CASE d # c
    BY <1>11, <1>12, <2>2
  <2> QED
    BY <2>1, <2>2
<1> QED
  BY <1>1, <1>3, <1>4, <1>7, <1>13 DEF AnswersBounded

LEMMA OthersBounded ==
    ASSUME AnswerInv, AnswersBounded, NEW c \in Callers,
           ProviderFails(c) \/ NoProviders(c) \/ Wake(c) \/ Parse(c) \/ EndCall(c)
    PROVE  AnswersBounded'
<1>1. PICK call \in Calls : call = aCall[c]
  BY DEF AnswerInv
<1>2. /\ Len(aSaid) \in Nat /\ call.answer <= Len(aSaid) /\ Len(aCache') <= CacheCap
      /\ UNCHANGED <<aProviders, aNow, aSaid>>
  BY <1>1 DEF AnswerInv, AnswersBounded, HoldsLastSaid, ProviderFails, NoProviders, Wake, Parse, EndCall
<1>3. ASSUME NEW next, next.answer = call.answer \/ next.answer = 0, aCall' = [aCall EXCEPT ![c] = next] PROVE AnswersBounded'
  <2>1. next.answer <= Len(aSaid)
    BY <1>2, <1>3
  <2> QED
    BY <1>2, <1>3, <2>1, OneAnswer
<1>4. CASE ProviderFails(c)
  <2>1. PICK n \in Nat, k \in Nat : n = call.asked + 1 /\ k = call.provider + 1
    BY DEF Calls
  <2>2. PICK asked : asked = [call EXCEPT !.asked = n]
    OBVIOUS
  <2>3. asked \in Calls /\ asked.answer = call.answer /\ asked.provider = call.provider
    BY <2>1, <2>2 DEF Calls
  <2>4. PICK moved, done : moved = [asked EXCEPT !.provider = k] /\ done = [asked EXCEPT !.provider = 1]
    OBVIOUS
  <2>5. moved.answer = call.answer /\ done \in Calls /\ done.answer = call.answer
    BY <2>1, <2>3, <2>4 DEF Calls
  <2>6. PICK err : aCall' = [aCall EXCEPT ![c] =
              IF asked.provider < aProviders THEN moved ELSE AfterRound(done, err)]
    BY <1>1, <1>4, <2>1, <2>2, <2>3, <2>4 DEF ProviderFails
  <2>7. AfterRound(done, err).answer = call.answer
    BY <2>5, AfterRoundAnswer
  <2> QED
    BY <1>3, <2>5, <2>6, <2>7
<1>5. CASE NoProviders(c)
  <2>1. aCall' = [aCall EXCEPT ![c] = AfterRound(call, "Unavailable")]
    BY <1>1, <1>5 DEF NoProviders
  <2> QED
    BY <1>3, <2>1, AfterRoundAnswer
<1>6. CASE Wake(c)
  <2>1. PICK a, b : a = [call EXCEPT !.at = "ask", !.attempt = @ + 1] /\ b = [call EXCEPT !.at = "failed"]
    OBVIOUS
  <2>2. a.answer = call.answer /\ b.answer = call.answer
    BY <2>1 DEF Calls
  <2>3. aCall' = [aCall EXCEPT ![c] = a] \/ aCall' = [aCall EXCEPT ![c] = b]
    BY <1>1, <1>6, <2>1 DEF Wake
  <2> QED
    BY <1>3, <2>2, <2>3
<1>7. CASE Parse(c)
  <2>1. PICK at, a : a = [call EXCEPT !.at = at] /\ aCall' = [aCall EXCEPT ![c] = a]
    BY <1>1, <1>7 DEF Parse
  <2>2. a.answer = call.answer
    BY <2>1 DEF Calls
  <2> QED
    BY <1>3, <2>1, <2>2
<1>8. CASE EndCall(c)
  <2>1. aCall' = [aCall EXCEPT ![c] = CallResting] /\ CallResting.answer = 0
    BY <1>8 DEF EndCall, CallResting, NoAnswer
  <2> QED
    BY <1>3, <2>1
<1> QED
  BY <1>4, <1>5, <1>6, <1>7, <1>8

LEMMA BoundedStep == AnswerInv /\ AnswersBounded /\ [ANext]_aVars => AnswersBounded'
<1> SUFFICES ASSUME AnswerInv, AnswersBounded, [ANext]_aVars PROVE AnswersBounded'
  OBVIOUS
<1>1. CASE PassTime
  <2>1. aNow' <= MaxClock
    BY <1>1, OrchestratorAssumption DEF PassTime, AnswerInv
  <2> QED
    BY <1>1, <2>1 DEF PassTime, AnswersBounded
<1>2. CASE UNCHANGED aVars
  BY <1>2 DEF aVars, AnswersBounded
<1> QED
  BY <1>1, <1>2, AskBounded, AnswerBounded, OthersBounded DEF ANext

\* The types of the orchestrator are kept, for any providers and callers: the
\* cache never has more entries than it may.
THEOREM OrchestratorTypeCorrect == ASpec => []ATypeOK
<1>1. AInit => AnswersBounded
  <2> SUFFICES ASSUME AInit PROVE AnswersBounded
    OBVIOUS
  <2>1. Len(aSaid) = 0 /\ Len(aCache) = 0 /\ aNow = 0 /\ \A c \in Callers : aCall[c].answer = 0
    BY DEF AInit, CallResting, NoAnswer
  <2> QED
    BY <2>1, OrchestratorAssumption DEF AInit, AnswersBounded
<1>2. AnswerInv /\ AnswersBounded => ATypeOK
  <2> SUFFICES ASSUME AnswerInv, AnswersBounded PROVE ATypeOK
    OBVIOUS
  <2>1. /\ aCache \in Seq(CacheEntries) /\ aSaid \in Seq(SaidAnswers) /\ Len(aSaid) \in Nat
        /\ DOMAIN aCache = 1 .. Len(aCache) /\ DOMAIN aSaid = 1 .. Len(aSaid)
    BY DEF AnswerInv, HoldsLastSaid
  <2>2. ASSUME NEW i \in DOMAIN aCache PROVE aCache[i].prompt \in Prompts /\ aCache[i].answer \in DOMAIN aSaid
    <3>1. i \in 1 .. Len(aCache) /\ aCache[i] \in CacheEntries
      BY <2>1
    <3>2. aCache[i].prompt \in Prompts
      BY <3>1 DEF CacheEntries
    <3> QED
      BY <2>1, <3>1, <3>2 DEF AnswerInv, HoldsLastSaid
  <2>3. ASSUME NEW c \in Callers
        PROVE  /\ aCall[c].at \in {"idle", "ask", "sleep", "failed", "answered", "parsed", "unparsable"}
               /\ aCall[c].attempt \in 0 .. MaxRetries /\ aCall[c].answer \in 0 .. MaxAnswers
    <3>1. aCall[c] \in Calls
      BY DEF AnswerInv
    <3>2. /\ aCall[c].at \in {"idle", "ask", "sleep", "failed", "answered", "parsed", "unparsable"}
          /\ aCall[c].attempt \in 0 .. MaxRetries /\ aCall[c].answer \in Nat
      BY <3>1 DEF Calls
    <3> QED
      BY <2>1, <3>2, OrchestratorAssumption DEF AnswersBounded
  <2> QED
    BY <2>2, <2>3, OrchestratorAssumption DEF AnswerInv, AnswersBounded, ATypeOK
<1> QED
  BY <1>1, <1>2, AnswersInit, AnswersStep, BoundedStep, PTL DEF ASpec
-----------------------------------------------------------------------------
(* The types of Chisel's analysis, of the agent and of the build.           *)

Languages == {"rust", "go", "c", "cpp", "unknown"}
Compatibilities == {"none", "full", "partial", "incompatible"}

AnalysisBounds ==
    /\ zReplaced.count \in 0 .. MaxReplaced
    /\ zFound.language \in Languages /\ zFound.compat \in Compatibilities

LEMMA SourceIsLanguage ==
    ASSUME NEW entry, NEW traces, NEW deps
    PROVE  DetectSource(entry, traces, deps) \in Languages
<1>1. ByDependency(deps) \in {"none", "rust", "go"}
  BY DEF ByDependency
<1>2. PICK d : d = ByDependency(deps)
  OBVIOUS
<1>3. PICK r : r = HasRust(traces, ToSet(deps))
  OBVIOUS
<1>4. PICK g : g = HasGo(traces, ToSet(deps))
  OBVIOUS
<1> QED
  BY <1>1, <1>2, <1>3, <1>4 DEF DetectSource, Languages

LEMMA AnalysisBoundsStep == AnalysisInv /\ AnalysisBounds /\ [ZNext]_zVars => AnalysisBounds'
<1> SUFFICES ASSUME AnalysisInv, AnalysisBounds, [ZNext]_zVars PROVE AnalysisBounds'
  OBVIOUS
<1>f. DOMAIN zFound = FoundFields
  BY DEF AnalysisInv, ReadInv
<1>1. CASE ReplaceImage
  <2>1. zReplaced.count < MaxReplaced /\ zReplaced'.count = zReplaced.count + 1 /\ zFound' = zFound
    BY <1>1 DEF ReplaceImage
  <2> QED
    BY <2>1, AnalysisAssumption DEF AnalysisBounds
<1>2. CASE \/ LoadImageMetadata \/ CollectRuntimeTrace \/ ScanDependencies \/ ComputeImageHash
           \/ GenerateSbom \/ ScanCves
  <2>1. zReplaced' = zReplaced
    BY <1>2 DEF LoadImageMetadata, CollectRuntimeTrace, ScanDependencies, ComputeImageHash, GenerateSbom, ScanCves, Do
  <2>2. \E a, b, c : \/ zFound' = [zFound EXCEPT !.image = a]
                     \/ zFound' = [zFound EXCEPT !.trace = a]
                     \/ zFound' = [zFound EXCEPT !.deps = a]
                     \/ zFound' = [zFound EXCEPT !.hashed = a]
                     \/ zFound' = [zFound EXCEPT !.sbom = a, !.sbomBy = b]
                     \/ zFound' = [zFound EXCEPT !.cves = a, !.cvesBy = b]
    <3>1. CASE LoadImageMetadata \/ CollectRuntimeTrace \/ ScanDependencies \/ ComputeImageHash
      BY <3>1 DEF LoadImageMetadata, CollectRuntimeTrace, ScanDependencies, ComputeImageHash, Do
    <3>2. CASE GenerateSbom
      BY <3>2 DEF GenerateSbom, Do
    <3>3. CASE ScanCves
      BY <3>3 DEF ScanCves, Do
    <3> QED
      BY <1>2, <3>1, <3>2, <3>3
  <2>3. zFound'.language = zFound.language /\ zFound'.compat = zFound.compat
    BY <1>f, <2>2 DEF FoundFields
  <2> QED
    BY <2>1, <2>3 DEF AnalysisBounds
<1>3. CASE DetectSourceLanguage
  <2>1. zReplaced' = zReplaced
    BY <1>3 DEF DetectSourceLanguage, Do
  <2>2. PICK traces : traces = (CHOOSE i \in zFound.trace : TRUE).traces
    OBVIOUS
  <2>3. PICK l : l = DetectSource(zImage.entry, traces, (CHOOSE i \in zFound.deps : TRUE).deps)
    OBVIOUS
  <2>4. PICK c : c = Compatibility(l, traces)
    OBVIOUS
  <2>5. zFound' = [zFound EXCEPT !.language = l, !.compat = c]
    BY <1>3, <2>2, <2>3, <2>4 DEF DetectSourceLanguage, Do
  <2>6. zFound'.language = l /\ zFound'.compat = c
    BY <1>f, <2>5 DEF FoundFields
  <2>7. l \in Languages
    BY <2>3, SourceIsLanguage
  <2>8. c \in Compatibilities
    BY <2>4 DEF Compatibility, Compatibilities
  <2> QED
    BY <2>1, <2>6, <2>7, <2>8 DEF AnalysisBounds
<1>4. CASE Assemble
  <2>1. zReplaced' = zReplaced
    BY <1>4 DEF Assemble, Do
  <2>2. \E a, b, c, d : zFound' = [zFound EXCEPT !.size = a, !.migrates = b, !.adapts = c, !.base = d]
    BY <1>4 DEF Assemble, Do
  <2>3. zFound'.language = zFound.language /\ zFound'.compat = zFound.compat
    BY <1>f, <2>2 DEF FoundFields
  <2> QED
    BY <2>1, <2>3 DEF AnalysisBounds
<1>5. CASE UNCHANGED zVars
  BY <1>5 DEF zVars, AnalysisBounds
<1> QED
  BY <1>1, <1>2, <1>3, <1>4, <1>5 DEF ZNext

\* The types of Chisel's analysis are kept, for any images: every image is given
\* one of the languages and one of the verdicts (analyzer.rs).
THEOREM AnalysisTypeCorrect == ZSpec => []ZTypeOK
<1>1. ZInit => AnalysisBounds
  BY AnalysisAssumption DEF ZInit, Nothing, AnalysisBounds, Languages, Compatibilities
<1>2. AnalysisInv /\ AnalysisBounds => ZTypeOK
  BY DEF AnalysisInv, ReadInv, AnalysisBounds, ZTypeOK, Stages, Languages, Compatibilities
<1> QED
  BY <1>1, <1>2, AnalysisInit, AnalysisInductive, AnalysisBoundsStep, PTL DEF ZSpec
-----------------------------------------------------------------------------
\* The ring is no fuller than it may be, its reader runs only while the probe is
\* attached, and no process is read that there has not been.
AgentBounds ==
    /\ Len(eRing) <= RingCap
    /\ eReader # "off" => eProbe.attached
    /\ \A p \in Pids : eOwner[p] <= MaxProcesses
    /\ \A p \in Pids : eCache[p].container <= MaxProcesses /\ eCache[p].pod <= MaxProcesses
    /\ eHand.container <= MaxProcesses
    /\ eCount.accepted <= eCount.kernel /\ eCount.kernel <= MaxKernel

LEMMA AgentBoundsInit == EInit => AgentBounds
<1> SUFFICES ASSUME EInit PROVE AgentBounds
  OBVIOUS
<1>1. Len(eRing) = 0 /\ eReader = "off" /\ eHand.container = 0 /\ eCount.accepted = 0 /\ eCount.kernel = 0
  BY DEF EInit, EmptyHand, NoProcess
<1>2. \A p \in Pids : eOwner[p] = 1 /\ eCache[p].container = 0 /\ eCache[p].pod = 0
  BY DEF EInit, NoEntry, NoProcess
<1> QED
  BY <1>1, <1>2, AgentAssumption DEF AgentBounds

\* The parts of AgentBounds that most steps leave alone.
LEMMA ReaderBounds ==
    ASSUME AgentTypes, AgentBounds, [ENext]_eVars
    PROVE  Len(eRing') <= RingCap /\ (eReader' # "off" => eProbe'.attached)
<1>1. /\ Len(eRing) <= RingCap /\ (eReader # "off" => eProbe.attached) /\ RingCap \in Nat
      /\ eRing \in Seq(RingEvents) /\ Len(eRing) \in Nat
  BY AgentAssumption DEF AgentBounds, AgentTypes
<1>2. eProbe \in [state : ProbeStates, attached : BOOLEAN, stopping : BOOLEAN]
  BY DEF AgentTypes
<1>3. CASE KernelEvent
  <2>1. PICK e : eRing' = IF Len(eRing) < RingCap THEN Append(eRing, e) ELSE eRing
    BY <1>3 DEF KernelEvent
  <2>2. Len(Append(eRing, e)) = Len(eRing) + 1
    BY <1>1
  <2>3. eReader' = eReader /\ eProbe' = eProbe
    BY <1>3 DEF KernelEvent
  <2> QED
    BY <1>1, <2>1, <2>2, <2>3
<1>4. CASE CheckStop
  BY <1>1, <1>4 DEF CheckStop
<1>5. CASE ReadNext
  <2>1. eReader = "reading" /\ eProbe' = eProbe /\ (eRing' = eRing \/ (eRing # <<>> /\ eRing' = Tail(eRing)))
    BY <1>5 DEF ReadNext
  <2>2. eRing # <<>> => Len(Tail(eRing)) = Len(eRing) - 1
    BY <1>1
  <2> QED
    BY <1>1, <2>1, <2>2
<1>6. CASE AttachAll
  <2>1. \/ UNCHANGED <<eProbe, eRing, eReader>>
        \/ eProbe' = [state |-> "Attached", attached |-> TRUE, stopping |-> FALSE] /\ eRing' = <<>>
    BY <1>6 DEF AttachAll, AttachKernelProbe
  <2> QED
    BY <1>1, <2>1
<1>7. CASE StartDetach
  BY <1>1, <1>2, <1>7 DEF StartDetach
<1>8. CASE EndDetach
  <2>1. eReader' = "off" /\ eRing' = <<>>
    BY <1>8 DEF EndDetach
  <2> QED
    BY <1>1, <2>1
<1>9. CASE PauseOrResume
  <2>1. eReader' = eReader /\ eRing' = eRing /\ \E s : eProbe' = [eProbe EXCEPT !.state = s]
    BY <1>9 DEF PauseOrResume
  <2> QED
    BY <1>1, <1>2, <2>1
<1>10. CASE \/ ReusePid \/ DetachStub \/ RecordInvocation \/ DrainInvocations \/ PollEvent
            \/ EnrichFromCache \/ ExtractContainerId \/ BuildEnrichment \/ Invalidate \/ UNCHANGED eVars
  <2>1. UNCHANGED <<eRing, eReader, eProbe>>
    BY <1>10 DEF ReusePid, DetachStub, RecordInvocation, DrainInvocations, PollEvent, EnrichFromCache,
                 ExtractContainerId, BuildEnrichment, Invalidate, eVars
  <2> QED
    BY <1>1, <2>1
<1> QED
  BY <1>3, <1>4, <1>5, <1>6, <1>7, <1>8, <1>9, <1>10 DEF ENext

LEMMA CountBounds ==
    ASSUME AgentTypes, AgentBounds, [ENext]_eVars
    PROVE  eCount'.accepted <= eCount'.kernel /\ eCount'.kernel <= MaxKernel
<1>1. /\ eCount \in [kernel : Nat, accepted : Nat, processes : Nat, invoked : Nat, drained : Nat]
      /\ eCount.accepted <= eCount.kernel /\ eCount.kernel <= MaxKernel /\ MaxKernel \in Nat
  BY AgentAssumption DEF AgentTypes, AgentBounds
<1>2. CASE KernelEvent
  <2>1. eCount.kernel < MaxKernel
    BY <1>2 DEF KernelEvent
  <2>2. PICK room : eCount' = [eCount EXCEPT !.kernel = @ + 1, !.accepted = IF room THEN @ + 1 ELSE @]
    BY <1>2 DEF KernelEvent
  <2>3. eCount'.kernel = eCount.kernel + 1 /\ eCount'.accepted = IF room THEN eCount.accepted + 1 ELSE eCount.accepted
    BY <1>1, <2>2
  <2> QED
    BY <1>1, <2>1, <2>3
<1>3. CASE ReusePid \/ RecordInvocation \/ DrainInvocations
  <2>1. \E n : \/ eCount' = [eCount EXCEPT !.processes = n]
               \/ eCount' = [eCount EXCEPT !.invoked = n]
               \/ eCount' = [eCount EXCEPT !.drained = n]
    BY <1>3 DEF ReusePid, RecordInvocation, DrainInvocations
  <2>2. eCount'.kernel = eCount.kernel /\ eCount'.accepted = eCount.accepted
    BY <1>1, <2>1
  <2> QED
    BY <1>1, <2>2
<1>4. CASE \/ CheckStop \/ ReadNext \/ AttachAll \/ StartDetach \/ EndDetach \/ PauseOrResume \/ DetachStub \/ PollEvent
           \/ EnrichFromCache \/ ExtractContainerId \/ BuildEnrichment \/ Invalidate \/ UNCHANGED eVars
  <2>1. eCount' = eCount
    BY <1>4 DEF CheckStop, ReadNext, AttachAll, StartDetach, EndDetach, PauseOrResume, DetachStub, PollEvent,
                EnrichFromCache, ExtractContainerId, BuildEnrichment, Invalidate, eVars
  <2> QED
    BY <1>1, <2>1
<1> QED
  BY <1>2, <1>3, <1>4 DEF ENext

\* Whose containers the agent knows: those of processes there have been.
LEMMA OwnerBounds ==
    ASSUME AgentInv, AgentBounds, [ENext]_eVars
    PROVE  /\ \A p \in Pids : eOwner'[p] <= MaxProcesses
           /\ \A p \in Pids : eCache'[p].container <= MaxProcesses /\ eCache'[p].pod <= MaxProcesses
           /\ eHand'.container <= MaxProcesses
<1>1. /\ eOwner \in [Pids -> Nat] /\ eCache \in [Pids -> Entries] /\ eHand \in Hands /\ MaxProcesses \in Nat
      /\ eCount \in [kernel : Nat, accepted : Nat, processes : Nat, invoked : Nat, drained : Nat]
      /\ eHand.at # "none" => eHand.pid \in Pids
  BY AgentAssumption DEF AgentInv, AgentTypes, EventsInOrder
<1>2. /\ \A p \in Pids : eOwner[p] <= MaxProcesses
      /\ \A p \in Pids : eCache[p].container <= MaxProcesses /\ eCache[p].pod <= MaxProcesses
      /\ eHand.container <= MaxProcesses
  BY DEF AgentBounds
<1>3. EmptyHand.container = 0 /\ 0 <= MaxProcesses /\ NoEntry.container = 0 /\ NoEntry.pod = 0
  BY <1>1 DEF EmptyHand, NoProcess, NoEntry
<1>4. CASE ReusePid
  <2>1. eCount.processes < MaxProcesses /\ UNCHANGED <<eCache, eHand>>
    BY <1>4 DEF ReusePid
  <2>2. PICK p \in Pids : eOwner' = [eOwner EXCEPT ![p] = eCount.processes + 1]
    BY <1>4 DEF ReusePid
  <2>3. eCount.processes + 1 <= MaxProcesses
    BY <1>1, <2>1
  <2>4. \A q \in Pids : eOwner'[q] <= MaxProcesses
    BY <1>1, <1>2, <2>2, <2>3
  <2> QED
    BY <1>2, <2>1, <2>4
<1>5. CASE PollEvent
  <2>1. UNCHANGED <<eOwner, eCache>>
    BY <1>5 DEF PollEvent
  <2>2. \/ eHand' = eHand
        \/ \E a, b : eHand' = [EmptyHand EXCEPT !.id = a, !.pid = b, !.at = "taken"]
    BY <1>5 DEF PollEvent
  <2>3. eHand'.container = eHand.container \/ eHand'.container = EmptyHand.container
    BY <2>2 DEF EmptyHand
  <2> QED
    BY <1>2, <1>3, <2>1, <2>3
<1>6. CASE EnrichFromCache
  BY <1>2, <1>3, <1>6 DEF EnrichFromCache, Export
<1>7. CASE ExtractContainerId
  <2>1. eHand.at = "taken" /\ UNCHANGED <<eOwner, eCache>>
    BY <1>7 DEF ExtractContainerId
  <2>2. eHand' = EmptyHand \/ eHand' = [eHand EXCEPT !.at = "container", !.container = eOwner[eHand.pid]]
    BY <1>7 DEF ExtractContainerId, Export
  <2>3. eHand' = EmptyHand \/ eHand'.container = eOwner[eHand.pid]
    BY <1>1, <2>2 DEF Hands
  <2>4. eOwner[eHand.pid] <= MaxProcesses
    BY <1>1, <1>2, <2>1
  <2> QED
    BY <1>2, <1>3, <2>1, <2>3, <2>4
<1>8. CASE BuildEnrichment
  <2>0. PICK pod \in {eOwner[eHand.pid], NoProcess} :
          LET entry == [container |-> eHand.container, pod |-> pod]
          IN eCache' = [eCache EXCEPT ![eHand.pid] = entry] /\ Export(entry)
    BY <1>8 DEF BuildEnrichment
  <2>1. eHand.at = "container" /\ eOwner' = eOwner /\ eHand' = EmptyHand
    BY <1>8, <2>0 DEF BuildEnrichment, Export
  <2>2. PICK entry : entry = [container |-> eHand.container, pod |-> pod]
    OBVIOUS
  <2>3. eCache' = [eCache EXCEPT ![eHand.pid] = entry]
    BY <2>0, <2>2
  <2>4. entry.container <= MaxProcesses /\ entry.pod <= MaxProcesses
    <3>1. entry.container = eHand.container /\ (entry.pod = eOwner[eHand.pid] \/ entry.pod = 0)
      BY <2>2 DEF NoProcess
    <3> QED
      BY <1>1, <1>2, <1>3, <2>1, <3>1
  <2>5. \A p \in Pids : eCache'[p] = entry \/ eCache'[p] = eCache[p]
    BY <1>1, <2>3
  <2>6. \A p \in Pids : eCache'[p].container <= MaxProcesses /\ eCache'[p].pod <= MaxProcesses
    BY <1>2, <2>4, <2>5
  <2> QED
    BY <1>2, <1>3, <2>1, <2>6
<1>9. CASE Invalidate
  <2>1. UNCHANGED <<eOwner, eHand>> /\ \E q \in Pids : eCache' = [eCache EXCEPT ![q] = NoEntry]
    BY <1>9 DEF Invalidate
  <2>2. \A p \in Pids : eCache'[p] = NoEntry \/ eCache'[p] = eCache[p]
    BY <1>1, <2>1
  <2>3. \A p \in Pids : eCache'[p].container <= MaxProcesses /\ eCache'[p].pod <= MaxProcesses
    BY <1>2, <1>3, <2>2
  <2> QED
    BY <1>2, <2>1, <2>3
<1>10. CASE \/ KernelEvent \/ CheckStop \/ ReadNext \/ AttachAll \/ StartDetach \/ EndDetach \/ PauseOrResume \/ DetachStub
            \/ RecordInvocation \/ DrainInvocations \/ UNCHANGED eVars
  <2>1. UNCHANGED <<eOwner, eCache, eHand>>
    BY <1>10 DEF KernelEvent, CheckStop, ReadNext, AttachAll, StartDetach, EndDetach, PauseOrResume, DetachStub,
                 RecordInvocation, DrainInvocations, eVars
  <2> QED
    BY <1>2, <2>1
<1> QED
  BY <1>4, <1>5, <1>6, <1>7, <1>8, <1>9, <1>10 DEF ENext

LEMMA AgentBoundsStep == AgentInv /\ AgentBounds /\ [ENext]_eVars => AgentBounds'
<1> SUFFICES ASSUME AgentInv, AgentBounds, [ENext]_eVars PROVE AgentBounds'
  OBVIOUS
<1>1. AgentTypes
  BY DEF AgentInv
<1> QED
  BY <1>1, ReaderBounds, CountBounds, OwnerBounds DEF AgentBounds

\* The types of the agent are kept, for any processes and any size of the ring:
\* the ring never holds more than it may and is only read while it is attached.
THEOREM AgentTypeCorrect == ESpec => []ETypeOK
<1>1. AgentInv /\ AgentBounds => ETypeOK
  <2> SUFFICES ASSUME AgentInv, AgentBounds PROVE ETypeOK
    OBVIOUS
  <2>1. /\ eProbe \in [state : ProbeStates, attached : BOOLEAN, stopping : BOOLEAN]
        /\ eStub \in [state : ProbeStates, events : Seq(Nat)] /\ eReader \in {"off", "stopCheck", "reading"}
        /\ eStale \subseteq Pids /\ eHand \in Hands
    BY DEF AgentInv, AgentTypes
  <2>2. eProbe.state \in ProbeStates /\ eStub.state \in ProbeStates /\ eHand.at \in {"none", "taken", "container"}
    BY <2>1 DEF Hands
  <2>3. eOwner \in [Pids -> Nat] /\ eCache \in [Pids -> Entries] /\ MaxProcesses \in Nat /\ MaxKernel \in Nat
    BY AgentAssumption DEF AgentInv, AgentTypes
  <2>4. eOwner \in [Pids -> 0 .. MaxProcesses]
    BY <2>3 DEF AgentBounds
  <2>5. ASSUME NEW p \in Pids PROVE eCache[p].container \in 0 .. MaxProcesses /\ eCache[p].pod \in 0 .. MaxProcesses
    <3>1. eCache[p].container \in Nat /\ eCache[p].pod \in Nat
      BY <2>3 DEF Entries
    <3> QED
      BY <2>3, <3>1 DEF AgentBounds
  <2>6. eCount.accepted \in 0 .. MaxKernel
    <3>1. eCount.accepted \in Nat /\ eCount.kernel \in Nat
      BY DEF AgentInv, AgentTypes
    <3> QED
      BY <2>3, <3>1 DEF AgentBounds
  <2> QED
    BY <2>1, <2>2, <2>4, <2>5, <2>6 DEF AgentBounds, ETypeOK
<1> QED
  BY <1>1, AgentInitInv, AgentInvStep, AgentBoundsInit, AgentBoundsStep, PTL DEF ESpec
-----------------------------------------------------------------------------
\* The build stays within the Dockerfile.
BuildBounds ==
    /\ bAt \in {"stage", "body", "compose", "done", "failed"}
    /\ bStage \in 1 .. Len(bLines) + 1 /\ bPos \in 1 .. Len(bLines) + 1
    /\ DOMAIN bEnv = BuildKeys
    /\ bConts \subseteq 1 .. Len(bLines) + 1

\* There are no more stages than lines.
LEMMA StagesWithin == bLines \in Dockerfiles => StageCount \in Nat /\ StageCount <= Len(bLines)
<1> SUFFICES ASSUME bLines \in Dockerfiles PROVE StageCount \in Nat /\ StageCount <= Len(bLines)
  OBVIOUS
<1>1. Len(bLines) \in Nat /\ (Len(bLines) = 0 => bLines = <<>>)
  BY BuildAssumption
<1>2. PICK T : T = 1 .. Len(bLines)
  OBVIOUS
<1>3. IsFiniteSet(T) /\ Cardinality(T) = Len(bLines)
  <2>1. Cardinality(1 .. Len(bLines)) = IF 1 > Len(bLines) THEN 0 ELSE Len(bLines) - 1 + 1
    BY <1>1, FS_Interval
  <2>2. IsFiniteSet(1 .. Len(bLines))
    BY <1>1, FS_Interval
  <2> QED
    BY <1>1, <1>2, <2>1, <2>2
<1>4. Froms \in SUBSET T
  BY <1>2 DEF Froms
<1>5. IsFiniteSet(Froms) /\ Cardinality(Froms) <= Cardinality(T)
  BY <1>3, <1>4, FS_Subset
<1>6. Cardinality(Froms) \in Nat
  BY <1>5, FS_CardinalityType
<1> QED
  BY <1>1, <1>3, <1>5, <1>6 DEF StageCount

LEMMA BuildBoundsStep == BuildInv /\ BuildBounds /\ [BNext]_bVars => BuildBounds'
<1> SUFFICES ASSUME BuildInv, BuildBounds, [BNext]_bVars PROVE BuildBounds'
  OBVIOUS
<1>1. /\ bLines \in Dockerfiles /\ bStage \in Nat \ {0} /\ (bAt = "body" => bStage <= StageCount)
      /\ Len(bLines) \in Nat /\ StageCount \in Nat /\ StageCount <= Len(bLines)
  BY BuildAssumption, StagesWithin DEF BuildInv
<1>2. CASE Run \/ Copy \/ CopyFrom \/ SetEnv \/ Arg \/ User \/ Workdir \/ Metadata
  <2>1. /\ bAt = "body" /\ bPos <= Len(BuildSteps) /\ bPos' = bPos + 1
        /\ UNCHANGED <<bLines, bAt, bStage, bConts>>
    BY <1>2 DEF Run, Copy, CopyFrom, SetEnv, Arg, User, Workdir, Metadata, InBody, Captured
  <2>2. Len(BuildSteps) \in Nat /\ Len(BuildSteps) <= Len(bLines)
    BY <1>1, <2>1, StepsFinite
  <2>3. bPos' \in 1 .. Len(bLines) + 1
    BY <1>1, <2>1, <2>2 DEF BuildBounds
  <2>4. \E k, v : bEnv' = [bEnv EXCEPT ![k] = v] \/ bEnv' = bEnv
    BY <1>2 DEF Run, Copy, CopyFrom, SetEnv, Arg, User, Workdir, Metadata, InBody, Captured
  <2>5. DOMAIN bEnv' = BuildKeys
    BY <2>4 DEF BuildBounds
  <2> QED
    BY <2>1, <2>3, <2>5 DEF BuildBounds
<1>3. CASE EnterStage
  <2>1. bPos' = 1 /\ bAt' = "body" /\ bEnv' = BuildArgs /\ bConts' = bConts \cup {bStage} /\ UNCHANGED <<bLines, bStage>>
    BY <1>3 DEF EnterStage
  <2> QED
    BY <1>1, <2>1, BuildAssumption DEF BuildBounds
<1>4. CASE LeaveStage
  <2>1. /\ bAt = "body" /\ bConts' \subseteq bConts /\ UNCHANGED <<bLines, bPos, bEnv>>
        /\ \/ bStage = StageCount /\ bAt' = "compose" /\ bStage' = bStage
           \/ bStage # StageCount /\ bAt' = "stage" /\ bStage' = bStage + 1
    BY <1>4 DEF LeaveStage
  <2>2. bStage' \in 1 .. Len(bLines) + 1
    BY <1>1, <2>1 DEF BuildBounds
  <2> QED
    BY <2>1, <2>2 DEF BuildBounds
<1>5. CASE Fail \/ RemoveOld \/ CreateImage
  <2>1. bAt' \in {bAt, "failed", "done"} /\ UNCHANGED <<bLines, bStage, bPos, bEnv, bConts>>
    BY <1>5 DEF Fail, RemoveOld, CreateImage
  <2> QED
    BY <2>1 DEF BuildBounds
<1>6. CASE UNCHANGED bVars
  BY <1>6 DEF bVars, BuildBounds
<1> QED
  BY <1>2, <1>3, <1>4, <1>5, <1>6 DEF BNext

\* The types of the build are kept, for any Dockerfiles: it never leaves the
\* stages and the lines of its Dockerfile (dockerfile.rs, build.rs).
THEOREM BuildTypeCorrect == BSpec => []BTypeOK
<1>1. BInit => BuildBounds
  <2> SUFFICES ASSUME BInit PROVE BuildBounds
    OBVIOUS
  <2>1. Len(bLines) \in Nat /\ DOMAIN BuildArgs = BuildKeys
    BY BuildAssumption DEF BInit
  <2> QED
    BY <2>1 DEF BInit, BuildBounds
<1>2. BuildInv /\ BuildBounds => BTypeOK
  BY DEF BuildInv, BuildBounds, BTypeOK
<1> QED
  BY <1>1, <1>2, BuildInitInv, BuildInvStep, BuildBoundsStep, PTL DEF BSpec
-----------------------------------------------------------------------------
\* The types of all the components that stand alone are kept, for every value of
\* their constants, as long as there is a plugin.
THEOREM PartsTypeCorrect == ASSUME Plugins # {} PROVE PartsSpec => []PartsTypeOK
<1>1. TSpec /\ LSpec /\ USpec /\ GSpec /\ RlSpec => [](TTypeOK /\ LTypeOK /\ UTypeOK /\ GTypeOK /\ RlTypeOK)
  BY RouterTypeCorrect, BalancerTypeCorrect, PoolTypeCorrect, PluginTypeCorrect, LimiterTypeCorrect, PTL
<1>2. WSpec /\ SSpec /\ HSpec => [](WTypeOK /\ STypeOK /\ HTypeOK)
  BY WireTypeCorrect, SubscriptionTypeCorrect, HealthTypeCorrect, PTL
<1>3. KSpec /\ ASpec /\ ZSpec /\ ESpec => [](KTypeOK /\ ATypeOK /\ ZTypeOK /\ ETypeOK)
  BY PipelineTypeCorrect, OrchestratorTypeCorrect, AnalysisTypeCorrect, AgentTypeCorrect, PTL
<1>4. BSpec /\ MSpec /\ CliSpec => [](BTypeOK /\ MTypeOK /\ CliTypeOK)
  BY BuildTypeCorrect, ManifestTypeCorrect, CliTypeCorrect, PTL
<1> QED
  BY <1>1, <1>2, <1>3, <1>4, PTL DEF PartsSpec, PartsTypeOK

\* A request goes by the first of the highest rules that fit it, and a manifest
\* is extended, each service by the settings its base is written with, and sorted
\* into waves, whatever order a hash map gives rules and services in: for any rules,
\* and for any manifests (of `extends` only if other files extend nothing).
THEOREM ConfigsAlwaysSound == PartsSpec => []ConfigsSound
<1> QED
  BY RouterAlwaysSound, ManifestAlwaysSound, PTL DEF PartsSpec, ConfigsSound
=============================================================================
