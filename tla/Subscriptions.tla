---------------------------- MODULE Subscriptions ----------------------------
(***************************************************************************)
(* Redis pub/sub for Wasm guests: Subscription of                          *)
(* tether/proxy/src/drivers/pubsub.rs, with its reader task, and the slab  *)
(* of subscriptions in WitHostState (tether/proxy/src/component.rs).       *)
(*                                                                         *)
(* The guest makes one call at a time; the reader tasks and the server go  *)
(* on meanwhile.  The server confirms the channels of one SUBSCRIBE        *)
(* together; messages are numbered in the order they are published.        *)
(***************************************************************************)
EXTENDS Integers, Sequences, FiniteSets, SequencesExt

CONSTANTS
    SubChannels,   \* the channels
    MaxOpened,     \* bound: subscriptions opened
    MaxPublished,  \* bound: messages published
    MaxPending     \* bound: frames unread when SUBSCRIBE or UNSUBSCRIBE is sent

ASSUME SubscriptionAssumption == MaxOpened \in Nat /\ MaxPublished \in Nat /\ MaxPending \in Nat

VARIABLES
    sSlots,        \* WitHostState.subscriptions: a sequence of 0 (None) or a subscription
    sHandles,      \* the resources the guest holds: [rep, sub]
    sConn,         \* sConn[k]: the connection of the k-th subscription
    sPublished     \* messages published

sVars == <<sSlots, sHandles, sConn, sPublished>>

Conf == 0                            \* a confirmation; a message is its number
Ids == 1 .. MaxOpened
Unopened == [at |-> "none", chans |-> {}, in |-> <<>>, confs |-> 0,
             inbox |-> <<>>, polled |-> <<>>, sent |-> <<>>]

STypeOK ==
    /\ \A i \in DOMAIN sSlots : sSlots[i] \in Ids \cup {0}
    /\ \A h \in sHandles : h.rep \in 0 .. MaxOpened - 1 /\ h.sub \in Ids
    /\ \A k \in Ids : /\ sConn[k].at \in {"none", "auth", "confirm", "open", "lost", "closed"}
                      /\ sConn[k].chans \subseteq SubChannels
    /\ sPublished \in 0 .. MaxPublished

SInit == sSlots = <<>> /\ sHandles = {} /\ sConn = [k \in Ids |-> Unopened] /\ sPublished = 0

Opening == \E k \in Ids : sConn[k].at \in {"auth", "confirm"}
-----------------------------------------------------------------------------
(* The server                                                              *)

Publish ==
    /\ sPublished < MaxPublished
    /\ \E ch \in SubChannels :
         sConn' = [k \in Ids |->
                     IF ch \in sConn[k].chans /\ sConn[k].at \in {"confirm", "open"}
                     THEN [sConn[k] EXCEPT !.in = Append(@, sPublished + 1), !.sent = Append(@, sPublished + 1)]
                     ELSE sConn[k]]
    /\ sPublished' = sPublished + 1
    /\ UNCHANGED <<sSlots, sHandles>>

ConnLost(k) ==
    /\ sConn[k].at = "open"
    /\ sConn' = [sConn EXCEPT ![k].at = "lost", ![k].in = <<>>]
    /\ UNCHANGED <<sSlots, sHandles, sPublished>>
-----------------------------------------------------------------------------
(* Subscription::open                                                      *)

StartOpen ==
    /\ ~Opening
    /\ \E k \in Ids : /\ sConn[k].at = "none" /\ \A j \in Ids : j < k => sConn[j].at # "none"
                      /\ sConn' = [sConn EXCEPT ![k].at = "auth"]
    /\ UNCHANGED <<sSlots, sHandles, sPublished>>

AuthFails(k) ==
    /\ sConn[k].at = "auth"
    /\ sConn' = [sConn EXCEPT ![k].at = "closed"]
    /\ UNCHANGED <<sSlots, sHandles, sPublished>>

\* SUBSCRIBE to the channels given, a channel perhaps twice, if there are any.
Subscribe(k) ==
    /\ sConn[k].at = "auth"
    /\ \E channels \in UNION {[1 .. n -> SubChannels] : n \in 0 .. 2} :
         sConn' = [sConn EXCEPT ![k].at = "confirm", ![k].chans = Range(channels),
                                ![k].in = [i \in DOMAIN channels |-> Conf], ![k].confs = Len(channels)]
    /\ UNCHANGED <<sSlots, sHandles, sPublished>>

\* One frame more than there are confirmations.
ReadConfirmationTooMany(k) ==
    /\ sConn[k].at = "confirm" /\ sConn[k].confs >= 0 /\ sConn[k].in # <<>>
    /\ sConn' = [sConn EXCEPT ![k].in = Tail(@), ![k].confs = IF @ = 0 THEN 0 ELSE @ - 1]
    /\ UNCHANGED <<sSlots, sHandles, sPublished>>
ReadConfirmation(k) ==
    /\ sConn[k].at = "confirm" /\ sConn[k].confs > 0 /\ sConn[k].in # <<>>
    /\ sConn' = [sConn EXCEPT ![k].in = Tail(@), ![k].confs = @ - 1]
    /\ UNCHANGED <<sSlots, sHandles, sPublished>>

\* The reader task is spawned and the subscription takes the first free slot.
Opened(k) ==
    /\ sConn[k].at = "confirm" /\ sConn[k].confs = 0
    /\ sConn' = [sConn EXCEPT ![k].at = "open"]
    /\ LET free == {i \in DOMAIN sSlots : sSlots[i] = 0}
           slot == IF free = {} THEN Len(sSlots) + 1 ELSE CHOOSE i \in free : \A j \in free : i <= j
       IN  /\ sSlots' = IF free = {} THEN Append(sSlots, k) ELSE [sSlots EXCEPT ![slot] = k]
           /\ sHandles' = sHandles \cup {[rep |-> slot - 1, sub |-> k]}
    /\ UNCHANGED sPublished

\* One turn of the reader task: confirmations are passed over.
Reader(k) ==
    /\ sConn[k].at = "open" /\ sConn[k].in # <<>>
    /\ sConn' = [sConn EXCEPT ![k].in = Tail(@),
                              ![k].inbox = IF Head(sConn[k].in) = Conf THEN @ ELSE Append(@, Head(sConn[k].in))]
    /\ UNCHANGED <<sSlots, sHandles, sPublished>>
-----------------------------------------------------------------------------
(* The guest's calls on a handle: the slot says which subscription.        *)

SlotOf(h) == IF h.rep + 1 \in DOMAIN sSlots THEN sSlots[h.rep + 1] ELSE 0

SubscribeMore(h) ==
    /\ ~Opening /\ SlotOf(h) # 0 /\ sConn[SlotOf(h)].at = "open" /\ Len(sConn[SlotOf(h)].in) < MaxPending
    /\ \E ch \in SubChannels :
         sConn' = [sConn EXCEPT ![SlotOf(h)].chans = @ \cup {ch}, ![SlotOf(h)].in = Append(@, Conf)]
    /\ UNCHANGED <<sSlots, sHandles, sPublished>>

\* UNSUBSCRIBE without a channel leaves them all; one confirmation at least.
Unsubscribe(h) ==
    /\ ~Opening /\ SlotOf(h) # 0 /\ sConn[SlotOf(h)].at = "open" /\ Len(sConn[SlotOf(h)].in) < MaxPending
    /\ \E left \in {{ch} : ch \in SubChannels} \cup {sConn[SlotOf(h)].chans} :
         sConn' = [sConn EXCEPT ![SlotOf(h)].chans = @ \ left, ![SlotOf(h)].in = Append(@, Conf)]
    /\ UNCHANGED <<sSlots, sHandles, sPublished>>

Poll(h) ==
    /\ ~Opening /\ SlotOf(h) # 0 /\ sConn[SlotOf(h)].inbox # <<>>
    /\ sConn' = [sConn EXCEPT ![SlotOf(h)].inbox = Tail(@),
                              ![SlotOf(h)].polled = Append(@, Head(sConn[SlotOf(h)].inbox))]
    /\ UNCHANGED <<sSlots, sHandles, sPublished>>

Closed(k) == [sConn EXCEPT ![k].at = "closed", ![k].in = <<>>, ![k].inbox = <<>>, ![k].chans = {}]

\* The slot is taken out of the slab instead of being freed.
DropSubscriptionShifts(h) ==
    /\ ~Opening
    /\ sHandles' = sHandles \ {h}
    /\ sSlots' = IF SlotOf(h) = 0 THEN sSlots ELSE RemoveAt(sSlots, h.rep + 1)
    /\ sConn' = IF SlotOf(h) = 0 THEN sConn ELSE Closed(SlotOf(h))
    /\ UNCHANGED sPublished
\* HostSubscription::drop: the slot is freed, and with it the reader task ends.
DropSubscription(h) ==
    /\ ~Opening
    /\ sHandles' = sHandles \ {h}
    /\ sSlots' = IF SlotOf(h) = 0 THEN sSlots ELSE [sSlots EXCEPT ![h.rep + 1] = 0]
    /\ sConn' = IF SlotOf(h) = 0 THEN sConn ELSE Closed(SlotOf(h))
    /\ UNCHANGED sPublished

SNext ==
    \/ Publish
    \/ StartOpen
    \/ \E k \in Ids : AuthFails(k) \/ Subscribe(k) \/ ReadConfirmation(k) \/ Opened(k) \/ Reader(k) \/ ConnLost(k)
    \/ \E h \in sHandles : SubscribeMore(h) \/ Unsubscribe(h) \/ Poll(h) \/ DropSubscription(h)

SSpec == SInit /\ [][SNext]_sVars
-----------------------------------------------------------------------------
\* What was published to a subscription's channels is delivered in order and
\* without a gap, from the first message after SUBSCRIBE on: what is polled or
\* in the inbox is the beginning of it, and until the connection is lost the
\* rest of it is on its way, in order.
DeliveredInOrder ==
    \A k \in Ids :
       LET c == sConn[k]
           got == c.polled \o c.inbox
       IN  /\ c.at \in {"confirm", "open", "lost"} => IsPrefix(got, c.sent)
           /\ c.at \in {"confirm", "open"} =>
                /\ ToSet(c.in) \ {Conf} = {c.sent[i] : i \in Len(got) + 1 .. Len(c.sent)}
                /\ \A i, j \in DOMAIN c.in : i < j /\ c.in[i] # Conf /\ c.in[j] # Conf => c.in[i] < c.in[j]
           /\ c.at = "closed" => IsPrefix(c.polled, c.sent)

\* A handle leads to the subscription it was opened as, while slots are freed
\* and taken again, and a slot without a handle is free.
HandlesMatch ==
    /\ \A h \in sHandles : SlotOf(h) = h.sub
    /\ \A i \in DOMAIN sSlots : sSlots[i] # 0 => \E h \in sHandles : h.rep = i - 1

\* Both, of the subscriptions of one guest.
SubscriptionsSound == DeliveredInOrder /\ HandlesMatch
=============================================================================
