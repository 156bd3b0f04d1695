--------------------------- MODULE ConnectionPool ---------------------------
(***************************************************************************)
(* Tether's ConnectionPool (tether/proxy pool.rs): a semaphore of MaxSize  *)
(* permits, a concurrent map of connections, and a channel of the ids that *)
(* are idle, whose receiving end is behind an async mutex.  The steps are  *)
(* the stretches of code between two points where another task can run.    *)
(*                                                                         *)
(* The map is sharded, and a reference into it read-locks its shard until  *)
(* the reference is dropped: nothing is written to a shard meanwhile, not  *)
(* even by the task that holds the reference.  Who writes to a shard waits *)
(* without an await: the wait blocks the thread of the runtime the task is *)
(* on, and perhaps the tasks that would drop the reference.                *)
(***************************************************************************)
EXTENDS Integers, Sequences, FiniteSets

CONSTANTS
    Callers,        \* tasks that acquire connections
    NoCaller,       \* nobody holds the mutex of the receiver
    MinSize,        \* PoolConfig.min_size
    MaxSize,        \* PoolConfig.max_size
    Shards,         \* number of shards of the connection map
    Wrap,           \* idle_count is an unsigned integer below this
    MayDie,         \* connections die or go stale while idle
    MaxIds,         \* bound: connections ever created
    MaxCancels,     \* bound: acquires cancelled during the ping
    MaxShutdowns    \* bound: calls of shutdown

ASSUME SizeAssumption == /\ MaxSize \in Nat \ {0}
                         /\ MinSize \in 0..MaxSize
ASSUME CallersAssumption == IsFiniteSet(Callers) /\ NoCaller \notin Callers
ASSUME ShardsAssumption == Shards \in Nat \ {0}
ASSUME WrapAssumption == Wrap \in Nat /\ Wrap > MaxSize
ASSUME BoundsAssumption == /\ MaxIds \in Nat /\ MaxCancels \in Nat
                           /\ MaxShutdowns \in Nat /\ MayDie \in BOOLEAN

VARIABLES
    connections,    \* ids in the connection map
    idleQueue,      \* ids in the channel of idle connections
    idleLock,       \* who holds the mutex of the receiver
    permits,        \* free permits of the semaphore
    nextId,         \* next_id
    idleCount,      \* idle_count
    ready,          \* initialize has returned
    pc,             \* where each caller is
    conn,           \* the id each caller works with
    shutPc,         \* where shutdown is: the shard it clears next
    leaked,         \* history: ids dropped by a cancelled acquire
    shutdowns       \* history: number of shutdowns

poolVars == <<connections, idleQueue, idleLock, permits, nextId, idleCount, ready>>
callerVars == <<pc, conn>>
vars == <<poolVars, callerVars, shutPc, leaked, shutdowns>>

\* The calls of a task that is inside the pool hold a permit from "locking" on.
PcValues == {"out", "locking", "pinging", "removing", "creating", "inserting",
             "holding", "querying", "sending", "counting", "releasing"}
NotShutting == Shards
Resetting == Shards + 1
Shard(id) == id % Shards

\* A task that pings, that is about to remove, or that runs a query holds a
\* reference into the map.
ReferencedShards == {Shard(conn[c]) : c \in {d \in Callers :
                                        pc[d] \in {"pinging", "removing", "querying"}}}

Init ==
    /\ connections = {}
    /\ idleQueue = << >>
    /\ idleLock = NoCaller
    /\ permits = MaxSize
    /\ nextId = 0
    /\ idleCount = 0
    /\ ready = FALSE
    /\ pc = [c \in Callers |-> "out"]
    /\ conn = [c \in Callers |-> 0]
    /\ shutPc = NotShutting
    /\ leaked = {}
    /\ shutdowns = 0

Goto(c, label) == pc' = [pc EXCEPT ![c] = label]

----------------------------------------------------------------------------
\* initialize: MinSize connections are opened before the pool is shared; the
\* first one that cannot be opened ends it with an error.
Prewarm ==
    /\ ~ready
    /\ nextId < MinSize
    /\ nextId < MaxIds
    /\ connections' = connections \cup {nextId}
    /\ idleQueue' = Append(idleQueue, nextId)
    /\ idleCount' = (idleCount + 1) % Wrap
    /\ nextId' = nextId + 1
    /\ UNCHANGED <<idleLock, permits, ready, callerVars, shutPc, leaked, shutdowns>>

Initialized ==
    /\ ~ready
    /\ ready' = TRUE
    /\ UNCHANGED <<connections, idleQueue, idleLock, permits, nextId, idleCount,
                   callerVars, shutPc, leaked, shutdowns>>

\* acquire, lines 160-163.  A caller whose timeout ends first stays out.
TakePermit(c) ==
    /\ ready
    /\ pc[c] = "out"
    /\ permits > 0
    /\ permits' = permits - 1
    /\ Goto(c, "locking")
    /\ UNCHANGED <<connections, idleQueue, idleLock, nextId, idleCount, ready,
                   conn, shutPc, leaked, shutdowns>>

\* Lines 165-169, an idle connection: the mutex stays locked until the end of
\* the block, through the ping.
TakeIdle(c) ==
    /\ pc[c] = "locking"
    /\ idleLock = NoCaller
    /\ idleQueue # << >>
    /\ Head(idleQueue) \in connections
    /\ idleQueue' = Tail(idleQueue)
    /\ conn' = [conn EXCEPT ![c] = Head(idleQueue)]
    /\ idleLock' = c
    /\ Goto(c, "pinging")
    /\ UNCHANGED <<connections, permits, nextId, idleCount, ready, shutPc, leaked, shutdowns>>

\* Mutant: try_lock in place of lock: a busy receiver is taken for an empty one.
NoIdleOrBusy(c) ==
    /\ pc[c] = "locking"
    /\ \/ (idleLock # NoCaller \/ idleQueue = << >>) /\ UNCHANGED idleQueue
       \/ /\ idleLock = NoCaller
          /\ idleQueue # << >>
          /\ Head(idleQueue) \notin connections
          /\ idleQueue' = Tail(idleQueue)
    /\ Goto(c, "creating")
    /\ UNCHANGED <<connections, idleLock, permits, nextId, idleCount, ready, conn,
                   shutPc, leaked, shutdowns>>

\* Lines 165-166: no idle id, or the id of a connection that is gone.
NoIdle(c) ==
    /\ pc[c] = "locking"
    /\ idleLock = NoCaller
    /\ \/ idleQueue = << >> /\ UNCHANGED idleQueue
       \/ /\ idleQueue # << >>
          /\ Head(idleQueue) \notin connections
          /\ idleQueue' = Tail(idleQueue)
    /\ Goto(c, "creating")
    /\ UNCHANGED <<connections, idleLock, permits, nextId, idleCount, ready, conn,
                   shutPc, leaked, shutdowns>>

\* Mutant: idle_count decremented with saturating_sub.
PingSaturates(c) ==
    /\ pc[c] = "pinging"
    /\ idleCount' = IF idleCount = 0 THEN 0 ELSE idleCount - 1
    /\ idleLock' = NoCaller
    /\ Goto(c, "holding")
    /\ UNCHANGED <<connections, idleQueue, permits, nextId, ready, conn, shutPc,
                   leaked, shutdowns>>

\* Mutant: the lock of the receiver kept by the guard that is handed out.
PingKeepsLock(c) ==
    /\ pc[c] = "pinging"
    /\ idleCount' = (idleCount - 1) % Wrap
    /\ Goto(c, "holding")
    /\ UNCHANGED <<connections, idleQueue, idleLock, permits, nextId, ready, conn, shutPc,
                   leaked, shutdowns>>

\* Lines 171-180: a fresh connection that answers is handed out.
PingAnswered(c) ==
    /\ pc[c] = "pinging"
    /\ idleCount' = (idleCount - 1) % Wrap
    /\ idleLock' = NoCaller
    /\ Goto(c, "holding")
    /\ UNCHANGED <<connections, idleQueue, permits, nextId, ready, conn, shutPc,
                   leaked, shutdowns>>

\* Lines 182-185 and 190-192: a connection that does not answer, or that has
\* been idle for too long, is to be removed from the map.  The removal waits
\* for the shard that `entry`, alive until the end of the block, keeps locked:
\* it does not return, and the caller keeps the permit and the mutex.
Discard(c) ==
    /\ MayDie
    /\ pc[c] = "pinging"
    /\ Goto(c, "removing")
    /\ UNCHANGED <<poolVars, conn, shutPc, leaked, shutdowns>>

\* Mutant: the new id is the number of connections in the map.
ConnectByLen(c) ==
    /\ pc[c] = "creating"
    /\ nextId < MaxIds
    /\ conn' = [conn EXCEPT ![c] = Cardinality(connections)]
    /\ nextId' = nextId + 1
    /\ Goto(c, "inserting")
    /\ UNCHANGED <<connections, idleQueue, idleLock, permits, idleCount, ready,
                   shutPc, leaked, shutdowns>>

\* Lines 200-203, and the error of create_connection.
Connect(c) ==
    /\ pc[c] = "creating"
    /\ nextId < MaxIds
    /\ conn' = [conn EXCEPT ![c] = nextId]
    /\ nextId' = nextId + 1
    /\ Goto(c, "inserting")
    /\ UNCHANGED <<connections, idleQueue, idleLock, permits, idleCount, ready,
                   shutPc, leaked, shutdowns>>

ConnectFails(c) ==
    /\ pc[c] = "creating"
    /\ Goto(c, "releasing")
    /\ UNCHANGED <<poolVars, conn, shutPc, leaked, shutdowns>>

\* Lines 204-215: the write waits, on its thread, for the references into the shard.
Insert(c) ==
    /\ pc[c] = "inserting"
    /\ Shard(conn[c]) \notin ReferencedShards
    /\ connections' = connections \cup {conn[c]}
    /\ Goto(c, "holding")
    /\ UNCHANGED <<idleQueue, idleLock, permits, nextId, idleCount, ready, conn,
                   shutPc, leaked, shutdowns>>

\* The caller drops the future of acquire at one of its awaits (lines 165, 171
\* and 200); what the future owned is dropped, the id it had taken is not
\* put back.
Cancel(c) ==
    /\ pc[c] \in {"locking", "pinging", "creating"}
    /\ Cardinality(leaked) < MaxCancels
    /\ permits' = permits + 1
    /\ Goto(c, "out")
    /\ IF pc[c] = "pinging"
       THEN /\ idleLock' = NoCaller
            /\ leaked' = leaked \cup {conn[c]}
       ELSE UNCHANGED <<idleLock, leaked>>
    /\ UNCHANGED <<connections, idleQueue, nextId, idleCount, ready, conn, shutPc, shutdowns>>

----------------------------------------------------------------------------
\* driver and with_driver: the reference lives until the query has ended.
\* A connection that is gone is an error and changes nothing.
StartQuery(c) ==
    /\ pc[c] = "holding"
    /\ conn[c] \in connections
    /\ Goto(c, "querying")
    /\ UNCHANGED <<poolVars, conn, shutPc, leaked, shutdowns>>

EndQuery(c) ==
    /\ pc[c] = "querying"
    /\ Goto(c, "holding")
    /\ UNCHANGED <<poolVars, conn, shutPc, leaked, shutdowns>>

\* Drop of the guard: return_connection's test, line 219.
Drop(c) ==
    /\ pc[c] = "holding"
    /\ Goto(c, IF conn[c] \in connections THEN "sending" ELSE "releasing")
    /\ UNCHANGED <<poolVars, conn, shutPc, leaked, shutdowns>>

\* Line 220; a full channel refuses the id and nothing reports it.
SendIdle(c) ==
    /\ pc[c] = "sending"
    /\ idleQueue' = IF Len(idleQueue) < MaxSize THEN Append(idleQueue, conn[c]) ELSE idleQueue
    /\ Goto(c, "counting")
    /\ UNCHANGED <<connections, idleLock, permits, nextId, idleCount, ready, conn,
                   shutPc, leaked, shutdowns>>

\* Lines 221-222.
CountIdle(c) ==
    /\ pc[c] = "counting"
    /\ idleCount' = (idleCount + 1) % Wrap
    /\ Goto(c, "releasing")
    /\ UNCHANGED <<connections, idleQueue, idleLock, permits, nextId, ready, conn,
                   shutPc, leaked, shutdowns>>

\* The permit is dropped after the body of Drop, or with a failed acquire.
Release(c) ==
    /\ pc[c] = "releasing"
    /\ permits' = permits + 1
    /\ Goto(c, "out")
    /\ UNCHANGED <<connections, idleQueue, idleLock, nextId, idleCount, ready, conn,
                   shutPc, leaked, shutdowns>>

----------------------------------------------------------------------------
\* shutdown: the map is cleared one shard after the other, then the count is
\* reset.  The channel keeps its ids, and the pool stays open.  Each shard is waited
\* for like an insertion's.
StartShutdown ==
    /\ ready
    /\ shutPc = NotShutting
    /\ shutdowns < MaxShutdowns
    /\ shutdowns' = shutdowns + 1
    /\ shutPc' = 0
    /\ UNCHANGED <<poolVars, callerVars, leaked>>

ClearShard ==
    /\ shutPc \in 0..(Shards - 1)
    /\ shutPc \notin ReferencedShards
    /\ connections' = {id \in connections : Shard(id) # shutPc}
    /\ shutPc' = IF shutPc = Shards - 1 THEN Resetting ELSE shutPc + 1
    /\ UNCHANGED <<idleQueue, idleLock, permits, nextId, idleCount, ready, callerVars,
                   leaked, shutdowns>>

ResetCount ==
    /\ shutPc = Resetting
    /\ idleCount' = 0
    /\ shutPc' = NotShutting
    /\ UNCHANGED <<connections, idleQueue, idleLock, permits, nextId, ready, callerVars,
                   leaked, shutdowns>>

----------------------------------------------------------------------------
Acquire(c) == \/ TakeIdle(c) \/ NoIdle(c) \/ PingAnswered(c) \/ Discard(c)
              \/ Connect(c) \/ ConnectFails(c) \/ Insert(c)
Return(c) == Drop(c) \/ SendIdle(c) \/ CountIdle(c) \/ Release(c)
Query(c) == StartQuery(c) \/ EndQuery(c)
Shutdown == StartShutdown \/ ClearShard \/ ResetCount

Next == \/ Prewarm \/ Initialized \/ Shutdown
        \/ \E c \in Callers : TakePermit(c) \/ Acquire(c) \/ Cancel(c) \/ Query(c) \/ Return(c)

Spec == Init /\ [][Next]_vars

\* A thread of the runtime is blocked: its task writes to a shard into which a
\* task that waits at an await holds a reference.
ThreadBlocked == \E shard \in ReferencedShards :
    \/ shutPc = shard
    \/ \E c \in Callers : pc[c] \in {"inserting", "removing"} /\ Shard(conn[c]) = shard

\* While no thread is blocked, tasks are polled: every connection attempt, ping and
\* query ends, a guard is dropped in the end, and tokio's mutex serves its waiters
\* in order, so who waits for it gets it.  While one is blocked nothing is promised
\* of a task at an await: the blocked thread may be the one that has it in its slot
\* or that would poll the driver for it.  A stretch without an await goes on by
\* itself; nothing says that a writer gets the shard before the next reader.
\* Nothing says that an acquire is begun or that shutdown is called.
Fairness == \A c \in Callers :
    /\ SF_vars(~ThreadBlocked /\ (TakeIdle(c) \/ NoIdle(c)))
    /\ WF_vars(~ThreadBlocked /\ (PingAnswered(c) \/ Discard(c)))
    /\ WF_vars(~ThreadBlocked /\ (Connect(c) \/ ConnectFails(c)))
    /\ WF_vars(Insert(c))
    /\ WF_vars(~ThreadBlocked /\ EndQuery(c))
    /\ SF_vars(~ThreadBlocked /\ Drop(c))
    /\ WF_vars(SendIdle(c) \/ CountIdle(c) \/ Release(c))

FairSpec == Spec /\ Fairness

----------------------------------------------------------------------------
\* Callers that hold a permit, and those whose permit stands for a connection
\* that is neither in the channel nor going to come out of it.
Inside == {c \in Callers : pc[c] # "out"}
Committed == {c \in Callers : pc[c] \in {"pinging", "removing", "creating", "inserting",
                                         "holding", "querying", "sending"}}
WithConnection == {c \in Committed : pc[c] # "creating"}
Claiming == {c \in Callers : pc[c] \in {"pinging", "removing"}}
Counting == {c \in Callers : pc[c] = "counting"}

\* Every variable holds a value of its type.
TypeOK ==
    /\ connections \subseteq 0..(nextId - 1)
    /\ idleQueue \in Seq(0..(nextId - 1))
    /\ idleLock \in Callers \cup {NoCaller}
    /\ permits \in 0..MaxSize
    /\ nextId \in 0..MaxIds
    /\ idleCount \in 0..(Wrap - 1)
    /\ ready \in BOOLEAN
    /\ pc \in [Callers -> PcValues]
    /\ conn \in [Callers -> Nat]
    /\ shutPc \in 0..Resetting
    /\ leaked \subseteq 0..(nextId - 1)
    /\ shutdowns \in 0..MaxShutdowns

\* max_size bounds the connections that are open, whatever returns, failures
\* and shutdowns do while acquires are under way: only an acquire that is
\* cancelled during its ping adds one.
WithinMaxSize == Cardinality(connections \ leaked) <= MaxSize

\* A connection has one user: no two callers work with one id, and no id that
\* somebody works with, or that has leaked, can be taken from the channel.
OneUser ==
    /\ \A c \in WithConnection :
          /\ conn[c] \notin leaked
          /\ \A d \in WithConnection : c # d => conn[c] # conn[d]
    /\ \A i \in 1..Len(idleQueue) :
          /\ \A j \in 1..Len(idleQueue) : i # j => idleQueue[i] # idleQueue[j]
          /\ \A c \in WithConnection : idleQueue[i] # conn[c]
          /\ idleQueue[i] \notin leaked

\* idle_count is the number of idle ids up to the returns and the acquires
\* under way, as long as nothing was shut down or cancelled: no return's
\* channel is ever full, and no decrement is lost or made twice.
IdleCountAccounted ==
    shutdowns = 0 /\ leaked = {} =>
        idleCount = (Len(idleQueue) + Cardinality(Claiming) - Cardinality(Counting)) % Wrap

\* An acquire that has its permit returns, with a connection or an error, beside
\* queries, returns, cancellations and shutdowns, unless a thread is blocked on a
\* shard on the way: by the removal of a dead connection, by an insertion or by a
\* shutdown, while somebody's ping or query keeps a reference.
AcquireReturns == \A c \in Callers :
    pc[c] = "locking" ~> (pc[c] \in {"out", "holding"} \/ ThreadBlocked)

----------------------------------------------------------------------------
(* What the code's comments say and it does not do *)

\* pool.rs:170, "drop it if dead": a connection that failed its ping, or that
\* was idle for too long, leaves the map.
DeadConnectionDropped == \A c \in Callers :
    pc[c] = "removing" ~> conn[c] \notin connections
=============================================================================
