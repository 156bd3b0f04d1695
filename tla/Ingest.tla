------------------------------- MODULE Ingest -------------------------------
(***************************************************************************)
(* Scope's ingest service (scope/backend cmd/ingest and internal/buffer):  *)
(* OTLP handlers read an export, push its records into a RingBuffer and    *)
(* answer; the Flusher's goroutine drains it into ClickHouse at every      *)
(* tick; main stops the gRPC server, then the HTTP server, then the        *)
(* Flusher, which flushes once more.                                       *)
(*                                                                         *)
(* The service has three such pipelines (traces, metrics and logs) that    *)
(* share nothing; this is one of them.                                     *)
(***************************************************************************)
EXTENDS RingBuffer, FiniteSets

CONSTANTS
    GrpcExports,    \* export requests of gRPC clients
    HttpExports,    \* export requests of HTTP clients
    Size            \* records in an export

Exports == GrpcExports \cup HttpExports
Records == Exports \X (1..Size)

ASSUME RecordsAssumption == Items = Records /\ Zero \notin Records /\ Size \in Nat \ {0}
ASSUME ExportsAssumption == GrpcExports \cap HttpExports = {}

VARIABLES
    handler,        \* where the handler of each export is
    pushed,         \* records of each export already pushed
    loopPc,         \* where the Flusher's goroutine is
    loopItems,      \* the items it writes
    mainPc,         \* where main is
    mainItems,      \* the items of the final flush
    accepted,       \* history: the records pushed, in order
    overwritten,    \* history: the records that gave way to newer ones
    written,        \* history: the records in ClickHouse, in order of arrival
    lost            \* history: the records whose write failed

handlerVars == <<handler, pushed>>
flushVars == <<loopPc, loopItems>>
mainVars == <<mainPc, mainItems>>
outcomeVars == <<written, lost>>
history == <<accepted, overwritten, outcomeVars>>
vars == <<ringVars, handlerVars, flushVars, mainVars, history>>

RangeOf(s) == {s[i] : i \in 1..Len(s)}

Init ==
    /\ RingInit
    /\ handler = [e \in Exports |-> "waiting"]
    /\ pushed = [e \in Exports |-> 0]
    /\ loopPc = "select" /\ loopItems = << >>
    /\ mainPc = "serving" /\ mainItems = << >>
    /\ accepted = << >>
    /\ overwritten = {}
    /\ written = << >>
    /\ lost = {}

----------------------------------------------------------------------------
\* A server takes new requests until it is told to stop.
Accept(e) ==
    /\ handler[e] = "waiting"
    /\ \/ e \in GrpcExports /\ mainPc = "serving"
       \/ e \in HttpExports /\ mainPc \in {"serving", "stopGrpc"}
    /\ handler' = [handler EXCEPT ![e] = "reading"]
    /\ UNCHANGED <<ringVars, pushed, flushVars, mainVars, history>>

\* The client has sent the whole of its request (io.ReadAll; of a gRPC call the
\* server reads it before it calls Export), and it is decoded; or the connection
\* ends, or the body is too long or not of OTLP, and nothing is pushed.  Neither
\* server has a timeout for it.
Receive(e) ==
    /\ handler[e] = "reading"
    /\ \E next \in {"pushing", "answered"} : handler' = [handler EXCEPT ![e] = next]
    /\ UNCHANGED <<ringVars, pushed, flushVars, mainVars, history>>

\* HandleTraces and Export: one Push per record.
PushRecord(e) ==
    LET record == <<e, pushed[e] + 1>>
    IN  /\ handler[e] = "pushing"
        /\ pushed[e] < Size
        /\ Push(record)
        /\ pushed' = [pushed EXCEPT ![e] = @ + 1]
        /\ accepted' = Append(accepted, record)
        /\ overwritten' = IF count = Capacity THEN overwritten \cup {buf[head]} ELSE overwritten
        /\ UNCHANGED <<handler, flushVars, mainVars, outcomeVars>>

Answer(e) ==
    /\ handler[e] = "pushing"
    /\ pushed[e] = Size
    /\ handler' = [handler EXCEPT ![e] = "answered"]
    /\ UNCHANGED <<ringVars, pushed, flushVars, mainVars, history>>

----------------------------------------------------------------------------
\* The goroutine of Start at a tick.  The select takes a tick that is due even
\* if stopCh is closed.
Tick ==
    /\ loopPc = "select"
    /\ Drain
    /\ loopItems' = Contents
    /\ loopPc' = "writing"
    /\ UNCHANGED <<handlerVars, mainVars, history>>

\* flushFn: the records are in ClickHouse, or the error is logged and they are
\* forgotten.
Written(items) ==
    \/ written' = written \o items /\ UNCHANGED lost
    \/ lost' = lost \cup RangeOf(items) /\ UNCHANGED written

\* Mutant: the goroutine returns when a write fails.
LoopEndsOnError ==
    /\ loopPc = "writing"
    /\ Written(loopItems)
    /\ loopItems' = << >>
    /\ loopPc' = IF lost' = lost THEN "select" ELSE "exited"
    /\ UNCHANGED <<ringVars, handlerVars, mainVars, accepted, overwritten>>

LoopWritten ==
    /\ loopPc = "writing"
    /\ Written(loopItems)
    /\ loopItems' = << >>
    /\ loopPc' = "select"
    /\ UNCHANGED <<ringVars, handlerVars, mainVars, accepted, overwritten>>

\* Mutant: Stop waits for the goroutine before it closes stopCh.
LoopExitTooLate ==
    /\ loopPc = "select"
    /\ mainPc \in {"writing", "done"}
    /\ loopPc' = "exited"
    /\ UNCHANGED <<ringVars, handlerVars, loopItems, mainVars, history>>

LoopExit ==
    /\ loopPc = "select"
    /\ mainPc = "stopFlusher"
    /\ loopPc' = "exited"
    /\ UNCHANGED <<ringVars, handlerVars, loopItems, mainVars, history>>

----------------------------------------------------------------------------
Goto(label) == mainPc' = label /\ UNCHANGED <<ringVars, handlerVars, flushVars, mainItems, history>>

Idle(exports) == \A e \in exports : handler[e] \in {"waiting", "answered"}

Signal == mainPc = "serving" /\ Goto("stopGrpc")

\* GracefulStop returns once the calls under way have ended.
GrpcStopped == mainPc = "stopGrpc" /\ Idle(GrpcExports) /\ Goto("stopHttp")

\* Mutant: the Flusher is stopped while HTTP handlers may still push.
HttpNotAwaited == mainPc = "stopHttp" /\ Goto("stopFlusher")

\* Shutdown with a context that never ends waits for the requests under way;
\* then Stop closes stopCh.
HttpStopped == mainPc = "stopHttp" /\ Idle(HttpExports) /\ Goto("stopFlusher")

\* Mutant: Stop does not wait for the goroutine.
FinalFlushAtOnce ==
    /\ mainPc = "stopFlusher"
    /\ IF count = 0
       THEN mainPc' = "done" /\ UNCHANGED <<ringVars, mainItems>>
       ELSE Drain /\ mainItems' = Contents /\ mainPc' = "writing"
    /\ UNCHANGED <<handlerVars, flushVars, history>>

\* Stop, after wg.Wait: Flush.
FinalFlush ==
    /\ mainPc = "stopFlusher"
    /\ loopPc = "exited"
    /\ IF count = 0
       THEN mainPc' = "done" /\ UNCHANGED <<ringVars, mainItems>>
       ELSE Drain /\ mainItems' = Contents /\ mainPc' = "writing"
    /\ UNCHANGED <<handlerVars, flushVars, history>>

FinalWritten ==
    /\ mainPc = "writing"
    /\ Written(mainItems)
    /\ mainItems' = << >>
    /\ mainPc' = "done"
    /\ UNCHANGED <<ringVars, handlerVars, flushVars, accepted, overwritten>>

----------------------------------------------------------------------------
Handle(e) == PushRecord(e) \/ Answer(e)
Flush == Tick \/ LoopWritten \/ LoopExit
Stop == GrpcStopped \/ HttpStopped \/ FinalFlush \/ FinalWritten

Next == (\E e \in Exports : Accept(e) \/ Receive(e) \/ Handle(e)) \/ Flush \/ Signal \/ Stop

Spec == Init /\ [][Next]_vars

\* The ticker ticks, writes end (with a result or an error), a handler that
\* has its request runs on, and so does main once it has begun to stop.  Nothing
\* says that a client calls, or that it finishes what it sends.
FairSpec ==
    /\ Spec
    /\ \A e \in Exports : WF_vars(Handle(e))
    /\ WF_vars(Tick) /\ WF_vars(LoopWritten) /\ WF_vars(LoopExit)
    /\ WF_vars(Stop)

----------------------------------------------------------------------------
\* Every variable holds a value of its type.
TypeOK ==
    /\ RingTypeOK
    /\ handler \in [Exports -> {"waiting", "reading", "pushing", "answered"}]
    /\ pushed \in [Exports -> 0..Size]
    /\ loopPc \in {"select", "writing", "exited"}
    /\ loopItems \in Seq(Records)
    /\ mainPc \in {"serving", "stopGrpc", "stopHttp", "stopFlusher", "writing", "done"}
    /\ mainItems \in Seq(Records)
    /\ accepted \in Seq(Records)
    /\ overwritten \subseteq Records
    /\ written \in Seq(Records)
    /\ lost \subseteq Records

\* The ring holds the newest records, in the order of their acceptance: what a
\* full ring gives up is always the oldest.
RingIsNewest ==
    /\ count <= Len(accepted)
    /\ Contents = SubSeq(accepted, Len(accepted) - count + 1, Len(accepted))

\* ClickHouse gets the records in the order of their acceptance, none twice:
\* drains by the goroutine and by the final flush do not overtake each other.
InOrder ==
    LET Place(r) == CHOOSE i \in 1..Len(accepted) : accepted[i] = r
    IN  \A i, j \in 1..Len(written) : i < j => Place(written[i]) < Place(written[j])

\* An accepted record is in exactly one place: in the ring, in a flush under
\* way, in ClickHouse, lost with a failed write, or overwritten.
Accounted ==
    \A r \in RangeOf(accepted) :
        Cardinality({p \in {<<"ring", RangeOf(Contents)>>, <<"loop", RangeOf(loopItems)>>,
                            <<"main", RangeOf(mainItems)>>, <<"written", RangeOf(written)>>,
                            <<"lost", lost>>, <<"overwritten", overwritten>>} : r \in p[2]}) = 1

\* What happens to the records on their way: the variables hold values of their
\* types, the ring keeps the newest, ClickHouse gets them in order, and each
\* accepted one is in exactly one place.
EventsKept == TypeOK /\ RingIsNewest /\ InOrder /\ Accounted

\* When main returns nothing is left behind: no handler reads or pushes, the ring
\* is empty and no flush is under way.
StoppedClean ==
    mainPc = "done" => Idle(Exports) /\ count = 0 /\ loopPc = "exited" /\ mainItems = << >>

\* An accepted record does not stay in memory.
RecordsSettle == \A r \in Records :
    r \in RangeOf(accepted) ~> r \in RangeOf(written) \cup lost \cup overwritten

\* A service that is told to stop stops, if every client finishes or breaks off the
\* request it has begun to send: Shutdown's context has no end and the servers no
\* timeouts, so one that does neither holds main up for ever.
ClientsFinish == \A e \in Exports : []<>(handler[e] # "reading")
Stops == ClientsFinish => (mainPc = "stopGrpc" ~> mainPc = "done")
=============================================================================
