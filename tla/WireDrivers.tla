----------------------------- MODULE WireDrivers -----------------------------
(***************************************************************************)
(* The wire drivers of Tether (tether/proxy/src/drivers: wire.rs,          *)
(* wire_postgres.rs, wire_mysql.rs, wire_redis.rs) and the host functions  *)
(* a Wasm guest calls them through (tether/proxy/src/component.rs).        *)
(*                                                                         *)
(* One connection to one server.  The server answers commands in the order *)
(* they are written, so its answer is queued when the command is; a reply  *)
(* is its kind and the number of the command it answers.  Drivers are      *)
(* cloned, and a clone uses the same stream: Tasks[k] are the tasks that   *)
(* do.  For Postgres it is the guest alone, so the five messages of the    *)
(* extended protocol, each written under a lock of its own, are one step.  *)
(***************************************************************************)
EXTENDS Integers, Sequences, FiniteSets

CONSTANTS
    DriverKinds,   \* the kinds of server, of "postgres", "mysql", "redis"
    Tasks,         \* Tasks[k]: the tasks that use the connection; "guest" is one
    MaxCalls       \* bound: commands written to the server

ASSUME WireAssumption ==
    /\ DriverKinds \subseteq {"postgres", "mysql", "redis"}
    /\ \A k \in DriverKinds : "guest" \in Tasks[k] /\ "none" \notin Tasks[k]
    /\ "postgres" \in DriverKinds => Tasks["postgres"] = {"guest"}
    /\ MaxCalls \in Nat

VARIABLES
    wKind,         \* DriverKind
    wUp,           \* connect: "auth", "up", "failed", or "broken" later on
    wIn,           \* what the server has sent and nobody has read
    wSrv,          \* the server's session: "login", "idle", "txn", "failed"
    wLock,         \* who holds the mutex around the stream
    wCall,         \* wCall[t]: the call t is in
    wCount,        \* commands written
    wOpen,         \* WitHostState.open_transaction is there
    wHandle,       \* the guest has a transaction resource
    wTorn,         \* a call has returned before the last reply to it
    wBad           \* a call has returned with replies to another's command

wVars == <<wKind, wUp, wIn, wSrv, wLock, wCall, wCount, wOpen, wHandle, wTorn, wBad>>

Ops == {"query", "execute", "ping", "begin", "commit", "rollback"}
NoCall == [op |-> "none", params |-> FALSE, at |-> "idle", n |-> 0, skip |-> 0, cols |-> FALSE, got |-> {}]
Users == IF wKind = "postgres" THEN Tasks.postgres ELSE IF wKind = "mysql" THEN Tasks.mysql ELSE Tasks.redis
AllTasks == UNION {Tasks[k] : k \in DriverKinds}

Replies == {"R", "S", "Z", "E", "T", "D", "C", "1", "2", "n",                   \* Postgres
            "ok", "err", "switch", "greet", "prepared", "count", "def", "eof", "row", "rowempty", \* MySQL
            "hello", "simple", "queued", "value", "array"}                        \* Redis

WTypeOK ==
    /\ wKind \in DriverKinds /\ wUp \in {"auth", "up", "failed", "broken"}
    /\ \A i \in DOMAIN wIn : wIn[i].m \in Replies /\ wIn[i].of \in 0 .. MaxCalls
    /\ wSrv \in {"login", "idle", "txn", "failed"}
    /\ wLock \in AllTasks \cup {"none"} /\ wOpen \in BOOLEAN /\ wHandle \in BOOLEAN
    /\ \A t \in AllTasks : wCall[t].op \in Ops \cup {"none"} /\ wCall[t].n \in 0 .. MaxCalls
    /\ wCount \in 0 .. MaxCalls

From(n, ms) == [i \in DOMAIN ms |-> [m |-> ms[i], of |-> n]]
-----------------------------------------------------------------------------
(* connect                                                                 *)

\* What the server asks for first.  A password message is written without its
\* type byte, so a Postgres server that asks for one refuses it.
PgLogin == {<<"R", "S", "Z">>, <<"R", "E">>, <<"E">>}
MysqlLogin == {<<"greet", "ok">>, <<"greet", "err">>, <<"greet", "switch", "ok">>, <<"greet", "switch", "err">>, <<"err">>}
RedisLogin == {<<"hello">>, <<"err">>, <<"err", "simple">>, <<"hello", "simple", "simple">>, <<"hello", "err">>}
Logins == IF wKind = "postgres" THEN PgLogin ELSE IF wKind = "mysql" THEN MysqlLogin ELSE RedisLogin

WInit ==
    /\ wKind \in DriverKinds
    /\ wUp = "auth" /\ wSrv = "login" /\ wLock = "none"
    /\ wIn \in {From(0, l) : l \in Logins}
    /\ wCall = [t \in AllTasks |-> NoCall] /\ wCount = 0
    /\ wOpen = FALSE /\ wHandle = FALSE /\ wTorn = FALSE /\ wBad = FALSE

LoginRead(up) ==
    /\ wUp = "auth" /\ wUp' = up
    /\ wSrv' = IF up = "up" THEN "idle" ELSE wSrv
    /\ UNCHANGED <<wKind, wLock, wCall, wCount, wOpen, wHandle, wTorn, wBad>>

\* PostgresWireDriver::connect: the authentication loop ends at ReadyForQuery.
PgConnect ==
    /\ wKind = "postgres" /\ wIn # <<>> /\ wIn' = Tail(wIn)
    /\ LoginRead(CASE Head(wIn).m = "Z" -> "up" [] Head(wIn).m = "E" -> "failed" [] OTHER -> "auth")

\* MysqlWireDriver::handshake: the greeting, the response, an auth switch.
MysqlHandshake ==
    /\ wKind = "mysql" /\ wIn # <<>> /\ wIn' = Tail(wIn)
    /\ LoginRead(CASE Head(wIn).m = "ok" -> "up" [] Head(wIn).m = "err" -> "failed" [] OTHER -> "auth")

\* RedisWireDriver::connect: HELLO 3 may fail; AUTH and SELECT, if they are
\* sent, may not.
RedisConnect ==
    /\ wKind = "redis" /\ wIn # <<>>
    /\ wIn' = <<>>
    /\ LoginRead(IF \E i \in DOMAIN wIn : i > 1 /\ wIn[i].m = "err" THEN "failed" ELSE "up")

WireConnect == PgConnect \/ MysqlHandshake \/ RedisConnect
-----------------------------------------------------------------------------
(* The server                                                              *)

\* Its session after a command with the given outcome.
SessionAfter(op, outcome) ==
    CASE op = "begin" /\ outcome # "err" -> "txn"
      [] op \in {"commit", "rollback"}   -> "idle"
      [] op \in {"query", "execute"} /\ outcome = "err" /\ wSrv # "idle" /\ wKind # "mysql" -> "failed"
      [] OTHER -> wSrv

\* What it may say: rows for a query, an error for anything, and nothing but
\* an error in a failed transaction.
Outcomes(op) ==
    IF wSrv = "failed" /\ ~(op = "rollback" \/ (op = "commit" /\ wKind = "postgres")) THEN {"err"}
    ELSE IF op = "begin" /\ wKind = "redis" /\ wSrv = "txn" THEN {"err"}
    ELSE IF op \in {"commit", "rollback"} /\ wKind = "redis" /\ wSrv = "idle" THEN {"err"}
    ELSE IF op = "query" THEN {"rows", "done", "err"}
    ELSE IF op = "ping" THEN {IF wKind = "postgres" THEN "rows" ELSE "done"}
    ELSE {"done", "err"}

PgReplies(params, outcome) ==
    CASE outcome = "err" -> <<"E", "Z">>
      [] outcome = "rows" -> IF params THEN <<"1", "2", "T", "D", "C", "Z">> ELSE <<"T", "D", "C", "Z">>
      [] OTHER -> IF params THEN <<"1", "2", "n", "C", "Z">> ELSE <<"C", "Z">>

MysqlReplies(outcome) ==
    CASE outcome = "err" -> {<<"err">>}
      [] outcome = "rows" -> {<<"count", "def", "eof", r, "eof">> : r \in {"row", "rowempty"}}
      [] OTHER -> {<<"ok">>}

RedisReply(op, outcome) ==
    CASE outcome = "err" -> <<"err">>
      [] op = "commit" -> <<"array">>
      [] op \in {"query", "execute", "ping"} /\ wSrv = "txn" -> <<"queued">>
      [] outcome = "rows" -> <<"value">>
      [] OTHER -> <<"simple">>
-----------------------------------------------------------------------------
(* A call: WireDriver and WireTransaction dispatch on the kind.  The guest *)
(* calls through WitHostState, one call at a time.                         *)

Busy(t) == wCall[t].at # "idle"
CallStarts(t, op, params) ==
    /\ wUp \in {"up", "broken"} /\ ~Busy(t) /\ wCount < MaxCalls
    /\ wCall' = [wCall EXCEPT ![t] = [NoCall EXCEPT !.op = op, !.params = params, !.at = "lock"]]
    /\ UNCHANGED <<wKind, wUp, wIn, wSrv, wLock, wCount, wTorn, wBad>>

\* data.query, data.execute and the kv functions; query and execute of a
\* transaction go to the same stream, if there is a transaction.
GuestCall(t) ==
    /\ \E op \in {"query", "execute", "ping"}, params \in BOOLEAN :
         /\ op = "ping" => ~params
         /\ CallStarts(t, op, params)
    /\ UNCHANGED <<wOpen, wHandle>>

\* begin_transaction.
BeginTransaction ==
    /\ CallStarts("guest", "begin", FALSE)
    /\ UNCHANGED <<wOpen, wHandle>>

\* commit and rollback: open_transaction is taken before the command is sent.
EndTransaction ==
    /\ wOpen /\ wHandle
    /\ \E op \in {"commit", "rollback"} : CallStarts("guest", op, FALSE)
    /\ wOpen' = FALSE /\ wHandle' = FALSE

\* Mutant: the host forgets the transaction with the guest's handle.
DropHandleForgets ==
    /\ wHandle /\ ~Busy("guest")
    /\ wHandle' = FALSE /\ wOpen' = FALSE
    /\ UNCHANGED <<wKind, wUp, wIn, wSrv, wLock, wCall, wCount, wTorn, wBad>>

\* HostTransaction::drop does nothing: the transaction stays where it is.
DropHandle ==
    /\ wHandle /\ ~Busy("guest")
    /\ wHandle' = FALSE
    /\ UNCHANGED <<wKind, wUp, wIn, wSrv, wLock, wCall, wCount, wOpen, wTorn, wBad>>

\* The call returns; begin_transaction leaves the transaction in the host.
Returns(t, failed, got) ==
    /\ wCall' = [wCall EXCEPT ![t] = NoCall]
    /\ wLock' = IF wLock = t THEN "none" ELSE wLock
    /\ wOpen' = (wOpen \/ (wCall[t].op = "begin" /\ ~failed))
    /\ wHandle' = (wHandle \/ (wCall[t].op = "begin" /\ ~failed))
    /\ wBad' = (wBad \/ got \ {wCall[t].n} # {})

\* A closed socket fails whatever is tried on it; the driver keeps it.
CallFails(t) ==
    /\ wUp = "broken" /\ Busy(t) /\ wLock \in {"none", t}
    /\ Returns(t, TRUE, {})
    /\ UNCHANGED <<wKind, wUp, wIn, wSrv, wCount, wTorn>>

ConnectionLost ==
    /\ wUp = "up"
    /\ wUp' = "broken" /\ wIn' = <<>> /\ wSrv' = "idle"
    /\ UNCHANGED <<wKind, wLock, wCall, wCount, wOpen, wHandle, wTorn, wBad>>

\* The command is written.  Only MySQL and Redis hold the lock from here to
\* the last reply.
Written(t, at, ms, srv) ==
    /\ wUp = "up" /\ wCall[t].at = "lock" /\ wLock = "none" /\ wCount < MaxCalls
    /\ wIn' = wIn \o From(wCount + 1, ms)
    /\ wSrv' = srv
    /\ wCall' = [wCall EXCEPT ![t].at = at, ![t].n = wCount + 1]
    /\ wCount' = wCount + 1
    /\ wLock' = IF wKind = "postgres" THEN wLock ELSE t
    /\ UNCHANGED <<wKind, wUp, wOpen, wHandle, wTorn, wBad>>

Op(t) == wCall[t].op
Takes(t, at) == wUp = "up" /\ wCall[t].at = at /\ wIn # <<>> /\ wIn' = Tail(wIn)
Keep(t, call) ==
    /\ wCall' = [wCall EXCEPT ![t] = [call EXCEPT !.got = wCall[t].got \cup {Head(wIn).of}]]
    /\ UNCHANGED <<wLock, wOpen, wHandle, wBad>>
Ends(t, failed) == Returns(t, failed, wCall[t].got \cup {Head(wIn).of})
StaysUp == UNCHANGED <<wKind, wUp, wSrv, wCount>>
-----------------------------------------------------------------------------
(* Postgres                                                                *)

\* send_frontend for a simple query, send_extended for one with parameters.
PgSend(t) ==
    /\ wKind = "postgres"
    /\ \E outcome \in Outcomes(Op(t)) :
         Written(t, "pg", PgReplies(wCall[t].params, outcome), SessionAfter(Op(t), outcome))

\* One turn of the loop in read_result_set and in simple_execute: an error
\* returns at once, without the ReadyForQuery that follows it.
PgRead(t) ==
    /\ Takes(t, "pg")
    /\ CASE Head(wIn).m = "Z" -> Ends(t, FALSE) /\ UNCHANGED wTorn
         [] Head(wIn).m = "E" -> Ends(t, TRUE) /\ wTorn' = TRUE
         [] OTHER -> Keep(t, wCall[t]) /\ UNCHANGED wTorn
    /\ StaysUp
-----------------------------------------------------------------------------
(* MySQL                                                                   *)

\* com_query and ping write one command, a query with parameters prepares.
MysqlSend(t) ==
    /\ wKind = "mysql"
    /\ IF wCall[t].params
       THEN \/ Written(t, "prepare", <<"err">>, wSrv)
            \/ Written(t, "prepare", <<"prepared", "def", "eof", "def", "eof">>, wSrv)
       ELSE \E outcome \in Outcomes(Op(t)) :
              \E ms \in MysqlReplies(outcome) : Written(t, "text", ms, SessionAfter(Op(t), outcome))

\* The loop of com_query: the column count is read as a column, the end of the
\* columns and the end of the rows are both skipped, and a row whose first
\* value is empty begins with the byte of an OK packet.
ComQuery(t) ==
    /\ Takes(t, "text")
    /\ CASE Head(wIn).m = "rowempty" -> Ends(t, FALSE) /\ wTorn' = TRUE
         [] Head(wIn).m = "ok"  -> Ends(t, FALSE) /\ UNCHANGED wTorn
         [] Head(wIn).m = "err" -> Ends(t, TRUE) /\ UNCHANGED wTorn
         [] Head(wIn).m = "eof" /\ ~wCall[t].cols -> Ends(t, FALSE) /\ UNCHANGED wTorn
         [] Head(wIn).m = "eof" /\ wCall[t].cols -> Keep(t, wCall[t]) /\ UNCHANGED wTorn
         [] OTHER -> Keep(t, [wCall[t] EXCEPT !.cols = TRUE]) /\ UNCHANGED wTorn
    /\ StaysUp

\* COM_STMT_PREPARE: its answer, then the definitions of one parameter and one
\* column, each with an EOF.
PrepareRead(t) ==
    /\ Takes(t, "prepare")
    /\ IF Head(wIn).m = "err" THEN Ends(t, TRUE)
       ELSE Keep(t, [wCall[t] EXCEPT !.at = "skip", !.skip = 4])
    /\ StaysUp /\ UNCHANGED wTorn
SkipDefinition(t) ==
    /\ wCall[t].skip > 0 /\ Takes(t, "skip")
    /\ Keep(t, [wCall[t] EXCEPT !.skip = @ - 1])
    /\ StaysUp /\ UNCHANGED wTorn

\* COM_STMT_EXECUTE, under the same lock.
StmtExecute(t) ==
    /\ wUp = "up" /\ wCall[t].at = "skip" /\ wCall[t].skip = 0
    /\ \E outcome \in Outcomes(Op(t)) : \E ms \in MysqlReplies(outcome) :
         /\ wIn' = wIn \o From(wCall[t].n, ms)
         /\ wSrv' = SessionAfter(Op(t), outcome)
    /\ wCall' = [wCall EXCEPT ![t].at = "binary"]
    /\ UNCHANGED <<wKind, wUp, wLock, wCount, wOpen, wHandle, wTorn, wBad>>

\* read_binary_resultset: OK, error, or count, definition, EOF, rows, EOF.
BinaryFirst(t) ==
    /\ Takes(t, "binary")
    /\ CASE Head(wIn).m = "ok"  -> Ends(t, FALSE)
         [] Head(wIn).m = "err" -> Ends(t, TRUE)
         [] OTHER -> Keep(t, [wCall[t] EXCEPT !.at = "columns", !.skip = 2])
    /\ StaysUp /\ UNCHANGED wTorn
BinaryColumns(t) ==
    /\ wCall[t].skip > 0 /\ Takes(t, "columns")
    /\ Keep(t, [wCall[t] EXCEPT !.skip = @ - 1, !.at = IF wCall[t].skip = 1 THEN "rows" ELSE @])
    /\ StaysUp /\ UNCHANGED wTorn
BinaryRow(t) ==
    /\ Takes(t, "rows")
    /\ CASE Head(wIn).m = "eof" -> Ends(t, FALSE)
         [] Head(wIn).m = "err" -> Ends(t, TRUE)
         [] OTHER -> Keep(t, wCall[t])
    /\ StaysUp /\ UNCHANGED wTorn
-----------------------------------------------------------------------------
(* Redis: send_and_read holds the lock over one command and one frame.     *)

RedisSend(t) ==
    /\ wKind = "redis"
    /\ \E outcome \in Outcomes(Op(t)) :
         Written(t, "frame", RedisReply(Op(t), outcome), SessionAfter(Op(t), outcome))
RedisRead(t) ==
    /\ Takes(t, "frame")
    /\ Ends(t, Head(wIn).m = "err")
    /\ StaysUp /\ UNCHANGED wTorn
-----------------------------------------------------------------------------
Reads(t) == PgRead(t) \/ ComQuery(t) \/ PrepareRead(t) \/ SkipDefinition(t) \/ StmtExecute(t)
               \/ BinaryFirst(t) \/ BinaryColumns(t) \/ BinaryRow(t) \/ RedisRead(t)
WNext ==
    \/ WireConnect
    \/ \E t \in Users : GuestCall(t) \/ PgSend(t) \/ MysqlSend(t) \/ RedisSend(t) \/ Reads(t) \/ CallFails(t)
    \/ BeginTransaction \/ EndTransaction \/ DropHandle
    \/ ConnectionLost

WSpec == WInit /\ [][WNext]_wVars
-----------------------------------------------------------------------------
\* A call returns with the answer to its own command, until one has returned
\* too early: at a Postgres error, or at a row of a MySQL text result that
\* begins with an empty value.
OwnReplies == wBad => wTorn

\* wire_postgres.rs:349: simple_execute reads until ReadyForQuery, "otherwise
\* the trailing ReadyForQuery is left unread and desyncs the next command sent
\* on this connection".  A call returns with the answer to its own command.
PgInStep == wKind = "postgres" => ~wBad

\* A transaction that is open on the server is one the host can still end, as
\* long as the replies are in step.
NoOrphanTransaction == wSrv \in {"txn", "failed"} /\ ~Busy("guest") /\ ~wTorn => wOpen

\* Whoever waits for a reply gets one, as long as the replies are in step,
\* unless it reads a MySQL text result: it skips the end of the rows as well.
Starves(t) ==
    /\ wUp = "up" /\ wIn = <<>>
    /\ wCall[t].at \notin {"idle", "lock"} /\ ~(wCall[t].at = "skip" /\ wCall[t].skip = 0)
NobodyStarves ==
    \A t \in Users : Starves(t) => wCall[t].at = "text" \/ wTorn

\* The three together: what a caller of the drivers may rely on.
WireSound == OwnReplies /\ NoOrphanTransaction /\ NobodyStarves
=============================================================================
