---------------------------- MODULE TetherProofs -----------------------------
(***************************************************************************)
(* Proofs about what Tether keeps between the calls of its guests.         *)
(***************************************************************************)
EXTENDS WireDrivers, Subscriptions, HealthMonitor, TLAPS, WellFoundedInduction

-----------------------------------------------------------------------------
(* The wire drivers: as long as no call has returned too early, what has   *)
(* been sent and not been read is what the one call that has written its   *)
(* command will read.                                                      *)

Waits == {"pg", "frame", "text", "prepare", "skip", "binary", "columns", "rows"}
Prepares == {"prepare", "skip", "binary", "columns", "rows"}
WireFrames == [m : Replies, of : Nat]
WireCalls ==
    [op : Ops \cup {"none"}, params : BOOLEAN, at : {"idle", "lock"} \cup Waits, n : Nat, skip : Nat,
     cols : BOOLEAN, got : SUBSET Nat]

WireTypes ==
    /\ wKind \in DriverKinds /\ wUp \in {"auth", "up", "failed", "broken"}
    /\ wIn \in Seq(WireFrames) /\ wSrv \in {"login", "idle", "txn", "failed"}
    /\ wLock \in AllTasks \cup {"none"}
    /\ wCall \in [AllTasks -> WireCalls]
    /\ wCount \in Nat
    /\ wOpen \in BOOLEAN /\ wHandle \in BOOLEAN /\ wTorn \in BOOLEAN /\ wBad \in BOOLEAN

InCall(t) == wCall[t].at \in Waits
Failure == {"E", "err"}

\* Only the guest has transactions, and their commands have no parameters.
GuestEnds ==
    \A t \in AllTasks : wCall[t].op \in {"begin", "commit", "rollback"} => t = "guest" /\ ~wCall[t].params

\* A call that has not written has read nothing; only commands with
\* parameters are prepared.
CallsInv ==
    \A t \in AllTasks : /\ wCall[t].at \in {"idle", "lock"} => wCall[t].got = {}
                        /\ wCall[t].at \in Prepares => wCall[t].params

\* Before the connection is up nobody calls, and the last frame of a login is
\* the one that ends it.
LoginInv ==
    /\ wUp \in {"auth", "failed"} => wLock = "none" /\ \A t \in AllTasks : wCall[t].at = "idle"
    /\ wUp = "auth" /\ wKind # "redis" => \A i \in DOMAIN wIn : wIn[i].m \in {"Z", "ok"} => i = Len(wIn)
    /\ wUp # "up" => wSrv \in {"login", "idle"}
    /\ wUp = "up" => wSrv # "login"

\* MySQL and Redis hold the lock while they read.
LockInv ==
    wUp = "up" =>
       /\ \A t \in AllTasks : InCall(t) => t \in Users /\ wLock = (IF wKind = "postgres" THEN "none" ELSE t)
       /\ wLock # "none" => InCall(wLock)

\* The frames that are left are those that call c reads to its end.
FitsCall(c, q) ==
    /\ c.at = "pg" => q # <<>> /\ \A i \in DOMAIN q : q[i].m = "Z" <=> i = Len(q)
    /\ c.at = "frame" => Len(q) = 1
    /\ c.at = "text" => /\ \A i \in DOMAIN q : q[i].m \in {"ok", "err"} => i = Len(q)
                        /\ ~c.cols => q # <<>> /\ q[1].m # "eof"
    /\ c.at = "prepare" => Len(q) = (IF q[1].m = "err" THEN 1 ELSE 5)
    /\ c.at = "skip" => Len(q) = c.skip
    /\ c.at = "binary" => \/ Len(q) = 1 /\ q[1].m \in {"ok", "err"}
                          \/ /\ Len(q) = 5 /\ q[1].m \notin {"ok", "err"}
                             /\ q[4].m \notin {"eof", "err"} /\ q[5].m = "eof"
    /\ c.at = "columns" => /\ c.skip \in {1, 2} /\ Len(q) = c.skip + 2
                           /\ q[c.skip + 1].m \notin {"eof", "err"} /\ q[c.skip + 2].m = "eof"
    /\ c.at = "rows" => \/ Len(q) = 1 /\ q[1].m = "eof"
                        \/ Len(q) = 2 /\ q[1].m \notin {"eof", "err"} /\ q[2].m = "eof"

InStep ==
    wUp = "up" /\ ~wTorn =>
       /\ (\A t \in AllTasks : ~InCall(t)) => wIn = <<>>
       /\ \A t \in AllTasks : InCall(t) =>
             /\ \A i \in DOMAIN wIn : wIn[i].of = wCall[t].n
             /\ wCall[t].got \subseteq {wCall[t].n}
             /\ FitsCall(wCall[t], wIn)

\* A transaction that is open on the server is known to the host, or about to
\* be ended or to be known.
SessionInv ==
    wUp = "up" /\ ~wTorn /\ wSrv \in {"txn", "failed"} =>
       \/ wOpen
       \/ wCall["guest"].at = "lock" /\ wCall["guest"].op \in {"commit", "rollback"}
       \/ InCall("guest") /\ wCall["guest"].op = "begin" /\ \A i \in DOMAIN wIn : wIn[i].m \notin Failure

WireInv ==
    WireTypes /\ GuestEnds /\ CallsInv /\ LoginInv /\ LockInv /\ InStep /\ SessionInv /\ (wBad => wTorn)

LEMMA TasksFacts ==
    ASSUME wKind \in DriverKinds
    PROVE  /\ Users \subseteq AllTasks /\ "guest" \in Users /\ "guest" \in AllTasks /\ "none" \notin AllTasks
           /\ wKind = "postgres" => Users = {"guest"}
           /\ wKind \in {"postgres", "mysql", "redis"}
<1>1. wKind \in {"postgres", "mysql", "redis"}
  BY WireAssumption DEF WireAssumption
<1>2. Users = Tasks[wKind]
  BY <1>1 DEF Users
<1>3. "guest" \in Users /\ (wKind = "postgres" => Users = {"guest"})
  BY <1>2, WireAssumption DEF WireAssumption
<1>4. Users \subseteq AllTasks
  BY <1>2 DEF AllTasks
<1>5. "none" \notin AllTasks
  BY WireAssumption DEF WireAssumption, AllTasks
<1> QED
  BY <1>1, <1>3, <1>4, <1>5

\* No two tasks have written a command that is not answered.
LEMMA OneInCall ==
    ASSUME WireInv, wUp = "up", NEW t \in AllTasks, NEW u \in AllTasks, InCall(t), InCall(u)
    PROVE  t = u
<1>1. wKind \in DriverKinds
  BY DEF WireInv, WireTypes
<1> QED
  BY <1>1, TasksFacts DEF WireInv, LockInv

\* The fields of a call after each update.
LEMMA CallFields ==
    ASSUME NEW c \in WireCalls, NEW a \in {"idle", "lock"} \cup Waits, NEW k \in Nat, NEW g \in SUBSET Nat
    PROVE  /\ [c EXCEPT !.got = g] \in WireCalls
           /\ [c EXCEPT !.cols = TRUE] \in WireCalls
           /\ [c EXCEPT !.at = a] \in WireCalls
           /\ [c EXCEPT !.n = k] \in WireCalls
           /\ [c EXCEPT !.skip = k] \in WireCalls
  BY DEF WireCalls

LEMMA FieldsAfterGot ==
    ASSUME NEW c \in WireCalls, NEW g
    PROVE  LET d == [c EXCEPT !.got = g]
           IN  d.op = c.op /\ d.params = c.params /\ d.at = c.at /\ d.n = c.n /\ d.skip = c.skip /\ d.cols = c.cols /\ d.got = g
  BY DEF WireCalls
LEMMA FieldsAfterCols ==
    ASSUME NEW c \in WireCalls
    PROVE  LET d == [c EXCEPT !.cols = TRUE]
           IN  d.op = c.op /\ d.params = c.params /\ d.at = c.at /\ d.n = c.n /\ d.skip = c.skip /\ d.cols = TRUE /\ d.got = c.got
  BY DEF WireCalls
LEMMA FieldsAfterAt ==
    ASSUME NEW c \in WireCalls, NEW a
    PROVE  LET d == [c EXCEPT !.at = a]
           IN  d.op = c.op /\ d.params = c.params /\ d.at = a /\ d.n = c.n /\ d.skip = c.skip /\ d.cols = c.cols /\ d.got = c.got
  BY DEF WireCalls
LEMMA FieldsAfterN ==
    ASSUME NEW c \in WireCalls, NEW k
    PROVE  LET d == [c EXCEPT !.n = k]
           IN  d.op = c.op /\ d.params = c.params /\ d.at = c.at /\ d.n = k /\ d.skip = c.skip /\ d.cols = c.cols /\ d.got = c.got
  BY DEF WireCalls
LEMMA FieldsAfterSkip ==
    ASSUME NEW c \in WireCalls, NEW k
    PROVE  LET d == [c EXCEPT !.skip = k]
           IN  d.op = c.op /\ d.params = c.params /\ d.at = c.at /\ d.n = c.n /\ d.skip = k /\ d.cols = c.cols /\ d.got = c.got
  BY DEF WireCalls

LEMMA WireInvSound == WireInv => WireSound
<1> SUFFICES ASSUME WireInv PROVE WireSound
  OBVIOUS
<1>1. OwnReplies
  BY DEF WireInv, OwnReplies
<1>2. wKind \in DriverKinds /\ wUp \in {"auth", "up", "failed", "broken"}
  BY DEF WireInv, WireTypes
<1>3. NoOrphanTransaction
  <2> SUFFICES ASSUME wSrv \in {"txn", "failed"}, ~Busy("guest"), ~wTorn PROVE wOpen
    BY DEF NoOrphanTransaction
  <2>1. wUp = "up"
    BY <1>2 DEF WireInv, LoginInv
  <2>2. wCall["guest"].at = "idle"
    BY DEF Busy
  <2> QED
    BY <2>1, <2>2 DEF WireInv, SessionInv, InCall, Waits
<1>4. NobodyStarves
  <2> SUFFICES ASSUME NEW t \in Users, Starves(t), ~wTorn PROVE wCall[t].at = "text"
    BY DEF NobodyStarves
  <2>1. t \in AllTasks
    BY <1>2, TasksFacts
  <2>2. wUp = "up" /\ wIn = <<>> /\ Len(wIn) = 0
    BY DEF Starves
  <2>3. wCall[t] \in WireCalls
    BY <2>1 DEF WireInv, WireTypes
  <2>4. InCall(t) /\ ~(wCall[t].at = "skip" /\ wCall[t].skip = 0)
    BY <2>3 DEF Starves, InCall, WireCalls
  <2>5. FitsCall(wCall[t], wIn)
    BY <2>1, <2>2, <2>4 DEF WireInv, InStep
  <2>6. wCall[t].skip \in Nat
    BY <2>3 DEF WireCalls
  <2> QED
    BY <2>2, <2>4, <2>5, <2>6 DEF FitsCall, InCall, Waits
<1> QED
  BY <1>1, <1>3, <1>4 DEF WireSound

\* A queue of replies, by its elements.
LEMMA Words1 ==
    ASSUME NEW a \in Replies
    PROVE  <<a>> \in Seq(Replies) /\ Len(<<a>>) = 1 /\ <<a>>[1] = a
  OBVIOUS
LEMMA Words2 ==
    ASSUME NEW a \in Replies, NEW b \in Replies
    PROVE  <<a, b>> \in Seq(Replies) /\ Len(<<a, b>>) = 2 /\ <<a, b>>[1] = a /\ <<a, b>>[2] = b
  OBVIOUS
LEMMA Words3 ==
    ASSUME NEW a \in Replies, NEW b \in Replies, NEW c \in Replies
    PROVE  LET w == <<a, b, c>> IN w \in Seq(Replies) /\ Len(w) = 3 /\ w[1] = a /\ w[2] = b /\ w[3] = c
  OBVIOUS
LEMMA Words4 ==
    ASSUME NEW a \in Replies, NEW b \in Replies, NEW c \in Replies, NEW d \in Replies
    PROVE  LET w == <<a, b, c, d>>
           IN  w \in Seq(Replies) /\ Len(w) = 4 /\ w[1] = a /\ w[2] = b /\ w[3] = c /\ w[4] = d
  OBVIOUS
LEMMA Words5 ==
    ASSUME NEW a \in Replies, NEW b \in Replies, NEW c \in Replies, NEW d \in Replies, NEW e \in Replies
    PROVE  LET w == <<a, b, c, d, e>>
           IN  w \in Seq(Replies) /\ Len(w) = 5 /\ w[1] = a /\ w[2] = b /\ w[3] = c /\ w[4] = d /\ w[5] = e
  OBVIOUS
LEMMA Words6 ==
    ASSUME NEW a \in Replies, NEW b \in Replies, NEW c \in Replies, NEW d \in Replies, NEW e \in Replies,
           NEW f \in Replies
    PROVE  LET w == <<a, b, c, d, e, f>>
           IN  /\ w \in Seq(Replies) /\ Len(w) = 6
               /\ w[1] = a /\ w[2] = b /\ w[3] = c /\ w[4] = d /\ w[5] = e /\ w[6] = f
  OBVIOUS

LEMMA FromFrames ==
    ASSUME NEW n \in Nat, NEW ms \in Seq(Replies)
    PROVE  /\ From(n, ms) \in Seq(WireFrames) /\ Len(From(n, ms)) = Len(ms)
           /\ DOMAIN From(n, ms) = 1 .. Len(ms) /\ Len(ms) \in Nat
           /\ \A i \in 1 .. Len(ms) : From(n, ms)[i].m = ms[i] /\ From(n, ms)[i].of = n
<1>1. DOMAIN From(n, ms) = 1 .. Len(ms) /\ Len(ms) \in Nat
  BY DEF From
<1>2. \A i \in 1 .. Len(ms) : From(n, ms)[i] = [m |-> ms[i], of |-> n] /\ ms[i] \in Replies
  BY DEF From
<1>3. \A i \in 1 .. Len(ms) : From(n, ms)[i] \in WireFrames
  <2>1. \A r \in Replies : [m |-> r, of |-> n] \in WireFrames
    BY DEF WireFrames
  <2> QED
    BY <1>2, <2>1
<1>4. From(n, ms) = [i \in 1 .. Len(ms) |-> [m |-> ms[i], of |-> n]]
  BY DEF From
<1>5. From(n, ms) \in Seq(WireFrames) /\ Len(From(n, ms)) = Len(ms)
  BY <1>1, <1>2, <1>3, <1>4
<1> QED
  BY <1>1, <1>2, <1>5

LEMMA WireInitInv == WInit => WireInv
<1> SUFFICES ASSUME WInit PROVE WireInv
  OBVIOUS
<1>1. /\ wKind \in DriverKinds /\ wUp = "auth" /\ wSrv = "login" /\ wLock = "none"
      /\ wCall = [t \in AllTasks |-> NoCall] /\ wCount = 0
      /\ wOpen = FALSE /\ wHandle = FALSE /\ wTorn = FALSE /\ wBad = FALSE
  BY DEF WInit
<1>2. PICK l \in Logins : wIn = From(0, l)
  BY DEF WInit
<1>3. l \in Seq(Replies) /\ (wKind # "redis" => \A i \in DOMAIN l : l[i] \in {"Z", "ok"} => i = Len(l))
  <2>1. wKind \in {"postgres", "mysql", "redis"}
    BY <1>1, TasksFacts
  <2>2. CASE wKind = "postgres"
    <3>1. l = <<"R", "S", "Z">> \/ l = <<"R", "E">> \/ l = <<"E">>
      BY <1>2, <2>2 DEF Logins, PgLogin
    <3>2. "R" \in Replies /\ "S" \in Replies /\ "Z" \in Replies /\ "E" \in Replies
      BY DEF Replies
    <3>3. CASE l = <<"R", "S", "Z">>
      BY <3>2, <3>3, Words3
    <3>4. CASE l = <<"R", "E">>
      BY <3>2, <3>4, Words2
    <3>5. CASE l = <<"E">>
      BY <3>2, <3>5, Words1
    <3> QED
      BY <3>1, <3>3, <3>4, <3>5
  <2>3. CASE wKind = "mysql"
    <3>1. \/ l = <<"greet", "ok">> \/ l = <<"greet", "err">> \/ l = <<"greet", "switch", "ok">>
          \/ l = <<"greet", "switch", "err">> \/ l = <<"err">>
      BY <1>2, <2>3 DEF Logins, MysqlLogin
    <3>2. "greet" \in Replies /\ "ok" \in Replies /\ "err" \in Replies /\ "switch" \in Replies
      BY DEF Replies
    <3>3. CASE l = <<"greet", "ok">>
      BY <3>2, <3>3, Words2
    <3>4. CASE l = <<"greet", "err">>
      BY <3>2, <3>4, Words2
    <3>5. CASE l = <<"greet", "switch", "ok">>
      BY <3>2, <3>5, Words3
    <3>6. CASE l = <<"greet", "switch", "err">>
      BY <3>2, <3>6, Words3
    <3>7. CASE l = <<"err">>
      BY <3>2, <3>7, Words1
    <3> QED
      BY <3>1, <3>3, <3>4, <3>5, <3>6, <3>7
  <2>4. CASE wKind = "redis"
    <3>1. \/ l = <<"hello">> \/ l = <<"err">> \/ l = <<"err", "simple">> \/ l = <<"hello", "simple", "simple">>
          \/ l = <<"hello", "err">>
      BY <1>2, <2>4 DEF Logins, RedisLogin
    <3>2. "hello" \in Replies /\ "err" \in Replies /\ "simple" \in Replies
      BY DEF Replies
    <3>3. CASE l = <<"hello">>
      BY <2>4, <3>2, <3>3
    <3>4. CASE l = <<"err">>
      BY <2>4, <3>2, <3>4
    <3>5. CASE l = <<"err", "simple">>
      BY <2>4, <3>2, <3>5
    <3>6. CASE l = <<"hello", "simple", "simple">>
      BY <2>4, <3>2, <3>6
    <3>7. CASE l = <<"hello", "err">>
      BY <2>4, <3>2, <3>7
    <3> QED
      BY <3>1, <3>3, <3>4, <3>5, <3>6, <3>7
  <2> QED
    BY <2>1, <2>2, <2>3, <2>4
<1>4. /\ DOMAIN wIn = 1 .. Len(l) /\ Len(l) \in Nat
      /\ \A i \in 1 .. Len(l) : wIn[i].m = l[i]
  BY <1>2, <1>3, FromFrames
<1>5. wIn \in Seq(WireFrames) /\ Len(wIn) = Len(l)
  BY <1>2, <1>3, FromFrames
<1>6. NoCall \in WireCalls /\ NoCall.at = "idle" /\ NoCall.op = "none" /\ NoCall.got = {}
  BY DEF NoCall, WireCalls
<1>7. WireTypes
  BY <1>1, <1>5, <1>6 DEF WireTypes
<1>8. LoginInv
  BY <1>1, <1>3, <1>4, <1>5, <1>6 DEF LoginInv
<1>9. CallsInv
  BY <1>1, <1>6 DEF CallsInv, Prepares
<1> QED
  BY <1>1, <1>6, <1>7, <1>8, <1>9 DEF WireInv, GuestEnds, LockInv, InStep, SessionInv

\* A call starts: it waits for the lock.
LEMMA StartStep ==
    ASSUME WireInv, NEW t \in Users, NEW op \in Ops, NEW params \in BOOLEAN, CallStarts(t, op, params),
           op \in {"begin", "commit", "rollback"} => t = "guest" /\ ~params,
           \/ UNCHANGED <<wOpen, wHandle>>
           \/ op \in {"commit", "rollback"} /\ wOpen' = FALSE /\ wHandle' = FALSE
    PROVE  WireInv'
<1>1. /\ wUp \in {"up", "broken"} /\ wCall[t].at = "idle"
      /\ wCall' = [wCall EXCEPT ![t] = [NoCall EXCEPT !.op = op, !.params = params, !.at = "lock"]]
      /\ UNCHANGED <<wKind, wUp, wIn, wSrv, wLock, wCount, wTorn, wBad>>
  BY DEF CallStarts, Busy
<1>2. wKind \in DriverKinds /\ wCall \in [AllTasks -> WireCalls]
  BY DEF WireInv, WireTypes
<1>3. t \in AllTasks /\ "guest" \in AllTasks
  BY <1>2, TasksFacts
<1> DEFINE c == [NoCall EXCEPT !.op = op, !.params = params, !.at = "lock"]
<1>4. c \in WireCalls /\ c.op = op /\ c.params = params /\ c.at = "lock" /\ c.got = {}
  BY DEF NoCall, WireCalls
<1> HIDE DEF c
<1>5. wCall'[t] = c /\ \A u \in AllTasks \ {t} : wCall'[u] = wCall[u]
  BY <1>1, <1>2, <1>3 DEF c
<1>6. WireTypes'
  <2>1. wCall' \in [AllTasks -> WireCalls]
    BY <1>1, <1>2, <1>3, <1>4 DEF c
  <2> QED
    BY <1>1, <2>1 DEF WireInv, WireTypes, AllTasks
<1>7. \A u \in AllTasks : InCall(u)' <=> InCall(u)
  BY <1>1, <1>4, <1>5 DEF InCall, Waits
<1>8. \A u \in AllTasks : InCall(u) => wCall'[u] = wCall[u]
  BY <1>1, <1>5 DEF InCall, Waits
<1>9. GuestEnds'
  BY <1>4, <1>5 DEF WireInv, GuestEnds
<1>9a. CallsInv'
  BY <1>4, <1>5 DEF WireInv, CallsInv, Prepares
<1>10. LoginInv'
  BY <1>1 DEF WireInv, LoginInv
<1>11. LockInv'
  <2>1. wLock # "none" => wLock \in AllTasks
    BY DEF WireInv, WireTypes
  <2> QED
    BY <1>1, <1>7, <2>1 DEF WireInv, LockInv, Users
<1>12. InStep'
  <2> SUFFICES ASSUME wUp = "up", ~wTorn
               PROVE  /\ (\A u \in AllTasks : ~InCall(u)') => wIn' = <<>>
                      /\ \A u \in AllTasks : InCall(u)' =>
                            /\ \A i \in DOMAIN wIn' : wIn'[i].of = wCall'[u].n
                            /\ wCall'[u].got \subseteq {wCall'[u].n}
                            /\ FitsCall(wCall'[u], wIn')
    BY <1>1 DEF InStep
  <2>1. (\A u \in AllTasks : ~InCall(u)') => wIn' = <<>>
    BY <1>1, <1>7 DEF WireInv, InStep
  <2>2. ASSUME NEW u \in AllTasks, InCall(u)'
        PROVE  /\ \A i \in DOMAIN wIn' : wIn'[i].of = wCall'[u].n
               /\ wCall'[u].got \subseteq {wCall'[u].n}
               /\ FitsCall(wCall'[u], wIn')
    <3>1. InCall(u) /\ wCall'[u] = wCall[u]
      BY <1>7, <1>8, <2>2
    <3>2. /\ \A i \in DOMAIN wIn : wIn[i].of = wCall[u].n
          /\ wCall[u].got \subseteq {wCall[u].n}
          /\ FitsCall(wCall[u], wIn)
      BY <3>1 DEF WireInv, InStep
    <3>3. FitsCall(wCall'[u], wIn')
      BY <1>1, <3>1, <3>2 DEF FitsCall
    <3> QED
      BY <1>1, <3>1, <3>2, <3>3
  <2> QED
    BY <2>1, <2>2
<1>13. SessionInv'
  <2> SUFFICES ASSUME wUp = "up", ~wTorn, wSrv \in {"txn", "failed"}
               PROVE  \/ wOpen'
                      \/ wCall'["guest"].at = "lock" /\ wCall'["guest"].op \in {"commit", "rollback"}
                      \/ InCall("guest")' /\ wCall'["guest"].op = "begin" /\ \A i \in DOMAIN wIn' : wIn'[i].m \notin Failure
    BY <1>1 DEF SessionInv
  <2>1. CASE wOpen
    BY <1>4, <1>5, <2>1
  <2>2. CASE ~wOpen
    <3>1. \/ wCall["guest"].at = "lock" /\ wCall["guest"].op \in {"commit", "rollback"}
          \/ InCall("guest") /\ wCall["guest"].op = "begin" /\ \A i \in DOMAIN wIn : wIn[i].m \notin Failure
      BY <2>2 DEF WireInv, SessionInv
    <3>2. t # "guest"
      BY <1>1, <3>1 DEF InCall, Waits
    <3>3. wCall'["guest"] = wCall["guest"]
      BY <1>3, <1>5, <3>2
    <3> QED
      BY <1>1, <1>3, <1>7, <3>1, <3>3
  <2> QED
    BY <2>1, <2>2
<1> QED
  BY <1>1, <1>6, <1>9, <1>9a, <1>10, <1>11, <1>12, <1>13 DEF WireInv

\* A frame is read and the call goes on.
LEMMA KeepStep ==
    ASSUME WireInv, NEW t \in AllTasks, NEW c \in WireCalls, InCall(t), wUp = "up", wIn # <<>>, wIn' = Tail(wIn),
           wCall' = [wCall EXCEPT ![t] = c],
           c.op = wCall[t].op, c.params = wCall[t].params, c.n = wCall[t].n, c.at \in Waits,
           c.at \in Prepares => wCall[t].at \in Prepares,
           c.got = wCall[t].got \cup {Head(wIn).of},
           UNCHANGED <<wKind, wUp, wSrv, wLock, wCount, wOpen, wHandle, wTorn, wBad>>,
           ~wTorn => FitsCall(c, Tail(wIn))
    PROVE  WireInv'
<1>2. wKind \in DriverKinds /\ wCall \in [AllTasks -> WireCalls] /\ wIn \in Seq(WireFrames)
  BY DEF WireInv, WireTypes
<1>3. "guest" \in AllTasks
  BY <1>2, TasksFacts
<1>4. /\ \A i \in DOMAIN wIn' : i + 1 \in DOMAIN wIn /\ wIn'[i] = wIn[i + 1]
      /\ wIn' \in Seq(WireFrames) /\ 1 \in DOMAIN wIn /\ Head(wIn) = wIn[1]
  BY <1>2
<1>5. wCall'[t] = c /\ \A u \in AllTasks \ {t} : wCall'[u] = wCall[u]
  BY <1>2
<1>6. WireTypes'
  <2>1. wCall' \in [AllTasks -> WireCalls]
    BY <1>2
  <2> QED
    BY <1>4, <2>1 DEF WireInv, WireTypes, AllTasks
<1>7. \A u \in AllTasks : InCall(u)' <=> InCall(u)
  BY <1>5 DEF InCall
<1>9. GuestEnds'
  BY <1>5 DEF WireInv, GuestEnds
<1>9a. CallsInv'
  BY <1>5 DEF WireInv, CallsInv, Waits
<1>10. LoginInv'
  BY DEF WireInv, LoginInv
<1>11. LockInv'
  <2>1. wLock # "none" => wLock \in AllTasks
    BY DEF WireInv, WireTypes
  <2> QED
    BY <1>7, <2>1 DEF WireInv, LockInv, Users
<1>12. InStep'
  <2> SUFFICES ASSUME ~wTorn
               PROVE  \A u \in AllTasks : InCall(u)' =>
                         /\ \A i \in DOMAIN wIn' : wIn'[i].of = wCall'[u].n
                         /\ wCall'[u].got \subseteq {wCall'[u].n}
                         /\ FitsCall(wCall'[u], wIn')
    BY <1>7 DEF InStep
  <2> SUFFICES ASSUME NEW u \in AllTasks, InCall(u)'
               PROVE  /\ \A i \in DOMAIN wIn' : wIn'[i].of = wCall'[u].n
                      /\ wCall'[u].got \subseteq {wCall'[u].n}
                      /\ FitsCall(wCall'[u], wIn')
    OBVIOUS
  <2>1. u = t
    BY <1>7, OneInCall
  <2>2. /\ \A i \in DOMAIN wIn : wIn[i].of = wCall[t].n
        /\ wCall[t].got \subseteq {wCall[t].n}
    BY DEF WireInv, InStep
  <2>3. FitsCall(wCall'[t], wIn')
    BY <1>5 DEF FitsCall
  <2> QED
    BY <1>4, <1>5, <2>1, <2>2, <2>3
<1>13. SessionInv'
  <2>1. /\ wCall'["guest"].op = wCall["guest"].op
        /\ wCall["guest"].at = "lock" => wCall'["guest"].at = "lock"
    BY <1>3, <1>5 DEF InCall, Waits
  <2>2. (\A i \in DOMAIN wIn : wIn[i].m \notin Failure) => \A i \in DOMAIN wIn' : wIn'[i].m \notin Failure
    BY <1>4
  <2> QED
    BY <1>3, <1>7, <2>1, <2>2 DEF WireInv, SessionInv
<1> QED
  BY <1>6, <1>9, <1>9a, <1>10, <1>11, <1>12, <1>13 DEF WireInv

\* A frame is read and the call returns: too early, or with nothing left.
LEMMA EndStep ==
    ASSUME WireInv, NEW t \in AllTasks, NEW failed \in BOOLEAN, InCall(t), wUp = "up", wIn # <<>>, wIn' = Tail(wIn),
           Ends(t, failed), StaysUp, wTorn' \in BOOLEAN, wTorn => wTorn',
           ~wTorn' => Len(wIn) = 1 /\ (failed => wIn[1].m \in Failure)
    PROVE  WireInv'
<1>1. /\ wCall' = [wCall EXCEPT ![t] = NoCall] /\ wLock' = (IF wLock = t THEN "none" ELSE wLock)
      /\ wOpen' = (wOpen \/ (wCall[t].op = "begin" /\ ~failed))
      /\ wHandle' = (wHandle \/ (wCall[t].op = "begin" /\ ~failed))
      /\ wBad' = (wBad \/ (wCall[t].got \cup {Head(wIn).of}) \ {wCall[t].n} # {})
      /\ UNCHANGED <<wKind, wUp, wSrv, wCount>>
  BY DEF Ends, Returns, StaysUp
<1>2. wKind \in DriverKinds /\ wCall \in [AllTasks -> WireCalls] /\ wIn \in Seq(WireFrames)
  BY DEF WireInv, WireTypes
<1>3. "guest" \in AllTasks /\ "none" \notin AllTasks
  BY <1>2, TasksFacts
<1>4. /\ wIn' \in Seq(WireFrames) /\ 1 \in DOMAIN wIn /\ Head(wIn) = wIn[1]
      /\ Len(wIn) = 1 => wIn' = <<>>
  BY <1>2
<1>n. NoCall \in WireCalls /\ NoCall.at = "idle" /\ NoCall.op = "none" /\ NoCall.got = {}
  BY DEF NoCall, WireCalls
<1>5. /\ wCall'[t].at = "idle" /\ wCall'[t].op = "none" /\ wCall'[t].got = {}
      /\ \A u \in AllTasks \ {t} : wCall'[u] = wCall[u]
  BY <1>1, <1>2, <1>n
<1>6. WireTypes'
  <2>1. wCall' \in [AllTasks -> WireCalls]
    BY <1>1, <1>2, <1>n
  <2>2. wLock' \in AllTasks \cup {"none"}
    BY <1>1 DEF WireInv, WireTypes
  <2> QED
    BY <1>1, <1>4, <2>1, <2>2 DEF WireInv, WireTypes, AllTasks
<1>7. \A u \in AllTasks : ~InCall(u)'
  <2> SUFFICES ASSUME NEW u \in AllTasks, InCall(u)' PROVE FALSE
    OBVIOUS
  <2>1. u # t
    BY <1>5 DEF InCall, Waits
  <2>2. InCall(u)
    BY <1>5, <2>1 DEF InCall
  <2> QED
    BY <2>1, <2>2, OneInCall
<1>9. GuestEnds'
  BY <1>5 DEF WireInv, GuestEnds
<1>9a. CallsInv'
  BY <1>5 DEF WireInv, CallsInv, Prepares
<1>10. LoginInv'
  BY <1>1 DEF WireInv, LoginInv
<1>11. LockInv'
  <2>1. wLock' = "none"
    BY <1>1, <1>3 DEF WireInv, LockInv
  <2> QED
    BY <1>7, <2>1 DEF LockInv
<1>12. InStep'
  BY <1>4, <1>7 DEF InStep
<1>13. ~wTorn' => wBad' = wBad
  <2> SUFFICES ASSUME ~wTorn' PROVE wBad' = wBad
    OBVIOUS
  <2>1. wIn[1].of = wCall[t].n /\ wCall[t].got \subseteq {wCall[t].n}
    BY <1>4 DEF WireInv, InStep
  <2> QED
    BY <1>1, <1>4, <2>1 DEF WireInv, WireTypes
<1>14. SessionInv'
  <2> SUFFICES ASSUME ~wTorn', wSrv \in {"txn", "failed"}
               PROVE  \/ wOpen'
                      \/ wCall'["guest"].at = "lock" /\ wCall'["guest"].op \in {"commit", "rollback"}
    BY <1>1 DEF SessionInv
  <2>1. CASE wOpen
    BY <1>1, <2>1
  <2>2. CASE wCall["guest"].at = "lock" /\ wCall["guest"].op \in {"commit", "rollback"}
    <3>1. t # "guest"
      BY <2>2 DEF InCall, Waits
    <3> QED
      BY <1>3, <1>5, <2>2, <3>1
  <2>3. CASE InCall("guest") /\ wCall["guest"].op = "begin" /\ \A i \in DOMAIN wIn : wIn[i].m \notin Failure
    <3>1. t = "guest"
      BY <1>3, <2>3, OneInCall
    <3>2. ~failed
      BY <1>4, <2>3
    <3> QED
      BY <1>1, <2>3, <3>1, <3>2
  <2> QED
    BY <2>1, <2>2, <2>3 DEF WireInv, SessionInv
<1> QED
  BY <1>6, <1>9, <1>9a, <1>10, <1>11, <1>12, <1>13, <1>14 DEF WireInv

\* Nobody waits for a reply when the lock is free for a caller.
LEMMA FreeToWrite ==
    ASSUME WireInv, wUp = "up", wLock = "none", NEW t \in Users, wCall[t].at = "lock", NEW u \in AllTasks
    PROVE  ~InCall(u)
<1>1. wKind \in DriverKinds
  BY DEF WireInv, WireTypes
<1> SUFFICES ASSUME InCall(u) PROVE FALSE
  OBVIOUS
<1>2. u \in Users /\ wLock = (IF wKind = "postgres" THEN "none" ELSE u)
  BY DEF WireInv, LockInv
<1>3. u \in AllTasks /\ "none" \notin AllTasks /\ (wKind = "postgres" => u = t)
  BY <1>1, <1>2, TasksFacts
<1> QED
  BY <1>2, <1>3 DEF InCall, Waits

\* A command is written, with the answers that fit the call.
LEMMA WriteStep ==
    ASSUME WireInv, NEW t \in Users, NEW at \in Waits, NEW ms \in Seq(Replies), ms # <<>>,
           NEW srv \in {"idle", "txn", "failed"}, Written(t, at, ms, srv),
           at \in Prepares => wCall[t].params,
           NEW c, c = [wCall[t] EXCEPT !.at = at, !.n = wCount + 1],
           FitsCall(c, From(wCount + 1, ms)),
           srv \in {"txn", "failed"} =>
              \/ wSrv \in {"txn", "failed"} /\ Op(t) \notin {"commit", "rollback"}
              \/ Op(t) = "begin" /\ \A i \in 1 .. Len(ms) : ms[i] \notin Failure
    PROVE  WireInv'
<1>1. /\ wUp = "up" /\ wCall[t].at = "lock" /\ wLock = "none"
      /\ wIn' = wIn \o From(wCount + 1, ms) /\ wSrv' = srv
      /\ wCall' = [wCall EXCEPT ![t] = c] /\ wCount' = wCount + 1
      /\ wLock' = IF wKind = "postgres" THEN wLock ELSE t
      /\ UNCHANGED <<wKind, wUp, wOpen, wHandle, wTorn, wBad>>
  BY DEF Written
<1>2. /\ wKind \in DriverKinds /\ wCall \in [AllTasks -> WireCalls] /\ wIn \in Seq(WireFrames) /\ wCount \in Nat
      /\ wSrv \in {"login", "idle", "txn", "failed"}
  BY DEF WireInv, WireTypes
<1>3. "guest" \in AllTasks /\ t \in AllTasks /\ "none" \notin AllTasks /\ (wKind = "postgres" => t = "guest")
  BY <1>2, TasksFacts
<1>4. c \in WireCalls /\ c.op = wCall[t].op /\ c.params = wCall[t].params /\ c.at = at /\ c.n = wCount + 1 /\ c.got = {}
  <2>1. wCall[t] \in WireCalls /\ wCall[t].got = {}
    BY <1>1, <1>2, <1>3 DEF WireInv, CallsInv
  <2> DEFINE d == [wCall[t] EXCEPT !.at = at]
  <2>2. d \in WireCalls /\ d.op = wCall[t].op /\ d.params = wCall[t].params /\ d.at = at /\ d.got = {}
    BY <2>1, FieldsAfterAt DEF WireCalls
  <2>3. c = [d EXCEPT !.n = wCount + 1]
    OBVIOUS
  <2> HIDE DEF d
  <2>4. wCount + 1 \in Nat
    BY <1>2
  <2>5. c \in WireCalls
    BY <2>2, <2>3, <2>4 DEF WireCalls
  <2>6. c.op = d.op /\ c.params = d.params /\ c.at = d.at /\ c.n = wCount + 1 /\ c.got = d.got
    BY <2>2, <2>3 DEF WireCalls
  <2> QED
    BY <2>2, <2>5, <2>6
<1>5. wCall'[t] = c /\ \A u \in AllTasks \ {t} : wCall'[u] = wCall[u]
  BY <1>1, <1>2, <1>3
<1>6. /\ From(wCount + 1, ms) \in Seq(WireFrames) /\ Len(From(wCount + 1, ms)) = Len(ms)
      /\ DOMAIN From(wCount + 1, ms) = 1 .. Len(ms) /\ Len(ms) \in Nat \ {0}
      /\ \A i \in 1 .. Len(ms) : From(wCount + 1, ms)[i].m = ms[i] /\ From(wCount + 1, ms)[i].of = wCount + 1
  <2>1. wCount + 1 \in Nat /\ Len(ms) # 0
    BY <1>2
  <2> QED
    BY <2>1, FromFrames
<1>7. \A u \in AllTasks : ~InCall(u)
  BY <1>1, FreeToWrite
<1>8. \A u \in AllTasks : InCall(u)' <=> u = t
  <2>1. InCall(t)'
    BY <1>4, <1>5 DEF InCall
  <2>2. \A u \in AllTasks \ {t} : ~InCall(u)'
    BY <1>5, <1>7 DEF InCall
  <2> QED
    BY <2>1, <2>2
<1>9. ~wTorn => wIn' = From(wCount + 1, ms)
  BY <1>1, <1>6, <1>7 DEF WireInv, InStep
<1>10. WireTypes'
  <2>1. wIn' \in Seq(WireFrames)
    BY <1>1, <1>2, <1>6
  <2>2. wCall' \in [AllTasks -> WireCalls]
    BY <1>1, <1>2, <1>4
  <2>3. wLock' \in AllTasks \cup {"none"} /\ wCount' \in Nat
    BY <1>1, <1>2, <1>3
  <2> QED
    BY <1>1, <2>1, <2>2, <2>3 DEF WireInv, WireTypes, AllTasks
<1>11. GuestEnds'
  BY <1>4, <1>5 DEF WireInv, GuestEnds
<1>12. CallsInv'
  BY <1>4, <1>5 DEF WireInv, CallsInv, Waits
<1>13. LoginInv'
  BY <1>1 DEF LoginInv
<1>14. LockInv'
  BY <1>1, <1>3, <1>8 DEF LockInv, Users
<1>15. InStep'
  <2> SUFFICES ASSUME ~wTorn
               PROVE  /\ \A i \in DOMAIN wIn' : wIn'[i].of = wCall'[t].n
                      /\ wCall'[t].got \subseteq {wCall'[t].n}
                      /\ FitsCall(wCall'[t], wIn')
    BY <1>1, <1>3, <1>8 DEF InStep
  <2>1. FitsCall(wCall'[t], wIn')
    <3>1. wCall'[t] = c /\ wIn' = From(wCount + 1, ms)
      BY <1>5, <1>9
    <3> QED
      BY <3>1
  <2> QED
    BY <1>4, <1>5, <1>6, <1>9, <2>1
<1>16. SessionInv'
  <2> SUFFICES ASSUME ~wTorn, srv \in {"txn", "failed"}
               PROVE  \/ wOpen'
                      \/ wCall'["guest"].at = "lock" /\ wCall'["guest"].op \in {"commit", "rollback"}
                      \/ InCall("guest")' /\ wCall'["guest"].op = "begin" /\ \A i \in DOMAIN wIn' : wIn'[i].m \notin Failure
    BY <1>1 DEF SessionInv
  <2>1. CASE wSrv \in {"txn", "failed"} /\ Op(t) \notin {"commit", "rollback"}
    <3>1. \/ wOpen
          \/ wCall["guest"].at = "lock" /\ wCall["guest"].op \in {"commit", "rollback"}
      BY <1>1, <1>3, <1>7, <2>1 DEF WireInv, SessionInv
    <3> QED
      BY <1>1, <1>3, <1>5, <2>1, <3>1 DEF Op
  <2>2. CASE Op(t) = "begin" /\ \A i \in 1 .. Len(ms) : ms[i] \notin Failure
    <3>1. t = "guest"
      BY <1>3, <2>2 DEF WireInv, GuestEnds, Op
    <3>2. \A i \in DOMAIN wIn' : wIn'[i].m \notin Failure
      BY <1>6, <1>9, <2>2
    <3> QED
      BY <1>3, <1>4, <1>5, <1>8, <2>2, <3>1, <3>2 DEF Op
  <2> QED
    BY <2>1, <2>2
<1> QED
  BY <1>1, <1>10, <1>11, <1>12, <1>13, <1>14, <1>15, <1>16 DEF WireInv

\* The session after a command with an outcome.
LEMMA SessionFacts ==
    ASSUME WireInv, wUp = "up", NEW op \in Ops \cup {"none"}, NEW outcome
    PROVE  /\ SessionAfter(op, outcome) \in {"idle", "txn", "failed"}
           /\ SessionAfter(op, outcome) \in {"txn", "failed"} =>
                \/ wSrv \in {"txn", "failed"} /\ op \notin {"commit", "rollback"}
                \/ op = "begin" /\ outcome # "err"
<1>1. wSrv \in {"idle", "txn", "failed"}
  BY DEF WireInv, WireTypes, LoginInv
<1>2. op \in {"query", "execute", "ping", "begin", "commit", "rollback", "none"}
  BY DEF Ops
<1> QED
  BY <1>1, <1>2 DEF SessionAfter

\* What the servers answer.
LEMMA PgAnswers ==
    ASSUME NEW params \in BOOLEAN, NEW outcome
    PROVE  LET ms == PgReplies(params, outcome)
           IN  /\ ms \in Seq(Replies) /\ Len(ms) # 0
               /\ \A i \in 1 .. Len(ms) : ms[i] = "Z" <=> i = Len(ms)
               /\ outcome # "err" => \A i \in 1 .. Len(ms) : ms[i] \notin Failure
<1>1. /\ "E" \in Replies /\ "Z" \in Replies /\ "1" \in Replies /\ "2" \in Replies
      /\ "T" \in Replies /\ "D" \in Replies /\ "C" \in Replies /\ "n" \in Replies
  BY DEF Replies
<1>2. CASE outcome = "err"
  <2>1. PICK ms : ms = <<"E", "Z">>
    OBVIOUS
  <2>2. PgReplies(params, outcome) = ms
    BY <1>2, <2>1 DEF PgReplies
  <2>3. ms \in Seq(Replies) /\ Len(ms) = 2 /\ ms[1] = "E" /\ ms[2] = "Z"
    BY <1>1, <2>1
  <2>4. \A i \in 1 .. Len(ms) : ms[i] = "Z" <=> i = Len(ms)
    BY <2>3
  <2>5. outcome # "err" => \A i \in 1 .. Len(ms) : ms[i] \notin Failure
    BY <1>2
  <2>6. ms \in Seq(Replies) /\ Len(ms) # 0
    BY <2>3
  <2> QED
    BY <2>2, <2>4, <2>5, <2>6
<1>3. CASE outcome = "rows" /\ params
  <2>1. PgReplies(params, outcome) = <<"1", "2", "T", "D", "C", "Z">>
    BY <1>3 DEF PgReplies
  <2> QED
    BY <1>1, <2>1, Words6 DEF Failure
<1>4. CASE outcome = "rows" /\ ~params
  <2>1. PgReplies(params, outcome) = <<"T", "D", "C", "Z">>
    BY <1>4 DEF PgReplies
  <2> QED
    BY <1>1, <2>1, Words4 DEF Failure
<1>5. CASE outcome \notin {"err", "rows"} /\ params
  <2>1. PgReplies(params, outcome) = <<"1", "2", "n", "C", "Z">>
    BY <1>5 DEF PgReplies
  <2> QED
    BY <1>1, <2>1, Words5 DEF Failure
<1>6. CASE outcome \notin {"err", "rows"} /\ ~params
  <2>1. PgReplies(params, outcome) = <<"C", "Z">>
    BY <1>6 DEF PgReplies
  <2> QED
    BY <1>1, <2>1, Words2 DEF Failure
<1> QED
  BY <1>2, <1>3, <1>4, <1>5, <1>6

LEMMA MysqlAnswers ==
    ASSUME NEW outcome, NEW ms \in MysqlReplies(outcome)
    PROVE  /\ ms \in Seq(Replies)
           /\ \/ Len(ms) = 1 /\ ms[1] \in {"ok", "err"}
              \/ /\ Len(ms) = 5 /\ ms[1] = "count" /\ ms[2] = "def" /\ ms[3] = "eof"
                 /\ ms[4] \in {"row", "rowempty"} /\ ms[5] = "eof"
           /\ outcome # "err" => \A i \in 1 .. Len(ms) : ms[i] \notin Failure
<1>1. /\ "ok" \in Replies /\ "err" \in Replies /\ "count" \in Replies /\ "def" \in Replies
      /\ "eof" \in Replies /\ "row" \in Replies /\ "rowempty" \in Replies
  BY DEF Replies
<1>2. CASE outcome = "err"
  <2>1. ms = <<"err">>
    BY <1>2 DEF MysqlReplies
  <2> QED
    BY <1>1, <1>2, <2>1, Words1
<1>3. CASE outcome = "rows"
  <2>1. PICK r \in {"row", "rowempty"} : ms = <<"count", "def", "eof", r, "eof">>
    BY <1>3 DEF MysqlReplies
  <2>2. r \in Replies
    BY <1>1
  <2>3. /\ ms \in Seq(Replies) /\ Len(ms) = 5
        /\ ms[1] = "count" /\ ms[2] = "def" /\ ms[3] = "eof" /\ ms[4] = r /\ ms[5] = "eof"
    BY <1>1, <2>1, <2>2, Words5
  <2> QED
    BY <2>3 DEF Failure
<1>4. CASE outcome \notin {"err", "rows"}
  <2>1. ms = <<"ok">>
    BY <1>4 DEF MysqlReplies
  <2> QED
    BY <1>1, <2>1, Words1 DEF Failure
<1> QED
  BY <1>2, <1>3, <1>4

LEMMA RedisAnswers ==
    ASSUME NEW op, NEW outcome
    PROVE  LET ms == RedisReply(op, outcome)
           IN  /\ ms \in Seq(Replies) /\ Len(ms) = 1
               /\ outcome # "err" => \A i \in 1 .. Len(ms) : ms[i] \notin Failure
<1>1. /\ "err" \in Replies /\ "array" \in Replies /\ "queued" \in Replies /\ "value" \in Replies
      /\ "simple" \in Replies
  BY DEF Replies
<1>2. PICK r \in Replies : RedisReply(op, outcome) = <<r>> /\ (outcome # "err" => r \notin Failure)
  BY <1>1 DEF RedisReply, Failure
<1> QED
  BY <1>2, Words1

\* A user of the connection and its call.
LEMMA CallerFacts ==
    ASSUME WireInv, NEW t \in Users
    PROVE  /\ t \in AllTasks /\ wCall[t] \in WireCalls /\ wCount \in Nat /\ wIn \in Seq(WireFrames)
           /\ wCall[t].op \in Ops \cup {"none"} /\ wCall[t].params \in BOOLEAN /\ wCall[t].n \in Nat
           /\ wCall[t].skip \in Nat /\ wCall[t].got \in SUBSET Nat
<1>1. wKind \in DriverKinds
  BY DEF WireInv, WireTypes
<1>2. t \in AllTasks
  BY <1>1, TasksFacts
<1>3. wCall[t] \in WireCalls /\ wCount \in Nat /\ wIn \in Seq(WireFrames)
  BY <1>2 DEF WireInv, WireTypes
<1> QED
  BY <1>2, <1>3 DEF WireCalls

LEMMA PgSendStep ==
    ASSUME WireInv, NEW t \in Users, PgSend(t)
    PROVE  WireInv'
<1>1. PICK outcome \in Outcomes(Op(t)) :
        Written(t, "pg", PgReplies(wCall[t].params, outcome), SessionAfter(Op(t), outcome))
  BY DEF PgSend
<1>2. wUp = "up" /\ wCall[t] \in WireCalls /\ wCall[t].params \in BOOLEAN /\ wCount + 1 \in Nat /\ Op(t) \in Ops \cup {"none"}
  BY <1>1, CallerFacts DEF Written, Op
<1>3. PICK ms : ms = PgReplies(wCall[t].params, outcome)
  OBVIOUS
<1>4. /\ ms \in Seq(Replies) /\ Len(ms) # 0
      /\ \A i \in 1 .. Len(ms) : ms[i] = "Z" <=> i = Len(ms)
      /\ outcome # "err" => \A i \in 1 .. Len(ms) : ms[i] \notin Failure
  BY <1>2, <1>3, PgAnswers
<1>5. PICK srv : srv = SessionAfter(Op(t), outcome)
  OBVIOUS
<1>6. /\ srv \in {"idle", "txn", "failed"}
      /\ srv \in {"txn", "failed"} =>
            \/ wSrv \in {"txn", "failed"} /\ Op(t) \notin {"commit", "rollback"}
            \/ Op(t) = "begin" /\ outcome # "err"
  BY <1>2, <1>5, SessionFacts
<1>7. PICK c : c = [wCall[t] EXCEPT !.at = "pg", !.n = wCount + 1]
  OBVIOUS
<1>8. c.at = "pg"
  BY <1>2, <1>7 DEF WireCalls
<1>9. FitsCall(c, From(wCount + 1, ms))
  <2>1. PICK q : q = From(wCount + 1, ms)
    OBVIOUS
  <2>2. Len(q) = Len(ms) /\ DOMAIN q = 1 .. Len(ms) /\ \A i \in 1 .. Len(ms) : q[i].m = ms[i]
    BY <1>2, <1>4, <2>1, FromFrames
  <2>3. q # <<>>
    BY <1>4, <2>2
  <2>4. FitsCall(c, q)
    BY <1>4, <1>8, <2>2, <2>3 DEF FitsCall
  <2> QED
    BY <2>1, <2>4
<1>10. Written(t, "pg", ms, srv) /\ "pg" \in Waits /\ "pg" \notin Prepares /\ ms # <<>>
  BY <1>1, <1>3, <1>4, <1>5 DEF Waits, Prepares
<1> QED
  BY <1>4, <1>6, <1>7, <1>9, <1>10, WriteStep

LEMMA RedisSendStep ==
    ASSUME WireInv, NEW t \in Users, RedisSend(t)
    PROVE  WireInv'
<1>1. PICK outcome \in Outcomes(Op(t)) :
        Written(t, "frame", RedisReply(Op(t), outcome), SessionAfter(Op(t), outcome))
  BY DEF RedisSend
<1>2. wUp = "up" /\ wCall[t] \in WireCalls /\ wCount + 1 \in Nat /\ Op(t) \in Ops \cup {"none"}
  BY <1>1, CallerFacts DEF Written, Op
<1>3. PICK ms : ms = RedisReply(Op(t), outcome)
  OBVIOUS
<1>4. /\ ms \in Seq(Replies) /\ Len(ms) = 1
      /\ outcome # "err" => \A i \in 1 .. Len(ms) : ms[i] \notin Failure
  BY <1>3, RedisAnswers
<1>5. PICK srv : srv = SessionAfter(Op(t), outcome)
  OBVIOUS
<1>6. /\ srv \in {"idle", "txn", "failed"}
      /\ srv \in {"txn", "failed"} =>
            \/ wSrv \in {"txn", "failed"} /\ Op(t) \notin {"commit", "rollback"}
            \/ Op(t) = "begin" /\ outcome # "err"
  BY <1>2, <1>5, SessionFacts
<1>7. PICK c : c = [wCall[t] EXCEPT !.at = "frame", !.n = wCount + 1]
  OBVIOUS
<1>8. c.at = "frame"
  BY <1>2, <1>7 DEF WireCalls
<1>9. FitsCall(c, From(wCount + 1, ms))
  <2>1. Len(From(wCount + 1, ms)) = 1
    BY <1>2, <1>4, FromFrames
  <2> QED
    BY <1>8, <2>1 DEF FitsCall
<1>10. Written(t, "frame", ms, srv) /\ "frame" \in Waits /\ "frame" \notin Prepares /\ ms # <<>>
  BY <1>1, <1>3, <1>4, <1>5 DEF Waits, Prepares
<1> QED
  BY <1>4, <1>6, <1>7, <1>9, <1>10, WriteStep

LEMMA MysqlSendStep ==
    ASSUME WireInv, NEW t \in Users, MysqlSend(t)
    PROVE  WireInv'
<1>1. wUp = "up" /\ wCall[t] \in WireCalls /\ wCount + 1 \in Nat /\ Op(t) \in Ops \cup {"none"} /\ t \in AllTasks
  BY CallerFacts DEF MysqlSend, Written, Op
<1>2. CASE wCall[t].params
  <2>1. PICK ms : /\ ms = <<"err">> \/ ms = <<"prepared", "def", "eof", "def", "eof">>
                  /\ Written(t, "prepare", ms, wSrv)
    BY <1>2 DEF MysqlSend
  <2>2. "err" \in Replies /\ "prepared" \in Replies /\ "def" \in Replies /\ "eof" \in Replies
    BY DEF Replies
  <2>5. ms \in Seq(Replies) /\ Len(ms) # 0 /\ Len(ms) = (IF ms[1] = "err" THEN 1 ELSE 5)
    <3>1. CASE ms = <<"err">>
      BY <2>2, <3>1, Words1
    <3>2. CASE ms = <<"prepared", "def", "eof", "def", "eof">>
      BY <2>2, <3>2, Words5
    <3> QED
      BY <2>1, <3>1, <3>2
  <2>6. PICK c : c = [wCall[t] EXCEPT !.at = "prepare", !.n = wCount + 1]
    OBVIOUS
  <2>7. c.at = "prepare"
    BY <1>1, <2>6 DEF WireCalls
  <2>8. FitsCall(c, From(wCount + 1, ms))
    <3>1. PICK q : q = From(wCount + 1, ms)
      OBVIOUS
    <3>1a. ms \in Seq(Replies) /\ 1 \in 1 .. Len(ms)
      BY <2>5
    <3>1b. Len(q) = Len(ms) /\ \A i \in 1 .. Len(ms) : q[i].m = ms[i]
      BY <1>1, <3>1, <3>1a, FromFrames
    <3>2. Len(q) = Len(ms) /\ q[1].m = ms[1]
      BY <3>1a, <3>1b
    <3>3. FitsCall(c, q)
      BY <2>5, <2>7, <3>2 DEF FitsCall
    <3> QED
      BY <3>1, <3>3
  <2>9. PICK srv : srv = wSrv
    OBVIOUS
  <2>10. srv \in {"idle", "txn", "failed"} /\ Op(t) \notin {"commit", "rollback"}
    BY <1>1, <1>2, <2>9 DEF WireInv, WireTypes, LoginInv, GuestEnds, Op
  <2>11. Written(t, "prepare", ms, srv) /\ "prepare" \in Waits /\ ms # <<>>
    BY <2>1, <2>5, <2>9 DEF Waits
  <2> QED
    BY <1>2, <2>5, <2>6, <2>8, <2>9, <2>10, <2>11, WriteStep
<1>3. CASE ~wCall[t].params
  <2>1a. PICK outcome \in Outcomes(Op(t)) : \E ms \in MysqlReplies(outcome) :
           Written(t, "text", ms, SessionAfter(Op(t), outcome))
    BY <1>3 DEF MysqlSend
  <2>1. PICK ms \in MysqlReplies(outcome) : Written(t, "text", ms, SessionAfter(Op(t), outcome))
    BY <2>1a
  <2>4. /\ ms \in Seq(Replies)
        /\ \/ Len(ms) = 1 /\ ms[1] \in {"ok", "err"}
           \/ /\ Len(ms) = 5 /\ ms[1] = "count" /\ ms[2] = "def" /\ ms[3] = "eof"
              /\ ms[4] \in {"row", "rowempty"} /\ ms[5] = "eof"
        /\ outcome # "err" => \A i \in 1 .. Len(ms) : ms[i] \notin Failure
    BY MysqlAnswers
  <2>5. PICK srv : srv = SessionAfter(Op(t), outcome)
    OBVIOUS
  <2>6. /\ srv \in {"idle", "txn", "failed"}
        /\ srv \in {"txn", "failed"} =>
              \/ wSrv \in {"txn", "failed"} /\ Op(t) \notin {"commit", "rollback"}
              \/ Op(t) = "begin" /\ outcome # "err"
    BY <1>1, <2>5, SessionFacts
  <2>7. PICK c : c = [wCall[t] EXCEPT !.at = "text", !.n = wCount + 1]
    OBVIOUS
  <2>8. c.at = "text"
    BY <1>1, <2>7 DEF WireCalls
  <2>9. FitsCall(c, From(wCount + 1, ms))
    <3>1. PICK q : q = From(wCount + 1, ms)
      OBVIOUS
    <3>2. Len(q) = Len(ms) /\ DOMAIN q = 1 .. Len(ms) /\ \A i \in 1 .. Len(ms) : q[i].m = ms[i]
      BY <1>1, <2>4, <3>1, FromFrames
    <3>3. \A i \in 1 .. Len(ms) : ms[i] \in {"ok", "err"} => i = Len(ms)
      <4>1. CASE Len(ms) = 1
        BY <4>1
      <4>2. CASE Len(ms) = 5
        <5>1. \A i \in 1 .. 5 : i = 1 \/ i = 2 \/ i = 3 \/ i = 4 \/ i = 5
          OBVIOUS
        <5> QED
          BY <2>4, <4>2, <5>1
      <4> QED
        BY <2>4, <4>1, <4>2
    <3>4. q # <<>> /\ q[1].m = ms[1] /\ ms[1] # "eof"
      BY <2>4, <3>2
    <3>5. FitsCall(c, q)
      BY <2>8, <3>2, <3>3, <3>4 DEF FitsCall
    <3> QED
      BY <3>1, <3>5
  <2>10. Written(t, "text", ms, srv) /\ "text" \in Waits /\ "text" \notin Prepares /\ ms # <<>>
    BY <2>1, <2>4, <2>5 DEF Waits, Prepares
  <2> QED
    BY <2>4, <2>6, <2>7, <2>9, <2>10, WriteStep
<1> QED
  BY <1>2, <1>3

\* The queue without its head.
LEMMA TailFacts ==
    ASSUME NEW q \in Seq(WireFrames), q # <<>>
    PROVE  /\ Len(q) \in Nat \ {0} /\ Len(Tail(q)) = Len(q) - 1 /\ DOMAIN Tail(q) = 1 .. Len(q) - 1
           /\ DOMAIN q = 1 .. Len(q) /\ Head(q) = q[1]
           /\ \A i \in 1 .. Len(q) - 1 : Tail(q)[i] = q[i + 1]
           /\ Len(q) > 1 => Tail(q) # <<>>
<1>1. Len(q) \in Nat \ {0} /\ DOMAIN q = 1 .. Len(q)
  OBVIOUS
<1>2. Head(q) = q[1] /\ Tail(q) \in Seq(WireFrames) /\ Len(Tail(q)) = Len(q) - 1
  OBVIOUS
<1>3. \A i \in 1 .. Len(q) - 1 : Tail(q)[i] = q[i + 1]
  OBVIOUS
<1>4. DOMAIN Tail(q) = 1 .. Len(Tail(q))
  BY <1>2
<1>5. Len(q) > 1 => Tail(q) # <<>>
  <2>1. PICK n, t : n \in Nat \ {0} /\ n = Len(q) /\ t = Tail(q) /\ Len(t) = n - 1
    BY <1>1, <1>2
  <2>2. t = <<>> => Len(t) = 0
    OBVIOUS
  <2> QED
    BY <2>1, <2>2
<1> QED
  BY <1>1, <1>2, <1>3, <1>4, <1>5

\* What the reads of every driver have in common.
LEMMA TakesFacts ==
    ASSUME WireInv, NEW t \in Users, NEW at \in Waits, Takes(t, at)
    PROVE  /\ wUp = "up" /\ wIn # <<>> /\ wIn' = Tail(wIn) /\ InCall(t) /\ wCall[t].at = at
           /\ t \in AllTasks /\ wCall[t] \in WireCalls /\ wIn \in Seq(WireFrames) /\ 1 \in DOMAIN wIn
           /\ wIn[1] \in WireFrames /\ Head(wIn) = wIn[1] /\ wTorn \in BOOLEAN
           /\ (wCall[t].got \cup {Head(wIn).of}) \in SUBSET Nat
           /\ ~wTorn => FitsCall(wCall[t], wIn)
<1>1. wUp = "up" /\ wIn # <<>> /\ wIn' = Tail(wIn) /\ InCall(t) /\ wCall[t].at = at
  BY DEF Takes, InCall
<1>2. t \in AllTasks /\ wCall[t] \in WireCalls /\ wIn \in Seq(WireFrames) /\ wCall[t].got \in SUBSET Nat
  BY CallerFacts
<1>3. 1 \in DOMAIN wIn /\ wIn[1] \in WireFrames /\ Head(wIn) = wIn[1]
  BY <1>1, <1>2
<1>4. wIn[1].of \in Nat
  BY <1>3 DEF WireFrames
<1>5. wTorn \in BOOLEAN /\ (~wTorn => FitsCall(wCall[t], wIn))
  BY <1>1, <1>2 DEF WireInv, WireTypes, InStep
<1> QED
  BY <1>1, <1>2, <1>3, <1>4, <1>5

\* Keep, with the call it leaves given by its fields.
LEMMA KeepTurn ==
    ASSUME WireInv, NEW t \in Users, NEW at \in Waits, Takes(t, at), StaysUp, UNCHANGED wTorn,
           NEW c \in WireCalls, Keep(t, c), c.op = wCall[t].op, c.params = wCall[t].params, c.n = wCall[t].n,
           c.at \in Waits, c.at \in Prepares => at \in Prepares,
           ~wTorn => FitsCall(c, Tail(wIn))
    PROVE  WireInv'
<1>1. /\ wUp = "up" /\ wIn # <<>> /\ wIn' = Tail(wIn) /\ InCall(t) /\ wCall[t].at = at /\ t \in AllTasks
      /\ (wCall[t].got \cup {Head(wIn).of}) \in SUBSET Nat
  BY TakesFacts
<1>2. PICK g \in SUBSET Nat : g = wCall[t].got \cup {Head(wIn).of}
  BY <1>1
<1>3. PICK d : d = [c EXCEPT !.got = g]
  OBVIOUS
<1>4. d \in WireCalls /\ d.op = c.op /\ d.params = c.params /\ d.at = c.at /\ d.n = c.n /\ d.skip = c.skip /\ d.cols = c.cols /\ d.got = g
  BY <1>3 DEF WireCalls
<1>5. FitsCall(d, Tail(wIn)) <=> FitsCall(c, Tail(wIn))
  BY <1>4 DEF FitsCall
<1>6. /\ wCall' = [wCall EXCEPT ![t] = d]
      /\ UNCHANGED <<wKind, wUp, wSrv, wLock, wCount, wOpen, wHandle, wTorn, wBad>>
  BY <1>1, <1>2, <1>3 DEF Keep, StaysUp
<1> QED
  BY <1>1, <1>2, <1>4, <1>5, <1>6, KeepStep

\* Ends: the last reply is read, or the queue is torn.
LEMMA EndTurn ==
    ASSUME WireInv, NEW t \in Users, NEW at \in Waits, Takes(t, at), StaysUp, NEW failed \in BOOLEAN, Ends(t, failed),
           \/ wTorn' = TRUE
           \/ UNCHANGED wTorn /\ (~wTorn => Len(wIn) = 1 /\ (failed => wIn[1].m \in Failure))
    PROVE  WireInv'
<1>1. /\ wUp = "up" /\ wIn # <<>> /\ wIn' = Tail(wIn) /\ InCall(t) /\ t \in AllTasks /\ wTorn \in BOOLEAN
  BY TakesFacts
<1> QED
  BY <1>1, EndStep

LEMMA PgReadStep ==
    ASSUME WireInv, NEW t \in Users, PgRead(t)
    PROVE  WireInv'
<1>1. Takes(t, "pg") /\ StaysUp /\ "pg" \in Waits
  BY DEF PgRead, Waits
<1>2. /\ wUp = "up" /\ wIn # <<>> /\ wIn' = Tail(wIn) /\ wCall[t].at = "pg" /\ wCall[t] \in WireCalls
      /\ wIn \in Seq(WireFrames) /\ Head(wIn) = wIn[1] /\ 1 \in DOMAIN wIn
      /\ ~wTorn => FitsCall(wCall[t], wIn)
  BY <1>1, TakesFacts
<1>3. ~wTorn => \A i \in DOMAIN wIn : wIn[i].m = "Z" <=> i = Len(wIn)
  BY <1>2 DEF FitsCall
<1>4. CASE Head(wIn).m = "Z"
  <2>1. Ends(t, FALSE) /\ UNCHANGED wTorn
    BY <1>4 DEF PgRead
  <2>2. ~wTorn => Len(wIn) = 1
    BY <1>2, <1>3, <1>4
  <2> QED
    BY <1>1, <2>1, <2>2, EndTurn
<1>5. CASE Head(wIn).m = "E"
  <2>1. Ends(t, TRUE) /\ wTorn' = TRUE
    BY <1>5 DEF PgRead
  <2> QED
    BY <1>1, <2>1, EndTurn
<1>6. CASE Head(wIn).m \notin {"Z", "E"}
  <2>1. Keep(t, wCall[t]) /\ UNCHANGED wTorn
    BY <1>6 DEF PgRead
  <2>2. ~wTorn => FitsCall(wCall[t], Tail(wIn))
    <3> SUFFICES ASSUME ~wTorn PROVE FitsCall(wCall[t], Tail(wIn))
      OBVIOUS
    <3>1. Len(wIn) # 1
      BY <1>2, <1>3, <1>6
    <3>1a. /\ Len(wIn) \in Nat \ {0} /\ Len(Tail(wIn)) = Len(wIn) - 1 /\ DOMAIN Tail(wIn) = 1 .. Len(wIn) - 1
           /\ DOMAIN wIn = 1 .. Len(wIn) /\ (Len(wIn) > 1 => Tail(wIn) # <<>>)
           /\ \A i \in 1 .. Len(wIn) - 1 : Tail(wIn)[i] = wIn[i + 1]
      BY <1>2, TailFacts
    <3>2. Tail(wIn) # <<>> /\ \A i \in DOMAIN Tail(wIn) : Tail(wIn)[i].m = "Z" <=> i = Len(Tail(wIn))
      BY <1>3, <3>1, <3>1a
    <3> QED
      BY <1>2, <3>2 DEF FitsCall
  <2>3. "pg" \notin Prepares
    BY DEF Prepares
  <2> QED
    BY <1>1, <1>2, <2>1, <2>2, <2>3, KeepTurn
<1> QED
  BY <1>4, <1>5, <1>6

LEMMA RedisReadStep ==
    ASSUME WireInv, NEW t \in Users, RedisRead(t)
    PROVE  WireInv'
<1>1. Takes(t, "frame") /\ StaysUp /\ "frame" \in Waits /\ Ends(t, Head(wIn).m = "err") /\ UNCHANGED wTorn
  BY DEF RedisRead, Waits
<1>2. wCall[t].at = "frame" /\ Head(wIn) = wIn[1] /\ (~wTorn => FitsCall(wCall[t], wIn))
  BY <1>1, TakesFacts
<1>3. PICK failed \in BOOLEAN : failed = (Head(wIn).m = "err")
  OBVIOUS
<1>4. ~wTorn => Len(wIn) = 1 /\ (failed => wIn[1].m \in Failure)
  BY <1>2, <1>3 DEF FitsCall, Failure
<1>5. Ends(t, failed)
  BY <1>1, <1>3
<1> QED
  BY <1>1, <1>4, <1>5, EndTurn

\* The tails of the queues of a prepared statement.
LEMMA ShortTails ==
    ASSUME NEW q \in Seq(WireFrames)
    PROVE  /\ Len(q) = 2 => Len(Tail(q)) = 1 /\ Tail(q)[1] = q[2]
           /\ Len(q) = 3 => Len(Tail(q)) = 2 /\ Tail(q)[1] = q[2] /\ Tail(q)[2] = q[3]
           /\ Len(q) = 4 => Len(Tail(q)) = 3 /\ Tail(q)[2] = q[3] /\ Tail(q)[3] = q[4]
           /\ Len(q) = 5 => Len(Tail(q)) = 4 /\ Tail(q)[3] = q[4] /\ Tail(q)[4] = q[5]
<1>1. Len(q) > 0 => Len(Tail(q)) = Len(q) - 1
  OBVIOUS
<1>2. \A i \in 1 .. Len(q) - 1 : Tail(q)[i] = q[i + 1]
  OBVIOUS
<1>3. ASSUME Len(q) = 2 PROVE Len(Tail(q)) = 1 /\ Tail(q)[1] = q[2]
  <2>1. 1 \in 1 .. Len(q) - 1
    BY <1>3
  <2>2. Tail(q)[1] = q[2]
    BY <1>2, <2>1
  <2>3. Len(Tail(q)) = 1
    BY <1>1, <1>3
  <2> QED
    BY <2>2, <2>3
<1>4. ASSUME Len(q) = 3 PROVE Len(Tail(q)) = 2 /\ Tail(q)[1] = q[2] /\ Tail(q)[2] = q[3]
  <2>1. 1 \in 1 .. Len(q) - 1 /\ 2 \in 1 .. Len(q) - 1
    BY <1>4
  <2>2. Tail(q)[1] = q[2]
    BY <1>2, <2>1
  <2>3. Tail(q)[2] = q[3]
    BY <1>2, <2>1
  <2>4. Len(Tail(q)) = 2
    BY <1>1, <1>4
  <2> QED
    BY <2>2, <2>3, <2>4
<1>5. ASSUME Len(q) = 4 PROVE Len(Tail(q)) = 3 /\ Tail(q)[2] = q[3] /\ Tail(q)[3] = q[4]
  <2>1. 2 \in 1 .. Len(q) - 1 /\ 3 \in 1 .. Len(q) - 1
    BY <1>5
  <2>2. Tail(q)[2] = q[3]
    BY <1>2, <2>1
  <2>3. Tail(q)[3] = q[4]
    BY <1>2, <2>1
  <2>4. Len(Tail(q)) = 3
    BY <1>1, <1>5
  <2> QED
    BY <2>2, <2>3, <2>4
<1>6. ASSUME Len(q) = 5 PROVE Len(Tail(q)) = 4 /\ Tail(q)[3] = q[4] /\ Tail(q)[4] = q[5]
  <2>1. 3 \in 1 .. Len(q) - 1 /\ 4 \in 1 .. Len(q) - 1
    BY <1>6
  <2>2. Tail(q)[3] = q[4]
    BY <1>2, <2>1
  <2>3. Tail(q)[4] = q[5]
    BY <1>2, <2>1
  <2>4. Len(Tail(q)) = 4
    BY <1>1, <1>6
  <2> QED
    BY <2>2, <2>3, <2>4
<1> QED
  BY <1>3, <1>4, <1>5, <1>6

LEMMA ComQueryStep ==
    ASSUME WireInv, NEW t \in Users, ComQuery(t)
    PROVE  WireInv'
<1>1. Takes(t, "text") /\ StaysUp /\ "text" \in Waits /\ "text" \notin Prepares
  BY DEF ComQuery, Waits, Prepares
<1>2. /\ wUp = "up" /\ wIn # <<>> /\ wIn' = Tail(wIn) /\ wCall[t].at = "text" /\ wCall[t] \in WireCalls
      /\ wIn \in Seq(WireFrames) /\ Head(wIn) = wIn[1] /\ 1 \in DOMAIN wIn
      /\ ~wTorn => FitsCall(wCall[t], wIn)
  BY <1>1, TakesFacts
<1>3. ~wTorn => /\ \A i \in DOMAIN wIn : wIn[i].m \in {"ok", "err"} => i = Len(wIn)
                /\ ~wCall[t].cols => wIn[1].m # "eof"
  BY <1>2 DEF FitsCall
<1>4. /\ Len(wIn) \in Nat \ {0} /\ Len(Tail(wIn)) = Len(wIn) - 1 /\ DOMAIN Tail(wIn) = 1 .. Len(wIn) - 1
      /\ DOMAIN wIn = 1 .. Len(wIn)
      /\ \A i \in 1 .. Len(wIn) - 1 : Tail(wIn)[i] = wIn[i + 1]
  BY <1>2, TailFacts
<1>5. ~wTorn => \A i \in DOMAIN Tail(wIn) : Tail(wIn)[i].m \in {"ok", "err"} => i = Len(Tail(wIn))
  BY <1>3, <1>4
<1>6. CASE Head(wIn).m = "rowempty"
  <2>1. Ends(t, FALSE) /\ wTorn' = TRUE
    BY <1>6 DEF ComQuery
  <2> QED
    BY <1>1, <2>1, EndTurn
<1>7. CASE Head(wIn).m = "ok"
  <2>1. Ends(t, FALSE) /\ UNCHANGED wTorn
    BY <1>7 DEF ComQuery
  <2>2. ~wTorn => Len(wIn) = 1
    BY <1>2, <1>3, <1>7
  <2> QED
    BY <1>1, <2>1, <2>2, EndTurn
<1>8. CASE Head(wIn).m = "err"
  <2>1. Ends(t, TRUE) /\ UNCHANGED wTorn
    BY <1>8 DEF ComQuery
  <2>2. ~wTorn => Len(wIn) = 1 /\ wIn[1].m \in Failure
    BY <1>2, <1>3, <1>8 DEF Failure
  <2> QED
    BY <1>1, <2>1, <2>2, EndTurn
<1>9. CASE Head(wIn).m = "eof" /\ ~wCall[t].cols
  <2>1. Ends(t, FALSE) /\ UNCHANGED wTorn
    BY <1>9 DEF ComQuery
  <2>2. wTorn
    BY <1>2, <1>3, <1>9
  <2> QED
    BY <1>1, <2>1, <2>2, EndTurn
<1>10. CASE Head(wIn).m = "eof" /\ wCall[t].cols
  <2>1. Keep(t, wCall[t]) /\ UNCHANGED wTorn
    BY <1>10 DEF ComQuery
  <2>2. ~wTorn => FitsCall(wCall[t], Tail(wIn))
    BY <1>2, <1>5, <1>10 DEF FitsCall
  <2> QED
    BY <1>1, <1>2, <2>1, <2>2, KeepTurn
<1>11. CASE Head(wIn).m \notin {"rowempty", "ok", "err", "eof"}
  <2>1. PICK c : c = [wCall[t] EXCEPT !.cols = TRUE]
    OBVIOUS
  <2>2. Keep(t, c) /\ UNCHANGED wTorn
    BY <1>11, <2>1 DEF ComQuery
  <2>3. /\ c \in WireCalls /\ c.op = wCall[t].op /\ c.params = wCall[t].params /\ c.at = "text" /\ c.n = wCall[t].n
        /\ c.cols
    BY <1>2, <2>1 DEF WireCalls
  <2>4. ~wTorn => FitsCall(c, Tail(wIn))
    BY <1>5, <2>3 DEF FitsCall
  <2> QED
    BY <1>1, <2>2, <2>3, <2>4, KeepTurn
<1> QED
  BY <1>6, <1>7, <1>8, <1>9, <1>10, <1>11

LEMMA PrepareReadStep ==
    ASSUME WireInv, NEW t \in Users, PrepareRead(t)
    PROVE  WireInv'
<1>1. Takes(t, "prepare") /\ StaysUp /\ UNCHANGED wTorn /\ "prepare" \in Waits /\ "prepare" \in Prepares /\ "skip" \in Waits
  BY DEF PrepareRead, Waits, Prepares
<1>2. /\ wIn # <<>> /\ wCall[t].at = "prepare" /\ wCall[t] \in WireCalls
      /\ wIn \in Seq(WireFrames) /\ Head(wIn) = wIn[1]
      /\ ~wTorn => FitsCall(wCall[t], wIn)
  BY <1>1, TakesFacts
<1>3. ~wTorn => Len(wIn) = (IF wIn[1].m = "err" THEN 1 ELSE 5)
  BY <1>2 DEF FitsCall
<1>4. CASE Head(wIn).m = "err"
  <2>1. Ends(t, TRUE)
    BY <1>4 DEF PrepareRead
  <2>2. ~wTorn => Len(wIn) = 1 /\ wIn[1].m \in Failure
    BY <1>2, <1>3, <1>4 DEF Failure
  <2> QED
    BY <1>1, <2>1, <2>2, EndTurn
<1>5. CASE Head(wIn).m # "err"
  <2>1. PICK c : c = [wCall[t] EXCEPT !.at = "skip", !.skip = 4]
    OBVIOUS
  <2>2. Keep(t, c)
    BY <1>5, <2>1 DEF PrepareRead
  <2>3. /\ c \in WireCalls /\ c.op = wCall[t].op /\ c.params = wCall[t].params /\ c.at = "skip" /\ c.n = wCall[t].n
        /\ c.skip = 4
    BY <1>1, <1>2, <2>1 DEF WireCalls
  <2>4. ~wTorn => Len(Tail(wIn)) = 4
    BY <1>2, <1>3, <1>5, TailFacts
  <2>5. ~wTorn => FitsCall(c, Tail(wIn))
    BY <2>3, <2>4 DEF FitsCall
  <2> QED
    BY <1>1, <2>2, <2>3, <2>5, KeepTurn
<1> QED
  BY <1>4, <1>5

LEMMA SkipDefinitionStep ==
    ASSUME WireInv, NEW t \in Users, SkipDefinition(t)
    PROVE  WireInv'
<1>1. Takes(t, "skip") /\ StaysUp /\ UNCHANGED wTorn /\ "skip" \in Waits /\ "skip" \in Prepares /\ wCall[t].skip > 0
  BY DEF SkipDefinition, Waits, Prepares
<1>2. /\ wIn # <<>> /\ wCall[t].at = "skip" /\ wCall[t] \in WireCalls /\ wIn \in Seq(WireFrames)
      /\ ~wTorn => FitsCall(wCall[t], wIn)
  BY <1>1, TakesFacts
<1>3. PICK c : c = [wCall[t] EXCEPT !.skip = @ - 1]
  OBVIOUS
<1>4. wCall[t].skip - 1 \in Nat
  BY <1>1, <1>2 DEF WireCalls
<1>5. /\ c \in WireCalls /\ c.op = wCall[t].op /\ c.params = wCall[t].params /\ c.at = "skip" /\ c.n = wCall[t].n
      /\ c.skip = wCall[t].skip - 1
  BY <1>2, <1>3, <1>4 DEF WireCalls
<1>6. ~wTorn => Len(Tail(wIn)) = wCall[t].skip - 1
  <2>1. ~wTorn => Len(wIn) = wCall[t].skip
    BY <1>2 DEF FitsCall
  <2> QED
    BY <1>2, <2>1, TailFacts
<1>7. ~wTorn => FitsCall(c, Tail(wIn))
  BY <1>5, <1>6 DEF FitsCall
<1>8. Keep(t, c)
  BY <1>3 DEF SkipDefinition
<1> QED
  BY <1>1, <1>5, <1>7, <1>8, KeepTurn

LEMMA BinaryFirstStep ==
    ASSUME WireInv, NEW t \in Users, BinaryFirst(t)
    PROVE  WireInv'
<1>1. /\ Takes(t, "binary") /\ StaysUp /\ UNCHANGED wTorn /\ "binary" \in Waits /\ "binary" \in Prepares
      /\ "columns" \in Waits
  BY DEF BinaryFirst, Waits, Prepares
<1>2. /\ wIn # <<>> /\ wCall[t].at = "binary" /\ wCall[t] \in WireCalls
      /\ wIn \in Seq(WireFrames) /\ Head(wIn) = wIn[1]
      /\ ~wTorn => FitsCall(wCall[t], wIn)
  BY <1>1, TakesFacts
<1>3. ~wTorn => \/ Len(wIn) = 1 /\ wIn[1].m \in {"ok", "err"}
                \/ /\ Len(wIn) = 5 /\ wIn[1].m \notin {"ok", "err"}
                   /\ wIn[4].m \notin {"eof", "err"} /\ wIn[5].m = "eof"
  BY <1>2 DEF FitsCall
<1>4. CASE Head(wIn).m = "ok"
  <2>1. Ends(t, FALSE)
    BY <1>4 DEF BinaryFirst
  <2>2. ~wTorn => Len(wIn) = 1
    BY <1>2, <1>3, <1>4
  <2> QED
    BY <1>1, <2>1, <2>2, EndTurn
<1>5. CASE Head(wIn).m = "err"
  <2>1. Ends(t, TRUE)
    BY <1>5 DEF BinaryFirst
  <2>2. ~wTorn => Len(wIn) = 1 /\ wIn[1].m \in Failure
    BY <1>2, <1>3, <1>5 DEF Failure
  <2> QED
    BY <1>1, <2>1, <2>2, EndTurn
<1>6. CASE Head(wIn).m \notin {"ok", "err"}
  <2>1. PICK c : c = [wCall[t] EXCEPT !.at = "columns", !.skip = 2]
    OBVIOUS
  <2>2. Keep(t, c)
    BY <1>6, <2>1 DEF BinaryFirst
  <2>3. /\ c \in WireCalls /\ c.op = wCall[t].op /\ c.params = wCall[t].params /\ c.at = "columns" /\ c.n = wCall[t].n
        /\ c.skip = 2
    BY <1>1, <1>2, <2>1 DEF WireCalls
  <2>4. ASSUME ~wTorn PROVE Len(Tail(wIn)) = 4 /\ Tail(wIn)[3] = wIn[4] /\ Tail(wIn)[4] = wIn[5]
    <3>1. Len(wIn) = 5
      BY <1>2, <1>3, <1>6, <2>4
    <3> QED
      BY <1>2, <3>1, ShortTails
  <2>5. ASSUME ~wTorn PROVE FitsCall(c, Tail(wIn))
    <3>1. wIn[4].m \notin {"eof", "err"} /\ wIn[5].m = "eof"
      BY <1>2, <1>3, <1>6, <2>5
    <3> QED
      BY <2>3, <2>4, <2>5, <3>1 DEF FitsCall
  <2> QED
    BY <1>1, <2>2, <2>3, <2>5, KeepTurn
<1> QED
  BY <1>4, <1>5, <1>6

LEMMA BinaryColumnsStep ==
    ASSUME WireInv, NEW t \in Users, BinaryColumns(t)
    PROVE  WireInv'
<1>1. /\ Takes(t, "columns") /\ StaysUp /\ UNCHANGED wTorn /\ wCall[t].skip > 0
      /\ "columns" \in Waits /\ "columns" \in Prepares /\ "rows" \in Waits
  BY DEF BinaryColumns, Waits, Prepares
<1>2. /\ wIn # <<>> /\ wCall[t].at = "columns" /\ wCall[t] \in WireCalls /\ wIn \in Seq(WireFrames)
      /\ ~wTorn => FitsCall(wCall[t], wIn)
  BY <1>1, TakesFacts
<1>3. PICK c : c = [wCall[t] EXCEPT !.skip = @ - 1, !.at = IF wCall[t].skip = 1 THEN "rows" ELSE @]
  OBVIOUS
<1>4. wCall[t].skip - 1 \in Nat
  BY <1>1, <1>2 DEF WireCalls
<1>5. /\ c \in WireCalls /\ c.op = wCall[t].op /\ c.params = wCall[t].params /\ c.n = wCall[t].n
      /\ c.at = (IF wCall[t].skip = 1 THEN "rows" ELSE "columns") /\ c.skip = wCall[t].skip - 1
  BY <1>1, <1>2, <1>3, <1>4 DEF WireCalls
<1>6. ASSUME ~wTorn PROVE FitsCall(c, Tail(wIn))
  <2>1. /\ wCall[t].skip \in {1, 2} /\ Len(wIn) = wCall[t].skip + 2
        /\ wIn[wCall[t].skip + 1].m \notin {"eof", "err"} /\ wIn[wCall[t].skip + 2].m = "eof"
    BY <1>2, <1>6 DEF FitsCall
  <2>2. CASE wCall[t].skip = 1
    <3>1. Len(wIn) = 3 /\ wIn[2].m \notin {"eof", "err"} /\ wIn[3].m = "eof"
      BY <2>1, <2>2
    <3>2. Len(Tail(wIn)) = 2 /\ Tail(wIn)[1] = wIn[2] /\ Tail(wIn)[2] = wIn[3]
      BY <1>2, <3>1, ShortTails
    <3>3. c.at = "rows"
      BY <1>5, <2>2
    <3> QED
      BY <3>1, <3>2, <3>3 DEF FitsCall
  <2>3. CASE wCall[t].skip = 2
    <3>1. Len(wIn) = 4 /\ wIn[3].m \notin {"eof", "err"} /\ wIn[4].m = "eof"
      BY <2>1, <2>3
    <3>2. Len(Tail(wIn)) = 3 /\ Tail(wIn)[2] = wIn[3] /\ Tail(wIn)[3] = wIn[4]
      BY <1>2, <3>1, ShortTails
    <3>3. c.at = "columns" /\ c.skip = 1
      BY <1>5, <2>3
    <3>4. /\ c.skip \in {1, 2} /\ Len(Tail(wIn)) = c.skip + 2
          /\ Tail(wIn)[c.skip + 1].m \notin {"eof", "err"} /\ Tail(wIn)[c.skip + 2].m = "eof"
      <4>1. c.skip + 1 = 2 /\ c.skip + 2 = 3
        BY <3>3
      <4> QED
        BY <3>1, <3>2, <3>3, <4>1
    <3> QED
      BY <3>3, <3>4 DEF FitsCall
  <2> QED
    BY <2>1, <2>2, <2>3
<1>7. Keep(t, c)
  BY <1>3 DEF BinaryColumns
<1>8. c.at \in Waits
  BY <1>1, <1>5
<1> QED
  BY <1>1, <1>5, <1>6, <1>7, <1>8, KeepTurn

LEMMA BinaryRowStep ==
    ASSUME WireInv, NEW t \in Users, BinaryRow(t)
    PROVE  WireInv'
<1>1. Takes(t, "rows") /\ StaysUp /\ UNCHANGED wTorn /\ "rows" \in Waits /\ "rows" \in Prepares
  BY DEF BinaryRow, Waits, Prepares
<1>2. /\ wIn # <<>> /\ wCall[t].at = "rows" /\ wCall[t] \in WireCalls
      /\ wIn \in Seq(WireFrames) /\ Head(wIn) = wIn[1]
      /\ ~wTorn => FitsCall(wCall[t], wIn)
  BY <1>1, TakesFacts
<1>3. ~wTorn => \/ Len(wIn) = 1 /\ wIn[1].m = "eof"
                \/ Len(wIn) = 2 /\ wIn[1].m \notin {"eof", "err"} /\ wIn[2].m = "eof"
  BY <1>2 DEF FitsCall
<1>4. CASE Head(wIn).m = "eof"
  <2>1. Ends(t, FALSE)
    BY <1>4 DEF BinaryRow
  <2>2. ~wTorn => Len(wIn) = 1
    BY <1>2, <1>3, <1>4
  <2> QED
    BY <1>1, <2>1, <2>2, EndTurn
<1>5. CASE Head(wIn).m = "err"
  <2>1. Ends(t, TRUE)
    BY <1>5 DEF BinaryRow
  <2>2. wTorn
    BY <1>2, <1>3, <1>5
  <2> QED
    BY <1>1, <2>1, <2>2, EndTurn
<1>6. CASE Head(wIn).m \notin {"eof", "err"}
  <2>1. Keep(t, wCall[t])
    BY <1>6 DEF BinaryRow
  <2>2. ASSUME ~wTorn PROVE FitsCall(wCall[t], Tail(wIn))
    <3>1. Len(wIn) = 2 /\ wIn[2].m = "eof"
      BY <1>2, <1>3, <1>6, <2>2
    <3>2. Len(Tail(wIn)) = 1 /\ Tail(wIn)[1] = wIn[2]
      BY <1>2, <3>1, ShortTails
    <3> QED
      BY <1>2, <3>1, <3>2 DEF FitsCall
  <2> QED
    BY <1>1, <1>2, <2>1, <2>2, KeepTurn
<1> QED
  BY <1>4, <1>5, <1>6

\* The second command of a prepared statement, when every definition is read.
LEMMA StmtExecuteStep ==
    ASSUME WireInv, NEW t \in Users, StmtExecute(t)
    PROVE  WireInv'
<1>1. /\ wUp = "up" /\ wCall[t].at = "skip" /\ wCall[t].skip = 0
      /\ wCall' = [wCall EXCEPT ![t].at = "binary"]
      /\ UNCHANGED <<wKind, wUp, wLock, wCount, wOpen, wHandle, wTorn, wBad>>
  BY DEF StmtExecute
<1>2. PICK outcome \in Outcomes(Op(t)) : \E ms \in MysqlReplies(outcome) :
        wIn' = wIn \o From(wCall[t].n, ms) /\ wSrv' = SessionAfter(Op(t), outcome)
  BY DEF StmtExecute
<1>3. PICK ms \in MysqlReplies(outcome) : wIn' = wIn \o From(wCall[t].n, ms) /\ wSrv' = SessionAfter(Op(t), outcome)
  BY <1>2
<1>4. /\ ms \in Seq(Replies)
      /\ \/ Len(ms) = 1 /\ ms[1] \in {"ok", "err"}
         \/ /\ Len(ms) = 5 /\ ms[1] = "count" /\ ms[2] = "def" /\ ms[3] = "eof"
            /\ ms[4] \in {"row", "rowempty"} /\ ms[5] = "eof"
  BY MysqlAnswers
<1>5. /\ t \in AllTasks /\ wCall[t] \in WireCalls /\ wIn \in Seq(WireFrames) /\ Op(t) \in Ops \cup {"none"}
      /\ wCall[t].n \in Nat
  BY CallerFacts DEF Op
<1>6. wCall \in [AllTasks -> WireCalls] /\ wKind \in DriverKinds
  BY DEF WireInv, WireTypes
<1>7. "guest" \in AllTasks
  BY <1>6, TasksFacts
<1>8. Op(t) \notin {"begin", "commit", "rollback"}
  BY <1>1, <1>5 DEF WireInv, GuestEnds, CallsInv, Prepares, Op
<1>9. wSrv' \in {"idle", "txn", "failed"} /\ (wSrv' \in {"txn", "failed"} => wSrv \in {"txn", "failed"})
  BY <1>1, <1>3, <1>5, <1>8, SessionFacts
<1>10. PICK c : c = [wCall[t] EXCEPT !.at = "binary"]
  OBVIOUS
<1>11. "binary" \in Waits /\ "binary" \in Prepares /\ "skip" \in Waits /\ "skip" \in Prepares
  BY DEF Waits, Prepares
<1>12. /\ c \in WireCalls /\ c.op = wCall[t].op /\ c.params = wCall[t].params /\ c.at = "binary" /\ c.n = wCall[t].n
       /\ c.got = wCall[t].got
  BY <1>5, <1>10, <1>11 DEF WireCalls
<1>13. wCall' = [wCall EXCEPT ![t] = c]
  BY <1>1, <1>10
<1>14. wCall'[t] = c /\ \A u \in AllTasks \ {t} : wCall'[u] = wCall[u]
  BY <1>5, <1>6, <1>13
<1>15. PICK q : q = From(wCall[t].n, ms)
  OBVIOUS
<1>16. /\ q \in Seq(WireFrames) /\ Len(q) = Len(ms) /\ DOMAIN q = 1 .. Len(ms)
       /\ \A i \in 1 .. Len(ms) : q[i].m = ms[i] /\ q[i].of = wCall[t].n
  BY <1>4, <1>5, <1>15, FromFrames
<1>17. InCall(t)
  BY <1>1, <1>11 DEF InCall
<1>18. \A u \in AllTasks : InCall(u)' <=> InCall(u)
  BY <1>11, <1>12, <1>14, <1>17 DEF InCall
<1>19. ASSUME ~wTorn
       PROVE  wIn' = q /\ wCall[t].got \subseteq {wCall[t].n}
  <2>1. FitsCall(wCall[t], wIn) /\ wCall[t].got \subseteq {wCall[t].n}
    BY <1>1, <1>5, <1>17, <1>19 DEF WireInv, InStep
  <2>2. Len(wIn) = 0
    BY <1>1, <2>1 DEF FitsCall
  <2>3. wIn = <<>>
    BY <1>5, <2>2
  <2> QED
    BY <1>3, <1>15, <1>16, <2>1, <2>3
<1>20. WireTypes'
  <2>1. wIn' \in Seq(WireFrames)
    BY <1>3, <1>5, <1>15, <1>16
  <2>2. wCall' \in [AllTasks -> WireCalls]
    BY <1>6, <1>12, <1>13
  <2>3. wSrv' \in {"login", "idle", "txn", "failed"}
    BY <1>9
  <2> QED
    BY <1>1, <2>1, <2>2, <2>3 DEF WireInv, WireTypes, AllTasks
<1>21. GuestEnds'
  BY <1>12, <1>14 DEF WireInv, GuestEnds
<1>22. CallsInv'
  BY <1>1, <1>5, <1>11, <1>12, <1>14 DEF WireInv, CallsInv
<1>23. LoginInv'
  BY <1>1, <1>9 DEF LoginInv
<1>24. LockInv'
  <2>1. wLock # "none" => wLock \in AllTasks
    BY DEF WireInv, WireTypes
  <2> QED
    BY <1>1, <1>18, <2>1 DEF WireInv, LockInv, Users
<1>25. InStep'
  <2> SUFFICES ASSUME ~wTorn, NEW u \in AllTasks, InCall(u)'
               PROVE  /\ \A i \in DOMAIN wIn' : wIn'[i].of = wCall'[u].n
                      /\ wCall'[u].got \subseteq {wCall'[u].n}
                      /\ FitsCall(wCall'[u], wIn')
    BY <1>1, <1>5, <1>17, <1>18 DEF InStep
  <2>1. u = t
    BY <1>1, <1>5, <1>17, <1>18, OneInCall
  <2>2. FitsCall(c, q)
    <3>1. \/ Len(q) = 1 /\ q[1].m \in {"ok", "err"}
          \/ /\ Len(q) = 5 /\ q[1].m \notin {"ok", "err"}
             /\ q[4].m \notin {"eof", "err"} /\ q[5].m = "eof"
      <4>1. CASE Len(ms) = 1
        BY <1>4, <1>16, <4>1
      <4>2. CASE Len(ms) = 5
        <5>1. q[1].m = ms[1] /\ q[4].m = ms[4] /\ q[5].m = ms[5]
          BY <1>16, <4>2
        <5> QED
          BY <1>4, <1>16, <4>2, <5>1
      <4> QED
        BY <1>4, <4>1, <4>2
    <3> QED
      BY <1>12, <3>1 DEF FitsCall
  <2> QED
    BY <1>12, <1>14, <1>16, <1>19, <2>1, <2>2
<1>26. SessionInv'
  <2> SUFFICES ASSUME ~wTorn, wSrv \in {"txn", "failed"}
               PROVE  \/ wOpen
                      \/ wCall'["guest"].at = "lock" /\ wCall'["guest"].op \in {"commit", "rollback"}
    BY <1>1, <1>9 DEF SessionInv
  <2>1. \/ wOpen
        \/ wCall["guest"].at = "lock" /\ wCall["guest"].op \in {"commit", "rollback"}
        \/ InCall("guest") /\ wCall["guest"].op = "begin"
    BY <1>1 DEF WireInv, SessionInv
  <2>2. ~(InCall("guest") /\ wCall["guest"].op = "begin")
    BY <1>1, <1>5, <1>7, <1>8, <1>17, OneInCall DEF Op
  <2>3. wCall["guest"].at = "lock" => wCall'["guest"] = wCall["guest"]
    BY <1>1, <1>7, <1>14
  <2> QED
    BY <2>1, <2>2, <2>3
<1> QED
  BY <1>1, <1>20, <1>21, <1>22, <1>23, <1>24, <1>25, <1>26 DEF WireInv

\* One turn of a login.
LEMMA WireConnectStep ==
    ASSUME WireInv, WireConnect
    PROVE  WireInv'
<1>1. PICK up \in {"auth", "up", "failed"} :
        /\ LoginRead(up) /\ wIn # <<>> /\ wIn' \in {Tail(wIn), <<>>}
        /\ wKind # "redis" => wIn' = Tail(wIn) /\ (up = "up" => Head(wIn).m \in {"Z", "ok"})
        /\ wKind = "redis" => wIn' = <<>> /\ up # "auth"
  BY DEF WireConnect, PgConnect, MysqlHandshake, RedisConnect
<1>2. /\ wUp = "auth" /\ wUp' = up /\ wSrv' = (IF up = "up" THEN "idle" ELSE wSrv)
      /\ UNCHANGED <<wKind, wLock, wCall, wCount, wOpen, wHandle, wTorn, wBad>>
  BY <1>1 DEF LoginRead
<1>3. wIn \in Seq(WireFrames) /\ wSrv \in {"login", "idle", "txn", "failed"}
  BY DEF WireInv, WireTypes
<1>4. /\ Len(wIn) \in Nat \ {0} /\ Len(Tail(wIn)) = Len(wIn) - 1 /\ DOMAIN Tail(wIn) = 1 .. Len(wIn) - 1
      /\ DOMAIN wIn = 1 .. Len(wIn) /\ Head(wIn) = wIn[1]
      /\ \A i \in 1 .. Len(wIn) - 1 : Tail(wIn)[i] = wIn[i + 1]
  BY <1>1, <1>3, TailFacts
<1>5. wLock = "none" /\ (\A t \in AllTasks : wCall[t].at = "idle" /\ ~InCall(t)) /\ wSrv \in {"login", "idle"}
  BY <1>2 DEF WireInv, LoginInv, InCall, Waits
<1>6. wKind # "redis" => \A i \in DOMAIN wIn : wIn[i].m \in {"Z", "ok"} => i = Len(wIn)
  BY <1>2 DEF WireInv, LoginInv
<1>7. wIn' \in Seq(WireFrames)
  <2>1. Tail(wIn) \in Seq(WireFrames) /\ <<>> \in Seq(WireFrames)
    BY <1>1, <1>3
  <2> QED
    BY <1>1, <2>1
<1>8. up = "up" => wIn' = <<>>
  <2> SUFFICES ASSUME up = "up", wKind # "redis" PROVE wIn' = <<>>
    BY <1>1
  <2>1. Len(wIn) = 1
    BY <1>1, <1>4, <1>6
  <2> QED
    BY <1>1, <1>3, <2>1
<1>9. WireTypes'
  BY <1>2, <1>5, <1>7 DEF WireInv, WireTypes, AllTasks
<1>10. GuestEnds' /\ CallsInv'
  BY <1>2 DEF WireInv, GuestEnds, CallsInv
<1>11. LoginInv'
  <2>1. wKind # "redis" => \A i \in DOMAIN wIn' : wIn'[i].m \in {"Z", "ok"} => i = Len(wIn')
    BY <1>1, <1>4, <1>6
  <2>2. up \in {"auth", "failed"} => wSrv' \in {"login", "idle"}
    BY <1>2, <1>5
  <2> QED
    BY <1>1, <1>2, <1>5, <2>1, <2>2 DEF LoginInv
<1>12. LockInv'
  BY <1>2, <1>5 DEF LockInv, InCall
<1>13. InStep'
  BY <1>2, <1>5, <1>8 DEF InStep, InCall
<1>14. SessionInv'
  BY <1>2, <1>5 DEF SessionInv
<1> QED
  BY <1>2, <1>9, <1>10, <1>11, <1>12, <1>13, <1>14 DEF WireInv

\* The socket is closed, and fails what is tried on it.
LEMMA ConnectionLostStep ==
    ASSUME WireInv, ConnectionLost
    PROVE  WireInv'
<1>1. /\ wUp = "up" /\ wUp' = "broken" /\ wIn' = <<>> /\ wSrv' = "idle"
      /\ UNCHANGED <<wKind, wLock, wCall, wCount, wOpen, wHandle, wTorn, wBad>>
  BY DEF ConnectionLost
<1>2. <<>> \in Seq(WireFrames)
  OBVIOUS
<1>3. WireTypes'
  BY <1>1, <1>2 DEF WireInv, WireTypes, AllTasks
<1>4. GuestEnds' /\ CallsInv'
  BY <1>1 DEF WireInv, GuestEnds, CallsInv
<1> QED
  BY <1>1, <1>3, <1>4 DEF WireInv, LoginInv, LockInv, InStep, SessionInv

LEMMA CallFailsStep ==
    ASSUME WireInv, NEW t \in Users, CallFails(t)
    PROVE  WireInv'
<1>1. /\ wUp = "broken" /\ wCall' = [wCall EXCEPT ![t] = NoCall] /\ wLock' = (IF wLock = t THEN "none" ELSE wLock)
      /\ wOpen' = wOpen /\ wHandle' = wHandle /\ wBad' = wBad
      /\ UNCHANGED <<wKind, wUp, wIn, wSrv, wCount, wTorn>>
  BY DEF CallFails, Returns, WireInv, WireTypes
<1>2. t \in AllTasks /\ wCall \in [AllTasks -> WireCalls]
  BY CallerFacts DEF WireInv, WireTypes
<1>3. NoCall \in WireCalls /\ NoCall.at = "idle" /\ NoCall.op = "none" /\ NoCall.got = {}
  BY DEF NoCall, WireCalls
<1>4. wCall'[t] = NoCall /\ \A u \in AllTasks \ {t} : wCall'[u] = wCall[u]
  BY <1>1, <1>2
<1>5. WireTypes'
  <2>1. wCall' \in [AllTasks -> WireCalls]
    BY <1>1, <1>2, <1>3
  <2>2. wLock' \in AllTasks \cup {"none"}
    BY <1>1 DEF WireInv, WireTypes
  <2> QED
    BY <1>1, <2>1, <2>2 DEF WireInv, WireTypes, AllTasks
<1>6. GuestEnds'
  BY <1>3, <1>4 DEF WireInv, GuestEnds
<1>7. CallsInv'
  BY <1>3, <1>4 DEF WireInv, CallsInv, Prepares
<1>8. LoginInv'
  BY <1>1 DEF WireInv, LoginInv
<1> QED
  BY <1>1, <1>5, <1>6, <1>7, <1>8 DEF WireInv, LockInv, InStep, SessionInv

\* The transaction resource is not what the host keeps the transaction by.
LEMMA DropHandleStep ==
    ASSUME WireInv, DropHandle
    PROVE  WireInv'
<1>1. wHandle' = FALSE /\ UNCHANGED <<wKind, wUp, wIn, wSrv, wLock, wCall, wCount, wOpen, wTorn, wBad>>
  BY DEF DropHandle
<1>2. WireTypes'
  BY <1>1 DEF WireInv, WireTypes, AllTasks
<1>3. GuestEnds' /\ CallsInv' /\ LoginInv'
  BY <1>1 DEF WireInv, GuestEnds, CallsInv, LoginInv
<1>4. LockInv' /\ InStep' /\ SessionInv'
  BY <1>1 DEF WireInv, LockInv, InStep, SessionInv, InCall, Users
<1> QED
  BY <1>1, <1>2, <1>3, <1>4 DEF WireInv

LEMMA WireInvStep == WireInv /\ [WNext]_wVars => WireInv'
<1> SUFFICES ASSUME WireInv, [WNext]_wVars PROVE WireInv'
  OBVIOUS
<1>1. "guest" \in Users
  BY TasksFacts DEF WireInv, WireTypes
<1>2. CASE WireConnect
  BY <1>2, WireConnectStep
<1>3. ASSUME NEW t \in Users, GuestCall(t) PROVE WireInv'
  <2>1. PICK op \in {"query", "execute", "ping"}, params \in BOOLEAN : CallStarts(t, op, params)
    BY <1>3 DEF GuestCall
  <2>2. op \in Ops /\ op \notin {"begin", "commit", "rollback"} /\ UNCHANGED <<wOpen, wHandle>>
    BY <1>3 DEF GuestCall, Ops
  <2> QED
    BY <2>1, <2>2, StartStep
<1>4. ASSUME NEW t \in Users, PgSend(t) \/ MysqlSend(t) \/ RedisSend(t) PROVE WireInv'
  BY <1>4, PgSendStep, MysqlSendStep, RedisSendStep
<1>5. ASSUME NEW t \in Users, Reads(t) PROVE WireInv'
  BY <1>5, PgReadStep, ComQueryStep, PrepareReadStep, SkipDefinitionStep, StmtExecuteStep, BinaryFirstStep,
     BinaryColumnsStep, BinaryRowStep, RedisReadStep DEF Reads
<1>6. ASSUME NEW t \in Users, CallFails(t) PROVE WireInv'
  BY <1>6, CallFailsStep
<1>7. CASE BeginTransaction
  <2>1. CallStarts("guest", "begin", FALSE) /\ UNCHANGED <<wOpen, wHandle>> /\ "begin" \in Ops
    BY <1>7 DEF BeginTransaction, Ops
  <2> QED
    BY <1>1, <2>1, StartStep
<1>8. CASE EndTransaction
  <2>1. PICK op \in {"commit", "rollback"} : CallStarts("guest", op, FALSE)
    BY <1>8 DEF EndTransaction
  <2>2. op \in Ops /\ wOpen' = FALSE /\ wHandle' = FALSE
    BY <1>8 DEF EndTransaction, Ops
  <2> QED
    BY <1>1, <2>1, <2>2, StartStep
<1>9. CASE DropHandle
  BY <1>9, DropHandleStep
<1>10. CASE ConnectionLost
  BY <1>10, ConnectionLostStep
<1>11. CASE UNCHANGED wVars
  <2>1. WireTypes'
    BY <1>11 DEF WireInv, WireTypes, AllTasks, wVars
  <2>2. GuestEnds' /\ CallsInv' /\ LoginInv'
    BY <1>11 DEF WireInv, GuestEnds, CallsInv, LoginInv, wVars
  <2>3. LockInv' /\ InStep' /\ SessionInv'
    BY <1>11 DEF WireInv, LockInv, InStep, SessionInv, InCall, Users, wVars
  <2> QED
    BY <1>11, <2>1, <2>2, <2>3 DEF WireInv, wVars
<1> QED
  BY <1>2, <1>3, <1>4, <1>5, <1>6, <1>7, <1>8, <1>9, <1>10, <1>11 DEF WNext

\* A call returns with the answer to its own command, no transaction is left
\* open on a server whose host cannot end it, and whoever waits for a reply
\* gets one, in every execution: until a call returns before its last reply,
\* and but for the text result of MySQL (tether/proxy/src/drivers).
THEOREM WireAlwaysSound == WSpec => []WireSound
<1>1. WInit => WireInv
  BY WireInitInv
<1>2. WireInv /\ [WNext]_wVars => WireInv'
  BY WireInvStep
<1>3. WireInv => WireSound
  BY WireInvSound
<1> QED
  BY <1>1, <1>2, <1>3, PTL DEF WSpec

-----------------------------------------------------------------------------
(* Redis subscriptions: what a connection still has unread is exactly what *)
(* was published and not delivered, in order (Missing), what is delivered  *)
(* begins what was published (Begins), and while confirmations are read    *)
(* they are the first frames.                                              *)

ConnStages == {"none", "auth", "confirm", "open", "lost", "closed"}
Conns ==
    [at : ConnStages, chans : SUBSET SubChannels, in : Seq(Nat), confs : Nat,
     inbox : Seq(Nat), polled : Seq(Nat), sent : Seq(Nat)]

SubTypes ==
    /\ sSlots \in Seq(Nat) /\ sHandles \subseteq [rep : Nat, sub : Ids]
    /\ sConn \in [Ids -> Conns] /\ sPublished \in Nat

Rises(sent, pub) ==
    /\ \A i \in 1 .. Len(sent) : sent[i] > 0 /\ sent[i] <= pub
    /\ \A i, j \in 1 .. Len(sent) : i < j => sent[i] < sent[j]

Begins(s, t) == Len(s) <= Len(t) /\ \A i \in 1 .. Len(s) : s[i] = t[i]

\* What is in the queue is what is missing, in order.
Missing(in, got, sent) ==
    /\ \A i \in 1 .. Len(in) : in[i] # Conf => \E j \in Len(got) + 1 .. Len(sent) : in[i] = sent[j]
    /\ \A j \in Len(got) + 1 .. Len(sent) : \E i \in 1 .. Len(in) : in[i] = sent[j]
    /\ \A i, j \in 1 .. Len(in) : i < j /\ in[i] # Conf /\ in[j] # Conf => in[i] < in[j]

ConnInv(c, pub) ==
    /\ Rises(c.sent, pub)
    /\ c.at \in {"none", "auth"} => c.in = <<>> /\ c.inbox = <<>> /\ c.polled = <<>> /\ c.sent = <<>>
    /\ c.at = "confirm" => /\ c.inbox = <<>> /\ c.polled = <<>>
                           /\ c.confs <= Len(c.in) /\ \A i \in 1 .. c.confs : c.in[i] = Conf
    /\ c.at \in {"confirm", "open"} => Missing(c.in, c.polled \o c.inbox, c.sent)
    /\ c.at \in {"confirm", "open", "lost"} => Begins(c.polled \o c.inbox, c.sent)
    /\ c.at = "closed" => c.inbox = <<>> /\ Begins(c.polled, c.sent)

SubInv == SubTypes /\ HandlesMatch /\ \A k \in Ids : ConnInv(sConn[k], sPublished)
-----------------------------------------------------------------------------
LEMMA ConnFields ==
    ASSUME NEW c \in Conns
    PROVE  /\ c.at \in ConnStages /\ c.chans \in SUBSET SubChannels /\ c.confs \in Nat
           /\ c.in \in Seq(Nat) /\ c.inbox \in Seq(Nat) /\ c.polled \in Seq(Nat) /\ c.sent \in Seq(Nat)
  BY DEF Conns

LEMMA PartFits ==
    ASSUME NEW a \in Nat, NEW b \in Nat
    PROVE  /\ \A n \in Nat : a + b <= n => a <= n
           /\ \A i \in 1 .. a : i \in 1 .. a + b /\ i <= a
           /\ \A i \in a + 1 .. b : i \in 1 .. b
  OBVIOUS
LEMMA UpToNext ==
    ASSUME NEW n \in Nat, NEW m, m = n + 1
    PROVE  \A i \in 1 .. m : i = n + 1 \/ i \in 1 .. n
  OBVIOUS

\* A sequence and one element more.
LEMMA AppendParts ==
    ASSUME NEW s \in Seq(Nat), NEW x \in Nat
    PROVE  /\ Append(s, x) \in Seq(Nat) /\ Len(Append(s, x)) = Len(s) + 1 /\ Len(s) \in Nat
           /\ Append(s, x)[Len(s) + 1] = x /\ \A i \in 1 .. Len(s) : Append(s, x)[i] = s[i]
  OBVIOUS
LEMMA TailParts ==
    ASSUME NEW s \in Seq(Nat), s # <<>>
    PROVE  /\ Tail(s) \in Seq(Nat) /\ Len(Tail(s)) = Len(s) - 1 /\ Len(s) \in Nat \ {0}
           /\ Head(s) = s[1] /\ Head(s) \in Nat /\ \A i \in 1 .. Len(s) - 1 : Tail(s)[i] = s[i + 1]
<1>1. Len(s) \in Nat \ {0} /\ Tail(s) \in Seq(Nat) /\ Len(Tail(s)) = Len(s) - 1
  OBVIOUS
<1>2. Head(s) = s[1] /\ Head(s) \in Nat
  OBVIOUS
<1>3. \A i \in 1 .. Len(s) - 1 : Tail(s)[i] = s[i + 1]
  OBVIOUS
<1> QED
  BY <1>1, <1>2, <1>3

\* A message is published: it is on its way.
LEMMA PublishedTo ==
    ASSUME NEW in \in Seq(Nat), NEW got \in Seq(Nat), NEW sent \in Seq(Nat), NEW pub \in Nat,
           Rises(sent, pub), Missing(in, got, sent), Begins(got, sent)
    PROVE  /\ Rises(Append(sent, pub + 1), pub + 1) /\ Begins(got, Append(sent, pub + 1))
           /\ Missing(Append(in, pub + 1), got, Append(sent, pub + 1))
<1> DEFINE in2 == Append(in, pub + 1)
           sent2 == Append(sent, pub + 1)
<1>1. /\ Len(in2) = Len(in) + 1 /\ Len(in) \in Nat /\ in2[Len(in) + 1] = pub + 1
      /\ \A i \in 1 .. Len(in) : in2[i] = in[i]
  BY AppendParts
<1>2. /\ Len(sent2) = Len(sent) + 1 /\ Len(sent) \in Nat /\ sent2[Len(sent) + 1] = pub + 1
      /\ \A i \in 1 .. Len(sent) : sent2[i] = sent[i]
  BY AppendParts
<1>3. Len(got) \in Nat /\ pub + 1 \in Nat /\ pub + 1 # Conf /\ \A i \in 1 .. Len(in) : in[i] \in Nat
  BY DEF Conf
<1> HIDE DEF in2, sent2
<1>4. \A i \in 1 .. Len(sent) : sent[i] \in Nat /\ sent[i] <= pub
  BY DEF Rises
<1>5. Rises(sent2, pub + 1)
  <2>0. \A i \in 1 .. Len(sent2) : i = Len(sent) + 1 \/ i \in 1 .. Len(sent)
    BY <1>2
  <2>1. ASSUME NEW i \in 1 .. Len(sent2) PROVE sent2[i] > 0 /\ sent2[i] <= pub + 1
    <3>1. CASE i = Len(sent) + 1
      BY <1>2, <3>1
    <3>2. CASE i \in 1 .. Len(sent)
      <4>1. sent2[i] = sent[i] /\ sent[i] \in Nat /\ sent[i] > 0 /\ sent[i] <= pub
        BY <1>2, <1>4, <3>2 DEF Rises
      <4> QED
        BY <4>1
    <3> QED
      BY <2>0, <3>1, <3>2
  <2>2. ASSUME NEW i \in 1 .. Len(sent2), NEW j \in 1 .. Len(sent2), i < j PROVE sent2[i] < sent2[j]
    <3>1. i \in 1 .. Len(sent)
      BY <1>2, <2>2
    <3>2. sent2[i] = sent[i] /\ sent[i] \in Nat /\ sent[i] <= pub
      BY <1>2, <1>4, <3>1
    <3>3. CASE j = Len(sent) + 1
      BY <1>2, <3>2, <3>3
    <3>4. CASE j \in 1 .. Len(sent)
      <4>1. sent2[j] = sent[j] /\ sent[i] < sent[j]
        BY <1>2, <2>2, <3>1, <3>4 DEF Rises
      <4> QED
        BY <3>2, <4>1
    <3> QED
      BY <2>0, <3>3, <3>4
  <2> QED
    BY <2>1, <2>2 DEF Rises
<1>6. Begins(got, sent2)
  BY <1>2, <1>3 DEF Begins
<1>7. Missing(in2, got, sent2)
  <2>1. ASSUME NEW i \in 1 .. Len(in2), in2[i] # Conf PROVE \E j \in Len(got) + 1 .. Len(sent2) : in2[i] = sent2[j]
    <3>1. CASE i = Len(in) + 1
      <4>1. Len(sent) + 1 \in Len(got) + 1 .. Len(sent2) /\ in2[i] = sent2[Len(sent) + 1]
        BY <1>1, <1>2, <1>3, <3>1 DEF Begins
      <4> QED
        BY <4>1
    <3>2. CASE i \in 1 .. Len(in)
      <4>1. in2[i] = in[i]
        BY <1>1, <3>2
      <4>2. PICK j \in Len(got) + 1 .. Len(sent) : in[i] = sent[j]
        BY <2>1, <3>2, <4>1 DEF Missing
      <4>3. j \in Len(got) + 1 .. Len(sent2) /\ sent2[j] = sent[j]
        BY <1>2, <1>3, <4>2
      <4> QED
        BY <4>1, <4>2, <4>3
    <3> QED
      BY <1>1, <3>1, <3>2
  <2>2. ASSUME NEW j \in Len(got) + 1 .. Len(sent2) PROVE \E i \in 1 .. Len(in2) : in2[i] = sent2[j]
    <3>1. CASE j = Len(sent) + 1
      <4>1. Len(in) + 1 \in 1 .. Len(in2) /\ in2[Len(in) + 1] = sent2[j]
        BY <1>1, <1>2, <3>1
      <4> QED
        BY <4>1
    <3>2. CASE j \in Len(got) + 1 .. Len(sent)
      <4>1. PICK i \in 1 .. Len(in) : in[i] = sent[j]
        BY <3>2 DEF Missing
      <4>2. i \in 1 .. Len(in2) /\ in2[i] = in[i] /\ sent2[j] = sent[j]
        BY <1>1, <1>2, <1>3, <3>2, <4>1
      <4> QED
        BY <4>1, <4>2
    <3>3. j = Len(sent) + 1 \/ j \in Len(got) + 1 .. Len(sent)
      BY <1>2, <1>3
    <3> QED
      BY <3>1, <3>2, <3>3
  <2>3. ASSUME NEW i \in 1 .. Len(in2), NEW j \in 1 .. Len(in2), i < j, in2[i] # Conf, in2[j] # Conf
        PROVE  in2[i] < in2[j]
    <3>1. i \in 1 .. Len(in) /\ in2[i] = in[i]
      BY <1>1, <2>3
    <3>2. CASE j \in 1 .. Len(in)
      BY <1>1, <2>3, <3>1, <3>2 DEF Missing
    <3>3. CASE j = Len(in) + 1
      <4>1. PICK k \in Len(got) + 1 .. Len(sent) : in[i] = sent[k]
        BY <2>3, <3>1 DEF Missing
      <4>2. in[i] <= pub /\ in[i] \in Nat
        BY <1>2, <1>3, <1>4, <4>1
      <4> QED
        BY <1>1, <3>1, <3>3, <4>2
    <3> QED
      BY <1>1, <3>2, <3>3
  <2> QED
    BY <2>1, <2>2, <2>3 DEF Missing
<1> QED
  BY <1>5, <1>6, <1>7 DEF in2, sent2

\* A confirmation is put at the end of the queue, or taken from its head.
LEMMA ConfirmedTo ==
    ASSUME NEW in \in Seq(Nat), NEW got \in Seq(Nat), NEW sent \in Seq(Nat), Missing(in, got, sent)
    PROVE  Missing(Append(in, Conf), got, sent)
<1> DEFINE in2 == Append(in, Conf)
<1>1. /\ Len(in2) = Len(in) + 1 /\ Len(in) \in Nat /\ in2[Len(in) + 1] = Conf
      /\ \A i \in 1 .. Len(in) : in2[i] = in[i]
  BY AppendParts DEF Conf
<1> HIDE DEF in2
<1>2. \A i \in 1 .. Len(in2) : in2[i] # Conf => i \in 1 .. Len(in)
  BY <1>1
<1>3. \A i \in 1 .. Len(in) : i \in 1 .. Len(in2)
  BY <1>1
<1>4. Missing(in2, got, sent)
  <2>1. \A i \in 1 .. Len(in2) : in2[i] # Conf => \E j \in Len(got) + 1 .. Len(sent) : in2[i] = sent[j]
    BY <1>1, <1>2 DEF Missing
  <2>2. \A j \in Len(got) + 1 .. Len(sent) : \E i \in 1 .. Len(in2) : in2[i] = sent[j]
    <3> SUFFICES ASSUME NEW j \in Len(got) + 1 .. Len(sent) PROVE \E i \in 1 .. Len(in2) : in2[i] = sent[j]
      OBVIOUS
    <3>1. PICK i \in 1 .. Len(in) : in[i] = sent[j]
      BY DEF Missing
    <3> QED
      BY <1>1, <1>3, <3>1
  <2>3. \A i, j \in 1 .. Len(in2) : i < j /\ in2[i] # Conf /\ in2[j] # Conf => in2[i] < in2[j]
    BY <1>1, <1>2 DEF Missing
  <2> QED
    BY <2>1, <2>2, <2>3 DEF Missing
<1> QED
  BY <1>4 DEF in2

LEMMA ConfirmationRead ==
    ASSUME NEW in \in Seq(Nat), NEW got \in Seq(Nat), NEW sent \in Seq(Nat), NEW pub, Missing(in, got, sent),
           Rises(sent, pub), in # <<>>, Head(in) = Conf
    PROVE  Missing(Tail(in), got, sent)
<1> DEFINE in2 == Tail(in)
<1>1. /\ Len(in2) = Len(in) - 1 /\ Len(in) \in Nat \ {0} /\ in[1] = Conf
      /\ \A i \in 1 .. Len(in) - 1 : in2[i] = in[i + 1]
  BY TailParts
<1> HIDE DEF in2
<1>2. \A i \in 1 .. Len(in2) : i + 1 \in 1 .. Len(in) /\ in2[i] = in[i + 1]
  BY <1>1
<1>3. Missing(in2, got, sent)
  <2>1. ASSUME NEW i \in 1 .. Len(in2), in2[i] # Conf PROVE \E j \in Len(got) + 1 .. Len(sent) : in2[i] = sent[j]
    <3>1. i + 1 \in 1 .. Len(in) /\ in2[i] = in[i + 1]
      BY <1>2
    <3> QED
      BY <2>1, <3>1 DEF Missing
  <2>2. \A j \in Len(got) + 1 .. Len(sent) : \E i \in 1 .. Len(in2) : in2[i] = sent[j]
    <3> SUFFICES ASSUME NEW j \in Len(got) + 1 .. Len(sent) PROVE \E i \in 1 .. Len(in2) : in2[i] = sent[j]
      OBVIOUS
    <3>1. PICK i \in 1 .. Len(in) : in[i] = sent[j]
      BY DEF Missing
    <3>2. sent[j] # Conf
      <4>1. j \in 1 .. Len(sent)
        OBVIOUS
      <4> QED
        BY <4>1 DEF Rises, Conf
    <3>3. i # 1
      BY <1>1, <3>1, <3>2
    <3>4. i - 1 \in 1 .. Len(in2) /\ in2[i - 1] = in[i]
      BY <1>1, <3>3
    <3> QED
      BY <3>1, <3>4
  <2>3. \A i, j \in 1 .. Len(in2) : i < j /\ in2[i] # Conf /\ in2[j] # Conf => in2[i] < in2[j]
    <3> SUFFICES ASSUME NEW i \in 1 .. Len(in2), NEW j \in 1 .. Len(in2), i < j, in2[i] # Conf, in2[j] # Conf
                 PROVE  in2[i] < in2[j]
      OBVIOUS
    <3>1. i + 1 < j + 1 /\ i + 1 \in 1 .. Len(in) /\ j + 1 \in 1 .. Len(in) /\ in2[i] = in[i + 1] /\ in2[j] = in[j + 1]
      BY <1>2
    <3> QED
      BY <3>1 DEF Missing
  <2> QED
    BY <2>1, <2>2, <2>3 DEF Missing
<1> QED
  BY <1>3 DEF in2

\* A message is read: it is the next one.
LEMMA MessageRead ==
    ASSUME NEW in \in Seq(Nat), NEW got \in Seq(Nat), NEW sent \in Seq(Nat), NEW pub, Missing(in, got, sent),
           Rises(sent, pub), Begins(got, sent), in # <<>>, Head(in) # Conf
    PROVE  Missing(Tail(in), Append(got, Head(in)), sent) /\ Begins(Append(got, Head(in)), sent)
<1> DEFINE in2 == Tail(in)
           got2 == Append(got, Head(in))
<1>1. /\ Len(in2) = Len(in) - 1 /\ Len(in) \in Nat \ {0} /\ Head(in) = in[1] /\ Head(in) \in Nat
      /\ \A i \in 1 .. Len(in) - 1 : in2[i] = in[i + 1]
  BY TailParts
<1>2. /\ Len(got2) = Len(got) + 1 /\ Len(got) \in Nat /\ got2[Len(got) + 1] = in[1]
      /\ \A i \in 1 .. Len(got) : got2[i] = got[i]
  BY <1>1, AppendParts
<1> HIDE DEF in2, got2
<1>3. \A i \in 1 .. Len(in2) : i + 1 \in 1 .. Len(in) /\ in2[i] = in[i + 1]
  BY <1>1
<1>4. Len(sent) \in Nat /\ (\A i \in 1 .. Len(sent) : sent[i] \in Nat) /\ \A i \in 1 .. Len(in) : in[i] \in Nat
  OBVIOUS
<1>5. PICK m \in Len(got) + 1 .. Len(sent) : in[1] = sent[m]
  BY <1>1 DEF Missing
<1>6. Len(got) + 1 \in Len(got) + 1 .. Len(sent) /\ Len(got) + 1 \in 1 .. Len(sent) /\ m \in 1 .. Len(sent)
  BY <1>2, <1>4, <1>5
<1>7. in[1] = sent[Len(got) + 1]
  <2>1. PICK i \in 1 .. Len(in) : in[i] = sent[Len(got) + 1]
    BY <1>6 DEF Missing
  <2>2. in[i] # Conf
    BY <1>6, <2>1 DEF Rises, Conf
  <2>3. i # 1 => in[1] < in[i]
    <3>1. i # 1 => 1 < i /\ 1 \in 1 .. Len(in)
      BY <1>1
    <3>2. in[1] # Conf
      BY <1>1
    <3> QED
      BY <2>2, <3>1, <3>2 DEF Missing
  <2>4. m # Len(got) + 1 => sent[Len(got) + 1] < sent[m]
    <3>1. m # Len(got) + 1 => Len(got) + 1 < m
      BY <1>2, <1>4, <1>5
    <3> QED
      BY <1>6, <3>1 DEF Rises
  <2>5. in[1] \in Nat /\ in[i] \in Nat /\ sent[m] \in Nat /\ sent[Len(got) + 1] \in Nat
    BY <1>1, <1>4, <1>6, <2>1
  <2> QED
    BY <1>5, <2>1, <2>3, <2>4, <2>5
<1>8. Begins(got2, sent)
  <2>1. Len(got2) <= Len(sent)
    BY <1>2, <1>4, <1>6
  <2>2. \A i \in 1 .. Len(got2) : i = Len(got) + 1 \/ i \in 1 .. Len(got)
    <3>1. Len(got2) = Len(got) + 1 /\ Len(got) \in Nat
      BY <1>2
    <3> QED
      BY <3>1, UpToNext
  <2>3. \A i \in 1 .. Len(got) : got2[i] = sent[i]
    BY <1>2 DEF Begins
  <2>4. got2[Len(got) + 1] = sent[Len(got) + 1]
    BY <1>2, <1>7
  <2> QED
    BY <2>1, <2>2, <2>3, <2>4 DEF Begins
<1>9. Missing(in2, got2, sent)
  <2>1. ASSUME NEW i \in 1 .. Len(in2), in2[i] # Conf PROVE \E j \in Len(got2) + 1 .. Len(sent) : in2[i] = sent[j]
    <3>1. i + 1 \in 1 .. Len(in) /\ in2[i] = in[i + 1] /\ 1 < i + 1 /\ 1 \in 1 .. Len(in)
      BY <1>3
    <3>2. in[1] < in[i + 1]
      BY <1>1, <2>1, <3>1 DEF Missing
    <3>3. PICK j \in Len(got) + 1 .. Len(sent) : in[i + 1] = sent[j]
      BY <2>1, <3>1 DEF Missing
    <3>4. j # Len(got) + 1
      BY <1>1, <1>4, <1>7, <3>1, <3>2, <3>3
    <3>5. j \in Len(got2) + 1 .. Len(sent)
      BY <1>2, <1>4, <3>3, <3>4
    <3> QED
      BY <3>1, <3>3, <3>5
  <2>2. ASSUME NEW j \in Len(got2) + 1 .. Len(sent) PROVE \E i \in 1 .. Len(in2) : in2[i] = sent[j]
    <3>1. j \in Len(got) + 1 .. Len(sent) /\ j \in 1 .. Len(sent) /\ Len(got) + 1 < j
      BY <1>2, <1>4
    <3>2. PICK i \in 1 .. Len(in) : in[i] = sent[j]
      BY <3>1 DEF Missing
    <3>3. sent[Len(got) + 1] < sent[j]
      BY <1>6, <3>1 DEF Rises
    <3>4. i # 1
      BY <1>4, <1>6, <1>7, <3>1, <3>2, <3>3
    <3>5. i - 1 \in 1 .. Len(in2) /\ in2[i - 1] = in[i]
      <4>1. i - 1 \in 1 .. Len(in) - 1 /\ (i - 1) + 1 = i
        BY <1>1, <3>4
      <4> QED
        BY <1>1, <4>1
    <3> QED
      BY <3>2, <3>5
  <2>3. ASSUME NEW i \in 1 .. Len(in2), NEW j \in 1 .. Len(in2), i < j, in2[i] # Conf, in2[j] # Conf
        PROVE  in2[i] < in2[j]
    <3>1. i + 1 < j + 1 /\ i + 1 \in 1 .. Len(in) /\ j + 1 \in 1 .. Len(in) /\ in2[i] = in[i + 1] /\ in2[j] = in[j + 1]
      BY <1>3, <2>3
    <3> QED
      BY <2>3, <3>1 DEF Missing
  <2> QED
    BY <2>1, <2>2, <2>3 DEF Missing
<1> QED
  BY <1>8, <1>9 DEF in2, got2

\* Polling and reading move the line between what is polled and the inbox.
LEMMA JoinParts ==
    ASSUME NEW s \in Seq(Nat), NEW t \in Seq(Nat)
    PROVE  /\ s \o t \in Seq(Nat) /\ Len(s \o t) = Len(s) + Len(t) /\ Len(s) \in Nat /\ Len(t) \in Nat
           /\ \A i \in 1 .. Len(s) + Len(t) : (s \o t)[i] = IF i <= Len(s) THEN s[i] ELSE t[i - Len(s)]
  OBVIOUS
LEMMA SameElements ==
    ASSUME NEW s \in Seq(Nat), NEW t \in Seq(Nat), Len(s) = Len(t), \A i \in 1 .. Len(s) : s[i] = t[i]
    PROVE  s = t
  OBVIOUS
LEMMA InboxGrows ==
    ASSUME NEW s \in Seq(Nat), NEW t \in Seq(Nat), NEW x \in Nat
    PROVE  s \o Append(t, x) = Append(s \o t, x)
<1> DEFINE u == Append(t, x)
           v == s \o t
           a == s \o u
           b == Append(v, x)
<1>1. u \in Seq(Nat) /\ Len(u) = Len(t) + 1 /\ u[Len(t) + 1] = x /\ \A i \in 1 .. Len(t) : u[i] = t[i]
  BY AppendParts
<1>2. /\ v \in Seq(Nat) /\ Len(v) = Len(s) + Len(t) /\ Len(s) \in Nat /\ Len(t) \in Nat
      /\ \A i \in 1 .. Len(s) + Len(t) : v[i] = IF i <= Len(s) THEN s[i] ELSE t[i - Len(s)]
  BY JoinParts
<1> HIDE DEF u, v
<1>3. /\ a \in Seq(Nat) /\ Len(a) = Len(s) + Len(u)
      /\ \A i \in 1 .. Len(s) + Len(u) : a[i] = IF i <= Len(s) THEN s[i] ELSE u[i - Len(s)]
  BY <1>1, JoinParts
<1>4. b \in Seq(Nat) /\ Len(b) = Len(v) + 1 /\ b[Len(v) + 1] = x /\ \A i \in 1 .. Len(v) : b[i] = v[i]
  BY <1>2, AppendParts
<1> HIDE DEF a, b
<1>5. ASSUME NEW i \in 1 .. Len(a) PROVE a[i] = b[i]
  <2>1. CASE i <= Len(s)
    <3>1. i \in 1 .. Len(v) /\ i \in 1 .. Len(s) + Len(u) /\ i \in 1 .. Len(s) + Len(t)
      BY <1>1, <1>2, <1>3, <2>1
    <3>2. a[i] = s[i] /\ b[i] = v[i] /\ v[i] = s[i]
      BY <1>2, <1>3, <1>4, <2>1, <3>1
    <3> QED
      BY <3>2
  <2>2. CASE Len(s) < i /\ i <= Len(s) + Len(t)
    <3>1. i \in 1 .. Len(v) /\ i \in 1 .. Len(s) + Len(u) /\ i \in 1 .. Len(s) + Len(t) /\ i - Len(s) \in 1 .. Len(t) /\ ~(i <= Len(s))
      BY <1>1, <1>2, <1>3, <2>2
    <3>2. a[i] = u[i - Len(s)]
      BY <1>3, <3>1
    <3>3. b[i] = v[i]
      BY <1>4, <3>1
    <3>4. v[i] = t[i - Len(s)]
      BY <1>2, <3>1
    <3>5. u[i - Len(s)] = t[i - Len(s)]
      BY <1>1, <3>1
    <3> QED
      BY <3>2, <3>3, <3>4, <3>5
  <2>3. CASE i = Len(s) + Len(t) + 1
    <3>1. i \in 1 .. Len(s) + Len(u) /\ i - Len(s) = Len(t) + 1 /\ ~(i <= Len(s)) /\ i = Len(v) + 1
      BY <1>1, <1>2, <1>3, <2>3
    <3> QED
      BY <1>1, <1>3, <1>4, <3>1
  <2>4. i \in Nat /\ i <= Len(s) + Len(t) + 1
    BY <1>1, <1>2, <1>3
  <2>5. i <= Len(s) \/ (Len(s) < i /\ i <= Len(s) + Len(t)) \/ i = Len(s) + Len(t) + 1
    <3>1. Len(s) \in Nat /\ Len(t) \in Nat
      BY <1>2
    <3> QED
      BY <2>4, <3>1
  <2> QED
    BY <2>1, <2>2, <2>3, <2>5
<1>6. Len(a) = Len(b)
  BY <1>1, <1>2, <1>3, <1>4
<1>7. a = b
  BY <1>3, <1>4, <1>5, <1>6, SameElements
<1> QED
  BY <1>7 DEF a, b, u, v
LEMMA PollMoves ==
    ASSUME NEW s \in Seq(Nat), NEW t \in Seq(Nat), t # <<>>
    PROVE  Append(s, Head(t)) \o Tail(t) = s \o t
<1> DEFINE u == Append(s, Head(t))
           w == Tail(t)
           a == u \o w
           b == s \o t
<1>1. /\ w \in Seq(Nat) /\ Len(w) = Len(t) - 1 /\ Len(t) \in Nat \ {0} /\ Head(t) = t[1] /\ Head(t) \in Nat
      /\ \A i \in 1 .. Len(t) - 1 : w[i] = t[i + 1]
  BY TailParts
<1>2. /\ u \in Seq(Nat) /\ Len(u) = Len(s) + 1 /\ u[Len(s) + 1] = t[1] /\ Len(s) \in Nat
      /\ \A i \in 1 .. Len(s) : u[i] = s[i]
  BY <1>1, AppendParts
<1> HIDE DEF u, w
<1>3. /\ a \in Seq(Nat) /\ Len(a) = Len(u) + Len(w)
      /\ \A i \in 1 .. Len(u) + Len(w) : a[i] = IF i <= Len(u) THEN u[i] ELSE w[i - Len(u)]
  BY <1>1, <1>2, JoinParts
<1>4. /\ b \in Seq(Nat) /\ Len(b) = Len(s) + Len(t)
      /\ \A i \in 1 .. Len(s) + Len(t) : b[i] = IF i <= Len(s) THEN s[i] ELSE t[i - Len(s)]
  BY JoinParts
<1> HIDE DEF a, b
<1>5. ASSUME NEW i \in 1 .. Len(a) PROVE a[i] = b[i]
  <2>0. i \in 1 .. Len(u) + Len(w) /\ i \in 1 .. Len(s) + Len(t)
    BY <1>1, <1>2, <1>3
  <2>1. CASE i <= Len(s)
    <3>1. i \in 1 .. Len(s) /\ i <= Len(u)
      BY <1>2, <2>0, <2>1
    <3> QED
      BY <1>2, <1>3, <1>4, <2>0, <2>1, <3>1
  <2>2. CASE i = Len(s) + 1
    <3>1. i <= Len(u) /\ ~(i <= Len(s)) /\ i - Len(s) = 1
      BY <1>2, <2>2
    <3> QED
      BY <1>2, <1>3, <1>4, <2>0, <2>2, <3>1
  <2>3. CASE Len(s) + 1 < i
    <3>1. ~(i <= Len(u)) /\ ~(i <= Len(s)) /\ i - Len(u) \in 1 .. Len(t) - 1 /\ (i - Len(u)) + 1 = i - Len(s)
      BY <1>1, <1>2, <2>0, <2>3
    <3>2. a[i] = w[i - Len(u)]
      BY <1>3, <2>0, <3>1
    <3>3. b[i] = t[i - Len(s)]
      BY <1>4, <2>0, <3>1
    <3> QED
      BY <1>1, <3>1, <3>2, <3>3
  <2> QED
    BY <1>2, <2>0, <2>1, <2>2, <2>3
<1>6. Len(a) = Len(b)
  BY <1>1, <1>2, <1>3, <1>4
<1>7. a = b
  BY <1>3, <1>4, <1>5, <1>6, SameElements
<1> QED
  BY <1>7 DEF a, b, u, w
-----------------------------------------------------------------------------
\* One field of a connection changes.
LEMMA AtChanges ==
    ASSUME NEW c \in Conns, NEW x \in ConnStages, NEW d, d = [c EXCEPT !.at = x]
    PROVE  /\ d \in Conns /\ d.at = x
           /\ d.chans = c.chans /\ d.in = c.in /\ d.confs = c.confs /\ d.inbox = c.inbox /\ d.polled = c.polled /\ d.sent = c.sent
  BY DEF Conns
LEMMA InChanges ==
    ASSUME NEW c \in Conns, NEW x \in Seq(Nat), NEW d, d = [c EXCEPT !.in = x]
    PROVE  /\ d \in Conns /\ d.in = x
           /\ d.at = c.at /\ d.chans = c.chans /\ d.confs = c.confs /\ d.inbox = c.inbox /\ d.polled = c.polled /\ d.sent = c.sent
  BY DEF Conns
LEMMA ConfsChange ==
    ASSUME NEW c \in Conns, NEW x \in Nat, NEW d, d = [c EXCEPT !.confs = x]
    PROVE  /\ d \in Conns /\ d.confs = x
           /\ d.at = c.at /\ d.chans = c.chans /\ d.in = c.in /\ d.inbox = c.inbox /\ d.polled = c.polled /\ d.sent = c.sent
  BY DEF Conns
LEMMA InboxChanges ==
    ASSUME NEW c \in Conns, NEW x \in Seq(Nat), NEW d, d = [c EXCEPT !.inbox = x]
    PROVE  /\ d \in Conns /\ d.inbox = x
           /\ d.at = c.at /\ d.chans = c.chans /\ d.in = c.in /\ d.confs = c.confs /\ d.polled = c.polled /\ d.sent = c.sent
  BY DEF Conns

\* A set of numbers has a least one.
LEMMA LeastNumber ==
    ASSUME NEW T, T \subseteq Nat, T # {}
    PROVE  \E m \in T : \A k \in T : m <= k
<1>1. PICK R : R = OpToRel(<, Nat)
  OBVIOUS
<1>2. IsWellFoundedOn(R, Nat)
  BY <1>1, NatLessThanWellFounded
<1>3. PICK x \in T : \A y \in T : ~(<<y, x>> \in R)
  BY <1>2, WFMin
<1>4. \A a, b \in Nat : <<a, b>> \in R <=> a < b
  BY <1>1 DEF OpToRel
<1>5. ASSUME NEW y \in T PROVE x <= y
  <2>1. ~(y < x) /\ x \in Nat /\ y \in Nat
    BY <1>3, <1>4
  <2> QED
    BY <2>1
<1> QED
  BY <1>5

\* One connection changes, with nothing published.
LEMMA OneConn ==
    ASSUME SubInv, NEW k \in Ids, NEW c \in Conns, ConnInv(c, sPublished), sConn' = [sConn EXCEPT ![k] = c],
           UNCHANGED sPublished
    PROVE  sConn' \in [Ids -> Conns] /\ sPublished' \in Nat /\ \A j \in Ids : ConnInv(sConn'[j], sPublished')
<1>1. sConn \in [Ids -> Conns] /\ sPublished \in Nat
  BY DEF SubInv, SubTypes
<1>2. \A j \in Ids : sConn'[j] = IF j = k THEN c ELSE sConn[j]
  BY <1>1
<1>3. sConn' \in [Ids -> Conns]
  BY <1>1
<1>4. ASSUME NEW j \in Ids PROVE ConnInv(sConn'[j], sPublished)
  BY <1>2 DEF SubInv
<1> QED
  BY <1>1, <1>3, <1>4

\* The slots and the handles stay, or the connections do.
LEMMA SameSlots ==
    ASSUME SubInv, UNCHANGED <<sSlots, sHandles>>, sConn' \in [Ids -> Conns], sPublished' \in Nat,
           \A j \in Ids : ConnInv(sConn'[j], sPublished')
    PROVE  SubInv'
<1>1. SubTypes'
  BY DEF SubInv, SubTypes
<1>2. HandlesMatch'
  BY DEF SubInv, HandlesMatch, SlotOf
<1> QED
  BY <1>1, <1>2 DEF SubInv

LEMMA NothingYet ==
    /\ <<>> \in Seq(Nat) /\ Len(<<>>) = 0 /\ <<>> \o <<>> = <<>>
    /\ \A pub : Rises(<<>>, pub)
    /\ \A s \in Seq(Nat) : Begins(<<>>, s) /\ s \o <<>> = s
    /\ Missing(<<>>, <<>>, <<>>)
<1>1. <<>> \in Seq(Nat) /\ Len(<<>>) = 0 /\ <<>> \o <<>> = <<>>
  OBVIOUS
<1>2. \A pub : Rises(<<>>, pub)
  BY <1>1 DEF Rises
<1>3. \A s \in Seq(Nat) : Begins(<<>>, s)
  BY <1>1 DEF Begins
<1>4. Missing(<<>>, <<>>, <<>>)
  BY <1>1 DEF Missing
<1>5. \A s \in Seq(Nat) : s \o <<>> = s
  OBVIOUS
<1> QED
  BY <1>1, <1>2, <1>3, <1>4, <1>5

LEMMA SubInitInv == SInit => SubInv
<1> SUFFICES ASSUME SInit PROVE SubInv
  OBVIOUS
<1>1. Unopened \in Conns
  BY NothingYet DEF Unopened, Conns, ConnStages
<1>2. ConnInv(Unopened, 0)
  BY NothingYet DEF ConnInv, Unopened
<1>3. SubTypes
  BY <1>1, NothingYet DEF SInit, SubTypes
<1>4. HandlesMatch
  BY NothingYet DEF SInit, HandlesMatch
<1> QED
  BY <1>2, <1>3, <1>4 DEF SInit, SubInv

LEMMA StartOpenStep == ASSUME SubInv, StartOpen PROVE SubInv'
<1>1. PICK k \in Ids : sConn[k].at = "none" /\ sConn' = [sConn EXCEPT ![k].at = "auth"]
  BY DEF StartOpen
<1>2. UNCHANGED <<sSlots, sHandles, sPublished>>
  BY DEF StartOpen
<1>3. sConn[k] \in Conns /\ ConnInv(sConn[k], sPublished)
  BY DEF SubInv, SubTypes
<1>4. PICK d : d = [sConn[k] EXCEPT !.at = "auth"]
  OBVIOUS
<1>5. sConn' = [sConn EXCEPT ![k] = d]
  BY <1>1, <1>4
<1>6. "auth" \in ConnStages
  BY DEF ConnStages
<1>7. /\ d \in Conns /\ d.at = "auth" /\ d.in = sConn[k].in /\ d.inbox = sConn[k].inbox
      /\ d.polled = sConn[k].polled /\ d.sent = sConn[k].sent
  BY <1>3, <1>4, <1>6, AtChanges
<1>8. ConnInv(d, sPublished)
  BY <1>1, <1>3, <1>7 DEF ConnInv
<1> QED
  BY <1>2, <1>5, <1>7, <1>8, OneConn, SameSlots

LEMMA AuthFailsStep == ASSUME SubInv, NEW k \in Ids, AuthFails(k) PROVE SubInv'
<1>1. sConn[k].at = "auth" /\ sConn' = [sConn EXCEPT ![k].at = "closed"] /\ UNCHANGED <<sSlots, sHandles, sPublished>>
  BY DEF AuthFails
<1>3. sConn[k] \in Conns /\ ConnInv(sConn[k], sPublished)
  BY DEF SubInv, SubTypes
<1>4. PICK d : d = [sConn[k] EXCEPT !.at = "closed"]
  OBVIOUS
<1>5. sConn' = [sConn EXCEPT ![k] = d]
  BY <1>1, <1>4
<1>6. "closed" \in ConnStages
  BY DEF ConnStages
<1>7. /\ d \in Conns /\ d.at = "closed" /\ d.in = sConn[k].in /\ d.inbox = sConn[k].inbox
      /\ d.polled = sConn[k].polled /\ d.sent = sConn[k].sent
  BY <1>3, <1>4, <1>6, AtChanges
<1>8. ConnInv(d, sPublished)
  BY <1>1, <1>3, <1>7, NothingYet DEF ConnInv
<1> QED
  BY <1>1, <1>5, <1>7, <1>8, OneConn, SameSlots

LEMMA SubscribeStep == ASSUME SubInv, NEW k \in Ids, Subscribe(k) PROVE SubInv'
<1>1. sConn[k].at = "auth" /\ UNCHANGED <<sSlots, sHandles, sPublished>>
  BY DEF Subscribe
<1>2. PICK channels \in UNION {[1 .. n -> SubChannels] : n \in 0 .. 2} :
         sConn' = [sConn EXCEPT ![k].at = "confirm", ![k].chans = Range(channels),
                                ![k].in = [i \in DOMAIN channels |-> Conf], ![k].confs = Len(channels)]
  BY DEF Subscribe
<1>3. PICK n \in 0 .. 2 : channels \in [1 .. n -> SubChannels]
  OBVIOUS
<1>4. PICK zeros : zeros = [i \in DOMAIN channels |-> Conf]
  OBVIOUS
<1>5. n \in Nat /\ channels \in Seq(SubChannels) /\ Len(channels) = n /\ DOMAIN channels = 1 .. n
  BY <1>3
<1>6. zeros \in Seq(Nat) /\ Len(zeros) = n /\ \A i \in 1 .. n : zeros[i] = Conf
  <2>1. zeros \in [1 .. n -> Nat]
    BY <1>4, <1>5 DEF Conf
  <2> QED
    BY <1>4, <1>5, <2>1
<1>7. Range(channels) \in SUBSET SubChannels
  BY <1>5 DEF Range
<1>8. sConn[k] \in Conns /\ ConnInv(sConn[k], sPublished) /\ "confirm" \in ConnStages
  BY DEF SubInv, SubTypes, ConnStages
<1>9. PICK a : a = [sConn[k] EXCEPT !.at = "confirm"]
  OBVIOUS
<1>10. PICK b : b = [a EXCEPT !.chans = Range(channels)]
  OBVIOUS
<1>11. PICK c : c = [b EXCEPT !.in = zeros]
  OBVIOUS
<1>12. PICK d : d = [c EXCEPT !.confs = n]
  OBVIOUS
<1>13. sConn' = [sConn EXCEPT ![k] = d]
  BY <1>2, <1>4, <1>5, <1>9, <1>10, <1>11, <1>12
<1>14. a \in Conns /\ a.at = "confirm" /\ a.inbox = sConn[k].inbox /\ a.polled = sConn[k].polled /\ a.sent = sConn[k].sent
  BY <1>8, <1>9, AtChanges
<1>15. b \in Conns /\ b.at = a.at /\ b.inbox = a.inbox /\ b.polled = a.polled /\ b.sent = a.sent
  <2>1. a \in Conns /\ Range(channels) \in SUBSET SubChannels
    BY <1>7, <1>14
  <2> QED
    BY <1>10, <2>1 DEF Conns
<1>16. c \in Conns /\ c.at = a.at /\ c.in = zeros /\ c.inbox = a.inbox /\ c.polled = a.polled /\ c.sent = a.sent
  BY <1>6, <1>11, <1>15, InChanges
<1>17. /\ d \in Conns /\ d.at = "confirm" /\ d.in = zeros /\ d.confs = n
       /\ d.inbox = sConn[k].inbox /\ d.polled = sConn[k].polled /\ d.sent = sConn[k].sent
  BY <1>5, <1>12, <1>14, <1>16, ConfsChange
<1>18. d.inbox = <<>> /\ d.polled = <<>> /\ d.sent = <<>>
  BY <1>1, <1>8, <1>17 DEF ConnInv
<1>19. Missing(d.in, <<>>, <<>>)
  BY <1>6, <1>17, NothingYet DEF Missing
<1>20. ConnInv(d, sPublished)
  <2>1. d.polled \o d.inbox = <<>> /\ Rises(d.sent, sPublished) /\ Begins(<<>>, d.sent)
    BY <1>18, NothingYet
  <2>2. d.confs <= Len(d.in) /\ \A i \in 1 .. d.confs : d.in[i] = Conf
    BY <1>5, <1>6, <1>17
  <2> QED
    BY <1>17, <1>18, <1>19, <2>1, <2>2 DEF ConnInv
<1> QED
  BY <1>1, <1>13, <1>17, <1>20, OneConn, SameSlots

LEMMA ReadConfirmationStep == ASSUME SubInv, NEW k \in Ids, ReadConfirmation(k) PROVE SubInv'
<1>1. /\ sConn[k].at = "confirm" /\ sConn[k].confs > 0 /\ sConn[k].in # <<>>
      /\ sConn' = [sConn EXCEPT ![k].in = Tail(@), ![k].confs = @ - 1]
      /\ UNCHANGED <<sSlots, sHandles, sPublished>>
  BY DEF ReadConfirmation
<1>2. sConn[k] \in Conns /\ ConnInv(sConn[k], sPublished)
  BY DEF SubInv, SubTypes
<1>3. PICK c : c = sConn[k]
  OBVIOUS
<1>4. /\ c \in Conns /\ ConnInv(c, sPublished) /\ c.at = "confirm" /\ c.confs > 0 /\ c.in # <<>>
      /\ c.confs \in Nat /\ c.in \in Seq(Nat) /\ c.sent \in Seq(Nat)
  BY <1>1, <1>2, <1>3, ConnFields
<1>5. c.inbox = <<>> /\ c.polled = <<>> /\ c.confs <= Len(c.in) /\ \A i \in 1 .. c.confs : c.in[i] = Conf
  BY <1>4 DEF ConnInv
<1>6. Rises(c.sent, sPublished) /\ Missing(c.in, <<>>, c.sent)
  BY <1>4, <1>5, NothingYet DEF ConnInv
<1>7. /\ Tail(c.in) \in Seq(Nat) /\ Len(Tail(c.in)) = Len(c.in) - 1 /\ Len(c.in) \in Nat \ {0} /\ Head(c.in) = c.in[1]
      /\ \A i \in 1 .. Len(c.in) - 1 : Tail(c.in)[i] = c.in[i + 1]
  BY <1>4, TailParts
<1>8. Head(c.in) = Conf
  BY <1>4, <1>5, <1>7
<1>9. Missing(Tail(c.in), <<>>, c.sent)
  BY <1>4, <1>6, <1>8, NothingYet, ConfirmationRead
<1>10. PICK b : b = [c EXCEPT !.in = Tail(c.in)]
  OBVIOUS
<1>11. PICK d : d = [b EXCEPT !.confs = c.confs - 1]
  OBVIOUS
<1>12. sConn' = [sConn EXCEPT ![k] = d]
  BY <1>1, <1>3, <1>10, <1>11
<1>13. c.confs - 1 \in Nat
  BY <1>4
<1>14. b \in Conns /\ b.at = c.at /\ b.in = Tail(c.in) /\ b.inbox = c.inbox /\ b.polled = c.polled /\ b.sent = c.sent
  <2>1. c \in Conns /\ Tail(c.in) \in Seq(Nat)
    BY <1>4, <1>7
  <2> QED
    BY <1>10, <2>1 DEF Conns
<1>15. /\ d \in Conns /\ d.at = c.at /\ d.in = Tail(c.in) /\ d.confs = c.confs - 1
       /\ d.inbox = c.inbox /\ d.polled = c.polled /\ d.sent = c.sent
  BY <1>11, <1>13, <1>14, ConfsChange
<1>16. d.confs <= Len(d.in)
  BY <1>4, <1>5, <1>7, <1>15
<1>17. ASSUME NEW i \in 1 .. d.confs PROVE d.in[i] = Conf
  <2>1. i \in 1 .. Len(c.in) - 1 /\ i + 1 \in 1 .. c.confs
    BY <1>4, <1>5, <1>7, <1>15
  <2> QED
    BY <1>5, <1>7, <1>15, <2>1
<1>18. ConnInv(d, sPublished)
  <2>1. d.polled \o d.inbox = <<>> /\ Begins(<<>>, d.sent)
    BY <1>4, <1>5, <1>15, NothingYet
  <2> QED
    BY <1>4, <1>5, <1>6, <1>9, <1>15, <1>16, <1>17, <2>1 DEF ConnInv
<1> QED
  BY <1>1, <1>12, <1>15, <1>18, OneConn, SameSlots

LEMMA ReaderStep == ASSUME SubInv, NEW k \in Ids, Reader(k) PROVE SubInv'
<1>1. /\ sConn[k].at = "open" /\ sConn[k].in # <<>>
      /\ sConn' = [sConn EXCEPT ![k].in = Tail(@),
                              ![k].inbox = IF Head(sConn[k].in) = Conf THEN @ ELSE Append(@, Head(sConn[k].in))]
      /\ UNCHANGED <<sSlots, sHandles, sPublished>>
  BY DEF Reader
<1>2. sConn[k] \in Conns /\ ConnInv(sConn[k], sPublished)
  BY DEF SubInv, SubTypes
<1>3. PICK c : c = sConn[k]
  OBVIOUS
<1>4. /\ c \in Conns /\ ConnInv(c, sPublished) /\ c.at = "open" /\ c.in # <<>>
      /\ c.in \in Seq(Nat) /\ c.sent \in Seq(Nat) /\ c.inbox \in Seq(Nat) /\ c.polled \in Seq(Nat)
  BY <1>1, <1>2, <1>3, ConnFields
<1>5. PICK got : got = c.polled \o c.inbox
  OBVIOUS
<1>6. Rises(c.sent, sPublished) /\ Missing(c.in, got, c.sent) /\ Begins(got, c.sent) /\ got \in Seq(Nat)
  BY <1>4, <1>5, JoinParts DEF ConnInv
<1>7. Tail(c.in) \in Seq(Nat) /\ Head(c.in) \in Nat
  BY <1>4, TailParts
<1>8. PICK x : x = IF Head(c.in) = Conf THEN c.inbox ELSE Append(c.inbox, Head(c.in))
  OBVIOUS
<1>9. x \in Seq(Nat)
  BY <1>4, <1>7, <1>8, AppendParts
<1>10. PICK b : b = [c EXCEPT !.in = Tail(c.in)]
  OBVIOUS
<1>11. PICK d : d = [b EXCEPT !.inbox = x]
  OBVIOUS
<1>12. sConn' = [sConn EXCEPT ![k] = d]
  BY <1>1, <1>3, <1>8, <1>10, <1>11
<1>13. b \in Conns /\ b.at = c.at /\ b.in = Tail(c.in) /\ b.polled = c.polled /\ b.sent = c.sent
  <2>1. c \in Conns /\ Tail(c.in) \in Seq(Nat)
    BY <1>4, <1>7
  <2> QED
    BY <1>10, <2>1 DEF Conns
<1>14. d \in Conns /\ d.at = c.at /\ d.in = Tail(c.in) /\ d.inbox = x /\ d.polled = c.polled /\ d.sent = c.sent
  BY <1>9, <1>11, <1>13, InboxChanges
<1>15. Missing(d.in, d.polled \o d.inbox, d.sent) /\ Begins(d.polled \o d.inbox, d.sent)
  <2>1. CASE Head(c.in) = Conf
    <3>1. d.polled \o d.inbox = got
      BY <1>5, <1>8, <1>14, <2>1
    <3>2. Missing(Tail(c.in), got, c.sent)
      BY <1>4, <1>6, <2>1, ConfirmationRead
    <3> QED
      BY <1>6, <1>14, <3>1, <3>2
  <2>2. CASE Head(c.in) # Conf
    <3>1. d.polled \o d.inbox = Append(got, Head(c.in))
      <4>1. c.polled \in Seq(Nat) /\ c.inbox \in Seq(Nat) /\ Head(c.in) \in Nat
        BY <1>4, <1>7
      <4>2. c.polled \o Append(c.inbox, Head(c.in)) = Append(c.polled \o c.inbox, Head(c.in))
        BY <4>1, InboxGrows
      <4> QED
        BY <1>5, <1>8, <1>14, <2>2, <4>2
    <3>2. Missing(Tail(c.in), Append(got, Head(c.in)), c.sent) /\ Begins(Append(got, Head(c.in)), c.sent)
      BY <1>4, <1>6, <2>2, MessageRead
    <3> QED
      BY <1>14, <3>1, <3>2
  <2> QED
    BY <2>1, <2>2
<1>16. ConnInv(d, sPublished)
  BY <1>4, <1>6, <1>14, <1>15 DEF ConnInv
<1> QED
  BY <1>1, <1>12, <1>14, <1>16, OneConn, SameSlots

LEMMA ConnLostStep == ASSUME SubInv, NEW k \in Ids, ConnLost(k) PROVE SubInv'
<1>1. /\ sConn[k].at = "open" /\ sConn' = [sConn EXCEPT ![k].at = "lost", ![k].in = <<>>]
      /\ UNCHANGED <<sSlots, sHandles, sPublished>>
  BY DEF ConnLost
<1>2. sConn[k] \in Conns /\ ConnInv(sConn[k], sPublished) /\ "lost" \in ConnStages
  BY DEF SubInv, SubTypes, ConnStages
<1>3. PICK b : b = [sConn[k] EXCEPT !.at = "lost"]
  OBVIOUS
<1>4. PICK d : d = [b EXCEPT !.in = <<>>]
  OBVIOUS
<1>5. sConn' = [sConn EXCEPT ![k] = d]
  BY <1>1, <1>3, <1>4
<1>6. b \in Conns /\ b.at = "lost" /\ b.inbox = sConn[k].inbox /\ b.polled = sConn[k].polled /\ b.sent = sConn[k].sent
  BY <1>2, <1>3, AtChanges
<1>7. d \in Conns /\ d.at = "lost" /\ d.inbox = sConn[k].inbox /\ d.polled = sConn[k].polled /\ d.sent = sConn[k].sent
  <2>1. b \in Conns /\ <<>> \in Seq(Nat)
    BY <1>6, NothingYet
  <2> QED
    BY <1>4, <1>6, <2>1 DEF Conns
<1>8. ConnInv(d, sPublished)
  BY <1>1, <1>2, <1>7 DEF ConnInv
<1> QED
  BY <1>1, <1>5, <1>7, <1>8, OneConn, SameSlots

\* A handle leads to a subscription.
LEMMA SlotOfHandle ==
    ASSUME SubInv, NEW h \in sHandles
    PROVE  h \in [rep : Nat, sub : Ids] /\ SlotOf(h) = h.sub /\ SlotOf(h) \in Ids
  BY DEF SubInv, SubTypes, HandlesMatch

\* A confirmation comes in, and the channels change.
LEMMA MoreConfirmed ==
    ASSUME SubInv, NEW k \in Ids, sConn[k].at = "open", UNCHANGED <<sSlots, sHandles, sPublished>>,
           NEW cs \in SUBSET SubChannels,
           sConn' = [sConn EXCEPT ![k].chans = cs, ![k].in = Append(@, Conf)]
    PROVE  SubInv'
<1>2. sConn[k] \in Conns /\ ConnInv(sConn[k], sPublished)
  BY DEF SubInv, SubTypes
<1>3. PICK c : c = sConn[k]
  OBVIOUS
<1>4. /\ c \in Conns /\ ConnInv(c, sPublished) /\ c.at = "open"
      /\ c.in \in Seq(Nat) /\ c.sent \in Seq(Nat) /\ c.inbox \in Seq(Nat) /\ c.polled \in Seq(Nat)
  BY <1>2, <1>3, ConnFields
<1>5. PICK b : b = [c EXCEPT !.chans = cs]
  OBVIOUS
<1>6. PICK d : d = [b EXCEPT !.in = Append(c.in, Conf)]
  OBVIOUS
<1>7. sConn' = [sConn EXCEPT ![k] = d]
  BY <1>3, <1>5, <1>6
<1>8. Append(c.in, Conf) \in Seq(Nat)
  BY <1>4, AppendParts DEF Conf
<1>9. b \in Conns /\ b.at = c.at /\ b.inbox = c.inbox /\ b.polled = c.polled /\ b.sent = c.sent
  <2>1. c \in Conns
    BY <1>4
  <2> QED
    BY <1>5, <2>1 DEF Conns
<1>10. d \in Conns /\ d.at = c.at /\ d.in = Append(c.in, Conf) /\ d.inbox = c.inbox /\ d.polled = c.polled /\ d.sent = c.sent
  <2>1. b \in Conns
    BY <1>9
  <2> QED
    BY <1>6, <1>8, <1>9, <2>1 DEF Conns
<1>11. c.polled \o c.inbox \in Seq(Nat) /\ Missing(c.in, c.polled \o c.inbox, c.sent)
  BY <1>4, JoinParts DEF ConnInv
<1>12. Missing(Append(c.in, Conf), c.polled \o c.inbox, c.sent)
  BY <1>4, <1>11, ConfirmedTo
<1>13. ConnInv(d, sPublished)
  BY <1>4, <1>10, <1>12 DEF ConnInv
<1> QED
  BY <1>7, <1>10, <1>13, OneConn, SameSlots

LEMMA SubscribeMoreStep == ASSUME SubInv, NEW h \in sHandles, SubscribeMore(h) PROVE SubInv'
<1>1. SlotOf(h) \in Ids
  BY SlotOfHandle
<1>2. PICK k : k = SlotOf(h)
  OBVIOUS
<1>3. sConn[k].at = "open" /\ UNCHANGED <<sSlots, sHandles, sPublished>>
  BY <1>2 DEF SubscribeMore
<1>4. PICK ch \in SubChannels : sConn' = [sConn EXCEPT ![k].chans = @ \cup {ch}, ![k].in = Append(@, Conf)]
  BY <1>2 DEF SubscribeMore
<1>5. sConn[k] \in Conns
  BY <1>1, <1>2 DEF SubInv, SubTypes
<1>6. sConn[k].chans \cup {ch} \in SUBSET SubChannels
  BY <1>5, ConnFields
<1>7. sConn' = [sConn EXCEPT ![k].chans = sConn[k].chans \cup {ch}, ![k].in = Append(@, Conf)]
  BY <1>4
<1> QED
  BY <1>1, <1>2, <1>3, <1>6, <1>7, MoreConfirmed

LEMMA UnsubscribeStep == ASSUME SubInv, NEW h \in sHandles, Unsubscribe(h) PROVE SubInv'
<1>1. SlotOf(h) \in Ids
  BY SlotOfHandle
<1>2. PICK k : k = SlotOf(h)
  OBVIOUS
<1>3. sConn[k].at = "open" /\ UNCHANGED <<sSlots, sHandles, sPublished>>
  BY <1>2 DEF Unsubscribe
<1>4. PICK left : sConn' = [sConn EXCEPT ![k].chans = @ \ left, ![k].in = Append(@, Conf)]
  BY <1>2 DEF Unsubscribe
<1>5. sConn[k] \in Conns
  BY <1>1, <1>2 DEF SubInv, SubTypes
<1>6. sConn[k].chans \ left \in SUBSET SubChannels
  BY <1>5, ConnFields
<1>7. sConn' = [sConn EXCEPT ![k].chans = sConn[k].chans \ left, ![k].in = Append(@, Conf)]
  BY <1>4
<1> QED
  BY <1>1, <1>2, <1>3, <1>6, <1>7, MoreConfirmed

\* One message more is published, to a connection that listens or to none.
LEMMA OnePublished ==
    ASSUME NEW c \in Conns, NEW pub \in Nat, ConnInv(c, pub), NEW x, x = pub + 1, NEW a, NEW d,
           a = [c EXCEPT !.in = Append(c.in, x)], d = [a EXCEPT !.sent = Append(c.sent, x)],
           c.at \in {"confirm", "open"}
    PROVE  d \in Conns /\ ConnInv(d, pub + 1)
<1>1. /\ c.in \in Seq(Nat) /\ c.sent \in Seq(Nat) /\ c.inbox \in Seq(Nat) /\ c.polled \in Seq(Nat) /\ c.confs \in Nat
      /\ x \in Nat
  BY ConnFields
<1>2. PICK in2 : in2 = Append(c.in, x)
  OBVIOUS
<1>3. PICK sent2 : sent2 = Append(c.sent, x)
  OBVIOUS
<1>4. in2 \in Seq(Nat) /\ Len(in2) = Len(c.in) + 1 /\ Len(c.in) \in Nat /\ \A i \in 1 .. Len(c.in) : in2[i] = c.in[i]
  BY <1>1, <1>2, AppendParts
<1>5. sent2 \in Seq(Nat)
  BY <1>1, <1>3, AppendParts
<1>6. a \in Conns /\ a.at = c.at /\ a.in = in2 /\ a.inbox = c.inbox /\ a.polled = c.polled /\ a.confs = c.confs
  <2>1. a = [c EXCEPT !.in = in2]
    BY <1>2
  <2> QED
    BY <1>4, <2>1 DEF Conns
<1>7. /\ d \in Conns /\ d.at = c.at /\ d.in = in2 /\ d.inbox = c.inbox /\ d.polled = c.polled /\ d.confs = c.confs
      /\ d.sent = sent2
  <2>1. d = [a EXCEPT !.sent = sent2] /\ a \in Conns
    BY <1>3, <1>6
  <2>2. /\ d \in Conns /\ d.at = a.at /\ d.in = a.in /\ d.inbox = a.inbox /\ d.polled = a.polled /\ d.confs = a.confs
        /\ d.sent = sent2
    BY <1>5, <2>1 DEF Conns
  <2> QED
    BY <1>6, <2>2
<1>8. PICK got : got = c.polled \o c.inbox
  OBVIOUS
<1>9. got \in Seq(Nat) /\ Rises(c.sent, pub) /\ Missing(c.in, got, c.sent) /\ Begins(got, c.sent)
  BY <1>1, <1>8, JoinParts DEF ConnInv
<1>10. Rises(sent2, pub + 1) /\ Begins(got, sent2) /\ Missing(in2, got, sent2)
  BY <1>1, <1>2, <1>3, <1>9, PublishedTo
<1>11. ASSUME c.at = "confirm"
       PROVE  d.inbox = <<>> /\ d.polled = <<>> /\ d.confs <= Len(d.in) /\ \A i \in 1 .. d.confs : d.in[i] = Conf
  <2>1. /\ c.inbox = <<>> /\ c.polled = <<>> /\ c.confs <= Len(c.in) /\ \A i \in 1 .. c.confs : c.in[i] = Conf
    BY <1>11 DEF ConnInv
  <2>2. \A i \in 1 .. c.confs : i \in 1 .. Len(c.in)
    BY <1>1, <1>4, <2>1
  <2>3. \A i \in 1 .. c.confs : in2[i] = Conf
    BY <1>4, <2>1, <2>2
  <2>4. c.confs <= Len(in2)
    BY <1>1, <1>4, <2>1
  <2> QED
    BY <1>7, <2>1, <2>3, <2>4
<1>12. ConnInv(d, pub + 1)
  BY <1>7, <1>8, <1>10, <1>11 DEF ConnInv
<1> QED
  BY <1>7, <1>12

LEMMA NotListening ==
    ASSUME NEW c \in Conns, NEW pub \in Nat, ConnInv(c, pub)
    PROVE  ConnInv(c, pub + 1)
<1>1. Rises(c.sent, pub + 1)
  <2>1. c.sent \in Seq(Nat) /\ Rises(c.sent, pub)
    BY ConnFields DEF ConnInv
  <2>2. ASSUME NEW i \in 1 .. Len(c.sent) PROVE c.sent[i] > 0 /\ c.sent[i] <= pub + 1
    <3>1. c.sent[i] \in Nat /\ c.sent[i] > 0 /\ c.sent[i] <= pub
      BY <2>1 DEF Rises
    <3> QED
      BY <3>1
  <2> QED
    BY <2>1, <2>2 DEF Rises
<1> QED
  BY <1>1 DEF ConnInv

LEMMA PublishStep == ASSUME SubInv, Publish PROVE SubInv'
<1>1. sConn \in [Ids -> Conns] /\ sPublished \in Nat /\ sPublished' = sPublished + 1 /\ UNCHANGED <<sSlots, sHandles>>
  BY DEF SubInv, SubTypes, Publish
<1>2. PICK ch \in SubChannels :
         sConn' = [k \in Ids |->
                     IF ch \in sConn[k].chans /\ sConn[k].at \in {"confirm", "open"}
                     THEN [sConn[k] EXCEPT !.in = Append(@, sPublished + 1), !.sent = Append(@, sPublished + 1)]
                     ELSE sConn[k]]
  BY DEF Publish
<1>3. ASSUME NEW k \in Ids PROVE sConn'[k] \in Conns /\ ConnInv(sConn'[k], sPublished + 1)
  <2>1. sConn[k] \in Conns /\ ConnInv(sConn[k], sPublished)
    BY <1>1 DEF SubInv
  <2>2. CASE ch \in sConn[k].chans /\ sConn[k].at \in {"confirm", "open"}
    <3>1. PICK c : c = sConn[k]
      OBVIOUS
    <3>2. PICK a : a = [c EXCEPT !.in = Append(c.in, sPublished + 1)]
      OBVIOUS
    <3>3. PICK d : d = [a EXCEPT !.sent = Append(c.sent, sPublished + 1)]
      OBVIOUS
    <3>4. a.sent = c.sent
      BY <2>1, <3>1, <3>2 DEF Conns
    <3>5. sConn'[k] = d
      BY <1>2, <2>2, <3>1, <3>2, <3>3, <3>4
    <3>6. d \in Conns /\ ConnInv(d, sPublished + 1)
      BY <1>1, <2>1, <2>2, <3>1, <3>2, <3>3, OnePublished
    <3> QED
      BY <3>5, <3>6
  <2>3. CASE ~(ch \in sConn[k].chans /\ sConn[k].at \in {"confirm", "open"})
    <3>1. sConn'[k] = sConn[k]
      BY <1>2, <2>3
    <3> QED
      BY <1>1, <2>1, <3>1, NotListening
  <2> QED
    BY <2>2, <2>3
<1>4. sConn' \in [Ids -> Conns]
  BY <1>2, <1>3
<1> QED
  BY <1>1, <1>3, <1>4, SameSlots

LEMMA PollStep == ASSUME SubInv, NEW h \in sHandles, Poll(h) PROVE SubInv'
<1>1. SlotOf(h) \in Ids
  BY SlotOfHandle
<1>2. PICK k : k = SlotOf(h)
  OBVIOUS
<1>3. /\ sConn[k].inbox # <<>> /\ UNCHANGED <<sSlots, sHandles, sPublished>>
      /\ sConn' = [sConn EXCEPT ![k].inbox = Tail(@), ![k].polled = Append(@, Head(sConn[k].inbox))]
  BY <1>2 DEF Poll
<1>4. sConn[k] \in Conns /\ ConnInv(sConn[k], sPublished)
  BY <1>1, <1>2 DEF SubInv, SubTypes
<1>5. PICK c : c = sConn[k]
  OBVIOUS
<1>6. /\ c \in Conns /\ ConnInv(c, sPublished) /\ c.inbox # <<>> /\ c.at \in ConnStages
      /\ c.inbox \in Seq(Nat) /\ c.polled \in Seq(Nat)
  BY <1>3, <1>4, <1>5, ConnFields
<1>7. c.at \in {"open", "lost"}
  BY <1>6 DEF ConnInv, ConnStages
<1>8. PICK x : x = Tail(c.inbox)
  OBVIOUS
<1>9. PICK y : y = Append(c.polled, Head(c.inbox))
  OBVIOUS
<1>10. x \in Seq(Nat) /\ Head(c.inbox) \in Nat
  BY <1>6, <1>8, TailParts
<1>11. y \in Seq(Nat)
  BY <1>6, <1>9, <1>10, AppendParts
<1>12. y \o x = c.polled \o c.inbox
  BY <1>6, <1>8, <1>9, PollMoves
<1>13. PICK b : b = [c EXCEPT !.inbox = x]
  OBVIOUS
<1>14. PICK d : d = [b EXCEPT !.polled = y]
  OBVIOUS
<1>15. /\ b \in Conns /\ b.at = c.at /\ b.in = c.in /\ b.inbox = x /\ b.sent = c.sent /\ b.polled = c.polled
  <2>1. c \in Conns
    BY <1>6
  <2> QED
    BY <1>10, <1>13, <2>1 DEF Conns
<1>16. /\ d \in Conns /\ d.at = c.at /\ d.in = c.in /\ d.inbox = x /\ d.polled = y /\ d.sent = c.sent
  <2>1. b \in Conns
    BY <1>15
  <2>2. d \in Conns /\ d.at = b.at /\ d.in = b.in /\ d.inbox = b.inbox /\ d.polled = y /\ d.sent = b.sent
    BY <1>11, <1>14, <2>1 DEF Conns
  <2> QED
    BY <1>15, <2>2
<1>17. sConn' = [sConn EXCEPT ![k] = d]
  BY <1>3, <1>5, <1>8, <1>9, <1>13, <1>14, <1>15
<1>18. ConnInv(d, sPublished)
  BY <1>6, <1>7, <1>12, <1>16 DEF ConnInv
<1> QED
  BY <1>1, <1>2, <1>3, <1>16, <1>17, <1>18, OneConn, SameSlots

\* The slot a subscription takes was free, and a handle of another slot still
\* leads where it led.
LEMMA OpenedStep == ASSUME SubInv, NEW k \in Ids, Opened(k) PROVE SubInv'
<1>1. sConn[k].at = "confirm" /\ sConn[k].confs = 0 /\ sConn' = [sConn EXCEPT ![k].at = "open"] /\ UNCHANGED sPublished
  BY DEF Opened
<1>2. sConn[k] \in Conns /\ ConnInv(sConn[k], sPublished) /\ "open" \in ConnStages
  BY DEF SubInv, SubTypes, ConnStages
<1>3. PICK d : d = [sConn[k] EXCEPT !.at = "open"]
  OBVIOUS
<1>4. sConn' = [sConn EXCEPT ![k] = d]
  BY <1>1, <1>3
<1>5. /\ d \in Conns /\ d.at = "open" /\ d.in = sConn[k].in /\ d.inbox = sConn[k].inbox
      /\ d.polled = sConn[k].polled /\ d.sent = sConn[k].sent
  BY <1>2, <1>3, AtChanges
<1>6. ConnInv(d, sPublished)
  BY <1>1, <1>2, <1>5 DEF ConnInv
<1>7. sConn' \in [Ids -> Conns] /\ sPublished' \in Nat /\ \A j \in Ids : ConnInv(sConn'[j], sPublished')
  BY <1>1, <1>4, <1>5, <1>6, OneConn
<1>8. PICK free : free = {i \in DOMAIN sSlots : sSlots[i] = 0}
  OBVIOUS
<1>9. PICK slot : slot = IF free = {} THEN Len(sSlots) + 1 ELSE CHOOSE i \in free : \A j \in free : i <= j
  OBVIOUS
<1>10. /\ sSlots' = IF free = {} THEN Append(sSlots, k) ELSE [sSlots EXCEPT ![slot] = k]
       /\ sHandles' = sHandles \cup {[rep |-> slot - 1, sub |-> k]}
  BY <1>8, <1>9 DEF Opened
<1>11. sSlots \in Seq(Nat) /\ Len(sSlots) \in Nat /\ DOMAIN sSlots = 1 .. Len(sSlots) /\ sHandles \subseteq [rep : Nat, sub : Ids]
  BY DEF SubInv, SubTypes
<1>12. /\ slot \in Nat \ {0} /\ sSlots' \in Seq(Nat)
       /\ sSlots'[slot] = k /\ slot \in DOMAIN sSlots' /\ (slot \in DOMAIN sSlots => sSlots[slot] = 0)
       /\ \A i \in DOMAIN sSlots : i # slot => i \in DOMAIN sSlots' /\ sSlots'[i] = sSlots[i]
       /\ \A i \in DOMAIN sSlots' : i # slot => i \in DOMAIN sSlots
  <2>0. k \in Nat
    BY DEF Ids
  <2>1. CASE free = {}
    <3>1. slot = Len(sSlots) + 1 /\ sSlots' = Append(sSlots, k)
      BY <1>9, <1>10, <2>1
    <3>2. /\ sSlots' \in Seq(Nat) /\ Len(sSlots') = Len(sSlots) + 1 /\ sSlots'[slot] = k
          /\ \A i \in 1 .. Len(sSlots) : sSlots'[i] = sSlots[i]
      BY <1>11, <2>0, <3>1, AppendParts
    <3>3. DOMAIN sSlots' = 1 .. Len(sSlots) + 1
      BY <3>2
    <3> QED
      BY <1>11, <3>1, <3>2, <3>3
  <2>2. CASE free # {}
    <3>1. free \subseteq Nat
      BY <1>8, <1>11
    <3>2. \E i \in free : \A j \in free : i <= j
      BY <2>2, <3>1, LeastNumber
    <3>3. slot \in free
      BY <1>9, <2>2, <3>2
    <3>4. slot \in 1 .. Len(sSlots) /\ sSlots[slot] = 0
      BY <1>8, <1>11, <3>3
    <3>5. sSlots' = [sSlots EXCEPT ![slot] = k]
      BY <1>10, <2>2
    <3>6. sSlots' \in Seq(Nat) /\ DOMAIN sSlots' = DOMAIN sSlots
      BY <1>11, <2>0, <3>4, <3>5
    <3> QED
      BY <1>11, <3>4, <3>5, <3>6
  <2> QED
    BY <2>1, <2>2
<1>13. PICK n : n = [rep |-> slot - 1, sub |-> k]
  OBVIOUS
<1>14. n \in [rep : Nat, sub : Ids] /\ n.rep + 1 = slot /\ n.rep = slot - 1 /\ n.sub = k /\ sHandles' = sHandles \cup {n}
  BY <1>10, <1>12, <1>13
<1>15. HandlesMatch'
  <2>1. ASSUME NEW h \in sHandles' PROVE SlotOf(h)' = h.sub
    <3>1. CASE h = n
      BY <1>12, <1>14, <3>1 DEF SlotOf
    <3>2. CASE h \in sHandles
      <4>1. SlotOf(h) = h.sub /\ h.sub \in Ids
        BY <3>2, SlotOfHandle
      <4>2. h.sub # 0
        BY <4>1 DEF Ids
      <4>3. h.rep + 1 \in DOMAIN sSlots /\ sSlots[h.rep + 1] = h.sub
        BY <4>1, <4>2 DEF SlotOf
      <4>4. h.rep + 1 # slot
        BY <1>12, <4>2, <4>3
      <4>5. h.rep + 1 \in DOMAIN sSlots' /\ sSlots'[h.rep + 1] = sSlots[h.rep + 1]
        BY <1>12, <4>3, <4>4
      <4> QED
        BY <4>3, <4>5 DEF SlotOf
    <3> QED
      BY <1>14, <3>1, <3>2
  <2>2. ASSUME NEW i \in DOMAIN sSlots', sSlots'[i] # 0 PROVE \E h \in sHandles' : h.rep = i - 1
    <3>1. CASE i = slot
      BY <1>14, <3>1
    <3>2. CASE i # slot
      <4>1. i \in DOMAIN sSlots /\ sSlots[i] # 0
        BY <1>12, <2>2, <3>2
      <4>2. PICK h \in sHandles : h.rep = i - 1
        BY <4>1 DEF SubInv, HandlesMatch
      <4> QED
        BY <1>14, <4>2
    <3> QED
      BY <3>1, <3>2
  <2> QED
    BY <2>1, <2>2 DEF HandlesMatch
<1>16. SubTypes'
  BY <1>7, <1>11, <1>12, <1>14 DEF SubTypes
<1> QED
  BY <1>7, <1>15, <1>16 DEF SubInv

LEMMA DropStep == ASSUME SubInv, NEW h \in sHandles, DropSubscription(h) PROVE SubInv'
<1>1. h \in [rep : Nat, sub : Ids] /\ SlotOf(h) = h.sub /\ SlotOf(h) \in Ids
  BY SlotOfHandle
<1>2. PICK k : k = SlotOf(h)
  OBVIOUS
<1>3. k \in Ids /\ k # 0 /\ h.sub = k
  BY <1>1, <1>2 DEF Ids
<1>4. /\ sHandles' = sHandles \ {h} /\ sSlots' = [sSlots EXCEPT ![h.rep + 1] = 0]
      /\ sConn' = Closed(k) /\ UNCHANGED sPublished
  BY <1>2, <1>3 DEF DropSubscription
<1>5. h.rep + 1 \in DOMAIN sSlots /\ sSlots[h.rep + 1] = k
  BY <1>2, <1>3 DEF SlotOf
<1>6. sSlots \in Seq(Nat) /\ sHandles \subseteq [rep : Nat, sub : Ids] /\ sConn[k] \in Conns /\ ConnInv(sConn[k], sPublished)
  BY <1>3 DEF SubInv, SubTypes
<1>7. PICK c : c = sConn[k]
  OBVIOUS
<1>8. c \in Conns /\ ConnInv(c, sPublished)
  BY <1>6, <1>7
<1>9. PICK a : a = [c EXCEPT !.at = "closed"]
  OBVIOUS
<1>10. PICK b : b = [a EXCEPT !.in = <<>>]
  OBVIOUS
<1>11. PICK e : e = [b EXCEPT !.inbox = <<>>]
  OBVIOUS
<1>12. PICK d : d = [e EXCEPT !.chans = {}]
  OBVIOUS
<1>13. sConn' = [sConn EXCEPT ![k] = d]
  BY <1>4, <1>7, <1>9, <1>10, <1>11, <1>12 DEF Closed
<1>14. /\ d \in Conns /\ d.at = "closed" /\ d.inbox = <<>> /\ d.polled = c.polled /\ d.sent = c.sent
  <2>1. a \in Conns /\ a.at = "closed" /\ a.polled = c.polled /\ a.sent = c.sent
    <3>1. "closed" \in ConnStages
      BY DEF ConnStages
    <3> QED
      BY <1>8, <1>9, <3>1, AtChanges
  <2>2. b \in Conns /\ b.at = "closed" /\ b.polled = c.polled /\ b.sent = c.sent
    BY <1>10, <2>1, NothingYet DEF Conns
  <2>3. e \in Conns /\ e.at = "closed" /\ e.inbox = <<>> /\ e.polled = c.polled /\ e.sent = c.sent
    BY <1>11, <2>2, NothingYet DEF Conns
  <2>4. {} \in SUBSET SubChannels
    OBVIOUS
  <2> QED
    BY <1>12, <2>3, <2>4 DEF Conns
<1>15. Begins(c.polled, c.sent)
  <2>1. c.polled \in Seq(Nat) /\ c.inbox \in Seq(Nat) /\ c.sent \in Seq(Nat) /\ c.at \in ConnStages
    BY <1>8, ConnFields
  <2>2. CASE c.at \in {"confirm", "open", "lost"}
    <3>1. Begins(c.polled \o c.inbox, c.sent)
      BY <1>8, <2>2 DEF ConnInv
    <3>2. /\ Len(c.polled \o c.inbox) = Len(c.polled) + Len(c.inbox) /\ Len(c.polled) \in Nat /\ Len(c.inbox) \in Nat
          /\ \A i \in 1 .. Len(c.polled) + Len(c.inbox) :
                (c.polled \o c.inbox)[i] = IF i <= Len(c.polled) THEN c.polled[i] ELSE c.inbox[i - Len(c.polled)]
      BY <2>1, JoinParts
    <3>3. Len(c.polled) <= Len(c.sent)
      <4>1. Len(c.polled \o c.inbox) <= Len(c.sent)
        BY <3>1 DEF Begins
      <4>2. Len(c.sent) \in Nat
        BY <2>1
      <4>3. Len(c.polled \o c.inbox) = Len(c.polled) + Len(c.inbox) /\ Len(c.polled) \in Nat /\ Len(c.inbox) \in Nat
        BY <3>2
      <4> QED
        BY <4>1, <4>2, <4>3, PartFits
    <3>4. ASSUME NEW i \in 1 .. Len(c.polled) PROVE c.polled[i] = c.sent[i]
      <4>1. i \in 1 .. Len(c.polled) + Len(c.inbox) /\ i <= Len(c.polled)
        <5>1. Len(c.polled) \in Nat /\ Len(c.inbox) \in Nat
          BY <3>2
        <5> QED
          BY <5>1, PartFits
      <4>2. (c.polled \o c.inbox)[i] = c.polled[i]
        BY <3>2, <4>1
      <4>3. (c.polled \o c.inbox)[i] = c.sent[i]
        BY <3>1, <3>2, <4>1 DEF Begins
      <4> QED
        BY <4>2, <4>3
    <3> QED
      BY <3>3, <3>4 DEF Begins
  <2>3. CASE c.at \in {"none", "auth"}
    <3>1. c.polled = <<>>
      BY <1>8, <2>3 DEF ConnInv
    <3> QED
      BY <2>1, <3>1, NothingYet
  <2>4. CASE c.at = "closed"
    BY <1>8, <2>4 DEF ConnInv
  <2> QED
    BY <2>1, <2>2, <2>3, <2>4 DEF ConnStages
<1>16. ConnInv(d, sPublished)
  BY <1>8, <1>14, <1>15 DEF ConnInv
<1>17. sConn' \in [Ids -> Conns] /\ sPublished' \in Nat /\ \A j \in Ids : ConnInv(sConn'[j], sPublished')
  BY <1>3, <1>4, <1>13, <1>14, <1>16, OneConn
<1>18. /\ sSlots' \in Seq(Nat) /\ DOMAIN sSlots' = DOMAIN sSlots /\ sSlots'[h.rep + 1] = 0
       /\ \A i \in DOMAIN sSlots : i # h.rep + 1 => sSlots'[i] = sSlots[i]
  BY <1>4, <1>5, <1>6
<1>19. HandlesMatch'
  <2>1. ASSUME NEW g \in sHandles' PROVE SlotOf(g)' = g.sub
    <3>1. g \in sHandles /\ g # h
      BY <1>4
    <3>2. g \in [rep : Nat, sub : Ids] /\ SlotOf(g) = g.sub /\ g.sub \in Ids
      BY <3>1, SlotOfHandle
    <3>3. g.sub # 0
      BY <3>2 DEF Ids
    <3>4. g.rep + 1 \in DOMAIN sSlots /\ sSlots[g.rep + 1] = g.sub
      BY <3>2, <3>3 DEF SlotOf
    <3>5. g.rep # h.rep
      <4>1. g.rep = h.rep => g.sub = h.sub
        BY <1>3, <1>5, <3>4
      <4> QED
        BY <1>1, <3>1, <3>2, <4>1
    <3>6. g.rep + 1 # h.rep + 1
      BY <1>1, <3>2, <3>5
    <3> QED
      BY <1>18, <3>4, <3>6 DEF SlotOf
  <2>2. ASSUME NEW i \in DOMAIN sSlots', sSlots'[i] # 0 PROVE \E g \in sHandles' : g.rep = i - 1
    <3>1. i \in DOMAIN sSlots /\ i # h.rep + 1 /\ sSlots[i] # 0 /\ i \in Nat
      BY <1>6, <1>18, <2>2
    <3>2. PICK g \in sHandles : g.rep = i - 1
      BY <3>1 DEF SubInv, HandlesMatch
    <3>3. g # h
      BY <1>1, <3>1, <3>2
    <3> QED
      BY <1>4, <3>2, <3>3
  <2> QED
    BY <2>1, <2>2 DEF HandlesMatch
<1>20. SubTypes'
  BY <1>4, <1>6, <1>17, <1>18 DEF SubTypes
<1> QED
  BY <1>17, <1>19, <1>20 DEF SubInv

LEMMA SubStep == SubInv /\ [SNext]_sVars => SubInv'
<1> SUFFICES ASSUME SubInv, [SNext]_sVars PROVE SubInv'
  OBVIOUS
<1>1. CASE Publish
  BY <1>1, PublishStep
<1>2. CASE StartOpen
  BY <1>2, StartOpenStep
<1>3. ASSUME NEW k \in Ids, AuthFails(k) \/ Subscribe(k) \/ ReadConfirmation(k) \/ Opened(k) \/ Reader(k) \/ ConnLost(k)
      PROVE  SubInv'
  BY <1>3, AuthFailsStep, SubscribeStep, ReadConfirmationStep, OpenedStep, ReaderStep, ConnLostStep
<1>4. ASSUME NEW h \in sHandles, SubscribeMore(h) \/ Unsubscribe(h) \/ Poll(h) \/ DropSubscription(h)
      PROVE  SubInv'
  BY <1>4, SubscribeMoreStep, UnsubscribeStep, PollStep, DropStep
<1>5. CASE UNCHANGED sVars
  BY <1>5 DEF sVars, SubInv, SubTypes, HandlesMatch, SlotOf
<1> QED
  BY <1>1, <1>2, <1>3, <1>4, <1>5 DEF SNext

\* A sequence that begins another is a prefix of it.
LEMMA BeginsPrefix ==
    ASSUME NEW s \in Seq(Nat), NEW t \in Seq(Nat), Begins(s, t)
    PROVE  IsPrefix(s, t)
<1>1. Len(s) \in Nat /\ Len(t) \in Nat /\ Len(s) <= Len(t)
  BY DEF Begins
<1>2. /\ SubSeq(s, 1, Len(s)) \in Seq(Nat) /\ Len(SubSeq(s, 1, Len(s))) = Len(s)
      /\ \A i \in 1 .. Len(s) : SubSeq(s, 1, Len(s))[i] = s[i]
  BY <1>1
<1>3. /\ SubSeq(t, 1, Len(s)) \in Seq(Nat) /\ Len(SubSeq(t, 1, Len(s))) = Len(s)
      /\ \A i \in 1 .. Len(s) : SubSeq(t, 1, Len(s))[i] = t[i]
  BY <1>1
<1>4. \A i \in 1 .. Len(s) : SubSeq(s, 1, Len(s))[i] = SubSeq(t, 1, Len(s))[i]
  BY <1>2, <1>3 DEF Begins
<1>5. SubSeq(s, 1, Len(s)) = SubSeq(t, 1, Len(s))
  BY <1>2, <1>3, <1>4, SameElements
<1> QED
  BY <1>1, <1>5 DEF IsPrefix

LEMMA MissingSound ==
    ASSUME NEW in \in Seq(Nat), NEW got \in Seq(Nat), NEW sent \in Seq(Nat), NEW pub,
           Missing(in, got, sent), Rises(sent, pub)
    PROVE  /\ ToSet(in) \ {Conf} = {sent[i] : i \in Len(got) + 1 .. Len(sent)}
           /\ \A i, j \in DOMAIN in : i < j /\ in[i] # Conf /\ in[j] # Conf => in[i] < in[j]
<1>1. DOMAIN in = 1 .. Len(in)
  OBVIOUS
<1>2. Len(got) \in Nat /\ Len(sent) \in Nat
  OBVIOUS
<1>3. \A j \in Len(got) + 1 .. Len(sent) : sent[j] # Conf
  <2>1. \A j \in Len(got) + 1 .. Len(sent) : j \in 1 .. Len(sent)
    BY <1>2, PartFits
  <2>2. \A j \in 1 .. Len(sent) : sent[j] # Conf
    BY DEF Rises, Conf
  <2> QED
    BY <2>1, <2>2
<1>4. ASSUME NEW x \in ToSet(in) \ {Conf} PROVE x \in {sent[i] : i \in Len(got) + 1 .. Len(sent)}
  <2>1. PICK i \in 1 .. Len(in) : in[i] = x
    BY <1>1 DEF ToSet
  <2>2. PICK j \in Len(got) + 1 .. Len(sent) : in[i] = sent[j]
    BY <1>4, <2>1 DEF Missing
  <2> QED
    BY <2>1, <2>2
<1>5. ASSUME NEW x \in {sent[i] : i \in Len(got) + 1 .. Len(sent)} PROVE x \in ToSet(in) \ {Conf}
  <2>1. PICK j \in Len(got) + 1 .. Len(sent) : x = sent[j]
    OBVIOUS
  <2>2. PICK i \in 1 .. Len(in) : in[i] = sent[j]
    BY <2>1 DEF Missing
  <2> QED
    BY <1>1, <1>3, <2>1, <2>2 DEF ToSet
<1> QED
  BY <1>1, <1>4, <1>5 DEF Missing

LEMMA SubInvSound == SubInv => SubscriptionsSound
<1> SUFFICES ASSUME SubInv PROVE DeliveredInOrder
  BY DEF SubscriptionsSound, SubInv
<1>1. ASSUME NEW k \in Ids, NEW c, c = sConn[k], NEW got, got = c.polled \o c.inbox
      PROVE  /\ c.at \in {"confirm", "open", "lost"} => IsPrefix(got, c.sent)
             /\ c.at \in {"confirm", "open"} =>
                  /\ ToSet(c.in) \ {Conf} = {c.sent[i] : i \in Len(got) + 1 .. Len(c.sent)}
                  /\ \A i, j \in DOMAIN c.in : i < j /\ c.in[i] # Conf /\ c.in[j] # Conf => c.in[i] < c.in[j]
             /\ c.at = "closed" => IsPrefix(c.polled, c.sent)
  <2>1. c \in Conns /\ ConnInv(c, sPublished)
    BY <1>1 DEF SubInv, SubTypes
  <2>2. c.in \in Seq(Nat) /\ c.sent \in Seq(Nat) /\ c.polled \in Seq(Nat) /\ c.inbox \in Seq(Nat)
    BY <2>1, ConnFields
  <2>3. got \in Seq(Nat)
    BY <1>1, <2>2, JoinParts
  <2>4. /\ c.at \in {"confirm", "open", "lost"} => Begins(got, c.sent)
        /\ c.at \in {"confirm", "open"} => Missing(c.in, got, c.sent)
        /\ c.at = "closed" => Begins(c.polled, c.sent)
        /\ Rises(c.sent, sPublished)
    BY <1>1, <2>1 DEF ConnInv
  <2>5. c.at \in {"confirm", "open", "lost"} => IsPrefix(got, c.sent)
    BY <2>2, <2>3, <2>4, BeginsPrefix
  <2>6. c.at = "closed" => IsPrefix(c.polled, c.sent)
    BY <2>2, <2>4, BeginsPrefix
  <2>7. c.at \in {"confirm", "open"} =>
           /\ ToSet(c.in) \ {Conf} = {c.sent[i] : i \in Len(got) + 1 .. Len(c.sent)}
           /\ \A i, j \in DOMAIN c.in : i < j /\ c.in[i] # Conf /\ c.in[j] # Conf => c.in[i] < c.in[j]
    BY <2>2, <2>3, <2>4, MissingSound
  <2> QED
    BY <2>5, <2>6, <2>7
<1> QED
  BY <1>1 DEF DeliveredInOrder

\* A guest polls what was published to its channels in order and without a
\* gap, and a handle leads to the subscription it was opened as: for any
\* channels, subscriptions, messages and queues (drivers/pubsub.rs).
THEOREM SubscriptionsAlwaysSound == SSpec => []SubscriptionsSound
<1>1. SInit => SubInv
  BY SubInitInv
<1>2. SubInv /\ [SNext]_sVars => SubInv'
  BY SubStep
<1>3. SubInv => SubscriptionsSound
  BY SubInvSound
<1> QED
  BY <1>1, <1>2, <1>3, PTL DEF SSpec

-----------------------------------------------------------------------------
(* The health monitor: the streak kept of a connection is the run of       *)
(* failures its outcomes end with (EndsWithRun), and the status is by it.  *)

\* The last n outcomes are failures, and the one before them is none.
EndsWithRun(os, n) ==
    /\ n <= Len(os) /\ (n = Len(os) \/ os[Len(os) - n] = "ok")
    /\ \A j \in 1 .. Len(os) : Len(os) - n < j => os[j] = "failed"

Recorded == [status : Statuses, streak : Nat]
HealthTypes ==
    /\ Monitored \subseteq HealthIds /\ hHealth \in [Monitored -> Recorded]
    /\ hOutcomes \in [HealthIds -> Seq({"ok", "failed"})]
    /\ hLoop = [at |-> hLoop.at, ids |-> hLoop.ids, next |-> hLoop.next]
    /\ hLoop.at \in {"off", "check", "evict", "ended"}
    /\ hFailed \in BOOLEAN

\* The streak counts the run of failures, and the status is by the streak.
StatusOf(c) ==
    /\ c.status = "Unhealthy" <=> c.streak >= MaxFailures
    /\ c.status = "Degraded" <=> c.streak # 0 /\ c.streak < MaxFailures /\ c.streak >= MaxFailures \div 2

HealthInv ==
    /\ HealthTypes
    /\ \A i \in Monitored : EndsWithRun(hOutcomes[i], hHealth[i].streak) /\ StatusOf(hHealth[i])
    /\ hFailed => hLoop.at \in {"evict", "ended"}
-----------------------------------------------------------------------------
\* There is one run at the end of a sequence of outcomes.
LEMMA RunIsStreak ==
    ASSUME NEW i \in HealthIds, hOutcomes[i] \in Seq({"ok", "failed"}), NEW n \in Nat, EndsWithRun(hOutcomes[i], n)
    PROVE  Streak(i) = n
<1>1. PICK os : os = hOutcomes[i]
  OBVIOUS
<1>2. PICK m : m = Len(os)
  OBVIOUS
<1>3. PICK s : s = m - n
  OBVIOUS
<1>4. m \in Nat /\ s \in 0 .. m
  <2>1. m \in Nat
    BY <1>1, <1>2
  <2>2. n <= m
    BY <1>1, <1>2 DEF EndsWithRun
  <2> QED
    BY <1>3, <2>1, <2>2
<1>5. (s = 0 \/ os[s] = "ok") /\ \A j \in s + 1 .. m : os[j] = "failed"
  <2>1. n = m \/ os[s] = "ok"
    BY <1>1, <1>2, <1>3 DEF EndsWithRun
  <2>2. n = m => s = 0
    BY <1>3, <1>4
  <2>3. \A j \in s + 1 .. m : j \in 1 .. m /\ m - n < j
    BY <1>3, <1>4
  <2>4. \A j \in 1 .. m : m - n < j => os[j] = "failed"
    BY <1>1, <1>2 DEF EndsWithRun
  <2> QED
    BY <2>1, <2>2, <2>3, <2>4
<1>6. ASSUME NEW t \in 0 .. m, t = 0 \/ os[t] = "ok", \A j \in t + 1 .. m : os[j] = "failed"
      PROVE  t = s
  <2>1. CASE t < s
    <3>1. s \in t + 1 .. m /\ s # 0
      BY <1>4, <2>1
    <3> QED
      BY <1>5, <1>6, <3>1
  <2>2. CASE s < t
    <3>1. t \in s + 1 .. m /\ t # 0
      BY <1>4, <2>2
    <3> QED
      BY <1>5, <1>6, <3>1
  <2> QED
    BY <1>4, <2>1, <2>2
<1>7. s = CHOOSE t \in 0 .. m : (t = 0 \/ os[t] = "ok") /\ \A j \in t + 1 .. m : os[j] = "failed"
  BY <1>4, <1>5, <1>6
<1>8. Streak(i) = m - s
  BY <1>1, <1>2, <1>7 DEF Streak
<1> QED
  BY <1>3, <1>4, <1>8

LEMMA RunGrows ==
    ASSUME NEW os \in Seq({"ok", "failed"}), NEW n \in Nat, EndsWithRun(os, n)
    PROVE  EndsWithRun(Append(os, "failed"), n + 1) /\ EndsWithRun(Append(os, "ok"), 0)
<1>1. \A x \in {"ok", "failed"} :
         /\ Len(Append(os, x)) = Len(os) + 1 /\ Append(os, x)[Len(os) + 1] = x
         /\ \A j \in 1 .. Len(os) : Append(os, x)[j] = os[j]
  OBVIOUS
<1>2. Len(os) \in Nat
  OBVIOUS
<1>3. PICK m : m = Len(os)
  OBVIOUS
<1>4. m \in Nat /\ n <= m /\ (n = m \/ os[m - n] = "ok") /\ \A j \in 1 .. m : m - n < j => os[j] = "failed"
  BY <1>2, <1>3 DEF EndsWithRun
<1>5. EndsWithRun(Append(os, "failed"), n + 1)
  <2>1. PICK b : b = Append(os, "failed")
    OBVIOUS
  <2>2. Len(b) = m + 1 /\ b[m + 1] = "failed" /\ \A j \in 1 .. m : b[j] = os[j]
    BY <1>1, <1>3, <2>1
  <2>3. n + 1 <= Len(b)
    BY <1>4, <2>2
  <2>4. n + 1 = Len(b) \/ b[Len(b) - (n + 1)] = "ok"
    <3>1. CASE n = m
      BY <2>2, <3>1
    <3>2. CASE n # m
      <4>1. m - n \in 1 .. m /\ (m + 1) - (n + 1) = m - n
        BY <1>4, <3>2
      <4> QED
        BY <1>4, <2>2, <3>2, <4>1
    <3> QED
      BY <3>1, <3>2
  <2>5. ASSUME NEW j \in 1 .. Len(b), Len(b) - (n + 1) < j PROVE b[j] = "failed"
    <3>1. j = m + 1 \/ (j \in 1 .. m /\ m - n < j)
      BY <1>4, <2>2, <2>5
    <3> QED
      BY <1>4, <2>2, <3>1
  <2>6. EndsWithRun(b, n + 1)
    BY <2>3, <2>4, <2>5 DEF EndsWithRun
  <2> QED
    BY <2>1, <2>6
<1>6. EndsWithRun(Append(os, "ok"), 0)
  <2>1. PICK b : b = Append(os, "ok")
    OBVIOUS
  <2>2. Len(b) = m + 1 /\ b[m + 1] = "ok"
    BY <1>1, <1>3, <2>1
  <2>3. 0 <= Len(b) /\ Len(b) - 0 = m + 1 /\ \A j \in 1 .. Len(b) : ~(Len(b) - 0 < j)
    BY <1>4, <2>2
  <2>4. EndsWithRun(b, 0)
    BY <2>2, <2>3 DEF EndsWithRun
  <2> QED
    BY <2>1, <2>4
<1> QED
  BY <1>5, <1>6

LEMMA NewIsHealthy ==
    NewHealth \in Recorded /\ NewHealth.streak = 0 /\ StatusOf(NewHealth) /\ EndsWithRun(<<>>, 0)
<1>1. MaxFailures \in Nat \ {0}
  BY HealthAssumption
<1>2. NewHealth \in Recorded /\ NewHealth.streak = 0 /\ NewHealth.status = "Healthy"
  BY DEF NewHealth, Recorded, Statuses
<1>3. StatusOf(NewHealth)
  BY <1>1, <1>2 DEF StatusOf
<1>4. EndsWithRun(<<>>, 0)
  BY DEF EndsWithRun
<1> QED
  BY <1>2, <1>3, <1>4

\* Only what is kept of one connection changes.
LEMMA OneHealth ==
    ASSUME HealthInv, NEW i \in Monitored, NEW c \in Recorded, NEW os \in Seq({"ok", "failed"}),
           hHealth' = [hHealth EXCEPT ![i] = c], hOutcomes' = [hOutcomes EXCEPT ![i] = os],
           EndsWithRun(os, c.streak), StatusOf(c), UNCHANGED <<hLoop, hFailed>>
    PROVE  HealthInv'
<1>1. Monitored \subseteq HealthIds /\ hHealth \in [Monitored -> Recorded] /\ hOutcomes \in [HealthIds -> Seq({"ok", "failed"})]
  BY DEF HealthInv, HealthTypes
<1>2. Monitored' = Monitored /\ hHealth' \in [Monitored -> Recorded]
  BY <1>1 DEF Monitored
<1>3. hOutcomes' \in [HealthIds -> Seq({"ok", "failed"})]
  BY <1>1
<1>4. HealthTypes'
  BY <1>1, <1>2, <1>3 DEF HealthInv, HealthTypes
<1>5. ASSUME NEW j \in Monitored' PROVE EndsWithRun(hOutcomes'[j], hHealth'[j].streak) /\ StatusOf(hHealth'[j])
  <2>1. CASE j = i
    <3>1. hOutcomes'[j] = os /\ hHealth'[j] = c
      BY <1>1, <2>1
    <3> QED
      BY <3>1
  <2>2. CASE j # i
    <3>1. j \in Monitored /\ hOutcomes'[j] = hOutcomes[j] /\ hHealth'[j] = hHealth[j]
      BY <1>1, <1>2, <1>5, <2>2
    <3> QED
      BY <3>1 DEF HealthInv
  <2> QED
    BY <2>1, <2>2
<1> QED
  BY <1>4, <1>5 DEF HealthInv

LEMMA RegisterStep == ASSUME HealthInv, NEW i \in HealthIds, Register(i) PROVE HealthInv'
<1>1. Monitored \subseteq HealthIds /\ hHealth \in [Monitored -> Recorded] /\ hOutcomes \in [HealthIds -> Seq({"ok", "failed"})]
  BY DEF HealthInv, HealthTypes
<1>2. /\ hHealth' = [j \in Monitored \cup {i} |-> IF j = i THEN NewHealth ELSE hHealth[j]]
      /\ hOutcomes' = [hOutcomes EXCEPT ![i] = <<>>] /\ UNCHANGED <<hLoop, hFailed>>
  BY DEF Register, ForgetOutcomes
<1>3. Monitored' = Monitored \cup {i} /\ hHealth' \in [Monitored \cup {i} -> Recorded]
  BY <1>1, <1>2, NewIsHealthy DEF Monitored
<1>4. hOutcomes' \in [HealthIds -> Seq({"ok", "failed"})]
  <2>1. <<>> \in Seq({"ok", "failed"})
    OBVIOUS
  <2> QED
    BY <1>1, <1>2, <2>1
<1>5. HealthTypes'
  BY <1>1, <1>2, <1>3, <1>4 DEF HealthInv, HealthTypes
<1>6. ASSUME NEW j \in Monitored' PROVE EndsWithRun(hOutcomes'[j], hHealth'[j].streak) /\ StatusOf(hHealth'[j])
  <2>1. CASE j = i
    <3>1. hOutcomes'[j] = <<>> /\ hHealth'[j] = NewHealth
      BY <1>1, <1>2, <2>1
    <3> QED
      BY <3>1, NewIsHealthy
  <2>2. CASE j # i
    <3>1. j \in Monitored /\ hOutcomes'[j] = hOutcomes[j] /\ hHealth'[j] = hHealth[j]
      BY <1>1, <1>2, <1>3, <1>6, <2>2
    <3> QED
      BY <3>1 DEF HealthInv
  <2> QED
    BY <2>1, <2>2
<1> QED
  BY <1>2, <1>5, <1>6 DEF HealthInv

LEMMA UnregisterStep == ASSUME HealthInv, NEW i \in HealthIds, Unregister(i) PROVE HealthInv'
<1>1. Monitored \subseteq HealthIds /\ hHealth \in [Monitored -> Recorded] /\ hOutcomes \in [HealthIds -> Seq({"ok", "failed"})]
  BY DEF HealthInv, HealthTypes
<1>2. /\ hHealth' = [j \in Monitored \ {i} |-> hHealth[j]]
      /\ hOutcomes' = [hOutcomes EXCEPT ![i] = <<>>] /\ UNCHANGED <<hLoop, hFailed>>
  BY DEF Unregister, ForgetOutcomes
<1>3. Monitored' = Monitored \ {i} /\ hHealth' \in [Monitored \ {i} -> Recorded]
  BY <1>1, <1>2 DEF Monitored
<1>4. hOutcomes' \in [HealthIds -> Seq({"ok", "failed"})]
  <2>1. <<>> \in Seq({"ok", "failed"})
    OBVIOUS
  <2> QED
    BY <1>1, <1>2, <2>1
<1>5. HealthTypes'
  BY <1>1, <1>2, <1>3, <1>4 DEF HealthInv, HealthTypes
<1>6. ASSUME NEW j \in Monitored' PROVE EndsWithRun(hOutcomes'[j], hHealth'[j].streak) /\ StatusOf(hHealth'[j])
  <2>1. j \in Monitored /\ hOutcomes'[j] = hOutcomes[j] /\ hHealth'[j] = hHealth[j]
    BY <1>1, <1>2, <1>3, <1>6
  <2> QED
    BY <2>1 DEF HealthInv
<1> QED
  BY <1>2, <1>5, <1>6 DEF HealthInv

LEMMA RecordSuccessStep == ASSUME HealthInv, NEW i \in HealthIds, RecordSuccess(i) PROVE HealthInv'
<1>1. i \in Monitored /\ hOutcomes[i] \in Seq({"ok", "failed"}) /\ hHealth[i] \in Recorded
  BY DEF HealthInv, HealthTypes, RecordSuccess
<1>2. hHealth[i].streak \in Nat /\ EndsWithRun(hOutcomes[i], hHealth[i].streak)
  BY <1>1 DEF HealthInv, Recorded
<1>3. EndsWithRun(Append(hOutcomes[i], "ok"), 0) /\ Append(hOutcomes[i], "ok") \in Seq({"ok", "failed"})
  BY <1>1, <1>2, RunGrows
<1>4. /\ hHealth' = [hHealth EXCEPT ![i] = NewHealth] /\ hOutcomes' = [hOutcomes EXCEPT ![i] = Append(hOutcomes[i], "ok")]
      /\ UNCHANGED <<hLoop, hFailed>>
  BY DEF RecordSuccess, Observed
<1> QED
  BY <1>1, <1>3, <1>4, NewIsHealthy, OneHealth

LEMMA RecordFailureStep == ASSUME HealthInv, NEW i \in HealthIds, RecordFailure(i) PROVE HealthInv'
<1>1. i \in Monitored /\ hOutcomes[i] \in Seq({"ok", "failed"}) /\ hHealth[i] \in Recorded
  BY DEF HealthInv, HealthTypes, RecordFailure
<1>2. PICK s : s = hHealth[i].streak
  OBVIOUS
<1>3. s \in Nat /\ EndsWithRun(hOutcomes[i], s) /\ StatusOf(hHealth[i]) /\ hHealth[i].status \in Statuses
  BY <1>1, <1>2 DEF HealthInv, Recorded
<1>4. EndsWithRun(Append(hOutcomes[i], "failed"), s + 1) /\ Append(hOutcomes[i], "failed") \in Seq({"ok", "failed"})
  BY <1>1, <1>3, RunGrows
<1>5. PICK status : status = IF s + 1 >= MaxFailures THEN "Unhealthy"
                             ELSE IF s + 1 >= MaxFailures \div 2 THEN "Degraded" ELSE hHealth[i].status
  OBVIOUS
<1>6. PICK c : c = [streak |-> s + 1, status |-> status]
  OBVIOUS
<1>7. /\ hHealth' = [hHealth EXCEPT ![i] = c] /\ hOutcomes' = [hOutcomes EXCEPT ![i] = Append(hOutcomes[i], "failed")]
      /\ UNCHANGED <<hLoop, hFailed>>
  BY <1>2, <1>5, <1>6 DEF RecordFailure, Observed
<1>8. c \in Recorded /\ c.streak = s + 1 /\ c.status = status
  <2>1. status \in Statuses /\ s + 1 \in Nat
    BY <1>3, <1>5 DEF Statuses
  <2> QED
    BY <1>6, <2>1 DEF Recorded
<1>9. StatusOf(c)
  <2>1. PICK half : half = MaxFailures \div 2
    OBVIOUS
  <2>2. half \in Int /\ MaxFailures \in Nat \ {0}
    BY <2>1, HealthAssumption
  <2>3. /\ hHealth[i].status = "Unhealthy" <=> s >= MaxFailures
        /\ hHealth[i].status = "Degraded" <=> s # 0 /\ s < MaxFailures /\ s >= half
    BY <1>2, <1>3, <2>1 DEF StatusOf
  <2>4. /\ status = "Unhealthy" <=> s + 1 >= MaxFailures
        /\ status = "Degraded" <=> s + 1 # 0 /\ s + 1 < MaxFailures /\ s + 1 >= half
    BY <1>3, <1>5, <2>1, <2>2, <2>3
  <2> QED
    BY <1>8, <2>1, <2>4 DEF StatusOf
<1> QED
  BY <1>1, <1>4, <1>7, <1>8, <1>9, OneHealth

\* What the loop does leaves the health of the connections alone.
LEMMA LoopStep ==
    ASSUME HealthInv, UNCHANGED <<hHealth, hOutcomes>>, hFailed' \in BOOLEAN,
           NEW at \in {"off", "check", "evict", "ended"}, NEW ids, NEW next,
           hLoop' = [at |-> at, ids |-> ids, next |-> next], hFailed' => at \in {"evict", "ended"}
    PROVE  HealthInv'
<1>1. hLoop'.at = at /\ hLoop'.ids = ids /\ hLoop'.next = next
  OBVIOUS
<1>2. HealthTypes'
  BY <1>1 DEF HealthInv, HealthTypes, Monitored
<1>3. \A i \in Monitored' : EndsWithRun(hOutcomes'[i], hHealth'[i].streak) /\ StatusOf(hHealth'[i])
  BY DEF HealthInv, Monitored
<1> QED
  BY <1>1, <1>2, <1>3 DEF HealthInv

LEMMA LoopSteps ==
    ASSUME HealthInv, StartPingLoop \/ SendEviction \/ \E ok \in BOOLEAN : CheckNext(ok)
    PROVE  HealthInv'
<1>1. /\ hFailed \in BOOLEAN /\ (hFailed => hLoop.at \in {"evict", "ended"})
      /\ hLoop = [at |-> hLoop.at, ids |-> hLoop.ids, next |-> hLoop.next]
  BY DEF HealthInv, HealthTypes
<1>2. CASE StartPingLoop
  <2>1. hLoop.at = "off" /\ UNCHANGED <<hHealth, hOutcomes, hFailed>>
    BY <1>2 DEF StartPingLoop
  <2>2. PICK order : hLoop' = [at |-> "check", ids |-> order, next |-> 1]
    BY <1>2 DEF StartPingLoop
  <2> QED
    BY <1>1, <2>1, <2>2, LoopStep
<1>3. CASE SendEviction
  <2>1. UNCHANGED <<hHealth, hOutcomes, hFailed>> /\ hLoop' = [hLoop EXCEPT !.at = "ended"]
    BY <1>3 DEF SendEviction
  <2>2. hLoop' = [at |-> "ended", ids |-> hLoop.ids, next |-> hLoop.next]
    BY <1>1, <2>1
  <2> QED
    BY <1>1, <2>1, <2>2, LoopStep
<1>4. ASSUME NEW ok \in BOOLEAN, CheckNext(ok) PROVE HealthInv'
  <2>1. /\ hLoop.at = "check" /\ UNCHANGED <<hHealth, hOutcomes>> /\ hFailed' = (hFailed \/ ~ok)
        /\ ~hFailed
    BY <1>1, <1>4 DEF CheckNext
  <2>2. CASE ok
    <3>1. PICK n : hLoop' = [hLoop EXCEPT !.next = n]
      BY <1>4, <2>2 DEF CheckNext
    <3>2. hLoop' = [at |-> "check", ids |-> hLoop.ids, next |-> n]
      BY <1>1, <2>1, <3>1
    <3> QED
      BY <2>1, <2>2, <3>2, LoopStep
  <2>3. CASE ~ok
    <3>1. hLoop' = [hLoop EXCEPT !.at = "evict"]
      BY <1>4, <2>3 DEF CheckNext
    <3>2. hLoop' = [at |-> "evict", ids |-> hLoop.ids, next |-> hLoop.next]
      BY <1>1, <3>1
    <3>3. hFailed' \in BOOLEAN
      BY <2>1
    <3> QED
      BY <2>1, <3>2, <3>3, LoopStep
  <2> QED
    BY <2>2, <2>3
<1> QED
  BY <1>2, <1>3, <1>4

LEMMA HealthInitInv == HInit => HealthInv
<1> SUFFICES ASSUME HInit PROVE HealthInv
  OBVIOUS
<1>1. Monitored = {} /\ hHealth \in [Monitored -> Recorded]
  BY DEF HInit, Monitored
<1>2. hOutcomes \in [HealthIds -> Seq({"ok", "failed"})]
  <2>1. <<>> \in Seq({"ok", "failed"})
    OBVIOUS
  <2> QED
    BY <2>1 DEF HInit
<1> QED
  BY <1>1, <1>2 DEF HInit, HealthInv, HealthTypes

LEMMA HealthInvStep == HealthInv /\ [HNext]_hVars => HealthInv'
<1> SUFFICES ASSUME HealthInv, [HNext]_hVars PROVE HealthInv'
  OBVIOUS
<1>1. CASE StartPingLoop \/ SendEviction \/ \E ok \in BOOLEAN : CheckNext(ok)
  BY <1>1, LoopSteps
<1>2. ASSUME NEW i \in HealthIds, Register(i) \/ Unregister(i) \/ RecordSuccess(i) \/ RecordFailure(i) PROVE HealthInv'
  BY <1>2, RegisterStep, UnregisterStep, RecordSuccessStep, RecordFailureStep
<1>3. CASE UNCHANGED hVars
  BY <1>3 DEF hVars, HealthInv, HealthTypes, Monitored
<1> QED
  BY <1>1, <1>2, <1>3 DEF HNext

LEMMA HealthInvSound == HealthInv => HealthSound
<1> SUFFICES ASSUME HealthInv PROVE StatusFollowsStreak
  BY DEF HealthInv, HealthSound
<1>1. ASSUME NEW i \in Monitored PROVE Streak(i) = hHealth[i].streak /\ StatusOf(hHealth[i])
  <2>1. i \in HealthIds /\ hOutcomes[i] \in Seq({"ok", "failed"}) /\ hHealth[i] \in Recorded
    BY DEF HealthInv, HealthTypes
  <2>2. hHealth[i].streak \in Nat /\ EndsWithRun(hOutcomes[i], hHealth[i].streak) /\ StatusOf(hHealth[i])
    BY <2>1 DEF HealthInv, Recorded
  <2> QED
    BY <2>1, <2>2, RunIsStreak
<1> QED
  BY <1>1 DEF StatusFollowsStreak, StatusOf

\* The status of a connection is that of its run of failures, and the loop
\* never goes past a check that failed: for any connections, any limit and
\* any outcomes (tether/proxy/src/health.rs).
THEOREM HealthAlwaysSound == HSpec => []HealthSound
<1>1. HInit => HealthInv
  BY HealthInitInv
<1>2. HealthInv /\ [HNext]_hVars => HealthInv'
  BY HealthInvStep
<1>3. HealthInv => HealthSound
  BY HealthInvSound
<1> QED
  BY <1>1, <1>2, <1>3, PTL DEF HSpec
-----------------------------------------------------------------------------
(* The types, with the bounds: no call and no frame is of a command that   *)
(* was not written, no handle is of a slot beyond the subscriptions opened, *)
(* and no streak is longer than the outcomes.                              *)

Numbered ==
    /\ wCount \in 0 .. MaxCalls
    /\ \A i \in DOMAIN wIn : wIn[i].of <= wCount
    /\ \A t \in AllTasks : wCall[t].n <= wCount

LEMMA NumberedInit == WInit => Numbered
<1> SUFFICES ASSUME WInit PROVE Numbered
  OBVIOUS
<1>1. wCount = 0 /\ MaxCalls \in Nat
  BY WireAssumption DEF WInit
<1>2. PICK l : wIn = From(0, l)
  BY DEF WInit
<1>3. \A i \in DOMAIN wIn : wIn[i].of = 0
  BY <1>2 DEF From
<1>4. \A t \in AllTasks : wCall[t].n = 0
  BY DEF WInit, NoCall
<1> QED
  BY <1>1, <1>3, <1>4 DEF Numbered

FramesLeft == wIn' = wIn \/ wIn' = <<>> \/ (wIn # <<>> /\ wIn' = Tail(wIn))

\* A frame is read, or none, and the call of t is left with a number it had.
LEMMA NumberedKept ==
    ASSUME WireTypes, Numbered, FramesLeft,
           UNCHANGED <<wKind, wCount>>,
           NEW t, NEW c, c.n <= wCount, wCall' = [wCall EXCEPT ![t] = c]
    PROVE  Numbered'
<1>1. wIn \in Seq(WireFrames) /\ wCall \in [AllTasks -> WireCalls] /\ wCount \in Nat
  BY DEF WireTypes
<1>2. \A i \in DOMAIN wIn' : wIn'[i].of <= wCount
  <2>1. CASE wIn' = wIn
    BY <2>1 DEF Numbered
  <2>2. CASE wIn # <<>> /\ wIn' = Tail(wIn)
    <3>1. wIn # <<>> /\ DOMAIN Tail(wIn) = 1 .. Len(wIn) - 1 /\ DOMAIN wIn = 1 .. Len(wIn) /\ Len(wIn) \in Nat
          /\ \A i \in 1 .. Len(wIn) - 1 : Tail(wIn)[i] = wIn[i + 1]
      BY <1>1, <2>2, TailFacts
    <3>2. \A n \in Nat : \A i \in 1 .. n - 1 : i + 1 \in 1 .. n
      OBVIOUS
    <3> QED
      BY <2>2, <3>1, <3>2 DEF Numbered
  <2>3. CASE wIn' = <<>>
    BY <2>3
  <2> QED
    BY <2>1, <2>2, <2>3 DEF FramesLeft
<1>3. \A u \in AllTasks : wCall'[u].n <= wCount
  BY <1>1 DEF Numbered
<1>4. AllTasks' = AllTasks
  BY DEF AllTasks
<1> QED
  BY <1>2, <1>3, <1>4 DEF Numbered

LEMMA NumberedEnds ==
    ASSUME WireTypes, Numbered, NEW t \in AllTasks, NEW at, Takes(t, at), StaysUp, NEW failed, Ends(t, failed)
    PROVE  Numbered'
<1>1. FramesLeft /\ UNCHANGED <<wKind, wCount>>
  BY DEF Takes, StaysUp, FramesLeft
<1>2. wCall' = [wCall EXCEPT ![t] = NoCall]
  BY DEF Ends, Returns
<1>3. NoCall.n <= wCount
  BY DEF NoCall, WireTypes
<1> QED
  BY <1>1, <1>2, <1>3, NumberedKept

LEMMA NumberedKeep ==
    ASSUME WireTypes, Numbered, NEW t \in AllTasks, NEW at, Takes(t, at), StaysUp, NEW c \in WireCalls, c.n = wCall[t].n,
           Keep(t, c)
    PROVE  Numbered'
<1>1. FramesLeft /\ UNCHANGED <<wKind, wCount>>
  BY DEF Takes, StaysUp, FramesLeft
<1>2. PICK d : d = [c EXCEPT !.got = wCall[t].got \cup {Head(wIn).of}] /\ wCall' = [wCall EXCEPT ![t] = d]
  BY DEF Keep
<1>3. d.n <= wCount
  BY <1>2, FieldsAfterGot DEF Numbered
<1> QED
  BY <1>1, <1>2, <1>3, NumberedKept

\* The answer to command n is queued: the next one, or one that is written.
LEMMA NumberedAnswer ==
    ASSUME WireTypes, Numbered, NEW t \in AllTasks, NEW n \in Nat, n <= wCount', wCount' \in {wCount, wCount + 1},
           wCount' \in 0 .. MaxCalls, UNCHANGED wKind,
           NEW ms \in Seq(Replies), wIn' = wIn \o From(n, ms),
           NEW c, c.n <= wCount', wCall' = [wCall EXCEPT ![t] = c]
    PROVE  Numbered'
<1>1. wIn \in Seq(WireFrames) /\ wCall \in [AllTasks -> WireCalls] /\ wCount \in Nat
  BY DEF WireTypes
<1>2. PICK f \in Seq(WireFrames) : f = From(n, ms) /\ \A i \in 1 .. Len(f) : f[i].of = n
  BY FromFrames
<1>3. ASSUME NEW i \in DOMAIN (wIn \o f) PROVE (wIn \o f)[i].of <= wCount'
  <2>1. PICK a \in Nat, b \in Nat : a = Len(wIn) /\ b = Len(f)
    BY <1>1, <1>2
  <2>2. i \in 1 .. a + b
    BY <1>1, <1>2, <1>3, <2>1
  <2>3. CASE i <= a
    <3>1. (wIn \o f)[i] = wIn[i] /\ i \in DOMAIN wIn
      BY <1>1, <1>2, <2>1, <2>2, <2>3
    <3>2. wIn[i].of <= wCount /\ wIn[i] \in WireFrames
      BY <1>1, <3>1 DEF Numbered
    <3>3. wIn[i].of \in Nat
      BY <3>2 DEF WireFrames
    <3> QED
      BY <1>1, <3>1, <3>2, <3>3
  <2>4. CASE ~(i <= a)
    <3>1. i - a \in 1 .. b
      BY <2>1, <2>2, <2>4
    <3>2. (wIn \o f)[i] = f[i - a]
      BY <1>1, <1>2, <2>1, <2>2, <2>4
    <3> QED
      BY <1>2, <2>1, <3>1, <3>2
  <2> QED
    BY <2>3, <2>4
<1>4. \A u \in AllTasks : wCall'[u].n <= wCount'
  <2>1. \A u \in AllTasks : wCall[u].n <= wCount /\ wCall[u].n \in Nat
    BY <1>1 DEF Numbered, WireCalls
  <2>2. \A u \in AllTasks : wCall'[u] = IF u = t THEN c ELSE wCall[u]
    BY <1>1
  <2>3. ASSUME NEW u \in AllTasks PROVE wCall'[u].n <= wCount'
    BY <1>1, <2>1, <2>2
  <2> QED
    BY <2>3
<1>5. AllTasks' = AllTasks
  BY DEF AllTasks
<1> QED
  BY <1>2, <1>3, <1>4, <1>5 DEF Numbered

LEMMA NumberedWritten ==
    ASSUME WireTypes, Numbered, NEW t \in AllTasks, NEW at, NEW ms \in Seq(Replies), NEW srv, Written(t, at, ms, srv)
    PROVE  Numbered'
<1>1. wCount < MaxCalls /\ wCount' = wCount + 1 /\ UNCHANGED wKind /\ wIn' = wIn \o From(wCount + 1, ms)
  BY DEF Written
<1>2. wCall[t] \in WireCalls /\ wCount \in Nat /\ MaxCalls \in Nat
  BY WireAssumption DEF WireTypes
<1>3. PICK d : d = [wCall[t] EXCEPT !.at = at, !.n = wCount + 1] /\ wCall' = [wCall EXCEPT ![t] = d]
  BY DEF Written
<1>4. d.n = wCount + 1
  BY <1>2, <1>3 DEF WireCalls
<1>5. wCount + 1 \in Nat /\ wCount + 1 <= wCount' /\ wCount' \in 0 .. MaxCalls /\ d.n <= wCount'
  BY <1>1, <1>2, <1>4
<1> QED
  BY <1>1, <1>3, <1>5, NumberedAnswer

\* The commands of a call are answered.
LEMMA NumberedSends ==
    ASSUME WireInv, Numbered, NEW t \in Users, PgSend(t) \/ MysqlSend(t) \/ RedisSend(t)
    PROVE  Numbered'
<1>1. WireTypes /\ t \in AllTasks /\ wCall[t].params \in BOOLEAN
  BY CallerFacts DEF WireInv
<1>2. CASE PgSend(t)
  <2>1. PICK outcome : Written(t, "pg", PgReplies(wCall[t].params, outcome), SessionAfter(Op(t), outcome))
    BY <1>2 DEF PgSend
  <2>2. PgReplies(wCall[t].params, outcome) \in Seq(Replies)
    BY <1>1, PgAnswers
  <2> QED
    BY <1>1, <2>1, <2>2, NumberedWritten
<1>3. CASE RedisSend(t)
  <2>1. PICK outcome : Written(t, "frame", RedisReply(Op(t), outcome), SessionAfter(Op(t), outcome))
    BY <1>3 DEF RedisSend
  <2>2. RedisReply(Op(t), outcome) \in Seq(Replies)
    BY RedisAnswers
  <2> QED
    BY <1>1, <2>1, <2>2, NumberedWritten
<1>4. CASE MysqlSend(t)
  <2>1. CASE wCall[t].params
    <3>1. "err" \in Replies /\ "prepared" \in Replies /\ "def" \in Replies /\ "eof" \in Replies
      BY DEF Replies
    <3>2. <<"err">> \in Seq(Replies) /\ <<"prepared", "def", "eof", "def", "eof">> \in Seq(Replies)
      BY <3>1, Words1, Words5
    <3>3. \/ Written(t, "prepare", <<"err">>, wSrv)
          \/ Written(t, "prepare", <<"prepared", "def", "eof", "def", "eof">>, wSrv)
      BY <1>4, <2>1 DEF MysqlSend
    <3> QED
      BY <1>1, <3>2, <3>3, NumberedWritten
  <2>2. CASE ~wCall[t].params
    <3>1. PICK outcome \in Outcomes(Op(t)) :
             \E ms \in MysqlReplies(outcome) : Written(t, "text", ms, SessionAfter(Op(t), outcome))
      BY <1>4, <2>2 DEF MysqlSend
    <3>2. PICK ms \in MysqlReplies(outcome) : Written(t, "text", ms, SessionAfter(Op(t), outcome))
      BY <3>1
    <3>3. ms \in Seq(Replies)
      BY MysqlAnswers
    <3> QED
      BY <1>1, <3>2, <3>3, NumberedWritten
  <2> QED
    BY <2>1, <2>2
<1> QED
  BY <1>2, <1>3, <1>4

LEMMA NumberedReads == ASSUME WireInv, Numbered, NEW t \in Users, Reads(t) PROVE Numbered'
<1>1. /\ WireTypes /\ t \in AllTasks /\ wCall[t] \in WireCalls /\ wCall[t].n \in Nat /\ wCall[t].skip \in Nat
      /\ "skip" \in Waits /\ "columns" \in Waits /\ "rows" \in Waits
  BY CallerFacts DEF WireInv, Waits
<1>2. ASSUME NEW at, Takes(t, at), StaysUp, \E failed \in BOOLEAN : Ends(t, failed) PROVE Numbered'
  BY <1>1, <1>2, NumberedEnds
<1>3. ASSUME NEW at, Takes(t, at), StaysUp, Keep(t, wCall[t]) PROVE Numbered'
  BY <1>1, <1>3, NumberedKeep
<1>4. CASE PgRead(t)
  BY <1>2, <1>3, <1>4 DEF PgRead
<1>5. CASE RedisRead(t)
  <2>1. Takes(t, "frame") /\ StaysUp /\ Ends(t, Head(wIn).m = "err")
    BY <1>5 DEF RedisRead
  <2> QED
    BY <1>1, <2>1, NumberedEnds
<1>6. CASE ComQuery(t)
  <2>1. PICK c : c = [wCall[t] EXCEPT !.cols = TRUE]
    OBVIOUS
  <2>2. c \in WireCalls /\ c.n = wCall[t].n
    BY <1>1, <2>1 DEF WireCalls
  <2>3. Takes(t, "text") /\ StaysUp /\ (Ends(t, FALSE) \/ Ends(t, TRUE) \/ Keep(t, wCall[t]) \/ Keep(t, c))
    BY <1>6, <2>1 DEF ComQuery
  <2> QED
    BY <1>1, <1>2, <1>3, <2>2, <2>3, NumberedKeep
<1>7. CASE PrepareRead(t)
  <2>1. PICK c : c = [wCall[t] EXCEPT !.at = "skip", !.skip = 4]
    OBVIOUS
  <2>2. c \in WireCalls /\ c.n = wCall[t].n
    BY <1>1, <2>1 DEF WireCalls
  <2>3. Takes(t, "prepare") /\ StaysUp /\ (Ends(t, TRUE) \/ Keep(t, c))
    BY <1>7, <2>1 DEF PrepareRead
  <2> QED
    BY <1>1, <1>2, <2>2, <2>3, NumberedKeep
<1>8. CASE SkipDefinition(t)
  <2>1. wCall[t].skip > 0 /\ Takes(t, "skip") /\ StaysUp
    BY <1>8 DEF SkipDefinition
  <2>2. PICK c : c = [wCall[t] EXCEPT !.skip = wCall[t].skip - 1]
    OBVIOUS
  <2>3. c \in WireCalls /\ c.n = wCall[t].n
    BY <1>1, <2>1, <2>2 DEF WireCalls
  <2>4. Keep(t, c)
    BY <1>1, <1>8, <2>2 DEF SkipDefinition, WireCalls
  <2> QED
    BY <1>1, <2>1, <2>3, <2>4, NumberedKeep
<1>9. CASE BinaryFirst(t)
  <2>1. PICK c : c = [wCall[t] EXCEPT !.at = "columns", !.skip = 2]
    OBVIOUS
  <2>2. c \in WireCalls /\ c.n = wCall[t].n
    BY <1>1, <2>1 DEF WireCalls
  <2>3. Takes(t, "binary") /\ StaysUp /\ (Ends(t, TRUE) \/ Ends(t, FALSE) \/ Keep(t, c))
    BY <1>9, <2>1 DEF BinaryFirst
  <2> QED
    BY <1>1, <1>2, <2>2, <2>3, NumberedKeep
<1>10. CASE BinaryColumns(t)
  <2>1. wCall[t].skip > 0 /\ Takes(t, "columns") /\ StaysUp
    BY <1>10 DEF BinaryColumns
  <2>7. PICK k \in Nat : k = wCall[t].skip - 1
    BY <1>1, <2>1
  <2>2. PICK at \in Waits : at = IF wCall[t].skip = 1 THEN "rows" ELSE "columns"
    BY <1>1
  <2>3. PICK c : c = [wCall[t] EXCEPT !.skip = wCall[t].skip - 1, !.at = at]
    OBVIOUS
  <2>4. c \in WireCalls /\ c.n = wCall[t].n
    <3>1. PICK d : d = [wCall[t] EXCEPT !.skip = k]
      OBVIOUS
    <3>2. d \in WireCalls /\ d.n = wCall[t].n
      BY <1>1, <3>1 DEF WireCalls
    <3>3. c = [d EXCEPT !.at = at]
      BY <1>1, <2>3, <2>7, <3>1 DEF WireCalls
    <3> QED
      BY <3>2, <3>3, FieldsAfterAt, CallFields
  <2>5. wCall[t].at = "columns"
    BY <2>1 DEF Takes
  <2>6. Keep(t, c)
    BY <1>1, <1>10, <2>2, <2>3, <2>5 DEF BinaryColumns, WireCalls
  <2> QED
    BY <1>1, <2>1, <2>4, <2>6, NumberedKeep
<1>11. CASE BinaryRow(t)
  <2>1. Takes(t, "rows") /\ StaysUp /\ (Ends(t, TRUE) \/ Ends(t, FALSE) \/ Keep(t, wCall[t]))
    BY <1>11 DEF BinaryRow
  <2> QED
    BY <1>2, <1>3, <2>1
<1>12. CASE StmtExecute(t)
  <2>1. PICK outcome \in Outcomes(Op(t)) : \E ms \in MysqlReplies(outcome) : wIn' = wIn \o From(wCall[t].n, ms)
    BY <1>12 DEF StmtExecute
  <2>2. PICK ms \in MysqlReplies(outcome) : wIn' = wIn \o From(wCall[t].n, ms)
    BY <2>1
  <2>3. ms \in Seq(Replies)
    BY MysqlAnswers
  <2>4. PICK c : c = [wCall[t] EXCEPT !.at = "binary"] /\ wCall' = [wCall EXCEPT ![t] = c]
    BY <1>12 DEF StmtExecute
  <2>5. c.n = wCall[t].n /\ wCall[t].n <= wCount /\ wCount \in 0 .. MaxCalls
    BY <1>1, <2>4 DEF Numbered, WireCalls
  <2>6. UNCHANGED <<wKind, wCount>>
    BY <1>12 DEF StmtExecute
  <2> QED
    BY <1>1, <2>2, <2>3, <2>4, <2>5, <2>6, NumberedAnswer
<1> QED
  BY <1>4, <1>5, <1>6, <1>7, <1>8, <1>9, <1>10, <1>11, <1>12 DEF Reads

LEMMA NumberedStep == WireInv /\ Numbered /\ [WNext]_wVars => Numbered'
<1> SUFFICES ASSUME WireInv, Numbered, [WNext]_wVars PROVE Numbered'
  OBVIOUS
<1>1. WireTypes /\ "guest" \in Users /\ Users \subseteq AllTasks
  BY TasksFacts DEF WireInv, WireTypes
<1>2. NoCall.n <= wCount /\ \A t : wCall' = [wCall EXCEPT ![t] = wCall[t]] => wCall' = wCall
  BY <1>1 DEF NoCall, WireTypes
<1>3. CASE WireConnect
  <2>1. FramesLeft /\ UNCHANGED <<wKind, wCount, wCall>>
    BY <1>3 DEF FramesLeft, WireConnect, PgConnect, MysqlHandshake, RedisConnect, LoginRead
  <2>2. wCall["guest"].n <= wCount /\ wCall' = [wCall EXCEPT !["guest"] = wCall["guest"]]
    BY <1>1, <2>1 DEF Numbered, WireTypes
  <2> QED
    BY <1>1, <2>1, <2>2, NumberedKept
<1>4. ASSUME NEW t \in Users, NEW op, NEW params, CallStarts(t, op, params) PROVE Numbered'
  <2>1. PICK c : c = [NoCall EXCEPT !.op = op, !.params = params, !.at = "lock"] /\ wCall' = [wCall EXCEPT ![t] = c]
    BY <1>4 DEF CallStarts
  <2>2. c.n <= wCount
    BY <1>1, <2>1 DEF NoCall, WireTypes
  <2>3. FramesLeft /\ UNCHANGED <<wKind, wCount>>
    BY <1>4 DEF CallStarts, FramesLeft
  <2> QED
    BY <1>1, <2>1, <2>2, <2>3, NumberedKept
<1>5. ASSUME NEW t \in Users, GuestCall(t) PROVE Numbered'
  BY <1>4, <1>5 DEF GuestCall
<1>6. ASSUME NEW t \in Users, CallFails(t) PROVE Numbered'
  <2>1. wCall' = [wCall EXCEPT ![t] = NoCall] /\ FramesLeft /\ UNCHANGED <<wKind, wCount>>
    BY <1>6 DEF CallFails, Returns, FramesLeft
  <2> QED
    BY <1>1, <1>2, <2>1, NumberedKept
<1>7. CASE BeginTransaction \/ EndTransaction
  BY <1>1, <1>4, <1>7 DEF BeginTransaction, EndTransaction
<1>8. CASE DropHandle \/ UNCHANGED wVars
  BY <1>8 DEF DropHandle, wVars, Numbered, AllTasks
<1>9. CASE ConnectionLost
  BY <1>9 DEF ConnectionLost, Numbered, AllTasks
<1> QED
  BY <1>3, <1>5, <1>6, <1>7, <1>8, <1>9, NumberedSends, NumberedReads DEF WNext

\* The types of the wire drivers are kept, for any tasks and any number of
\* commands: no call and no reply is of a command that was not written.
THEOREM WireTypeCorrect == WSpec => []WTypeOK
<1>1. WireInv /\ Numbered => WTypeOK
  <2> SUFFICES ASSUME WireInv, Numbered PROVE WTypeOK
    OBVIOUS
  <2>1. wIn \in Seq(WireFrames) /\ wCall \in [AllTasks -> WireCalls] /\ MaxCalls \in Nat /\ wCount \in 0 .. MaxCalls
    BY WireAssumption DEF WireInv, WireTypes, Numbered
  <2>2. \A i \in DOMAIN wIn : wIn[i] \in WireFrames /\ wIn[i].of <= wCount
    BY <2>1 DEF Numbered
  <2>5. \A f \in WireFrames : f.m \in Replies /\ f.of \in Nat
    BY DEF WireFrames
  <2>3. \A t \in AllTasks : wCall[t].op \in Ops \cup {"none"} /\ wCall[t].n \in Nat /\ wCall[t].n <= wCount
    BY <2>1 DEF WireCalls, Numbered
  <2>4. \A n \in Nat : n <= wCount => n \in 0 .. MaxCalls
    BY <2>1
  <2> QED
    BY <2>1, <2>2, <2>3, <2>4, <2>5 DEF WireInv, WireTypes, WTypeOK
<1> QED
  BY <1>1, WireInitInv, WireInvStep, NumberedInit, NumberedStep, PTL DEF WSpec
-----------------------------------------------------------------------------
\* A subscription that is not open yet is in no slot, and comes after every
\* slot and after every one that was opened before it.
Early == {"none", "auth", "confirm"}
SlotsInv ==
    /\ \A i \in 1 .. Len(sSlots) : sSlots[i] \in 0 .. MaxOpened
    /\ Len(sSlots) <= MaxOpened
    /\ \A k \in Ids : sConn[k].at \in Early => Len(sSlots) < k
    /\ \A j, k \in Ids : j < k /\ sConn[k].at # "none" => sConn[j].at \notin Early
    /\ \A i \in 1 .. Len(sSlots) : sSlots[i] \in Ids => sConn[sSlots[i]].at \notin Early
    /\ sPublished \in 0 .. MaxPublished

\* A step that opens nothing.
LEMMA StagesKept ==
    ASSUME SubTypes, SlotsInv, NEW k \in Ids, \A j \in Ids : j # k => sConn'[j].at = sConn[j].at,
           sConn'[k].at \in Early => sConn[k].at \in Early, sConn[k].at = "none" => sConn'[k].at = "none",
           UNCHANGED <<sSlots, sPublished>>
    PROVE  SlotsInv'
<1>1. \A j \in Ids : sConn'[j].at \in Early => sConn[j].at \in Early
  OBVIOUS
<1> QED
  BY <1>1 DEF SlotsInv, Ids, Early

LEMMA OneStage ==
    ASSUME SubTypes, SlotsInv, NEW k \in Ids, NEW c, sConn' = [sConn EXCEPT ![k] = c],
           c.at \in Early => sConn[k].at \in Early, sConn[k].at = "none" => c.at = "none",
           UNCHANGED <<sSlots, sPublished>>
    PROVE  SlotsInv'
<1>1. sConn \in [Ids -> Conns]
  BY DEF SubTypes
<1>2. sConn'[k] = c /\ \A j \in Ids : j # k => sConn'[j] = sConn[j]
  BY <1>1
<1> QED
  BY <1>2, StagesKept

\* The steps of a connection that do not open it.
LEMMA StagesOfConn ==
    ASSUME SubInv, SlotsInv, NEW k \in Ids, AuthFails(k) \/ Subscribe(k) \/ ReadConfirmation(k) \/ Reader(k) \/ ConnLost(k)
    PROVE  SlotsInv'
<1>1. SubTypes /\ sConn[k] \in Conns
  BY DEF SubInv, SubTypes
<1>2. CASE AuthFails(k)
  <2>1. PICK c : c = [sConn[k] EXCEPT !.at = "closed"] /\ sConn' = [sConn EXCEPT ![k] = c]
    BY <1>2 DEF AuthFails
  <2>2. c.at = "closed" /\ "closed" \notin Early /\ sConn[k].at = "auth" /\ UNCHANGED <<sSlots, sPublished>>
    BY <1>1, <1>2, <2>1 DEF AuthFails, Conns, Early
  <2> QED
    BY <1>1, <2>1, <2>2, OneStage
<1>3. CASE Subscribe(k)
  <2>1. PICK channels : sConn' = [sConn EXCEPT ![k].at = "confirm", ![k].chans = Range(channels),
                                ![k].in = [i \in DOMAIN channels |-> Conf], ![k].confs = Len(channels)]
    BY <1>3 DEF Subscribe
  <2>2. PICK r, in, n : r = Range(channels) /\ in = [i \in DOMAIN channels |-> Conf] /\ n = Len(channels)
    OBVIOUS
  <2>3. PICK c : c = [sConn[k] EXCEPT !.at = "confirm", !.chans = r, !.in = in, !.confs = n]
    OBVIOUS
  <2>4. sConn' = [sConn EXCEPT ![k] = c]
    BY <2>1, <2>2, <2>3
  <2>5. c.at = "confirm" /\ sConn[k].at = "auth" /\ UNCHANGED <<sSlots, sPublished>> /\ "auth" \in Early
    BY <1>1, <1>3, <2>3 DEF Subscribe, Conns, Early
  <2> QED
    BY <1>1, <2>4, <2>5, OneStage
<1>4. CASE ReadConfirmation(k)
  <2>1. PICK c : c = [sConn[k] EXCEPT !.in = Tail(@), !.confs = @ - 1] /\ sConn' = [sConn EXCEPT ![k] = c]
    BY <1>4 DEF ReadConfirmation
  <2>2. c.at = sConn[k].at /\ UNCHANGED <<sSlots, sPublished>>
    BY <1>1, <1>4, <2>1 DEF ReadConfirmation, Conns
  <2> QED
    BY <1>1, <2>1, <2>2, OneStage
<1>5. CASE Reader(k)
  <2>1. PICK c : /\ c = [sConn[k] EXCEPT !.in = Tail(@),
                          !.inbox = IF Head(sConn[k].in) = Conf THEN @ ELSE Append(@, Head(sConn[k].in))]
                 /\ sConn' = [sConn EXCEPT ![k] = c]
    BY <1>5 DEF Reader
  <2>2. c.at = sConn[k].at /\ UNCHANGED <<sSlots, sPublished>>
    BY <1>1, <1>5, <2>1 DEF Reader, Conns
  <2> QED
    BY <1>1, <2>1, <2>2, OneStage
<1>6. CASE ConnLost(k)
  <2>1. PICK c : c = [sConn[k] EXCEPT !.at = "lost", !.in = <<>>] /\ sConn' = [sConn EXCEPT ![k] = c]
    BY <1>6 DEF ConnLost
  <2>2. c.at = "lost" /\ "lost" \notin Early /\ sConn[k].at = "open" /\ UNCHANGED <<sSlots, sPublished>>
    BY <1>1, <1>6, <2>1 DEF ConnLost, Conns, Early
  <2> QED
    BY <1>1, <2>1, <2>2, OneStage
<1> QED
  BY <1>2, <1>3, <1>4, <1>5, <1>6

\* Nor do the guest's calls and what is published.
LEMMA StagesOfCalls ==
    ASSUME SubInv, SlotsInv, NEW h \in sHandles, SubscribeMore(h) \/ Unsubscribe(h) \/ Poll(h)
    PROVE  SlotsInv'
<1>1. SlotOf(h) \in Ids
  BY SlotOfHandle
<1>2. PICK k \in Ids : k = SlotOf(h)
  BY <1>1
<1>3. SubTypes /\ sConn[k] \in Conns /\ UNCHANGED <<sSlots, sPublished>>
  BY DEF SubInv, SubTypes, SubscribeMore, Unsubscribe, Poll
<1>4. CASE SubscribeMore(h)
  <2>1. PICK ch, c : c = [sConn[k] EXCEPT !.chans = @ \cup {ch}, !.in = Append(@, Conf)] /\ sConn' = [sConn EXCEPT ![k] = c]
    BY <1>2, <1>4 DEF SubscribeMore
  <2>2. c.at = sConn[k].at
    BY <1>3, <2>1 DEF Conns
  <2> QED
    BY <1>3, <2>1, <2>2, OneStage
<1>5. CASE Unsubscribe(h)
  <2>1. PICK left, c : c = [sConn[k] EXCEPT !.chans = @ \ left, !.in = Append(@, Conf)] /\ sConn' = [sConn EXCEPT ![k] = c]
    BY <1>2, <1>5 DEF Unsubscribe
  <2>2. c.at = sConn[k].at
    BY <1>3, <2>1 DEF Conns
  <2> QED
    BY <1>3, <2>1, <2>2, OneStage
<1>6. CASE Poll(h)
  <2>1. PICK c : /\ c = [sConn[k] EXCEPT !.inbox = Tail(@), !.polled = Append(@, Head(sConn[k].inbox))]
                 /\ sConn' = [sConn EXCEPT ![k] = c]
    BY <1>2, <1>6 DEF Poll
  <2>2. c.at = sConn[k].at
    BY <1>3, <2>1 DEF Conns
  <2> QED
    BY <1>3, <2>1, <2>2, OneStage
<1> QED
  BY <1>4, <1>5, <1>6

LEMMA StagesPublished == ASSUME SubInv, SlotsInv, Publish PROVE SlotsInv'
<1>1. /\ sConn \in [Ids -> Conns] /\ sPublished < MaxPublished /\ sPublished' = sPublished + 1 /\ UNCHANGED sSlots
      /\ MaxPublished \in Nat /\ sPublished \in Nat
  BY SubscriptionAssumption DEF SubInv, SubTypes, Publish
<1>2. ASSUME NEW k \in Ids PROVE sConn'[k].at = sConn[k].at
  <2>1. sConn[k] \in Conns
    BY <1>1
  <2>2. PICK c : c = [sConn[k] EXCEPT !.in = Append(@, sPublished + 1), !.sent = Append(@, sPublished + 1)]
    OBVIOUS
  <2>3. c.at = sConn[k].at
    BY <2>1, <2>2 DEF Conns
  <2>4. sConn'[k] = c \/ sConn'[k] = sConn[k]
    BY <2>2 DEF Publish
  <2> QED
    BY <2>3, <2>4
<1>3. sPublished' \in 0 .. MaxPublished
  BY <1>1
<1> QED
  BY <1>1, <1>2, <1>3 DEF SlotsInv, Ids

LEMMA StagesStarted == ASSUME SubInv, SlotsInv, StartOpen PROVE SlotsInv'
<1>1. PICK k \in Ids : sConn[k].at = "none" /\ (\A j \in Ids : j < k => sConn[j].at # "none")
                       /\ sConn' = [sConn EXCEPT ![k].at = "auth"]
  BY DEF StartOpen
<1>2. ~Opening /\ UNCHANGED <<sSlots, sPublished>> /\ sConn \in [Ids -> Conns]
  BY DEF StartOpen, SubInv, SubTypes
<1>3. PICK c : c = [sConn[k] EXCEPT !.at = "auth"] /\ sConn' = [sConn EXCEPT ![k] = c]
  BY <1>1
<1>4. c.at = "auth"
  BY <1>2, <1>3 DEF Conns
<1>5. sConn'[k].at = "auth" /\ \A j \in Ids : j # k => sConn'[j] = sConn[j]
  BY <1>2, <1>3, <1>4
<1>6. \A j \in Ids : sConn[j].at \in Early => sConn[j].at = "none"
  BY <1>2 DEF Opening, Early
<1>7. \A i, j \in Ids : i < j /\ sConn'[j].at # "none" => sConn'[i].at \notin Early
  <2> SUFFICES ASSUME NEW i \in Ids, NEW j \in Ids, i < j, sConn'[j].at # "none" PROVE sConn'[i].at \notin Early
    OBVIOUS
  <2>1. CASE j = k
    <3>1. i # k /\ sConn[i].at # "none"
      BY <1>1, <2>1 DEF Ids
    <3> QED
      BY <1>5, <1>6, <3>1
  <2>2. CASE j # k
    <3>1. sConn[j].at # "none"
      BY <1>5, <2>2
    <3>2. sConn[i].at \notin Early /\ "none" \in Early
      BY <3>1 DEF SlotsInv, Early
    <3> QED
      BY <1>1, <1>5, <3>2
  <2> QED
    BY <2>1, <2>2
<1>8. \A j \in Ids : sConn'[j].at \in Early => Len(sSlots) < j
  BY <1>1, <1>5 DEF SlotsInv, Early
<1>9. \A i \in 1 .. Len(sSlots) : sSlots[i] \in Ids => sConn'[sSlots[i]].at \notin Early
  BY <1>1, <1>5 DEF SlotsInv, Early
<1> QED
  BY <1>2, <1>7, <1>8, <1>9 DEF SlotsInv, Ids

\* The slot that is taken is one of those there are, or the next.
LEMMA StagesOpened == ASSUME SubInv, SlotsInv, NEW k \in Ids, Opened(k) PROVE SlotsInv'
<1>1. sConn[k].at = "confirm" /\ UNCHANGED sPublished /\ sConn \in [Ids -> Conns] /\ k \in 0 .. MaxOpened
      /\ "confirm" \in Early /\ "open" \notin Early
  BY DEF Opened, SubInv, SubTypes, Ids, Early
<1>2. PICK c : c = [sConn[k] EXCEPT !.at = "open"] /\ sConn' = [sConn EXCEPT ![k] = c]
  BY DEF Opened
<1>3. c.at = "open"
  BY <1>1, <1>2 DEF Conns
<1>4. sConn'[k].at = "open" /\ \A j \in Ids : j # k => sConn'[j] = sConn[j]
  BY <1>1, <1>2, <1>3
<1>5. PICK slot : sSlots' = Append(sSlots, k) \/ sSlots' = [sSlots EXCEPT ![slot] = k]
  BY DEF Opened
<1>6. sSlots \in Seq(Nat) /\ Len(sSlots) \in Nat /\ Len(sSlots) < k
  BY <1>1 DEF SubInv, SubTypes, SlotsInv
<1>7. Len(sSlots') <= k /\ \A i \in 1 .. Len(sSlots') : sSlots'[i] = k \/ (i \in 1 .. Len(sSlots) /\ sSlots'[i] = sSlots[i])
  <2>1. CASE sSlots' = Append(sSlots, k)
    <3>1. Len(sSlots') = Len(sSlots) + 1 /\ \A i \in 1 .. Len(sSlots') : sSlots'[i] = IF i = Len(sSlots) + 1 THEN k ELSE sSlots[i]
      BY <1>6, <2>1
    <3>3. PICK n \in Nat : n = Len(sSlots)
      BY <1>6
    <3>4. \A i \in 1 .. n + 1 : i = n + 1 \/ i \in 1 .. n
      OBVIOUS
    <3>5. n + 1 <= k
      BY <1>1, <1>6, <3>3
    <3> QED
      BY <3>1, <3>3, <3>4, <3>5
  <2>2. CASE sSlots' = [sSlots EXCEPT ![slot] = k]
    <3>1. Len(sSlots') = Len(sSlots) /\ \A i \in 1 .. Len(sSlots) : sSlots'[i] \in {k, sSlots[i]}
      BY <1>6, <2>2
    <3> QED
      BY <1>1, <1>6, <3>1
  <2> QED
    BY <1>5, <2>1, <2>2
<1>8. \A j \in Ids : sConn'[j].at \in Early => k < j
  <2> SUFFICES ASSUME NEW j \in Ids, sConn'[j].at \in Early PROVE k < j
    OBVIOUS
  <2>1. j # k /\ sConn[j].at \in Early
    BY <1>1, <1>4
  <2>2. ~(j < k)
    BY <1>1, <2>1 DEF SlotsInv
  <2> QED
    BY <2>1, <2>2 DEF Ids
<1>9. Len(sSlots') \in Nat
  BY <1>1, <1>5, <1>6
<1>10. (\A j \in Ids : sConn'[j].at \in Early => Len(sSlots') < j) /\ Len(sSlots') <= MaxOpened
  BY <1>1, <1>7, <1>8, <1>9, SubscriptionAssumption DEF Ids
<1>11. \A i, j \in Ids : i < j /\ sConn'[j].at # "none" => sConn'[i].at \notin Early
  <2> SUFFICES ASSUME NEW i \in Ids, NEW j \in Ids, i < j, sConn'[j].at # "none" PROVE sConn'[i].at \notin Early
    OBVIOUS
  <2>1. sConn[j].at # "none"
    BY <1>1, <1>4
  <2>2. sConn[i].at \notin Early
    BY <2>1 DEF SlotsInv
  <2> QED
    BY <1>1, <1>4, <2>2
<1>12. \A i \in 1 .. Len(sSlots') : sSlots'[i] \in 0 .. MaxOpened
  BY <1>1, <1>7 DEF SlotsInv
<1>13. \A i \in 1 .. Len(sSlots') : sSlots'[i] \in Ids => sConn'[sSlots'[i]].at \notin Early
  BY <1>1, <1>4, <1>7 DEF SlotsInv
<1> QED
  BY <1>1, <1>10, <1>11, <1>12, <1>13 DEF SlotsInv, Ids

LEMMA StagesDropped == ASSUME SubInv, SlotsInv, NEW h \in sHandles, DropSubscription(h) PROVE SlotsInv'
<1>1. SlotOf(h) \in Ids
  BY SlotOfHandle
<1>2. PICK k \in Ids : k = SlotOf(h)
  BY <1>1
<1>3. /\ sSlots' = [sSlots EXCEPT ![h.rep + 1] = 0] /\ UNCHANGED sPublished
      /\ sConn' = [sConn EXCEPT ![k].at = "closed", ![k].in = <<>>, ![k].inbox = <<>>, ![k].chans = {}]
  BY <1>2 DEF DropSubscription, Closed, Ids
<1>4. PICK c : /\ c = [sConn[k] EXCEPT !.at = "closed", !.in = <<>>, !.inbox = <<>>, !.chans = {}]
               /\ sConn' = [sConn EXCEPT ![k] = c]
  BY <1>3
<1>5. sConn \in [Ids -> Conns] /\ sSlots \in Seq(Nat) /\ MaxOpened \in Nat
  BY SubscriptionAssumption DEF SubInv, SubTypes
<1>6. c.at = "closed" /\ "closed" \notin Early
  BY <1>4, <1>5 DEF Conns, Early
<1>7. sConn'[k].at \notin Early /\ \A j \in Ids : j # k => sConn'[j] = sConn[j]
  BY <1>4, <1>5, <1>6
<1>8. Len(sSlots') = Len(sSlots) /\ \A i \in 1 .. Len(sSlots) : sSlots'[i] \in {0, sSlots[i]}
  BY <1>3, <1>5
<1>9. \A j \in Ids : sConn'[j].at \in Early => sConn[j].at \in Early
  BY <1>7
<1>10. k \in DOMAIN sConn /\ \A i, j \in Ids : i < j /\ sConn'[j].at # "none" => sConn'[i].at \notin Early
  <2> SUFFICES ASSUME NEW i \in Ids, NEW j \in Ids, i < j, sConn'[j].at # "none" PROVE sConn'[i].at \notin Early
    BY <1>5
  <2>1. PICK n \in 1 .. Len(sSlots) : sSlots[n] = k
    BY <1>2, <1>5 DEF SlotOf, Ids
  <2>2. sConn[k].at \notin Early
    BY <2>1 DEF SlotsInv
  <2>3. sConn[j].at # "none"
    BY <1>7, <2>2 DEF Early
  <2>4. sConn[i].at \notin Early
    BY <2>3 DEF SlotsInv
  <2> QED
    BY <1>9, <2>4
<1>11. \A i \in 1 .. Len(sSlots') : sSlots'[i] \in Ids => sConn'[sSlots'[i]].at \notin Early
  BY <1>8, <1>9 DEF SlotsInv, Ids
<1>12. \A i \in 1 .. Len(sSlots') : sSlots'[i] \in 0 .. MaxOpened
  BY <1>5, <1>8 DEF SlotsInv
<1>13. Len(sSlots') <= MaxOpened /\ \A j \in Ids : sConn'[j].at \in Early => Len(sSlots') < j
  BY <1>8, <1>9 DEF SlotsInv
<1>14. Ids' = Ids /\ sPublished' \in 0 .. MaxPublished
  BY <1>3 DEF SlotsInv, Ids
<1> QED
  BY <1>10, <1>11, <1>12, <1>13, <1>14 DEF SlotsInv

LEMMA SlotsInit == SInit => SlotsInv
<1> SUFFICES ASSUME SInit PROVE SlotsInv
  OBVIOUS
<1>1. Len(sSlots) = 0 /\ MaxOpened \in Nat /\ MaxPublished \in Nat /\ sPublished = 0
  BY SubscriptionAssumption DEF SInit
<1>2. \A k \in Ids : sConn[k].at = "none"
  BY DEF SInit, Unopened
<1> QED
  BY <1>1, <1>2 DEF SlotsInv, Ids, Early

LEMMA SlotsStep == SubInv /\ SlotsInv /\ [SNext]_sVars => SlotsInv'
<1> SUFFICES ASSUME SubInv, SlotsInv, [SNext]_sVars PROVE SlotsInv'
  OBVIOUS
<1>1. CASE UNCHANGED sVars
  BY <1>1 DEF sVars, SlotsInv, Ids
<1> QED
  BY <1>1, StagesOfConn, StagesOfCalls, StagesPublished, StagesStarted, StagesOpened, StagesDropped DEF SNext

\* The types of the subscriptions are kept, for any channels and any number of
\* them: no handle is of a slot beyond the subscriptions that were opened.
THEOREM SubscriptionTypeCorrect == SSpec => []STypeOK
<1>1. SubInv /\ SlotsInv => STypeOK
  <2> SUFFICES ASSUME SubInv, SlotsInv PROVE STypeOK
    OBVIOUS
  <2>1. /\ MaxOpened \in Nat /\ sSlots \in Seq(Nat) /\ Len(sSlots) \in Nat /\ DOMAIN sSlots = 1 .. Len(sSlots)
        /\ Len(sSlots) <= MaxOpened
    BY SubscriptionAssumption DEF SubInv, SubTypes, SlotsInv
  <2>2. \A i \in DOMAIN sSlots : sSlots[i] \in Ids \cup {0}
    BY <2>1 DEF SlotsInv, Ids
  <2>3. ASSUME NEW h \in sHandles PROVE h.rep \in 0 .. MaxOpened - 1 /\ h.sub \in Ids
    <3>1. h.rep \in Nat /\ h.sub \in Ids /\ SlotOf(h) = h.sub /\ SlotOf(h) # 0
      BY SlotOfHandle DEF Ids
    <3>2. h.rep + 1 \in DOMAIN sSlots
      BY <3>1 DEF SlotOf
    <3>3. h.rep + 1 \in 1 .. Len(sSlots)
      BY <2>1, <3>2
    <3> QED
      BY <2>1, <3>1, <3>3
  <2>4. \A k \in Ids : sConn[k].at \in ConnStages /\ sConn[k].chans \subseteq SubChannels
    <3>1. \A k \in Ids : sConn[k] \in Conns
      BY DEF SubInv, SubTypes
    <3> QED
      BY <3>1, ConnFields
  <2> QED
    BY <2>2, <2>3, <2>4 DEF STypeOK, SlotsInv, ConnStages
<1> QED
  BY <1>1, SubInitInv, SubStep, SlotsInit, SlotsStep, PTL DEF SSpec
-----------------------------------------------------------------------------
\* No more outcomes are recorded than are observed.
FewOutcomes == \A i \in HealthIds : Len(hOutcomes[i]) <= MaxOutcomes

LEMMA OutcomesStep == HealthInv /\ FewOutcomes /\ [HNext]_hVars => FewOutcomes'
<1> SUFFICES ASSUME HealthInv, FewOutcomes, [HNext]_hVars PROVE FewOutcomes'
  OBVIOUS
<1>1. hOutcomes \in [HealthIds -> Seq({"ok", "failed"})] /\ MaxOutcomes \in Nat
  BY HealthAssumption DEF HealthInv, HealthTypes
<1>2. ASSUME NEW i \in HealthIds, NEW os, Len(os) <= MaxOutcomes, hOutcomes' = [hOutcomes EXCEPT ![i] = os] PROVE FewOutcomes'
  BY <1>1, <1>2 DEF FewOutcomes
<1>3. ASSUME NEW i \in HealthIds, ForgetOutcomes(i) PROVE FewOutcomes'
  <2>1. PICK os : os = <<>> /\ hOutcomes' = [hOutcomes EXCEPT ![i] = os]
    BY <1>3 DEF ForgetOutcomes
  <2>2. Len(os) <= MaxOutcomes
    BY <1>1, <2>1
  <2> QED
    BY <1>2, <2>1, <2>2
<1>4. ASSUME NEW i \in HealthIds, NEW o, Observed(i, o) PROVE FewOutcomes'
  <2>1. PICK os : os = Append(hOutcomes[i], o) /\ hOutcomes' = [hOutcomes EXCEPT ![i] = os]
    BY <1>4 DEF Observed
  <2>2. Len(os) <= MaxOutcomes
    BY <1>1, <1>4, <2>1 DEF Observed
  <2> QED
    BY <1>2, <2>1, <2>2
<1>5. ASSUME UNCHANGED hOutcomes PROVE FewOutcomes'
  BY <1>5 DEF FewOutcomes
<1>6. CASE StartPingLoop \/ SendEviction \/ (\E ok \in BOOLEAN : CheckNext(ok)) \/ UNCHANGED hVars
  BY <1>5, <1>6 DEF StartPingLoop, SendEviction, CheckNext, hVars
<1>7. ASSUME NEW i \in HealthIds, Register(i) \/ Unregister(i) PROVE FewOutcomes'
  BY <1>3, <1>7 DEF Register, Unregister
<1>8. ASSUME NEW i \in HealthIds, RecordSuccess(i) \/ RecordFailure(i) PROVE FewOutcomes'
  BY <1>4, <1>8 DEF RecordSuccess, RecordFailure
<1> QED
  BY <1>6, <1>7, <1>8 DEF HNext

\* The types of the health monitor are kept: no streak is longer than the
\* outcomes that were recorded.
THEOREM HealthTypeCorrect == HSpec => []HTypeOK
<1>1. HInit => FewOutcomes
  BY HealthAssumption DEF HInit, FewOutcomes
<1>2. HealthInv /\ FewOutcomes => HTypeOK
  <2> SUFFICES ASSUME HealthInv, FewOutcomes PROVE HTypeOK
    OBVIOUS
  <2>1. ASSUME NEW i \in Monitored PROVE hHealth[i].status \in Statuses /\ hHealth[i].streak \in 0 .. MaxOutcomes
    <3>1. i \in HealthIds /\ hHealth[i] \in Recorded /\ hOutcomes[i] \in Seq({"ok", "failed"})
      BY DEF HealthInv, HealthTypes
    <3>2. hHealth[i].streak \in Nat /\ hHealth[i].status \in Statuses
      BY <3>1 DEF Recorded
    <3>3. hHealth[i].streak <= Len(hOutcomes[i]) /\ Len(hOutcomes[i]) <= MaxOutcomes /\ Len(hOutcomes[i]) \in Nat
      BY <3>1 DEF HealthInv, EndsWithRun, FewOutcomes
    <3> QED
      BY <3>2, <3>3, HealthAssumption
  <2> QED
    BY <2>1 DEF HealthInv, HealthTypes, HTypeOK
<1> QED
  BY <1>1, <1>2, HealthInitInv, HealthInvStep, OutcomesStep, PTL DEF HSpec
=============================================================================
