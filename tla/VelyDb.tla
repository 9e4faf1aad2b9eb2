------------------------------- MODULE VelyDb -------------------------------
(***************************************************************************)
(* The database layer of a worker (db.c) over its three drivers (pg.c,     *)
(* mys.c, lite.c): one connection for each database, kept from request to  *)
(* request, the transaction of the application, prepared statements, and   *)
(* connections that are lost and made again.                               *)
(*                                                                         *)
(* A statement of the application is one action: its first execution, a    *)
(* reconnect and its second execution.  The connection may be lost between *)
(* any two of them, also after a statement was done and before its answer. *)
(* Every server answers the way its kind answers; that part is external.   *)
(***************************************************************************)
EXTENDS Naturals, Sequences

CONSTANT Vendor      \* the kind of each database, in the order of ctx.db->conn

ASSUME VendorAssumption ==
    Vendor \in Seq({"postgres", "mariadb", "sqlite"}) \ {<<>>}

Db == DOMAIN Vendor

VARIABLES
    db,     \* of each database: its connection, and the session at the server
    pc,     \* "request", "check" and "report" for vely_check_transaction(0)
            \* and (1), "between" requests, "dead"
    pos,    \* i in vely_check_transaction
    err,    \* err in vely_check_transaction
    wrong   \* history: statements whose answer "0" was wrong

vars == <<db, pc, pos, err, wrong>>

Closing == {"commit", "rollback"}

\* The side of the worker: dbc, has_connected, is_begin_transaction and the
\* static pointer of a prepared statement, stuck when it was not reset.  The
\* side of the server: the state of the session, and does postgres know the
\* prepared statement by its name.  Then, for the properties: the transaction as the application knows it,
\* "kept" while all its work is in the session, "lost" when it is not, "none"
\* once a statement of it failed; and did a begin, commit or rollback fail in
\* this session.
Database == [dbc : {"null", "connected", "failed"}, has_connected : BOOLEAN,
             is_begin : BOOLEAN, prep : BOOLEAN, stuck : BOOLEAN,
             session : {"closed", "idle", "open", "aborted"}, named : BOOLEAN,
             work : {"none", "kept", "lost", "done"}, told : BOOLEAN]

Unconnected == [dbc |-> "null", has_connected |-> FALSE, is_begin |-> FALSE,
                prep |-> FALSE, stuck |-> FALSE, session |-> "closed", named |-> FALSE,
                work |-> "none", told |-> FALSE]

Init == /\ db = [d \in Db |-> Unconnected]
        /\ pc = "between" /\ pos = 1 /\ err = FALSE
        /\ wrong = {}

-----------------------------------------------------------------------------
(* The servers                                                             *)

\* The session after an error, and after success.
AfterError(v, s, sql) ==
    CASE v = "postgres" /\ s = "open" /\ sql # "commit" -> "aborted"
      [] v # "sqlite" /\ sql = "commit"                 -> "idle"
      [] OTHER                                          -> s
AfterSuccess(s, sql) == CASE sql = "begin"   -> "open"
                          [] sql \in Closing -> "idle"
                          [] OTHER           -> s

\* What cannot succeed in a session, and what cannot fail.
MustFail(v, s, sql) ==
    \/ s = "aborted" /\ sql \notin Closing
    \/ v = "sqlite" /\ sql = "begin" /\ s = "open"
    \/ v = "sqlite" /\ sql \in Closing /\ s = "idle"
NeverFails(v, s, sql) ==
    /\ sql \in Closing
    /\ ~MustFail(v, s, sql)
    /\ sql = "commit" => s # "open"

Refused(v, c, sql) == [res |-> "error",
                       c   |-> [c EXCEPT !.session = AfterError(v, @, sql)]]
Done(c, sql) ==
    [res |-> "ok",
     c   |-> [c EXCEPT !.session = AfterSuccess(@, sql),
                       !.work = IF sql = "commit" /\ @ = "kept" THEN "done" ELSE @]]

Closed(c) == [c EXCEPT !.session = "closed", !.named = FALSE,
                       !.work = IF @ = "kept" THEN "lost" ELSE @]

\* The answers to a statement that reached its server, an answer that is lost
\* with the connection among them.
Answers(v, c, sql) ==
    (IF NeverFails(v, c.session, sql) THEN {} ELSE {Refused(v, c, sql)}) \cup
    (IF MustFail(v, c.session, sql) THEN {} ELSE {Done(c, sql)}) \cup
    (IF MustFail(v, c.session, sql) \/ v = "sqlite" THEN {}
     ELSE {[res |-> "lost", c |-> Closed(Done(c, sql).c)]})

-----------------------------------------------------------------------------
(* Connections                                                             *)

\* vely_pg_prep_stmt, vely_maria_prep_stmt and vely_lite_prep_stmt: a statement
\* that is not NULL is taken as it is.  A server of postgres refuses a name that
\* it knows; the count of the inputs is checked once the statement is saved.
Unprepared(v, c) == [res |-> "error", c |-> Refused(v, c, "query").c]
Saved(c) == [c EXCEPT !.prep = TRUE]
PgPrepStmt(c) ==
    IF c.prep THEN {[res |-> "ok", c |-> c]}
    ELSE {Unprepared("postgres", c), [res |-> "lost", c |-> Closed(c)]} \cup
         (IF c.named \/ MustFail("postgres", c.session, "query") THEN {}
          ELSE {[res |-> "ok", c |-> [Saved(c) EXCEPT !.named = TRUE]]})
MariaPrepStmt(c) ==
    {[res |-> "ok", c |-> Saved(c)], [res |-> "error", c |-> Saved(c)]} \cup
    (IF c.prep THEN {}
     ELSE {Unprepared("mariadb", c), [res |-> "lost", c |-> Closed(c)]})
LitePrepStmt(c) ==
    {[res |-> "ok", c |-> Saved(c)], [res |-> "error", c |-> Saved(c)]} \cup
    (IF c.prep THEN {} ELSE {Unprepared("sqlite", c)})

\* vely_pg_exec.  A result of the other kind, with rows or without, is an error
\* of a statement that was done.
PgExec(c, sql) ==
    LET Query(k) == Answers("postgres", k, "query") \cup
            (IF MustFail("postgres", k.session, "query") THEN {}
             ELSE {[res |-> "error", c |-> Done(k, "query").c]})
    IN  IF c.session = "closed" THEN {[res |-> "lost", c |-> c]}
        ELSE CASE sql = "query" -> Query(c)
               [] sql = "prepared" ->
                    UNION {IF p.res # "ok" THEN {p}
                           ELSE IF ~p.c.named THEN {Unprepared("postgres", p.c)}
                           ELSE Query(p.c) : p \in PgPrepStmt(c)}
               [] OTHER -> Answers("postgres", c, sql)

\* vely_maria_exec
MariaExec(c, sql) ==
    IF c.session = "closed" THEN {[res |-> "lost", c |-> c]}
    ELSE IF sql = "prepared"
    THEN UNION {IF p.res # "ok" THEN {p} ELSE Answers("mariadb", p.c, "query") :
                   p \in MariaPrepStmt(c)}
    ELSE Answers("mariadb", c, sql)

\* vely_lite_exec and vely_lite_get_data.  An error returns before sqlite3_reset,
\* and no input can be bound to a statement that was not reset.
LiteExec(c, sql) ==
    IF c.session = "closed" THEN {[res |-> "error", c |-> c]}
    ELSE IF sql = "prepared"
    THEN UNION {IF p.res # "ok" THEN {p}
                ELSE IF p.c.stuck THEN {[res |-> "error", c |-> p.c]}
                ELSE {[a EXCEPT !.c.stuck = a.res = "error"] :
                         a \in Answers("sqlite", p.c, "query")} :
                   p \in LitePrepStmt(c)}
    ELSE Answers("sqlite", c, sql)

\* One execution of sql in the connection c.
Attempt(v, c, sql) == CASE v = "postgres" -> PgExec(c, sql)
                        [] v = "mariadb"  -> MariaExec(c, sql)
                        [] v = "sqlite"   -> LiteExec(c, sql)

Try(dbs, d, sql) == {[res |-> a.res, dbs |-> [dbs EXCEPT ![d] = a.c]] :
                        a \in Attempt(Vendor[d], dbs[d], sql)}

\* vely_end_connection(1)
EndConnection(c) == [Closed(c) EXCEPT !.dbc = "null", !.is_begin = FALSE]

BugPrepsKept(dbs, d) == dbs

\* vely_db_prep(NULL): all prepared statements of this kind of database are
\* forgotten.  dbc is NULL then, so no server is told.
PrepsReset(dbs, d) ==
    [e \in Db |-> IF Vendor[e] # Vendor[d] THEN dbs[e]
                  ELSE [dbs[e] EXCEPT !.prep = FALSE, !.stuck = FALSE]]

Connected(c) == [c EXCEPT !.dbc = "connected", !.has_connected = TRUE,
                          !.is_begin = FALSE, !.session = "idle", !.told = FALSE]

\* What an error in vely_pg_connect, vely_maria_connect or vely_lite_connect
\* leaves of dbc: it is reported before vely_end_connection, but for the settings
\* that mariadb gets.
PgConnect == {"failed"}
MariaConnect == {"failed", "null"}
LiteConnect == {"failed"}

Connect(dbs, d) ==
    LET reset == PrepsReset(dbs, d)
        left  == CASE Vendor[d] = "postgres" -> PgConnect
                   [] Vendor[d] = "mariadb"  -> MariaConnect
                   [] Vendor[d] = "sqlite"   -> LiteConnect
    IN  {[res |-> "ok", dbs |-> [reset EXCEPT ![d] = Connected(@)]]} \cup
        {[res |-> "report", dbs |-> [reset EXCEPT ![d].dbc = l]] : l \in left}

\* vely_get_db_connection
GetConnection(dbs, d) ==
    IF dbs[d].dbc # "null" THEN {[res |-> "ok", dbs |-> dbs]}
    ELSE IF dbs[d].has_connected /\ dbs[d].is_begin
    THEN {[res |-> "report", dbs |-> dbs]}
    ELSE Connect(dbs, d)

BugMayRetry(c) == TRUE

MayRetry(c) == ~c.is_begin

\* Go on with f after those results that are r.
Follow(results, r, f(_)) ==
    UNION {IF x.res = r THEN f(x.dbs) ELSE {x} : x \in results}

\* vely_retry_db, and the second execution
Retry(dbs, d, sql) ==
    Follow(GetConnection([dbs EXCEPT ![d] = EndConnection(@)], d), "ok",
           LAMBDA D : Try(D, d, sql))

\* vely_execute_SQL: "ok", "error" or "lost" for vely_handle_error, "report"
\* for an error that is reported whatever on-error says.
Execute(dbs, d, sql) ==
    LET Once(D) == Try(D, d, sql)
        Lost(D) == IF MayRetry(D[d]) THEN Retry(D, d, sql)
                   ELSE {[res |-> "lost", dbs |-> D]}
    IN  Follow(GetConnection(dbs, d), "ok", LAMBDA D : Follow(Once(D), "lost", Lost))

\* vely_make_SQL: the text of a query is made with its inputs, which takes a
\* connection, and may be refused.
MakeSQL(dbs, d) ==
    LET made == {[res |-> "ok", dbs |-> dbs]} \cup GetConnection(dbs, d)
    IN  made \cup {[m EXCEPT !.res = "report"] : m \in made}

\* vely_maria_store and vely_maria_stmt_rows: what can go wrong with the rows,
\* which come from the server.
MariaRows(c) == {[res |-> "error", c |-> c], [res |-> "lost", c |-> Closed(c)]}

\* vely_select_table after the execution; it does not reconnect for the rows.
\* The other drivers have them already.
Fetch(dbs, d) ==
    {[res |-> "ok", dbs |-> dbs]} \cup
    (IF Vendor[d] # "mariadb" THEN {}
     ELSE {[res |-> r.res, dbs |-> [dbs EXCEPT ![d] = r.c]] : r \in MariaRows(dbs[d])})

\* All of a statement; the text of a prepared one is made once.
Outcomes(dbs, d, sql) ==
    LET Run(D) == Execute(D, d, sql)
    IN  CASE sql = "query" -> Follow(Follow(MakeSQL(dbs, d), "ok", Run), "ok",
                                     LAMBDA D : Fetch(D, d))
          [] sql = "prepared" -> Follow(Run(dbs), "ok", LAMBDA D : Fetch(D, d))
          [] OTHER -> Run(dbs)

-----------------------------------------------------------------------------
(* The application                                                         *)

BugFlagAfterBegin(res) == TRUE

\* is_begin_transaction when begin-transaction goes on
FlagAfterBegin(res) == res = "ok"

\* vely_commit and vely_rollback clear the flag before they execute anything.
FlagCleared(sql, d) ==
    [db EXCEPT ![d].is_begin = @ /\ sql \notin Closing]

\* The connection once the statement is over; stopped, by an error that is
\* reported, or not.
Settled(c, sql, res, stopped) ==
    [c EXCEPT !.is_begin = IF sql = "begin" /\ ~stopped THEN FlagAfterBegin(res)
                           ELSE @,
              !.work = CASE sql = "begin" /\ res = "ok" -> "kept"
                         [] sql \in Closing \/ res # "ok" -> "none"
                         [] OTHER -> @,
              !.told = @ \/ (res # "ok" /\ sql \notin {"query", "prepared"})]

\* A success that is none: the work of a transaction, all of which the
\* application was told is fine, is not committed; or a query of it ran
\* outside of it.
Wrong(c, sql) ==
    CASE sql = "commit" /\ c.work = "lost" -> {"commit"}
      [] sql \in {"query", "prepared"} /\ c.work \in {"kept", "lost"}
         /\ c.session # "open" -> {"query"}
      [] OTHER -> {}

\* sql is executed and the result is as on-error and the clauses of the
\* statement have it.
Perform(d, sql, stopped) ==
    \E r \in Outcomes(FlagCleared(sql, d), d, sql) :
        /\ r.res = "ok" => ~stopped
        /\ r.res = "report" => stopped
        /\ db' = [r.dbs EXCEPT ![d] = Settled(@, sql, r.res, stopped)]
        /\ wrong' = IF r.res = "ok" THEN wrong \cup Wrong(r.dbs[d], sql) ELSE wrong

StartCheck(kind) == pc' = kind /\ pos' = 1 /\ err' = FALSE

\* A statement of the request; in an error, report-error may follow.
Statement(d, sql) ==
    /\ pc = "request"
    /\ \/ Perform(d, sql, FALSE) /\ UNCHANGED <<pc, pos, err>>
       \/ Perform(d, sql, TRUE) /\ StartCheck("report")

BeginTransaction(d) == Statement(d, "begin")
CommitTransaction(d) == Statement(d, "commit")
RollbackTransaction(d) == Statement(d, "rollback")
RunQuery(d) == Statement(d, "query")
RunPreparedQuery(d) == Statement(d, "prepared")

ReportError == pc = "request" /\ StartCheck("report") /\ UNCHANGED <<db, wrong>>

EndRequest == pc = "request" /\ StartCheck("check") /\ UNCHANGED <<db, wrong>>

BugStopAtFirst(i) == Len(Vendor) + 1

AfterRollback(i) == i + 1

\* vely_check_transaction, for one database
CheckOne ==
    /\ pc \in {"check", "report"} /\ pos \in Db
    /\ \/ /\ ~db[pos].is_begin
          /\ pos' = pos + 1
          /\ UNCHANGED <<db, pc, err, wrong>>
       \/ /\ db[pos].is_begin
          /\ Perform(pos, "rollback", FALSE)
          /\ pos' = AfterRollback(pos) /\ err' = TRUE
          /\ UNCHANGED pc
       \/ /\ db[pos].is_begin
          /\ Perform(pos, "rollback", TRUE)
          /\ IF pc = "check" THEN StartCheck("report")
             ELSE pc' = "dead" /\ UNCHANGED <<pos, err>>

\* The end of it: an error for a transaction that the request left open, or
\* the end of the request.
CheckDone ==
    /\ pc \in {"check", "report"} /\ pos \notin Db
    /\ IF pc = "check" /\ err THEN StartCheck("report")
       ELSE pc' = "between" /\ UNCHANGED <<pos, err>>
    /\ UNCHANGED <<db, wrong>>

NextRequest == /\ pc = "between"
               /\ pc' = "request"
               /\ db' = [d \in Db |-> [db[d] EXCEPT !.work = "none"]]
               /\ UNCHANGED <<pos, err, wrong>>

\* A connection is lost: the server is down or restarted, or it gave up.
Drop(d) == /\ Vendor[d] # "sqlite"
           /\ db[d].session # "closed"
           /\ db' = [db EXCEPT ![d] = Closed(@)]
           /\ UNCHANGED <<pc, pos, err, wrong>>

Dead == pc = "dead" /\ UNCHANGED vars

Next == \/ \E d \in Db : Drop(d)
        \/ \E d \in Db : BeginTransaction(d) \/ CommitTransaction(d) \/ RollbackTransaction(d)
        \/ \E d \in Db : RunQuery(d) \/ RunPreparedQuery(d)
        \/ ReportError \/ EndRequest \/ CheckOne \/ CheckDone \/ NextRequest
        \/ Dead

Spec == Init /\ [][Next]_vars
-----------------------------------------------------------------------------
(* Properties                                                              *)

\* Also: a connection is there only after has_connected (db.c:136), and a
\* session only in a connection.
TypeOK == /\ db \in [Db -> Database]
          /\ \A d \in Db : /\ db[d].dbc = "connected" => db[d].has_connected
                           /\ db[d].session # "closed" => db[d].dbc = "connected"
          /\ pc \in {"request", "check", "report", "between", "dead"}
          /\ pos \in 1 .. Len(Vendor) + 1
          /\ err \in BOOLEAN
          /\ wrong \subseteq {"commit", "query"}

\* While is_begin_transaction is set, the server is in a transaction or the
\* connection is gone: there is no work that commits by itself
\* (db.c:154-180, 233-280).
FlagMeansOpen == \A d \in Db : db[d].is_begin => db[d].session # "idle"

\* No query of a transaction is told to be fine after it ran outside of the
\* transaction, whenever the connection is lost: execute_SQL does not
\* reconnect within one (db.c:390-397).
StatementsTogether == "query" \notin wrong

\* When a request is over, and no begin, commit or rollback failed in the
\* session, its server is in no transaction that the next request would go on
\* with (db.c:201-225; v1.c:6962).
NoTransactionKept ==
    pc = "between" => \A d \in Db : db[d].told \/ db[d].session \in {"closed", "idle"}

\* A prepared statement that the worker takes for prepared is, and one that
\* it has to prepare is unknown to the server (pg.c:172-214; db.c:932-960).
PreparedUsable ==
    \A d \in Db : (Vendor[d] = "postgres" /\ db[d].session # "closed")
                     => db[d].prep = db[d].named

\* begin-transaction: a transaction that a request left open is rolled back
\* when the request has completed.  When a commit failed, it is not: see the
\* README.
NothingLeftOpen ==
    pc = "between" => \A d \in Db : db[d].session \in {"closed", "idle"}

\* The code means not to reconnect in a transaction, whose work is lost.  It
\* does in a commit: see the README.
CommitKept == "commit" \notin wrong
=============================================================================
