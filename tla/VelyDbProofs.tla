---------------------------- MODULE VelyDbProofs ----------------------------
(***************************************************************************)
(* Proofs about VelyDb, for any databases of an application.               *)
(*                                                                         *)
(* A statement is followed through its executions: Ready is what holds of  *)
(* a connection before each of them, Over after it, and Sound once the     *)
(* statement is settled.                                                   *)
(***************************************************************************)
EXTENDS VelyDb, TLAPS

Kinds == {"postgres", "mariadb", "sqlite"}
Queries == {"query", "prepared"}
Statements == {"begin", "commit", "rollback", "query", "prepared"}
Results == {"ok", "error", "lost", "report"}

\* A connection: is_begin_transaction is set only while it is there, and not
\* while the server is in no transaction.
Coherent(c) ==
    /\ c \in Database
    /\ c.dbc = "connected" => c.has_connected
    /\ c.session # "closed" => c.dbc = "connected"
    /\ c.is_begin => c.dbc = "connected" /\ c.session # "idle"

\* The work of a transaction is in an open one, or lost with its connection.
WorkKept(c) ==
    /\ c.work = "kept" => c.is_begin /\ c.session = "open"
    /\ c.work = "lost" => c.is_begin /\ c.session = "closed"
    /\ c.work # "done"

\* A transaction at the server is known to the worker, or an error was told.
Known(c) == c.session \in {"open", "aborted"} => c.is_begin \/ c.told

Sound(c) == Coherent(c) /\ WorkKept(c) /\ Known(c)

\* Before sql is executed, for the first or the second time.
Ready(c, sql) ==
    /\ Coherent(c)
    /\ sql \in Closing => ~c.is_begin
    /\ sql \in Queries => WorkKept(c) /\ Known(c)

\* After sql was executed with the result res.
Over(c, sql, res) ==
    /\ res \in Results
    /\ Coherent(c)
    /\ sql \in Closing => ~c.is_begin
    /\ sql \in Queries => Known(c) /\ (res \in {"ok", "lost"} => WorkKept(c))
    /\ res = "ok" => /\ c.session # "closed"
                     /\ sql = "begin" => c.session = "open"
                     /\ sql \in Closing => c.session = "idle"

\* The server of postgres and the worker agree on the prepared statement.
Agreed(v, c) == v = "postgres" => c.named = (c.prep /\ c.session # "closed")

-----------------------------------------------------------------------------
(* The servers                                                             *)

(* A statement that is refused, or done, changes the session and the work. *)
LEMMA RefusedFacts ==
  ASSUME NEW v \in Kinds, NEW c \in Database, NEW sql \in Statements
  PROVE  /\ Refused(v, c, sql).res = "error"
         /\ Refused(v, c, sql).c \in Database
         /\ Refused(v, c, sql).c.session = AfterError(v, c.session, sql)
         /\ AfterError(v, c.session, sql) \in {"closed", "idle", "open", "aborted"}
         /\ \A f \in {"dbc", "has_connected", "is_begin", "prep", "stuck", "named", "work", "told"} :
                Refused(v, c, sql).c[f] = c[f]
<1>1. AfterError(v, c.session, sql) \in {"closed", "idle", "open", "aborted"}
  BY DEF AfterError, Database
<1>2. PICK s : s = AfterError(v, c.session, sql)
  OBVIOUS
<1>3. Refused(v, c, sql) = [res |-> "error", c |-> [c EXCEPT !.session = s]]
  BY <1>2 DEF Refused
<1>4. QED
  BY <1>1, <1>2, <1>3 DEF Database

(* A statement that is done.                                               *)
LEMMA DoneFacts ==
  ASSUME NEW c \in Database, NEW sql \in Statements
  PROVE  /\ Done(c, sql).res = "ok"
         /\ Done(c, sql).c \in Database
         /\ Done(c, sql).c.session = AfterSuccess(c.session, sql)
         /\ Done(c, sql).c.work = IF sql = "commit" /\ c.work = "kept" THEN "done" ELSE c.work
         /\ \A f \in {"dbc", "has_connected", "is_begin", "prep", "stuck", "named", "told"} :
                Done(c, sql).c[f] = c[f]
<1>1. AfterSuccess(c.session, sql) \in {"closed", "idle", "open", "aborted"}
  BY DEF AfterSuccess, Closing, Database
<1>2. PICK s : s = AfterSuccess(c.session, sql)
  OBVIOUS
<1>3. PICK w : w = IF sql = "commit" /\ c.work = "kept" THEN "done" ELSE c.work
  OBVIOUS
<1>4. w \in {"none", "kept", "lost", "done"}
  BY <1>3 DEF Database
<1>5. Done(c, sql) = [res |-> "ok", c |-> [c EXCEPT !.session = s, !.work = w]]
  BY <1>2, <1>3 DEF Done, Database
<1>6. PICK k : k = [c EXCEPT !.session = s, !.work = w]
  OBVIOUS
<1>7. /\ k \in Database /\ k.session = s /\ k.work = w
      /\ \A f \in {"dbc", "has_connected", "is_begin", "prep", "stuck", "named", "told"} :
             k[f] = c[f]
  BY <1>1, <1>2, <1>4, <1>6 DEF Database
<1>8. Done(c, sql).res = "ok" /\ Done(c, sql).c = k
  BY <1>5, <1>6
<1>9. QED
  BY <1>2, <1>3, <1>7, <1>8

(* A connection that is lost: the server forgets the session.              *)
LEMMA ClosedFacts ==
  ASSUME NEW c \in Database
  PROVE  /\ Closed(c) \in Database
         /\ Closed(c).session = "closed"
         /\ Closed(c).named = FALSE
         /\ Closed(c).work = IF c.work = "kept" THEN "lost" ELSE c.work
         /\ \A f \in {"dbc", "has_connected", "is_begin", "prep", "stuck", "told"} :
                Closed(c)[f] = c[f]
<1>1. PICK w : w = IF c.work = "kept" THEN "lost" ELSE c.work
  OBVIOUS
<1>2. w \in {"none", "kept", "lost", "done"}
  BY <1>1 DEF Database
<1>3. Closed(c) = [c EXCEPT !.session = "closed", !.named = FALSE, !.work = w]
  BY <1>1 DEF Closed, Database
<1>4. QED
  BY <1>1, <1>2, <1>3 DEF Database

(* The loss of a connection leaves what holds of it.                       *)
LEMMA ClosedKeeps ==
  ASSUME NEW c, Coherent(c)
  PROVE  /\ Coherent(Closed(c))
         /\ Known(Closed(c))
         /\ WorkKept(c) => WorkKept(Closed(c))
         /\ \A v \in Kinds : Agreed(v, Closed(c))
         /\ \A sql \in Statements : Ready(c, sql) => Over(Closed(c), sql, "lost")
<1>1. c \in Database
  BY DEF Coherent
<1>2. PICK k : k = Closed(c)
  OBVIOUS
<1>3. /\ k \in Database /\ k.session = "closed" /\ k.named = FALSE
      /\ k.work = IF c.work = "kept" THEN "lost" ELSE c.work
      /\ k.dbc = c.dbc /\ k.has_connected = c.has_connected
      /\ k.is_begin = c.is_begin /\ k.prep = c.prep
  BY <1>1, <1>2, ClosedFacts
<1>4. Coherent(k)
  BY <1>3 DEF Coherent
<1>5. Known(k)
  BY <1>3 DEF Known
<1>6. WorkKept(c) => WorkKept(k)
  BY <1>3 DEF WorkKept
<1>7. \A v \in Kinds : Agreed(v, k)
  BY <1>3 DEF Agreed
<1>8. \A sql \in Statements : Ready(c, sql) => Over(k, sql, "lost")
  BY <1>3, <1>4, <1>5, <1>6 DEF Ready, Over, Results
<1>9. QED
  BY <1>2, <1>4, <1>5, <1>6, <1>7, <1>8

(* A server that refuses a statement.                                      *)
LEMMA RefusedOver ==
  ASSUME NEW v \in Kinds, NEW c, NEW sql \in Statements \ {"prepared"}, Ready(c, sql),
         c.session # "closed"
  PROVE  /\ Over(Refused(v, c, sql).c, sql, "error")
         /\ Agreed(v, c) => Agreed(v, Refused(v, c, sql).c)
<1>1. c \in Database /\ Coherent(c)
  BY DEF Ready, Coherent
<1>2. PICK k : k = Refused(v, c, sql).c
  OBVIOUS
<1>3. /\ k \in Database
      /\ k.session = AfterError(v, c.session, sql)
      /\ k.dbc = c.dbc /\ k.has_connected = c.has_connected /\ k.named = c.named
      /\ k.is_begin = c.is_begin /\ k.prep = c.prep /\ k.told = c.told
  BY <1>1, <1>2, RefusedFacts
<1>4. /\ k.session # "closed"
      /\ k.session = "idle" => c.session = "idle" \/ sql = "commit"
      /\ k.session \in {"open", "aborted"} => c.session \in {"open", "aborted"}
  BY <1>1, <1>3 DEF AfterError, Database
<1>5. QED
  BY <1>1, <1>2, <1>3, <1>4 DEF Ready, Over, Results, Coherent, Known, Agreed, Queries, Closing

(* A server that does a statement.                                         *)
LEMMA DoneOver ==
  ASSUME NEW v \in Kinds, NEW c, NEW sql \in Statements \ {"prepared"}, Ready(c, sql),
         c.session # "closed"
  PROVE  /\ Over(Done(c, sql).c, sql, "ok")
         /\ Ready(Done(c, sql).c, sql)
         /\ Agreed(v, c) => Agreed(v, Done(c, sql).c)
<1>1. c \in Database /\ Coherent(c)
  BY DEF Ready, Coherent
<1>2. PICK k : k = Done(c, sql).c
  OBVIOUS
<1>3. /\ k \in Database
      /\ k.session = AfterSuccess(c.session, sql)
      /\ k.dbc = c.dbc /\ k.has_connected = c.has_connected /\ k.named = c.named
      /\ k.is_begin = c.is_begin /\ k.prep = c.prep /\ k.told = c.told
      /\ sql # "commit" => k.work = c.work
  BY <1>1, <1>2, DoneFacts
<1>4. /\ k.session # "closed"
      /\ sql = "begin" => k.session = "open"
      /\ sql \in Closing => k.session = "idle"
      /\ sql \in Queries => k.session = c.session
  BY <1>1, <1>3 DEF AfterSuccess, Database, Closing, Queries
<1>5. Coherent(k)
  BY <1>1, <1>3, <1>4 DEF Coherent, Ready, Statements, Queries, Closing
<1>6. sql \in Queries => WorkKept(k) /\ Known(k)
  BY <1>1, <1>3, <1>4 DEF Ready, WorkKept, Known, Queries
<1>7. Agreed(v, c) => Agreed(v, k)
  BY <1>3, <1>4 DEF Agreed
<1>8. sql \in Closing => ~k.is_begin
  BY <1>3 DEF Ready
<1>9. QED
  BY <1>2, <1>4, <1>5, <1>6, <1>7, <1>8 DEF Ready, Over, Results

(* Whatever a server answers, and when the answer is lost.                 *)
LEMMA AnswersOver ==
  ASSUME NEW v \in Kinds, NEW c, NEW sql \in Statements \ {"prepared"}, Ready(c, sql),
         c.session # "closed", NEW a \in Answers(v, c, sql)
  PROVE  /\ Over(a.c, sql, a.res)
         /\ Agreed(v, c) => Agreed(v, a.c)
<1>1. \/ a = Refused(v, c, sql)
      \/ a = Done(c, sql)
      \/ a = [res |-> "lost", c |-> Closed(Done(c, sql).c)]
  BY DEF Answers
<1>2. c \in Database
  BY DEF Ready, Coherent
<1>3. CASE a = Refused(v, c, sql)
  BY <1>2, <1>3, RefusedFacts, RefusedOver
<1>4. CASE a = Done(c, sql)
  BY <1>2, <1>4, DoneFacts, DoneOver
<1>5. CASE a = [res |-> "lost", c |-> Closed(Done(c, sql).c)]
  <2>1. Ready(Done(c, sql).c, sql)
    BY DoneOver
  <2>2. Coherent(Done(c, sql).c)
    BY <2>1 DEF Ready
  <2>3. a.res = "lost" /\ a.c = Closed(Done(c, sql).c)
    BY <1>5
  <2>4. QED
    BY <2>1, <2>2, <2>3, ClosedKeeps
<1>6. QED
  BY <1>1, <1>3, <1>4, <1>5

(* A query and a prepared query are alike in what is said of them.         *)
LEMMA PreparedAsQuery ==
  ASSUME NEW c
  PROVE  /\ Ready(c, "prepared") <=> Ready(c, "query")
         /\ \A res : Over(c, "prepared", res) <=> Over(c, "query", res)
BY DEF Ready, Over, Queries, Closing

-----------------------------------------------------------------------------
(* The drivers                                                             *)

(* A prepared statement is saved in the worker.                            *)
LEMMA SavedFacts ==
  ASSUME NEW c \in Database
  PROVE  /\ Saved(c) \in Database
         /\ Saved(c).prep = TRUE
         /\ \A f \in {"dbc", "has_connected", "is_begin", "stuck", "session", "named", "work", "told"} :
                Saved(c)[f] = c[f]
BY DEF Saved, Database

(* A new value of prep, stuck or named leaves what is known of the         *)
(* transaction.                                                            *)
LEMMA SameTransaction ==
  ASSUME NEW c, NEW k \in Database,
         \A f \in {"dbc", "has_connected", "is_begin", "session", "work", "told"} : k[f] = c[f]
  PROVE  /\ Coherent(c) => Coherent(k)
         /\ Sound(c) => Sound(k)
         /\ \A sql : Ready(c, sql) => Ready(k, sql)
         /\ \A sql, res : Over(c, sql, res) => Over(k, sql, res)
<1>1. /\ k.dbc = c.dbc /\ k.has_connected = c.has_connected /\ k.is_begin = c.is_begin
      /\ k.session = c.session /\ k.work = c.work /\ k.told = c.told
  OBVIOUS
<1>2. Coherent(c) => Coherent(k)
  BY <1>1 DEF Coherent
<1>3. WorkKept(c) <=> WorkKept(k)
  BY <1>1 DEF WorkKept
<1>4. Known(c) <=> Known(k)
  BY <1>1 DEF Known
<1>5. QED
  BY <1>1, <1>2, <1>3, <1>4 DEF Sound, Ready, Over

\* What a step of a prepared statement leaves: the next step goes on from "ok".
Prepared(v, c, p) ==
    /\ p.res \in {"ok", "error", "lost"}
    /\ p.res = "ok" => Ready(p.c, "query") /\ p.c.session # "closed"
    /\ p.res # "ok" => Over(p.c, "query", p.res)
    /\ Agreed(v, c) => Agreed(v, p.c)

(* Preparing fails.                                                        *)
LEMMA UnpreparedOver ==
  ASSUME NEW v \in Kinds, NEW c, Ready(c, "query"), c.session # "closed"
  PROVE  Prepared(v, c, Unprepared(v, c)) /\ Unprepared(v, c).res = "error"
<1>1. PICK u : u = Unprepared(v, c)
  OBVIOUS
<1>2. u.res = "error" /\ u.c = Refused(v, c, "query").c
  BY <1>1 DEF Unprepared
<1>3. Over(u.c, "query", "error") /\ (Agreed(v, c) => Agreed(v, u.c))
  BY <1>2, RefusedOver DEF Statements
<1>4. QED
  BY <1>1, <1>2, <1>3 DEF Prepared

(* The connection is lost while a statement is prepared.                   *)
LEMMA LostPrepared ==
  ASSUME NEW v \in Kinds, NEW c, Ready(c, "query"), NEW p, p = [res |-> "lost", c |-> Closed(c)]
  PROVE  Prepared(v, c, p)
<1>1. p.res = "lost" /\ p.c = Closed(c) /\ Coherent(c)
  BY DEF Ready
<1>2. Agreed(v, p.c) /\ Over(p.c, "query", "lost")
  BY <1>1, ClosedKeeps DEF Statements
<1>3. QED
  BY <1>1, <1>2 DEF Prepared

(* A saved statement, of another vendor than postgres.                     *)
LEMMA SavedPrepared ==
  ASSUME NEW v \in Kinds \ {"postgres"}, NEW c, Ready(c, "query"), c.session # "closed",
         NEW p, p.c = Saved(c), p.res \in {"ok", "error"}
  PROVE  Prepared(v, c, p)
<1>1. c \in Database
  BY DEF Ready, Coherent
<1>2. Ready(p.c, "query") /\ p.c.session # "closed"
  BY <1>1, SavedFacts, SameTransaction
<1>3. Over(p.c, "query", "error")
  BY <1>2 DEF Ready, Over, Results, Closing
<1>4. QED
  BY <1>2, <1>3 DEF Prepared, Agreed

(* vely_pg_prep_stmt                                                       *)
LEMMA PgPrepared ==
  ASSUME NEW c, Ready(c, "query"), c.session # "closed", NEW p \in PgPrepStmt(c)
  PROVE  Prepared("postgres", c, p)
<1>1. c \in Database /\ "postgres" \in Kinds
  BY DEF Ready, Coherent, Kinds
<1>2. CASE c.prep
  <2>1. p.res = "ok" /\ p.c = c
    BY <1>2 DEF PgPrepStmt
  <2>2. QED
    BY <2>1 DEF Prepared
<1>3. CASE p = Unprepared("postgres", c)
  BY <1>1, <1>3, UnpreparedOver
<1>4. CASE p = [res |-> "lost", c |-> Closed(c)]
  BY <1>1, <1>4, LostPrepared
<1>5. CASE p = [res |-> "ok", c |-> [Saved(c) EXCEPT !.named = TRUE]]
  <2>1. PICK s : s = Saved(c)
    OBVIOUS
  <2>2. /\ s \in Database /\ s.prep = TRUE
        /\ \A f \in {"dbc", "has_connected", "is_begin", "session", "work", "told"} : s[f] = c[f]
    BY <1>1, <2>1, SavedFacts
  <2>3. PICK k : k = [s EXCEPT !.named = TRUE]
    OBVIOUS
  <2>4. /\ k \in Database /\ k.prep = TRUE /\ k.named = TRUE
        /\ \A f \in {"dbc", "has_connected", "is_begin", "session", "work", "told"} : k[f] = s[f]
    BY <2>2, <2>3 DEF Database
  <2>5. \A f \in {"dbc", "has_connected", "is_begin", "session", "work", "told"} : k[f] = c[f]
    BY <2>2, <2>4
  <2>6. Ready(k, "query") /\ k.session # "closed"
    BY <2>4, <2>5, SameTransaction
  <2>7. p.res = "ok" /\ p.c = k
    BY <1>5, <2>1, <2>3
  <2>8. QED
    BY <2>4, <2>6, <2>7 DEF Prepared, Agreed
<1>6. QED
  BY <1>2, <1>3, <1>4, <1>5 DEF PgPrepStmt

(* vely_maria_prep_stmt                                                    *)
LEMMA MariaPrepared ==
  ASSUME NEW c, Ready(c, "query"), c.session # "closed", NEW p \in MariaPrepStmt(c)
  PROVE  Prepared("mariadb", c, p)
<1>1. "mariadb" \in Kinds \ {"postgres"}
  BY DEF Kinds
<1>2. CASE p.c = Saved(c) /\ p.res \in {"ok", "error"}
  BY <1>1, <1>2, SavedPrepared
<1>3. CASE p = Unprepared("mariadb", c)
  BY <1>1, <1>3, UnpreparedOver
<1>4. CASE p = [res |-> "lost", c |-> Closed(c)]
  BY <1>1, <1>4, LostPrepared
<1>5. QED
  BY <1>2, <1>3, <1>4 DEF MariaPrepStmt

(* vely_lite_prep_stmt                                                     *)
LEMMA LitePrepared ==
  ASSUME NEW c, Ready(c, "query"), c.session # "closed", NEW p \in LitePrepStmt(c)
  PROVE  Prepared("sqlite", c, p)
<1>1. "sqlite" \in Kinds \ {"postgres"}
  BY DEF Kinds
<1>2. CASE p.c = Saved(c) /\ p.res \in {"ok", "error"}
  BY <1>1, <1>2, SavedPrepared
<1>3. CASE p = Unprepared("sqlite", c)
  BY <1>1, <1>3, UnpreparedOver
<1>4. QED
  BY <1>2, <1>3 DEF LitePrepStmt

\* What an execution in the connection c leaves.
Executes(v, c, sql, a) == /\ a.res \in {"ok", "error", "lost"}
                          /\ Over(a.c, sql, a.res)
                          /\ Agreed(v, c) => Agreed(v, a.c)

(* A connection that is lost already.                                      *)
LEMMA ClosedExecutes ==
  ASSUME NEW v \in Kinds, NEW c, NEW sql \in Statements, Ready(c, sql), NEW a,
         a.c = c, a.res \in {"lost", "error"}
  PROVE  Executes(v, c, sql, a)
BY DEF Executes, Ready, Over, Results

(* The answers of a server are those of an execution.                      *)
LEMMA AnswersExecute ==
  ASSUME NEW v \in Kinds, NEW c, NEW sql \in Statements \ {"prepared"}, Ready(c, sql),
         c.session # "closed", NEW a \in Answers(v, c, sql)
  PROVE  Executes(v, c, sql, a)
<1>1. a.res \in {"ok", "error", "lost"}
  <2>1. c \in Database
    BY DEF Ready, Coherent
  <2>2. Refused(v, c, sql).res = "error" /\ Done(c, sql).res = "ok"
    BY <2>1, RefusedFacts, DoneFacts
  <2>3. QED
    BY <2>2 DEF Answers
<1>2. QED
  BY <1>1, AnswersOver DEF Executes

(* What is executed after a successful preparation is a prepared query.    *)
LEMMA ThenExecutes ==
  ASSUME NEW v \in Kinds, NEW c, NEW p, Prepared(v, c, p), p.res = "ok",
         NEW a, Executes(v, p.c, "query", a)
  PROVE  Executes(v, c, "prepared", a)
BY PreparedAsQuery DEF Prepared, Executes

(* A preparation that fails is the end of a prepared query.                *)
LEMMA NotPrepared ==
  ASSUME NEW v \in Kinds, NEW c, NEW p, Prepared(v, c, p), p.res # "ok"
  PROVE  Executes(v, c, "prepared", p)
BY PreparedAsQuery DEF Prepared, Executes

(* A query of postgres: a result of the other kind is an error of a        *)
(* statement that was done.                                                *)
LEMMA PgQueryExecutes ==
  ASSUME NEW c, Ready(c, "query"), c.session # "closed", NEW a,
         \/ a \in Answers("postgres", c, "query")
         \/ a = [res |-> "error", c |-> Done(c, "query").c]
  PROVE  Executes("postgres", c, "query", a)
<1>1. "postgres" \in Kinds /\ "query" \in Statements \ {"prepared"}
  BY DEF Kinds, Statements
<1>2. CASE a \in Answers("postgres", c, "query")
  BY <1>1, <1>2, AnswersExecute
<1>3. CASE a = [res |-> "error", c |-> Done(c, "query").c]
  <2>1. a.res = "error" /\ a.c = Done(c, "query").c
    BY <1>3
  <2>2. Over(a.c, "query", "ok") /\ (Agreed("postgres", c) => Agreed("postgres", a.c))
    BY <1>1, <2>1, DoneOver
  <2>3. Over(a.c, "query", "error")
    BY <2>2 DEF Over, Results
  <2>4. QED
    BY <2>1, <2>2, <2>3 DEF Executes
<1>4. QED
  BY <1>2, <1>3

(* vely_pg_exec                                                            *)
LEMMA PgExecutes ==
  ASSUME NEW c, NEW sql \in Statements, Ready(c, sql), NEW a \in PgExec(c, sql)
  PROVE  Executes("postgres", c, sql, a)
<1>1. "postgres" \in Kinds
  BY DEF Kinds
<1>2. CASE c.session = "closed"
  BY <1>1, <1>2, ClosedExecutes DEF PgExec
<1>3. CASE c.session # "closed" /\ sql = "query"
  BY <1>3, PgQueryExecutes DEF PgExec
<1>4. CASE c.session # "closed" /\ sql = "prepared"
  <2>1. PICK p \in PgPrepStmt(c) :
           \/ p.res # "ok" /\ a = p
           \/ p.res = "ok" /\ a = Unprepared("postgres", p.c)
           \/ /\ p.res = "ok"
              /\ \/ a \in Answers("postgres", p.c, "query")
                 \/ a = [res |-> "error", c |-> Done(p.c, "query").c]
    BY <1>4 DEF PgExec
  <2>2. Prepared("postgres", c, p)
    BY <1>4, PgPrepared, PreparedAsQuery
  <2>3. CASE p.res # "ok" /\ a = p
    BY <1>1, <1>4, <2>2, <2>3, NotPrepared
  <2>4. ASSUME p.res = "ok" PROVE Ready(p.c, "query") /\ p.c.session # "closed"
    BY <2>2, <2>4 DEF Prepared
  <2>5. CASE p.res = "ok" /\ a = Unprepared("postgres", p.c)
    <3>1. Prepared("postgres", p.c, a) /\ a.res = "error"
      BY <1>1, <2>4, <2>5, UnpreparedOver
    <3>2. Executes("postgres", p.c, "query", a)
      BY <3>1 DEF Prepared, Executes
    <3>3. QED
      BY <1>1, <1>4, <2>2, <2>5, <3>2, ThenExecutes
  <2>6. CASE /\ p.res = "ok"
             /\ \/ a \in Answers("postgres", p.c, "query")
                \/ a = [res |-> "error", c |-> Done(p.c, "query").c]
    <3>1. Executes("postgres", p.c, "query", a)
      BY <2>4, <2>6, PgQueryExecutes
    <3>2. QED
      BY <1>1, <1>4, <2>2, <2>6, <3>1, ThenExecutes
  <2>7. QED
    BY <2>1, <2>3, <2>5, <2>6
<1>5. CASE c.session # "closed" /\ sql \notin Queries
  <2>1. a \in Answers("postgres", c, sql) /\ sql # "prepared"
    BY <1>5 DEF PgExec, Queries
  <2>2. QED
    BY <1>1, <1>5, <2>1, AnswersExecute
<1>6. QED
  BY <1>2, <1>3, <1>4, <1>5 DEF Queries

(* vely_maria_exec                                                         *)
LEMMA MariaExecutes ==
  ASSUME NEW c, NEW sql \in Statements, Ready(c, sql), NEW a \in MariaExec(c, sql)
  PROVE  Executes("mariadb", c, sql, a)
<1>1. "mariadb" \in Kinds /\ "query" \in Statements \ {"prepared"}
  BY DEF Kinds, Statements
<1>2. CASE c.session = "closed"
  BY <1>1, <1>2, ClosedExecutes DEF MariaExec
<1>3. CASE c.session # "closed" /\ sql = "prepared"
  <2>1. PICK p \in MariaPrepStmt(c) :
           IF p.res # "ok" THEN a = p ELSE a \in Answers("mariadb", p.c, "query")
    BY <1>3 DEF MariaExec
  <2>2. Prepared("mariadb", c, p)
    BY <1>3, MariaPrepared, PreparedAsQuery
  <2>3. CASE p.res # "ok"
    BY <1>1, <1>3, <2>1, <2>2, <2>3, NotPrepared
  <2>4. CASE p.res = "ok"
    <3>1. Executes("mariadb", p.c, "query", a)
      BY <1>1, <2>1, <2>2, <2>4, AnswersExecute DEF Prepared
    <3>2. QED
      BY <1>1, <1>3, <2>2, <2>4, <3>1, ThenExecutes
  <2>5. QED
    BY <2>3, <2>4
<1>4. CASE c.session # "closed" /\ sql # "prepared"
  <2>1. a \in Answers("mariadb", c, sql)
    BY <1>4 DEF MariaExec
  <2>2. QED
    BY <1>1, <1>4, <2>1, AnswersExecute
<1>5. QED
  BY <1>2, <1>3, <1>4

(* vely_lite_exec: a statement that was not reset is stuck.                *)
LEMMA LiteExecutes ==
  ASSUME NEW c, NEW sql \in Statements, Ready(c, sql), NEW a \in LiteExec(c, sql)
  PROVE  Executes("sqlite", c, sql, a)
<1>1. "sqlite" \in Kinds /\ "query" \in Statements \ {"prepared"}
  BY DEF Kinds, Statements
<1>2. CASE c.session = "closed"
  BY <1>1, <1>2, ClosedExecutes DEF LiteExec
<1>3. CASE c.session # "closed" /\ sql = "prepared"
  <2>1. PICK p \in LitePrepStmt(c) :
           \/ p.res # "ok" /\ a = p
           \/ p.res = "ok" /\ a = [res |-> "error", c |-> p.c]
           \/ p.res = "ok" /\ \E b \in Answers("sqlite", p.c, "query") :
                                 a = [b EXCEPT !.c.stuck = b.res = "error"]
    BY <1>3 DEF LiteExec
  <2>2. Prepared("sqlite", c, p)
    BY <1>3, LitePrepared, PreparedAsQuery
  <2>3. CASE p.res # "ok" /\ a = p
    BY <1>1, <1>3, <2>2, <2>3, NotPrepared
  <2>4. ASSUME p.res = "ok" PROVE Ready(p.c, "query") /\ p.c.session # "closed"
    BY <2>2, <2>4 DEF Prepared
  <2>5. CASE p.res = "ok" /\ a = [res |-> "error", c |-> p.c]
    <3>1. Executes("sqlite", p.c, "query", a)
      BY <1>1, <2>4, <2>5, ClosedExecutes
    <3>2. QED
      BY <1>1, <1>3, <2>2, <2>5, <3>1, ThenExecutes
  <2>6. CASE p.res = "ok" /\ \E b \in Answers("sqlite", p.c, "query") :
                                a = [b EXCEPT !.c.stuck = b.res = "error"]
    <3>1. PICK b \in Answers("sqlite", p.c, "query") :
             a = [b EXCEPT !.c.stuck = b.res = "error"]
      BY <2>6
    <3>2. Executes("sqlite", p.c, "query", b)
      BY <1>1, <2>4, <2>6, AnswersExecute
    <3>3. b.c \in Database
      BY <3>2 DEF Executes, Over, Coherent
    <3>4. PICK s \in BOOLEAN : s = (b.res = "error")
      OBVIOUS
    <3>5. PICK k : k = [b.c EXCEPT !.stuck = s]
      OBVIOUS
    <3>6. /\ k \in Database
          /\ \A f \in {"dbc", "has_connected", "is_begin", "session", "work", "told"} : k[f] = b.c[f]
      BY <3>3, <3>4, <3>5 DEF Database
    <3>7. \E r, q : b = [res |-> r, c |-> q]
      BY DEF Answers, Refused, Done
    <3>8. a.res = b.res /\ a.c = k
      BY <3>1, <3>4, <3>5, <3>7
    <3>9. Over(k, "query", b.res)
      BY <3>2, <3>6, SameTransaction DEF Executes
    <3>10. Executes("sqlite", p.c, "query", a)
      BY <3>2, <3>8, <3>9 DEF Executes, Agreed
    <3>11. QED
      BY <1>1, <1>3, <2>2, <2>6, <3>10, ThenExecutes
  <2>7. QED
    BY <2>1, <2>3, <2>5, <2>6
<1>4. CASE c.session # "closed" /\ sql # "prepared"
  <2>1. a \in Answers("sqlite", c, sql)
    BY <1>4 DEF LiteExec
  <2>2. QED
    BY <1>1, <1>4, <2>1, AnswersExecute
<1>5. QED
  BY <1>2, <1>3, <1>4

(* One execution, by whatever driver the connection has.                   *)
LEMMA AttemptExecutes ==
  ASSUME NEW v \in Kinds, NEW c, NEW sql \in Statements, Ready(c, sql),
         NEW a \in Attempt(v, c, sql)
  PROVE  Executes(v, c, sql, a)
<1>1. CASE v = "postgres"
  BY <1>1, PgExecutes DEF Attempt
<1>2. CASE v = "mariadb"
  BY <1>2, MariaExecutes DEF Attempt
<1>3. CASE v = "sqlite"
  BY <1>3, LiteExecutes DEF Attempt
<1>4. QED
  BY <1>1, <1>2, <1>3 DEF Kinds

-----------------------------------------------------------------------------
(* Connections                                                             *)

Databases == [Db -> Database]
Transaction == {"dbc", "has_connected", "is_begin", "session", "work", "told"}

\* Of the other databases only prepared statements are changed, and only of
\* the same kind.
Others(dbs, D, d) ==
    /\ D \in Databases
    /\ \A e \in Db \ {d} : /\ \A f \in Transaction : D[e][f] = dbs[e][f]
                           /\ Vendor[e] # Vendor[d] => D[e] = dbs[e]

\* The result of an execution, and of getting a connection.
Outcome(dbs, d, sql, r) ==
    /\ Others(dbs, r.dbs, d)
    /\ Over(r.dbs[d], sql, r.res)
    /\ Agreed(Vendor[d], dbs[d]) => Agreed(Vendor[d], r.dbs[d])
Got(dbs, d, sql, r) ==
    /\ Others(dbs, r.dbs, d)
    /\ r.res \in {"ok", "report"}
    /\ Ready(r.dbs[d], sql)
    /\ Agreed(Vendor[d], dbs[d]) => Agreed(Vendor[d], r.dbs[d])

(* The databases are of known kinds.                                       *)
LEMMA VendorKinds == \A d \in Db : Vendor[d] \in Kinds
BY VendorAssumption DEF Db, Kinds

(* What one step leaves alone, and the next one, both leave alone.         *)
LEMMA OthersThen ==
  ASSUME NEW A, NEW B, NEW C, NEW d \in Db, Others(A, B, d), Others(B, C, d)
  PROVE  Others(A, C, d)
BY DEF Others

(* A step in the connection of one database leaves the others alone.       *)
LEMMA OthersAlone ==
  ASSUME NEW dbs \in Databases, NEW d \in Db, NEW k \in Database
  PROVE  /\ Others(dbs, [dbs EXCEPT ![d] = k], d)
         /\ [dbs EXCEPT ![d] = k][d] = k
BY DEF Others, Databases

(* Two steps after each other.                                             *)
LEMMA GotThen ==
  ASSUME NEW dbs, NEW d \in Db, NEW sql, NEW y, Got(dbs, d, sql, y),
         NEW x, Outcome(y.dbs, d, sql, x)
  PROVE  Outcome(dbs, d, sql, x)
BY OthersThen DEF Got, Outcome

(* An execution that ends without success, or before it, is over.          *)
LEMMA GotOver ==
  ASSUME NEW dbs, NEW d \in Db, NEW sql, NEW y, Got(dbs, d, sql, y), y.res = "report"
  PROVE  Outcome(dbs, d, sql, y)
BY DEF Got, Outcome, Ready, Over, Results

(* One execution.                                                          *)
LEMMA TryOver ==
  ASSUME NEW dbs \in Databases, NEW d \in Db, NEW sql \in Statements, Ready(dbs[d], sql),
         NEW x \in Try(dbs, d, sql)
  PROVE  Outcome(dbs, d, sql, x) /\ x.res # "report"
<1>1. PICK a \in Attempt(Vendor[d], dbs[d], sql) :
         x = [res |-> a.res, dbs |-> [dbs EXCEPT ![d] = a.c]]
  BY DEF Try
<1>2. Executes(Vendor[d], dbs[d], sql, a)
  BY <1>1, VendorKinds, AttemptExecutes
<1>3. a.c \in Database
  BY <1>2 DEF Executes, Over, Coherent
<1>4. x.res = a.res /\ x.dbs = [dbs EXCEPT ![d] = a.c]
  BY <1>1
<1>5. Others(dbs, x.dbs, d) /\ x.dbs[d] = a.c
  BY <1>3, <1>4, OthersAlone
<1>6. QED
  BY <1>2, <1>4, <1>5 DEF Executes, Outcome

(* vely_db_prep(NULL): the prepared statements of this kind are forgotten. *)
LEMMA PrepsResetFacts ==
  ASSUME NEW dbs \in Databases, NEW d \in Db
  PROVE  /\ Others(dbs, PrepsReset(dbs, d), d)
         /\ PrepsReset(dbs, d)[d].prep = FALSE
         /\ PrepsReset(dbs, d)[d].named = dbs[d].named
         /\ \A f \in Transaction : PrepsReset(dbs, d)[d][f] = dbs[d][f]
<1>1. PICK R : R = PrepsReset(dbs, d)
  OBVIOUS
<1>2. ASSUME NEW e \in Db
      PROVE  /\ R[e] \in Database
             /\ \A f \in Transaction : R[e][f] = dbs[e][f]
             /\ R[e].named = dbs[e].named
             /\ Vendor[e] # Vendor[d] => R[e] = dbs[e]
             /\ Vendor[e] = Vendor[d] => R[e].prep = FALSE
  <2>1. dbs[e] \in Database
    BY DEF Databases
  <2>2. CASE Vendor[e] # Vendor[d]
    BY <1>1, <2>1, <2>2 DEF PrepsReset
  <2>3. CASE Vendor[e] = Vendor[d]
    <3>1. R[e] = [dbs[e] EXCEPT !.prep = FALSE, !.stuck = FALSE]
      BY <1>1, <2>3 DEF PrepsReset
    <3>2. PICK k : k = dbs[e]
      OBVIOUS
    <3>3. PICK r : r = [k EXCEPT !.prep = FALSE, !.stuck = FALSE]
      OBVIOUS
    <3>4. /\ r \in Database /\ r.prep = FALSE /\ r.named = k.named
          /\ \A f \in Transaction : r[f] = k[f]
      BY <2>1, <3>2, <3>3 DEF Database, Transaction
    <3>5. QED
      BY <2>3, <3>1, <3>2, <3>3, <3>4
  <2>4. QED
    BY <2>2, <2>3
<1>3. R \in Databases
  BY <1>1, <1>2 DEF PrepsReset, Databases
<1>4. QED
  BY <1>1, <1>2, <1>3 DEF Others

(* A connection is made, or not: it is ready, with no transaction.         *)
LEMMA ConnectGot ==
  ASSUME NEW dbs \in Databases, NEW d \in Db, NEW sql \in Statements, Ready(dbs[d], sql),
         dbs[d].dbc = "null", NEW y \in Connect(dbs, d)
  PROVE  Got(dbs, d, sql, y)
<1>1. PICK R : R = PrepsReset(dbs, d)
  OBVIOUS
<1>2. PICK c : c = R[d]
  OBVIOUS
<1>3. /\ R \in Databases /\ Others(dbs, R, d)
      /\ c \in Database /\ c.prep = FALSE /\ c.named = dbs[d].named
      /\ \A f \in Transaction : c[f] = dbs[d][f]
  <2>1. /\ Others(dbs, R, d)
        /\ R[d].prep = FALSE /\ R[d].named = dbs[d].named
        /\ \A f \in Transaction : R[d][f] = dbs[d][f]
    BY <1>1, PrepsResetFacts
  <2>2. R \in Databases
    BY <2>1 DEF Others
  <2>3. R[d] \in Database
    BY <2>2 DEF Databases
  <2>4. QED
    BY <1>2, <2>1, <2>2, <2>3
<1>4. /\ Ready(c, sql) /\ c.dbc = "null"
  BY <1>3, SameTransaction DEF Transaction
<1>5. c.session = "closed" /\ ~c.is_begin
  BY <1>4 DEF Ready, Coherent
<1>6. sql \in Queries => c.work = "none"
  BY <1>3, <1>4, <1>5 DEF Ready, WorkKept, Database
<1>7. Agreed(Vendor[d], dbs[d]) => Vendor[d] # "postgres" \/ c.named = FALSE
  BY <1>3, <1>5 DEF Agreed, Database, Transaction
<1>8. ASSUME NEW k \in Database, k.is_begin = FALSE, k.work = c.work,
             k.prep = FALSE, k.named = c.named,
             k.session \in {"closed", "idle"},
             k.session # "closed" => k.dbc = "connected",
             k.dbc = "connected" => k.has_connected,
             y.res \in {"ok", "report"}, y.dbs = [R EXCEPT ![d] = k]
      PROVE  Got(dbs, d, sql, y)
  <2>1. Others(R, y.dbs, d) /\ y.dbs[d] = k
    BY <1>3, <1>8, OthersAlone
  <2>2. Others(dbs, y.dbs, d)
    BY <1>3, <2>1, OthersThen
  <2>3. Ready(k, sql)
    BY <1>6, <1>8 DEF Ready, Coherent, WorkKept, Known
  <2>4. Agreed(Vendor[d], dbs[d]) => Agreed(Vendor[d], k)
    BY <1>7, <1>8 DEF Agreed
  <2>5. QED
    BY <1>8, <2>1, <2>2, <2>3, <2>4 DEF Got
<1>9. CASE y = [res |-> "ok", dbs |-> [R EXCEPT ![d] = Connected(@)]]
  <2>1. PICK k : k = Connected(c)
    OBVIOUS
  <2>2. /\ k \in Database /\ k.is_begin = FALSE /\ k.work = c.work
        /\ k.prep = FALSE /\ k.named = c.named
        /\ k.session = "idle" /\ k.dbc = "connected" /\ k.has_connected
    BY <1>3, <2>1 DEF Connected, Database
  <2>3. y.res = "ok" /\ y.dbs = [R EXCEPT ![d] = k]
    BY <1>2, <1>9, <2>1
  <2>4. QED
    BY <1>8, <2>2, <2>3
<1>10. ASSUME NEW l \in {"failed", "null"},
              y = [res |-> "report", dbs |-> [R EXCEPT ![d].dbc = l]]
       PROVE  Got(dbs, d, sql, y)
  <2>1. PICK k : k = [c EXCEPT !.dbc = l]
    OBVIOUS
  <2>2. /\ k \in Database /\ k.is_begin = FALSE /\ k.work = c.work
        /\ k.prep = FALSE /\ k.named = c.named
        /\ k.session = "closed" /\ k.dbc = l
    BY <1>3, <1>5, <2>1 DEF Database
  <2>3. y.res = "report" /\ y.dbs = [R EXCEPT ![d] = k]
    BY <1>2, <1>10, <2>1
  <2>4. QED
    BY <1>8, <2>2, <2>3
<1>11. QED
  BY <1>1, <1>9, <1>10, VendorKinds DEF Connect, Kinds, PgConnect, MariaConnect, LiteConnect

(* vely_get_db_connection                                                  *)
LEMMA GetConnectionGot ==
  ASSUME NEW dbs \in Databases, NEW d \in Db, NEW sql \in Statements, Ready(dbs[d], sql),
         NEW y \in GetConnection(dbs, d)
  PROVE  Got(dbs, d, sql, y)
<1>1. CASE y.dbs = dbs /\ y.res \in {"ok", "report"}
  <2>1. Others(dbs, dbs, d)
    BY DEF Others
  <2>2. QED
    BY <1>1, <2>1 DEF Got
<1>2. CASE dbs[d].dbc = "null" /\ y \in Connect(dbs, d)
  BY <1>2, ConnectGot
<1>3. QED
  BY <1>1, <1>2 DEF GetConnection

(* vely_end_connection(1): what is left is ready to be connected again.    *)
LEMMA EndConnectionReady ==
  ASSUME NEW c, NEW sql \in Statements, Ready(c, sql), ~c.is_begin
  PROVE  /\ Ready(EndConnection(c), sql)
         /\ \A v \in Kinds : Agreed(v, EndConnection(c))
<1>1. PICK o : o = Closed(c)
  OBVIOUS
<1>2. c \in Database
  BY DEF Ready, Coherent
<1>3. /\ o \in Database /\ o.session = "closed" /\ o.named = FALSE
      /\ o.work = IF c.work = "kept" THEN "lost" ELSE c.work
  BY <1>1, <1>2, ClosedFacts
<1>4. PICK k : k = [o EXCEPT !.dbc = "null", !.is_begin = FALSE]
  OBVIOUS
<1>5. /\ k \in Database /\ k.session = "closed" /\ k.named = FALSE
      /\ k.work = o.work /\ k.dbc = "null" /\ k.is_begin = FALSE
  BY <1>3, <1>4 DEF Database
<1>6. EndConnection(c) = k
  BY <1>1, <1>4 DEF EndConnection
<1>7. Coherent(k) /\ Known(k)
  BY <1>5 DEF Coherent, Known
<1>8. sql \in Queries => WorkKept(k)
  BY <1>3, <1>5 DEF Ready, WorkKept
<1>9. QED
  BY <1>5, <1>6, <1>7, <1>8 DEF Ready, Agreed

(* vely_retry_db and the second execution.                                 *)
LEMMA RetryOver ==
  ASSUME NEW dbs \in Databases, NEW d \in Db, NEW sql \in Statements, Ready(dbs[d], sql),
         MayRetry(dbs[d]), NEW x \in Retry(dbs, d, sql)
  PROVE  Outcome(dbs, d, sql, x)
<1>1. PICK k : k = EndConnection(dbs[d])
  OBVIOUS
<1>2. Ready(k, sql) /\ Agreed(Vendor[d], k)
  BY <1>1, EndConnectionReady, VendorKinds DEF MayRetry
<1>3. k \in Database
  BY <1>2 DEF Ready, Coherent
<1>4. PICK E : E = [dbs EXCEPT ![d] = k]
  OBVIOUS
<1>5. E \in Databases /\ Others(dbs, E, d) /\ E[d] = k
  <2>1. Others(dbs, E, d) /\ E[d] = k
    BY <1>3, <1>4, OthersAlone
  <2>2. QED
    BY <2>1 DEF Others
<1>6. PICK y \in GetConnection(E, d) :
         IF y.res = "ok" THEN x \in Try(y.dbs, d, sql) ELSE x = y
  BY <1>1, <1>4 DEF Retry, Follow
<1>7. Got(E, d, sql, y)
  BY <1>2, <1>5, <1>6, GetConnectionGot
<1>8. Outcome(E, d, sql, x)
  <2>1. CASE y.res # "ok"
    BY <1>6, <1>7, <2>1, GotOver DEF Got
  <2>2. CASE y.res = "ok"
    <3>1. y.dbs \in Databases /\ Ready(y.dbs[d], sql)
      BY <1>7 DEF Got, Others
    <3>2. Outcome(y.dbs, d, sql, x)
      BY <1>6, <2>2, <3>1, TryOver
    <3>3. QED
      BY <1>7, <3>2, GotThen
  <2>3. QED
    BY <2>1, <2>2
<1>9. QED
  BY <1>2, <1>5, <1>8, OthersThen DEF Outcome

(* vely_execute_SQL                                                        *)
LEMMA ExecuteOver ==
  ASSUME NEW dbs \in Databases, NEW d \in Db, NEW sql \in Statements, Ready(dbs[d], sql),
         NEW x \in Execute(dbs, d, sql)
  PROVE  Outcome(dbs, d, sql, x)
<1>1. PICK y \in GetConnection(dbs, d) :
         IF y.res # "ok" THEN x = y
         ELSE \E z \in Try(y.dbs, d, sql) :
                IF z.res # "lost" THEN x = z
                ELSE IF MayRetry(z.dbs[d]) THEN x \in Retry(z.dbs, d, sql)
                ELSE x = [res |-> "lost", dbs |-> z.dbs]
  BY DEF Execute, Follow
<1>2. Got(dbs, d, sql, y)
  BY <1>1, GetConnectionGot
<1>3. CASE y.res # "ok"
  BY <1>1, <1>2, <1>3, GotOver DEF Got
<1>4. CASE y.res = "ok"
  <2>1. y.dbs \in Databases /\ Ready(y.dbs[d], sql)
    BY <1>2 DEF Got, Others
  <2>2. PICK z \in Try(y.dbs, d, sql) :
           IF z.res # "lost" THEN x = z
           ELSE IF MayRetry(z.dbs[d]) THEN x \in Retry(z.dbs, d, sql)
           ELSE x = [res |-> "lost", dbs |-> z.dbs]
    BY <1>1, <1>4
  <2>3. Outcome(y.dbs, d, sql, z)
    BY <2>1, <2>2, TryOver
  <2>4. Outcome(y.dbs, d, sql, x)
    <3>1. CASE z.res # "lost"
      BY <2>2, <2>3, <3>1
    <3>2. CASE z.res = "lost" /\ ~MayRetry(z.dbs[d])
      <4>1. x.res = z.res /\ x.dbs = z.dbs
        BY <2>2, <3>2
      <4>2. QED
        BY <2>3, <4>1 DEF Outcome
    <3>3. CASE z.res = "lost" /\ MayRetry(z.dbs[d])
      <4>1. z.dbs \in Databases /\ Over(z.dbs[d], sql, "lost")
        BY <2>3, <3>3 DEF Outcome, Others
      <4>2. Ready(z.dbs[d], sql)
        BY <4>1 DEF Over, Ready
      <4>3. Outcome(z.dbs, d, sql, x)
        BY <2>2, <3>3, <4>1, <4>2, RetryOver
      <4>4. QED
        BY <2>3, <4>3, OthersThen DEF Outcome
    <3>4. QED
      BY <3>1, <3>2, <3>3
  <2>5. QED
    BY <1>2, <2>4, GotThen
<1>5. QED
  BY <1>3, <1>4

(* vely_make_SQL                                                           *)
LEMMA MakeSQLGot ==
  ASSUME NEW dbs \in Databases, NEW d \in Db, NEW sql \in Statements, Ready(dbs[d], sql),
         NEW y \in MakeSQL(dbs, d)
  PROVE  Got(dbs, d, sql, y)
<1>1. Others(dbs, dbs, d)
  BY DEF Others
<1>2. ASSUME NEW m, m = [res |-> "ok", dbs |-> dbs] \/ m \in GetConnection(dbs, d)
      PROVE  Got(dbs, d, sql, m)
  <2>1. CASE m = [res |-> "ok", dbs |-> dbs]
    <3>1. m.res = "ok" /\ m.dbs = dbs
      BY <2>1
    <3>2. QED
      BY <1>1, <3>1 DEF Got
  <2>2. CASE m \in GetConnection(dbs, d)
    BY <2>2, GetConnectionGot
  <2>3. QED
    BY <1>2, <2>1, <2>2
<1>3. CASE y = [res |-> "ok", dbs |-> dbs] \/ y \in GetConnection(dbs, d)
  BY <1>2, <1>3
<1>4. ASSUME NEW m, m = [res |-> "ok", dbs |-> dbs] \/ m \in GetConnection(dbs, d),
             y = [m EXCEPT !.res = "report"]
      PROVE  Got(dbs, d, sql, y)
  <2>1. \E r, D : m = [res |-> r, dbs |-> D]
    BY <1>4 DEF GetConnection, Connect
  <2>2. y.res = "report" /\ y.dbs = m.dbs
    BY <1>4, <2>1
  <2>3. QED
    BY <1>2, <1>4, <2>2 DEF Got
<1>5. QED
  BY <1>3, <1>4 DEF MakeSQL

(* The rows of a query, which may be lost with the connection.             *)
LEMMA FetchOver ==
  ASSUME NEW dbs \in Databases, NEW d \in Db, NEW sql \in Queries,
         Over(dbs[d], sql, "ok"), NEW x \in Fetch(dbs, d)
  PROVE  Outcome(dbs, d, sql, x)
<1>1. Others(dbs, dbs, d)
  BY DEF Others
<1>2. CASE x = [res |-> "ok", dbs |-> dbs]
  <2>1. x.res = "ok" /\ x.dbs = dbs
    BY <1>2
  <2>2. QED
    BY <1>1, <2>1 DEF Outcome
<1>3. CASE x = [res |-> "error", dbs |-> [dbs EXCEPT ![d] = dbs[d]]]
  <2>1. x.res = "error" /\ x.dbs = dbs
    BY <1>3 DEF Databases
  <2>2. QED
    BY <1>1, <2>1 DEF Outcome, Over, Results
<1>4. CASE x = [res |-> "lost", dbs |-> [dbs EXCEPT ![d] = Closed(dbs[d])]]
  <2>1. Ready(dbs[d], sql) /\ Coherent(dbs[d]) /\ sql \in Statements
    BY DEF Over, Ready, Queries, Statements
  <2>2. PICK k : k = Closed(dbs[d])
    OBVIOUS
  <2>3. Over(k, sql, "lost") /\ Agreed(Vendor[d], k) /\ k \in Database
    BY <2>1, <2>2, ClosedKeeps, VendorKinds DEF Coherent
  <2>4. x.res = "lost" /\ x.dbs = [dbs EXCEPT ![d] = k]
    BY <1>4, <2>2
  <2>5. Others(dbs, x.dbs, d) /\ x.dbs[d] = k
    BY <2>3, <2>4, OthersAlone
  <2>6. QED
    BY <2>3, <2>4, <2>5 DEF Outcome
<1>5. QED
  BY <1>2, <1>3, <1>4 DEF Fetch, MariaRows

(* All of a statement.                                                     *)
LEMMA OutcomesOver ==
  ASSUME NEW dbs \in Databases, NEW d \in Db, NEW sql \in Statements, Ready(dbs[d], sql),
         NEW x \in Outcomes(dbs, d, sql)
  PROVE  Outcome(dbs, d, sql, x)
<1>1. ASSUME NEW z, Outcome(dbs, d, sql, z), sql \in Queries,
             IF z.res = "ok" THEN x \in Fetch(z.dbs, d) ELSE x = z
      PROVE  Outcome(dbs, d, sql, x)
  <2>1. CASE z.res # "ok"
    BY <1>1, <2>1
  <2>2. CASE z.res = "ok"
    <3>1. z.dbs \in Databases /\ Over(z.dbs[d], sql, "ok")
      BY <1>1, <2>2 DEF Outcome, Others
    <3>2. Outcome(z.dbs, d, sql, x)
      BY <1>1, <2>2, <3>1, FetchOver
    <3>3. QED
      BY <1>1, <3>2, OthersThen DEF Outcome
  <2>3. QED
    BY <2>1, <2>2
<1>2. CASE sql = "query"
  <2>1. PICK z : /\ \E y \in MakeSQL(dbs, d) :
                       IF y.res = "ok" THEN z \in Execute(y.dbs, d, sql) ELSE z = y
                 /\ IF z.res = "ok" THEN x \in Fetch(z.dbs, d) ELSE x = z
    BY <1>2 DEF Outcomes, Follow
  <2>2. PICK y \in MakeSQL(dbs, d) :
           IF y.res = "ok" THEN z \in Execute(y.dbs, d, sql) ELSE z = y
    BY <2>1
  <2>3. Got(dbs, d, sql, y)
    BY <2>2, MakeSQLGot
  <2>4. Outcome(dbs, d, sql, z)
    <3>1. CASE y.res # "ok"
      BY <2>2, <2>3, <3>1, GotOver DEF Got
    <3>2. CASE y.res = "ok"
      <4>1. y.dbs \in Databases /\ Ready(y.dbs[d], sql)
        BY <2>3 DEF Got, Others
      <4>2. Outcome(y.dbs, d, sql, z)
        BY <2>2, <3>2, <4>1, ExecuteOver
      <4>3. QED
        BY <2>3, <4>2, GotThen
    <3>3. QED
      BY <3>1, <3>2
  <2>5. QED
    BY <1>1, <1>2, <2>1, <2>4 DEF Queries
<1>3. CASE sql = "prepared"
  <2>1. PICK z \in Execute(dbs, d, sql) :
           IF z.res = "ok" THEN x \in Fetch(z.dbs, d) ELSE x = z
    BY <1>3 DEF Outcomes, Follow
  <2>2. QED
    BY <1>1, <1>3, <2>1, ExecuteOver DEF Queries
<1>4. CASE sql \notin Queries
  <2>1. x \in Execute(dbs, d, sql)
    BY <1>4 DEF Outcomes, Queries
  <2>2. QED
    BY <2>1, ExecuteOver
<1>5. QED
  BY <1>2, <1>3, <1>4 DEF Queries

-----------------------------------------------------------------------------
(* The application                                                         *)

Quiet(c) == c.told \/ c.session \in {"closed", "idle"}

\* vely_check_transaction has been with the databases before pos.
DbInv ==
    /\ db \in Databases
    /\ \A d \in Db : Sound(db[d])
    /\ pc \in {"request", "check", "report", "between", "dead"}
    /\ pos \in 1 .. Len(Vendor) + 1
    /\ err \in BOOLEAN
    /\ wrong \subseteq {"commit"}
    /\ pc \in {"check", "report"} => \A d \in Db : d < pos => Quiet(db[d])
    /\ pc = "between" => \A d \in Db : Quiet(db[d])

\* The worker and the servers of postgres agree on the prepared statements.
PrepInv == \A d \in Db : Agreed(Vendor[d], db[d])

\* Of the databases of an application, one at most is of postgres.
OnePostgres == \A d, e \in Db : Vendor[d] = "postgres" /\ Vendor[e] = "postgres" => d = e

(* A statement that is over is settled, whatever its clauses have it do.   *)
LEMMA SettledSound ==
  ASSUME NEW c, NEW sql \in Statements, NEW res, NEW stopped \in BOOLEAN,
         Over(c, sql, res), res = "ok" => ~stopped
  PROVE  /\ Sound(Settled(c, sql, res, stopped))
         /\ sql \in Closing => ~Settled(c, sql, res, stopped).is_begin
         /\ \A v \in Kinds : Agreed(v, c) => Agreed(v, Settled(c, sql, res, stopped))
<1>1. c \in Database /\ Coherent(c)
  BY DEF Over, Coherent
<1>2. PICK b : b = IF sql = "begin" /\ ~stopped THEN res = "ok" ELSE c.is_begin
  OBVIOUS
<1>3. PICK w : w = CASE sql = "begin" /\ res = "ok" -> "kept"
                     [] sql \in Closing \/ res # "ok" -> "none"
                     [] OTHER -> c.work
  OBVIOUS
<1>4. PICK t : t = (c.told \/ (res # "ok" /\ sql \notin {"query", "prepared"}))
  OBVIOUS
<1>5. b \in BOOLEAN /\ t \in BOOLEAN
  BY <1>1, <1>2, <1>4 DEF Database
<1>6. /\ w \in {"none", "kept", "lost", "done"}
      /\ sql = "begin" /\ res = "ok" => w = "kept"
      /\ sql \in Closing \/ res # "ok" => w = "none"
      /\ sql \in Queries /\ res = "ok" => w = c.work
  BY <1>1, <1>3 DEF Database, Queries, Closing
<1>7. PICK k : k = [c EXCEPT !.is_begin = b, !.work = w, !.told = t]
  OBVIOUS
<1>8. /\ k \in Database /\ k.is_begin = b /\ k.work = w /\ k.told = t
      /\ \A f \in {"dbc", "has_connected", "prep", "session", "named"} : k[f] = c[f]
  BY <1>1, <1>5, <1>6, <1>7 DEF Database
<1>9. Settled(c, sql, res, stopped) = k
  BY <1>1, <1>2, <1>3, <1>4, <1>7 DEF Settled, FlagAfterBegin, Database
<1>10. Coherent(k)
  BY <1>1, <1>2, <1>8 DEF Coherent, Over
<1>11. WorkKept(k)
  BY <1>2, <1>6, <1>8 DEF WorkKept, Over, Statements, Queries, Closing
<1>12. Known(k)
  <2>1. sql \notin Queries /\ res # "ok" => k.told
    BY <1>4, <1>8 DEF Queries
  <2>2. sql = "begin" /\ res = "ok" => k.is_begin
    BY <1>2, <1>8
  <2>3. sql \in Closing /\ res = "ok" => k.session = "idle"
    BY <1>8 DEF Over
  <2>4. sql \in Queries => Known(k)
    BY <1>2, <1>4, <1>8 DEF Over, Known, Queries
  <2>5. QED
    BY <2>1, <2>2, <2>3, <2>4 DEF Known, Statements, Queries, Closing
<1>13. sql \in Closing => ~k.is_begin
  BY <1>2, <1>8 DEF Over, Closing
<1>14. \A v \in Kinds : Agreed(v, c) => Agreed(v, k)
  BY <1>8 DEF Agreed
<1>15. QED
  BY <1>9, <1>10, <1>11, <1>12, <1>13, <1>14 DEF Sound

(* A success is never one of a query outside of its transaction.           *)
LEMMA QueryNotWrong ==
  ASSUME NEW c, NEW sql \in Statements, Over(c, sql, "ok")
  PROVE  Wrong(c, sql) \subseteq {"commit"}
BY DEF Wrong, Over, WorkKept, Queries, Statements

(* vely_commit and vely_rollback clear the flag first.                     *)
LEMMA FlagClearedReady ==
  ASSUME db \in Databases, NEW d \in Db, Sound(db[d]), NEW sql \in Statements
  PROVE  /\ Others(db, FlagCleared(sql, d), d)
         /\ Ready(FlagCleared(sql, d)[d], sql)
         /\ Agreed(Vendor[d], db[d]) => Agreed(Vendor[d], FlagCleared(sql, d)[d])
<1>1. PICK c : c = db[d]
  OBVIOUS
<1>2. c \in Database /\ Coherent(c) /\ WorkKept(c) /\ Known(c)
  BY <1>1 DEF Sound, Coherent
<1>3. PICK b : b = (c.is_begin /\ sql \notin Closing)
  OBVIOUS
<1>4. PICK k : k = [c EXCEPT !.is_begin = b]
  OBVIOUS
<1>5. /\ b \in BOOLEAN
      /\ k \in Database /\ k.is_begin = b
      /\ \A f \in {"dbc", "has_connected", "prep", "session", "named", "work", "told"} : k[f] = c[f]
  BY <1>2, <1>3, <1>4 DEF Database
<1>6. FlagCleared(sql, d) = [db EXCEPT ![d] = k]
  BY <1>1, <1>2, <1>3, <1>4 DEF FlagCleared, Databases, Database
<1>7. Others(db, FlagCleared(sql, d), d) /\ FlagCleared(sql, d)[d] = k
  <2>1. k \in Database
    BY <1>5
  <2>2. Others(db, [db EXCEPT ![d] = k], d) /\ [db EXCEPT ![d] = k][d] = k
    BY <2>1, OthersAlone
  <2>3. QED
    BY <1>6, <2>2
<1>8. Coherent(k) /\ (sql \in Closing => ~k.is_begin)
  <2>1. k.is_begin => c.is_begin /\ sql \notin Closing
    BY <1>3, <1>5
  <2>2. QED
    BY <1>2, <1>5, <2>1 DEF Coherent
<1>9. sql \in Queries => WorkKept(k) /\ Known(k)
  BY <1>2, <1>3, <1>5 DEF WorkKept, Known, Queries, Closing
<1>10. Agreed(Vendor[d], c) => Agreed(Vendor[d], k)
  BY <1>5 DEF Agreed
<1>11. QED
  BY <1>1, <1>7, <1>8, <1>9, <1>10 DEF Ready

\* What a statement that was performed leaves of the databases.
Performed(d, sql) ==
    /\ db' \in Databases
    /\ \A e \in Db : Sound(db'[e])
    /\ \A e \in Db \ {d} : Quiet(db[e]) => Quiet(db'[e])
    /\ sql \in Closing => ~db'[d].is_begin
    /\ wrong' \subseteq {"commit"}
    /\ OnePostgres /\ PrepInv => PrepInv'

(* A statement is performed: with whatever result, and stopped or not.     *)
LEMMA PerformFacts ==
  ASSUME DbInv, NEW d \in Db, NEW sql \in Statements, NEW stopped \in BOOLEAN,
         Perform(d, sql, stopped)
  PROVE  Performed(d, sql)
<1>1. db \in Databases /\ Sound(db[d]) /\ (\A e \in Db : Sound(db[e])) /\ wrong \subseteq {"commit"}
  BY DEF DbInv
<1>2. PICK F : F = FlagCleared(sql, d)
  OBVIOUS
<1>3. /\ Others(db, F, d) /\ Ready(F[d], sql)
      /\ Agreed(Vendor[d], db[d]) => Agreed(Vendor[d], F[d])
  BY <1>1, <1>2, FlagClearedReady
<1>4. F \in Databases
  BY <1>3 DEF Others
<1>5. PICK r \in Outcomes(F, d, sql) :
         /\ r.res = "ok" => ~stopped
         /\ db' = [r.dbs EXCEPT ![d] = Settled(r.dbs[d], sql, r.res, stopped)]
         /\ wrong' = IF r.res = "ok" THEN wrong \cup Wrong(r.dbs[d], sql) ELSE wrong
  BY <1>2 DEF Perform
<1>6. Outcome(F, d, sql, r)
  BY <1>3, <1>4, <1>5, OutcomesOver
<1>7. Others(F, r.dbs, d) /\ Over(r.dbs[d], sql, r.res)
  BY <1>6 DEF Outcome
<1>8. PICK k : k = Settled(r.dbs[d], sql, r.res, stopped)
  OBVIOUS
<1>9. /\ Sound(k) /\ (sql \in Closing => ~k.is_begin)
      /\ \A v \in Kinds : Agreed(v, r.dbs[d]) => Agreed(v, k)
  BY <1>5, <1>7, <1>8, SettledSound
<1>10. k \in Database
  BY <1>9 DEF Sound, Coherent
<1>11. r.dbs \in Databases
  BY <1>7 DEF Others
<1>12. Others(r.dbs, db', d) /\ db'[d] = k
  BY <1>5, <1>8, <1>10, <1>11, OthersAlone
<1>13. Others(db, db', d)
  BY <1>3, <1>7, <1>12, OthersThen
<1>14. db' \in Databases
  BY <1>13 DEF Others
<1>15. ASSUME NEW e \in Db \ {d}
       PROVE  Sound(db'[e]) /\ (Quiet(db[e]) => Quiet(db'[e]))
  <2>1. db'[e] \in Database
    BY <1>14 DEF Databases
  <2>2. \A f \in Transaction : db'[e][f] = db[e][f]
    BY <1>13 DEF Others
  <2>3. Sound(db'[e])
    BY <1>1, <2>1, <2>2, SameTransaction DEF Transaction
  <2>4. QED
    BY <2>2, <2>3 DEF Quiet, Transaction
<1>16. wrong' \subseteq {"commit"}
  BY <1>1, <1>5, <1>7, QueryNotWrong
<1>17. ASSUME OnePostgres, PrepInv PROVE PrepInv'
  <2>1. Agreed(Vendor[d], db'[d])
    BY <1>3, <1>6, <1>9, <1>12, <1>17, VendorKinds DEF PrepInv, Outcome
  <2>2. ASSUME NEW e \in Db \ {d} PROVE Agreed(Vendor[e], db'[e])
    <3>1. CASE Vendor[e] # "postgres"
      BY <3>1 DEF Agreed
    <3>2. CASE Vendor[e] = "postgres"
      <4>1. Vendor[e] # Vendor[d]
        BY <1>17, <3>2 DEF OnePostgres
      <4>2. db'[e] = db[e]
        BY <1>13, <4>1 DEF Others
      <4>3. QED
        BY <1>17, <4>2 DEF PrepInv
    <3>3. QED
      BY <3>1, <3>2
  <2>3. QED
    BY <2>1, <2>2 DEF PrepInv
<1>18. QED
  BY <1>9, <1>12, <1>14, <1>15, <1>16, <1>17 DEF Performed

(* Every step keeps the invariant.                                         *)
LEMMA DbInvStep == DbInv /\ [Next]_vars => DbInv' /\ (OnePostgres /\ PrepInv => PrepInv')
<1> SUFFICES ASSUME DbInv, [Next]_vars
             PROVE  DbInv' /\ (OnePostgres /\ PrepInv => PrepInv')
  OBVIOUS
<1>0. /\ Len(Vendor) \in Nat /\ Len(Vendor) >= 1 /\ Db = 1 .. Len(Vendor)
      /\ pos \in 1 .. Len(Vendor) + 1
  BY VendorAssumption DEF Db, DbInv
<1>a. 1 \in 1 .. Len(Vendor) + 1 /\ \A d \in Db : ~(d < 1)
  BY <1>0
<1>1. ASSUME NEW d \in Db, Drop(d)
      PROVE  DbInv' /\ (OnePostgres /\ PrepInv => PrepInv')
  <2>1. PICK k : k = Closed(db[d])
    OBVIOUS
  <2>2. db \in Databases /\ Sound(db[d]) /\ Coherent(db[d])
    BY DEF DbInv, Sound
  <2>3. /\ Coherent(k) /\ Known(k) /\ WorkKept(k) /\ k \in Database
        /\ \A v \in Kinds : Agreed(v, k)
    BY <2>1, <2>2, ClosedKeeps DEF Sound, Coherent
  <2>4. Sound(k) /\ Quiet(k)
    <3>1. k.session = "closed"
      BY <2>1, <2>2, ClosedFacts DEF Coherent
    <3>2. QED
      BY <2>3, <3>1 DEF Sound, Quiet
  <2>5. db' = [db EXCEPT ![d] = k]
    BY <1>1, <2>1 DEF Drop
  <2>6. db' \in Databases /\ db'[d] = k /\ \A e \in Db \ {d} : db'[e] = db[e]
    BY <2>2, <2>3, <2>5 DEF Databases
  <2>7. UNCHANGED <<pc, pos, err, wrong>>
    BY <1>1 DEF Drop
  <2>8. DbInv'
    BY <2>4, <2>6, <2>7 DEF DbInv
  <2>9. QED
    BY <2>3, <2>6, <2>8, VendorKinds DEF PrepInv
<1>2. ASSUME NEW d \in Db, NEW sql \in Statements, Statement(d, sql)
      PROVE  DbInv' /\ (OnePostgres /\ PrepInv => PrepInv')
  <2>1. Performed(d, sql)
    BY <1>2, PerformFacts DEF Statement
  <2>2. \/ UNCHANGED <<pc, pos, err>>
        \/ pc' = "report" /\ pos' = 1 /\ err' = FALSE
    BY <1>2 DEF Statement, StartCheck
  <2>3. pc = "request"
    BY <1>2 DEF Statement
  <2>4. DbInv'
    BY <1>a, <2>1, <2>2, <2>3 DEF Performed, DbInv
  <2>5. QED
    BY <2>1, <2>4 DEF Performed
<1>3. ASSUME ReportError \/ EndRequest
      PROVE  DbInv' /\ (OnePostgres /\ PrepInv => PrepInv')
  <2>1. UNCHANGED <<db, wrong>> /\ pc' \in {"report", "check"} /\ pos' = 1 /\ err' = FALSE
    BY <1>3 DEF ReportError, EndRequest, StartCheck
  <2>2. QED
    BY <1>a, <2>1 DEF DbInv, PrepInv
<1>4. ASSUME CheckOne
      PROVE  DbInv' /\ (OnePostgres /\ PrepInv => PrepInv')
  <2>1. pc \in {"check", "report"} /\ pos \in Db
    BY <1>4 DEF CheckOne
  <2>2. CASE ~db[pos].is_begin /\ pos' = pos + 1 /\ UNCHANGED <<db, pc, err, wrong>>
    <3>1. Quiet(db[pos])
      <4>1. db[pos] \in Database /\ Known(db[pos])
        BY <2>1 DEF DbInv, Sound, Coherent
      <4>2. QED
        BY <2>2, <4>1 DEF Known, Quiet, Database
    <3>2. \A d \in Db : d < pos + 1 => d < pos \/ d = pos
      BY <1>0
    <3>3. DbInv'
      BY <1>0, <2>1, <2>2, <3>1, <3>2 DEF DbInv
    <3>4. QED
      BY <2>2, <3>3 DEF PrepInv
  <2>3. CASE Perform(pos, "rollback", FALSE) /\ pos' = AfterRollback(pos) /\ err' = TRUE
             /\ UNCHANGED pc
    <3>1. Performed(pos, "rollback")
      BY <2>1, <2>3, PerformFacts DEF Statements
    <3>2. Quiet(db'[pos])
      <4>1. Sound(db'[pos]) /\ ~db'[pos].is_begin /\ db'[pos] \in Database
        BY <2>1, <3>1 DEF Performed, Closing, Databases
      <4>2. QED
        BY <4>1 DEF Sound, Known, Quiet, Database
    <3>3. \A d \in Db : d < pos + 1 => d < pos \/ d = pos
      BY <1>0
    <3>4. DbInv'
      BY <1>0, <2>1, <2>3, <3>1, <3>2, <3>3 DEF DbInv, Performed, AfterRollback
    <3>5. QED
      BY <3>1, <3>4 DEF Performed
  <2>4. CASE /\ Perform(pos, "rollback", TRUE)
             /\ IF pc = "check" THEN StartCheck("report")
                ELSE pc' = "dead" /\ UNCHANGED <<pos, err>>
    <3>1. Performed(pos, "rollback")
      BY <2>1, <2>4, PerformFacts DEF Statements
    <3>2. \/ pc' = "report" /\ pos' = 1 /\ err' = FALSE
          \/ pc' = "dead" /\ UNCHANGED <<pos, err>>
      BY <2>4 DEF StartCheck
    <3>3. DbInv'
      BY <1>a, <3>1, <3>2 DEF DbInv, Performed
    <3>4. QED
      BY <3>1, <3>3 DEF Performed
  <2>5. QED
    BY <1>4, <2>2, <2>3, <2>4 DEF CheckOne
<1>5. ASSUME CheckDone
      PROVE  DbInv' /\ (OnePostgres /\ PrepInv => PrepInv')
  <2>1. /\ UNCHANGED <<db, wrong>>
        /\ \/ pc' = "report" /\ pos' = 1 /\ err' = FALSE
           \/ pc' = "between" /\ UNCHANGED <<pos, err>>
    BY <1>5 DEF CheckDone, StartCheck
  <2>2. \A d \in Db : Quiet(db[d])
    BY <1>0, <1>5 DEF CheckDone, DbInv
  <2>3. QED
    BY <1>a, <2>1, <2>2 DEF DbInv, PrepInv
<1>6. ASSUME NextRequest
      PROVE  DbInv' /\ (OnePostgres /\ PrepInv => PrepInv')
  <2>1. ASSUME NEW d \in Db
        PROVE  /\ db'[d] \in Database /\ Sound(db'[d])
               /\ Agreed(Vendor[d], db[d]) => Agreed(Vendor[d], db'[d])
    <3>1. PICK c : c = db[d]
      OBVIOUS
    <3>2. c \in Database /\ Sound(c)
      BY <3>1 DEF DbInv, Databases
    <3>3. PICK k : k = [c EXCEPT !.work = "none"]
      OBVIOUS
    <3>4. /\ k \in Database /\ k.work = "none"
          /\ \A f \in {"dbc", "has_connected", "is_begin", "session", "told", "prep", "named"} :
                 k[f] = c[f]
      BY <3>2, <3>3 DEF Database
    <3>5. Sound(k)
      BY <3>2, <3>4 DEF Sound, Coherent, WorkKept, Known
    <3>6. Agreed(Vendor[d], c) => Agreed(Vendor[d], k)
      BY <3>4 DEF Agreed
    <3>7. db'[d] = k
      BY <1>6, <3>1, <3>3 DEF NextRequest
    <3>8. QED
      BY <3>1, <3>4, <3>5, <3>6, <3>7
  <2>2. db' \in Databases
    BY <1>6, <2>1 DEF NextRequest, Databases
  <2>3. pc' = "request" /\ UNCHANGED <<pos, err, wrong>>
    BY <1>6 DEF NextRequest
  <2>4. DbInv'
    BY <2>1, <2>2, <2>3 DEF DbInv
  <2>5. QED
    BY <2>1, <2>4 DEF PrepInv
<1>7. CASE Dead \/ UNCHANGED vars
  BY <1>7 DEF Dead, vars, DbInv, PrepInv
<1>8. QED
  BY <1>1, <1>2, <1>3, <1>4, <1>5, <1>6, <1>7
  DEF Next, BeginTransaction, CommitTransaction, RollbackTransaction, RunQuery,
      RunPreparedQuery, Statements

(* The invariants hold at the start.                                       *)
LEMMA DbInit == Init => DbInv /\ PrepInv
<1> SUFFICES ASSUME Init PROVE DbInv /\ PrepInv
  OBVIOUS
<1>1. Unconnected \in Database
  BY DEF Unconnected, Database
<1>2. Sound(Unconnected) /\ Quiet(Unconnected) /\ \A v : Agreed(v, Unconnected)
  BY <1>1 DEF Unconnected, Sound, Coherent, WorkKept, Known, Quiet, Agreed
<1>3. db \in Databases /\ \A d \in Db : db[d] = Unconnected
  BY <1>1 DEF Init, Databases
<1>4. pos \in 1 .. Len(Vendor) + 1
  BY VendorAssumption DEF Init
<1>5. QED
  BY <1>2, <1>3, <1>4 DEF Init, DbInv, PrepInv

(* The first invariant is inductive.                                       *)
LEMMA DbAlways == Spec => []DbInv
<1>1. DbInv /\ [Next]_vars => DbInv'
  BY DbInvStep
<1>2. QED
  BY <1>1, DbInit, PTL DEF Spec

-----------------------------------------------------------------------------
(* The theorems, for any databases of the application                      *)

(* The variables of the worker and of the sessions have their types, and a *)
(* session is only in a connection that was made.                          *)
THEOREM TypeCorrect == Spec => []TypeOK
<1>1. DbInv => TypeOK
  BY DEF DbInv, TypeOK, Databases, Sound, Coherent
<1>2. QED
  BY <1>1, DbAlways, PTL

(* While is_begin_transaction is set, nothing commits by itself.           *)
THEOREM FlagIsTrue == Spec => []FlagMeansOpen
<1>1. DbInv => FlagMeansOpen
  BY DEF DbInv, FlagMeansOpen, Sound, Coherent
<1>2. QED
  BY <1>1, DbAlways, PTL

(* No query of a transaction is told to be fine after it ran outside of    *)
(* it, whenever connections are lost.                                      *)
THEOREM QueriesTogether == Spec => []StatementsTogether
<1>1. DbInv => StatementsTogether
  BY DEF DbInv, StatementsTogether
<1>2. QED
  BY <1>1, DbAlways, PTL

(* vely_check_transaction leaves no transaction to the next request, but   *)
(* one whose begin, commit or rollback failed.                             *)
THEOREM TransactionsNotKept == Spec => []NoTransactionKept
<1>1. DbInv => NoTransactionKept
  BY DEF DbInv, NoTransactionKept, Quiet
<1>2. QED
  BY <1>1, DbAlways, PTL

(* With one database of postgres, the worker and its server agree on the   *)
(* prepared statements.                                                    *)
THEOREM PreparedIsUsable ==
  ASSUME OnePostgres
  PROVE  Spec => []PreparedUsable
<1>1. DbInv /\ PrepInv /\ [Next]_vars => PrepInv'
  BY DbInvStep
<1>2. DbInv /\ PrepInv => PreparedUsable
  <2> SUFFICES ASSUME DbInv, PrepInv, NEW d \in Db, Vendor[d] = "postgres", db[d].session # "closed"
               PROVE  db[d].prep = db[d].named
    BY DEF PreparedUsable
  <2>1. db[d] \in Database /\ Agreed(Vendor[d], db[d])
    BY DEF DbInv, Databases, PrepInv
  <2>2. QED
    BY <2>1 DEF Agreed, Database
<1>3. QED
  BY <1>1, <1>2, DbInit, DbAlways, PTL DEF Spec
=============================================================================
