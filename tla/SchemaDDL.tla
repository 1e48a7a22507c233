----------------------------- MODULE SchemaDDL -----------------------------
(***************************************************************************)
(* The public DDL and catalog calls of src/session_schema.go, made by      *)
(* several engines (Procs) on one table that maps one struct (Bean):       *)
(* CreateTable, CreateIndexes, CreateUniques, DropIndexes, DropTable,      *)
(* IsTableExist, IsTableEmpty and isIndexExist2.                           *)
(*                                                                         *)
(* A call that issues several statements (the index loops, the check and  *)
(* the drop of dropTable) takes one step per statement, so the calls of    *)
(* different engines interleave between statements.  Every statement goes *)
(* through session.exec or session.queryRows and may fail on the          *)
(* connection, after the server applied it or before.  After such a       *)
(* connection error the caller may retry the same call (RetryOnFault).     *)
(***************************************************************************)
EXTENDS Naturals, SequencesExt

CONSTANTS
    Procs,              \* engines sharing the database
    Bean,               \* index name -> [type, cols] of the struct's table
    ColSets,            \* column sets isIndexExist2 may be asked about
    CreateIfNotExists,  \* the dialect's CREATE TABLE says IF NOT EXISTS
    DropIfExists,       \* dialect.SupportDropIfExists()
    IndexIfNotExists,   \* the dialect's CREATE INDEX says IF NOT EXISTS
    RetryOnFault,       \* the caller repeats a call that hit a connection error
    MaxFaults           \* bound on connection failures

IdxNames == DOMAIN Bean

\* The calls, and the loop calls among them with the indexes each issues:
\* genIndexSQL, genUniqueSQL and genDelIndexSQL.
Ops == {"createTable", "createIndexes", "createUniques", "dropIndexes",
        "dropTable", "isTableExist", "isTableEmpty", "isIndexExist2"}
Gen(op) ==
    CASE op = "createIndexes" -> {n \in IdxNames : Bean[n].type = "index"}
      [] op = "createUniques" -> {n \in IdxNames : Bean[n].type = "unique"}
      [] op = "dropIndexes"   -> IdxNames

VARIABLES
    db,      \* the live table: [exists, idx (names present), rows (0..1)]
    sess,    \* proc -> its current call: pc, op, todo (statements left),
             \* res (last result), ans (last answer); the history fields
             \* ref (the true answer) and ok (Feasible at the call)
    faults   \* connection failures so far

vars == <<db, sess, faults>>

Results == {"none", "ok", "err", "fault"}

TypeOK ==
    /\ db \in [exists : BOOLEAN, idx : SUBSET IdxNames, rows : 0..1]
    /\ sess \in [Procs -> [pc : {"idle", "loop", "dropExec"}, op : Ops,
                           todo : Seq(IdxNames), res : Results,
                           ans : BOOLEAN, ref : BOOLEAN, ok : BOOLEAN]]
    /\ faults \in 0..MaxFaults
    /\ \A p \in Procs : sess[p].pc = "loop" <=> sess[p].todo # <<>>

Init ==
    /\ db \in [exists : BOOLEAN, idx : {{}}, rows : {0}]
    /\ sess = [p \in Procs |-> [pc |-> "idle", op |-> "createTable",
                                todo |-> <<>>, res |-> "none",
                                ans |-> FALSE, ref |-> FALSE, ok |-> FALSE]]
    /\ faults = 0

NoTable == [exists |-> FALSE, idx |-> {}, rows |-> 0]

-----------------------------------------------------------------------------
(* Helpers.                                                                 *)

\* The call returns with result r; the proc is idle again.
Return(l, r) == [l EXCEPT !.pc = "idle", !.res = r, !.todo = <<>>]

\* One statement of proc p through session.exec or session.queryRows.
\* l: p's call state; accepted: the server accepts the statement against
\* the current table; new: the table after it; next: p's call state when
\* it succeeds.  A rejected statement returns its error; a connection
\* failure returns an error whether or not the server applied it.
Stmt(p, l, accepted, new, next) ==
    \/ /\ accepted
       /\ db' = new
       /\ sess' = [sess EXCEPT ![p] = next]
       /\ UNCHANGED faults
    \/ /\ ~accepted
       /\ sess' = [sess EXCEPT ![p] = Return(l, "err")]
       /\ UNCHANGED <<db, faults>>
    \/ /\ faults < MaxFaults
       /\ faults' = faults + 1
       /\ db' \in IF accepted THEN {db, new} ELSE {db}
       /\ sess' = [sess EXCEPT ![p] = Return(l, "fault")]

\* session.queryBytes of a catalog query: queryRows, then rows2maps, which
\* scans the cursor row by row (row2map) and returns (nil, err) at the
\* first row that fails to scan.  A read changes no table; a failed query
\* or scan is a connection failure of the statement, after which the
\* caller sees no row and the error.  Only the number of rows is used by
\* the callers, so the column values (NULL read as an empty slice) are
\* not modelled.
queryBytes(p, l, next) == Stmt(p, l, TRUE, db, next)

\* Mutant of IndexAnswer: the first index on the columns answers true
\* whatever its type.
IndexAnswerAnyType(o, cols, unique) ==
    SelectInSeq(o, LAMBDA n : Bean[n].cols = cols) # 0

\* isIndexExist2's answer when GetIndexes lists the live indexes in order o:
\* the type test of the first index whose columns equal cols (sliceEq),
\* and false when there is none.
IndexAnswer(o, cols, unique) ==
    LET i == SelectInSeq(o, LAMBDA n : Bean[n].cols = cols) IN
    IF i = 0 THEN FALSE
    ELSE Bean[o[i]].type = IF unique THEN "unique" ELSE "index"

\* What isIndexExist2 should say: an index of that kind on those columns.
IndexExists(live, cols, unique) ==
    \E n \in live : /\ Bean[n].cols = cols
                    /\ Bean[n].type = IF unique THEN "unique" ELSE "index"

\* The statement issued for index n by the loop of op: CREATE [UNIQUE]
\* INDEX, or DROP INDEX.
IndexStmt(p, l, n, next) ==
    IF l.op = "dropIndexes"
    THEN Stmt(p, l, db.exists /\ n \in db.idx,
              [db EXCEPT !.idx = @ \ {n}], next)
    ELSE Stmt(p, l, db.exists /\ (n \notin db.idx \/ IndexIfNotExists),
              [db EXCEPT !.idx = @ \cup {n}], next)

-----------------------------------------------------------------------------
(* Actions.                                                                 *)

\* An idle proc calls op.  After a connection error a retrying caller can
\* only repeat the call that failed.
Call(p, op) ==
    /\ sess[p].pc = "idle"
    /\ RetryOnFault /\ sess[p].res = "fault" => op = sess[p].op

\* Whether op, run alone from the current table, would return nil: the
\* table exists, and for dropIndexes every index it drops is there.
Feasible(op) ==
    /\ db.exists
    /\ op = "dropIndexes" => Gen(op) \subseteq db.idx

\* p's state when it calls op (the history field ok records Feasible).
Called(p, op) ==
    [sess[p] EXCEPT !.op = op, !.ok = Feasible(op), !.ans = FALSE, !.ref = FALSE]

\* CreateTable / createTable: one CREATE TABLE from genCreateTableSQL.
createTable(p) ==
    LET l == Called(p, "createTable") IN
    /\ Call(p, "createTable")
    /\ Stmt(p, l, ~db.exists \/ CreateIfNotExists,
            IF db.exists THEN db ELSE [NoTable EXCEPT !.exists = TRUE],
            Return(l, "ok"))

\* CreateIndexes, CreateUniques, DropIndexes: the generated statements in
\* the order of the Indexes map (any order), one exec each.
StartLoop(p, op) ==
    /\ op \in {"createIndexes", "createUniques", "dropIndexes"}
    /\ Call(p, op)
    /\ \E o \in SetToSeqs(Gen(op)) :
          sess' = [sess EXCEPT ![p] =
                     IF o = <<>> THEN Return(Called(p, op), "ok")
                     ELSE [Called(p, op) EXCEPT !.pc = "loop", !.todo = o]]
    /\ UNCHANGED <<db, faults>>

\* Mutant of LoopExec: the loop runs once past its last statement.
LoopExecPastEnd(p) ==
    LET l == sess[p] IN
    /\ l.pc = "loop"
    /\ IndexStmt(p, l, Head(l.todo),
                 IF Len(l.todo) = 0 THEN Return(l, "ok")
                 ELSE [l EXCEPT !.todo = Tail(@)])

\* One iteration of the loop of createIndexes, createUniques or
\* dropIndexes: exec the statement, return its error at once, or return
\* nil after the last one.
LoopExec(p) ==
    LET l == sess[p] IN
    /\ l.pc = "loop"
    /\ IndexStmt(p, l, Head(l.todo),
                 IF Len(l.todo) = 1 THEN Return(l, "ok")
                 ELSE [l EXCEPT !.todo = Tail(@)])

\* DropTable / dropTable.  A dialect with DROP TABLE IF EXISTS drops at
\* once; otherwise TableCheckSql is queried first (queryBytes), and the
\* DROP TABLE is issued only if it returned a row.
dropTable(p) ==
    LET l == Called(p, "dropTable") IN
    /\ Call(p, "dropTable")
    /\ IF DropIfExists
       THEN Stmt(p, l, TRUE, NoTable, Return(l, "ok"))
       ELSE queryBytes(p, l,
                 IF db.exists THEN [l EXCEPT !.pc = "dropExec"]
                 ELSE Return(l, "ok"))

\* The DROP TABLE that follows the check.
dropTableExec(p) ==
    /\ sess[p].pc = "dropExec"
    /\ Stmt(p, sess[p], db.exists, NoTable, Return(sess[p], "ok"))

\* IsTableExist / isTableExist: TableCheckSql through queryBytes; the
\* answer is whether it returned a row.
isTableExist(p) ==
    LET l == Called(p, "isTableExist") IN
    /\ Call(p, "isTableExist")
    /\ queryBytes(p, l, Return([l EXCEPT !.ans = db.exists], "ok"))

\* IsTableEmpty / isTableEmpty: select count(*) through queryRow.  Any
\* error (a missing table included) returns true together with the error.
isTableEmpty(p) ==
    LET l == [Called(p, "isTableEmpty") EXCEPT !.ans = TRUE] IN
    /\ Call(p, "isTableEmpty")
    /\ Stmt(p, l, db.exists, db,
            Return([l EXCEPT !.ans = db.rows = 0], "ok"))

\* isIndexExist2: GetIndexes (a map, listed in any order), then the first
\* index with the asked columns decides.  ref records the true answer.
isIndexExist2(p) ==
    /\ Call(p, "isIndexExist2")
    /\ \E cols \in ColSets, unique \in BOOLEAN, o \in SetToSeqs(db.idx) :
          LET l == [Called(p, "isIndexExist2") EXCEPT
                      !.ref = IndexExists(db.idx, cols, unique)] IN
          Stmt(p, l, TRUE, db,
               Return([l EXCEPT !.ans = IndexAnswer(o, cols, unique)], "ok"))

\* Another session inserts a row (Insert is outside this module).
InsertRow ==
    /\ db.exists /\ db.rows = 0
    /\ db' = [db EXCEPT !.rows = 1]
    /\ UNCHANGED <<sess, faults>>

Step(p) ==
    \/ createTable(p)
    \/ \E op \in Ops : StartLoop(p, op)
    \/ LoopExec(p)
    \/ dropTable(p) \/ dropTableExec(p)
    \/ isTableExist(p) \/ isTableEmpty(p) \/ isIndexExist2(p)

Next == (\E p \in Procs : Step(p)) \/ InsertRow

Spec == Init /\ [][Next]_vars /\ \A p \in Procs : WF_vars(Step(p))

-----------------------------------------------------------------------------
(* Properties.                                                              *)

\* dropTable's contract ("drop table will drop table if exist, if drop
\* failed, it will return error"): a DropTable that returns an error the
\* server gave (not a connection error) leaves the table in place.
DropTableErrorMeansPresent ==
    [][\A p \in Procs :
         sess'[p] # sess[p] /\ sess'[p].pc = "idle" /\ sess'[p].op = "dropTable"
         /\ sess'[p].res = "err"
         => db'.exists]_vars

\* isIndexExist2 answers whether an index of the asked kind exists on the
\* asked columns, whatever order GetIndexes lists the live indexes in.
IndexAnswerCorrect ==
    \A p \in Procs :
        sess[p].op = "isIndexExist2" /\ sess[p].res = "ok"
        => sess[p].ans = sess[p].ref

\* A retrying caller whose call of one of ops failed on the connection,
\* from a table on which the call could succeed, eventually gets nil from
\* a retry.
RetrySucceeds(ops) ==
    \A p \in Procs, op \in ops :
        (sess[p].pc = "idle" /\ sess[p].res = "fault" /\ sess[p].op = op
            /\ sess[p].ok)
        ~> (sess[p].pc = "idle" /\ sess[p].res = "ok" /\ sess[p].op = op)

\* DropIndexes: a retry after a connection error, from a table that had
\* every index of the struct, eventually returns nil.
DropIndexesRetrySucceeds == RetrySucceeds({"dropIndexes"})

=============================================================================
