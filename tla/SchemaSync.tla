----------------------------- MODULE SchemaSync -----------------------------
(***************************************************************************)
(* Session.Sync2 of src/session_schema.go: the schema synchronizer.        *)
(*                                                                         *)
(* Every engine in Procs runs Sync2 over the same list of struct tables    *)
(* (Beans) against one shared database catalog db.  Sync2 reads the       *)
(* catalog once (DBMetas), then for each bean either creates the table and *)
(* its uniques and indexes, or walks the struct's columns (ADD COLUMN, the *)
(* dialect-supported MODIFY, or nothing) and diffs the indexes (DROP the   *)
(* live ones that match no struct index, CREATE the struct ones that match *)
(* no live one).  Every DDL goes through session.exec, one statement at a  *)
(* time with no transaction: the database may reject it, the connection    *)
(* may fail before or after the server applied it, and another engine may  *)
(* have changed the catalog since the snapshot was read.                   *)
(***************************************************************************)
EXTENDS Naturals, Sequences, FiniteSets, Functions, TLC

CONSTANTS
    Procs,              \* engines that run Sync2 against the database
    Tables,             \* table names
    Columns,            \* column names, in the case they are written
    Fold,               \* column name -> its case-folded form
    IndexNames,         \* index names
    Beans,              \* the beans argument of Sync2: a sequence of struct tables
    DBType,             \* engine.dialect.DBType(): "mysql", "postgres" or "sqlite"
    CreateIfNotExists,  \* the dialect's CREATE TABLE carries IF NOT EXISTS
    DefaultEngine,      \* table storage engine when the statement names none
    SessionEngine,      \* StoreEngine set on the session before Sync2
    MaxLen,             \* longest VARCHAR length in the model
    MaxFaults,          \* bound on connection failures over a behaviour
    InitCatalogs        \* the catalogs the database may hold when engines start

VARIABLES
    db,       \* the live catalog: table name -> table record
    sess,     \* per engine: the state of its Sync2 call
    faults    \* connection failures so far

vars == <<db, sess, faults>>

ColTypes == {"Varchar", "Text", "Int"}
ColDef   == [type: ColTypes, len: 0..MaxLen]
IndexTypes == {"index", "unique"}
Index    == [type: IndexTypes, cols: SUBSET Columns]
Engines  == {DefaultEngine, SessionEngine}
Phases   == {"idle", "create", "newidx", "cols", "diff", "drops", "addidx",
             "warn", "done", "failed"}

\* strings.EqualFold of two column names.
SameName(a, b) == Fold[a] = Fold[b]

\* A column of cols that EqualFold matches to c, and the one the loop over
\* the live columns stops at (live names are distinct up to case).
HasCol(cols, c)   == \E c2 \in DOMAIN cols : SameName(c, c2)
LiveName(cols, c) == CHOOSE c2 \in DOMAIN cols : SameName(c, c2)

\* The database resolves identifiers without regard to case (MySQL and
\* SQLite column names): an index created on struct columns records them
\* under the names the table stores them by.
StoredCols(rec, cs) ==
    {IF HasCol(rec.cols, c) THEN LiveName(rec.cols, c) ELSE c : c \in cs}

IsTableRec(r) ==
    /\ r.exists \in BOOLEAN
    /\ DOMAIN r.cols \subseteq Columns /\ \A c \in DOMAIN r.cols : r.cols[c] \in ColDef
    /\ DOMAIN r.idx \subseteq IndexNames \X IndexTypes
    /\ \A k \in DOMAIN r.idx : r.idx[k] \in Index /\ r.idx[k].type = k[2]
    /\ r.engine \in Engines

NoTable == [exists |-> FALSE, cols |-> <<>>, idx |-> <<>>, engine |-> DefaultEngine]

\* A struct table: name, ordered columns, named indexes.
StructCols(s)    == {s.cols[k].name : k \in 1..Len(s.cols)}
StructDef(s, c)  == s.cols[CHOOSE k \in 1..Len(s.cols) : s.cols[k].name = c].def

ASSUME /\ Fold \in [Columns -> Columns]
       /\ \A i \in 1..Len(Beans) : Beans[i].name \in Tables /\ Len(Beans[i].cols) > 0
       /\ \A C \in InitCatalogs : \A t \in Tables : IsTableRec(C[t])

-----------------------------------------------------------------------------
(* Helpers translated from the code.                                       *)

\* engine.dialect.SqlType(col): the length is part of the type string for a
\* bounded VARCHAR only.
SqlType(c) == IF c.type = "Varchar" THEN <<c.type, c.len>> ELSE <<c.type, 0>>

\* Mutant: the VARCHAR length comparison dropped.
ModifiesColumnAnyLength(want, live) ==
    /\ SqlType(want) # SqlType(live)
    /\ \/ /\ want.type = "Text" /\ live.type = "Varchar"
          /\ DBType \in {"mysql", "postgres"}
       \/ /\ want.type = "Varchar" /\ live.type = "Varchar"
          /\ DBType = "mysql"

\* Sync2's reaction to a column present in the struct and in the catalog:
\* TRUE when it issues ModifyColumnSql.  Every other type, default or
\* nullable difference is only logged.
ModifiesColumn(want, live) ==
    /\ SqlType(want) # SqlType(live)
    /\ \/ /\ want.type = "Text" /\ live.type = "Varchar"
          /\ DBType \in {"mysql", "postgres"}
       \/ /\ want.type = "Varchar" /\ live.type = "Varchar"
          /\ DBType = "mysql"
          /\ live.len < want.len

\* Index.XName: the database name of an index carries its type's prefix
\* (UQE_ or IDX_) before the table and index name, so a unique and a plain
\* index of one name are two objects.  The catalog is keyed by it.
XName(n, ix) == <<n, ix.type>>

\* The dialect's GetIndexes strips the prefix and keys a table's indexes by
\* name alone: when a UQE_ and an IDX_ index share a name, whichever row
\* comes last is kept.
IdxViews(rec) ==
    LET names == {k[1] : k \in DOMAIN rec.idx} IN
    { [n \in names |-> rec.idx[<<n, pick[n]>>]] :
        pick \in {f \in [names -> IndexTypes] :
                    \A n \in names : <<n, f[n]>> \in DOMAIN rec.idx} }

TableViews(rec) == {[rec EXCEPT !.idx = v] : v \in IdxViews(rec)}

\* The results engine.DBMetas may return for catalog d: every table, with
\* its indexes keyed by name.
DBMetas(d) ==
    { S \in [Tables -> UNION {TableViews(d[t]) : t \in Tables}] :
        \A t \in Tables : S[t] \in TableViews(d[t]) }

\* index.Equal(index2) of the core dependency: same type, same columns.
IndexEqual(a, b) == a.type = b.type /\ a.cols = b.cols

\* Two indexes of the same type on the same columns, names taken without
\* regard to case, as the database resolves them.
IndexSame(a, b) ==
    a.type = b.type /\ {Fold[c] : c \in a.cols} = {Fold[c] : c \in b.cols}

\* The table genCreateTableSQL creates: every struct column, no index, the
\* storage engine named by the statement.
NewTable(s, eng) ==
    [exists |-> TRUE, cols |-> [c \in StructCols(s) |-> StructDef(s, c)],
     idx |-> <<>>, engine |-> eng]

-----------------------------------------------------------------------------
(* What Sync2 promises of the catalog (spec 4.6), stated without the code's *)
(* decision helpers.                                                       *)

\* A live column is as wide as the dialect lets Sync2 make it: on MySQL and
\* PostgreSQL a TEXT field is not left a VARCHAR; on MySQL a VARCHAR is at
\* least as long as the struct's.
WideEnough(want, live) ==
    /\ (want.type = "Text" /\ DBType \in {"mysql", "postgres"}) => live.type # "Varchar"
    /\ (want.type = "Varchar" /\ live.type = "Varchar" /\ DBType = "mysql")
           => live.len >= want.len

\* Every bean's table exists with all its columns (by case-insensitive
\* name, spec 4.6), each wide enough, and its indexes are exactly the
\* struct's indexes up to structural equality.
Converged(d) ==
    \A i \in 1..Len(Beans) :
        LET s == Beans[i]  r == d[s.name] IN
        /\ r.exists
        /\ \A c \in StructCols(s) :
              HasCol(r.cols, c) /\ WideEnough(StructDef(s, c), r.cols[LiveName(r.cols, c)])
        /\ \A n \in DOMAIN s.idx : \E m \in DOMAIN r.idx : IndexSame(s.idx[n], r.idx[m])
        /\ \A m \in DOMAIN r.idx : \E n \in DOMAIN s.idx : IndexSame(s.idx[n], r.idx[m])

-----------------------------------------------------------------------------
(* The local state of a Sync2 call.                                        *)

Idle == [pc |-> "idle", snap |-> [t \in Tables |-> NoTable], bean |-> 0, col |-> 0,
         todo |-> {}, added |-> {}, engine |-> DefaultEngine,
         startConv |-> FALSE, emitted |-> FALSE]

\* The statement is cleared: every session.exec defers resetStatement,
\* which empties the statement's StoreEngine along with the rest.
ResetStatement(l) == [l EXCEPT !.engine = DefaultEngine]

\* Start bean i, looking its table up in the catalog snapshot; past the last
\* bean, go to the closing warning loop.
EnterBean(l, i) ==
    IF i > Len(Beans) THEN [l EXCEPT !.pc = "warn", !.bean = i, !.todo = {}, !.added = {}]
    ELSE IF l.snap[Beans[i].name].exists
         THEN [l EXCEPT !.pc = "cols", !.bean = i, !.col = 1, !.todo = {}, !.added = {}]
         ELSE [l EXCEPT !.pc = "create", !.bean = i, !.todo = {}, !.added = {}]

\* After the drop loop: the creation loop, or the next bean.
AfterDrops(l) ==
    IF l.added # {} THEN [l EXCEPT !.pc = "addidx", !.todo = l.added, !.added = {}]
    ELSE EnterBean(l, l.bean + 1)

Returned(l, status) ==
    [Idle EXCEPT !.pc = status, !.startConv = l.startConv, !.emitted = l.emitted]

-----------------------------------------------------------------------------
(* session.exec of one DDL statement on table t.  accepted: the database   *)
(* accepts the statement against its current catalog; rec: the table      *)
(* after it; after: the caller's state when exec returns nil.  A rejected *)
(* statement, or a connection failure (the statement applied or not),     *)
(* makes Sync2 return the error.                                           *)
Exec(p, t, accepted, rec, after) ==
    LET l == [sess[p] EXCEPT !.emitted = TRUE] IN
    \/ /\ accepted
       /\ db' = [db EXCEPT ![t] = rec]
       /\ sess' = [sess EXCEPT ![p] = ResetStatement([after EXCEPT !.emitted = TRUE])]
       /\ UNCHANGED faults
    \/ /\ ~accepted
       /\ sess' = [sess EXCEPT ![p] = Returned(l, "failed")]
       /\ UNCHANGED <<db, faults>>
    \/ /\ faults < MaxFaults
       /\ faults' = faults + 1
       /\ db' \in IF accepted THEN {db, [db EXCEPT ![t] = rec]} ELSE {db}
       /\ sess' = [sess EXCEPT ![p] = Returned(l, "failed")]

\* CREATE [UNIQUE] INDEX n on t.
ExecCreateIndex(p, t, n, ix, after) ==
    LET k == XName(n, ix) IN
    Exec(p, t, db[t].exists /\ k \notin DOMAIN db[t].idx,
         [db[t] EXCEPT !.idx = (k :> [ix EXCEPT !.cols = StoredCols(db[t], ix.cols)])
                                @@ db[t].idx], after)

\* Leave index n of the loop's to-do set; when the set is empty, go on.
LoopStep(l, n, whenDone) ==
    IF l.todo = {n} THEN whenDone
    ELSE [l EXCEPT !.todo = @ \ {n}]

CurBean(p) == Beans[sess[p].bean]
CurTable(p) == CurBean(p).name

-----------------------------------------------------------------------------
(* Actions                                                                 *)

\* Sync2 begins: DBMetas reads the whole catalog once.  An engine starts,
\* or starts again after its Sync2 returned an error.
Begin(p) ==
    \/ /\ \E S \in DBMetas(db) :
             sess' = [sess EXCEPT ![p] =
                        EnterBean([Idle EXCEPT !.snap = S, !.engine = SessionEngine,
                                               !.startConv = Converged(db)], 1)]
       /\ UNCHANGED <<db, faults>>
    \/ /\ faults < MaxFaults
       /\ faults' = faults + 1
       /\ sess' = [sess EXCEPT ![p] = Returned(Idle, "failed")]
       /\ UNCHANGED db

Start(p) == sess[p].pc \in {"idle", "failed"} /\ Begin(p)

\* The application calls Sync2 again after one that succeeded.
Resync(p) == sess[p].pc = "done" /\ Begin(p)

\* The table is missing from the snapshot: createTable.
CreateTable(p) ==
    LET l == sess[p]  s == CurBean(p)  t == s.name IN
    /\ l.pc = "create"
    /\ Exec(p, t, ~db[t].exists \/ CreateIfNotExists,
            IF db[t].exists THEN db[t] ELSE NewTable(s, l.engine),
            IF DOMAIN s.idx = {} THEN EnterBean(l, l.bean + 1)
            ELSE [l EXCEPT !.pc = "newidx", !.todo = DOMAIN s.idx])

\* createUniques, then createIndexes: one CREATE INDEX per struct index,
\* the uniques first.
CreateNewIndex(p) ==
    LET l == sess[p]  s == CurBean(p) IN
    /\ l.pc = "newidx"
    /\ \E n \in l.todo :
          /\ s.idx[n].type = "unique" \/ \A m \in l.todo : s.idx[m].type = "index"
          /\ ExecCreateIndex(p, s.name, n, s.idx[n],
                 LoopStep(l, n, EnterBean(l, l.bean + 1)))

\* The column loop: the struct column at position l.col, against the
\* snapshot of the table.
ColWant(p) == CurBean(p).cols[sess[p].col]
ColOri(p)  == sess[p].snap[CurTable(p)].cols
\* The snapshot's column that EqualFold matches to the struct column.
OriName(p) == LiveName(ColOri(p), ColWant(p).name)
\* Mutants: the loop stops one column early; the loop runs one column past
\* the end.
ColNextSkipLast(p) ==
    LET l == sess[p] IN
    IF l.col + 1 >= Len(CurBean(p).cols) THEN [l EXCEPT !.pc = "diff"]
    ELSE [l EXCEPT !.col = @ + 1]
ColNextPastEnd(p) ==
    LET l == sess[p] IN
    IF l.col > Len(CurBean(p).cols) THEN [l EXCEPT !.pc = "diff"]
    ELSE [l EXCEPT !.col = @ + 1]

ColNext(p) ==
    LET l == sess[p] IN
    IF l.col = Len(CurBean(p).cols) THEN [l EXCEPT !.pc = "diff"]
    ELSE [l EXCEPT !.col = @ + 1]

\* Mutant: the "column missing from the snapshot" test dropped.
AddColumnUnguarded(p) ==
    LET t == CurTable(p)  w == ColWant(p) IN
    /\ sess[p].pc = "cols"
    /\ Exec(p, t, db[t].exists /\ ~HasCol(db[t].cols, w.name),
            [db[t] EXCEPT !.cols = (w.name :> w.def) @@ db[t].cols], ColNext(p))

\* The column is missing: addColumn.
AddColumn(p) ==
    LET t == CurTable(p)  w == ColWant(p) IN
    /\ sess[p].pc = "cols"
    /\ ~HasCol(ColOri(p), w.name)
    /\ Exec(p, t, db[t].exists /\ ~HasCol(db[t].cols, w.name),
            [db[t] EXCEPT !.cols = (w.name :> w.def) @@ db[t].cols], ColNext(p))

\* The column differs in a way the dialect can alter: ModifyColumnSql.
ModifyColumn(p) ==
    LET t == CurTable(p)  w == ColWant(p) IN
    /\ sess[p].pc = "cols"
    /\ HasCol(ColOri(p), w.name)
    /\ ModifiesColumn(w.def, ColOri(p)[OriName(p)])
    /\ Exec(p, t, db[t].exists /\ HasCol(db[t].cols, w.name),
            [db[t] EXCEPT !.cols = [c \in DOMAIN db[t].cols |->
                                      IF SameName(c, w.name) THEN w.def ELSE db[t].cols[c]]],
            ColNext(p))

\* The column matches, or differs only in ways Sync2 logs and leaves.
KeepColumn(p) ==
    /\ sess[p].pc = "cols"
    /\ HasCol(ColOri(p), ColWant(p).name)
    /\ ~ModifiesColumn(ColWant(p).def, ColOri(p)[OriName(p)])
    /\ sess' = [sess EXCEPT ![p] = ColNext(p)]
    /\ UNCHANGED <<db, faults>>

\* Mutant: foundIndexNames keyed by the struct index name instead of the
\* live one.
DiffIndexesByStructName(p) ==
    LET l == sess[p]  s == CurBean(p)  ori == l.snap[s.name].idx
        Cands(n) == {m \in DOMAIN ori : IndexEqual(s.idx[n], ori[m])}
        Matched == {n \in DOMAIN s.idx : Cands(n) # {}}
    IN
    /\ l.pc = "diff"
    /\ LET drops == DOMAIN ori \ Matched
           added == DOMAIN s.idx \ Matched
           l2 == [l EXCEPT !.added = added]
       IN sess' = [sess EXCEPT ![p] =
                     IF drops # {} THEN [l2 EXCEPT !.pc = "drops", !.todo = drops]
                     ELSE AfterDrops(l2)]
    /\ UNCHANGED <<db, faults>>

\* The index diff: each struct index takes the first live index of the
\* snapshot equal to it, in Go's random map order; live indexes nobody took
\* are to be dropped, struct indexes that took none are to be created.
DiffIndexes(p) ==
    LET l == sess[p]  s == CurBean(p)  ori == l.snap[s.name].idx
        Cands(n) == {m \in DOMAIN ori : IndexEqual(s.idx[n], ori[m])}
        Matched == {n \in DOMAIN s.idx : Cands(n) # {}}
    IN
    /\ l.pc = "diff"
    /\ \E match \in [Matched -> DOMAIN ori] :
          /\ \A n \in Matched : match[n] \in Cands(n)
          /\ LET drops == DOMAIN ori \ Range(match)
                 added == DOMAIN s.idx \ Matched
                 l2 == [l EXCEPT !.added = added]
             IN sess' = [sess EXCEPT ![p] =
                           IF drops # {} THEN [l2 EXCEPT !.pc = "drops", !.todo = drops]
                           ELSE AfterDrops(l2)]
    /\ UNCHANGED <<db, faults>>

\* DropIndexSql(tbName, index2) for a live index of the snapshot that no
\* struct index took: it names the index by the snapshot's type.
DropIndex(p) ==
    LET l == sess[p]  t == CurTable(p) IN
    /\ l.pc = "drops"
    /\ \E n \in l.todo :
          LET k == XName(n, l.snap[t].idx[n]) IN
          Exec(p, t, db[t].exists /\ k \in DOMAIN db[t].idx,
               [db[t] EXCEPT !.idx = Restrict(db[t].idx, DOMAIN db[t].idx \ {k})],
               LoopStep(l, n, AfterDrops(l)))

\* addUnique / addIndex for a struct index no live index matched.
AddIndex(p) ==
    LET l == sess[p]  s == CurBean(p) IN
    /\ l.pc = "addidx"
    /\ \E n \in l.todo :
          ExecCreateIndex(p, s.name, n, s.idx[n],
              LoopStep(l, n, EnterBean(l, l.bean + 1)))

\* The closing loop only logs live columns without a struct field; Sync2
\* returns nil.
Finish(p) ==
    /\ sess[p].pc = "warn"
    /\ sess' = [sess EXCEPT ![p] = Returned(sess[p], "done")]
    /\ UNCHANGED <<db, faults>>

-----------------------------------------------------------------------------
Init ==
    /\ db \in InitCatalogs
    /\ sess = [p \in Procs |-> Idle]
    /\ faults = 0

Step(p) ==
    \/ Start(p) \/ CreateTable(p) \/ CreateNewIndex(p)
    \/ AddColumn(p) \/ ModifyColumn(p) \/ KeepColumn(p)
    \/ DiffIndexes(p) \/ DropIndex(p) \/ AddIndex(p) \/ Finish(p)

Next == \E p \in Procs : Step(p) \/ Resync(p)

\* Each engine's Sync2 runs to its end (a synchronous call), and an engine
\* whose Sync2 failed is started again (the application retries at
\* startup).  A further Sync2 after a successful one is never forced.
Fairness == \A p \in Procs : WF_vars(Step(p))

Spec == Init /\ [][Next]_vars /\ Fairness

-----------------------------------------------------------------------------
(* Properties                                                              *)

TypeOK ==
    /\ \A t \in Tables : IsTableRec(db[t])
    /\ faults \in 0..MaxFaults
    /\ \A p \in Procs :
          /\ sess[p].pc \in Phases
          /\ sess[p].bean \in 0..Len(Beans) + 1
          /\ sess[p].todo \subseteq IndexNames /\ sess[p].added \subseteq IndexNames
          /\ sess[p].engine \in Engines
          /\ sess[p].pc = "cols" => sess[p].col \in 1..Len(Beans[sess[p].bean].cols)

\* A Sync2 call that returned nil has left the catalog converged: every
\* bean's table, columns (widened where the dialect allows) and exactly its
\* indexes -- whatever DDL failed, was retried, or ran from other engines.
SyncedWhenDone == \A p \in Procs : sess[p].pc = "done" => Converged(db)

\* Idempotent synchronization (spec section 8): a Sync2 call that starts
\* from a converged catalog issues no DDL statement at all.
IdempotentResync == \A p \in Procs : sess[p].startConv => ~sess[p].emitted

\* Sync2 never corrects a column in a way that can lose data: a column that
\* exists before and after a step keeps its type, or a VARCHAR becomes TEXT
\* or a longer VARCHAR.
Widening(old, new) ==
    /\ old.type = "Varchar"
    /\ new.type = "Text" \/ (new.type = "Varchar" /\ new.len > old.len)

ColumnsOnlyWiden ==
    [][\A t \in Tables : \A c \in DOMAIN db[t].cols \cap DOMAIN db'[t].cols :
          db'[t].cols[c] = db[t].cols[c] \/ Widening(db[t].cols[c], db'[t].cols[c])]_db

\* An engine that keeps retrying a failed Sync2 eventually has one return
\* nil, even while other engines synchronize the same catalog.
SyncEventuallySucceeds == \A p \in Procs : <>(sess[p].pc = "done")

\* The catalog eventually converges to the beans and stays converged.
EventuallyConverged == <>[]Converged(db)

\* Every table the engines created carries the StoreEngine the session was
\* given for the Sync2 call (tables present at start carry it too).
StoreEngineApplied == \A t \in Tables : db[t].exists => db[t].engine = SessionEngine

=============================================================================
