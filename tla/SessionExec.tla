---------------------------- MODULE SessionExec ----------------------------
(***************************************************************************)
(* How a Session sends SQL to the database: session.exec and              *)
(* session.queryRows of src/session_raw.go.                                *)
(*                                                                         *)
(* Both run queryPreprocess (which records lastSQL) and then route the     *)
(* statement by the session's mode:                                        *)
(*   - inside a transaction (!isAutoCommit) to the transaction handle;     *)
(*   - in autocommit mode a write goes to session.DB(), the master pool;   *)
(*   - in autocommit mode a read goes to engineGroup.Slave() when the      *)
(*     engine belongs to an engine group, and to session.DB() otherwise.   *)
(* Either call ends with the deferred resetStatement, on success and on    *)
(* error alike.                                                            *)
(*                                                                         *)
(* Data are abstracted to one row per session: session s is the only      *)
(* writer of row s, and each of its writes stores the next version number  *)
(* of that row.  A replica applies the master's committed writes in order, *)
(* some time later (the replication stream repl).  A statement is the set  *)
(* of conditions the builder added to it.                                  *)
(***************************************************************************)
EXTENDS Integers, Sequences, FiniteSets

CONSTANTS
    Sessions,      \* sessions; session s owns row s
    Slaves,        \* the read replicas of the engine group
    Conds,         \* conditions a builder call may add to a statement
    UseGroup,      \* session.engine.engineGroup != nil
    MaxVer,        \* bound on the versions written per row
    MaxErrors      \* bound on failed executor calls

ASSUME UseGroup \in BOOLEAN
ASSUME MaxVer \in Nat /\ MaxErrors \in Nat /\ Slaves # {}

Versions == 0..MaxVer
NoRead   == -1          \* no read of the row since the session last wrote it

VARIABLES
    master,      \* row -> version committed on the master
    replica,     \* slave -> row -> version that replica has applied
    repl,        \* slave -> committed writes not yet applied there, in order
    autoCommit,  \* session.isAutoCommit
    pending,     \* version written in the open transaction, 0 if none
    ver,         \* last version the owner of a row has issued
    stmt,        \* conditions of session.statement
    errors,      \* failed executor calls so far
    \* history variables, read only by the properties
    fresh,       \* conditions added since the session's last terminal call
    committed,   \* row -> last version made durable by a commit
    mine,        \* version a session's next read of its own row must show
    ownRead,     \* result of its latest read of its own row since it last
                 \* wrote, began, committed or rolled back
    seen         \* session -> row -> result of its latest read of that row

dbVars   == <<master, replica, repl>>
sessVars == <<autoCommit, pending, ver, stmt, errors>>
histVars == <<fresh, committed, mine, ownRead, seen>>
vars     == <<dbVars, sessVars, histVars>>

TypeOK ==
    /\ master \in [Sessions -> Versions]
    /\ replica \in [Slaves -> [Sessions -> Versions]]
    /\ repl \in [Slaves -> Seq(Sessions \X Versions)]
    /\ autoCommit \in [Sessions -> BOOLEAN]
    /\ pending \in [Sessions -> Versions]
    /\ \A s \in Sessions : autoCommit[s] => pending[s] = 0
    /\ ver \in [Sessions -> Versions]
    /\ stmt \in [Sessions -> SUBSET Conds]
    /\ errors \in 0..MaxErrors
    /\ fresh \in [Sessions -> SUBSET Conds]
    /\ committed \in [Sessions -> Versions]
    /\ mine \in [Sessions -> Versions]
    /\ ownRead \in [Sessions -> Versions \cup {NoRead}]
    /\ seen \in [Sessions -> [Sessions -> Versions]]

Init ==
    /\ master = [r \in Sessions |-> 0]
    /\ replica = [sl \in Slaves |-> [r \in Sessions |-> 0]]
    /\ repl = [sl \in Slaves |-> <<>>]
    /\ autoCommit = [s \in Sessions |-> TRUE]
    /\ pending = [s \in Sessions |-> 0]
    /\ ver = [s \in Sessions |-> 0]
    /\ stmt = [s \in Sessions |-> {}]
    /\ errors = 0
    /\ fresh = [s \in Sessions |-> {}]
    /\ committed = [r \in Sessions |-> 0]
    /\ mine = [s \in Sessions |-> 0]
    /\ ownRead = [s \in Sessions |-> NoRead]
    /\ seen = [s \in Sessions |-> [r \in Sessions |-> 0]]

-----------------------------------------------------------------------------
(* Helpers.                                                                 *)

\* session.resetStatement, run by the defer of exec and queryRows.
ResetStatement(s) == stmt' = [stmt EXCEPT ![s] = {}]

\* queryPreprocess: the SQL built from the current statement is sent and
\* recorded as session.lastSQL (not modelled: no property reads it); a
\* terminal call starts a new builder epoch.
queryPreprocess(s) == fresh' = [fresh EXCEPT ![s] = {}]

\* Make version v of row r durable on the master and, when the engine has a
\* group, queue it for every replica.
CommitWrite(r, v) ==
    /\ master' = [master EXCEPT ![r] = v]
    /\ repl' = IF UseGroup THEN [sl \in Slaves |-> Append(repl[sl], <<r, v>>)]
                           ELSE repl

\* Mutant of Apply: the transaction branch is taken in autocommit mode.
ApplyInverted(s, v) ==
    IF autoCommit[s]
        THEN /\ pending' = [pending EXCEPT ![s] = v]
             /\ UNCHANGED <<master, repl>>
        ELSE /\ CommitWrite(s, v)
             /\ UNCHANGED pending

\* Mutant of Apply: the !isAutoCommit check is missing, so a write inside
\* a transaction goes straight to the pool.
ApplyIgnoringTx(s, v) ==
    /\ CommitWrite(s, v)
    /\ UNCHANGED pending

\* Where exec sends the write of version v: to the transaction handle when
\* !isAutoCommit, where it stays until Commit, and otherwise to
\* session.DB() (with or without doPrepare), where it is durable at once.
Apply(s, v) ==
    IF ~autoCommit[s]
        THEN /\ pending' = [pending EXCEPT ![s] = v]
             /\ UNCHANGED <<master, repl>>
        ELSE /\ CommitWrite(s, v)
             /\ UNCHANGED pending

\* What the caller may take as durable once the write of v was applied:
\* in autocommit mode the write itself, inside a transaction nothing yet.
Durable(s, v) ==
    committed' = IF autoCommit[s] THEN [committed EXCEPT ![s] = v]
                                  ELSE committed

\* The executor call failed: doPrepare, the query or the exec returned an
\* error (a cancelled call included).
Fail == errors < MaxErrors /\ errors' = errors + 1

-----------------------------------------------------------------------------
(* Actions.                                                                 *)

\* A builder call (Where, And, ...) adds a condition to the statement.
Where(s, c) ==
    /\ stmt' = [stmt EXCEPT ![s] = @ \cup {c}]
    /\ fresh' = [fresh EXCEPT ![s] = @ \cup {c}]
    /\ UNCHANGED <<dbVars, autoCommit, pending, ver, errors,
                   committed, mine, ownRead, seen>>

\* Mutant of exec: the statement is reset only when the call succeeds, as
\* it would be if resetStatement were called at the end instead of deferred.
execResetOnSuccess(s) ==
    LET v == ver[s] + 1 IN
    /\ ver[s] < MaxVer
    /\ queryPreprocess(s)
    /\ ver' = [ver EXCEPT ![s] = v]
    /\ ownRead' = [ownRead EXCEPT ![s] = NoRead]
    /\ \/ /\ Apply(s, v) /\ Durable(s, v)
          /\ mine' = [mine EXCEPT ![s] = v]
          /\ ResetStatement(s)
          /\ UNCHANGED errors
       \/ /\ Fail
          /\ UNCHANGED <<master, repl, pending, committed, mine, stmt>>
       \/ /\ Fail
          /\ Apply(s, v) /\ Durable(s, v)
          /\ UNCHANGED <<mine, stmt>>
    /\ UNCHANGED <<replica, autoCommit, seen>>

\* session.exec of an UPDATE of the session's own row to its next version.
\* Outcomes: the call succeeds; it fails before reaching the database
\* (doPrepare or the executor returned an error); or it is cancelled after
\* the database applied it, so the caller sees an error for a write that
\* happened.  In every case the deferred resetStatement runs.
exec(s) ==
    LET v == ver[s] + 1 IN
    /\ ver[s] < MaxVer
    /\ queryPreprocess(s)
    /\ ResetStatement(s)
    /\ ver' = [ver EXCEPT ![s] = v]
    /\ ownRead' = [ownRead EXCEPT ![s] = NoRead]
    /\ \/ /\ Apply(s, v) /\ Durable(s, v)
          /\ mine' = [mine EXCEPT ![s] = v]
          /\ UNCHANGED errors
       \/ /\ Fail
          /\ UNCHANGED <<master, repl, pending, committed, mine>>
       \/ /\ Fail
          /\ Apply(s, v) /\ Durable(s, v)
          /\ UNCHANGED mine
    /\ UNCHANGED <<replica, autoCommit, seen>>

\* Mutant of ReadFrom: the isAutoCommit check is missing, so a read inside
\* a transaction goes to the pool instead of the transaction handle.
ReadFromIgnoringTx(s, r, sl) ==
    IF UseGroup THEN replica[sl][r] ELSE master[r]

\* The row a read returns when it is routed as queryRows routes it:
\* the transaction handle, the master pool, or one of the replicas.
ReadFrom(s, r, sl) ==
    IF ~autoCommit[s]
        THEN IF r = s /\ pending[s] # 0 THEN pending[s] ELSE master[r]
    ELSE IF UseGroup THEN replica[sl][r]
    ELSE master[r]

\* session.queryRows of a SELECT of row r (via queryBytes and rows2maps).
\* engineGroup.Slave() may pick any replica.
queryRows(s, r) ==
    /\ queryPreprocess(s)
    /\ ResetStatement(s)
    /\ \/ \E sl \in Slaves :
            LET val == ReadFrom(s, r, sl) IN
            /\ IF r = s THEN /\ ownRead' = [ownRead EXCEPT ![s] = val]
                            /\ UNCHANGED seen
                       ELSE /\ seen' = [seen EXCEPT ![s][r] = val]
                            /\ UNCHANGED ownRead
            /\ UNCHANGED errors
       \/ /\ Fail
          /\ UNCHANGED <<seen, ownRead>>
    /\ UNCHANGED <<dbVars, autoCommit, pending, ver, committed, mine>>

\* A replica applies the oldest write it has not applied yet.
Replicate(sl) ==
    /\ repl[sl] # <<>>
    /\ LET w == Head(repl[sl]) IN
       replica' = [replica EXCEPT ![sl][w[1]] = w[2]]
    /\ repl' = [repl EXCEPT ![sl] = Tail(@)]
    /\ UNCHANGED <<master, sessVars, histVars>>

\* session.Begin: open a transaction handle on the master.
Begin(s) ==
    /\ autoCommit[s]
    /\ autoCommit' = [autoCommit EXCEPT ![s] = FALSE]
    /\ ownRead' = [ownRead EXCEPT ![s] = NoRead]
    /\ UNCHANGED <<dbVars, pending, ver, stmt, errors, fresh, committed, mine,
                   seen>>

\* session.Commit: the transaction's write becomes durable.
Commit(s) ==
    /\ ~autoCommit[s]
    /\ IF pending[s] # 0
          THEN /\ CommitWrite(s, pending[s])
               /\ committed' = [committed EXCEPT ![s] = pending[s]]
          ELSE UNCHANGED <<master, repl, committed>>
    /\ UNCHANGED replica
    /\ autoCommit' = [autoCommit EXCEPT ![s] = TRUE]
    /\ pending' = [pending EXCEPT ![s] = 0]
    /\ ownRead' = [ownRead EXCEPT ![s] = NoRead]
    /\ UNCHANGED <<ver, stmt, errors, fresh, mine, seen>>

\* session.Rollback: the transaction's write is discarded; the session's
\* own row is again what the master holds.
Rollback(s) ==
    /\ ~autoCommit[s]
    /\ autoCommit' = [autoCommit EXCEPT ![s] = TRUE]
    /\ pending' = [pending EXCEPT ![s] = 0]
    /\ mine' = [mine EXCEPT ![s] = master[s]]
    /\ ownRead' = [ownRead EXCEPT ![s] = NoRead]
    /\ UNCHANGED <<dbVars, ver, stmt, errors, fresh, committed, seen>>

Next ==
    \/ \E s \in Sessions :
          \/ \E c \in Conds : Where(s, c)
          \/ exec(s)
          \/ \E r \in Sessions : queryRows(s, r)
          \/ Begin(s) \/ Commit(s) \/ Rollback(s)
    \/ \E sl \in Slaves : Replicate(sl)

Spec == Init /\ [][Next]_vars

-----------------------------------------------------------------------------
(* Properties.                                                              *)

\* No leakage between terminal calls (resetStatement deferred in exec and
\* queryRows): a statement only ever holds conditions added since the
\* session's last terminal call, even when that call failed.
StatementNotLeaked == \A s \in Sessions : stmt[s] \subseteq fresh[s]

\* Read-your-writes inside a transaction: queryRows sends a read in a
\* transaction to the transaction handle, so the session's read of its own
\* row shows its latest write, uncommitted or not, even with an engine group.
TxReadYourWrites ==
    \A s \in Sessions :
        ~autoCommit[s] /\ ownRead[s] # NoRead => ownRead[s] >= mine[s]

\* No dirty reads: a session never reads a version of another session's row
\* that the writer has not committed, whatever exec and queryRows route to
\* the transaction handle, the pool or a replica.
NoDirtyReads ==
    \A s, r \in Sessions : r # s => seen[s][r] <= committed[r]

=============================================================================
