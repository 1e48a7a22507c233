# TLA+ models of xorm's session engine

This directory holds TLA+ models of the xorm ORM in `src/`, the TLC configurations that check them, and `PROJECT.json`. `PROJECT.json` lists the components, runs, mutants, the source lines each definition models, the findings and the hazards.

## 1. Inventory

### What the repository contains

Only part of the implementation is under `src/`:

| file | content |
|---|---|
| `session_schema.go` | `Ping`, `CreateTable`, `CreateIndexes`, `CreateUniques`, `DropIndexes`, `DropTable`, `IsTableExist`, `IsTableEmpty`, `isIndexExist2`, `addColumn`, `addIndex`, `addUnique`, **`Sync2`** |
| `session_raw.go` | `queryPreprocess`, `queryRows`, `queryRow`, `row2map`, `rows2maps`, `queryBytes`, **`exec`**, `Exec` |
| `engine_option.go` | functional options that each set one `Engine` field |
| `interface.go` | the `Interface` and `EngineInterface` method sets |
| `*_test.go`, `migrate/migrate_test.go` | tests of Get/Find/Count/Exist/Delete/Update/Insert, soft delete, versions, the cache, and migrations |

The statement builder, the CRUD terminals (Get/Find/Insert/Update/Delete/Count), the cache, and the metadata registry are described in `spec.md` and exercised by the tests. Their code is not in this tree.

### Components, their state and operations

* **Schema synchronizer** (`Session.Sync2`, `session_schema.go:245-437`).
  - *State*: the live database catalog (tables, with columns and named indexes). It also keeps local state for one call: the `DBMetas` snapshot, the current bean, the column position, `foundIndexNames` and `addedNames`.
  - *Operations*: read the catalog once. For each bean, either create the table and then its uniques and indexes, or walk the struct columns. The column walk issues `ADD COLUMN`, or `MODIFY` for VARCHAR→TEXT on MySQL/PostgreSQL and VARCHAR widening on MySQL, or only logs. Then it diffs the indexes: drop each live index that matches no struct index, and create each struct index that matches no live one. A final loop logs live columns that have no struct field.
  - *Interaction*: every DDL statement goes through `session.exec`. There is no transaction. A failure returns at once and leaves the earlier DDL applied. Separate application instances (engines) run `Sync2` against the same database at startup.
* **Schema DDL operations** (the rest of `session_schema.go`).
  - Single statements, or loops of statements, over one table.
  - `dropTable` checks for the table, then drops it.
  - `isTableEmpty` maps `sql.ErrNoRows` to "empty".
* **Raw execution** (`session_raw.go`).
  - `exec` and `queryRows` run one statement, inside the session's transaction when there is one, through a prepared statement when `prepareStmt` is set, and otherwise on the pool. In autocommit mode on an engine group, `queryRows` reads from `engineGroup.Slave()` while `exec` writes to the master. Every call ends with a deferred `resetStatement`, on success and on failure alike.
  - `queryPreprocess` records `lastSQL`.
  - `rows2maps` converts a cursor to byte maps.
* **Statement builder and terminal operations** (spec 4.2–4.4; code not under `src/`).
  - *State*: a mutable statement (conditions, columns, `Unscoped`, `NoAutoCondition`, `ID`). It is consumed by exactly one terminal call and then reset.
* **Lifecycle columns** (spec 4.3; code not under `src/`).
  - Soft delete turns `Delete` into an `UPDATE` of the deleted column, and scoped reads filter it out. `Unscoped` reads and deletes physically.
  - A version column is set to 1 by `Insert`. `Update` requires the in-memory version and increments it, and a stale copy updates zero rows.
* **Cache manager** (spec 4.5; code not under `src/`).
  - Two tiers for each cacheable table: query fingerprint → ids, and id → bean. Both are LRU-bounded, and any write to the table invalidates both.
* **Metadata registry, result mapper, engine options, interfaces, migrations**: reflection, type conversion, configuration, declarations and test-only code.

### What is hard

* **Stale snapshot.** `Sync2` decides everything from one `DBMetas` read (line 254). It then executes DDL one statement at a time, while other engines may be changing the same catalog.
* **Partial failure.** A `Sync2` that fails midway leaves a table without its indexes, or with an index dropped and not yet recreated. The next call must repair this from whatever the catalog now holds. A connection failure may come after the server applied the statement.
* **Random order.** Go map iteration decides which live index a struct index matches (`session_schema.go:365`).
* **Check then act, and retry.** `dropTable` checks for the table, then drops it. The index loops of `createIndexes` and `dropIndexes` stop at the first error, leaving earlier statements applied, so a retry meets their effects.
* **Split routing.** Reads of an engine group go to a replica that may lag the master the writes went to.
* **Statement reset.** `exec` resets the statement in a `defer`. State that `Sync2` reads from the statement (`StoreEngine`, line 279) is gone after the first DDL.
* **Lost updates.** Two sessions updating one versioned row (spec section 8) must lose one update. They must not apply both.
* **Stale cache.** A cached `Find` must not return an id set from before a write. Cache failures must degrade, never fail the call.

### Properties that make each component correct

* **Sync2**
  - A call that returns nil leaves the schema converged: tables, columns, widened types, and exactly the struct's indexes.
  - A second call on a converged schema issues no DDL.
  - No column is ever narrowed or changed type, except VARCHAR→TEXT or a longer VARCHAR.
  - Retries end in success.
  - The catalog eventually converges and stays converged.
* **DDL operations**: an error from `DropTable` means the table is still there (`ddl_drop_race` shows where it is not). A retried index call eventually succeeds (`ddl_drop_indexes_retry` shows where it does not). `isIndexExist2` answers whether such an index exists.
* **Raw execution**: a statement never carries conditions of an earlier call, whatever its outcome. Inside a transaction a session reads its own writes. No session reads an uncommitted write.
* **Builder and terminals**
  - Conditions of one call never reach the next.
  - `NoAutoCondition` suppresses exactly the bean-derived conditions.
* **Lifecycle columns**
  - A stale version updates zero rows.
  - Versions only increase.
  - A soft-deleted row is invisible to scoped reads and visible to unscoped reads.
  - `Unscoped().Delete` removes the row.
* **Cache**: every cached read returns what the database would return at that moment. This is a refinement of the uncached store.

## 2. Plan

Modules, in order of importance:

1. **`SchemaSync`** (done). `Sync2` with several engines, rejected DDL, and connection failures before or after the server applied the statement. `MC_SchemaSync` instantiates it.
2. **`RowStore`** (done). The spec-modelled lifecycle columns over one table: `Insert`, scoped and unscoped `Get`/`Find`, versioned `Update`, soft and physical `Delete`, for sessions holding several beans. Still to do: `Count`/`Exist`.
3. **`SessionExec`** (done). `exec` and `queryRows` from `session_raw.go`: the deferred reset, and the routing to the transaction handle, the pool or an engine-group replica. `MC_SessionExec` instantiates it.
   - Still to do: the builder and terminal calls with `NoAutoCondition`, composed with `RowStore`.

The project keeps one run per question. New modules should replace runs whose question a newer run subsumes, not add runs beside them.
4. **`ResultCache`** (done). The spec-modelled two-tier LRU with coarse invalidation, composed with `RowStore` and checked against it through `INSTANCE RowStore WITH ...`.
5. **`SchemaDDL`** (done). `DropTable` (check then drop), `IsTableExist`, `IsTableEmpty`, `CreateIndexes`/`CreateUniques`/`DropIndexes` and `isIndexExist2`, run by two engines, with retries after a connection error.
6. Further `SchemaSync` runs:
   - the PostgreSQL and SQLite branches of the column decision (`DBType` constant);
   - an engine running an older struct version beside a newer one (a rolling upgrade).

## 3. Modules

### `SchemaSync.tla`: `Session.Sync2`

| model | code |
|---|---|
| `db` | the live catalog: each table has `exists`, `cols` (name → `[type, len]`), `idx` and the storage `engine`. `idx` is keyed by the index's database name (`XName`: the `UQE_` or `IDX_` prefix, the table and the index name, modelled as `<<name, type>>`), so a unique and a plain index of one name are two objects |
| `DBMetas`, `IdxViews` | what `engine.DBMetas` returns: the dialect's `GetIndexes` strips the prefix and keys a table's indexes by name, so when a `UQE_` and an `IDX_` index share a name, either may be the one in the snapshot. `DropIndex` drops the index under the name and type the snapshot gives it |
| `sess[p]` | engine `p`'s current `Sync2` call: `pc` (where in `Sync2` it is), `snap` (the `DBMetas` result), `bean`, `col`, `todo` (the index loop's remaining names), `added` (`addedNames`), `engine` (`statement.StoreEngine`) and two auxiliaries for the idempotence check (`startConv`, `emitted`) |
| `faults` | connection failures so far, at most `MaxFaults` |
| `Start`, `Resync`, `Begin` | `Sync2` entry and `DBMetas` (which may fail). `Start` covers the first call and the retry after an error; `Resync` is a further call after a success |
| `CreateTable` | `createTable` (`genCreateTableSQL`: all columns, the statement's `StoreEngine`) |
| `CreateNewIndex` | `createUniques` then `createIndexes`, one statement per index, uniques first |
| `AddColumn` / `ModifyColumn` / `KeepColumn` | the three outcomes of one iteration of the column loop (`ModifiesColumn` is the nested type/length decision of lines 304–341) |
| `DiffIndexes` | the loop of lines 363–387: each struct index takes the first equal live index in random map order |
| `DropIndex`, `AddIndex` | the drop loop (389–397) and the add loop (399–412) |
| `Finish` | the closing loop that only logs; `Sync2` returns nil |
| `Exec` | `session.exec` and the database's answer. The server accepts the statement, or rejects it (the object already exists or is missing), or the connection fails (applied or not). The deferred `resetStatement` clears `StoreEngine` |

Abstractions:

* Column types are `Varchar`, `Text` and `Int`, with VARCHAR lengths 1..`MaxLen`. `SqlType` carries the length only for VARCHAR, as the dialects' type strings do.
* Defaults and nullability only produce log lines, so they are left out.
* The `else if expectedType == core.Varchar` branch (line 333) compares against the bare type name. That never equals a type string that carries a length, so the model leaves it out.
* `index.Equal` (from the `core` dependency) compares type and column set. With it, the type-change drop at lines 374–381 is unreachable: a live index with another type is not equal, so it is dropped by the drop loop and recreated by the add loop.
* Column names are compared with `strings.EqualFold` (lines 270–275 and 295–300): `Fold` maps each name to its folded form, and `SameName`, `HasCol`, `LiveName` and `OriName` are the case-insensitive lookup. The catalog resolves column identifiers without regard to case, as MySQL and SQLite do, so ADD COLUMN of a name that differs only in case is rejected, and an index created on struct columns records them under the table's stored names (`StoredCols`). `index.Equal` compares column names exactly. `Converged` compares names up to case (`IndexSame`), as spec section 4.6 does.
* `mapType` errors and the case folding of table names are not modelled (each bean has its own table name).

### `MC_SchemaSync.tla`

Two struct tables, shaped like the tests:

* `t1`: VARCHAR(2) `c1` and INT `c2`, with unique `i1(c1)` and index `i2(c1,c2)`.
* `t2`: TEXT `c1` and VARCHAR(1) `c2`, with index `i1(c2)`.

The initial catalogs are:

* an empty database;
* an older `t1` alone: `c1` is VARCHAR(1), `c2` is missing, `i2` is a *unique* index, and an extra index `i3` exists;
* that older `t1` plus an older `t2`: `c1` is VARCHAR(2) and must become TEXT, `c2` is VARCHAR(2) and is longer than the struct's, and the struct's `i1` exists under the name `i3`.

Between them these reach every branch of the column decision and every index-diff outcome:

* kept under another name;
* dropped and recreated with a new type;
* extra and dropped;
* missing and added.

`MC_SchemaSync` also defines `MCInitEmpty` for the violation runs. For `sync_case_index` it defines a catalog whose `t1` is the struct's table exactly, but with the first column stored as `C1` where the struct says `c1` (`MCFoldCase`). `MCFold` is the identity for the other runs.

### `SessionExec.tla`: `session.exec` and `session.queryRows`

Each session owns one row and is its only writer. Each write stores the row's next version number, so a read shows exactly which write it saw. A statement is the set of builder conditions it holds.

| model | code |
|---|---|
| `master`, `replica`, `repl` | the master database, each engine-group replica, and the committed writes a replica has not applied yet (in order) |
| `autoCommit`, `pending` | `session.isAutoCommit`, and the write held by the open transaction handle |
| `stmt` | `session.statement`'s conditions |
| `Where` | a builder call (spec-modelled: the builder is not under `src/`) |
| `exec` | `session.exec` (lines 152–195): `queryPreprocess`, then `Apply`. `Apply` sends the write to `session.tx` when `!isAutoCommit` and to `session.DB()` otherwise, with or without `doPrepare`. The call succeeds, fails, or is cancelled after the server applied it. The deferred `resetStatement` runs in every case |
| `queryRows` | `session.queryRows` (lines 25–84). `ReadFrom` is its routing: `session.tx` inside a transaction, `engineGroup.Slave()` in autocommit mode with a group, and `session.DB()` otherwise. The deferred reset runs on success and on error alike |
| `Begin`, `Commit`, `Rollback` | the transaction calls (spec-modelled) |
| `Replicate` | a replica applying the master's oldest unapplied write (the database's side of an engine group) |

History variables are read only by the properties:

* `fresh`: the conditions added since the session's last terminal call;
* `committed`: the last version the writer has committed;
* `mine`: what the session's next read of its own row must show;
* `ownRead`: the session's latest read of its own row, since it last wrote, began, committed or rolled back;
* `seen`: its latest read of every other row.

`lastSQL` is not modelled because no property reads it. `prepareStmt` only adds one more error return before the server sees the statement, so it is folded into `exec`'s failure outcome.

### `RowStore.tla`: terminal calls on a table with lifecycle columns

Written from spec sections 4.2–4.4 and 8 and from the tests `TestVersion1`, `TestDeleted` and `TestUnscopeDelete`, since the session's CRUD code is not under `src/`. The table has an autoincrement key, a `version` column and a `deleted` column.

| model | code |
|---|---|
| `rows`, `nextId` | the table, and the next autoincrement value |
| `copy[s][k]` | the structs (beans) a session holds, with their id and version |
| `found`, `affected` | what the last read returned, and how many rows the last write changed |
| `Read`, `Deliver`, `Result`, `Visible` | `Get`/`Find`: the rows a query selects, with the implicit not-deleted condition unless `Unscoped`; a `Get` that finds its row fills the bean, one that finds nothing leaves it alone |
| `Insert` | `Insert`: version 1, id and version written back into the bean |
| `Update`, `UpdateMatches` | `ID(bean.id).Update(bean)`: WHERE version = bean's version AND not deleted, SET version + 1; on success the bean's version advances, on a mismatch zero rows change |
| `Delete` | `ID(bean.id).Delete`: scoped, it stamps the deleted column of a live row; `Unscoped`, it removes the row |

A query is a record `[get, keys, scoped]`: a `Get` of one key or a `Find` of several, scoped or not. The column value is abstracted to a model value.

### `ResultCache.tla`: the cache in front of `RowStore`

`ResultCache` instantiates `RowStore` with its own variables (`Store == INSTANCE RowStore WITH rows <- rows, ...`) and adds the cache.

| model | code |
|---|---|
| `setc` | the set cache: query fingerprint → keys, a sequence in least-recently-used order bounded by `SetCap` |
| `beanc` | the bean cache: key → row, bounded by `BeanCap` |
| `Cached`, `Lookup`, `Without`, `Put`, `PutBeans` | the LRU tier: lookup, delete, put with eviction of the least recently used entry, and the result's beans put in key order |
| `CachedRead` | a set-cache hit: each key from the bean cache, or re-queried by key with the query's scope; both tiers refreshed |
| `QueryOnMiss`, `Populate` | a set-cache miss: the query runs against the database and the caller gets its rows; filling both tiers is the next step (`fill[s]`) |
| `LookupFails`, `PopulateFails` | a failed cache operation degrading to an uncached read (at most `MaxCacheFaults`) |
| `CachedWrite`, `Invalidate` | `Insert`/`Update`/`Delete` as `RowStore` does them, together with clearing every set-cache entry and evicting the written key's bean |

The query and the fill are separate steps because spec section 5 serialises each cache mutation but says nothing that holds the database query and the fill together. The write and its invalidation are one step, which gives the cache its best case: the race still occurs. `ImplementsRowStore == Store!Spec` is the refinement. Under the identity mapping of the shared variables (the cache variables are hidden), a cached read must be a `RowStore` read of the current table, and a fill must be a stuttering step.

### `SchemaDDL.tla`: the DDL and catalog calls

| model | code |
|---|---|
| `db` | the live table: `exists`, the names of the live indexes (`idx`), and whether it has rows |
| `sess[p]` | engine `p`'s call: `pc` (idle, in an index loop, or between `dropTable`'s check and its drop), `op`, `todo` (the loop's statements left), `res` (its last result: ok, a server error, or a connection error), `ans` (the last answer) and the history fields `ref` and `ok` |
| `Stmt` | one statement through `session.exec`/`queryRows`: accepted, rejected by the server, or a connection failure with the statement applied or not |
| `createTable` | `CreateTable`/`createTable`: CREATE TABLE (IF NOT EXISTS when `CreateIfNotExists`) |
| `StartLoop`, `LoopExec`, `IndexStmt` | `createIndexes`, `createUniques`, `dropIndexes`: the statements of `genIndexSQL`/`genUniqueSQL`/`genDelIndexSQL` in map order, one step each, returning at the first error |
| `dropTable`, `dropTableExec` | `dropTable`: DROP TABLE IF EXISTS when the dialect supports it, otherwise the `TableCheckSql` query and then DROP TABLE if it returned a row |
| `isTableExist`, `isTableEmpty` | the table-check query, and `select count(*)`. On any error the latter returns true with the error |
| `queryBytes` | `session.queryBytes` with `rows2maps` and `row2map` (`session_raw.go` 97–151), which `dropTable` and `isTableExist` use for the table check. A read leaves the table unchanged. A failed query, or a row that fails to scan, returns no rows and the error. Callers use only the row count, so column values, and a NULL read as an empty slice, are not modelled |
| `isIndexExist2`, `IndexAnswer` | `GetIndexes` in any order, then the first index on the asked columns decides |
| `InsertRow` | a row inserted by another session (spec-modelled) |
| `Call` | the caller. After a connection error a retrying caller (`RetryOnFault`) repeats the same call |

`MC_SchemaDDL` gives the table a unique index `i1(c1)` and a plain index `i2(c2)`.

## 4. Runs

| run | cfg | expect | what it shows |
|---|---|---|---|
| `sync_single` | `MC_SchemaSync_single.cfg` | pass | One engine, `MaxFaults = 1`. A `Sync2` that returns nil leaves the schema converged (`SyncedWhenDone`). A `Sync2` started on a converged schema issues no DDL (`IdempotentResync`). No step narrows a column (`ColumnsOnlyWiden`). Retrying after failures ends in success (`SyncEventuallySucceeds`). |
| `sync_concurrent` | `MC_SchemaSync_concurrent.cfg` | pass | Two engines, `CREATE TABLE IF NOT EXISTS`, `MaxFaults = 1`. The same properties hold except `SyncedWhenDone`, and the catalog reaches convergence and keeps it (`EventuallyConverged`). About 39,000 distinct states. |
| `sync_race` | `MC_SchemaSync_race.cfg` | violation | `SyncedWhenDone` fails with two engines, on an older `t1` whose plain index `i2` covered `c1` alone (`MCInitRace`). Engine p2 reads the catalog before p1's index DDL. p1 drops `IDX_t1_i2`, creates it again on `(c1, c2)` and returns nil. p2 then drops `IDX_t1_i2`, the name and type in its snapshot, which is now p1's new index. |
| `sync_shared_table` | `MC_SchemaSync_shared.cfg` | violation | `SyncedWhenDone` fails for two structs mapped to one table on a fresh database, with CREATE TABLE IF NOT EXISTS. Both find the table missing in the snapshot. The second CREATE does nothing, so the second struct's extra column is never added, and `Sync2` returns nil. |
| `sync_case_index` | `MC_SchemaSync_case.cfg` | violation | `IdempotentResync` fails on a catalog that equals the struct up to the case of one column name. Columns match by `EqualFold`, but the index diff compares column names exactly, so `Sync2` drops both indexes on that column and recreates them. The database records them under the stored name again, so every later `Sync2` repeats this. |
| `sync_store_engine` | `MC_SchemaSync_engine.cfg` | violation | `StoreEngineApplied` fails. On a fresh database, `t2` is created with no storage engine because `t1`'s statements reset the statement. |
| `exec_group` | `MC_SessionExec_group.cfg` | pass | Two sessions on an engine group with a lagging replica, transactions, and one failed or cancelled call. A statement holds only conditions added since the last terminal call, even after a failed call (`StatementNotLeaked`). Inside a transaction a session reads its own latest write (`TxReadYourWrites`). No session reads another's uncommitted write, even from the replica (`NoDirtyReads`). About 271,000 distinct states. |
| `ddl_concurrent` | `MC_SchemaDDL_concurrent.cfg` | pass | Two engines interleave every DDL and catalog call, with one connection failure and retries, on a dialect without DROP TABLE IF EXISTS (so `dropTable` checks, then drops). `isIndexExist2` gives the right answer whatever order `GetIndexes` lists the indexes in (`IndexAnswerCorrect`). About 60,000 distinct states. |
| `ddl_drop_race` | `MC_SchemaDDL_droprace.cfg` | violation | `DropTableErrorMeansPresent` fails without DROP TABLE IF EXISTS. Both engines' checks see the table. The first drops it, and the second's DROP fails, so DropTable returns an error for a table that is gone. |
| `ddl_drop_indexes_retry` | `MC_SchemaDDL_dropidxretry.cfg` | violation | `DropIndexesRetrySucceeds` fails. The connection fails after the server dropped `i2`. Every retry then drops `i1` and fails on `i2`. |
| `cache_single` | `MC_ResultCache_single.cfg` | pass | One session holding two beans, on a cached table whose set cache holds two queries and whose bean cache holds one row, with one cache fault. Every cached Get and Find returns what the uncached store returns (`ImplementsRowStore`, a refinement of `RowStore`). About 128,000 distinct states. |
| `cache_race` | `MC_ResultCache_race.cfg` | violation | `ImplementsRowStore` fails with two sessions. Session 1's Find misses and queries one row. Session 2 inserts a second row, which clears the set cache. Session 1 then fills the cache with the one-row result, and session 2's own Find hits it and misses the row it inserted. |

Each property of a passing run has a mutant in `PROJECT.json`: a plausible bug in a mapped definition that TLC then catches. The mutants are:

* the column loop stopping one column early, or running one past the end;
* `foundIndexNames` keyed by the struct index name;
* the length test dropped from the widening decision;
* the "column missing" test dropped from `addColumn`;
* `exec` taking the transaction branch in autocommit mode, or ignoring the transaction;
* `resetStatement` run only after success instead of deferred;
* `queryRows` reading through the pool inside a transaction;
* `isIndexExist2` ignoring the index type;
* the index loop running once past its end;
* a cache tier that does not evict at capacity;
* a write that evicts the bean but keeps the table's cached queries.

**Bounds.**

* Two tables, two columns and three index names are the fewest that contain every index-diff outcome at once.
* Lengths 1..2 are enough for "shorter", "equal" and "longer".
* One fault is enough for a failure between any two statements, or after a statement the server applied.
* Two engines give every interleaving of two `Sync2` calls, including a snapshot taken between any two of the other engine's statements.
* `Resync` lets an engine call `Sync2` again after success, which is the second call that `IdempotentResync` is about.
* `SessionExec` has two sessions (a writer and a reader of each row) and versions 0..2 (a commit and a later write). One replica is enough for replication lag. One condition and one error are enough for a failed call that would leak its statement. Two replicas multiply the state space many times over and show nothing that one replica does not.
* `SessionExec` states only safety properties, so it assumes no fairness.
* `SchemaDDL` uses two index names, because a loop needs two statements for a failure between them, and one of each kind, so that CreateIndexes and CreateUniques both issue one. It has two engines for the races, and one engine for the `dropIndexes` retry run. With two engines, the other engine could drop the table forever, which no caller retry can outlast.
* `ResultCache` (`cache_single`) has one session with two beans, which is the spec's optimistic-versioning test: two beans read at version 1, then two updates. Two rows give a query whose result changes on an insert and a bean-cache miss. Three queries (a scoped Find, an Unscoped Find and a Get of row 1) against a set cache of two entries and a bean cache of one make both tiers evict. Versions up to 3 allow two updates of a row, and one value suffices because the version tells rows apart. `cache_race` has two sessions with one bean each and no cache faults. Its trace has six states.
* `RowStore` and `ResultCache` state only safety properties, so they assume no fairness.
* `SchemaDDL` assumes each engine's steps are weakly fair (`WF_vars(Step(p))`). Every call is synchronous, and after a connection error the caller retries the same call (`RetryOnFault`). This is the same application-level retry assumption as for `Sync2`. Server errors are not retried.

**Fairness.**

* `Sync2` is a synchronous call with no internal waiting, so each engine's steps are weakly fair (`WF_vars(Step(p))`).
* The restart of a failed `Sync2` (`Start` from `failed`) is part of `Step`. This states the assumption that an application retries a failed startup synchronization. Without this assumption no liveness property can hold.
* A further `Sync2` after a success (`Resync`) is not fair: nothing forces it.
* Connection failures are bounded by `MaxFaults`, so they cannot go on forever.

## 5. Findings

* **Concurrent `Sync2` (`sync_race`).**
  - Two instances synchronizing at startup can leave a successful `Sync2` with a missing index. This happens when an index keeps its name and type but changes columns. The loser drops, under the name and type of its stale snapshot (line 254), the index the winner just recreated (`session_schema.go:391`).
  - When the type changes, the names differ (`UQE_` and `IDX_`), so the loser's DROP fails and the new index survives: TLC finds no violation on `MCInitCatalogs`.
  - A later `Sync2` repairs it (`EventuallyConverged` holds), but until then queries run without the index. If the index is a unique one, duplicates can be inserted.
* **Column case and the index diff (`sync_case_index`).** Spec section 4.6 diffs columns by case-insensitive name, and the code does so with `EqualFold`. The index diff uses `index.Equal`, which compares column names exactly (`session_schema.go:366`). When the table stores a column as `C1` and the struct names it `c1`, every index on it is unequal: `Sync2` drops it (line 391) and creates it again, and the database stores it under `C1` again. Every `Sync2` at startup rebuilds those indexes, which contradicts the DDL-free second run of spec section 8. A unique index is briefly absent each time.
* **Duplicate indexes (observed, not kept as a run).** The second `Sync2` also fails to be DDL-free when a struct declares two structurally equal indexes: both struct indexes take the same live index in map order, and the other one is dropped and created again. The run was replaced by `sync_case_index`, which needs no unusual struct.
* **`StoreEngine` (`sync_store_engine`).** It applies only until the first `exec` of the call.
* **Stale cache fill (`cache_race`).** Spec sections 4.5 and 9 present whole-table invalidation as what guarantees that the cache never returns stale rows, and section 5 serialises each cache mutation. That is not enough. A read that misses queries the database and then fills the cache. A write by another session between the two clears the cache first, so the fill stores keys from before the write. Every later hit returns them, including to the session that wrote, until the next write to the table. Section 8's coherence test runs its steps one after another and never meets this. Closing the race needs the fill to be discarded when an invalidation happened since its query (a table generation number), or the query and the fill to be serialised with writes.
* **Engine groups (observed, not kept as a run).** Routing is split in autocommit mode: `exec` writes to the master (`session_raw.go:194`), and `queryRows` reads from `engineGroup.Slave()` (line 53). TLC showed that a session does not reliably read its own autocommit write. It also showed that a row can go back in time after `Commit`, when reads move from the transaction (the master) to the replica. This is what a read replica does, and the spec does not mention replicas. No run claims read-your-writes in autocommit mode, and no property is kept about the replica itself, since replication is the database's and not this code's.

* **Two structs on one table (`sync_shared_table`).** Spec section 4.6 says the existence check is against the live catalog. The code checks the snapshot (`session_schema.go:278`). With two structs mapped to one table, the second struct's CREATE TABLE IF NOT EXISTS does nothing, its extra column is never added, and `Sync2` still returns nil. On a dialect without IF NOT EXISTS the second CREATE fails and `Sync2` returns that error instead.
* **DropTable without IF EXISTS (`ddl_drop_race`).** It can return an error although the table was dropped, by another engine, between the check (line 137) and the drop (line 149).
* **Retrying index DDL (`ddl_drop_indexes_retry`).** `dropIndexes` (line 114) stops at the first error and has no IF EXISTS, so after a connection failure mid-loop no retry succeeds. `createIndexes` behaves the same on a dialect without CREATE INDEX IF NOT EXISTS. With IF NOT EXISTS its retry succeeds by the dialect alone, so no run is kept for it. Only `Sync2`, which diffs against the live catalog, recovers.
* **`isIndexExist2` and equal columns.** With a unique and a plain index on one column (`unique index` tags on one field), the answer depends on map order. TLC shows the wrong answer for the `MCBean` variant with shared columns. The helper has no caller under `src/`, so this is not kept as a run.

## 6. Not modelled, and why

* **Engine options and interfaces**: assignments and declarations, with no behaviour. Each option in `engine_option.go` sets one `Engine` field or calls one setter. `defaultOptions` only chooses UTC for SQLite, so there is no state machine to check.
* **`Ping`**: one `PingContext` call that changes no state.
* **Column values of `row2map`**: `queryBytes` is modelled in `SchemaDDL` by its outcomes (rows or an error), since its only callers under `src/` count rows. The NULL-to-empty-slice conversion (`session_raw.go:113`) changes no count, so it is listed as a hazard without a property.
* **Metadata registry and result mapper**: reflection and value conversion. The models take struct tables as constants and compare values abstractly.
* **Migrations**: only a test is present, and the spec excludes migration wrappers.
* **Logging, SQL text and dialect strings**: they are abstracted to the catalog change a statement makes.
* **Builder**: the condition tree, joins, auto-conditions from a bean and `NoAutoCondition`, and `Count`/`Exist`/`Sum` are not modelled yet. `RowStore` and `ResultCache` are modelled from `spec.md` and the tests, and their map entries are marked `spec_modelled`.
* **A failed cache invalidation**: the spec says a cache failure never fails the caller, but not what becomes of the entries, so the model does not invent a behaviour.
