------------------------------ MODULE RowStore ------------------------------
(***************************************************************************)
(* The terminal operations of a Session on one table that declares an      *)
(* autoincrement primary key, a `version` column and a `deleted` column    *)
(* (spec sections 4.2-4.4 and 8; the tests TestVersion1, TestDeleted and   *)
(* TestUnscopeDelete).  The statement builder, the SQL compiler and the    *)
(* executor are not under src/, so this module is written from the spec.  *)
(*                                                                         *)
(*   Insert  stores a new row with version 1 and writes id and version     *)
(*           back into the caller's bean;                                  *)
(*   Update  ID(bean.id).Update(bean): WHERE id AND version = bean.version *)
(*           AND not deleted, SET value, version = version + 1; on success *)
(*           the bean's version is advanced, on a mismatch 0 rows change;  *)
(*   Delete  ID(bean.id).Delete: a scoped delete only stamps the deleted   *)
(*           column of a live row; Unscoped() removes the row physically;  *)
(*   Get, Find  read the rows a query selects, soft-deleted rows only     *)
(*           when the query is Unscoped; Get copies the row into a bean.   *)
(*                                                                         *)
(* A session holds a few beans (Copies), as an application holds structs  *)
(* it has read.                                                            *)
(***************************************************************************)
EXTENDS Naturals

CONSTANTS
    Sessions,   \* sessions issuing terminal calls
    Copies,     \* bean slots of a session
    Vals,       \* values of the table's data column
    MaxRows,    \* bound on the autoincrement ids
    MaxVer,     \* bound on a row's version
    Queries     \* the reads: [get: BOOLEAN, keys: SUBSET Ids, scoped: BOOLEAN]

Ids     == 1..MaxRows
Absent  == [absent |-> TRUE]    \* no row with this id
NoCopy  == [nocopy |-> TRUE]    \* an empty bean slot
Row     == [val: Vals, ver: 1..MaxVer, deleted: BOOLEAN]
Bean    == [id: Ids, val: Vals, ver: 1..MaxVer]

VARIABLES
    rows,       \* id -> the stored row, or Absent
    nextId,     \* the next autoincrement value
    copy,       \* session -> slot -> the bean it holds
    found,      \* session -> the rows its last Get/Find returned
    affected    \* session -> rows its last Insert/Update/Delete changed

vars == <<rows, nextId, copy, found, affected>>

TypeOK ==
    /\ rows \in [Ids -> Row \cup {Absent}]
    /\ nextId \in 1..MaxRows + 1
    /\ copy \in [Sessions -> [Copies -> Bean \cup {NoCopy}]]
    /\ \A s \in Sessions : found[s] \in UNION {[D -> Row] : D \in SUBSET Ids}
    /\ affected \in [Sessions -> 0..1]

Init ==
    /\ rows = [i \in Ids |-> Absent]
    /\ nextId = 1
    /\ copy = [s \in Sessions |-> [k \in Copies |-> NoCopy]]
    /\ found = [s \in Sessions |-> <<>>]
    /\ affected = [s \in Sessions |-> 0]

\* The implicit "not deleted" condition, injected unless Unscoped.
Visible(i, scoped) == rows[i] # Absent /\ (scoped => ~rows[i].deleted)

\* What the compiled query returns: the selected rows by primary key.
Result(q) == [i \in {j \in q.keys : Visible(j, q.scoped)} |-> rows[i]]

BeanOf(i, r) == [id |-> i, val |-> r.val, ver |-> r.ver]

\* The rows a read returns reach the caller; a Get that found its row
\* fills the bean.  A Get that found nothing leaves the bean as it was.
Deliver(s, k, q, r) ==
    /\ found' = [found EXCEPT ![s] = r]
    /\ copy' = IF q.get /\ DOMAIN r # {}
               THEN LET i == CHOOSE j \in DOMAIN r : TRUE
                    IN [copy EXCEPT ![s][k] = BeanOf(i, r[i])]
               ELSE copy
    /\ UNCHANGED <<rows, nextId, affected>>

Read(s, k, q) == Deliver(s, k, q, Result(q))

Insert(s, k, v) ==
    /\ nextId <= MaxRows
    /\ rows' = [rows EXCEPT ![nextId] = [val |-> v, ver |-> 1, deleted |-> FALSE]]
    /\ copy' = [copy EXCEPT ![s][k] = [id |-> nextId, val |-> v, ver |-> 1]]
    /\ nextId' = nextId + 1
    /\ affected' = [affected EXCEPT ![s] = 1]
    /\ UNCHANGED found

\* The WHERE clause of a versioned update of bean b.
UpdateMatches(b) ==
    /\ rows[b.id] # Absent
    /\ ~rows[b.id].deleted
    /\ rows[b.id].ver = b.ver

Update(s, k, v) ==
    LET b == copy[s][k] IN
    /\ b # NoCopy
    /\ b.ver < MaxVer
    /\ IF UpdateMatches(b)
       THEN LET r == rows[b.id] IN
            /\ rows' = [rows EXCEPT ![b.id] = [r EXCEPT !.val = v, !.ver = r.ver + 1]]
            /\ copy' = [copy EXCEPT ![s][k] = [b EXCEPT !.val = v, !.ver = r.ver + 1]]
            /\ affected' = [affected EXCEPT ![s] = 1]
       ELSE /\ affected' = [affected EXCEPT ![s] = 0]
            /\ UNCHANGED <<rows, copy>>
    /\ UNCHANGED <<nextId, found>>

Delete(s, k, scoped) ==
    LET b == copy[s][k] IN
    /\ b # NoCopy
    /\ IF Visible(b.id, scoped)
       THEN /\ rows' = [rows EXCEPT ![b.id] =
                           IF scoped THEN [@ EXCEPT !.deleted = TRUE] ELSE Absent]
            /\ affected' = [affected EXCEPT ![s] = 1]
       ELSE /\ affected' = [affected EXCEPT ![s] = 0]
            /\ UNCHANGED rows
    /\ UNCHANGED <<nextId, copy, found>>

Next ==
    \E s \in Sessions, k \in Copies :
        \/ \E q \in Queries : Read(s, k, q)
        \/ \E v \in Vals : Insert(s, k, v) \/ Update(s, k, v)
        \/ \E scoped \in BOOLEAN : Delete(s, k, scoped)

Spec == Init /\ [][Next]_vars

=============================================================================
