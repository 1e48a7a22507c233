----------------------------- MODULE ResultCache -----------------------------
(***************************************************************************)
(* The two-tier result cache of spec section 4.5 in front of the row store *)
(* of RowStore, for one table enabled for caching.                        *)
(*                                                                         *)
(*   set cache   query fingerprint -> the primary keys it returned;        *)
(*   bean cache  primary key -> the row's column values;                   *)
(* both bounded, least recently used entry evicted first.                  *)
(*                                                                         *)
(* Read path: on a set-cache hit each key is resolved in the bean cache,   *)
(* a bean miss re-queried by key, and both tiers are refreshed.  On a      *)
(* set-cache miss the query runs against the database and its keys and    *)
(* rows are then put into both tiers: two steps, since the cache boundary  *)
(* serialises each cache mutation but not the database query before it     *)
(* (spec section 5).  A failed cache lookup or update degrades to an       *)
(* uncached read.  Write path: Insert, Update and Delete clear every       *)
(* set-cache entry of the table and evict the written key's bean.          *)
(*                                                                         *)
(* Written from the spec: the cache manager is not under src/.            *)
(***************************************************************************)
EXTENDS Naturals, Sequences, SequencesExt

CONSTANTS Sessions, Copies, Vals, MaxRows, MaxVer, Queries,
          SetCap,          \* capacity of the set cache
          BeanCap,         \* capacity of the bean cache
          MaxCacheFaults   \* bound on failed cache lookups or updates

VARIABLES rows, nextId, copy, found, affected,
          setc,      \* the set cache, least recently used first: <<query, keys>>
          beanc,     \* the bean cache, least recently used first: <<key, row>>
          fill,      \* session -> the result it is putting into the cache
          cfaults    \* failed cache operations so far

Store == INSTANCE RowStore WITH
    rows <- rows, nextId <- nextId, copy <- copy,
    found <- found, affected <- affected

storeVars == <<rows, nextId, copy, found, affected>>
cacheVars == <<setc, beanc, fill, cfaults>>
vars      == <<storeVars, cacheVars>>

NoFill == [nofill |-> TRUE]

TypeOK ==
    /\ Store!TypeOK
    /\ setc \in Seq(Queries \X SUBSET Store!Ids) /\ Len(setc) <= SetCap
    /\ beanc \in Seq(Store!Ids \X Store!Row) /\ Len(beanc) <= BeanCap
    /\ \A s \in Sessions : fill[s] = NoFill \/ fill[s].q \in Queries
    /\ cfaults \in 0..MaxCacheFaults

Init ==
    /\ Store!Init
    /\ setc = <<>>
    /\ beanc = <<>>
    /\ fill = [s \in Sessions |-> NoFill]
    /\ cfaults = 0

(***************************************************************************)
(* An LRU tier is a sequence of <<key, value>>, least recently used first. *)
(***************************************************************************)
Cached(c, key) == \E j \in DOMAIN c : c[j][1] = key

Lookup(c, key) == c[SelectInSeq(c, LAMBDA e : e[1] = key)][2]

Without(c, key) == SelectSeq(c, LAMBDA e : e[1] # key)

\* Mutant: the tier grows past its capacity.
PutNoEvict(c, key, v, cap) == Append(Without(c, key), <<key, v>>)

\* Store key as the most recently used entry, evicting the least recently
\* used one when the tier is over capacity.
Put(c, key, v, cap) ==
    LET d == Append(Without(c, key), <<key, v>>) IN
    IF Len(d) > cap THEN Tail(d) ELSE d

\* The rows of a result go into the bean cache in primary-key order.
PutBeans(c, r) ==
    FoldLeft(LAMBDA acc, i : Put(acc, i, r[i], BeanCap), c,
             SetToSortSeq(DOMAIN r, <))

Idle(s) == fill[s] = NoFill

(***************************************************************************)
(* Read path                                                               *)
(***************************************************************************)

\* Set-cache hit: each cached key from the bean cache, or re-queried by key
\* (with the query's scope) on a bean miss; a key whose row is gone is
\* skipped.  Both tiers are refreshed.
CachedRead(s, k, q) ==
    LET keys == Lookup(setc, q)
        r == [i \in {j \in keys : Cached(beanc, j) \/ Store!Visible(j, q.scoped)} |->
                IF Cached(beanc, i) THEN Lookup(beanc, i) ELSE rows[i]]
    IN
    /\ Idle(s)
    /\ Cached(setc, q)
    /\ Store!Deliver(s, k, q, r)
    /\ setc' = Put(setc, q, keys, SetCap)
    /\ beanc' = PutBeans(beanc, r)
    /\ UNCHANGED <<fill, cfaults>>

\* Set-cache miss: the query runs against the database and its result goes
\* to the caller; putting it into the cache is the next step.
QueryOnMiss(s, k, q) ==
    /\ Idle(s)
    /\ ~Cached(setc, q)
    /\ Store!Read(s, k, q)
    /\ fill' = [fill EXCEPT ![s] = [q |-> q, r |-> Store!Result(q)]]
    /\ UNCHANGED <<setc, beanc, cfaults>>

Populate(s) ==
    /\ ~Idle(s)
    /\ setc' = Put(setc, fill[s].q, DOMAIN fill[s].r, SetCap)
    /\ beanc' = PutBeans(beanc, fill[s].r)
    /\ fill' = [fill EXCEPT ![s] = NoFill]
    /\ UNCHANGED <<storeVars, cfaults>>

\* A failed cache lookup: the read runs uncached and nothing is cached.
LookupFails(s, k, q) ==
    /\ Idle(s)
    /\ cfaults < MaxCacheFaults
    /\ Store!Read(s, k, q)
    /\ cfaults' = cfaults + 1
    /\ UNCHANGED <<setc, beanc, fill>>

\* A failed cache update after a miss: the caller already has its rows.
PopulateFails(s) ==
    /\ ~Idle(s)
    /\ cfaults < MaxCacheFaults
    /\ fill' = [fill EXCEPT ![s] = NoFill]
    /\ cfaults' = cfaults + 1
    /\ UNCHANGED <<storeVars, setc, beanc>>

(***************************************************************************)
(* Write path                                                              *)
(***************************************************************************)

\* Mutant: the write evicts the bean but keeps the table's cached queries.
InvalidateBeanOnly(i) ==
    /\ beanc' = Without(beanc, i)
    /\ UNCHANGED setc

Invalidate(i) ==
    /\ setc' = <<>>
    /\ beanc' = Without(beanc, i)

CachedWrite(s, k) ==
    /\ Idle(s)
    /\ \/ \E v \in Vals : Store!Insert(s, k, v) /\ Invalidate(nextId)
       \/ \E v \in Vals : Store!Update(s, k, v) /\ Invalidate(copy[s][k].id)
       \/ \E scoped \in BOOLEAN : Store!Delete(s, k, scoped) /\ Invalidate(copy[s][k].id)
    /\ UNCHANGED <<fill, cfaults>>

Next ==
    \E s \in Sessions :
        \/ Populate(s)
        \/ PopulateFails(s)
        \/ \E k \in Copies :
            \/ CachedWrite(s, k)
            \/ \E q \in Queries :
                CachedRead(s, k, q) \/ QueryOnMiss(s, k, q) \/ LookupFails(s, k, q)

Spec == Init /\ [][Next]_vars

(***************************************************************************)
(* Properties                                                              *)
(***************************************************************************)

\* The cache is transparent (spec sections 4.5 and 9): every Get and Find
\* answered from the cache returns exactly what the uncached query would
\* return at that moment, so the cached store implements RowStore.
ImplementsRowStore == Store!Spec

=============================================================================
