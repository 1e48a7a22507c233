--------------------------- MODULE MC_SchemaSync ---------------------------
(***************************************************************************)
(* Model values for SchemaSync: two struct tables in the shape of the      *)
(* repository's tests (a VARCHAR and an INT column with a unique and a     *)
(* composite index; a TEXT and a short VARCHAR column with one index), and *)
(* the catalogs an older version of the application may have left.         *)
(***************************************************************************)
EXTENDS SchemaSync

V1  == [type |-> "Varchar", len |-> 1]
V2  == [type |-> "Varchar", len |-> 2]
IntCol == [type |-> "Int", len |-> 0]
Txt == [type |-> "Text", len |-> 0]

\* A catalog entry: the index under its database name.
Ix(n, ix) == XName(n, ix) :> ix

Uq(cs)  == [type |-> "unique", cols |-> cs]
Idx(cs) == [type |-> "index", cols |-> cs]

MCTables     == {"t1", "t2"}
MCColumns    == {"c1", "c2"}
MCIndexNames == {"i1", "i2", "i3"}

BeanT1 == [name |-> "t1",
           cols |-> <<[name |-> "c1", def |-> V2], [name |-> "c2", def |-> IntCol]>>,
           idx  |-> ("i1" :> Uq({"c1"})) @@ ("i2" :> Idx({"c1", "c2"}))]
BeanT2 == [name |-> "t2",
           cols |-> <<[name |-> "c1", def |-> Txt], [name |-> "c2", def |-> V1]>>,
           idx  |-> ("i1" :> Idx({"c2"}))]
MCBeans == <<BeanT1, BeanT2>>

\* Column names are written in one case only.
MCFold == [c \in MCColumns |-> c]


\* An older t1: c1 still VARCHAR(1), c2 missing, i2 unique instead of a plain
\* index, an extra index i3.  An older t2: c1 a VARCHAR(2) the struct now
\* wants as TEXT, c2 longer than the struct's VARCHAR(1), and the struct's
\* index i1 present under the name i3.
OldT1 == [exists |-> TRUE, cols |-> ("c1" :> V1),
          idx |-> Ix("i2", Uq({"c1", "c2"})) @@ Ix("i3", Idx({"c1"})),
          engine |-> "default"]
OldT2 == [exists |-> TRUE, cols |-> ("c1" :> V2) @@ ("c2" :> V2),
          idx |-> Ix("i3", Idx({"c2"})), engine |-> "default"]

Empty == [t \in MCTables |-> NoTable]
MCInitCatalogs ==
    { Empty,
      [Empty EXCEPT !["t1"] = OldT1],
      [Empty EXCEPT !["t1"] = OldT1, !["t2"] = OldT2] }

\* A fresh database.
MCInitEmpty == {Empty}

\* An older t1 whose plain index i2 covered c1 alone: Sync2 drops IDX_t1_i2
\* and creates it again, same name and type, on (c1, c2).
\* Two structs mapped to table t1 (both name it in TableName()): the second
\* declares one more column.
BeanNarrow == [name |-> "t1", cols |-> <<[name |-> "c1", def |-> V2]>>,
               idx |-> <<>>]
BeanWide   == [name |-> "t1",
               cols |-> <<[name |-> "c1", def |-> V2], [name |-> "c2", def |-> IntCol]>>,
               idx |-> <<>>]
MCBeansShared == <<BeanNarrow, BeanWide>>

RaceT1 == [OldT1 EXCEPT !.idx = Ix("i2", Idx({"c1"}))]
MCInitRace == {[Empty EXCEPT !["t1"] = RaceT1]}

\* A t1 whose first column the database stores as "C1" (created by hand or
\* under an earlier column mapper); the struct now names it "c1".  Up to
\* case the table is exactly the struct's.
MCColumnsCase == MCColumns \cup {"C1"}
MCFoldCase == [c \in MCColumnsCase |-> IF c = "C1" THEN "c1" ELSE c]
CaseT1 == [exists |-> TRUE, cols |-> ("C1" :> V2) @@ ("c2" :> IntCol),
           idx |-> Ix("i1", Uq({"C1"})) @@ Ix("i2", Idx({"C1", "c2"})),
           engine |-> "default"]
MCBeansCase == <<BeanT1>>
MCInitCase == {[Empty EXCEPT !["t1"] = CaseT1]}
=============================================================================
