---------------------------- MODULE MC_SchemaDDL ----------------------------
(* Instance of SchemaDDL for TLC: one table whose struct declares a unique *)
(* index and a plain index.                                                *)
EXTENDS SchemaDDL

\* i1 unique on (c1), i2 index on (c2): the columns differ.
MCBean ==
    ("i1" :> [type |-> "unique", cols |-> {"c1"}]) @@
    ("i2" :> [type |-> "index", cols |-> {"c2"}])

\* A unique and a plain index on the same column, as tags `unique index`
\* on one field declare.
MCBeanShared ==
    ("i1" :> [type |-> "unique", cols |-> {"c1"}]) @@
    ("i2" :> [type |-> "index", cols |-> {"c1"}])

MCColSets == {{"c1"}, {"c2"}}
=============================================================================
