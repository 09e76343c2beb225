--------------------------- MODULE MCBlockRouting ---------------------------
(* A small instance of BlockRouting for TLC: one site and one table.        *)
EXTENDS BlockRouting

Everywhere(verdict) == [small |-> verdict, mid |-> verdict]

OneTable == [distilled |-> [p |-> Everywhere(None)],
             main      |-> [p |-> Everywhere({})],
             shortcut  |-> Everywhere(None)]

SomeTables == <<OneTable, OneTable>>

\* A plain request that only the buddy serves, and one with a bigger alignment.
AlignedReqs == [class : {"mid"}, plain : BOOLEAN, site : {"p"}]

=============================================================================
