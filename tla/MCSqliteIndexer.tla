-------------------------- MODULE MCSqliteIndexer --------------------------
(* TLC instances of SqliteIndexer. *)
EXTENDS SqliteIndexer

\* Two blocks at height 2, on two branches, and one at height 1.
MCTips == {[height |-> 1, hash |-> "b1"], [height |-> 2, hash |-> "b2"],
           [height |-> 2, hash |-> "b2x"]}

=============================================================================
