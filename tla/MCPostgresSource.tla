-------------------------- MODULE MCPostgresSource --------------------------
(***************************************************************************)
(* Instances of PostgresSource.  Crossed: three transactions that each     *)
(* began before the first committed, the last of them first.  The commit   *)
(* records of the first two are next to each other, so the position of the *)
(* Commit message that ends the first (message 3) is past the commit of    *)
(* the second (5), whose only change (message 5) it overruns; the other    *)
(* changes (2, 8) are placed.  LongRow: one transaction after another, the *)
(* change of the first decoded to more bytes than its log record has, as a *)
(* row with TOASTed columns is.  MultiInsert: two rows of one record.      *)
(***************************************************************************)
EXTENDS PostgresSource

CrossedChange == {2, 5, 8}
CrossedStart == <<2, 2, 5, 3, 3, 6, 1, 1, 9>>
CrossedSize == [m \in 1..9 |-> 1]
CrossedCommit == <<4, 4, 4, 5, 5, 5, 8, 8, 8>>

LongRowChange == {2, 5}
LongRowStart == <<1, 1, 3, 4, 4, 6>>
LongRowSize == <<1, 5, 1, 1, 1, 1>>
LongRowCommit == <<2, 2, 2, 5, 5, 5>>

MultiInsertChange == {2, 3}
MultiInsertStart == <<1, 1, 1, 5>>
MultiInsertSize == <<1, 2, 2, 1>>
MultiInsertCommit == <<4, 4, 4, 4>>
=============================================================================
