---------------------------- MODULE MCFileSource ----------------------------
(* Files of two rows and of one, and an empty one. *)
EXTENDS FileSource

MixedRows == [f \in File |-> IF f = 2 THEN 0 ELSE IF f = 1 THEN 2 ELSE 1]
OneRow == [f \in File |-> 1]
=============================================================================
