------------------------------ MODULE MCEngine ------------------------------
(* The odd messages have an ordering key, which the first worker owns. *)
EXTENDS Engine, TLC

FirstWorker == CHOOSE w \in Worker : TRUE
Keys == [m \in Msg |-> IF m % 2 = 1 THEN FirstWorker ELSE Shared]

SinkSymmetry == Permutations(Sink)
=============================================================================
