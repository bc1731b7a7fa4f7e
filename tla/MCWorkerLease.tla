---------------------------- MODULE MCWorkerLease ----------------------------
(* Instances of WorkerLease for TLC.                                       *)
EXTENDS WorkerLease, TLC

CONSTANTS w1, w2

MCWorker == {w1, w2}
MCAll == {"error", "edit", "end", "stall", "toggle", "crash", "shutdown", "late", "move"}
MCEndAndMove == {"end", "move"}
=============================================================================
