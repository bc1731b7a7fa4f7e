---------------------------- MODULE MCIndexedStore ----------------------------
(* Instances of IndexedStore for TLC.                                      *)
EXTENDS IndexedStore, TLC

CONSTANTS s1, s2, v1, k1, k2

MCStore == {s1}
MCTwoStores == {s1, s2}
MCView == {v1}
MCNoView == {}
MCKey == {k1, k2}
=============================================================================
