-------------------------- MODULE MCPollingSource --------------------------
(***************************************************************************)
(* Instances of PollingSource: feeds whose items have message IDs of their *)
(* own, and a Firestore collection, where the message ID is the document's *)
(* and the first document is updated once.                                 *)
(***************************************************************************)
EXTENDS PollingSource

OwnIds == [e \in Item |-> e]
DocumentIds == [e \in Item |-> IF e = 1 THEN 1 ELSE e - 1]
=============================================================================
