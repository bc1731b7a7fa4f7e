---------------------------- MODULE AtomicBatch ----------------------------
(***************************************************************************)
(* What a transactional sink group promises (the package comment of        *)
(* pkg/engine/twopc): either every participant applied a batch or none     *)
(* did.  A batch works on its members, each member may vote, a member      *)
(* commits only once every member of the batch has voted, and a member     *)
(* gives up only while none has committed.                                 *)
(***************************************************************************)
EXTENDS Naturals

CONSTANTS Batch, Member

VARIABLES
  takes,   \* the members each batch writes to; empty until it starts
  at       \* where each batch stands on each member

States == {"working", "voted", "applied", "abandoned"}

Init ==
  /\ takes = [b \in Batch |-> {}]
  /\ at = [b \in Batch |-> [m \in Member |-> "working"]]

Begin(b, M) ==
  /\ takes[b] = {} /\ \A m \in M : at[b][m] = "working"
  /\ takes' = [takes EXCEPT ![b] = M]
  /\ UNCHANGED at

Vote(b, m) ==
  /\ m \in takes[b] /\ at[b][m] = "working"
  /\ at' = [at EXCEPT ![b][m] = "voted"]
  /\ UNCHANGED takes

(* A batch for one member needs no vote: its own transaction commits it. *)
ApplyAlone(b, m) ==
  /\ takes[b] = {}
  /\ takes' = [takes EXCEPT ![b] = {m}]
  /\ at' = [at EXCEPT ![b][m] = "applied"]

Apply(b, m) ==
  /\ m \in takes[b] /\ at[b][m] = "voted"
  /\ \A n \in takes[b] : at[b][n] \in {"voted", "applied"}
  /\ at' = [at EXCEPT ![b][m] = "applied"]
  /\ UNCHANGED takes

(* One crash may abandon several batches on several members at once. *)
Abandon(G) ==
  /\ \A b \in Batch : \A m \in G[b] :
       /\ at[b][m] \in {"working", "voted"}
       /\ \A n \in takes[b] : at[b][n] # "applied"
  /\ at' = [b \in Batch |-> [m \in Member |->
              IF m \in G[b] THEN "abandoned" ELSE at[b][m]]]
  /\ \A b \in Batch : takes'[b] = takes[b] \/ (takes[b] = {} /\ takes'[b] = G[b])
  /\ takes' \in [Batch -> SUBSET Member]

Next ==
  \/ \E b \in Batch, M \in SUBSET Member : Begin(b, M)
  \/ \E b \in Batch, m \in Member : Vote(b, m) \/ ApplyAlone(b, m) \/ Apply(b, m)
  \/ \E G \in [Batch -> SUBSET Member] : Abandon(G)

Spec == Init /\ [][Next]_<<takes, at>>
=============================================================================
