---------------------------- MODULE AckWatermark ----------------------------
(***************************************************************************)
(* The acknowledgement tracker of the polling sources                      *)
(* (pkg/infra/ackwatermark): items are recorded in the order they are      *)
(* handed out, acknowledged in any order, and the mark moves over the      *)
(* acknowledged prefix only.  Its mutex makes every call one step.         *)
(***************************************************************************)
EXTENDS Naturals, Sequences

CONSTANT MaxPending     \* maxPending, the most entries a Tracker remembers

ASSUME MaxPendingAssumption == MaxPending \in Nat

VARIABLES
  pending,   \* the recorded items, oldest first
  index,     \* the place in pending of each recorded id
  mark,      \* the cursor that may be persisted
  dropped    \* history: was an item ever left unrecorded?

tracker == <<pending, index, mark, dropped>>

(* The empty cursor: an item that does not advance the mark by itself. *)
NoCursor == 0

(* The empty message ID, of an item whose record has none. *)
NoId == 0

Entry == [id : Nat, cursor : Nat, acked : BOOLEAN]

TrackerInit ==
  /\ pending = <<>> /\ index = [x \in {} |-> 0]
  /\ mark = NoCursor /\ dropped = FALSE

(***************************************************************************)
(* Faulty variants, which the properties of the sources tell apart.        *)
(***************************************************************************)
Reindexed_Stale(q) ==
  [x \in {q[j].id : j \in DOMAIN q} |-> index[x]]

Prefix_Gap(q, n) == n \in 0..Len(q) /\ (n = 0 \/ q[n].acked)

Advance_First(q, n) ==
  \/ /\ \A j \in 1..n : q[j].cursor = NoCursor
     /\ mark' = mark
  \/ \E k \in 1..n :
       /\ q[k].cursor # NoCursor
       /\ \A j \in 1..(k - 1) : q[j].cursor = NoCursor
       /\ mark' = q[k].cursor

(***************************************************************************)
(* An item without an ID is not recorded.  A second emission of a recorded *)
(* id keeps the first place.  A full tracker records nothing.              *)
(***************************************************************************)
Emitted(id, cursor) ==
  \/ /\ id = NoId \/ id \in DOMAIN index
     /\ UNCHANGED tracker
  \/ /\ id # NoId /\ id \notin DOMAIN index /\ Len(pending) >= MaxPending
     /\ dropped' = TRUE
     /\ UNCHANGED <<pending, index, mark>>
  \/ /\ id # NoId /\ id \notin DOMAIN index /\ Len(pending) < MaxPending
     /\ index' = [x \in DOMAIN index \cup {id} |->
                    IF x = id THEN Len(pending) + 1 ELSE index[x]]
     /\ pending' = Append(pending, [id |-> id, cursor |-> cursor, acked |-> FALSE])
     /\ UNCHANGED <<mark, dropped>>

(* The first n entries of q are its acknowledged prefix. *)
Prefix(q, n) ==
  /\ n \in 0..Len(q)
  /\ \A j \in 1..n : q[j].acked
  /\ n < Len(q) => ~q[n + 1].acked

(* The mark takes the last cursor of the prefix, if one of it has a cursor. *)
Advance(q, n) ==
  \/ /\ \A j \in 1..n : q[j].cursor = NoCursor
     /\ mark' = mark
  \/ \E k \in 1..n :
       /\ q[k].cursor # NoCursor
       /\ \A j \in (k + 1)..n : q[j].cursor = NoCursor
       /\ mark' = q[k].cursor

Reindexed(q) ==
  [x \in {q[j].id : j \in DOMAIN q} |-> CHOOSE j \in DOMAIN q : q[j].id = x]

Ack(id) ==
  \/ /\ id \notin DOMAIN index
     /\ UNCHANGED tracker
  \/ /\ id \in DOMAIN index
     /\ LET q == [pending EXCEPT ![index[id]].acked = TRUE]
        IN  \E n \in 0..Len(q) :
              /\ Prefix(q, n)
              /\ Advance(q, n)
              /\ pending' = SubSeq(q, n + 1, Len(q))
              /\ index' = Reindexed(pending')
     /\ UNCHANGED dropped

(* A fresh tracker whose mark is restored from stored state (New, SetMark). *)
SetMark(cursor) ==
  /\ pending' = <<>> /\ index' = [x \in {} |-> 0]
  /\ mark' = cursor
  /\ UNCHANGED dropped

-----------------------------------------------------------------------------
(* What every use of the tracker keeps: the index is the inverse of the queue. *)
IndexInv ==
  /\ \A j \in 1..Len(pending) : pending[j].id \in DOMAIN index /\ index[pending[j].id] = j
  /\ \A x \in DOMAIN index : pending[index[x]].id = x
=============================================================================
