---------------------------- MODULE IndexedStore ----------------------------
(***************************************************************************)
(* The transaction log of a group: records that can be enumerated, over a  *)
(* key-value store that cannot (pkg/engine/twopc/indexedstore.go).         *)
(*                                                                         *)
(* A Store writes the log under a mutex of its own, a View only reads it.  *)
(* A call to the backend is one step; between two calls anybody else's may *)
(* happen, the call may fail or the process may die.  There is one Store   *)
(* for a group, and one more for each reaper that a replaced group leaves  *)
(* running (internal/engine/registry/txgroup.go).                          *)
(***************************************************************************)
EXTENDS Integers, FiniteSets

CONSTANTS
  Store,          \* IndexedStore instances that write this log
  View,           \* readOnlyIndex instances over it
  Key,            \* record keys
  MaxFaults       \* bound: calls that fail and processes that die

Client == Store \cup View

ASSUME ClientAssumption == Store \cap View = {} /\ MaxFaults \in Nat

VARIABLES
  index,     \* the keys stored under indexKey
  records,   \* the keys that have a record
  op,        \* op[c]: the call that c is executing
  whole,     \* history: records that were there, and not hidden, all through c's listing
  hidden,    \* history: keys whose entry was pruned because the record could not be read
  overlapped,   \* history: were two stores ever in a call at once?
  faults

history == <<whole, hidden, overlapped>>
vars == <<index, records, op, history, faults>>

Steps == {"setIndex", "setRecord", "delRecord", "delRead", "delIndex"}

(* Calls: none, one about key, or a listing that has left to read. *)
Idle == [pc |-> "idle", key |-> {}, keys |-> {}, left |-> {}, out |-> {},
         unread |-> {}]

Init ==
  /\ index = {} /\ records = {}
  /\ op = [c \in Client |-> Idle]
  /\ whole = [c \in Client |-> {}] /\ hidden = {} /\ overlapped = FALSE
  /\ faults = 0

At(c, pc) == op[c].pc = pc
Goto(c, pc) == op' = [op EXCEPT ![c].pc = pc]
Done(c) == op' = [op EXCEPT ![c] = Idle]

(* s enters a call: its mutex is its own, and keeps no other store out. *)
Enter(s) ==
  overlapped' = (overlapped \/ (s \in Store /\ \E t \in Store \ {s} : ~At(t, "idle")))

(* The call of c returns: with the result, or with an error that hides it. *)
Lost == faults < MaxFaults /\ faults' = faults + 1

-----------------------------------------------------------------------------
(* A faulty variant: the record is written before it is indexed. *)
BeginSet_RecordFirst(s, k) ==
  /\ At(s, "idle")
  /\ op' = [op EXCEPT ![s] = [Idle EXCEPT !.pc = "setIndex", !.key = {k}, !.keys = index]]
  /\ records' = records \cup {k} /\ Enter(s)
  /\ UNCHANGED <<index, whole, hidden, faults>>

(* A faulty variant: the key is taken to be indexed already. *)
BeginSet_NoIndex(s, k) ==
  /\ At(s, "idle")
  /\ op' = [op EXCEPT ![s] = [Idle EXCEPT !.pc = "setRecord", !.key = {k}, !.keys = index]]
  /\ Enter(s)
  /\ UNCHANGED <<index, records, whole, hidden, faults>>

(* Set: the index is read; a key it has goes straight to its record. *)
BeginSet(s, k) ==
  /\ At(s, "idle")
  /\ op' = [op EXCEPT ![s] = [Idle EXCEPT
       !.pc = IF k \in index THEN "setRecord" ELSE "setIndex", !.key = {k}, !.keys = index]]
  /\ Enter(s)
  /\ UNCHANGED <<index, records, whole, hidden, faults>>

SetIndex(s) ==
  /\ At(s, "setIndex")
  /\ index' = op[s].keys \cup op[s].key /\ hidden' = hidden \ op[s].key
  /\ \/ Goto(s, "setRecord") /\ UNCHANGED faults
     \/ Done(s) /\ Lost
  /\ UNCHANGED <<records, whole, overlapped>>

SetRecord(s) ==
  /\ At(s, "setRecord")
  /\ records' = records \cup op[s].key /\ Done(s)
  /\ UNCHANGED <<index, history, faults>>

-----------------------------------------------------------------------------
(* Delete: the record, then the entry. *)
BeginDelete(s, k) ==
  /\ At(s, "idle")
  /\ op' = [op EXCEPT ![s] = [Idle EXCEPT !.pc = "delRecord", !.key = {k}]]
  /\ Enter(s)
  /\ UNCHANGED <<index, records, whole, hidden, faults>>

DeleteRecord(s) ==
  /\ At(s, "delRecord")
  /\ records' = records \ op[s].key
  /\ whole' = [c \in Client |-> whole[c] \ op[s].key]
  /\ \/ Goto(s, "delRead") /\ UNCHANGED faults
     \/ Done(s) /\ Lost
  /\ UNCHANGED <<index, hidden, overlapped>>

DeleteRead(s) ==
  /\ At(s, "delRead")
  /\ IF op[s].key \subseteq index
     THEN op' = [op EXCEPT ![s].pc = "delIndex", ![s].keys = index]
     ELSE Done(s)
  /\ UNCHANGED <<index, records, history, faults>>

DeleteIndex(s) ==
  /\ At(s, "delIndex")
  /\ index' = op[s].keys \ op[s].key /\ Done(s)
  /\ UNCHANGED <<records, history, faults>>

-----------------------------------------------------------------------------
(* list: the index, then every record it names. *)
BeginList(c) ==
  /\ At(c, "idle")
  /\ op' = [op EXCEPT ![c] = [Idle EXCEPT !.pc = "list", !.keys = index, !.left = index]]
  /\ whole' = [whole EXCEPT ![c] = records \ hidden] /\ Enter(c)
  /\ UNCHANGED <<index, records, hidden, faults>>

(* A faulty variant: the first absent record ends the listing. *)
ListGet_StopsAtAbsent(c, k) ==
  /\ At(c, "list") /\ k \in op[c].left
  /\ op' = [op EXCEPT ![c].left = IF k \in records THEN @ \ {k} ELSE {},
                      ![c].out = IF k \in records THEN @ \cup {k} ELSE @]
  /\ UNCHANGED <<index, records, history, faults>>

(* A record that is absent, or whose read fails, is not in the answer. *)
ListGet(c, k) ==
  /\ At(c, "list") /\ k \in op[c].left
  /\ \/ op' = [op EXCEPT ![c].left = @ \ {k},
                         ![c].out = IF k \in records THEN @ \cup {k} ELSE @]
     \/ op' = [op EXCEPT ![c].left = @ \ {k}, ![c].unread = @ \cup {k}]
  /\ UNCHANGED <<index, records, history, faults>>

(* A faulty variant: what is stale is never pruned. *)
ListEnd_NoPrune(c) ==
  /\ At(c, "list") /\ op[c].left = {}
  /\ Done(c) /\ whole' = [whole EXCEPT ![c] = {}]
  /\ UNCHANGED <<index, records, hidden, overlapped, faults>>

(* The answer; a Store drops the entries without a record it could read. *)
ListEnd(c) ==
  /\ At(c, "list") /\ op[c].left = {}
  /\ \/ /\ c \in Store /\ op[c].out # op[c].keys
        /\ index' = op[c].out /\ hidden' = hidden \cup op[c].unread
     \/ /\ c \in View \/ op[c].out = op[c].keys
        /\ UNCHANGED <<index, hidden>>
  /\ Done(c) /\ whole' = [whole EXCEPT ![c] = {}]
  /\ UNCHANGED <<records, overlapped, faults>>

(* A call fails without effect, or the process dies. *)
Fail(c) ==
  /\ ~At(c, "idle") /\ Lost
  /\ Done(c) /\ whole' = [whole EXCEPT ![c] = {}]
  /\ UNCHANGED <<index, records, hidden, overlapped>>

-----------------------------------------------------------------------------
Finish(s) == SetIndex(s) \/ SetRecord(s) \/ DeleteRecord(s) \/ DeleteRead(s) \/ DeleteIndex(s)

List(c) == (\E k \in Key : ListGet(c, k)) \/ ListEnd(c)

Next ==
  \/ \E s \in Store : Finish(s) \/ \E k \in Key : BeginSet(s, k) \/ BeginDelete(s, k)
  \/ \E c \in Client : BeginList(c) \/ List(c) \/ Fail(c)

Spec == Init /\ [][Next]_vars

(* A call goes on, and the reaper lists the log at every tick, for which it *)
(* gets the mutex.                                                         *)
Fairness ==
  /\ \A s \in Store : WF_vars(Finish(s)) /\ SF_vars(BeginList(s))
  /\ \A c \in Client : WF_vars(List(c))

FairSpec == Spec /\ Fairness

-----------------------------------------------------------------------------
Call == [pc : Steps \cup {"idle", "list"}, key : SUBSET Key, keys : SUBSET Key,
         left : SUBSET Key, out : SUBSET Key, unread : SUBSET Key]

TypeOK ==
  /\ index \subseteq Key /\ records \subseteq Key /\ faults \in 0..MaxFaults
  /\ whole \in [Client -> SUBSET Key] /\ hidden \subseteq Key /\ overlapped \in BOOLEAN
  /\ op \in [Client -> Call]

(* Recovery can see every record: a crash or a failing call between the two *)
(* writes never leaves a record without an entry (IndexedStore.Set, Delete *)
(* and the pruning of list).  What can is a failed read of the record      *)
(* itself, until the record is set again, and two stores in a call at once. *)
RecordsIndexed == ~overlapped => records \subseteq index \cup hidden

(* Recovery, the reaper and a view beside them are told of every record     *)
(* that is there for as long as they read, but for those whose read failed  *)
(* (list).                                                                  *)
ListingIsWhole ==
  ~overlapped => \A c \in Client : At(c, "list") =>
    whole[c] \subseteq op[c].out \cup op[c].left \cup op[c].unread

(* What a store alone in its call relies on in the middle of it. *)
CallOK(s) ==
  /\ op[s].pc \in {"setIndex", "delIndex", "list"} => op[s].keys = index
  /\ At(s, "setRecord") => op[s].key \subseteq index
  /\ op[s].pc \in {"delRead", "delIndex"} => op[s].key \cap records = {}
  /\ At(s, "list") =>
       records \subseteq op[s].out \cup op[s].left \cup op[s].unread \cup hidden

(* At most one store is in a call. *)
Alone == \A s, t \in Store : At(s, "idle") \/ At(t, "idle") \/ s = t

(* The inductive invariant behind both. *)
IndInv ==
  /\ TypeOK /\ RecordsIndexed /\ ListingIsWhole
  /\ \A v \in View : op[v].pc \in {"idle", "list"}
  /\ ~overlapped =>
       /\ Alone
       /\ \A c \in Client : whole[c] \subseteq records
       /\ \A s \in Store : CallOK(s)

(* An entry whose record is gone, or was never written, is pruned. *)
StaleGoes == \A k \in Key : k \in index \ records ~> k \notin index \ records

-----------------------------------------------------------------------------
(* What comments say that the code does not do. *)

(***************************************************************************)
(* "Indexed but absent: the record was deleted and the index write that    *)
(* should have followed did not land.  Safe to forget." (list): no record  *)
(* that is there is without an entry.                                      *)
(***************************************************************************)
ForgottenIsGone == records \subseteq index
=============================================================================
