------------------------- MODULE IndexedStore_proofs -------------------------
(* Proofs about IndexedStore, for any stores, views and keys, with reads   *)
(* of records that may fail.                                               *)
EXTENDS IndexedStore, TLAPS

LEMMA IdleCall == Idle \in Call /\ Idle.pc = "idle"
  BY DEF Idle, Call

LEMMA InitIndInv == Init => IndInv
<1>1. SUFFICES ASSUME Init PROVE IndInv
  OBVIOUS
<1>2. \A c \in Client : op[c].pc = "idle"
  BY <1>1, IdleCall DEF Init
<1>3. TypeOK
  <2>1. op \in [Client -> Call]
    BY <1>1, IdleCall DEF Init
  <2>2. faults \in 0..MaxFaults
    BY <1>1, ClientAssumption DEF Init
  <2>3. QED
    BY <1>1, <2>1, <2>2 DEF Init, TypeOK
<1>4. QED
  BY <1>1, <1>2, <1>3
     DEF Init, IndInv, RecordsIndexed, ListingIsWhole, CallOK, Alone, At, Client

(* What the invariant says of the types, spelled out. *)
LEMMA Types ==
  ASSUME IndInv
  PROVE  /\ op \in [Client -> Call] /\ index \subseteq Key /\ records \subseteq Key
         /\ whole \in [Client -> SUBSET Key] /\ hidden \subseteq Key /\ overlapped \in BOOLEAN
         /\ faults \in Nat /\ MaxFaults \in Nat /\ faults <= MaxFaults
         /\ \A s \in Store : s \in Client /\ s \notin View
         /\ \A v \in View : v \in Client /\ op[v].pc \in {"idle", "list"}
  BY ClientAssumption DEF IndInv, TypeOK, Client

(* A store that enters a call while no two overlap finds the others idle. *)
LEMMA EnterAlone ==
  ASSUME NEW s \in Store, Enter(s), ~overlapped'
  PROVE  ~overlapped /\ \A t \in Store : t # s => At(t, "idle")
  BY DEF Enter

LEMMA EnterType ==
  ASSUME NEW c, Enter(c)
  PROVE  overlapped' \in BOOLEAN /\ (~overlapped' => ~overlapped)
  BY DEF Enter

(* The store begins a call: only its own call changes. *)
LEMMA BeginStep ==
  ASSUME IndInv, NEW s \in Store, NEW k \in Key, BeginSet(s, k) \/ BeginDelete(s, k)
  PROVE  IndInv'
<1>1. /\ index' = index /\ records' = records /\ whole' = whole /\ hidden' = hidden
      /\ faults' = faults /\ Enter(s)
  BY DEF BeginSet, BeginDelete
<1>2. PICK call \in Call :
        /\ op' = [op EXCEPT ![s] = call]
        /\ call.pc \in {"setIndex", "setRecord", "delRecord"}
        /\ call.pc = "setIndex" => call.keys = index
        /\ call.pc = "setRecord" => call.key \subseteq index
  <2>1. CASE BeginSet(s, k)
    <3> DEFINE new == [Idle EXCEPT !.pc = IF k \in index THEN "setRecord" ELSE "setIndex",
                                   !.key = {k}, !.keys = index]
    <3>1. op' = [op EXCEPT ![s] = new]
      BY <2>1 DEF BeginSet
    <3>2. /\ new \in Call /\ new.pc \in {"setIndex", "setRecord", "delRecord"}
          /\ new.pc = "setIndex" => new.keys = index
          /\ new.pc = "setRecord" => new.key \subseteq index
      BY Types DEF Idle, Call, Steps
    <3> HIDE DEF new
    <3>3. QED
      BY <3>1, <3>2
  <2>2. CASE BeginDelete(s, k)
    <3> DEFINE new == [Idle EXCEPT !.pc = "delRecord", !.key = {k}]
    <3>1. op' = [op EXCEPT ![s] = new]
      BY <2>2 DEF BeginDelete
    <3>2. new \in Call /\ new.pc = "delRecord"
      BY DEF Idle, Call, Steps
    <3> HIDE DEF new
    <3>3. QED
      BY <3>1, <3>2
  <2>3. QED
    BY <2>1, <2>2
<1>3. \A c \in Client : op'[c] = IF c = s THEN call ELSE op[c]
  BY <1>2, Types
<1>4. TypeOK'
  BY <1>1, <1>2, EnterType DEF IndInv, TypeOK
<1>5. (\A v \in View : op[v].pc \in {"idle", "list"})'
  BY <1>3, Types
<1>6. SUFFICES ASSUME ~overlapped'
               PROVE  /\ (records \subseteq index \cup hidden)'
                      /\ ListingIsWhole' /\ Alone'
                      /\ (\A c \in Client : whole[c] \subseteq records)'
                      /\ (\A t \in Store : CallOK(t))'
  BY <1>4, <1>5 DEF IndInv, RecordsIndexed, ListingIsWhole
<1>7. ~overlapped /\ \A t \in Store : t # s => At(t, "idle")
  BY <1>1, <1>6, EnterAlone
<1>8. (records \subseteq index \cup hidden)' /\ (\A c \in Client : whole[c] \subseteq records)'
  BY <1>1, <1>7 DEF IndInv, RecordsIndexed
<1>9. ListingIsWhole'
  BY <1>1, <1>2, <1>3, <1>7 DEF IndInv, ListingIsWhole, At
<1>10. Alone'
  BY <1>3, <1>7, Types DEF Alone, At
<1>11. (\A t \in Store : CallOK(t))'
  BY <1>1, <1>2, <1>3, <1>7, Types DEF CallOK, At
<1>12. QED
  BY <1>8, <1>9, <1>10, <1>11

(* A call of the store goes on. *)
LEMMA FinishStep ==
  ASSUME IndInv, NEW s \in Store, Finish(s)
  PROVE  IndInv'
<1>1. /\ s \in Client /\ op[s] \in Call /\ op[s].pc \in Steps /\ overlapped' = overlapped
      /\ op[s].key \subseteq Key /\ op[s].keys \subseteq Key
  BY Types DEF Finish, SetIndex, SetRecord, DeleteRecord, DeleteRead, DeleteIndex, At, Steps,
     Call, history
<1>2. PICK call \in Call :
        op' = [op EXCEPT ![s] = call] /\ call.pc \in Steps \cup {"idle"}
  <2>1. CASE op' = [op EXCEPT ![s] = Idle]
    BY <2>1, IdleCall
  <2>2. CASE \E pc \in Steps : op' = [op EXCEPT ![s].pc = pc]
    <3>1. PICK pc \in Steps : op' = [op EXCEPT ![s].pc = pc]
      BY <2>2
    <3>2. op' = [op EXCEPT ![s] = [op[s] EXCEPT !.pc = pc]]
      BY <1>1, <3>1, Types
    <3>3. [op[s] EXCEPT !.pc = pc] \in Call /\ [op[s] EXCEPT !.pc = pc].pc = pc
      BY <1>1 DEF Call
    <3>4. QED
      BY <3>2, <3>3
  <2>3. CASE op' = [op EXCEPT ![s].pc = "delIndex", ![s].keys = index]
    <3>1. op' = [op EXCEPT ![s] = [op[s] EXCEPT !.pc = "delIndex", !.keys = index]]
      BY <1>1, <2>3, Types
    <3>2. /\ [op[s] EXCEPT !.pc = "delIndex", !.keys = index] \in Call
          /\ [op[s] EXCEPT !.pc = "delIndex", !.keys = index].pc = "delIndex"
      BY <1>1, Types DEF Steps, Call
    <3>3. QED
      BY <3>1, <3>2 DEF Steps
  <2>4. QED
    BY <2>1, <2>2, <2>3 DEF Finish, SetIndex, SetRecord, DeleteRecord, DeleteRead, DeleteIndex,
       Goto, Done, Steps
<1>3. \A c \in Client : op'[c] = IF c = s THEN call ELSE op[c]
  BY <1>2, Types
<1>4. /\ index' \subseteq Key /\ records' \subseteq Key /\ hidden' \subseteq Key
      /\ whole' \in [Client -> SUBSET Key] /\ faults' \in 0..MaxFaults
      /\ \A c \in Client : whole'[c] \subseteq whole[c]
  BY <1>1, Types DEF Finish, SetIndex, SetRecord, DeleteRecord, DeleteRead, DeleteIndex, Lost,
     history
<1>5. call.pc # "list"
  BY <1>2 DEF Steps
<1>6. TypeOK'
  BY <1>1, <1>2, <1>4, Types DEF TypeOK
<1>7. (\A v \in View : op[v].pc \in {"idle", "list"})'
  BY <1>3, Types
<1>8. SUFFICES ASSUME ~overlapped'
               PROVE  /\ (records \subseteq index \cup hidden)'
                      /\ ListingIsWhole' /\ Alone'
                      /\ (\A c \in Client : whole[c] \subseteq records)'
                      /\ (\A t \in Store : CallOK(t))'
  BY <1>6, <1>7 DEF IndInv, RecordsIndexed, ListingIsWhole
<1>9. /\ records \subseteq index \cup hidden /\ CallOK(s)
      /\ \A c \in Client : whole[c] \subseteq records
      /\ \A c \in Client : At(c, "list") =>
           whole[c] \subseteq op[c].out \cup op[c].left \cup op[c].unread
      /\ \A t \in Store : t # s => At(t, "idle")
  BY <1>1, <1>8, Types DEF IndInv, RecordsIndexed, ListingIsWhole, Alone, At, Steps
<1>10. /\ (records \subseteq index \cup hidden)'
       /\ (\A c \in Client : whole[c] \subseteq records)'
  BY <1>1, <1>9, Types
     DEF Finish, SetIndex, SetRecord, DeleteRecord, DeleteRead, DeleteIndex, CallOK, At, history
<1>11. ListingIsWhole'
  BY <1>3, <1>4, <1>5, <1>9, Types DEF ListingIsWhole, At
<1>12. Alone'
  BY <1>3, <1>9, Types DEF Alone, At
<1>13. CallOK(s)'
  <2>1. CASE SetIndex(s)
    BY <1>1, <1>9, <2>1, Types DEF SetIndex, Goto, Done, Idle, CallOK, At, Call
  <2>2. CASE SetRecord(s) \/ DeleteIndex(s)
    BY <1>1, <2>2, Types DEF SetRecord, DeleteIndex, Done, Idle, CallOK, At, Call
  <2>3. CASE DeleteRecord(s)
    BY <1>1, <2>3, Types DEF DeleteRecord, Goto, Done, Idle, CallOK, At, Call
  <2>4. CASE DeleteRead(s)
    BY <1>1, <1>9, <2>4, Types DEF DeleteRead, Done, Idle, CallOK, At, Call, history
  <2>5. QED
    BY <2>1, <2>2, <2>3, <2>4 DEF Finish
<1>14. (\A t \in Store : CallOK(t))'
  BY <1>3, <1>9, <1>13, Types DEF CallOK, At
<1>15. QED
  BY <1>10, <1>11, <1>12, <1>14

(* A listing begins, by a store or by a view. *)
LEMMA BeginListStep ==
  ASSUME IndInv, NEW c \in Client, BeginList(c)
  PROVE  IndInv'
<1> DEFINE call == [Idle EXCEPT !.pc = "list", !.keys = index, !.left = index]
<1>1. \A d \in Client : op'[d] = IF d = c THEN call ELSE op[d]
  BY Types DEF BeginList
<1>2. /\ call.pc = "list" /\ call.keys = index /\ call.left = index /\ call \in Call
  BY Types DEF Idle, Call
<1>3. /\ op' = [op EXCEPT ![c] = call] /\ whole' = [whole EXCEPT ![c] = records \ hidden]
      /\ index' = index /\ records' = records /\ hidden' = hidden /\ faults' = faults
      /\ Enter(c)
  BY DEF BeginList
<1> HIDE DEF call
<1>4. TypeOK'
  BY <1>2, <1>3, EnterType, Types DEF TypeOK
<1>5. (\A v \in View : op[v].pc \in {"idle", "list"})'
  BY <1>1, <1>2, Types
<1>6. SUFFICES ASSUME ~overlapped'
               PROVE  /\ (records \subseteq index \cup hidden)'
                      /\ ListingIsWhole' /\ Alone'
                      /\ (\A d \in Client : whole[d] \subseteq records)'
                      /\ (\A t \in Store : CallOK(t))'
  BY <1>4, <1>5 DEF IndInv, RecordsIndexed, ListingIsWhole
<1>7. ~overlapped /\ (c \in Store => \A t \in Store : t # c => At(t, "idle"))
  BY <1>3, <1>6, EnterAlone, EnterType
<1>8. /\ (records \subseteq index \cup hidden)'
      /\ (\A d \in Client : whole[d] \subseteq records)'
  BY <1>3, <1>7, Types DEF IndInv, RecordsIndexed
<1>9. ListingIsWhole'
  <2> SUFFICES ASSUME NEW d \in Client, At(d, "list")'
               PROVE  whole'[d] \subseteq op'[d].out \cup op'[d].left \cup op'[d].unread
    BY DEF ListingIsWhole
  <2>1. CASE d = c
    BY <1>1, <1>2, <1>3, <1>7, <2>1, Types DEF IndInv, RecordsIndexed
  <2>2. CASE d # c
    BY <1>1, <1>3, <1>7, <2>2, Types DEF IndInv, ListingIsWhole, At
  <2>3. QED
    BY <2>1, <2>2
<1>10. Alone'
  BY <1>1, <1>7, Types DEF IndInv, Alone, At
<1>11. (\A t \in Store : CallOK(t))'
  BY <1>1, <1>2, <1>3, <1>7, <1>8, Types DEF IndInv, CallOK, At
<1>12. QED
  BY <1>8, <1>9, <1>10, <1>11

(* A listing reads a record, or fails to. *)
LEMMA ListGetStep ==
  ASSUME IndInv, NEW c \in Client, NEW k \in Key, ListGet(c, k)
  PROVE  IndInv'
<1>1. /\ At(c, "list") /\ k \in op[c].left /\ op[c] \in Call
      /\ UNCHANGED <<index, records, whole, hidden, overlapped, faults>>
  BY Types DEF ListGet, history
<1>2. PICK call \in Call :
        /\ op' = [op EXCEPT ![c] = call]
        /\ call.pc = "list" /\ call.keys = op[c].keys
        /\ k \in records => k \in call.out \cup call.unread
        /\ op[c].out \cup op[c].left \cup op[c].unread
             \subseteq call.out \cup call.left \cup call.unread \cup {k}
  <2>1. CASE op' = [op EXCEPT ![c].left = @ \ {k},
                              ![c].out = IF k \in records THEN @ \cup {k} ELSE @]
    <3> DEFINE new == [op[c] EXCEPT !.left = @ \ {k},
                                    !.out = IF k \in records THEN @ \cup {k} ELSE @]
    <3>1. op' = [op EXCEPT ![c] = new]
      BY <2>1, Types
    <3>2. /\ new \in Call /\ new.pc = "list" /\ new.keys = op[c].keys
          /\ k \in records => k \in new.out \cup new.unread
          /\ op[c].out \cup op[c].left \cup op[c].unread
               \subseteq new.out \cup new.left \cup new.unread \cup {k}
      BY <1>1 DEF Call, At
    <3> HIDE DEF new
    <3>3. QED
      BY <3>1, <3>2
  <2>2. CASE op' = [op EXCEPT ![c].left = @ \ {k}, ![c].unread = @ \cup {k}]
    <3> DEFINE new == [op[c] EXCEPT !.left = @ \ {k}, !.unread = @ \cup {k}]
    <3>1. op' = [op EXCEPT ![c] = new]
      BY <2>2, Types
    <3>2. /\ new \in Call /\ new.pc = "list" /\ new.keys = op[c].keys
          /\ k \in records => k \in new.out \cup new.unread
          /\ op[c].out \cup op[c].left \cup op[c].unread
               \subseteq new.out \cup new.left \cup new.unread \cup {k}
      BY <1>1 DEF Call, At
    <3> HIDE DEF new
    <3>3. QED
      BY <3>1, <3>2
  <2>3. QED
    BY <2>1, <2>2 DEF ListGet
<1>3. \A d \in Client : op'[d] = IF d = c THEN call ELSE op[d]
  BY <1>2, Types
<1>4. TypeOK'
  BY <1>1, <1>2, Types DEF TypeOK
<1>5. (\A v \in View : op[v].pc \in {"idle", "list"})'
  BY <1>2, <1>3, Types
<1>6. SUFFICES ASSUME ~overlapped'
               PROVE  ListingIsWhole' /\ Alone' /\ (\A t \in Store : CallOK(t))'
  BY <1>1, <1>4, <1>5 DEF IndInv, RecordsIndexed, ListingIsWhole
<1>7. ~overlapped /\ Alone
  BY <1>1, <1>6 DEF IndInv
<1>8. ListingIsWhole'
  <2> SUFFICES ASSUME NEW d \in Client, At(d, "list")'
               PROVE  whole'[d] \subseteq op'[d].out \cup op'[d].left \cup op'[d].unread
    BY DEF ListingIsWhole
  <2>1. CASE d = c
    <3>1. whole[c] \subseteq op[c].out \cup op[c].left \cup op[c].unread /\ whole[c] \subseteq records
      BY <1>1, <1>7 DEF IndInv, ListingIsWhole
    <3>2. QED
      BY <1>1, <1>2, <1>3, <2>1, <3>1
  <2>2. CASE d # c
    BY <1>1, <1>3, <1>7, <2>2 DEF IndInv, ListingIsWhole, At
  <2>3. QED
    BY <2>1, <2>2
<1>9. Alone'
  BY <1>1, <1>2, <1>3, <1>7, Types DEF Alone, At
<1>10. ASSUME NEW t \in Store PROVE CallOK(t)'
  <2>1. CallOK(t) /\ t \in Client
    BY <1>7, Types DEF IndInv
  <2>2. CASE t = c
    BY <1>1, <1>2, <1>3, <2>1, <2>2 DEF CallOK, At
  <2>3. CASE t # c
    BY <1>1, <1>3, <2>1, <2>3 DEF CallOK, At
  <2>4. QED
    BY <2>2, <2>3
<1>11. QED
  BY <1>8, <1>9, <1>10

(* A listing ends, or a call fails. *)
LEMMA EndStep ==
  ASSUME IndInv, NEW c \in Client, ListEnd(c) \/ Fail(c)
  PROVE  IndInv'
<1>1. /\ op' = [op EXCEPT ![c] = Idle] /\ whole' = [whole EXCEPT ![c] = {}]
      /\ records' = records /\ faults' \in 0..MaxFaults /\ overlapped' = overlapped
      /\ op[c] \in Call /\ ~At(c, "idle")
  BY Types DEF ListEnd, Fail, Done, Lost, At
<1>2. Idle.pc = "idle" /\ Idle \in Call
  BY IdleCall
<1>3. \A d \in Client : op'[d] = IF d = c THEN Idle ELSE op[d]
  BY <1>1, Types
<1>4. \A d \in Client : whole'[d] = IF d = c THEN {} ELSE whole[d]
  BY <1>1, Types
<1>5. /\ index' \subseteq Key /\ hidden' \subseteq Key
      /\ c \notin Store => index' = index /\ hidden' = hidden
  BY <1>1, Types DEF ListEnd, Fail, Call
<1>6. TypeOK'
  BY <1>1, <1>2, <1>5, Types DEF TypeOK
<1>7. (\A v \in View : op[v].pc \in {"idle", "list"})'
  BY <1>2, <1>3, Types
<1>8. SUFFICES ASSUME ~overlapped'
               PROVE  /\ (records \subseteq index \cup hidden)'
                      /\ ListingIsWhole' /\ Alone'
                      /\ (\A d \in Client : whole[d] \subseteq records)'
                      /\ (\A t \in Store : CallOK(t))'
  BY <1>6, <1>7 DEF IndInv, RecordsIndexed, ListingIsWhole
<1>9. /\ ~overlapped /\ Alone /\ records \subseteq index \cup hidden
      /\ \A t \in Store : CallOK(t)
  BY <1>1, <1>8 DEF IndInv, RecordsIndexed
<1>10. (records \subseteq index \cup hidden)'
  BY <1>1, <1>9 DEF ListEnd, Fail, CallOK, At
<1>11. (\A d \in Client : whole[d] \subseteq records)'
  BY <1>1, <1>4, <1>9 DEF IndInv
<1>12. ListingIsWhole'
  BY <1>2, <1>3, <1>4, <1>9 DEF IndInv, ListingIsWhole, At
<1>13. Alone'
  BY <1>2, <1>3, <1>9, Types DEF Alone, At
<1>14. ASSUME NEW t \in Store PROVE CallOK(t)'
  <2>1. CASE t = c
    BY <1>2, <1>3, <2>1 DEF CallOK, At
  <2>2. CASE t # c /\ c \in Store
    BY <1>1, <1>2, <1>3, <1>9, <2>2, Types DEF Alone, CallOK, At
  <2>3. CASE t # c /\ c \notin Store
    BY <1>1, <1>3, <1>5, <1>9, <2>3, Types DEF CallOK, At
  <2>4. QED
    BY <2>1, <2>2, <2>3
<1>15. QED
  BY <1>10, <1>11, <1>12, <1>13, <1>14

LEMMA Stutter == ASSUME IndInv, UNCHANGED vars PROVE IndInv'
  BY DEF IndInv, TypeOK, RecordsIndexed, ListingIsWhole, CallOK, Alone, At, vars, history

(* Everything that the calls of a store rely on holds at every step of      *)
(* them, whichever calls and reads fail and whenever the process dies, for  *)
(* as long as no two stores were in a call at once.                         *)
THEOREM Inductive == Spec => []IndInv
<1>1. IndInv /\ [Next]_vars => IndInv'
  BY BeginStep, FinishStep, BeginListStep, ListGetStep, EndStep, Stutter DEF Next, List
<1>2. QED
  BY <1>1, InitIndInv, PTL DEF Spec

(* Every record has an entry, but for one whose read failed, and no listing *)
(* leaves out a record that was there all along and that it could read, for *)
(* any number of stores up to the first overlap of their calls              *)
(* (IndexedStore.Set, Delete, List; readOnlyIndex.List).                    *)
THEOREM NothingHidden == Spec => [](RecordsIndexed /\ ListingIsWhole)
<1>1. IndInv => RecordsIndexed /\ ListingIsWhole
  BY DEF IndInv
<1>2. QED
  BY <1>1, Inductive, PTL
=============================================================================
