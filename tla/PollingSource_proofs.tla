------------------------ MODULE PollingSource_proofs ------------------------
(***************************************************************************)
(* A polling source whose items have message IDs of their own, and which   *)
(* hands a page out oldest first or puts the page's cursor on its last     *)
(* item, never persists a cursor past an item that a page held and that    *)
(* was not acknowledged: for any feed, any page limit, any cap of the      *)
(* tracker, and any number of restarts.                                    *)
(***************************************************************************)
EXTENDS PollingSource, AckWatermark_proofs

OwnIds == \A d, e \in Item : IdOf[d] # NoId /\ (IdOf[d] = IdOf[e] => d = e)

(* Initially nothing is recorded, handed out or passed. *)
LEMMA InitInd == Init => IndInv
<1> SUFFICES ASSUME Init PROVE IndInv
  OBVIOUS
<1>1. /\ pending = <<>> /\ Len(pending) = 0 /\ DOMAIN index = {}
      /\ mark = 0 /\ dropped = FALSE /\ fetched = 0 /\ page = {} /\ saved = 0
      /\ done = {} /\ inflight = {} /\ crashes = 0 /\ missed = {}
  BY DEF Init, TrackerInit, NoCursor
<1>2. TypeOK
  <2>1. <<>> \in Seq(Entry)
    OBVIOUS
  <2>2. 0 \in 0..MaxItem /\ 0 \in 0..MaxCrashes
    BY PollingAssumption
  <2> QED
    BY <1>1, <2>1, <2>2 DEF TypeOK
<1>3. IndexInv /\ AckedInv /\ OrderInv /\ FetchInv
  BY <1>1 DEF IndexInv, AckedInv, OrderInv, FetchInv
<1>4. RecordedInv /\ NothingSkipped
  BY <1>1 DEF RecordedInv, NothingSkipped, Item
<1> QED
  BY <1>2, <1>3, <1>4 DEF IndInv

(* Read: the item is recorded behind everything handed out before it, and  *)
(* its cursor covers only what has been handed out.                        *)
LEMMA HandOutInd ==
  ASSUME IndInv, OwnIds, NewestFirst => PageCursor,
         NEW e \in Item, NEW S, NEW newest \in Item, HandOut(e, S, newest),
         S \subseteq Item, newest >= fetched, \A d \in S : d <= newest,
         \A d \in Item : d \notin S /\ d <= newest =>
           (d <= fetched /\ d \notin page) \/ OffPage(d)',
         \A d \in Item : OffPage(d) => OffPage(d)', missed' \subseteq Item,
         page \subseteq S, \A d \in S : d \in page \/ d > fetched
  PROVE  IndInv'
<1> DEFINE c == CursorOf(e, S \ {e}, newest)
           id == IdOf[e]
<1>t. /\ pending \in Seq(Entry) /\ Len(pending) \in Nat /\ mark \in Nat
      /\ fetched \in Nat /\ newest \in Nat /\ fetched' = newest
      /\ id \in Nat /\ e \in S /\ e \in Nat /\ Item \subseteq Nat
      /\ page' = S \ {e} /\ UNCHANGED <<done, saved, crashes>>
      /\ inflight' = inflight \cup {e} /\ saved \in Nat /\ missed' \subseteq Item
      /\ id # NoId
  BY PollingAssumption DEF IndInv, TypeOK, HandOut, FirstOf, Item, OwnIds
<1>q. \A j \in 1..Len(pending) : pending[j].cursor \in Nat
  <2> SUFFICES ASSUME NEW j \in 1..Len(pending) PROVE pending[j].cursor \in Nat
    OBVIOUS
  <2>1. pending[j] \in Entry
    BY <1>t
  <2> QED
    BY <2>1 DEF Entry
<1>p. \A d \in Item : d <= fetched /\ d \notin page => d \notin page'
  BY <1>t
<1>c. /\ c \in Nat /\ c <= newest
      /\ \A d \in Item : d <= c => d \notin S \ {e}
  BY <1>t DEF CursorOf, HandOut, FirstOf, NoCursor, Item
<1>e. Emitted(id, c)
  BY DEF HandOut
<1>m. mark' = mark /\ (dropped => dropped')
  BY <1>e DEF Emitted, tracker
<1>n. NothingSkipped'
  BY <1>m, <1>t DEF NothingSkipped, IndInv
<1>f. /\ mark' <= fetched' /\ \A d \in page' : d <= fetched'
      /\ \A j \in 1..Len(pending) : pending[j].cursor <= fetched'
  BY <1>m, <1>t, <1>q DEF FetchInv, IndInv
<1>y. /\ mark' \in 0..MaxItem /\ fetched' \in 0..MaxItem /\ page' \subseteq Item
      /\ inflight' \subseteq Item /\ done' \subseteq Item /\ saved' \in 0..MaxItem
      /\ crashes' \in 0..MaxCrashes /\ dropped' \in BOOLEAN /\ missed' \subseteq Item
  <2>1. dropped' \in BOOLEAN
    BY <1>e DEF Emitted, tracker, IndInv, TypeOK
  <2>2. fetched' \in 0..MaxItem
    BY <1>t DEF Item
  <2> QED
    BY <2>1, <2>2, <1>t, <1>m DEF IndInv, TypeOK
<1>1. CASE id \in DOMAIN index /\ UNCHANGED tracker
  <2>u. UNCHANGED <<pending, index, mark, dropped>>
    BY <1>1 DEF tracker
  <2>1. TypeOK' /\ IndexInv' /\ AckedInv' /\ FetchInv'
    <3>1. TypeOK'
      BY <2>u, <1>y DEF IndInv, TypeOK
    <3>2. IndexInv' /\ AckedInv'
      BY <2>u, <1>t DEF IndInv, IndexInv, AckedInv
    <3>3. FetchInv'
      BY <2>u, <1>f DEF FetchInv
    <3> QED
      BY <3>1, <3>2, <3>3
  <2>2. RecordedInv'
    BY <2>u, <1>t, <1>1 DEF IndInv, RecordedInv
  <2>3. OrderInv'
    <3>1. ~dropped => \A j \in 1..Len(pending) : \A d \in Item :
            d <= pending[j].cursor =>
              /\ d \notin page
              /\ d \notin done /\ ~OffPage(d) => IdOf[d] \in DOMAIN index /\ index[IdOf[d]] <= j
      BY DEF IndInv, OrderInv
    <3>2. \A j \in 1..Len(pending) : pending[j].cursor <= fetched
      BY DEF IndInv, FetchInv
    <3>3. \A j \in 1..Len(pending) : \A d \in Item :
            d <= pending[j].cursor /\ d \notin page => d \notin page'
      BY <3>2, <1>q, <1>t, <1>p
    <3> QED
      BY <3>1, <3>3, <2>u, <1>t DEF OrderInv
  <2> QED
    BY <2>1, <2>2, <2>3, <1>n DEF IndInv
<1>2. CASE dropped' = TRUE /\ UNCHANGED <<pending, index, mark>>
  <2>1. TypeOK' /\ IndexInv' /\ AckedInv' /\ FetchInv'
    <3>1. TypeOK'
      BY <1>2, <1>y DEF IndInv, TypeOK
    <3>2. IndexInv' /\ AckedInv'
      BY <1>2, <1>t DEF IndInv, IndexInv, AckedInv
    <3>3. FetchInv'
      BY <1>2, <1>f DEF FetchInv
    <3> QED
      BY <3>1, <3>2, <3>3
  <2>2. RecordedInv' /\ OrderInv'
    BY <1>2 DEF RecordedInv, OrderInv
  <2> QED
    BY <2>1, <2>2, <1>n DEF IndInv
<1>3. CASE /\ id \notin DOMAIN index
           /\ index' = [x \in DOMAIN index \cup {id} |->
                          IF x = id THEN Len(pending) + 1 ELSE index[x]]
           /\ pending' = Append(pending, [id |-> id, cursor |-> c, acked |-> FALSE])
           /\ UNCHANGED <<mark, dropped>>
  <2> DEFINE new == [id |-> id, cursor |-> c, acked |-> FALSE]
  <2>0. new \in Entry
    BY <1>t, <1>c DEF Entry
  <2>p. /\ pending' \in Seq(Entry) /\ Len(pending') = Len(pending) + 1
        /\ \A j \in 1..Len(pending) : pending'[j] = pending[j]
        /\ pending'[Len(pending) + 1] = new
    BY <1>3, <1>t, <2>0
  <2>i. /\ DOMAIN index' = DOMAIN index \cup {id}
        /\ index'[id] = Len(pending) + 1
        /\ \A x \in DOMAIN index : x # id /\ index'[x] = index[x]
    BY <1>3
  <2>x. \A x \in DOMAIN index : index[x] \in 1..Len(pending)
    BY DEF IndInv, TypeOK
  <2>1. TypeOK'
    <3>1. \A x \in DOMAIN index' : index'[x] \in 1..Len(pending')
      BY <2>p, <2>i, <2>x, <1>t
    <3> QED
      BY <3>1, <2>p, <1>y DEF TypeOK
  <2>2. IndexInv'
    <3>1. \A j \in 1..Len(pending) :
            pending[j].id \in DOMAIN index /\ index[pending[j].id] = j
      BY DEF IndInv, IndexInv
    <3>2. \A x \in DOMAIN index : pending[index[x]].id = x
      BY DEF IndInv, IndexInv
    <3>3. \A j \in 1..Len(pending') :
            pending'[j].id \in DOMAIN index' /\ index'[pending'[j].id] = j
      BY <3>1, <2>p, <2>i, <1>t
    <3>4. \A x \in DOMAIN index' : pending'[index'[x]].id = x
      BY <3>2, <2>p, <2>i, <2>x, <1>t
    <3> QED
      BY <3>3, <3>4 DEF IndexInv
  <2>3. AckedInv'
    <3> SUFFICES ASSUME NEW d \in Item, IdOf[d] \in DOMAIN index',
                        pending'[index'[IdOf[d]]].acked
                 PROVE  d \in done
      BY <1>t DEF AckedInv
    <3>1. CASE IdOf[d] = id
      BY <3>1, <2>p, <2>i
    <3>2. CASE IdOf[d] \in DOMAIN index
      BY <3>2, <2>p, <2>i, <2>x DEF IndInv, AckedInv
    <3> QED
      BY <3>1, <3>2, <2>i
  <2>4. RecordedInv'
    BY <2>i, <1>t, <1>3 DEF IndInv, RecordedInv
  <2>5. OrderInv'
    <3> SUFFICES ASSUME ~dropped, NEW j \in 1..Len(pending')
                 PROVE  \A d \in Item : d <= pending'[j].cursor =>
                             /\ d \notin page'
                             /\ d \notin done /\ ~OffPage(d)' =>
                                  IdOf[d] \in DOMAIN index' /\ index'[IdOf[d]] <= j
      BY <1>3, <1>t DEF OrderInv
    <3>1. CASE j \in 1..Len(pending)
      <4>1. pending[j].cursor \in Nat /\ pending'[j] = pending[j]
        BY <3>1, <1>q, <2>p
      <4>2. /\ pending[j].cursor <= fetched
            /\ \A d \in Item : d <= pending[j].cursor =>
                 /\ d \notin page
                 /\ d \notin done /\ ~OffPage(d) =>
                      IdOf[d] \in DOMAIN index /\ index[IdOf[d]] <= j
        BY <3>1 DEF IndInv, OrderInv, FetchInv
      <4>3. \A d \in Item : d <= pending[j].cursor => d <= fetched
        <5> SUFFICES ASSUME NEW d \in Item, d <= pending[j].cursor PROVE d <= fetched
          OBVIOUS
        <5>1. d \in Nat /\ fetched \in Nat /\ pending[j].cursor \in Nat
          BY <4>1, <1>t
        <5>2. pending[j].cursor <= fetched
          BY <4>2
        <5> QED
          BY <5>1, <5>2
      <4> SUFFICES ASSUME NEW d \in Item, d <= pending[j].cursor
                   PROVE  /\ d \notin page'
                          /\ d \notin done /\ ~OffPage(d)' =>
                               IdOf[d] \in DOMAIN index' /\ index'[IdOf[d]] <= j
        BY <4>1
      <4>4. d \notin page'
        BY <4>2, <4>3, <1>p
      <4>5. ASSUME d \notin done, ~OffPage(d)'
            PROVE  IdOf[d] \in DOMAIN index' /\ index'[IdOf[d]] <= j
        <5>1. IdOf[d] \in DOMAIN index /\ index[IdOf[d]] <= j
          BY <4>2, <4>5
        <5> QED
          BY <5>1, <2>i
      <4> QED
        BY <4>4, <4>5
    <3>2. CASE j = Len(pending) + 1
      <4> SUFFICES ASSUME NEW d \in Item, d <= c
                   PROVE  /\ d \notin page'
                          /\ d \notin done /\ ~OffPage(d)' =>
                               IdOf[d] \in DOMAIN index' /\ index'[IdOf[d]] <= j
        <5>1. pending'[j].cursor = c
          BY <3>2, <2>p
        <5> QED
          BY <5>1, <1>c
      <4>1. d = e \/ d \notin S
        BY <1>c
      <4>2. CASE d = e
        BY <4>2, <3>2, <2>i, <1>t
      <4>3. CASE d \notin S
        <5>1. d <= newest
          BY <1>c, <1>t
        <5>2. (d <= fetched /\ d \notin page) \/ OffPage(d)'
          BY <4>3, <5>1
        <5>3. d \notin done /\ ~OffPage(d)' => IdOf[d] \in DOMAIN index
          BY <5>2 DEF IndInv, RecordedInv
        <5> QED
          BY <4>3, <5>3, <3>2, <2>i, <2>x, <1>t
      <4> QED
        BY <4>1, <4>2, <4>3
    <3>3. j \in 1..Len(pending) \/ j = Len(pending) + 1
      <4>1. Len(pending') = Len(pending) + 1
        BY <2>p
      <4>2. Len(pending) \in Nat
        BY <1>t
      <4> QED
        BY <4>1, <4>2
    <3> QED
      BY <3>1, <3>2, <3>3
  <2>6. FetchInv'
    <3>1. ASSUME NEW j \in 1..Len(pending') PROVE pending'[j].cursor <= fetched'
      <4>1. j \in 1..Len(pending) \/ j = Len(pending) + 1
        BY <2>p, <1>t
      <4>2. CASE j \in 1..Len(pending)
        BY <4>2, <2>p, <1>f
      <4>3. CASE j = Len(pending) + 1
        <5>1. pending'[j].cursor = c
          BY <4>3, <2>p
        <5> QED
          BY <5>1, <1>c, <1>t
      <4> QED
        BY <4>1, <4>2, <4>3
    <3> QED
      BY <3>1, <1>f DEF FetchInv
  <2> QED
    BY <2>1, <2>2, <2>3, <2>4, <2>5, <2>6, <1>n DEF IndInv
<1>4. id # NoId
  BY <1>t
<1> QED
  BY <1>e, <1>1, <1>2, <1>3, <1>4 DEF Emitted

(* Read, with items of the fetched page left: the next one is handed out. *)
LEMMA ReadItemInd ==
  ASSUME IndInv, OwnIds, NewestFirst => PageCursor, NEW e \in Item, ReadItem(e)
  PROVE  IndInv'
<1>1. fetched \in Item
  BY DEF IndInv, TypeOK, FetchInv, ReadItem, HandOut, FirstOf, Item
<1>2. /\ HandOut(e, page, fetched) /\ page \subseteq Item /\ fetched >= fetched
      /\ \A d \in page : d <= fetched
      /\ \A d \in Item : d \notin page /\ d <= fetched =>
           (d <= fetched /\ d \notin page) \/ OffPage(d)'
      /\ \A d \in Item : OffPage(d) => OffPage(d)'
      /\ missed' \subseteq Item
      /\ page \subseteq page /\ \A d \in page : d \in page \/ d > fetched
  <2>1. HandOut(e, page, fetched)
    BY DEF ReadItem
  <2>2. page \subseteq Item /\ \A d \in page : d <= fetched
    BY DEF IndInv, TypeOK, FetchInv
  <2>3. fetched >= fetched
    BY <1>1, PollingAssumption DEF Item
  <2>4. missed' = missed /\ missed' \subseteq Item /\ \A d \in Item : OffPage(d) => OffPage(d)'
    BY DEF ReadItem, OffPage, IndInv, TypeOK
  <2> QED
    BY <2>1, <2>2, <2>3, <2>4
<1> QED
  BY <1>1, <1>2, HandOutInd

(* Read, with none left: a page of newer items is fetched and its first handed out. *)
LEMMA ReadPageInd ==
  ASSUME IndInv, OwnIds, NewestFirst => PageCursor,
         NEW e \in Item, NEW o \in Item, NEW n \in Item, ReadPage(e, o, n)
  PROVE  IndInv'
<1> DEFINE S == o..n
<1>1. /\ fetched \in Nat /\ o > fetched /\ n >= o /\ page = {} /\ HandOut(e, S, n)
      /\ n \in Nat /\ o \in Nat /\ (LatestPage \/ o = fetched + 1)
      /\ missed' = missed \cup (fetched + 1)..(o - 1)
  BY DEF IndInv, TypeOK, ReadPage, Item
<1>2. S \subseteq Item /\ n >= fetched /\ \A d \in S : d <= n
  BY <1>1, PollingAssumption DEF Item
<1>3. page \subseteq S /\ \A d \in S : d \in page \/ d > fetched
  BY <1>1 DEF Item
<1>4. ASSUME NEW d \in Item, d \notin S, d <= n
      PROVE  (d <= fetched /\ d \notin page) \/ OffPage(d)'
  <2>1. d <= fetched \/ (LatestPage /\ d \in (fetched + 1)..(o - 1))
    BY <1>1, <1>4 DEF Item
  <2> QED
    BY <2>1, <1>1 DEF OffPage
<1>5. missed' \subseteq Item /\ \A d \in Item : OffPage(d) => OffPage(d)'
  <2>1. (fetched + 1)..(o - 1) \subseteq Item
    BY <1>1, PollingAssumption DEF Item
  <2> QED
    BY <2>1, <1>1 DEF OffPage, IndInv, TypeOK
<1> QED
  BY <1>1, <1>2, <1>3, <1>4, <1>5, HandOutInd

(***************************************************************************)
(* Ack: the entry found through the index is the item's own, the prefix is *)
(* acknowledged, and by OrderInv everything the new mark covers is in it.  *)
(***************************************************************************)
LEMMA AckItemInd ==
  ASSUME IndInv, OwnIds, NEW e \in Item, AckItem(e)
  PROVE  IndInv'
<1> DEFINE id == IdOf[e]
<1>t. /\ pending \in Seq(Entry) /\ Len(pending) \in Nat /\ mark \in Nat
      /\ fetched \in Nat /\ Item \subseteq Nat /\ saved \in Nat
      /\ UNCHANGED <<fetched, page, saved, crashes, missed>>
      /\ done' = done \cup {e} /\ inflight' = inflight \ {e}
      /\ \A d \in Item : OffPage(d)' <=> OffPage(d)
  BY DEF IndInv, TypeOK, AckItem, Item, OffPage
<1>x. \A x \in DOMAIN index : index[x] \in 1..Len(pending)
  BY DEF IndInv, TypeOK
<1>i. /\ \A j \in 1..Len(pending) : pending[j].id \in DOMAIN index /\ index[pending[j].id] = j
      /\ \A x \in DOMAIN index : pending[index[x]].id = x
  BY DEF IndInv, IndexInv
<1>a. \A d \in Item : IdOf[d] \in DOMAIN index /\ pending[index[IdOf[d]]].acked => d \in done
  BY DEF IndInv, AckedInv
<1>1. CASE id \notin DOMAIN index /\ UNCHANGED tracker
  <2>u. UNCHANGED <<pending, index, mark, dropped>>
    BY <1>1 DEF tracker
  <2>1. TypeOK' /\ IndexInv' /\ AckedInv' /\ FetchInv'
    BY <2>u, <1>t DEF IndInv, TypeOK, IndexInv, AckedInv, FetchInv
  <2>2. RecordedInv' /\ OrderInv' /\ NothingSkipped'
    BY <2>u, <1>t DEF IndInv, RecordedInv, OrderInv, NothingSkipped
  <2> QED
    BY <2>1, <2>2 DEF IndInv
<1>2. CASE id \in DOMAIN index
  <2>n. PICK n \in Nat :
          /\ n <= Len(pending) /\ UNCHANGED dropped
          /\ pending' \in Seq(Entry) /\ Len(pending') = Len(pending) - n
          /\ \A j \in 1..Len(pending') :
               /\ j + n \in 1..Len(pending)
               /\ pending'[j].id = pending[j + n].id
               /\ pending'[j].cursor = pending[j + n].cursor
               /\ pending'[j].acked => pending[j + n].acked \/ j + n = index[id]
          /\ \A j \in 1..n : pending[j].acked \/ j = index[id]
          /\ \/ mark' = mark /\ \A j \in 1..n : pending[j].cursor = NoCursor
             \/ \E k \in 1..n :
                  /\ mark' = pending[k].cursor /\ pending[k].cursor # NoCursor
                  /\ \A j \in (k + 1)..n : pending[j].cursor = NoCursor
          /\ DOMAIN index' = {pending'[j].id : j \in 1..Len(pending')}
          /\ \A x \in DOMAIN index' : index'[x] \in 1..Len(pending') /\ pending'[index'[x]].id = x
    <3>1. IndexTyped /\ Ack(id)
      BY <1>x DEF IndexTyped, AckItem
    <3> QED
      BY <3>1, <1>2, <1>t, AckTakesPrefix
  <2>s. \A j \in 1..n : j \in 1..Len(pending)
    BY <2>n, <1>t
  (* What the prefix holds is acknowledged now. *)
  <2>p. \A d \in Item : \A j \in 1..n :
          IdOf[d] \in DOMAIN index /\ index[IdOf[d]] = j => d \in done'
    <3> SUFFICES ASSUME NEW d \in Item, NEW j \in 1..n,
                        IdOf[d] \in DOMAIN index, index[IdOf[d]] = j
                 PROVE  d \in done'
      OBVIOUS
    <3>1. pending[j].acked \/ j = index[id]
      BY <2>n
    <3>2. CASE pending[j].acked
      BY <3>2, <1>a, <1>t
    <3>3. CASE j = index[id]
      BY <3>3, <1>i, <1>2, <1>t DEF OwnIds
    <3> QED
      BY <3>1, <3>2, <3>3
  <2>i. /\ IndexTyped' /\ IndexInv'
        /\ \A x \in DOMAIN index' : index'[x] \in 1..Len(pending') /\ pending'[index'[x]].id = x
        /\ \A x \in DOMAIN index' : x \in DOMAIN index /\ index[x] = index'[x] + n
        /\ \A x \in DOMAIN index : index[x] > n => x \in DOMAIN index'
    <3>1. IndexTyped /\ IndexInv
      BY <1>x DEF IndexTyped, IndInv
    <3> QED
      BY <3>1, <2>n, <1>t, Reindexing
  <2>q. \A j \in 1..Len(pending) : pending[j].cursor \in Nat
    <3> SUFFICES ASSUME NEW j \in 1..Len(pending) PROVE pending[j].cursor \in Nat
      OBVIOUS
    <3>1. pending[j] \in Entry
      BY <1>t
    <3> QED
      BY <3>1 DEF Entry
  <2>m. mark' \in Nat /\ mark' \in {mark} \cup {pending[k].cursor : k \in 1..n}
    BY <2>n, <2>q, <2>s, <1>t
  <2>c. \A j \in 1..Len(pending) : pending[j].cursor <= fetched
    BY DEF IndInv, FetchInv
  <2>o. ~dropped => \A j \in 1..Len(pending) :
             \A d \in Item : d <= pending[j].cursor =>
               /\ d \notin page
               /\ d \notin done /\ ~OffPage(d) => IdOf[d] \in DOMAIN index /\ index[IdOf[d]] <= j
    BY DEF IndInv, OrderInv
  <2>1. IndexInv'
    BY <2>i
  <2>2. AckedInv'
    <3> SUFFICES ASSUME NEW d \in Item, IdOf[d] \in DOMAIN index',
                        pending'[index'[IdOf[d]]].acked
                 PROVE  d \in done'
      BY DEF AckedInv
    <3> DEFINE k == index'[IdOf[d]]
    <3>1. k \in 1..Len(pending') /\ IdOf[d] \in DOMAIN index /\ index[IdOf[d]] = k + n
      BY <2>i
    <3>3. pending[k + n].acked \/ k + n = index[id]
      BY <3>1, <2>n
    <3>4. CASE pending[k + n].acked
      BY <3>4, <3>1, <1>a, <1>t
    <3>5. CASE k + n = index[id]
      BY <3>5, <3>1, <1>i, <1>2, <1>t DEF OwnIds
    <3> QED
      BY <3>3, <3>4, <3>5
  <2>3. RecordedInv'
    <3> SUFFICES ASSUME ~dropped, NEW d \in Item, d <= fetched, d \notin page,
                        d \notin done', ~OffPage(d)
                 PROVE  IdOf[d] \in DOMAIN index'
      BY <2>n, <1>t DEF RecordedInv
    <3>1. IdOf[d] \in DOMAIN index
      BY <1>t DEF IndInv, RecordedInv
    <3>2. index[IdOf[d]] > n
      BY <3>1, <2>p, <2>s, <1>x, <1>t
    <3> QED
      BY <3>1, <3>2, <2>i
  <2>4. OrderInv'
    <3> SUFFICES ASSUME ~dropped, NEW j \in 1..Len(pending')
                 PROVE  \A d \in Item : d <= pending'[j].cursor =>
                             /\ d \notin page
                             /\ d \notin done' /\ ~OffPage(d) =>
                                  IdOf[d] \in DOMAIN index' /\ index'[IdOf[d]] <= j
      BY <2>n, <1>t DEF OrderInv
    <3>1. pending'[j].cursor = pending[j + n].cursor /\ j + n \in 1..Len(pending)
      BY <2>n
    <3>2. ASSUME NEW d \in Item, d <= pending'[j].cursor, d \notin done', ~OffPage(d)
          PROVE  IdOf[d] \in DOMAIN index' /\ index'[IdOf[d]] <= j
      <4>1. IdOf[d] \in DOMAIN index /\ index[IdOf[d]] <= j + n
        BY <3>1, <3>2, <2>o, <1>t
      <4>2. index[IdOf[d]] > n
        BY <4>1, <3>2, <2>p, <2>s, <1>x, <1>t
      <4>3. IdOf[d] \in DOMAIN index' /\ index[IdOf[d]] = index'[IdOf[d]] + n
        BY <4>1, <4>2, <2>i
      <4>4. index'[IdOf[d]] \in Nat
        BY <4>3, <2>i, <2>s
      <4> QED
        BY <4>1, <4>3, <4>4, <2>s
    <3> QED
      BY <3>1, <3>2, <2>o
  <2>5. NothingSkipped'
    <3> SUFFICES ASSUME ~dropped, NEW d \in Item, d <= saved \/ d <= mark', ~OffPage(d)
                 PROVE  d \in done'
      BY <2>n, <1>t DEF NothingSkipped
    <3>1. CASE d <= saved \/ d <= mark
      BY <3>1, <1>t DEF IndInv, NothingSkipped
    <3>2. CASE mark' # mark /\ d <= mark'
      <4>1. PICK k \in 1..n : mark' = pending[k].cursor
        BY <3>2, <2>m
      <4>2. k \in 1..Len(pending) /\ d <= pending[k].cursor
        <5>1. k \in 1..Len(pending)
          BY <2>s, <1>t
        <5> QED
          BY <5>1, <4>1, <3>2, <2>q
      <4>3. d \notin done => IdOf[d] \in DOMAIN index /\ index[IdOf[d]] <= k
        BY <4>2, <2>o
      <4>4. d \notin done => index[IdOf[d]] \in 1..n
        BY <4>1, <4>3, <1>x, <2>s
      <4> QED
        BY <4>3, <4>4, <2>p, <1>t
    <3> QED
      BY <3>1, <3>2
  <2>6. FetchInv'
    <3>1. mark <= fetched /\ \A d \in page : d <= fetched
      BY DEF IndInv, FetchInv
    <3>2. ASSUME NEW k \in 1..n PROVE pending[k].cursor <= fetched
      <4>1. k \in 1..Len(pending)
        BY <2>s, <1>t
      <4> QED
        BY <4>1, <2>c, <2>q
    <3>3. mark' <= fetched
      BY <3>1, <3>2, <2>m
    <3>4. \A j \in 1..Len(pending') : pending'[j].cursor <= fetched
      BY <2>n, <2>c
    <3> QED
      BY <3>1, <3>3, <3>4, <1>t DEF FetchInv
  <2>7. TypeOK'
    <3>1. mark' \in 0..MaxItem
      <4>1. mark' <= fetched
        BY <2>6, <1>t DEF FetchInv
      <4>2. fetched \in 0..MaxItem
        BY DEF IndInv, TypeOK
      <4> QED
        BY <4>1, <4>2, <2>m, PollingAssumption
    <3>2. done' \subseteq Item /\ inflight' \subseteq Item
      BY <1>t DEF IndInv, TypeOK
    <3> QED
      BY <3>1, <3>2, <2>i, <2>n, <1>t DEF IndInv, TypeOK
  <2> QED
    BY <2>1, <2>2, <2>3, <2>4, <2>5, <2>6, <2>7 DEF IndInv
<1> QED
  BY <1>1, <1>2 DEF AckItem, Ack

(* The stored cursor becomes the mark, which passes acknowledged items only. *)
LEMMA CheckpointInd == ASSUME IndInv, Checkpoint PROVE IndInv'
<1>u. /\ saved' = mark
      /\ UNCHANGED <<pending, index, mark, dropped, fetched, page, inflight, done,
                     crashes, missed>>
  BY DEF Checkpoint, tracker
<1>1. TypeOK' /\ IndexInv' /\ AckedInv' /\ FetchInv'
  BY <1>u DEF IndInv, TypeOK, IndexInv, AckedInv, FetchInv
<1>2. RecordedInv' /\ OrderInv' /\ NothingSkipped'
  BY <1>u DEF IndInv, RecordedInv, OrderInv, NothingSkipped, OffPage
<1> QED
  BY <1>1, <1>2 DEF IndInv

(* A restart forgets the pending items; the mark is the stored cursor again. *)
LEMMA RestartInd == ASSUME IndInv, Restart PROVE IndInv'
<1>u. /\ pending' = <<>> /\ Len(pending') = 0 /\ DOMAIN index' = {} /\ mark' = saved
      /\ fetched' = saved /\ page' = {} /\ inflight' = {} /\ crashes < MaxCrashes
      /\ crashes' = crashes + 1 /\ UNCHANGED <<dropped, done, saved>>
      /\ missed' = {e \in missed : e <= saved}
  BY DEF Restart, SetMark
<1>1. TypeOK'
  <2>1. <<>> \in Seq(Entry)
    OBVIOUS
  <2>2. crashes' \in 0..MaxCrashes
    BY <1>u, PollingAssumption DEF IndInv, TypeOK
  <2> QED
    BY <1>u, <2>1, <2>2 DEF IndInv, TypeOK
<1>2. IndexInv' /\ AckedInv' /\ OrderInv'
  BY <1>u DEF IndexInv, AckedInv, OrderInv
<1>3. FetchInv'
  BY <1>u DEF FetchInv, IndInv, TypeOK
<1>4. RecordedInv' /\ NothingSkipped'
  <2>1. \A d \in Item : d <= saved /\ OffPage(d) => OffPage(d)'
    BY <1>u DEF OffPage
  <2> QED
    BY <2>1, <1>u DEF IndInv, RecordedInv, NothingSkipped
<1> QED
  BY <1>1, <1>2, <1>3, <1>4 DEF IndInv

(* Every step keeps the invariant. *)
LEMMA StepInd ==
  ASSUME IndInv, OwnIds, NewestFirst => PageCursor, [Next]_vars
  PROVE  IndInv'
<1>1. CASE UNCHANGED vars
  <2>1. UNCHANGED <<pending, index, mark, dropped, fetched, page, inflight, done,
                    saved, crashes, missed>>
    BY <1>1 DEF vars, tracker, source
  <2>2. TypeOK' /\ IndexInv' /\ AckedInv' /\ FetchInv'
    BY <2>1 DEF IndInv, TypeOK, IndexInv, AckedInv, FetchInv
  <2>3. RecordedInv' /\ OrderInv' /\ NothingSkipped'
    BY <2>1 DEF IndInv, RecordedInv, OrderInv, NothingSkipped, OffPage
  <2> QED
    BY <2>2, <2>3 DEF IndInv
<1>2. CASE Checkpoint \/ Restart
  BY <1>2, CheckpointInd, RestartInd
<1>3. ASSUME NEW e \in Item, ReadItem(e) \/ AckItem(e) PROVE IndInv'
  BY <1>3, ReadItemInd, AckItemInd
<1>4. ASSUME NEW e \in Item, NEW o \in Item, NEW n \in Item, ReadPage(e, o, n) PROVE IndInv'
  BY <1>4, ReadPageInd
<1> QED
  BY <1>1, <1>2, <1>3, <1>4 DEF Next

(***************************************************************************)
(* The inductive invariant of a polling source and its tracker, for the    *)
(* sources whose items have IDs of their own and whose pages are oldest    *)
(* first or carry one cursor.                                              *)
(***************************************************************************)
THEOREM Inductive ==
  ASSUME OwnIds, NewestFirst => PageCursor
  PROVE  Spec => []IndInv
<1>1. Init => IndInv
  BY InitInd
<1>2. IndInv /\ [Next]_vars => IndInv'
  BY StepInd
<1> QED
  BY <1>1, <1>2, PTL DEF Spec

(***************************************************************************)
(* The cursor a source persists never passes an item that was not          *)
(* acknowledged, until the tracker overflows, other than one that a full   *)
(* page of the newest items left out: for a source whose items have IDs of *)
(* their own and whose pages are handed out oldest first, or carry the     *)
(* page's cursor on the last item.                                         *)
(***************************************************************************)
THEOREM NothingSkippedHolds ==
  ASSUME OwnIds, NewestFirst => PageCursor
  PROVE  Spec => []NothingSkipped
<1>1. IndInv => NothingSkipped
  BY DEF IndInv
<1> QED
  BY <1>1, Inductive, PTL

-----------------------------------------------------------------------------
(***************************************************************************)
(* The persisted cursor never moves back, also where items share message   *)
(* IDs: the cursors are recorded in the order in which the mark takes      *)
(* them.                                                                   *)
(***************************************************************************)

CursorInv == TypeOK /\ IndexInv /\ FetchInv /\ ForwardInv

LEMMA CursorTypes ==
  ASSUME TypeOK
  PROVE  /\ pending \in Seq(Entry) /\ Len(pending) \in Nat /\ IndexTyped
         /\ \A j \in 1..Len(pending) : pending[j].cursor \in Nat
         /\ mark \in Nat /\ fetched \in Nat /\ saved \in Nat /\ Item \subseteq Nat
         /\ page \subseteq Nat
<1>1. pending \in Seq(Entry) /\ Len(pending) \in Nat /\ IndexTyped
  BY DEF TypeOK, IndexTyped
<1>2. ASSUME NEW j \in 1..Len(pending) PROVE pending[j].cursor \in Nat
  <2>1. pending[j] \in Entry
    BY <1>1
  <2> QED
    BY <2>1 DEF Entry
<1>3. /\ mark \in Nat /\ fetched \in Nat /\ saved \in Nat /\ Item \subseteq Nat
      /\ page \subseteq Nat
  BY PollingAssumption DEF TypeOK, Item
<1> QED
  BY <1>1, <1>2, <1>3

(* Read: what is left of the page lies past every recorded cursor, so the  *)
(* next cursor does, and covers no more than the item it belongs to.       *)
LEMMA HandOutForward ==
  ASSUME CursorInv, NewestFirst => PageCursor,
         NEW e \in Item, NEW S, NEW newest \in Item, HandOut(e, S, newest),
         S \subseteq Item, newest >= fetched, \A d \in S : d <= newest,
         missed' \subseteq Item,
         \A d \in S : mark < d /\ \A j \in 1..Len(pending) : pending[j].cursor < d
  PROVE  CursorInv'
<1> DEFINE c == CursorOf(e, S \ {e}, newest)
           id == IdOf[e]
<1>a. TypeOK /\ IndexInv /\ FetchInv /\ ForwardInv
  BY DEF CursorInv
<1>t. /\ pending \in Seq(Entry) /\ Len(pending) \in Nat /\ IndexTyped
      /\ \A j \in 1..Len(pending) : pending[j].cursor \in Nat
      /\ mark \in Nat /\ fetched \in Nat /\ saved \in Nat /\ Item \subseteq Nat
  BY <1>a, CursorTypes
<1>h. /\ e \in S /\ Emitted(id, c) /\ page' = S \ {e} /\ fetched' = newest
      /\ inflight' = inflight \cup {e} /\ UNCHANGED <<done, saved, crashes>>
      /\ id \in Nat /\ e \in Nat /\ newest \in Nat
  BY <1>t, PollingAssumption DEF HandOut, FirstOf
<1>c. /\ c \in Nat /\ c <= newest /\ (c # NoCursor => e <= c)
      /\ \A d \in S \ {e} : c < d
  BY <1>t, <1>h DEF CursorOf, HandOut, FirstOf, NoCursor, Item
<1> HIDE DEF c, id
<1>m. mark' = mark
  BY <1>h DEF Emitted, tracker
<1>y. /\ mark' \in 0..MaxItem /\ fetched' \in 0..MaxItem /\ page' \subseteq Item
      /\ inflight' \subseteq Item /\ done' \subseteq Item /\ saved' \in 0..MaxItem
      /\ crashes' \in 0..MaxCrashes /\ dropped' \in BOOLEAN /\ missed' \subseteq Item
  <2>1. dropped' \in BOOLEAN
    BY <1>a, <1>h DEF Emitted, tracker, TypeOK
  <2>2. fetched' \in 0..MaxItem
    BY <1>h DEF Item
  <2> QED
    BY <2>1, <2>2, <1>a, <1>h, <1>m DEF TypeOK
<1>p. /\ saved' <= mark' /\ \A d \in page' : mark' < d
      /\ mark' <= fetched' /\ \A d \in page' : d <= fetched'
      /\ \A j \in 1..Len(pending) : pending[j].cursor <= fetched'
  BY <1>a, <1>t, <1>h, <1>m DEF ForwardInv, FetchInv
<1>1. CASE UNCHANGED <<pending, index>>
  <2>1. TypeOK' /\ IndexInv'
    BY <1>1, <1>a, <1>y DEF TypeOK, IndexInv
  <2>2. FetchInv'
    BY <1>1, <1>p DEF FetchInv
  <2>3. ForwardInv'
    BY <1>1, <1>a, <1>h, <1>m, <1>p DEF ForwardInv
  <2> QED
    BY <2>1, <2>2, <2>3 DEF CursorInv
<1>2. CASE id # NoId /\ id \notin DOMAIN index /\ Len(pending) < MaxPending
  <2>1. /\ pending' \in Seq(Entry) /\ Len(pending') = Len(pending) + 1
        /\ \A j \in 1..Len(pending) : pending'[j] = pending[j]
        /\ pending'[Len(pending) + 1] = [id |-> id, cursor |-> c, acked |-> FALSE]
        /\ IndexTyped' /\ IndexInv'
    BY <1>2, <1>a, <1>t, <1>h, <1>c, EmittedAppends
  <2>2. TypeOK'
    BY <2>1, <1>y DEF TypeOK, IndexTyped
  <2>3. \A j \in 1..Len(pending') :
          \/ j \in 1..Len(pending) /\ pending'[j].cursor = pending[j].cursor
          \/ j = Len(pending) + 1 /\ pending'[j].cursor = c
    BY <2>1, <1>t
  <2>4. FetchInv'
    BY <2>3, <1>p, <1>c, <1>h DEF FetchInv
  <2>5. \A d \in page' : \A j \in 1..Len(pending') : pending'[j].cursor < d
    BY <2>3, <1>h, <1>c
  <2>6. ASSUME NEW j \in 1..Len(pending'), pending'[j].cursor # NoCursor
        PROVE  /\ mark <= pending'[j].cursor
               /\ \A k \in 1..j : pending'[k].cursor <= pending'[j].cursor
    <3>1. CASE j \in 1..Len(pending)
      <4>1. pending'[j] = pending[j] /\ \A k \in 1..j : pending'[k] = pending[k]
        BY <3>1, <2>1, <1>t
      <4> QED
        BY <4>1, <3>1, <2>6, <1>a DEF ForwardInv
    <3>2. CASE j = Len(pending) + 1
      <4>1. pending'[j].cursor = c /\ e <= c
        BY <3>2, <2>1, <2>6, <1>c
      <4>2. mark <= c
        BY <4>1, <1>t, <1>h, <1>c
      <4>3. ASSUME NEW k \in 1..j PROVE pending'[k].cursor <= c
        <5>1. k \in 1..Len(pending) \/ k = j
          BY <3>2, <1>t
        <5>2. CASE k \in 1..Len(pending)
          <6>1. pending'[k].cursor = pending[k].cursor /\ pending[k].cursor < e
            BY <5>2, <2>1, <1>h
          <6> QED
            BY <6>1, <4>1, <5>2, <1>t, <1>h, <1>c
        <5>3. CASE k = j
          BY <5>3, <4>1, <1>c
        <5> QED
          BY <5>1, <5>2, <5>3
      <4> QED
        BY <4>1, <4>2, <4>3
    <3> QED
      BY <3>1, <3>2, <2>1, <1>t
  <2>7. ForwardInv'
    BY <2>5, <2>6, <1>m, <1>p DEF ForwardInv
  <2> QED
    BY <2>1, <2>2, <2>4, <2>7 DEF CursorInv
<1> QED
  BY <1>1, <1>2, <1>h DEF Emitted, tracker

(* Ack: the mark takes a cursor that is not behind it, and nothing that    *)
(* stays in the queue is behind that one.                                  *)
LEMMA AckForward ==
  ASSUME CursorInv, NEW e \in Item, AckItem(e)
  PROVE  CursorInv'
<1> DEFINE id == IdOf[e]
<1>a. TypeOK /\ IndexInv /\ FetchInv /\ ForwardInv
  BY DEF CursorInv
<1>t. /\ pending \in Seq(Entry) /\ Len(pending) \in Nat /\ IndexTyped
      /\ \A j \in 1..Len(pending) : pending[j].cursor \in Nat
      /\ mark \in Nat /\ fetched \in Nat /\ saved \in Nat /\ Item \subseteq Nat
      /\ page \subseteq Nat
  BY <1>a, CursorTypes
<1>h. /\ Ack(id) /\ UNCHANGED <<fetched, page, saved, crashes, missed>>
      /\ done' = done \cup {e} /\ inflight' = inflight \ {e}
  BY DEF AckItem
<1> HIDE DEF id
<1>1. CASE UNCHANGED tracker
  <2>1. UNCHANGED <<pending, index, mark, dropped>>
    BY <1>1 DEF tracker
  <2>2. TypeOK' /\ IndexInv' /\ FetchInv'
    BY <2>1, <1>a, <1>h DEF TypeOK, IndexInv, FetchInv
  <2>3. ForwardInv'
    BY <2>1, <1>a, <1>h DEF ForwardInv
  <2> QED
    BY <2>2, <2>3 DEF CursorInv
<1>2. CASE id \in DOMAIN index
  <2>n. PICK n \in Nat :
          /\ n <= Len(pending) /\ UNCHANGED dropped
          /\ pending' \in Seq(Entry) /\ Len(pending') = Len(pending) - n
          /\ \A j \in 1..Len(pending') :
               /\ j + n \in 1..Len(pending)
               /\ pending'[j].id = pending[j + n].id
               /\ pending'[j].cursor = pending[j + n].cursor
          /\ \/ mark' = mark
             \/ \E k \in 1..n : mark' = pending[k].cursor /\ pending[k].cursor # NoCursor
          /\ DOMAIN index' = {pending'[j].id : j \in 1..Len(pending')}
          /\ \A x \in DOMAIN index' : index'[x] \in 1..Len(pending') /\ pending'[index'[x]].id = x
    BY <1>2, <1>t, <1>h, AckTakesPrefix
  <2>i. IndexTyped' /\ IndexInv'
    BY <2>n, <1>a, <1>t, Reindexing
  <2>m. /\ mark' \in Nat /\ mark <= mark' /\ mark' <= fetched
        /\ \A d \in page : mark' < d
        /\ \A j \in (n + 1)..Len(pending) :
             pending[j].cursor # NoCursor => mark' <= pending[j].cursor
    <3>1. CASE mark' = mark
      <4>1. \A j \in (n + 1)..Len(pending) : j \in 1..Len(pending)
        BY <2>n, <1>t
      <4> QED
        BY <3>1, <4>1, <1>a, <1>t DEF ForwardInv, FetchInv
    <3>2. ASSUME NEW k \in 1..n, mark' = pending[k].cursor, pending[k].cursor # NoCursor
          PROVE  /\ mark' \in Nat /\ mark <= mark' /\ mark' <= fetched
                 /\ \A d \in page : mark' < d
                 /\ \A j \in (n + 1)..Len(pending) :
                      pending[j].cursor # NoCursor => mark' <= pending[j].cursor
      <4>1. k \in 1..Len(pending)
        BY <2>n, <1>t
      <4>2. /\ mark' \in Nat /\ mark <= mark' /\ mark' <= fetched
            /\ \A d \in page : mark' < d
        BY <3>2, <4>1, <1>a, <1>t DEF ForwardInv, FetchInv
      <4>3. \A j \in (n + 1)..Len(pending) : j \in 1..Len(pending) /\ k \in 1..j
        BY <2>n, <1>t
      <4> QED
        BY <3>2, <4>2, <4>3, <1>a DEF ForwardInv
    <3> QED
      BY <3>1, <3>2, <2>n
  <2>1. TypeOK'
    <3>1. mark' \in 0..MaxItem
      BY <2>m, <1>a, <1>t, PollingAssumption DEF TypeOK
    <3>2. done' \subseteq Item /\ inflight' \subseteq Item
      BY <1>a, <1>h DEF TypeOK
    <3> QED
      BY <3>1, <3>2, <2>i, <2>n, <1>a, <1>h DEF TypeOK, IndexTyped
  <2>2. FetchInv'
    BY <2>n, <2>m, <1>a, <1>h DEF FetchInv
  <2>3. ASSUME NEW j \in 1..Len(pending'), pending'[j].cursor # NoCursor
        PROVE  /\ mark' <= pending'[j].cursor
               /\ \A k \in 1..j : pending'[k].cursor <= pending'[j].cursor
    <3>1. j + n \in (n + 1)..Len(pending) /\ j + n \in 1..Len(pending)
      BY <2>n, <1>t
    <3>2. \A k \in 1..j : k \in 1..Len(pending') /\ k + n \in 1..(j + n)
      BY <2>n, <1>t
    <3>3. pending'[j].cursor = pending[j + n].cursor
      BY <2>n
    <3>4. \A k \in 1..j : pending'[k].cursor = pending[k + n].cursor
      BY <3>2, <2>n
    <3> QED
      BY <2>3, <2>m, <3>1, <3>2, <3>3, <3>4, <1>a DEF ForwardInv
  <2>4. ForwardInv'
    <3>1. \A d \in page' : \A j \in 1..Len(pending') : pending'[j].cursor < d
      BY <2>n, <1>a, <1>h DEF ForwardInv
    <3>2. saved' <= mark' /\ \A d \in page' : mark' < d
      BY <2>m, <1>a, <1>t, <1>h DEF ForwardInv
    <3> QED
      BY <2>3, <3>1, <3>2 DEF ForwardInv
  <2> QED
    BY <2>1, <2>2, <2>4, <2>i DEF CursorInv
<1> QED
  BY <1>1, <1>2, <1>h DEF Ack

(* Every step keeps the order of the cursors and moves the persisted one   *)
(* forward only.                                                           *)
LEMMA ForwardStep ==
  ASSUME CursorInv, NewestFirst => PageCursor, [Next]_vars
  PROVE  CursorInv' /\ saved' >= saved
<1>a. TypeOK /\ IndexInv /\ FetchInv /\ ForwardInv
  BY DEF CursorInv
<1>t. /\ mark \in Nat /\ fetched \in Nat /\ saved \in Nat /\ Item \subseteq Nat
      /\ \A j \in 1..Len(pending) : pending[j].cursor \in Nat
  BY <1>a, CursorTypes
<1>1. CASE UNCHANGED vars
  <2>1. UNCHANGED <<pending, index, mark, dropped, fetched, page, inflight, done,
                    saved, crashes, missed>>
    BY <1>1 DEF vars, tracker, source
  <2>2. TypeOK' /\ IndexInv' /\ FetchInv'
    BY <2>1, <1>a DEF TypeOK, IndexInv, FetchInv
  <2>3. ForwardInv'
    BY <2>1, <1>a DEF ForwardInv
  <2> QED
    BY <2>1, <2>2, <2>3, <1>t DEF CursorInv
<1>2. CASE Checkpoint
  <2>1. saved' = mark /\ UNCHANGED <<pending, index, mark, dropped, fetched, page,
                                     inflight, done, crashes, missed>>
    BY <1>2 DEF Checkpoint, tracker
  <2>2. TypeOK' /\ IndexInv' /\ FetchInv'
    BY <2>1, <1>a DEF TypeOK, IndexInv, FetchInv
  <2>3. ForwardInv' /\ saved' >= saved
    BY <2>1, <1>a, <1>t DEF ForwardInv
  <2> QED
    BY <2>2, <2>3 DEF CursorInv
<1>3. CASE Restart
  <2>1. /\ pending' = <<>> /\ Len(pending') = 0 /\ DOMAIN index' = {} /\ mark' = saved
        /\ fetched' = saved /\ page' = {} /\ inflight' = {} /\ crashes < MaxCrashes
        /\ crashes' = crashes + 1 /\ UNCHANGED <<dropped, done, saved>>
        /\ missed' = {e \in missed : e <= saved}
    BY <1>3 DEF Restart, SetMark
  <2>2. TypeOK'
    <3>1. <<>> \in Seq(Entry)
      OBVIOUS
    <3>2. crashes' \in 0..MaxCrashes
      BY <2>1, <1>a, PollingAssumption DEF TypeOK
    <3> QED
      BY <2>1, <3>1, <3>2, <1>a DEF TypeOK
  <2>3. IndexInv' /\ FetchInv' /\ ForwardInv' /\ saved' >= saved
    BY <2>1, <1>t DEF IndexInv, FetchInv, ForwardInv
  <2> QED
    BY <2>2, <2>3 DEF CursorInv
<1>4. ASSUME NEW e \in Item, AckItem(e) PROVE CursorInv' /\ saved' >= saved
  <2>1. saved' = saved
    BY <1>4 DEF AckItem
  <2> QED
    BY <2>1, <1>4, <1>t, AckForward
<1>5. ASSUME NEW e \in Item, ReadItem(e) PROVE CursorInv' /\ saved' >= saved
  <2>1. HandOut(e, page, fetched) /\ e \in page /\ page \subseteq Item
    BY <1>5, <1>a DEF ReadItem, HandOut, FirstOf, TypeOK
  <2>2. fetched \in Item /\ fetched >= fetched
    BY <2>1, <1>a, <1>t DEF FetchInv, TypeOK, Item
  <2>3. /\ \A d \in page : d <= fetched
        /\ \A d \in page : mark < d /\ \A j \in 1..Len(pending) : pending[j].cursor < d
    BY <1>a DEF FetchInv, ForwardInv
  <2>4. saved' = saved /\ missed' \subseteq Item
    BY <2>1, <1>5, <1>a DEF HandOut, ReadItem, TypeOK
  <2>5. CursorInv'
    BY <2>1, <2>2, <2>3, <2>4, HandOutForward
  <2> QED
    BY <2>4, <2>5, <1>t
<1>6. ASSUME NEW e \in Item, NEW o \in Item, NEW n \in Item, ReadPage(e, o, n)
      PROVE  CursorInv' /\ saved' >= saved
  <2> DEFINE S == o..n
  <2>1. /\ o > fetched /\ n >= o /\ HandOut(e, S, n) /\ n \in Nat /\ o \in Nat
        /\ missed' = missed \cup (fetched + 1)..(o - 1)
    BY <1>6, <1>t DEF ReadPage
  <2>2. S \subseteq Item /\ n >= fetched /\ \A d \in S : d <= n
    BY <2>1, <1>t, PollingAssumption DEF Item
  <2>3. \A d \in S : mark < d /\ \A j \in 1..Len(pending) : pending[j].cursor < d
    <3>1. \A d \in S : d \in Nat /\ d > fetched
      BY <2>1, <1>t
    <3> QED
      BY <3>1, <1>a, <1>t DEF FetchInv
  <2>4. saved' = saved
    BY <2>1 DEF HandOut
  <2>5. missed' \subseteq Item
    <3>1. (fetched + 1)..(o - 1) \subseteq Item
      BY <2>1, <1>t, PollingAssumption DEF Item
    <3> QED
      BY <3>1, <2>1, <1>a DEF TypeOK
  <2> QED
    BY <2>1, <2>2, <2>3, <2>4, <2>5, <1>t, HandOutForward
<1> QED
  BY <1>1, <1>2, <1>3, <1>4, <1>5, <1>6 DEF Next

(***************************************************************************)
(* The persisted cursor never moves back, over restarts and with items     *)
(* fetched, handed out and acknowledged again ("so it never goes           *)
(* backwards", SetState), for any feed and message IDs, items that share   *)
(* one included, and a tracker that may overflow.                          *)
(***************************************************************************)
THEOREM SavedForwardHolds ==
  ASSUME NewestFirst => PageCursor
  PROVE  Spec => SavedForward
<1>1. Init => CursorInv
  <2> SUFFICES ASSUME Init PROVE CursorInv
    OBVIOUS
  <2>1. IndInv
    BY InitInd
  <2>2. /\ pending = <<>> /\ Len(pending) = 0 /\ mark = 0 /\ page = {} /\ saved = 0
    BY DEF Init, TrackerInit, NoCursor
  <2>3. ForwardInv
    BY <2>2 DEF ForwardInv
  <2> QED
    BY <2>1, <2>3 DEF IndInv, CursorInv
<1>2. CursorInv /\ [Next]_vars => CursorInv' /\ saved' >= saved
  BY ForwardStep
<1>3. CursorInv /\ [Next]_vars => [saved' >= saved]_vars
  BY <1>2
<1> QED
  BY <1>1, <1>2, <1>3, PTL DEF Spec, SavedForward
=============================================================================
