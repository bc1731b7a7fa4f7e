------------------------- MODULE AckWatermark_proofs -------------------------
(***************************************************************************)
(* What a call of the acknowledgement tracker does to its queue, its index *)
(* and its mark, for any queue: the facts the proofs about the sources     *)
(* over it start from.                                                     *)
(***************************************************************************)
EXTENDS AckWatermark, SequenceTheorems, TLAPS

IndexTyped == \A x \in DOMAIN index : index[x] \in 1..Len(pending)

(* Setting its flag changes nothing else of an entry. *)
LEMMA AckedEntry ==
  ASSUME NEW r \in Entry
  PROVE  /\ [r EXCEPT !.acked = TRUE] \in Entry /\ r.cursor \in Nat
         /\ [r EXCEPT !.acked = TRUE].id = r.id
         /\ [r EXCEPT !.acked = TRUE].cursor = r.cursor
         /\ [r EXCEPT !.acked = TRUE].acked
  BY DEF Entry

(* Emitted of a new id: the entry goes to the end of the queue and the     *)
(* index knows it.                                                         *)
LEMMA EmittedAppends ==
  ASSUME pending \in Seq(Entry), IndexTyped, IndexInv,
         NEW id \in Nat, NEW cursor \in Nat, Emitted(id, cursor),
         id # NoId, id \notin DOMAIN index, Len(pending) < MaxPending
  PROVE  /\ pending' \in Seq(Entry) /\ Len(pending') = Len(pending) + 1
         /\ \A j \in 1..Len(pending) : pending'[j] = pending[j]
         /\ pending'[Len(pending) + 1] = [id |-> id, cursor |-> cursor, acked |-> FALSE]
         /\ DOMAIN index' = DOMAIN index \cup {id} /\ index'[id] = Len(pending) + 1
         /\ \A x \in DOMAIN index : x # id /\ index'[x] = index[x]
         /\ IndexTyped' /\ IndexInv' /\ UNCHANGED <<mark, dropped>>
<1> DEFINE new == [id |-> id, cursor |-> cursor, acked |-> FALSE]
<1>1. new \in Entry
  BY DEF Entry
<1>2. Len(pending) \in Nat
  OBVIOUS
<1>e. /\ index' = [x \in DOMAIN index \cup {id} |->
                     IF x = id THEN Len(pending) + 1 ELSE index[x]]
      /\ pending' = Append(pending, new)
      /\ UNCHANGED <<mark, dropped>>
  BY <1>2, MaxPendingAssumption DEF Emitted
<1>p. /\ pending' \in Seq(Entry) /\ Len(pending') = Len(pending) + 1
      /\ \A j \in 1..Len(pending) : pending'[j] = pending[j]
      /\ pending'[Len(pending) + 1] = new
  BY <1>e, <1>1
<1>i. /\ DOMAIN index' = DOMAIN index \cup {id}
      /\ index'[id] = Len(pending) + 1
      /\ \A x \in DOMAIN index : x # id /\ index'[x] = index[x]
  BY <1>e
<1>3. IndexTyped'
  BY <1>p, <1>i, <1>2 DEF IndexTyped
<1>4. \A j \in 1..Len(pending') :
        pending'[j].id \in DOMAIN index' /\ index'[pending'[j].id] = j
  BY <1>p, <1>i, <1>2 DEF IndexInv
<1>5. \A x \in DOMAIN index' : pending'[index'[x]].id = x
  BY <1>p, <1>i, <1>2 DEF IndexInv, IndexTyped
<1>6. IndexInv'
  BY <1>4, <1>5 DEF IndexInv
<1> QED
  BY <1>p, <1>i, <1>e, <1>3, <1>6

(***************************************************************************)
(* Ack of a recorded id takes the acknowledged prefix off the queue: what  *)
(* leaves was acknowledged before or is the id's own entry, what stays     *)
(* keeps its order, its cursors and its flags, and the mark is what it was *)
(* or the last cursor among those that leave.                              *)
(***************************************************************************)
LEMMA AckTakesPrefix ==
  ASSUME pending \in Seq(Entry), IndexTyped, NEW id \in DOMAIN index, Ack(id)
  PROVE  \E n \in Nat :
           /\ n <= Len(pending) /\ UNCHANGED dropped
           /\ pending' \in Seq(Entry) /\ Len(pending') = Len(pending) - n
           /\ \A j \in 1..Len(pending') :
                /\ j + n \in 1..Len(pending)
                /\ pending'[j].id = pending[j + n].id
                /\ pending'[j].cursor = pending[j + n].cursor
                /\ pending'[j].acked => pending[j + n].acked \/ j + n = index[id]
           /\ \A j \in 1..n : pending[j].acked \/ j = index[id]
           /\ \/ mark' = mark /\ \A j \in 1..n : pending[j].cursor = NoCursor
              \/ \E k \in 1..n :
                   /\ mark' = pending[k].cursor /\ pending[k].cursor # NoCursor
                   /\ \A j \in (k + 1)..n : pending[j].cursor = NoCursor
           /\ DOMAIN index' = {pending'[j].id : j \in 1..Len(pending')}
           /\ \A x \in DOMAIN index' : index'[x] \in 1..Len(pending') /\ pending'[index'[x]].id = x
<1> DEFINE q == [pending EXCEPT ![index[id]].acked = TRUE]
<1>n. PICK n \in 0..Len(q) :
        /\ Prefix(q, n) /\ Advance(q, n)
        /\ pending' = SubSeq(q, n + 1, Len(q))
        /\ index' = Reindexed(pending')
  BY DEF Ack
<1>d. UNCHANGED dropped
  BY DEF Ack, tracker
<1>t. Len(pending) \in Nat /\ index[id] \in 1..Len(pending) /\ DOMAIN pending = 1..Len(pending)
  BY DEF IndexTyped
<1>q. /\ q \in Seq(Entry) /\ Len(q) = Len(pending)
      /\ \A j \in 1..Len(pending) :
           /\ q[j].id = pending[j].id /\ q[j].cursor = pending[j].cursor
           /\ q[j].acked => pending[j].acked \/ j = index[id]
  <2>1. \A j \in 1..Len(pending) : pending[j] \in Entry
    OBVIOUS
  <2>2. DOMAIN q = 1..Len(pending)
    BY <1>t
  <2>3. ASSUME NEW j \in 1..Len(pending)
        PROVE  /\ q[j] \in Entry
               /\ q[j].id = pending[j].id /\ q[j].cursor = pending[j].cursor
               /\ q[j].acked => pending[j].acked \/ j = index[id]
    <3>1. CASE j = index[id]
      <4>1. q[j] = [pending[j] EXCEPT !.acked = TRUE]
        BY <3>1, <1>t
      <4> QED
        BY <4>1, <2>1, <3>1, AckedEntry
    <3>2. CASE j # index[id]
      <4>1. q[j] = pending[j]
        BY <3>2, <1>t
      <4> QED
        BY <4>1, <2>1, AckedEntry
    <3> QED
      BY <3>1, <3>2
  <2>4. q \in [1..Len(pending) -> Entry]
    BY <2>2, <2>3
  <2>5. q \in Seq(Entry) /\ Len(q) = Len(pending)
    BY <2>4, <1>t, SeqDef
  <2> QED
    BY <2>3, <2>5
<1> HIDE DEF q
<1>s. /\ n \in Nat /\ n <= Len(pending)
      /\ pending' \in Seq(Entry) /\ Len(pending') = Len(pending) - n
      /\ \A j \in 1..Len(pending') : pending'[j] = q[j + n] /\ j + n \in 1..Len(pending)
  <2>1. n \in Nat /\ n <= Len(pending)
    BY <1>n, <1>q, <1>t
  <2>2. \A j \in (n + 1)..Len(q) : q[j] \in Entry
    BY <2>1, <1>q, <1>t
  <2>3. /\ SubSeq(q, n + 1, Len(q)) \in Seq(Entry)
        /\ Len(SubSeq(q, n + 1, Len(q))) =
             IF n + 1 <= Len(q) THEN Len(q) - (n + 1) + 1 ELSE 0
        /\ \A j \in 1..(Len(q) - (n + 1) + 1) :
             SubSeq(q, n + 1, Len(q))[j] = q[(n + 1) + j - 1]
    BY <2>1, <2>2, <1>q, <1>t, SubSeqProperties
  <2>4. pending' \in Seq(Entry) /\ Len(pending') = Len(pending) - n
    <3>1. Len(SubSeq(q, n + 1, Len(q))) = Len(q) - n
      BY <2>1, <2>3, <1>q, <1>t
    <3> QED
      BY <3>1, <2>3, <1>n, <1>q
  <2>5. ASSUME NEW j \in 1..Len(pending')
        PROVE  pending'[j] = q[j + n] /\ j + n \in 1..Len(pending)
    <3>1. j \in 1..(Len(q) - (n + 1) + 1) /\ (n + 1) + j - 1 = j + n
      BY <2>1, <2>4, <2>5, <1>q, <1>t
    <3>2. pending'[j] = q[(n + 1) + j - 1]
      BY <3>1, <2>3, <1>n
    <3> QED
      BY <3>1, <3>2, <2>1, <2>4, <1>t
  <2> QED
    BY <2>1, <2>4, <2>5
<1>1. \A j \in 1..Len(pending') :
        /\ j + n \in 1..Len(pending)
        /\ pending'[j].id = pending[j + n].id /\ pending'[j].cursor = pending[j + n].cursor
        /\ pending'[j].acked => pending[j + n].acked \/ j + n = index[id]
  BY <1>s, <1>q
<1>2. \A j \in 1..n : j \in 1..Len(pending)
  BY <1>s, <1>t
<1>3. \A j \in 1..n : pending[j].acked \/ j = index[id]
  BY <1>2, <1>n, <1>q DEF Prefix
<1>4. \/ mark' = mark /\ \A j \in 1..n : pending[j].cursor = NoCursor
      \/ \E k \in 1..n :
           /\ mark' = pending[k].cursor /\ pending[k].cursor # NoCursor
           /\ \A j \in (k + 1)..n : pending[j].cursor = NoCursor
  <2>1. CASE mark' = mark /\ \A j \in 1..n : q[j].cursor = NoCursor
    BY <2>1, <1>2, <1>q
  <2>2. ASSUME NEW k \in 1..n, q[k].cursor # NoCursor, mark' = q[k].cursor,
               \A j \in (k + 1)..n : q[j].cursor = NoCursor
        PROVE  /\ mark' = pending[k].cursor /\ pending[k].cursor # NoCursor
               /\ \A j \in (k + 1)..n : pending[j].cursor = NoCursor
    <3>1. \A j \in (k + 1)..n : j \in 1..n
      BY <1>s
    <3> QED
      BY <3>1, <2>2, <1>2, <1>q
  <2> QED
    BY <2>1, <2>2, <1>n DEF Advance
<1>5. /\ DOMAIN index' = {pending'[j].id : j \in 1..Len(pending')}
      /\ \A x \in DOMAIN index' : index'[x] \in 1..Len(pending') /\ pending'[index'[x]].id = x
  <2>1. DOMAIN pending' = 1..Len(pending')
    BY <1>s
  <2>2. /\ DOMAIN index' = {pending'[j].id : j \in 1..Len(pending')}
        /\ \A x \in DOMAIN index' :
             index'[x] = CHOOSE j \in 1..Len(pending') : pending'[j].id = x
    BY <1>n, <2>1 DEF Reindexed
  <2> QED
    BY <2>2
<1> QED
  BY <1>d, <1>s, <1>1, <1>3, <1>4, <1>5

(***************************************************************************)
(* The rebuilt index is again the inverse of the queue: it knows what      *)
(* stayed, at the place it moved to, and nothing else.                     *)
(***************************************************************************)
LEMMA Reindexing ==
  ASSUME pending \in Seq(Entry), IndexTyped, IndexInv, NEW n \in Nat, n <= Len(pending),
         pending' \in Seq(Entry), Len(pending') = Len(pending) - n,
         \A j \in 1..Len(pending') :
           j + n \in 1..Len(pending) /\ pending'[j].id = pending[j + n].id,
         DOMAIN index' = {pending'[j].id : j \in 1..Len(pending')},
         \A x \in DOMAIN index' : index'[x] \in 1..Len(pending') /\ pending'[index'[x]].id = x
  PROVE  /\ IndexTyped' /\ IndexInv'
         /\ \A x \in DOMAIN index' : x \in DOMAIN index /\ index[x] = index'[x] + n
         /\ \A x \in DOMAIN index : index[x] > n => x \in DOMAIN index'
<1>t. Len(pending) \in Nat /\ Len(pending') \in Nat
  OBVIOUS
<1>1. \A j \in 1..Len(pending') :
        pending'[j].id \in DOMAIN index /\ index[pending'[j].id] = j + n
  BY DEF IndexInv
<1>2. ASSUME NEW j \in 1..Len(pending'), NEW k \in 1..Len(pending'),
             pending'[j].id = pending'[k].id
      PROVE  j = k
  <2>1. index[pending'[j].id] = j + n /\ index[pending'[k].id] = k + n
    BY <1>1
  <2>2. j + n = k + n
    BY <1>2, <2>1
  <2> QED
    BY <2>2, <1>t
<1>3. \A j \in 1..Len(pending') :
        pending'[j].id \in DOMAIN index' /\ index'[pending'[j].id] = j
  <2> SUFFICES ASSUME NEW j \in 1..Len(pending')
               PROVE  pending'[j].id \in DOMAIN index' /\ index'[pending'[j].id] = j
    OBVIOUS
  <2>1. pending'[j].id \in DOMAIN index'
    OBVIOUS
  <2>2. /\ index'[pending'[j].id] \in 1..Len(pending')
        /\ pending'[index'[pending'[j].id]].id = pending'[j].id
    BY <2>1
  <2> QED
    BY <2>1, <2>2, <1>2
<1>4. \A x \in DOMAIN index' : x \in DOMAIN index /\ index[x] = index'[x] + n
  BY <1>1
<1>5. ASSUME NEW x \in DOMAIN index, index[x] > n PROVE x \in DOMAIN index'
  <2>1. index[x] - n \in 1..Len(pending') /\ index[x] \in 1..Len(pending)
        /\ (index[x] - n) + n = index[x]
    BY <1>5, <1>t DEF IndexTyped
  <2>2. pending'[index[x] - n].id = pending[index[x]].id
    BY <2>1
  <2>3. pending[index[x]].id = x
    BY DEF IndexInv
  <2> QED
    BY <2>1, <2>2, <2>3
<1> QED
  BY <1>3, <1>4, <1>5 DEF IndexTyped, IndexInv
=============================================================================
