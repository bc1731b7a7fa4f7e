---------------------------- MODULE Engine_proofs ----------------------------
(***************************************************************************)
(* The engine's message path keeps its promises for any number of messages,*)
(* workers and sinks, any capacities, and every backpressure strategy:     *)
(* what is acknowledged is kept, messages of one key reach a sink in       *)
(* order, pooled objects are never shared, and closed channels are quiet.  *)
(***************************************************************************)
EXTENDS Engine, SequenceTheorems, FiniteSetTheorems, TLAPS

-----------------------------------------------------------------------------
(* Sequences as queues. *)

LEMMA AtEnd ==
  ASSUME NEW S, NEW a \in Seq(S), NEW x \in S
  PROVE  /\ Append(a, x) \in Seq(S) /\ Range(Append(a, x)) = Range(a) \cup {x}
         /\ DOMAIN Append(a, x) = 1..(Len(a) + 1) /\ Append(a, x)[Len(a) + 1] = x
         /\ DOMAIN a = 1..Len(a) /\ Len(a) \in Nat
         /\ \A i \in DOMAIN a : Append(a, x)[i] = a[i]
<1>1. /\ Append(a, x) \in Seq(S) /\ Len(Append(a, x)) = Len(a) + 1
      /\ Append(a, x)[Len(a) + 1] = x /\ Len(a) \in Nat
      /\ \A i \in 1..Len(a) : Append(a, x)[i] = a[i]
      /\ DOMAIN a = 1..Len(a) /\ DOMAIN Append(a, x) = 1..(Len(a) + 1)
  OBVIOUS
<1>2. Range(Append(a, x)) = Range(a) \cup {x}
  <2>1. \A i \in 1..(Len(a) + 1) : i \in 1..Len(a) \/ i = Len(a) + 1
    BY <1>1
  <2>2. Len(a) + 1 \in 1..(Len(a) + 1) /\ \A i \in 1..Len(a) : i \in 1..(Len(a) + 1)
    BY <1>1
  <2> QED
    BY <1>1, <2>1, <2>2 DEF Range
<1> QED
  BY <1>1, <1>2

LEMMA AtHead ==
  ASSUME NEW S, NEW a \in Seq(S), a # <<>>
  PROVE  /\ Head(a) \in S /\ Tail(a) \in Seq(S) /\ Range(a) = {Head(a)} \cup Range(Tail(a))
         /\ Len(a) \in Nat \ {0} /\ DOMAIN a = 1..Len(a) /\ a[1] = Head(a)
         /\ DOMAIN Tail(a) = 1..(Len(a) - 1)
         /\ \A i \in DOMAIN Tail(a) : i + 1 \in DOMAIN a /\ Tail(a)[i] = a[i + 1]
<1>1. /\ Head(a) \in S /\ Tail(a) \in Seq(S) /\ a[1] = Head(a)
      /\ Len(a) \in Nat \ {0} /\ DOMAIN a = 1..Len(a)
      /\ DOMAIN Tail(a) = 1..(Len(a) - 1)
      /\ \A i \in 1..(Len(a) - 1) : Tail(a)[i] = a[i + 1]
  OBVIOUS
<1>2. Range(a) = {Head(a)} \cup Range(Tail(a))
  <2>1. \A i \in 1..Len(a) : i = 1 \/ (i - 1 \in 1..(Len(a) - 1) /\ (i - 1) + 1 = i)
    BY <1>1
  <2>2. 1 \in 1..Len(a) /\ \A i \in 1..(Len(a) - 1) : i + 1 \in 1..Len(a)
    BY <1>1
  <2>3. \A i \in 1..Len(a) : i # 1 => a[i] = Tail(a)[i - 1]
    BY <1>1, <2>1
  <2>4. ASSUME NEW x \in Range(a) PROVE x \in {Head(a)} \cup Range(Tail(a))
    <3>1. PICK i \in 1..Len(a) : x = a[i]
      BY <1>1 DEF Range
    <3> QED
      BY <3>1, <1>1, <2>1, <2>3 DEF Range
  <2>5. ASSUME NEW x \in {Head(a)} \cup Range(Tail(a)) PROVE x \in Range(a)
    <3>1. x = a[1] \/ \E i \in 1..(Len(a) - 1) : x = a[i + 1]
      BY <1>1 DEF Range
    <3> QED
      BY <3>1, <1>1, <2>2 DEF Range
  <2> QED
    BY <2>4, <2>5
<1> QED
  BY <1>1, <1>2

LEMMA AscendingAppend ==
  ASSUME NEW a \in Seq(Msg), NEW x \in Msg, Ascending(a), Before(Range(a), {x})
  PROVE  Ascending(Append(a, x))
<1>1. /\ DOMAIN Append(a, x) = 1..(Len(a) + 1) /\ Append(a, x)[Len(a) + 1] = x
      /\ DOMAIN a = 1..Len(a) /\ Len(a) \in Nat
      /\ \A i \in DOMAIN a : Append(a, x)[i] = a[i]
  BY AtEnd
<1>2. \A i \in DOMAIN a : a[i] < x
  BY DEF Before, Range
<1> QED
  BY <1>1, <1>2 DEF Ascending

LEMMA AscendingTail ==
  ASSUME NEW a \in Seq(Msg), a # <<>>, Ascending(a)
  PROVE  Ascending(Tail(a)) /\ Before({Head(a)}, Range(Tail(a)))
<1>1. /\ Len(a) \in Nat \ {0} /\ DOMAIN a = 1..Len(a) /\ a[1] = Head(a)
      /\ DOMAIN Tail(a) = 1..(Len(a) - 1)
      /\ \A i \in DOMAIN Tail(a) : i + 1 \in DOMAIN a /\ Tail(a)[i] = a[i + 1]
  BY AtHead
<1>2. Ascending(Tail(a))
  BY <1>1 DEF Ascending
<1>3. \A i \in DOMAIN Tail(a) : a[1] < Tail(a)[i]
  BY <1>1 DEF Ascending
<1> QED
  BY <1>1, <1>2, <1>3 DEF Before, Range

(* An element of a concatenation is in one of the two. *)
InOne(a, b, i) ==
  \/ i \in DOMAIN a /\ (a \o b)[i] = a[i]
  \/ i - Len(a) \in DOMAIN b /\ (a \o b)[i] = b[i - Len(a)]

LEMMA Concatenation ==
  ASSUME NEW S, NEW a \in Seq(S), NEW b \in Seq(S)
  PROVE  /\ Range(a \o b) = Range(a) \cup Range(b) /\ Len(a) \in Nat
         /\ \A i \in DOMAIN (a \o b) : i \in Nat /\ InOne(a, b, i)
<1>1. PICK m \in Nat : m = Len(a) /\ DOMAIN a = 1..m
  BY LenProperties
<1>2. PICK n \in Nat : n = Len(b) /\ DOMAIN b = 1..n
  BY LenProperties
<1>3. PICK c : c = a \o b
  OBVIOUS
<1>4. /\ c \in Seq(S) /\ Len(c) = m + n
      /\ \A i \in 1..(m + n) : c[i] = IF i <= m THEN a[i] ELSE b[i - m]
  BY <1>1, <1>2, <1>3, ConcatProperties
<1>5. DOMAIN c = 1..(m + n)
  BY <1>4, LenProperties
<1>6. ASSUME NEW i \in DOMAIN c
      PROVE  /\ i \in Nat
             /\ (i \in DOMAIN a /\ c[i] = a[i]) \/ (i - m \in DOMAIN b /\ c[i] = b[i - m])
  <2>1. i \in 1..(m + n)
    BY <1>5
  <2>2. CASE i <= m
    <3>1. i \in 1..m
      BY <2>1, <2>2
    <3> QED
      BY <2>1, <2>2, <3>1, <1>1, <1>4
  <2>3. CASE ~(i <= m)
    <3>1. i - m \in 1..n
      BY <2>1, <2>3
    <3> QED
      BY <2>1, <2>3, <3>1, <1>2, <1>4
  <2> QED
    BY <2>2, <2>3
<1>7. ASSUME NEW i \in DOMAIN a PROVE a[i] \in Range(c)
  <2>1. i \in 1..(m + n) /\ i <= m
    BY <1>1
  <2> QED
    BY <2>1, <1>4, <1>5 DEF Range
<1>8. ASSUME NEW i \in DOMAIN b PROVE b[i] \in Range(c)
  <2>1. m + i \in 1..(m + n) /\ ~(m + i <= m) /\ (m + i) - m = i
    BY <1>2
  <2> QED
    BY <2>1, <1>4, <1>5 DEF Range
<1>9. Range(c) = Range(a) \cup Range(b)
  BY <1>6, <1>7, <1>8 DEF Range
<1> QED
  BY <1>1, <1>3, <1>6, <1>9 DEF InOne

LEMMA InjectiveAppend ==
  ASSUME NEW S, NEW a \in Seq(S), NEW x \in S, IsInjective(a), x \notin Range(a)
  PROVE  IsInjective(Append(a, x))
<1>1. /\ DOMAIN Append(a, x) = 1..(Len(a) + 1) /\ Append(a, x)[Len(a) + 1] = x
      /\ DOMAIN a = 1..Len(a) /\ Len(a) \in Nat
      /\ \A i \in DOMAIN a : Append(a, x)[i] = a[i]
  BY AtEnd
<1>2. \A i \in DOMAIN a : a[i] # x
  BY DEF Range
<1>3. \A i \in 1..(Len(a) + 1) : i \in DOMAIN a \/ i = Len(a) + 1
  BY <1>1
<1> QED
  BY <1>1, <1>2, <1>3 DEF IsInjective

LEMMA InjectiveTail ==
  ASSUME NEW S, NEW a \in Seq(S), a # <<>>, IsInjective(a)
  PROVE  IsInjective(Tail(a)) /\ Head(a) \notin Range(Tail(a))
<1>1. /\ Len(a) \in Nat \ {0} /\ DOMAIN a = 1..Len(a) /\ a[1] = Head(a)
      /\ DOMAIN Tail(a) = 1..(Len(a) - 1)
      /\ \A i \in DOMAIN Tail(a) : i + 1 \in DOMAIN a /\ Tail(a)[i] = a[i + 1]
  BY AtHead
<1>2. IsInjective(Tail(a))
  BY <1>1 DEF IsInjective
<1>3. \A i \in DOMAIN Tail(a) : Tail(a)[i] # a[1]
  BY <1>1 DEF IsInjective
<1> QED
  BY <1>1, <1>2, <1>3 DEF Range

-----------------------------------------------------------------------------
(* The way of a message to a worker. *)

LEMMA MsgIs == /\ MaxMsg \in Nat /\ \A m \in Msg : m \in Nat /\ m > 0
               /\ \A m \in Msg : WorkerOf[m] \in Queue
  BY EngineAssumption DEF Msg

LEMMA FlowTypes ==
  ASSUME TypeOK
  PROVE  /\ unread \subseteq Msg /\ hold \in {0} \cup Msg /\ Waiting \subseteq Msg
         /\ buffer \in Seq(Msg) /\ Range(buffer) \subseteq Msg
         /\ DOMAIN queue = Queue
         /\ \A q \in Queue : queue[q] \in Seq(Msg) /\ Range(queue[q]) \subseteq Msg
         /\ \A q \in Queue : Upstream(q) \subseteq Msg
<1>1. /\ unread \subseteq Msg /\ hold \in {0} \cup Msg /\ buffer \in Seq(Msg)
      /\ DOMAIN queue = Queue /\ \A q \in Queue : queue[q] \in Seq(Msg)
  BY DEF TypeOK
<1>2. Waiting \subseteq Msg
  BY <1>1 DEF Waiting
<1>3. \A a \in Seq(Msg) : Range(a) \subseteq Msg
  BY DEF Range
<1> QED
  BY <1>1, <1>2, <1>3 DEF Upstream

(* What is to come through a queue only shrinks, so that what is past stays past. *)
LEMMA PastKept ==
  ASSUME \A q \in Queue : Upstream(q)' \subseteq Upstream(q)
  PROVE  \A m \in Msg : Past(m) => Past(m)'
  BY MsgIs DEF Past, Before

LEMMA FlowFrame ==
  ASSUME UNCHANGED <<unread, hold, buffer, queue>>
  PROVE  (FlowInv => FlowInv') /\ \A q : Upstream(q)' = Upstream(q)
<1>1. Waiting' = Waiting
  BY DEF Waiting
<1> QED
  BY <1>1 DEF FlowInv, Upstream

LEMMA ReadFlow ==
  ASSUME TypeOK, FlowInv, Read
  PROVE  FlowInv' /\ \A q \in Queue : Upstream(q)' \subseteq Upstream(q)
<1>t. /\ unread \subseteq Msg /\ hold \in {0} \cup Msg /\ \A m \in Msg : m \in Nat /\ m > 0
  BY FlowTypes, MsgIs
<1>1. PICK m \in unread :
        /\ \A n \in unread : m <= n
        /\ hold = 0 /\ hold' = m /\ unread' = unread \ {m} /\ UNCHANGED <<buffer, queue>>
  BY DEF Read
<1>2. Waiting' = Waiting
  BY <1>1, <1>t DEF Waiting
<1>3. \A n \in unread' : hold' < n
  BY <1>1, <1>t
<1> QED
  BY <1>1, <1>2, <1>3 DEF FlowInv, Upstream

LEMMA ProduceFlow ==
  ASSUME TypeOK, FlowInv, Produce
  PROVE  FlowInv' /\ \A q \in Queue : Upstream(q)' \subseteq Upstream(q)
<1>t. /\ unread \subseteq Msg /\ hold \in {0} \cup Msg /\ \A m \in Msg : m \in Nat /\ m > 0
      /\ buffer \in Seq(Msg)
  BY FlowTypes, MsgIs
<1>u. hold # 0 /\ hold' = 0 /\ buffer' = Append(buffer, hold) /\ UNCHANGED <<unread, queue>>
  BY DEF Produce
<1>1. Range(buffer') = Range(buffer) \cup {hold}
  BY <1>t, <1>u, AtEnd
<1>2. Waiting' = unread /\ Waiting = unread \cup {hold}
  BY <1>u DEF Waiting
<1>3. Ascending(buffer')
  <2>1. Before(Range(buffer), {hold})
    BY <1>2 DEF FlowInv, Before
  <2> QED
    BY <2>1, <1>t, <1>u, AscendingAppend DEF FlowInv
<1>4. Before(Range(buffer'), Waiting')
  BY <1>1, <1>2 DEF FlowInv, Before
<1>5. \A n \in unread' : hold' < n
  BY <1>t, <1>u
<1>6. ASSUME NEW q \in Queue
      PROVE  Before(Range(queue'[q]), Waiting' \cup Range(buffer'))
  BY <1>u, <1>1, <1>2 DEF FlowInv, Before
<1>7. FlowInv'
  BY <1>3, <1>4, <1>5, <1>6, <1>u DEF FlowInv
<1> QED
  BY <1>7, <1>1, <1>2, <1>u DEF Upstream

LEMMA ProduceStoppedFlow ==
  ASSUME TypeOK, FlowInv, ProduceStopped
  PROVE  FlowInv' /\ \A q \in Queue : Upstream(q)' \subseteq Upstream(q)
<1>t. /\ unread \subseteq Msg /\ \A m \in Msg : m \in Nat /\ m > 0
  BY FlowTypes, MsgIs
<1>u. hold' = 0 /\ UNCHANGED <<unread, buffer, queue>>
  BY DEF ProduceStopped
<1>1. Waiting' \subseteq Waiting
  BY <1>u DEF Waiting
<1>2. \A n \in unread' : hold' < n
  BY <1>t, <1>u
<1>3. Before(Range(buffer'), Waiting')
  BY <1>1, <1>u DEF FlowInv, Before
<1>4. \A q \in Queue : Before(Range(queue'[q]), Waiting' \cup Range(buffer'))
  BY <1>1, <1>u DEF FlowInv, Before
<1>5. FlowInv'
  BY <1>2, <1>3, <1>4, <1>u DEF FlowInv
<1> QED
  BY <1>5, <1>1, <1>u DEF Upstream

(* What the dispatcher and the workers do to a queue. *)
LEMMA DispatchFlow ==
  ASSUME TypeOK, FlowInv, Dispatch
  PROVE  /\ FlowInv' /\ \A q \in Queue : Upstream(q)' \subseteq Upstream(q)
         /\ buffer' \in Seq(Msg) /\ queue' \in [Queue -> Seq(Msg)] /\ Head(buffer) \in Msg
         /\ \A q \in Queue :
              Range(queue'[q]) = Range(queue[q]) \cup
                (IF q = WorkerOf[Head(buffer)] THEN {Head(buffer)} ELSE {})
         /\ \A q \in Queue : Head(buffer) \notin Range(queue[q])
<1> DEFINE m == Head(buffer)
<1>t. /\ Waiting \subseteq Msg /\ \A n \in Msg : n \in Nat /\ n > 0
      /\ buffer \in Seq(Msg) /\ Range(buffer) \subseteq Msg /\ DOMAIN queue = Queue
      /\ \A q \in Queue : queue[q] \in Seq(Msg) /\ Range(queue[q]) \subseteq Msg
      /\ \A n \in Msg : WorkerOf[n] \in Queue
  BY FlowTypes, MsgIs
<1>u. /\ buffer # <<>> /\ buffer' = Tail(buffer)
      /\ queue' = [queue EXCEPT ![WorkerOf[m]] = Append(@, m)]
      /\ UNCHANGED <<unread, hold>>
  BY DEF Dispatch, QueueOf
<1>1. /\ m \in Msg /\ buffer' \in Seq(Msg) /\ Range(buffer) = {m} \cup Range(buffer')
      /\ WorkerOf[m] \in Queue
  BY <1>t, <1>u, AtHead
<1>2. Ascending(buffer') /\ Before({m}, Range(buffer'))
  BY <1>t, <1>u, AscendingTail DEF FlowInv
<1> HIDE DEF m
<1>3. /\ DOMAIN queue' = Queue /\ queue'[WorkerOf[m]] = Append(queue[WorkerOf[m]], m)
      /\ \A q \in Queue : q # WorkerOf[m] => queue'[q] = queue[q]
  BY <1>u, <1>t, <1>1
<1>4. \A q \in Queue :
        /\ queue'[q] \in Seq(Msg)
        /\ Range(queue'[q]) = Range(queue[q]) \cup (IF q = WorkerOf[m] THEN {m} ELSE {})
  <2>1. /\ Append(queue[WorkerOf[m]], m) \in Seq(Msg)
        /\ Range(Append(queue[WorkerOf[m]], m)) = Range(queue[WorkerOf[m]]) \cup {m}
    BY <1>t, <1>1, AtEnd
  <2> QED
    BY <2>1, <1>3, <1>t
<1>5. \A q \in Queue : Before(Range(queue[q]), {m})
  BY <1>1 DEF FlowInv, Before
<1>6. \A q \in Queue : m \notin Range(queue[q])
  BY <1>5, <1>1, <1>t DEF Before
<1>7. Waiting' = Waiting
  BY <1>u DEF Waiting
<1>8. Before(Range(buffer'), Waiting') /\ Before({m}, Waiting')
  BY <1>1, <1>7 DEF FlowInv, Before
<1>9. ASSUME NEW q \in Queue
      PROVE  /\ Ascending(queue'[q]) /\ Before(Range(queue'[q]), Waiting' \cup Range(buffer'))
             /\ \A n \in Range(queue'[q]) : WorkerOf[n] = q
  <2>1. /\ Ascending(queue[q]) /\ Before(Range(queue[q]), Waiting \cup Range(buffer))
        /\ \A n \in Range(queue[q]) : WorkerOf[n] = q
    BY DEF FlowInv
  <2>2. Ascending(queue'[q])
    <3>1. CASE q = WorkerOf[m]
      BY <3>1, <2>1, <1>3, <1>5, <1>1, <1>t, AscendingAppend
    <3> QED
      BY <3>1, <2>1, <1>3
  <2>3. Before(Range(queue'[q]), Waiting' \cup Range(buffer'))
    BY <2>1, <1>1, <1>2, <1>4, <1>7, <1>8 DEF Before
  <2>4. \A n \in Range(queue'[q]) : WorkerOf[n] = q
    BY <2>1, <1>4
  <2> QED
    BY <2>2, <2>3, <2>4
<1>10. FlowInv'
  BY <1>2, <1>8, <1>9, <1>u DEF FlowInv
<1>11. \A q \in Queue : Upstream(q)' \subseteq Upstream(q)
  BY <1>1, <1>4, <1>7 DEF Upstream
<1>12. queue' \in [Queue -> Seq(Msg)]
  BY <1>u, <1>3, <1>4
<1> QED
  BY <1>1, <1>4, <1>6, <1>10, <1>11, <1>12 DEF m

LEMMA TakeFlow ==
  ASSUME TypeOK, FlowInv, NEW q \in Queue, queue[q] # <<>>, NEW m, m = Head(queue[q]),
         queue' = [queue EXCEPT ![q] = Tail(@)], UNCHANGED <<unread, hold, buffer>>
  PROVE  /\ FlowInv' /\ \A r \in Queue : Upstream(r)' \subseteq Upstream(r)
         /\ queue' \in [Queue -> Seq(Msg)]
         /\ m \in Range(queue[q]) /\ m \in Msg /\ WorkerOf[m] = q /\ Past(m)'
         /\ \A r \in Queue : Range(queue'[r]) = Range(queue[r]) \ {m}
<1>t. /\ Waiting \subseteq Msg /\ \A n \in Msg : n \in Nat /\ n > 0
      /\ Range(buffer) \subseteq Msg /\ DOMAIN queue = Queue
      /\ \A r \in Queue : queue[r] \in Seq(Msg) /\ Range(queue[r]) \subseteq Msg
  BY FlowTypes, MsgIs
<1>1. /\ m \in Msg /\ Tail(queue[q]) \in Seq(Msg)
      /\ Range(queue[q]) = {m} \cup Range(Tail(queue[q]))
  BY <1>t, AtHead
<1>2. Ascending(Tail(queue[q])) /\ Before({m}, Range(Tail(queue[q])))
  BY <1>t, AscendingTail DEF FlowInv
<1>3. /\ DOMAIN queue' = Queue /\ queue'[q] = Tail(queue[q])
      /\ \A r \in Queue : r # q => queue'[r] = queue[r]
  BY <1>t
<1>4. queue' \in [Queue -> Seq(Msg)]
  BY <1>1, <1>3, <1>t
<1>5. WorkerOf[m] = q
  BY <1>1 DEF FlowInv
<1>6. \A r \in Queue : Range(queue'[r]) = Range(queue[r]) \ {m}
  <2> SUFFICES ASSUME NEW r \in Queue PROVE Range(queue'[r]) = Range(queue[r]) \ {m}
    OBVIOUS
  <2>1. CASE r = q
    <3>1. m \notin Range(Tail(queue[q]))
      BY <1>1, <1>2, <1>t DEF Before
    <3> QED
      BY <2>1, <3>1, <1>1, <1>3
  <2>2. CASE r # q
    <3>1. m \notin Range(queue[r])
      BY <2>2, <1>5 DEF FlowInv
    <3> QED
      BY <2>2, <3>1, <1>3
  <2> QED
    BY <2>1, <2>2
<1>7. Waiting' = Waiting
  BY DEF Waiting
<1>8. ASSUME NEW r \in Queue
      PROVE  /\ Ascending(queue'[r]) /\ Before(Range(queue'[r]), Waiting' \cup Range(buffer'))
             /\ \A n \in Range(queue'[r]) : WorkerOf[n] = r
  <2>1. /\ Ascending(queue[r]) /\ Before(Range(queue[r]), Waiting \cup Range(buffer))
        /\ \A n \in Range(queue[r]) : WorkerOf[n] = r
    BY DEF FlowInv
  <2>2. Ascending(queue'[r])
    BY <2>1, <1>2, <1>3
  <2>3. Before(Range(queue'[r]), Waiting' \cup Range(buffer'))
    BY <2>1, <1>6, <1>7 DEF Before
  <2> QED
    BY <2>1, <2>2, <2>3, <1>6
<1>9. FlowInv'
  BY <1>7, <1>8 DEF FlowInv
<1>10. \A r \in Queue : Upstream(r)' \subseteq Upstream(r)
  BY <1>6, <1>7 DEF Upstream
<1>11. Past(m)'
  <2>1. Before({m}, Waiting \cup Range(buffer))
    BY <1>1 DEF FlowInv, Before
  <2>2. Before({m}, Range(queue'[q]))
    BY <1>2, <1>3
  <2>3. Before({m}, Upstream(q)')
    BY <2>1, <2>2, <1>7 DEF Before, Upstream
  <2> QED
    BY <2>3, <1>5 DEF Past
<1> QED
  BY <1>1, <1>4, <1>5, <1>6, <1>9, <1>10, <1>11

-----------------------------------------------------------------------------
(* What a step leaves alone. *)

LEMMA PathFrame ==
  ASSUME FlowInv, BusyInv, CountInv, QuietInv,
         UNCHANGED <<life, unread, hold, buffer, consuming, queue, busy, inFlight, acked>>
  PROVE  /\ FlowInv' /\ BusyInv' /\ CountInv' /\ QuietInv'
         /\ \A m : Past(m)' <=> Past(m)
<1>1. FlowInv' /\ \A q : Upstream(q)' = Upstream(q)
  BY FlowFrame
<1>2. \A m : Past(m)' <=> Past(m)
  BY <1>1 DEF Past
<1>3. BusyInv'
  BY <1>2 DEF BusyInv
<1>4. InFlight' = InFlight
  BY DEF InFlight
<1> QED
  BY <1>1, <1>2, <1>3, <1>4 DEF CountInv, QuietInv

LEMMA PoolFrame ==
  ASSUME PoolInv, UNCHANGED <<pm, chan, batch, call, spilled>>
  PROVE  PoolInv'
  BY DEF PoolInv, HeldSound, CallSound, Pool, Holds, At

(* What is kept stays kept. *)
LEMMA KeptStays ==
  ASSUME parked \subseteq parked', spilled \subseteq spilled', refused \subseteq refused',
         \A s \in Sink : Range(written[s]) \subseteq Range(written'[s])
  PROVE  \A m, s : Kept(m, s) => Kept(m, s)'
<1>1. \A s, m : Wrote(s, m) <=> m \in Range(written[s])
  BY DEF Wrote, Range
<1>2. \A s, m : Wrote(s, m)' <=> m \in Range(written'[s])
  BY DEF Wrote, Range
<1> QED
  BY <1>1, <1>2 DEF Kept, Dropped

LEMMA AckedKept == AckedIsKept <=> \A m \in acked : \A s \in target[m] : Kept(m, s)
  BY DEF AckedIsKept, Kept

LEMMA AnswerFrame ==
  ASSUME AnswerInv, UNCHANGED <<pm, call>>, \A m, s : Kept(m, s) => Kept(m, s)'
  PROVE  AnswerInv'
  BY DEF AnswerInv, At

LEMMA AckedFrame ==
  ASSUME AckedIsKept, UNCHANGED <<acked, target>>, \A m, s : Kept(m, s) => Kept(m, s)'
  PROVE  AckedIsKept'
<1>1. \A m \in acked' : \A s \in target'[m] : Kept(m, s)'
  BY AckedKept
<1> QED
  BY <1>1 DEF AckedIsKept, Kept

LEMMA WriterTypes ==
  ASSUME TypeOK
  PROVE  /\ \A p \in Pm : /\ pm[p] = [msg |-> pm[p].msg, refs |-> pm[p].refs, done |-> pm[p].done]
                          /\ pm[p].msg \in {0} \cup Msg /\ pm[p].refs \in 0..2
                          /\ pm[p].done \in {"empty", "ok", "err"}
         /\ \A s \in Sink : /\ chan[s] \in Seq(Pm) /\ batch[s] \in Seq(Pm) /\ Holds(s) \subseteq Pm
                            /\ Range(chan[s]) \subseteq Pm /\ Range(batch[s]) \subseteq Pm
         /\ \A s \in Sink : /\ spill[s] \in Seq(Msg) /\ written[s] \in Seq(Msg)
                            /\ Range(spill[s]) \subseteq Msg /\ Range(written[s]) \subseteq Msg
         /\ \A m \in Msg, s \in Sink :
              /\ call[m][s] = [pm |-> call[m][s].pm, state |-> call[m][s].state]
              /\ call[m][s].pm \in {0} \cup Pm
              /\ call[m][s].state \in {"none", "enqueue", "full", "retry", "wait", "ok", "err"}
         /\ \A p \in Pm : p # 0
<1>1. \A s \in Sink : /\ chan[s] \in Seq(Pm) /\ batch[s] \in Seq(Pm)
                      /\ spill[s] \in Seq(Msg) /\ written[s] \in Seq(Msg)
  BY DEF TypeOK
<1>2. \A S : \A a \in Seq(S) : Range(a) \subseteq S
  BY DEF Range
<1>3. \A p \in Pm : pm[p] \in [msg : {0} \cup Msg, refs : 0..2, done : {"empty", "ok", "err"}]
  BY DEF TypeOK
<1>4. \A m \in Msg, s \in Sink :
        call[m][s] \in [pm : {0} \cup Pm,
                        state : {"none", "enqueue", "full", "retry", "wait", "ok", "err"}]
  BY DEF TypeOK
<1>5. \A p \in Pm : p # 0
  BY DEF Pm
<1>6. \A s \in Sink : /\ Range(chan[s]) \subseteq Pm /\ Range(batch[s]) \subseteq Pm
                      /\ Range(spill[s]) \subseteq Msg /\ Range(written[s]) \subseteq Msg
  BY <1>1, <1>2
<1>7. \A p \in Pm : /\ pm[p] = [msg |-> pm[p].msg, refs |-> pm[p].refs, done |-> pm[p].done]
                    /\ pm[p].msg \in {0} \cup Msg /\ pm[p].refs \in 0..2
                    /\ pm[p].done \in {"empty", "ok", "err"}
  BY <1>3
<1>8. \A m \in Msg, s \in Sink :
        /\ call[m][s] = [pm |-> call[m][s].pm, state |-> call[m][s].state]
        /\ call[m][s].pm \in {0} \cup Pm
        /\ call[m][s].state \in {"none", "enqueue", "full", "retry", "wait", "ok", "err"}
  BY <1>4
<1> QED
  BY <1>1, <1>5, <1>6, <1>7, <1>8 DEF Holds

(* The messages a writer holds are messages. *)
LEMMA CarriedIs ==
  ASSUME TypeOK, PoolInv, NEW s \in Sink
  PROVE  /\ \A p \in Holds(s) : pm[p].msg \in Msg
         /\ Range(Carried(batch[s])) = {pm[p].msg : p \in Range(batch[s])}
         /\ Range(Carried(chan[s])) = {pm[p].msg : p \in Range(chan[s])}
         /\ Range(Carried(batch[s])) \subseteq Msg /\ Range(Carried(chan[s])) \subseteq Msg
<1>1. \A p \in Holds(s) : pm[p].msg \in Msg
  BY WriterTypes DEF PoolInv, HeldSound, CallSound, Pool
<1>2. /\ Range(Carried(batch[s])) = {pm[p].msg : p \in Range(batch[s])}
      /\ Range(Carried(chan[s])) = {pm[p].msg : p \in Range(chan[s])}
  BY DEF Carried, Range
<1> QED
  BY <1>1, <1>2 DEF Holds

LEMMA OrderFrame ==
  ASSUME TypeOK, PoolInv, OrderInv, \A m \in Msg : Past(m) => Past(m)',
         UNCHANGED <<pm, chan, batch, spill, written, spilled>>,
         \A w \in Worker, s \in Sink :
           Unsent(w, s)' => \A m \in Given(s) : Ordered(s, m, busy[w])'
  PROVE  OrderInv'
<1>1. \A s \in Sink : Given(s) \subseteq Msg /\ Range(spill[s]) \subseteq Msg
  BY WriterTypes, CarriedIs DEF Given
<1>2. \A s \in Sink : Carried(batch[s])' = Carried(batch[s]) /\ Carried(chan[s])' = Carried(chan[s])
  BY DEF Carried
<1>3. \A s, m, n : Ordered(s, m, n)' <=> Ordered(s, m, n)
  BY DEF Ordered
<1>4. ASSUME NEW s \in Sink
      PROVE  /\ Sorted(s, written[s])' /\ Sorted(s, Carried(batch[s]))' /\ Sorted(s, Carried(chan[s]))'
             /\ Follows(s, Range(written[s]), Range(Carried(batch[s])) \cup Range(Carried(chan[s])))'
             /\ Follows(s, Range(Carried(batch[s])), Range(Carried(chan[s])))'
  BY <1>2, <1>3 DEF OrderInv, OrderOf, Sorted, Follows
<1>5. ASSUME NEW s \in Sink, NEW m \in Given(s)'
      PROVE  Past(m)' /\ \A w \in Worker : Unsent(w, s)' => Ordered(s, m, busy[w])'
  <2>1. m \in Given(s)
    BY <1>2 DEF Given
  <2>2. Past(m)
    BY <2>1 DEF OrderInv, OrderOf
  <2> QED
    BY <2>1, <2>2, <1>1
<1>6. \A s \in Sink : \A m \in Range(spill'[s]) : <<m, s>> \in spilled' /\ Past(m)'
  BY <1>1 DEF OrderInv, OrderOf
<1> QED
  BY <1>4, <1>5, <1>6 DEF OrderInv, OrderOf

(* A message that was yet to be enqueued, and still is, has all before it in order. *)
LEMMA StillUnsent ==
  ASSUME OrderInv, spilled \subseteq spilled', NEW w \in Worker, NEW s \in Sink,
         Unsent(w, s), busy'[w] = busy[w]
  PROVE  \A m \in Given(s) : Ordered(s, m, busy[w])'
<1>1. \A m \in Given(s) : Ordered(s, m, busy[w])
  BY DEF OrderInv, OrderOf
<1> QED
  BY <1>1 DEF Ordered

-----------------------------------------------------------------------------
(* Reading, buffering and dispatching, and the stop. *)

LEMMA InitInd == Init => IndInv
<1> SUFFICES ASSUME Init PROVE IndInv
  OBVIOUS
<1>e. \A S : <<>> \in Seq(S) /\ Range(<<>>) = {} /\ DOMAIN <<>> = {}
  BY DEF Range
<1>u. /\ life = "running" /\ unread = Msg /\ hold = 0 /\ buffer = <<>> /\ consuming = TRUE
      /\ queue = [q \in Queue |-> <<>>] /\ busy = [w \in Worker |-> 0] /\ inFlight = 0
      /\ target = [m \in Msg |-> {}]
      /\ call = [m \in Msg |-> [s \in Sink |-> [state |-> "none", pm |-> 0]]]
      /\ pm = [p \in Pm |-> [msg |-> 0, refs |-> 0, done |-> "empty"]]
      /\ chan = [s \in Sink |-> <<>>] /\ batch = [s \in Sink |-> <<>>]
      /\ spill = [s \in Sink |-> <<>>] /\ written = [s \in Sink |-> <<>>]
      /\ parked = {} /\ refused = {} /\ spilled = {} /\ acked = {}
  BY DEF Init, Free, NoCall
<1>1. TypeOK
  <2>1. Cardinality(Worker) \in Nat
    BY EngineAssumption, FS_CardinalityType
  <2>2. 0 \in 0..Cardinality(Worker) /\ 0 \in 0..2
    BY <2>1
  <2>3. /\ target \in [Msg -> SUBSET (Sink \cup {NoSink})]
        /\ call \in [Msg -> [Sink -> [pm : {0} \cup Pm,
             state : {"none", "enqueue", "full", "retry", "wait", "ok", "err"}]]]
        /\ pm \in [Pm -> [msg : {0} \cup Msg, refs : 0..2, done : {"empty", "ok", "err"}]]
    BY <1>u, <2>2
  <2> QED
    BY <1>u, <1>e, <2>2, <2>3 DEF TypeOK
<1>2. FlowInv
  BY <1>u, <1>e, MsgIs DEF FlowInv, Ascending, Before, Waiting
<1>3. BusyInv /\ CallInv /\ QuietInv
  BY <1>u DEF BusyInv, CallInv, QuietInv, NoCall
<1>4. CountInv
  <2>1. \A q \in Queue : Range(queue[q]) = {}
    BY <1>u, <1>e
  <2>2. \A m \in Msg : m \notin Range(busy)
    BY <1>u, MsgIs DEF Range
  <2>3. InFlight = {}
    BY <2>1, <2>2 DEF InFlight
  <2> QED
    BY <2>3, <1>u, FS_EmptySet DEF CountInv
<1>5. PoolInv
  BY <1>u, <1>e DEF PoolInv, HeldSound, CallSound, Pool, Free, Holds, IsInjective
<1>6. AnswerInv /\ AckedIsKept
  BY <1>u DEF AnswerInv, AckedIsKept, At
<1>7. OrderInv
  <2>1. \A s \in Sink : /\ DOMAIN written[s] = {} /\ DOMAIN batch[s] = {} /\ DOMAIN chan[s] = {}
                        /\ DOMAIN spill[s] = {}
    BY <1>u, <1>e
  <2>2. \A s \in Sink : /\ DOMAIN Carried(batch[s]) = {} /\ DOMAIN Carried(chan[s]) = {}
                        /\ Range(Carried(batch[s])) = {} /\ Range(Carried(chan[s])) = {}
                        /\ Range(written[s]) = {} /\ Range(spill[s]) = {}
    BY <2>1 DEF Carried, Range
  <2> QED
    BY <2>1, <2>2 DEF OrderInv, OrderOf, Sorted, Follows, Given
<1> QED
  BY <1>1, <1>2, <1>3, <1>4, <1>5, <1>6, <1>7 DEF IndInv

(* A step of the reader, the dispatcher or the stop does not touch what the  *)
(* workers and the writers have.                                             *)
LEMMA FlowOnly ==
  ASSUME IndInv, \A q \in Queue : Upstream(q)' \subseteq Upstream(q),
         UNCHANGED <<busy, target, call, pm, chan, batch, spill, written, spilled, parked, refused, acked>>
  PROVE  BusyInv' /\ CallInv' /\ PoolInv' /\ AnswerInv' /\ AckedIsKept' /\ OrderInv'
<1>a. TypeOK /\ BusyInv /\ CallInv /\ PoolInv /\ AnswerInv /\ AckedIsKept /\ OrderInv
  BY DEF IndInv
<1>t. busy \in [Worker -> {0} \cup Msg] /\ acked \subseteq Msg
  BY <1>a DEF TypeOK
<1>1. \A m \in Msg : Past(m) => Past(m)'
  BY PastKept
<1>2. BusyInv'
  BY <1>a, <1>t, <1>1 DEF BusyInv
<1>3. CallInv' /\ PoolInv'
  BY <1>a, PoolFrame DEF CallInv
<1>4. \A m, s : Kept(m, s) => Kept(m, s)'
  BY KeptStays
<1>5. AnswerInv' /\ AckedIsKept'
  BY <1>4, <1>a, AnswerFrame, AckedFrame
<1>6. \A w \in Worker, s \in Sink : Unsent(w, s)' => Unsent(w, s)
  BY DEF Unsent
<1>7. OrderInv'
  BY <1>1, <1>6, <1>a, StillUnsent, OrderFrame
<1> QED
  BY <1>2, <1>3, <1>5, <1>7

LEMMA InFlightIs ==
  InFlight \subseteq Msg /\ IsFiniteSet(InFlight) /\ Cardinality(InFlight) \in Nat
<1>1. InFlight \subseteq Msg
  BY DEF InFlight
<1>2. IsFiniteSet(Msg)
  BY MsgIs, FS_Interval DEF Msg
<1> QED
  BY <1>1, <1>2, FS_Subset, FS_CardinalityType

LEMMA ReaderInd == ASSUME IndInv, Read \/ Produce \/ ProduceStopped PROVE IndInv'
<1>a. TypeOK /\ FlowInv /\ CountInv /\ QuietInv
  BY DEF IndInv
<1>t. /\ unread \subseteq Msg /\ hold \in {0} \cup Msg /\ buffer \in Seq(Msg)
  BY <1>a, FlowTypes
<1>u. UNCHANGED <<life, consuming, queue, busy, inFlight, target, call, pm, chan, batch, spill,
                  written, spilled, parked, refused, acked>>
  BY DEF Read, Produce, ProduceStopped, work, writers
<1>1. FlowInv' /\ \A q \in Queue : Upstream(q)' \subseteq Upstream(q)
  BY <1>a, ReadFlow, ProduceFlow, ProduceStoppedFlow
<1>2. unread' \subseteq Msg /\ hold' \in {0} \cup Msg /\ buffer' \in Seq(Msg)
  BY <1>t, AtEnd DEF Read, Produce, ProduceStopped
<1>3. TypeOK'
  BY <1>a, <1>u, <1>2 DEF TypeOK
<1>4. CountInv' /\ QuietInv'
  BY <1>a, <1>u DEF CountInv, QuietInv, InFlight
<1> QED
  BY <1>1, <1>3, <1>4, <1>u, FlowOnly DEF IndInv

(* A slot is taken for each message dispatched. *)
LEMMA DispatchInd == ASSUME IndInv, Dispatch PROVE IndInv'
<1>a. TypeOK /\ FlowInv /\ BusyInv /\ CountInv /\ QuietInv
  BY DEF IndInv
<1>0. PICK m : m = Head(buffer)
  OBVIOUS
<1>u. /\ consuming /\ buffer # <<>> /\ inFlight < Cardinality(Worker) /\ inFlight' = inFlight + 1
      /\ UNCHANGED <<life, unread, hold, consuming, busy, target, call, pm, chan, batch, spill,
                     written, spilled, parked, refused, acked>>
  BY DEF Dispatch, writers
<1>1. /\ FlowInv' /\ \A q \in Queue : Upstream(q)' \subseteq Upstream(q)
      /\ buffer' \in Seq(Msg) /\ queue' \in [Queue -> Seq(Msg)] /\ m \in Msg
      /\ \A q \in Queue :
           Range(queue'[q]) = Range(queue[q]) \cup (IF q = WorkerOf[m] THEN {m} ELSE {})
      /\ \A q \in Queue : m \notin Range(queue[q])
  BY <1>0, <1>a, DispatchFlow
<1>2. m \notin Range(busy)
  <2> SUFFICES ASSUME NEW w \in Worker, busy[w] = m PROVE FALSE
    BY <1>a DEF TypeOK, Range
  <2>1. m # 0 /\ m \in Nat
    BY <1>1, MsgIs
  <2>2. Past(m)
    BY <2>1, <1>a DEF BusyInv
  <2>3. m \in Upstream(WorkerOf[m])
    BY <1>0, <1>u, <1>a, FlowTypes, AtHead DEF Upstream
  <2> QED
    BY <2>1, <2>2, <2>3 DEF Past, Before
<1>3. m \notin InFlight /\ InFlight' = InFlight \cup {m}
  <2>1. WorkerOf[m] \in Queue
    BY <1>1, MsgIs
  <2>2. ASSUME NEW n \in Msg
        PROVE  (\E q \in Queue : n \in Range(queue'[q]))
                 <=> (\E q \in Queue : n \in Range(queue[q])) \/ n = m
    BY <2>1, <1>1
  <2> QED
    BY <2>2, <1>1, <1>2, <1>u DEF InFlight
<1>4. CountInv' /\ inFlight' \in 0..Cardinality(Worker)
  <2>1. IsFiniteSet(InFlight) /\ Cardinality(InFlight) \in Nat /\ Cardinality(Worker) \in Nat
    BY <1>a, InFlightIs, EngineAssumption, FS_CardinalityType
  <2>2. Cardinality(InFlight \cup {m}) = Cardinality(InFlight) + 1
    BY <2>1, <1>3, FS_AddElement
  <2> QED
    BY <2>1, <2>2, <1>3, <1>a, <1>u DEF CountInv
<1>5. TypeOK'
  BY <1>a, <1>u, <1>1, <1>4 DEF TypeOK
<1>6. QuietInv'
  BY <1>a, <1>u DEF QuietInv
<1> QED
  BY <1>1, <1>4, <1>5, <1>6, <1>u, FlowOnly DEF IndInv

(* The channels are closed only once nothing is in flight. *)
LEMMA LifeInd ==
  ASSUME IndInv, Stop \/ StopConsuming \/ CloseChannels \/ Stopped PROVE IndInv'
<1>a. TypeOK /\ FlowInv /\ CountInv /\ QuietInv
  BY DEF IndInv
<1>u. /\ life' \in {"stopping", "closed", "stopped"} /\ consuming' \in BOOLEAN
      /\ UNCHANGED <<unread, hold, buffer, queue, busy, inFlight, target, call, pm, chan, batch,
                     spill, written, spilled, parked, refused, acked>>
  BY <1>a DEF Stop, StopConsuming, CloseChannels, Stopped, flow, work, writers, TypeOK, Stopping
<1>1. FlowInv' /\ \A q : Upstream(q)' = Upstream(q)
  BY <1>a, <1>u, FlowFrame
<1>2. TypeOK'
  BY <1>a, <1>u DEF TypeOK
<1>3. InFlight' = InFlight
  BY <1>u DEF InFlight
<1>4. CountInv'
  BY <1>a, <1>u, <1>3 DEF CountInv
<1>5. QuietInv'
  <2>1. CASE Stop
    BY <2>1 DEF Stop, QuietInv
  <2>2. CASE StopConsuming
    BY <2>2, <1>a, <1>3 DEF StopConsuming, QuietInv
  <2>3. CASE CloseChannels
    <3>1. InFlight = {}
      BY <2>3, <1>a, InFlightIs, FS_EmptySet DEF CloseChannels, CountInv
    <3> QED
      BY <2>3, <3>1, <1>3 DEF CloseChannels, QuietInv, flow
  <2>4. CASE Stopped
    BY <2>4, <1>a, <1>3 DEF Stopped, QuietInv, flow
  <2> QED
    BY <2>1, <2>2, <2>3, <2>4
<1> QED
  BY <1>1, <1>2, <1>4, <1>5, <1>u, FlowOnly DEF IndInv

-----------------------------------------------------------------------------
(* The workers. *)

(* A message taken from its queue is behind everything acknowledged, given   *)
(* to a sink or being processed that came through that queue before it.      *)
LEMMA TakeInd ==
  ASSUME IndInv, NEW w \in Worker, NEW q \in {w, Shared}, TakeFrom(w, q) PROVE IndInv'
<1>a. /\ TypeOK /\ FlowInv /\ BusyInv /\ CountInv /\ CallInv /\ QuietInv
      /\ PoolInv /\ AnswerInv /\ AckedIsKept /\ OrderInv
  BY DEF IndInv
<1>0. PICK m : m = Head(queue[q])
  OBVIOUS
<1>u. /\ busy[w] = 0 /\ queue[q] # <<>> /\ busy' = [busy EXCEPT ![w] = m]
      /\ queue' = [queue EXCEPT ![q] = Tail(@)]
      /\ UNCHANGED <<life, unread, hold, buffer, consuming, inFlight, target, call, pm, chan,
                     batch, spill, written, spilled, parked, refused, acked>>
  BY <1>0 DEF TakeFrom, writers
<1>q. q \in Queue
  BY DEF Queue
<1>1. /\ FlowInv' /\ \A r \in Queue : Upstream(r)' \subseteq Upstream(r)
      /\ queue' \in [Queue -> Seq(Msg)]
      /\ m \in Range(queue[q]) /\ m \in Msg /\ WorkerOf[m] = q /\ Past(m)'
      /\ \A r \in Queue : Range(queue'[r]) = Range(queue[r]) \ {m}
  BY <1>0, <1>a, <1>u, <1>q, TakeFlow
<1>t. /\ busy \in [Worker -> {0} \cup Msg] /\ acked \subseteq Msg /\ m \in Nat /\ m # 0
      /\ \A n \in Msg : n \in Nat /\ n # 0
  BY <1>a, <1>1, MsgIs DEF TypeOK
<1>b. /\ busy'[w] = m /\ \A v \in Worker : v # w => busy'[v] = busy[v]
      /\ busy' \in [Worker -> {0} \cup Msg]
  BY <1>u, <1>1, <1>t
<1>2. \A n \in Msg : WorkerOf[n] = q /\ Past(n) => n < m
  BY <1>1 DEF Past, Before, Upstream
<1>3. m \notin acked /\ m \notin Range(busy)
  <2>1. ~Past(m)
    BY <1>2, <1>1, <1>t
  <2> QED
    BY <2>1, <1>a, <1>t DEF BusyInv, Range
<1>4. \A n \in Msg : Past(n) => Past(n)'
  BY <1>1, PastKept
<1>5. TypeOK'
  BY <1>a, <1>u, <1>1, <1>b DEF TypeOK
<1>6. BusyInv'
  <2>1. ASSUME NEW v \in Worker, busy'[v] # 0
        PROVE  /\ Past(busy[v])' /\ busy'[v] \notin acked' /\ WorkerOf[busy'[v]] \in {v, Shared}
               /\ \A x \in Worker : busy'[x] = busy'[v] => x = v
    <3>1. CASE v = w
      <4>1. Past(busy[v])'
        BY <3>1, <1>b, <1>1 DEF Past
      <4> QED
        BY <3>1, <4>1, <1>b, <1>1, <1>3, <1>t, <1>u DEF Range
    <3>2. CASE v # w
      <4>1. /\ busy'[v] = busy[v] /\ busy[v] \in Msg /\ busy[v] # m
        BY <3>2, <2>1, <1>b, <1>t, <1>3 DEF Range
      <4>2. /\ Past(busy[v]) /\ busy[v] \notin acked /\ WorkerOf[busy[v]] \in {v, Shared}
            /\ \A x \in Worker : busy[x] = busy[v] => x = v
        BY <4>1, <1>a, <1>t DEF BusyInv
      <4>3. PICK n \in Msg : n = busy[v]
        BY <4>1
      <4>4. Past(n)'
        BY <4>2, <4>3, <1>4
      <4>5. Past(busy[v])'
        BY <4>1, <4>3, <4>4 DEF Past
      <4> QED
        BY <3>2, <4>1, <4>2, <4>5, <1>b, <1>u
    <3> QED
      BY <3>1, <3>2
  <2>2. \A n \in acked' : Past(n)'
    BY <1>a, <1>u, <1>t, <1>4 DEF BusyInv
  <2> QED
    BY <2>1, <2>2 DEF BusyInv
<1>7. \A n \in Msg : n \in Range(busy') <=> n \in Range(busy) \/ n = m
  BY <1>b, <1>t, <1>u DEF Range
<1>8. InFlight' = InFlight
  <2>1. ASSUME NEW n \in Msg
        PROVE  (\E r \in Queue : n \in Range(queue'[r]))
                 <=> (\E r \in Queue : n \in Range(queue[r])) /\ n # m
    BY <1>1
  <2>2. \E r \in Queue : m \in Range(queue[r])
    BY <1>1, <1>q
  <2> QED
    BY <2>1, <2>2, <1>7 DEF InFlight
<1>9. CountInv' /\ QuietInv'
  BY <1>8, <1>a, <1>u DEF CountInv, QuietInv
<1>10. CallInv'
  BY <1>7, <1>a, <1>u DEF CallInv
<1>11. PoolInv'
  BY <1>a, <1>u, PoolFrame
<1>12. \A n, s : Kept(n, s) => Kept(n, s)'
  BY <1>u, KeptStays
<1>13. AnswerInv' /\ AckedIsKept'
  BY <1>12, <1>a, <1>u, AnswerFrame, AckedFrame
<1>14. OrderInv'
  <2>1. ASSUME NEW v \in Worker, NEW s \in Sink, Unsent(v, s)'
        PROVE  \A n \in Given(s) : Ordered(s, n, busy[v])'
    <3>1. CASE v = w
      <4>1. \A n \in Given(s) : n \in Msg /\ Past(n)
        BY <1>a, WriterTypes, CarriedIs DEF OrderInv, OrderOf, Given
      <4>2. \A n \in Given(s) : WorkerOf[n] = WorkerOf[m] => n < m
        BY <4>1, <1>1, <1>2
      <4> QED
        BY <4>2, <3>1, <1>b DEF Ordered
    <3>2. CASE v # w
      <4>1. busy'[v] = busy[v] /\ Unsent(v, s)
        BY <3>2, <2>1, <1>b, <1>u DEF Unsent
      <4> QED
        BY <4>1, <1>a, <1>u, StillUnsent
    <3> QED
      BY <3>1, <3>2
  <2> QED
    BY <2>1, <1>4, <1>a, <1>u, OrderFrame
<1> QED
  BY <1>1, <1>5, <1>6, <1>9, <1>10, <1>11, <1>13, <1>14 DEF IndInv

(* A worker leaves its message, and acknowledges it only if it is kept. *)
LEMMA LeaveInd ==
  ASSUME IndInv, NEW w \in Worker, NEW m \in Msg, busy[w] = m, Leave(w),
         UNCHANGED <<life, unread, hold, buffer, consuming, queue, pm, chan, batch, spill,
                     written, spilled, refused>>,
         acked' \in {acked, acked \cup {m}}, parked \subseteq parked',
         parked' \subseteq Msg \X (Sink \cup {NoSink}),
         NEW T \in SUBSET (Sink \cup {NoSink}), target' = [target EXCEPT ![m] = T],
         \A s \in Sink : call[m][s].pm = 0,
         call' = [call EXCEPT ![m] = [s \in Sink |-> NoCall]],
         m \in acked' => \A s \in T : Kept(m, s)'
  PROVE  IndInv'
<1>a. /\ TypeOK /\ FlowInv /\ BusyInv /\ CountInv /\ CallInv /\ QuietInv
      /\ PoolInv /\ AnswerInv /\ AckedIsKept /\ OrderInv
  BY DEF IndInv
<1>t. /\ busy \in [Worker -> {0} \cup Msg] /\ acked \subseteq Msg /\ m \in Nat /\ m # 0
      /\ \A n \in Msg : n \in Nat /\ n # 0
      /\ DOMAIN target = Msg /\ DOMAIN call = Msg
      /\ target \in [Msg -> SUBSET (Sink \cup {NoSink})]
  BY <1>a, MsgIs DEF TypeOK
<1>b. /\ busy'[w] = 0 /\ \A v \in Worker : v # w => busy'[v] = busy[v]
      /\ busy' \in [Worker -> {0} \cup Msg] /\ inFlight' = inFlight - 1
  BY <1>t DEF Leave
<1>c. /\ \A s \in Sink : call'[m][s] = NoCall
      /\ \A n \in Msg : n # m => call'[n] = call[n] /\ target'[n] = target[n]
      /\ target'[m] = T
  BY <1>t
<1>p. /\ Past(m) /\ m \notin acked /\ \A v \in Worker : busy[v] = m => v = w
  BY <1>a, <1>t DEF BusyInv
<1>1. FlowInv' /\ \A q : Upstream(q)' = Upstream(q)
  BY <1>a, FlowFrame
<1>2. \A n : Past(n)' <=> Past(n)
  BY <1>1 DEF Past
<1>3. m \in InFlight /\ InFlight' = InFlight \ {m}
  <2>1. \A q \in Queue : m \notin Range(queue[q])
    <3> SUFFICES ASSUME NEW q \in Queue, m \in Range(queue[q]) PROVE FALSE
      OBVIOUS
    <3>1. WorkerOf[m] = q
      BY <1>a DEF FlowInv
    <3> QED
      BY <3>1, <1>p, <1>t DEF Past, Before, Upstream
  <2>2. \A n \in Msg : n \in Range(busy') <=> n \in Range(busy) /\ n # m
    BY <1>b, <1>t, <1>p DEF Range
  <2>3. m \in Range(busy)
    BY <1>t DEF Range
  <2> QED
    BY <2>1, <2>2, <2>3 DEF InFlight
<1>4. CountInv' /\ inFlight' \in 0..Cardinality(Worker)
  <2>1. IsFiniteSet(InFlight) /\ Cardinality(InFlight) \in Nat /\ Cardinality(Worker) \in Nat
    BY InFlightIs, EngineAssumption, FS_CardinalityType
  <2>2. Cardinality(InFlight \ {m}) = Cardinality(InFlight) - 1
    BY <2>1, <1>3, FS_RemoveElement
  <2>3. Cardinality(InFlight \ {m}) \in Nat
    BY <2>1, FS_RemoveElement, FS_CardinalityType
  <2>4. inFlight = Cardinality(InFlight) /\ inFlight <= Cardinality(Worker)
    BY <2>1, <1>a DEF CountInv, TypeOK
  <2> QED
    BY <2>1, <2>2, <2>3, <2>4, <1>3, <1>b DEF CountInv
<1>5. TypeOK'
  <2>1. target' \in [Msg -> SUBSET (Sink \cup {NoSink})]
    BY <1>t
  <2>2. call' \in [Msg -> [Sink -> [pm : {0} \cup Pm,
          state : {"none", "enqueue", "full", "retry", "wait", "ok", "err"}]]]
    <3>1. NoCall \in [pm : {0} \cup Pm,
            state : {"none", "enqueue", "full", "retry", "wait", "ok", "err"}]
      BY DEF NoCall
    <3> QED
      BY <3>1, <1>a DEF TypeOK
  <2>3. acked' \subseteq Msg
    BY <1>t
  <2> QED
    BY <2>1, <2>2, <2>3, <1>a, <1>b, <1>4 DEF TypeOK
<1>6. BusyInv'
  <2>1. ASSUME NEW v \in Worker, busy'[v] # 0
        PROVE  /\ Past(busy[v])' /\ busy'[v] \notin acked' /\ WorkerOf[busy'[v]] \in {v, Shared}
               /\ \A x \in Worker : busy'[x] = busy'[v] => x = v
    <3>1. v # w /\ busy'[v] = busy[v] /\ busy[v] # m /\ busy[v] # 0
      BY <2>1, <1>b, <1>p
    <3>2. /\ Past(busy[v]) /\ busy[v] \notin acked /\ WorkerOf[busy[v]] \in {v, Shared}
          /\ \A x \in Worker : busy[x] = busy[v] => x = v
      BY <3>1, <1>a DEF BusyInv
    <3>3. Past(busy[v])'
      BY <3>1, <3>2, <1>1 DEF Past
    <3> QED
      BY <3>1, <3>2, <3>3, <1>b
  <2>2. \A n \in acked' : Past(n)'
    BY <1>a, <1>2, <1>p DEF BusyInv
  <2> QED
    BY <2>1, <2>2 DEF BusyInv
<1>7. CallInv'
  <2>1. \A n \in Msg : n # m => (n \in Range(busy) => n \in Range(busy'))
    BY <1>b, <1>t DEF Range
  <2>2. NoCall.pm = 0 /\ NoCall.state = "none"
    BY DEF NoCall
  <2> QED
    BY <2>1, <2>2, <1>c, <1>a DEF CallInv
<1>8. QuietInv'
  BY <1>3, <1>a DEF QuietInv
<1>9. PoolInv'
  <2>1. \A n \in Msg, s \in Sink :
          /\ call'[n][s].pm # 0 => call'[n][s] = call[n][s] /\ call[n][s].pm # 0
          /\ call'[n][s].pm = call[n][s].pm
    BY <1>c DEF NoCall
  <2>2. \A s \in Sink : Holds(s)' = Holds(s)
    BY DEF Holds
  <2>3. \A n \in Msg, s \in Sink : call'[n][s].pm # 0 => (At(n, s, "wait")' <=> At(n, s, "wait"))
    BY <2>1 DEF At
  <2> QED
    BY <2>1, <2>2, <2>3, <1>a DEF PoolInv, HeldSound, CallSound, Pool
<1>10. \A n, s : Kept(n, s) => Kept(n, s)'
  BY KeptStays
<1>11. AnswerInv'
  <2>1. NoCall.state = "none"
    BY DEF NoCall
  <2> QED
    BY <2>1, <1>10, <1>c, <1>a DEF AnswerInv, At
<1>12. AckedIsKept'
  <2>1. \A n \in acked' : \A s \in target'[n] : Kept(n, s)'
    BY <1>10, <1>c, <1>a, <1>t, AckedKept
  <2> QED
    BY <2>1 DEF AckedIsKept, Kept
<1>13. OrderInv'
  <2>1. ASSUME NEW v \in Worker, NEW s \in Sink, Unsent(v, s)'
        PROVE  \A n \in Given(s) : Ordered(s, n, busy[v])'
    <3>1. v # w /\ busy'[v] = busy[v] /\ busy[v] # m /\ busy[v] \in Msg
      BY <2>1, <1>b, <1>p, <1>t DEF Unsent
    <3>2. Unsent(v, s)
      BY <2>1, <3>1, <1>c DEF Unsent
    <3> QED
      BY <3>1, <3>2, <1>a, StillUnsent
  <2> QED
    BY <2>1, <1>2, <1>a, OrderFrame
<1> QED
  BY <1>1, <1>4, <1>5, <1>6, <1>7, <1>8, <1>9, <1>11, <1>12, <1>13 DEF IndInv

LEMMA RoutingIs ==
  ASSUME TypeOK, NEW m \in Msg, \A s \in Sink : call[m][s] = NoCall, UNCHANGED call
  PROVE  /\ \A s \in Sink : call[m][s].pm = 0
         /\ call' = [call EXCEPT ![m] = [s \in Sink |-> NoCall]]
<1>1. call[m] = [s \in Sink |-> NoCall]
  BY DEF TypeOK
<1>2. call' = [call EXCEPT ![m] = [s \in Sink |-> NoCall]]
  BY <1>1 DEF TypeOK
<1>3. NoCall.pm = 0
  BY DEF NoCall
<1> QED
  BY <1>2, <1>3

LEMMA UnroutedInd ==
  ASSUME IndInv, NEW w \in Worker, NEW m \in Msg,
         LeaveUnacked(w, m) \/ Settle(w, m) \/ Park(w, m)
  PROVE  IndInv'
<1>a. TypeOK /\ BusyInv
  BY DEF IndInv
<1>u. /\ busy[w] = m /\ Leave(w) /\ \A s \in Sink : call[m][s] = NoCall
      /\ UNCHANGED <<life, unread, hold, buffer, consuming, queue, call, pm, chan, batch, spill,
                     written, spilled, refused>>
  BY DEF LeaveUnacked, Settle, Park, Routing, flow, writers
<1>c. /\ \A s \in Sink : call[m][s].pm = 0
      /\ call' = [call EXCEPT ![m] = [s \in Sink |-> NoCall]]
  BY <1>a, <1>u, RoutingIs
<1>t. /\ parked \subseteq Msg \X (Sink \cup {NoSink}) /\ DOMAIN target = Msg
      /\ target[m] \in SUBSET (Sink \cup {NoSink})
  BY <1>a DEF TypeOK
<1>1. CASE LeaveUnacked(w, m)
  <2>1. UNCHANGED <<target, parked, refused, acked>>
    BY <1>1 DEF LeaveUnacked
  <2>2. target' = [target EXCEPT ![m] = target[m]]
    BY <2>1, <1>a DEF TypeOK
  <2>3. m \notin acked
    BY <1>a, <1>u, MsgIs DEF BusyInv
  <2>4. PICK T \in SUBSET (Sink \cup {NoSink}) : T = target[m]
    BY <1>t
  <2> QED
    BY <2>1, <2>2, <2>3, <2>4, <1>u, <1>c, <1>t, LeaveInd
<1>2. CASE Settle(w, m)
  <2>1. /\ target' = [target EXCEPT ![m] = {}] /\ acked' \in {acked, acked \cup {m}}
        /\ UNCHANGED parked /\ {} \in SUBSET (Sink \cup {NoSink})
    BY <1>2 DEF Settle
  <2> QED
    BY <2>1, <1>u, <1>c, <1>t, LeaveInd
<1>3. CASE Park(w, m)
  <2>1. /\ target' = [target EXCEPT ![m] = {NoSink}] /\ acked' \in {acked, acked \cup {m}}
        /\ parked' = parked \cup {<<m, NoSink>>} /\ {NoSink} \in SUBSET (Sink \cup {NoSink})
    BY <1>3 DEF Park
  <2>2. parked' \subseteq Msg \X (Sink \cup {NoSink}) /\ parked \subseteq parked'
    BY <2>1, <1>t
  <2>3. \A s \in {NoSink} : Kept(m, s)'
    BY <2>1 DEF Kept
  <2> QED
    BY <2>1, <2>2, <2>3, <1>u, <1>c, LeaveInd
<1> QED
  BY <1>1, <1>2, <1>3

(* A routed message is acknowledged once every sink answered well. *)
LEMMA FinishInd ==
  ASSUME IndInv, NEW w \in Worker, NEW m \in Msg, Finish(w, m) PROVE IndInv'
<1>a. TypeOK /\ BusyInv /\ CallInv /\ AnswerInv
  BY DEF IndInv
<1>u. /\ busy[w] = m /\ Leave(w) /\ \E s \in Sink : call[m][s] # NoCall
      /\ \A s \in target[m] : call[m][s].state \in {"ok", "err"}
      /\ (Delivered(m) /\ acked' = acked \cup {m}) \/ acked' = acked
      /\ call' = [call EXCEPT ![m] = [s \in Sink |-> NoCall]]
      /\ UNCHANGED <<life, unread, hold, buffer, consuming, queue, target, pm, chan, batch, spill,
                     written, spilled, parked, refused>>
  BY DEF Finish, flow, writers
<1>t. parked \subseteq Msg \X (Sink \cup {NoSink}) /\ target[m] \in SUBSET (Sink \cup {NoSink})
  BY <1>a DEF TypeOK
<1>1. /\ target[m] \subseteq Sink
      /\ \A s \in Sink : call[m][s].state # "none" <=> s \in target[m]
  BY <1>a, <1>u DEF CallInv
<1>2. \A s \in Sink : call[m][s].pm = 0
  BY <1>1, <1>a, <1>u DEF CallInv
<1>3. target' = [target EXCEPT ![m] = target[m]]
  BY <1>u, <1>a DEF TypeOK
<1>4. m \in acked' => \A s \in target[m] : Kept(m, s)'
  <2>1. m \notin acked
    BY <1>a, <1>u, MsgIs DEF BusyInv
  <2>2. Delivered(m) => \A s \in target[m] : Kept(m, s)
    BY <1>1, <1>a DEF Delivered, AnswerInv, At
  <2>3. \A n, s : Kept(n, s) => Kept(n, s)'
    BY <1>u, KeptStays
  <2> QED
    BY <2>1, <2>2, <2>3, <1>u
<1>5. PICK T \in SUBSET (Sink \cup {NoSink}) : T = target[m]
  BY <1>t
<1> QED
  BY <1>2, <1>3, <1>4, <1>5, <1>t, <1>u, LeaveInd

-----------------------------------------------------------------------------
(* Pooled objects. *)

PmRecord == [msg : {0} \cup Msg, refs : 0..2, done : {"empty", "ok", "err"}]
CallRecord == [pm : {0} \cup Pm,
               state : {"none", "enqueue", "full", "retry", "wait", "ok", "err"}]

LEMMA ReleasedIs ==
  ASSUME NEW r \in PmRecord
  PROVE  /\ Released(r) \in PmRecord
         /\ r.refs = 1 => Released(r) = Free
         /\ r.refs = 2 => Released(r) = [msg |-> r.msg, refs |-> 1, done |-> r.done]
<1>1. r = [msg |-> r.msg, refs |-> r.refs, done |-> r.done] /\ r.refs \in {0, 1, 2}
  BY DEF PmRecord
<1>2. Free \in PmRecord
  BY DEF Free, PmRecord
<1>3. CASE r.refs = 2
  BY <1>1, <1>3 DEF Released, PmRecord
<1>4. CASE r.refs = 1
  BY <1>2, <1>4 DEF Released
<1>5. CASE r.refs = 0
  BY <1>5 DEF Released
<1> QED
  BY <1>1, <1>3, <1>4, <1>5

(* Answering releases the writer's reference, and leaves the answer where a  *)
(* goroutine still waits for it.                                             *)
LEMMA AnsweredIs ==
  ASSUME TypeOK, NEW R, DOMAIN R \subseteq Pm, \A p \in DOMAIN R : R[p] \in {"ok", "err"}
  PROVE  /\ Answered(R) \in [Pm -> PmRecord]
         /\ \A p \in Pm \ DOMAIN R : Answered(R)[p] = pm[p]
         /\ \A p \in DOMAIN R :
              /\ pm[p].refs = 2 /\ pm[p].done = "empty" =>
                   Answered(R)[p] = [msg |-> pm[p].msg, refs |-> 1, done |-> R[p]]
              /\ pm[p].refs = 1 => Answered(R)[p] = Free
<1>t. \A p \in Pm : pm[p] \in PmRecord
  BY DEF TypeOK, PmRecord
<1>1. \A p \in Pm \ DOMAIN R : Answered(R)[p] = pm[p]
  BY DEF Answered
<1>2. ASSUME NEW p \in DOMAIN R
      PROVE  /\ Answered(R)[p] \in PmRecord
             /\ pm[p].refs = 2 /\ pm[p].done = "empty" =>
                  Answered(R)[p] = [msg |-> pm[p].msg, refs |-> 1, done |-> R[p]]
             /\ pm[p].refs = 1 => Answered(R)[p] = Free
  <2>1. Answered(R)[p] = Released(Signalled(pm[p], R[p]))
    BY DEF Answered
  <2>2. PICK r \in PmRecord : r = Signalled(pm[p], R[p])
    BY <1>t DEF Signalled, PmRecord
  <2>3. /\ r.msg = pm[p].msg /\ r.refs = pm[p].refs
        /\ pm[p].done = "empty" => r.done = R[p]
    BY <2>2, <1>t DEF Signalled, PmRecord
  <2> QED
    BY <2>1, <2>2, <2>3, ReleasedIs
<1>3. Answered(R) \in [Pm -> PmRecord]
  BY <1>t, <1>1, <1>2 DEF Answered
<1> QED
  BY <1>1, <1>2, <1>3

(* The state of the order of sink s, when what it was given and holds is the *)
(* same.                                                                     *)
LEMMA OrderSame ==
  ASSUME NEW s \in Sink, OrderOf(s), UNCHANGED <<written[s], batch[s], chan[s]>>,
         \A p \in Holds(s) : pm'[p].msg = pm[p].msg,
         \A m : Past(m) => Past(m)', spilled \subseteq spilled', UNCHANGED busy,
         \A w \in Worker : Unsent(w, s)' => Unsent(w, s),
         \A m \in Range(spill'[s]) : <<m, s>> \in spilled' /\ Past(m)
  PROVE  OrderOf(s)'
<1>1. Carried(batch[s])' = Carried(batch[s]) /\ Carried(chan[s])' = Carried(chan[s])
  BY DEF Carried, Holds, Range
<1>2. \A m, n : Ordered(s, m, n) => Ordered(s, m, n)'
  BY DEF Ordered
<1>3. /\ Sorted(s, written[s])' /\ Sorted(s, Carried(batch[s]))' /\ Sorted(s, Carried(chan[s]))'
      /\ Follows(s, Range(written[s]), Range(Carried(batch[s])) \cup Range(Carried(chan[s])))'
      /\ Follows(s, Range(Carried(batch[s])), Range(Carried(chan[s])))'
  BY <1>1, <1>2 DEF OrderOf, Sorted, Follows
<1>4. Given(s)' = Given(s)
  BY <1>1 DEF Given
<1>5. \A m \in Given(s)' :
        Past(m)' /\ \A w \in Worker : Unsent(w, s)' => Ordered(s, m, busy[w])'
  BY <1>2, <1>4 DEF OrderOf
<1> QED
  BY <1>3, <1>5 DEF OrderOf

(* An object in the pool is in nobody's hands. *)
LEMMA PoolIsFree ==
  ASSUME TypeOK, PoolInv, NEW p \in Pool
  PROVE  /\ p \in Pm /\ p # 0 /\ pm[p] = [msg |-> 0, refs |-> 0, done |-> "empty"]
         /\ \A s \in Sink : p \notin Holds(s)
         /\ \A m \in Msg, s \in Sink : call[m][s].pm # p
<1>1. p \in Pm /\ p # 0 /\ pm[p].refs = 0
  BY WriterTypes DEF Pool
<1>2. \A s \in Sink : p \notin Holds(s)
  BY <1>1 DEF PoolInv, HeldSound
<1>3. ASSUME NEW m \in Msg, NEW s \in Sink PROVE call[m][s].pm # p
  <2>1. CallSound(m, s)
    BY DEF PoolInv
  <2> QED
    BY <2>1, <1>1 DEF CallSound
<1> QED
  BY <1>1, <1>2, <1>3 DEF PoolInv, Free

LEMMA AcquiredIs ==
  ASSUME TypeOK, PoolInv, NEW S \in SUBSET Pool, NEW m \in Msg
  PROVE  /\ Acquired(S, m) \in [Pm -> PmRecord]
         /\ \A p \in S : Acquired(S, m)[p] = [msg |-> m, refs |-> 2, done |-> "empty"]
         /\ \A p \in Pm \ S : Acquired(S, m)[p] = pm[p]
<1>t. \A p \in Pm : pm[p] \in PmRecord
  BY DEF TypeOK, PmRecord
<1>1. \A p \in S : p \in Pm /\ pm[p] = [msg |-> 0, refs |-> 0, done |-> "empty"]
  BY PoolIsFree
<1>2. \A p \in Pm \ S : Acquired(S, m)[p] = pm[p]
  BY DEF Acquired
<1>3. ASSUME NEW p \in S PROVE Acquired(S, m)[p] = [msg |-> m, refs |-> 2, done |-> "empty"]
  <2>1. Acquired(S, m)[p] = [pm[p] EXCEPT !.msg = m, !.refs = 2]
    BY <1>1 DEF Acquired
  <2>2. pm[p] \in PmRecord /\ pm[p].done = "empty"
    BY <1>1, <1>t
  <2> QED
    BY <2>1, <2>2 DEF PmRecord
<1>4. [msg |-> m, refs |-> 2, done |-> "empty"] \in PmRecord
  BY DEF PmRecord
<1> QED
  BY <1>t, <1>2, <1>3, <1>4 DEF Acquired

(* What is left to show of a step of the goroutines and the writers. *)
LEMMA WriterStep ==
  ASSUME IndInv,
         UNCHANGED <<life, unread, hold, buffer, consuming, queue, busy, inFlight, acked>>,
         TypeOK', CallInv', PoolInv', AnswerInv', OrderInv',
         \A m \in acked : target'[m] = target[m],
         parked \subseteq parked', refused \subseteq refused', spilled \subseteq spilled',
         \A s \in Sink : Range(written[s]) \subseteq Range(written'[s])
  PROVE  IndInv'
<1>1. FlowInv' /\ BusyInv' /\ CountInv' /\ QuietInv'
  BY PathFrame DEF IndInv
<1>2. \A m, s : Kept(m, s) => Kept(m, s)'
  BY KeptStays
<1>3. AckedIsKept'
  <2>1. \A m \in acked' : \A s \in target'[m] : Kept(m, s)'
    BY <1>2, AckedKept DEF IndInv
  <2> QED
    BY <2>1 DEF AckedIsKept, Kept
<1> QED
  BY <1>1, <1>3 DEF IndInv

(* Routing gives each goroutine an object of its own from the pool. *)
LEMMA RouteInd ==
  ASSUME IndInv, NEW w \in Worker, NEW m \in Msg, NEW T \in SUBSET Sink, Route(w, m, T)
  PROVE  IndInv'
<1>a. /\ TypeOK /\ FlowInv /\ BusyInv /\ CountInv /\ QuietInv /\ CallInv /\ PoolInv
      /\ AnswerInv /\ OrderInv
  BY DEF IndInv
<1>u. /\ busy[w] = m /\ m # 0 /\ \A s \in Sink : call[m][s] = NoCall
      /\ T # {} /\ target' = [target EXCEPT ![m] = T]
      /\ pm' = Acquired(Lowest(Cardinality(T)), m)
      /\ UNCHANGED <<life, unread, hold, buffer, consuming, queue, busy, inFlight, chan, batch,
                     spill, written, spilled, parked, refused, acked>>
  BY DEF Route, Routing, flow
<1>s. PICK S \in SUBSET Pool : S = Lowest(Cardinality(T))
  BY DEF Lowest
<1>f. PICK f \in Bijection(T, S) :
        call' = [call EXCEPT ![m] = [s \in Sink |->
          IF s \in T THEN [state |-> "enqueue", pm |-> f[s]] ELSE NoCall]]
  BY <1>s DEF Route
<1>1. f \in [T -> S] /\ \A s, t \in T : f[s] = f[t] => s = t
  BY <1>f DEF Bijection, Injection, IsInjective
<1>2. /\ pm' \in [Pm -> PmRecord]
      /\ \A p \in S : pm'[p] = [msg |-> m, refs |-> 2, done |-> "empty"]
      /\ \A p \in Pm \ S : pm'[p] = pm[p]
  <2>1. pm' = Acquired(S, m)
    BY <1>s, <1>u
  <2>2. TypeOK /\ PoolInv
    BY <1>a
  <2>3. /\ Acquired(S, m) \in [Pm -> PmRecord]
        /\ \A p \in S : Acquired(S, m)[p] = [msg |-> m, refs |-> 2, done |-> "empty"]
        /\ \A p \in Pm \ S : Acquired(S, m)[p] = pm[p]
    BY <2>2, AcquiredIs
  <2> QED
    BY <2>1, <2>3
<1>3. \A p \in S : /\ p \in Pm /\ p # 0 /\ pm[p].refs = 0 /\ \A s \in Sink : p \notin Holds(s)
                   /\ \A n \in Msg, s \in Sink : call[n][s].pm # p
  BY <1>a, PoolIsFree
<1>c. /\ \A n \in Msg : n # m => call'[n] = call[n]
      /\ \A s \in T : call'[m][s] = [state |-> "enqueue", pm |-> f[s]]
      /\ \A s \in Sink \ T : call'[m][s] = NoCall
  BY <1>f, <1>a DEF TypeOK
<1>d. /\ \A s \in T : call'[m][s].state = "enqueue" /\ call'[m][s].pm = f[s]
      /\ \A s \in Sink \ T : call'[m][s].state = "none" /\ call'[m][s].pm = 0
  <2>1. ASSUME NEW s \in T PROVE call'[m][s].state = "enqueue" /\ call'[m][s].pm = f[s]
    <3>1. call'[m][s] = [state |-> "enqueue", pm |-> f[s]]
      BY <1>c
    <3> QED
      BY <3>1
  <2>2. NoCall.state = "none" /\ NoCall.pm = 0
    BY DEF NoCall
  <2> QED
    BY <2>1, <2>2, <1>c
<1>4. TypeOK'
  <2>1. target' \in [Msg -> SUBSET (Sink \cup {NoSink})]
    BY <1>u, <1>a DEF TypeOK
  <2>2. NoCall \in CallRecord /\ \A s \in T : [state |-> "enqueue", pm |-> f[s]] \in CallRecord
    BY <1>1, <1>3 DEF NoCall, CallRecord
  <2>3. [s \in Sink |-> IF s \in T THEN [state |-> "enqueue", pm |-> f[s]] ELSE NoCall]
          \in [Sink -> CallRecord]
    BY <2>2
  <2>4. call' \in [Msg -> [Sink -> CallRecord]]
    BY <2>3, <1>f, <1>a DEF TypeOK, CallRecord
  <2> QED
    BY <2>1, <2>4, <1>2, <1>u, <1>a DEF TypeOK, CallRecord, PmRecord
<1>5. CallInv'
  <2>1. NoCall.pm = 0 /\ NoCall.state = "none"
    BY DEF NoCall
  <2>2. m \in Range(busy')
    BY <1>u, <1>a DEF TypeOK, Range
  <2>3. target'[m] = T /\ \A n \in Msg : n # m => target'[n] = target[n]
    BY <1>u, <1>a DEF TypeOK
  <2>4. \A s \in Sink : /\ call'[m][s].state # "none" <=> s \in target'[m]
                        /\ call'[m][s].pm = 0 <=> call'[m][s].state \in {"none", "ok", "err"}
    BY <2>3, <1>d, <1>1, <1>3
  <2> QED
    BY <2>2, <2>3, <2>4, <1>c, <1>u, <1>a DEF CallInv
<1>6. PoolInv'
  <2>1. \A p \in Pool' : pm'[p] = Free
    BY <1>2, <1>a DEF Pool, PoolInv
  <2>h. \A s \in Sink : Holds(s)' = Holds(s) /\ Holds(s) \subseteq Pm \ S
    BY <1>u, <1>a, <1>3, WriterTypes DEF Holds
  <2>2. ASSUME NEW s \in Sink PROVE HeldSound(s)'
    BY <2>h, <1>2, <1>u, <1>a DEF PoolInv, HeldSound
  <2>3. ASSUME NEW n \in Msg, NEW s \in Sink PROVE CallSound(n, s)'
    <3>1. CASE n = m
      <4>1. CASE s \in T
        <5>1. f[s] \in S /\ call'[n][s].pm = f[s] /\ ~At(n, s, "wait")'
          BY <3>1, <4>1, <1>d, <1>1 DEF At
        <5>2. ASSUME NEW k \in Msg, NEW t \in Sink, call'[k][t].pm = f[s]
              PROVE  k = n /\ t = s
          <6>1. k = m
            BY <5>1, <5>2, <1>c, <1>3
          <6>2. t \in T
            BY <6>1, <5>1, <5>2, <1>d, <1>3
          <6> QED
            BY <6>1, <6>2, <3>1, <4>1, <5>2, <1>d, <1>1
        <5>3. \A t \in Sink : f[s] \notin Holds(t)'
          BY <5>1, <1>3, <2>h
        <5> QED
          BY <5>1, <5>2, <5>3, <3>1, <1>2 DEF CallSound
      <4>2. CASE s \notin T
        BY <3>1, <4>2, <1>c DEF CallSound, NoCall
      <4> QED
        BY <4>1, <4>2
    <3>2. CASE n # m
      <4>1. call'[n][s] = call[n][s] /\ CallSound(n, s) /\ (At(n, s, "wait")' <=> At(n, s, "wait"))
        BY <3>2, <1>c, <1>a DEF PoolInv, At
      <4>2. call[n][s].pm # 0 => call[n][s].pm \in Pm \ S
        BY <1>3, <1>a, WriterTypes
      <4>3. ASSUME NEW k \in Msg, NEW t \in Sink, call[n][s].pm # 0, call'[k][t].pm = call[n][s].pm
            PROVE  call[k][t].pm = call[n][s].pm
        <5>1. k # m
          BY <4>2, <4>3, <1>d, <1>1
        <5> QED
          BY <5>1, <4>3, <1>c
      <4> QED
        BY <4>1, <4>2, <4>3, <2>h, <1>2, <1>u DEF CallSound
    <3> QED
      BY <3>1, <3>2
  <2> QED
    BY <2>1, <2>2, <2>3 DEF PoolInv
<1>7. AnswerInv'
  <2>1. \A n, s : Kept(n, s) => Kept(n, s)'
    BY <1>u, KeptStays
  <2>2. ASSUME NEW n \in Msg, NEW s \in Sink,
               At(n, s, "ok")' \/ (At(n, s, "wait")' /\ pm'[call'[n][s].pm].done = "ok")
        PROVE  Kept(n, s)
    <3>1. n # m
      BY <2>2, <1>d DEF At
    <3>2. call'[n][s] = call[n][s]
      BY <3>1, <1>c
    <3>3. CASE At(n, s, "ok")'
      BY <3>2, <3>3, <1>a DEF AnswerInv, At
    <3>4. CASE At(n, s, "wait")' /\ pm'[call'[n][s].pm].done = "ok"
      <4>1. call[n][s].pm \in Pm \ S
        BY <3>2, <3>4, <1>3, <1>a, WriterTypes DEF CallInv, At
      <4> QED
        BY <3>2, <3>4, <4>1, <1>2, <1>a DEF AnswerInv, At
    <3> QED
      BY <2>2, <3>3, <3>4
  <2> QED
    BY <2>1, <2>2 DEF AnswerInv
<1>8. OrderInv'
  <2>1. \A n : Past(n)' <=> Past(n)
    BY <1>a, <1>u, PathFrame
  <2> SUFFICES ASSUME NEW s \in Sink PROVE OrderOf(s)'
    BY DEF OrderInv
  <2>2. OrderOf(s)
    BY <1>a DEF OrderInv
  <2>3. \A p \in Holds(s) : pm'[p].msg = pm[p].msg
    BY <1>2, <1>3, <1>a, WriterTypes
  <2>4. \A v \in Worker : Unsent(v, s)' => Unsent(v, s)
    <3>1. \A v \in Worker : busy[v] \in {0} \cup Msg
      BY <1>a DEF TypeOK
    <3>2. NoCall.state = "none"
      BY DEF NoCall
    <3> QED
      BY <3>1, <3>2, <1>c, <1>u DEF Unsent
  <2>5. \A n \in Range(spill'[s]) : <<n, s>> \in spilled' /\ Past(n)
    BY <2>2, <1>u DEF OrderOf
  <2> QED
    BY <2>1, <2>2, <2>3, <2>4, <2>5, <1>u, OrderSame
<1>9. \A n \in acked : target'[n] = target[n]
  BY <1>u, <1>a DEF BusyInv, TypeOK
<1> QED
  BY <1>4, <1>5, <1>6, <1>7, <1>8, <1>9, <1>u, WriterStep

-----------------------------------------------------------------------------
(* The goroutine of a message and a sink. *)

LEMMA GoesIs ==
  ASSUME TypeOK, NEW m \in Msg, NEW s \in Sink, NEW st \in {"full", "retry", "wait"},
         Goes(m, s, st)
  PROVE  \E c \in CallRecord :
           c.pm = call[m][s].pm /\ c.state = st /\ call' = [call EXCEPT ![m][s] = c]
<1> DEFINE c == [call[m][s] EXCEPT !.state = st]
<1>1. call[m][s] \in CallRecord
  BY DEF TypeOK, CallRecord
<1>2. c \in CallRecord /\ c.pm = call[m][s].pm /\ c.state = st
  BY <1>1 DEF CallRecord
<1>3. call' = [call EXCEPT ![m][s] = c]
  BY DEF Goes
<1> QED
  BY <1>2, <1>3

(* A step of one goroutine is seen by nobody else. *)
LEMMA CallStep ==
  ASSUME TypeOK, CallInv, NEW m \in Msg, NEW s \in Sink, NEW c \in CallRecord,
         call' = [call EXCEPT ![m][s] = c], UNCHANGED <<busy, target>>,
         call[m][s].state # "none", c.state # "none",
         c.pm = 0 <=> c.state \in {"ok", "err"}
  PROVE  /\ CallInv' /\ call' \in [Msg -> [Sink -> CallRecord]]
         /\ call'[m][s] = c
         /\ \A n \in Msg, t \in Sink : n # m \/ t # s => call'[n][t] = call[n][t]
<1>t. call \in [Msg -> [Sink -> CallRecord]]
  BY DEF TypeOK, CallRecord
<1>1. /\ call' \in [Msg -> [Sink -> CallRecord]] /\ call'[m][s] = c
      /\ \A n \in Msg, t \in Sink : n # m \/ t # s => call'[n][t] = call[n][t]
  BY <1>t
<1>2. call[m][s] # NoCall
  BY DEF NoCall
<1>3. ASSUME NEW n \in Msg
      PROVE  /\ \/ \A t \in Sink : call'[n][t] = NoCall
                \/ /\ n \in Range(busy') /\ target'[n] \subseteq Sink
                   /\ \A t \in Sink : call'[n][t].state # "none" <=> t \in target'[n]
             /\ \A t \in Sink :
                  call'[n][t].pm = 0 <=> call'[n][t].state \in {"none", "ok", "err"}
  <2>1. CASE n = m
    BY <2>1, <1>1, <1>2 DEF CallInv
  <2>2. CASE n # m
    BY <2>2, <1>1 DEF CallInv
  <2> QED
    BY <2>1, <2>2
<1> QED
  BY <1>1, <1>3 DEF CallInv

NotSent == {"none", "enqueue", "full", "retry"}

LEMMA UnsentKept ==
  ASSUME TypeOK, NEW m \in Msg, NEW s \in Sink, UNCHANGED busy,
         \A n \in Msg, t \in Sink : n # m \/ t # s => call'[n][t] = call[n][t],
         call'[m][s].state \in NotSent => call[m][s].state \in NotSent
  PROVE  \A v \in Worker, t \in Sink : Unsent(v, t)' => Unsent(v, t)
<1>1. \A v \in Worker : busy[v] \in {0} \cup Msg
  BY DEF TypeOK
<1> QED
  BY <1>1 DEF Unsent, NotSent

LEMMA OrderAll ==
  ASSUME OrderInv, UNCHANGED <<written, batch, chan, spill, busy>>,
         \A m : Past(m) => Past(m)', spilled \subseteq spilled',
         \A s \in Sink : \A p \in Holds(s) : pm'[p].msg = pm[p].msg,
         \A v \in Worker, s \in Sink : Unsent(v, s)' => Unsent(v, s)
  PROVE  OrderInv'
<1> SUFFICES ASSUME NEW s \in Sink PROVE OrderOf(s)'
  BY DEF OrderInv
<1>1. OrderOf(s)
  BY DEF OrderInv
<1>2. \A m \in Range(spill'[s]) : <<m, s>> \in spilled' /\ Past(m)
  BY <1>1 DEF OrderOf
<1> QED
  BY <1>1, <1>2, OrderSame

(* The worker of a message that is being enqueued, and the object it has. *)
LEMMA CallerIs ==
  ASSUME IndInv, NEW m \in Msg, NEW s \in Sink,
         call[m][s].state \in {"enqueue", "full", "retry", "wait"}
  PROVE  /\ call[m][s].pm \in Pm /\ call[m][s].pm # 0 /\ CallSound(m, s)
         /\ \E w \in Worker : busy[w] = m
         /\ Past(m) /\ WorkerOf[m] \in Queue
         /\ \A v \in Worker : busy[v] # 0 /\ WorkerOf[busy[v]] = WorkerOf[m]
              /\ WorkerOf[m] # Shared => busy[v] = m
<1>a. TypeOK /\ BusyInv /\ CallInv /\ PoolInv
  BY DEF IndInv
<1>1. call[m][s].pm \in Pm /\ call[m][s].pm # 0 /\ CallSound(m, s)
  BY <1>a, WriterTypes DEF CallInv, PoolInv
<1>2. m \in Range(busy)
  BY <1>a DEF CallInv, NoCall
<1>3. PICK w \in Worker : busy[w] = m
  BY <1>2, <1>a DEF TypeOK, Range
<1>4. m # 0 /\ Past(m) /\ WorkerOf[m] \in {w, Shared}
  BY <1>3, <1>a, MsgIs DEF BusyInv
<1>5. ASSUME NEW v \in Worker, busy[v] # 0, WorkerOf[busy[v]] = WorkerOf[m], WorkerOf[m] # Shared
      PROVE  busy[v] = m
  BY <1>3, <1>4, <1>5, <1>a DEF BusyInv
<1> QED
  BY <1>1, <1>3, <1>4, <1>5, MsgIs

(* The channel was found full, or the oldest was gone by the time of its eviction. *)
LEMMA AgainInd ==
  ASSUME IndInv, NEW m \in Msg, NEW s \in Sink, call[m][s].state \in {"enqueue", "full"},
         NEW st \in {"full", "retry"}, Goes(m, s, st),
         UNCHANGED <<life, unread, hold, buffer, consuming, queue, busy, inFlight, target, pm,
                     chan, batch, spill, written, spilled, parked, refused, acked>>
  PROVE  IndInv'
<1>a. /\ TypeOK /\ FlowInv /\ BusyInv /\ CountInv /\ QuietInv /\ CallInv /\ PoolInv
      /\ AnswerInv /\ OrderInv
  BY DEF IndInv
<1>u. /\ call[m][s].state \in {"enqueue", "full"} /\ Goes(m, s, st)
      /\ UNCHANGED <<life, unread, hold, buffer, consuming, queue, busy, inFlight, target, pm,
                     chan, batch, spill, written, spilled, parked, refused, acked>>
  OBVIOUS
<1>c. PICK c \in CallRecord :
        c.pm = call[m][s].pm /\ c.state = st /\ call' = [call EXCEPT ![m][s] = c]
  BY <1>a, <1>u, GoesIs
<1>p. call[m][s].pm # 0 /\ CallSound(m, s)
  BY <1>u, CallerIs
<1>1. /\ CallInv' /\ call' \in [Msg -> [Sink -> CallRecord]] /\ call'[m][s] = c
      /\ \A n \in Msg, t \in Sink : n # m \/ t # s => call'[n][t] = call[n][t]
  BY <1>a, <1>u, <1>c, <1>p, CallStep
<1>2. TypeOK'
  BY <1>1, <1>a, <1>u DEF TypeOK, CallRecord
<1>3. PoolInv'
  <2>1. \A n \in Msg, t \in Sink :
          call'[n][t].pm = call[n][t].pm /\ (At(n, t, "wait")' <=> At(n, t, "wait"))
    BY <1>1, <1>c, <1>u DEF At
  <2>2. \A t \in Sink : Holds(t)' = Holds(t)
    BY <1>u DEF Holds
  <2> QED
    BY <2>1, <2>2, <1>a, <1>u DEF PoolInv, Pool, HeldSound, CallSound
<1>4. AnswerInv'
  <2>1. \A n, t : Kept(n, t) => Kept(n, t)'
    BY <1>u, KeptStays
  <2> QED
    BY <2>1, <1>1, <1>c, <1>u, <1>a DEF AnswerInv, At
<1>5. OrderInv'
  <2>1. \A v \in Worker, t \in Sink : Unsent(v, t)' => Unsent(v, t)
    BY <1>1, <1>a, <1>u, UnsentKept DEF NotSent
  <2>2. \A n : Past(n)' <=> Past(n)
    BY <1>a, <1>u, PathFrame
  <2> QED
    BY <2>1, <2>2, <1>a, <1>u, OrderAll
<1> QED
  BY <1>1, <1>2, <1>3, <1>4, <1>5, <1>u, WriterStep

(* A message joins the channel of a sink behind all of its key. *)
LEMMA OrderAppend ==
  ASSUME NEW s \in Sink, OrderOf(s), chan[s] \in Seq(Pm), NEW p \in Pm, NEW m \in Msg,
         UNCHANGED <<written[s], batch[s]>>, chan'[s] = Append(chan[s], p), pm'[p].msg = m,
         \A x \in Holds(s) : pm'[x].msg = pm[x].msg,
         \A n : Past(n) => Past(n)', Past(m), UNCHANGED <<spilled, busy>>,
         \A n \in Given(s) : Ordered(s, n, m),
         \A v \in Worker : Unsent(v, s)' => Unsent(v, s) /\ Ordered(s, m, busy[v]),
         Range(spill'[s]) \subseteq Range(spill[s])
  PROVE  OrderOf(s)'
<1>1. /\ DOMAIN chan'[s] = 1..(Len(chan[s]) + 1) /\ chan'[s][Len(chan[s]) + 1] = p
      /\ DOMAIN chan[s] = 1..Len(chan[s]) /\ Len(chan[s]) \in Nat
      /\ \A i \in DOMAIN chan[s] : chan'[s][i] = chan[s][i]
  BY AtEnd
<1>2. Carried(batch[s])' = Carried(batch[s])
  BY DEF Carried, Holds, Range
<1>3. /\ DOMAIN Carried(chan[s])' = 1..(Len(chan[s]) + 1)
      /\ DOMAIN Carried(chan[s]) = 1..Len(chan[s])
      /\ \A i \in 1..Len(chan[s]) : Carried(chan[s])'[i] = Carried(chan[s])[i]
      /\ Carried(chan[s])'[Len(chan[s]) + 1] = m
  <2>1. Len(chan[s]) + 1 \in 1..(Len(chan[s]) + 1)
        /\ \A i \in 1..Len(chan[s]) : i \in 1..(Len(chan[s]) + 1)
    BY <1>1
  <2>2. \A i \in 1..Len(chan[s]) : chan[s][i] \in Holds(s)
    BY <1>1 DEF Holds, Range
  <2> QED
    BY <1>1, <2>1, <2>2 DEF Carried
<1>4. Range(Carried(chan[s])') = Range(Carried(chan[s])) \cup {m}
  <2>1. \A i \in 1..(Len(chan[s]) + 1) : i \in 1..Len(chan[s]) \/ i = Len(chan[s]) + 1
    BY <1>1
  <2>2. Len(chan[s]) + 1 \in 1..(Len(chan[s]) + 1)
        /\ \A i \in 1..Len(chan[s]) : i \in 1..(Len(chan[s]) + 1)
    BY <1>1
  <2> QED
    BY <1>3, <2>1, <2>2 DEF Range
<1>5. \A k, n : Ordered(s, k, n)' <=> Ordered(s, k, n)
  BY DEF Ordered
<1>6. Given(s)' = Given(s) \cup {m}
  BY <1>2, <1>4 DEF Given
<1>7. Sorted(s, written[s])' /\ Sorted(s, Carried(batch[s]))'
  BY <1>2, <1>5 DEF OrderOf, Sorted
<1>8. Sorted(s, Carried(chan[s]))'
  <2> SUFFICES ASSUME NEW i \in 1..(Len(chan[s]) + 1), NEW j \in 1..(Len(chan[s]) + 1), i < j
               PROVE  Ordered(s, Carried(chan[s])'[i], Carried(chan[s])'[j])
    BY <1>3 DEF Sorted, Ordered
  <2>1. i \in 1..Len(chan[s])
    BY <1>1
  <2>2. Carried(chan[s])[i] \in Given(s)
    BY <2>1, <1>3 DEF Given, Range
  <2>3. CASE j = Len(chan[s]) + 1
    BY <2>1, <2>2, <2>3, <1>3
  <2>4. CASE j \in 1..Len(chan[s])
    BY <2>1, <2>4, <1>3 DEF OrderOf, Sorted
  <2> QED
    BY <2>3, <2>4, <1>1
<1>9. /\ Follows(s, Range(written[s]), Range(Carried(batch[s])) \cup Range(Carried(chan[s])))'
      /\ Follows(s, Range(Carried(batch[s])), Range(Carried(chan[s])))'
  BY <1>2, <1>4, <1>5 DEF OrderOf, Follows, Given
<1>10. \A n \in Given(s)' :
         Past(n)' /\ \A v \in Worker : Unsent(v, s)' => Ordered(s, n, busy[v])'
  BY <1>5, <1>6 DEF OrderOf
<1>11. \A n \in Range(spill'[s]) : <<n, s>> \in spilled' /\ Past(n)'
  BY DEF OrderOf
<1> QED
  BY <1>7, <1>8, <1>9, <1>10, <1>11 DEF OrderOf

LEMMA EnqueueInd ==
  ASSUME IndInv, NEW m \in Msg, NEW s \in Sink, Enqueue(m, s) PROVE IndInv'
<1>a. /\ TypeOK /\ FlowInv /\ BusyInv /\ CountInv /\ QuietInv /\ CallInv /\ PoolInv
      /\ AnswerInv /\ OrderInv
  BY DEF IndInv
<1>0. PICK p : p = call[m][s].pm
  OBVIOUS
<1>u. /\ call[m][s].state \in {"enqueue", "full", "retry"} /\ Goes(m, s, "wait")
      /\ chan' = [chan EXCEPT ![s] = Append(@, p)]
      /\ UNCHANGED <<life, unread, hold, buffer, consuming, queue, busy, inFlight, target, pm,
                     batch, spill, written, spilled, parked, refused, acked>>
  BY <1>0 DEF Enqueue, At, flow
<1>t. \A t \in Sink : chan[t] \in Seq(Pm) /\ chan \in [Sink -> Seq(Pm)]
  BY <1>a DEF TypeOK
<1>c. PICK c \in CallRecord :
        c.pm = p /\ c.state = "wait" /\ call' = [call EXCEPT ![m][s] = c]
  BY <1>0, <1>a, <1>u, GoesIs
<1>p. /\ p \in Pm /\ p # 0 /\ CallSound(m, s) /\ Past(m)
      /\ \A v \in Worker : busy[v] # 0 /\ WorkerOf[busy[v]] = WorkerOf[m]
           /\ WorkerOf[m] # Shared => busy[v] = m
      /\ \E w \in Worker : busy[w] = m
  BY <1>0, <1>u, CallerIs
<1>q. /\ pm[p] = [msg |-> m, refs |-> 2, done |-> "empty"] /\ \A t \in Sink : p \notin Holds(t)
      /\ \A n \in Msg, t \in Sink : call[n][t].pm = p => n = m /\ t = s
  BY <1>0, <1>p, <1>u DEF CallSound, At
<1>1. /\ CallInv' /\ call' \in [Msg -> [Sink -> CallRecord]] /\ call'[m][s] = c
      /\ \A n \in Msg, t \in Sink : n # m \/ t # s => call'[n][t] = call[n][t]
  BY <1>a, <1>u, <1>c, <1>p, CallStep
<1>h. /\ chan'[s] = Append(chan[s], p) /\ \A t \in Sink : t # s => chan'[t] = chan[t]
      /\ chan' \in [Sink -> Seq(Pm)] /\ Range(chan'[s]) = Range(chan[s]) \cup {p}
  BY <1>u, <1>t, <1>p, AtEnd
<1>2. TypeOK'
  BY <1>1, <1>a, <1>u, <1>h DEF TypeOK, CallRecord
<1>3. PoolInv'
  <2>1. /\ Holds(s)' = Holds(s) \cup {p} /\ \A t \in Sink : t # s => Holds(t)' = Holds(t)
    BY <1>h, <1>u DEF Holds
  <2>2. \A x \in Pool' : pm'[x] = Free
    BY <1>u, <1>a DEF PoolInv, Pool
  <2>3. pm[p].refs = 2 /\ pm[p].done = "empty" /\ pm[p].msg = m /\ m # 0
    BY <1>q, MsgIs
  <2>4. ASSUME NEW t \in Sink PROVE HeldSound(t)'
    <3>1. HeldSound(t)
      BY <1>a DEF PoolInv
    <3>2. IsInjective(chan'[t]) /\ IsInjective(batch'[t])
      <4>1. CASE t = s
        <5>1. p \notin Range(chan[s])
          BY <1>q DEF Holds
        <5> QED
          BY <4>1, <5>1, <3>1, <1>h, <1>p, <1>t, <1>u, InjectiveAppend DEF HeldSound
      <4>2. CASE t # s
        BY <4>2, <3>1, <1>h, <1>u DEF HeldSound
      <4> QED
        BY <4>1, <4>2
    <3>3. Range(chan'[t]) \cap Range(batch'[t]) = {}
      BY <3>1, <1>h, <1>u, <1>q DEF HeldSound, Holds
    <3>4. \A x \in Sink \ {t} : Holds(t)' \cap Holds(x)' = {}
      BY <3>1, <2>1, <1>q DEF HeldSound
    <3>5. \A x \in Holds(t)' : pm'[x].refs > 0 /\ pm'[x].done = "empty" /\ pm'[x].msg # 0
      BY <3>1, <2>1, <2>3, <1>u DEF HeldSound
    <3> QED
      BY <3>2, <3>3, <3>4, <3>5 DEF HeldSound
  <2>5. ASSUME NEW n \in Msg, NEW t \in Sink PROVE CallSound(n, t)'
    <3>0. \A k \in Msg, x \in Sink : call'[k][x].pm = call[k][x].pm
      BY <1>0, <1>1, <1>c
    <3>1. CallSound(n, t)
      BY <1>a DEF PoolInv
    <3>2. CASE n = m /\ t = s
      <4>1. At(n, t, "wait")' /\ p \in Holds(t)'
        BY <3>2, <1>1, <1>c, <2>1 DEF At
      <4>2. \A x \in Sink : p \in Holds(x)' => x = t
        BY <3>2, <2>1, <1>q
      <4> QED
        BY <4>1, <4>2, <3>0, <3>2, <1>0, <1>q, <1>u DEF CallSound
    <3>3. CASE n # m \/ t # s
      <4>1. call'[n][t] = call[n][t] /\ call[n][t].pm # p
        BY <3>3, <1>1, <1>q
      <4>2. At(n, t, "wait")' <=> At(n, t, "wait")
        BY <4>1 DEF At
      <4>3. \A x \in Sink : call[n][t].pm \in Holds(x)' <=> call[n][t].pm \in Holds(x)
        BY <4>1, <2>1
      <4> QED
        BY <4>1, <4>2, <4>3, <3>0, <3>1, <1>u DEF CallSound
    <3> QED
      BY <3>2, <3>3
  <2> QED
    BY <2>2, <2>4, <2>5 DEF PoolInv
<1>4. AnswerInv'
  <2>1. \A n, t : Kept(n, t) => Kept(n, t)'
    BY <1>u, KeptStays
  <2>2. ~At(m, s, "ok")' /\ pm'[call'[m][s].pm].done # "ok"
    BY <1>1, <1>c, <1>q, <1>u DEF At
  <2> QED
    BY <2>1, <2>2, <1>1, <1>u, <1>a DEF AnswerInv, At
<1>5. OrderInv'
  <2>1. \A v \in Worker, t \in Sink : Unsent(v, t)' => Unsent(v, t)
    BY <1>1, <1>a, <1>u, UnsentKept DEF NotSent
  <2>2. \A n : Past(n)' <=> Past(n)
    BY <1>a, <1>u, PathFrame
  <2> SUFFICES ASSUME NEW t \in Sink PROVE OrderOf(t)'
    BY DEF OrderInv
  <2>3. OrderOf(t)
    BY <1>a DEF OrderInv
  <2>4. CASE t # s
    <3>1. \A n \in Range(spill'[t]) : <<n, t>> \in spilled' /\ Past(n)
      BY <2>3, <1>u DEF OrderOf
    <3> QED
      BY <2>1, <2>2, <2>3, <2>4, <3>1, <1>h, <1>u, OrderSame
  <2>5. CASE t = s
    <3>1. \A n \in Given(s) : Ordered(s, n, m)
      <4>1. PICK w \in Worker : busy[w] = m
        BY <1>p
      <4>2. Unsent(w, s)
        BY <4>1, <1>u, MsgIs DEF Unsent
      <4> QED
        BY <4>1, <4>2, <2>3, <2>5 DEF OrderOf
    <3>2. ASSUME NEW v \in Worker, Unsent(v, s)' PROVE Ordered(s, m, busy[v])
      <4>1. busy[v] # m /\ busy[v] # 0
        BY <3>2, <1>1, <1>c, <1>u DEF Unsent
      <4> QED
        BY <4>1, <1>p DEF Ordered
    <3>3. pm'[p].msg = m /\ \A x \in Holds(s) : pm'[x].msg = pm[x].msg
      BY <1>q, <1>u
    <3> QED
      BY <2>1, <2>2, <2>3, <2>5, <3>1, <3>2, <3>3, <1>h, <1>p, <1>t, <1>u, OrderAppend
  <2> QED
    BY <2>4, <2>5
<1> QED
  BY <1>1, <1>2, <1>3, <1>4, <1>5, <1>u, WriterStep

(***************************************************************************)
(* A goroutine does something to its own object: it answers it itself, it  *)
(* takes the answer, or it gives up.  What the writers hold is not touched.*)
(***************************************************************************)
OwnCall(m, s, p, c) ==
  /\ p = call[m][s].pm /\ call[m][s].state \in {"enqueue", "full", "retry", "wait"}
  /\ call' = [call EXCEPT ![m][s] = c]
  /\ c.state \in {"wait", "ok", "err"} /\ (c.pm = 0 <=> c.state # "wait") /\ c.pm \in {0, p}

OwnPm(m, s, p, c) ==
  /\ pm' \in [Pm -> PmRecord] /\ \A x \in Pm : x # p => pm'[x] = pm[x]
  /\ pm'[p].refs = 0 => pm'[p] = Free
  /\ \A t \in Sink : p \in Holds(t) =>
       pm'[p].refs > 0 /\ pm'[p].done = "empty" /\ pm'[p].msg = pm[p].msg
  /\ c.pm = p => /\ p \notin Holds(s) /\ pm'[p].refs = 1 /\ pm'[p].done # "empty"
                 /\ pm'[p].msg = m \/ (pm'[p].msg = 0 /\ <<m, s>> \in spilled')
  /\ c.state = "ok" \/ (c.state = "wait" /\ pm'[p].done = "ok") => Kept(m, s)'

OwnSpill ==
  /\ spill' \in [Sink -> Seq(Msg)] /\ spilled \subseteq spilled' /\ spilled' \subseteq Msg \X Sink
  /\ \A t \in Sink : \A n \in Range(spill'[t]) : <<n, t>> \in spilled' /\ Past(n)

LEMMA OwnObject ==
  ASSUME IndInv, NEW m \in Msg, NEW s \in Sink, NEW p, NEW c \in CallRecord,
         OwnCall(m, s, p, c), OwnPm(m, s, p, c), OwnSpill,
         UNCHANGED <<life, unread, hold, buffer, consuming, queue, busy, inFlight, target,
                     chan, batch, written, parked, refused, acked>>
  PROVE  IndInv'
<1>a. /\ TypeOK /\ FlowInv /\ BusyInv /\ CountInv /\ QuietInv /\ CallInv /\ PoolInv
      /\ AnswerInv /\ OrderInv
  BY DEF IndInv
<1>p. p \in Pm /\ p # 0 /\ CallSound(m, s)
  BY CallerIs DEF OwnCall
<1>q. /\ \A n \in Msg, t \in Sink : call[n][t].pm = p => n = m /\ t = s
      /\ \A t \in Sink : p \in Holds(t) => t = s
  BY <1>p DEF CallSound, OwnCall
<1>1. /\ CallInv' /\ call' \in [Msg -> [Sink -> CallRecord]] /\ call'[m][s] = c
      /\ \A n \in Msg, t \in Sink : n # m \/ t # s => call'[n][t] = call[n][t]
  <2>1. call[m][s].state # "none" /\ c.state # "none" /\ (c.pm = 0 <=> c.state \in {"ok", "err"})
    BY DEF OwnCall
  <2>2. call' = [call EXCEPT ![m][s] = c] /\ UNCHANGED <<busy, target>>
    BY DEF OwnCall
  <2> QED
    BY <2>1, <2>2, <1>a, CallStep
<1>c. c.state \in {"wait", "ok", "err"} /\ (c.pm = 0 <=> c.state # "wait") /\ c.pm \in {0, p}
      /\ p = call[m][s].pm
  BY DEF OwnCall
<1>m. /\ \A x \in Pm : x # p => pm'[x] = pm[x]
      /\ \A t \in Sink : p \in Holds(t) =>
           pm'[p].refs > 0 /\ pm'[p].done = "empty" /\ pm'[p].msg = pm[p].msg
  BY DEF OwnPm
<1>2. TypeOK'
  BY <1>1, <1>a DEF TypeOK, CallRecord, PmRecord, OwnPm, OwnSpill
<1>h. \A t \in Sink : Holds(t)' = Holds(t) /\ Holds(t) \subseteq Pm
  BY <1>a, WriterTypes DEF Holds
<1>3. PoolInv'
  <2>1. \A x \in Pool' : pm'[x] = Free
    BY <1>a DEF PoolInv, Pool, OwnPm
  <2>2. ASSUME NEW t \in Sink PROVE HeldSound(t)'
    <3>1. HeldSound(t)
      BY <1>a DEF PoolInv
    <3>2. \A x \in Holds(t) : pm'[x].refs > 0 /\ pm'[x].done = "empty" /\ pm'[x].msg # 0
      BY <3>1, <1>h, <1>m DEF HeldSound
    <3> QED
      BY <3>1, <3>2, <1>h DEF HeldSound
  <2>3. ASSUME NEW n \in Msg, NEW t \in Sink PROVE CallSound(n, t)'
    <3>0. \A k \in Msg, x \in Sink : call'[k][x].pm # 0 => call'[k][x].pm = call[k][x].pm
      BY <1>1, <1>c
    <3>1. CallSound(n, t)
      BY <1>a DEF PoolInv
    <3>2. CASE n = m /\ t = s
      <4>1. CASE c.pm = 0
        BY <3>2, <4>1, <1>1 DEF CallSound
      <4>2. CASE c.pm = p
        <5>1. At(n, t, "wait")' /\ call'[n][t].pm = p
          BY <3>2, <4>2, <1>1, <1>c, <1>p DEF At
        <5>2. \A k \in Msg, x \in Sink : call'[k][x].pm = p => k = n /\ x = t
          BY <3>0, <3>2, <1>p, <1>q
        <5>3. \A x \in Sink : p \notin Holds(x)'
          BY <4>2, <1>q, <1>h DEF OwnPm
        <5> QED
          BY <5>1, <5>2, <5>3, <3>2, <4>2 DEF CallSound, OwnPm
      <4> QED
        BY <4>1, <4>2, <1>c
    <3>3. CASE n # m \/ t # s
      <4>1. call'[n][t] = call[n][t] /\ call[n][t].pm # p
        BY <3>3, <1>1, <1>q
      <4>2. At(n, t, "wait")' <=> At(n, t, "wait")
        BY <4>1 DEF At
      <4>3. call[n][t].pm # 0 => pm'[call[n][t].pm] = pm[call[n][t].pm]
        BY <4>1, <1>a, <1>m, WriterTypes
      <4> QED
        BY <4>1, <4>2, <4>3, <3>0, <3>1, <1>h DEF CallSound, OwnSpill
    <3> QED
      BY <3>2, <3>3
  <2> QED
    BY <2>1, <2>2, <2>3 DEF PoolInv
<1>4. AnswerInv'
  <2>1. \A n, t : Kept(n, t) => Kept(n, t)'
    BY KeptStays DEF OwnSpill
  <2>2. ASSUME NEW n \in Msg, NEW t \in Sink,
               At(n, t, "ok")' \/ (At(n, t, "wait")' /\ pm'[call'[n][t].pm].done = "ok")
        PROVE  Kept(n, t)'
    <3>1. CASE n = m /\ t = s
      BY <3>1, <2>2, <1>1, <1>c, <1>p DEF At, OwnPm
    <3>2. CASE n # m \/ t # s
      <4>1. call'[n][t] = call[n][t] /\ call[n][t].pm # p
        BY <3>2, <1>1, <1>q
      <4>2. At(n, t, "wait") => call[n][t].pm \in Pm
        BY <1>a, WriterTypes DEF CallInv, At
      <4>3. At(n, t, "ok") \/ (At(n, t, "wait") /\ pm[call[n][t].pm].done = "ok")
        BY <4>1, <4>2, <2>2, <1>m DEF At
      <4> QED
        BY <4>3, <2>1, <1>a DEF AnswerInv
    <3> QED
      BY <3>1, <3>2
  <2> QED
    BY <2>2 DEF AnswerInv
<1>5. OrderInv'
  <2>1. \A v \in Worker, t \in Sink : Unsent(v, t)' => Unsent(v, t)
    <3>1. call'[m][s].state \notin NotSent
      BY <1>1, <1>c DEF NotSent
    <3>2. UNCHANGED busy
      OBVIOUS
    <3> QED
      BY <3>1, <3>2, <1>1, <1>a, UnsentKept
  <2>2. \A n : Past(n)' <=> Past(n)
    BY <1>a, PathFrame
  <2> SUFFICES ASSUME NEW t \in Sink PROVE OrderOf(t)'
    BY DEF OrderInv
  <2>3. OrderOf(t)
    BY <1>a DEF OrderInv
  <2>4. \A x \in Holds(t) : pm'[x].msg = pm[x].msg
    BY <1>h, <1>m
  <2>5. spilled \subseteq spilled' /\ \A n \in Range(spill'[t]) : <<n, t>> \in spilled' /\ Past(n)
    BY DEF OwnSpill
  <2> QED
    BY <2>1, <2>2, <2>3, <2>4, <2>5, OrderSame
<1>6. spilled \subseteq spilled'
  BY DEF OwnSpill
<1> QED
  BY <1>1, <1>2, <1>3, <1>4, <1>5, <1>6, WriterStep

LEMMA RefuseInd ==
  ASSUME IndInv, NEW m \in Msg, NEW s \in Sink, Refuse(m, s) PROVE IndInv'
<1>a. TypeOK /\ PoolInv /\ OrderInv
  BY DEF IndInv
<1>0. PICK p : p = call[m][s].pm
  OBVIOUS
<1> DEFINE R == [x \in {p} |-> "err"]
<1>u. /\ call[m][s].state \in {"enqueue", "full", "retry"} /\ Goes(m, s, "wait")
      /\ pm' = Answered(R)
      /\ UNCHANGED <<life, unread, hold, buffer, consuming, queue, busy, inFlight, target, chan,
                     batch, spill, written, spilled, parked, refused, acked>>
  BY <1>0 DEF Refuse, At, flow
<1>c. PICK c \in CallRecord :
        c.pm = p /\ c.state = "wait" /\ call' = [call EXCEPT ![m][s] = c]
  BY <1>0, <1>a, <1>u, GoesIs
<1>p. p \in Pm /\ p # 0 /\ CallSound(m, s)
  BY <1>0, <1>u, CallerIs
<1>q. pm[p] = [msg |-> m, refs |-> 2, done |-> "empty"] /\ \A t \in Sink : p \notin Holds(t)
  BY <1>0, <1>p, <1>u DEF CallSound, At
<1>1. /\ pm' \in [Pm -> PmRecord] /\ \A x \in Pm : x # p => pm'[x] = pm[x]
      /\ pm'[p] = [msg |-> m, refs |-> 1, done |-> "err"]
  <2>1. DOMAIN R = {p} /\ R[p] = "err"
    OBVIOUS
  <2> HIDE DEF R
  <2>2. pm[p].refs = 2 /\ pm[p].done = "empty" /\ pm[p].msg = m
    BY <1>q
  <2> QED
    BY <2>1, <2>2, <1>a, <1>p, <1>u, AnsweredIs
<1> HIDE DEF R
<1>2. pm'[p].msg = m /\ pm'[p].refs = 1 /\ pm'[p].done = "err"
  BY <1>1
<1>3. \A t \in Sink : \A n \in Range(spill'[t]) : <<n, t>> \in spilled' /\ Past(n)
  BY <1>a, <1>u DEF OrderInv, OrderOf
<1>4. spill' \in [Sink -> Seq(Msg)] /\ spilled' \subseteq Msg \X Sink
  BY <1>a, <1>u DEF TypeOK
<1>5. OwnCall(m, s, p, c)
  BY <1>0, <1>c, <1>p, <1>u DEF OwnCall
<1>6. OwnPm(m, s, p, c)
  BY <1>c, <1>q, <1>1, <1>2 DEF OwnPm
<1>7. OwnSpill
  BY <1>3, <1>4, <1>u DEF OwnSpill
<1> QED
  BY <1>5, <1>6, <1>7, <1>u, OwnObject

LEMMA SpillOutInd ==
  ASSUME IndInv, NEW m \in Msg, NEW s \in Sink, SpillOut(m, s) PROVE IndInv'
<1>a. TypeOK /\ PoolInv /\ OrderInv
  BY DEF IndInv
<1>0. PICK p : p = call[m][s].pm
  OBVIOUS
<1> DEFINE R == [x \in {p} |-> "ok"]
<1>u. /\ call[m][s].state = "full" /\ Goes(m, s, "wait")
      /\ pm' = [Answered(R) EXCEPT ![p].msg = 0]
      /\ spill' = [spill EXCEPT ![s] = Append(@, m)] /\ spilled' = spilled \cup {<<m, s>>}
      /\ UNCHANGED <<life, unread, hold, buffer, consuming, queue, busy, inFlight, target, chan,
                     batch, written, parked, refused, acked>>
  BY <1>0 DEF SpillOut, At, flow
<1>c. PICK c \in CallRecord :
        c.pm = p /\ c.state = "wait" /\ call' = [call EXCEPT ![m][s] = c]
  BY <1>0, <1>a, <1>u, GoesIs
<1>p. p \in Pm /\ p # 0 /\ CallSound(m, s) /\ Past(m)
  BY <1>0, <1>u, CallerIs
<1>q. pm[p] = [msg |-> m, refs |-> 2, done |-> "empty"] /\ \A t \in Sink : p \notin Holds(t)
  BY <1>0, <1>p, <1>u DEF CallSound, At
<1>1. /\ pm' \in [Pm -> PmRecord] /\ \A x \in Pm : x # p => pm'[x] = pm[x]
      /\ pm'[p].msg = 0 /\ pm'[p].refs = 1 /\ pm'[p].done = "ok"
  <2>1. DOMAIN R = {p} /\ R[p] = "ok"
    OBVIOUS
  <2>2. pm[p].refs = 2 /\ pm[p].done = "empty" /\ pm[p].msg = m
    BY <1>q
  <2>3. PICK g \in [Pm -> PmRecord] : g = Answered(R)
    <3> HIDE DEF R
    <3> QED
      BY <2>1, <1>a, <1>p, AnsweredIs
  <2>4. /\ \A x \in Pm : x # p => g[x] = pm[x]
        /\ g[p] = [msg |-> m, refs |-> 1, done |-> "ok"]
    <3> HIDE DEF R
    <3>1. DOMAIN R \subseteq Pm /\ \A x \in DOMAIN R : R[x] \in {"ok", "err"}
      BY <2>1, <1>p
    <3>2. /\ \A x \in Pm \ DOMAIN R : Answered(R)[x] = pm[x]
          /\ \A x \in DOMAIN R : pm[x].refs = 2 /\ pm[x].done = "empty" =>
               Answered(R)[x] = [msg |-> pm[x].msg, refs |-> 1, done |-> R[x]]
      BY <3>1, <1>a, AnsweredIs
    <3> QED
      BY <2>1, <2>2, <2>3, <3>2
  <2>5. pm' = [g EXCEPT ![p].msg = 0]
    BY <2>3, <1>u
  <2>6. g[p] \in PmRecord /\ g[p].refs = 1 /\ g[p].done = "ok"
    BY <2>4, <1>p
  <2>7. [g[p] EXCEPT !.msg = 0] \in PmRecord /\ [g[p] EXCEPT !.msg = 0].msg = 0
        /\ [g[p] EXCEPT !.msg = 0].refs = 1 /\ [g[p] EXCEPT !.msg = 0].done = "ok"
    BY <2>6 DEF PmRecord
  <2>8. pm'[p] = [g[p] EXCEPT !.msg = 0] /\ \A x \in Pm : x # p => pm'[x] = g[x]
    BY <2>5, <1>p
  <2>9. pm' \in [Pm -> PmRecord]
    BY <2>5, <2>7, <2>8
  <2> QED
    BY <2>4, <2>7, <2>8, <2>9
<1> HIDE DEF R
<1>2. \A t \in Sink : \A n \in Range(spill'[t]) : <<n, t>> \in spilled' /\ Past(n)
  <2>1. spill[s] \in Seq(Msg) /\ DOMAIN spill = Sink
    BY <1>a DEF TypeOK
  <2>2. Range(spill'[s]) = Range(spill[s]) \cup {m} /\ \A t \in Sink : t # s => spill'[t] = spill[t]
    BY <2>1, <1>u, AtEnd
  <2> QED
    BY <2>2, <1>a, <1>p, <1>u DEF OrderInv, OrderOf
<1>3. spill' \in [Sink -> Seq(Msg)] /\ spilled' \subseteq Msg \X Sink /\ spilled \subseteq spilled'
  <2>1. spill[s] \in Seq(Msg) /\ spill \in [Sink -> Seq(Msg)] /\ spilled \subseteq Msg \X Sink
    BY <1>a DEF TypeOK
  <2>2. Append(spill[s], m) \in Seq(Msg)
    BY <2>1, AtEnd
  <2> QED
    BY <2>1, <2>2, <1>u
<1>4. Kept(m, s)'
  BY <1>u DEF Kept
<1>5. <<m, s>> \in spilled'
  BY <1>u
<1>6. OwnCall(m, s, p, c)
  BY <1>0, <1>c, <1>p, <1>u DEF OwnCall
<1>7. OwnPm(m, s, p, c)
  BY <1>c, <1>q, <1>1, <1>4, <1>5 DEF OwnPm
<1>8. OwnSpill
  BY <1>2, <1>3 DEF OwnSpill
<1> QED
  BY <1>6, <1>7, <1>8, <1>u, OwnObject

LEMMA AwaitInd ==
  ASSUME IndInv, NEW m \in Msg, NEW s \in Sink, Await(m, s) PROVE IndInv'
<1>a. TypeOK /\ PoolInv /\ AnswerInv /\ OrderInv
  BY DEF IndInv
<1>0. PICK p : p = call[m][s].pm
  OBVIOUS
<1>u. /\ call[m][s].state = "wait" /\ pm[p].done # "empty" /\ Ends(m, s, pm[p].done)
      /\ pm' = [pm EXCEPT ![p] = Released([@ EXCEPT !.done = "empty"])]
      /\ UNCHANGED <<life, unread, hold, buffer, consuming, queue, busy, inFlight, target, chan,
                     batch, spill, written, spilled, parked, refused, acked>>
  BY <1>0 DEF Await, flow
<1>p. p \in Pm /\ p # 0 /\ CallSound(m, s)
  BY <1>0, <1>u, CallerIs
<1>q. /\ pm[p] \in PmRecord /\ pm[p].done \in {"ok", "err"} /\ pm[p].refs = 1
      /\ \A t \in Sink : p \notin Holds(t)
  <2>1. pm[p] \in PmRecord
    BY <1>a, <1>p DEF TypeOK, PmRecord
  <2>2. p \notin Holds(s)
    BY <1>a, <1>u DEF PoolInv, HeldSound
  <2> QED
    BY <2>1, <2>2, <1>0, <1>p, <1>u DEF CallSound, At, PmRecord
<1>c. PICK c \in CallRecord : c.pm = 0 /\ c.state = pm[p].done /\ call' = [call EXCEPT ![m][s] = c]
  <2>1. [state |-> pm[p].done, pm |-> 0] \in CallRecord
    BY <1>q DEF CallRecord
  <2> QED
    BY <2>1, <1>u DEF Ends
<1>1. pm' \in [Pm -> PmRecord] /\ pm'[p] = Free /\ \A x \in Pm : x # p => pm'[x] = pm[x]
  <2>1. [pm[p] EXCEPT !.done = "empty"] \in PmRecord /\ [pm[p] EXCEPT !.done = "empty"].refs = 1
    BY <1>q DEF PmRecord
  <2>2. Released([pm[p] EXCEPT !.done = "empty"]) = Free /\ Free \in PmRecord
    BY <2>1, ReleasedIs
  <2>3. pm \in [Pm -> PmRecord]
    BY <1>a DEF TypeOK, PmRecord
  <2> QED
    BY <2>2, <2>3, <1>p, <1>u
<1>2. c.state = "ok" => Kept(m, s)'
  <2>1. c.state = "ok" => Kept(m, s)
    BY <1>0, <1>a, <1>c, <1>u DEF AnswerInv, At
  <2>2. \A n, t : Kept(n, t) => Kept(n, t)'
    BY <1>u, KeptStays
  <2> QED
    BY <2>1, <2>2
<1>3. OwnCall(m, s, p, c)
  BY <1>0, <1>c, <1>q, <1>u DEF OwnCall
<1>4. OwnPm(m, s, p, c)
  BY <1>c, <1>p, <1>q, <1>1, <1>2 DEF OwnPm
<1>5. OwnSpill
  BY <1>a, <1>u DEF OwnSpill, OrderInv, OrderOf, TypeOK
<1> QED
  BY <1>3, <1>4, <1>5, <1>u, OwnObject

LEMMA GiveUpInd ==
  ASSUME IndInv, NEW m \in Msg, NEW s \in Sink, GiveUp(m, s) PROVE IndInv'
<1>a. TypeOK /\ PoolInv /\ OrderInv
  BY DEF IndInv
<1>0. PICK p : p = call[m][s].pm
  OBVIOUS
<1>u. /\ call[m][s].state = "wait" /\ Ends(m, s, "err")
      /\ pm' = [pm EXCEPT ![p] = Released(@)]
      /\ UNCHANGED <<life, unread, hold, buffer, consuming, queue, busy, inFlight, target, chan,
                     batch, spill, written, spilled, parked, refused, acked>>
  BY <1>0 DEF GiveUp, flow
<1>p. p \in Pm /\ p # 0 /\ CallSound(m, s)
  BY <1>0, <1>u, CallerIs
<1>q. /\ pm[p] \in PmRecord /\ pm \in [Pm -> PmRecord]
      /\ \A t \in Sink : p \in Holds(t) => t = s
      /\ p \notin Holds(s) => pm[p].refs = 1
      /\ p \in Holds(s) => pm[p].refs = 2 /\ pm[p].done = "empty"
  <2>1. pm[p] \in PmRecord /\ pm \in [Pm -> PmRecord]
    BY <1>a, <1>p DEF TypeOK, PmRecord
  <2> QED
    BY <2>1, <1>0, <1>p, <1>u DEF CallSound, At
<1>c. PICK c \in CallRecord : c.pm = 0 /\ c.state = "err" /\ call' = [call EXCEPT ![m][s] = c]
  <2>1. [state |-> "err", pm |-> 0] \in CallRecord
    BY DEF CallRecord
  <2> QED
    BY <2>1, <1>u DEF Ends
<1>1. /\ pm' \in [Pm -> PmRecord] /\ \A x \in Pm : x # p => pm'[x] = pm[x]
      /\ pm'[p] = Released(pm[p])
  <2>1. Released(pm[p]) \in PmRecord
    BY <1>q, ReleasedIs
  <2> QED
    BY <2>1, <1>p, <1>q, <1>u
<1>2. /\ p \notin Holds(s) => pm'[p] = Free
      /\ p \in Holds(s) => pm'[p].refs = 1 /\ pm'[p].done = "empty" /\ pm'[p].msg = pm[p].msg
  BY <1>q, <1>1, ReleasedIs
<1>3. OwnCall(m, s, p, c)
  BY <1>0, <1>c, <1>u DEF OwnCall
<1>4. OwnPm(m, s, p, c)
  BY <1>c, <1>p, <1>q, <1>1, <1>2 DEF OwnPm
<1>5. OwnSpill
  BY <1>a, <1>u DEF OwnSpill, OrderInv, OrderOf, TypeOK
<1> QED
  BY <1>3, <1>4, <1>5, <1>u, OwnObject

-----------------------------------------------------------------------------
(* The writers. *)

(* The writer of s lets go of the objects D. *)
Drops(s, D) ==
  /\ chan' \in [Sink -> Seq(Pm)] /\ batch' \in [Sink -> Seq(Pm)]
  /\ \A t \in Sink : t # s => chan'[t] = chan[t] /\ batch'[t] = batch[t]
  /\ IsInjective(chan'[s]) /\ IsInjective(batch'[s]) /\ Range(chan'[s]) \cap Range(batch'[s]) = {}
  /\ Holds(s)' = Holds(s) \ D

SameCalls ==
  \A n \in Msg, t \in Sink :
    /\ call'[n][t].pm = call[n][t].pm
    /\ (At(n, t, "wait")' <=> At(n, t, "wait")) /\ (At(n, t, "ok")' <=> At(n, t, "ok"))

(* Objects that the writer of s answers and lets go of. *)
LEMMA AnswerHeld ==
  ASSUME TypeOK, CallInv, PoolInv, AnswerInv, NEW s \in Sink, NEW R, DOMAIN R \subseteq Holds(s),
         \A p \in DOMAIN R : R[p] \in {"ok", "err"}, pm' = Answered(R),
         Drops(s, DOMAIN R), SameCalls, spilled' = spilled,
         \A n, t : Kept(n, t) => Kept(n, t)',
         \A p \in DOMAIN R, n \in Msg : R[p] = "ok" /\ n = pm[p].msg => Kept(n, s)'
  PROVE  /\ pm' \in [Pm -> PmRecord] /\ PoolInv' /\ AnswerInv'
         /\ \A p \in Pm \ DOMAIN R : pm'[p] = pm[p]
         /\ \A t \in Sink : \A p \in Holds(t)' : p \in Holds(t) /\ pm'[p] = pm[p]
<1>h. DOMAIN R \subseteq Pm /\ Holds(s) \subseteq Pm
  BY WriterTypes
<1>1. pm' \in [Pm -> PmRecord] /\ \A p \in Pm \ DOMAIN R : pm'[p] = pm[p]
  BY <1>h, AnsweredIs
<1>2. ASSUME NEW p \in DOMAIN R
      PROVE  /\ pm[p].refs \in {1, 2} /\ pm[p].done = "empty"
             /\ pm[p].refs = 1 => pm'[p] = Free
             /\ pm[p].refs = 2 =>
                  pm'[p].msg = pm[p].msg /\ pm'[p].refs = 1 /\ pm'[p].done = R[p]
  <2>1. p \in Holds(s) /\ p \in Pm /\ HeldSound(s)
    BY <1>h DEF PoolInv
  <2>2. pm[p].refs \in 0..2 /\ pm[p].refs > 0 /\ pm[p].done = "empty"
    BY <2>1, WriterTypes DEF HeldSound
  <2>3. /\ pm[p].refs = 1 => pm'[p] = Free
        /\ pm[p].refs = 2 => pm'[p] = [msg |-> pm[p].msg, refs |-> 1, done |-> R[p]]
    BY <2>2, <1>h, AnsweredIs
  <2> QED
    BY <2>2, <2>3
<1>3. /\ \A t \in Sink : t # s => Holds(t)' = Holds(t)
      /\ Holds(s)' = Holds(s) \ DOMAIN R
  BY DEF Drops, Holds
<1>4. \A t \in Sink : t # s => Holds(t) \cap DOMAIN R = {}
  BY DEF PoolInv, HeldSound
<1>5. \A t \in Sink : \A p \in Holds(t)' : p \in Holds(t) /\ p \in Pm /\ pm'[p] = pm[p]
  BY <1>1, <1>3, <1>4, WriterTypes
<1>6. ASSUME NEW n \in Msg, NEW t \in Sink, NEW p, p = call[n][t].pm, p \in DOMAIN R
      PROVE  /\ t = s /\ At(n, t, "wait") /\ p # 0 /\ p \notin Holds(s)' /\ pm[p].msg = n
             /\ pm'[p].msg = n /\ pm'[p].refs = 1 /\ pm'[p].done = R[p]
  <2>1. p \in Holds(s) /\ p # 0
    BY <1>6, <1>h, WriterTypes
  <2>2. CallSound(n, t)
    BY DEF PoolInv
  <2>3. t = s /\ At(n, t, "wait") /\ pm[p].msg = n /\ pm[p].refs = 2
    BY <2>1, <2>2, <1>6 DEF CallSound
  <2> QED
    BY <2>1, <2>3, <1>2, <1>3, <1>6
<1>7. PoolInv'
  <2>1. \A p \in Pool' : pm'[p] = Free
    <3> SUFFICES ASSUME NEW p \in Pm, pm'[p].refs = 0 PROVE pm'[p] = Free
      BY DEF Pool
    <3>1. CASE p \in DOMAIN R
      BY <3>1, <1>2
    <3>2. CASE p \notin DOMAIN R
      BY <3>2, <1>1 DEF PoolInv, Pool
    <3> QED
      BY <3>1, <3>2
  <2>2. ASSUME NEW t \in Sink PROVE HeldSound(t)'
    <3>1. HeldSound(t)
      BY DEF PoolInv
    <3>2. /\ IsInjective(chan'[t]) /\ IsInjective(batch'[t])
          /\ Range(chan'[t]) \cap Range(batch'[t]) = {}
      BY <3>1 DEF Drops, HeldSound
    <3>3. \A x \in Sink \ {t} : Holds(t)' \cap Holds(x)' = {}
      BY <3>1, <1>5 DEF HeldSound
    <3>4. \A p \in Holds(t)' : pm'[p].refs > 0 /\ pm'[p].done = "empty" /\ pm'[p].msg # 0
      BY <3>1, <1>5 DEF HeldSound
    <3> QED
      BY <3>2, <3>3, <3>4 DEF HeldSound
  <2>3. ASSUME NEW n \in Msg, NEW t \in Sink PROVE CallSound(n, t)'
    <3>0. PICK p : p = call[n][t].pm
      OBVIOUS
    <3>1. CallSound(n, t)
      BY DEF PoolInv
    <3>2. /\ call'[n][t].pm = p /\ (At(n, t, "wait")' <=> At(n, t, "wait"))
          /\ \A k \in Msg, x \in Sink : call'[k][x].pm = p => call[k][x].pm = p
      BY <3>0 DEF SameCalls
    <3>3. CASE p \in DOMAIN R
      <4>1. /\ t = s /\ At(n, t, "wait") /\ p # 0 /\ p \notin Holds(s)'
            /\ pm'[p].msg = n /\ pm'[p].refs = 1 /\ pm'[p].done = R[p]
        BY <3>0, <3>3, <1>6
      <4>2. \A x \in Sink : p \notin Holds(x)'
        BY <4>1, <3>3, <1>3, <1>4
      <4>3. R[p] # "empty"
        BY <3>3
      <4> QED
        BY <4>1, <4>2, <4>3, <3>0, <3>1, <3>2 DEF CallSound
    <3>4. CASE p \notin DOMAIN R /\ p # 0
      <4>1. pm'[p] = pm[p]
        BY <3>0, <3>4, <1>1, WriterTypes
      <4>2. \A x \in Sink : p \in Holds(x)' <=> p \in Holds(x)
        BY <3>4, <1>3
      <4> QED
        BY <4>1, <4>2, <3>0, <3>1, <3>2, <3>4 DEF CallSound
    <3>5. CASE p = 0
      BY <3>2, <3>5 DEF CallSound
    <3> QED
      BY <3>3, <3>4, <3>5
  <2> QED
    BY <2>1, <2>2, <2>3 DEF PoolInv
<1>8. AnswerInv'
  <2> SUFFICES ASSUME NEW n \in Msg, NEW t \in Sink,
                      At(n, t, "ok")' \/ (At(n, t, "wait")' /\ pm'[call'[n][t].pm].done = "ok")
               PROVE  Kept(n, t)'
    BY DEF AnswerInv
  <2>0. PICK p : p = call[n][t].pm
    OBVIOUS
  <2>1. CASE At(n, t, "ok")
    BY <2>1 DEF AnswerInv
  <2>2. CASE ~At(n, t, "ok")
    <3>1. At(n, t, "wait") /\ pm'[p].done = "ok"
      BY <2>0, <2>2 DEF SameCalls
    <3>2. p \in Pm
      BY <2>0, <3>1, WriterTypes DEF CallInv, At
    <3>3. CASE p \in DOMAIN R
      BY <2>0, <3>1, <3>3, <1>6
    <3>4. CASE p \notin DOMAIN R
      <4>1. pm[p].done = "ok"
        BY <3>1, <3>2, <3>4, <1>1
      <4> QED
        BY <4>1, <3>1, <2>0 DEF AnswerInv
    <3> QED
      BY <3>3, <3>4
  <2> QED
    BY <2>1, <2>2
<1> QED
  BY <1>1, <1>5, <1>7, <1>8

(* The messages of a writer's channel or batch, as a sequence. *)
LEMMA CarriedSeq ==
  ASSUME NEW a \in Seq(Pm), \A p \in Range(a) : pm[p].msg \in Msg
  PROVE  /\ Carried(a) \in Seq(Msg) /\ DOMAIN Carried(a) = DOMAIN a
         /\ a # <<>> => /\ Carried(a) # <<>> /\ Head(Carried(a)) = pm[Head(a)].msg
                        /\ Carried(Tail(a)) = Tail(Carried(a))
<1>1. DOMAIN a = 1..Len(a) /\ Len(a) \in Nat
  OBVIOUS
<1>2. Carried(a) \in Seq(Msg) /\ DOMAIN Carried(a) = DOMAIN a /\ Len(Carried(a)) = Len(a)
  <2>1. Carried(a) \in [1..Len(a) -> Msg]
    BY <1>1 DEF Carried, Range
  <2> QED
    BY <2>1, <1>1
<1>3. ASSUME a # <<>>
      PROVE  /\ Carried(a) # <<>> /\ Head(Carried(a)) = pm[Head(a)].msg
             /\ Carried(Tail(a)) = Tail(Carried(a))
  <2>1. /\ Tail(a) \in Seq(Pm) /\ Len(a) > 0 /\ a[1] = Head(a) /\ DOMAIN Tail(a) = 1..(Len(a) - 1)
        /\ \A i \in DOMAIN Tail(a) : i + 1 \in DOMAIN a /\ Tail(a)[i] = a[i + 1]
    BY <1>3, AtHead
  <2>2. Carried(a) # <<>>
    BY <2>1, <1>2
  <2>3. /\ Tail(Carried(a)) \in Seq(Msg) /\ Carried(a)[1] = Head(Carried(a))
        /\ DOMAIN Tail(Carried(a)) = 1..(Len(a) - 1)
        /\ \A i \in DOMAIN Tail(Carried(a)) :
             i + 1 \in DOMAIN a /\ Tail(Carried(a))[i] = Carried(a)[i + 1]
    BY <2>2, <1>2, AtHead
  <2>4. Carried(a)[1] = pm[a[1]].msg
    BY <2>1, <1>1 DEF Carried
  <2>5. \A i \in 1..(Len(a) - 1) : Tail(Carried(a))[i] = pm[Tail(a)[i]].msg
    BY <2>1, <2>3 DEF Carried
  <2>6. Tail(Carried(a)) = [i \in 1..(Len(a) - 1) |-> Tail(Carried(a))[i]]
    <3>1. Tail(Carried(a)) \in [DOMAIN Tail(Carried(a)) -> Msg]
      BY <2>3, LenProperties
    <3> QED
      BY <2>3, <3>1
  <2>7. Carried(Tail(a)) = [i \in 1..(Len(a) - 1) |-> pm[Tail(a)[i]].msg]
    BY <2>1 DEF Carried
  <2> QED
    BY <2>1, <2>2, <2>3, <2>4, <2>5, <2>6, <2>7
<1> QED
  BY <1>2, <1>3

LEMMA SortedTail ==
  ASSUME NEW s \in Sink, NEW a \in Seq(Msg), a # <<>>, Sorted(s, a)
  PROVE  Sorted(s, Tail(a)) /\ Follows(s, {Head(a)}, Range(Tail(a)))
<1>1. /\ Len(a) \in Nat \ {0} /\ DOMAIN a = 1..Len(a) /\ a[1] = Head(a)
      /\ DOMAIN Tail(a) = 1..(Len(a) - 1)
      /\ \A i \in DOMAIN Tail(a) : i + 1 \in DOMAIN a /\ Tail(a)[i] = a[i + 1]
  BY AtHead
<1>2. ASSUME NEW i \in DOMAIN Tail(a), NEW j \in DOMAIN Tail(a), i < j
      PROVE  Ordered(s, Tail(a)[i], Tail(a)[j])
  <2>1. i + 1 < j + 1 /\ i + 1 \in DOMAIN a /\ j + 1 \in DOMAIN a
    BY <1>1, <1>2
  <2> QED
    BY <2>1, <1>1 DEF Sorted
<1>3. ASSUME NEW j \in DOMAIN Tail(a) PROVE Ordered(s, Head(a), Tail(a)[j])
  <2>1. 1 < j + 1 /\ 1 \in DOMAIN a /\ j + 1 \in DOMAIN a
    BY <1>1
  <2> QED
    BY <2>1, <1>1 DEF Sorted
<1> QED
  BY <1>2, <1>3 DEF Sorted, Follows, Range

LEMMA SortedAppend ==
  ASSUME NEW s \in Sink, NEW a \in Seq(Msg), NEW x \in Msg, Sorted(s, a),
         Follows(s, Range(a), {x})
  PROVE  Sorted(s, Append(a, x))
<1>1. /\ DOMAIN Append(a, x) = 1..(Len(a) + 1) /\ Append(a, x)[Len(a) + 1] = x
      /\ DOMAIN a = 1..Len(a) /\ Len(a) \in Nat
      /\ \A i \in DOMAIN a : Append(a, x)[i] = a[i]
  BY AtEnd
<1> SUFFICES ASSUME NEW i \in 1..(Len(a) + 1), NEW j \in 1..(Len(a) + 1), i < j
             PROVE  Ordered(s, Append(a, x)[i], Append(a, x)[j])
  BY <1>1 DEF Sorted
<1>2. i \in DOMAIN a
  BY <1>1
<1>3. CASE j = Len(a) + 1
  BY <1>1, <1>2, <1>3 DEF Follows, Range
<1>4. CASE j \in DOMAIN a
  BY <1>1, <1>2, <1>4 DEF Sorted
<1> QED
  BY <1>1, <1>3, <1>4

(* What is on the way to s moves on. *)
LEMMA OrderMoves ==
  ASSUME NEW s \in Sink, OrderOf(s), NEW B, B = Carried(batch[s])', NEW C, C = Carried(chan[s])',
         NEW W, W = written'[s], Sorted(s, W), Sorted(s, B), Sorted(s, C),
         Follows(s, Range(W), Range(B) \cup Range(C)), Follows(s, Range(B), Range(C)),
         Range(W) \cup Range(B) \cup Range(C) \subseteq Given(s),
         \A m : Past(m) => Past(m)', UNCHANGED <<spilled, busy>>, UNCHANGED spill[s],
         \A v \in Worker : Unsent(v, s)' => Unsent(v, s)
  PROVE  OrderOf(s)'
<1>1. \A k, n : Ordered(s, k, n)' <=> Ordered(s, k, n)
  BY DEF Ordered
<1>2. Given(s)' \subseteq Given(s)
  BY DEF Given
<1>3. Sorted(s, written[s])' /\ Sorted(s, Carried(batch[s]))' /\ Sorted(s, Carried(chan[s]))'
  BY <1>1 DEF Sorted
<1>4. /\ Follows(s, Range(written[s]), Range(Carried(batch[s])) \cup Range(Carried(chan[s])))'
      /\ Follows(s, Range(Carried(batch[s])), Range(Carried(chan[s])))'
  BY <1>1 DEF Follows
<1>5. \A m \in Given(s)' :
        Past(m)' /\ \A v \in Worker : Unsent(v, s)' => Ordered(s, m, busy[v])'
  BY <1>1, <1>2 DEF OrderOf
<1>6. \A m \in Range(spill'[s]) : <<m, s>> \in spilled' /\ Past(m)'
  BY DEF OrderOf
<1> QED
  BY <1>3, <1>4, <1>5, <1>6 DEF OrderOf

(* A writer's step leaves the messages, the goroutines and the other writers alone. *)
LEMMA Elsewhere ==
  ASSUME OrderInv, NEW s \in Sink, \A m : Past(m) => Past(m)', UNCHANGED <<spilled, spill, busy>>,
         \A t \in Sink : t # s => UNCHANGED <<written[t], batch[t], chan[t]>>,
         \A t \in Sink : t # s => \A p \in Holds(t) : pm'[p].msg = pm[p].msg,
         \A v \in Worker, t \in Sink : Unsent(v, t)' => Unsent(v, t),
         OrderOf(s)'
  PROVE  OrderInv'
<1> SUFFICES ASSUME NEW t \in Sink, t # s PROVE OrderOf(t)'
  BY DEF OrderInv
<1>1. OrderOf(t)
  BY DEF OrderInv
<1>2. \A m \in Range(spill'[t]) : <<m, t>> \in spilled' /\ Past(m)
  BY <1>1 DEF OrderOf
<1> QED
  BY <1>1, <1>2, OrderSame

(* The head of the channel joins the batch. *)
LEMMA CollectInd ==
  ASSUME IndInv, NEW s \in Sink, Collect(s) PROVE IndInv'
<1>a. /\ TypeOK /\ FlowInv /\ BusyInv /\ CountInv /\ QuietInv /\ CallInv /\ PoolInv
      /\ AnswerInv /\ OrderInv
  BY DEF IndInv
<1>0. PICK p : p = Head(chan[s])
  OBVIOUS
<1>u. /\ chan[s] # <<>> /\ batch' = [batch EXCEPT ![s] = Append(@, p)]
      /\ chan' = [chan EXCEPT ![s] = Tail(@)]
      /\ UNCHANGED <<life, unread, hold, buffer, consuming, queue, busy, inFlight, target, call,
                     pm, spill, written, spilled, parked, refused, acked>>
  BY <1>0 DEF Collect, flow, work
<1>t. /\ chan[s] \in Seq(Pm) /\ batch[s] \in Seq(Pm)
      /\ chan \in [Sink -> Seq(Pm)] /\ batch \in [Sink -> Seq(Pm)]
  BY <1>a DEF TypeOK
<1>h. /\ p \in Pm /\ Tail(chan[s]) \in Seq(Pm) /\ Range(chan[s]) = {p} \cup Range(Tail(chan[s]))
  BY <1>0, <1>t, <1>u, AtHead
<1>b. /\ Append(batch[s], p) \in Seq(Pm) /\ Range(Append(batch[s], p)) = Range(batch[s]) \cup {p}
  BY <1>h, <1>t, AtEnd
<1>1. /\ chan'[s] = Tail(chan[s]) /\ batch'[s] = Append(batch[s], p)
      /\ chan' \in [Sink -> Seq(Pm)] /\ batch' \in [Sink -> Seq(Pm)]
      /\ \A t \in Sink : t # s => chan'[t] = chan[t] /\ batch'[t] = batch[t]
  BY <1>b, <1>h, <1>t, <1>u
<1>s. HeldSound(s)
  BY <1>a DEF PoolInv
<1>2. Drops(s, {})
  <2>1. p \notin Range(batch[s])
    BY <1>h, <1>s DEF HeldSound
  <2>2. IsInjective(Tail(chan[s])) /\ p \notin Range(Tail(chan[s]))
    BY <1>0, <1>s, <1>t, <1>u, InjectiveTail DEF HeldSound
  <2>3. IsInjective(Append(batch[s], p))
    BY <2>1, <1>h, <1>s, <1>t, InjectiveAppend DEF HeldSound
  <2>4. Range(Tail(chan[s])) \cap Range(Append(batch[s], p)) = {}
    BY <2>2, <1>b, <1>h, <1>s DEF HeldSound
  <2>5. Holds(s)' = Holds(s)
    BY <1>1, <1>b, <1>h DEF Holds
  <2> QED
    BY <2>2, <2>3, <2>4, <2>5, <1>1 DEF Drops
<1>k. \A n, t : Kept(n, t) => Kept(n, t)'
  BY <1>u, KeptStays
<1>3. PoolInv' /\ AnswerInv'
  <2>1. PICK R : R = [x \in {} |-> "err"]
    OBVIOUS
  <2>2. DOMAIN R = {}
    BY <2>1
  <2>3. pm' = Answered(R)
    <3>1. pm = [x \in Pm |-> pm[x]]
      BY <1>a DEF TypeOK
    <3> QED
      BY <2>2, <3>1, <1>u DEF Answered
  <2>4. SameCalls
    BY <1>u DEF SameCalls, At
  <2>5. DOMAIN R \subseteq Holds(s) /\ Drops(s, DOMAIN R) /\ spilled' = spilled
    BY <2>2, <1>2, <1>u
  <2>6. /\ \A x \in DOMAIN R : R[x] \in {"ok", "err"}
        /\ \A x \in DOMAIN R, n \in Msg : R[x] = "ok" /\ n = pm[x].msg => Kept(n, s)'
    BY <2>2
  <2> QED
    BY <2>3, <2>4, <2>5, <2>6, <1>a, <1>k, AnswerHeld
<1>4. TypeOK'
  BY <1>1, <1>a, <1>u DEF TypeOK
<1>5. CallInv'
  BY <1>a, <1>u DEF CallInv
<1>6. \A n : Past(n)' <=> Past(n)
  BY <1>a, <1>u, PathFrame
<1>7. OrderOf(s)'
  <2>1. OrderOf(s)
    BY <1>a DEF OrderInv
  <2>m. /\ \A x \in Range(chan[s]) : pm[x].msg \in Msg
        /\ \A x \in Range(batch[s]) : pm[x].msg \in Msg
    BY <1>a, CarriedIs DEF Holds
  <2>2. PICK n : n = pm[p].msg
    OBVIOUS
  <2>3. PICK B : B = Carried(batch[s])
    OBVIOUS
  <2>4. PICK C : C = Carried(chan[s])
    OBVIOUS
  <2>5. /\ C \in Seq(Msg) /\ C # <<>> /\ Head(C) = n /\ Carried(chan[s])' = Tail(C) /\ n \in Msg
        /\ B \in Seq(Msg) /\ DOMAIN B = DOMAIN batch[s]
    <3>1. /\ C \in Seq(Msg) /\ C # <<>> /\ Head(C) = n /\ Carried(Tail(chan[s])) = Tail(C)
          /\ B \in Seq(Msg) /\ DOMAIN B = DOMAIN batch[s]
      BY <2>2, <2>3, <2>4, <2>m, <1>0, <1>t, <1>u, CarriedSeq
    <3>2. Carried(chan[s])' = Carried(Tail(chan[s]))
      BY <1>1, <1>u DEF Carried
    <3> QED
      BY <3>1, <3>2, <2>2, <2>m, <1>h
  <2>6. Carried(batch[s])' = Append(B, n)
    <3>1. /\ DOMAIN batch'[s] = 1..(Len(batch[s]) + 1) /\ batch'[s][Len(batch[s]) + 1] = p
          /\ DOMAIN batch[s] = 1..Len(batch[s]) /\ Len(batch[s]) \in Nat
          /\ \A i \in DOMAIN batch[s] : batch'[s][i] = batch[s][i]
      BY <1>1, <1>h, <1>t, AtEnd
    <3>2. /\ Append(B, n) \in Seq(Msg) /\ DOMAIN Append(B, n) = 1..(Len(B) + 1)
          /\ Append(B, n)[Len(B) + 1] = n /\ DOMAIN B = 1..Len(B) /\ Len(B) \in Nat
          /\ \A i \in DOMAIN B : Append(B, n)[i] = B[i]
      BY <2>5, AtEnd
    <3>3. Len(B) = Len(batch[s])
      BY <3>1, <3>2, <2>5
    <3>4. ASSUME NEW i \in 1..(Len(B) + 1) PROVE pm[batch'[s][i]].msg = Append(B, n)[i]
      <4>1. CASE i = Len(B) + 1
        BY <4>1, <3>1, <3>2, <3>3, <2>2
      <4>2. CASE i \in 1..Len(B)
        BY <4>2, <3>1, <3>2, <3>3, <2>3 DEF Carried
      <4> QED
        BY <4>1, <4>2, <3>2
    <3>5. Append(B, n) = [i \in 1..(Len(B) + 1) |-> Append(B, n)[i]]
      <4>1. Append(B, n) \in [DOMAIN Append(B, n) -> Msg]
        BY <3>2, LenProperties
      <4> QED
        BY <4>1, <3>2
    <3>6. Carried(batch[s])' = [i \in 1..(Len(B) + 1) |-> pm[batch'[s][i]].msg]
      BY <3>1, <3>3, <1>u DEF Carried
    <3> QED
      BY <3>4, <3>5, <3>6
  <2>7. /\ Range(C) = {n} \cup Range(Tail(C)) /\ Range(Append(B, n)) = Range(B) \cup {n}
    BY <2>5, AtHead, AtEnd
  <2>8. /\ Sorted(s, written[s]) /\ Sorted(s, B) /\ Sorted(s, C)
        /\ Follows(s, Range(written[s]), Range(B) \cup Range(C)) /\ Follows(s, Range(B), Range(C))
    BY <2>1, <2>3, <2>4 DEF OrderOf
  <2>9. Sorted(s, Tail(C)) /\ Follows(s, {n}, Range(Tail(C)))
    BY <2>5, <2>8, SortedTail
  <2>10. Sorted(s, Append(B, n))
    <3>1. Follows(s, Range(B), {n})
      BY <2>7, <2>8 DEF Follows
    <3> QED
      BY <3>1, <2>5, <2>8, SortedAppend
  <2>11. /\ Follows(s, Range(written[s]), Range(Append(B, n)) \cup Range(Tail(C)))
         /\ Follows(s, Range(Append(B, n)), Range(Tail(C)))
    BY <2>7, <2>8, <2>9 DEF Follows
  <2>12. Range(written[s]) \cup Range(Append(B, n)) \cup Range(Tail(C)) \subseteq Given(s)
    BY <2>3, <2>4, <2>7 DEF Given
  <2>13. \A v \in Worker : Unsent(v, s)' => Unsent(v, s)
    BY <1>u DEF Unsent
  <2>14. UNCHANGED <<spilled, busy>> /\ UNCHANGED spill[s] /\ written'[s] = written[s]
    BY <1>u
  <2> QED
    BY <2>1, <2>5, <2>6, <2>8, <2>9, <2>10, <2>11, <2>12, <2>13, <2>14, <1>6, OrderMoves
<1>8. OrderInv'
  <2>1. \A v \in Worker, t \in Sink : Unsent(v, t)' => Unsent(v, t)
    BY <1>u DEF Unsent
  <2>2. \A t \in Sink : t # s => UNCHANGED <<written[t], batch[t], chan[t]>>
    BY <1>1, <1>u
  <2>3. \A t \in Sink : t # s => \A x \in Holds(t) : pm'[x].msg = pm[x].msg
    BY <1>u
  <2> QED
    BY <2>1, <2>2, <2>3, <1>6, <1>7, <1>a, <1>u, Elsewhere
<1> QED
  BY <1>3, <1>4, <1>5, <1>8, <1>u, WriterStep

(* A batch is answered, whatever of it reached the sink. *)
LEMMA BatchInd ==
  ASSUME IndInv, NEW s \in Sink, NEW R, DOMAIN R = Range(batch[s]),
         \A p \in DOMAIN R : R[p] \in {"ok", "err"}, pm' = Answered(R),
         batch' = [batch EXCEPT ![s] = <<>>],
         parked \subseteq parked', parked' \subseteq Msg \X (Sink \cup {NoSink}),
         refused \subseteq refused', refused' \subseteq Msg \X Sink,
         written' \in [Sink -> Seq(Msg)], \A t \in Sink : t # s => written'[t] = written[t],
         Range(written[s]) \subseteq Range(written'[s]),
         Range(written'[s]) \subseteq Range(written[s]) \cup Range(Carried(batch[s])),
         Sorted(s, written'[s]),
         \A p \in DOMAIN R, n \in Msg : R[p] = "ok" /\ n = pm[p].msg => Kept(n, s)',
         UNCHANGED <<life, unread, hold, buffer, consuming, queue, busy, inFlight, target, call,
                     chan, spill, spilled, acked>>
  PROVE  IndInv'
<1>a. /\ TypeOK /\ FlowInv /\ BusyInv /\ CountInv /\ QuietInv /\ CallInv /\ PoolInv
      /\ AnswerInv /\ OrderInv
  BY DEF IndInv
<1>t. batch \in [Sink -> Seq(Pm)] /\ chan \in [Sink -> Seq(Pm)] /\ <<>> \in Seq(Pm)
  BY <1>a DEF TypeOK
<1>1. /\ batch'[s] = <<>> /\ batch' \in [Sink -> Seq(Pm)] /\ chan' \in [Sink -> Seq(Pm)]
      /\ \A t \in Sink : t # s => chan'[t] = chan[t] /\ batch'[t] = batch[t]
      /\ Range(batch'[s]) = {}
  <2>1. batch'[s] = <<>> /\ batch' \in [Sink -> Seq(Pm)] /\ chan' \in [Sink -> Seq(Pm)]
        /\ \A t \in Sink : t # s => chan'[t] = chan[t] /\ batch'[t] = batch[t]
    BY <1>t
  <2>2. Range(<<>>) = {}
    BY DEF Range
  <2> QED
    BY <2>1, <2>2
<1>s. HeldSound(s)
  BY <1>a DEF PoolInv
<1>r. \A t \in Sink : Range(written[t]) \subseteq Range(written'[t])
  OBVIOUS
<1>k. \A n, t : Kept(n, t) => Kept(n, t)'
  BY <1>r, KeptStays
<1>2. Drops(s, DOMAIN R)
  <2>1. IsInjective(<<>>)
    BY DEF IsInjective
  <2>2. Holds(s)' = Holds(s) \ DOMAIN R
    BY <1>1, <1>s DEF Holds, HeldSound
  <2>3. IsInjective(chan'[s])
    BY <1>s DEF HeldSound
  <2> QED
    BY <2>1, <2>2, <2>3, <1>1 DEF Drops
<1>3. /\ pm' \in [Pm -> PmRecord] /\ PoolInv' /\ AnswerInv'
      /\ \A p \in Pm \ DOMAIN R : pm'[p] = pm[p]
      /\ \A t \in Sink : \A p \in Holds(t)' : p \in Holds(t) /\ pm'[p] = pm[p]
  <2>1. SameCalls
    BY DEF SameCalls, At
  <2>2. DOMAIN R \subseteq Holds(s)
    BY DEF Holds
  <2>3. /\ \A p \in DOMAIN R : R[p] \in {"ok", "err"} /\ pm' = Answered(R) /\ spilled' = spilled
        /\ \A p \in DOMAIN R, n \in Msg : R[p] = "ok" /\ n = pm[p].msg => Kept(n, s)'
    OBVIOUS
  <2> QED
    BY <2>1, <2>2, <2>3, <1>2, <1>a, <1>k, AnswerHeld
<1>4. TypeOK'
  BY <1>1, <1>3, <1>a DEF TypeOK, PmRecord
<1>5. CallInv'
  BY <1>a DEF CallInv
<1>6. \A n : Past(n)' <=> Past(n)
  BY <1>a, PathFrame
<1>7. \A v \in Worker, t \in Sink : Unsent(v, t)' => Unsent(v, t)
  BY DEF Unsent
<1>8. OrderOf(s)'
  <2>1. OrderOf(s)
    BY <1>a DEF OrderInv
  <2>2. Carried(batch[s])' = <<>>
    BY <1>1 DEF Carried
  <2>3. Carried(chan[s])' = Carried(chan[s])
    <3>1. \A i \in DOMAIN chan[s] : chan[s][i] \in Holds(s)'
      BY DEF Holds, Range
    <3> QED
      BY <3>1, <1>3 DEF Carried
  <2>4. PICK C : C = Carried(chan[s])
    OBVIOUS
  <2>5. PICK W : W = written'[s]
    OBVIOUS
  <2>6. Sorted(s, W) /\ Sorted(s, <<>>) /\ Sorted(s, C) /\ Range(<<>>) = {}
    BY <2>1, <2>4, <2>5 DEF OrderOf, Sorted, Range
  <2>7. Range(W) \subseteq Range(written[s]) \cup Range(Carried(batch[s]))
    BY <2>5
  <2>8. Follows(s, Range(W), Range(<<>>) \cup Range(C)) /\ Follows(s, Range(<<>>), Range(C))
    BY <2>1, <2>4, <2>6, <2>7 DEF OrderOf, Follows
  <2>9. Range(W) \cup Range(<<>>) \cup Range(C) \subseteq Given(s)
    BY <2>4, <2>6, <2>7 DEF Given
  <2>10. UNCHANGED <<spilled, busy>> /\ UNCHANGED spill[s]
    OBVIOUS
  <2> QED
    BY <2>1, <2>2, <2>3, <2>4, <2>5, <2>6, <2>8, <2>9, <2>10, <1>6, <1>7, OrderMoves
<1>9. OrderInv'
  <2>1. \A t \in Sink : t # s => UNCHANGED <<written[t], batch[t], chan[t]>>
    BY <1>1
  <2>2. \A t \in Sink : t # s => \A x \in Holds(t) : pm'[x].msg = pm[x].msg
    <3>1. \A t \in Sink : t # s => Holds(t)' = Holds(t)
      BY <1>1 DEF Holds
    <3> QED
      BY <3>1, <1>3
  <2>3. UNCHANGED <<spilled, spill, busy>>
    OBVIOUS
  <2> QED
    BY <2>1, <2>2, <2>3, <1>6, <1>7, <1>8, <1>a, Elsewhere
<1>10. UNCHANGED <<life, unread, hold, buffer, consuming, queue, busy, inFlight, target,
                   spilled, acked>>
  OBVIOUS
<1> QED
  BY <1>3, <1>4, <1>5, <1>9, <1>10, <1>r, WriterStep

LEMMA RefuseBatchInd ==
  ASSUME IndInv, NEW s \in Sink, RefuseBatch(s) PROVE IndInv'
<1>a. TypeOK /\ OrderInv
  BY DEF IndInv
<1>0. PICK R : R = [p \in {batch[s][i] : i \in DOMAIN batch[s]} |-> "err"]
  OBVIOUS
<1>u. /\ pm' = Answered(R) /\ batch' = [batch EXCEPT ![s] = <<>>]
      /\ UNCHANGED <<life, unread, hold, buffer, consuming, queue, busy, inFlight, target, call,
                     chan, spill, written, spilled, parked, refused, acked>>
  BY <1>0 DEF RefuseBatch, flow, work
<1>1. DOMAIN R = Range(batch[s]) /\ \A p \in DOMAIN R : R[p] = "err"
  BY <1>0 DEF Range
<1>2. /\ parked' \subseteq Msg \X (Sink \cup {NoSink}) /\ parked \subseteq parked'
      /\ refused' \subseteq Msg \X Sink /\ refused \subseteq refused'
      /\ written' \in [Sink -> Seq(Msg)]
      /\ \A t \in Sink : written'[t] = written[t]
  BY <1>a, <1>u DEF TypeOK
<1>3. Sorted(s, written'[s])
  BY <1>a, <1>2 DEF OrderInv, OrderOf
<1>4. /\ \A p \in DOMAIN R : R[p] \in {"ok", "err"}
      /\ \A p \in DOMAIN R, n \in Msg : R[p] = "ok" /\ n = pm[p].msg => Kept(n, s)'
  BY <1>1
<1> QED
  BY <1>1, <1>2, <1>3, <1>4, <1>u, BatchInd

(* What joins a sink's sequence, in the order of the batch, keeps it in order. *)
LEMMA SortedJoin ==
  ASSUME NEW s \in Sink, NEW W \in Seq(Msg), NEW B \in Seq(Msg), Sorted(s, W), Sorted(s, B),
         Follows(s, Range(W), Range(B)), NEW k \in Nat, NEW place \in [1..k -> DOMAIN B],
         \A i, j \in 1..k : i < j => place[i] < place[j],
         NEW A \in [1..k -> Msg], \A i \in 1..k : A[i] = B[place[i]]
  PROVE  /\ W \o A \in Seq(Msg) /\ Sorted(s, W \o A)
         /\ Range(W) \subseteq Range(W \o A) /\ Range(W \o A) \subseteq Range(W) \cup Range(B)
         /\ \A i \in 1..k : B[place[i]] \in Range(W \o A)
<1>b. DOMAIN B = 1..Len(B) /\ DOMAIN W = 1..Len(W) /\ Len(W) \in Nat /\ Len(B) \in Nat
      /\ \A i \in DOMAIN B : B[i] \in Msg
  OBVIOUS
<1>1. A \in Seq(Msg) /\ Len(A) = k
  OBVIOUS
<1>2. /\ W \o A \in Seq(Msg) /\ DOMAIN (W \o A) = 1..(Len(W) + k)
      /\ \A i \in 1..(Len(W) + k) : (W \o A)[i] = IF i <= Len(W) THEN W[i] ELSE A[i - Len(W)]
  <2>1. /\ W \o A \in Seq(Msg) /\ Len(W \o A) = Len(W) + k
        /\ \A i \in 1..(Len(W) + k) : (W \o A)[i] = IF i <= Len(W) THEN W[i] ELSE A[i - Len(W)]
    BY <1>1, ConcatProperties
  <2> QED
    BY <2>1, LenProperties
<1>3. \A i \in 1..k : A[i] = B[place[i]] /\ place[i] \in DOMAIN B
  OBVIOUS
<1>4. ASSUME NEW i \in 1..(Len(W) + k)
      PROVE  \/ i \in DOMAIN W /\ (W \o A)[i] = W[i]
             \/ i - Len(W) \in 1..k /\ i > Len(W) /\ (W \o A)[i] = B[place[i - Len(W)]]
  BY <1>2, <1>3, <1>b
<1>5. Sorted(s, W \o A)
  <2> SUFFICES ASSUME NEW i \in 1..(Len(W) + k), NEW j \in 1..(Len(W) + k), i < j
               PROVE  Ordered(s, (W \o A)[i], (W \o A)[j])
    BY <1>2 DEF Sorted
  <2>1. CASE j \in DOMAIN W /\ (W \o A)[j] = W[j]
    <3>1. i \in DOMAIN W /\ (W \o A)[i] = W[i]
      BY <2>1, <1>4, <1>b
    <3> QED
      BY <2>1, <3>1 DEF Sorted
  <2>2. CASE j - Len(W) \in 1..k /\ j > Len(W) /\ (W \o A)[j] = B[place[j - Len(W)]]
    <3>1. CASE i \in DOMAIN W /\ (W \o A)[i] = W[i]
      <4>1. W[i] \in Range(W) /\ B[place[j - Len(W)]] \in Range(B)
        BY <2>2, <3>1, <1>3 DEF Range
      <4> QED
        BY <4>1, <2>2, <3>1 DEF Follows
    <3>2. CASE i - Len(W) \in 1..k /\ i > Len(W) /\ (W \o A)[i] = B[place[i - Len(W)]]
      <4>1. i - Len(W) < j - Len(W)
        BY <1>b
      <4>2. place[i - Len(W)] < place[j - Len(W)]
        BY <4>1, <2>2, <3>2
      <4> QED
        BY <4>2, <2>2, <3>2, <1>3 DEF Sorted
    <3> QED
      BY <3>1, <3>2, <1>4
  <2> QED
    BY <2>1, <2>2, <1>4
<1>6. Range(W) \subseteq Range(W \o A)
  <2> SUFFICES ASSUME NEW x \in Range(W) PROVE x \in Range(W \o A)
    OBVIOUS
  <2>1. PICK i \in DOMAIN W : x = W[i]
    BY DEF Range
  <2>2. i \in DOMAIN (W \o A) /\ (W \o A)[i] = x
    BY <2>1, <1>2, <1>b
  <2> QED
    BY <2>2 DEF Range
<1>7. Range(W \o A) \subseteq Range(W) \cup Range(B)
  BY <1>2, <1>3, <1>4 DEF Range
<1>8. ASSUME NEW i \in 1..k PROVE B[place[i]] \in Range(W \o A)
  <2>1. Len(W) + i \in 1..(Len(W) + k) /\ ~(Len(W) + i <= Len(W)) /\ (Len(W) + i) - Len(W) = i
    BY <1>b
  <2>2. (W \o A)[Len(W) + i] = B[place[i]]
    BY <2>1, <1>2, <1>3
  <2> QED
    BY <2>1, <2>2, <1>2 DEF Range
<1> QED
  BY <1>2, <1>5, <1>6, <1>7, <1>8

LEMMA FlushInd ==
  ASSUME IndInv, NEW s \in Sink, NEW fates \in [DOMAIN batch[s] -> Fate],
         NEW whole \in BOOLEAN, NEW landed \in BOOLEAN, Flush(s, fates, whole, landed)
  PROVE  IndInv'
<1>a. TypeOK /\ PoolInv /\ OrderInv
  BY DEF IndInv
<1>t. /\ batch[s] \in Seq(Pm) /\ written \in [Sink -> Seq(Msg)] /\ written[s] \in Seq(Msg)
      /\ parked \subseteq Msg \X (Sink \cup {NoSink}) /\ refused \subseteq Msg \X Sink
  BY <1>a DEF TypeOK
<1>m. \A p \in Range(batch[s]) : pm[p].msg \in Msg
  BY <1>a, CarriedIs DEF Holds
<1>0. PICK R : R = [p \in {batch[s][i] : i \in DOMAIN fates} |-> Answers(fates, Position(s, p), whole)]
  OBVIOUS
<1>b. PICK B : B = Carried(batch[s])
  OBVIOUS
<1>c. B \in Seq(Msg) /\ DOMAIN B = DOMAIN batch[s] /\ Messages(s) = B
      /\ \A i \in DOMAIN batch[s] : B[i] = pm[batch[s][i]].msg
  <2>1. B \in Seq(Msg) /\ DOMAIN B = DOMAIN batch[s]
    BY <1>b, <1>m, <1>t, CarriedSeq
  <2> QED
    BY <2>1, <1>b DEF Carried, Messages
<1>n. PICK new : new = {i \in DOMAIN fates : (landed \/ fates[i] = "written") /\ ~Wrote(s, Messages(s)[i])}
  OBVIOUS
<1>u. /\ \E place \in Bijection(1..Cardinality(new), new) :
           /\ \A i, j \in DOMAIN place : i < j => place[i] < place[j]
           /\ written' = [written EXCEPT ![s] = @ \o [i \in DOMAIN place |-> Messages(s)[place[i]]]]
      /\ parked' = parked \cup
           {<<pm[batch[s][i]].msg, s>> : i \in {j \in DOMAIN fates : fates[j] = "parked"}}
      /\ refused' = refused \cup
           {<<pm[batch[s][i]].msg, s>> : i \in {j \in DOMAIN fates : fates[j] = "refused"}}
      /\ \A i \in DOMAIN fates : fates[i] \in Possible(s, whole)
      /\ pm' = Answered(R) /\ batch' = [batch EXCEPT ![s] = <<>>]
      /\ UNCHANGED <<life, unread, hold, buffer, consuming, queue, busy, inFlight, target, call,
                     chan, spill, spilled, acked>>
  BY <1>0, <1>n DEF Flush, flow, work
<1>1. new \subseteq DOMAIN B /\ Cardinality(new) \in Nat
  <2>1. new \subseteq DOMAIN B
    BY <1>c, <1>n
  <2>2. IsFiniteSet(1..Len(B)) /\ DOMAIN B = 1..Len(B)
    BY <1>c, FS_Interval
  <2> QED
    BY <2>1, <2>2, FS_Subset, FS_CardinalityType
<1>2. PICK place \in Bijection(1..Cardinality(new), new) :
        /\ \A i, j \in DOMAIN place : i < j => place[i] < place[j]
        /\ written' = [written EXCEPT ![s] = @ \o [i \in DOMAIN place |-> B[place[i]]]]
  BY <1>c, <1>u
<1>3. PICK k \in Nat : k = Cardinality(new)
  BY <1>1
<1>4. /\ place \in [1..k -> DOMAIN B] /\ DOMAIN place = 1..k
      /\ \A n \in new : \E i \in 1..k : place[i] = n
  BY <1>1, <1>2, <1>3 DEF Bijection, Injection, Surjection
<1>5. PICK A : A = [i \in 1..k |-> B[place[i]]]
  OBVIOUS
<1>6. /\ written'[s] = written[s] \o A /\ \A t \in Sink : t # s => written'[t] = written[t]
  BY <1>2, <1>4, <1>5, <1>t
<1>7. /\ written[s] \o A \in Seq(Msg) /\ Sorted(s, written[s] \o A)
      /\ Range(written[s]) \subseteq Range(written[s] \o A)
      /\ Range(written[s] \o A) \subseteq Range(written[s]) \cup Range(B)
      /\ \A i \in 1..k : B[place[i]] \in Range(written[s] \o A)
  <2>1. /\ Sorted(s, written[s]) /\ Sorted(s, B)
        /\ Follows(s, Range(written[s]), Range(B))
    BY <1>a, <1>b DEF OrderInv, OrderOf, Follows
  <2>2. \A i, j \in 1..k : i < j => place[i] < place[j]
    BY <1>2, <1>4
  <2>3. PICK W \in Seq(Msg) : W = written[s]
    BY <1>t
  <2>4. Sorted(s, W) /\ Follows(s, Range(W), Range(B)) /\ B \in Seq(Msg)
        /\ place \in [1..k -> DOMAIN B]
    BY <2>1, <2>3, <1>4, <1>c
  <2>5. /\ W \o A \in Seq(Msg) /\ Sorted(s, W \o A)
        /\ Range(W) \subseteq Range(W \o A) /\ Range(W \o A) \subseteq Range(W) \cup Range(B)
        /\ \A i \in 1..k : B[place[i]] \in Range(W \o A)
    <3>1. \A i \in DOMAIN B : B[i] \in Msg
      BY <2>4
    <3>2. A \in [1..k -> Msg] /\ \A i \in 1..k : A[i] = B[place[i]]
      BY <3>1, <2>4, <1>5
    <3> QED
      BY <2>1, <2>2, <2>4, <3>2, SortedJoin
  <2> QED
    BY <2>3, <2>5
<1>8. written' \in [Sink -> Seq(Msg)]
  BY <1>2, <1>4, <1>5, <1>7, <1>t
<1>9. /\ parked \subseteq parked' /\ parked' \subseteq Msg \X (Sink \cup {NoSink})
      /\ refused \subseteq refused' /\ refused' \subseteq Msg \X Sink
  <2>1. \A i \in DOMAIN fates : pm[batch[s][i]].msg \in Msg
    BY <1>m DEF Range
  <2> QED
    BY <2>1, <1>t, <1>u
<1>10. DOMAIN R = Range(batch[s])
  BY <1>0 DEF Range
<1>11. ASSUME NEW p \in DOMAIN R, NEW n \in Msg, n = pm[p].msg
       PROVE  R[p] = "ok" => Kept(n, s)'
  <2>1. PICK i : i = Position(s, p)
    OBVIOUS
  <2>2. i \in DOMAIN batch[s] /\ batch[s][i] = p
    <3>1. \E j \in DOMAIN batch[s] : batch[s][j] = p
      BY <1>10 DEF Range
    <3> QED
      BY <2>1, <3>1 DEF Position
  <2>3. R[p] = Answers(fates, i, whole)
    BY <1>0, <2>1
  <2>4. fates[i] \in Fate
    BY <2>2
  <2>5. R[p] = "ok" => fates[i] # "failed"
    BY <2>3, <2>4 DEF Answers, Answer, Fate
  <2>6. B[i] = pm[p].msg
    BY <2>2, <1>c
  <2>7. CASE fates[i] = "parked"
    <3>1. <<n, s>> \in parked'
      BY <2>2, <2>7, <1>11, <1>u
    <3> QED
      BY <2>5, <3>1 DEF Kept
  <2>9. CASE fates[i] = "refused"
    <3>1. <<n, s>> \in refused'
      BY <2>2, <2>9, <1>11, <1>u
    <3>2. ~DeadLetter /\ s \in Validating
      BY <2>2, <2>9, <1>u DEF Possible
    <3> QED
      BY <3>1, <3>2 DEF Kept, Dropped
  <2>8. CASE fates[i] = "written"
    <3>1. B[i] \in Range(written'[s])
      <4>1. CASE i \in new
        BY <4>1, <1>4, <1>6, <1>7
      <4>2. CASE i \notin new
        <5>1. Wrote(s, B[i])
          BY <4>2, <2>2, <2>8, <1>c, <1>n
        <5>2. B[i] \in Range(written[s])
          BY <5>1 DEF Wrote, Range
        <5> QED
          BY <5>2, <1>6, <1>7
      <4> QED
        BY <4>1, <4>2
    <3>2. Wrote(s, n)'
      BY <3>1, <2>6, <1>11 DEF Wrote, Range
    <3> QED
      BY <2>5, <3>2 DEF Kept
  <2> QED
    BY <2>4, <2>5, <2>7, <2>8, <2>9 DEF Fate
<1>12. \A p \in DOMAIN R : R[p] \in {"ok", "err"}
  <2>1. \A p, i : Answers(fates, i, whole) \in {"ok", "err"}
    BY DEF Answers, Answer
  <2> QED
    BY <2>1, <1>0
<1> QED
  BY <1>6, <1>7, <1>8, <1>9, <1>10, <1>11, <1>12, <1>b, <1>u, BatchInd

(* The oldest message in the channel makes room. *)
LEMMA EvictOldestInd ==
  ASSUME IndInv, NEW m \in Msg, NEW s \in Sink, EvictOldest(m, s) PROVE IndInv'
<1>a. /\ TypeOK /\ FlowInv /\ BusyInv /\ CountInv /\ QuietInv /\ CallInv /\ PoolInv
      /\ AnswerInv /\ OrderInv
  BY DEF IndInv
<1>u. /\ call[m][s].state = "full" /\ Goes(m, s, "retry")
      /\ UNCHANGED <<life, unread, hold, buffer, consuming, queue, busy, inFlight, target,
                     batch, spill, written, spilled, parked, refused, acked>>
  BY DEF EvictOldest, At, flow
<1>1. CASE UNCHANGED <<pm, chan>>
  BY <1>1, <1>u, AgainInd
<1>2. ASSUME chan[s] # <<>>, pm' = Answered([p \in {Head(chan[s])} |-> "err"]),
             chan' = [chan EXCEPT ![s] = Tail(@)]
      PROVE  IndInv'
  <2>0. PICK p : p = Head(chan[s])
    OBVIOUS
  <2>r. PICK R : R = [x \in {p} |-> "err"]
    OBVIOUS
  <2>d. DOMAIN R = {p} /\ R[p] = "err" /\ pm' = Answered(R)
    BY <1>2, <2>0, <2>r
  <2>t. chan[s] \in Seq(Pm) /\ chan \in [Sink -> Seq(Pm)] /\ batch \in [Sink -> Seq(Pm)]
    BY <1>a DEF TypeOK
  <2>h. /\ p \in Pm /\ Tail(chan[s]) \in Seq(Pm) /\ Range(chan[s]) = {p} \cup Range(Tail(chan[s]))
    BY <1>2, <2>0, <2>t, AtHead
  <2>c. PICK c \in CallRecord :
          c.pm = call[m][s].pm /\ c.state = "retry" /\ call' = [call EXCEPT ![m][s] = c]
    BY <1>a, <1>u, GoesIs
  <2>p. call[m][s].pm # 0
    BY <1>u, CallerIs
  <2>1. /\ CallInv' /\ call' \in [Msg -> [Sink -> CallRecord]] /\ call'[m][s] = c
        /\ \A n \in Msg, t \in Sink : n # m \/ t # s => call'[n][t] = call[n][t]
    BY <1>a, <1>u, <2>c, <2>p, CallStep
  <2>2. SameCalls
    BY <1>u, <2>1, <2>c DEF SameCalls, At
  <2>3. /\ chan'[s] = Tail(chan[s]) /\ chan' \in [Sink -> Seq(Pm)] /\ batch' \in [Sink -> Seq(Pm)]
        /\ \A t \in Sink : chan'[t] = chan[t] \/ t = s
        /\ \A t \in Sink : batch'[t] = batch[t]
    BY <1>2, <1>u, <2>h, <2>t
  <2>s. HeldSound(s)
    BY <1>a DEF PoolInv
  <2>4. Drops(s, DOMAIN R)
    <3>1. IsInjective(Tail(chan[s])) /\ p \notin Range(Tail(chan[s]))
      BY <1>2, <2>0, <2>s, <2>t, InjectiveTail DEF HeldSound
    <3>2. IsInjective(batch[s]) /\ Range(chan[s]) \cap Range(batch[s]) = {}
      BY <2>s DEF HeldSound
    <3>3. Holds(s)' = Holds(s) \ DOMAIN R
      BY <3>1, <3>2, <2>3, <2>d, <2>h DEF Holds
    <3> QED
      BY <3>1, <3>2, <3>3, <2>3, <2>h DEF Drops
  <2>k. \A n, t : Kept(n, t) => Kept(n, t)'
    BY <1>u, KeptStays
  <2>5. /\ pm' \in [Pm -> PmRecord] /\ PoolInv' /\ AnswerInv'
        /\ \A x \in Pm \ DOMAIN R : pm'[x] = pm[x]
        /\ \A t \in Sink : \A x \in Holds(t)' : x \in Holds(t) /\ pm'[x] = pm[x]
    <3>1. DOMAIN R \subseteq Holds(s)
      BY <2>d, <2>h DEF Holds
    <3>2. /\ \A x \in DOMAIN R : R[x] \in {"ok", "err"}
          /\ \A x \in DOMAIN R, n \in Msg : R[x] = "ok" /\ n = pm[x].msg => Kept(n, s)'
      BY <2>d
    <3>3. spilled' = spilled
      BY <1>u
    <3> QED
      BY <3>1, <3>2, <3>3, <2>2, <2>4, <2>d, <2>k, <1>a, AnswerHeld
  <2>6. TypeOK'
    BY <1>a, <1>u, <2>1, <2>3, <2>5 DEF TypeOK, PmRecord, CallRecord
  <2>7. \A n : Past(n)' <=> Past(n)
    BY <1>a, <1>u, PathFrame
  <2>8. \A v \in Worker, t \in Sink : Unsent(v, t)' => Unsent(v, t)
    BY <1>a, <1>u, <2>1, UnsentKept DEF NotSent
  <2>9. OrderOf(s)'
    <3>1. OrderOf(s)
      BY <1>a DEF OrderInv
    <3>m. \A x \in Range(chan[s]) : pm[x].msg \in Msg
      BY <1>a, CarriedIs DEF Holds
    <3>2. PICK B : B = Carried(batch[s])
      OBVIOUS
    <3>3. PICK C : C = Carried(chan[s])
      OBVIOUS
    <3>4. C \in Seq(Msg) /\ C # <<>> /\ Carried(Tail(chan[s])) = Tail(C)
      BY <1>2, <2>t, <3>3, <3>m, CarriedSeq
    <3>5. Carried(chan[s])' = Tail(C)
      <4>1. \A i \in DOMAIN Tail(chan[s]) : Tail(chan[s])[i] \in Holds(s)'
        BY <2>3 DEF Holds, Range
      <4>2. Carried(chan[s])' = Carried(Tail(chan[s]))
        BY <4>1, <2>3, <2>5 DEF Carried
      <4> QED
        BY <4>2, <3>4
    <3>6. Carried(batch[s])' = B
      <4>1. \A i \in DOMAIN batch[s] : batch[s][i] \in Holds(s)'
        BY <2>3 DEF Holds, Range
      <4> QED
        BY <4>1, <2>3, <2>5, <3>2 DEF Carried
    <3>7. Range(Tail(C)) \subseteq Range(C)
      BY <3>4, AtHead
    <3>8. /\ Sorted(s, written[s]) /\ Sorted(s, B) /\ Sorted(s, C)
          /\ Follows(s, Range(written[s]), Range(B) \cup Range(C)) /\ Follows(s, Range(B), Range(C))
      BY <3>1, <3>2, <3>3 DEF OrderOf
    <3>9. Sorted(s, Tail(C))
      BY <3>4, <3>8, SortedTail
    <3>10. /\ Follows(s, Range(written[s]), Range(B) \cup Range(Tail(C)))
           /\ Follows(s, Range(B), Range(Tail(C)))
      BY <3>7, <3>8 DEF Follows
    <3>11. Range(written[s]) \cup Range(B) \cup Range(Tail(C)) \subseteq Given(s)
      BY <3>2, <3>3, <3>7 DEF Given
    <3>12. UNCHANGED <<spilled, busy>> /\ UNCHANGED spill[s] /\ written'[s] = written[s]
      BY <1>u
    <3> QED
      BY <3>1, <3>5, <3>6, <3>8, <3>9, <3>10, <3>11, <3>12, <2>7, <2>8, OrderMoves
  <2>10. OrderInv'
    <3>1. \A t \in Sink : t # s => UNCHANGED <<written[t], batch[t], chan[t]>>
      BY <1>u, <2>3
    <3>2. \A t \in Sink : t # s => \A x \in Holds(t) : pm'[x].msg = pm[x].msg
      <4>1. \A t \in Sink : t # s => Holds(t)' = Holds(t)
        BY <2>3 DEF Holds
      <4> QED
        BY <4>1, <2>5
    <3> QED
      BY <3>1, <3>2, <2>7, <2>8, <2>9, <1>a, <1>u, Elsewhere
  <2> QED
    BY <2>1, <2>5, <2>6, <2>10, <1>u, WriterStep
<1> QED
  BY <1>1, <1>2 DEF EvictOldest

(* A spilled message comes back behind what is on the way, with nobody waiting for it. *)
LEMMA ReloadInd ==
  ASSUME IndInv, NEW s \in Sink, Reload(s) PROVE IndInv'
<1>a. /\ TypeOK /\ FlowInv /\ BusyInv /\ CountInv /\ QuietInv /\ CallInv /\ PoolInv
      /\ AnswerInv /\ OrderInv
  BY DEF IndInv
<1>0. PICK m : m = Head(spill[s])
  OBVIOUS
<1>u. /\ spill[s] # <<>> /\ spill' = [spill EXCEPT ![s] = Tail(@)]
      /\ UNCHANGED <<life, unread, hold, buffer, consuming, queue, busy, inFlight, target, call,
                     batch, written, spilled, parked, refused, acked>>
  BY DEF Reload, flow, work
<1>p. PICK p \in Pool : pm' = Acquired({p}, m) /\ chan' = [chan EXCEPT ![s] = Append(@, p)]
  BY <1>0 DEF Reload, Lowest
<1>t. /\ spill[s] \in Seq(Msg) /\ spill \in [Sink -> Seq(Msg)]
      /\ chan[s] \in Seq(Pm) /\ chan \in [Sink -> Seq(Pm)]
  BY <1>a DEF TypeOK
<1>m. /\ m \in Msg /\ Tail(spill[s]) \in Seq(Msg)
      /\ Range(spill[s]) = {m} \cup Range(Tail(spill[s]))
  BY <1>0, <1>t, <1>u, AtHead
<1>q. /\ p \in Pm /\ p # 0 /\ \A t \in Sink : p \notin Holds(t)
      /\ \A n \in Msg, t \in Sink : call[n][t].pm # p
  BY <1>a, PoolIsFree
<1>1. /\ pm' \in [Pm -> PmRecord] /\ \A x \in Pm : x # p => pm'[x] = pm[x]
      /\ pm'[p].msg = m /\ pm'[p].refs = 2 /\ pm'[p].done = "empty"
  <2>1. /\ pm' \in [Pm -> PmRecord] /\ \A x \in Pm : x # p => pm'[x] = pm[x]
        /\ pm'[p] = [msg |-> m, refs |-> 2, done |-> "empty"]
    <3>1. PICK S \in SUBSET Pool : S = {p}
      OBVIOUS
    <3>2. /\ Acquired(S, m) \in [Pm -> PmRecord]
          /\ \A x \in S : Acquired(S, m)[x] = [msg |-> m, refs |-> 2, done |-> "empty"]
          /\ \A x \in Pm \ S : Acquired(S, m)[x] = pm[x]
      <4>1. m \in Msg /\ TypeOK /\ PoolInv
        BY <1>a, <1>m
      <4> QED
        BY <4>1, AcquiredIs
    <3> QED
      BY <3>1, <3>2, <1>p
  <2> QED
    BY <2>1
<1>h. /\ chan'[s] = Append(chan[s], p) /\ \A t \in Sink : t # s => chan'[t] = chan[t]
      /\ chan' \in [Sink -> Seq(Pm)] /\ Range(chan'[s]) = Range(chan[s]) \cup {p}
  BY <1>p, <1>q, <1>t, AtEnd
<1>s. /\ spill' \in [Sink -> Seq(Msg)] /\ \A t \in Sink : Range(spill'[t]) \subseteq Range(spill[t])
  BY <1>m, <1>t, <1>u
<1>2. TypeOK'
  BY <1>1, <1>a, <1>h, <1>s, <1>u DEF TypeOK, PmRecord
<1>3. CallInv'
  BY <1>a, <1>u DEF CallInv
<1>4. /\ Holds(s)' = Holds(s) \cup {p} /\ \A t \in Sink : t # s => Holds(t)' = Holds(t)
      /\ \A t \in Sink : \A x \in Holds(t) : pm'[x] = pm[x]
  BY <1>1, <1>a, <1>h, <1>q, <1>u, WriterTypes DEF Holds
<1>c. \A n \in Msg, t \in Sink : call[n][t].pm # 0 => pm'[call[n][t].pm] = pm[call[n][t].pm]
  BY <1>1, <1>a, <1>q, WriterTypes
<1>5. PoolInv'
  <2>1. \A x \in Pool' : pm'[x] = Free
    <3> SUFFICES ASSUME NEW x \in Pm, pm'[x].refs = 0 PROVE pm'[x] = Free
      BY DEF Pool
    <3>1. x # p
      BY <1>1
    <3> QED
      BY <3>1, <1>1, <1>a DEF PoolInv, Pool
  <2>2. ASSUME NEW t \in Sink PROVE HeldSound(t)'
    <3>1. HeldSound(t)
      BY <1>a DEF PoolInv
    <3>2. IsInjective(chan'[t]) /\ IsInjective(batch'[t])
      <4>1. CASE t = s
        <5>1. p \notin Range(chan[s])
          BY <1>q DEF Holds
        <5> QED
          BY <4>1, <5>1, <3>1, <1>h, <1>q, <1>t, <1>u, InjectiveAppend DEF HeldSound
      <4>2. CASE t # s
        BY <4>2, <3>1, <1>h, <1>u DEF HeldSound
      <4> QED
        BY <4>1, <4>2
    <3>3. Range(chan'[t]) \cap Range(batch'[t]) = {}
      <4>1. Range(chan[t]) \cap Range(batch[t]) = {} /\ p \notin Range(batch[t])
        BY <3>1, <1>q DEF HeldSound, Holds
      <4>2. batch'[t] = batch[t] /\ Range(chan'[t]) \subseteq Range(chan[t]) \cup {p}
        BY <1>h, <1>u
      <4> QED
        BY <4>1, <4>2
    <3>4. \A x \in Sink \ {t} : Holds(t)' \cap Holds(x)' = {}
      BY <3>1, <1>4, <1>q DEF HeldSound
    <3>5. \A x \in Holds(t)' : pm'[x].refs > 0 /\ pm'[x].done = "empty" /\ pm'[x].msg # 0
      BY <3>1, <1>1, <1>4, <1>m, MsgIs DEF HeldSound
    <3> QED
      BY <3>2, <3>3, <3>4, <3>5 DEF HeldSound
  <2>3. ASSUME NEW n \in Msg, NEW t \in Sink PROVE CallSound(n, t)'
    <3>1. CallSound(n, t)
      BY <1>a DEF PoolInv
    <3>2. \A x \in Sink : call[n][t].pm \in Holds(x)' <=> call[n][t].pm \in Holds(x)
      BY <1>4, <1>q
    <3>3. At(n, t, "wait")' <=> At(n, t, "wait")
      BY <1>u DEF At
    <3> QED
      BY <3>1, <3>2, <3>3, <1>c, <1>u DEF CallSound
  <2> QED
    BY <2>1, <2>2, <2>3 DEF PoolInv
<1>6. AnswerInv'
  <2>1. \A n, t : Kept(n, t) => Kept(n, t)'
    BY <1>u, KeptStays
  <2>2. \A n \in Msg, t \in Sink : At(n, t, "wait") => call[n][t].pm # 0
    BY <1>a DEF CallInv, At
  <2> QED
    BY <2>1, <2>2, <1>a, <1>c, <1>u DEF AnswerInv, At
<1>7. OrderInv'
  <2>1. \A v \in Worker, t \in Sink : Unsent(v, t)' => Unsent(v, t)
    BY <1>u DEF Unsent
  <2>2. \A n : Past(n)' <=> Past(n)
    BY <1>a, <1>u, PathFrame
  <2> SUFFICES ASSUME NEW t \in Sink PROVE OrderOf(t)'
    BY DEF OrderInv
  <2>3. OrderOf(t)
    BY <1>a DEF OrderInv
  <2>4. CASE t # s
    <3>1. \A n \in Range(spill'[t]) : <<n, t>> \in spilled' /\ Past(n)
      BY <2>3, <1>s, <1>u DEF OrderOf
    <3> QED
      BY <2>1, <2>2, <2>3, <2>4, <3>1, <1>4, <1>h, <1>u, OrderSame
  <2>5. CASE t = s
    <3>1. <<m, s>> \in spilled /\ Past(m)
      BY <2>3, <2>5, <1>m DEF OrderOf
    <3>2. \A n : Ordered(s, n, m) /\ Ordered(s, m, n)
      BY <3>1 DEF Ordered
    <3>3. /\ pm'[p].msg = m /\ \A x \in Holds(s) : pm'[x].msg = pm[x].msg
          /\ Range(spill'[s]) \subseteq Range(spill[s])
      BY <1>1, <1>4, <1>s
    <3> QED
      BY <2>1, <2>2, <2>3, <2>5, <3>1, <3>2, <3>3, <1>h, <1>m, <1>q, <1>t, <1>u, OrderAppend
  <2> QED
    BY <2>4, <2>5
<1> QED
  BY <1>2, <1>3, <1>5, <1>6, <1>7, <1>u, WriterStep

-----------------------------------------------------------------------------
(* The specification. *)

LEMMA StutterInd == ASSUME IndInv, UNCHANGED vars PROVE IndInv'
<1>a. /\ TypeOK /\ FlowInv /\ BusyInv /\ CountInv /\ QuietInv /\ CallInv /\ PoolInv
      /\ AnswerInv /\ OrderInv
  BY DEF IndInv
<1>u. UNCHANGED <<life, unread, hold, buffer, consuming, queue, busy, inFlight, target, call, pm,
                  chan, batch, spill, written, spilled, parked, refused, acked>>
  BY DEF vars, flow, work, writers
<1>1. TypeOK' /\ CallInv'
  BY <1>a, <1>u DEF TypeOK, CallInv
<1>2. PoolInv'
  BY <1>a, <1>u, PoolFrame
<1>3. AnswerInv'
  BY <1>a, <1>u, KeptStays, AnswerFrame
<1>4. OrderInv'
  <2>1. \A n : Past(n)' <=> Past(n)
    BY <1>a, <1>u, PathFrame
  <2>2. \A v \in Worker, s \in Sink : Unsent(v, s)' => Unsent(v, s)
    BY <1>u DEF Unsent
  <2> QED
    BY <2>1, <2>2, <1>a, <1>u, OrderAll
<1> QED
  BY <1>1, <1>2, <1>3, <1>4, <1>u, WriterStep

LEMMA StepInd == ASSUME IndInv, [Next]_vars PROVE IndInv'
<1>1. CASE Read \/ Produce \/ ProduceStopped
  BY <1>1, ReaderInd
<1>2. CASE Dispatch
  BY <1>2, DispatchInd
<1>3. CASE Stop \/ StopConsuming \/ CloseChannels \/ Stopped
  BY <1>3, LifeInd
<1>4. ASSUME NEW w \in Worker, Take(w) PROVE IndInv'
  <2>1. \E q \in {w, Shared} : TakeFrom(w, q)
    BY <1>4 DEF Take
  <2> QED
    BY <2>1, TakeInd
<1>5. ASSUME NEW w \in Worker, NEW m \in Msg, Process(w, m) PROVE IndInv'
  <2>1. CASE LeaveUnacked(w, m) \/ Settle(w, m) \/ Park(w, m)
    BY <2>1, UnroutedInd
  <2>2. CASE Finish(w, m)
    BY <2>2, FinishInd
  <2>3. CASE \E T \in SUBSET Sink : Route(w, m, T)
    BY <2>3, RouteInd
  <2> QED
    BY <1>5, <2>1, <2>2, <2>3 DEF Process
<1>6. ASSUME NEW m \in Msg, NEW s \in Sink, Submit(m, s) PROVE IndInv'
  <2>1. CASE Enqueue(m, s)
    BY <2>1, EnqueueInd
  <2>2. CASE FindFull(m, s)
    <3>1. /\ call[m][s].state \in {"enqueue", "full"} /\ Goes(m, s, "full")
          /\ UNCHANGED <<life, unread, hold, buffer, consuming, queue, busy, inFlight, target, pm,
                         chan, batch, spill, written, spilled, parked, refused, acked>>
      BY <2>2 DEF FindFull, At, flow, writers
    <3> QED
      BY <3>1, AgainInd
  <2>3. CASE Refuse(m, s)
    BY <2>3, RefuseInd
  <2>4. CASE EvictOldest(m, s)
    BY <2>4, EvictOldestInd
  <2>5. CASE SpillOut(m, s)
    BY <2>5, SpillOutInd
  <2> QED
    BY <1>6, <2>1, <2>2, <2>3, <2>4, <2>5 DEF Submit
<1>7. ASSUME NEW m \in Msg, NEW s \in Sink, Await(m, s) \/ GiveUp(m, s) PROVE IndInv'
  BY <1>7, AwaitInd, GiveUpInd
<1>8. ASSUME NEW s \in Sink, Reload(s) \/ Collect(s) \/ RefuseBatch(s) PROVE IndInv'
  BY <1>8, ReloadInd, CollectInd, RefuseBatchInd
<1>9. ASSUME NEW s \in Sink, NEW fates \in [DOMAIN batch[s] -> Fate],
             NEW whole \in BOOLEAN, NEW landed \in BOOLEAN, Flush(s, fates, whole, landed)
      PROVE  IndInv'
  BY <1>9, FlushInd
<1>10. CASE UNCHANGED vars
  BY <1>10, StutterInd
<1> QED
  BY <1>1, <1>2, <1>3, <1>4, <1>5, <1>6, <1>7, <1>8, <1>9, <1>10 DEF Next

(***************************************************************************)
(* For every set of workers and sinks, every capacity and every strategy:  *)
(* the flow of messages, the in-flight count, the pooled objects, the      *)
(* answers and the order of what each sink is given are sound at once.     *)
(***************************************************************************)
THEOREM Inductive == Spec => []IndInv
<1>1. Init => IndInv
  BY InitInd
<1>2. IndInv /\ [Next]_vars => IndInv'
  BY StepInd
<1> QED
  BY <1>1, <1>2, PTL DEF Spec

(***************************************************************************)
(* processMessage acknowledges a message to the source only when every     *)
(* sink it was routed to has it, or it was parked or spilled for that      *)
(* sink, or refused by it as invalid in a batch with no dead-letter sink.  *)
(***************************************************************************)
THEOREM AckedIsKeptHolds == Spec => []AckedIsKept
<1>1. IndInv => AckedIsKept
  BY DEF IndInv
<1> QED
  BY <1>1, Inductive, PTL

(***************************************************************************)
(* Each sink is first given the messages of one ordering key in the order  *)
(* the source handed them out, whatever the writers repeat, evict or park. *)
(***************************************************************************)
THEOREM InOrderHolds == Spec => []InOrder
<1>1. IndInv => InOrder
  <2> SUFFICES ASSUME IndInv, NEW s \in Sink, NEW i \in DOMAIN written[s],
                      NEW j \in DOMAIN written[s], i < j,
                      WorkerOf[written[s][i]] = WorkerOf[written[s][j]],
                      WorkerOf[written[s][i]] # Shared,
                      {<<written[s][i], s>>, <<written[s][j], s>>} \cap spilled = {}
               PROVE  written[s][i] < written[s][j]
    BY DEF InOrder
  <2>1. Sorted(s, written[s])
    BY DEF IndInv, OrderInv, OrderOf
  <2> QED
    BY <2>1 DEF Sorted, Ordered
<1> QED
  BY <1>1, Inductive, PTL

(***************************************************************************)
(* releasePendingMessage: what the writers' channels and batches and the   *)
(* waiting goroutines hold is never in the pool, never shared, and still   *)
(* carries the message it was acquired for.                                *)
(***************************************************************************)
THEOREM PoolIsSoundHolds == Spec => []PoolIsSound
<1>1. ASSUME IndInv PROVE PoolIsSound
  <2>a. TypeOK /\ PoolInv
    BY <1>1 DEF IndInv
  <2>0. \A s \in Sink : chan[s] \in Seq(Pm) /\ batch[s] \in Seq(Pm)
    BY <2>a DEF TypeOK
  <2>1. ASSUME NEW s \in Sink
        PROVE  /\ Range(Held(s)) = Holds(s) /\ Len(chan[s]) \in Nat
               /\ \A i \in DOMAIN Held(s) : i \in Nat /\ InOne(chan[s], batch[s], i)
    BY <2>0, Concatenation DEF Held, Holds
  <2>2. ASSUME NEW s \in Sink, NEW p \in Holds(s)
        PROVE  \E i \in DOMAIN Held(s) : Held(s)[i] = p
    BY <2>1 DEF Range
  <2>3. \A s \in Sink : \A i \in DOMAIN Held(s) : pm[Held(s)[i]].refs > 0
    BY <2>1, <2>a DEF PoolInv, HeldSound, Range
  <2>4. ASSUME NEW s \in Sink, NEW t \in Sink, NEW i \in DOMAIN Held(s), NEW j \in DOMAIN Held(t),
               Held(s)[i] = Held(t)[j]
        PROVE  s = t /\ i = j
    <3>1. HeldSound(s)
      BY <2>a DEF PoolInv
    <3>2. s = t
      <4>1. Held(s)[i] \in Holds(s) /\ Held(s)[i] \in Holds(t)
        BY <2>1, <2>4 DEF Range
      <4> QED
        BY <4>1, <3>1 DEF HeldSound
    <3>3. /\ \A k \in DOMAIN chan[s], l \in DOMAIN batch[s] : chan[s][k] # batch[s][l]
          /\ \A k, l \in DOMAIN chan[s] : chan[s][k] = chan[s][l] => k = l
          /\ \A k, l \in DOMAIN batch[s] : batch[s][k] = batch[s][l] => k = l
      BY <3>1 DEF HeldSound, IsInjective, Range
    <3>4. PICK n \in Nat : n = Len(chan[s])
      BY <2>1
    <3>5. /\ i \in Nat /\ j \in Nat
          /\ \/ i \in DOMAIN chan[s] /\ Held(s)[i] = chan[s][i]
             \/ i - n \in DOMAIN batch[s] /\ Held(s)[i] = batch[s][i - n]
          /\ \/ j \in DOMAIN chan[s] /\ Held(s)[j] = chan[s][j]
             \/ j - n \in DOMAIN batch[s] /\ Held(s)[j] = batch[s][j - n]
      BY <2>1, <3>2, <3>4 DEF InOne, Held
    <3>6. i = j \/ i - n = j - n
      BY <3>2, <3>3, <3>5, <2>4
    <3> QED
      BY <3>2, <3>5, <3>6
  <2>5. ASSUME NEW m \in Msg, NEW s \in Sink, NEW p, p = call[m][s].pm, p # 0
        PROVE  /\ pm[p].msg = m \/ (pm[p].msg = 0 /\ <<m, s>> \in spilled)
               /\ pm[p].refs > 0
               /\ \A n \in Msg, t \in Sink : call[n][t].pm = p => n = m /\ t = s
               /\ At(m, s, "wait") /\ pm[p].done = "empty" =>
                    \E i \in DOMAIN Held(s) : Held(s)[i] = p
    <3>1. CallSound(m, s)
      BY <2>a DEF PoolInv
    <3>2. CASE At(m, s, "wait") /\ p \notin Holds(s)
      BY <3>1, <3>2, <2>5 DEF CallSound
    <3>3. CASE ~(At(m, s, "wait") /\ p \notin Holds(s))
      <4>1. /\ pm[p] = [msg |-> m, refs |-> 2, done |-> "empty"]
            /\ \A n \in Msg, t \in Sink : call[n][t].pm = p => n = m /\ t = s
        BY <3>1, <3>3, <2>5 DEF CallSound
      <4>2. pm[p].msg = m /\ pm[p].refs = 2
        BY <4>1
      <4> QED
        BY <4>1, <4>2, <3>3, <2>2
    <3> QED
      BY <3>2, <3>3
  <2> QED
    BY <2>3, <2>4, <2>5 DEF PoolIsSound
<1> QED
  BY <1>1, Inductive, PTL

(***************************************************************************)
(* Once Runner.Start closes the writers' channels no goroutine sends on    *)
(* them or waits, no worker is busy, and nothing can become so.            *)
(***************************************************************************)
THEOREM ClosedIsQuietHolds == Spec => []ClosedIsQuiet
<1>1. ASSUME IndInv PROVE ClosedIsQuiet
  <2> SUFFICES ASSUME life \in {"closed", "stopped"}
               PROVE  /\ \A m \in Msg, s \in Sink : call[m][s] = NoCall
                      /\ \A w \in Worker : busy[w] = 0
                      /\ \A q \in Queue : queue[q] = <<>>
    BY DEF ClosedIsQuiet
  <2>1. TypeOK /\ CallInv /\ InFlight = {}
    BY <1>1 DEF IndInv, QuietInv
  <2>2. \A m \in Msg : m \notin Range(busy) /\ \A q \in Queue : m \notin Range(queue[q])
    BY <2>1 DEF InFlight
  <2>3. \A m \in Msg, s \in Sink : call[m][s] = NoCall
    BY <2>1, <2>2 DEF CallInv
  <2>4. \A w \in Worker : busy[w] = 0
    BY <2>1, <2>2 DEF TypeOK, Range
  <2>5. ASSUME NEW q \in Queue PROVE queue[q] = <<>>
    <3>1. queue[q] \in Seq(Msg)
      BY <2>1 DEF TypeOK
    <3>2. queue[q] # <<>> => Head(queue[q]) \in Msg /\ Head(queue[q]) \in Range(queue[q])
      BY <3>1, AtHead
    <3> QED
      BY <3>2, <2>2
  <2> QED
    BY <2>3, <2>4, <2>5
<1> QED
  BY <1>1, Inductive, PTL
=============================================================================
