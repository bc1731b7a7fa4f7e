-------------------------- MODULE FileSource_proofs --------------------------
(***************************************************************************)
(* The file source's stored watermark covers no recorded file with an      *)
(* unacknowledged row, and a file is told to the tracker once, after its   *)
(* last row: for any files, any limits of the accounting and the tracker,  *)
(* files that cannot be opened, and any number of restarts.                *)
(***************************************************************************)
EXTENDS FileSource, AckWatermark_proofs, FiniteSetTheorems

(* The types the steps below need. *)
LEMMA Types ==
  ASSUME TypeOK
  PROVE  /\ pending \in Seq(Entry) /\ Len(pending) \in Nat /\ IndexTyped
         /\ \A j \in 1..Len(pending) : pending[j].id \in Nat /\ pending[j].cursor \in Nat
         /\ mark \in Nat /\ scanned \in Nat /\ reading \in Nat /\ key \in Nat
         /\ left \in Nat /\ saved \in Nat /\ MaxFile \in Nat /\ scanned <= MaxFile
         /\ reading <= scanned
         /\ \A f \in File : f \in Nat /\ f > 0 /\ RowsOf[f] \in Nat
<1>1. pending \in Seq(Entry) /\ Len(pending) \in Nat /\ IndexTyped
  BY DEF TypeOK, IndexTyped
<1>2. ASSUME NEW j \in 1..Len(pending)
      PROVE  pending[j].id \in Nat /\ pending[j].cursor \in Nat
  <2>1. pending[j] \in Entry
    BY <1>1
  <2> QED
    BY <2>1 DEF Entry
<1>3. /\ mark \in Nat /\ scanned \in Nat /\ reading \in Nat /\ key \in Nat
      /\ left \in Nat /\ saved \in Nat /\ MaxFile \in Nat /\ scanned <= MaxFile
      /\ reading <= scanned
  BY FileAssumption DEF TypeOK
<1>4. \A f \in File : f \in Nat /\ f > 0 /\ RowsOf[f] \in Nat
  BY FileAssumption DEF File
<1> QED
  BY <1>1, <1>2, <1>3, <1>4

(* A row is a file's number and its place in the file. *)
LEMMA RowOf ==
  ASSUME NEW f \in File, NEW i \in 1..RowsOf[f]
  PROVE  <<f, i>> \in Row
  BY DEF Row

LEMMA RowIs ==
  ASSUME NEW r \in Row
  PROVE  r[1] \in File /\ r[2] \in 1..RowsOf[r[1]] /\ r = <<r[1], r[2]>>
<1>1. PICK f \in File : r \in {f} \X (1..RowsOf[f])
  BY DEF Row
<1> QED
  BY <1>1

(* A whole file stays whole. *)
LEMMA WholeKept ==
  ASSUME done \subseteq done', NEW f, Whole(f) PROVE Whole(f)'
  BY DEF Whole

LEMMA InitInd == Init => IndInv
<1> SUFFICES ASSUME Init PROVE IndInv
  OBVIOUS
<1>1. /\ pending = <<>> /\ Len(pending) = 0 /\ DOMAIN index = {} /\ mark = 0
      /\ dropped = FALSE /\ scanned = 0 /\ reading = 0 /\ key = 0 /\ left = 0
      /\ DOMAIN open = {} /\ inflight = {} /\ completing = {} /\ done = {}
      /\ missed = {} /\ saved = 0 /\ crashes = 0
  BY DEF Init, TrackerInit, NoCursor, NoFiles
<1>2. TypeOK
  <2>1. <<>> \in Seq(Entry)
    OBVIOUS
  <2>2. 0 \in 0..MaxFile /\ 0 \in 0..MaxCrashes /\ 0 \in 0..0
    BY FileAssumption
  <2> QED
    BY <1>1, <2>1, <2>2 DEF TypeOK
<1>3. IndexInv /\ QueueInv /\ LiveInv /\ ReadInv /\ CompleteInv
  BY <1>1 DEF IndexInv, QueueInv, LiveInv, ReadInv, CompleteInv
<1>4. CoverInv
  BY <1>1 DEF CoverInv, File
<1>5. CountInv
  BY <1>1, FS_EmptySet DEF CountInv
<1> QED
  BY <1>2, <1>3, <1>4, <1>5 DEF IndInv

(* What the tracker holds is not disturbed by a step that leaves it alone. *)
LEMMA QueueFrame ==
  ASSUME TypeOK, IndexInv, QueueInv, UNCHANGED <<pending, index, mark, saved>>,
         done \subseteq done', scanned' \in Nat, scanned <= scanned'
  PROVE  IndexInv' /\ QueueInv'
<1>t. /\ mark \in Nat /\ scanned \in Nat /\ saved \in Nat
      /\ \A j \in 1..Len(pending) : pending[j].id \in Nat
  BY Types
<1>1. IndexInv'
  BY DEF IndexInv
<1>2. saved' <= mark' /\ mark' <= scanned'
  BY <1>t DEF QueueInv
<1>3. ASSUME NEW j \in 1..Len(pending)
      PROVE  /\ pending[j].cursor = pending[j].id
             /\ mark < pending[j].id /\ pending[j].id <= scanned'
             /\ pending[j].acked => \A r \in Row : r[1] = pending[j].id => r \in done'
             /\ \A k \in 1..j : k = j \/ pending[k].id < pending[j].id
  BY <1>t DEF QueueInv, Whole
<1>4. QueueInv'
  BY <1>2, <1>3 DEF QueueInv, Whole
<1> QED
  BY <1>1, <1>4

LEMMA TrackerFrame ==
  ASSUME IndInv, UNCHANGED <<pending, index, mark, scanned, missed, saved>>,
         done \subseteq done'
  PROVE  IndexInv' /\ QueueInv' /\ CoverInv'
<1>a. TypeOK /\ IndexInv /\ QueueInv /\ CoverInv
  BY DEF IndInv
<1>1. IndexInv' /\ QueueInv'
  BY <1>a, Types, QueueFrame
<1>2. CoverInv'
  BY <1>a, WholeKept DEF CoverInv
<1> QED
  BY <1>1, <1>2

-----------------------------------------------------------------------------
(* Read. *)

(* A file taken off the queue comes after all the source knows of. *)
LEMMA NextFile ==
  ASSUME IndInv, scanned < MaxFile
  PROVE  /\ scanned + 1 \in File /\ scanned + 1 \notin DOMAIN open
         /\ scanned + 1 \notin completing /\ scanned + 1 \notin DOMAIN index
         /\ \A m \in inflight : m.key # scanned + 1
<1>a. TypeOK /\ IndexInv /\ QueueInv /\ LiveInv /\ CountInv
  BY DEF IndInv
<1>t. /\ scanned \in Nat /\ MaxFile \in Nat /\ IndexTyped
      /\ \A f \in File : f \in Nat
  BY <1>a, Types
<1>1. scanned + 1 \in File
  BY <1>t DEF File
<1>2. scanned + 1 \notin DOMAIN open \cup completing
  BY <1>a, <1>t DEF LiveInv
<1>3. scanned + 1 \notin DOMAIN index
  <2> SUFFICES ASSUME scanned + 1 \in DOMAIN index PROVE FALSE
    OBVIOUS
  <2>1. /\ index[scanned + 1] \in 1..Len(pending)
        /\ pending[index[scanned + 1]].id = scanned + 1
    BY <1>a, <1>t DEF IndexInv, IndexTyped
  <2>2. scanned + 1 <= scanned
    BY <2>1, <1>a DEF QueueInv
  <2> QED
    BY <2>2, <1>t
<1>4. \A m \in inflight : m.key # scanned + 1
  BY <1>a, <1>t DEF CountInv
<1> QED
  BY <1>1, <1>2, <1>3, <1>4

(* The parts about rows, for a step that takes file f = scanned + 1 off    *)
(* the queue.                                                              *)
LEMMA OpenFileInd ==
  ASSUME IndInv, OpenFile, NEW f, f = scanned + 1 PROVE IndInv'
<1> DEFINE p0 == [emitted |-> 0, acked |-> 0, exhausted |-> FALSE]
<1>a. /\ TypeOK /\ IndexInv /\ QueueInv /\ CoverInv /\ LiveInv /\ ReadInv
      /\ CountInv /\ CompleteInv
  BY DEF IndInv
<1>t. /\ pending \in Seq(Entry) /\ Len(pending) \in Nat /\ IndexTyped
      /\ \A j \in 1..Len(pending) : pending[j].id \in Nat /\ pending[j].cursor \in Nat
      /\ mark \in Nat /\ scanned \in Nat /\ saved \in Nat /\ MaxFile \in Nat
      /\ \A g \in File : g \in Nat /\ g > 0 /\ RowsOf[g] \in Nat
  BY <1>a, Types
<1>u. /\ reading = 0 /\ scanned < MaxFile /\ scanned' = f /\ reading' = f
      /\ left' = RowsOf[f] /\ BeginFile(f)
      /\ UNCHANGED <<inflight, completing, done, saved, crashes>>
  BY DEF OpenFile
<1>n. /\ f \in File /\ f \notin DOMAIN open /\ f \notin completing
      /\ f \notin DOMAIN index /\ \A m \in inflight : m.key # f
  BY <1>u, NextFile
<1>f. f \in Nat /\ f # 0 /\ f > scanned /\ \A g \in Nat : g <= f => g = f \/ g <= scanned
  BY <1>t
<1> HIDE DEF p0
<1>w. \A g : Whole(g)' <=> Whole(g)
  BY <1>u DEF Whole
<1>s. /\ \A g \in File : g # f => ReadSoFar(g)' = ReadSoFar(g)
      /\ ReadSoFar(f)' = 0
  <2>1. \A g \in File : g # f => ReadSoFar(g)' = RowsOf[g] /\ ReadSoFar(g) = RowsOf[g]
    BY <1>u, <1>t DEF ReadSoFar
  <2>2. RowsOf[f] - RowsOf[f] = 0
    BY <1>n, <1>t
  <2> QED
    BY <2>1, <2>2, <1>u DEF ReadSoFar
<1>m. \A m \in inflight : m.key # 0 => m.key \in File /\ m.key # f
  <2>1. \A m \in inflight : m.row \in Row /\ m.key \in {0, m.row[1]}
    BY <1>a DEF TypeOK
  <2> QED
    BY <2>1, <1>n, RowIs
<1>c. \A g : Carrying(g)' = Carrying(g)
  BY <1>u DEF Carrying
<1>i. /\ IsFiniteSet(inflight')
      /\ \A m \in inflight' : m.key <= scanned' /\ (m.key # 0 => m.row[2] <= ReadSoFar(m.key)')
  <2>1. \A m \in inflight : m.key \in Nat
    BY <1>m, <1>t
  <2> QED
    BY <2>1, <1>a, <1>t, <1>u, <1>s, <1>m, <1>f DEF CountInv
<1>r. scanned' \in 0..MaxFile /\ reading' \in 0..scanned' /\ left' \in Nat
  BY <1>u, <1>t, <1>n DEF File
<1>y. /\ inflight' = inflight /\ completing' \subseteq File /\ done' \subseteq Row
      /\ saved' \in 0..MaxFile /\ crashes' \in 0..MaxCrashes
  BY <1>a, <1>u DEF TypeOK
<1>1. CASE key' = 0 /\ missed' = missed \cup {f} /\ UNCHANGED <<tracker, open>>
  <2>u. key' = 0 /\ missed' = missed \cup {f} /\ UNCHANGED <<pending, index, mark, dropped, open>>
    BY <1>1 DEF tracker
  <2>1. TypeOK'
    <3>1. key' \in 0..scanned' /\ missed' \subseteq File
      BY <2>u, <1>a, <1>u, <1>n, <1>f DEF TypeOK
    <3> QED
      BY <3>1, <2>u, <1>a, <1>r, <1>y DEF TypeOK
  <2>2. IndexInv' /\ QueueInv'
    BY <2>u, <1>a, <1>u, <1>t, <1>f, QueueFrame
  <2>3. CoverInv'
    BY <2>u, <1>a, <1>u, <1>w, <1>t, <1>f DEF CoverInv
  <2>4. LiveInv'
    BY <2>u, <1>a, <1>u, <1>t, <1>f DEF LiveInv, TypeOK
  <2>5. ReadInv'
    BY <2>u, <1>a, <1>u, <1>n, <1>t, <1>f DEF ReadInv, TypeOK
  <2>6. CountInv'
    <3>1. \A g \in DOMAIN open : g \in File /\ g # f
      BY <1>a, <1>n DEF TypeOK
    <3> QED
      BY <3>1, <2>u, <1>a, <1>u, <1>i, <1>s, <1>c DEF CountInv
  <2>7. CompleteInv'
    BY <2>u, <1>a, <1>u, <1>w DEF CompleteInv
  <2> QED
    BY <2>1, <2>2, <2>3, <2>4, <2>5, <2>6, <2>7 DEF IndInv
<1>2. CASE /\ key' = f
           /\ missed' = IF Len(pending) < MaxPending THEN missed \ {f} ELSE missed \cup {f}
           /\ open' = [x \in DOMAIN open \cup {f} |-> IF x = f THEN p0 ELSE open[x]]
           /\ Emitted(f, f)
  <2>o. /\ DOMAIN open' = DOMAIN open \cup {f} /\ open'[f] = p0
        /\ \A g \in DOMAIN open : g # f /\ g \in File /\ open'[g] = open[g]
    BY <1>2, <1>a, <1>n DEF TypeOK
  <2>p. /\ p0 \in Progress /\ p0.emitted = 0 /\ p0.acked = 0 /\ ~p0.exhausted
    BY DEF p0, Progress
  <2>1. ReadInv'
    BY <2>o, <2>p, <1>2, <1>a, <1>u, <1>n, <1>t, <1>f DEF ReadInv, TypeOK
  <2>2. CountInv'
    <3>1. Carrying(f)' = {}
      BY <1>u, <1>n DEF Carrying
    <3>2. open'[f].emitted = open'[f].acked + Cardinality(Carrying(f)')
      BY <3>1, <2>o, <2>p, FS_EmptySet
    <3>3. \A i \in 1..ReadSoFar(f)' : FALSE
      BY <1>s
    <3>4. \A g \in DOMAIN open :
            /\ open'[g].emitted = open'[g].acked + Cardinality(Carrying(g)')
            /\ \A i \in 1..ReadSoFar(g)' :
                 <<g, i>> \in done' \/ [row |-> <<g, i>>, key |-> g] \in inflight'
      BY <2>o, <1>a, <1>u, <1>s, <1>c DEF CountInv
    <3> QED
      BY <3>2, <3>3, <3>4, <2>o, <1>i DEF CountInv
  <2>3. CompleteInv'
    BY <2>o, <1>a, <1>u, <1>w, <1>n DEF CompleteInv
  <2>4. ASSUME pending' \in Seq(Entry), IndexTyped', mark' = mark, dropped' \in BOOLEAN
        PROVE  TypeOK'
    <3>1. key' \in 0..scanned' /\ missed' \subseteq File
      BY <1>2, <1>a, <1>u, <1>n, <1>r, <1>t DEF TypeOK
    <3>2. DOMAIN open' \subseteq File /\ \A g \in DOMAIN open' : open'[g] \in Progress
      BY <2>o, <2>p, <1>a, <1>n DEF TypeOK
    <3> QED
      BY <2>4, <3>1, <3>2, <1>a, <1>r, <1>y DEF TypeOK, IndexTyped
  <2>z. f # NoId
    BY <1>f DEF NoId, File
  <2>5. CASE Len(pending) < MaxPending
    <3>1. /\ pending' \in Seq(Entry) /\ Len(pending') = Len(pending) + 1
          /\ \A j \in 1..Len(pending) : pending'[j] = pending[j]
          /\ pending'[Len(pending) + 1] = [id |-> f, cursor |-> f, acked |-> FALSE]
          /\ DOMAIN index' = DOMAIN index \cup {f} /\ index'[f] = Len(pending) + 1
          /\ \A x \in DOMAIN index : x # f /\ index'[x] = index[x]
          /\ IndexTyped' /\ IndexInv' /\ UNCHANGED <<mark, dropped>>
      BY <2>5, <2>z, <1>2, <1>a, <1>t, <1>f, <1>n, EmittedAppends
    <3>2. TypeOK'
      BY <3>1, <2>4, <1>a DEF TypeOK
    <3>3. missed' = missed \ {f}
      BY <2>5, <1>2
    <3>4. QueueInv'
      <4>1. saved' <= mark' /\ mark' <= scanned'
        BY <3>1, <1>a, <1>u, <1>t, <1>f DEF QueueInv
      <4>2. ASSUME NEW j \in 1..Len(pending')
            PROVE  /\ pending'[j].cursor = pending'[j].id
                   /\ mark' < pending'[j].id /\ pending'[j].id <= scanned'
                   /\ pending'[j].acked =>
                        \A r \in Row : r[1] = pending'[j].id => r \in done'
                   /\ \A k \in 1..j : k = j \/ pending'[k].id < pending'[j].id
        <5>1. CASE j \in 1..Len(pending)
          <6>1. pending'[j] = pending[j] /\ \A k \in 1..j : pending'[k] = pending[k]
            BY <5>1, <3>1, <1>t
          <6>2. /\ pending[j].cursor = pending[j].id
                /\ mark < pending[j].id /\ pending[j].id <= scanned
                /\ pending[j].acked => Whole(pending[j].id)
                /\ \A k \in 1..j : k = j \/ pending[k].id < pending[j].id
            BY <5>1, <1>a DEF QueueInv
          <6>3. pending[j].id <= scanned'
            BY <6>2, <5>1, <1>u, <1>t, <1>f
          <6> QED
            BY <6>1, <6>2, <6>3, <3>1, <1>u DEF Whole
        <5>2. CASE j = Len(pending) + 1
          <6>1. /\ pending'[j].id = f /\ pending'[j].cursor = f /\ ~pending'[j].acked
            BY <5>2, <3>1
          <6>2. mark < f /\ f <= scanned'
            BY <1>a, <1>t, <1>f, <1>u DEF QueueInv
          <6>3. ASSUME NEW k \in 1..j, k # j PROVE pending'[k].id < f
            <7>1. k \in 1..Len(pending)
              BY <6>3, <5>2, <1>t
            <7>2. pending'[k] = pending[k] /\ pending[k].id <= scanned
              BY <7>1, <3>1, <1>a DEF QueueInv
            <7> QED
              BY <7>1, <7>2, <1>t, <1>f
          <6> QED
            BY <6>1, <6>2, <6>3, <3>1
        <5> QED
          BY <5>1, <5>2, <3>1, <1>t
      <4> QED
        BY <4>1, <4>2 DEF QueueInv, Whole
    <3>5. CoverInv'
      <4> SUFFICES ASSUME NEW g \in File, g \notin missed'
                   PROVE  /\ g <= mark' => Whole(g)'
                          /\ mark' < g /\ g <= scanned' => g \in DOMAIN index'
        BY DEF CoverInv
      <4>1. CASE g = f
        <5>1. f \in DOMAIN index' /\ ~(f <= mark)
          BY <3>1, <1>a, <1>t, <1>f DEF QueueInv
        <5> QED
          BY <4>1, <5>1, <3>1
      <4>2. CASE g # f
        <5>1. g \notin missed
          BY <4>2, <3>3
        <5> QED
          BY <4>2, <5>1, <3>1, <1>a, <1>u, <1>w, <1>t, <1>f DEF CoverInv
      <4> QED
        BY <4>1, <4>2
    <3>6. LiveInv'
      <4> SUFFICES ASSUME NEW g \in DOMAIN open' \cup completing'
                   PROVE  /\ g <= scanned'
                          /\ g \notin missed' => g \in DOMAIN index' /\ ~pending'[index'[g]].acked
        BY DEF LiveInv
      <4>1. CASE g = f
        BY <4>1, <3>1, <1>u, <1>f
      <4>2. CASE g # f
        <5>1. g \in DOMAIN open \cup completing /\ (g \notin missed' => g \notin missed) /\ g \in Nat
          BY <4>2, <2>o, <3>3, <1>u, <1>a, <1>t DEF TypeOK
        <5>2. g <= scanned /\ (g \notin missed => g \in DOMAIN index /\ ~pending[index[g]].acked)
          BY <5>1, <1>a DEF LiveInv
        <5>3. g \in DOMAIN index => index[g] \in 1..Len(pending)
          BY <1>t DEF IndexTyped
        <5> QED
          BY <5>1, <5>2, <5>3, <3>1, <1>u, <1>t, <1>f
      <4> QED
        BY <4>1, <4>2
    <3> QED
      BY <3>1, <3>2, <3>4, <3>5, <3>6, <2>1, <2>2, <2>3 DEF IndInv
  <2>6. CASE ~(Len(pending) < MaxPending)
    <3>1. dropped' = TRUE /\ UNCHANGED <<pending, index, mark>> /\ missed' = missed \cup {f}
      BY <2>6, <2>z, <1>2, <1>n DEF Emitted
    <3>2. TypeOK'
      <4>1. IndexTyped'
        BY <3>1, <1>t DEF IndexTyped
      <4> QED
        BY <4>1, <3>1, <2>4, <1>t
    <3>3. IndexInv' /\ QueueInv'
      BY <3>1, <1>a, <1>u, <1>t, <1>f, QueueFrame
    <3>4. CoverInv'
      BY <3>1, <1>a, <1>u, <1>w, <1>t, <1>f DEF CoverInv
    <3>5. LiveInv'
      BY <3>1, <2>o, <1>a, <1>u, <1>t, <1>f DEF LiveInv, TypeOK
    <3> QED
      BY <3>2, <3>3, <3>4, <3>5, <2>1, <2>2, <2>3 DEF IndInv
  <2> QED
    BY <2>5, <2>6
<1> QED
  BY <1>1, <1>2, <1>u DEF BeginFile, p0

(* A file that cannot be opened is passed over, and known to be. *)
LEMMA OpenErrorInd ==
  ASSUME IndInv, OpenError, NEW f, f = scanned + 1 PROVE IndInv'
<1>a. /\ TypeOK /\ IndexInv /\ QueueInv /\ CoverInv /\ LiveInv /\ ReadInv
      /\ CountInv /\ CompleteInv
  BY DEF IndInv
<1>t. /\ mark \in Nat /\ scanned \in Nat /\ saved \in Nat /\ MaxFile \in Nat
      /\ \A g \in File : g \in Nat /\ g > 0
  BY <1>a, Types
<1>u. /\ reading = 0 /\ scanned < MaxFile /\ scanned' = f /\ missed' = missed \cup {f}
      /\ UNCHANGED <<pending, index, mark, dropped, reading, key, left, open, inflight,
                     completing, done, saved, crashes>>
  BY DEF OpenError, tracker
<1>f. /\ f \in File /\ f \in Nat /\ f > scanned
      /\ \A g \in Nat : g <= f => g = f \/ g <= scanned
  BY <1>t, <1>u DEF File
<1>1. TypeOK'
  <2>1. /\ scanned' \in 0..MaxFile /\ reading' \in 0..scanned' /\ key' \in 0..scanned'
        /\ missed' \subseteq File
    BY <1>a, <1>u, <1>t, <1>f DEF TypeOK
  <2> QED
    BY <2>1, <1>a, <1>u DEF TypeOK
<1>2. IndexInv' /\ QueueInv'
  BY <1>a, <1>u, <1>t, <1>f, QueueFrame
<1>3. CoverInv'
  BY <1>a, <1>u, <1>t, <1>f DEF CoverInv, Whole
<1>4. LiveInv'
  <2>1. \A g \in DOMAIN open \cup completing : g \in Nat
    BY <1>a, <1>t DEF TypeOK
  <2> QED
    BY <2>1, <1>a, <1>u, <1>t, <1>f DEF LiveInv
<1>5. ReadInv' /\ CompleteInv'
  BY <1>a, <1>u DEF ReadInv, CompleteInv, Whole
<1>6. CountInv'
  <2>1. ASSUME NEW m \in inflight PROVE m.key <= scanned'
    <3>1. m.key \in Nat
      <4>1. m.row \in Row /\ m.key \in {0, m.row[1]}
        BY <1>a DEF TypeOK
      <4> QED
        BY <4>1, <1>t, RowIs
    <3>2. m.key <= scanned
      BY <1>a DEF CountInv
    <3> QED
      BY <3>1, <3>2, <1>u, <1>t, <1>f
  <2> QED
    BY <2>1, <1>a, <1>u DEF CountInv, ReadSoFar, Carrying
<1> QED
  BY <1>1, <1>2, <1>3, <1>4, <1>5, <1>6 DEF IndInv

(* A row is counted and in flight from the moment it is read. *)
LEMMA ReadRowInd == ASSUME IndInv, ReadRow PROVE IndInv'
<1>a. /\ TypeOK /\ IndexInv /\ QueueInv /\ CoverInv /\ LiveInv /\ ReadInv
      /\ CountInv /\ CompleteInv
  BY DEF IndInv
<1>t. /\ scanned \in Nat /\ reading \in Nat /\ left \in Nat /\ reading <= scanned
      /\ key \in Nat /\ scanned <= MaxFile /\ MaxFile \in Nat
      /\ \A g \in File : g \in Nat /\ g > 0 /\ RowsOf[g] \in Nat
  BY <1>a, Types
<1> DEFINE i == RowsOf[reading] - left + 1
<1>u. /\ reading # 0 /\ left > 0 /\ left' = left - 1
      /\ UNCHANGED <<pending, index, mark, dropped, scanned, reading, key, completing,
                     done, missed, saved, crashes>>
  BY DEF ReadRow, tracker
<1>r. /\ reading \in File /\ reading = scanned /\ left <= RowsOf[reading]
      /\ IF key = 0 THEN reading \notin DOMAIN open
         ELSE key = reading /\ key \in DOMAIN open
  BY <1>a, <1>u, <1>t DEF ReadInv, File
<1>i. /\ i \in 1..RowsOf[reading] /\ <<reading, i>> \in Row
      /\ RowsOf[reading] - (left - 1) = i /\ i - 1 = RowsOf[reading] - left
      /\ \A n \in Nat : n <= i => n = i \/ n <= i - 1
  <2>1. i \in 1..RowsOf[reading]
    BY <1>t, <1>u, <1>r
  <2> QED
    BY <2>1, <1>t, <1>u, <1>r, RowOf
<1>s. /\ ReadSoFar(reading) = i - 1 /\ ReadSoFar(reading)' = i
      /\ \A g \in File : g # reading => ReadSoFar(g)' = ReadSoFar(g)
  BY <1>u, <1>i, <1>t, <1>r DEF ReadSoFar
<1> DEFINE m0 == [row |-> <<reading, i>>, key |-> key]
<1>m. /\ m0.row = <<reading, i>> /\ m0.key = key /\ m0.row[1] = reading /\ m0.row[2] = i
  OBVIOUS
<1>h. /\ inflight' = inflight \cup {m0}
      /\ IF key \in DOMAIN open THEN open' = [open EXCEPT ![key].emitted = @ + 1]
         ELSE open' = open
  <2>1. CASE key \in DOMAIN open
    BY <2>1 DEF ReadRow
  <2>2. CASE key \notin DOMAIN open
    <3>1. key = 0
      BY <2>2, <1>r
    <3> QED
      BY <2>2, <3>1 DEF ReadRow
  <2> QED
    BY <2>1, <2>2
<1> HIDE DEF i, m0
<1>k. \A m \in inflight : m.row \in Row /\ m.key \in {0, m.row[1]}
  BY <1>a DEF TypeOK
<1>o. /\ DOMAIN open' = DOMAIN open
      /\ \A g \in DOMAIN open :
           /\ g \in File /\ open[g] \in Progress /\ open'[g] \in Progress
           /\ open'[g].acked = open[g].acked /\ open'[g].exhausted = open[g].exhausted
           /\ open'[g].emitted = IF g = key THEN open[g].emitted + 1 ELSE open[g].emitted
  <2>1. \A g \in DOMAIN open : g \in File /\ open[g] \in Progress
    BY <1>a DEF TypeOK
  <2>2. CASE key \in DOMAIN open
    <3>1. DOMAIN open' = DOMAIN open
      BY <2>2, <1>h
    <3>2. ASSUME NEW g \in DOMAIN open
          PROVE  open'[g] = IF g = key THEN [open[g] EXCEPT !.emitted = @ + 1] ELSE open[g]
      BY <2>2, <1>h
    <3> QED
      BY <2>1, <3>1, <3>2 DEF Progress
  <2>3. CASE key \notin DOMAIN open
    BY <2>1, <2>3, <1>h
  <2> QED
    BY <2>2, <2>3
<1>1. TypeOK'
  <2>1. \A m \in inflight' : m.row \in Row /\ m.key \in {0, m.row[1]}
    BY <1>h, <1>k, <1>m, <1>i, <1>r
  <2>2. DOMAIN open' \subseteq File /\ \A g \in DOMAIN open' : open'[g] \in Progress
    BY <1>o
  <2>3. left' \in Nat
    BY <1>u, <1>t
  <2> QED
    BY <2>1, <2>2, <2>3, <1>a, <1>u DEF TypeOK
<1>2. IndexInv' /\ QueueInv' /\ CoverInv'
  BY <1>u, TrackerFrame
<1>3. LiveInv' /\ CompleteInv'
  BY <1>a, <1>u, <1>o DEF LiveInv, CompleteInv, Whole
<1>4. ReadInv'
  <2>1. left' <= RowsOf[reading]
    BY <1>u, <1>t, <1>r
  <2> QED
    BY <2>1, <1>a, <1>u, <1>o DEF ReadInv
<1>5. CountInv'
  <2>1. IsFiniteSet(inflight')
    BY <1>a, <1>h, FS_AddElement DEF CountInv
  <2>2. ASSUME NEW m \in inflight'
        PROVE  m.key <= scanned' /\ (m.key # 0 => m.row[2] <= ReadSoFar(m.key)')
    <3>1. CASE m = m0
      BY <3>1, <1>m, <1>u, <1>s, <1>r, <1>t, <1>i
    <3>2. CASE m \in inflight
      <4>1. m.key <= scanned /\ (m.key # 0 => m.row[2] <= ReadSoFar(m.key))
        BY <3>2, <1>a DEF CountInv
      <4>2. m.key # 0 => m.key = m.row[1] /\ m.row[1] \in File /\ m.row[2] \in Nat
        BY <3>2, <1>k, <1>t, RowIs
      <4>3. CASE m.key = reading
        <5>1. m.row[2] <= i - 1 /\ m.row[2] \in Nat
          BY <4>1, <4>2, <4>3, <1>s, <1>u
        <5>2. m.row[2] <= i
          BY <5>1, <1>i
        <5> QED
          BY <4>1, <4>3, <5>2, <1>s, <1>u
      <4>4. CASE m.key # reading
        BY <4>1, <4>2, <4>4, <1>s, <1>u
      <4> QED
        BY <4>3, <4>4
    <3> QED
      BY <3>1, <3>2, <1>h
  <2>3. ASSUME NEW g \in DOMAIN open'
        PROVE  open'[g].emitted = open'[g].acked + Cardinality(Carrying(g)')
    <3>1. g \in DOMAIN open /\ open[g].emitted = open[g].acked + Cardinality(Carrying(g))
      BY <1>o, <1>a DEF CountInv
    <3>2. IsFiniteSet(Carrying(g)) /\ Cardinality(Carrying(g)) \in Nat
      <4>1. Carrying(g) \subseteq inflight
        BY DEF Carrying
      <4> QED
        BY <4>1, <1>a, FS_Subset, FS_CardinalityType DEF CountInv
    <3>3. CASE g = key
      <4>1. Carrying(g)' = Carrying(g) \cup {m0}
        BY <3>3, <1>h, <1>m DEF Carrying
      <4>2. m0 \notin Carrying(g)
        <5> SUFFICES ASSUME m0 \in inflight PROVE FALSE
          BY DEF Carrying
        <5>1. key = reading /\ key # 0
          BY <3>1, <3>3, <1>r, <1>o, <1>t
        <5>2. i <= i - 1
          BY <5>1, <1>a, <1>m, <1>s DEF CountInv
        <5> QED
          BY <5>2, <1>i
      <4>3. Cardinality(Carrying(g)') = Cardinality(Carrying(g)) + 1
        BY <4>1, <4>2, <3>2, FS_AddElement
      <4>4. open[g].acked \in Nat
        BY <3>1, <1>o DEF Progress
      <4> QED
        BY <4>3, <4>4, <3>1, <3>2, <3>3, <1>o
    <3>4. CASE g # key
      <4>1. Carrying(g)' = Carrying(g)
        BY <3>4, <1>h, <1>m DEF Carrying
      <4> QED
        BY <4>1, <3>1, <3>4, <1>o
    <3> QED
      BY <3>3, <3>4
  <2>4. ASSUME NEW g \in DOMAIN open', NEW n \in 1..ReadSoFar(g)'
        PROVE  <<g, n>> \in done' \/ [row |-> <<g, n>>, key |-> g] \in inflight'
    <3>1. g \in DOMAIN open /\ g \in File
      BY <1>o
    <3>2. CASE g = reading
      <4>1. key = reading
        BY <3>1, <3>2, <1>r
      <4>2. n = i \/ n \in 1..ReadSoFar(g)
        <5>1. ReadSoFar(g)' = i /\ ReadSoFar(g) = i - 1
          BY <3>2, <1>s, <1>u DEF ReadSoFar
        <5>2. n \in 1..i
          BY <2>4, <5>1
        <5>3. n \in Nat /\ n >= 1 /\ n <= i /\ i \in Nat
          BY <5>2, <1>i, <1>t, <1>r
        <5> QED
          BY <5>1, <5>3, <1>i
      <4>3. CASE n = i
        BY <3>2, <4>1, <4>3, <1>h DEF m0
      <4>4. CASE n \in 1..ReadSoFar(g)
        BY <3>1, <4>4, <1>a, <1>h, <1>u DEF CountInv
      <4> QED
        BY <4>2, <4>3, <4>4
    <3>3. CASE g # reading
      BY <3>1, <3>3, <1>a, <1>h, <1>u, <1>s DEF CountInv
    <3> QED
      BY <3>2, <3>3
  <2> QED
    BY <2>1, <2>2, <2>3, <2>4 DEF CountInv
<1> QED
  BY <1>1, <1>2, <1>3, <1>4, <1>5 DEF IndInv

-----------------------------------------------------------------------------
(* The accounting. *)

(***************************************************************************)
(* The counts of file f become p, for its end or for an acknowledgement.   *)
(* A file that is complete by its counts has no row in flight, so all its  *)
(* rows were acknowledged.                                                 *)
(***************************************************************************)
LEMMA AccountInd ==
  ASSUME IndInv, NEW f \in DOMAIN open, NEW p \in Progress, Account(f, p),
         UNCHANGED <<pending, index, mark, dropped, scanned, key, left, missed, saved,
                     crashes>>,
         done \subseteq done', done' \subseteq Row, inflight' \subseteq inflight,
         reading' \in {reading, 0},
         \A g \in File : ReadSoFar(g)' = ReadSoFar(g),
         p.exhausted <=> f # reading',
         \A g \in DOMAIN open : g # f => (open[g].exhausted <=> g # reading'),
         p.emitted = p.acked + Cardinality(Carrying(f)'),
         \A g \in DOMAIN open : g # f => Carrying(g)' = Carrying(g),
         \A g \in DOMAIN open : \A i \in 1..ReadSoFar(g) :
           <<g, i>> \in done' \/ [row |-> <<g, i>>, key |-> g] \in inflight'
  PROVE  IndInv'
<1>a. /\ TypeOK /\ IndexInv /\ QueueInv /\ CoverInv /\ LiveInv /\ ReadInv
      /\ CountInv /\ CompleteInv
  BY DEF IndInv
<1>t. /\ scanned \in Nat /\ reading \in Nat /\ left \in Nat
      /\ \A g \in File : g \in Nat /\ g > 0 /\ RowsOf[g] \in Nat
  BY <1>a, Types
<1>f. f \in File /\ \A g \in DOMAIN open : g \in File /\ open[g] \in Progress
  BY <1>a DEF TypeOK
<1>1. IndexInv' /\ QueueInv' /\ CoverInv'
  BY TrackerFrame
<1>2. /\ IsFiniteSet(inflight')
      /\ \A m \in inflight' : m.key <= scanned' /\ (m.key # 0 => m.row[2] <= ReadSoFar(m.key)')
  <2>1. IsFiniteSet(inflight')
    BY <1>a, FS_Subset DEF CountInv
  <2>2. ASSUME NEW m \in inflight'
        PROVE  m.key <= scanned' /\ (m.key # 0 => m.row[2] <= ReadSoFar(m.key)')
    <3>1. m.row \in Row /\ m.key \in {0, m.row[1]}
      BY <1>a DEF TypeOK
    <3>2. m.key # 0 => m.key \in File
      BY <3>1, RowIs
    <3> QED
      BY <3>2, <1>a DEF CountInv
  <2> QED
    BY <2>1, <2>2
<1>3. /\ \A m \in inflight' : m.row \in Row /\ m.key \in {0, m.row[1]}
      /\ reading' \in 0..scanned' /\ key' \in 0..scanned'
  BY <1>a, <1>t DEF TypeOK
<1>4. CASE Complete(p)
  <2>o. /\ DOMAIN open' = DOMAIN open \ {f} /\ \A g \in DOMAIN open' : open'[g] = open[g]
        /\ completing' = completing \cup {f}
    BY <1>4 DEF Account, Without
  <2>1. f # reading'
    BY <1>4 DEF Complete
  <2>2. Carrying(f)' = {}
    <3>1. Carrying(f)' \subseteq inflight'
      BY DEF Carrying
    <3>2. IsFiniteSet(Carrying(f)') /\ Cardinality(Carrying(f)') \in Nat
      BY <3>1, <1>2, FS_Subset, FS_CardinalityType
    <3>3. p.acked \in Nat /\ p.emitted \in Nat /\ p.acked >= p.emitted
      BY <1>4 DEF Complete, Progress
    <3>4. Cardinality(Carrying(f)') = 0
      BY <3>2, <3>3
    <3> QED
      BY <3>2, <3>4, FS_EmptySet
  <2>3. Whole(f)'
    <3>1. ReadSoFar(f) = RowsOf[f]
      <4>1. ReadSoFar(f)' = RowsOf[f]
        BY <2>1 DEF ReadSoFar
      <4> QED
        BY <4>1, <1>f
    <3>2. ASSUME NEW r \in Row, r[1] = f PROVE r \in done'
      <4>1. r[2] \in 1..ReadSoFar(f) /\ r = <<f, r[2]>>
        BY <3>1, <3>2, RowIs
      <4>2. [row |-> <<f, r[2]>>, key |-> f] \notin inflight'
        BY <2>2 DEF Carrying
      <4> QED
        BY <4>1, <4>2
    <3> QED
      BY <3>2 DEF Whole
  <2>4. TypeOK'
    <3>1. DOMAIN open' \subseteq File /\ \A g \in DOMAIN open' : open'[g] \in Progress
      BY <2>o, <1>f
    <3>2. completing' \subseteq File
      BY <2>o, <1>f, <1>a DEF TypeOK
    <3> QED
      BY <3>1, <3>2, <1>3, <1>a DEF TypeOK
  <2>5. LiveInv'
    BY <2>o, <1>a DEF LiveInv
  <2>6. ReadInv'
    BY <2>o, <2>1, <1>a, <1>t DEF ReadInv
  <2>7. CountInv'
    BY <2>o, <1>2, <1>a, <1>f DEF CountInv
  <2>8. CompleteInv'
    BY <2>o, <2>3, <1>a, WholeKept DEF CompleteInv
  <2> QED
    BY <1>1, <2>4, <2>5, <2>6, <2>7, <2>8 DEF IndInv
<1>5. CASE ~Complete(p)
  <2>o. /\ DOMAIN open' = DOMAIN open /\ open'[f] = p
        /\ \A g \in DOMAIN open : g # f => open'[g] = open[g]
        /\ completing' = completing
    BY <1>5 DEF Account
  <2>1. TypeOK'
    <3>1. DOMAIN open' \subseteq File /\ \A g \in DOMAIN open' : open'[g] \in Progress
      BY <2>o, <1>f
    <3> QED
      BY <3>1, <2>o, <1>3, <1>a DEF TypeOK
  <2>2. LiveInv'
    BY <2>o, <1>a DEF LiveInv
  <2>3. ReadInv'
    BY <2>o, <1>a, <1>t DEF ReadInv
  <2>4. CountInv'
    BY <2>o, <1>2, <1>a, <1>f DEF CountInv
  <2>5. CompleteInv'
    BY <2>o, <1>a, WholeKept DEF CompleteInv
  <2> QED
    BY <1>1, <2>1, <2>2, <2>3, <2>4, <2>5 DEF IndInv
<1> QED
  BY <1>4, <1>5

(* The end of the file. *)
LEMMA FinishFileInd == ASSUME IndInv, FinishFile PROVE IndInv'
<1>a. /\ TypeOK /\ IndexInv /\ QueueInv /\ CoverInv /\ LiveInv /\ ReadInv
      /\ CountInv /\ CompleteInv
  BY DEF IndInv
<1>t. /\ scanned \in Nat /\ reading \in Nat /\ left \in Nat /\ reading <= scanned
      /\ scanned <= MaxFile /\ MaxFile \in Nat
      /\ \A g \in File : g \in Nat /\ g > 0 /\ RowsOf[g] \in Nat
  BY <1>a, Types
<1>u. /\ reading # 0 /\ left = 0 /\ reading' = 0
      /\ UNCHANGED <<pending, index, mark, dropped, scanned, key, left, inflight, done,
                     missed, saved, crashes>>
  BY DEF FinishFile, tracker
<1>r. IF key = 0 THEN reading \notin DOMAIN open ELSE key = reading /\ key \in DOMAIN open
  BY <1>a, <1>u DEF ReadInv
<1>f. \A g \in DOMAIN open : g \in File /\ g # 0 /\ open[g] \in Progress
  BY <1>a, <1>t DEF TypeOK
<1>s. \A g \in File : ReadSoFar(g)' = ReadSoFar(g)
  BY <1>u, <1>t DEF ReadSoFar
<1>c. \A g : Carrying(g)' = Carrying(g)
  BY <1>u DEF Carrying
<1>1. CASE key \in DOMAIN open
  <2> DEFINE p == [open[key] EXCEPT !.exhausted = TRUE]
  <2>1. Account(key, p) /\ key = reading
    BY <1>1, <1>r, <1>f DEF FinishFile
  <2>2. p \in Progress /\ p.exhausted /\ p.emitted = open[key].emitted /\ p.acked = open[key].acked
    BY <1>1, <1>f DEF Progress
  <2> HIDE DEF p
  <2>3. PICK k \in DOMAIN open : k = key
    BY <1>1
  <2>4. p.emitted = p.acked + Cardinality(Carrying(k)')
    BY <2>2, <2>3, <1>c, <1>a DEF CountInv
  <2>5. p.exhausted <=> k # reading'
    BY <2>2, <2>3, <1>f, <1>u
  <2>6. \A g \in DOMAIN open : g # k => (open[g].exhausted <=> g # reading')
    BY <2>1, <2>3, <1>a, <1>u, <1>f DEF ReadInv
  <2>7. \A g \in DOMAIN open : \A i \in 1..ReadSoFar(g) :
          <<g, i>> \in done' \/ [row |-> <<g, i>>, key |-> g] \in inflight'
    BY <1>a, <1>u DEF CountInv
  <2>8. done' \subseteq Row /\ reading' \in {reading, 0}
    BY <1>a, <1>u DEF TypeOK
  <2>9. Account(k, p) /\ \A g \in DOMAIN open : g # k => Carrying(g)' = Carrying(g)
    BY <2>1, <2>3, <1>c
  <2> QED
    BY <2>2, <2>4, <2>5, <2>6, <2>7, <2>8, <2>9, <1>u, <1>s, AccountInd
<1>2. CASE key \notin DOMAIN open
  <2>1. UNCHANGED <<open, completing>> /\ reading \notin DOMAIN open
    BY <1>2, <1>r DEF FinishFile
  <2>2. TypeOK'
    <3>1. reading' \in 0..scanned'
      BY <1>u, <1>t
    <3> QED
      BY <2>1, <3>1, <1>a, <1>u DEF TypeOK
  <2>3. IndexInv' /\ QueueInv' /\ CoverInv'
    BY <1>u, TrackerFrame
  <2>4. LiveInv' /\ CompleteInv'
    BY <2>1, <1>a, <1>u DEF LiveInv, CompleteInv, Whole
  <2>5. ReadInv'
    BY <2>1, <1>a, <1>u, <1>f DEF ReadInv
  <2>6. CountInv'
    <3>1. ASSUME NEW m \in inflight, m.key # 0 PROVE ReadSoFar(m.key)' = ReadSoFar(m.key)
      <4>1. m.row \in Row /\ m.key \in {0, m.row[1]}
        BY <1>a DEF TypeOK
      <4> QED
        BY <3>1, <4>1, <1>s, RowIs
    <3> QED
      BY <3>1, <2>1, <1>a, <1>u, <1>s, <1>c, <1>f DEF CountInv
  <2> QED
    BY <2>2, <2>3, <2>4, <2>5, <2>6 DEF IndInv
<1> QED
  BY <1>1, <1>2

(* An acknowledgement takes one row out of flight and counts it. *)
LEMMA AckRowInd == ASSUME IndInv, NEW m \in inflight, AckRow(m) PROVE IndInv'
<1>a. /\ TypeOK /\ IndexInv /\ QueueInv /\ CoverInv /\ LiveInv /\ ReadInv
      /\ CountInv /\ CompleteInv
  BY DEF IndInv
<1>u. /\ inflight' = inflight \ {m} /\ done' = done \cup {m.row}
      /\ UNCHANGED <<pending, index, mark, dropped, scanned, reading, key, left, missed,
                     saved, crashes>>
  BY DEF AckRow, tracker, reader
<1>m. m.row \in Row /\ m.key \in {0, m.row[1]}
  BY <1>a DEF TypeOK
<1>s. \A g : ReadSoFar(g)' = ReadSoFar(g)
  BY <1>u DEF ReadSoFar
<1>c. \A g : g # m.key => Carrying(g)' = Carrying(g)
  BY <1>u DEF Carrying
<1>d. done' \subseteq Row /\ done \subseteq done'
  BY <1>a, <1>u, <1>m DEF TypeOK
<1>i. \A g \in DOMAIN open : \A i \in 1..ReadSoFar(g) :
        <<g, i>> \in done' \/ [row |-> <<g, i>>, key |-> g] \in inflight'
  <2> SUFFICES ASSUME NEW g \in DOMAIN open, NEW i \in 1..ReadSoFar(g)
               PROVE  <<g, i>> \in done' \/ [row |-> <<g, i>>, key |-> g] \in inflight'
    OBVIOUS
  <2>1. <<g, i>> \in done \/ [row |-> <<g, i>>, key |-> g] \in inflight
    BY <1>a DEF CountInv
  <2>2. [row |-> <<g, i>>, key |-> g] = m => m.row = <<g, i>>
    OBVIOUS
  <2> QED
    BY <2>1, <2>2, <1>u
<1>1. CASE m.key \in DOMAIN open
  <2>1. PICK k \in DOMAIN open : k = m.key
    BY <1>1
  <2> DEFINE p == [open[k] EXCEPT !.acked = @ + 1]
  <2>2. Account(k, p)
    BY <1>1, <2>1 DEF AckRow
  <2>3. /\ p \in Progress /\ p.exhausted = open[k].exhausted /\ open[k].acked \in Nat
        /\ p.emitted = open[k].emitted /\ p.acked = open[k].acked + 1
    <3>1. open[k] \in Progress
      BY <1>a DEF TypeOK
    <3> QED
      BY <3>1 DEF Progress
  <2> HIDE DEF p
  <2>4. p.emitted = p.acked + Cardinality(Carrying(k)')
    <3>1. open[k].emitted = open[k].acked + Cardinality(Carrying(k))
      BY <1>a DEF CountInv
    <3>2. IsFiniteSet(Carrying(k)) /\ Cardinality(Carrying(k)) \in Nat
      <4>1. Carrying(k) \subseteq inflight
        BY DEF Carrying
      <4> QED
        BY <4>1, <1>a, FS_Subset, FS_CardinalityType DEF CountInv
    <3>3. Carrying(k)' = Carrying(k) \ {m} /\ m \in Carrying(k)
      BY <2>1, <1>u DEF Carrying
    <3>4. Cardinality(Carrying(k)') = Cardinality(Carrying(k)) - 1
      BY <3>2, <3>3, FS_RemoveElement
    <3> QED
      BY <3>1, <3>2, <3>4, <2>3
  <2>5. p.exhausted <=> k # reading'
    BY <2>3, <1>a, <1>u DEF ReadInv
  <2>6. \A g \in DOMAIN open : g # k =>
          (open[g].exhausted <=> g # reading') /\ Carrying(g)' = Carrying(g)
    BY <2>1, <1>a, <1>u, <1>c DEF ReadInv
  <2>7. inflight' \subseteq inflight /\ reading' \in {reading, 0}
    BY <1>u
  <2> QED
    BY <2>2, <2>3, <2>4, <2>5, <2>6, <2>7, <1>d, <1>i, <1>s, <1>u, AccountInd
<1>2. CASE m.key \notin DOMAIN open
  <2>1. UNCHANGED <<open, completing>>
    BY <1>2 DEF AckRow
  <2>2. TypeOK'
    BY <2>1, <1>a, <1>u, <1>d DEF TypeOK
  <2>3. IndexInv' /\ QueueInv' /\ CoverInv'
    BY <1>u, <1>d, TrackerFrame
  <2>4. LiveInv' /\ ReadInv'
    BY <2>1, <1>a, <1>u DEF LiveInv, ReadInv
  <2>5. CompleteInv'
    BY <2>1, <1>a, <1>d, WholeKept DEF CompleteInv
  <2>6. CountInv'
    <3>1. IsFiniteSet(inflight')
      BY <1>a, <1>u, FS_RemoveElement DEF CountInv
    <3>2. \A g \in DOMAIN open : Carrying(g)' = Carrying(g)
      BY <1>2, <1>c
    <3> QED
      BY <3>1, <3>2, <2>1, <1>a, <1>u, <1>s, <1>i DEF CountInv
  <2> QED
    BY <2>2, <2>3, <2>4, <2>5, <2>6 DEF IndInv
<1> QED
  BY <1>1, <1>2

-----------------------------------------------------------------------------
(* The tracker, the stored watermark and restarts. *)

(***************************************************************************)
(* Telling the tracker of a complete file.  The entries carry ascending    *)
(* cursors, so the mark stops at the last entry that leaves the queue, and *)
(* what it passed was acknowledged before or is the file itself.           *)
(***************************************************************************)
LEMMA CompleteFileInd == ASSUME IndInv, NEW f \in File, CompleteFile(f) PROVE IndInv'
<1>a. /\ TypeOK /\ IndexInv /\ QueueInv /\ CoverInv /\ LiveInv /\ ReadInv
      /\ CountInv /\ CompleteInv
  BY DEF IndInv
<1>t. /\ pending \in Seq(Entry) /\ Len(pending) \in Nat /\ IndexTyped
      /\ \A j \in 1..Len(pending) : pending[j].id \in Nat /\ pending[j].cursor \in Nat
      /\ mark \in Nat /\ scanned \in Nat /\ saved \in Nat /\ MaxFile \in Nat
      /\ scanned <= MaxFile
      /\ \A g \in File : g \in Nat /\ g > 0
  BY <1>a, Types
<1>u. /\ f \in completing /\ completing' = completing \ {f} /\ Ack(f)
      /\ UNCHANGED <<scanned, reading, key, left, open, inflight, done, missed, saved, crashes>>
  BY DEF CompleteFile, reader
<1>w. \A g : Whole(g)' <=> Whole(g)
  BY <1>u DEF Whole
<1>f. f \notin DOMAIN open /\ Whole(f)
  BY <1>a, <1>u DEF CompleteInv
<1>1. ReadInv' /\ CompleteInv'
  BY <1>a, <1>u, <1>w DEF ReadInv, CompleteInv
<1>2. CountInv'
  <2>1. \A g : ReadSoFar(g)' = ReadSoFar(g) /\ Carrying(g)' = Carrying(g)
    BY <1>u DEF ReadSoFar, Carrying
  <2> QED
    BY <2>1, <1>a, <1>u DEF CountInv
<1>3. ASSUME pending' \in Seq(Entry), IndexTyped', mark' \in 0..MaxFile, dropped' = dropped
      PROVE  TypeOK'
  BY <1>3, <1>a, <1>u DEF TypeOK, IndexTyped
<1>4. CASE f \notin DOMAIN index
  <2>1. UNCHANGED <<pending, index, mark, dropped>>
    BY <1>4, <1>u DEF Ack, tracker
  <2>2. TypeOK'
    <3>1. IndexTyped' /\ mark' \in 0..MaxFile
      BY <2>1, <1>a, <1>t DEF IndexTyped, TypeOK
    <3> QED
      BY <3>1, <2>1, <1>3, <1>t
  <2>3. IndexInv' /\ QueueInv' /\ CoverInv'
    BY <2>1, <1>u, TrackerFrame
  <2>4. LiveInv'
    BY <2>1, <1>a, <1>u DEF LiveInv
  <2> QED
    BY <2>2, <2>3, <2>4, <1>1, <1>2 DEF IndInv
<1>5. CASE f \in DOMAIN index
  <2>n. PICK n \in Nat :
          /\ n <= Len(pending) /\ UNCHANGED dropped
          /\ pending' \in Seq(Entry) /\ Len(pending') = Len(pending) - n
          /\ \A j \in 1..Len(pending') :
               /\ j + n \in 1..Len(pending)
               /\ pending'[j].id = pending[j + n].id
               /\ pending'[j].cursor = pending[j + n].cursor
               /\ pending'[j].acked => pending[j + n].acked \/ j + n = index[f]
          /\ \A j \in 1..n : pending[j].acked \/ j = index[f]
          /\ \/ mark' = mark /\ \A j \in 1..n : pending[j].cursor = NoCursor
             \/ \E k \in 1..n :
                  /\ mark' = pending[k].cursor /\ pending[k].cursor # NoCursor
                  /\ \A j \in (k + 1)..n : pending[j].cursor = NoCursor
          /\ DOMAIN index' = {pending'[j].id : j \in 1..Len(pending')}
          /\ \A x \in DOMAIN index' : index'[x] \in 1..Len(pending') /\ pending'[index'[x]].id = x
    BY <1>5, <1>t, <1>u, AckTakesPrefix
  <2>i. /\ IndexTyped' /\ IndexInv'
        /\ \A x \in DOMAIN index' : x \in DOMAIN index /\ index[x] = index'[x] + n
        /\ \A x \in DOMAIN index : index[x] > n => x \in DOMAIN index'
    BY <2>n, <1>a, <1>t, Reindexing
  <2>l. \A j \in 1..n : j \in 1..Len(pending)
    BY <2>n, <1>t
  <2>x. \A x \in DOMAIN index : index[x] \in 1..Len(pending) /\ pending[index[x]].id = x
    BY <1>a, <1>t DEF IndexInv, IndexTyped
  <2>o. ASSUME NEW j \in 1..Len(pending), NEW k \in 1..Len(pending), k < j
        PROVE  pending[k].id < pending[j].id
    <3>1. k \in 1..j /\ k # j
      BY <2>o, <1>t
    <3> QED
      BY <3>1, <1>a DEF QueueInv
  <2>e. \A j \in 1..Len(pending) :
          /\ pending[j].cursor = pending[j].id /\ mark < pending[j].id
          /\ pending[j].id <= scanned /\ pending[j].cursor # NoCursor
          /\ pending[j].acked => Whole(pending[j].id)
    BY <1>a, <1>t DEF QueueInv, NoCursor
  <2>m. (n = 0 /\ mark' = mark) \/ (n \in 1..Len(pending) /\ mark' = pending[n].id)
    <3>1. CASE mark' = mark /\ \A j \in 1..n : pending[j].cursor = NoCursor
      <4>1. n > 0 => n \in 1..n
        BY <2>n
      <4>2. n = 0
        BY <3>1, <4>1, <2>e, <2>l, <2>n
      <4> QED
        BY <3>1, <4>2
    <3>2. ASSUME NEW k \in 1..n, mark' = pending[k].cursor,
                 \A j \in (k + 1)..n : pending[j].cursor = NoCursor
          PROVE  n \in 1..Len(pending) /\ mark' = pending[n].id
      <4>1. k = n
        <5> SUFFICES ASSUME k # n PROVE FALSE
          OBVIOUS
        <5>1. n \in (k + 1)..n /\ n \in 1..n
          BY <2>n
        <5> QED
          BY <5>1, <3>2, <2>e, <2>l
      <4>2. n \in 1..Len(pending)
        BY <4>1, <2>l
      <4> QED
        BY <4>1, <4>2, <3>2, <2>e
    <3> QED
      BY <3>1, <3>2, <2>n
  <2>k. mark' \in Nat /\ mark <= mark' /\ mark' <= scanned
    BY <2>m, <2>e, <1>t, <1>a DEF QueueInv
  <2>a. \A j \in 1..Len(pending) : j <= n <=> pending[j].id <= mark'
    <3> SUFFICES ASSUME NEW j \in 1..Len(pending)
                 PROVE  j <= n <=> pending[j].id <= mark'
      OBVIOUS
    <3>1. CASE n = 0 /\ mark' = mark
      <4>1. ~(pending[j].id <= mark) /\ ~(j <= 0)
        BY <2>e, <1>t
      <4> QED
        BY <3>1, <4>1
    <3>2. CASE n \in 1..Len(pending) /\ mark' = pending[n].id
      <4>1. j < n => pending[j].id < pending[n].id
        BY <3>2, <2>o
      <4>2. n < j => pending[n].id < pending[j].id
        BY <3>2, <2>o
      <4>3. pending[j].id \in Nat /\ pending[n].id \in Nat
        BY <3>2, <1>t
      <4> QED
        BY <3>2, <4>1, <4>2, <4>3
    <3> QED
      BY <3>1, <3>2, <2>m
  <2>1. TypeOK'
    <3>1. mark' \in 0..MaxFile
      BY <2>k, <1>t
    <3> QED
      BY <3>1, <2>n, <2>i, <1>3
  <2>2. QueueInv'
    <3>1. saved' <= mark' /\ mark' <= scanned'
      BY <2>k, <1>a, <1>t, <1>u DEF QueueInv
    <3>2. ASSUME NEW j \in 1..Len(pending')
          PROVE  /\ pending'[j].cursor = pending'[j].id
                 /\ mark' < pending'[j].id /\ pending'[j].id <= scanned'
                 /\ pending'[j].acked => \A r \in Row : r[1] = pending'[j].id => r \in done'
                 /\ \A k \in 1..j : k = j \/ pending'[k].id < pending'[j].id
      <4>0. PICK i \in 1..Len(pending) : i = j + n
        BY <2>n
      <4>1. /\ pending'[j].id = pending[i].id /\ pending'[j].cursor = pending[i].cursor
            /\ pending'[j].acked => pending[i].acked \/ i = index[f]
        BY <4>0, <2>n
      <4>2. mark' < pending[i].id
        <5>1. ~(i <= n)
          BY <4>0, <2>n, <1>t
        <5> QED
          BY <5>1, <2>a, <2>k, <1>t
      <4>3. pending'[j].acked => Whole(pending[i].id)
        BY <4>1, <2>e, <2>x, <1>5, <1>f
      <4>4. ASSUME NEW k \in 1..j, k # j PROVE pending'[k].id < pending'[j].id
        <5>1. k \in 1..Len(pending') /\ k + n < i
          BY <4>0, <4>4, <2>n, <1>t
        <5>2. k + n \in 1..Len(pending) /\ pending'[k].id = pending[k + n].id
          BY <5>1, <2>n
        <5> QED
          BY <5>1, <5>2, <4>1, <2>o
      <4> QED
        BY <4>1, <4>2, <4>3, <4>4, <2>e, <1>u DEF Whole
    <3> QED
      BY <3>1, <3>2 DEF QueueInv, Whole
  <2>3. CoverInv'
    <3> SUFFICES ASSUME NEW g \in File, g \notin missed
                 PROVE  /\ g <= mark' => Whole(g)
                        /\ mark' < g /\ g <= scanned => g \in DOMAIN index'
      BY <1>u, <1>w DEF CoverInv
    <3>1. /\ g <= mark => Whole(g)
          /\ mark < g /\ g <= scanned => g \in DOMAIN index
      BY <1>a DEF CoverInv
    <3>2. g \in Nat
      BY <1>t
    <3>3. ASSUME g <= mark', ~(g <= mark) PROVE Whole(g)
      <4>1. g \in DOMAIN index
        BY <3>1, <3>2, <3>3, <2>k, <1>t
      <4>2. index[g] \in 1..Len(pending) /\ pending[index[g]].id = g
        BY <4>1, <2>x
      <4>3. index[g] \in 1..n
        BY <4>2, <3>3, <2>a
      <4>4. pending[index[g]].acked \/ index[g] = index[f]
        BY <4>3, <2>n
      <4> QED
        BY <4>2, <4>4, <2>e, <2>x, <1>5, <1>f
    <3>4. ASSUME mark' < g, g <= scanned PROVE g \in DOMAIN index'
      <4>1. g \in DOMAIN index
        BY <3>1, <3>2, <3>4, <2>k, <1>t
      <4>2. index[g] \in 1..Len(pending) /\ pending[index[g]].id = g
        BY <4>1, <2>x
      <4>3. index[g] > n
        BY <4>2, <3>4, <3>2, <2>a, <2>k, <2>n
      <4> QED
        BY <4>1, <4>3, <2>i
    <3> QED
      BY <3>1, <3>3, <3>4
  <2>4. LiveInv'
    <3> SUFFICES ASSUME NEW g \in DOMAIN open' \cup completing'
                 PROVE  /\ g <= scanned'
                        /\ g \notin missed' => g \in DOMAIN index' /\ ~pending'[index'[g]].acked
      BY DEF LiveInv
    <3>1. g \in DOMAIN open \cup completing /\ g # f
      BY <1>u, <1>f
    <3>2. g <= scanned' /\ (g \notin missed => g \in DOMAIN index /\ ~pending[index[g]].acked)
      BY <3>1, <1>a, <1>u DEF LiveInv
    <3>3. ASSUME g \notin missed' PROVE g \in DOMAIN index' /\ ~pending'[index'[g]].acked
      <4>1. g \in DOMAIN index /\ ~pending[index[g]].acked
        BY <3>2, <3>3, <1>u
      <4>2. index[g] \in 1..Len(pending) /\ index[g] # index[f]
        BY <4>1, <3>1, <2>x, <1>5
      <4>3. index[g] > n
        <5>1. index[g] \notin 1..n
          BY <4>1, <4>2, <2>n
        <5> QED
          BY <5>1, <4>2, <2>n, <1>t
      <4>4. g \in DOMAIN index' /\ index[g] = index'[g] + n /\ index'[g] \in 1..Len(pending')
        BY <4>1, <4>3, <2>i, <2>n
      <4> QED
        BY <4>1, <4>2, <4>4, <2>n
    <3> QED
      BY <3>2, <3>3
  <2> QED
    BY <2>1, <2>2, <2>3, <2>4, <2>i, <1>1, <1>2 DEF IndInv
<1> QED
  BY <1>4, <1>5

LEMMA CheckpointInd == ASSUME IndInv, Checkpoint PROVE IndInv'
<1>a. /\ TypeOK /\ IndexInv /\ QueueInv /\ CoverInv /\ LiveInv /\ ReadInv
      /\ CountInv /\ CompleteInv
  BY DEF IndInv
<1>t. mark \in Nat
  BY <1>a, Types
<1>u. /\ saved' = mark
      /\ UNCHANGED <<pending, index, mark, dropped, scanned, reading, key, left, open, inflight,
                     completing, done, missed, crashes>>
  BY DEF Checkpoint, tracker, reader
<1>1. TypeOK'
  BY <1>a, <1>u DEF TypeOK
<1>2. IndexInv' /\ CoverInv' /\ LiveInv' /\ ReadInv' /\ CompleteInv'
  BY <1>a, <1>u DEF IndexInv, CoverInv, LiveInv, ReadInv, CompleteInv, Whole
<1>3. QueueInv'
  <2>1. saved' <= mark' /\ mark' <= scanned'
    BY <1>a, <1>t, <1>u DEF QueueInv
  <2> QED
    BY <2>1, <1>a, <1>u DEF QueueInv, Whole
<1>4. CountInv'
  <2>1. \A g : ReadSoFar(g)' = ReadSoFar(g) /\ Carrying(g)' = Carrying(g)
    BY <1>u DEF ReadSoFar, Carrying
  <2> QED
    BY <2>1, <1>a, <1>u DEF CountInv
<1> QED
  BY <1>1, <1>2, <1>3, <1>4 DEF IndInv

(* A restart reads again from the stored watermark, which covers what it   *)
(* covered.                                                                *)
LEMMA RestartInd == ASSUME IndInv, Restart PROVE IndInv'
<1>a. TypeOK /\ QueueInv /\ CoverInv
  BY DEF IndInv
<1>t. /\ mark \in Nat /\ scanned \in Nat /\ saved \in Nat /\ MaxFile \in Nat
      /\ \A g \in File : g \in Nat
  BY <1>a, Types
<1>u. /\ crashes < MaxCrashes /\ crashes' = crashes + 1
      /\ pending' = <<>> /\ Len(pending') = 0 /\ DOMAIN index' = {} /\ mark' = saved
      /\ scanned' = saved /\ reading' = 0 /\ key' = 0 /\ left' = 0
      /\ DOMAIN open' = {} /\ inflight' = {} /\ completing' = {}
      /\ UNCHANGED <<dropped, done, missed, saved>>
  BY DEF Restart, SetMark, NoFiles
<1>1. TypeOK'
  <2>1. <<>> \in Seq(Entry)
    OBVIOUS
  <2>2. /\ crashes' \in 0..MaxCrashes /\ 0 \in 0..scanned' /\ 0 \in Nat
        /\ saved \in 0..MaxFile
    BY <1>a, <1>t, <1>u, FileAssumption DEF TypeOK
  <2> QED
    BY <2>1, <2>2, <1>a, <1>u DEF TypeOK
<1>2. IndexInv' /\ LiveInv' /\ ReadInv' /\ CompleteInv'
  BY <1>u DEF IndexInv, LiveInv, ReadInv, CompleteInv
<1>3. QueueInv'
  BY <1>u, <1>t DEF QueueInv
<1>4. CoverInv'
  <2> SUFFICES ASSUME NEW g \in File, g \notin missed
               PROVE  (g <= saved => Whole(g)) /\ ~(saved < g /\ g <= saved)
    BY <1>u DEF CoverInv, Whole
  <2>1. g <= saved => g <= mark
    BY <1>a, <1>t DEF QueueInv
  <2> QED
    BY <2>1, <1>a, <1>t DEF CoverInv
<1>5. CountInv'
  BY <1>u, FS_EmptySet DEF CountInv
<1> QED
  BY <1>1, <1>2, <1>3, <1>4, <1>5 DEF IndInv

LEMMA StepInd == IndInv /\ [Next]_vars => IndInv'
<1> SUFFICES ASSUME IndInv, [Next]_vars PROVE IndInv'
  OBVIOUS
<1>1. CASE OpenFile
  BY <1>1, OpenFileInd
<1>2. CASE OpenError
  BY <1>2, OpenErrorInd
<1>3. CASE ReadRow
  BY <1>3, ReadRowInd
<1>4. CASE FinishFile
  BY <1>4, FinishFileInd
<1>5. CASE Checkpoint
  BY <1>5, CheckpointInd
<1>6. CASE Restart
  BY <1>6, RestartInd
<1>7. ASSUME NEW m \in inflight, AckRow(m) PROVE IndInv'
  BY <1>7, AckRowInd
<1>8. ASSUME NEW f \in File, CompleteFile(f) PROVE IndInv'
  BY <1>8, CompleteFileInd
<1>9. CASE UNCHANGED vars
  <2>u. UNCHANGED <<pending, index, mark, dropped, scanned, reading, key, left, open, inflight,
                    completing, done, missed, saved, crashes>>
    BY <1>9 DEF vars, tracker, reader
  <2>1. TypeOK'
    BY <2>u DEF IndInv, TypeOK
  <2>2. IndexInv' /\ QueueInv' /\ CoverInv'
    BY <2>u, TrackerFrame
  <2>3. LiveInv' /\ ReadInv' /\ CompleteInv'
    BY <2>u DEF IndInv, LiveInv, ReadInv, CompleteInv, Whole
  <2>4. CountInv'
    <3>1. \A g : ReadSoFar(g)' = ReadSoFar(g) /\ Carrying(g)' = Carrying(g)
      BY <2>u DEF ReadSoFar, Carrying
    <3> QED
      BY <3>1, <2>u DEF IndInv, CountInv
  <2> QED
    BY <2>1, <2>2, <2>3, <2>4 DEF IndInv
<1> QED
  BY <1>1, <1>2, <1>3, <1>4, <1>5, <1>6, <1>7, <1>8, <1>9 DEF Next

(***************************************************************************)
(* Every reachable state of the file source satisfies the inductive        *)
(* invariant: type correctness (TypeOK), the tracker's index, and what the *)
(* queue, the counts and the files on the way to the tracker have to do    *)
(* with the rows acknowledged.                                             *)
(***************************************************************************)
THEOREM Inductive == Spec => []IndInv
  BY InitInd, StepInd, PTL DEF Spec

(***************************************************************************)
(* A restart never skips an unacknowledged row of a recorded file: every   *)
(* row of every such file at or below the persisted watermark has been     *)
(* acknowledged.                                                           *)
(***************************************************************************)
THEOREM RegisteredFilesWholeHolds == Spec => []RegisteredFilesWhole
<1>1. IndInv => RegisteredFilesWhole
  <2> SUFFICES ASSUME IndInv, NEW f \in File, f <= saved, f \notin missed PROVE Whole(f)
    BY DEF RegisteredFilesWhole
  <2>1. TypeOK /\ QueueInv /\ CoverInv
    BY DEF IndInv
  <2>2. f \in Nat /\ saved \in Nat /\ mark \in Nat
    BY <2>1, Types
  <2>3. f <= mark
    BY <2>1, <2>2 DEF QueueInv
  <2> QED
    BY <2>1, <2>3 DEF CoverInv
<1> QED
  BY <1>1, Inductive, PTL

(***************************************************************************)
(* finishFile and Ack, in whatever order the goroutines take them, find a  *)
(* file complete once, after its last row, while the tracker still waits   *)
(* for it.                                                                 *)
(***************************************************************************)
THEOREM CompleteOnceHolds == Spec => []CompleteOnce
<1>1. IndInv => CompleteOnce
  <2> SUFFICES ASSUME IndInv, NEW f \in completing
               PROVE  /\ f \notin DOMAIN open /\ f # reading /\ Whole(f)
                      /\ f \notin missed => f \in DOMAIN index /\ ~pending[index[f]].acked
    BY DEF CompleteOnce
  <2>1. f \in File /\ f \in Nat /\ f > 0
    BY Types DEF IndInv, TypeOK
  <2>2. f # reading
    BY <2>1 DEF IndInv, ReadInv
  <2> QED
    BY <2>2 DEF IndInv, LiveInv, CompleteInv
<1> QED
  BY <1>1, Inductive, PTL
=============================================================================
