------------------------ MODULE PostgresSource_proofs ------------------------
(***************************************************************************)
(* What the slot confirms has been acknowledged, for any log and any       *)
(* positions in it, except where a position overruns the change's commit   *)
(* or another row has the same one.                                        *)
(***************************************************************************)
EXTENDS PostgresSource, TLAPS

LEMMA LsnType ==
  /\ \A m \in Message : m \in Nat /\ Lsn(m) \in Nat /\ Commit[m] \in Nat
  /\ Change \subseteq Message /\ Placed \subseteq Change
  /\ \A c \in Change : Lsn(c) \in Nat /\ Lsn(c) \in Positions /\ Commit[c] \in Nat
  /\ Positions \subseteq Nat
  /\ \A p \in Positions : \E c \in Change : p = Lsn(c)
<1>1. Change \subseteq Message /\ Placed \subseteq Change
  BY PostgresAssumption DEF Placed
<1>2. \A m \in Message : m \in Nat /\ Lsn(m) \in Nat /\ Commit[m] \in Nat
  BY PostgresAssumption DEF Lsn, Message
<1> QED BY <1>1, <1>2 DEF Positions

(* What being placed means: no message up to the change reaches past its    *)
(* commit, and no other change has its position.                           *)
LEMMA PlacedFits ==
  ASSUME NEW c \in Placed
  PROVE  /\ Lsn(c) <= Commit[c]
         /\ \A m \in Message : Commit[c] < Lsn(m) => c < m
         /\ \A d \in Change : d # c => Lsn(d) # Lsn(c)
<1>1. c \in Message /\ c \in Nat /\ c <= c BY LsnType
<1>2. \A m \in Message : m <= c => ~(Lsn(m) > Commit[c]) BY DEF Placed, Overrun
<1>3. \A d \in Change : d # c => Lsn(d) # Lsn(c) BY DEF Placed, Twin
<1> QED BY <1>1, <1>2, <1>3, LsnType

LEMMA InitInv == Init => IndInv
<1> SUFFICES ASSUME Init PROVE IndInv OBVIOUS
<1>1. TypeOK BY LsnType, PostgresAssumption DEF Init, TypeOK, Zero
<1>2. HeapInv BY LsnType DEF Init, HeapInv, Open, Zero
<1>3. EarlyInv BY LsnType DEF Init, EarlyInv, Zero
<1>4. SentInv BY DEF Init, SentInv
<1>5. ReceivedInv BY LsnType DEF Init, ReceivedInv
<1>6. SafeInv BY LsnType DEF Init, SafeInv, Settled
<1> QED BY <1>1, <1>2, <1>3, <1>4, <1>5, <1>6 DEF IndInv

(* Counting one handover or acknowledgement more or less. *)
LEMMA CountUp ==
  ASSUME NEW f \in [Positions -> Nat], NEW g, NEW p \in Positions,
         g = [f EXCEPT ![p] = @ + 1]
  PROVE  /\ g \in [Positions -> Nat] /\ g[p] > 0
         /\ \A q \in Positions : g[q] >= f[q] /\ (q # p => g[q] = f[q])
OBVIOUS

LEMMA CountDown ==
  ASSUME NEW f \in [Positions -> Nat], NEW g, NEW p \in Positions, f[p] > 0,
         g = [f EXCEPT ![p] = @ - 1]
  PROVE  /\ g \in [Positions -> Nat]
         /\ \A q \in Positions : g[q] <= f[q] /\ (q # p => g[q] = f[q])
OBVIOUS

LEMMA CountSame ==
  ASSUME NEW f \in [Positions -> Nat]
  PROVE  \A q \in Positions : f[q] \in Nat /\ f[q] <= f[q] /\ f[q] >= f[q]
OBVIOUS

(* The heap after advance holds every outstanding position, and safe covers *)
(* acknowledged changes only, of those that are placed, if each of them that *)
(* commits below the highest position handed over is tracked.              *)
LEMMA AdvanceStep ==
  ASSUME NEW out \in [Positions -> Nat], NEW heap \in SUBSET Positions,
         NEW top \in Nat, NEW D \in SUBSET Change, safe \in Nat,
         Open(out) \subseteq heap, \A p \in Open(out) : p <= top,
         \A c \in Placed : Commit[c] < top => c \in D \/ out[Lsn(c)] > 0,
         \A c \in Placed : Commit[c] < safe => c \in D,
         Advance(out, heap, top)
  PROVE  /\ low' \subseteq Positions /\ Open(out) \subseteq low'
         /\ safe' \in Nat
         /\ \A c \in Placed : Commit[c] < safe' => c \in D
<1> DEFINE h == Popped(heap, out)
<1>1. h \subseteq heap /\ Open(out) \subseteq h
  <2>1. \A p \in Open(out) : p \in heap /\ p <= p /\ out[p] > 0 BY LsnType DEF Open
  <2> QED BY <2>1 DEF Popped
<1>2. low' \subseteq Positions /\ Open(out) \subseteq low'
  <2>1. low' = h \/ low' = Open(out) BY DEF Advance, Rebuilt
  <2> QED BY <2>1, <1>1 DEF Open
<1>3. CASE h = {}
  <2>1. safe' = Larger(safe, top) BY <1>3 DEF Advance
  <2>2. \A c \in Placed : Commit[c] < top => c \in D
    <3> SUFFICES ASSUME NEW c \in Placed, Commit[c] < top, c \notin D PROVE FALSE OBVIOUS
    <3>1. Lsn(c) \in Open(out) BY LsnType DEF Open
    <3> QED BY <3>1, <1>1, <1>3
  <2> QED BY <2>1, <2>2, <1>2, LsnType DEF Larger
<1>4. CASE h # {}
  <2>1. PICK p \in h : (\A q \in h : p <= q) /\ safe' = Larger(safe, p - 1)
    BY <1>4 DEF Advance
  <2>2. PICK q \in heap : q <= p /\ out[q] > 0 BY <2>1 DEF Popped
  <2>3. q \in Open(out) /\ q = p
    BY <2>1, <2>2, <1>1, LsnType DEF Open, Popped
  <2>4. p \in Nat /\ p <= top /\ p > 0 /\ p \in Positions
    <3>1. p \in Positions /\ p <= top BY <2>3 DEF Open
    <3>2. PICK c \in Change : p = Lsn(c) BY <3>1, LsnType
    <3> QED BY <3>1, <3>2, LsnType, PostgresAssumption DEF Lsn
  <2>5. \A c \in Placed : Commit[c] < p - 1 => c \in D
    <3> SUFFICES ASSUME NEW c \in Placed, Commit[c] < p - 1, c \notin D PROVE FALSE OBVIOUS
    <3>1. Commit[c] < top BY <2>4, LsnType
    <3>2. Lsn(c) \in Open(out) BY <3>1, LsnType DEF Open
    <3>3. p <= Lsn(c) BY <3>2, <1>1, <2>1
    <3> QED BY <3>3, <2>4, LsnType, PlacedFits
  <2> QED BY <2>1, <2>4, <2>5, <1>2, LsnType DEF Larger
<1> QED BY <1>3, <1>4

(* What flushPosition answers covers acknowledged changes only. *)
LEMMA FlushSettled ==
  ASSUME IndInv, NEW recv \in Nat, \A c \in Placed : Commit[c] < recv => Tracked(c)
  PROVE  Flush(recv) \in Nat /\ Settled(Flush(recv))
<1>1. CASE Pending BY <1>1 DEF Flush, IndInv, SafeInv, TypeOK
<1>2. CASE ~Pending
  <2>1. \A c \in Placed : Commit[c] < recv => c \in done
    BY <1>2, LsnType DEF Pending, Open, Tracked, IndInv, TypeOK
  <2>2. Flush(recv) = recv \/ Flush(recv) = acked BY <1>2 DEF Flush, Larger
  <2> QED BY <2>1, <2>2 DEF Settled, IndInv, SafeInv, TypeOK
<1> QED BY <1>1, <1>2

(* A standby update leaves the slot at a position that covers acknowledged  *)
(* changes only.                                                           *)
LEMMA ConfirmSettled ==
  ASSUME slot \in Nat, Settled(slot), NEW f \in Nat, Settled(f), Confirm(f), done' = done
  PROVE  slot' \in Nat /\ Settled(slot)'
BY DEF Confirm, Settled, Larger

LEMMA SeedSettled ==
  ASSUME IndInv, Seed, UNCHANGED <<slot, window, done>>
  PROVE  /\ acked' \in Nat /\ received' \in Nat
         /\ ReceivedInv' /\ SafeInv'
BY LsnType DEF Seed, IndInv, TypeOK, SafeInv, ReceivedInv, Settled, Tracked, Larger, window

-----------------------------------------------------------------------------
(* One lemma per action.                                                   *)

LEMMA InitializeStep == ASSUME IndInv, Initialize PROVE IndInv'
<1>1. ReceivedInv' /\ SafeInv' /\ acked' \in Nat /\ received' \in Nat
  BY SeedSettled DEF Initialize, server
<1>2. TypeOK' BY <1>1 DEF Initialize, IndInv, TypeOK, server, window
<1>3. HeapInv' /\ EarlyInv'
  BY DEF Initialize, IndInv, HeapInv, EarlyInv, Open, window, TypeOK
<1>4. SentInv' BY DEF Initialize, IndInv, SentInv, TypeOK, server
<1> QED BY <1>1, <1>2, <1>3, <1>4 DEF IndInv

LEMMA ReconnectStep == ASSUME IndInv, Reconnect PROVE IndInv'
<1>1. ReceivedInv' /\ SafeInv' /\ acked' \in Nat /\ received' \in Nat
  BY SeedSettled DEF Reconnect
<1>0. wire' \in 1..(MaxMessage + 1) /\ wire' \in 0..(MaxMessage + 1) /\ wire' # 0
  <2>1. wire' \in FirstFrom(slot) BY DEF Reconnect
  <2>2. wire' \in 1..(MaxMessage + 1) BY <2>1 DEF FirstFrom
  <2> QED BY <2>2, PostgresAssumption
<1>2. TypeOK' BY <1>0, <1>1 DEF Reconnect, IndInv, TypeOK, window
<1>3. HeapInv' /\ EarlyInv' BY DEF Reconnect, IndInv, HeapInv, EarlyInv, Open, window
<1>4. stage' = "idle" BY DEF Reconnect, IndInv, TypeOK
<1>5. \A c \in Placed : c < wire' => c \in done
  BY LsnType DEF Reconnect, FirstFrom, IndInv, SafeInv, Settled
<1>6. SentInv' BY <1>4, <1>5 DEF SentInv, Tracked, Reconnect
<1> QED BY <1>1, <1>2, <1>3, <1>6 DEF IndInv

LEMMA ReceiveStep == ASSUME IndInv, Receive PROVE IndInv'
<1>1. wire \in Message BY DEF Receive, Idle, IndInv, TypeOK, Message
<1>2. TypeOK'
  <2>1. wire' \in 0..(MaxMessage + 1) /\ wire' # 0
    BY <1>1, PostgresAssumption DEF Receive, Message
  <2>3. hand' \in 0..MaxMessage /\ (stage' # "idle" => hand' \in Change)
    BY <1>1 DEF Receive, Idle, IndInv, TypeOK, Message
  <2>2. received' \in Nat BY <1>1, LsnType DEF Receive, Larger, IndInv, TypeOK
  <2> QED BY <2>1, <2>2, <2>3 DEF Receive, Idle, IndInv, TypeOK, window
<1>3. HeapInv' /\ EarlyInv' BY DEF Receive, IndInv, HeapInv, EarlyInv, Open, window
<1>4. \A c \in Placed : c < wire => Tracked(c) BY DEF Receive, Idle, IndInv, SentInv
<1>5. SentInv'
  <2>1. stage' # "idle" => hand' = wire' - 1 BY <1>1 DEF Receive, Idle, Message
  <2>2. \A c \in Placed : c < wire' => c < wire \/ (stage' # "idle" /\ c = hand')
    BY <1>1, LsnType DEF Receive, Message
  <2>3. \A c \in Placed : Tracked(c) => Tracked(c)' BY DEF Receive, Tracked, window
  <2> QED BY <2>1, <2>2, <2>3, <1>4 DEF SentInv, Receive
<1>6. ReceivedInv'
  <2> SUFFICES ASSUME NEW c \in Placed, Commit[c] < received' \/ Commit[c] < maxEmitted
               PROVE  Tracked(c)
    BY DEF ReceivedInv, Tracked, Receive, window
  <2>1. CASE Commit[c] < received \/ Commit[c] < maxEmitted
    BY <2>1 DEF IndInv, ReceivedInv
  <2>2. CASE Commit[c] < Lsn(wire)
    <3>1. c < wire BY <2>2, <1>1, PlacedFits
    <3> QED BY <3>1, <1>4
  <2> QED BY <2>1, <2>2 DEF Receive, Larger
<1>7. SafeInv' BY DEF Receive, IndInv, SafeInv, Settled, window
<1> QED BY <1>2, <1>3, <1>5, <1>6, <1>7 DEF IndInv

LEMMA OfferStep == ASSUME IndInv, Offer PROVE IndInv'
<1>1. TypeOK' BY DEF Offer, IndInv, TypeOK, server, lsns, window
<1>2. HeapInv' /\ EarlyInv' BY DEF Offer, IndInv, HeapInv, EarlyInv, Open, window
<1>3. SentInv' BY DEF Offer, IndInv, SentInv, Tracked, server, window
<1>4. ReceivedInv' /\ SafeInv'
  BY DEF Offer, IndInv, ReceivedInv, SafeInv, Settled, Tracked, server, lsns, window
<1> QED BY <1>1, <1>2, <1>3, <1>4 DEF IndInv

LEMMA DropOfferStep == ASSUME IndInv, DropOffer PROVE IndInv'
<1>1. TypeOK' BY PostgresAssumption DEF DropOffer, IndInv, TypeOK, server, lsns, window
<1>2. HeapInv' /\ EarlyInv' BY DEF DropOffer, IndInv, HeapInv, EarlyInv, Open, window
<1>3. SentInv' BY DEF DropOffer, SentInv
<1>4. ReceivedInv' /\ SafeInv'
  BY DEF DropOffer, IndInv, ReceivedInv, SafeInv, Settled, Tracked, server, lsns, window
<1> QED BY <1>1, <1>2, <1>3, <1>4 DEF IndInv

LEMMA NoteEmittedStep == ASSUME IndInv, NoteEmitted PROVE IndInv'
<1> DEFINE p == Lsn(hand)
<1>1. hand \in Change /\ p \in Positions /\ p \in Nat /\ Commit[hand] \in Nat
  BY LsnType DEF NoteEmitted, IndInv, TypeOK
<1>2. maxEmitted' = Larger(maxEmitted, p) /\ maxEmitted' \in Nat
  BY <1>1 DEF NoteEmitted, Emit, Larger, IndInv, TypeOK
<1>3. /\ outstanding' \in [Positions -> Nat] /\ early' \in [Positions -> Nat]
      /\ \A q \in Positions : early'[q] <= early[q] /\ outstanding'[q] >= outstanding[q]
      /\ \A q \in Positions : q # p => outstanding'[q] = outstanding[q]
      /\ early[p] > 0 \/ outstanding'[p] > 0
  <2>0. outstanding \in [Positions -> Nat] /\ early \in [Positions -> Nat]
    BY DEF IndInv, TypeOK
  <2>1. CASE early[p] > 0
    <3>1. early' = [early EXCEPT ![p] = @ - 1] /\ outstanding' = outstanding
      BY <2>1 DEF NoteEmitted, Emit
    <3>2. early' \in [Positions -> Nat] /\ \A q \in Positions : early'[q] <= early[q]
      BY <3>1, <2>0, <2>1, <1>1, CountDown
    <3>3. \A q \in Positions : outstanding'[q] >= outstanding[q]
      BY <3>1, <2>0, CountSame
    <3> QED BY <3>1, <3>2, <3>3, <2>0, <2>1
  <2>2. CASE ~(early[p] > 0)
    <3>1. outstanding' = [outstanding EXCEPT ![p] = @ + 1] /\ early' = early
      BY <2>2 DEF NoteEmitted, Emit
    <3>2. /\ outstanding' \in [Positions -> Nat] /\ outstanding'[p] > 0
          /\ \A q \in Positions : outstanding'[q] >= outstanding[q]
                                  /\ (q # p => outstanding'[q] = outstanding[q])
      BY <3>1, <2>0, <1>1, CountUp
    <3>3. \A q \in Positions : early'[q] <= early[q] BY <3>1, <2>0, CountSame
    <3> QED BY <3>1, <3>2, <3>3, <2>0
  <2> QED BY <2>1, <2>2
<1>4. \A c \in Placed : Tracked(c) => Tracked(c)'
  <2>1. done' = done BY DEF NoteEmitted
  <2>2. \A c \in Placed : outstanding[Lsn(c)] > 0 => outstanding'[Lsn(c)] > 0
    <3> SUFFICES ASSUME NEW c \in Placed, outstanding[Lsn(c)] > 0
                 PROVE  outstanding'[Lsn(c)] > 0
      OBVIOUS
    <3>1. Lsn(c) \in Positions BY LsnType
    <3>2. outstanding[Lsn(c)] \in Nat /\ outstanding'[Lsn(c)] \in Nat
      BY <3>1, <1>3 DEF IndInv, TypeOK
    <3>3. outstanding'[Lsn(c)] >= outstanding[Lsn(c)] BY <3>1, <1>3
    <3> QED BY <3>2, <3>3
  <2> QED BY <2>1, <2>2 DEF Tracked
<1>5. \A c \in Placed : c = hand => Tracked(c)'
  <2> SUFFICES ASSUME NEW c \in Placed, c = hand PROVE Tracked(c)' OBVIOUS
  <2>1. c \in done \/ outstanding'[Lsn(c)] > 0
    BY <1>1, <1>3 DEF IndInv, EarlyInv
  <2>2. done' = done BY DEF NoteEmitted
  <2> QED BY <2>1, <2>2 DEF Tracked
<1>6. \A c \in Placed : Commit[c] < maxEmitted' => Tracked(c)'
  <2> SUFFICES ASSUME NEW c \in Placed, Commit[c] < maxEmitted' PROVE Tracked(c)' OBVIOUS
  <2>1. CASE Commit[c] < maxEmitted BY <2>1, <1>4 DEF IndInv, ReceivedInv
  <2>2. CASE Commit[c] < p
    <3>2. c < hand BY <2>2, <1>1, PlacedFits, LsnType
    <3>3. c < wire /\ c # hand
      BY <3>2, <1>1, LsnType DEF NoteEmitted, IndInv, SentInv, TypeOK
    <3>4. Tracked(c) BY <3>3 DEF NoteEmitted, IndInv, SentInv
    <3> QED BY <3>4, <1>4
  <2> QED BY <2>1, <2>2, <1>2 DEF Larger
<1>7. PICK heap \in SUBSET Positions :
         Open(outstanding') \subseteq heap /\ Advance(outstanding', heap, maxEmitted')
  <2>1. CASE early[p] > 0
    <3>1. outstanding' = outstanding /\ Advance(outstanding', low, maxEmitted')
      BY <2>1 DEF NoteEmitted, Emit
    <3> QED BY <3>1 DEF IndInv, HeapInv, TypeOK
  <2>2. CASE ~(early[p] > 0)
    <3>1. Advance(outstanding', low \cup {p}, maxEmitted')
      BY <2>2, <1>1 DEF NoteEmitted, Emit, IndInv, TypeOK
    <3>2. Open(outstanding') \subseteq low \cup {p}
      BY <1>3 DEF Open, IndInv, HeapInv
    <3> QED BY <3>1, <3>2, <1>1 DEF IndInv, TypeOK
  <2> QED BY <2>1, <2>2
<1>8. \A q \in Open(outstanding') : q <= maxEmitted'
  <2> SUFFICES ASSUME NEW q \in Positions, outstanding'[q] > 0 PROVE q <= maxEmitted'
    BY DEF Open
  <2>1. CASE q = p BY <2>1, <1>1, <1>2 DEF Larger, IndInv, TypeOK
  <2>2. CASE q # p
    <3>1. q <= maxEmitted BY <2>2, <1>3 DEF IndInv, HeapInv, Open
    <3> QED BY <3>1, <1>1, <1>2, LsnType DEF Larger, IndInv, TypeOK
  <2> QED BY <2>1, <2>2
<1>9. done' = done /\ done \in SUBSET Change /\ safe \in Nat
      /\ \A c \in Placed : Commit[c] < safe => c \in done
  BY DEF NoteEmitted, IndInv, TypeOK, SafeInv, Settled
<1>10. \A c \in Placed : Commit[c] < maxEmitted' => c \in done \/ outstanding'[Lsn(c)] > 0
  BY <1>6, <1>9 DEF Tracked
<1>11. /\ low' \subseteq Positions /\ Open(outstanding') \subseteq low' /\ safe' \in Nat
       /\ \A c \in Placed : Commit[c] < safe' => c \in done
  BY <1>2, <1>3, <1>7, <1>8, <1>9, <1>10, AdvanceStep
<1>12. acked' \in Nat /\ \A c \in Placed : Commit[c] < acked' => c \in done
  BY <1>11 DEF NoteEmitted, AdvanceAcked, Larger, IndInv, TypeOK, SafeInv, Settled
<1>13. TypeOK'
  <2>1. emitted' \in Nat BY <1>1 DEF NoteEmitted, Larger, IndInv, TypeOK
  <2>2. hand' = 0 /\ stage' = "idle" /\ 0 \in 0..MaxMessage
    BY PostgresAssumption DEF NoteEmitted
  <2> QED BY <2>1, <2>2, <1>2, <1>3, <1>11, <1>12 DEF NoteEmitted, IndInv, TypeOK, server
<1>14. HeapInv' BY <1>8, <1>11 DEF HeapInv, Open
<1>15. EarlyInv' BY <1>3, <1>9, LsnType DEF EarlyInv, IndInv, TypeOK
<1>16. SentInv'
  <2>1. stage' = "idle" BY DEF NoteEmitted
  <2>2. \A c \in Placed : c < wire => Tracked(c) \/ c = hand
    BY DEF NoteEmitted, IndInv, SentInv
  <2>3. wire' = wire BY DEF NoteEmitted, server
  <2>4. \A c \in Placed : c < wire => Tracked(c)' BY <2>2, <1>4, <1>5
  <2> QED BY <2>1, <2>3, <2>4 DEF SentInv
<1>17. ReceivedInv' BY <1>4, <1>6 DEF ReceivedInv, NoteEmitted, IndInv
<1>18. SafeInv' BY <1>9, <1>11, <1>12 DEF SafeInv, Settled, NoteEmitted, IndInv, server
<1> QED BY <1>13, <1>14, <1>15, <1>16, <1>17, <1>18 DEF IndInv

LEMMA SendStandbyStep == ASSUME IndInv, SendStandby PROVE IndInv'
<1>1. \A c \in Placed : Commit[c] < received => Tracked(c) BY DEF IndInv, ReceivedInv
<1>2. Flush(received) \in Nat /\ Settled(Flush(received))
  BY <1>1, FlushSettled DEF IndInv, TypeOK
<1>3. slot' \in Nat /\ Settled(slot)'
  BY <1>2, ConfirmSettled DEF SendStandby, IndInv, TypeOK, SafeInv
<1>4. TypeOK' BY <1>3 DEF SendStandby, IndInv, TypeOK, lsns, window
<1>5. HeapInv' /\ EarlyInv' BY DEF SendStandby, IndInv, HeapInv, EarlyInv, Open, window
<1>6. SentInv' BY DEF SendStandby, IndInv, SentInv, Tracked, window
<1>7. ReceivedInv' /\ SafeInv'
  BY <1>3 DEF SendStandby, IndInv, ReceivedInv, SafeInv, Settled, Tracked, lsns, window
<1> QED BY <1>4, <1>5, <1>6, <1>7 DEF IndInv

LEMMA KeepaliveStep ==
  ASSUME IndInv, NEW end \in 0..SentUpTo, Keepalive(end) PROVE IndInv'
<1>1. wire \in 1..(MaxMessage + 1) BY DEF Keepalive, Idle, IndInv, TypeOK
<1>2. SentUpTo \in Nat /\ end \in Nat
  <2>1. MaxMessage # 0 => MaxMessage \in Message BY PostgresAssumption DEF Message
  <2>2. SentUpTo \in Nat BY <2>1, LsnType DEF SentUpTo
  <2> QED BY <2>2
<1>3. \A c \in Placed : Commit[c] < end => c < wire
  <2> SUFFICES ASSUME NEW c \in Placed, Commit[c] < end PROVE c < wire OBVIOUS
  <2>0. c \in Message /\ c \in Nat BY LsnType
  <2>1. CASE wire \in Message
    <3>1. Commit[c] < Commit[wire] BY <2>0, <2>1, <1>2, LsnType DEF SentUpTo
    <3> QED BY <3>1, <2>0, <2>1, LsnType, PostgresAssumption
  <2>2. CASE wire \notin Message BY <2>0, <2>2, <1>1, PostgresAssumption DEF Message
  <2> QED BY <2>1, <2>2
<1>4. \A c \in Placed : c < wire => Tracked(c) BY DEF Keepalive, Idle, IndInv, SentInv
<1>5. received' \in Nat /\ \A c \in Placed : Commit[c] < received' => Tracked(c)
  BY <1>2, <1>3, <1>4 DEF Keepalive, Larger, IndInv, TypeOK, ReceivedInv
<1>6. Flush(received') \in Nat /\ Settled(Flush(received')) BY <1>5, FlushSettled
<1>7. slot' \in Nat /\ Settled(slot)'
  <2>1. CASE slot' = slot BY <2>1 DEF Keepalive, IndInv, TypeOK, SafeInv, Settled
  <2>2. CASE Confirm(Flush(received'))
    BY <2>2, <1>6, ConfirmSettled DEF Keepalive, IndInv, TypeOK, SafeInv
  <2> QED BY <2>1, <2>2 DEF Keepalive
<1>8. TypeOK' BY <1>5, <1>7 DEF Keepalive, IndInv, TypeOK, window
<1>9. HeapInv' /\ EarlyInv' BY DEF Keepalive, IndInv, HeapInv, EarlyInv, Open, window
<1>10. SentInv' BY DEF Keepalive, IndInv, SentInv, Tracked, window
<1>11. ReceivedInv' BY <1>5 DEF Keepalive, IndInv, ReceivedInv, Tracked, window
<1>12. SafeInv' BY <1>7 DEF Keepalive, IndInv, SafeInv, Settled, window
<1> QED BY <1>8, <1>9, <1>10, <1>11, <1>12 DEF IndInv

LEMMA ConnectionLostStep == ASSUME IndInv, ConnectionLost PROVE IndInv'
<1>1. TypeOK'
  BY PostgresAssumption DEF ConnectionLost, Idle, IndInv, TypeOK, lsns, window
<1>2. HeapInv' /\ EarlyInv' BY DEF ConnectionLost, IndInv, HeapInv, EarlyInv, Open, window
<1>3. SentInv' BY DEF ConnectionLost, Idle, SentInv
<1>4. ReceivedInv' /\ SafeInv'
  BY DEF ConnectionLost, IndInv, ReceivedInv, SafeInv, Settled, Tracked, lsns, window
<1> QED BY <1>1, <1>2, <1>3, <1>4 DEF IndInv

LEMMA CloseStep == ASSUME IndInv, Close PROVE IndInv'
<1>1. TypeOK' BY PostgresAssumption DEF Close, IndInv, TypeOK, server, lsns, window
<1>2. HeapInv' /\ EarlyInv' BY DEF Close, IndInv, HeapInv, EarlyInv, Open, window
<1>3. SentInv' BY DEF Close, IndInv, SentInv, Tracked, server, window
<1>4. ReceivedInv' /\ SafeInv'
  BY DEF Close, IndInv, ReceivedInv, SafeInv, Settled, Tracked, server, lsns, window
<1> QED BY <1>1, <1>2, <1>3, <1>4 DEF IndInv

LEMMA StreamExitStep == ASSUME IndInv, StreamExit PROVE IndInv'
<1>1. \A c \in Placed : Commit[c] < received => Tracked(c) BY DEF IndInv, ReceivedInv
<1>2. Flush(received) \in Nat /\ Settled(Flush(received))
  BY <1>1, FlushSettled DEF IndInv, TypeOK
<1>3. slot' \in Nat /\ Settled(slot)'
  <2>1. CASE slot' = slot BY <2>1 DEF StreamExit, IndInv, TypeOK, SafeInv, Settled
  <2>2. CASE Confirm(Flush(received))
    BY <2>2, <1>2, ConfirmSettled DEF StreamExit, IndInv, TypeOK, SafeInv
  <2> QED BY <2>1, <2>2 DEF StreamExit
<1>4. TypeOK'
  BY <1>3, PostgresAssumption DEF StreamExit, IndInv, TypeOK, lsns, window
<1>5. HeapInv' /\ EarlyInv' BY DEF StreamExit, IndInv, HeapInv, EarlyInv, Open, window
<1>6. SentInv' BY DEF StreamExit, SentInv
<1>7. ReceivedInv' /\ SafeInv'
  BY <1>3 DEF StreamExit, IndInv, ReceivedInv, SafeInv, Settled, Tracked, lsns, window
<1> QED BY <1>4, <1>5, <1>6, <1>7 DEF IndInv

LEMMA ResetInv ==
  ASSUME IndInv, WindowReset, received' = 0, acked' = 0, UNCHANGED <<slot, done>>
  PROVE  /\ outstanding' \in [Positions -> Nat] /\ early' \in [Positions -> Nat]
         /\ low' \subseteq Positions /\ maxEmitted' = 0 /\ safe' = 0
         /\ HeapInv' /\ EarlyInv' /\ ReceivedInv' /\ SafeInv'
<1>1. outstanding' = Zero /\ early' = Zero /\ low' = {} /\ maxEmitted' = 0 /\ safe' = 0
  BY DEF WindowReset
<1>2. HeapInv' /\ EarlyInv' BY <1>1, LsnType DEF HeapInv, EarlyInv, Open, Zero
<1>3. ReceivedInv' BY <1>1, LsnType DEF ReceivedInv
<1>4. SafeInv' BY <1>1, LsnType DEF IndInv, SafeInv, Settled
<1> QED BY <1>1, <1>2, <1>3, <1>4 DEF Zero

LEMMA CloseResetStep == ASSUME IndInv, CloseReset PROVE IndInv'
<1>1. /\ outstanding' \in [Positions -> Nat] /\ early' \in [Positions -> Nat]
      /\ low' \subseteq Positions /\ maxEmitted' = 0 /\ safe' = 0
      /\ HeapInv' /\ EarlyInv' /\ ReceivedInv' /\ SafeInv'
  BY ResetInv DEF CloseReset, server
<1>2. TypeOK' BY <1>1 DEF CloseReset, IndInv, TypeOK, server
<1>3. SentInv' BY DEF CloseReset, IndInv, TypeOK, SentInv, server
<1> QED BY <1>1, <1>2, <1>3 DEF IndInv

LEMMA CrashStep == ASSUME IndInv, Crash PROVE IndInv'
<1>1. /\ outstanding' \in [Positions -> Nat] /\ early' \in [Positions -> Nat]
      /\ low' \subseteq Positions /\ maxEmitted' = 0 /\ safe' = 0
      /\ HeapInv' /\ EarlyInv' /\ ReceivedInv' /\ SafeInv'
  BY ResetInv DEF Crash
<1>2. TypeOK' BY <1>1, PostgresAssumption DEF Crash, IndInv, TypeOK
<1>3. SentInv' BY DEF Crash, SentInv
<1> QED BY <1>1, <1>2, <1>3 DEF IndInv

LEMMA ReadStep == ASSUME IndInv, Read PROVE IndInv'
<1>1. chan \in Seq(Change) /\ chan # <<>> BY DEF Read, IndInv, TypeOK
<1>2. Head(chan) \in Change /\ Tail(chan) \in Seq(Change) BY <1>1
<1>3. TypeOK' BY <1>2 DEF Read, IndInv, TypeOK, server, lsns, window
<1>4. HeapInv' /\ EarlyInv' BY DEF Read, IndInv, HeapInv, EarlyInv, Open, window
<1>5. SentInv' BY DEF Read, IndInv, SentInv, Tracked, server, window
<1>6. ReceivedInv' /\ SafeInv'
  BY DEF Read, IndInv, ReceivedInv, SafeInv, Settled, Tracked, server, lsns, window
<1> QED BY <1>3, <1>4, <1>5, <1>6 DEF IndInv

LEMMA AckStep == ASSUME IndInv, NEW c \in Change, Ack(c) PROVE IndInv'
<1> DEFINE p == Lsn(c)
<1>1. p \in Positions /\ p \in Nat BY LsnType
<1>2. /\ outstanding' \in [Positions -> Nat] /\ early' \in [Positions -> Nat]
      /\ \A q \in Positions : q # p => outstanding'[q] = outstanding[q] /\ early'[q] = early[q]
      /\ \A q \in Positions : outstanding'[q] <= outstanding[q]
  <2>0. outstanding \in [Positions -> Nat] /\ early \in [Positions -> Nat]
    BY DEF IndInv, TypeOK
  <2>1. CASE outstanding[p] > 0
    <3>1. outstanding' = [outstanding EXCEPT ![p] = @ - 1] /\ early' = early
      BY <2>1 DEF Ack, AckWindow
    <3>2. /\ outstanding' \in [Positions -> Nat]
          /\ \A q \in Positions : outstanding'[q] <= outstanding[q]
                                  /\ (q # p => outstanding'[q] = outstanding[q])
      BY <3>1, <2>0, <2>1, <1>1, CountDown
    <3> QED BY <3>1, <3>2, <2>0
  <2>2. CASE ~(outstanding[p] > 0)
    <3>1. early' = [early EXCEPT ![p] = @ + 1] /\ outstanding' = outstanding
      BY <2>2 DEF Ack, AckWindow
    <3>2. /\ early' \in [Positions -> Nat]
          /\ \A q \in Positions : q # p => early'[q] = early[q]
      BY <3>1, <2>0, <1>1, CountUp
    <3>3. \A q \in Positions : outstanding'[q] <= outstanding[q] BY <3>1, <2>0, CountSame
    <3> QED BY <3>1, <3>2, <3>3, <2>0
  <2> QED BY <2>1, <2>2
<1>3. done' = done \cup {c} /\ done' \in SUBSET Change /\ maxEmitted' = maxEmitted
  BY DEF Ack, AckWindow, IndInv, TypeOK
<1>4. \A d \in Placed : Tracked(d) => Tracked(d)'
  <2> SUFFICES ASSUME NEW d \in Placed, Tracked(d) PROVE Tracked(d)' OBVIOUS
  <2>1. CASE d = c BY <2>1, <1>3 DEF Tracked
  <2>2. CASE d # c
    <3>1. Lsn(d) # p /\ Lsn(d) \in Positions BY <2>2, LsnType, PlacedFits
    <3> QED BY <3>1, <1>2, <1>3 DEF Tracked
  <2> QED BY <2>1, <2>2
<1>5. Open(outstanding') \subseteq Open(outstanding)
  <2> SUFFICES ASSUME NEW q \in Positions, outstanding'[q] > 0 PROVE outstanding[q] > 0
    BY DEF Open
  <2>1. outstanding[q] \in Nat /\ outstanding'[q] \in Nat BY <1>2 DEF IndInv, TypeOK
  <2> QED BY <2>1, <1>2
<1>6. /\ Open(outstanding') \subseteq low /\ \A q \in Open(outstanding') : q <= maxEmitted
  BY <1>5 DEF IndInv, HeapInv
<1>7. \A d \in Placed : Commit[d] < maxEmitted => d \in done' \/ outstanding'[Lsn(d)] > 0
  BY <1>4 DEF IndInv, ReceivedInv, Tracked
<1>8. /\ safe \in Nat /\ maxEmitted \in Nat /\ low \in SUBSET Positions
      /\ \A d \in Placed : Commit[d] < safe => d \in done'
  BY <1>3 DEF IndInv, TypeOK, SafeInv, Settled
<1>9. Advance(outstanding', low, maxEmitted) BY DEF Ack, AckWindow
<1>10. /\ low' \subseteq Positions /\ Open(outstanding') \subseteq low' /\ safe' \in Nat
       /\ \A d \in Placed : Commit[d] < safe' => d \in done'
  BY <1>2, <1>3, <1>6, <1>7, <1>8, <1>9, AdvanceStep
<1>11. acked' \in Nat /\ \A d \in Placed : Commit[d] < acked' => d \in done'
  BY <1>3, <1>10 DEF Ack, AdvanceAcked, Larger, IndInv, TypeOK, SafeInv, Settled
<1>12. TypeOK' BY <1>2, <1>3, <1>10, <1>11 DEF Ack, IndInv, TypeOK, server
<1>13. HeapInv' BY <1>3, <1>6, <1>10 DEF HeapInv, Open
<1>14. EarlyInv'
  <2> SUFFICES ASSUME NEW d \in Placed, early'[Lsn(d)] > 0, d # c PROVE d \in done'
    BY <1>3 DEF EarlyInv
  <2>1. Lsn(d) # p /\ Lsn(d) \in Positions BY LsnType, PlacedFits
  <2> QED BY <2>1, <1>2, <1>3 DEF IndInv, EarlyInv
<1>15. SentInv' BY <1>4 DEF SentInv, Ack, IndInv, server
<1>16. ReceivedInv' BY <1>3, <1>4 DEF ReceivedInv, Ack, IndInv
<1>17. SafeInv' BY <1>3, <1>10, <1>11 DEF SafeInv, Settled, Ack, IndInv, server
<1> QED BY <1>12, <1>13, <1>14, <1>15, <1>16, <1>17 DEF IndInv

LEMMA StutterStep == ASSUME IndInv, UNCHANGED vars PROVE IndInv'
BY DEF IndInv, TypeOK, HeapInv, EarlyInv, SentInv, ReceivedInv, SafeInv, Settled, Tracked,
       Open, vars, server, lsns, window

(* IndInv is an invariant of the stream (streamLoop, Ack, Close), whatever  *)
(* the log and its positions, the capacities and the number of faults.     *)
THEOREM Inductive == Spec => []IndInv
<1>1. ASSUME IndInv, [Next]_vars PROVE IndInv'
  <2>1. CASE UNCHANGED vars BY <1>1, <2>1, StutterStep
  <2>2. ASSUME NEW end \in 0..SentUpTo, Keepalive(end) PROVE IndInv'
    BY <1>1, <2>2, KeepaliveStep
  <2>3. ASSUME NEW c \in Change, Ack(c) PROVE IndInv' BY <1>1, <2>3, AckStep
  <2> QED
    BY <1>1, <2>1, <2>2, <2>3, InitializeStep, ReconnectStep, ReceiveStep, OfferStep,
       DropOfferStep, NoteEmittedStep, SendStandbyStep, ConnectionLostStep, CloseStep,
       StreamExitStep, CloseResetStep, ReadStep, CrashStep
    DEF Next
<1> QED BY <1>1, InitInv, PTL DEF Spec

(* Whatever the log, a change that the slot has confirmed unacknowledged is  *)
(* one whose commit a position of the log overruns, or one of several rows  *)
(* with the same position: otherwise flushPosition (postgres.go:1058) never *)
(* lets the server forget what the engine still has to deliver.            *)
THEOREM ConfirmedIsAckedHolds == Spec => []ConfirmedIsAcked
<1>1. IndInv => ConfirmedIsAcked BY DEF IndInv, SafeInv, Settled, ConfirmedIsAcked, Placed
<1> QED BY <1>1, Inductive, PTL
=============================================================================
