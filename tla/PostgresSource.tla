--------------------------- MODULE PostgresSource ---------------------------
(***************************************************************************)
(* The change stream of a PostgreSQL source                                *)
(* (pkg/comm/source/postgres/postgres.go and ack_window.go): one goroutine *)
(* receives the messages decoded from a replication slot and hands the     *)
(* changes among them over a channel, workers acknowledge them in any      *)
(* order, and standby updates confirm a position to the slot.  What the    *)
(* slot has confirmed is never sent again.                                 *)
(*                                                                         *)
(* The server is external.  It sends the messages of committed             *)
(* transactions in commit order, so positions may go back from one         *)
(* transaction to the next; a new stream starts with the first transaction *)
(* that commits at or after the confirmed position.  The slot outlives the *)
(* source (a persistent one).                                              *)
(***************************************************************************)
EXTENDS Integers, Sequences, FiniteSets

CONSTANTS
  MaxMessage,   \* bound: messages of the log, numbered in the order they are sent
  Change,       \* those that are inserts, updates and deletes; the rest are Begin,
                \* Commit, Relation and the like
  Start,        \* WALStart of each message: where a change's record begins, where a
                \* Commit's ends
  Size,         \* the length of what it is decoded to
  Commit,       \* where the commit record of its transaction is
  ChanCap,      \* capacity of msgChan
  HeapSlack,    \* entries the heap may hold beyond twice the outstanding ones
  MaxFaults     \* bound: lost connections, crashes and closes

Message == 1..MaxMessage

ASSUME PostgresAssumption ==
  /\ MaxMessage \in Nat /\ Change \subseteq Message
  /\ ChanCap \in Nat \ {0} /\ HeapSlack \in Nat /\ MaxFaults \in Nat
  /\ Start \in [Message -> Nat] /\ Size \in [Message -> Nat] /\ Commit \in [Message -> Nat]
  /\ \A c \in Change : 0 < Start[c] + Size[c]
  /\ \A m, n \in Message : m <= n => Commit[m] <= Commit[n]

(* currentLSN: the position of a message, which a change is handed over and *)
(* acknowledged under.                                                     *)
Lsn(m) == Start[m] + Size[m]

Positions == {Lsn(c) : c \in Change}

(* The position of a message counts bytes of the decoded form from a place  *)
(* in the log, so it can pass the commit of a change that comes no earlier  *)
(* in the stream: its own, or the one right after the record it ends.      *)
Overrun(c) == \E m \in Message : m <= c /\ Lsn(m) > Commit[c]

(* The rows of one multi-insert record are changes with the same WALStart. *)
Twin(c) == \E d \in Change \ {c} : Lsn(d) = Lsn(c)

(* The changes the code's positions are fine for.                          *)
Placed == {c \in Change : ~Overrun(c) /\ ~Twin(c)}

VARIABLES
  slot,         \* the slot's confirmed_flush_lsn
  wire,         \* the message the server sends next
  mode,         \* "closed", "connecting", "streaming", "cancelled" (Close has begun), "exited"
  hand, stage,  \* the change in dispatch, and whether the channel has it
  chan,         \* msgChan
  held,         \* deliveries of each change that the engine has not acknowledged
  received, acked, emitted,   \* lastReceivedLSN, lastAckedLSN, lastEmittedLSN
  outstanding, early, low, maxEmitted, safe,   \* the acknowledgement window
  done,         \* history: changes acknowledged
  faults

window == <<outstanding, early, low, maxEmitted, safe>>
lsns == <<received, acked, emitted>>
server == <<slot, wire>>
vars == <<server, mode, hand, stage, chan, held, lsns, window, done, faults>>

Larger(m, n) == IF m >= n THEN m ELSE n
Zero == [p \in Positions |-> 0]

-----------------------------------------------------------------------------
(* The acknowledgement window.                                             *)

WindowReset ==
  outstanding' = Zero /\ early' = Zero /\ low' = {} /\ maxEmitted' = 0 /\ safe' = 0

Open(out) == {p \in Positions : out[p] > 0}

(* Positions at the top of the heap that are no longer outstanding leave it. *)
Popped(heap, out) == {p \in heap : \E q \in heap : q <= p /\ out[q] > 0}

(* The heap is rebuilt before what is no longer outstanding outnumbers the rest. *)
Rebuilt(heap, out) ==
  IF Cardinality(heap) > 2 * Cardinality(Open(out)) + HeapSlack THEN Open(out) ELSE heap

(* What may be confirmed: the highest position handed over, or the one just *)
(* below the lowest outstanding.                                           *)
Advance(out, heap, top) ==
  LET h == Popped(heap, out) IN
    /\ low' = Rebuilt(h, out)
    /\ \/ h = {} /\ safe' = Larger(safe, top)
       \/ \E p \in h : (\A q \in h : p <= q) /\ safe' = Larger(safe, p - 1)

(* A faulty variant: an acknowledgement that came first is not looked for. *)
Emit_NoEarly(p) ==
  /\ maxEmitted' = Larger(maxEmitted, p)
  /\ outstanding' = [outstanding EXCEPT ![p] = @ + 1]
  /\ Advance(outstanding', low \cup {p}, maxEmitted')
  /\ UNCHANGED early

(* A faulty variant: only a position above all others is put on the heap. *)
Emit_NoPush(p) ==
  /\ maxEmitted' = Larger(maxEmitted, p)
  /\ \/ /\ early[p] > 0
        /\ early' = [early EXCEPT ![p] = @ - 1]
        /\ Advance(outstanding, low, maxEmitted')
        /\ UNCHANGED outstanding
     \/ /\ early[p] = 0
        /\ outstanding' = [outstanding EXCEPT ![p] = @ + 1]
        /\ Advance(outstanding', low \cup {q \in {p} : q > maxEmitted}, maxEmitted')
        /\ UNCHANGED early

Emit(p) ==
  /\ maxEmitted' = Larger(maxEmitted, p)
  /\ \/ /\ early[p] > 0
        /\ early' = [early EXCEPT ![p] = @ - 1]
        /\ Advance(outstanding, low, maxEmitted')
        /\ UNCHANGED outstanding
     \/ /\ early[p] = 0
        /\ outstanding' = [outstanding EXCEPT ![p] = @ + 1]
        /\ Advance(outstanding', low \cup {p}, maxEmitted')
        /\ UNCHANGED early

AckWindow(p) ==
  /\ \/ outstanding[p] = 0 /\ early' = [early EXCEPT ![p] = @ + 1] /\ UNCHANGED outstanding
     \/ outstanding[p] > 0 /\ outstanding' = [outstanding EXCEPT ![p] = @ - 1] /\ UNCHANGED early
  /\ Advance(outstanding', low, maxEmitted)
  /\ UNCHANGED maxEmitted

(* advanceAckedLocked *)
AdvanceAcked == acked' = Larger(acked, safe')

Pending == Open(outstanding) # {} \/ emitted > acked

-----------------------------------------------------------------------------
(* The server, external.                                                   *)

(* A new stream starts with the first transaction that commits at or past p. *)
FirstFrom(p) ==
  {w \in 1..(MaxMessage + 1) : /\ w \in Message => Commit[w] >= p
                               /\ \A m \in Message : m < w => Commit[m] < p}

(* How far a keepalive may say the log has been sent. *)
SentUpTo == IF wire \in Message THEN Commit[wire]
            ELSE IF MaxMessage = 0 THEN 0 ELSE Commit[MaxMessage] + 1

(* A faulty variant: a change in flight does not hold the position. *)
Flush_Received(recv) == Larger(recv, acked)

(* flushPosition, given the position received *)
Flush(recv) == IF Pending THEN acked ELSE Larger(recv, acked)

(* A standby update.  A server may or may not keep a slot from moving back, *)
(* and ignores position 0.                                                 *)
Confirm(flush) == slot' \in IF flush = 0 THEN {slot} ELSE {flush, Larger(slot, flush)}

-----------------------------------------------------------------------------
(* The stream goroutine.                                                   *)

Init ==
  /\ slot = 0 /\ wire = 0 /\ mode = "closed" /\ hand = 0 /\ stage = "idle"
  /\ chan = <<>> /\ held = [c \in Change |-> 0]
  /\ received = 0 /\ acked = 0 /\ emitted = 0
  /\ outstanding = Zero /\ early = Zero /\ low = {} /\ maxEmitted = 0 /\ safe = 0
  /\ done = {} /\ faults = 0

(* seedLSNFromSlotLocked *)
Seed == acked' = Larger(acked, slot) /\ received' = Larger(received, slot)

(* The first Read, or the first after a Close. *)
Initialize ==
  /\ mode = "closed" /\ mode' = "connecting"
  /\ Seed
  /\ UNCHANGED <<server, hand, stage, chan, held, emitted, window, done, faults>>

(* A faulty variant: an interrupted stream retires the source. *)
Reconnect_Retires ==
  /\ mode = "connecting" /\ mode' = "streaming" /\ faults = 0
  /\ Seed
  /\ wire' \in FirstFrom(slot)
  /\ UNCHANGED <<slot, hand, stage, chan, held, emitted, window, done, faults>>

(* acquireStreamConn: a new stream starts where the slot is. *)
Reconnect ==
  /\ mode = "connecting" /\ mode' = "streaming"
  /\ Seed
  /\ wire' \in FirstFrom(slot)
  /\ UNCHANGED <<slot, hand, stage, chan, held, emitted, window, done, faults>>

Idle == mode = "streaming" /\ stage = "idle"

(* handleXLogData, up to the handover: every message moves the position     *)
(* received, and a change is handed over.                                  *)
Receive ==
  /\ Idle /\ wire <= MaxMessage
  /\ wire' = wire + 1
  /\ received' = Larger(received, Lsn(wire))
  /\ \/ wire \in Change /\ hand' = wire /\ stage' = "offered"
     \/ wire \notin Change /\ UNCHANGED <<hand, stage>>
  /\ UNCHANGED <<slot, mode, chan, held, acked, emitted, window, done, faults>>

(* dispatch: the channel takes the change. *)
Offer ==
  /\ stage = "offered" /\ Len(chan) < ChanCap
  /\ chan' = Append(chan, hand) /\ stage' = "sent"
  /\ UNCHANGED <<server, mode, hand, held, lsns, window, done, faults>>

(* dispatch: the cancellation wins. *)
DropOffer ==
  /\ stage = "offered" /\ mode = "cancelled"
  /\ hand' = 0 /\ stage' = "idle"
  /\ UNCHANGED <<server, mode, chan, held, lsns, window, done, faults>>

NoteEmitted ==
  /\ stage = "sent"
  /\ Emit(Lsn(hand)) /\ AdvanceAcked
  /\ emitted' = Larger(emitted, Lsn(hand))
  /\ hand' = 0 /\ stage' = "idle"
  /\ UNCHANGED <<server, mode, chan, held, received, done, faults>>

(* maybeSendStandby *)
SendStandby ==
  /\ Idle
  /\ Confirm(Flush(received))
  /\ UNCHANGED <<wire, mode, hand, stage, chan, held, lsns, window, done, faults>>

(* handleCopyData: a keepalive, which may ask for a reply. *)
Keepalive(end) ==
  /\ Idle
  /\ received' = Larger(received, end)
  /\ \/ UNCHANGED slot
     \/ Confirm(Flush(received'))
  /\ UNCHANGED <<wire, mode, hand, stage, chan, held, acked, emitted, window, done, faults>>

(* The stream is interrupted; consumeStream returns and the connection is closed. *)
ConnectionLost ==
  /\ Idle /\ faults < MaxFaults
  /\ mode' = "connecting" /\ wire' = 0 /\ faults' = faults + 1
  /\ UNCHANGED <<slot, hand, stage, chan, held, lsns, window, done>>

-----------------------------------------------------------------------------
(* Close, the engine's calls, and a crash.                                 *)

Close ==
  /\ mode \in {"connecting", "streaming"} /\ faults < MaxFaults
  /\ mode' = IF mode = "streaming" THEN "cancelled" ELSE "exited"
  /\ faults' = faults + 1
  /\ UNCHANGED <<server, hand, stage, chan, held, lsns, window, done>>

(* streamLoop ends: the final position is confirmed, or could not be. *)
StreamExit ==
  /\ mode = "cancelled" /\ stage = "idle"
  /\ mode' = "exited" /\ wire' = 0
  /\ \/ UNCHANGED slot
     \/ Confirm(Flush(received))
  /\ UNCHANGED <<hand, stage, chan, held, lsns, window, done, faults>>

(* The rest of Close, once the goroutine is gone.  lastEmittedLSN stays. *)
CloseReset ==
  /\ mode = "exited" /\ mode' = "closed"
  /\ received' = 0 /\ acked' = 0 /\ WindowReset
  /\ UNCHANGED <<server, hand, stage, chan, held, emitted, done, faults>>

Read ==
  /\ mode \in {"connecting", "streaming"} /\ chan # <<>>
  /\ chan' = Tail(chan)
  /\ held' = [held EXCEPT ![Head(chan)] = @ + 1]
  /\ UNCHANGED <<server, mode, hand, stage, lsns, window, done, faults>>

Ack(c) ==
  /\ held[c] > 0
  /\ held' = [held EXCEPT ![c] = @ - 1]
  /\ AckWindow(Lsn(c)) /\ AdvanceAcked
  /\ done' = done \cup {c}
  /\ UNCHANGED <<server, mode, hand, stage, chan, received, emitted, faults>>

Crash ==
  /\ faults < MaxFaults /\ faults' = faults + 1
  /\ mode' = "closed" /\ wire' = 0 /\ hand' = 0 /\ stage' = "idle"
  /\ chan' = <<>> /\ held' = [c \in Change |-> 0]
  /\ received' = 0 /\ acked' = 0 /\ emitted' = 0 /\ WindowReset
  /\ UNCHANGED <<slot, done>>

Next ==
  \/ Initialize \/ Reconnect \/ Receive \/ Offer \/ DropOffer \/ NoteEmitted
  \/ SendStandby \/ ConnectionLost \/ Close \/ StreamExit \/ CloseReset
  \/ Read \/ Crash
  \/ \E end \in 0..SentUpTo : Keepalive(end)
  \/ \E c \in Change : Ack(c)

Spec == Init /\ [][Next]_vars

(* The stream goroutine runs, the engine reads and acknowledges what it was *)
(* given, the server reports the end of its log, standby updates recur.     *)
Fairness ==
  /\ WF_vars(Initialize) /\ WF_vars(Reconnect) /\ WF_vars(Receive) /\ WF_vars(Offer)
  /\ WF_vars(NoteEmitted) /\ WF_vars(StreamExit) /\ WF_vars(CloseReset)
  /\ WF_vars(DropOffer) /\ WF_vars(Read) /\ WF_vars(SendStandby)
  /\ WF_vars(Keepalive(SentUpTo))
  /\ \A c \in Change : WF_vars(Ack(c))

FairSpec == Spec /\ Fairness

-----------------------------------------------------------------------------
TypeOK ==
  /\ slot \in Nat /\ wire \in 0..(MaxMessage + 1)
  /\ mode \in {"closed", "connecting", "streaming", "cancelled", "exited"}
  /\ stage \in {"idle", "offered", "sent"} /\ hand \in 0..MaxMessage
  /\ stage # "idle" => hand \in Change /\ mode \in {"streaming", "cancelled"}
  /\ mode = "streaming" => wire # 0
  /\ chan \in Seq(Change) /\ held \in [Change -> Nat]
  /\ received \in Nat /\ acked \in Nat /\ emitted \in Nat
  /\ outstanding \in [Positions -> Nat] /\ early \in [Positions -> Nat]
  /\ low \subseteq Positions /\ maxEmitted \in Nat /\ safe \in Nat
  /\ done \subseteq Change /\ faults \in 0..MaxFaults

(* Acknowledged, or handed over and still outstanding in the window. *)
Tracked(c) == c \in done \/ outstanding[Lsn(c)] > 0

(* Every placed change that commits before p has been acknowledged. *)
Settled(p) == \A c \in Placed : Commit[c] < p => c \in done

HeapInv == Open(outstanding) \subseteq low /\ \A p \in Open(outstanding) : p <= maxEmitted

EarlyInv == \A c \in Placed : early[Lsn(c)] > 0 => c \in done

SentInv ==
  /\ stage # "idle" => hand = wire - 1
  /\ mode = "streaming" \/ stage # "idle" =>
       \A c \in Placed : c < wire => Tracked(c) \/ (stage # "idle" /\ c = hand)

ReceivedInv == \A c \in Placed : Commit[c] < received \/ Commit[c] < maxEmitted => Tracked(c)

SafeInv == Settled(slot) /\ Settled(acked) /\ Settled(safe)

(* The inductive invariant behind ConfirmedIsAcked: the window knows every  *)
(* placed change that was handed over and not acknowledged, nothing received is    *)
(* unknown to it, and each position it derives covers acknowledged changes  *)
(* only (ack_window.go:41-107, flushPosition).                             *)
IndInv == TypeOK /\ HeapInv /\ EarlyInv /\ SentInv /\ ReceivedInv /\ SafeInv

(* A change of a transaction the slot will not send again has been          *)
(* acknowledged, unless a position in the log overruns its commit or it     *)
(* shares its own with another row: otherwise a crash, a reconnect or a     *)
(* stop at any moment loses nothing that flushPosition confirmed            *)
(* (postgres.go:1058, ack_window.go:85).                                   *)
ConfirmedIsAcked == \A c \in Change : Commit[c] < slot => c \in done \/ Overrun(c) \/ Twin(c)

(* The same of every change, as flushPosition's comment claims              *)
(* (postgres.go:1046-1053: "the received position is safe too - but only    *)
(* when everything this source ever handed to the pipeline has come back    *)
(* acknowledged").                                                         *)
FlushIsSafe == \A c \in Change : Commit[c] < slot => c \in done

(* Every placed change in the log is acknowledged in the end, over lost     *)
(* connections, stops and crashes: streamLoop resumes where the slot is.   *)
EveryChangeArrives == \A c \in Placed : <>(c \in done)

(* The slot passes the last commit in the end, so that the server need not  *)
(* keep its log: an acknowledgement that came before its handover was       *)
(* recorded, or for a change that was sent again, does not pin it.         *)
SlotMovesOn == <>(slot > Commit[MaxMessage])
=============================================================================
