------------------------------- MODULE Engine -------------------------------
(***************************************************************************)
(* The message path of the engine (pkg/engine/runner.go, writer.go): a     *)
(* reader fills the buffer, a dispatcher hands messages to workers (those  *)
(* of one ordering key to one worker), a worker routes its message, gives  *)
(* it to the writer of every sink it is routed to, waits for all of them   *)
(* and acknowledges it; writers batch, write, and answer through pooled    *)
(* pendingMessage objects.  A stop cancels the engine's context, lets what *)
(* is in flight drain for a bounded time, closes the writers' channels     *)
(* and gives up on a writer whose sink does not return.                    *)
(*                                                                         *)
(* One message stands for an event: the rows it has for one sink travel in *)
(* one pendingMessage.                                                     *)
(***************************************************************************)
EXTENDS Naturals, Sequences, FiniteSets, Functions

CONSTANTS
  MaxMsg,       \* bound: messages of the source, numbered as they are read
  Sink,         \* the sinks
  Worker,       \* the workers, as many as there are in-flight slots
  WorkerOf,     \* the worker that owns each message's ordering key; Shared if it has none
  BufferCap,    \* the capacity of the engine's buffer
  QueueCap,     \* the capacity of a worker's own queue and of a writer's channel
  BatchSize,    \* the sink's batch size
  MaxPm,        \* bound: pendingMessage objects
  Strategies,   \* the backpressure strategies the sinks may be set to
  DrainTimeout, \* is drain_timeout set?
  DeadLetter,   \* is there a dead-letter sink?
  Validating,   \* the sinks that validate rows before a write
  Shared        \* the queue of the messages without an ordering key

Msg == 1..MaxMsg
Pm == 1..MaxPm
Queue == Worker \cup {Shared}
NoSink == "no sink"

ASSUME EngineAssumption ==
  /\ MaxMsg \in Nat /\ MaxPm \in Nat /\ BufferCap \in Nat \ {0}
  /\ QueueCap \in Nat \ {0} /\ BatchSize \in Nat \ {0}
  /\ IsFiniteSet(Worker) /\ IsFiniteSet(Sink)
  /\ Shared \notin Worker /\ NoSink \notin Sink
  /\ WorkerOf \in [Msg -> Queue]
  /\ DrainTimeout \in BOOLEAN /\ DeadLetter \in BOOLEAN /\ Validating \subseteq Sink
  /\ Strategies \subseteq
       {"block", "drop_oldest", "drop_newest", "sampling", "spill_to_disk"}

VARIABLES
  life,        \* running, stopping (context cancelled), closed (channels closed), stopped
  unread,      \* what the source has still to hand out
  hold,        \* the message read and not yet buffered; 0 is none
  buffer,      \* the ring buffer
  consuming,   \* is the dispatcher still consuming the buffer?
  queue,       \* the workers' private queues and the shared one
  busy,        \* the message each worker processes; 0 is none
  inFlight,    \* inFlightWg, and the slots of inFlightSem
  target,      \* where each message was routed
  call,        \* the enqueueing goroutine of a message and a sink
  pm,          \* the pendingMessage objects; one with no reference is in the pool
  chan,        \* each writer's channel
  batch,       \* each writer's batch
  spill,       \* each writer's spill buffer
  written,     \* what each sink was given, in the order of its first arrival
  parked,      \* the dead-letter sink: message and the sink that failed
  refused,     \* history: messages dropped as invalid, with the sink
  spilled,     \* history: messages spilled, with the sink
  acked        \* messages acknowledged to the source

flow == <<unread, hold, buffer, consuming, queue>>
work == <<busy, inFlight, target, call>>
writers == <<pm, chan, batch, spill, written, spilled>>
vars == <<life, flow, work, writers, parked, refused, acked>>

Free == [msg |-> 0, refs |-> 0, done |-> "empty"]
NoCall == [state |-> "none", pm |-> 0]

Init ==
  /\ life = "running"
  /\ unread = Msg /\ hold = 0 /\ buffer = <<>> /\ consuming = TRUE
  /\ queue = [q \in Queue |-> <<>>]
  /\ busy = [w \in Worker |-> 0] /\ inFlight = 0
  /\ target = [m \in Msg |-> {}]
  /\ call = [m \in Msg |-> [s \in Sink |-> NoCall]]
  /\ pm = [p \in Pm |-> Free]
  /\ chan = [s \in Sink |-> <<>>] /\ batch = [s \in Sink |-> <<>>]
  /\ spill = [s \in Sink |-> <<>>] /\ written = [s \in Sink |-> <<>>]
  /\ parked = {} /\ refused = {} /\ spilled = {} /\ acked = {}

Stopping == life # "running"

(* keyedQueueDepth, and the shared queue's capacity, numWorkers. *)
Depth(q) == IF q = Shared THEN Cardinality(Worker) ELSE QueueCap

-----------------------------------------------------------------------------
(* Faulty variants of definitions below. *)

Released_Stale(r) ==
  IF r.refs = 0 THEN r
  ELSE IF r.refs = 1 THEN [Free EXCEPT !.done = r.done]
  ELSE [r EXCEPT !.refs = @ - 1]

Released_Twice(r) ==
  IF r.refs = 0 THEN r
  ELSE IF r.refs <= 2 THEN Free ELSE [r EXCEPT !.refs = @ - 1]

Queue_Shared(m) == Shared

CloseChannels_Early ==
  /\ life = "stopping" /\ ~consuming
  /\ life' = "closed"
  /\ UNCHANGED <<flow, work, writers, parked, refused, acked>>

Dispatch_NoSlot ==
  /\ consuming /\ buffer # <<>>
  /\ LET m == Head(buffer)
     IN  /\ Len(queue[WorkerOf[m]]) < Depth(WorkerOf[m])
         /\ queue' = [queue EXCEPT ![WorkerOf[m]] = Append(@, m)]
  /\ buffer' = Tail(buffer) /\ inFlight' = inFlight + 1
  /\ UNCHANGED <<life, unread, hold, consuming, busy, target, call, writers, parked, refused, acked>>

GiveUp_Never(m, s) == FALSE /\ UNCHANGED vars

Delivered_Any(m) == \E s \in target[m] : call[m][s].state = "ok"

-----------------------------------------------------------------------------
(* pendingMessage *)

(* releasePendingMessage: the last reference returns the object to the pool, *)
(* its channel emptied; an extra release does nothing.                       *)
Released(r) ==
  IF r.refs = 0 THEN r
  ELSE IF r.refs = 1 THEN Free
  ELSE [r EXCEPT !.refs = @ - 1]

(* signalDone: the channel holds one answer, and a second one is dropped. *)
Signalled(r, e) == [r EXCEPT !.done = IF @ = "empty" THEN e ELSE @]

(* Every object of R is answered and released. *)
Answered(R) ==
  [p \in Pm |-> IF p \in DOMAIN R THEN Released(Signalled(pm[p], R[p])) ELSE pm[p]]

Pool == {p \in Pm : pm[p].refs = 0}

(* Any free object will do, they are alike: the n lowest. *)
Lowest(n) == {p \in Pool : Cardinality({q \in Pool : q <= p}) <= n}

(* acquirePendingMessage: one reference for the runner, one for the writer. *)
Acquired(S, m) ==
  [p \in Pm |-> IF p \in S THEN [pm[p] EXCEPT !.msg = m, !.refs = 2] ELSE pm[p]]

-----------------------------------------------------------------------------
(* runSourceToBuffer *)

Read ==
  /\ life = "running" /\ hold = 0
  /\ \E m \in unread :
       /\ \A n \in unread : m <= n
       /\ hold' = m /\ unread' = unread \ {m}
  /\ UNCHANGED <<life, buffer, consuming, queue, work, writers, parked, refused, acked>>

Produce ==
  /\ hold # 0 /\ Len(buffer) < BufferCap
  /\ buffer' = Append(buffer, hold) /\ hold' = 0
  /\ UNCHANGED <<life, unread, consuming, queue, work, writers, parked, refused, acked>>

(* A message read and not buffered at the stop is released, unacknowledged. *)
ProduceStopped ==
  /\ hold # 0 /\ Stopping
  /\ hold' = 0
  /\ UNCHANGED <<life, unread, buffer, consuming, queue, work, writers, parked, refused, acked>>

-----------------------------------------------------------------------------
(* runBufferToSink *)

QueueOf(m) == WorkerOf[m]

(* The handler takes an in-flight slot and queues the message. *)
Dispatch ==
  /\ consuming /\ buffer # <<>> /\ inFlight < Cardinality(Worker)
  /\ LET m == Head(buffer)
     IN  /\ Len(queue[QueueOf(m)]) < Depth(QueueOf(m))
         /\ queue' = [queue EXCEPT ![QueueOf(m)] = Append(@, m)]
  /\ buffer' = Tail(buffer) /\ inFlight' = inFlight + 1
  /\ UNCHANGED <<life, unread, hold, consuming, busy, target, call, writers, parked, refused, acked>>

(* Consume returns and the queues are closed: what is left in the buffer, or *)
(* in the handler's hand, is not processed.                                  *)
StopConsuming ==
  /\ Stopping /\ consuming
  /\ consuming' = FALSE
  /\ UNCHANGED <<life, unread, hold, buffer, queue, work, writers, parked, refused, acked>>

TakeFrom(w, q) ==
  /\ busy[w] = 0 /\ queue[q] # <<>>
  /\ busy' = [busy EXCEPT ![w] = Head(queue[q])]
  /\ queue' = [queue EXCEPT ![q] = Tail(@)]
  /\ UNCHANGED <<life, unread, hold, buffer, consuming, inFlight, target, call,
                 writers, parked, refused, acked>>

Take(w) == TakeFrom(w, w) \/ TakeFrom(w, Shared)

-----------------------------------------------------------------------------
(* processMessage *)

Routing(w, m) == busy[w] = m /\ m # 0 /\ \A s \in Sink : call[m][s] = NoCall

(* The worker is done with the message and counts it out. *)
Leave(w) == busy' = [busy EXCEPT ![w] = 0] /\ inFlight' = inFlight - 1

(* A routing error, an interrupted walk, or a park that failed. *)
LeaveUnacked(w, m) ==
  /\ Routing(w, m)
  /\ Leave(w)
  /\ UNCHANGED <<life, flow, target, call, writers, parked, refused, acked>>

(* Filtered, or delivered inline: nothing is owed, and it is acknowledged, *)
(* if the source takes it.                                                 *)
Settle(w, m) ==
  /\ Routing(w, m)
  /\ target' = [target EXCEPT ![m] = {}]
  /\ acked' \in {acked, acked \cup {m}}
  /\ Leave(w)
  /\ UNCHANGED <<life, flow, call, writers, parked, refused>>

(* Invalid, or routed nowhere: parked, then acknowledged if the source takes it. *)
Park(w, m) ==
  /\ Routing(w, m) /\ DeadLetter
  /\ target' = [target EXCEPT ![m] = {NoSink}]
  /\ parked' = parked \cup {<<m, NoSink>>}
  /\ acked' \in {acked, acked \cup {m}}
  /\ Leave(w)
  /\ UNCHANGED <<life, flow, call, writers, refused>>

(* One pendingMessage for every sink, and a goroutine that enqueues it. *)
Route(w, m, T) ==
  /\ Routing(w, m) /\ T # {} /\ Cardinality(T) <= Cardinality(Pool)
  /\ target' = [target EXCEPT ![m] = T]
  /\ \E f \in Bijection(T, Lowest(Cardinality(T))) :
       call' = [call EXCEPT ![m] = [s \in Sink |->
         IF s \in T THEN [state |-> "enqueue", pm |-> f[s]] ELSE NoCall]]
  /\ pm' = Acquired(Lowest(Cardinality(T)), m)
  /\ UNCHANGED <<life, flow, busy, inFlight, chan, batch, spill, written, spilled,
                 parked, refused, acked>>

Delivered(m) == \A s \in target[m] : call[m][s].state = "ok"

(* Every sink has answered: acknowledged, if all took it and the source does. *)
Finish(w, m) ==
  /\ busy[w] = m /\ m # 0
  /\ \E s \in Sink : call[m][s] # NoCall
  /\ \A s \in target[m] : call[m][s].state \in {"ok", "err"}
  /\ \/ Delivered(m) /\ acked' = acked \cup {m}
     \/ acked' = acked
  /\ call' = [call EXCEPT ![m] = [s \in Sink |-> NoCall]]
  /\ Leave(w)
  /\ UNCHANGED <<life, flow, target, writers, parked, refused>>

Process(w, m) ==
  \/ LeaveUnacked(w, m) \/ Settle(w, m) \/ Park(w, m) \/ Finish(w, m)
  \/ \E T \in SUBSET Sink : Route(w, m, T)

-----------------------------------------------------------------------------
(* enqueueWithStrategy, and the wait for the writer's answer *)

Goes(m, s, st) == call' = [call EXCEPT ![m][s].state = st]
Ends(m, s, st) == call' = [call EXCEPT ![m][s] = [state |-> st, pm |-> 0]]

Full(s) == Len(chan[s]) >= QueueCap
At(m, s, st) == call[m][s].state = st
Uses(S) == Strategies \cap S # {}
Blocks == Uses({"block", "sampling", "spill_to_disk"})

Enqueue(m, s) ==
  /\ At(m, s, "enqueue") \/ At(m, s, "retry") \/ (At(m, s, "full") /\ Blocks)
  /\ ~Full(s)
  /\ chan' = [chan EXCEPT ![s] = Append(@, call[m][s].pm)]
  /\ Goes(m, s, "wait")
  /\ UNCHANGED <<life, flow, busy, inFlight, target, pm, batch, spill, written, spilled,
                 parked, refused, acked>>

FindFull(m, s) ==
  /\ At(m, s, "enqueue") /\ Full(s)
  /\ Goes(m, s, "full")
  /\ UNCHANGED <<life, flow, busy, inFlight, target, writers, parked, refused, acked>>

(* The message is answered with an error: sampled out, or there was no room: *)
(* at once, after an eviction, because spilling failed, or for as long as a  *)
(* stop's drain budget.                                                      *)
Refuse(m, s) ==
  /\ \/ At(m, s, "enqueue") /\ Uses({"sampling"})
     \/ At(m, s, "full") /\ (Uses({"drop_newest", "spill_to_disk"}) \/ (Stopping /\ Blocks))
     \/ At(m, s, "retry") /\ Full(s)
  /\ pm' = Answered([p \in {call[m][s].pm} |-> "err"])
  /\ Goes(m, s, "wait")
  /\ UNCHANGED <<life, flow, busy, inFlight, target, chan, batch, spill, written, spilled,
                 parked, refused, acked>>

(* drop_oldest: the oldest, if the writer has not taken it by now, is answered *)
(* with an error, and the message tries again.                                 *)
EvictOldest(m, s) ==
  /\ At(m, s, "full") /\ Uses({"drop_oldest"})
  /\ \/ /\ chan[s] # <<>>
        /\ pm' = Answered([p \in {Head(chan[s])} |-> "err"])
        /\ chan' = [chan EXCEPT ![s] = Tail(@)]
     \/ chan[s] = <<>> /\ UNCHANGED <<pm, chan>>
  /\ Goes(m, s, "retry")
  /\ UNCHANGED <<life, flow, busy, inFlight, target, batch, spill, written, spilled,
                 parked, refused, acked>>

(* spill_to_disk: the message, detached, goes to the spill file and counts as taken. *)
SpillOut(m, s) ==
  /\ At(m, s, "full") /\ Uses({"spill_to_disk"})
  /\ spill' = [spill EXCEPT ![s] = Append(@, m)]
  /\ spilled' = spilled \cup {<<m, s>>}
  /\ pm' = [Answered([p \in {call[m][s].pm} |-> "ok"]) EXCEPT ![call[m][s].pm].msg = 0]
  /\ Goes(m, s, "wait")
  /\ UNCHANGED <<life, flow, busy, inFlight, target, chan, batch, written, parked, refused, acked>>

Submit(m, s) ==
  \/ Enqueue(m, s) \/ FindFull(m, s) \/ Refuse(m, s)
  \/ EvictOldest(m, s) \/ SpillOut(m, s)

(* The spill consumer: what it reloads has nobody waiting for the answer. *)
Reload(s) ==
  /\ life \in {"running", "stopping"} /\ spill[s] # <<>> /\ ~Full(s)
  /\ \E p \in Lowest(1) :
       /\ pm' = Acquired({p}, Head(spill[s]))
       /\ chan' = [chan EXCEPT ![s] = Append(@, p)]
  /\ spill' = [spill EXCEPT ![s] = Tail(@)]
  /\ UNCHANGED <<life, flow, work, batch, written, spilled, parked, refused, acked>>

Await(m, s) ==
  /\ call[m][s].state = "wait"
  /\ LET p == call[m][s].pm
     IN  /\ pm[p].done # "empty"
         /\ Ends(m, s, pm[p].done)
         /\ pm' = [pm EXCEPT ![p] = Released([@ EXCEPT !.done = "empty"])]
  /\ UNCHANGED <<life, flow, busy, inFlight, target, chan, batch, spill, written,
                 spilled, parked, refused, acked>>

(* The stop's drain budget runs out before the writer answers. *)
GiveUp(m, s) ==
  /\ call[m][s].state = "wait" /\ Stopping
  /\ pm' = [pm EXCEPT ![call[m][s].pm] = Released(@)]
  /\ Ends(m, s, "err")
  /\ UNCHANGED <<life, flow, busy, inFlight, target, chan, batch, spill, written,
                 spilled, parked, refused, acked>>

-----------------------------------------------------------------------------
(* sinkWriter.runOn *)

Collect(s) ==
  /\ chan[s] # <<>> /\ Len(batch[s]) < BatchSize
  /\ batch' = [batch EXCEPT ![s] = Append(@, Head(chan[s]))]
  /\ chan' = [chan EXCEPT ![s] = Tail(@)]
  /\ UNCHANGED <<life, flow, work, pm, spill, written, spilled, parked, refused, acked>>

(* What becomes of each event of a batch: written, parked in the dead-letter *)
(* sink, failed, when there is none or it refused it too, or refused by the  *)
(* sink as invalid and dropped.                                              *)
Fate == {"written", "parked", "failed", "refused"}

(* parkInvalidRows drops what it cannot park, and only where rows are        *)
(* written as one batch: a single write reports its validation error.        *)
Possible(s, whole) ==
  {f \in Fate : /\ f = "parked" => DeadLetter
                /\ f = "refused" => whole /\ s \in Validating /\ ~DeadLetter}

Answer(fate) == IF fate = "failed" THEN "err" ELSE "ok"

(* A batch sink answers every event of a batch with one error, another sink *)
(* each event with its own.                                                 *)
Answers(fates, i, whole) ==
  IF whole /\ \E j \in DOMAIN fates : fates[j] = "failed" THEN "err" ELSE Answer(fates[i])

Position(s, p) == CHOOSE i \in DOMAIN batch[s] : batch[s][i] = p

Wrote(s, m) == \E i \in DOMAIN written[s] : written[s][i] = m

Messages(s) == [i \in DOMAIN batch[s] |-> pm[batch[s][i]].msg]

(* The batch is written as the sink's kind and health have it, and answered. *)
(* Before that, an attempt that reported an error may have landed, and so    *)
(* may the other rows of an event with a refused one.  What the sink did not *)
(* have joins, in the order of the batch, what it was given.                 *)
Flush(s, fates, whole, landed) ==
  /\ batch[s] # <<>> /\ \A i \in DOMAIN fates : fates[i] \in Possible(s, whole)
  /\ LET new == {i \in DOMAIN fates : /\ landed \/ fates[i] = "written"
                                     /\ ~Wrote(s, Messages(s)[i])}
     IN  \E place \in Bijection(1..Cardinality(new), new) :
           /\ \A i, j \in DOMAIN place : i < j => place[i] < place[j]
           /\ written' = [written EXCEPT ![s] = @ \o [i \in DOMAIN place |-> Messages(s)[place[i]]]]
  /\ parked' = parked \cup
       {<<pm[batch[s][i]].msg, s>> : i \in {j \in DOMAIN fates : fates[j] = "parked"}}
  /\ refused' = refused \cup
       {<<pm[batch[s][i]].msg, s>> : i \in {j \in DOMAIN fates : fates[j] = "refused"}}
  /\ pm' = Answered([p \in {batch[s][i] : i \in DOMAIN fates} |->
                       Answers(fates, Position(s, p), whole)])
  /\ batch' = [batch EXCEPT ![s] = <<>>]
  /\ UNCHANGED <<life, flow, work, chan, spill, spilled, acked>>

(* The circuit breaker is open. *)
RefuseBatch(s) ==
  /\ batch[s] # <<>>
  /\ pm' = Answered([p \in {batch[s][i] : i \in DOMAIN batch[s]} |-> "err"])
  /\ batch' = [batch EXCEPT ![s] = <<>>]
  /\ UNCHANGED <<life, flow, work, chan, spill, written, spilled, parked, refused, acked>>

-----------------------------------------------------------------------------
(* Runner.Start, after the context is cancelled *)

Stop ==
  /\ life = "running"
  /\ life' = "stopping"
  /\ UNCHANGED <<flow, work, writers, parked, refused, acked>>

CloseChannels ==
  /\ life = "stopping" /\ ~consuming /\ inFlight = 0
  /\ life' = "closed"
  /\ UNCHANGED <<flow, work, writers, parked, refused, acked>>

(* The writers are done, or the drain timeout and its grace are over. *)
Stopped ==
  /\ life = "closed"
  /\ DrainTimeout \/ \A s \in Sink : chan[s] = <<>> /\ batch[s] = <<>>
  /\ life' = "stopped"
  /\ UNCHANGED <<flow, work, writers, parked, refused, acked>>

Next ==
  \/ Read \/ Produce \/ ProduceStopped \/ Dispatch \/ StopConsuming
  \/ Stop \/ CloseChannels \/ Stopped
  \/ \E w \in Worker : Take(w) \/ \E m \in Msg : Process(w, m)
  \/ \E m \in Msg, s \in Sink :
       \/ Submit(m, s) \/ Await(m, s) \/ GiveUp(m, s)
  \/ \E s \in Sink :
       \/ Reload(s) \/ Collect(s) \/ RefuseBatch(s)
       \/ \E fates \in [DOMAIN batch[s] -> Fate], whole, landed \in BOOLEAN :
            Flush(s, fates, whole, landed)

Spec == Init /\ [][Next]_vars

(***************************************************************************)
(* Goroutines that can run do run; the router, the source and the dead     *)
(* letter sink return; and timers fire.  A sink's write need not return.   *)
(***************************************************************************)
Fairness ==
  /\ WF_vars(StopConsuming) /\ WF_vars(CloseChannels) /\ WF_vars(Stopped)
  /\ \A w \in Worker : WF_vars(Take(w) \/ \E m \in Msg : Process(w, m))
  /\ \A m \in Msg, s \in Sink : WF_vars(Submit(m, s) \/ Await(m, s) \/ GiveUp(m, s))

FairSpec == Spec /\ Fairness

-----------------------------------------------------------------------------
TypeOK ==
  /\ life \in {"running", "stopping", "closed", "stopped"}
  /\ unread \subseteq Msg /\ hold \in {0} \cup Msg /\ consuming \in BOOLEAN
  /\ buffer \in Seq(Msg) /\ queue \in [Queue -> Seq(Msg)]
  /\ busy \in [Worker -> {0} \cup Msg] /\ inFlight \in 0..Cardinality(Worker)
  /\ target \in [Msg -> SUBSET (Sink \cup {NoSink})]
  /\ call \in [Msg -> [Sink -> [pm : {0} \cup Pm,
       state : {"none", "enqueue", "full", "retry", "wait", "ok", "err"}]]]
  /\ pm \in [Pm -> [msg : {0} \cup Msg, refs : 0..2, done : {"empty", "ok", "err"}]]
  /\ chan \in [Sink -> Seq(Pm)] /\ batch \in [Sink -> Seq(Pm)]
  /\ spill \in [Sink -> Seq(Msg)] /\ written \in [Sink -> Seq(Msg)]
  /\ parked \subseteq Msg \X (Sink \cup {NoSink}) /\ spilled \subseteq Msg \X Sink
  /\ refused \subseteq Msg \X Sink
  /\ acked \subseteq Msg

(***************************************************************************)
(* "The engine acknowledges messages to the source only after they have    *)
(* been successfully written": every sink an acknowledged message was      *)
(* routed to has it, or the dead-letter sink has it for that sink, or it   *)
(* was spilled, or there is no dead-letter sink and the sink, one that     *)
(* validates rows, refused it in a batch; over evictions, refusals,        *)
(* budgets that run out before a late answer, and the reuse of pooled      *)
(* objects.                                                                *)
(***************************************************************************)
Dropped(m, s) == ~DeadLetter /\ s \in Validating /\ <<m, s>> \in refused

AckedIsKept ==
  \A m \in acked : \A s \in target[m] :
    <<m, s>> \in parked \cup spilled \/ (s \in Sink /\ Wrote(s, m)) \/ Dropped(m, s)

(***************************************************************************)
(* "Every change to one row lands on one worker and is processed in the    *)
(* order it was read": a sink is first given the messages of one ordering  *)
(* key in the order they were read, spilled ones apart, however often a    *)
(* write is repeated.                                                      *)
(***************************************************************************)
InOrder ==
  \A s \in Sink : \A i, j \in DOMAIN written[s] :
    LET m == written[s][i]
        n == written[s][j]
    IN  i < j /\ WorkerOf[m] = WorkerOf[n] /\ WorkerOf[m] # Shared
          /\ {<<m, s>>, <<n, s>>} \cap spilled = {}
        => m < n

(***************************************************************************)
(* releasePendingMessage: an object is in the pool "only when BOTH have    *)
(* finished their work": the objects that queues, batches and waiting      *)
(* goroutines hold are distinct and carry the message they were acquired   *)
(* for.                                                                    *)
(***************************************************************************)
Held(s) == chan[s] \o batch[s]

PoolIsSound ==
  /\ \A s \in Sink : \A i \in DOMAIN Held(s) : pm[Held(s)[i]].refs > 0
  /\ \A s, t \in Sink : \A i \in DOMAIN Held(s), j \in DOMAIN Held(t) :
       Held(s)[i] = Held(t)[j] => s = t /\ i = j
  /\ \A m \in Msg, s \in Sink : call[m][s].pm # 0 =>
       LET p == call[m][s].pm
       IN  /\ pm[p].msg = m \/ (pm[p].msg = 0 /\ <<m, s>> \in spilled)
           /\ pm[p].refs > 0
           /\ \A n \in Msg, t \in Sink : call[n][t].pm = p => n = m /\ t = s
           /\ At(m, s, "wait") /\ pm[p].done = "empty"
                => \E i \in DOMAIN Held(s) : Held(s)[i] = p

(***************************************************************************)
(* "Closing the channel while they are still sending would be a send on a  *)
(* closed channel": once the channels are closed no goroutine sends or     *)
(* waits, no worker is busy, and no message can reach one.                 *)
(***************************************************************************)
ClosedIsQuiet ==
  life \in {"closed", "stopped"} =>
    /\ \A m \in Msg, s \in Sink : call[m][s] = NoCall
    /\ \A w \in Worker : busy[w] = 0
    /\ \A q \in Queue : queue[q] = <<>>

(***************************************************************************)
(* A stop ends, with messages in flight, full channels and a sink that     *)
(* never returns ("one sink that never returns held the whole process      *)
(* open, which is the failure mode the timeout exists to escape").         *)
(***************************************************************************)
StopCompletes == life = "stopping" ~> life = "stopped"

-----------------------------------------------------------------------------
(* The inductive invariant behind the four safety properties. *)

Ascending(a) == \A i, j \in DOMAIN a : i < j => a[i] < a[j]
Before(S, T) == \A m \in S, n \in T : m < n

(* What is still to be read or buffered, and all that has yet to leave       *)
(* queue q.                                                                  *)
Waiting == unread \cup ({hold} \ {0})
Upstream(q) == Waiting \cup Range(buffer) \cup Range(queue[q])

(* A message that left its queue is behind all that will come through it. *)
Past(m) == Before({m}, Upstream(WorkerOf[m]))

(* Messages wait in the order they were read, each in the queue of its key. *)
FlowInv ==
  /\ \A n \in unread : hold < n
  /\ Ascending(buffer) /\ Before(Range(buffer), Waiting)
  /\ \A q \in Queue :
       /\ Ascending(queue[q]) /\ Before(Range(queue[q]), Waiting \cup Range(buffer))
       /\ \A m \in Range(queue[q]) : WorkerOf[m] = q

(* No two workers process one message, nor one a second time once it was     *)
(* acknowledged.                                                             *)
BusyInv ==
  /\ \A w \in Worker : busy[w] # 0 =>
       /\ Past(busy[w]) /\ busy[w] \notin acked /\ WorkerOf[busy[w]] \in {w, Shared}
       /\ \A v \in Worker : busy[v] = busy[w] => v = w
  /\ \A m \in acked : Past(m)

(* The counter is that of the messages queued or being processed. *)
InFlight == {m \in Msg : m \in Range(busy) \/ \E q \in Queue : m \in Range(queue[q])}
CountInv == inFlight = Cardinality(InFlight)

(* Goroutines wait for the sinks of a message only while a worker has it. *)
CallInv ==
  \A m \in Msg :
    /\ \/ \A s \in Sink : call[m][s] = NoCall
       \/ /\ m \in Range(busy) /\ target[m] \subseteq Sink
          /\ \A s \in Sink : call[m][s].state # "none" <=> s \in target[m]
    /\ \A s \in Sink : call[m][s].pm = 0 <=> call[m][s].state \in {"none", "ok", "err"}

QuietInv == life \in {"closed", "stopped"} => ~consuming /\ InFlight = {}

(* The objects a writer holds. *)
Holds(s) == Range(chan[s]) \cup Range(batch[s])

(* A writer holds an object once, and its reference until it is answered. *)
HeldSound(s) ==
  /\ IsInjective(chan[s]) /\ IsInjective(batch[s])
  /\ Range(chan[s]) \cap Range(batch[s]) = {}
  /\ \A t \in Sink \ {s} : Holds(s) \cap Holds(t) = {}
  /\ \A p \in Holds(s) : pm[p].refs > 0 /\ pm[p].done = "empty" /\ pm[p].msg # 0

(* The goroutine of m and s has an object to itself and the writer; both     *)
(* references are there until the writer answers.                            *)
CallSound(m, s) ==
  LET p == call[m][s].pm
  IN  p # 0 =>
        /\ \A n \in Msg, t \in Sink : call[n][t].pm = p => n = m /\ t = s
        /\ \A t \in Sink : p \in Holds(t) => t = s /\ At(m, s, "wait")
        /\ IF At(m, s, "wait") /\ p \notin Holds(s)
             THEN /\ pm[p].refs = 1 /\ pm[p].done # "empty"
                  /\ pm[p].msg = m \/ (pm[p].msg = 0 /\ <<m, s>> \in spilled)
             ELSE pm[p] = [msg |-> m, refs |-> 2, done |-> "empty"]

PoolInv ==
  /\ \A p \in Pool : pm[p] = Free
  /\ \A s \in Sink : HeldSound(s)
  /\ \A m \in Msg, s \in Sink : CallSound(m, s)

Kept(m, s) == <<m, s>> \in parked \cup spilled \/ (s \in Sink /\ Wrote(s, m)) \/ Dropped(m, s)

(* A sink that answered well has the message, or refused it as invalid. *)
AnswerInv ==
  \A m \in Msg, s \in Sink :
    At(m, s, "ok") \/ (At(m, s, "wait") /\ pm[call[m][s].pm].done = "ok") => Kept(m, s)

(* Messages m and n of one key, neither spilled on the way to s, are in order. *)
Ordered(s, m, n) ==
  WorkerOf[m] = WorkerOf[n] /\ WorkerOf[m] # Shared /\ {<<m, s>>, <<n, s>>} \cap spilled = {}
    => m < n

Sorted(s, a) == \A i, j \in DOMAIN a : i < j => Ordered(s, a[i], a[j])
Follows(s, S, T) == \A m \in S, n \in T : Ordered(s, m, n)

(* The messages of the objects of a, and what is given, or on the way, to s. *)
Carried(a) == [i \in DOMAIN a |-> pm[a[i]].msg]
Given(s) == Range(written[s]) \cup Range(Carried(batch[s])) \cup Range(Carried(chan[s]))

(* Worker w has a message it has not enqueued to s. *)
Unsent(w, s) ==
  busy[w] # 0 /\ call[busy[w]][s].state \in {"none", "enqueue", "full", "retry"}

(* What a sink was given, its batch and its channel are in order, one after  *)
(* the other, and before the message that its worker has yet to enqueue.     *)
OrderOf(s) ==
  /\ Sorted(s, written[s]) /\ Sorted(s, Carried(batch[s])) /\ Sorted(s, Carried(chan[s]))
  /\ Follows(s, Range(written[s]), Range(Carried(batch[s])) \cup Range(Carried(chan[s])))
  /\ Follows(s, Range(Carried(batch[s])), Range(Carried(chan[s])))
  /\ \A m \in Given(s) :
       Past(m) /\ \A w \in Worker : Unsent(w, s) => Ordered(s, m, busy[w])
  /\ \A m \in Range(spill[s]) : <<m, s>> \in spilled /\ Past(m)

OrderInv == \A s \in Sink : OrderOf(s)

IndInv ==
  /\ TypeOK /\ FlowInv /\ BusyInv /\ CountInv /\ CallInv /\ QuietInv
  /\ PoolInv /\ AnswerInv /\ AckedIsKept /\ OrderInv

-----------------------------------------------------------------------------
(* What the documents say that the code does not do. *)

(***************************************************************************)
(* README: "Messages are acknowledged only after successful delivery".  An *)
(* acknowledged message is with its sinks or parked, or somewhere from     *)
(* where it will get there.                                                *)
(***************************************************************************)
AckedIsNeverLost ==
  \A m \in acked : \A s \in target[m] :
    \/ <<m, s>> \in parked
    \/ s \in Sink /\ Wrote(s, m)
    \/ s \in Sink /\ \E i \in DOMAIN spill[s] : spill[s][i] = m
    \/ s \in Sink /\ \E i \in DOMAIN Held(s) : pm[Held(s)[i]].msg = m
=============================================================================
