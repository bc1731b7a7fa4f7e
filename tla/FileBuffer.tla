----------------------------- MODULE FileBuffer -----------------------------
(***************************************************************************)
(* The durable buffer of an engine or of a sink's spill                    *)
(* (pkg/comm/buffer/file_buffer.go): an append-only log of messages, and a *)
(* state file with the counts and the read offset, behind a ring in memory *)
(* (combined_buffer.go; without one RingCap is 0).  Several goroutines     *)
(* produce, one consumes.                                                  *)
(*                                                                         *)
(* A record is one message: what a record is encoded to is left out, and   *)
(* an offset is a number of records.  Records fit into one write, so none  *)
(* is torn.  A crash is the end of the process, or of the engine: buffers  *)
(* are not closed but opened again over the same files.                    *)
(***************************************************************************)
EXTENDS Integers, Sequences

CONSTANTS
  MaxMsg,       \* bound: messages produced
  Size,         \* messages the file may hold unconsumed; 0 is no limit
  RingCap,      \* capacity of the ring
  MaxFaults     \* bound: crashes, and syncs and saves that fail

ASSUME BufferAssumption ==
  MaxMsg \in Nat /\ Size \in Nat /\ RingCap \in Nat /\ MaxFaults \in Nat

Msg == 1..MaxMsg

VARIABLES
  log,                       \* messages.log
  count, consumed, offset,   \* produceCount, consumeCount, readOffset
  saved,                     \* state.bin
  lock,                      \* the message whose Produce holds the mutex, or 0
  stage,                     \* how far the Produce of each message is
  ring,
  at, pos,                   \* where Consume is, and its place in the log
  done,                      \* messages whose handler returned
  faults

state == <<count, consumed, offset>>
vars == <<log, state, saved, lock, stage, ring, at, pos, done, faults>>

Snapshot(c, d, o) == [count |-> c, consumed |-> d, offset |-> o]

Init ==
  /\ log = <<>> /\ ring = <<>> /\ lock = 0
  /\ count = 0 /\ consumed = 0 /\ offset = 0 /\ saved = Snapshot(0, 0, 0)
  /\ stage = [m \in Msg |-> "new"]
  /\ at = "ring" /\ pos = 0 /\ done = {} /\ faults = 0

Fault == faults < MaxFaults /\ faults' = faults + 1

(* saveState, whose error nobody looks at *)
SaveState ==
  \/ saved' = Snapshot(count', consumed', offset') /\ UNCHANGED faults
  \/ Fault /\ UNCHANGED saved

-----------------------------------------------------------------------------
(* Produce.                                                                *)

RingSend(m) ==
  /\ stage[m] = "new" /\ Len(ring) < RingCap
  /\ ring' = Append(ring, m) /\ stage' = [stage EXCEPT ![m] = "ring"]
  /\ UNCHANGED <<log, state, saved, lock, at, pos, done, faults>>

(* The ring stayed full for as long as CombinedBuffer.Produce waits. *)
Spill(m) ==
  /\ stage[m] = "new" /\ Len(ring) = RingCap
  /\ stage' = [stage EXCEPT ![m] = "file"]
  /\ UNCHANGED <<log, state, saved, lock, ring, at, pos, done, faults>>

(* The producer's context ends while it waits for room. *)
Abandon(m) ==
  /\ stage[m] \in {"new", "file"} /\ lock # m
  /\ stage' = [stage EXCEPT ![m] = "failed"]
  /\ UNCHANGED <<log, state, saved, lock, ring, at, pos, done, faults>>

HasRoom == Size = 0 \/ count - consumed < Size

(* A faulty variant: room is looked for once, before the mutex is taken. *)
Write_NoRoom(m) ==
  /\ stage[m] = "file" /\ lock = 0
  /\ log' = Append(log, m) /\ lock' = m
  /\ UNCHANGED <<state, saved, stage, ring, at, pos, done, faults>>

(* The record is flushed to the log, under the mutex. *)
Write(m) ==
  /\ stage[m] = "file" /\ lock = 0 /\ HasRoom
  /\ log' = Append(log, m) /\ lock' = m
  /\ UNCHANGED <<state, saved, stage, ring, at, pos, done, faults>>

(* The log is synced, and the message counted. *)
CountProduced(m) ==
  /\ lock = m /\ lock' = 0
  /\ count' = count + 1 /\ UNCHANGED <<consumed, offset>> /\ SaveState
  /\ stage' = [stage EXCEPT ![m] = "kept"]
  /\ UNCHANGED <<log, ring, at, pos, done>>

(* The sync fails: Produce returns an error, and the record stays. *)
SyncFails(m) ==
  /\ lock = m /\ lock' = 0 /\ Fault
  /\ stage' = [stage EXCEPT ![m] = "failed"]
  /\ UNCHANGED <<log, state, saved, ring, at, pos, done>>

-----------------------------------------------------------------------------
(* Consume: the ring first, then for a while the file.                     *)

RingTake ==
  /\ at = "ring" /\ ring # <<>>
  /\ ring' = Tail(ring) /\ done' = done \cup {Head(ring)}
  /\ UNCHANGED <<log, state, saved, lock, stage, at, pos, faults>>

OpenLog ==
  /\ at = "ring" /\ ring = <<>> /\ lock = 0
  /\ at' = "file" /\ pos' = offset
  /\ UNCHANGED <<log, state, saved, lock, stage, ring, done, faults>>

(* A faulty variant: the offset moves on when a record is read. *)
FileTake_MovesOffset ==
  /\ at = "file" /\ lock = 0 /\ consumed < count /\ pos < Len(log)
  /\ at' = "handling" /\ pos' = pos + 1
  /\ offset' = pos' /\ UNCHANGED <<count, consumed>> /\ SaveState
  /\ UNCHANGED <<log, lock, stage, ring, done>>

(* A faulty variant: the last record counted is taken for one still being   *)
(* written.                                                                *)
FileTake_NotLast ==
  /\ at = "file" /\ lock = 0 /\ consumed + 1 < count /\ pos < Len(log)
  /\ at' = "handling" /\ pos' = pos + 1
  /\ UNCHANGED <<log, state, saved, lock, stage, ring, done, faults>>

(* A record is read, if the counts say that there is one. *)
FileTake ==
  /\ at = "file" /\ lock = 0 /\ consumed < count /\ pos < Len(log)
  /\ at' = "handling" /\ pos' = pos + 1
  /\ UNCHANGED <<log, state, saved, lock, stage, ring, done, faults>>

Handle ==
  /\ at = "handling"
  /\ at' = "handled" /\ done' = done \cup {log[pos]}
  /\ UNCHANGED <<log, state, saved, lock, stage, ring, pos, faults>>

CountConsumed ==
  /\ at = "handled" /\ lock = 0
  /\ at' = "file"
  /\ consumed' = consumed + 1 /\ offset' = pos /\ UNCHANGED count /\ SaveState
  /\ UNCHANGED <<log, lock, stage, ring, pos, done>>

(* The time for the file is up, in a handler too: back to the ring. *)
TimeOut ==
  /\ RingCap > 0 /\ at \in {"file", "handling"}
  /\ at' = "ring"
  /\ UNCHANGED <<log, state, saved, lock, stage, ring, pos, done, faults>>

-----------------------------------------------------------------------------
(* What was in memory is gone, and the state is loaded. *)
Crash ==
  /\ Fault
  /\ count' = saved.count /\ consumed' = saved.consumed /\ offset' = saved.offset
  /\ lock' = 0 /\ ring' = <<>> /\ at' = "ring" /\ pos' = 0
  /\ stage' = [m \in Msg |-> IF stage[m] \in {"file", "ring"} THEN "failed" ELSE stage[m]]
  /\ UNCHANGED <<log, saved, done>>

Consume == RingTake \/ OpenLog \/ FileTake \/ Handle \/ CountConsumed \/ TimeOut

Next ==
  \/ \E m \in Msg : RingSend(m) \/ Spill(m) \/ Abandon(m) \/ Write(m) \/ CountProduced(m) \/ SyncFails(m)
  \/ Consume \/ Crash

Spec == Init /\ [][Next]_vars

(* Goroutines run; a handler that is tried often enough is given the time. *)
Fairness ==
  /\ \A m \in Msg : WF_vars(CountProduced(m))
  /\ WF_vars(RingTake) /\ WF_vars(OpenLog)
  /\ SF_vars(FileTake) /\ SF_vars(Handle) /\ SF_vars(CountConsumed)

FairSpec == Spec /\ Fairness

-----------------------------------------------------------------------------
TypeOK ==
  /\ log \in Seq(Msg) /\ ring \in Seq(Msg) /\ lock \in Msg \cup {0}
  /\ count \in Nat /\ consumed \in Nat /\ offset \in Nat /\ pos \in Nat
  /\ saved \in [count : Nat, consumed : Nat, offset : Nat]
  /\ stage \in [Msg -> {"new", "ring", "file", "kept", "failed"}]
  /\ at \in {"ring", "file", "handling", "handled"}
  /\ done \subseteq Msg /\ faults \in 0..MaxFaults

(* A message that Produce accepted into the file and no handler has taken   *)
(* is behind the offset that a restart begins at, whatever crashed or       *)
(* failed before (Produce, consumeWithOffsets, saveState, loadState).      *)
Kept ==
  \A m \in Msg : stage[m] = "kept" /\ m \notin done =>
    \E i \in 1..Len(log) : i > saved.offset /\ log[i] = m

(* A snapshot of the state: the offset belongs to the count, every record    *)
(* before it has been handled, and the backlog is within the limit.        *)
Consistent(c, d, o) ==
  /\ d = o /\ o <= c /\ c <= Len(log)
  /\ Size # 0 => c - d <= Size
  /\ \A i \in 1..o : log[i] \in done

StateInv == Consistent(count, consumed, offset)

SavedInv == Consistent(saved.count, saved.consumed, saved.offset)

LockInv ==
  lock # 0 => count < Len(log) /\ stage[lock] = "file" /\ (Size # 0 => count - consumed < Size)

ReaderInv ==
  /\ at = "file" => pos = offset
  /\ at \in {"handling", "handled"} => pos = offset + 1 /\ consumed < count
  /\ at = "handled" => log[pos] \in done

LoggedInv ==
  \A m \in Msg : stage[m] = "kept" \/ m = lock => \E i \in 1..Len(log) : log[i] = m

(* The inductive invariant: both states are consistent, a record about to   *)
(* be counted is one more than they say and there is room for it, the       *)
(* reader is at the offset or one record ahead, and what was accepted is    *)
(* in the log.                                                             *)
IndInv == TypeOK /\ StateInv /\ SavedInv /\ LockInv /\ ReaderInv /\ LoggedInv

(* A message accepted into the file is handled in the end, as long as every *)
(* record of the log is counted.                                           *)
DrainsIfCounted == \A m \in Msg : stage[m] = "kept" ~> (m \in done \/ count < Len(log))

(* A message accepted into the file is handled in the end. *)
Drains == \A m \in Msg : stage[m] = "kept" ~> m \in done
=============================================================================
