-------------------------- MODULE FileBuffer_proofs --------------------------
(* Proofs about FileBuffer: nothing accepted is lost, for any number of     *)
(* messages, sizes and faults.                                             *)
EXTENDS FileBuffer, TLAPS

LEMMA InitInv == Init => IndInv
  BY BufferAssumption DEF Init, IndInv, TypeOK, StateInv, SavedInv, LockInv, ReaderInv, LoggedInv,
     Consistent, Snapshot, Msg

(* What no step of the file changes. *)
LEMMA Elsewhere ==
  ASSUME IndInv, UNCHANGED <<log, state, saved, lock, done>>, TypeOK', ReaderInv',
         \A m \in Msg : stage'[m] = "kept" => stage[m] = "kept",
         \A m \in Msg : stage[m] = "file" /\ m = lock => stage'[m] = "file"
  PROVE  IndInv'
<1>1. StateInv' /\ SavedInv'
  BY DEF IndInv, StateInv, SavedInv, Consistent, state
<1>2. LockInv'
  BY DEF IndInv, LockInv, TypeOK, state
<1>3. LoggedInv'
  BY DEF IndInv, LoggedInv
<1> QED BY <1>1, <1>2, <1>3 DEF IndInv

LEMMA ProducerStep ==
  ASSUME IndInv, NEW m \in Msg, RingSend(m) \/ Spill(m) \/ Abandon(m)
  PROVE  IndInv'
<1>1. TypeOK'
  <2>1. CASE RingSend(m)
    BY <2>1 DEF IndInv, TypeOK, RingSend, state
  <2>2. CASE Spill(m)
    BY <2>2 DEF IndInv, TypeOK, Spill, state
  <2>3. CASE Abandon(m)
    BY <2>3 DEF IndInv, TypeOK, Abandon, state
  <2> QED BY <2>1, <2>2, <2>3
<1>2. ReaderInv'
  BY DEF IndInv, ReaderInv, RingSend, Spill, Abandon, state
<1>3. UNCHANGED <<log, state, saved, lock, done>>
  BY DEF RingSend, Spill, Abandon, state
<1>4. \A k \in Msg : stage'[k] = "kept" => stage[k] = "kept"
  BY DEF IndInv, TypeOK, RingSend, Spill, Abandon
<1>5. \A k \in Msg : stage[k] = "file" /\ k = lock => stage'[k] = "file"
  BY DEF IndInv, TypeOK, RingSend, Spill, Abandon
<1> QED BY <1>1, <1>2, <1>3, <1>4, <1>5, Elsewhere

LEMMA WriteStep ==
  ASSUME IndInv, NEW m \in Msg, Write(m)
  PROVE  IndInv'
<1> USE DEF IndInv
<1>1. log' \in Seq(Msg) /\ Len(log') = Len(log) + 1 /\ log'[Len(log) + 1] = m
      /\ \A i \in 1..Len(log) : log'[i] = log[i]
  BY DEF Write, TypeOK
<1>2. TypeOK'
  BY <1>1 DEF TypeOK, Write, state
<1>3. StateInv'
  BY <1>1 DEF StateInv, Consistent, Write, TypeOK, state
<1>4. SavedInv'
  BY <1>1 DEF SavedInv, Consistent, Write, TypeOK, state
<1>5. LockInv'
  BY <1>1 DEF LockInv, StateInv, Consistent, Write, HasRoom, TypeOK, state
<1>6. ReaderInv'
  BY <1>1 DEF ReaderInv, StateInv, Consistent, Write, TypeOK, state
<1>7. LoggedInv'
  <2> SUFFICES ASSUME NEW k \in Msg, stage'[k] = "kept" \/ k = lock'
               PROVE  \E i \in 1..Len(log') : log'[i] = k
    BY DEF LoggedInv
  <2>1. CASE k = m
    BY <2>1, <1>1 DEF TypeOK
  <2>2. CASE k # m
    <3>1. PICK i \in 1..Len(log) : log[i] = k
      BY <2>2 DEF LoggedInv, Write
    <3> QED BY <3>1, <1>1 DEF TypeOK
  <2> QED BY <2>1, <2>2
<1> QED BY <1>2, <1>3, <1>4, <1>5, <1>6, <1>7

(* A save writes a consistent state, or leaves one. *)
LEMMA SaveKeeps ==
  ASSUME SavedInv, SaveState, UNCHANGED <<log, done>>, StateInv'
  PROVE  SavedInv'
<1>1. CASE saved' = Snapshot(count', consumed', offset')
  BY <1>1 DEF SavedInv, StateInv, Consistent, Snapshot
<1>2. CASE UNCHANGED saved
  BY <1>2 DEF SavedInv, Consistent
<1> QED BY <1>1, <1>2 DEF SaveState

LEMMA SaveType ==
  ASSUME TypeOK, SaveState, count' \in Nat, consumed' \in Nat, offset' \in Nat
  PROVE  saved' \in [count : Nat, consumed : Nat, offset : Nat] /\ faults' \in 0..MaxFaults
  BY BufferAssumption DEF TypeOK, SaveState, Snapshot, Fault

LEMMA CountStep ==
  ASSUME IndInv, NEW m \in Msg, CountProduced(m)
  PROVE  IndInv'
<1> USE DEF IndInv
<1>0. m # 0 /\ lock = m
  BY DEF CountProduced, Msg
<1>1. TypeOK'
  <2>1. count' \in Nat /\ consumed' \in Nat /\ offset' \in Nat
    BY DEF TypeOK, CountProduced
  <2>2. saved' \in [count : Nat, consumed : Nat, offset : Nat] /\ faults' \in 0..MaxFaults
    BY <2>1, SaveType DEF CountProduced
  <2>3. stage' \in [Msg -> {"new", "ring", "file", "kept", "failed"}]
    BY DEF TypeOK, CountProduced
  <2> QED BY <2>1, <2>2, <2>3 DEF TypeOK, CountProduced
<1>2. StateInv'
  <2>1. consumed' = offset' /\ offset' <= count' /\ count' <= Len(log')
    BY <1>0 DEF StateInv, Consistent, CountProduced, LockInv, TypeOK
  <2>2. Size # 0 => count' - consumed' <= Size
    BY <1>0, BufferAssumption DEF CountProduced, LockInv, TypeOK
  <2>3. \A i \in 1..offset' : log'[i] \in done'
    BY DEF StateInv, Consistent, CountProduced
  <2> QED BY <2>1, <2>2, <2>3 DEF StateInv, Consistent
<1>3. SavedInv'
  BY <1>2, SaveKeeps DEF CountProduced
<1>4. LockInv'
  BY DEF LockInv, CountProduced
<1>5. ReaderInv'
  BY DEF ReaderInv, CountProduced, TypeOK
<1>6. LoggedInv'
  BY <1>0 DEF LoggedInv, CountProduced, TypeOK, Msg
<1> QED BY <1>1, <1>2, <1>3, <1>4, <1>5, <1>6

LEMMA SyncFailsStep ==
  ASSUME IndInv, NEW m \in Msg, SyncFails(m)
  PROVE  IndInv'
<1> USE DEF IndInv
<1>1. TypeOK'
  BY BufferAssumption DEF TypeOK, SyncFails, Fault, state
<1>2. StateInv' /\ SavedInv'
  BY DEF StateInv, SavedInv, Consistent, SyncFails, state
<1>3. LockInv' /\ ReaderInv'
  BY DEF LockInv, ReaderInv, SyncFails, state
<1>4. LoggedInv'
  BY DEF LoggedInv, SyncFails, TypeOK, Msg
<1> QED BY <1>1, <1>2, <1>3, <1>4

LEMMA ReaderMoves ==
  ASSUME IndInv, OpenLog \/ FileTake \/ TimeOut
  PROVE  IndInv'
<1>1. TypeOK'
  BY DEF IndInv, TypeOK, OpenLog, FileTake, TimeOut, state
<1>2. ReaderInv'
  BY DEF IndInv, TypeOK, ReaderInv, StateInv, Consistent, OpenLog, FileTake, TimeOut, state
<1>3. UNCHANGED <<log, state, saved, lock, done, stage>>
  BY DEF OpenLog, FileTake, TimeOut, state
<1> QED BY <1>1, <1>2, <1>3, Elsewhere DEF IndInv, LockInv

LEMMA HandleStep ==
  ASSUME IndInv, RingTake \/ Handle
  PROVE  IndInv'
<1> USE DEF IndInv
<1>0. done \subseteq done' /\ UNCHANGED <<log, count, consumed, offset, saved, lock, stage, pos, faults>>
  BY DEF RingTake, Handle, state
<1>1. TypeOK'
  <2>1. CASE RingTake
    BY <2>1 DEF RingTake, TypeOK, state
  <2>2. CASE Handle
    <3>1. pos \in 1..Len(log)
      BY <2>2 DEF Handle, ReaderInv, StateInv, Consistent, TypeOK
    <3> QED BY <2>2, <3>1 DEF Handle, TypeOK, state
  <2> QED BY <2>1, <2>2
<1>2. StateInv' /\ SavedInv'
  BY <1>0 DEF StateInv, SavedInv, Consistent
<1>3. LockInv'
  BY <1>0 DEF LockInv
<1>4. ReaderInv'
  BY <1>0 DEF ReaderInv, RingTake, Handle
<1>5. LoggedInv'
  BY <1>0 DEF LoggedInv
<1> QED BY <1>1, <1>2, <1>3, <1>4, <1>5

LEMMA CountConsumedStep ==
  ASSUME IndInv, CountConsumed
  PROVE  IndInv'
<1> USE DEF IndInv
<1>1. TypeOK'
  <2>1. count' \in Nat /\ consumed' \in Nat /\ offset' \in Nat
    BY DEF TypeOK, CountConsumed
  <2>2. saved' \in [count : Nat, consumed : Nat, offset : Nat] /\ faults' \in 0..MaxFaults
    BY <2>1, SaveType DEF CountConsumed
  <2> QED BY <2>1, <2>2 DEF TypeOK, CountConsumed
<1>2. StateInv'
  <2>1. consumed' = offset' /\ offset' <= count' /\ count' <= Len(log')
    BY DEF StateInv, Consistent, CountConsumed, ReaderInv, TypeOK
  <2>2. Size # 0 => count' - consumed' <= Size
    BY BufferAssumption DEF StateInv, Consistent, CountConsumed, TypeOK
  <2>3. \A i \in 1..offset' : log'[i] \in done'
    BY DEF StateInv, Consistent, CountConsumed, ReaderInv, TypeOK
  <2> QED BY <2>1, <2>2, <2>3 DEF StateInv, Consistent
<1>3. SavedInv'
  BY <1>2, SaveKeeps DEF CountConsumed
<1>4. LockInv' /\ ReaderInv' /\ LoggedInv'
  BY DEF LockInv, ReaderInv, LoggedInv, CountConsumed
<1> QED BY <1>1, <1>2, <1>3, <1>4

LEMMA CrashStep ==
  ASSUME IndInv, Crash
  PROVE  IndInv'
<1> USE DEF IndInv
<1>1. TypeOK'
  BY BufferAssumption DEF TypeOK, Crash, Fault
<1>2. StateInv' /\ SavedInv'
  BY DEF StateInv, SavedInv, Consistent, Crash
<1>3. LockInv' /\ ReaderInv'
  BY DEF LockInv, ReaderInv, Crash
<1>4. LoggedInv'
  BY DEF LoggedInv, Crash, TypeOK, Msg
<1> QED BY <1>1, <1>2, <1>3, <1>4

LEMMA NextInv == IndInv /\ [Next]_vars => IndInv'
<1> SUFFICES ASSUME IndInv, [Next]_vars PROVE IndInv'
  OBVIOUS
<1>1. CASE UNCHANGED vars
  BY <1>1 DEF vars, state, IndInv, TypeOK, StateInv, SavedInv, Consistent, LockInv, ReaderInv, LoggedInv
<1>2. CASE Next
  <2>1. ASSUME NEW m \in Msg,
               RingSend(m) \/ Spill(m) \/ Abandon(m) \/ Write(m) \/ CountProduced(m) \/ SyncFails(m)
        PROVE  IndInv'
    BY <2>1, ProducerStep, WriteStep, CountStep, SyncFailsStep
  <2>2. CASE Consume
    BY <2>2, ReaderMoves, HandleStep, CountConsumedStep DEF Consume
  <2>3. CASE Crash
    BY <2>3, CrashStep
  <2> QED BY <1>2, <2>1, <2>2, <2>3 DEF Next
<1> QED BY <1>1, <1>2

(* IndInv is an invariant: the state in memory and the state on disk always *)
(* describe the log (file_buffer.go).                                      *)
THEOREM Inductive == Spec => []IndInv
<1>1. Init => IndInv BY InitInv
<1>2. IndInv /\ [Next]_vars => IndInv' BY NextInv
<1> QED BY <1>1, <1>2, PTL DEF Spec

(* A message accepted into the file stays behind the saved offset until a    *)
(* handler has taken it, whatever crashes or fails (Produce,                *)
(* consumeWithOffsets, saveState, loadState).                              *)
THEOREM KeptHolds == Spec => []Kept
<1>1. IndInv => Kept
  <2> SUFFICES ASSUME IndInv, NEW m \in Msg, stage[m] = "kept", m \notin done
               PROVE  \E i \in 1..Len(log) : i > saved.offset /\ log[i] = m
    BY DEF Kept
  <2>1. PICK i \in 1..Len(log) : log[i] = m
    BY DEF IndInv, LoggedInv
  <2>2. ~(i <= saved.offset)
    BY <2>1 DEF IndInv, SavedInv, Consistent, TypeOK
  <2> QED BY <2>1, <2>2 DEF IndInv, TypeOK
<1> QED BY <1>1, Inductive, PTL
=============================================================================
