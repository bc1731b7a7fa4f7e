----------------------------- MODULE FileSource -----------------------------
(***************************************************************************)
(* How the file source (pkg/comm/source/file/generic.go) accounts for the  *)
(* files it has read: a file is dequeued in (mtime, name) order and enters *)
(* the acknowledgement tracker, its rows carry its key, and it is          *)
(* acknowledged to the tracker once it has been read to the end and every  *)
(* row of it was acknowledged.  Rows are read by one goroutine and         *)
(* acknowledged by others; the source's mutex covers the counts, and the   *)
(* tracker is told after it is released.                                   *)
(*                                                                         *)
(* Files are numbered in the order of the watermark.  A file is dequeued   *)
(* at most once per process, so its number also stands for its key.        *)
(***************************************************************************)
EXTENDS AckWatermark, FiniteSets

CONSTANTS
  MaxFile,      \* bound: files
  RowsOf,       \* the rows of each file (one per file in raw mode)
  MaxOpen,      \* maxOpenFiles
  OpenFails,    \* may opening a file fail, as it may for raw and parquet files?
  MaxCrashes    \* bound: restarts

File == 1..MaxFile
Row == UNION {{f} \X (1..RowsOf[f]) : f \in File}

ASSUME FileAssumption ==
  /\ MaxFile \in Nat /\ MaxOpen \in Nat /\ MaxCrashes \in Nat
  /\ RowsOf \in [File -> Nat] /\ OpenFails \in BOOLEAN

VARIABLES
  scanned,      \* lastMTime and lastName: the last file dequeued
  reading,      \* the file being read; 0 is none
  key,          \* activeKey; 0 when the file is not tracked
  left,         \* rows of it still to be read
  open,         \* openFile: the counts of each tracked file
  inflight,     \* rows delivered and not acknowledged, with the key they carry
  completing,   \* files found complete, about to be told to the tracker
  done,         \* history: rows acknowledged
  missed,       \* history: files taken off the queue that the tracker did not record
  saved,        \* the persisted watermark
  crashes

reader == <<scanned, reading, key, left>>
vars == <<tracker, reader, open, inflight, completing, done, missed, saved, crashes>>

Progress == [emitted : Nat, acked : Nat, exhausted : BOOLEAN]
NoFiles == [f \in {} |-> 0]
Without(g, f) == [x \in DOMAIN g \ {f} |-> g[x]]

Init ==
  /\ TrackerInit
  /\ scanned = 0 /\ reading = 0 /\ key = 0 /\ left = 0
  /\ open = NoFiles /\ inflight = {} /\ completing = {} /\ done = {}
  /\ missed = {}
  /\ saved = NoCursor /\ crashes = 0

(* A faulty variant: a file counts as complete before its end was read. *)
Complete_Unread(p) == p.acked >= p.emitted

Complete(p) == p.exhausted /\ p.acked >= p.emitted

(* A faulty variant: the tracker is never told of a complete file. *)
Account_Forgets(f, p) ==
  IF Complete(p)
    THEN open' = Without(open, f) /\ UNCHANGED completing
    ELSE open' = [open EXCEPT ![f] = p] /\ UNCHANGED completing

(***************************************************************************)
(* The counts of file f become p: a complete file leaves the accounting.   *)
(***************************************************************************)
Account(f, p) ==
  IF Complete(p)
    THEN open' = Without(open, f) /\ completing' = completing \cup {f}
    ELSE open' = [open EXCEPT ![f] = p] /\ UNCHANGED completing

(***************************************************************************)
(* Read takes the next file off the queue, which moves the scan position,  *)
(* and registers it (beginFile); at maxOpenFiles it goes untracked, and a  *)
(* full tracker records nothing.                                           *)
(***************************************************************************)
BeginFile(f) ==
  IF Cardinality(DOMAIN open) >= MaxOpen
    THEN key' = 0 /\ missed' = missed \cup {f} /\ UNCHANGED <<tracker, open>>
    ELSE /\ key' = f
         /\ missed' = IF Len(pending) < MaxPending THEN missed \ {f} ELSE missed \cup {f}
         /\ open' = [x \in DOMAIN open \cup {f} |->
                       IF x = f THEN [emitted |-> 0, acked |-> 0, exhausted |-> FALSE]
                       ELSE open[x]]
         /\ Emitted(f, f)

OpenFile ==
  /\ reading = 0 /\ scanned < MaxFile
  /\ scanned' = scanned + 1
  /\ reading' = scanned + 1 /\ left' = RowsOf[scanned + 1]
  /\ BeginFile(scanned + 1)
  /\ UNCHANGED <<inflight, completing, done, saved, crashes>>

(***************************************************************************)
(* readFileBytes or parquetRowsFor returns an error: the file has been     *)
(* taken off the queue and is not registered; the engine calls Read again. *)
(***************************************************************************)
OpenError ==
  /\ OpenFails /\ reading = 0 /\ scanned < MaxFile
  /\ scanned' = scanned + 1 /\ missed' = missed \cup {scanned + 1}
  /\ UNCHANGED <<tracker, reading, key, left, open, inflight, completing, done,
                 saved, crashes>>

(* trackRow: the row is counted and carries the key, if its file is tracked.  *)
(* Rows are those that are returned: one whose reading fails is left out.     *)
ReadRow ==
  /\ reading # 0 /\ left > 0
  /\ left' = left - 1
  /\ LET r == <<reading, RowsOf[reading] - left + 1>>
     IN  IF key \in DOMAIN open
           THEN /\ open' = [open EXCEPT ![key].emitted = @ + 1]
                /\ inflight' = inflight \cup {[row |-> r, key |-> key]}
           ELSE /\ inflight' = inflight \cup {[row |-> r, key |-> 0]}
                /\ UNCHANGED open
  /\ UNCHANGED <<tracker, scanned, reading, key, completing, done, missed, saved, crashes>>

(* finishFile, at the end of the file. *)
FinishFile ==
  /\ reading # 0 /\ left = 0
  /\ reading' = 0
  /\ IF key \in DOMAIN open
       THEN Account(key, [open[key] EXCEPT !.exhausted = TRUE])
       ELSE UNCHANGED <<open, completing>>
  /\ UNCHANGED <<tracker, scanned, key, left, inflight, done, missed, saved, crashes>>

(* Ack of a row: one more for its file, if the file is still open. *)
AckRow(m) ==
  /\ m \in inflight
  /\ inflight' = inflight \ {m} /\ done' = done \cup {m.row}
  /\ IF m.key \in DOMAIN open
       THEN Account(m.key, [open[m.key] EXCEPT !.acked = @ + 1])
       ELSE UNCHANGED <<open, completing>>
  /\ UNCHANGED <<tracker, reader, missed, saved, crashes>>

(* finishFile or Ack tells the tracker, outside the source's mutex. *)
CompleteFile(f) ==
  /\ f \in completing
  /\ completing' = completing \ {f}
  /\ Ack(f)
  /\ UNCHANGED <<reader, open, inflight, done, missed, saved, crashes>>

Checkpoint ==
  /\ saved' = mark
  /\ UNCHANGED <<tracker, reader, open, inflight, completing, done, missed, crashes>>

(* A new source, from the stored state (SetState). *)
Restart ==
  /\ crashes < MaxCrashes /\ crashes' = crashes + 1
  /\ SetMark(saved)
  /\ scanned' = saved /\ reading' = 0 /\ key' = 0 /\ left' = 0
  /\ open' = NoFiles /\ inflight' = {} /\ completing' = {}
  /\ UNCHANGED <<done, missed, saved>>

Next ==
  \/ OpenFile \/ OpenError \/ ReadRow \/ FinishFile \/ Checkpoint \/ Restart
  \/ \E m \in inflight : AckRow(m)
  \/ \E f \in File : CompleteFile(f)

Spec == Init /\ [][Next]_vars

(***************************************************************************)
(* The engine keeps reading; every delivered row is acknowledged.          *)
(***************************************************************************)
Fairness ==
  /\ WF_vars(OpenFile) /\ WF_vars(ReadRow) /\ WF_vars(FinishFile)
  /\ WF_vars(\E m \in inflight : AckRow(m))
  /\ \A f \in File : WF_vars(CompleteFile(f))
  /\ WF_vars(Checkpoint)

FairSpec == Spec /\ Fairness

-----------------------------------------------------------------------------
TypeOK ==
  /\ pending \in Seq(Entry) /\ mark \in 0..MaxFile
  /\ \A x \in DOMAIN index : index[x] \in 1..Len(pending)
  /\ dropped \in BOOLEAN /\ left \in Nat /\ crashes \in 0..MaxCrashes
  /\ scanned \in 0..MaxFile /\ reading \in 0..scanned /\ key \in 0..scanned
  /\ DOMAIN open \subseteq File /\ \A f \in DOMAIN open : open[f] \in Progress
  /\ \A m \in inflight : m.row \in Row /\ m.key \in {0, m.row[1]}
  /\ completing \subseteq File /\ done \subseteq Row /\ missed \subseteq File
  /\ saved \in 0..MaxFile

(* Every row of the file has been acknowledged. *)
Whole(f) == \A r \in Row : r[1] = f => r \in done

(***************************************************************************)
(* "The watermark that may be persisted": every row of every file at or    *)
(* below it has been acknowledged, whatever the order in which files are   *)
(* finished and rows acknowledged, and over restarts, except for files     *)
(* that were taken off the queue and not recorded.                         *)
(***************************************************************************)
RegisteredFilesWhole == \A f \in File : f <= saved /\ f \notin missed => Whole(f)

(***************************************************************************)
(* "A file is acknowledged once it has been fully read and every row it    *)
(* produced has been acknowledged": a file's completion is announced once, *)
(* after its last row's acknowledgement, while the tracker waits for it.   *)
(***************************************************************************)
CompleteOnce ==
  \A f \in completing :
    /\ f \notin DOMAIN open /\ f # reading /\ Whole(f)
    /\ f \notin missed => f \in DOMAIN index /\ ~pending[index[f]].acked

(***************************************************************************)
(* Once every row has been acknowledged the watermark passes every file it *)
(* may pass: a file whose rows were all acknowledged before its end was    *)
(* seen, or that has no rows, does not freeze it.                          *)
(***************************************************************************)
WatermarkCatchesUp == <>[](\A f \in File : f <= saved \/ f \in missed)

-----------------------------------------------------------------------------
(* The inductive invariant behind RegisteredFilesWhole and CompleteOnce. *)

(* The tracker holds files dequeued since the mark, in the order of the    *)
(* watermark, each with its own cursor; one marked acknowledged is whole.  *)
QueueInv ==
  /\ saved <= mark /\ mark <= scanned
  /\ \A j \in 1..Len(pending) :
       /\ pending[j].cursor = pending[j].id
       /\ mark < pending[j].id /\ pending[j].id <= scanned
       /\ pending[j].acked => Whole(pending[j].id)
       /\ \A k \in 1..j : k = j \/ pending[k].id < pending[j].id

(* What the mark passed is whole; what it has still to pass is in the      *)
(* tracker.                                                                *)
CoverInv ==
  \A f \in File : f \notin missed =>
    /\ f <= mark => Whole(f)
    /\ mark < f /\ f <= scanned => f \in DOMAIN index

(* A file that is being accounted for, or was found complete, has not been *)
(* told to the tracker.                                                    *)
LiveInv ==
  \A f \in DOMAIN open \cup completing :
    /\ f <= scanned
    /\ f \notin missed => f \in DOMAIN index /\ ~pending[index[f]].acked

(* The file being read is the last one dequeued, and open until its end.   *)
ReadInv ==
  /\ reading # 0 =>
       /\ reading = scanned /\ reading \notin completing /\ left <= RowsOf[reading]
       /\ IF key = 0 THEN reading \notin DOMAIN open
          ELSE key = reading /\ key \in DOMAIN open
  /\ \A f \in DOMAIN open : open[f].exhausted <=> f # reading

(* The rows of a file read so far. *)
ReadSoFar(f) == IF f = reading THEN RowsOf[f] - left ELSE RowsOf[f]

Carrying(f) == {m \in inflight : m.key = f}

(* The counts are those of the rows: what was emitted and not acknowledged *)
(* is in flight, and each row read is in flight or acknowledged.           *)
CountInv ==
  /\ IsFiniteSet(inflight)
  /\ \A m \in inflight : m.key <= scanned /\ (m.key # 0 => m.row[2] <= ReadSoFar(m.key))
  /\ \A f \in DOMAIN open :
       /\ open[f].emitted = open[f].acked + Cardinality(Carrying(f))
       /\ \A i \in 1..ReadSoFar(f) :
            <<f, i>> \in done \/ [row |-> <<f, i>>, key |-> f] \in inflight

CompleteInv ==
  \A f \in completing : f \notin DOMAIN open /\ Whole(f)

IndInv ==
  /\ TypeOK /\ IndexInv /\ QueueInv /\ CoverInv /\ LiveInv /\ ReadInv
  /\ CountInv /\ CompleteInv

-----------------------------------------------------------------------------
(* What a comment says that the code does not do. *)

(***************************************************************************)
(* "A file is acknowledged once it has been fully read and every row it    *)
(* produced has been acknowledged": the watermark covers no other file.    *)
(***************************************************************************)
WholeFilesOnly == \A r \in Row : r[1] <= saved => r \in done
=============================================================================
