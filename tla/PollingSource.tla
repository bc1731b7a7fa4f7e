--------------------------- MODULE PollingSource ---------------------------
(***************************************************************************)
(* A polling source over the acknowledgement tracker (pkg/comm/source/     *)
(* slack, discord, instagram, facebook, twitter, linkedin, firebase,       *)
(* googlesheets): Read fetches a page of limited size past the fetch       *)
(* cursor and hands its items out one at a time, Ack arrives from parallel *)
(* workers in any order, a checkpoint persists the mark, and a restart     *)
(* fetches again from the persisted mark.                                  *)
(*                                                                         *)
(* Items are numbered by their position in the vendor's feed.              *)
(***************************************************************************)
EXTENDS AckWatermark

CONSTANTS
  MaxItem,       \* bound: items of the feed
  MaxCrashes,    \* bound: restarts
  NewestFirst,   \* does the source hand a page out as the API returns it, newest first?
  PageCursor,    \* does the last item of a page carry the page's cursor?
  Limit,         \* the most items of a page (limit, max_results, count)
  LatestPage,    \* does a page of a longer backlog hold its newest items?
  IdOf           \* the message ID of each item

Item == 1..MaxItem

ASSUME PollingAssumption ==
  /\ MaxItem \in Nat /\ MaxCrashes \in Nat
  /\ NewestFirst \in BOOLEAN /\ PageCursor \in BOOLEAN
  /\ Limit \in Nat \ {0} /\ LatestPage \in BOOLEAN
  /\ IdOf \in [Item -> Nat]

VARIABLES
  fetched,    \* the fetch cursor (lastTimestamp, sinceID, since, cursor, lastRow)
  page,       \* the items of the page not yet handed out
  inflight,   \* items handed out and not yet acknowledged
  done,       \* history: items acknowledged
  saved,      \* the persisted cursor
  crashes,
  missed      \* history: items the fetch cursor passed that no page held

source == <<fetched, page, inflight, done, saved, crashes, missed>>
vars == <<tracker, source>>

Init ==
  /\ TrackerInit
  /\ fetched = 0 /\ page = {} /\ inflight = {} /\ done = {} /\ saved = NoCursor
  /\ crashes = 0 /\ missed = {}

(* The item Read takes from what is left of a page. *)
FirstOf(e, S) == e \in S /\ \A d \in S : IF NewestFirst THEN d <= e ELSE e <= d

(* A faulty variant: every item carries the cursor of its page. *)
CursorOf_Eager(e, rest, newest) == IF ~PageCursor THEN e ELSE newest

(* The cursor an item is recorded with, given what is left of its page. *)
CursorOf(e, rest, newest) ==
  IF ~PageCursor THEN e ELSE IF rest = {} THEN newest ELSE NoCursor

HandOut(e, S, newest) ==
  /\ FirstOf(e, S)
  /\ Emitted(IdOf[e], CursorOf(e, S \ {e}, newest))
  /\ page' = S \ {e} /\ fetched' = newest
  /\ inflight' = inflight \cup {e}
  /\ UNCHANGED <<done, saved, crashes>>

(* Read with items of the last page left. *)
ReadItem(e) == page # {} /\ HandOut(e, page, fetched) /\ UNCHANGED missed

(***************************************************************************)
(* Read that fetches the next page.  A page holds up to Limit items, and   *)
(* the fetch cursor moves to its newest.  The page of a longer backlog     *)
(* follows the cursor, or is the newest of the backlog: then the items     *)
(* between the cursor and the page are not fetched by any later request.   *)
(***************************************************************************)
ReadPage(e, oldest, newest) ==
  /\ page = {} /\ fetched < oldest /\ oldest <= newest /\ newest - oldest < Limit
  /\ oldest = fetched + 1 \/ (LatestPage /\ newest - oldest = Limit - 1)
  /\ HandOut(e, oldest..newest, newest)
  /\ missed' = missed \cup (fetched + 1)..(oldest - 1)

AckItem(e) ==
  /\ e \in inflight
  /\ Ack(IdOf[e])
  /\ inflight' = inflight \ {e} /\ done' = done \cup {e}
  /\ UNCHANGED <<fetched, page, saved, crashes, missed>>

(* GetState: the checkpoint persists the mark. *)
Checkpoint ==
  /\ saved' = mark
  /\ UNCHANGED <<tracker, fetched, page, inflight, done, crashes, missed>>

(* A faulty variant: the mark is not restored. *)
Restart_NoMark ==
  /\ crashes < MaxCrashes /\ crashes' = crashes + 1
  /\ SetMark(NoCursor)
  /\ fetched' = saved /\ page' = {} /\ inflight' = {}
  /\ missed' = {e \in missed : e <= saved}
  /\ UNCHANGED <<done, saved>>

(* The process stops and a new source is built from the stored state (SetState). *)
Restart ==
  /\ crashes < MaxCrashes /\ crashes' = crashes + 1
  /\ SetMark(saved)
  /\ fetched' = saved /\ page' = {} /\ inflight' = {}
  /\ missed' = {e \in missed : e <= saved}
  /\ UNCHANGED <<done, saved>>

Next ==
  \/ \E e \in Item : ReadItem(e) \/ AckItem(e)
  \/ \E e, oldest, newest \in Item : ReadPage(e, oldest, newest)
  \/ Checkpoint \/ Restart

Spec == Init /\ [][Next]_vars

(***************************************************************************)
(* The engine keeps reading and acknowledging, and checkpoints recur.      *)
(***************************************************************************)
Fairness ==
  /\ WF_vars(\E e, o, n \in Item : ReadItem(e) \/ ReadPage(e, o, n))
  /\ \A e \in Item : WF_vars(AckItem(e))
  /\ WF_vars(Checkpoint)

FairSpec == Spec /\ Fairness

-----------------------------------------------------------------------------
TypeOK ==
  /\ pending \in Seq(Entry) /\ mark \in 0..MaxItem /\ dropped \in BOOLEAN
  /\ \A x \in DOMAIN index : index[x] \in 1..Len(pending)
  /\ fetched \in 0..MaxItem /\ page \subseteq Item /\ inflight \subseteq Item
  /\ done \subseteq Item /\ saved \in 0..MaxItem /\ crashes \in 0..MaxCrashes
  /\ missed \subseteq Item

(* Out of reach: a page of the newest items left the item out. *)
OffPage(e) == LatestPage /\ e \in missed

(***************************************************************************)
(* "The cursor that may be persisted is the one behind which everything    *)
(* has been acknowledged" (package comment): a restart from the persisted  *)
(* cursor, or from the mark, skips no item that a page held and that was   *)
(* not acknowledged, as long as the tracker never filled up.  Where a full *)
(* page follows the cursor, that is every item; where it is the newest of  *)
(* the backlog, the items no page held are passed with it.                 *)
(***************************************************************************)
NothingSkipped ==
  ~dropped => \A e \in Item : e <= saved \/ e <= mark => e \in done \/ OffPage(e)

(***************************************************************************)
(* "The mark starts there so it never goes backwards" (SetState): the      *)
(* persisted cursor never moves back, over restarts and with items fetched *)
(* and acknowledged a second time.                                         *)
(***************************************************************************)
SavedForward == [][saved' >= saved]_vars

(***************************************************************************)
(* Acknowledgements that all arrive are all persisted in the end: the mark *)
(* is not stuck behind an item that was acknowledged, unless the tracker   *)
(* filled up.                                                              *)
(***************************************************************************)
CaughtUp == <>[](dropped \/ saved = MaxItem)

-----------------------------------------------------------------------------
(* The inductive invariant behind NothingSkipped. *)

(* An entry marked acknowledged is an acknowledged item. *)
AckedInv ==
  \A e \in Item : IdOf[e] \in DOMAIN index /\ pending[index[IdOf[e]]].acked => e \in done

(* Everything fetched and handed out is acknowledged or recorded. *)
RecordedInv ==
  ~dropped => \A e \in Item :
    e <= fetched /\ e \notin page /\ e \notin done /\ ~OffPage(e) => IdOf[e] \in DOMAIN index

(* An entry's cursor covers nothing that is recorded behind it. *)
OrderInv ==
  ~dropped => \A j \in 1..Len(pending) : \A e \in Item :
    e <= pending[j].cursor =>
      /\ e \notin page
      /\ e \notin done /\ ~OffPage(e) => IdOf[e] \in DOMAIN index /\ index[IdOf[e]] <= j

FetchInv ==
  /\ mark <= fetched /\ \A e \in page : e <= fetched
  /\ \A j \in 1..Len(pending) : pending[j].cursor <= fetched

IndInv ==
  /\ TypeOK /\ IndexInv /\ AckedInv /\ RecordedInv /\ OrderInv /\ FetchInv
  /\ NothingSkipped

(***************************************************************************)
(* The invariant behind SavedForward: the cursors in the queue go up, none *)
(* is behind the mark, the mark is not behind what was saved, and what is  *)
(* left of the page comes after all of them.                               *)
(***************************************************************************)
ForwardInv ==
  /\ saved <= mark
  /\ \A d \in page : mark < d /\ \A j \in 1..Len(pending) : pending[j].cursor < d
  /\ \A j \in 1..Len(pending) : pending[j].cursor # NoCursor =>
       /\ mark <= pending[j].cursor
       /\ \A k \in 1..j : pending[k].cursor <= pending[j].cursor

-----------------------------------------------------------------------------
(* What comments say that the code does not do. *)

(***************************************************************************)
(* "Recorded so the mark can only pass it once it is acked" (LinkedIn and  *)
(* Twitter sources).  It also passes the items of a long backlog that no   *)
(* page held.                                                              *)
(***************************************************************************)
MarkPassesOnlyAcked == \A e \in Item : e <= mark => e \in done
=============================================================================
