------------------------------- MODULE TwoPC -------------------------------
(***************************************************************************)
(* The two-phase commit coordinator (pkg/engine/twopc/coordinator.go) of   *)
(* one transactional sink group (pkg/comm/sink/txgroup), the durable log   *)
(* it keeps, and the databases behind the group's members as their sinks   *)
(* drive them (pkg/comm/sink/postgres, pkg/comm/sink/mysql).               *)
(*                                                                         *)
(* A step is one call that leaves the process: a write of the log, a       *)
(* statement on a member.  A call may fail, and the process may crash,     *)
(* between any two steps.  The coordinator's mutex makes Run, Recover and  *)
(* Reap exclude each other, so one program counter stands for all three.   *)
(*                                                                         *)
(* Members are numbered by their place in the group's member list, which   *)
(* is the order Run visits them in and the order it records.  A batch is   *)
(* numbered by its start, and its number stands for its TxID and for the   *)
(* per-member transaction IDs, which are fresh UUIDs.                      *)
(***************************************************************************)
EXTENDS Naturals, FiniteSets

CONSTANTS
  N,             \* members that may belong to the group
  MaxTx,         \* bound: batches ever written
  MaxCrashes,    \* bound: crashes of the process
  XA,            \* the members backed by the MySQL sink; the rest use PostgreSQL
  Memberships,   \* the member lists the group may be configured with
  LateSaves,     \* may a log write that reports an error have landed?
  LatePrepares   \* may a PREPARE that reports an error land afterwards?

P  == 1..N
Tx == 1..MaxTx

(***************************************************************************)
(* New and startTxGroup refuse a group of fewer than two members.          *)
(***************************************************************************)
ASSUME TwoPCAssumption ==
  /\ N \in Nat /\ MaxTx \in Nat /\ MaxCrashes \in Nat
  /\ XA \subseteq P
  /\ Memberships \subseteq SUBSET P
  /\ \A M \in Memberships : \E p, q \in M : p # q
  /\ LateSaves \in BOOLEAN /\ LatePrepares \in BOOLEAN

(***************************************************************************)
(* A log record: its State, the participants (Order) and the participants  *)
(* TxIDs still names.  NoRec is an absent key.                             *)
(***************************************************************************)
RecStates == {"absent", "preparing", "prepared", "committing", "aborting"}
Rec == [state : RecStates, order : SUBSET P, txids : SUBSET P]
NoRec == [state |-> "absent", order |-> {}, txids |-> {}]

(***************************************************************************)
(* A batch on one member's database.  "unsure" is a PREPARE that reported  *)
(* an error while the server was still working on it.                      *)
(***************************************************************************)
PartStates == {"none", "open", "unsure", "prepared", "committed", "rolledback"}

Outcomes == {"none", "committed", "rolled_back", "in_doubt"}

PCs == {"down", "idle", "begin", "work", "rollbackOpen", "intent", "name",
        "prepare", "voted", "decide", "abort", "resolve", "shrink", "delete",
        "scan"}

VARIABLES
  log,        \* durable: the record of each batch
  part,       \* the databases: each batch on each member
  sess,       \* each sink's open transaction (PostgresSink.tx, MySQLSink.xa); 0 is none
  live,       \* the members of the running group
  members,    \* history: the members with rows in each batch
  outcome,    \* what the group recorded for each batch (outcomeOf)
  ntx,        \* batches started
  crashes,    \* crashes so far
  stale,      \* records past the coordinator's MaxPreparedAge
  pc, mode,   \* where the coordinator is; inside Run, Recover or Reap
  cur, rec,   \* the batch in hand and the coordinator's copy of its record
  todo,       \* members the current loop has still to visit
  commit,     \* resolve's argument
  unresolved, \* the members resolve could not resolve
  queue,      \* records Recover or Reap has still to visit
  failures    \* the records Recover could not finish

durable  == <<log, part>>
group    == <<live, members, outcome, ntx, crashes, stale>>
control  == <<pc, mode, cur, rec, todo, commit, unresolved, queue, failures>>
vars     == <<durable, sess, group, control>>

(***************************************************************************)
(* The first member a loop over the recorded order has still to visit.     *)
(***************************************************************************)
First(p, S) == p \in S /\ \A q \in S : p <= q

Init ==
  /\ log = [t \in Tx |-> NoRec]
  /\ part = [t \in Tx |-> [p \in P |-> "none"]]
  /\ sess = [p \in P |-> 0]
  /\ live = {}
  /\ members = [t \in Tx |-> {}]
  /\ outcome = [t \in Tx |-> "none"]
  /\ ntx = 0 /\ crashes = 0 /\ stale = {}
  /\ pc = "down" /\ mode = "run" /\ cur = 0 /\ rec = NoRec /\ todo = {}
  /\ commit = FALSE /\ unresolved = {} /\ queue = {} /\ failures = {}

-----------------------------------------------------------------------------
(* Writes of the log (Coordinator.save). *)

SaveOK(r) == log' = [log EXCEPT ![cur] = r]

(* A save that returned an error: the write was lost, or the reply was. *)
SaveErr(r) == UNCHANGED log \/ (LateSaves /\ SaveOK(r))

SetPart(p, s) == part' = [part EXCEPT ![cur][p] = s]

(* resolve walks Order and skips the members TxIDs does not name. *)
Unresolved(r) == r.order \cap r.txids

-----------------------------------------------------------------------------
(* Faulty variants of the definitions below, which the properties tell apart. *)

SaveIntent_NoOrder ==
  /\ pc = "intent"
  /\ rec' = [state |-> "preparing", order |-> {}, txids |-> {}]
  /\ SaveOK(rec') /\ pc' = "name"
  /\ UNCHANGED <<part, sess, group, mode, cur, todo, commit, unresolved,
                 queue, failures>>

SaveName_Unsaved(p) ==
  /\ pc = "name" /\ First(p, todo)
  /\ rec' = [rec EXCEPT !.txids = @ \cup {p}] /\ pc' = "prepare"
  /\ UNCHANGED <<durable, sess, group, mode, cur, todo, commit, unresolved,
                 queue, failures>>

SaveDecision_Unsaved ==
  /\ pc = "decide"
  /\ rec' = [rec EXCEPT !.state = "committing"]
  /\ pc' = "resolve" /\ todo' = Unresolved(rec)
  /\ commit' = TRUE /\ unresolved' = {}
  /\ UNCHANGED <<durable, sess, group, mode, cur, queue, failures>>

RollbackPrepared_Strict(p) ==
  /\ pc = "resolve" /\ ~commit /\ First(p, todo) /\ p \in live
  /\ part[cur][p] = "prepared" /\ SetPart(p, "rolledback")
  /\ pc' = "shrink"
  /\ UNCHANGED <<log, sess, group, mode, cur, rec, todo, commit, unresolved,
                 queue, failures>>

ResolveFail_Silent(p) ==
  /\ pc = "resolve" /\ First(p, todo)
  /\ todo' = todo \ {p}
  /\ UNCHANGED <<durable, sess, group, pc, mode, cur, rec, commit, unresolved,
                 queue, failures>>

ResolveIncomplete_GivesUp ==
  /\ pc = "resolve" /\ todo = {} /\ unresolved # {}
  /\ pc' = "abort"
  /\ UNCHANGED <<durable, sess, group, mode, cur, rec, todo, commit, unresolved,
                 queue, failures>>

RecoverCommits_OnDoubt(r) == r.state \in {"committing", "prepared"}

Reapable_Any(t) == t \in stale

-----------------------------------------------------------------------------
(* WriteBatch and Run. *)

(***************************************************************************)
(* WriteBatch with rows for at least two members: Coordinator.Run.         *)
(***************************************************************************)
Run(A) ==
  /\ pc = "idle" /\ ntx < MaxTx
  /\ A \subseteq live /\ \E p, q \in A : p # q
  /\ ntx' = ntx + 1 /\ cur' = ntx + 1
  /\ members' = [members EXCEPT ![ntx + 1] = A]
  /\ rec' = NoRec /\ todo' = A
  /\ pc' = "begin" /\ mode' = "run"
  /\ UNCHANGED <<durable, sess, live, outcome, crashes, stale, commit,
                 unresolved, queue, failures>>

(***************************************************************************)
(* WriteBatch with rows for one member only: writeMember, which joins the  *)
(* sink's open transaction when it has one (beginExecution; MySQL's        *)
(* currentXA) and commits its own otherwise.  A transaction that already   *)
(* failed refuses the rows.                                                *)
(***************************************************************************)
SoloWrite(p) ==
  /\ pc = "idle" /\ ntx < MaxTx /\ p \in live
  /\ ntx' = ntx + 1
  /\ members' = [members EXCEPT ![ntx + 1] = {p}]
  /\ \/ /\ sess[p] = 0
        /\ part' = [part EXCEPT ![ntx + 1][p] = "committed"]
        /\ outcome' = [outcome EXCEPT ![ntx + 1] = "committed"]
     \/ /\ sess[p] # 0 /\ part[sess[p]][p] = "open"
        /\ part' = [part EXCEPT ![ntx + 1][p] = "open"]
        /\ outcome' = [outcome EXCEPT ![ntx + 1] = "committed"]
     \/ /\ part' = [part EXCEPT ![ntx + 1][p] = "rolledback"]
        /\ outcome' = [outcome EXCEPT ![ntx + 1] = "rolled_back"]
  /\ UNCHANGED <<log, sess, live, crashes, stale, control>>

(***************************************************************************)
(* Begin or BeginNamed on the next participant.  The MySQL sink refuses    *)
(* while a transaction is open on it; the PostgreSQL sink replaces the one *)
(* it holds.  Either may fail.                                             *)
(***************************************************************************)
BeginOK(p) ==
  /\ pc = "begin" /\ First(p, todo)
  /\ p \in XA => sess[p] = 0
  /\ SetPart(p, "open")
  /\ sess' = [sess EXCEPT ![p] = cur]
  /\ todo' = todo \ {p}
  /\ pc' = IF todo = {p} THEN "work" ELSE "begin"
  /\ UNCHANGED <<log, group, mode, cur, rec, commit, unresolved, queue, failures>>

BeginFail ==
  /\ pc = "begin" /\ todo # {}
  /\ todo' = members[cur] \ todo
  /\ pc' = "rollbackOpen"
  /\ UNCHANGED <<durable, sess, group, mode, cur, rec, commit, unresolved,
                 queue, failures>>

(***************************************************************************)
(* work: every active member is handed its rows inside its transaction.    *)
(***************************************************************************)
Work ==
  /\ pc = "work"
  /\ todo' = members[cur]
  /\ pc' \in {"intent", "rollbackOpen"}
  /\ UNCHANGED <<durable, sess, group, mode, cur, rec, commit, unresolved,
                 queue, failures>>

(***************************************************************************)
(* rollbackOpen: Rollback on each of todo.  A failed Rollback still ends   *)
(* the transaction, because the sink drops its connection.                 *)
(***************************************************************************)
RollbackOpen ==
  /\ pc = "rollbackOpen"
  /\ part' = [part EXCEPT ![cur] =
       [p \in P |-> IF p \in todo THEN "rolledback" ELSE @[p]]]
  /\ sess' = [p \in P |-> IF p \in todo THEN 0 ELSE sess[p]]
  /\ outcome' = [outcome EXCEPT ![cur] = "rolled_back"]
  /\ pc' = "idle" /\ todo' = {}
  /\ UNCHANGED <<log, live, members, ntx, crashes, stale, mode, cur, rec,
                 commit, unresolved, queue, failures>>

(***************************************************************************)
(* The record of intent, before the first Prepare.                         *)
(***************************************************************************)
SaveIntent ==
  /\ pc = "intent"
  /\ rec' = [state |-> "preparing", order |-> members[cur], txids |-> {}]
  /\ \/ SaveOK(rec') /\ pc' = "name"
     \/ SaveErr(rec') /\ pc' = "rollbackOpen"
  /\ UNCHANGED <<part, sess, group, mode, cur, todo, commit, unresolved,
                 queue, failures>>

(***************************************************************************)
(* The participant's transaction ID is recorded before it is asked to      *)
(* prepare under it.                                                       *)
(***************************************************************************)
SaveName(p) ==
  /\ pc = "name" /\ First(p, todo)
  /\ LET named == [rec EXCEPT !.txids = @ \cup {p}] IN
       \/ SaveOK(named) /\ rec' = named /\ pc' = "prepare"
       \/ SaveErr(named) /\ rec' = rec /\ pc' = "abort"
  /\ UNCHANGED <<part, sess, group, mode, cur, todo, commit, unresolved,
                 queue, failures>>

PrepareOK(p) ==
  /\ pc = "prepare" /\ First(p, todo)
  /\ sess[p] = cur
  /\ SetPart(p, "prepared")
  /\ sess' = [sess EXCEPT ![p] = 0]
  /\ todo' = todo \ {p}
  /\ pc' = IF todo = {p} THEN "voted" ELSE "name"
  /\ UNCHANGED <<log, group, mode, cur, rec, commit, unresolved, queue, failures>>

(***************************************************************************)
(* A Prepare that returned an error: the server refused and rolled back,   *)
(* or prepared and the reply was lost, or is still at it.  The MySQL sink  *)
(* has let go of its transaction by then (takeXA), the PostgreSQL sink     *)
(* keeps it.                                                               *)
(***************************************************************************)
PrepareFail(p) ==
  /\ pc = "prepare" /\ First(p, todo)
  /\ \E s \in {"rolledback", "prepared", "unsure"} :
       /\ s = "unsure" => LatePrepares
       /\ SetPart(p, s)
  /\ sess' = IF p \in XA THEN [sess EXCEPT ![p] = 0] ELSE sess
  /\ pc' = "abort"
  /\ UNCHANGED <<log, group, mode, cur, rec, todo, commit, unresolved, queue,
                 failures>>

(***************************************************************************)
(* Every vote is in: the prepared state, stamped with PreparedAt.          *)
(***************************************************************************)
SavePrepared ==
  /\ pc = "voted"
  /\ rec' = [rec EXCEPT !.state = "prepared"]
  /\ \/ SaveOK(rec') /\ pc' = "decide"
     \/ SaveErr(rec') /\ pc' = "abort"
  /\ stale' = stale \ {cur}
  /\ UNCHANGED <<part, sess, live, members, outcome, ntx, crashes, mode, cur,
                 todo, commit, unresolved, queue, failures>>

(***************************************************************************)
(* commitAll: the decision is durable before anyone is told.               *)
(***************************************************************************)
SaveDecision ==
  /\ pc = "decide"
  /\ rec' = [rec EXCEPT !.state = "committing"]
  /\ \/ /\ SaveOK(rec')
        /\ pc' = "resolve" /\ todo' = Unresolved(rec)
        /\ commit' = TRUE /\ unresolved' = {}
     \/ /\ SaveErr(rec')
        /\ pc' = "abort"
        /\ UNCHANGED <<todo, commit, unresolved>>
  /\ UNCHANGED <<part, sess, group, mode, cur, queue, failures>>

(***************************************************************************)
(* abort: the decision to abort is saved, and applied even when it could   *)
(* not be.                                                                 *)
(***************************************************************************)
Abort ==
  /\ pc = "abort"
  /\ rec' = [rec EXCEPT !.state = "aborting"]
  /\ SaveOK(rec') \/ UNCHANGED log
  /\ pc' = "resolve" /\ todo' = Unresolved(rec)
  /\ commit' = FALSE /\ unresolved' = {}
  /\ UNCHANGED <<part, sess, group, mode, cur, queue, failures>>

-----------------------------------------------------------------------------
(* resolve, shared by commitAll, abort, Recover and Reap. *)

(***************************************************************************)
(* CommitPrepared.  A server that does not know the ID answers with an     *)
(* error on both sinks.                                                    *)
(***************************************************************************)
CommitPrepared(p) ==
  /\ pc = "resolve" /\ commit /\ First(p, todo) /\ p \in live
  /\ part[cur][p] = "prepared"
  /\ SetPart(p, "committed")
  /\ pc' = "shrink"
  /\ UNCHANGED <<log, sess, group, mode, cur, rec, todo, commit, unresolved,
                 queue, failures>>

(***************************************************************************)
(* RollbackPrepared.  An ID the server does not know counts as success.    *)
(***************************************************************************)
RollbackPrepared(p) ==
  /\ pc = "resolve" /\ ~commit /\ First(p, todo) /\ p \in live
  /\ IF part[cur][p] = "prepared" THEN SetPart(p, "rolledback") ELSE UNCHANGED part
  /\ pc' = "shrink"
  /\ UNCHANGED <<log, sess, group, mode, cur, rec, todo, commit, unresolved,
                 queue, failures>>

(***************************************************************************)
(* The member is no longer in the group, or its call returned an error,    *)
(* with or without the statement having taken effect.                      *)
(***************************************************************************)
ResolveFail(p) ==
  /\ pc = "resolve" /\ First(p, todo)
  /\ \/ UNCHANGED part
     \/ /\ p \in live /\ part[cur][p] = "prepared"
        /\ SetPart(p, IF commit THEN "committed" ELSE "rolledback")
  /\ todo' = todo \ {p} /\ unresolved' = unresolved \cup {p}
  /\ UNCHANGED <<log, sess, group, pc, mode, cur, rec, commit, queue, failures>>

(***************************************************************************)
(* The resolved member leaves the record; a failed save only warns.        *)
(***************************************************************************)
Shrink(p) ==
  /\ pc = "shrink" /\ First(p, todo)
  /\ rec' = [rec EXCEPT !.txids = @ \ {p}]
  /\ SaveOK(rec') \/ UNCHANGED log
  /\ todo' = todo \ {p} /\ pc' = "resolve"
  /\ UNCHANGED <<part, sess, group, mode, cur, commit, unresolved, queue, failures>>

(***************************************************************************)
(* What Run tells the group, which records it: outcomeOf calls every error *)
(* but ErrCommitIncomplete rolled back.                                    *)
(***************************************************************************)
Report(o) == outcome' = IF mode = "run" THEN [outcome EXCEPT ![cur] = o] ELSE outcome

Leave == pc' = IF mode = "run" THEN "idle" ELSE "scan"

ResolveIncomplete ==
  /\ pc = "resolve" /\ todo = {} /\ unresolved # {}
  /\ Report(IF commit THEN "in_doubt" ELSE "rolled_back")
  /\ Leave
  /\ failures' = IF mode = "recover" THEN failures \cup {cur} ELSE failures
  /\ UNCHANGED <<durable, sess, live, members, ntx, crashes, stale, mode, cur,
                 rec, todo, commit, unresolved, queue>>

ResolveDone ==
  /\ pc = "resolve" /\ todo = {} /\ unresolved = {}
  /\ pc' = "delete"
  /\ UNCHANGED <<durable, sess, group, mode, cur, rec, todo, commit, unresolved,
                 queue, failures>>

DeleteOK ==
  /\ pc = "delete"
  /\ SaveOK(NoRec)
  /\ Report(IF commit THEN "committed" ELSE "rolled_back")
  /\ Leave
  /\ UNCHANGED <<part, sess, live, members, ntx, crashes, stale, mode, cur, rec,
                 todo, commit, unresolved, queue, failures>>

DeleteFail ==
  /\ pc = "delete"
  /\ SaveErr(NoRec)
  /\ Report("rolled_back")
  /\ Leave
  /\ failures' = IF mode = "recover" THEN failures \cup {cur} ELSE failures
  /\ UNCHANGED <<part, sess, live, members, ntx, crashes, stale, mode, cur, rec,
                 todo, commit, unresolved, queue>>

-----------------------------------------------------------------------------
(* Start-up recovery, the reaper, and the process. *)

Records == {t \in Tx : log[t].state # "absent"}

(* Presumed abort: only a durable commit decision commits. *)
RecoverCommits(r) == r.state = "committing"

(***************************************************************************)
(* What a sweep takes up: not a decision to commit, which is unfinished    *)
(* rather than stale, and not a record younger than MaxPreparedAge.        *)
(***************************************************************************)
Reapable(t) == log[t].state # "committing" /\ t \in stale

(***************************************************************************)
(* startTxGroup: the group is built with a configured member list and      *)
(* Recover loads the log before anything is written.                       *)
(***************************************************************************)
Start(M) ==
  /\ pc = "down" /\ M \in Memberships
  /\ live' = M
  /\ pc' = "scan" /\ mode' = "recover" /\ queue' = Records /\ failures' = {}
  /\ UNCHANGED <<durable, sess, members, outcome, ntx, crashes, stale, cur, rec,
                 todo, commit, unresolved>>

(***************************************************************************)
(* The reaper's tick.  A sweep that finds nothing to reap changes nothing. *)
(***************************************************************************)
Reap ==
  /\ pc = "idle"
  /\ \E t \in Records : Reapable(t)
  /\ queue' = {t \in Records : Reapable(t)}
  /\ pc' = "scan" /\ mode' = "reap"
  /\ UNCHANGED <<durable, sess, group, cur, rec, todo, commit, unresolved, failures>>

(***************************************************************************)
(* The next record, oldest first.  The reaper only ever rolls back.        *)
(***************************************************************************)
Visit(t) ==
  /\ pc = "scan" /\ First(t, queue)
  /\ queue' = queue \ {t}
  /\ cur' = t /\ rec' = log[t] /\ todo' = Unresolved(log[t])
  /\ commit' = (mode = "recover" /\ RecoverCommits(log[t]))
  /\ unresolved' = {}
  /\ pc' = "resolve"
  /\ UNCHANGED <<durable, sess, group, mode, failures>>

(***************************************************************************)
(* After the last record: the group serves, unless Recover failed, which   *)
(* keeps the workflow from starting (startTxGroup closes the group).       *)
(***************************************************************************)
ScanDone ==
  /\ pc = "scan" /\ queue = {}
  /\ pc' = IF mode = "recover" /\ failures # {} THEN "down" ELSE "idle"
  /\ UNCHANGED <<durable, sess, group, mode, cur, rec, todo, commit, unresolved,
                 queue, failures>>

(***************************************************************************)
(* The process dies: the sinks' connections go and with them every         *)
(* transaction that was not prepared.  (A stopped workflow leaves the pool *)
(* open, and with it a transaction its sink did not end.)                  *)
(***************************************************************************)
Crash ==
  /\ pc # "down" /\ crashes < MaxCrashes
  /\ crashes' = crashes + 1
  /\ sess' = [p \in P |-> 0]
  /\ part' = [t \in Tx |-> [p \in P |->
                IF part[t][p] = "open" THEN "rolledback" ELSE part[t][p]]]
  /\ pc' = "down" /\ mode' = "run" /\ cur' = 0 /\ rec' = NoRec /\ todo' = {}
  /\ commit' = FALSE /\ unresolved' = {} /\ queue' = {} /\ failures' = {}
  /\ UNCHANGED <<log, live, members, outcome, ntx, stale>>

(* A record grows older than MaxPreparedAge. *)
Age(t) ==
  /\ log[t].state # "absent" /\ t \notin stale
  /\ stale' = stale \cup {t}
  /\ UNCHANGED <<durable, sess, live, members, outcome, ntx, crashes, control>>

(* The server finishes, or drops, a PREPARE its client had given up on. *)
LatePrepare(t, p) ==
  /\ part[t][p] = "unsure"
  /\ \E s \in {"prepared", "rolledback"} : part' = [part EXCEPT ![t][p] = s]
  /\ UNCHANGED <<log, sess, group, control>>

Next ==
  \/ \E A \in SUBSET P : Run(A) \/ Start(A)
  \/ \E p \in P :
       \/ SoloWrite(p) \/ BeginOK(p) \/ SaveName(p) \/ PrepareOK(p)
       \/ PrepareFail(p) \/ CommitPrepared(p) \/ RollbackPrepared(p)
       \/ ResolveFail(p) \/ Shrink(p)
  \/ BeginFail \/ Work \/ RollbackOpen \/ SaveIntent \/ SavePrepared
  \/ SaveDecision \/ Abort \/ ResolveIncomplete \/ ResolveDone \/ DeleteOK
  \/ DeleteFail \/ Reap \/ ScanDone \/ Crash
  \/ \E t \in Tx : Visit(t) \/ Age(t) \/ \E p \in P : LatePrepare(t, p)

Spec == Init /\ [][Next]_vars

-----------------------------------------------------------------------------
(* Fairness. *)

(***************************************************************************)
(* The goroutine that runs the coordinator keeps running, the worker keeps *)
(* restarting the workflow, clocks advance and the reaper's ticker fires.  *)
(***************************************************************************)
Step ==
  \/ \E p \in P : \/ BeginOK(p) \/ SaveName(p) \/ PrepareOK(p) \/ CommitPrepared(p)
                 \/ RollbackPrepared(p) \/ ResolveFail(p) \/ Shrink(p)
  \/ BeginFail \/ Work \/ RollbackOpen \/ SaveIntent \/ SavePrepared
  \/ SaveDecision \/ Abort \/ ResolveIncomplete \/ ResolveDone \/ DeleteOK
  \/ \E t \in Tx : Visit(t)
  \/ ScanDone

(***************************************************************************)
(* No member and no log stays broken for ever: a call that is retried      *)
(* again and again, and could succeed, in the end does.                    *)
(***************************************************************************)
Fairness ==
  /\ WF_vars(Step)
  /\ WF_vars(\E M \in Memberships : Start(M))
  /\ WF_vars(Reap)
  /\ \A t \in Tx : WF_vars(Age(t))
  /\ \A p \in P : /\ SF_vars(CommitPrepared(p)) /\ SF_vars(RollbackPrepared(p))
                 /\ SF_vars(Shrink(p) /\ log'[cur] = rec')
  /\ SF_vars(DeleteOK)

FairSpec == Spec /\ Fairness

-----------------------------------------------------------------------------
(* Properties. *)

TypeOK ==
  /\ log \in [Tx -> Rec]
  /\ part \in [Tx -> [P -> PartStates]]
  /\ sess \in [P -> 0..MaxTx]
  /\ live \subseteq P
  /\ members \in [Tx -> SUBSET P]
  /\ outcome \in [Tx -> Outcomes]
  /\ ntx \in 0..MaxTx /\ crashes \in 0..MaxCrashes /\ stale \subseteq Tx
  /\ pc \in PCs /\ mode \in {"run", "recover", "reap"}
  /\ cur \in 0..MaxTx /\ rec \in Rec /\ todo \subseteq P
  /\ commit \in BOOLEAN /\ unresolved \subseteq P
  /\ queue \subseteq Tx /\ failures \subseteq 0..MaxTx

(***************************************************************************)
(* "Either every participant applied a batch or none did" (package comment *)
(* of twopc): once a member has committed, no other member of the batch    *)
(* can be anything but committed or still holding its vote.                *)
(***************************************************************************)
Atomicity ==
  \A t \in Tx : \A p, q \in members[t] :
    part[t][p] = "committed" => part[t][q] \in {"prepared", "committed"}

(***************************************************************************)
(* No prepared transaction is without a name in the log: whatever crashes  *)
(* or fails, recovery or the reaper can find and resolve it (prepareAll    *)
(* writes the name first; resolve keeps the record until every member      *)
(* answered).                                                              *)
(***************************************************************************)
PreparedIsNamed ==
  \A t \in Tx : \A p \in P : part[t][p] = "prepared" => p \in log[t].txids

(***************************************************************************)
(* A group write recorded as committed is applied on every member.         *)
(***************************************************************************)
GroupCommitIsComplete ==
  \A t \in Tx : outcome[t] = "committed" /\ (\E p, q \in members[t] : p # q)
    => \A p \in members[t] : part[t][p] = "committed"

(***************************************************************************)
(* ErrCommitIncomplete: the decision stands; no member of a batch reported *)
(* in doubt is ever rolled back, by the reaper or by a later recovery.     *)
(***************************************************************************)
InDoubtIsDecided ==
  \A t \in Tx : outcome[t] = "in_doubt" =>
    \A p \in members[t] : part[t][p] \in {"prepared", "committed"}

(***************************************************************************)
(* "The decision is durable before anyone is told" (commitAll): no member  *)
(* leaves its vote for a commit unless the log already says committing.    *)
(***************************************************************************)
DecisionFirst ==
  [][\A t \in Tx : \A p \in P :
       part[t][p] = "prepared" /\ part'[t][p] = "committed"
         => log[t].state = "committing"]_vars

(***************************************************************************)
(* "Past this line the transaction commits" (commitAll): a durable commit  *)
(* decision is never overwritten by another one.                           *)
(***************************************************************************)
DecisionStands ==
  [][\A t \in Tx : log[t].state = "committing"
       => log'[t].state \in {"committing", "absent"}]_vars

(***************************************************************************)
(* A transaction nobody decided to commit does not stay in doubt: recovery *)
(* or the reaper rolls it back and drops its record, even past a record    *)
(* that cannot be resolved.                                                *)
(***************************************************************************)
AbortIsFinished ==
  \A t \in Tx : log[t].state \in {"preparing", "prepared", "aborting"}
              ~> log[t].state \in {"absent", "committing"}

(***************************************************************************)
(* The protocol implements the promise: a member's vote, commit and        *)
(* rollback are the abstract ones.                                         *)
(***************************************************************************)
Abstraction(s) ==
  IF s = "prepared" THEN "voted"
  ELSE IF s = "committed" THEN "applied"
  ELSE IF s = "rolledback" THEN "abandoned" ELSE "working"

Promise == INSTANCE AtomicBatch WITH
  Batch <- Tx, Member <- P, takes <- members,
  at <- [t \in Tx |-> [p \in P |-> Abstraction(part[t][p])]]

ImplementsPromise == Promise!Spec

-----------------------------------------------------------------------------
(* The inductive invariant behind the safety properties. *)

NoneCommitted(t) == \A p \in members[t] : part[t][p] # "committed"
AllCommitted(t)  == \A p \in members[t] : part[t][p] = "committed"

(* Batches not yet started have left no trace. *)
FreshInv ==
  /\ cur <= ntx
  /\ \A t \in Tx : t > ntx =>
       log[t] = NoRec /\ members[t] = {} /\ \A p \in P : part[t][p] = "none"

(* A record lists the batch's members; only members have a part in it. *)
RecordInv ==
  \A t \in Tx :
    /\ log[t].txids \subseteq log[t].order
    /\ log[t].state = "absent" => log[t].order = {}
    /\ log[t].state # "absent" => log[t].order = members[t]
    /\ \A p \in P : p \notin members[t] => part[t][p] = "none"

(***************************************************************************)
(* What the log's decision says of the databases: under a commit decision  *)
(* every member still named holds its vote or committed, and every other   *)
(* one committed; under any other record nobody committed; with no record  *)
(* the batch is nowhere or everywhere.                                     *)
(***************************************************************************)
DecisionOf(t) ==
  /\ log[t].state = "committing" =>
       \A p \in members[t] :
         \/ part[t][p] = "committed"
         \/ part[t][p] = "prepared" /\ p \in log[t].txids
  /\ log[t].state \in {"preparing", "prepared", "aborting"} => NoneCommitted(t)
  /\ log[t].state = "absent" => NoneCommitted(t) \/ AllCommitted(t)

DecisionInv == \A t \in Tx : DecisionOf(t)

NamedInv ==
  ~LatePrepares => PreparedIsNamed /\ \A t \in Tx : \A p \in P : part[t][p] # "unsure"

(* The first half of Run: nothing is decided, and the votes are as counted. *)
RunInv ==
  /\ pc \in {"begin", "work", "rollbackOpen", "intent", "name", "prepare",
             "voted", "decide", "abort"} =>
       /\ mode = "run" /\ cur \in Tx
       /\ log[cur].state # "committing" /\ NoneCommitted(cur)
       /\ todo \subseteq members[cur]
  /\ pc \in {"begin", "work", "rollbackOpen", "intent"} =>
       log[cur].txids = {} /\ \A p \in P : part[cur][p] \in {"none", "open"}
  /\ pc = "intent" => todo = members[cur]
  /\ pc \in {"name", "prepare", "voted", "decide", "abort"} =>
       /\ log[cur].state # "absent"
       /\ rec.order = members[cur] /\ rec.txids \subseteq members[cur]
       /\ log[cur].txids = rec.txids
  /\ pc \in {"name", "prepare", "voted", "decide"} =>
       \A p \in members[cur] \ todo : part[cur][p] = "prepared" /\ p \in rec.txids
  /\ pc = "prepare" => \A p \in P : First(p, todo) => p \in rec.txids
  /\ pc \in {"name", "prepare", "voted"} => rec.state = "preparing"
  /\ pc \in {"voted", "decide"} => todo = {}

(* resolve applies the log's decision, and forgets only who was resolved. *)
ResolveInv ==
  /\ pc \in {"resolve", "shrink", "delete"} =>
       /\ cur \in Tx /\ log[cur].state # "absent"
       /\ rec.order = members[cur] /\ rec.state # "absent"
       /\ rec.txids \subseteq log[cur].txids
       /\ todo \subseteq rec.txids
       /\ unresolved = {} => todo = rec.txids
       /\ commit <=> log[cur].state = "committing"
       /\ commit <=> rec.state = "committing"
       /\ commit => \A p \in members[cur] \ rec.txids : part[cur][p] = "committed"
       /\ ~commit /\ ~LatePrepares =>
            \A p \in members[cur] \ rec.txids : part[cur][p] # "prepared"
  /\ pc = "shrink" =>
       \A p \in P : First(p, todo) =>
         IF commit THEN part[cur][p] = "committed"
                   ELSE ~LatePrepares => part[cur][p] # "prepared"
  /\ pc = "delete" => todo = {} /\ unresolved = {}

(* The records Recover or Reap still has to visit are there to be visited. *)
QueueInv ==
  \A t \in queue :
    /\ pc \in {"scan", "resolve", "shrink", "delete"} /\ mode # "run"
    /\ log[t].state # "absent"
    /\ mode = "reap" => log[t].state # "committing"
    /\ pc # "scan" => t # cur

(* What the group recorded stays true. *)
OutcomeOf(t) ==
  /\ outcome[t] = "committed" /\ (\E p, q \in members[t] : p # q) => AllCommitted(t)
  /\ outcome[t] = "in_doubt" => log[t].state = "committing" \/ AllCommitted(t)
  /\ t > ntx => outcome[t] = "none"

OutcomeInv == \A t \in Tx : OutcomeOf(t)

IndInv ==
  /\ TypeOK /\ FreshInv /\ RecordInv /\ DecisionInv /\ NamedInv /\ RunInv
  /\ ResolveInv /\ QueueInv /\ OutcomeInv

-----------------------------------------------------------------------------
(* What comments and documents say that the code does not do. *)

(***************************************************************************)
(* stateCommitting: "Recovery from here commits, however many times it     *)
(* takes".  A group whose members and log answer again does start.         *)
(***************************************************************************)
StartsEventually == []<>(pc = "idle")

(***************************************************************************)
(* OutcomeCommitted: "every member with rows committed them".              *)
(***************************************************************************)
CommittedIsApplied ==
  \A t \in Tx : outcome[t] = "committed" => \A p \in members[t] : part[t][p] = "committed"
=============================================================================
