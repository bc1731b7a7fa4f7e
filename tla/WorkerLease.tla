---------------------------- MODULE WorkerLease ----------------------------
(***************************************************************************)
(* Who runs a workflow: the processes that share a database, their sync    *)
(* loops, lease renewals, stop goroutines, stall supervisors and API       *)
(* handlers (internal/engine/worker, internal/engine/registry, the lease   *)
(* queries of internal/storage/sql, ToggleWorkflow).                       *)
(*                                                                         *)
(* One workflow, not pinned to a worker.  Every process serves the API and *)
(* runs a worker ("standalone" mode).  Engines of one process are numbered *)
(* in order to tell a replacement from the engine it replaces.             *)
(***************************************************************************)
EXTENDS Integers, FiniteSets

CONSTANTS
  Worker,          \* the processes
  None,            \* no worker
  TTL,             \* lease time, in ticks
  MaxRenewFails,   \* maxLeaseRenewalFailures
  MaxEngines,      \* bound: engines of one process at a time
  Kinds,           \* the kinds of fault, operator call and reassignment that happen
  MaxEvents,       \* bound: how many of them
  First,           \* the worker the load favours at first
  StopMayGiveUp    \* whether a stop may time out on an engine that will not end

ASSUME WorkerAssumption ==
  /\ None \notin Worker /\ IsFiniteSet(Worker) /\ Worker # {}
  /\ TTL \in Nat \ {0} /\ MaxRenewFails \in Nat \ {0}
  /\ First \in Worker /\ MaxEngines \in Nat \ {0} /\ MaxEvents \in Nat /\ StopMayGiveUp \in BOOLEAN

Engine == 1..MaxEngines
Loop == 1..2       \* bound: renewal goroutines of one process at a time

VARIABLES
  active, owner, left,   \* the row: active, owner_id, and the ticks until lease_until
  live,                  \* processes that are up
  best,                  \* the worker that load and heartbeats favour
  engine,                \* engine[w][e]: "free", "up", "ending"
  entry,                 \* r.engines[id], 0 when there is none
  sync,                  \* the sync loop: where it is, and what it read
  stopper,               \* the goroutine of stopWorkflow
  loop, slot,            \* leaseRenewalLoop goroutines, and the one in renewCancel
  super,                 \* superviseStall
  api,                   \* a ToggleWorkflow request
  events

row == <<active, owner, left>>
vars == <<row, live, best, engine, entry, sync, stopper, loop, slot, super, api, events>>

SyncIdle == [pc |-> "idle", act |-> FALSE, run |-> FALSE, victim |-> 0, next |-> "idle"]
ThreadIdle == [pc |-> "idle", victim |-> 0]
LoopOff == [pc |-> "off", victim |-> 0, fails |-> 0, cancelled |-> FALSE]

Init ==
  /\ active \in BOOLEAN /\ owner = None /\ left = 0 /\ live = Worker
  /\ best = First
  /\ engine = [w \in Worker |-> [e \in Engine |-> "free"]]
  /\ entry = [w \in Worker |-> 0]
  /\ sync = [w \in Worker |-> SyncIdle]
  /\ stopper = [w \in Worker |-> ThreadIdle]
  /\ loop = [w \in Worker |-> [l \in Loop |-> LoopOff]]
  /\ slot = [w \in Worker |-> 0]
  /\ super = [w \in Worker |-> ThreadIdle]
  /\ api = [w \in Worker |-> ThreadIdle]
  /\ events = 0

Event(kind) == kind \in Kinds /\ events < MaxEvents /\ events' = events + 1

-----------------------------------------------------------------------------
(* The lease queries.                                                      *)

(* A faulty variant: a lease that ran out is not for the taking. *)
CanAcquire_NoExpiry(w) == owner \in {None, w}

CanAcquire(w) == owner = None \/ left = 0 \/ owner = w

Acquire(w) == CanAcquire(w) /\ owner' = w /\ left' = TTL /\ UNCHANGED active

CanRenew(w) == owner = w /\ left > 0

Release(w) ==
  /\ owner' = IF owner = w THEN None ELSE owner
  /\ left' = IF owner = w THEN 0 ELSE left
  /\ UNCHANGED active

-----------------------------------------------------------------------------
(* The registry.                                                           *)

Victims(w) == {sync[w].victim, stopper[w].victim, super[w].victim, api[w].victim}
                \cup {loop[w][l].victim : l \in Loop}

(* StartWorkflow, which refuses while an engine is registered *)
Start(w) ==
  \E e \in Engine :
    /\ engine[w][e] = "free" /\ e \notin Victims(w)
    /\ \A d \in 1..(e - 1) : engine[w][d] # "free" \/ d \in Victims(w)
    /\ engine' = [engine EXCEPT ![w][e] = "up"]
    /\ entry' = [entry EXCEPT ![w] = e]

(* stopEngine, up to the wait: whatever is registered is cancelled. *)
Cancel(w) ==
  engine' = [engine EXCEPT ![w] = [e \in Engine |-> IF e = entry[w] THEN "ending" ELSE @[e]]]

(* The deferred half of stopEngine: only the engine it cancelled is retired. *)
Retire(w, v) == entry' = IF entry[w] = v THEN [entry EXCEPT ![w] = 0] ELSE entry

(* The wait of stopEngine ends: the engine is gone, the 30 s and 2 s it is   *)
(* given are over, or the caller's context is.                             *)
Returns(w, v, ctxDone) ==
  v \in {0} \cup {e \in Engine : engine[w][e] = "free"} \/ StopMayGiveUp \/ ctxDone

(* runWorkflowEngine: the engine ends, and its deferred function removes the *)
(* entry of the workflow.                                                  *)
EngineExit(w, e) ==
  /\ engine[w][e] = "ending"
  /\ engine' = [engine EXCEPT ![w][e] = "free"]
  /\ entry' = [entry EXCEPT ![w] = 0]
  /\ UNCHANGED <<row, live, best, sync, stopper, loop, slot, super, api, events>>

(* The engine fails, or completes and the workflow is marked inactive. *)
EngineReturns(w, e) ==
  /\ engine[w][e] = "up" /\ Event("end")
  /\ engine' = [engine EXCEPT ![w][e] = "ending"]
  /\ active' \in {active, FALSE}
  /\ UNCHANGED <<owner, left, live, best, entry, sync, stopper, loop, slot, super, api>>

-----------------------------------------------------------------------------
(* Renewal.                                                                *)

(* stopLeaseRenewal: whichever loop is registered is cancelled. *)
StopRenewal(w, loops) ==
  /\ loop' = [loop EXCEPT ![w] =
       [l \in Loop |-> IF l = slot[w] /\ loops[l].pc # "off"
                       THEN [loops[l] EXCEPT !.cancelled = TRUE] ELSE loops[l]]]
  /\ slot' = [slot EXCEPT ![w] = 0]

(* startLeaseRenewal: nothing, while a loop is registered. *)
StartRenewal(w) ==
  \/ slot[w] # 0 /\ UNCHANGED <<loop, slot>>
  \/ /\ slot[w] = 0
     /\ \E l \in Loop :
          /\ loop[w][l].pc = "off" /\ \A k \in 1..(l - 1) : loop[w][k].pc # "off"
          /\ loop' = [loop EXCEPT ![w][l] = [LoopOff EXCEPT !.pc = "run"]]
          /\ slot' = [slot EXCEPT ![w] = l]

(* renewLeaseOnce: held, or taken again in place. *)
RenewHeld(w, l) ==
  /\ loop[w][l].pc = "run" /\ ~loop[w][l].cancelled
  /\ \/ CanRenew(w) /\ left' = TTL /\ UNCHANGED <<active, owner>>
     \/ ~CanRenew(w) /\ Acquire(w)
  /\ loop' = [loop EXCEPT ![w][l].fails = 0]
  /\ UNCHANGED <<live, best, engine, entry, sync, stopper, slot, super, api, events>>

StopForLostLease(w, l) ==
  /\ Cancel(w)
  /\ loop' = [loop EXCEPT ![w][l].pc = "stop", ![w][l].victim = entry[w], ![w][l].fails = 0]

RenewLost(w, l) ==
  /\ loop[w][l].pc = "run" /\ ~loop[w][l].cancelled
  /\ ~CanRenew(w) /\ ~CanAcquire(w)
  /\ StopForLostLease(w, l)
  /\ UNCHANGED <<row, live, best, entry, sync, stopper, slot, super, api, events>>

(* A transient error; of a cancelled loop, the call that was under way. *)
RenewError(w, l) ==
  /\ loop[w][l].pc = "run" /\ Event("error")
  /\ \/ /\ loop[w][l].fails + 1 < MaxRenewFails
        /\ loop' = [loop EXCEPT ![w][l].fails = @ + 1]
        /\ UNCHANGED engine
     \/ /\ loop[w][l].fails + 1 = MaxRenewFails
        /\ StopForLostLease(w, l)
  /\ UNCHANGED <<row, live, best, entry, sync, stopper, slot, super, api>>

LoopCancelled(w, l) ==
  /\ loop[w][l].pc = "run" /\ loop[w][l].cancelled
  /\ loop' = [loop EXCEPT ![w][l] = LoopOff]
  /\ UNCHANGED <<row, live, best, engine, entry, sync, stopper, slot, super, api, events>>

(* The rest of stopEngineForLostLease, on the loop's own context. *)
LoopStopped(w, l) ==
  /\ loop[w][l].pc = "stop" /\ Returns(w, loop[w][l].victim, loop[w][l].cancelled)
  /\ Retire(w, loop[w][l].victim)
  /\ StopRenewal(w, [loop[w] EXCEPT ![l] = LoopOff])
  /\ UNCHANGED <<row, live, best, engine, sync, stopper, super, api, events>>

-----------------------------------------------------------------------------
(* The sync loop.                                                          *)

(* ListWorkflows: what a worker is assigned to, owns, or finds active. *)
Listed(w) == active \/ owner = w

(* stopWorkflow, in a goroutine of its own *)
SpawnStop(w) ==
  /\ stopper[w].pc = "idle" /\ Cancel(w)
  /\ stopper' = [stopper EXCEPT ![w] = [pc |-> "stop", victim |-> entry[w]]]

(* What follows once the lease is known to be held. *)
Held(act, run) ==
  IF run THEN [SyncIdle EXCEPT !.pc = "running", !.act = act]
  ELSE IF act THEN [SyncIdle EXCEPT !.pc = "start"] ELSE SyncIdle

(* An assigned worker: whether the row shows that it holds the lease.       *)
Assigned(w) ==
  /\ best = w
  /\ sync' = [sync EXCEPT ![w] =
       IF owner = w /\ left > 0 THEN Held(active, entry[w] # 0)
       ELSE [SyncIdle EXCEPT !.pc = "acquire", !.act = active, !.run = (entry[w] # 0)]]
  /\ UNCHANGED <<stopper, engine>>

(* handleUnassignedWorkflow *)
Unassigned(w) == best # w /\ entry[w] # 0 /\ SpawnStop(w) /\ UNCHANGED sync


(* The row is read.  What it said is acted upon later. *)
SyncRead(w) ==
  /\ sync[w].pc = "idle" /\ w \in live /\ Listed(w)
  /\ Assigned(w) \/ Unassigned(w)
  /\ UNCHANGED <<row, live, best, entry, loop, slot, super, api, events>>

(* ensureLease, when the row that was read does not show the lease *)
SyncAcquire(w) ==
  /\ sync[w].pc = "acquire"
  /\ \/ /\ Acquire(w)
        /\ sync' = [sync EXCEPT ![w] = Held(sync[w].act, sync[w].run)]
        /\ UNCHANGED <<stopper, engine, events>>
     \/ /\ ~CanAcquire(w) /\ UNCHANGED <<row, events>>
        /\ sync' = [sync EXCEPT ![w] = SyncIdle]
        /\ \/ sync[w].run /\ SpawnStop(w)
           \/ ~sync[w].run /\ UNCHANGED <<stopper, engine>>
     \/ /\ Event("error") /\ UNCHANGED row
        /\ sync' = [sync EXCEPT ![w] = SyncIdle]
        /\ \/ sync[w].run /\ SpawnStop(w)
           \/ ~sync[w].run /\ UNCHANGED <<stopper, engine>>
  /\ UNCHANGED <<live, best, entry, loop, slot, super, api>>

SyncStop(w, next) ==
  /\ Cancel(w)
  /\ sync' = [sync EXCEPT ![w] =
       [SyncIdle EXCEPT !.pc = "stop", !.victim = entry[w], !.next = next]]

(* handleRunningWorkflow: stop it, or restart it for a change of its        *)
(* configuration (an engine that is gone counts as changed).               *)
SyncRunning(w) ==
  /\ sync[w].pc = "running"
  /\ \/ ~sync[w].act /\ SyncStop(w, "release") /\ UNCHANGED events
     \/ sync[w].act /\ entry[w] = 0 /\ SyncStop(w, "start") /\ UNCHANGED events
     \/ sync[w].act /\ entry[w] # 0 /\ SyncStop(w, "start") /\ Event("edit")
     \/ /\ sync[w].act /\ entry[w] # 0
        /\ sync' = [sync EXCEPT ![w] = SyncIdle] /\ UNCHANGED <<engine, events>>
  /\ UNCHANGED <<row, live, best, entry, stopper, loop, slot, super, api>>

(* The stop is over; the renewal loop goes with it, except in StopAll.  A   *)
(* stop for an inactive workflow marks it inactive again.                  *)
SyncStopped(w) ==
  /\ sync[w].pc = "stop" /\ Returns(w, sync[w].victim, FALSE)
  /\ Retire(w, sync[w].victim)
  /\ IF sync[w].next = "drain" THEN UNCHANGED <<loop, slot>> ELSE StopRenewal(w, loop[w])
  /\ active' = (active /\ ~(sync[w].next = "release" /\ sync[w].victim # 0))
  /\ sync' = [sync EXCEPT ![w] = [SyncIdle EXCEPT !.pc = sync[w].next]]
  /\ UNCHANGED <<owner, left, live, best, engine, stopper, super, api, events>>

SyncRelease(w) ==
  /\ sync[w].pc = "release" /\ Release(w)
  /\ sync' = [sync EXCEPT ![w] = SyncIdle]
  /\ UNCHANGED <<live, best, engine, entry, stopper, loop, slot, super, api, events>>

SyncStart(w) ==
  /\ sync[w].pc = "start"
  /\ \/ entry[w] = 0 /\ Start(w) /\ sync' = [sync EXCEPT ![w].pc = "renewal"] /\ UNCHANGED events
     \/ /\ entry[w] # 0 /\ UNCHANGED <<engine, entry, events>>
        /\ sync' = [sync EXCEPT ![w] = SyncIdle]
     \/ /\ entry[w] = 0 /\ Event("error") /\ UNCHANGED <<engine, entry>>
        /\ sync' = [sync EXCEPT ![w] = SyncIdle]
  /\ UNCHANGED <<row, live, best, stopper, loop, slot, super, api>>

SyncRenewal(w) ==
  /\ sync[w].pc = "renewal" /\ StartRenewal(w)
  /\ sync' = [sync EXCEPT ![w] = SyncIdle]
  /\ UNCHANGED <<row, live, best, engine, entry, stopper, super, api, events>>

(* The goroutine of stopWorkflow: the stop, the renewal loop, the lease. *)
StopperStopped(w) ==
  /\ stopper[w].pc = "stop" /\ Returns(w, stopper[w].victim, FALSE)
  /\ Retire(w, stopper[w].victim) /\ StopRenewal(w, loop[w])
  /\ stopper' = [stopper EXCEPT ![w] = [pc |-> "release", victim |-> 0]]
  /\ UNCHANGED <<row, live, best, engine, sync, super, api, events>>

StopperRelease(w) ==
  /\ stopper[w].pc = "release" /\ Release(w)
  /\ stopper' = [stopper EXCEPT ![w] = ThreadIdle]
  /\ UNCHANGED <<live, best, engine, entry, sync, loop, slot, super, api, events>>

-----------------------------------------------------------------------------
(* The supervisor and the API.                                             *)

Stall(w) ==
  /\ super[w].pc = "idle" /\ Event("stall") /\ \E e \in Engine : engine[w][e] = "up"
  /\ super' = [super EXCEPT ![w].pc = "delay"]
  /\ UNCHANGED <<row, live, best, engine, entry, sync, stopper, loop, slot, api>>

(* restartWorkflowEngine, after its random delay *)
SuperStop(w) ==
  /\ super[w].pc = "delay" /\ Cancel(w)
  /\ super' = [super EXCEPT ![w] = [pc |-> "stop", victim |-> entry[w]]]
  /\ UNCHANGED <<row, live, best, entry, sync, stopper, loop, slot, api, events>>

SuperStopped(w) ==
  /\ super[w].pc = "stop" /\ Returns(w, super[w].victim, FALSE)
  /\ Retire(w, super[w].victim)
  /\ super' = [super EXCEPT ![w] = [pc |-> "start", victim |-> 0]]
  /\ UNCHANGED <<row, live, best, engine, sync, stopper, loop, slot, api, events>>

SuperStart(w) ==
  /\ super[w].pc = "start"
  /\ IF entry[w] = 0 THEN Start(w) ELSE UNCHANGED <<engine, entry>>
  /\ super' = [super EXCEPT ![w] = ThreadIdle]
  /\ UNCHANGED <<row, live, best, sync, stopper, loop, slot, api, events>>

(* ToggleWorkflow: an inactive workflow is marked active. *)
ToggleOn(w) ==
  /\ w \in live /\ ~active /\ api[w].pc = "idle" /\ Event("toggle")
  /\ active' = TRUE
  /\ api' = [api EXCEPT ![w].pc = "start"]
  /\ UNCHANGED <<owner, left, live, best, engine, entry, sync, stopper, loop, slot, super>>

(* It is started where the request came, without a lease; if that fails, it *)
(* is marked inactive again.                                               *)
ToggledOn(w) ==
  /\ api[w].pc = "start" /\ api' = [api EXCEPT ![w] = ThreadIdle]
  /\ \/ entry[w] = 0 /\ Start(w) /\ UNCHANGED <<active, events>>
     \/ entry[w] # 0 /\ UNCHANGED <<active, engine, entry, events>>
     \/ entry[w] = 0 /\ Event("error") /\ active' = FALSE /\ UNCHANGED <<engine, entry>>
  /\ UNCHANGED <<owner, left, live, best, sync, stopper, loop, slot, super>>

(* ToggleWorkflow: an active one is stopped there.  Only stopEngine marks it *)
(* inactive, and only when it found an engine to stop.                     *)
ToggleOff(w) ==
  /\ w \in live /\ active /\ api[w].pc = "idle" /\ Event("toggle")
  /\ Cancel(w)
  /\ api' = [api EXCEPT ![w] = [pc |-> "stop", victim |-> entry[w]]]
  /\ UNCHANGED <<row, live, best, entry, sync, stopper, loop, slot, super>>

ToggledOff(w) ==
  /\ api[w].pc = "stop" /\ Returns(w, api[w].victim, FALSE)
  /\ Retire(w, api[w].victim)
  /\ active' = (active /\ api[w].victim = 0)
  /\ api' = [api EXCEPT ![w] = ThreadIdle]
  /\ UNCHANGED <<owner, left, live, best, engine, sync, stopper, loop, slot, super, events>>

-----------------------------------------------------------------------------
(* Shutdown, crash, time and load.                                         *)

Down(w) ==
  /\ live' = live \ {w}
  /\ engine' = [engine EXCEPT ![w] = [e \in Engine |-> "free"]]
  /\ entry' = [entry EXCEPT ![w] = 0]
  /\ sync' = [sync EXCEPT ![w] = SyncIdle]
  /\ stopper' = [stopper EXCEPT ![w] = ThreadIdle]
  /\ loop' = [loop EXCEPT ![w] = [l \in Loop |-> LoopOff]]
  /\ slot' = [slot EXCEPT ![w] = 0]
  /\ super' = [super EXCEPT ![w] = ThreadIdle]
  /\ api' = [api EXCEPT ![w] = ThreadIdle]

Crash(w) == w \in live /\ Event("crash") /\ Down(w) /\ UNCHANGED <<row, best>>

(* cleanup: StopAll, then the leases, then the renewal loops and the process. *)
Shutdown(w) ==
  /\ w \in live /\ sync[w].pc = "idle" /\ Event("shutdown")
  /\ SyncStop(w, "drain")
  /\ UNCHANGED <<row, live, best, entry, stopper, loop, slot, super, api>>

ReleaseAllLeases(w) ==
  /\ sync[w].pc = "drain" /\ Release(w)
  /\ sync' = [sync EXCEPT ![w].pc = "exit"]
  /\ UNCHANGED <<live, best, engine, entry, stopper, loop, slot, super, api, events>>

Exit(w) == sync[w].pc = "exit" /\ Down(w) /\ UNCHANGED <<row, best, events>>

Restart(w) ==
  /\ w \notin live /\ live' = live \cup {w}
  /\ UNCHANGED <<row, best, engine, entry, sync, stopper, loop, slot, super, api, events>>

(* The owner renews the lease, or is about to start doing so. *)
Attended ==
  /\ owner \in live
  /\ \/ slot[owner] # 0 /\ \E l \in Loop : l = slot[owner] /\ loop[owner][l].pc = "run"
     \/ sync[owner].pc \in {"start", "renewal"}

(* A tick.  Storage calls and starts take less than the lease lasts, unless *)
(* they are late.                                                          *)
Tick ==
  /\ left > 0
  /\ IF left = 1 /\ Attended THEN Event("late") ELSE UNCHANGED events
  /\ left' = left - 1
  /\ UNCHANGED <<active, owner, live, best, engine, entry, sync, stopper, loop, slot, super, api>>

(* Load, or the death of a worker, moves the workflow.  All workers agree on *)
(* the best one: the lists of workers they cache are taken to be the same. *)
Rebalance(w) ==
  /\ w \in live /\ best # w /\ best' = w
  /\ IF best \in live THEN Event("move") ELSE UNCHANGED events
  /\ UNCHANGED <<row, live, engine, entry, sync, stopper, loop, slot, super, api>>

Sync(w) ==
  \/ SyncRead(w) \/ SyncAcquire(w) \/ SyncRunning(w) \/ SyncStopped(w)
  \/ SyncRelease(w) \/ SyncStart(w) \/ SyncRenewal(w) \/ ReleaseAllLeases(w) \/ Exit(w)

Renewal(w, l) == RenewHeld(w, l) \/ RenewLost(w, l) \/ LoopCancelled(w, l) \/ LoopStopped(w, l)

Threads(w) ==
  \/ StopperStopped(w) \/ StopperRelease(w)
  \/ SuperStop(w) \/ SuperStopped(w) \/ SuperStart(w) \/ ToggledOn(w) \/ ToggledOff(w)

Next ==
  \/ Tick
  \/ \E w \in Worker :
       \/ Sync(w) \/ Threads(w)
       \/ \E l \in Loop : Renewal(w, l) \/ RenewError(w, l)
       \/ \E e \in Engine : EngineExit(w, e) \/ EngineReturns(w, e)
       \/ Stall(w) \/ ToggleOn(w) \/ ToggleOff(w)
       \/ Crash(w) \/ Shutdown(w) \/ Restart(w) \/ Rebalance(w)

Spec == Init /\ [][Next]_vars

(* Goroutines run, engines that are cancelled end, clocks advance, a process *)
(* that went down is started again, and its workflows move to another.     *)
Fairness ==
  /\ WF_vars(Tick)
  /\ \A w \in Worker :
       /\ WF_vars(Sync(w)) /\ WF_vars(Restart(w))
       /\ WF_vars(best \notin live /\ Rebalance(w))
       /\ WF_vars(StopperStopped(w) \/ StopperRelease(w))
       /\ WF_vars(ToggledOn(w) \/ ToggledOff(w))
       /\ WF_vars(SuperStop(w) \/ SuperStopped(w) \/ SuperStart(w))
       /\ \A l \in Loop : WF_vars(Renewal(w, l))
       /\ \A e \in Engine : WF_vars(EngineExit(w, e))

FairSpec == Spec /\ Fairness

-----------------------------------------------------------------------------
Up(w) == {e \in Engine : engine[w][e] = "up"}

TypeOK ==
  /\ active \in BOOLEAN /\ owner \in Worker \cup {None} /\ left \in 0..TTL
  /\ live \subseteq Worker /\ best \in Worker
  /\ engine \in [Worker -> [Engine -> {"free", "up", "ending"}]]
  /\ entry \in [Worker -> 0..MaxEngines]
  /\ slot \in [Worker -> {0} \cup Loop]
  /\ events \in 0..MaxEvents

(* An engine that nobody has cancelled is the one the registry knows: it    *)
(* can be stopped (stopEngine, registry_workflow.go:1138).                 *)
LiveIsRegistered == \A w \in Worker : Up(w) \subseteq {entry[w]}

Runs(w) == entry[w] \in Up(w)


(* An active workflow runs, whatever fails. *)
ActiveRuns == active ~> (~active \/ \E w \in Worker : Up(w) # {})

(* A worker that the workflow was moved away from renews the lease of an    *)
(* engine that has ended.                                                  *)
Wedged == \E w \in live : owner = w /\ best # w /\ slot[w] # 0 /\ Up(w) = {}

(* An active workflow runs, whatever fails, unless it is wedged. *)
RunsUnlessWedged == active ~> (~active \/ Wedged \/ \E w \in Worker : Up(w) # {})
=============================================================================
