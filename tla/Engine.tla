------------------------------- MODULE Engine -------------------------------
(***************************************************************************)
(* The engine of crates/core/src/engine.rs: the prefix store, the start of *)
(* every run, and the owner threads of instances (warm.rs instance_main,   *)
(* v8/instance.rs serve_instance and taint_sweep) that execute it.         *)
(*                                                                         *)
(* A run is started by its connection's demux thread (lookup, acquire,     *)
(* send), executed by an owner thread, and concluded by finish_run: drop   *)
(* the route, release the instance, answer the host.  The demux threads,   *)
(* the owner threads and a dispose from any connection interleave at every *)
(* point where no lock is held.  What a turn of guest code does is chosen  *)
(* freely: the run ends, parks again, or is interrupted mid-JS and taints  *)
(* its instance.                                                           *)
(***************************************************************************)
EXTENDS WarmRegistry, Sequences

CONSTANTS
  Runs,           \* run slots of the host; a slot is reused once answered
  NoInstance,     \* the instance of a run that has none
  Retire          \* RunEvent::Retire, sent by the drop of an InstanceHandle

ASSUME EngineAssumptions ==
  /\ IsFiniteSet(Runs)
  /\ NoInstance \notin Instances
  /\ Retire \notin Runs

VARIABLES
  store,          \* Engine.prefixes: "never", "ready", "broken" or "gone"
  rst,            \* where each run is
  rpfx, rcaps,    \* the prefix and heap lines it asked for
  rinst,          \* the instance it was given
  rplace,         \* "pooled", "cold" or "oneoff": how release gives it back
  rout,           \* its CallOutcome: "clean", "tainted" or "broken"
  thread,         \* where each owner thread is
  chan            \* the instance's one channel: jobs (runs) and Retire

runVars == <<rst, rpfx, rcaps, rinst, rplace, rout>>
vars == <<regVars, store, runVars, thread, chan>>

\* A run in one of these states holds its instance or its one-off slot.
Holding == {"attached", "queued", "live", "ending", "broke", "stranded"}

RunStates == {"idle", "looked", "released", "refused"} \cup Holding

ThreadStates == {"gone", "boot", "serve", "retiring", "coldfail", "coldbroken",
                 "sweep", "closing"}

Init ==
  /\ RegInit
  /\ store = [p \in Prefixes |-> "never"]
  /\ rst = [r \in Runs |-> "idle"]
  /\ rpfx = [r \in Runs |-> NoPrefix]
  /\ rcaps = [r \in Runs |-> NoCaps]
  /\ rinst = [r \in Runs |-> NoInstance]
  /\ rplace = [r \in Runs |-> "none"]
  /\ rout = [r \in Runs |-> "none"]
  /\ thread = [i \in Instances |-> "gone"]
  /\ chan = [i \in Instances |-> << >>]

\* Runs on instance i that have not given it back.
OnInstance(i) == {r \in Runs : rinst[r] = i /\ rst[r] \in Holding}

\* Those that hold a pooled instance, and those that hold a one-off slot.
Attached(i) == {r \in OnInstance(i) : rplace[r] = "pooled"}

OneoffHolders == {r \in Runs : rplace[r] \in {"cold", "oneoff"} /\ rst[r] \in Holding}

Live(i) == {r \in Runs : rinst[r] = i /\ rst[r] = "live"}

\* The owner thread is inside finish_run for one of its runs.
Finishing(i) == \E r \in Runs : rinst[r] = i /\ rst[r] \in {"ending", "broke", "released"}

\* A thread name nobody refers to.
Unused(i) == thread[i] = "gone" /\ i \notin pool /\ \A r \in Runs : rinst[r] # i

\* Every handle the registry let go of sends Retire, if its thread still
\* receives.
RetireDropped ==
  chan' = [i \in Instances |->
             IF i \in pool \ pool' /\ thread[i] # "gone"
             THEN Append(chan[i], Retire) ELSE chan[i]]

Goto(r, state) == rst' = [rst EXCEPT ![r] = state]
-----------------------------------------------------------------------------
(***************************************************************************)
(* The prefix store.                                                       *)
(***************************************************************************)
\* Engine::prepare: a fresh id, stored unevaluated.
Prepare(p) ==
  /\ store[p] = "never"
  /\ store' = [store EXCEPT ![p] = "ready"]
  /\ UNCHANGED <<regVars, runVars, thread, chan>>

\* Engine::dispose_prefix, from any connection: store and registry under one
\* hold of the store lock.
Dispose(p) ==
  /\ store[p] # "never"
  /\ store' = [store EXCEPT ![p] = "gone"]
  /\ DisposePrefix(p)
  /\ RetireDropped
  /\ UNCHANGED <<runVars, thread>>
-----------------------------------------------------------------------------
(***************************************************************************)
(* Starting a prefix run (Engine::prefix_run).                             *)
(***************************************************************************)
\* The store lookup.  Not ready, or a rebind that validation rejects: the
\* run is refused before anything is taken.
Lookup(r, p, c) ==
  /\ rst[r] = "idle"
  /\ \/ store[p] = "ready" /\ Goto(r, "looked")
     \/ Goto(r, "refused")
  /\ rpfx' = [rpfx EXCEPT ![r] = p]
  /\ rcaps' = [rcaps EXCEPT ![r] = c]
  /\ UNCHANGED <<regVars, store, rinst, rplace, rout, thread, chan>>

\* The run goes on with instance i.
Takes(r, i, place) ==
  /\ Goto(r, "attached")
  /\ rinst' = [rinst EXCEPT ![r] = i]
  /\ rplace' = [rplace EXCEPT ![r] = place]
  /\ UNCHANGED <<rpfx, rcaps, rout>>

Spawns(i) == Unused(i) /\ thread' = [thread EXCEPT ![i] = "boot"]

AcquireExisting(r) ==
  /\ rst[r] = "looked"
  /\ \E u \in Samples, V \in SUBSET Idle, i \in pool :
       /\ \/ AcquireReuse(rpfx[r], rcaps[r], u, V, i)
          \/ \E hot \in SUBSET pool, high \in BOOLEAN :
               AcquireJoin(rpfx[r], rcaps[r], u, V, hot, high, i)
       /\ Takes(r, i, "pooled")
  /\ RetireDropped
  /\ UNCHANGED <<store, thread>>

AcquireNew(r) ==
  /\ rst[r] = "looked"
  /\ \E u \in Samples, V \in SUBSET Idle, i \in Instances :
       /\ Spawns(i)
       /\ \/ \E hot \in SUBSET pool, high \in BOOLEAN :
               /\ AcquireSpawn(rpfx[r], rcaps[r], u, V, hot, high, i)
               /\ Takes(r, i, "pooled")
          \/ /\ AcquireCold(rpfx[r], rcaps[r], u, V)
             /\ Takes(r, i, "cold")
  /\ RetireDropped
  /\ UNCHANGED store

\* Refused by the admission line, or the thread could not be spawned.
AcquireFails(r) ==
  /\ rst[r] = "looked"
  /\ \E u \in Samples, V \in SUBSET Idle :
       \/ AcquireRefused(rpfx[r], rcaps[r], u, V)
       \/ \E hot \in SUBSET pool, high \in BOOLEAN :
            AcquireSpawnFailed(rpfx[r], rcaps[r], u, V, hot, high)
  /\ Goto(r, "refused")
  /\ RetireDropped
  /\ UNCHANGED <<store, rpfx, rcaps, rinst, rplace, rout, thread>>

\* The job goes to the instance; if its thread is gone the demux thread
\* concludes the run itself, as tainted.
SendJob(r) ==
  /\ rst[r] = "attached" /\ rinst[r] # NoInstance
  /\ IF thread[rinst[r]] = "gone"
     THEN /\ Goto(r, "ending")
          /\ rout' = [rout EXCEPT ![r] = "tainted"]
          /\ UNCHANGED chan
     ELSE /\ Goto(r, "queued")
          /\ chan' = [chan EXCEPT ![rinst[r]] = Append(@, r)]
          /\ UNCHANGED rout
  /\ UNCHANGED <<regVars, store, rpfx, rcaps, rinst, rplace, thread>>
-----------------------------------------------------------------------------
(***************************************************************************)
(* One-off runs (Engine::run): a slot, then a worker thread of their own.  *)
(***************************************************************************)
OneoffReserve(r, c) ==
  /\ rst[r] = "idle"
  /\ \E u \in Samples, V \in SUBSET Idle, ok \in BOOLEAN :
       /\ ReserveOneoff(c.hard, u, V, ok)
       /\ Goto(r, IF ok THEN "attached" ELSE "refused")
       /\ rplace' = [rplace EXCEPT ![r] = IF ok THEN "oneoff" ELSE "none"]
  /\ RetireDropped
  /\ UNCHANGED <<store, rpfx, rcaps, rinst, rout, thread>>

\* The worker thread starts and executes.
OneoffStart(r) ==
  /\ rst[r] = "attached" /\ rplace[r] = "oneoff"
  /\ Goto(r, "live")
  /\ UNCHANGED <<regVars, store, rpfx, rcaps, rinst, rplace, rout, thread, chan>>

\* Mutant: the slot is not given back.
OneoffSpawnFailsLeaks(r) ==
  /\ rst[r] = "attached" /\ rplace[r] = "oneoff"
  /\ Goto(r, "refused")
  /\ rplace' = [rplace EXCEPT ![r] = "none"]
  /\ UNCHANGED <<regVars, store, rpfx, rcaps, rinst, rout, thread, chan>>

\* It could not be spawned: the slot goes back, the run is refused.
OneoffSpawnFails(r) ==
  /\ rst[r] = "attached" /\ rplace[r] = "oneoff"
  /\ \E u \in Samples, V \in SUBSET Idle : ReleaseOneoff(TRUE, u, V)
  /\ Goto(r, "refused")
  /\ rplace' = [rplace EXCEPT ![r] = "none"]
  /\ RetireDropped
  /\ UNCHANGED <<store, rpfx, rcaps, rinst, rout, thread>>

OneoffEnds(r) ==
  /\ rst[r] = "live" /\ rplace[r] = "oneoff"
  /\ \E o \in {"clean", "tainted"} : rout' = [rout EXCEPT ![r] = o]
  /\ Goto(r, "ending")
  /\ UNCHANGED <<regVars, store, rpfx, rcaps, rinst, rplace, thread, chan>>
-----------------------------------------------------------------------------
(***************************************************************************)
(* The owner thread of instance i.                                         *)
(***************************************************************************)
\* The next message is the job of run r; it is taken off the channel.
Receives(i, r) ==
  /\ chan[i] # << >> /\ Head(chan[i]) = r
  /\ chan' = [chan EXCEPT ![i] = Tail(@)]

Concludes(r, outcome) ==
  /\ Goto(r, "ending")
  /\ rout' = [rout EXCEPT ![r] = outcome]

\* instance_main's first job, when the isolate or its prefix cannot start:
\* the run fails, and so will every run that joined.  coldbroken: the failure
\* is the prefix's own and repeatable, not the warm-up budget or the heap cap.
ColdFailed(i) == thread[i] \in {"coldfail", "coldbroken"}

ColdStartFails(i, r) ==
  /\ thread[i] = "boot"
  /\ Receives(i, r)
  /\ \/ Concludes(r, "tainted") /\ thread' = [thread EXCEPT ![i] = "coldfail"]
     \/ Concludes(r, "broken") /\ thread' = [thread EXCEPT ![i] = "coldbroken"]
  /\ UNCHANGED <<regVars, store, rpfx, rcaps, rinst, rplace>>

\* The loop after it: the same answer for every queued job; a Retire is
\* skipped, and the thread ends when every sender is gone.
ColdFailNext(i, r) ==
  /\ ColdFailed(i) /\ ~Finishing(i)
  /\ Receives(i, r)
  /\ Concludes(r, IF thread[i] = "coldbroken" THEN "broken" ELSE "tainted")
  /\ UNCHANGED <<regVars, store, rpfx, rcaps, rinst, rplace, thread>>

ColdFailSkips(i) ==
  /\ ColdFailed(i) /\ ~Finishing(i)
  /\ Receives(i, Retire)
  /\ UNCHANGED <<regVars, store, runVars, thread>>

\* Mutant: the thread ends after the first job, without the loop.
ColdFailExitEarly(i) ==
  /\ ColdFailed(i) /\ ~Finishing(i)
  /\ thread' = [thread EXCEPT ![i] = "gone"]
  /\ UNCHANGED <<regVars, store, runVars, chan>>

ColdFailExit(i) ==
  /\ ColdFailed(i) /\ ~Finishing(i)
  /\ chan[i] = << >> /\ i \notin pool /\ OnInstance(i) = {}
  /\ thread' = [thread EXCEPT ![i] = "gone"]
  /\ UNCHANGED <<regVars, store, runVars, chan>>

\* A job's start turn (the first one creates the isolate): the run ends in
\* it, parks, or is interrupted mid-JS and taints the instance.
DispatchJob(i, r) ==
  /\ thread[i] \in {"boot", "serve"} /\ ~Finishing(i)
  /\ Receives(i, r)
  /\ \/ /\ Goto(r, "live") /\ UNCHANGED rout
        /\ thread' = [thread EXCEPT ![i] = "serve"]
     \/ /\ Concludes(r, "clean")
        /\ thread' = [thread EXCEPT ![i] = "serve"]
     \/ /\ Concludes(r, "tainted")
        /\ thread' = [thread EXCEPT ![i] = "sweep"]
  /\ UNCHANGED <<regVars, store, rpfx, rcaps, rinst, rplace>>

\* A turn of a parked run (an event, a timer, a deadline) that ends it.  A
\* turn that parks it again changes nothing here.
TurnEnds(i, r) ==
  /\ thread[i] = "serve" /\ ~Finishing(i)
  /\ r \in Live(i)
  /\ \/ Concludes(r, "clean") /\ UNCHANGED thread
     \/ Concludes(r, "tainted") /\ thread' = [thread EXCEPT ![i] = "sweep"]
  /\ UNCHANGED <<regVars, store, rpfx, rcaps, rinst, rplace, chan>>

\* Mutant: Retire is read and forgotten.
ReceiveRetireIgnored(i) ==
  /\ thread[i] = "serve" /\ ~Finishing(i)
  /\ Receives(i, Retire)
  /\ UNCHANGED <<regVars, store, runVars, thread>>

ReceiveRetire(i) ==
  /\ thread[i] = "serve" /\ ~Finishing(i)
  /\ Receives(i, Retire)
  /\ thread' = [thread EXCEPT ![i] = "retiring"]
  /\ UNCHANGED <<regVars, store, runVars>>

\* Retired and nothing live: serve_instance returns and the isolate drops.
ServeReturns(i) ==
  /\ thread[i] = "retiring" /\ Live(i) = {}
  /\ thread' = [thread EXCEPT ![i] = "closing"]
  /\ UNCHANGED <<regVars, store, runVars, chan>>

\* taint_sweep: first every other live run fails with ERR_INSTANCE_RESET,
SweepLive(i, r) ==
  /\ thread[i] = "sweep" /\ ~Finishing(i)
  /\ r \in Live(i)
  /\ Concludes(r, "tainted")
  /\ UNCHANGED <<regVars, store, rpfx, rcaps, rinst, rplace, thread, chan>>

\* then every queued job, until try_recv finds the channel empty.
SweepQueued(i, r) ==
  /\ thread[i] = "sweep" /\ ~Finishing(i) /\ Live(i) = {}
  /\ Receives(i, r)
  /\ Concludes(r, "tainted")
  /\ UNCHANGED <<regVars, store, rpfx, rcaps, rinst, rplace, thread>>

SweepSkips(i) ==
  /\ thread[i] = "sweep" /\ ~Finishing(i) /\ Live(i) = {}
  /\ Receives(i, Retire)
  /\ UNCHANGED <<regVars, store, runVars, thread>>

\* Mutant: the sweep fails the queued jobs only.
SweepDoneEarly(i) ==
  /\ thread[i] = "sweep" /\ ~Finishing(i)
  /\ chan[i] = << >>
  /\ thread' = [thread EXCEPT ![i] = "closing"]
  /\ UNCHANGED <<regVars, store, runVars, chan>>

SweepDone(i) ==
  /\ thread[i] = "sweep" /\ ~Finishing(i) /\ Live(i) = {}
  /\ chan[i] = << >>
  /\ thread' = [thread EXCEPT ![i] = "closing"]
  /\ UNCHANGED <<regVars, store, runVars, chan>>

\* instance_main returns: the receiver drops, and with it every message that
\* was sent since the last receive.
ThreadEnds(i) ==
  /\ thread[i] = "closing"
  /\ thread' = [thread EXCEPT ![i] = "gone"]
  /\ chan' = [chan EXCEPT ![i] = << >>]
  /\ rst' = [r \in Runs |-> IF \E k \in 1..Len(chan[i]) : chan[i][k] = r
                            THEN "stranded" ELSE rst[r]]
  /\ UNCHANGED <<regVars, store, rpfx, rcaps, rinst, rplace, rout>>
-----------------------------------------------------------------------------
(***************************************************************************)
(* finish_run: the release hook of engine.rs, then the completion.         *)
(***************************************************************************)
\* A deterministic cold-start failure marks a ready prefix broken and drops
\* its instances like a dispose, under one hold of the store lock.
BreakPrefix(r) ==
  /\ rst[r] = "ending" /\ rout[r] = "broken"
  /\ Goto(r, "broke")
  /\ IF store[rpfx[r]] = "ready"
     THEN /\ store' = [store EXCEPT ![rpfx[r]] = "broken"]
          /\ DisposePrefix(rpfx[r])
          /\ RetireDropped
     ELSE UNCHANGED <<regVars, store, chan>>
  /\ UNCHANGED <<rpfx, rcaps, rinst, rplace, rout, thread>>

\* Ready for the second half of the hook.
Releasing(r) ==
  \/ rst[r] = "ending" /\ rout[r] # "broken"
  \/ rst[r] = "broke"

\* Pooled: aliveness is read and the instance released under the store lock.
ReleasePooled(r) ==
  /\ Releasing(r) /\ rplace[r] = "pooled"
  /\ \E u \in Samples, h \in HeapSizes, V \in SUBSET pool :
       Release(rpfx[r], rinst[r], rout[r] # "clean", h,
               store[rpfx[r]] = "ready", u, V)
  /\ Goto(r, "released")
  /\ RetireDropped
  /\ UNCHANGED <<store, rpfx, rcaps, rinst, rplace, rout, thread>>

\* Cold: the handle drops (Retire) before the slot goes back.
ReleaseUnpooled(r) ==
  /\ Releasing(r) /\ rplace[r] \in {"cold", "oneoff"}
  /\ \E u \in Samples, V \in SUBSET Idle : ReleaseOneoff(rout[r] # "clean", u, V)
  /\ Goto(r, "released")
  /\ chan' = [i \in Instances |->
                IF (i \in pool \ pool' \/ i = rinst[r]) /\ thread[i] # "gone"
                THEN Append(chan[i], Retire) ELSE chan[i]]
  /\ UNCHANGED <<store, rpfx, rcaps, rinst, rplace, rout, thread>>

\* The answer goes out and the slot may be used for another run.
Answer(r) ==
  /\ rst[r] \in {"released", "refused"}
  /\ Goto(r, "idle")
  /\ rpfx' = [rpfx EXCEPT ![r] = NoPrefix]
  /\ rcaps' = [rcaps EXCEPT ![r] = NoCaps]
  /\ rinst' = [rinst EXCEPT ![r] = NoInstance]
  /\ rplace' = [rplace EXCEPT ![r] = "none"]
  /\ rout' = [rout EXCEPT ![r] = "none"]
  /\ UNCHANGED <<regVars, store, thread, chan>>
-----------------------------------------------------------------------------
StoreStep == \E p \in Prefixes : Prepare(p) \/ Dispose(p)

StartStep(r) ==
  \/ \E p \in Prefixes, c \in Caps : Lookup(r, p, c)
  \/ AcquireExisting(r)
  \/ AcquireNew(r)
  \/ AcquireFails(r)
  \/ SendJob(r)
  \/ \E c \in Caps : OneoffReserve(r, c)
  \/ OneoffStart(r)
  \/ OneoffSpawnFails(r)

ThreadStep(i) ==
  \/ \E r \in Runs :
       \/ ColdStartFails(i, r)
       \/ ColdFailNext(i, r)
       \/ DispatchJob(i, r)
       \/ TurnEnds(i, r)
       \/ SweepLive(i, r)
       \/ SweepQueued(i, r)
  \/ ColdFailSkips(i)
  \/ ColdFailExit(i)
  \/ ReceiveRetire(i)
  \/ ServeReturns(i)
  \/ SweepSkips(i)
  \/ SweepDone(i)
  \/ ThreadEnds(i)

FinishStep(r) ==
  \/ OneoffEnds(r)
  \/ BreakPrefix(r)
  \/ ReleasePooled(r)
  \/ ReleaseUnpooled(r)
  \/ Answer(r)

Next ==
  \/ StoreStep
  \/ \E r \in Runs : StartStep(r) \/ FinishStep(r)
  \/ \E i \in Instances : ThreadStep(i)

Spec == Init /\ [][Next]_vars

(***************************************************************************)
(* Fairness: every thread that has started something goes on with it.  New *)
(* work (StoreStep, Lookup, OneoffReserve) is the host's choice.  TurnEnds *)
(* and OneoffEnds are fair because every run has a wall limit in the       *)
(* deployments considered: the watchdog ends it mid-turn, the deadline     *)
(* sweep between turns.  The sweep comes before every message the loop     *)
(* delivers, so other runs' work cannot starve it: strong fairness.        *)
(***************************************************************************)
Fairness ==
  /\ \A r \in Runs :
       /\ WF_vars(AcquireExisting(r) \/ AcquireNew(r) \/ AcquireFails(r)
                    \/ SendJob(r) \/ OneoffStart(r) \/ OneoffSpawnFails(r))
       /\ WF_vars(FinishStep(r))
       /\ SF_vars(\E i \in Instances : TurnEnds(i, r))
  /\ \A i \in Instances : WF_vars(ThreadStep(i))

FairSpec == Spec /\ Fairness
-----------------------------------------------------------------------------
(***************************************************************************)
(* Properties.                                                             *)
(***************************************************************************)
\* Every variable has the type its declaration says.
TypeOK ==
  /\ RegTypeOK
  /\ store \in [Prefixes -> {"never", "ready", "broken", "gone"}]
  /\ rst \in [Runs -> RunStates]
  /\ rpfx \in [Runs -> Prefixes \cup {NoPrefix}]
  /\ rcaps \in [Runs -> Caps \cup {NoCaps}]
  /\ rinst \in [Runs -> Instances \cup {NoInstance}]
  /\ rplace \in [Runs -> {"none", "pooled", "cold", "oneoff"}]
  /\ rout \in [Runs -> {"none", "clean", "tainted", "broken"}]
  /\ thread \in [Instances -> ThreadStates]
  /\ chan \in [Instances -> Seq(Runs \cup {Retire})]

\* An instance's in_flight is the number of runs that hold it, and a run that
\* holds a pooled instance finds it still in the pool, under its own prefix and
\* with the heap lines it asked for (acquire and release, on different threads).
InFlightExact ==
  /\ \A i \in pool : inFlight[i] = Cardinality(Attached(i))
  /\ \A i \in Instances : \A r \in Attached(i) :
       i \in pool /\ pfx[i] = rpfx[r] /\ caps[i] = rcaps[r]

\* The maintained counters equal what a recount would give: total is the
\* pooled instances plus the one-off slots, idle_total the idle instances (the
\* debug assertion of stats()), oneoff_running the runs that hold a slot.
LedgerExact ==
  /\ total = Cardinality(pool) + oneoffRunning
  /\ idleTotal = Cardinality(Idle)
  /\ oneoffRunning = Cardinality(OneoffHolders)

\* An instance that will not be reused does not stay: a dead one in the pool
\* still has a run to drop it with.
DeadAreBusy == \A i \in dead : i \in pool /\ inFlight[i] > 0

\* An idle instance is one the next run can really use: its prefix is ready,
\* its owner thread is in its loop, and nothing is pending on its channel.
\* (A dispose or a failed cold start racing a release must not leave one.)
IdleIsUsable ==
  \A i \in Idle : /\ store[pfx[i]] = "ready"
                  /\ thread[i] = "serve"
                  /\ chan[i] = << >>
                  /\ OnInstance(i) = {}

\* Retire follows all work: once it is sent, or received, no run is on the
\* instance, the registry has let go of it and no job can come behind it, so
\* an owner thread's first message is always a job.
RetireIsLast ==
  \A i \in Instances :
    (thread[i] = "retiring" \/ \E k \in 1..Len(chan[i]) : chan[i][k] = Retire) =>
      /\ i \notin pool
      /\ OnInstance(i) = {}
      /\ thread[i] # "boot"
      /\ Len(chan[i]) <= 1

\* The taint sweep leaves nobody behind: an owner thread that has left its
\* loop has no live run, and a run waits in the channel it was sent to.
NoLiveRunOnDeadThread ==
  \A i \in Instances :
    thread[i] \in {"gone", "boot", "coldfail", "coldbroken", "retiring", "closing"} => Live(i) = {}

\* An instance and its owner thread agree on its end: what the registry offers
\* for reuse can serve, a Retire comes behind all work, and a thread that has
\* left its loop leaves no live run (release, taint_sweep, instance_main).
ThreadsServe == IdleIsUsable /\ RetireIsLast /\ NoLiveRunOnDeadThread

\* Evictions, refusals and retirements forced by a memory reading between any
\* two steps leave the registry exact, and while the latch is set no instance
\* joins the pool (pressure_pass, evict_scored, acquire, release).
PressureHolds ==
  /\ [](InFlightExact /\ LedgerExact /\ IdleIsUsable)
  /\ [][shedding' => pool' \subseteq pool]_vars

\* A run that was started is answered, unless its job was dropped with a
\* closing channel (see NoJobStranded).
StartedIsAnswered ==
  \A r \in Runs : rst[r] \in Holding ~> rst[r] \in {"idle", "stranded"}

\* An owner thread whose handle has been dropped exits.
RetiredThreadExits ==
  \A i \in Instances :
    (thread[i] # "gone" /\ i \notin pool /\ OnInstance(i) = {}) ~> thread[i] = "gone"

\* The instances of a disposed prefix all go, for good, except one that a
\* stranded run still pins.
DisposedDrains ==
  \A p \in Prefixes :
    store[p] = "gone" ~>
      [](\A i \in pool : pfx[i] = p => \E r \in Runs : rinst[r] = i /\ rst[r] = "stranded")

\* What the engine lets go of really goes: retired threads exit and a disposed
\* prefix drains (InstanceHandle's drop, dispose_prefix, release).
RetiredDrains == RetiredThreadExits /\ DisposedDrains

\* taint_sweep: "Jobs already queued but never started: answer them instead
\* of letting their callers hang on a dropped channel."
NoJobStranded == \A r \in Runs : rst[r] # "stranded"
=============================================================================
