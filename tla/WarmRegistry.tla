---------------------------- MODULE WarmRegistry ----------------------------
(***************************************************************************)
(* The warm-instance registry of crates/core/src/warm.rs: one mutex around *)
(* every pooled instance, the ledger of live isolates, the memory-pressure *)
(* latch and each prefix's demand statistics.  Every operator below that   *)
(* primes a variable is one critical section of that mutex; Engine.tla     *)
(* says who calls it and when.                                             *)
(*                                                                         *)
(* An instance is named by its owner thread.  The code's ids are a         *)
(* counter and are only compared for equality, so the model reuses the     *)
(* name of a thread that is gone and that nobody refers to any more.       *)
(***************************************************************************)
EXTENDS WarmPolicy

CONSTANTS
  Instances,      \* names of owner threads; bounds how many live at a time
  Prefixes,       \* prefix ids the host may prepare
  NoPrefix,       \* the prefix of an unused instance name
  Caps,           \* the heap-line pairs runs ask for: [soft, hard]
  NoCaps,         \* the caps of an unused instance name
  HeapSizes,      \* heap readings of a finished call
  UsageSamples,   \* readings of the container's memory meter
  Cores,          \* the per-prefix instance ceiling
  Budget,         \* warm_budget_bytes: the shedding mark, 0 disables it
  HardLine,       \* hard_line_bytes: the admission line, 0 disables it
  Allowances,     \* what target_slots may answer
  RecomputeEvery  \* completions between two computations of the allowance

ASSUME RegistryAssumptions ==
  /\ IsFiniteSet(Instances)
  /\ NoPrefix \notin Prefixes
  /\ NoCaps \notin Caps
  /\ Caps \subseteq [soft : Nat, hard : Nat]
  /\ HeapSizes \subseteq Nat \ {0}
  /\ UsageSamples \subseteq Nat
  /\ Cores \in Nat \ {0}
  /\ Budget \in Nat
  /\ HardLine \in Nat
  /\ Cores \in Allowances
  /\ Allowances \subseteq {n \in Nat : n >= Cores}
  /\ RecomputeEvery \in Nat \ {0}

VARIABLES
  entries,        \* keys of RegistryInner.prefixes
  pool,           \* the instances in those entries
  pfx,            \* the entry an instance is in
  caps,           \* Instance.caps
  inFlight,       \* Instance.in_flight
  strikes,        \* Instance.soft_strikes
  dead,           \* the instances whose dead flag is set
  heap,           \* InstanceHandle.heap_used_bytes
  older,          \* <<i, j>>: i's last_used is before j's, both idle
  total,          \* RegistryInner.total
  oneoffRunning,  \* RegistryInner.oneoff_running
  idleTotal,      \* RegistryInner.idle_total
  shedding,       \* RegistryInner.shedding
  lastPass,       \* RegistryInner.last_pass
  heapAvg,        \* demand.heap_bytes per prefix, 0 = not seeded
  cpuSeen,        \* prefixes whose demand.cpu_ms is seeded
  sinceRecompute, \* RegistryInner.releases_since_recompute
  allowance       \* SLOT_ALLOWANCE

poolVars   == <<pool, pfx, caps, inFlight, strikes, dead, heap, older>>
ledgerVars == <<total, oneoffRunning, idleTotal>>
latchVars  == <<shedding, lastPass>>
demandVars == <<heapAvg, cpuSeen, sinceRecompute, allowance>>
regVars    == <<entries, poolVars, ledgerVars, latchVars, demandVars>>

RegInit ==
  /\ entries = {}
  /\ pool = {}
  /\ pfx = [i \in Instances |-> NoPrefix]
  /\ caps = [i \in Instances |-> NoCaps]
  /\ inFlight = [i \in Instances |-> 0]
  /\ strikes = [i \in Instances |-> 0]
  /\ dead = {}
  /\ heap = [i \in Instances |-> 0]
  /\ older = {}
  /\ total = 0 /\ oneoffRunning = 0 /\ idleTotal = 0
  /\ shedding = FALSE /\ lastPass = NoPass
  /\ heapAvg = [p \in Prefixes |-> 0]
  /\ cpuSeen = {}
  /\ sinceRecompute = 0
  /\ allowance = Cores
\* The types of the registry's variables (a conjunct of Engine's TypeOK).
RegTypeOK ==
  /\ entries \subseteq Prefixes
  /\ pool \subseteq Instances
  /\ pfx \in [Instances -> Prefixes \cup {NoPrefix}]
  /\ caps \in [Instances -> Caps \cup {NoCaps}]
  /\ inFlight \in [Instances -> Nat]
  /\ strikes \in [Instances -> 0..255]
  /\ dead \subseteq Instances
  /\ heap \in [Instances -> Nat]
  /\ older \subseteq Instances \X Instances
  /\ total \in Nat /\ oneoffRunning \in Nat /\ idleTotal \in Nat
  /\ shedding \in BOOLEAN /\ lastPass \in Nat \cup {NoPass}
  /\ heapAvg \in [Prefixes -> Nat]
  /\ cpuSeen \subseteq Prefixes
  /\ sinceRecompute \in 0..(RecomputeEvery - 1)
  /\ allowance \in Allowances
-----------------------------------------------------------------------------
Idle == {i \in pool : inFlight[i] = 0 /\ i \notin dead}

Keep(f, S, default) ==
  [i \in Instances |-> IF i \in S THEN f[i] ELSE default]

\* The pool shrinks to S: what the registry knew of the others is gone.
KeepOnly(S) ==
  /\ pool' = S
  /\ pfx' = Keep(pfx, S, NoPrefix)
  /\ caps' = Keep(caps, S, NoCaps)

Order(S) == {pair \in older : pair[1] \in S /\ pair[2] \in S}

\* sample_usage: None when both lines are off or no meter is readable.
Samples == IF Budget = 0 /\ HardLine = 0
           THEN {NoReading} ELSE UsageSamples \cup {NoReading}

\* WarmRegistry::admit.
Admit(usage, cap) ==
  usage = NoReading \/ AdmitIsolate(usage, cap, HardLine, Budget)

\* pressure_pass with the evict_scored walk: V are the instances it drops out
\* of the idle set given, count the maintained number of them.
PressurePass(usage, idle, count, hp, old, V) ==
  LET verdict == WatermarkAction(usage, Budget, shedding, lastPass, count)
  IN IF usage = NoReading
     THEN V = {} /\ shedding' = FALSE /\ lastPass' = NoPass
     ELSE /\ V \in VictimSets(idle, verdict.evict, hp, old)
          /\ shedding' = verdict.shedding
          /\ lastPass' = IF V # {} THEN usage
                         ELSE IF verdict.shedding THEN lastPass ELSE NoPass

\* note_slot_sample: every RecomputeEvery-th completion publishes an allowance.
NoteSlotSample ==
  IF sinceRecompute + 1 < RecomputeEvery
  THEN sinceRecompute' = sinceRecompute + 1 /\ UNCHANGED allowance
  ELSE sinceRecompute' = 0 /\ allowance' \in Allowances

\* Ewma::update, rounded: somewhere between the average and the sample.
Ewma(avg, sample) ==
  IF avg = 0 THEN {sample}
  ELSE avg..sample \cup sample..avg
-----------------------------------------------------------------------------
(***************************************************************************)
(* acquire.  AcquireEnter is its common prefix; V are the victims of the   *)
(* pressure pass, so the rest looks at the instances outside V only.       *)
(***************************************************************************)
AcquireEnter(p, c, usage, V) ==
  /\ PressurePass(usage, Idle, idleTotal, heap, older, V)
  /\ entries' = entries \cup {p}
  /\ heapAvg' = IF heapAvg[p] = 0 THEN [heapAvg EXCEPT ![p] = c.hard] ELSE heapAvg
  /\ UNCHANGED <<cpuSeen, sinceRecompute, allowance>>

LiveOf(p, V) == {i \in pool \ V : pfx[i] = p /\ i \notin dead}

Joinable(p, c, V) == {i \in LiveOf(p, V) : caps[i] = c}

\* Mutant: the fast path takes a busy instance for an idle one.
ReusableBusy(p, c, V) == Joinable(p, c, V)

Reusable(p, c, V) == {i \in Joinable(p, c, V) : inFlight[i] = 0}

Warmest(S) == {i \in S : \A j \in S \ {i} : <<j, i>> \in older}

\* The pool with V evicted and run load n on instance i (a kept or a new one).
Attach(p, c, V, i, n) ==
  /\ pool' = (pool \ V) \cup {i}
  /\ pfx' = [Keep(pfx, pool \ V, NoPrefix) EXCEPT ![i] = p]
  /\ caps' = [Keep(caps, pool \ V, NoCaps) EXCEPT ![i] = c]
  /\ inFlight' = [inFlight EXCEPT ![i] = n]
  /\ strikes' = Keep(strikes, pool \ V, 0)
  /\ heap' = Keep(heap, pool \ V, 0)
  /\ UNCHANGED dead

\* The warmest idle instance with the same caps takes the run.
AcquireReuse(p, c, usage, V, i) ==
  /\ AcquireEnter(p, c, usage, V)
  /\ i \in Warmest(Reusable(p, c, V))
  /\ Attach(p, c, V, i, 1)
  /\ older' = Order(Idle \ (V \cup {i}))
  /\ total' = SatSub(total, Cardinality(V))
  /\ idleTotal' = SatSub(SatSub(idleTotal, Cardinality(V)), 1)
  /\ UNCHANGED oneoffRunning

\* The heap the admission line is asked about for a further instance.
SpawnCap(p, c) == IF heapAvg'[p] = 0 THEN c.hard ELSE heapAvg'[p]

CanSpawn(p, c, usage, V) ==
  /\ ~shedding'
  /\ Cardinality(LiveOf(p, V)) < Cores
  /\ Admit(usage, SpawnCap(p, c))

\* hot are the joinable instances at or over the utilisation target,
\* demandHigh the outcome of the demand comparison.
OpensAnother(p, c, usage, V, hot, demandHigh) ==
  /\ CanSpawn(p, c, usage, V)
  /\ \/ ShouldSpawn(Cardinality(LiveOf(p, V)), Cores, p \in cpuSeen, demandHigh)
     \/ PickJoinTarget(Joinable(p, c, V), inFlight, hot) = {}

JoinTargets(p, c, V, hot) ==
  LET packed == PickJoinTarget(Joinable(p, c, V), inFlight, hot)
  IN IF packed # {} THEN packed ELSE JoinFallback(Joinable(p, c, V))

\* A busy instance takes one more run.
AcquireJoin(p, c, usage, V, hot, demandHigh, i) ==
  /\ AcquireEnter(p, c, usage, V)
  /\ Reusable(p, c, V) = {}
  /\ Joinable(p, c, V) # {}
  /\ hot \subseteq Joinable(p, c, V)
  /\ ~OpensAnother(p, c, usage, V, hot, demandHigh)
  /\ i \in JoinTargets(p, c, V, hot)
  /\ Attach(p, c, V, i, inFlight[i] + 1)
  /\ older' = Order(Idle \ V)
  /\ total' = SatSub(total, Cardinality(V))
  /\ idleTotal' = SatSub(idleTotal, Cardinality(V))
  /\ UNCHANGED oneoffRunning

\* May (and must) this acquire create an isolate?
Creates(p, c, usage, V, hot, demandHigh) ==
  /\ Reusable(p, c, V) = {}
  /\ hot \subseteq Joinable(p, c, V)
  /\ IF Joinable(p, c, V) = {} THEN Admit(usage, c.hard)
     ELSE OpensAnother(p, c, usage, V, hot, demandHigh)

\* The first instance of the prefix, or a further one, joins the pool.
AcquireSpawn(p, c, usage, V, hot, demandHigh, i) ==
  /\ AcquireEnter(p, c, usage, V)
  /\ Creates(p, c, usage, V, hot, demandHigh)
  /\ ~shedding'
  /\ Attach(p, c, V, i, 1)
  /\ older' = Order(Idle \ V)
  /\ total' = SatSub(total, Cardinality(V)) + 1
  /\ idleTotal' = SatSub(idleTotal, Cardinality(V))
  /\ UNCHANGED oneoffRunning

\* Mutant: the maintained idle count misses the evictions.
EvictOnlyUncounted(V) ==
  /\ KeepOnly(pool \ V)
  /\ UNCHANGED <<inFlight, dead, idleTotal>>
  /\ strikes' = Keep(strikes, pool \ V, 0)
  /\ heap' = Keep(heap, pool \ V, 0)
  /\ older' = Order(Idle \ V)

\* What a pass alone does to the pool and its counters.
EvictOnly(V) ==
  /\ KeepOnly(pool \ V)
  /\ UNCHANGED <<inFlight, dead>>
  /\ strikes' = Keep(strikes, pool \ V, 0)
  /\ heap' = Keep(heap, pool \ V, 0)
  /\ older' = Order(Idle \ V)
  /\ idleTotal' = SatSub(idleTotal, Cardinality(V))

\* Shedding with nothing to join: an isolate for this call only.
AcquireCold(p, c, usage, V) ==
  /\ AcquireEnter(p, c, usage, V)
  /\ Joinable(p, c, V) = {}
  /\ Admit(usage, c.hard)
  /\ shedding'
  /\ EvictOnly(V)
  /\ total' = SatSub(total, Cardinality(V)) + 1
  /\ oneoffRunning' = oneoffRunning + 1

\* The admission line refuses the first isolate.
AcquireRefused(p, c, usage, V) ==
  /\ AcquireEnter(p, c, usage, V)
  /\ Joinable(p, c, V) = {}
  /\ ~Admit(usage, c.hard)
  /\ EvictOnly(V)
  /\ total' = SatSub(total, Cardinality(V))
  /\ UNCHANGED oneoffRunning

\* The owner thread could not be spawned; the latch does not matter yet.
AcquireSpawnFailed(p, c, usage, V, hot, demandHigh) ==
  /\ AcquireEnter(p, c, usage, V)
  /\ Creates(p, c, usage, V, hot, demandHigh)
  /\ EvictOnly(V)
  /\ total' = SatSub(total, Cardinality(V))
  /\ UNCHANGED oneoffRunning
-----------------------------------------------------------------------------
\* reserve_oneoff, admitted or refused.
ReserveOneoff(cap, usage, V, ok) ==
  /\ PressurePass(usage, Idle, idleTotal, heap, older, V)
  /\ ok = Admit(usage, cap)
  /\ EvictOnly(V)
  /\ total' = SatSub(total, Cardinality(V)) + (IF ok THEN 1 ELSE 0)
  /\ oneoffRunning' = oneoffRunning + (IF ok THEN 1 ELSE 0)
  /\ UNCHANGED <<entries, demandVars>>

\* release_oneoff: of a one-off run, a cold instance or a failed spawn.
ReleaseOneoff(tainted, usage, V) ==
  /\ PressurePass(usage, Idle, idleTotal, heap, older, V)
  /\ EvictOnly(V)
  /\ total' = SatSub(SatSub(total, 1), Cardinality(V))
  /\ oneoffRunning' = SatSub(oneoffRunning, 1)
  /\ IF tainted THEN UNCHANGED <<sinceRecompute, allowance>> ELSE NoteSlotSample
  /\ UNCHANGED <<entries, heapAvg, cpuSeen>>

(***************************************************************************)
(* release: run r leaves instance i with heap reading h.                   *)
(***************************************************************************)
StrikeOf(i, tainted, h) ==
  IF tainted \/ caps[i].soft = 0
  THEN [strikes |-> strikes[i], retire |-> FALSE]
  ELSE SoftStrike(strikes[i], h > caps[i].soft)

DeadAfter(i, tainted, h, alive) ==
  IF StrikeOf(i, tainted, h).retire \/ tainted \/ ~alive
  THEN dead \cup {i} ELSE dead

Release(p, i, tainted, h, alive, usage, V) ==
  LET left   == SatSub(inFlight[i], 1)
      doomed == DeadAfter(i, tainted, h, alive)
      drops  == i \in doomed /\ left = 0
      idles  == i \notin doomed /\ left = 0
      kept   == IF drops THEN pool \ {i} ELSE pool
      idle   == IF idles THEN Idle \cup {i} ELSE Idle \ {i}
      hp     == IF idles THEN [heap EXCEPT ![i] = h] ELSE heap
      old    == IF idles THEN Order(Idle) \cup {<<j, i>> : j \in Idle} ELSE older
      count  == idleTotal + (IF idles THEN 1 ELSE 0)
      gone   == ~alive /\ \A j \in kept : pfx[j] # p
  IN /\ PressurePass(usage, idle, count, hp, old, V)
     /\ KeepOnly(kept \ V)
     /\ inFlight' = [inFlight EXCEPT ![i] = left]
     /\ dead' = (IF drops THEN doomed \ {i} ELSE doomed)
     /\ strikes' = Keep([strikes EXCEPT ![i] = StrikeOf(i, tainted, h).strikes],
                        kept \ V, 0)
     /\ heap' = Keep(hp, kept \ V, 0)
     /\ older' = {pair \in old : pair[1] \in idle \ V /\ pair[2] \in idle \ V}
     /\ total' = SatSub(SatSub(total, IF drops THEN 1 ELSE 0), Cardinality(V))
     /\ idleTotal' = SatSub(count, Cardinality(V))
     /\ entries' = (IF gone THEN entries \ {p} ELSE entries)
     /\ IF tainted
        THEN /\ heapAvg' = (IF gone THEN [heapAvg EXCEPT ![p] = 0] ELSE heapAvg)
             /\ UNCHANGED <<sinceRecompute, allowance>>
        ELSE /\ \E a \in Ewma(heapAvg[p], h) :
                  heapAvg' = [heapAvg EXCEPT ![p] = IF gone THEN 0 ELSE a]
             /\ NoteSlotSample
     /\ cpuSeen' = (IF gone THEN cpuSeen \ {p}
                    ELSE IF tainted THEN cpuSeen ELSE cpuSeen \cup {p})
     /\ UNCHANGED oneoffRunning

\* Mutant: dispose only dooms.
DroppableNone(p) == {}

\* The instances of p with no run on them, dead or not.
Droppable(p) == {i \in pool : pfx[i] = p /\ inFlight[i] = 0}

\* dispose_prefix: idle instances drop now, busy ones are doomed.
DisposePrefix(p) ==
  LET mine    == {i \in pool : pfx[i] = p}
      dropped == Droppable(p)
      empty   == mine = dropped
  IN /\ KeepOnly(pool \ dropped)
     /\ dead' = dead \cup (mine \ dropped)
     /\ strikes' = Keep(strikes, pool \ dropped, 0)
     /\ heap' = Keep(heap, pool \ dropped, 0)
     /\ older' = Order(Idle \ mine)
     /\ total' = SatSub(total, Cardinality(dropped))
     /\ idleTotal' = SatSub(idleTotal, Cardinality(dropped))
     /\ entries' = (IF empty THEN entries \ {p} ELSE entries)
     /\ heapAvg' = (IF empty THEN [heapAvg EXCEPT ![p] = 0] ELSE heapAvg)
     /\ cpuSeen' = (IF empty THEN cpuSeen \ {p} ELSE cpuSeen)
     /\ UNCHANGED <<inFlight, oneoffRunning, shedding, lastPass,
                    sinceRecompute, allowance>>
=============================================================================
