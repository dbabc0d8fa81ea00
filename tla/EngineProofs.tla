---------------------------- MODULE EngineProofs ----------------------------
(***************************************************************************)
(* Machine-checked proofs about Engine.                                    *)
(***************************************************************************)
EXTENDS Engine, FiniteSetTheorems, SequenceTheorems, TLAPS

\* A run has a place exactly while it may have to give something back, and a
\* run that acquires knows what it asks for.
RunShape ==
  \A r \in Runs :
    /\ rst[r] \in Holding => rplace[r] # "none"
    /\ rst[r] \in Holding /\ rplace[r] = "pooled" => rinst[r] \in Instances
    /\ rplace[r] = "oneoff" => rinst[r] = NoInstance
    /\ rst[r] \in {"idle", "looked", "refused"} =>
         rplace[r] = "none" /\ rinst[r] = NoInstance
    /\ rst[r] = "looked" => rpfx[r] \in Prefixes /\ rcaps[r] \in Caps

\* A job on a channel belongs to a run queued on that instance, once.
ChanShape ==
  \A i \in Instances : \A k \in 1..Len(chan[i]) :
    chan[i][k] # Retire =>
      /\ rst[chan[i][k]] = "queued"
      /\ rinst[chan[i][k]] = i
      /\ \A j \in 1..Len(chan[i]) : j # k => chan[i][j] # chan[i][k]

\* A pooled instance has a prefix and heap lines.
PoolShape == \A i \in pool : pfx[i] \in Prefixes /\ caps[i] \in Caps

\* The inductive invariant behind the ledger theorem.
LedgerInv ==
  /\ TypeOK
  /\ RunShape
  /\ ChanShape
  /\ PoolShape
  /\ InFlightExact
  /\ LedgerExact
  /\ DeadAreBusy
-----------------------------------------------------------------------------
(***************************************************************************)
(* Facts about the pure helpers.                                           *)
(***************************************************************************)
\* saturating_sub stays in the naturals, and is subtraction when it may be.
LEMMA SatSubNat ==
  ASSUME NEW a \in Nat, NEW b \in Nat
  PROVE  SatSub(a, b) \in Nat /\ (b <= a => SatSub(a, b) = a - b)
BY DEF SatSub

\* Taking a subset out of a finite set takes its size off.
LEMMA CardRemove ==
  ASSUME NEW S, IsFiniteSet(S), NEW V \in SUBSET S
  PROVE  /\ IsFiniteSet(V) /\ IsFiniteSet(S \ V)
         /\ Cardinality(V) \in Nat /\ Cardinality(S) \in Nat
         /\ Cardinality(V) <= Cardinality(S)
         /\ Cardinality(S \ V) = Cardinality(S) - Cardinality(V)
<1>1. IsFiniteSet(V) /\ Cardinality(V) <= Cardinality(S)
  BY FS_Subset
<1>2. S \cap V = V
  OBVIOUS
<1>3. IsFiniteSet(S \ V) /\ Cardinality(S \ V) = Cardinality(S) - Cardinality(S \cap V)
  BY FS_Difference
<1> QED BY <1>1, <1>2, <1>3, FS_CardinalityType

\* What a pressure pass may do: it evicts idle instances only.
LEMMA PassFacts ==
  ASSUME RegTypeOK, RegistryAssumptions,
         NEW u \in Samples, NEW idle, NEW cnt \in Nat, NEW hp, NEW old, NEW V,
         PressurePass(u, idle, cnt, hp, old, V)
  PROVE  /\ V \in SUBSET idle
         /\ shedding' \in BOOLEAN
         /\ lastPass' \in Nat \cup {NoPass}
<1> USE DEF RegTypeOK
<1>1. CASE u = NoReading
  BY <1>1 DEF PressurePass
<1>2. CASE u # NoReading
  <2> DEFINE verdict == WatermarkAction(u, Budget, shedding, lastPass, cnt)
  <2>1. u \in Nat
    BY <1>2, RegistryAssumptions DEF Samples, RegistryAssumptions
  <2>2. verdict.shedding \in BOOLEAN
    BY DEF WatermarkAction
  <2>3. /\ V \in VictimSets(idle, verdict.evict, hp, old)
        /\ shedding' = verdict.shedding
        /\ lastPass' = IF V # {} THEN u
                       ELSE IF verdict.shedding THEN lastPass ELSE NoPass
    BY <1>2 DEF PressurePass
  <2>4. V \in SUBSET idle
    BY <2>3 DEF VictimSets
  <2> QED BY <2>1, <2>2, <2>3, <2>4
<1> QED BY <1>1, <1>2
-----------------------------------------------------------------------------
(***************************************************************************)
(* Typing.                                                                 *)
(***************************************************************************)
\* The idle instances are finitely many, and so is every subset.
LEMMA IdleFinite ==
  ASSUME RegTypeOK
  PROVE  /\ Idle \in SUBSET pool /\ IsFiniteSet(pool) /\ IsFiniteSet(Idle)
         /\ \A V \in SUBSET pool : IsFiniteSet(V) /\ Cardinality(V) \in Nat
<1>1. pool \in SUBSET Instances /\ Idle \in SUBSET pool
  BY DEF RegTypeOK, Idle
<1>2. IsFiniteSet(pool)
  BY <1>1, RegistryAssumptions, FS_Subset DEF RegistryAssumptions
<1>3. \A V \in SUBSET pool : IsFiniteSet(V) /\ Cardinality(V) \in Nat
  BY <1>2, CardRemove
<1> QED BY <1>1, <1>2, <1>3

\* The pool's own variables.
PoolTypeOK ==
  /\ pool \subseteq Instances
  /\ pfx \in [Instances -> Prefixes \cup {NoPrefix}]
  /\ caps \in [Instances -> Caps \cup {NoCaps}]
  /\ inFlight \in [Instances -> Nat]
  /\ strikes \in [Instances -> 0..255]
  /\ dead \subseteq Instances
  /\ heap \in [Instances -> Nat]
  /\ older \subseteq Instances \X Instances

DemandTypeOK ==
  /\ heapAvg \in [Prefixes -> Nat]
  /\ cpuSeen \subseteq Prefixes
  /\ sinceRecompute \in 0..(RecomputeEvery - 1)
  /\ allowance \in Allowances

\* Evicting keeps the types.
LEMMA EvictType ==
  ASSUME RegTypeOK, NEW V \in SUBSET Idle, EvictOnly(V)
  PROVE  PoolTypeOK' /\ idleTotal' \in Nat
<1>1. Cardinality(V) \in Nat
  BY IdleFinite
<1>2. idleTotal' \in Nat
  BY <1>1, SatSubNat DEF RegTypeOK, EvictOnly
<1>3. pool' \subseteq Instances /\ dead' \subseteq Instances
      /\ older' \subseteq Instances \X Instances /\ inFlight' \in [Instances -> Nat]
  BY DEF RegTypeOK, EvictOnly, KeepOnly, Order
<1>4. /\ pfx' \in [Instances -> Prefixes \cup {NoPrefix}]
      /\ caps' \in [Instances -> Caps \cup {NoCaps}]
      /\ strikes' \in [Instances -> 0..255]
      /\ heap' \in [Instances -> Nat]
  BY DEF RegTypeOK, EvictOnly, KeepOnly, Keep
<1> QED BY <1>2, <1>3, <1>4 DEF PoolTypeOK

\* Attaching a run keeps the types.
LEMMA AttachType ==
  ASSUME RegTypeOK, NEW p \in Prefixes, NEW c \in Caps, NEW V, NEW i \in Instances,
         NEW n \in Nat, Attach(p, c, V, i, n), NEW S, older' = Order(S)
  PROVE  PoolTypeOK'
<1>1. pool' \subseteq Instances /\ dead' \subseteq Instances
      /\ older' \subseteq Instances \X Instances /\ inFlight' \in [Instances -> Nat]
  BY DEF RegTypeOK, Attach, Order
<1>2. /\ Keep(pfx, pool \ V, NoPrefix) \in [Instances -> Prefixes \cup {NoPrefix}]
      /\ Keep(caps, pool \ V, NoCaps) \in [Instances -> Caps \cup {NoCaps}]
      /\ Keep(strikes, pool \ V, 0) \in [Instances -> 0..255]
      /\ Keep(heap, pool \ V, 0) \in [Instances -> Nat]
  BY DEF RegTypeOK, Keep
<1> QED BY <1>1, <1>2 DEF PoolTypeOK, Attach

\* The common prefix of acquire keeps the types.
LEMMA EnterType ==
  ASSUME RegTypeOK, NEW p \in Prefixes, NEW c \in Caps, NEW u \in Samples, NEW V,
         AcquireEnter(p, c, u, V)
  PROVE  /\ V \in SUBSET Idle /\ Cardinality(V) \in Nat
         /\ DemandTypeOK' /\ entries' \subseteq Prefixes
         /\ shedding' \in BOOLEAN /\ lastPass' \in Nat \cup {NoPass}
<1>1. PressurePass(u, Idle, idleTotal, heap, older, V) /\ idleTotal \in Nat
  BY DEF AcquireEnter, RegTypeOK
<1>2. /\ V \in SUBSET Idle
      /\ shedding' \in BOOLEAN /\ lastPass' \in Nat \cup {NoPass}
  BY <1>1, PassFacts, RegistryAssumptions
<1>3. Cardinality(V) \in Nat
  BY <1>2, IdleFinite
<1>4. c.hard \in Nat
  BY RegistryAssumptions DEF RegistryAssumptions
<1>5. DemandTypeOK' /\ entries' \subseteq Prefixes
  BY <1>4 DEF RegTypeOK, AcquireEnter, DemandTypeOK
<1> QED BY <1>2, <1>3, <1>5

\* acquire that ends with a run on instance i.
LEMMA AcquireAttachType ==
  ASSUME RegTypeOK, NEW p \in Prefixes, NEW c \in Caps, NEW u \in Samples, NEW V,
         NEW hot, NEW high, NEW i \in Instances,
         \/ AcquireReuse(p, c, u, V, i)
         \/ AcquireJoin(p, c, u, V, hot, high, i)
         \/ AcquireSpawn(p, c, u, V, hot, high, i)
  PROVE  RegTypeOK'
<1>1. AcquireEnter(p, c, u, V)
  BY DEF AcquireReuse, AcquireJoin, AcquireSpawn
<1>2. /\ V \in SUBSET Idle /\ Cardinality(V) \in Nat
      /\ DemandTypeOK' /\ entries' \subseteq Prefixes
      /\ shedding' \in BOOLEAN /\ lastPass' \in Nat \cup {NoPass}
  BY <1>1, EnterType
<1>3. inFlight[i] + 1 \in Nat /\ total \in Nat /\ idleTotal \in Nat /\ oneoffRunning \in Nat
  BY DEF RegTypeOK
<1>4. PoolTypeOK'
  <2>1. CASE AcquireReuse(p, c, u, V, i)
    BY <2>1, AttachType DEF AcquireReuse
  <2>2. CASE AcquireJoin(p, c, u, V, hot, high, i)
    BY <2>2, <1>3, AttachType DEF AcquireJoin
  <2>3. CASE AcquireSpawn(p, c, u, V, hot, high, i)
    BY <2>3, AttachType DEF AcquireSpawn
  <2> QED BY <2>1, <2>2, <2>3
<1>5. total' \in Nat /\ idleTotal' \in Nat /\ oneoffRunning' \in Nat
  <2>1. SatSub(total, Cardinality(V)) \in Nat /\ SatSub(idleTotal, Cardinality(V)) \in Nat
    BY <1>2, <1>3, SatSubNat
  <2>2. SatSub(SatSub(idleTotal, Cardinality(V)), 1) \in Nat
    BY <2>1, SatSubNat
  <2> QED BY <1>3, <2>1, <2>2 DEF AcquireReuse, AcquireJoin, AcquireSpawn
<1> QED BY <1>2, <1>4, <1>5 DEF RegTypeOK, PoolTypeOK, DemandTypeOK

\* acquire that leaves the pool with its victims gone.
LEMMA AcquireEvictType ==
  ASSUME RegTypeOK, NEW p \in Prefixes, NEW c \in Caps, NEW u \in Samples, NEW V,
         NEW hot, NEW high,
         \/ AcquireCold(p, c, u, V)
         \/ AcquireRefused(p, c, u, V)
         \/ AcquireSpawnFailed(p, c, u, V, hot, high)
  PROVE  RegTypeOK'
<1>1. AcquireEnter(p, c, u, V) /\ EvictOnly(V)
  BY DEF AcquireCold, AcquireRefused, AcquireSpawnFailed
<1>2. /\ V \in SUBSET Idle /\ Cardinality(V) \in Nat
      /\ DemandTypeOK' /\ entries' \subseteq Prefixes
      /\ shedding' \in BOOLEAN /\ lastPass' \in Nat \cup {NoPass}
  BY <1>1, EnterType
<1>3. PoolTypeOK' /\ idleTotal' \in Nat
  BY <1>1, <1>2, EvictType
<1>4. total' \in Nat /\ oneoffRunning' \in Nat
  <2>1. total \in Nat /\ oneoffRunning \in Nat
    BY DEF RegTypeOK
  <2>2. SatSub(total, Cardinality(V)) \in Nat
    BY <2>1, <1>2, SatSubNat
  <2> QED BY <2>1, <2>2 DEF AcquireCold, AcquireRefused, AcquireSpawnFailed
<1> QED BY <1>2, <1>3, <1>4 DEF RegTypeOK, PoolTypeOK, DemandTypeOK

\* note_slot_sample keeps its counter below the period.
LEMMA SlotSampleType ==
  ASSUME RegTypeOK, NoteSlotSample
  PROVE  sinceRecompute' \in 0..(RecomputeEvery - 1) /\ allowance' \in Allowances
BY RegistryAssumptions DEF RegTypeOK, NoteSlotSample, RegistryAssumptions

\* The one-off slot operations.
LEMMA OneoffType ==
  ASSUME RegTypeOK, NEW cap, NEW u \in Samples, NEW V, NEW ok \in BOOLEAN,
         NEW tainted,
         ReserveOneoff(cap, u, V, ok) \/ ReleaseOneoff(tainted, u, V)
  PROVE  RegTypeOK' /\ V \in SUBSET Idle
<1>1. PressurePass(u, Idle, idleTotal, heap, older, V) /\ idleTotal \in Nat /\ EvictOnly(V)
  BY DEF ReserveOneoff, ReleaseOneoff, RegTypeOK
<1>2. /\ V \in SUBSET Idle
      /\ shedding' \in BOOLEAN /\ lastPass' \in Nat \cup {NoPass}
  BY <1>1, PassFacts, RegistryAssumptions
<1>3. Cardinality(V) \in Nat
  BY <1>2, IdleFinite
<1>4. PoolTypeOK' /\ idleTotal' \in Nat
  BY <1>1, <1>2, EvictType
<1>5. total' \in Nat /\ oneoffRunning' \in Nat
  <2>1. total \in Nat /\ oneoffRunning \in Nat
    BY DEF RegTypeOK
  <2>2. SatSub(total, Cardinality(V)) \in Nat /\ SatSub(total, 1) \in Nat
        /\ SatSub(oneoffRunning, 1) \in Nat
    BY <2>1, <1>3, SatSubNat
  <2>3. SatSub(SatSub(total, 1), Cardinality(V)) \in Nat
    BY <2>2, <1>3, SatSubNat
  <2> QED BY <2>1, <2>2, <2>3 DEF ReserveOneoff, ReleaseOneoff
<1>6. DemandTypeOK' /\ entries' \subseteq Prefixes
  <2>1. CASE ReserveOneoff(cap, u, V, ok)
    BY <2>1 DEF ReserveOneoff, RegTypeOK, DemandTypeOK, demandVars
  <2>2. CASE ReleaseOneoff(tainted, u, V)
    BY <2>2, SlotSampleType DEF ReleaseOneoff, RegTypeOK, DemandTypeOK
  <2> QED BY <2>1, <2>2
<1> QED BY <1>2, <1>4, <1>5, <1>6 DEF RegTypeOK, PoolTypeOK, DemandTypeOK

\* dispose_prefix.
LEMMA DisposeType ==
  ASSUME RegTypeOK, NEW p, DisposePrefix(p)
  PROVE  RegTypeOK'
<1> DEFINE mine    == {i \in pool : pfx[i] = p}
           dropped == Droppable(p)
<1>1. Cardinality(dropped) \in Nat
  BY IdleFinite DEF Droppable
<1>2. total' \in Nat /\ idleTotal' \in Nat
  BY <1>1, SatSubNat DEF DisposePrefix, RegTypeOK
<1>3. PoolTypeOK'
  BY DEF DisposePrefix, Droppable, RegTypeOK, PoolTypeOK, KeepOnly, Keep, Order
<1>4. DemandTypeOK' /\ entries' \subseteq Prefixes
  BY DEF DisposePrefix, RegTypeOK, DemandTypeOK
<1> QED BY <1>2, <1>3, <1>4 DEF RegTypeOK, PoolTypeOK, DemandTypeOK, DisposePrefix

\* The strike count is a u8.
LEMMA StrikeType ==
  ASSUME RegTypeOK, NEW i \in Instances, NEW tainted, NEW h
  PROVE  StrikeOf(i, tainted, h).strikes \in 0..255
<1>1. strikes[i] \in 0..255
  BY DEF RegTypeOK
<1>2. \A over : SoftStrike(strikes[i], over).strikes \in 0..255
  BY <1>1 DEF SoftStrike
<1> QED BY <1>1, <1>2 DEF StrikeOf

\* release: the victims are idle instances, the released one included.
LEMMA ReleaseType ==
  ASSUME RegTypeOK, NEW p \in Prefixes, NEW i \in pool, NEW tainted, NEW h \in Nat \ {0},
         NEW alive, NEW u \in Samples, NEW V,
         Release(p, i, tainted, h, alive, u, V)
  PROVE  RegTypeOK' /\ V \in SUBSET (Idle \cup {i})
<1> DEFINE left   == SatSub(inFlight[i], 1)
           doomed == DeadAfter(i, tainted, h, alive)
           drops  == i \in doomed /\ left = 0
           idles  == i \notin doomed /\ left = 0
           kept   == IF drops THEN pool \ {i} ELSE pool
           idle   == IF idles THEN Idle \cup {i} ELSE Idle \ {i}
           hp     == IF idles THEN [heap EXCEPT ![i] = h] ELSE heap
           old    == IF idles THEN Order(Idle) \cup {<<j, i>> : j \in Idle} ELSE older
           count  == idleTotal + (IF idles THEN 1 ELSE 0)
           gone   == ~alive /\ \A j \in kept : pfx[j] # p
           sks    == [strikes EXCEPT ![i] = StrikeOf(i, tainted, h).strikes]
<1>1. /\ PressurePass(u, idle, count, hp, old, V)
      /\ KeepOnly(kept \ V)
      /\ inFlight' = [inFlight EXCEPT ![i] = left]
      /\ dead' = (IF drops THEN doomed \ {i} ELSE doomed)
      /\ strikes' = Keep(sks, kept \ V, 0)
      /\ heap' = Keep(hp, kept \ V, 0)
      /\ older' = {pair \in old : pair[1] \in idle \ V /\ pair[2] \in idle \ V}
      /\ total' = SatSub(SatSub(total, IF drops THEN 1 ELSE 0), Cardinality(V))
      /\ idleTotal' = SatSub(count, Cardinality(V))
      /\ entries' = (IF gone THEN entries \ {p} ELSE entries)
      /\ IF tainted
         THEN /\ heapAvg' = (IF gone THEN [heapAvg EXCEPT ![p] = 0] ELSE heapAvg)
              /\ UNCHANGED <<sinceRecompute, allowance>>
         ELSE /\ \E a \in Ewma(heapAvg[p], h) :
                   heapAvg' = [heapAvg EXCEPT ![p] = IF gone THEN 0 ELSE a]
              /\ NoteSlotSample
      /\ cpuSeen' = (IF gone THEN cpuSeen \ {p}
                     ELSE IF tainted THEN cpuSeen ELSE cpuSeen \cup {p})
      /\ UNCHANGED oneoffRunning
  BY DEF Release
<1>2. i \in Instances /\ idleTotal \in Nat /\ total \in Nat /\ inFlight[i] \in Nat
  BY DEF RegTypeOK
<1>3. count \in Nat /\ left \in Nat
  BY <1>2, SatSubNat
<1>4. /\ V \in SUBSET idle
      /\ shedding' \in BOOLEAN /\ lastPass' \in Nat \cup {NoPass}
  <2>1. PressurePass(u, idle, count, hp, old, V)
    BY <1>1
  <2> HIDE DEF idle, count, hp, old
  <2> QED BY <1>3, <2>1, PassFacts, RegistryAssumptions
<1>5. idle \in SUBSET pool /\ idle \in SUBSET (Idle \cup {i})
  BY DEF Idle
<1>6. Cardinality(V) \in Nat
  BY <1>4, <1>5, IdleFinite
<1>7. total' \in Nat /\ idleTotal' \in Nat
  <2>1. SatSub(total, IF drops THEN 1 ELSE 0) \in Nat
    BY <1>2, SatSubNat
  <2> QED BY <1>1, <1>3, <1>6, <2>1, SatSubNat
<1>8. PoolTypeOK'
  <2>1. pool' \subseteq Instances /\ dead' \subseteq Instances
        /\ inFlight' \in [Instances -> Nat]
    BY <1>1, <1>2, <1>3 DEF RegTypeOK, KeepOnly, DeadAfter
  <2>2. /\ pfx' \in [Instances -> Prefixes \cup {NoPrefix}]
        /\ caps' \in [Instances -> Caps \cup {NoCaps}]
    BY <1>1 DEF RegTypeOK, KeepOnly, Keep
  <2>3. sks \in [Instances -> 0..255]
    BY <1>2, StrikeType DEF RegTypeOK
  <2>4. hp \in [Instances -> Nat]
    BY <1>2 DEF RegTypeOK
  <2> HIDE DEF sks, hp
  <2>5. strikes' \in [Instances -> 0..255]
    BY <1>1, <2>3 DEF Keep
  <2>6. heap' \in [Instances -> Nat]
    BY <1>1, <2>4 DEF Keep
  <2>7. old \subseteq Instances \X Instances
    BY <1>2 DEF RegTypeOK, Order, Idle
  <2>8. older' \subseteq Instances \X Instances
    BY <1>1, <2>7
  <2> QED BY <2>1, <2>2, <2>5, <2>6, <2>8 DEF PoolTypeOK
<1>9. DemandTypeOK' /\ entries' \subseteq Prefixes
  <2>1. heapAvg[p] \in Nat
    BY DEF RegTypeOK
  <2>2. Ewma(heapAvg[p], h) \subseteq Nat
    BY <2>1 DEF Ewma
  <2>3. heapAvg' \in [Prefixes -> Nat]
    BY <1>1, <2>2 DEF RegTypeOK
  <2>4. cpuSeen' \subseteq Prefixes /\ entries' \subseteq Prefixes
    BY <1>1 DEF RegTypeOK
  <2>5. sinceRecompute' \in 0..(RecomputeEvery - 1) /\ allowance' \in Allowances
    BY <1>1, SlotSampleType DEF RegTypeOK
  <2> QED BY <2>3, <2>4, <2>5 DEF DemandTypeOK
<1>10. oneoffRunning' \in Nat
  BY <1>1 DEF RegTypeOK
<1> QED BY <1>4, <1>5, <1>7, <1>8, <1>9, <1>10 DEF RegTypeOK, PoolTypeOK, DemandTypeOK
-----------------------------------------------------------------------------
(***************************************************************************)
(* The channels.                                                           *)
(***************************************************************************)
ChanTypeOK == chan \in [Instances -> Seq(Runs \cup {Retire})]

\* A step that at most appends a Retire, and leaves the queued runs alone.
LEMMA ChanGrows ==
  ASSUME TypeOK, ChanShape, chan' \in [Instances -> Seq(Runs \cup {Retire})],
         \A i \in Instances : chan'[i] = chan[i] \/ chan'[i] = Append(chan[i], Retire),
         \A q \in Runs : rst[q] = "queued" => rst'[q] = "queued" /\ rinst'[q] = rinst[q]
  PROVE  ChanShape'
<1> SUFFICES ASSUME NEW i \in Instances, NEW k \in 1..Len(chan'[i]), chan'[i][k] # Retire
             PROVE  /\ rst'[chan'[i][k]] = "queued"
                    /\ rinst'[chan'[i][k]] = i
                    /\ \A j \in 1..Len(chan'[i]) : j # k => chan'[i][j] # chan'[i][k]
  BY DEF ChanShape
<1>1. chan[i] \in Seq(Runs \cup {Retire})
  BY DEF TypeOK
<1>2. CASE chan'[i] = chan[i]
  <2>1. chan[i][k] \in Runs
    BY <1>1, <1>2
  <2> QED BY <1>2, <2>1 DEF ChanShape
<1>3. CASE chan'[i] = Append(chan[i], Retire)
  <2>1. /\ Len(chan'[i]) = Len(chan[i]) + 1
        /\ \A m \in 1..Len(chan[i]) : chan'[i][m] = chan[i][m]
        /\ chan'[i][Len(chan[i]) + 1] = Retire
    BY <1>1, <1>3, AppendProperties
  <2>2. Len(chan[i]) \in Nat
    BY <1>1
  <2>3. k \in 1..Len(chan[i])
    BY <2>1, <2>2
  <2>4. chan[i][k] \in Runs /\ chan'[i][k] = chan[i][k]
    BY <1>1, <2>1, <2>3
  <2>5. /\ rst[chan[i][k]] = "queued"
        /\ rinst[chan[i][k]] = i
        /\ \A j \in 1..Len(chan[i]) : j # k => chan[i][j] # chan[i][k]
    BY <2>3, <2>4 DEF ChanShape
  <2>6. \A j \in 1..Len(chan'[i]) : j # k => chan'[i][j] # chan'[i][k]
    BY <2>1, <2>2, <2>4, <2>5
  <2> QED BY <2>4, <2>5, <2>6
<1> QED BY <1>2, <1>3

\* RetireDropped is such a step.
LEMMA RetireDroppedChan ==
  ASSUME TypeOK, ChanShape, RetireDropped,
         \A q \in Runs : rst[q] = "queued" => rst'[q] = "queued" /\ rinst'[q] = rinst[q]
  PROVE  ChanTypeOK' /\ ChanShape'
<1>1. \A i \in Instances : chan[i] \in Seq(Runs \cup {Retire})
                           /\ Append(chan[i], Retire) \in Seq(Runs \cup {Retire})
  BY AppendProperties DEF TypeOK
<1>2. chan' \in [Instances -> Seq(Runs \cup {Retire})]
  BY <1>1 DEF RetireDropped
<1>3. \A i \in Instances : chan'[i] = chan[i] \/ chan'[i] = Append(chan[i], Retire)
  BY DEF RetireDropped
<1> QED BY <1>2, <1>3, ChanGrows DEF ChanTypeOK

\* So is one that leaves the channels alone.
LEMMA SameChan ==
  ASSUME TypeOK, ChanShape, chan' = chan,
         \A q \in Runs : rst[q] = "queued" => rst'[q] = "queued" /\ rinst'[q] = rinst[q]
  PROVE  ChanTypeOK' /\ ChanShape'
<1>1. chan' \in [Instances -> Seq(Runs \cup {Retire})]
  BY DEF TypeOK
<1>2. \A i \in Instances : chan'[i] = chan[i] \/ chan'[i] = Append(chan[i], Retire)
  OBVIOUS
<1> QED BY <1>1, <1>2, ChanGrows DEF ChanTypeOK

\* A receive: the run it takes off the channel was queued there, and it is on
\* no channel any more.
LEMMA ReceiveChan ==
  ASSUME TypeOK, ChanShape, NEW i \in Instances, NEW m \in Runs \cup {Retire}, Receives(i, m),
         \A q \in Runs : q # m /\ rst[q] = "queued" => rst'[q] = "queued" /\ rinst'[q] = rinst[q]
  PROVE  /\ m \in Runs => rst[m] = "queued" /\ rinst[m] = i
         /\ ChanTypeOK' /\ ChanShape'
<1>1. chan[i] \in Seq(Runs \cup {Retire}) /\ chan[i] # << >>
  BY DEF TypeOK, Receives
<1>2. /\ Len(chan[i]) \in Nat \ {0}
      /\ m = chan[i][1]
      /\ Tail(chan[i]) \in Seq(Runs \cup {Retire})
      /\ Len(Tail(chan[i])) = Len(chan[i]) - 1
      /\ \A k \in 1..Len(Tail(chan[i])) : Tail(chan[i])[k] = chan[i][k + 1]
  BY <1>1, HeadTailProperties DEF Receives
<1>3. chan' = [chan EXCEPT ![i] = Tail(@)]
  BY DEF Receives
<1>4. ChanTypeOK'
  BY <1>2, <1>3 DEF TypeOK, ChanTypeOK
<1>5. m \in Runs => rst[m] = "queued" /\ rinst[m] = i
  BY <1>2, EngineAssumptions DEF ChanShape, EngineAssumptions
<1>6. ASSUME NEW j \in Instances, NEW k \in 1..Len(chan'[j]), chan'[j][k] # Retire
      PROVE  /\ rst'[chan'[j][k]] = "queued"
             /\ rinst'[chan'[j][k]] = j
             /\ \A l \in 1..Len(chan'[j]) : l # k => chan'[j][l] # chan'[j][k]
  <2>0. chan[j] \in Seq(Runs \cup {Retire}) /\ Len(chan[j]) \in Nat
    BY DEF TypeOK
  <2>1. CASE j = i
    <3>1. chan'[j] = Tail(chan[i])
      BY <1>3, <2>1 DEF TypeOK
    <3>2. /\ k + 1 \in 1..Len(chan[i]) /\ chan'[j][k] = chan[i][k + 1]
          /\ \A l \in 1..Len(chan'[j]) :
               l + 1 \in 1..Len(chan[i]) /\ chan'[j][l] = chan[i][l + 1]
      BY <1>2, <3>1
    <3>3. /\ rst[chan[i][k + 1]] = "queued"
          /\ rinst[chan[i][k + 1]] = i
          /\ \A l \in 1..Len(chan[i]) : l # k + 1 => chan[i][l] # chan[i][k + 1]
      BY <1>6, <3>2 DEF ChanShape
    <3>4. chan[i][k + 1] # m /\ chan[i][k + 1] \in Runs
      BY <1>6, <1>1, <1>2, <3>2, <3>3
    <3>5. \A l \in 1..Len(chan'[j]) : l # k => chan'[j][l] # chan'[j][k]
      BY <3>2, <3>3
    <3> QED BY <2>1, <3>2, <3>3, <3>4, <3>5
  <2>2. CASE j # i
    <3>1. chan'[j] = chan[j]
      BY <1>3, <2>2 DEF TypeOK
    <3>2. chan[j][k] \in Runs
      BY <1>6, <2>0, <3>1
    <3>3. /\ rst[chan[j][k]] = "queued" /\ rinst[chan[j][k]] = j
          /\ \A l \in 1..Len(chan[j]) : l # k => chan[j][l] # chan[j][k]
      BY <1>6, <3>1 DEF ChanShape
    <3>4. chan[j][k] # m
      BY <1>5, <2>2, <3>2, <3>3
    <3> QED BY <3>1, <3>2, <3>3, <3>4
  <2> QED BY <2>1, <2>2
<1> QED BY <1>4, <1>5, <1>6 DEF ChanShape

\* A send: run r, on no channel yet, is queued on instance i.
LEMMA SendChan ==
  ASSUME TypeOK, ChanShape, NEW i \in Instances, NEW r \in Runs,
         rst[r] = "attached", rinst[r] = i,
         chan' = [chan EXCEPT ![i] = Append(@, r)], rst' = [rst EXCEPT ![r] = "queued"],
         rinst' = rinst
  PROVE  ChanTypeOK' /\ ChanShape'
<1>1. chan[i] \in Seq(Runs \cup {Retire}) /\ Len(chan[i]) \in Nat
  BY DEF TypeOK
<1>2. /\ Append(chan[i], r) \in Seq(Runs \cup {Retire})
      /\ Len(Append(chan[i], r)) = Len(chan[i]) + 1
      /\ \A k \in 1..Len(chan[i]) : Append(chan[i], r)[k] = chan[i][k]
      /\ Append(chan[i], r)[Len(chan[i]) + 1] = r
  BY <1>1, AppendProperties
<1>3. ChanTypeOK'
  BY <1>2 DEF TypeOK, ChanTypeOK
<1>4. \A j \in Instances : \A k \in 1..Len(chan[j]) :
        chan[j][k] # r /\ (chan[j][k] # Retire => chan[j][k] \in Runs)
  <2> SUFFICES ASSUME NEW j \in Instances, NEW k \in 1..Len(chan[j])
               PROVE  chan[j][k] # r /\ (chan[j][k] # Retire => chan[j][k] \in Runs)
    OBVIOUS
  <2>1. chan[j] \in Seq(Runs \cup {Retire})
    BY DEF TypeOK
  <2> QED BY <2>1, EngineAssumptions DEF ChanShape, EngineAssumptions
<1>5. ASSUME NEW j \in Instances, NEW k \in 1..Len(chan'[j]), chan'[j][k] # Retire
      PROVE  /\ rst'[chan'[j][k]] = "queued"
             /\ rinst'[chan'[j][k]] = j
             /\ \A l \in 1..Len(chan'[j]) : l # k => chan'[j][l] # chan'[j][k]
  <2>1. CASE j # i
    <3>1. chan'[j] = chan[j]
      BY <2>1 DEF TypeOK
    <3> QED BY <1>4, <1>5, <3>1 DEF ChanShape, TypeOK
  <2>2. CASE j = i
    <3>1. chan'[j] = Append(chan[i], r)
      BY <2>2 DEF TypeOK
    <3>4. /\ Len(chan'[j]) = Len(chan[i]) + 1
          /\ \A l \in 1..Len(chan[i]) : chan'[j][l] = chan[i][l]
          /\ chan'[j][Len(chan[i]) + 1] = r
      BY <1>2, <3>1
    <3>2. CASE k = Len(chan[i]) + 1
      BY <1>1, <1>4, <2>2, <3>2, <3>4 DEF TypeOK
    <3>3. CASE k \in 1..Len(chan[i])
      <4>1. /\ chan'[j][k] = chan[i][k] /\ chan[i][k] \in Runs /\ chan[i][k] # r
            /\ rst[chan[i][k]] = "queued" /\ rinst[chan[i][k]] = i
            /\ \A l \in 1..Len(chan[i]) : l # k => chan[i][l] # chan[i][k]
        BY <1>2, <1>4, <1>5, <3>1, <3>3 DEF ChanShape
      <4>2. \A l \in 1..Len(chan'[j]) : l # k => chan'[j][l] # chan'[j][k]
        BY <1>1, <3>4, <4>1
      <4> QED BY <2>2, <4>1, <4>2 DEF TypeOK
    <3> QED BY <1>1, <3>2, <3>3, <3>4
  <2> QED BY <2>1, <2>2
<1> QED BY <1>3, <1>5 DEF ChanShape

\* The receiver drops with its messages; other channels are untouched.
LEMMA EndChan ==
  ASSUME TypeOK, ChanShape, NEW i \in Instances, ThreadEnds(i)
  PROVE  ChanTypeOK' /\ ChanShape'
<1>1. /\ chan' = [chan EXCEPT ![i] = << >>]
      /\ rst' = [r \in Runs |-> IF \E k \in 1..Len(chan[i]) : chan[i][k] = r
                                THEN "stranded" ELSE rst[r]]
      /\ rinst' = rinst
  BY DEF ThreadEnds
<1>2. ChanTypeOK'
  BY <1>1 DEF TypeOK, ChanTypeOK
<1>3. ASSUME NEW j \in Instances, NEW k \in 1..Len(chan'[j]), chan'[j][k] # Retire
      PROVE  /\ rst'[chan'[j][k]] = "queued"
             /\ rinst'[chan'[j][k]] = j
             /\ \A l \in 1..Len(chan'[j]) : l # k => chan'[j][l] # chan'[j][k]
  <2>1. j # i
    <3> SUFFICES ASSUME j = i PROVE FALSE
      OBVIOUS
    <3>1. chan'[j] = << >>
      BY <1>1 DEF TypeOK
    <3> QED BY <1>3, <3>1
  <2>2. chan'[j] = chan[j]
    BY <1>1, <2>1 DEF TypeOK
  <2>3. chan[j] \in Seq(Runs \cup {Retire})
    BY DEF TypeOK
  <2>4. /\ chan[j][k] \in Runs
        /\ rst[chan[j][k]] = "queued" /\ rinst[chan[j][k]] = j
        /\ \A l \in 1..Len(chan[j]) : l # k => chan[j][l] # chan[j][k]
    BY <1>3, <2>2, <2>3 DEF ChanShape
  <2>5. ~ \E m \in 1..Len(chan[i]) : chan[i][m] = chan[j][k]
    <3> SUFFICES ASSUME NEW m \in 1..Len(chan[i]), chan[i][m] = chan[j][k] PROVE FALSE
      OBVIOUS
    <3>1. rinst[chan[i][m]] = i
      BY <1>3, <2>2, <2>4 DEF ChanShape
    <3> QED BY <2>1, <2>4, <3>1
  <2> QED BY <1>1, <2>2, <2>4, <2>5
<1> QED BY <1>2, <1>3 DEF ChanShape
-----------------------------------------------------------------------------
(***************************************************************************)
(* The ledger.                                                             *)
(***************************************************************************)
Ledger == PoolShape /\ InFlightExact /\ LedgerExact /\ DeadAreBusy

\* What a run holds, it holds before and after the step, unchanged: pooled
\* instances only, or anything.
PooledFrame ==
  \A q \in Runs :
    (rst[q] \in Holding /\ rplace[q] = "pooled") \/ (rst'[q] \in Holding /\ rplace'[q] = "pooled") =>
      /\ rst[q] \in Holding /\ rst'[q] \in Holding
      /\ rplace[q] = "pooled" /\ rplace'[q] = "pooled"
      /\ rinst'[q] = rinst[q] /\ rpfx'[q] = rpfx[q] /\ rcaps'[q] = rcaps[q]

RunFrame ==
  \A q \in Runs :
    rst[q] \in Holding \/ rst'[q] \in Holding =>
      /\ rst[q] \in Holding /\ rst'[q] \in Holding
      /\ rplace'[q] = rplace[q]
      /\ rinst'[q] = rinst[q] /\ rpfx'[q] = rpfx[q] /\ rcaps'[q] = rcaps[q]

\* Then every instance has the runs it had, and the one-off slots their holders.
LEMMA FrameFacts ==
  /\ RunFrame => PooledFrame /\ OneoffHolders' = OneoffHolders
  /\ PooledFrame => \A i \in Instances :
       /\ Attached(i)' = Attached(i)
       /\ \A q \in Attached(i) : rpfx'[q] = rpfx[q] /\ rcaps'[q] = rcaps[q]
<1>1. RunFrame => PooledFrame
  BY DEF RunFrame, PooledFrame
<1>2. RunFrame => OneoffHolders' = OneoffHolders
  BY DEF RunFrame, OneoffHolders
<1>3. ASSUME PooledFrame, NEW i \in Instances
      PROVE  /\ Attached(i)' = Attached(i)
             /\ \A q \in Attached(i) : rpfx'[q] = rpfx[q] /\ rcaps'[q] = rcaps[q]
  BY <1>3 DEF PooledFrame, Attached, OnInstance
<1> QED BY <1>1, <1>2, <1>3

\* A step outside the registry.
LEMMA QuietLedger ==
  ASSUME LedgerInv, UNCHANGED regVars, RunFrame
  PROVE  RegTypeOK' /\ Ledger'
<1> USE DEF regVars, poolVars, ledgerVars, latchVars, demandVars
<1>1. RegTypeOK'
  BY DEF LedgerInv, TypeOK, RegTypeOK
<1>2. /\ OneoffHolders' = OneoffHolders
      /\ \A i \in Instances :
           /\ Attached(i)' = Attached(i)
           /\ \A q \in Attached(i) : rpfx'[q] = rpfx[q] /\ rcaps'[q] = rcaps[q]
  BY FrameFacts
<1>3. PoolShape' /\ DeadAreBusy'
  BY DEF LedgerInv, PoolShape, DeadAreBusy
<1>4. InFlightExact'
  BY <1>1, <1>2 DEF LedgerInv, InFlightExact, RegTypeOK
<1>5. Idle' = Idle
  BY DEF Idle
<1>6. LedgerExact'
  BY <1>2, <1>5 DEF LedgerInv, LedgerExact
<1> QED BY <1>1, <1>3, <1>4, <1>6 DEF Ledger

\* The registry lets idle instances go; busy ones may die meanwhile.
LEMMA ShrinkLedger ==
  ASSUME LedgerInv, NEW V \in SUBSET Idle, KeepOnly(pool \ V), inFlight' = inFlight,
         dead \subseteq dead', \A i \in dead' \ dead : i \in pool /\ inFlight[i] # 0,
         idleTotal' = SatSub(idleTotal, Cardinality(V)), PooledFrame
  PROVE  /\ PoolShape' /\ InFlightExact' /\ DeadAreBusy'
         /\ Cardinality(V) \in Nat /\ Cardinality(pool) \in Nat
         /\ Cardinality(V) <= Cardinality(pool)
         /\ Cardinality(pool') = Cardinality(pool) - Cardinality(V)
         /\ idleTotal' = Cardinality(Idle')
<1>1. RegTypeOK /\ PoolShape /\ InFlightExact /\ LedgerExact /\ DeadAreBusy
  BY DEF LedgerInv, TypeOK
<1>2. Idle \in SUBSET pool /\ IsFiniteSet(pool) /\ IsFiniteSet(Idle)
  BY <1>1, IdleFinite
<1>3. /\ Cardinality(V) \in Nat /\ Cardinality(pool) \in Nat /\ Cardinality(Idle) \in Nat
      /\ Cardinality(V) <= Cardinality(pool) /\ Cardinality(V) <= Cardinality(Idle)
      /\ Cardinality(pool \ V) = Cardinality(pool) - Cardinality(V)
      /\ Cardinality(Idle \ V) = Cardinality(Idle) - Cardinality(V)
  BY <1>2, CardRemove
<1>4. /\ pool' = pool \ V
      /\ \A i \in pool' : i \in Instances /\ pfx'[i] = pfx[i] /\ caps'[i] = caps[i]
  BY <1>1 DEF KeepOnly, Keep, RegTypeOK
<1>5. PoolShape'
  BY <1>1, <1>4 DEF PoolShape
<1>6. DeadAreBusy'
  BY <1>1, <1>4 DEF DeadAreBusy, Idle, RegTypeOK
<1>7. Idle' = Idle \ V
  BY <1>1, <1>4 DEF Idle
<1>8. idleTotal' = Cardinality(Idle')
  BY <1>1, <1>3, <1>7, SatSubNat DEF LedgerExact
<1>9. InFlightExact'
  <2>1. \A i \in Instances :
           /\ Attached(i)' = Attached(i)
           /\ \A q \in Attached(i) : rpfx'[q] = rpfx[q] /\ rcaps'[q] = rcaps[q]
    BY FrameFacts
  <2>2. \A i \in V : Attached(i) = {}
    <3> SUFFICES ASSUME NEW i \in V PROVE Attached(i) = {}
      OBVIOUS
    <3>1. IsFiniteSet(Attached(i))
      <4>1. Attached(i) \in SUBSET Runs
        BY DEF Attached, OnInstance
      <4> QED BY <4>1, EngineAssumptions, FS_Subset DEF EngineAssumptions
    <3>2. Cardinality(Attached(i)) = 0
      BY <1>1, <1>2 DEF InFlightExact, Idle
    <3> QED BY <3>1, <3>2, FS_EmptySet
  <2>3. \A i \in pool' : inFlight'[i] = Cardinality(Attached(i)')
    BY <1>1, <1>4, <2>1 DEF InFlightExact
  <2>4. ASSUME NEW i \in Instances, NEW q \in Attached(i)'
        PROVE  i \in pool' /\ pfx'[i] = rpfx'[q] /\ caps'[i] = rcaps'[q]
    BY <1>1, <1>4, <2>1, <2>2 DEF InFlightExact
  <2> QED BY <2>3, <2>4 DEF InFlightExact
<1> QED BY <1>3, <1>4, <1>5, <1>6, <1>8, <1>9

\* dispose_prefix drops idle instances only, and dooms the busy ones.
LEMMA DisposeLedger ==
  ASSUME LedgerInv, NEW p, DisposePrefix(p), RunFrame
  PROVE  RegTypeOK' /\ Ledger'
<1> DEFINE mine    == {i \in pool : pfx[i] = p}
           dropped == Droppable(p)
<1>1. RegTypeOK /\ DeadAreBusy /\ LedgerExact
  BY DEF LedgerInv, TypeOK
<1>2. RegTypeOK'
  BY <1>1, DisposeType
<1>3. dropped \in SUBSET Idle
  BY <1>1 DEF Idle, DeadAreBusy, Droppable
<1>4. /\ KeepOnly(pool \ dropped) /\ inFlight' = inFlight
      /\ dead' = dead \cup (mine \ dropped)
      /\ idleTotal' = SatSub(idleTotal, Cardinality(dropped))
      /\ total' = SatSub(total, Cardinality(dropped))
      /\ oneoffRunning' = oneoffRunning
  BY DEF DisposePrefix
<1>5. dead \subseteq dead' /\ \A i \in dead' \ dead : i \in pool /\ inFlight[i] # 0
  BY <1>4 DEF Droppable
<1>6. PooledFrame /\ OneoffHolders' = OneoffHolders
  BY FrameFacts
<1> HIDE DEF dropped
<1>7. /\ PoolShape' /\ InFlightExact' /\ DeadAreBusy'
      /\ Cardinality(dropped) \in Nat /\ Cardinality(pool) \in Nat
      /\ Cardinality(dropped) <= Cardinality(pool)
      /\ Cardinality(pool') = Cardinality(pool) - Cardinality(dropped)
      /\ idleTotal' = Cardinality(Idle')
  BY <1>3, <1>4, <1>5, <1>6, ShrinkLedger
<1>8. total' = Cardinality(pool') + oneoffRunning'
  BY <1>1, <1>4, <1>7 DEF LedgerExact, RegTypeOK, SatSub
<1> QED BY <1>1, <1>2, <1>4, <1>6, <1>7, <1>8 DEF Ledger, LedgerExact

\* The runs on an instance are finitely many.
LEMMA AttachedFinite ==
  ASSUME NEW i PROVE IsFiniteSet(Attached(i)) /\ Cardinality(Attached(i)) \in Nat
<1>1. Attached(i) \in SUBSET Runs
  BY DEF Attached, OnInstance
<1> QED BY <1>1, EngineAssumptions, FS_Subset, FS_CardinalityType DEF EngineAssumptions

\* acquire puts run r on instance i: an idle one, a busy one or a new one.
LEMMA AttachLedger ==
  ASSUME LedgerInv, NEW r \in Runs, NEW i \in Instances, NEW V \in SUBSET Idle, NEW n,
         NEW p \in Prefixes, NEW c \in Caps, p = rpfx[r], c = rcaps[r],
         rst[r] = "looked", Takes(r, i, "pooled"), Attach(p, c, V, i, n),
         i \notin V, i \notin dead,
         IF i \in pool THEN n = inFlight[i] + 1 /\ pfx[i] = p /\ caps[i] = c
                       ELSE n = 1 /\ \A q \in Runs : rinst[q] # i,
         total' = SatSub(total, Cardinality(V)) + (IF i \in pool THEN 0 ELSE 1),
         IF i \in Idle THEN idleTotal' = SatSub(SatSub(idleTotal, Cardinality(V)), 1)
                       ELSE idleTotal' = SatSub(idleTotal, Cardinality(V)),
         oneoffRunning' = oneoffRunning
  PROVE  Ledger'
<1>1. RegTypeOK /\ PoolShape /\ InFlightExact /\ LedgerExact /\ DeadAreBusy
  BY DEF LedgerInv, TypeOK
<1>2. Idle \in SUBSET pool /\ IsFiniteSet(pool) /\ IsFiniteSet(Idle)
  BY <1>1, IdleFinite
<1>3. /\ Cardinality(V) \in Nat /\ Cardinality(pool) \in Nat /\ Cardinality(Idle) \in Nat
      /\ Cardinality(V) <= Cardinality(pool) /\ Cardinality(V) <= Cardinality(Idle)
      /\ IsFiniteSet(pool \ V) /\ IsFiniteSet(Idle \ V)
      /\ Cardinality(pool \ V) = Cardinality(pool) - Cardinality(V)
      /\ Cardinality(Idle \ V) = Cardinality(Idle) - Cardinality(V)
  BY <1>2, CardRemove
<1>4. /\ pool' = (pool \ V) \cup {i}
      /\ pfx'[i] = p /\ caps'[i] = c
      /\ \A j \in pool' : j # i => pfx'[j] = pfx[j] /\ caps'[j] = caps[j] /\ inFlight'[j] = inFlight[j]
      /\ inFlight'[i] = n /\ dead' = dead
  BY <1>1 DEF Attach, Keep, RegTypeOK
<1>5. /\ rst' = [rst EXCEPT ![r] = "attached"] /\ rinst' = [rinst EXCEPT ![r] = i]
      /\ rplace' = [rplace EXCEPT ![r] = "pooled"] /\ rpfx' = rpfx /\ rcaps' = rcaps
      /\ rst \in [Runs -> RunStates] /\ rinst \in [Runs -> Instances \cup {NoInstance}]
      /\ rplace \in [Runs -> {"none", "pooled", "cold", "oneoff"}]
  BY DEF Takes, Goto, LedgerInv, TypeOK
<1>6. \A j \in pool : inFlight[j] \in Nat /\ j \in Instances
  BY <1>1 DEF RegTypeOK
<1>7. n \in Nat \ {0}
  BY <1>6
<1>8. PoolShape' /\ DeadAreBusy'
  BY <1>1, <1>4, <1>6, <1>7 DEF PoolShape, DeadAreBusy, Idle
<1>9. /\ r \notin Attached(i)
      /\ Attached(i)' = Attached(i) \cup {r}
      /\ \A j \in Instances \ {i} : Attached(j)' = Attached(j)
  BY <1>5 DEF Attached, OnInstance, Holding
<1>10. \A j \in V : Attached(j) = {}
  <2> SUFFICES ASSUME NEW j \in V PROVE Attached(j) = {}
    OBVIOUS
  <2>1. Cardinality(Attached(j)) = 0
    BY <1>1, <1>2 DEF InFlightExact, Idle
  <2> QED BY <2>1, AttachedFinite, FS_EmptySet
<1>11. InFlightExact'
  <2>1. inFlight'[i] = Cardinality(Attached(i)')
    <3>1. Cardinality(Attached(i)') = Cardinality(Attached(i)) + 1
      BY <1>9, AttachedFinite, FS_AddElement
    <3>2. CASE i \in pool
      BY <1>1, <1>4, <3>1, <3>2 DEF InFlightExact
    <3>3. CASE i \notin pool
      <4>1. Attached(i) = {}
        BY <3>3 DEF Attached, OnInstance
      <4> QED BY <1>4, <3>1, <3>3, <4>1, FS_EmptySet
    <3> QED BY <3>2, <3>3
  <2>2. \A j \in pool' : inFlight'[j] = Cardinality(Attached(j)')
    BY <1>1, <1>4, <1>6, <1>9, <2>1 DEF InFlightExact
  <2>3. ASSUME NEW j \in Instances, NEW q \in Attached(j)'
        PROVE  j \in pool' /\ pfx'[j] = rpfx'[q] /\ caps'[j] = rcaps'[q]
    <3>1. CASE j # i
      BY <1>1, <1>4, <1>5, <1>9, <1>10, <3>1 DEF InFlightExact
    <3>2. CASE j = i /\ q # r
      <4>1. q \in Attached(i)
        BY <1>9, <3>2
      <4>2. i \in pool /\ pfx[i] = rpfx[q] /\ caps[i] = rcaps[q]
        BY <1>1, <4>1 DEF InFlightExact
      <4> QED BY <1>4, <1>5, <3>2, <4>2
    <3>3. CASE j = i /\ q = r
      BY <1>4, <1>5, <3>3
    <3> QED BY <3>1, <3>2, <3>3
  <2> QED BY <2>2, <2>3 DEF InFlightExact
<1>12. total' = Cardinality(pool') + oneoffRunning'
  <2>1. total = Cardinality(pool) + oneoffRunning /\ oneoffRunning \in Nat
    BY <1>1 DEF LedgerExact, RegTypeOK
  <2>2. SatSub(total, Cardinality(V)) = total - Cardinality(V)
    BY <1>3, <2>1, SatSubNat
  <2>3. Cardinality(pool') = IF i \in pool THEN Cardinality(pool \ V) ELSE Cardinality(pool \ V) + 1
    BY <1>3, <1>4, FS_AddElement
  <2> QED BY <1>3, <2>1, <2>2, <2>3
<1>13. idleTotal' = Cardinality(Idle')
  <2>1. idleTotal = Cardinality(Idle)
    BY <1>1 DEF LedgerExact
  <2>2. SatSub(idleTotal, Cardinality(V)) = Cardinality(Idle \ V)
        /\ Cardinality(Idle \ V) \in Nat
    BY <1>3, <2>1, SatSubNat
  <2>3. Idle' = (Idle \ V) \ {i}
    BY <1>4, <1>7 DEF Idle
  <2>4. CASE i \in Idle
    <3>1. Cardinality(Idle') = Cardinality(Idle \ V) - 1 /\ Cardinality(Idle') \in Nat
      BY <1>3, <2>3, <2>4, FS_RemoveElement, FS_CardinalityType
    <3> QED BY <2>2, <2>4, <3>1, SatSubNat
  <2>5. CASE i \notin Idle
    BY <2>2, <2>3, <2>5
  <2> QED BY <2>4, <2>5
<1>14. OneoffHolders' = OneoffHolders
  BY <1>5 DEF OneoffHolders, Holding
<1> QED BY <1>1, <1>8, <1>11, <1>12, <1>13, <1>14 DEF Ledger, LedgerExact

\* release: run r leaves its pooled instance.
LEMMA ReleaseLedger ==
  ASSUME LedgerInv, NEW r \in Runs, rst[r] \in Holding, rplace[r] = "pooled",
         NEW tainted, NEW h \in HeapSizes, NEW alive, NEW u \in Samples, NEW V,
         Release(rpfx[r], rinst[r], tainted, h, alive, u, V),
         rst' = [rst EXCEPT ![r] = "released"],
         UNCHANGED <<rpfx, rcaps, rinst, rplace>>
  PROVE  RegTypeOK' /\ Ledger'
<1> DEFINE i      == rinst[r]
           left   == SatSub(inFlight[i], 1)
           doomed == DeadAfter(i, tainted, h, alive)
           drops  == i \in doomed /\ left = 0
           idles  == i \notin doomed /\ left = 0
           kept   == IF drops THEN pool \ {i} ELSE pool
           idle   == IF idles THEN Idle \cup {i} ELSE Idle \ {i}
           count  == idleTotal + (IF idles THEN 1 ELSE 0)
<1>1. RegTypeOK /\ PoolShape /\ InFlightExact /\ LedgerExact /\ DeadAreBusy
  BY DEF LedgerInv, TypeOK
<1>2. i \in Instances /\ r \in Attached(i)
  BY DEF LedgerInv, RunShape, Attached, OnInstance
<1>3. i \in pool /\ pfx[i] = rpfx[r] /\ inFlight[i] = Cardinality(Attached(i))
  BY <1>1, <1>2 DEF InFlightExact
<1>4. rpfx[r] \in Prefixes /\ h \in Nat \ {0}
  BY <1>1, <1>3, RegistryAssumptions DEF PoolShape, RegistryAssumptions
<1>5. RegTypeOK'
  BY <1>1, <1>3, <1>4, ReleaseType
<1>6. inFlight[i] \in Nat /\ inFlight[i] # 0
  <2>1. Attached(i) # {}
    BY <1>2
  <2>2. Cardinality(Attached(i)) \in Nat /\ Cardinality(Attached(i)) # 0
    BY <2>1, AttachedFinite, FS_EmptySet
  <2> QED BY <1>3, <2>2
<1>7. left \in Nat /\ left = inFlight[i] - 1
  BY <1>6, SatSubNat
<1>8. /\ KeepOnly(kept \ V)
      /\ inFlight' = [inFlight EXCEPT ![i] = left]
      /\ dead' = (IF drops THEN doomed \ {i} ELSE doomed)
      /\ total' = SatSub(SatSub(total, IF drops THEN 1 ELSE 0), Cardinality(V))
      /\ idleTotal' = SatSub(count, Cardinality(V))
      /\ oneoffRunning' = oneoffRunning
  BY DEF Release
<1>9. V \in SUBSET idle
  <2> DEFINE hp  == IF idles THEN [heap EXCEPT ![i] = h] ELSE heap
             old == IF idles THEN Order(Idle) \cup {<<j, i>> : j \in Idle} ELSE older
  <2>1. PressurePass(u, idle, count, hp, old, V)
    BY DEF Release
  <2>2. count \in Nat
    BY <1>1 DEF RegTypeOK
  <2> HIDE DEF idle, count, hp, old
  <2> QED BY <1>1, <2>1, <2>2, PassFacts, RegistryAssumptions
<1>10. doomed \in {dead, dead \cup {i}}
  BY DEF DeadAfter
<1> HIDE DEF doomed
<1>11. i \notin Idle
  BY <1>6 DEF Idle
<1>12. /\ pool' = kept \ V
       /\ \A j \in pool' : j \in Instances /\ pfx'[j] = pfx[j] /\ caps'[j] = caps[j]
       /\ inFlight'[i] = left
       /\ \A j \in Instances : j # i => inFlight'[j] = inFlight[j]
  BY <1>1, <1>2, <1>8 DEF KeepOnly, Keep, RegTypeOK
<1> HIDE DEF left
<1>13. idle \in SUBSET kept
  BY <1>3, <1>10 DEF Idle
<1>14. IsFiniteSet(pool) /\ IsFiniteSet(Idle) /\ Idle \in SUBSET pool
  BY <1>1, IdleFinite
<1>15. IsFiniteSet(kept) /\ Cardinality(kept) = Cardinality(pool) - (IF drops THEN 1 ELSE 0)
  <2>1. CASE drops
    BY <1>3, <1>14, <2>1, FS_RemoveElement
  <2>2. CASE ~drops
    BY <1>14, <2>2, FS_CardinalityType
  <2> QED BY <2>1, <2>2
<1>16. IsFiniteSet(idle) /\ Cardinality(idle) = count
  <2>1. idleTotal = Cardinality(Idle)
    BY <1>1 DEF LedgerExact
  <2>2. CASE idles
    BY <1>11, <1>14, <2>1, <2>2, FS_AddElement
  <2>3. CASE ~idles
    <3>1. idle = Idle
      BY <1>11, <2>3
    <3>2. Cardinality(Idle) \in Nat
      BY <1>14, FS_CardinalityType
    <3>3. count = idleTotal
      BY <2>1, <2>3, <3>2
    <3> QED BY <1>14, <2>1, <3>1, <3>3
  <2> QED BY <2>2, <2>3
<1>17. Idle' = idle \ V
  BY <1>2, <1>3, <1>7, <1>8, <1>9, <1>10, <1>11, <1>12 DEF Idle, RegTypeOK
<1> HIDE DEF idle, kept
<1>18. /\ Cardinality(V) \in Nat
       /\ Cardinality(V) <= Cardinality(kept) /\ Cardinality(V) <= Cardinality(idle)
       /\ Cardinality(kept \ V) = Cardinality(kept) - Cardinality(V)
       /\ Cardinality(idle \ V) = Cardinality(idle) - Cardinality(V)
       /\ Cardinality(kept) \in Nat /\ Cardinality(idle) \in Nat
  <2>1. V \in SUBSET kept
    BY <1>9, <1>13
  <2> QED BY <1>9, <1>15, <1>16, <2>1, CardRemove
<1>19. total' = Cardinality(pool') + oneoffRunning'
  <2>1. total = Cardinality(pool) + oneoffRunning /\ oneoffRunning \in Nat /\ Cardinality(pool) \in Nat
    BY <1>1, <1>14, FS_CardinalityType DEF LedgerExact, RegTypeOK
  <2>2. SatSub(total, IF drops THEN 1 ELSE 0) = Cardinality(kept) + oneoffRunning
    <3>1. CASE drops
      BY <1>15, <1>18, <2>1, <3>1 DEF SatSub
    <3>2. CASE ~drops
      BY <1>15, <1>18, <2>1, <3>2 DEF SatSub
    <3> QED BY <3>1, <3>2
  <2>3. total' = SatSub(Cardinality(kept) + oneoffRunning, Cardinality(V))
    BY <1>8, <2>2
  <2>4. total' = Cardinality(kept) + oneoffRunning - Cardinality(V)
    BY <1>18, <2>1, <2>3 DEF SatSub
  <2> QED BY <1>8, <1>12, <1>18, <2>1, <2>4
<1>20. idleTotal' = Cardinality(Idle')
  <2>1. idleTotal' = SatSub(Cardinality(idle), Cardinality(V))
    BY <1>8, <1>16
  <2> QED BY <1>17, <1>18, <2>1, SatSubNat
<1>21. PoolShape'
  BY <1>1, <1>12 DEF PoolShape, kept
<1>22. DeadAreBusy'
  <2> SUFFICES ASSUME NEW j \in dead' PROVE j \in pool' /\ inFlight'[j] > 0
    BY DEF DeadAreBusy
  <2>1. CASE j = i
    <3>1. ~drops /\ i \in doomed /\ left # 0
      BY <1>8, <2>1
    <3>2. i \in kept /\ i \notin idle
      BY <1>3, <1>11, <3>1 DEF kept, idle
    <3>3. i \in pool'
      BY <1>9, <1>12, <3>2
    <3>4. inFlight'[i] > 0
      <4>1. left \in Nat /\ left # 0
        BY <1>7, <3>1
      <4>2. left > 0
        BY <4>1
      <4>3. inFlight'[i] = left
        BY <1>12
      <4> QED BY <4>2, <4>3
    <3> QED BY <2>1, <3>3, <3>4
  <2>2. CASE j # i
    <3>1. j \in dead
      BY <1>8, <1>10, <2>2
    <3>2. j \in pool /\ inFlight[j] > 0 /\ j \in Instances
      BY <1>1, <3>1 DEF DeadAreBusy, RegTypeOK
    <3>3. j \in kept /\ j \notin idle
      BY <2>2, <3>1, <3>2 DEF kept, idle, Idle
    <3> QED BY <1>9, <1>12, <2>2, <3>2, <3>3
  <2> QED BY <2>1, <2>2
<1>23. /\ Attached(i)' = Attached(i) \ {r}
       /\ \A j \in Instances : j # i => Attached(j)' = Attached(j)
  <2>1. rst \in [Runs -> RunStates]
    BY DEF LedgerInv, TypeOK
  <2> QED BY <2>1 DEF Attached, OnInstance, Holding
<1>24. inFlight'[i] = Cardinality(Attached(i)')
  <2>1. Cardinality(Attached(i)') = Cardinality(Attached(i)) - 1
    BY <1>2, <1>23, AttachedFinite, FS_RemoveElement
  <2> QED BY <1>3, <1>7, <1>12, <2>1
<1>25. \A j \in idle : j # i => Attached(j) = {}
  <2> SUFFICES ASSUME NEW j \in idle, j # i PROVE Attached(j) = {}
    OBVIOUS
  <2>1. Cardinality(Attached(j)) = 0
    BY <1>1, <1>14 DEF InFlightExact, idle, Idle
  <2> QED BY <2>1, AttachedFinite, FS_EmptySet
<1>26. left = 0 => Attached(i)' = {}
  <2>1. IsFiniteSet(Attached(i)')
    BY <1>23, AttachedFinite, FS_RemoveElement
  <2> QED BY <1>12, <1>24, <2>1, FS_EmptySet
<1>27. InFlightExact'
  <2>1. \A j \in pool' : inFlight'[j] = Cardinality(Attached(j)')
    <3> SUFFICES ASSUME NEW j \in pool' PROVE inFlight'[j] = Cardinality(Attached(j)')
      OBVIOUS
    <3>1. j \in pool /\ j \in Instances
      BY <1>1, <1>12 DEF kept, RegTypeOK
    <3>2. CASE j = i
      BY <1>24, <3>2
    <3>3. CASE j # i
      BY <1>1, <1>12, <1>23, <3>1, <3>3 DEF InFlightExact
    <3> QED BY <3>2, <3>3
  <2>2. ASSUME NEW j \in Instances, NEW q \in Attached(j)'
        PROVE  j \in pool' /\ pfx'[j] = rpfx'[q] /\ caps'[j] = rcaps'[q]
    <3>1. q \in Attached(j)
      BY <1>23, <2>2
    <3>2. j \in pool /\ pfx[j] = rpfx[q] /\ caps[j] = rcaps[q]
      BY <1>1, <3>1 DEF InFlightExact
    <3>3. j \in pool'
      <4>1. CASE j = i
        <5>1. left # 0
          BY <1>26, <2>2, <4>1
        <5> QED BY <1>9, <1>11, <1>12, <3>2, <4>1, <5>1 DEF kept, idle
      <4>2. CASE j # i
        BY <1>9, <1>12, <1>25, <3>1, <3>2, <4>2 DEF kept
      <4> QED BY <4>1, <4>2
    <3> QED BY <1>12, <3>2, <3>3
  <2> QED BY <2>1, <2>2 DEF InFlightExact
<1>28. OneoffHolders' = OneoffHolders
  <2>1. rst \in [Runs -> RunStates]
    BY DEF LedgerInv, TypeOK
  <2> QED BY <2>1 DEF OneoffHolders, Holding
<1> QED BY <1>1, <1>5, <1>8, <1>19, <1>20, <1>21, <1>22, <1>27, <1>28 DEF Ledger, LedgerExact
-----------------------------------------------------------------------------
(***************************************************************************)
(* The steps.                                                              *)
(***************************************************************************)
RunTypeOK ==
  /\ store \in [Prefixes -> {"never", "ready", "broken", "gone"}]
  /\ rst \in [Runs -> RunStates]
  /\ rpfx \in [Runs -> Prefixes \cup {NoPrefix}]
  /\ rcaps \in [Runs -> Caps \cup {NoCaps}]
  /\ rinst \in [Runs -> Instances \cup {NoInstance}]
  /\ rplace \in [Runs -> {"none", "pooled", "cold", "oneoff"}]
  /\ rout \in [Runs -> {"none", "clean", "tainted", "broken"}]
  /\ thread \in [Instances -> ThreadStates]

\* The parts of the invariant, put together again.
LEMMA Assemble ==
  /\ LedgerInv => RegTypeOK /\ RunTypeOK /\ RunShape /\ TypeOK /\ ChanShape /\ Ledger
  /\ RegTypeOK' /\ RunTypeOK' /\ ChanTypeOK' /\ RunShape' /\ ChanShape' /\ Ledger' => LedgerInv'
BY DEF LedgerInv, TypeOK, RunTypeOK, ChanTypeOK, Ledger

\* The prefix store.
LEMMA StoreSteps ==
  ASSUME LedgerInv, NEW p \in Prefixes, Prepare(p) \/ Dispose(p)
  PROVE  LedgerInv'
<1>1. RegTypeOK /\ RunTypeOK /\ RunShape /\ TypeOK /\ ChanShape /\ Ledger
  BY Assemble
<1>2. UNCHANGED runVars /\ RunTypeOK' /\ RunShape'
  BY <1>1 DEF Prepare, Dispose, RunTypeOK, RunShape, runVars
<1>3. RunFrame
  BY <1>2 DEF RunFrame, runVars
<1>4. ChanTypeOK' /\ ChanShape'
  <2>1. CASE Prepare(p)
    BY <1>1, <1>2, <2>1, SameChan DEF Prepare, runVars
  <2>2. CASE Dispose(p)
    BY <1>1, <1>2, <2>2, RetireDroppedChan DEF Dispose, runVars
  <2> QED BY <2>1, <2>2
<1>5. RegTypeOK' /\ Ledger'
  <2>1. CASE Prepare(p)
    BY <1>3, <2>1, QuietLedger DEF Prepare
  <2>2. CASE Dispose(p)
    BY <1>3, <2>2, DisposeLedger DEF Dispose
  <2> QED BY <2>1, <2>2
<1> QED BY <1>2, <1>4, <1>5, Assemble

\* The steps of a run that do not touch the registry.
LEMMA QuietRunSteps ==
  ASSUME LedgerInv, NEW r \in Runs,
         \/ \E p \in Prefixes, c \in Caps : Lookup(r, p, c)
         \/ SendJob(r)
         \/ OneoffStart(r)
         \/ OneoffEnds(r)
         \/ Answer(r)
  PROVE  LedgerInv'
<1>1. RegTypeOK /\ RunTypeOK /\ RunShape /\ TypeOK /\ ChanShape /\ Ledger
  BY Assemble
<1> USE DEF Goto, Holding, RunStates
<1>2. CASE \E p \in Prefixes, c \in Caps : Lookup(r, p, c)
  <2>1. RunTypeOK' /\ RunShape' /\ RunFrame
    BY <1>1, <1>2 DEF Lookup, RunTypeOK, RunShape, RunFrame
  <2>2. ChanTypeOK' /\ ChanShape'
    BY <1>1, <1>2, SameChan DEF Lookup, RunTypeOK
  <2>3. RegTypeOK' /\ Ledger'
    BY <1>2, <2>1, QuietLedger DEF Lookup
  <2> QED BY <2>1, <2>2, <2>3, Assemble
<1>3. CASE SendJob(r)
  <2>1. RunTypeOK' /\ RunShape' /\ RunFrame
    BY <1>1, <1>3 DEF SendJob, RunTypeOK, RunShape, RunFrame
  <2>2. ChanTypeOK' /\ ChanShape'
    <3>1. rinst[r] \in Instances
      BY <1>1, <1>3 DEF SendJob, RunTypeOK
    <3>2. CASE thread[rinst[r]] = "gone"
      BY <1>1, <1>3, <3>2, SameChan DEF SendJob, RunTypeOK
    <3>3. CASE thread[rinst[r]] # "gone"
      BY <1>1, <1>3, <3>1, <3>3, SendChan DEF SendJob
    <3> QED BY <3>2, <3>3
  <2>3. RegTypeOK' /\ Ledger'
    BY <1>3, <2>1, QuietLedger DEF SendJob
  <2> QED BY <2>1, <2>2, <2>3, Assemble
<1>4. CASE OneoffStart(r) \/ OneoffEnds(r)
  <2>1. RunTypeOK' /\ RunShape' /\ RunFrame
    BY <1>1, <1>4 DEF OneoffStart, OneoffEnds, RunTypeOK, RunShape, RunFrame
  <2>2. ChanTypeOK' /\ ChanShape'
    BY <1>1, <1>4, SameChan DEF OneoffStart, OneoffEnds, RunTypeOK
  <2>3. RegTypeOK' /\ Ledger'
    BY <1>4, <2>1, QuietLedger DEF OneoffStart, OneoffEnds
  <2> QED BY <2>1, <2>2, <2>3, Assemble
<1>5. CASE Answer(r)
  <2>1. RunTypeOK' /\ RunShape' /\ RunFrame
    BY <1>1, <1>5 DEF Answer, RunTypeOK, RunShape, RunFrame
  <2>2. ChanTypeOK' /\ ChanShape'
    BY <1>1, <1>5, SameChan DEF Answer, RunTypeOK
  <2>3. RegTypeOK' /\ Ledger'
    BY <1>5, <2>1, QuietLedger DEF Answer
  <2> QED BY <2>1, <2>2, <2>3, Assemble
<1> QED BY <1>2, <1>3, <1>4, <1>5

\* The steps of an owner thread: none touches the registry, and a job it
\* takes was queued.
LEMMA ThreadSteps ==
  ASSUME LedgerInv, NEW i \in Instances, ThreadStep(i)
  PROVE  LedgerInv'
<1>1. RegTypeOK /\ RunTypeOK /\ RunShape /\ TypeOK /\ ChanShape /\ Ledger
  BY Assemble
<1> USE DEF Goto, Holding, RunStates, ThreadStates, Concludes
<1>2. ASSUME NEW r \in Runs,
             ColdStartFails(i, r) \/ ColdFailNext(i, r) \/ DispatchJob(i, r) \/ SweepQueued(i, r)
      PROVE  LedgerInv'
  <2>1. /\ UNCHANGED <<regVars, store, rpfx, rcaps, rinst, rplace>>
        /\ Receives(i, r)
        /\ \E st \in {"live", "ending"} : rst' = [rst EXCEPT ![r] = st]
        /\ \E o \in {"clean", "tainted", "broken"} : rout' = rout \/ rout' = [rout EXCEPT ![r] = o]
        /\ \E t \in ThreadStates : thread' = thread \/ thread' = [thread EXCEPT ![i] = t]
    BY <1>2 DEF ColdStartFails, ColdFailNext, DispatchJob, SweepQueued
  <2>2. rst[r] = "queued" /\ ChanTypeOK' /\ ChanShape'
    BY <1>1, <2>1, ReceiveChan DEF RunTypeOK
  <2>3. RunTypeOK'
    BY <1>1, <2>1 DEF RunTypeOK
  <2>4. RunShape' /\ RunFrame
    BY <1>1, <2>1, <2>2 DEF RunTypeOK, RunShape, RunFrame
  <2>5. RegTypeOK' /\ Ledger'
    BY <2>1, <2>4, QuietLedger
  <2> QED BY <2>2, <2>3, <2>4, <2>5, Assemble
<1>3. ASSUME NEW r \in Runs, TurnEnds(i, r) \/ SweepLive(i, r)
      PROVE  LedgerInv'
  <2>1. /\ UNCHANGED <<regVars, store, rpfx, rcaps, rinst, rplace, chan>>
        /\ rst[r] = "live" /\ rst' = [rst EXCEPT ![r] = "ending"]
        /\ \E o \in {"clean", "tainted"} : rout' = [rout EXCEPT ![r] = o]
        /\ thread' = thread \/ thread' = [thread EXCEPT ![i] = "sweep"]
    BY <1>3 DEF TurnEnds, SweepLive, Live
  <2>2. ChanTypeOK' /\ ChanShape'
    BY <1>1, <2>1, SameChan DEF RunTypeOK
  <2>3. RunTypeOK' /\ RunShape' /\ RunFrame
    BY <1>1, <2>1 DEF RunTypeOK, RunShape, RunFrame
  <2>4. RegTypeOK' /\ Ledger'
    BY <2>1, <2>3, QuietLedger
  <2> QED BY <2>2, <2>3, <2>4, Assemble
<1>4. CASE ColdFailSkips(i) \/ ReceiveRetire(i) \/ SweepSkips(i)
  <2>1. /\ UNCHANGED <<regVars, store, runVars>>
        /\ Receives(i, Retire)
        /\ thread' = thread \/ thread' = [thread EXCEPT ![i] = "retiring"]
    BY <1>4 DEF ColdFailSkips, ReceiveRetire, SweepSkips
  <2>2. ChanTypeOK' /\ ChanShape'
    BY <1>1, <2>1, ReceiveChan DEF runVars
  <2>3. RunTypeOK' /\ RunShape' /\ RunFrame
    BY <1>1, <2>1 DEF RunTypeOK, RunShape, RunFrame, runVars
  <2>4. RegTypeOK' /\ Ledger'
    BY <2>1, <2>3, QuietLedger
  <2> QED BY <2>2, <2>3, <2>4, Assemble
<1>5. CASE ColdFailExit(i) \/ ServeReturns(i) \/ SweepDone(i)
  <2>1. /\ UNCHANGED <<regVars, store, runVars, chan>>
        /\ \E t \in {"gone", "closing"} : thread' = [thread EXCEPT ![i] = t]
    BY <1>5 DEF ColdFailExit, ServeReturns, SweepDone
  <2>2. ChanTypeOK' /\ ChanShape'
    BY <1>1, <2>1, SameChan DEF runVars
  <2>3. RunTypeOK' /\ RunShape' /\ RunFrame
    BY <1>1, <2>1 DEF RunTypeOK, RunShape, RunFrame, runVars
  <2>4. RegTypeOK' /\ Ledger'
    BY <2>1, <2>3, QuietLedger
  <2> QED BY <2>2, <2>3, <2>4, Assemble
<1>6. CASE ThreadEnds(i)
  <2>1. ChanTypeOK' /\ ChanShape'
    BY <1>1, <1>6, EndChan
  <2>2. \A q \in Runs : rst'[q] = rst[q] \/ (rst[q] = "queued" /\ rst'[q] = "stranded")
    <3> SUFFICES ASSUME NEW q \in Runs, rst'[q] # rst[q]
                 PROVE  rst[q] = "queued" /\ rst'[q] = "stranded"
      OBVIOUS
    <3>1. PICK k \in 1..Len(chan[i]) : chan[i][k] = q
      BY <1>6 DEF ThreadEnds
    <3> QED BY <1>1, <1>6, <3>1, EngineAssumptions DEF ThreadEnds, ChanShape, EngineAssumptions
  <2>3. RunTypeOK'
    BY <1>1, <1>6 DEF ThreadEnds, RunTypeOK
  <2>4. RunShape' /\ RunFrame
    BY <1>1, <1>6, <2>2 DEF ThreadEnds, RunTypeOK, RunShape, RunFrame
  <2>5. RegTypeOK' /\ Ledger'
    BY <1>6, <2>4, QuietLedger DEF ThreadEnds
  <2> QED BY <2>1, <2>3, <2>4, <2>5, Assemble
<1> QED BY <1>2, <1>3, <1>4, <1>5, <1>6 DEF ThreadStep

\* A pressure pass while a run takes a one-off slot, gives one back, or has
\* nothing to do with either.
LEMMA SlotLedger ==
  ASSUME LedgerInv, NEW r \in Runs, NEW V \in SUBSET Idle, EvictOnly(V), PooledFrame,
         \/ /\ total' = SatSub(total, Cardinality(V)) + 1
            /\ oneoffRunning' = oneoffRunning + 1
            /\ r \notin OneoffHolders /\ OneoffHolders' = OneoffHolders \cup {r}
         \/ /\ total' = SatSub(SatSub(total, 1), Cardinality(V))
            /\ oneoffRunning' = SatSub(oneoffRunning, 1)
            /\ r \in OneoffHolders /\ OneoffHolders' = OneoffHolders \ {r}
         \/ /\ total' = SatSub(total, Cardinality(V))
            /\ oneoffRunning' = oneoffRunning
            /\ OneoffHolders' = OneoffHolders
  PROVE  Ledger'
<1>1. RegTypeOK /\ LedgerExact
  BY DEF LedgerInv, TypeOK
<1>2. /\ PoolShape' /\ InFlightExact' /\ DeadAreBusy'
      /\ Cardinality(V) \in Nat /\ Cardinality(pool) \in Nat
      /\ Cardinality(V) <= Cardinality(pool)
      /\ Cardinality(pool') = Cardinality(pool) - Cardinality(V)
      /\ idleTotal' = Cardinality(Idle')
  BY ShrinkLedger DEF EvictOnly
<1>3. /\ oneoffRunning \in Nat /\ total = Cardinality(pool) + oneoffRunning
      /\ oneoffRunning = Cardinality(OneoffHolders)
  BY <1>1 DEF RegTypeOK, LedgerExact
<1>4. IsFiniteSet(OneoffHolders)
  <2>1. OneoffHolders \in SUBSET Runs
    BY DEF OneoffHolders
  <2> QED BY <2>1, EngineAssumptions, FS_Subset DEF EngineAssumptions
<1>5. total' = Cardinality(pool') + oneoffRunning' /\ oneoffRunning' = Cardinality(OneoffHolders')
  <2>1. CASE r \notin OneoffHolders /\ OneoffHolders' = OneoffHolders \cup {r}
             /\ total' = SatSub(total, Cardinality(V)) + 1 /\ oneoffRunning' = oneoffRunning + 1
    <3>1. Cardinality(OneoffHolders') = Cardinality(OneoffHolders) + 1
      BY <1>4, <2>1, FS_AddElement
    <3> QED BY <1>2, <1>3, <2>1, <3>1 DEF SatSub
  <2>2. CASE r \in OneoffHolders /\ OneoffHolders' = OneoffHolders \ {r}
             /\ total' = SatSub(SatSub(total, 1), Cardinality(V))
             /\ oneoffRunning' = SatSub(oneoffRunning, 1)
    <3>1. Cardinality(OneoffHolders') = Cardinality(OneoffHolders) - 1
      BY <1>4, <2>2, FS_RemoveElement
    <3>2. Cardinality(OneoffHolders) # 0
      BY <1>4, <2>2, FS_EmptySet
    <3>3. oneoffRunning >= 1 /\ oneoffRunning' = oneoffRunning - 1
      BY <1>3, <2>2, <3>2 DEF SatSub
    <3>4. SatSub(total, 1) = Cardinality(pool) + oneoffRunning - 1
      BY <1>2, <1>3, <3>3 DEF SatSub
    <3>5. total' = SatSub(Cardinality(pool) + oneoffRunning - 1, Cardinality(V))
      BY <2>2, <3>4
    <3>6. total' = Cardinality(pool) + oneoffRunning - 1 - Cardinality(V)
      BY <1>2, <1>3, <3>3, <3>5 DEF SatSub
    <3> QED BY <1>2, <1>3, <3>1, <3>3, <3>6
  <2>3. CASE OneoffHolders' = OneoffHolders
             /\ total' = SatSub(total, Cardinality(V)) /\ oneoffRunning' = oneoffRunning
    BY <1>2, <1>3, <2>3 DEF SatSub
  <2> QED BY <2>1, <2>2, <2>3
<1> QED BY <1>2, <1>5 DEF Ledger, LedgerExact

\* acquire onto a pooled instance.
LEMMA PooledAcquire ==
  ASSUME LedgerInv, NEW r \in Runs, rst[r] = "looked",
         NEW u \in Samples, NEW V \in SUBSET Idle, NEW i \in Instances, NEW hot, NEW high,
         \/ AcquireReuse(rpfx[r], rcaps[r], u, V, i)
         \/ AcquireJoin(rpfx[r], rcaps[r], u, V, hot, high, i)
         \/ AcquireSpawn(rpfx[r], rcaps[r], u, V, hot, high, i) /\ Unused(i),
         Takes(r, i, "pooled"), RetireDropped, store' = store,
         thread' = thread \/ thread' = [thread EXCEPT ![i] = "boot"]
  PROVE  LedgerInv'
<1>1. RegTypeOK /\ RunTypeOK /\ RunShape /\ TypeOK /\ ChanShape /\ Ledger
  BY Assemble
<1>2. rpfx[r] \in Prefixes /\ rcaps[r] \in Caps
  BY <1>1 DEF RunShape
<1>3. RegTypeOK'
  BY <1>1, <1>2, AcquireAttachType
<1>4. RunTypeOK' /\ RunShape'
  BY <1>1 DEF Takes, Goto, RunTypeOK, RunShape, RunStates, Holding, ThreadStates
<1>5. ChanTypeOK' /\ ChanShape'
  BY <1>1, RetireDroppedChan DEF Takes, Goto, RunTypeOK
<1>6. total \in Nat /\ Cardinality(V) \in Nat /\ SatSub(total, Cardinality(V)) \in Nat
  BY <1>1, IdleFinite, SatSubNat DEF RegTypeOK
<1>7. Ledger'
  <2>1. CASE AcquireReuse(rpfx[r], rcaps[r], u, V, i)
    <3>1. i \in Reusable(rpfx[r], rcaps[r], V)
      BY <2>1 DEF AcquireReuse, Warmest
    <3>2. /\ i \in pool /\ i \notin V /\ i \notin dead /\ pfx[i] = rpfx[r] /\ caps[i] = rcaps[r]
          /\ inFlight[i] = 0 /\ i \in Idle /\ 1 = inFlight[i] + 1
      BY <3>1 DEF Reusable, Joinable, LiveOf, Idle
    <3>3. /\ Attach(rpfx[r], rcaps[r], V, i, 1)
          /\ total' = SatSub(total, Cardinality(V)) + (IF i \in pool THEN 0 ELSE 1)
          /\ idleTotal' = SatSub(SatSub(idleTotal, Cardinality(V)), 1)
          /\ oneoffRunning' = oneoffRunning
      BY <1>6, <2>1, <3>2 DEF AcquireReuse
    <3> QED BY <1>2, <3>2, <3>3, AttachLedger
  <2>2. CASE AcquireJoin(rpfx[r], rcaps[r], u, V, hot, high, i)
    <3>1. i \in Joinable(rpfx[r], rcaps[r], V) /\ Reusable(rpfx[r], rcaps[r], V) = {}
      BY <2>2 DEF AcquireJoin, JoinTargets, PickJoinTarget, JoinFallback
    <3>2. /\ i \in pool /\ i \notin V /\ i \notin dead /\ pfx[i] = rpfx[r] /\ caps[i] = rcaps[r]
          /\ i \notin Idle
      BY <3>1 DEF Reusable, Joinable, LiveOf, Idle
    <3>3. /\ Attach(rpfx[r], rcaps[r], V, i, inFlight[i] + 1)
          /\ total' = SatSub(total, Cardinality(V)) + (IF i \in pool THEN 0 ELSE 1)
          /\ idleTotal' = SatSub(idleTotal, Cardinality(V))
          /\ oneoffRunning' = oneoffRunning
      BY <1>6, <2>2, <3>2 DEF AcquireJoin
    <3> QED BY <1>2, <3>2, <3>3, AttachLedger
  <2>3. CASE AcquireSpawn(rpfx[r], rcaps[r], u, V, hot, high, i) /\ Unused(i)
    <3>1. i \notin pool /\ \A q \in Runs : rinst[q] # i
      BY <2>3 DEF Unused
    <3>2. i \notin V /\ i \notin dead /\ i \notin Idle
      BY <1>1, <3>1 DEF Ledger, DeadAreBusy, Idle
    <3>3. /\ Attach(rpfx[r], rcaps[r], V, i, 1)
          /\ total' = SatSub(total, Cardinality(V)) + (IF i \in pool THEN 0 ELSE 1)
          /\ idleTotal' = SatSub(idleTotal, Cardinality(V))
          /\ oneoffRunning' = oneoffRunning
      BY <2>3, <3>1 DEF AcquireSpawn
    <3> QED BY <1>2, <3>1, <3>2, <3>3, AttachLedger
  <2> QED BY <2>1, <2>2, <2>3
<1> QED BY <1>3, <1>4, <1>5, <1>7, Assemble

\* acquire that hands out an instance for one call.
LEMMA ColdAcquire ==
  ASSUME LedgerInv, NEW r \in Runs, rst[r] = "looked",
         NEW u \in Samples, NEW V \in SUBSET Idle, NEW i \in Instances,
         AcquireCold(rpfx[r], rcaps[r], u, V), Takes(r, i, "cold"),
         thread' = [thread EXCEPT ![i] = "boot"], RetireDropped, store' = store
  PROVE  LedgerInv'
<1>1. RegTypeOK /\ RunTypeOK /\ RunShape /\ TypeOK /\ ChanShape /\ Ledger
  BY Assemble
<1>2. rpfx[r] \in Prefixes /\ rcaps[r] \in Caps /\ rplace[r] = "none"
  BY <1>1 DEF RunShape
<1>3. RegTypeOK'
  BY <1>1, <1>2, AcquireEvictType
<1>4. RunTypeOK' /\ RunShape' /\ PooledFrame
  BY <1>1, <1>2 DEF Takes, Goto, RunTypeOK, RunShape, RunStates, Holding, ThreadStates, PooledFrame
<1>5. ChanTypeOK' /\ ChanShape'
  BY <1>1, RetireDroppedChan DEF Takes, Goto, RunTypeOK
<1>6. r \notin OneoffHolders /\ OneoffHolders' = OneoffHolders \cup {r}
  BY <1>1 DEF OneoffHolders, Takes, Goto, RunTypeOK, Holding
<1>7. Ledger'
  BY <1>4, <1>6, SlotLedger DEF AcquireCold
<1> QED BY <1>3, <1>4, <1>5, <1>7, Assemble

\* acquire that hands out nothing.
LEMMA RefusedAcquire ==
  ASSUME LedgerInv, NEW r \in Runs, rst[r] = "looked",
         NEW u \in Samples, NEW V \in SUBSET Idle, NEW hot, NEW high,
         \/ AcquireRefused(rpfx[r], rcaps[r], u, V)
         \/ AcquireSpawnFailed(rpfx[r], rcaps[r], u, V, hot, high),
         Goto(r, "refused"), UNCHANGED <<rpfx, rcaps, rinst, rplace, rout, thread>>,
         RetireDropped, store' = store
  PROVE  LedgerInv'
<1>1. RegTypeOK /\ RunTypeOK /\ RunShape /\ TypeOK /\ ChanShape /\ Ledger
  BY Assemble
<1>2. rpfx[r] \in Prefixes /\ rcaps[r] \in Caps /\ rplace[r] = "none"
  BY <1>1 DEF RunShape
<1>3. RegTypeOK'
  BY <1>1, <1>2, AcquireEvictType
<1>4. RunTypeOK' /\ RunShape' /\ RunFrame
  BY <1>1, <1>2 DEF Goto, RunTypeOK, RunShape, RunStates, Holding, RunFrame
<1>5. ChanTypeOK' /\ ChanShape'
  BY <1>1, RetireDroppedChan DEF Goto, RunTypeOK
<1>6. PooledFrame /\ OneoffHolders' = OneoffHolders
  BY <1>4, FrameFacts
<1>7. Ledger'
  BY <1>6, SlotLedger DEF AcquireRefused, AcquireSpawnFailed
<1> QED BY <1>3, <1>4, <1>5, <1>7, Assemble

\* The three outcomes of acquire.
LEMMA AcquireSteps ==
  ASSUME LedgerInv, NEW r \in Runs, AcquireExisting(r) \/ AcquireNew(r) \/ AcquireFails(r)
  PROVE  LedgerInv'
<1>0. pool \subseteq Instances
  BY DEF LedgerInv, TypeOK, RegTypeOK
<1>1. CASE AcquireExisting(r)
  <2>1. PICK u \in Samples, V \in SUBSET Idle, i \in pool :
          /\ \/ AcquireReuse(rpfx[r], rcaps[r], u, V, i)
             \/ \E hot \in SUBSET pool, high \in BOOLEAN :
                  AcquireJoin(rpfx[r], rcaps[r], u, V, hot, high, i)
          /\ Takes(r, i, "pooled")
    BY <1>1 DEF AcquireExisting
  <2>2. i \in Instances
    BY <1>0
  <2> QED BY <1>1, <2>1, <2>2, PooledAcquire DEF AcquireExisting
<1>2. CASE AcquireNew(r)
  <2>1. PICK u \in Samples, V \in SUBSET Idle, i \in Instances :
          /\ Spawns(i)
          /\ \/ \E hot \in SUBSET pool, high \in BOOLEAN :
                  /\ AcquireSpawn(rpfx[r], rcaps[r], u, V, hot, high, i)
                  /\ Takes(r, i, "pooled")
             \/ /\ AcquireCold(rpfx[r], rcaps[r], u, V)
                /\ Takes(r, i, "cold")
    BY <1>2 DEF AcquireNew
  <2>2. Unused(i) /\ thread' = [thread EXCEPT ![i] = "boot"]
    BY <2>1 DEF Spawns
  <2>3. CASE \E hot \in SUBSET pool, high \in BOOLEAN :
               /\ AcquireSpawn(rpfx[r], rcaps[r], u, V, hot, high, i)
               /\ Takes(r, i, "pooled")
    BY <1>2, <2>2, <2>3, PooledAcquire DEF AcquireNew
  <2>4. CASE AcquireCold(rpfx[r], rcaps[r], u, V) /\ Takes(r, i, "cold")
    BY <1>2, <2>2, <2>4, ColdAcquire DEF AcquireNew
  <2> QED BY <2>1, <2>3, <2>4
<1>3. CASE AcquireFails(r)
  <2>1. PICK u \in Samples, V \in SUBSET Idle :
          \/ AcquireRefused(rpfx[r], rcaps[r], u, V)
          \/ \E hot \in SUBSET pool, high \in BOOLEAN :
               AcquireSpawnFailed(rpfx[r], rcaps[r], u, V, hot, high)
    BY <1>3 DEF AcquireFails
  <2>2. rst[r] = "looked" /\ Goto(r, "refused") /\ RetireDropped /\ store' = store
        /\ UNCHANGED <<rpfx, rcaps, rinst, rplace, rout, thread>>
    BY <1>3 DEF AcquireFails
  <2> QED BY <2>1, <2>2, RefusedAcquire
<1> QED BY <1>1, <1>2, <1>3

\* Taking a one-off slot, and giving it back unused.
LEMMA OneoffSteps ==
  ASSUME LedgerInv, NEW r \in Runs,
         (\E c \in Caps : OneoffReserve(r, c)) \/ OneoffSpawnFails(r)
  PROVE  LedgerInv'
<1>1. RegTypeOK /\ RunTypeOK /\ RunShape /\ TypeOK /\ ChanShape /\ Ledger
  BY Assemble
<1> USE DEF Goto, Holding, RunStates
<1>2. ASSUME NEW c \in Caps, OneoffReserve(r, c) PROVE LedgerInv'
  <2>1. PICK u \in Samples, V \in SUBSET Idle, ok \in BOOLEAN :
          /\ ReserveOneoff(c.hard, u, V, ok)
          /\ Goto(r, IF ok THEN "attached" ELSE "refused")
          /\ rplace' = [rplace EXCEPT ![r] = IF ok THEN "oneoff" ELSE "none"]
    BY <1>2 DEF OneoffReserve
  <2>2. rst[r] = "idle" /\ RetireDropped /\ UNCHANGED <<store, rpfx, rcaps, rinst, rout, thread>>
    BY <1>2 DEF OneoffReserve
  <2>3. RegTypeOK'
    BY <1>1, <2>1, OneoffType
  <2>4. RunTypeOK' /\ RunShape' /\ PooledFrame
    BY <1>1, <2>1, <2>2 DEF RunTypeOK, RunShape, PooledFrame
  <2>5. ChanTypeOK' /\ ChanShape'
    BY <1>1, <2>1, <2>2, RetireDroppedChan DEF RunTypeOK
  <2>6. Ledger'
    <3>0. total \in Nat /\ oneoffRunning \in Nat /\ Cardinality(V) \in Nat
          /\ SatSub(total, Cardinality(V)) \in Nat
      BY <1>1, IdleFinite, SatSubNat DEF RegTypeOK
    <3>1. CASE ok
      <4>1. r \notin OneoffHolders /\ OneoffHolders' = OneoffHolders \cup {r}
        BY <1>1, <2>1, <2>2, <3>1 DEF OneoffHolders, RunTypeOK
      <4> QED BY <2>1, <2>4, <3>1, <4>1, SlotLedger DEF ReserveOneoff
    <3>2. CASE ~ok
      <4>1. OneoffHolders' = OneoffHolders
        BY <1>1, <2>1, <2>2, <3>2 DEF OneoffHolders, RunTypeOK
      <4>2. total' = SatSub(total, Cardinality(V)) /\ oneoffRunning' = oneoffRunning
        BY <2>1, <3>0, <3>2 DEF ReserveOneoff
      <4> QED BY <2>1, <2>4, <4>1, <4>2, SlotLedger DEF ReserveOneoff
    <3> QED BY <3>1, <3>2
  <2> QED BY <2>3, <2>4, <2>5, <2>6, Assemble
<1>3. CASE OneoffSpawnFails(r)
  <2>1. PICK u \in Samples, V \in SUBSET Idle : ReleaseOneoff(TRUE, u, V)
    BY <1>3 DEF OneoffSpawnFails
  <2>2. /\ rst[r] = "attached" /\ rplace[r] = "oneoff" /\ rst' = [rst EXCEPT ![r] = "refused"]
        /\ rplace' = [rplace EXCEPT ![r] = "none"]
        /\ RetireDropped /\ UNCHANGED <<store, rpfx, rcaps, rinst, rout, thread>>
    BY <1>3 DEF OneoffSpawnFails
  <2>3. RegTypeOK'
    BY <1>1, <2>1, OneoffType
  <2>4. RunTypeOK' /\ RunShape' /\ PooledFrame
    BY <1>1, <2>2 DEF RunTypeOK, RunShape, PooledFrame
  <2>5. ChanTypeOK' /\ ChanShape'
    BY <1>1, <2>2, RetireDroppedChan DEF RunTypeOK
  <2>6. r \in OneoffHolders /\ OneoffHolders' = OneoffHolders \ {r}
    BY <1>1, <2>2 DEF OneoffHolders, RunTypeOK
  <2>7. Ledger'
    BY <2>1, <2>4, <2>6, SlotLedger DEF ReleaseOneoff
  <2> QED BY <2>3, <2>4, <2>5, <2>7, Assemble
<1> QED BY <1>2, <1>3

\* The release hook.
LEMMA FinishSteps ==
  ASSUME LedgerInv, NEW r \in Runs, BreakPrefix(r) \/ ReleasePooled(r) \/ ReleaseUnpooled(r)
  PROVE  LedgerInv'
<1>1. RegTypeOK /\ RunTypeOK /\ RunShape /\ TypeOK /\ ChanShape /\ Ledger
  BY Assemble
<1> USE DEF Goto, Holding, RunStates
<1>2. CASE BreakPrefix(r)
  <2>1. RunTypeOK'
    BY <1>1, <1>2 DEF BreakPrefix, RunTypeOK
  <2>2. RunShape' /\ RunFrame
    BY <1>1, <1>2 DEF BreakPrefix, RunTypeOK, RunShape, RunFrame
  <2>3. \A q \in Runs : rst[q] = "queued" => rst'[q] = "queued" /\ rinst'[q] = rinst[q]
    BY <1>1, <1>2 DEF BreakPrefix, RunTypeOK
  <2>4. CASE store[rpfx[r]] = "ready"
    <3>1. DisposePrefix(rpfx[r]) /\ RetireDropped
      BY <1>2, <2>4 DEF BreakPrefix
    <3> QED BY <1>1, <2>1, <2>2, <2>3, <3>1, DisposeLedger, RetireDroppedChan, Assemble
  <2>5. CASE store[rpfx[r]] # "ready"
    <3>1. UNCHANGED regVars /\ chan' = chan
      BY <1>2, <2>5 DEF BreakPrefix
    <3> QED BY <1>1, <2>1, <2>2, <2>3, <3>1, QuietLedger, SameChan, Assemble
  <2> QED BY <2>4, <2>5
<1>3. CASE ReleasePooled(r)
  <2>1. PICK u \in Samples, h \in HeapSizes, V \in SUBSET pool :
          Release(rpfx[r], rinst[r], rout[r] # "clean", h, store[rpfx[r]] = "ready", u, V)
    BY <1>3 DEF ReleasePooled
  <2>2. /\ rst[r] \in {"ending", "broke"} /\ rplace[r] = "pooled"
        /\ rst' = [rst EXCEPT ![r] = "released"] /\ RetireDropped
        /\ UNCHANGED <<store, rpfx, rcaps, rinst, rplace, rout, thread>>
    BY <1>3 DEF ReleasePooled, Releasing
  <2>3. RegTypeOK' /\ Ledger'
    BY <2>1, <2>2, ReleaseLedger
  <2>4. RunTypeOK' /\ RunShape'
    BY <1>1, <2>2 DEF RunTypeOK, RunShape
  <2>5. ChanTypeOK' /\ ChanShape'
    BY <1>1, <2>2, RetireDroppedChan DEF RunTypeOK
  <2> QED BY <2>3, <2>4, <2>5, Assemble
<1>4. CASE ReleaseUnpooled(r)
  <2>1. PICK u \in Samples, V \in SUBSET Idle : ReleaseOneoff(rout[r] # "clean", u, V)
    BY <1>4 DEF ReleaseUnpooled
  <2>2. /\ rst[r] \in {"ending", "broke"} /\ rplace[r] \in {"cold", "oneoff"}
        /\ rst' = [rst EXCEPT ![r] = "released"]
        /\ UNCHANGED <<store, rpfx, rcaps, rinst, rplace, rout, thread>>
    BY <1>4 DEF ReleaseUnpooled, Releasing
  <2>3. RegTypeOK'
    BY <1>1, <2>1, OneoffType
  <2>4. RunTypeOK' /\ RunShape' /\ PooledFrame
    BY <1>1, <2>2 DEF RunTypeOK, RunShape, PooledFrame
  <2>5. ChanTypeOK' /\ ChanShape'
    <3>1. chan' = [i \in Instances |->
                     IF (i \in pool \ pool' \/ i = rinst[r]) /\ thread[i] # "gone"
                     THEN Append(chan[i], Retire) ELSE chan[i]]
      BY <1>4 DEF ReleaseUnpooled
    <3>2. \A i \in Instances : chan[i] \in Seq(Runs \cup {Retire})
                               /\ Append(chan[i], Retire) \in Seq(Runs \cup {Retire})
      BY <1>1, AppendProperties DEF TypeOK
    <3>3. chan' \in [Instances -> Seq(Runs \cup {Retire})]
      BY <3>1, <3>2
    <3>4. \A i \in Instances : chan'[i] = chan[i] \/ chan'[i] = Append(chan[i], Retire)
      BY <3>1
    <3>5. \A q \in Runs : rst[q] = "queued" => rst'[q] = "queued" /\ rinst'[q] = rinst[q]
      BY <1>1, <2>2 DEF RunTypeOK
    <3> QED BY <1>1, <3>3, <3>4, <3>5, ChanGrows DEF ChanTypeOK
  <2>6. r \in OneoffHolders /\ OneoffHolders' = OneoffHolders \ {r}
    BY <1>1, <2>2 DEF OneoffHolders, RunTypeOK
  <2>7. Ledger'
    BY <2>1, <2>4, <2>6, SlotLedger DEF ReleaseOneoff
  <2> QED BY <2>3, <2>4, <2>5, <2>7, Assemble
<1> QED BY <1>2, <1>3, <1>4
-----------------------------------------------------------------------------
(***************************************************************************)
(* The theorems.                                                           *)
(***************************************************************************)
\* The initial state satisfies the invariant.
LEMMA LedgerInit == Init => LedgerInv
<1> SUFFICES ASSUME Init PROVE LedgerInv
  OBVIOUS
<1>1. RegTypeOK
  <2>1. Cores \in Allowances /\ 0 \in 0..(RecomputeEvery - 1)
    BY RegistryAssumptions DEF RegistryAssumptions
  <2>2. PoolTypeOK
    BY DEF Init, RegInit, PoolTypeOK
  <2>3. DemandTypeOK
    BY <2>1 DEF Init, RegInit, DemandTypeOK
  <2>4. /\ entries \subseteq Prefixes
        /\ total \in Nat /\ oneoffRunning \in Nat /\ idleTotal \in Nat
        /\ shedding \in BOOLEAN /\ lastPass \in Nat \cup {NoPass}
    BY DEF Init, RegInit
  <2> QED BY <2>2, <2>3, <2>4 DEF RegTypeOK, PoolTypeOK, DemandTypeOK
<1>2. TypeOK
  BY <1>1 DEF Init, TypeOK, RunStates, ThreadStates
<1>3. RunShape /\ PoolShape /\ DeadAreBusy
  BY DEF Init, RegInit, RunShape, PoolShape, DeadAreBusy, Holding
<1>4. ChanShape
  BY DEF Init, ChanShape
<1>5. pool = {} /\ Idle = {} /\ OneoffHolders = {} /\ \A i \in Instances : Attached(i) = {}
  BY DEF Init, RegInit, Idle, OneoffHolders, Attached, OnInstance, Holding
<1>6. InFlightExact /\ LedgerExact
  BY <1>5, FS_EmptySet DEF Init, RegInit, InFlightExact, LedgerExact
<1> QED BY <1>2, <1>3, <1>4, <1>6 DEF LedgerInv

\* Every step preserves it.
LEMMA LedgerStep == LedgerInv /\ [Next]_vars => LedgerInv'
<1> SUFFICES ASSUME LedgerInv, [Next]_vars PROVE LedgerInv'
  OBVIOUS
<1>1. CASE StoreStep
  BY <1>1, StoreSteps DEF StoreStep
<1>2. ASSUME NEW r \in Runs, StartStep(r) PROVE LedgerInv'
  BY <1>2, QuietRunSteps, AcquireSteps, OneoffSteps DEF StartStep
<1>3. ASSUME NEW r \in Runs, FinishStep(r) PROVE LedgerInv'
  BY <1>3, QuietRunSteps, FinishSteps DEF FinishStep
<1>4. ASSUME NEW i \in Instances, ThreadStep(i) PROVE LedgerInv'
  BY <1>4, ThreadSteps
<1>5. CASE UNCHANGED vars
  <2>1. RegTypeOK /\ RunTypeOK /\ RunShape /\ TypeOK /\ ChanShape /\ Ledger
    BY Assemble
  <2>2. RunTypeOK' /\ RunShape' /\ RunFrame
    BY <1>5, <2>1 DEF vars, runVars, RunTypeOK, RunShape, RunFrame
  <2>3. ChanTypeOK' /\ ChanShape'
    BY <1>5, <2>1, SameChan DEF vars, runVars
  <2>4. RegTypeOK' /\ Ledger'
    BY <1>5, <2>2, QuietLedger DEF vars
  <2> QED BY <2>2, <2>3, <2>4, Assemble
<1> QED BY <1>1, <1>2, <1>3, <1>4, <1>5 DEF Next

\* The invariant holds throughout.
LEMMA LedgerInvariant == Spec => []LedgerInv
BY LedgerInit, LedgerStep, PTL DEF Spec

\* Type correctness, whatever the constants.  (It needs the ledger: that a
\* release finds its instance in the pool with a prefix is part of it.)
THEOREM TypeCorrect == Spec => []TypeOK
<1>1. LedgerInv => TypeOK
  BY DEF LedgerInv
<1> QED BY <1>1, LedgerInvariant, PTL

\* The registry's maintained counters are exact: total, idle_total and
\* oneoff_running always equal a recount, so no saturating subtraction of
\* warm.rs ever saturates and nothing is counted twice or leaked.
THEOREM LedgerCorrect == Spec => []LedgerExact
<1>1. LedgerInv => LedgerExact
  BY DEF LedgerInv
<1> QED BY <1>1, LedgerInvariant, PTL

\* in_flight is exactly the runs that hold the instance, and a run never finds
\* the instance it holds evicted, dropped or given to another prefix or caps.
THEOREM InFlightCorrect == Spec => []InFlightExact
<1>1. LedgerInv => InFlightExact
  BY DEF LedgerInv
<1> QED BY <1>1, LedgerInvariant, PTL

\* A dead instance stays only while a run that will drop it holds it.
THEOREM DeadAreBusyCorrect == Spec => []DeadAreBusy
<1>1. LedgerInv => DeadAreBusy
  BY DEF LedgerInv
<1> QED BY <1>1, LedgerInvariant, PTL
-----------------------------------------------------------------------------
(***************************************************************************)
(* Instances and their owner threads.                                      *)
(***************************************************************************)
\* An instance handed out for one call is outside the pool and nobody else's.
ColdAlone ==
  \A r \in Runs : rst[r] \in Holding /\ rplace[r] = "cold" =>
    /\ rinst[r] \in Instances /\ rinst[r] \notin pool
    /\ \A q \in Runs : q # r /\ rst[q] \in Holding => rinst[q] # rinst[r]

\* A thread that is gone took its channel with it.
GoneIsEmpty == \A i \in Instances : thread[i] = "gone" => chan[i] = << >>

\* A run that is being finished had its thread past the boot, and one that
\* ended clean finds the thread still in its loop.
EndingServed ==
  \A r \in Runs : rst[r] \in {"ending", "broke"} /\ rinst[r] \in Instances =>
    /\ thread[rinst[r]] # "boot"
    /\ rout[r] = "clean" => thread[rinst[r]] = "serve"

\* An idle instance's prefix is ready and its thread is in its loop.
IdleServes == \A i \in Idle : store[pfx[i]] = "ready" /\ thread[i] = "serve"

\* The inductive invariant behind ThreadsServe, on top of LedgerInv.
ServeInv ==
  /\ ColdAlone
  /\ GoneIsEmpty
  /\ EndingServed
  /\ IdleServes
  /\ RetireIsLast
  /\ NoLiveRunOnDeadThread

\* Retire has been sent to i and not received.
HasRetire(i) == \E k \in 1..Len(chan[i]) : chan[i][k] = Retire

\* A channel holds a Retire, a job of a run that is still queued, or nothing.
LEMMA EmptyChan ==
  ASSUME LedgerInv, NEW i \in Instances, ~HasRetire(i),
         \A q \in Runs : ~(rst[q] = "queued" /\ rinst[q] = i)
  PROVE  chan[i] = << >>
<1>1. chan[i] \in Seq(Runs \cup {Retire}) /\ Len(chan[i]) \in Nat
  BY DEF LedgerInv, TypeOK
<1>2. SUFFICES ASSUME chan[i] # << >> PROVE FALSE
  OBVIOUS
<1>3. 1 \in 1..Len(chan[i])
  BY <1>1, <1>2, EmptySeq
<1>4. chan[i][1] \in Runs /\ chan[i][1] # Retire
  BY <1>1, <1>3 DEF HasRetire
<1>5. rst[chan[i][1]] = "queued" /\ rinst[chan[i][1]] = i
  BY <1>3, <1>4 DEF LedgerInv, ChanShape
<1> QED BY <1>4, <1>5

\* A run on a pooled instance was attached to it through the pool.
LEMMA OnPooled ==
  ASSUME LedgerInv, ServeInv, NEW i \in pool
  PROVE  OnInstance(i) = Attached(i)
<1>1. i \in Instances /\ i # NoInstance
  BY EngineAssumptions DEF LedgerInv, TypeOK, RegTypeOK, EngineAssumptions
<1>2. ASSUME NEW r \in OnInstance(i) PROVE rplace[r] = "pooled"
  <2>1. r \in Runs /\ rinst[r] = i /\ rst[r] \in Holding
    BY DEF OnInstance
  <2>2. rplace[r] \in {"none", "pooled", "cold", "oneoff"}
    BY <2>1 DEF LedgerInv, TypeOK
  <2>3. rplace[r] # "none" /\ rplace[r] # "oneoff"
    BY <1>1, <2>1 DEF LedgerInv, RunShape
  <2>4. rplace[r] # "cold"
    BY <2>1 DEF ServeInv, ColdAlone
  <2> QED BY <2>2, <2>3, <2>4
<1> QED BY <1>2 DEF Attached

\* An idle instance has no run and an empty channel.
LEMMA IdleQuiet ==
  ASSUME LedgerInv, ServeInv
  PROVE  IdleIsUsable
<1> SUFFICES ASSUME NEW i \in Idle
             PROVE  /\ store[pfx[i]] = "ready" /\ thread[i] = "serve"
                    /\ chan[i] = << >> /\ OnInstance(i) = {}
  BY DEF IdleIsUsable
<1>1. i \in pool /\ i \in Instances /\ inFlight[i] = 0
  BY DEF Idle, LedgerInv, TypeOK, RegTypeOK
<1>2. OnInstance(i) = {}
  <2>1. Cardinality(Attached(i)) = 0
    BY <1>1 DEF LedgerInv, InFlightExact
  <2>2. Attached(i) = {}
    BY <2>1, AttachedFinite, FS_EmptySet
  <2> QED BY <1>1, <2>2, OnPooled
<1>3. ~HasRetire(i)
  BY <1>1 DEF ServeInv, RetireIsLast, HasRetire
<1>4. \A q \in Runs : ~(rst[q] = "queued" /\ rinst[q] = i)
  BY <1>2 DEF OnInstance, Holding
<1>5. chan[i] = << >>
  BY <1>1, <1>3, <1>4, EmptyChan
<1> QED BY <1>2, <1>5 DEF ServeInv, IdleServes

\* The handles of D drop: Retire, to every thread that still receives.
HandlesDrop(D) ==
  chan' = [i \in Instances |->
             IF i \in D /\ thread[i] # "gone"
             THEN Append(chan[i], Retire) ELSE chan[i]]

\* Nobody needs the instances of D any more, now and after the step.
LeftAlone(D) ==
  \A i \in D : /\ i \notin pool' /\ thread[i] # "boot"
               /\ chan[i] = << >> /\ OnInstance(i)' = {}

\* A retired instance gets no run and does not come back.
RetiredStayOut ==
  \A i \in Instances : thread[i] = "retiring" \/ HasRetire(i) =>
                         i \notin pool' /\ OnInstance(i)' = {}

\* The step starts and ends no turn; at most it boots unused threads.
ThreadsGoOn ==
  /\ \A q \in Runs : rst'[q] = "live" => rst[q] = "live" /\ rinst'[q] = rinst[q]
  /\ \A q \in Runs : rst'[q] \in {"ending", "broke"} =>
       rst[q] \in {"ending", "broke"} /\ rinst'[q] = rinst[q] /\ rout'[q] = rout[q]
  /\ \A i \in Instances :
       \/ thread'[i] = thread[i]
       \/ thread[i] = "gone" /\ thread'[i] = "boot" /\ \A q \in Runs : rinst[q] # i

\* The handles of D drop, all of them quiet, and at most one thread boots.
LEMMA LetGo ==
  ASSUME LedgerInv, ServeInv, NEW D \in SUBSET Instances, HandlesDrop(D),
         LeftAlone(D), RetiredStayOut,
         ThreadsGoOn
  PROVE  GoneIsEmpty' /\ EndingServed' /\ RetireIsLast' /\ NoLiveRunOnDeadThread'
<1>1. \A i \in Instances :
        IF i \in D /\ thread[i] # "gone" THEN chan'[i] = << Retire >> ELSE chan'[i] = chan[i]
  <2>1. Append(<< >>, Retire) = << Retire >>
    OBVIOUS
  <2> QED BY <2>1 DEF HandlesDrop, LeftAlone
<1>2. GoneIsEmpty'
  BY <1>1 DEF GoneIsEmpty, ServeInv, ThreadsGoOn
<1>3. EndingServed'
  BY DEF EndingServed, ServeInv, ThreadsGoOn
<1>4. NoLiveRunOnDeadThread'
  BY DEF NoLiveRunOnDeadThread, ServeInv, Live, ThreadsGoOn
<1>5. RetireIsLast'
  <2> SUFFICES ASSUME NEW i \in Instances, thread'[i] = "retiring" \/ HasRetire(i)'
               PROVE  i \notin pool' /\ OnInstance(i)' = {} /\ thread'[i] # "boot" /\ Len(chan'[i]) <= 1
    BY DEF RetireIsLast, HasRetire
  <2>1. CASE i \in D /\ thread[i] # "gone"
    <3>1. chan'[i] = << Retire >> /\ Len(<< Retire >>) = 1
      BY <1>1, <2>1
    <3>2. i \notin pool' /\ OnInstance(i)' = {} /\ thread'[i] # "boot"
      BY <2>1 DEF LeftAlone, ThreadsGoOn
    <3> QED BY <3>1, <3>2
  <2>2. CASE ~(i \in D /\ thread[i] # "gone")
    <3>1. chan'[i] = chan[i]
      BY <1>1, <2>2
    <3>2. HasRetire(i)' => HasRetire(i)
      BY <3>1 DEF HasRetire
    <3>3. CASE thread'[i] = thread[i]
      BY <3>1, <3>2, <3>3 DEF ServeInv, RetireIsLast, RetiredStayOut, HasRetire
    <3>4. CASE thread[i] = "gone" /\ thread'[i] = "boot"
      <4>1. chan[i] = << >>
        BY <3>4 DEF ServeInv, GoneIsEmpty
      <4>2. ~HasRetire(i)
        BY <4>1 DEF HasRetire
      <4> QED BY <3>2, <3>4, <4>2
    <3> QED BY <3>3, <3>4 DEF ThreadsGoOn
  <2> QED BY <2>1, <2>2
<1> QED BY <1>2, <1>3, <1>4, <1>5

\* What every step that only evicts does: V are its victims, D the handles
\* that drop with them, and a run that got an instance got an unused one.
LEMMA EvictServes ==
  ASSUME LedgerInv, ServeInv, NEW V \in SUBSET Idle, EvictOnly(V), store' = store,
         NEW D \in SUBSET Instances, V \subseteq D, HandlesDrop(D),
         \A i \in D \ V : /\ i \notin pool /\ thread[i] # "boot"
                          /\ chan[i] = << >> /\ OnInstance(i)' = {},
         \A q \in Runs : rst'[q] \in Holding =>
           \/ rst[q] \in Holding /\ rinst'[q] = rinst[q]
           \/ rinst'[q] \notin Instances
           \/ Unused(rinst'[q]),
         ThreadsGoOn,
         ColdAlone'
  PROVE  ServeInv'
<1>1. pool' = pool \ V /\ dead' = dead /\ inFlight' = inFlight
      /\ pfx' = [i \in Instances |-> IF i \in pool \ V THEN pfx[i] ELSE NoPrefix]
  BY DEF EvictOnly, KeepOnly, Keep
<1>2. pool \subseteq Instances
  BY DEF LedgerInv, TypeOK, RegTypeOK
<1>3. Idle' \subseteq Idle /\ \A i \in Idle' : pfx'[i] = pfx[i]
  BY <1>1, <1>2 DEF Idle
<1>4. \A i \in Idle : /\ store[pfx[i]] = "ready" /\ thread[i] = "serve"
                      /\ chan[i] = << >> /\ OnInstance(i) = {}
  BY IdleQuiet DEF IdleIsUsable
<1>5. IdleServes'
  BY <1>2, <1>3, <1>4 DEF IdleServes, Idle, ThreadsGoOn
<1>6. \A i \in Instances : OnInstance(i) = {} /\ ~Unused(i) => OnInstance(i)' = {}
  BY DEF OnInstance
<1>7. \A i \in V : i \notin pool' /\ thread[i] # "boot" /\ chan[i] = << >> /\ OnInstance(i)' = {}
  BY <1>1, <1>2, <1>4, <1>6 DEF Unused, Idle
<1>8. LeftAlone(D)
  BY <1>1, <1>7 DEF LeftAlone
<1>9. RetiredStayOut
  <2> SUFFICES ASSUME NEW i \in Instances, thread[i] = "retiring" \/ HasRetire(i)
               PROVE  i \notin pool' /\ OnInstance(i)' = {}
    BY DEF RetiredStayOut
  <2>1. i \notin pool /\ OnInstance(i) = {}
    BY DEF ServeInv, RetireIsLast, HasRetire
  <2>2. thread[i] # "gone"
    BY DEF ServeInv, GoneIsEmpty, HasRetire
  <2> QED BY <1>1, <1>6, <2>1, <2>2 DEF Unused
<1>10. GoneIsEmpty' /\ EndingServed' /\ RetireIsLast' /\ NoLiveRunOnDeadThread'
  BY <1>8, <1>9, LetGo
<1> QED BY <1>5, <1>10 DEF ServeInv

\* acquire puts run r on a pooled or a new instance; its victims are idle.
LEMMA AttachServes ==
  ASSUME LedgerInv, ServeInv, NEW r \in Runs, rst[r] = "looked", NEW i \in Instances,
         NEW V \in SUBSET Idle, NEW p, NEW c, NEW n \in Nat \ {0},
         Attach(p, c, V, i, n), Takes(r, i, "pooled"),
         i \in pool \ V \/ Unused(i),
         thread' = thread \/ (Unused(i) /\ thread' = [thread EXCEPT ![i] = "boot"]),
         RetireDropped, store' = store
  PROVE  ServeInv'
<1>1. /\ pool' = (pool \ V) \cup {i} /\ dead' = dead
      /\ inFlight' = [inFlight EXCEPT ![i] = n]
      /\ pfx' = [[j \in Instances |-> IF j \in pool \ V THEN pfx[j] ELSE NoPrefix] EXCEPT ![i] = p]
  BY DEF Attach, Keep
<1>2. /\ pool \subseteq Instances /\ inFlight \in [Instances -> Nat]
      /\ thread \in [Instances -> ThreadStates] /\ V \subseteq pool
      /\ rst \in [Runs -> RunStates] /\ rinst \in [Runs -> Instances \cup {NoInstance}]
      /\ rplace \in [Runs -> {"none", "pooled", "cold", "oneoff"}]
  BY DEF LedgerInv, TypeOK, RegTypeOK, Idle
<1>3. /\ rst' = [rst EXCEPT ![r] = "attached"] /\ rinst' = [rinst EXCEPT ![r] = i]
      /\ rplace' = [rplace EXCEPT ![r] = "pooled"] /\ rout' = rout
  BY DEF Takes, Goto
<1>4. Idle' \subseteq Idle /\ i \notin Idle' /\ \A j \in Idle' : pfx'[j] = pfx[j]
  BY <1>1, <1>2 DEF Idle
<1>5. \A j \in Idle : /\ store[pfx[j]] = "ready" /\ thread[j] = "serve"
                      /\ chan[j] = << >> /\ OnInstance(j) = {}
  BY IdleQuiet DEF IdleIsUsable
<1>6. IdleServes'
  <2>1. \A j \in Idle' : j \in Instances /\ thread'[j] = thread[j]
    BY <1>2, <1>4 DEF Idle
  <2> QED BY <1>4, <1>5, <2>1 DEF IdleServes
<1>7. pool \ pool' = V
  BY <1>1, <1>2 DEF Unused
<1>8. HandlesDrop(V)
  BY <1>7 DEF HandlesDrop, RetireDropped
<1>9. \A j \in Instances \ {i} : OnInstance(j)' \subseteq OnInstance(j)
  BY <1>2, <1>3 DEF OnInstance, Holding
<1>10. LeftAlone(V)
  BY <1>1, <1>2, <1>5, <1>7, <1>9 DEF LeftAlone, Unused
<1>11. RetiredStayOut
  <2> SUFFICES ASSUME NEW j \in Instances, thread[j] = "retiring" \/ HasRetire(j)
               PROVE  j \notin pool' /\ OnInstance(j)' = {}
    BY DEF RetiredStayOut
  <2>1. j \notin pool /\ OnInstance(j) = {}
    BY DEF ServeInv, RetireIsLast, HasRetire
  <2>2. thread[j] # "gone"
    BY DEF ServeInv, GoneIsEmpty, HasRetire
  <2>3. j # i
    BY <2>1, <2>2 DEF Unused
  <2> QED BY <1>1, <1>9, <2>1, <2>3
<1>12. ThreadsGoOn
  <2>1. /\ \A q \in Runs : rst'[q] = "live" => rst[q] = "live" /\ rinst'[q] = rinst[q]
        /\ \A q \in Runs : rst'[q] \in {"ending", "broke"} =>
             rst[q] \in {"ending", "broke"} /\ rinst'[q] = rinst[q] /\ rout'[q] = rout[q]
    BY <1>2, <1>3
  <2>2. \A j \in Instances :
          \/ thread'[j] = thread[j]
          \/ thread[j] = "gone" /\ thread'[j] = "boot" /\ \A q \in Runs : rinst[q] # j
    BY <1>2 DEF Unused
  <2> QED BY <2>1, <2>2 DEF ThreadsGoOn
<1>13. V \in SUBSET Instances
  BY <1>2
<1>14. GoneIsEmpty' /\ EndingServed' /\ RetireIsLast' /\ NoLiveRunOnDeadThread'
  BY <1>8, <1>10, <1>11, <1>12, <1>13, LetGo
<1>15. ColdAlone'
  <2> SUFFICES ASSUME NEW q \in Runs, rst'[q] \in Holding, rplace'[q] = "cold"
               PROVE  /\ rinst'[q] \in Instances /\ rinst'[q] \notin pool'
                      /\ \A s \in Runs : s # q /\ rst'[s] \in Holding => rinst'[s] # rinst'[q]
    BY DEF ColdAlone
  <2>1. q # r /\ rst[q] \in Holding /\ rplace[q] = "cold" /\ rinst'[q] = rinst[q]
    BY <1>2, <1>3
  <2>2. /\ rinst[q] \in Instances /\ rinst[q] \notin pool
        /\ \A s \in Runs : s # q /\ rst[s] \in Holding => rinst[s] # rinst[q]
    BY <2>1 DEF ServeInv, ColdAlone
  <2>3. rinst[q] # i
    BY <2>1, <2>2 DEF Unused
  <2> QED BY <1>1, <1>2, <1>3, <2>1, <2>2, <2>3
<1> QED BY <1>6, <1>14, <1>15 DEF ServeInv

\* The step evicts V and no run gets an instance.
LEMMA EvictAlone ==
  ASSUME LedgerInv, ServeInv, NEW V \in SUBSET Idle, EvictOnly(V), store' = store,
         RetireDropped, thread' = thread,
         \A q \in Runs : rst'[q] \in Holding =>
           /\ rst[q] \in Holding \/ rinst'[q] \notin Instances
           /\ rst[q] \in Holding => rplace'[q] = rplace[q] /\ rst'[q] = rst[q]
           /\ rinst'[q] = rinst[q] /\ rout'[q] = rout[q]
           /\ rst[q] \notin Holding => rst'[q] = "attached" /\ rplace'[q] # "cold"
  PROVE  ServeInv'
<1>0. pool \subseteq Instances /\ V \subseteq pool
  BY DEF LedgerInv, TypeOK, RegTypeOK, Idle
<1>1. pool' = pool \ V
  BY DEF EvictOnly, KeepOnly
<1>2. HandlesDrop(V) /\ V \subseteq V /\ V \in SUBSET Instances /\ V \ V = {}
  BY <1>0, <1>1 DEF HandlesDrop, RetireDropped
<1>3. ThreadsGoOn
  BY DEF ThreadsGoOn, Holding
<1>4. ColdAlone'
  BY <1>1 DEF ColdAlone, ServeInv
<1> QED BY <1>2, <1>3, <1>4, EvictServes

\* The three outcomes of acquire.
LEMMA AcquireServes ==
  ASSUME LedgerInv, ServeInv, NEW r \in Runs,
         AcquireExisting(r) \/ AcquireNew(r) \/ AcquireFails(r)
  PROVE  ServeInv'
<1>0. pool \subseteq Instances /\ inFlight \in [Instances -> Nat]
  BY DEF LedgerInv, TypeOK, RegTypeOK
<1>1. CASE AcquireExisting(r)
  <2>1. PICK u \in Samples, V \in SUBSET Idle, i \in pool :
          /\ \/ AcquireReuse(rpfx[r], rcaps[r], u, V, i)
             \/ \E hot \in SUBSET pool, high \in BOOLEAN :
                  AcquireJoin(rpfx[r], rcaps[r], u, V, hot, high, i)
          /\ Takes(r, i, "pooled")
    BY <1>1 DEF AcquireExisting
  <2>2. i \in Instances /\ inFlight[i] + 1 \in Nat \ {0} /\ 1 \in Nat \ {0}
    BY <1>0
  <2>3. rst[r] = "looked" /\ RetireDropped /\ store' = store /\ thread' = thread
    BY <1>1 DEF AcquireExisting
  <2>4. CASE AcquireReuse(rpfx[r], rcaps[r], u, V, i)
    <3>1. i \in pool \ V /\ Attach(rpfx[r], rcaps[r], V, i, 1)
      BY <2>4 DEF AcquireReuse, Warmest, Reusable, Joinable, LiveOf
    <3> QED BY <2>1, <2>2, <2>3, <3>1, AttachServes
  <2>5. CASE \E hot \in SUBSET pool, high \in BOOLEAN :
               AcquireJoin(rpfx[r], rcaps[r], u, V, hot, high, i)
    <3>1. i \in pool \ V /\ Attach(rpfx[r], rcaps[r], V, i, inFlight[i] + 1)
      BY <2>5 DEF AcquireJoin, JoinTargets, PickJoinTarget, JoinFallback, Joinable, LiveOf
    <3> QED BY <2>1, <2>2, <2>3, <3>1, AttachServes
  <2> QED BY <2>1, <2>4, <2>5
<1>2. CASE AcquireNew(r)
  <2>1. PICK u \in Samples, V \in SUBSET Idle, i \in Instances :
          /\ Spawns(i)
          /\ \/ \E hot \in SUBSET pool, high \in BOOLEAN :
                  /\ AcquireSpawn(rpfx[r], rcaps[r], u, V, hot, high, i)
                  /\ Takes(r, i, "pooled")
             \/ /\ AcquireCold(rpfx[r], rcaps[r], u, V)
                /\ Takes(r, i, "cold")
    BY <1>2 DEF AcquireNew
  <2>2. Unused(i) /\ thread' = [thread EXCEPT ![i] = "boot"] /\ 1 \in Nat \ {0}
    BY <2>1 DEF Spawns
  <2>3. rst[r] = "looked" /\ RetireDropped /\ store' = store
    BY <1>2 DEF AcquireNew
  <2>4. CASE \E hot \in SUBSET pool, high \in BOOLEAN :
               /\ AcquireSpawn(rpfx[r], rcaps[r], u, V, hot, high, i)
               /\ Takes(r, i, "pooled")
    <3>1. Attach(rpfx[r], rcaps[r], V, i, 1) /\ Takes(r, i, "pooled")
      BY <2>4 DEF AcquireSpawn
    <3> QED BY <2>2, <2>3, <3>1, AttachServes
  <2>5. CASE AcquireCold(rpfx[r], rcaps[r], u, V) /\ Takes(r, i, "cold")
    <3>0. /\ thread \in [Instances -> ThreadStates] /\ V \subseteq pool
          /\ rst \in [Runs -> RunStates] /\ rinst \in [Runs -> Instances \cup {NoInstance}]
          /\ rplace \in [Runs -> {"none", "pooled", "cold", "oneoff"}]
      BY DEF LedgerInv, TypeOK, RegTypeOK, Idle
    <3>1. EvictOnly(V) /\ pool' = pool \ V
      BY <2>5 DEF AcquireCold, EvictOnly, KeepOnly
    <3>2. /\ rst' = [rst EXCEPT ![r] = "attached"] /\ rinst' = [rinst EXCEPT ![r] = i]
          /\ rplace' = [rplace EXCEPT ![r] = "cold"] /\ rout' = rout
      BY <2>5 DEF Takes, Goto
    <3>3. HandlesDrop(V) /\ V \subseteq V /\ V \in SUBSET Instances /\ V \ V = {}
      BY <1>0, <2>3, <3>0, <3>1 DEF HandlesDrop, RetireDropped
    <3>4. ThreadsGoOn
      BY <2>2, <3>0, <3>2 DEF ThreadsGoOn, Unused
    <3>5. \A q \in Runs : rst'[q] \in Holding =>
            \/ rst[q] \in Holding /\ rinst'[q] = rinst[q]
            \/ rinst'[q] \notin Instances
            \/ Unused(rinst'[q])
      BY <2>2, <3>0, <3>2
    <3>6. ColdAlone'
      BY <2>2, <3>0, <3>1, <3>2 DEF ColdAlone, ServeInv, Unused
    <3> QED BY <2>3, <3>1, <3>3, <3>4, <3>5, <3>6, EvictServes
  <2> QED BY <2>1, <2>4, <2>5
<1>3. CASE AcquireFails(r)
  <2>1. PICK u \in Samples, V \in SUBSET Idle :
          \/ AcquireRefused(rpfx[r], rcaps[r], u, V)
          \/ \E hot \in SUBSET pool, high \in BOOLEAN :
               AcquireSpawnFailed(rpfx[r], rcaps[r], u, V, hot, high)
    BY <1>3 DEF AcquireFails
  <2>2. /\ rst[r] = "looked" /\ rst' = [rst EXCEPT ![r] = "refused"] /\ RetireDropped
        /\ store' = store /\ UNCHANGED <<rinst, rplace, rout, thread>>
    BY <1>3 DEF AcquireFails, Goto
  <2>3. EvictOnly(V)
    BY <2>1 DEF AcquireRefused, AcquireSpawnFailed
  <2> QED BY <2>2, <2>3, EvictAlone DEF Holding
<1> QED BY <1>1, <1>2, <1>3

\* One-off runs hold no instance: their slots only evict.
LEMMA OneoffServes ==
  ASSUME LedgerInv, ServeInv, NEW r \in Runs,
         (\E c \in Caps : OneoffReserve(r, c)) \/ OneoffSpawnFails(r)
  PROVE  ServeInv'
<1>0. /\ rst \in [Runs -> RunStates] /\ rinst \in [Runs -> Instances \cup {NoInstance}]
      /\ rplace \in [Runs -> {"none", "pooled", "cold", "oneoff"}] /\ RunShape
      /\ NoInstance \notin Instances
  BY EngineAssumptions DEF LedgerInv, TypeOK, EngineAssumptions
<1>1. ASSUME NEW c \in Caps, OneoffReserve(r, c) PROVE ServeInv'
  <2>1. PICK u \in Samples, V \in SUBSET Idle, ok \in BOOLEAN :
          /\ ReserveOneoff(c.hard, u, V, ok)
          /\ Goto(r, IF ok THEN "attached" ELSE "refused")
          /\ rplace' = [rplace EXCEPT ![r] = IF ok THEN "oneoff" ELSE "none"]
    BY <1>1 DEF OneoffReserve
  <2>2. rst[r] = "idle" /\ RetireDropped /\ UNCHANGED <<store, rinst, rout, thread>>
    BY <1>1 DEF OneoffReserve
  <2>3. EvictOnly(V)
    BY <2>1 DEF ReserveOneoff
  <2>4. rinst[r] \notin Instances
    BY <1>0, <2>2 DEF RunShape
  <2>5. \A q \in Runs : rst'[q] \in Holding =>
           /\ rst[q] \in Holding \/ rinst'[q] \notin Instances
           /\ rst[q] \in Holding => rplace'[q] = rplace[q] /\ rst'[q] = rst[q]
           /\ rinst'[q] = rinst[q] /\ rout'[q] = rout[q]
           /\ rst[q] \notin Holding => rst'[q] = "attached" /\ rplace'[q] # "cold"
    BY <1>0, <2>1, <2>2, <2>4 DEF Goto, Holding
  <2> QED BY <2>2, <2>3, <2>5, EvictAlone
<1>2. CASE OneoffSpawnFails(r)
  <2>1. PICK u \in Samples, V \in SUBSET Idle : ReleaseOneoff(TRUE, u, V)
    BY <1>2 DEF OneoffSpawnFails
  <2>2. /\ rst[r] = "attached" /\ rst' = [rst EXCEPT ![r] = "refused"]
        /\ rplace' = [rplace EXCEPT ![r] = "none"]
        /\ RetireDropped /\ UNCHANGED <<store, rinst, rout, thread>>
    BY <1>2 DEF OneoffSpawnFails, Goto
  <2>3. EvictOnly(V)
    BY <2>1 DEF ReleaseOneoff
  <2>4. \A q \in Runs : rst'[q] \in Holding =>
           /\ rst[q] \in Holding \/ rinst'[q] \notin Instances
           /\ rst[q] \in Holding => rplace'[q] = rplace[q] /\ rst'[q] = rst[q]
           /\ rinst'[q] = rinst[q] /\ rout'[q] = rout[q]
           /\ rst[q] \notin Holding => rst'[q] = "attached" /\ rplace'[q] # "cold"
    BY <1>0, <2>2 DEF Holding
  <2> QED BY <2>2, <2>3, <2>4, EvictAlone
<1> QED BY <1>1, <1>2

\* dispose_prefix, from a connection or behind a broken cold start: what it
\* drops is idle, what it keeps of the prefix is dead.
LEMMA DisposeServes ==
  ASSUME LedgerInv, ServeInv, NEW p, DisposePrefix(p), RetireDropped, thread' = thread,
         \A q \in Prefixes \ {p} : store'[q] = store[q],
         RunFrame, ThreadsGoOn
  PROVE  ServeInv'
<1> DEFINE D == Droppable(p)
<1>1. /\ pool \subseteq Instances /\ DeadAreBusy /\ inFlight \in [Instances -> Nat] /\ PoolShape
  BY DEF LedgerInv, TypeOK, RegTypeOK
<1>2. /\ pool' = pool \ D /\ inFlight' = inFlight
      /\ dead' = dead \cup ({i \in pool : pfx[i] = p} \ D)
      /\ pfx' = [i \in Instances |-> IF i \in pool \ D THEN pfx[i] ELSE NoPrefix]
  BY DEF DisposePrefix, KeepOnly, Keep
<1>3. D \subseteq Idle /\ D \subseteq pool /\ D \in SUBSET Instances
  BY <1>1 DEF Droppable, Idle, DeadAreBusy
<1>4. \A i \in Idle' : i \in Idle /\ pfx'[i] = pfx[i] /\ pfx[i] # p /\ pfx[i] \in Prefixes
  BY <1>1, <1>2 DEF Idle, PoolShape, Droppable
<1>5. \A i \in Idle : /\ store[pfx[i]] = "ready" /\ thread[i] = "serve"
                      /\ chan[i] = << >> /\ OnInstance(i) = {}
  BY IdleQuiet DEF IdleIsUsable
<1>6. IdleServes'
  BY <1>4, <1>5 DEF IdleServes
<1>7. \A i \in Instances : OnInstance(i)' = OnInstance(i)
  BY DEF OnInstance, RunFrame
<1> HIDE DEF D
<1>8. LeftAlone(D)
  BY <1>2, <1>3, <1>5, <1>7 DEF LeftAlone
<1>9. pool \ pool' = D
  BY <1>2, <1>3
<1>10. HandlesDrop(D)
  BY <1>9 DEF HandlesDrop, RetireDropped
<1>11. RetiredStayOut
  BY <1>2, <1>7 DEF RetiredStayOut, ServeInv, RetireIsLast, HasRetire
<1>12. GoneIsEmpty' /\ EndingServed' /\ RetireIsLast' /\ NoLiveRunOnDeadThread'
  BY <1>3, <1>8, <1>10, <1>11, LetGo
<1>13. ColdAlone'
  BY <1>2 DEF ColdAlone, ServeInv, RunFrame
<1> QED BY <1>6, <1>12, <1>13 DEF ServeInv

\* A pooled run releases its instance: dropped, idle again or still shared.
LEMMA PooledReleaseServes ==
  ASSUME LedgerInv, ServeInv, NEW r \in Runs, ReleasePooled(r)
  PROVE  ServeInv'
<1> DEFINE tainted == rout[r] # "clean"
           alive   == store[rpfx[r]] = "ready"
<1>0. PICK i : i = rinst[r]
  OBVIOUS
<1>1. PICK u \in Samples, h \in HeapSizes, V \in SUBSET pool :
        Release(rpfx[r], i, tainted, h, alive, u, V)
  BY <1>0 DEF ReleasePooled
<1> DEFINE left   == SatSub(inFlight[i], 1)
           doomed == DeadAfter(i, tainted, h, alive)
           drops  == i \in doomed /\ left = 0
           idles  == i \notin doomed /\ left = 0
           kept   == IF drops THEN pool \ {i} ELSE pool
           idle   == IF idles THEN Idle \cup {i} ELSE Idle \ {i}
           hp     == IF idles THEN [heap EXCEPT ![i] = h] ELSE heap
           old    == IF idles THEN Order(Idle) \cup {<<j, i>> : j \in Idle} ELSE older
           count  == idleTotal + (IF idles THEN 1 ELSE 0)
<1>2. /\ rst[r] \in {"ending", "broke"} /\ rplace[r] = "pooled"
      /\ rst' = [rst EXCEPT ![r] = "released"] /\ RetireDropped
      /\ UNCHANGED <<store, rpfx, rcaps, rinst, rplace, rout, thread>>
  BY DEF ReleasePooled, Releasing, Goto
<1>3. /\ pool \subseteq Instances /\ inFlight \in [Instances -> Nat] /\ idleTotal \in Nat
      /\ rst \in [Runs -> RunStates] /\ RunShape /\ InFlightExact /\ RegTypeOK
      /\ thread \in [Instances -> ThreadStates] /\ dead \subseteq Instances
  BY DEF LedgerInv, TypeOK, RegTypeOK
<1>4. /\ PressurePass(u, idle, count, hp, old, V)
      /\ KeepOnly(kept \ V)
      /\ inFlight' = [inFlight EXCEPT ![i] = left]
      /\ dead' = (IF drops THEN doomed \ {i} ELSE doomed)
  BY <1>1 DEF Release
<1>5. i \in Instances /\ r \in Attached(i) /\ i \in pool /\ pfx[i] = rpfx[r]
  <2>1. rst[r] \in Holding
    BY <1>2 DEF Holding
  <2>2. i \in Instances
    BY <1>0, <1>2, <1>3, <2>1 DEF RunShape
  <2>3. r \in Attached(i)
    BY <1>0, <1>2, <2>1 DEF Attached, OnInstance
  <2> QED BY <1>3, <2>2, <2>3 DEF InFlightExact
<1>6. /\ inFlight[i] \in Nat \ {0} /\ left = inFlight[i] - 1 /\ i \notin Idle
      /\ left = 0 => Attached(i) = {r}
  <2>1. inFlight[i] = Cardinality(Attached(i)) /\ IsFiniteSet(Attached(i))
    BY <1>3, <1>5, AttachedFinite DEF InFlightExact
  <2>2. Cardinality(Attached(i) \ {r}) = Cardinality(Attached(i)) - 1 /\ IsFiniteSet(Attached(i) \ {r})
    BY <1>5, <2>1, FS_RemoveElement
  <2>3. Cardinality(Attached(i) \ {r}) \in Nat
    BY <2>2, FS_CardinalityType
  <2>4. inFlight[i] \in Nat \ {0} /\ left = inFlight[i] - 1
    BY <1>3, <1>5, <2>1, <2>2, <2>3 DEF SatSub
  <2>5. ASSUME left = 0 PROVE Attached(i) = {r}
    <3>1. Attached(i) \ {r} = {}
      BY <2>1, <2>2, <2>4, <2>5, FS_EmptySet
    <3> QED BY <1>5, <3>1
  <2>6. i \notin Idle
    BY <2>4 DEF Idle
  <2> QED BY <2>4, <2>5, <2>6
<1>7. V \in SUBSET idle
  <2>1. count \in Nat
    BY <1>3
  <2> HIDE DEF idle, count, hp, old
  <2> QED BY <1>3, <1>4, <2>1, PassFacts, RegistryAssumptions
<1>8. /\ pool' = kept \ V
      /\ pfx' = [j \in Instances |-> IF j \in kept \ V THEN pfx[j] ELSE NoPrefix]
  BY <1>4 DEF KeepOnly, Keep
<1>9. doomed = dead \/ doomed = dead \cup {i}
  BY DEF DeadAfter
<1>10. i \notin doomed => rout[r] = "clean" /\ store[rpfx[r]] = "ready"
  BY DEF DeadAfter
<1>11. \A j \in pool \ pool' : j = i \/ j \in Idle
  BY <1>7, <1>8
<1>12. i \in pool \ pool' => left = 0
  BY <1>6, <1>7, <1>8
<1>13. i \in Idle' => i \notin doomed
  BY <1>4, <1>5, <1>8 DEF Idle
<1>14. \A j \in Idle' : j # i => j \in Idle
  BY <1>3, <1>4, <1>8, <1>9 DEF Idle
<1> HIDE DEF left, doomed, drops, idles, kept, idle, hp, old, count
<1>15. \A j \in Idle' : j \in Instances /\ pfx'[j] = pfx[j]
  BY <1>3, <1>8 DEF Idle, kept
<1>16. thread[i] # "boot" /\ (rout[r] = "clean" => thread[i] = "serve")
  BY <1>0, <1>2, <1>5 DEF ServeInv, EndingServed
<1>17. \A j \in Idle : /\ store[pfx[j]] = "ready" /\ thread[j] = "serve"
                       /\ chan[j] = << >> /\ OnInstance(j) = {}
  BY IdleQuiet DEF IdleIsUsable
<1>18. IdleServes'
  BY <1>2, <1>5, <1>10, <1>13, <1>14, <1>15, <1>16, <1>17 DEF IdleServes
<1>19. \A q \in Runs : rst'[q] \in Holding => rst[q] \in Holding /\ rst'[q] = rst[q] /\ q # r
  BY <1>2, <1>3 DEF Holding
<1>20. \A j \in Instances : OnInstance(j)' \subseteq OnInstance(j) \ {r}
  BY <1>2, <1>19 DEF OnInstance
<1> DEFINE D == pool \ pool'
<1>21. ASSUME i \in D PROVE OnInstance(i)' = {} /\ chan[i] = << >>
  <2>1. OnInstance(i) = {r}
    BY <1>5, <1>6, <1>12, <1>21, OnPooled
  <2>2. ~HasRetire(i)
    BY <1>5 DEF ServeInv, RetireIsLast, HasRetire
  <2>3. \A q \in Runs : ~(rst[q] = "queued" /\ rinst[q] = i)
    <3> SUFFICES ASSUME NEW q \in Runs, rst[q] = "queued", rinst[q] = i PROVE FALSE
      OBVIOUS
    <3>1. q \in OnInstance(i)
      BY DEF OnInstance, Holding
    <3> QED BY <1>2, <2>1, <3>1
  <2>4. chan[i] = << >>
    BY <1>5, <2>2, <2>3, EmptyChan
  <2> QED BY <1>5, <1>20, <2>1, <2>4
<1>22. LeftAlone(D)
  BY <1>3, <1>11, <1>16, <1>17, <1>20, <1>21 DEF LeftAlone
<1>23. HandlesDrop(D) /\ D \in SUBSET Instances
  BY <1>2, <1>3 DEF HandlesDrop, RetireDropped
<1>24. RetiredStayOut
  BY <1>8, <1>20 DEF RetiredStayOut, ServeInv, RetireIsLast, HasRetire, kept
<1>25. ThreadsGoOn
  BY <1>2, <1>3 DEF ThreadsGoOn
<1> HIDE DEF D
<1>26. GoneIsEmpty' /\ EndingServed' /\ RetireIsLast' /\ NoLiveRunOnDeadThread'
  BY <1>22, <1>23, <1>24, <1>25, LetGo
<1>27. pool' \subseteq pool
  BY <1>8 DEF kept
<1>28. ColdAlone'
  BY <1>2, <1>19, <1>27 DEF ColdAlone, ServeInv
<1> QED BY <1>18, <1>26, <1>28 DEF ServeInv

\* A run off the pool gives its slot back; a cold instance's handle drops.
LEMMA UnpooledReleaseServes ==
  ASSUME LedgerInv, ServeInv, NEW r \in Runs, ReleaseUnpooled(r)
  PROVE  ServeInv'
<1>1. PICK u \in Samples, V \in SUBSET Idle : ReleaseOneoff(rout[r] # "clean", u, V)
  BY DEF ReleaseUnpooled
<1>2. /\ rst[r] \in {"ending", "broke"} /\ rplace[r] \in {"cold", "oneoff"}
      /\ rst' = [rst EXCEPT ![r] = "released"]
      /\ UNCHANGED <<store, rpfx, rcaps, rinst, rplace, rout, thread>>
  BY DEF ReleaseUnpooled, Releasing, Goto
<1>3. /\ pool \subseteq Instances /\ V \subseteq pool
      /\ rst \in [Runs -> RunStates] /\ rinst \in [Runs -> Instances \cup {NoInstance}]
      /\ RunShape /\ NoInstance \notin Instances
  BY EngineAssumptions DEF LedgerInv, TypeOK, RegTypeOK, EngineAssumptions, Idle
<1>4. EvictOnly(V) /\ pool' = pool \ V
  BY <1>1 DEF ReleaseOneoff, EvictOnly, KeepOnly
<1> DEFINE D == V \cup ({rinst[r]} \cap Instances)
<1>5. HandlesDrop(D) /\ V \subseteq D /\ D \in SUBSET Instances
  BY <1>3, <1>4 DEF ReleaseUnpooled, HandlesDrop
<1>6. \A q \in Runs : rst'[q] \in Holding => rst[q] \in Holding /\ rst'[q] = rst[q] /\ q # r
  BY <1>2, <1>3 DEF Holding
<1>7. ASSUME NEW i \in D \ V
      PROVE  i \notin pool /\ thread[i] # "boot" /\ chan[i] = << >> /\ OnInstance(i)' = {}
  <2>1. i = rinst[r] /\ i \in Instances /\ r \in OnInstance(i) /\ rplace[r] = "cold"
    BY <1>2, <1>3, <1>7 DEF OnInstance, Holding, RunShape
  <2>2. i \notin pool /\ \A q \in Runs : q # r /\ rst[q] \in Holding => rinst[q] # i
    BY <2>1 DEF ServeInv, ColdAlone, OnInstance
  <2>3. thread[i] # "boot"
    BY <1>2, <2>1 DEF ServeInv, EndingServed
  <2>4. ~HasRetire(i)
    BY <2>1 DEF ServeInv, RetireIsLast, HasRetire
  <2>5. \A q \in Runs : ~(rst[q] = "queued" /\ rinst[q] = i)
    BY <1>2, <2>2 DEF Holding
  <2>6. chan[i] = << >>
    BY <2>1, <2>4, <2>5, EmptyChan
  <2>7. OnInstance(i)' = {}
    BY <1>2, <1>6, <2>2 DEF OnInstance
  <2> QED BY <2>2, <2>3, <2>6, <2>7
<1>8. ThreadsGoOn
  BY <1>2, <1>3 DEF ThreadsGoOn
<1>9. \A q \in Runs : rst'[q] \in Holding =>
        \/ rst[q] \in Holding /\ rinst'[q] = rinst[q]
        \/ rinst'[q] \notin Instances
        \/ Unused(rinst'[q])
  BY <1>2, <1>6
<1>10. ColdAlone'
  BY <1>2, <1>4, <1>6 DEF ColdAlone, ServeInv
<1> HIDE DEF D
<1> QED BY <1>2, <1>4, <1>5, <1>7, <1>8, <1>9, <1>10, EvictServes

\* The registry and who holds what stay; the rest is per run and per thread.
LEMMA QuietServes ==
  ASSUME LedgerInv, ServeInv, UNCHANGED regVars, RunFrame,
         \A p \in Prefixes : store[p] = "ready" => store'[p] = "ready",
         \A i \in Idle : thread'[i] = thread[i]
  PROVE  /\ ColdAlone' /\ IdleServes'
         /\ pool' = pool /\ \A i \in Instances : OnInstance(i)' = OnInstance(i)
<1> USE DEF regVars, poolVars, ledgerVars, latchVars, demandVars
<1>1. pool' = pool /\ Idle' = Idle /\ pfx' = pfx
  BY DEF Idle
<1>2. ColdAlone'
  BY <1>1 DEF ColdAlone, ServeInv, RunFrame
<1>3. \A i \in Idle : pfx[i] \in Prefixes
  BY DEF Idle, LedgerInv, PoolShape
<1>4. IdleServes'
  BY <1>1, <1>3 DEF IdleServes, ServeInv
<1>5. \A i \in Instances : OnInstance(i)' = OnInstance(i)
  BY DEF OnInstance, RunFrame
<1> QED BY <1>1, <1>2, <1>4, <1>5

\* The steps of a run that do not touch the registry.
LEMMA QuietRunServes ==
  ASSUME LedgerInv, ServeInv, NEW r \in Runs,
         \/ \E p \in Prefixes, c \in Caps : Lookup(r, p, c)
         \/ OneoffStart(r)
         \/ OneoffEnds(r)
         \/ Answer(r)
  PROVE  ServeInv'
<1>1. /\ rst \in [Runs -> RunStates] /\ rinst \in [Runs -> Instances \cup {NoInstance}]
      /\ rplace \in [Runs -> {"none", "pooled", "cold", "oneoff"}] /\ RunShape
      /\ rout \in [Runs -> {"none", "clean", "tainted", "broken"}]
      /\ rpfx \in [Runs -> Prefixes \cup {NoPrefix}] /\ rcaps \in [Runs -> Caps \cup {NoCaps}]
      /\ NoInstance \notin Instances
  BY EngineAssumptions DEF LedgerInv, TypeOK, EngineAssumptions
<1>2. /\ UNCHANGED <<regVars, store, thread, chan>>
      /\ \E st \in {"looked", "refused", "live", "ending", "idle"} : rst' = [rst EXCEPT ![r] = st]
  BY DEF Lookup, OneoffStart, OneoffEnds, Answer, Goto
<1>3. RunFrame
  BY <1>1 DEF RunFrame, Lookup, OneoffStart, OneoffEnds, Answer, Goto, Holding
<1>4. /\ \A q \in Runs \ {r} : rst'[q] = rst[q] /\ rinst'[q] = rinst[q] /\ rout'[q] = rout[q]
      /\ rst'[r] \in {"live", "ending", "broke"} => rinst'[r] \notin Instances
  BY <1>1 DEF Lookup, OneoffStart, OneoffEnds, Answer, Goto, RunShape
<1>5. /\ ColdAlone' /\ IdleServes'
      /\ pool' = pool /\ \A i \in Instances : OnInstance(i)' = OnInstance(i)
  BY <1>2, <1>3, QuietServes
<1>6. EndingServed'
  BY <1>2, <1>4 DEF EndingServed, ServeInv
<1>7. NoLiveRunOnDeadThread'
  BY <1>2, <1>4 DEF NoLiveRunOnDeadThread, ServeInv, Live
<1>8. GoneIsEmpty' /\ RetireIsLast'
  BY <1>2, <1>5 DEF GoneIsEmpty, RetireIsLast, ServeInv
<1> QED BY <1>5, <1>6, <1>7, <1>8 DEF ServeInv

\* A job is sent: its run holds the instance, so no Retire was sent there.
LEMMA SendServes ==
  ASSUME LedgerInv, ServeInv, NEW r \in Runs, SendJob(r)
  PROVE  ServeInv'
<1>1. /\ rst \in [Runs -> RunStates] /\ rinst \in [Runs -> Instances \cup {NoInstance}]
      /\ rout \in [Runs -> {"none", "clean", "tainted", "broken"}]
      /\ chan \in [Instances -> Seq(Runs \cup {Retire})]
      /\ Retire \notin Runs
  BY EngineAssumptions DEF LedgerInv, TypeOK, EngineAssumptions
<1>2. PICK i \in Instances : i = rinst[r]
  BY <1>1 DEF SendJob
<1>3. UNCHANGED <<regVars, store, rpfx, rcaps, rinst, rplace, thread>> /\ rst[r] = "attached"
  BY DEF SendJob
<1>4. RunFrame
  BY <1>1 DEF RunFrame, SendJob, Goto, Holding
<1>5. /\ ColdAlone' /\ IdleServes'
      /\ pool' = pool /\ \A j \in Instances : OnInstance(j)' = OnInstance(j)
  BY <1>3, <1>4, QuietServes
<1>6. r \in OnInstance(i)
  BY <1>2, <1>3 DEF OnInstance, Holding
<1>7. CASE thread[i] = "gone"
  <2>1. /\ rst' = [rst EXCEPT ![r] = "ending"] /\ rout' = [rout EXCEPT ![r] = "tainted"]
        /\ chan' = chan
    BY <1>2, <1>7 DEF SendJob, Goto
  <2>2. EndingServed'
    BY <1>1, <1>2, <1>3, <1>7, <2>1 DEF EndingServed, ServeInv
  <2>3. NoLiveRunOnDeadThread'
    BY <1>1, <1>3, <2>1 DEF NoLiveRunOnDeadThread, ServeInv, Live
  <2>4. GoneIsEmpty' /\ RetireIsLast'
    BY <1>3, <1>5, <2>1 DEF GoneIsEmpty, RetireIsLast, ServeInv
  <2> QED BY <1>5, <2>2, <2>3, <2>4 DEF ServeInv
<1>8. CASE thread[i] # "gone"
  <2>1. /\ rst' = [rst EXCEPT ![r] = "queued"] /\ rout' = rout
        /\ chan' = [chan EXCEPT ![i] = Append(@, r)]
    BY <1>2, <1>8 DEF SendJob, Goto
  <2>2. EndingServed'
    BY <1>1, <1>3, <2>1 DEF EndingServed, ServeInv
  <2>3. NoLiveRunOnDeadThread'
    BY <1>1, <1>3, <2>1 DEF NoLiveRunOnDeadThread, ServeInv, Live
  <2>4. GoneIsEmpty'
    BY <1>1, <1>3, <1>8, <2>1 DEF GoneIsEmpty, ServeInv
  <2>5. ~HasRetire(i) /\ thread[i] # "retiring"
    BY <1>6 DEF ServeInv, RetireIsLast, HasRetire
  <2>6. ~HasRetire(i)'
    <3>1. chan'[i] = Append(chan[i], r) /\ chan[i] \in Seq(Runs \cup {Retire})
      BY <1>1, <2>1
    <3>2. /\ Len(chan'[i]) = Len(chan[i]) + 1 /\ Len(chan[i]) \in Nat
          /\ \A m \in 1..Len(chan[i]) : chan'[i][m] = chan[i][m]
          /\ chan'[i][Len(chan[i]) + 1] = r
      BY <3>1, AppendProperties
    <3> QED BY <1>1, <2>5, <3>2 DEF HasRetire
  <2>7. \A j \in Instances \ {i} : chan'[j] = chan[j]
    BY <1>1, <2>1
  <2>8. RetireIsLast'
    <3> SUFFICES ASSUME NEW j \in Instances, thread'[j] = "retiring" \/ HasRetire(j)'
                 PROVE  j \notin pool' /\ OnInstance(j)' = {} /\ thread'[j] # "boot" /\ Len(chan'[j]) <= 1
      BY DEF RetireIsLast, HasRetire
    <3>1. j # i /\ chan'[j] = chan[j]
      BY <1>3, <2>5, <2>6, <2>7
    <3>2. thread[j] = "retiring" \/ HasRetire(j)
      BY <1>3, <3>1 DEF HasRetire
    <3> QED BY <1>3, <1>5, <3>1, <3>2 DEF ServeInv, RetireIsLast, HasRetire
  <2> QED BY <1>5, <2>2, <2>3, <2>4, <2>8 DEF ServeInv
<1> QED BY <1>7, <1>8

\* A step of the thread of i, which goes to t: other threads, channels and the
\* outcomes of their runs are as before, and i's own keep the invariant.
ThreadMoves(i, t) ==
  /\ UNCHANGED <<regVars, store, rinst>> /\ RunFrame
  /\ thread' = [thread EXCEPT ![i] = t]
  /\ i \in Idle => t = thread[i]
  /\ \A j \in Instances \ {i} : chan'[j] = chan[j]
  /\ \A q \in Runs : rinst[q] # i =>
       rout'[q] = rout[q] /\ (rst'[q] = rst[q] \/ rst'[q] \notin {"live", "ending", "broke"})
  /\ t = "gone" => chan'[i] = << >>
  /\ t = "retiring" \/ HasRetire(i)' =>
       i \notin pool /\ OnInstance(i) = {} /\ t # "boot" /\ Len(chan'[i]) <= 1
  /\ t \in {"gone", "boot", "coldfail", "coldbroken", "retiring", "closing"} => Live(i)' = {}
  /\ \A q \in Runs : rinst[q] = i /\ rst'[q] \in {"ending", "broke"} =>
       t # "boot" /\ (rout'[q] = "clean" => t = "serve")

\* Then the invariant holds for all.
LEMMA OneThread ==
  ASSUME LedgerInv, ServeInv, NEW i \in Instances, NEW t, ThreadMoves(i, t)
  PROVE  ServeInv'
<1> USE DEF ThreadMoves
<1>1. thread \in [Instances -> ThreadStates] /\ rinst \in [Runs -> Instances \cup {NoInstance}]
      /\ pool \subseteq Instances
  BY DEF LedgerInv, TypeOK, RegTypeOK
<1>2. thread'[i] = t /\ \A j \in Instances \ {i} : thread'[j] = thread[j]
  BY <1>1
<1>3. \A j \in Idle : thread'[j] = thread[j]
  BY <1>1, <1>2 DEF Idle
<1>4. /\ ColdAlone' /\ IdleServes'
      /\ pool' = pool /\ \A j \in Instances : OnInstance(j)' = OnInstance(j)
  BY <1>3, QuietServes
<1>5. GoneIsEmpty'
  BY <1>2 DEF GoneIsEmpty, ServeInv
<1>6. EndingServed'
  BY <1>1, <1>2 DEF EndingServed, ServeInv
<1>7. NoLiveRunOnDeadThread'
  BY <1>2 DEF NoLiveRunOnDeadThread, ServeInv, Live
<1>8. RetireIsLast'
  <2> SUFFICES ASSUME NEW j \in Instances, thread'[j] = "retiring" \/ HasRetire(j)'
               PROVE  j \notin pool' /\ OnInstance(j)' = {} /\ thread'[j] # "boot" /\ Len(chan'[j]) <= 1
    BY DEF RetireIsLast, HasRetire
  <2>1. CASE j = i
    BY <1>2, <1>4, <2>1
  <2>2. CASE j # i
    <3>1. chan'[j] = chan[j] /\ thread'[j] = thread[j]
      BY <1>2, <2>2
    <3>2. thread[j] = "retiring" \/ HasRetire(j)
      BY <3>1 DEF HasRetire
    <3> QED BY <1>4, <3>1, <3>2 DEF ServeInv, RetireIsLast, HasRetire
  <2> QED BY <2>1, <2>2
<1> QED BY <1>4, <1>5, <1>6, <1>7, <1>8 DEF ServeInv

\* A job in front means there is no Retire on the channel, and a run on it.
LEMMA TakesJob ==
  ASSUME LedgerInv, ServeInv, NEW i \in Instances, NEW r \in Runs, Receives(i, r)
  PROVE  /\ rst[r] = "queued" /\ rinst[r] = i /\ i \notin Idle
         /\ ~HasRetire(i)' /\ \A j \in Instances \ {i} : chan'[j] = chan[j]
<1>1. /\ chan \in [Instances -> Seq(Runs \cup {Retire})] /\ Retire \notin Runs
      /\ chan[i] \in Seq(Runs \cup {Retire}) /\ chan[i] # << >>
  BY EngineAssumptions DEF LedgerInv, TypeOK, EngineAssumptions, Receives
<1>2. /\ Len(chan[i]) \in Nat \ {0}
      /\ r = chan[i][1]
      /\ Len(Tail(chan[i])) = Len(chan[i]) - 1
      /\ \A k \in 1..Len(Tail(chan[i])) : Tail(chan[i])[k] = chan[i][k + 1]
  BY <1>1, HeadTailProperties DEF Receives
<1>3. chan'[i] = Tail(chan[i]) /\ \A j \in Instances \ {i} : chan'[j] = chan[j]
  BY <1>1 DEF Receives
<1>4. rst[r] = "queued" /\ rinst[r] = i
  BY <1>1, <1>2 DEF LedgerInv, ChanShape
<1>5. r \in OnInstance(i)
  BY <1>4 DEF OnInstance, Holding
<1>6. ~HasRetire(i)
  BY <1>5 DEF ServeInv, RetireIsLast, HasRetire
<1>7. ~HasRetire(i)'
  <2> SUFFICES ASSUME NEW k \in 1..Len(chan'[i]), chan'[i][k] = Retire PROVE FALSE
    BY DEF HasRetire
  <2>1. k + 1 \in 1..Len(chan[i]) /\ chan[i][k + 1] = Retire
    BY <1>2, <1>3
  <2> QED BY <1>6, <2>1 DEF HasRetire
<1>8. i \notin Idle
  BY <1>5, IdleQuiet DEF IdleIsUsable
<1> QED BY <1>3, <1>4, <1>7, <1>8

\* A Retire in front is all there is on the channel, and nobody is there.
LEMMA TakesRetire ==
  ASSUME LedgerInv, ServeInv, NEW i \in Instances, Receives(i, Retire)
  PROVE  /\ i \notin pool /\ OnInstance(i) = {} /\ thread[i] # "boot"
         /\ chan'[i] = << >> /\ \A j \in Instances \ {i} : chan'[j] = chan[j]
<1>1. /\ chan \in [Instances -> Seq(Runs \cup {Retire})]
      /\ chan[i] \in Seq(Runs \cup {Retire}) /\ chan[i] # << >>
  BY DEF LedgerInv, TypeOK, Receives
<1>2. /\ Len(chan[i]) \in Nat \ {0}
      /\ Retire = chan[i][1]
      /\ Tail(chan[i]) \in Seq(Runs \cup {Retire})
      /\ Len(Tail(chan[i])) = Len(chan[i]) - 1
  BY <1>1, HeadTailProperties DEF Receives
<1>3. chan'[i] = Tail(chan[i]) /\ \A j \in Instances \ {i} : chan'[j] = chan[j]
  BY <1>1 DEF Receives
<1>4. 1 \in 1..Len(chan[i])
  BY <1>2
<1>5. i \notin pool /\ OnInstance(i) = {} /\ thread[i] # "boot" /\ Len(chan[i]) <= 1
  BY <1>2, <1>4 DEF ServeInv, RetireIsLast
<1>6. Len(Tail(chan[i])) = 0
  <2>1. ASSUME NEW n, NEW m, n \in Nat \ {0}, n <= 1, m = n - 1 PROVE m = 0
    BY <2>1
  <2> QED BY <1>2, <1>5, <2>1, Zenon
<1>7. Tail(chan[i]) = << >>
  BY <1>2, <1>6, EmptySeq
<1> QED BY <1>3, <1>5, <1>7

\* The steps of an owner thread.
LEMMA ThreadServes ==
  ASSUME LedgerInv, ServeInv, NEW i \in Instances, ThreadStep(i)
  PROVE  ServeInv'
<1>1. /\ rst \in [Runs -> RunStates] /\ rinst \in [Runs -> Instances \cup {NoInstance}]
      /\ rout \in [Runs -> {"none", "clean", "tainted", "broken"}]
      /\ thread \in [Instances -> ThreadStates]
      /\ chan \in [Instances -> Seq(Runs \cup {Retire})]
  BY DEF LedgerInv, TypeOK
<1>2. \A j \in Idle : /\ thread[j] = "serve" /\ chan[j] = << >> /\ OnInstance(j) = {}
  BY IdleQuiet DEF IdleIsUsable
<1>3. \A q \in Runs : rinst[q] = i /\ rst[q] \in {"ending", "broke"} =>
        thread[i] # "boot" /\ (rout[q] = "clean" => thread[i] = "serve")
  BY DEF ServeInv, EndingServed
<1>4. thread[i] \in {"gone", "boot", "coldfail", "coldbroken", "retiring", "closing"} => Live(i) = {}
  BY DEF ServeInv, NoLiveRunOnDeadThread
<1>5. thread = [thread EXCEPT ![i] = thread[i]]
  BY <1>1
<1> USE DEF Goto, Concludes
<1>6. ASSUME NEW r \in Runs,
             ColdStartFails(i, r) \/ ColdFailNext(i, r) \/ DispatchJob(i, r) \/ SweepQueued(i, r)
      PROVE  ServeInv'
  <2>1. /\ Receives(i, r) /\ UNCHANGED <<regVars, store, rpfx, rcaps, rinst, rplace>>
        /\ thread[i] # "boot" => ~Finishing(i)
        /\ thread[i] \in {"boot", "serve", "coldfail", "coldbroken", "sweep"}
    BY <1>6 DEF ColdStartFails, ColdFailNext, ColdFailed, DispatchJob, SweepQueued
  <2>2. /\ rst[r] = "queued" /\ rinst[r] = i /\ i \notin Idle
        /\ ~HasRetire(i)' /\ \A j \in Instances \ {i} : chan'[j] = chan[j]
    BY <2>1, TakesJob
  <2>3. \A q \in Runs : rinst[q] = i => rst[q] \notin {"ending", "broke"}
    BY <1>3, <2>1 DEF Finishing
  <2>4. /\ rst'[r] \in {"live", "ending"}
        /\ \A q \in Runs \ {r} : rst'[q] = rst[q] /\ rout'[q] = rout[q]
    BY <1>1, <1>6 DEF ColdStartFails, ColdFailNext, DispatchJob, SweepQueued
  <2>5. RunFrame
    BY <2>1, <2>2, <2>4 DEF RunFrame, Holding
  <2>6. PICK t : /\ thread' = [thread EXCEPT ![i] = t]
                 /\ t \in {"coldfail", "coldbroken", "serve", "sweep"}
                 /\ rst'[r] = "live" => t = "serve"
                 /\ rst'[r] = "ending" /\ rout'[r] = "clean" => t = "serve"
                 /\ t \in {"coldfail", "coldbroken"} =>
                      thread[i] \in {"boot", "coldfail", "coldbroken"}
    <3>1. CASE ColdStartFails(i, r)
      BY <1>1, <3>1 DEF ColdStartFails
    <3>2. CASE ColdFailNext(i, r)
      <4>1. /\ thread' = [thread EXCEPT ![i] = thread[i]]
            /\ thread[i] \in {"coldfail", "coldbroken"} /\ rst'[r] = "ending" /\ rout'[r] # "clean"
        BY <1>1, <1>5, <3>2 DEF ColdFailNext, ColdFailed
      <4> QED BY <4>1
    <3>3. CASE DispatchJob(i, r)
      BY <1>1, <3>3 DEF DispatchJob
    <3>4. CASE SweepQueued(i, r)
      <4>1. /\ thread' = [thread EXCEPT ![i] = "sweep"]
            /\ rst'[r] = "ending" /\ rout'[r] # "clean"
        BY <1>1, <1>5, <3>4 DEF SweepQueued
      <4> WITNESS "sweep"
      <4> QED BY <4>1
    <3> QED BY <1>6, <3>1, <3>2, <3>3, <3>4
  <2>7. t \in {"gone", "boot", "coldfail", "coldbroken", "retiring", "closing"} => Live(i)' = {}
    BY <1>4, <2>1, <2>4, <2>6 DEF Live
  <2>8. \A q \in Runs : rinst[q] = i /\ rst'[q] \in {"ending", "broke"} =>
          t # "boot" /\ (rout'[q] = "clean" => t = "serve")
    BY <2>3, <2>4, <2>6
  <2>9. \A q \in Runs : rinst[q] # i =>
          rout'[q] = rout[q] /\ (rst'[q] = rst[q] \/ rst'[q] \notin {"live", "ending", "broke"})
    BY <2>2, <2>4
  <2>10. ThreadMoves(i, t)
    BY <2>1, <2>2, <2>5, <2>6, <2>7, <2>8, <2>9 DEF ThreadMoves
  <2> QED BY <2>10, OneThread
<1>7. ASSUME NEW r \in Runs, TurnEnds(i, r) \/ SweepLive(i, r)
      PROVE  ServeInv'
  <2>1. /\ UNCHANGED <<regVars, store, rpfx, rcaps, rinst, rplace, chan>>
        /\ rst[r] = "live" /\ rinst[r] = i /\ rst' = [rst EXCEPT ![r] = "ending"] /\ ~Finishing(i)
        /\ thread[i] \in {"serve", "sweep"}
    BY <1>7 DEF TurnEnds, SweepLive, Live
  <2>2. PICK t : /\ thread' = [thread EXCEPT ![i] = t] /\ t \in {"serve", "sweep"}
                 /\ rout'[r] = "clean" => t = "serve"
    <3>1. CASE TurnEnds(i, r)
      BY <1>1, <1>5, <3>1 DEF TurnEnds
    <3>2. CASE SweepLive(i, r)
      <4>1. thread' = [thread EXCEPT ![i] = "sweep"] /\ rout'[r] # "clean"
        BY <1>1, <1>5, <3>2 DEF SweepLive
      <4> QED BY <4>1
    <3> QED BY <1>7, <3>1, <3>2
  <2>3. \A q \in Runs \ {r} : rst'[q] = rst[q] /\ rout'[q] = rout[q]
    BY <1>1, <1>7 DEF TurnEnds, SweepLive
  <2>4. RunFrame
    BY <1>1, <2>1 DEF RunFrame, Holding
  <2>5. r \in OnInstance(i)
    BY <2>1 DEF OnInstance, Holding
  <2>6. ~HasRetire(i) /\ i \notin Idle
    BY <1>2, <2>5 DEF ServeInv, RetireIsLast, HasRetire
  <2>7. ~HasRetire(i)'
    BY <2>1, <2>6 DEF HasRetire
  <2>8. \A q \in Runs : rinst[q] = i /\ rst'[q] \in {"ending", "broke"} =>
          t # "boot" /\ (rout'[q] = "clean" => t = "serve")
    BY <2>1, <2>2, <2>3 DEF Finishing
  <2>9. \A q \in Runs : rinst[q] # i =>
          rout'[q] = rout[q] /\ (rst'[q] = rst[q] \/ rst'[q] \notin {"live", "ending", "broke"})
    BY <2>1, <2>3
  <2>10. ThreadMoves(i, t)
    BY <2>1, <2>2, <2>4, <2>6, <2>7, <2>8, <2>9 DEF ThreadMoves
  <2> QED BY <2>10, OneThread
<1>8. CASE ColdFailSkips(i) \/ ReceiveRetire(i) \/ SweepSkips(i)
  <2>1. /\ UNCHANGED <<regVars, store, runVars>>
        /\ Receives(i, Retire) /\ ~Finishing(i)
    BY <1>8 DEF ColdFailSkips, ReceiveRetire, SweepSkips
  <2>2. /\ i \notin pool /\ OnInstance(i) = {} /\ thread[i] # "boot"
        /\ chan'[i] = << >> /\ \A j \in Instances \ {i} : chan'[j] = chan[j]
    BY <2>1, TakesRetire
  <2>3. PICK t : /\ thread' = [thread EXCEPT ![i] = t]
                 /\ t \in {"retiring", "coldfail", "coldbroken", "sweep"}
    BY <1>5, <1>8 DEF ColdFailSkips, ReceiveRetire, SweepSkips, ColdFailed
  <2>4. RunFrame /\ UNCHANGED <<rst, rinst, rout>>
    BY <2>1 DEF RunFrame, runVars
  <2>5. ~HasRetire(i)' /\ Len(chan'[i]) <= 1
    BY <2>2 DEF HasRetire
  <2>6. Live(i)' = {}
    BY <2>2, <2>4 DEF Live, OnInstance, Holding
  <2>7. i \notin Idle
    BY <2>2 DEF Idle
  <2>8. \A q \in Runs : rinst[q] = i /\ rst'[q] \in {"ending", "broke"} =>
          t # "boot" /\ (rout'[q] = "clean" => t = "serve")
    BY <2>1, <2>4 DEF Finishing
  <2>10. ThreadMoves(i, t)
    BY <2>1, <2>2, <2>3, <2>4, <2>5, <2>6, <2>7, <2>8 DEF ThreadMoves
  <2> QED BY <2>10, OneThread
<1>9. CASE ColdFailExit(i) \/ ServeReturns(i) \/ SweepDone(i)
  <2>1. /\ UNCHANGED <<regVars, store, runVars, chan>> /\ Live(i) = {}
        /\ thread[i] \in {"coldfail", "coldbroken", "retiring", "sweep"}
    BY <1>4, <1>9 DEF ColdFailExit, ServeReturns, SweepDone, ColdFailed
  <2>2. PICK t : /\ thread' = [thread EXCEPT ![i] = t] /\ t \in {"gone", "closing"}
                 /\ t = "gone" => chan[i] = << >>
    BY <1>9 DEF ColdFailExit, ServeReturns, SweepDone
  <2>3. RunFrame /\ UNCHANGED <<rst, rinst, rout>>
    BY <2>1 DEF RunFrame, runVars
  <2>4. Live(i)' = {}
    BY <2>1, <2>3 DEF Live
  <2>5. i \notin Idle
    BY <1>2, <2>1
  <2>6. HasRetire(i)' => i \notin pool /\ OnInstance(i) = {} /\ Len(chan'[i]) <= 1
    BY <2>1 DEF HasRetire, ServeInv, RetireIsLast
  <2>7. \A q \in Runs : rinst[q] = i /\ rst'[q] \in {"ending", "broke"} =>
          t # "boot" /\ (rout'[q] = "clean" => t = "serve")
    BY <1>3, <2>1, <2>2, <2>3
  <2>10. ThreadMoves(i, t)
    BY <2>1, <2>2, <2>3, <2>4, <2>5, <2>6, <2>7 DEF ThreadMoves
  <2> QED BY <2>10, OneThread
<1>10. CASE ThreadEnds(i)
  <2>1. /\ UNCHANGED <<regVars, store, rpfx, rcaps, rinst, rplace, rout>>
        /\ thread[i] = "closing" /\ thread' = [thread EXCEPT ![i] = "gone"]
        /\ chan' = [chan EXCEPT ![i] = << >>]
    BY <1>10 DEF ThreadEnds
  <2>2. \A q \in Runs : rst'[q] = rst[q] \/ (rst[q] = "queued" /\ rst'[q] = "stranded")
    <3> SUFFICES ASSUME NEW q \in Runs, rst'[q] # rst[q]
                 PROVE  rst[q] = "queued" /\ rst'[q] = "stranded"
      OBVIOUS
    <3>1. PICK k \in 1..Len(chan[i]) : chan[i][k] = q
      BY <1>10 DEF ThreadEnds
    <3>2. chan[i][k] # Retire /\ ChanShape
      BY <3>1, EngineAssumptions DEF EngineAssumptions, LedgerInv
    <3> QED BY <1>10, <3>1, <3>2 DEF ThreadEnds, ChanShape
  <2>3. RunFrame
    BY <2>1, <2>2 DEF RunFrame, Holding
  <2>4. chan'[i] = << >> /\ \A j \in Instances \ {i} : chan'[j] = chan[j]
    BY <1>1, <2>1
  <2>5. ~HasRetire(i)'
    BY <2>4 DEF HasRetire
  <2>6. Live(i)' = {}
    BY <1>4, <2>1, <2>2 DEF Live
  <2>7. i \notin Idle
    BY <1>2, <2>1
  <2>8. \A q \in Runs : rinst[q] = i /\ rst'[q] \in {"ending", "broke"} =>
          (rout'[q] = "clean" => FALSE)
    BY <1>3, <2>1, <2>2
  <2>9. \A q \in Runs : rinst[q] # i =>
          rout'[q] = rout[q] /\ (rst'[q] = rst[q] \/ rst'[q] \notin {"live", "ending", "broke"})
    BY <2>1, <2>2
  <2>10. ThreadMoves(i, "gone")
    BY <2>1, <2>3, <2>4, <2>5, <2>6, <2>7, <2>8, <2>9 DEF ThreadMoves
  <2> QED BY <2>10, OneThread
<1> QED BY <1>6, <1>7, <1>8, <1>9, <1>10 DEF ThreadStep

\* The initial state satisfies it.
LEMMA ServeInit == Init => ServeInv
<1> SUFFICES ASSUME Init PROVE ServeInv
  OBVIOUS
<1>1. Idle = {} /\ \A r \in Runs : rst[r] = "idle"
  BY DEF Init, RegInit, Idle
<1>2. \A i \in Instances : chan[i] = << >> /\ thread[i] = "gone" /\ Live(i) = {}
  BY DEF Init, Live
<1>3. ColdAlone /\ GoneIsEmpty /\ EndingServed /\ IdleServes /\ NoLiveRunOnDeadThread
  BY <1>1, <1>2 DEF ColdAlone, GoneIsEmpty, EndingServed, IdleServes, NoLiveRunOnDeadThread, Holding
<1>4. RetireIsLast
  BY <1>2 DEF RetireIsLast
<1> QED BY <1>3, <1>4 DEF ServeInv

\* Every step preserves it, given the ledger.
LEMMA ServeStep == LedgerInv /\ ServeInv /\ [Next]_vars => ServeInv'
<1> SUFFICES ASSUME LedgerInv, ServeInv, [Next]_vars PROVE ServeInv'
  OBVIOUS
<1>0. /\ rst \in [Runs -> RunStates] /\ rinst \in [Runs -> Instances \cup {NoInstance}]
      /\ store \in [Prefixes -> {"never", "ready", "broken", "gone"}]
  BY DEF LedgerInv, TypeOK
<1>1. ASSUME NEW p \in Prefixes, Prepare(p) PROVE ServeInv'
  <2>1. /\ UNCHANGED <<regVars, runVars, thread, chan>>
        /\ \A q \in Prefixes : store[q] = "ready" => store'[q] = "ready"
    BY <1>0, <1>1 DEF Prepare
  <2>2. RunFrame /\ UNCHANGED <<rst, rinst, rout>>
    BY <2>1 DEF RunFrame, runVars
  <2>3. /\ ColdAlone' /\ IdleServes'
        /\ pool' = pool /\ \A i \in Instances : OnInstance(i)' = OnInstance(i)
    BY <2>1, <2>2, QuietServes
  <2>4. GoneIsEmpty' /\ EndingServed' /\ RetireIsLast' /\ NoLiveRunOnDeadThread'
    BY <2>1, <2>2, <2>3 DEF ServeInv, GoneIsEmpty, EndingServed, RetireIsLast, NoLiveRunOnDeadThread, Live
  <2> QED BY <2>3, <2>4 DEF ServeInv
<1>2. ASSUME NEW p \in Prefixes, Dispose(p) PROVE ServeInv'
  <2>1. /\ DisposePrefix(p) /\ RetireDropped /\ thread' = thread /\ UNCHANGED runVars
        /\ \A q \in Prefixes \ {p} : store'[q] = store[q]
    BY <1>0, <1>2 DEF Dispose
  <2>2. RunFrame /\ ThreadsGoOn
    BY <2>1 DEF RunFrame, ThreadsGoOn, runVars
  <2> QED BY <2>1, <2>2, DisposeServes
<1>3. ASSUME NEW r \in Runs, BreakPrefix(r) PROVE ServeInv'
  <2>1. /\ rst[r] = "ending" /\ rst' = [rst EXCEPT ![r] = "broke"]
        /\ UNCHANGED <<rpfx, rcaps, rinst, rplace, rout, thread>>
    BY <1>3 DEF BreakPrefix, Goto
  <2>2. RunFrame /\ ThreadsGoOn
    BY <1>0, <2>1 DEF RunFrame, ThreadsGoOn, Holding
  <2>3. CASE store[rpfx[r]] = "ready"
    <3>1. /\ DisposePrefix(rpfx[r]) /\ RetireDropped
          /\ \A q \in Prefixes \ {rpfx[r]} : store'[q] = store[q]
      BY <1>0, <1>3, <2>3 DEF BreakPrefix
    <3> QED BY <2>1, <2>2, <3>1, DisposeServes
  <2>4. CASE store[rpfx[r]] # "ready"
    <3>1. UNCHANGED <<regVars, store, chan>>
      BY <1>3, <2>4 DEF BreakPrefix
    <3>2. /\ ColdAlone' /\ IdleServes'
          /\ pool' = pool /\ \A i \in Instances : OnInstance(i)' = OnInstance(i)
      BY <2>1, <2>2, <3>1, QuietServes
    <3>3. GoneIsEmpty' /\ RetireIsLast'
      BY <2>1, <3>1, <3>2 DEF ServeInv, GoneIsEmpty, RetireIsLast
    <3>4. EndingServed' /\ NoLiveRunOnDeadThread'
      BY <1>0, <2>1 DEF ServeInv, EndingServed, NoLiveRunOnDeadThread, Live
    <3> QED BY <3>2, <3>3, <3>4 DEF ServeInv
  <2> QED BY <2>3, <2>4
<1>4. ASSUME NEW r \in Runs, StartStep(r) PROVE ServeInv'
  BY <1>4, QuietRunServes, AcquireServes, SendServes, OneoffServes DEF StartStep
<1>5. ASSUME NEW r \in Runs, FinishStep(r) PROVE ServeInv'
  BY <1>3, <1>5, QuietRunServes, PooledReleaseServes, UnpooledReleaseServes DEF FinishStep
<1>6. ASSUME NEW i \in Instances, ThreadStep(i) PROVE ServeInv'
  BY <1>6, ThreadServes
<1>7. CASE UNCHANGED vars
  <2>1. RunFrame /\ UNCHANGED <<regVars, store, rst, rinst, rout, thread, chan>>
    BY <1>7 DEF RunFrame, vars, runVars
  <2>2. /\ ColdAlone' /\ IdleServes'
        /\ pool' = pool /\ \A i \in Instances : OnInstance(i)' = OnInstance(i)
    BY <2>1, QuietServes
  <2>3. GoneIsEmpty' /\ EndingServed' /\ RetireIsLast' /\ NoLiveRunOnDeadThread'
    BY <2>1, <2>2 DEF ServeInv, GoneIsEmpty, EndingServed, RetireIsLast, NoLiveRunOnDeadThread, Live
  <2> QED BY <2>2, <2>3 DEF ServeInv
<1> QED BY <1>1, <1>2, <1>4, <1>5, <1>6, <1>7 DEF Next, StoreStep

\* Both invariants hold throughout.
LEMMA ServeInvariant == Spec => [](LedgerInv /\ ServeInv)
BY LedgerInit, LedgerStep, ServeInit, ServeStep, PTL DEF Spec

\* An instance and its owner thread agree on its end, for any number of runs,
\* instances and prefixes: what the registry offers for reuse is in its loop
\* with nothing pending, Retire comes behind all work, and a thread that left
\* its loop leaves no live run.
THEOREM ThreadsServeCorrect == Spec => []ThreadsServe
<1>1. LedgerInv /\ ServeInv => ThreadsServe
  BY IdleQuiet DEF ServeInv, ThreadsServe
<1> QED BY <1>1, ServeInvariant, PTL

\* While the latch is set nothing joins the pool.
LEMMA SheddingShrinks ==
  ASSUME LedgerInv, Next, shedding'
  PROVE  pool' \subseteq pool
<1>1. ASSUME NEW p, DisposePrefix(p) PROVE pool' \subseteq pool
  BY <1>1 DEF DisposePrefix, KeepOnly
<1>2. ASSUME NEW V, EvictOnly(V) PROVE pool' \subseteq pool
  BY <1>2 DEF EvictOnly, KeepOnly
<1>3. UNCHANGED regVars => pool' \subseteq pool
  BY DEF regVars, poolVars
<1>4. CASE StoreStep
  BY <1>1, <1>3, <1>4 DEF StoreStep, Prepare, Dispose
<1>5. ASSUME NEW r \in Runs, StartStep(r) PROVE pool' \subseteq pool
  <2>1. CASE AcquireExisting(r)
    <3>1. PICK u \in Samples, V \in SUBSET Idle, i \in pool :
            \/ AcquireReuse(rpfx[r], rcaps[r], u, V, i)
            \/ \E hot \in SUBSET pool, high \in BOOLEAN :
                 AcquireJoin(rpfx[r], rcaps[r], u, V, hot, high, i)
      BY <2>1 DEF AcquireExisting
    <3> QED BY <3>1 DEF AcquireReuse, AcquireJoin, Attach
  <2>2. CASE AcquireNew(r)
    <3>1. PICK u \in Samples, V \in SUBSET Idle, i \in Instances :
            \/ \E hot \in SUBSET pool, high \in BOOLEAN :
                 AcquireSpawn(rpfx[r], rcaps[r], u, V, hot, high, i)
            \/ AcquireCold(rpfx[r], rcaps[r], u, V)
      BY <2>2 DEF AcquireNew
    <3>2. AcquireCold(rpfx[r], rcaps[r], u, V)
      BY <3>1 DEF AcquireSpawn
    <3> QED BY <1>2, <3>2 DEF AcquireCold
  <2>3. CASE AcquireFails(r)
    BY <1>2, <2>3 DEF AcquireFails, AcquireRefused, AcquireSpawnFailed
  <2>4. CASE \E c \in Caps : OneoffReserve(r, c)
    BY <1>2, <2>4 DEF OneoffReserve, ReserveOneoff
  <2>5. CASE OneoffSpawnFails(r)
    BY <1>2, <2>5 DEF OneoffSpawnFails, ReleaseOneoff
  <2>6. CASE (\E p \in Prefixes, c \in Caps : Lookup(r, p, c)) \/ SendJob(r) \/ OneoffStart(r)
    BY <1>3, <2>6 DEF Lookup, SendJob, OneoffStart
  <2> QED BY <1>5, <2>1, <2>2, <2>3, <2>4, <2>5, <2>6 DEF StartStep
<1>6. ASSUME NEW r \in Runs, FinishStep(r) PROVE pool' \subseteq pool
  <2>1. CASE ReleasePooled(r)
    <3>1. PICK u \in Samples, h \in HeapSizes, V \in SUBSET pool :
            Release(rpfx[r], rinst[r], rout[r] # "clean", h, store[rpfx[r]] = "ready", u, V)
      BY <2>1 DEF ReleasePooled
    <3> QED BY <3>1 DEF Release, KeepOnly
  <2>2. CASE ReleaseUnpooled(r)
    BY <1>2, <2>2 DEF ReleaseUnpooled, ReleaseOneoff
  <2>3. CASE BreakPrefix(r)
    BY <1>1, <1>3, <2>3 DEF BreakPrefix
  <2>4. CASE OneoffEnds(r) \/ Answer(r)
    BY <1>3, <2>4 DEF OneoffEnds, Answer
  <2> QED BY <1>6, <2>1, <2>2, <2>3, <2>4 DEF FinishStep
<1>7. ASSUME NEW i \in Instances, ThreadStep(i) PROVE pool' \subseteq pool
  <2>1. UNCHANGED regVars
    BY <1>7 DEF ThreadStep, ColdStartFails, ColdFailNext, DispatchJob, TurnEnds, SweepLive,
                SweepQueued, ColdFailSkips, ColdFailExit, ReceiveRetire, ServeReturns,
                SweepSkips, SweepDone, ThreadEnds
  <2> QED BY <1>3, <2>1
<1> QED BY <1>4, <1>5, <1>6, <1>7 DEF Next

\* Evictions, refusals and retirements under memory pressure, whatever the
\* readings: the registry stays exact, what it offers stays usable, and while
\* the latch is set no instance joins the pool.
THEOREM PressureCorrect == Spec => PressureHolds
<1>1. LedgerInv /\ ServeInv => InFlightExact /\ LedgerExact /\ IdleIsUsable
  BY IdleQuiet DEF LedgerInv
<1>2. LedgerInv /\ [Next]_vars => [shedding' => pool' \subseteq pool]_vars
  BY SheddingShrinks
<1> QED BY <1>1, <1>2, ServeInvariant, PTL DEF Spec, PressureHolds
=============================================================================
