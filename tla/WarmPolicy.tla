----------------------------- MODULE WarmPolicy -----------------------------
(***************************************************************************)
(* The pure decisions of crates/core/src/policy.rs.  warm.rs gathers the   *)
(* facts under the registry lock, asks one of these operators, and does    *)
(* what it says.  Memory is counted in abstract units.  Scores, rates and  *)
(* utilisations are floating point in the code: an operator that depends   *)
(* on one returns every verdict the facts kept by the model allow.         *)
(***************************************************************************)
EXTENDS Integers, FiniteSets

\* sample_usage() returned None: no meter could be read, or no line is set.
NoReading == -1

\* RegistryInner.last_pass is None: no shed pass since the latch released.
NoPass == -1

\* usize::saturating_sub.
SatSub(a, b) == IF a >= b THEN a - b ELSE 0

AbsDiff(a, b) == IF a >= b THEN a - b ELSE b - a

\* The shedding latch releases at 4/5 of the budget (integer division first).
ReleaseLine(budget) == (budget \div 5) * 4

\* The last pass left usage where it was, within 5 %.
Flat(usage, last) == AbsDiff(usage, last) <= last \div 20

\* A tenth of the idle population per pass, at least one.
ShedTarget(idleCount) == IF idleCount \div 10 >= 1 THEN idleCount \div 10 ELSE 1

\* watermark_action: the latch with hysteresis, and how many to evict.
WatermarkAction(usage, budget, wasShedding, last, idleCount) ==
  LET shed == \/ usage >= budget
              \/ wasShedding /\ usage > ReleaseLine(budget)
      futile == last # NoPass /\ Flat(usage, last)
  IN IF budget = 0
     THEN [shedding |-> FALSE, evict |-> 0]
     ELSE [shedding |-> shed,
           evict |-> IF shed /\ idleCount > 0 /\ ~futile
                     THEN ShedTarget(idleCount) ELSE 0]

\* pick_victim, applied n times at one instant: the n highest scores
\* heap * idleTime^1.2, ties to the longest idle.  An instance idle for longer
\* on at least as much heap outscores another whatever the exponent, so every
\* set of the right size closed under that dominance is a possible outcome.
Dominates(u, v, hp, old) == hp[u] >= hp[v] /\ <<u, v>> \in old

VictimSets(idle, n, hp, old) ==
  {V \in SUBSET idle :
     /\ Cardinality(V) = (IF n <= Cardinality(idle) THEN n ELSE Cardinality(idle))
     /\ \A v \in V, u \in idle \ V : ~Dominates(u, v, hp, old)}

\* Consecutive finishes over the soft line before an instance is retired.
SoftLineStrikes == 2

\* soft_strike: the u8 count saturates.
SoftStrike(prev, over) ==
  LET n == IF prev < 255 THEN prev + 1 ELSE 255
  IN IF over THEN [strikes |-> n, retire |-> n >= SoftLineStrikes]
             ELSE [strikes |-> 0, retire |-> FALSE]

\* admit_isolate: may an isolate with this terminating cap be created?
AdmitIsolate(usage, cap, hardLine, budget) ==
  IF cap = 0 THEN budget = 0 \/ usage < budget
             ELSE hardLine = 0 \/ usage + cap <= hardLine

\* should_spawn: demandHigh is "arrivals/s * cpu/run exceeds what the live
\* instances absorb", a float comparison left to the environment.
ShouldSpawn(live, cores, cpuSeen, demandHigh) ==
  live < cores /\ (cpuSeen => demandHigh)

\* pick_join_target: the fullest instance that is not saturated (hot).
PickJoinTarget(cands, load, hot) ==
  {i \in cands \ hot : \A j \in cands \ hot : load[j] <= load[i]}

\* join_fallback: the least utilised one; every candidate can be it.
JoinFallback(cands) == cands
=============================================================================
