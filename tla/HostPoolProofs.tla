--------------------------- MODULE HostPoolProofs ---------------------------
(***************************************************************************)
(* Proofs about the host's run pool (HostPool), for every set of callers,  *)
(* capacity, allowance, queue limit and number of runs per connection.     *)
(*                                                                         *)
(* The inductive invariant PoolInv has a part per resource: the slots      *)
(* (SlotInv), the places on opens in flight (EveryWaiterHasAPlace), the    *)
(* connections (OpenIsListed, SweepIsArmed) and the runs on each           *)
(* (RunsWithinCap, which needs StagingPrepares).  DisposedIsEmpty ties     *)
(* them together: without it an open that ends after dispose could drop    *)
(* waiters.  Each part has a lemma that goes through the actions of Next.  *)
(***************************************************************************)
EXTENDS HostPool, SequencingProofs

\* The callers that hold a slot.
Holders == {c \in Callers : phase[c] \in Holding}

\* The callers that are queued for one.
Queued == {c \in Callers : phase[c] = "queued"}

\* The callers that open a connection.
Openers == {c \in Callers : phase[c] = "opening"}

\* The callers that wait for a place on another's open.
Parked == {c \in Callers : phase[c] = "waiting"}

\* The runs a connection carries.
RunsOn(k) == {c \in Callers : on[c] = k /\ phase[c] = "running" /\ kind[c] = "run"}

\* Only a createPrefix stages.
StagingPrepares == \A c \in Callers : phase[c] = "staging" => kind[c] = "prepare"

\* The registry knows every open connection.
OpenIsListed == \A k \in Conns : sock[k] = "open" => k \in ToSet(connections)

\* A disposed pool keeps nobody and nothing.
DisposedIsEmpty == disposed => queue = <<>> /\ waiters = <<>> /\ connections = <<>>

\* The inductive invariant.
PoolInv ==
  /\ TypeOK
  /\ SlotsExact /\ NobodyWaitsForAFreeSlot
  /\ EveryWaiterHasAPlace
  /\ StagingPrepares /\ OpenIsListed /\ DisposedIsEmpty
  /\ SweepIsArmed /\ RunsWithinCap

USE PoolAssumptions DEF PoolAssumptions
-----------------------------------------------------------------------------
\* The first fit is one of the connections that fit.
LEMMA MinFits ==
  ASSUME TypeOK, Fits # {}
  PROVE  Min(Fits) \in Fits /\ Min(Fits) \in 1..Len(connections)
<1>1. Fits \in SUBSET Nat /\ Fits \subseteq 1..Len(connections)
  BY DEF TypeOK, Fits
<1>2. PICK m \in Fits : \A j \in Fits : m <= j
  <2> HIDE DEF Fits
  <2> QED BY <1>1, Least
<1>3. Min(Fits) = CHOOSE x \in Fits : \A y \in Fits : x <= y
  BY DEF Min
<1> QED BY <1>1, <1>2, <1>3

\* What tryAcquire drops is never a usable connection.
LEMMA DropDeadFacts ==
  ASSUME TypeOK, NEW n \in 0..Len(connections)
  PROVE  /\ DropDead(n) \in Seq(Conns) /\ Len(DropDead(n)) <= Len(connections)
         /\ ToSet(DropDead(n)) \subseteq ToSet(connections)
         /\ \A k \in ToSet(connections) : Usable(k) => k \in ToSet(DropDead(n))
<1> DEFINE m == Len(connections)
           U == {k \in Conns : Usable(k)}
           a == SubSeq(connections, 1, n)
           b == SubSeq(connections, n + 1, m)
           f == Sift(a, U)
<1>1. connections \in Seq(Conns) /\ m \in Nat
  BY DEF TypeOK
<1>2. /\ a \in Seq(Conns) /\ Len(a) = n /\ \A i \in 1..n : a[i] = connections[i]
      /\ b \in Seq(Conns) /\ Len(b) = m - n /\ \A i \in 1..(m - n) : b[i] = connections[n + i]
  BY <1>1
<1>3. DropDead(n) = f \o b
  BY DEF DropDead
<1>4. f \in Seq(Conns) /\ Len(f) <= n /\ ToSet(f) = ToSet(a) \cap U
  <2> HIDE DEF a, U
  <2> QED BY <1>2, SiftFacts
<1> HIDE DEF f, a, b, U, m
<1>5. f \o b \in Seq(Conns) /\ Len(f \o b) <= m
  BY <1>1, <1>2, <1>4
<1>6. ToSet(f \o b) = ToSet(f) \cup ToSet(b)
  <2>1. Range(f \o b) = Range(f) \cup Range(b)
    BY <1>2, <1>4, RangeConcatenation
  <2> QED BY <2>1 DEF ToSet, Range
<1>7. DOMAIN a = 1..n /\ DOMAIN b = 1..(m - n) /\ DOMAIN connections = 1..m
  BY <1>1, <1>2 DEF m
<1>8. ToSet(a) \subseteq ToSet(connections) /\ ToSet(b) \subseteq ToSet(connections)
  <2>1. \A i \in 1..(m - n) : n + i \in 1..m
    BY <1>1
  <2>2. \A i \in 1..n : i \in 1..m
    BY <1>1 DEF m
  <2> QED BY <1>2, <1>7, <2>1, <2>2 DEF ToSet
<1>9. ASSUME NEW k \in ToSet(connections), Usable(k) PROVE k \in ToSet(f) \cup ToSet(b)
  <2>1. PICK i \in 1..m : k = connections[i]
    BY <1>7 DEF ToSet
  <2>2. k \in Conns
    BY <1>1, <2>1 DEF m
  <2>3. CASE i <= n
    <3>1. k \in ToSet(a)
      BY <1>2, <1>7, <2>1, <2>3 DEF ToSet
    <3> QED BY <1>4, <1>9, <2>2, <3>1 DEF U
  <2>4. CASE i > n
    <3>1. i - n \in 1..(m - n) /\ n + (i - n) = i
      BY <1>1, <2>4
    <3>2. b[i - n] = connections[i]
      BY <1>2, <3>1
    <3> QED BY <1>7, <2>1, <3>1, <3>2 DEF ToSet
  <2> QED BY <2>3, <2>4
<1> QED BY <1>3, <1>4, <1>5, <1>6, <1>8, <1>9 DEF m
-----------------------------------------------------------------------------
\* release hands the slot to the longest-queued caller or gives it up.
LEMMA ReleaseType ==
  ASSUME TypeOK, NEW c \in Callers, active > 0, ReleaseSlot(c)
  PROVE  /\ phase' \in [Callers -> Phases] /\ kind' \in [Callers -> Kinds \cup {"none"}]
         /\ capacity' = capacity /\ active' \in Nat /\ queue' \in Seq(Callers)
<1>1. kind' \in [Callers -> Kinds \cup {"none"}]
  BY DEF TypeOK, ReleaseSlot
<1>2. phase' \in [Callers -> Phases]
  <2>1. CASE active <= capacity /\ queue # <<>>
    BY <2>1 DEF TypeOK, ReleaseSlot, Phases, Holding
  <2>2. CASE ~(active <= capacity /\ queue # <<>>)
    BY <2>2 DEF TypeOK, ReleaseSlot, Phases, Holding
  <2> QED BY <2>1, <2>2
<1>3. capacity' = capacity /\ active' \in Nat /\ queue' \in Seq(Callers)
  <2>1. queue # <<>> => Tail(queue) \in Seq(Callers)
    BY DEF TypeOK
  <2>2. active - 1 \in Nat
    BY DEF TypeOK
  <2> QED BY <2>1, <2>2 DEF TypeOK, ReleaseSlot
<1> QED BY <1>1, <1>2, <1>3

\* The step admits the first `in` queued callers and settles some, because the
\* allowance grew.
Admits(in, settled) ==
  /\ capacity' \in Nat \ {0} /\ active' = active + in
  /\ queue' = SubSeq(queue, in + 1, Len(queue))
  /\ phase' = [c \in Callers |-> IF c \in settled THEN "settling"
                                 ELSE IF c \in ToSet(SubSeq(queue, 1, in)) THEN "admitted"
                                 ELSE phase[c]]
  /\ capacity' = capacity => in = 0
  /\ capacity' # capacity /\ in < Len(queue) => active + in >= capacity'

\* An allowance admits from the front of the queue, as many as it has room for.
LEMMA CapacityStep ==
  ASSUME TypeOK, NEW a \in Allowances, NEW settled, SetCapacity(a, settled)
  PROVE  \E in \in 0..Len(queue) : Admits(in, settled)
<1> DEFINE cap == IF disposed \/ a = 0 THEN capacity ELSE a
           low == Min({cap - active, Len(queue)})
           n   == Max({0, low})
           in  == IF cap = capacity THEN 0 ELSE n
<1>1. cap \in Nat \ {0} /\ Len(queue) \in Nat /\ active \in Nat /\ capacity \in Nat
  BY DEF TypeOK
<1>2. /\ capacity' = cap /\ active' = active + in
      /\ queue' = SubSeq(queue, in + 1, Len(queue))
      /\ phase' = [c \in Callers |->
                          IF c \in settled THEN "settling"
                          ELSE IF c \in ToSet(SubSeq(queue, 1, in)) THEN "admitted"
                          ELSE phase[c]]
  BY DEF SetCapacity
<1> HIDE DEF cap
<1>3. low = IF cap - active <= Len(queue) THEN cap - active ELSE Len(queue)
  <2>1. cap - active \in Int /\ Len(queue) \in Int
    BY <1>1
  <2> QED BY <2>1, MinOfTwo
<1>4. n = IF 0 <= low THEN low ELSE 0
  <2>1. low \in Int
    BY <1>1, <1>3
  <2> HIDE DEF low
  <2> QED BY <2>1, MaxOfTwo
<1> HIDE DEF low, n
<1>5. in \in 0..Len(queue) /\ (cap # capacity /\ in < Len(queue) => active + in >= cap)
  BY <1>1, <1>3, <1>4
<1>6. cap = capacity => in = 0
  BY DEF cap
<1> HIDE DEF in
<1>7. Admits(in, settled)
  BY <1>1, <1>2, <1>5, <1>6 DEF Admits
<1> QED BY <1>5, <1>7

\* A caller given a connection stages or runs.
LEMMA StartedPhase ==
  ASSUME NEW c \in Callers
  PROVE  Started(c) \in {"staging", "running"}
BY DEF Started

\* Moving callers to a phase leaves every phase well typed.
LEMMA MoveType ==
  ASSUME TypeOK, NEW S, NEW to \in Phases
  PROVE  Move(S, to) \in [Callers -> Phases]
BY DEF TypeOK, Move

\* openOrWait leaves the phases, the opens and the waiters well typed.
LEMMA OpenOrWaitType ==
  ASSUME TypeOK, NEW c \in Callers, OpenOrWait(c)
  PROVE  phase' \in [Callers -> Phases] /\ opening' \in Nat /\ waiters' \in Seq(Callers)
<1>1. {"opening", "waiting"} \subseteq Phases
  BY DEF Phases, Holding
<1>2. Move({c}, "opening") \in [Callers -> Phases] /\ Move({c}, "waiting") \in [Callers -> Phases]
  BY <1>1, MoveType
<1>3. opening + 1 \in Nat /\ Append(waiters, c) \in Seq(Callers)
  BY DEF TypeOK
<1> QED BY <1>2, <1>3 DEF TypeOK, OpenOrWait

\* The waiters an open claims, and the ones it leaves.
LEMMA ClaimedFacts ==
  ASSUME TypeOK
  PROVE  /\ Settled \in 0..Len(waiters) /\ Settled <= PerConn - 1
         /\ (Settled = PerConn - 1 \/ Settled = Len(waiters))
         /\ SubSeq(waiters, 1, Settled) \in Seq(Callers)
         /\ SubSeq(waiters, Settled + 1, Len(waiters)) \in Seq(Callers)
         /\ Claimed \subseteq ToSet(waiters) /\ Claimed \subseteq Callers
<1>1. Settled = IF PerConn - 1 <= Len(waiters) THEN PerConn - 1 ELSE Len(waiters)
  <2>1. PerConn - 1 \in Int /\ Len(waiters) \in Int
    BY DEF TypeOK
  <2> QED BY <2>1, MinOfTwo DEF Settled
<1>2. Len(waiters) \in Nat /\ DOMAIN waiters = 1..Len(waiters) /\ waiters \in Seq(Callers)
  BY DEF TypeOK
<1>3. Settled \in 0..Len(waiters)
  <2>1. PerConn \in Nat /\ PerConn # 0
    OBVIOUS
  <2>2. PerConn - 1 \in Nat /\ Len(waiters) \in Nat
    BY <1>2, <2>1
  <2>3. CASE PerConn - 1 <= Len(waiters)
    BY <1>1, <2>2, <2>3
  <2>4. CASE ~(PerConn - 1 <= Len(waiters))
    BY <1>1, <2>2, <2>4
  <2> QED BY <2>3, <2>4
<1> DEFINE m == Settled
           t == SubSeq(waiters, 1, m)
<1> HIDE DEF m
<1>4. t \in Seq(Callers) /\ Len(t) = m /\ \A i \in 1..m : t[i] = waiters[i]
  BY <1>2, <1>3 DEF m
<1>5. DOMAIN t = 1..m /\ \A i \in 1..m : i \in 1..Len(waiters) /\ waiters[i] \in Callers
  BY <1>2, <1>3, <1>4 DEF m
<1>6. SubSeq(waiters, m + 1, Len(waiters)) \in Seq(Callers)
  BY <1>2, <1>3 DEF m
<1> HIDE DEF t
<1>7. ToSet(t) \subseteq ToSet(waiters) /\ ToSet(t) \subseteq Callers
  BY <1>2, <1>4, <1>5 DEF ToSet
<1>8. Claimed \subseteq ToSet(waiters) /\ Claimed \subseteq Callers
  BY <1>7 DEF m, t, Claimed
<1>9. Settled <= PerConn - 1 /\ (Settled = PerConn - 1 \/ Settled = Len(waiters))
  <2>1. PerConn - 1 \in Int
    OBVIOUS
  <2>2. Len(waiters) \in Int
    BY <1>2
  <2>3. CASE PerConn - 1 <= Len(waiters)
    BY <1>1, <2>1, <2>3
  <2>4. CASE ~(PerConn - 1 <= Len(waiters))
    BY <1>1, <2>1, <2>2, <2>4
  <2> QED BY <2>3, <2>4
<1> QED BY <1>3, <1>4, <1>6, <1>8, <1>9 DEF m, t
-----------------------------------------------------------------------------
\* Every variable has its type at first.
LEMMA TypeInit == Init => TypeOK
<1> SUFFICES ASSUME Init PROVE TypeOK
  OBVIOUS
<1>1. phase \in [Callers -> Phases] /\ kind \in [Callers -> Kinds \cup {"none"}]
      /\ on \in [Callers -> Conns \cup {NoConn}]
  BY DEF Init, Phases
<1>2. capacity \in Nat \ {0} /\ active \in Nat /\ queue \in Seq(Callers)
      /\ connections \in Seq(Conns) /\ opening \in Nat /\ waiters \in Seq(Callers)
  BY DEF Init
<1>3. timer \in BOOLEAN /\ aged \subseteq Conns /\ disposed \in BOOLEAN
  BY DEF Init
<1>4. sock \in [Conns -> {"open", "closed", "dead"}] /\ epilogues \in [Conns -> Nat]
  BY DEF Init
<1> QED BY <1>1, <1>2, <1>3, <1>4 DEF TypeOK

\* While a caller holds a slot the pool counts one, and while one opens a
\* connection the registry counts an open: neither counter goes below zero.
LEMMA Counted ==
  ASSUME PoolInv
  PROVE  /\ \A c \in Callers : phase[c] \in Holding => active > 0
         /\ \A c \in Callers : phase[c] = "opening" => opening > 0
<1>1. \A S \in SUBSET Callers : IsFiniteSet(S) /\ Cardinality(S) \in Nat
                                /\ (Cardinality(S) = 0 <=> S = {})
  BY FS_Subset, FS_CardinalityType, FS_EmptySet
<1>2. Holders \in SUBSET Callers /\ Openers \in SUBSET Callers
  BY DEF Holders, Openers
<1>3. active = Cardinality(Holders) /\ opening = Cardinality(Openers)
  BY DEF PoolInv, SlotsExact, EveryWaiterHasAPlace, Holders, Openers
<1>4. \A c \in Callers : (phase[c] \in Holding => c \in Holders)
                         /\ (phase[c] = "opening" => c \in Openers)
  BY DEF Holders, Openers
<1> HIDE DEF Holders, Openers
<1> QED BY <1>1, <1>2, <1>3, <1>4

\* Every action keeps every variable's type.
LEMMA TypeStep == PoolInv /\ [Next]_vars => TypeOK'
<1> SUFFICES ASSUME PoolInv, [Next]_vars PROVE TypeOK'
  OBVIOUS
<1>0. TypeOK
  BY DEF PoolInv
<1> USE DEF slotVars, regVars, connVars
<1>p. {"idle", "queued", "admitted", "retry", "staging", "running", "settling"} \subseteq Phases
  BY DEF Phases, Holding
<1>h. {"admitted", "retry", "settling", "opening"} \subseteq Holding
  BY DEF Holding
<1>1. ASSUME NEW c \in Callers, NEW what \in Kinds, Call(c, what) PROVE TypeOK'
  <2>1. Append(queue, c) \in Seq(Callers) /\ active + 1 \in Nat
    BY <1>0 DEF TypeOK
  <2>2. Move({c}, "admitted") \in [Callers -> Phases] /\ Move({c}, "queued") \in [Callers -> Phases]
    BY <1>0, <1>p, MoveType
  <2> QED BY <1>0, <1>1, <2>1, <2>2 DEF TypeOK, Call
<1>2. ASSUME NEW c \in Callers, AbortQueued(c) PROVE TypeOK'
  <2>1. Move({c}, "idle") \in [Callers -> Phases]
    BY <1>0, <1>p, MoveType
  <2>2. queue' \in Seq(Callers)
    <3>1. PICK i \in DOMAIN queue : queue' = RemoveAt(queue, i)
      BY <1>2 DEF AbortQueued
    <3>2. queue \in Seq(Callers) /\ i \in 1..Len(queue)
      BY <1>0 DEF TypeOK
    <3>3. SubSeq(queue, 1, i - 1) \in Seq(Callers) /\ SubSeq(queue, i + 1, Len(queue)) \in Seq(Callers)
      BY <3>2
    <3> QED BY <3>1, <3>3 DEF RemoveAt
  <2> QED BY <1>0, <1>2, <2>1, <2>2 DEF TypeOK, AbortQueued
<1>3. ASSUME NEW c \in Callers, SeatRefused(c) PROVE TypeOK'
  <2>1. active > 0 /\ ReleaseSlot(c)
    BY <1>3, <1>h, Counted DEF SeatRefused
  <2> QED BY <1>0, <1>3, <2>1, ReleaseType DEF TypeOK, SeatRefused
<1>4. ASSUME NEW c \in Callers, Seat(c) PROVE TypeOK'
  <2> DEFINE i == Min(Fits)
             k == connections[i]
  <2>1. i \in 1..Len(connections)
    BY <1>0, <1>4, MinFits DEF Seat
  <2>2. k \in Conns
    BY <1>0, <2>1 DEF TypeOK
  <2>3. connections' \in Seq(Conns)
    BY <1>0, <1>4, <2>1, DropDeadFacts DEF Seat
  <2>4. phase' \in [Callers -> Phases]
    BY <1>0, <1>4, <1>p, MoveType, StartedPhase DEF Seat
  <2>5. on' = [on EXCEPT ![c] = k] /\ aged' \subseteq aged
    BY <1>4 DEF Seat
  <2> HIDE DEF k, i
  <2>6. on' \in [Callers -> Conns \cup {NoConn}] /\ aged' \subseteq Conns
    BY <1>0, <2>2, <2>5 DEF TypeOK
  <2> QED BY <1>0, <1>4, <2>3, <2>4, <2>6 DEF TypeOK, Seat
<1>5. ASSUME NEW c \in Callers, SeekPlace(c) PROVE TypeOK'
  <2>1. connections' \in Seq(Conns)
    <3>1. Len(connections) \in 0..Len(connections)
      BY <1>0 DEF TypeOK
    <3> QED BY <1>0, <1>5, <3>1, DropDeadFacts DEF SeekPlace
  <2>2. phase' \in [Callers -> Phases] /\ opening' \in Nat /\ waiters' \in Seq(Callers)
    BY <1>0, <1>5, OpenOrWaitType DEF SeekPlace
  <2> QED BY <1>0, <1>5, <2>1, <2>2 DEF TypeOK, SeekPlace
<1>6. ASSUME NEW c \in Callers, RetryPlace(c) PROVE TypeOK'
  <2>1. phase' \in [Callers -> Phases] /\ opening' \in Nat /\ waiters' \in Seq(Callers)
    BY <1>0, <1>6, OpenOrWaitType DEF RetryPlace
  <2> QED BY <1>0, <1>6, <2>1 DEF TypeOK, RetryPlace
<1>s. ASSUME NEW c \in Callers, phase[c] = "opening", SettleWaiters
      PROVE  opening' \in Nat /\ waiters' \in Seq(Callers)
  <2>1. opening > 0
    BY <1>s, Counted
  <2> QED BY <1>0, <1>s, <2>1, ClaimedFacts DEF TypeOK, SettleWaiters
<1>7. ASSUME NEW c \in Callers, NEW k \in Conns, OpenSucceeds(c, k) PROVE TypeOK'
  <2>1. opening' \in Nat /\ waiters' \in Seq(Callers)
    BY <1>7, <1>s DEF OpenSucceeds
  <2>2. phase' \in [Callers -> Phases]
    <3>1. \A d \in Callers : Started(d) \in Phases
      BY <1>p, StartedPhase
    <3> QED BY <1>0, <1>7, <3>1 DEF TypeOK, OpenSucceeds
  <2>3. on' \in [Callers -> Conns \cup {NoConn}]
    BY <1>0, <1>7 DEF TypeOK, OpenSucceeds
  <2>4. connections' \in Seq(Conns) /\ sock' \in [Conns -> {"open", "closed", "dead"}]
    BY <1>0, <1>7 DEF TypeOK, OpenSucceeds
  <2>5. timer' \in BOOLEAN
    BY <1>7 DEF OpenSucceeds, StartSweep
  <2> QED BY <1>0, <1>7, <2>1, <2>2, <2>3, <2>4, <2>5 DEF TypeOK, OpenSucceeds
<1>8. ASSUME NEW c \in Callers, NEW k \in Conns, OpensLate(c, k) PROVE TypeOK'
  <2>1. opening' \in Nat /\ waiters' \in Seq(Callers)
    BY <1>8, <1>s DEF OpensLate
  <2>2. phase' \in [Callers -> Phases]
    BY <1>0, <1>8, <1>p, MoveType DEF OpensLate
  <2>3. sock' \in [Conns -> {"open", "closed", "dead"}]
    BY <1>0, <1>8 DEF TypeOK, OpensLate
  <2> QED BY <1>0, <1>8, <2>1, <2>2, <2>3 DEF TypeOK, OpensLate
<1>9. ASSUME NEW c \in Callers, OpenFails(c) PROVE TypeOK'
  <2>1. opening' \in Nat /\ waiters' \in Seq(Callers)
    BY <1>9, <1>s DEF OpenFails
  <2>2. phase' \in [Callers -> Phases]
    BY <1>0, <1>9, <1>p DEF TypeOK, OpenFails
  <2> QED BY <1>0, <1>9, <2>1, <2>2 DEF TypeOK, OpenFails
<1>10. ASSUME NEW c \in Callers, Precompile(c) PROVE TypeOK'
  <2>1. phase' \in [Callers -> Phases]
    BY <1>0, <1>10, <1>p, MoveType DEF Precompile
  <2> QED BY <1>0, <1>10, <2>1 DEF TypeOK, Precompile
<1>11. ASSUME NEW c \in Callers, StagingFails(c) PROVE TypeOK'
  <2>1. phase' \in [Callers -> Phases]
    BY <1>0, <1>11, <1>p, MoveType DEF StagingFails
  <2> QED BY <1>0, <1>11, <2>1 DEF TypeOK, StagingFails
<1>12. ASSUME NEW c \in Callers, NEW a \in Allowances, NEW b \in BOOLEAN, Result(c, a, b)
       PROVE  TypeOK'
  <2>1. SetCapacity(a, {c})
    BY <1>12 DEF Result
  <2>2. PICK in \in 0..Len(queue) : Admits(in, {c})
    BY <1>0, <2>1, CapacityStep
  <2>3. queue \in Seq(Callers)
    BY <1>0 DEF TypeOK
  <2>4. active' \in Nat /\ queue' \in Seq(Callers) /\ capacity' \in Nat \ {0}
    BY <1>0, <2>2, <2>3 DEF TypeOK, Admits
  <2>5. phase' \in [Callers -> Phases]
    BY <1>0, <1>p, <2>2 DEF TypeOK, Admits
  <2>6. epilogues' \in [Conns -> Nat]
    <3>1. epilogues' = [epilogues EXCEPT ![on[c]] = @ + (IF b THEN 1 ELSE 0)]
      BY <1>12 DEF Result
    <3>2. (IF b THEN 1 ELSE 0) \in Nat
      OBVIOUS
    <3>3. ASSUME NEW n \in Nat, NEW f \in [Conns -> Nat], NEW k
          PROVE  [f EXCEPT ![k] = @ + n] \in [Conns -> Nat]
      <4>1. CASE k \in Conns
        BY <4>1
      <4>2. CASE k \notin Conns
        BY <4>2
      <4> QED BY <4>1, <4>2
    <3> HIDE DEF slotVars, regVars, connVars
    <3> QED BY <1>0, <3>1, <3>2, <3>3 DEF TypeOK
  <2> QED BY <1>0, <1>12, <2>4, <2>5, <2>6 DEF TypeOK, Result
<1>13. ASSUME NEW c \in Callers, Reply(c) PROVE TypeOK'
  <2>1. phase' \in [Callers -> Phases]
    BY <1>0, <1>13, <1>p, MoveType DEF Reply
  <2> QED BY <1>0, <1>13, <2>1 DEF TypeOK, Reply
<1>14. ASSUME NEW c \in Callers, Settle(c) PROVE TypeOK'
  <2>1. active > 0 /\ ReleaseSlot(c)
    BY <1>14, <1>h, Counted DEF Settle
  <2>2. on' \in [Callers -> Conns \cup {NoConn}]
    BY <1>0, <1>14 DEF TypeOK, Settle
  <2> QED BY <1>0, <1>14, <2>1, <2>2, ReleaseType DEF TypeOK, Settle
<1>15. ASSUME NEW k \in Conns, EpilogueEnds(k) PROVE TypeOK'
  <2>1. epilogues' \in [Conns -> Nat]
    BY <1>0, <1>15 DEF TypeOK, EpilogueEnds
  <2> QED BY <1>0, <1>15, <2>1 DEF TypeOK, EpilogueEnds
<1>16. ASSUME NEW k \in Conns, Break(k) PROVE TypeOK'
  <2>1. sock' \in [Conns -> {"open", "closed", "dead"}]
    BY <1>0, <1>16 DEF TypeOK, Break
  <2> QED BY <1>0, <1>16, <2>1 DEF TypeOK, Break
<1>17. ASSUME NEW k \in Conns, TearDown(k) PROVE TypeOK'
  <2>1. sock' \in [Conns -> {"open", "closed", "dead"}] /\ epilogues' \in [Conns -> Nat]
    BY <1>0, <1>17 DEF TypeOK, TearDown
  <2>2. phase' \in [Callers -> Phases]
    BY <1>0, <1>17, <1>p, MoveType DEF TearDown
  <2> QED BY <1>0, <1>17, <2>1, <2>2 DEF TypeOK, TearDown
<1>18. ASSUME NEW k \in Conns, Age(k) PROVE TypeOK'
  BY <1>0, <1>18 DEF TypeOK, Age
<1>19. ASSUME Sweep PROVE TypeOK'
  <2>1. connections \in Seq(Conns)
    BY <1>0 DEF TypeOK
  <2>2. connections' \in Seq(Conns)
    BY <1>19, <2>1, SiftFacts DEF Sweep
  <2>3. sock' \in [Conns -> {"open", "closed", "dead"}]
    BY <1>0, <1>19 DEF TypeOK, Sweep
  <2>4. timer' \in BOOLEAN
    BY <1>19 DEF Sweep
  <2>5. aged' \subseteq Conns
    BY <1>0, <1>19 DEF TypeOK, Sweep
  <2> QED BY <1>0, <1>19, <2>2, <2>3, <2>4, <2>5 DEF TypeOK, Sweep
<1>20. ASSUME Dispose PROVE TypeOK'
  <2>1. phase' \in [Callers -> Phases] /\ kind' \in [Callers -> Kinds \cup {"none"}]
    BY <1>0, <1>20, <1>p DEF TypeOK, Dispose
  <2>2. sock' \in [Conns -> {"open", "closed", "dead"}]
    BY <1>0, <1>20 DEF TypeOK, Dispose
  <2>3. disposed' \in BOOLEAN /\ timer' \in BOOLEAN
    BY <1>20 DEF Dispose
  <2> QED BY <1>0, <1>20, <2>1, <2>2, <2>3 DEF TypeOK, Dispose
<1>21. CASE UNCHANGED vars
  BY <1>0, <1>21 DEF TypeOK, vars
<1> QED BY <1>1, <1>2, <1>3, <1>4, <1>5, <1>6, <1>7, <1>8, <1>9, <1>10, <1>11, <1>12, <1>13,
           <1>14, <1>15, <1>16, <1>17, <1>18, <1>19, <1>20, <1>21 DEF Next
-----------------------------------------------------------------------------
\* The step moves nobody into or out of the callers that hold a slot or are
\* queued for one.
SameSlots ==
  /\ UNCHANGED slotVars
  /\ \A c \in Callers : /\ phase'[c] \in Holding <=> phase[c] \in Holding
                        /\ phase'[c] = "queued" <=> phase[c] = "queued"

\* The slots' part of the invariant.
SlotInv == SlotsExact /\ NobodyWaitsForAFreeSlot

\* A step that moves nobody in or out of a slot or the queue keeps the slots'
\* part.
LEMMA SlotsStay ==
  ASSUME SlotInv, SameSlots
  PROVE  SlotInv'
<1>1. {c \in Callers : phase'[c] \in Holding} = {c \in Callers : phase[c] \in Holding}
  BY DEF SameSlots
<1>2. {c \in Callers : phase'[c] = "queued"} = {c \in Callers : phase[c] = "queued"}
  BY DEF SameSlots
<1>3. active' = active /\ capacity' = capacity /\ queue' = queue
  BY DEF SameSlots, slotVars
<1> QED BY <1>1, <1>2, <1>3 DEF SlotInv, SlotsExact, NobodyWaitsForAFreeSlot

\* What the counting of callers rests on.
LEMMA CallerSets ==
  ASSUME NEW S \in SUBSET Callers
  PROVE  /\ IsFiniteSet(S) /\ Cardinality(S) \in Nat
         /\ Cardinality(S) = 0 <=> S = {}
         /\ \A c : c \notin S => Cardinality(S \cup {c}) = Cardinality(S) + 1
         /\ \A c \in S : Cardinality(S \ {c}) = Cardinality(S) - 1
         /\ \A T \in SUBSET S : Cardinality(T) <= Cardinality(S)
<1>1. IsFiniteSet(S)
  BY FS_Subset
<1> QED BY <1>1, FS_CardinalityType, FS_EmptySet, FS_AddElement, FS_RemoveElement, FS_Subset

\* acquire counts the caller it admits, and queues one only when no slot is
\* free.
LEMMA SlotsCall ==
  ASSUME PoolInv, NEW c \in Callers, NEW what \in Kinds, Call(c, what)
  PROVE  SlotInv'
<1>0. TypeOK /\ SlotInv /\ active = Cardinality(Holders) /\ ToSet(queue) = Queued /\ IsInjective(queue)
  BY DEF PoolInv, SlotInv, SlotsExact, NobodyWaitsForAFreeSlot, Holders, Queued
<1>1. phase[c] = "idle" /\ c \notin Holders /\ c \notin Queued
  BY DEF Call, Holders, Queued, Holding
<1>t. queue \in Seq(Callers) /\ DOMAIN queue = 1..Len(queue) /\ Len(queue) \in Nat
      /\ phase \in [Callers -> Phases] /\ capacity \in Nat
  BY <1>0 DEF TypeOK
<1>2. CASE active < capacity
  <2>1. active' = active + 1 /\ queue' = queue /\ capacity' = capacity /\ phase' = Move({c}, "admitted")
    BY <1>0, <1>2 DEF Call, TypeOK
  <2>2. {d \in Callers : phase'[d] \in Holding} = Holders \cup {c}
    BY <2>1 DEF Move, Holders, Holding
  <2>3. {d \in Callers : phase'[d] = "queued"} = Queued
    BY <1>1, <2>1 DEF Move, Queued
  <2>4. Cardinality(Holders \cup {c}) = Cardinality(Holders) + 1
    BY <1>1, CallerSets DEF Holders
  <2>5. queue = <<>>
    BY <1>0, <1>2 DEF SlotInv, NobodyWaitsForAFreeSlot, TypeOK
  <2> QED BY <1>0, <2>1, <2>2, <2>3, <2>4, <2>5 DEF SlotInv, SlotsExact, NobodyWaitsForAFreeSlot
<1>3. CASE ~(active < capacity)
  <2>1. /\ active' = active /\ queue' = Append(queue, c) /\ capacity' = capacity
        /\ phase' = Move({c}, "queued") /\ active >= capacity
    BY <1>0, <1>3 DEF Call, TypeOK
  <2>2. {d \in Callers : phase'[d] \in Holding} = Holders
    BY <1>1, <2>1 DEF Move, Holders, Holding
  <2>3. {d \in Callers : phase'[d] = "queued"} = Queued \cup {c}
    BY <2>1 DEF Move, Queued
  <2>4. ToSet(Append(queue, c)) = ToSet(queue) \cup {c} /\ IsInjective(Append(queue, c))
    BY <1>0, <1>1, <1>t, AppendDistinct
  <2> QED BY <1>0, <2>1, <2>2, <2>3, <2>4 DEF SlotInv, SlotsExact, NobodyWaitsForAFreeSlot
<1> QED BY <1>2, <1>3

\* An abort takes exactly the aborted caller out of the queue.
LEMMA SlotsAbort ==
  ASSUME PoolInv, NEW c \in Callers, AbortQueued(c)
  PROVE  SlotInv'
<1>0. TypeOK /\ SlotInv /\ ToSet(queue) = Queued /\ IsInjective(queue) /\ queue \in Seq(Callers)
  BY DEF PoolInv, SlotInv, NobodyWaitsForAFreeSlot, Queued, TypeOK
<1>1. PICK i \in DOMAIN queue : queue[i] = c /\ queue' = RemoveAt(queue, i)
  BY DEF AbortQueued
<1>2. i \in 1..Len(queue)
  BY <1>0
<1>3. IsInjective(queue') /\ ToSet(queue') = ToSet(queue) \ {c}
  BY <1>0, <1>1, <1>2, RemoveDistinct
<1>4. phase' = Move({c}, "idle") /\ phase[c] = "queued" /\ active' = active /\ capacity' = capacity
  BY DEF AbortQueued
<1>5. {d \in Callers : phase'[d] \in Holding} = {d \in Callers : phase[d] \in Holding}
  BY <1>4 DEF Move, Holding
<1>6. {d \in Callers : phase'[d] = "queued"} = Queued \ {c}
  BY <1>4 DEF Move, Queued
<1>7. queue # <<>>
  BY <1>0, <1>2
<1> QED BY <1>0, <1>3, <1>4, <1>5, <1>6, <1>7 DEF SlotInv, SlotsExact, NobodyWaitsForAFreeSlot

\* release frees one slot or hands it to the longest-queued caller, and never
\* leaves somebody queued beside a free slot.
LEMMA SlotsRelease ==
  ASSUME PoolInv, NEW c \in Callers, phase[c] \in Holding, ReleaseSlot(c)
  PROVE  SlotInv'
<1>0. /\ active = Cardinality(Holders) /\ ToSet(queue) = Queued /\ IsInjective(queue)
      /\ queue \in Seq(Callers) /\ phase \in [Callers -> Phases] /\ SlotInv
      /\ queue # <<>> => active >= capacity
  BY DEF PoolInv, SlotInv, SlotsExact, NobodyWaitsForAFreeSlot, Queued, Holders, TypeOK
<1>1. c \in Holders /\ c \notin Queued /\ Holders \in SUBSET Callers
  BY DEF Holders, Queued, Holding
<1>2. CASE active <= capacity /\ queue # <<>>
  <2> DEFINE d == Head(queue)
  <2>1. /\ queue' = Tail(queue) /\ capacity' = capacity /\ active' = active
        /\ phase' = [phase EXCEPT ![c] = "idle", ![d] = "admitted"]
    BY <1>2 DEF ReleaseSlot
  <2>2. d \in ToSet(queue) /\ IsInjective(Tail(queue)) /\ ToSet(Tail(queue)) = ToSet(queue) \ {d}
    BY <1>0, <1>2, TailDistinct
  <2> HIDE DEF d
  <2>3. d \in Callers /\ phase[d] = "queued" /\ d # c /\ d \notin Holders
    BY <1>0, <1>1, <2>2 DEF Queued, Holders, Holding
  <2>4. {e \in Callers : phase'[e] \in Holding} = (Holders \ {c}) \cup {d}
    BY <1>0, <2>1, <2>3 DEF Holders, Holding
  <2>5. {e \in Callers : phase'[e] = "queued"} = Queued \ {d}
    BY <1>0, <1>1, <2>1, <2>3 DEF Queued
  <2>6. Cardinality((Holders \ {c}) \cup {d}) = Cardinality(Holders)
    <3>1. Cardinality(Holders \ {c}) = Cardinality(Holders) - 1 /\ Cardinality(Holders) \in Nat
      BY <1>1, CallerSets
    <3>2. Cardinality((Holders \ {c}) \cup {d}) = Cardinality(Holders \ {c}) + 1
      <4>1. Holders \ {c} \in SUBSET Callers /\ d \notin Holders \ {c}
        BY <1>1, <2>3
      <4> QED BY <4>1, CallerSets
    <3> QED BY <3>1, <3>2
  <2>7. queue # <<>>
    BY <1>2
  <2> QED BY <1>0, <2>1, <2>2, <2>4, <2>5, <2>6, <2>7
          DEF SlotInv, SlotsExact, NobodyWaitsForAFreeSlot
<1>3. CASE ~(active <= capacity /\ queue # <<>>)
  <2>1. /\ queue' = queue /\ capacity' = capacity /\ active' = active - 1
        /\ phase' = [phase EXCEPT ![c] = "idle"]
    BY <1>3 DEF ReleaseSlot
  <2>2. {e \in Callers : phase'[e] \in Holding} = Holders \ {c}
    BY <1>0, <2>1 DEF Holders, Holding
  <2>3. {e \in Callers : phase'[e] = "queued"} = Queued
    BY <1>0, <1>1, <2>1 DEF Queued
  <2>4. Cardinality(Holders \ {c}) = Cardinality(Holders) - 1
    BY <1>1, CallerSets
  <2>5. queue # <<>> => active - 1 >= capacity
    <3>1. active \in Nat /\ capacity \in Nat
      BY DEF PoolInv, TypeOK
    <3> QED BY <1>3, <3>1
  <2> QED BY <1>0, <2>1, <2>2, <2>3, <2>4, <2>5 DEF SlotInv, SlotsExact, NobodyWaitsForAFreeSlot
<1> QED BY <1>2, <1>3

\* An allowance that a Result brings admits from the front of the queue as
\* many as it has room for.
LEMMA SlotsResult ==
  ASSUME PoolInv, NEW c \in Callers, phase[c] = "running", NEW a \in Allowances, SetCapacity(a, {c})
  PROVE  SlotInv'
<1>0. /\ active = Cardinality(Holders) /\ ToSet(queue) = Queued /\ IsInjective(queue)
      /\ queue \in Seq(Callers) /\ TypeOK /\ active \in Nat /\ capacity \in Nat
      /\ queue # <<>> => active >= capacity
  BY DEF PoolInv, SlotsExact, NobodyWaitsForAFreeSlot, Queued, Holders, TypeOK
<1>1. PICK in \in 0..Len(queue) : Admits(in, {c})
  BY <1>0, CapacityStep
<1> DEFINE f == SubSeq(queue, 1, in)
           r == SubSeq(queue, in + 1, Len(queue))
<1>2. /\ f \in Seq(Callers) /\ r \in Seq(Callers) /\ Len(f) = in /\ Len(r) = Len(queue) - in
      /\ IsInjective(f) /\ IsInjective(r)
      /\ ToSet(queue) = ToSet(f) \cup ToSet(r) /\ ToSet(f) \cap ToSet(r) = {}
  BY <1>0, CutDistinct
<1>3. c \in Holders /\ c \notin Queued /\ Holders \in SUBSET Callers /\ Holders \cap Queued = {}
      /\ Queued \subseteq Callers
  BY DEF Holders, Queued, Holding
<1> HIDE DEF f, r
<1>4. phase' = [d \in Callers |-> IF d = c THEN "settling"
                                  ELSE IF d \in ToSet(f) THEN "admitted" ELSE phase[d]]
      /\ queue' = r /\ active' = active + in
  BY <1>1 DEF f, r, Admits
<1>5. ToSet(f) \subseteq Queued /\ ToSet(r) = Queued \ ToSet(f) /\ c \notin ToSet(f)
  BY <1>0, <1>2, <1>3
<1>6. {d \in Callers : phase'[d] \in Holding} = Holders \cup ToSet(f)
  BY <1>3, <1>4, <1>5 DEF Holders, Holding
<1>7. {d \in Callers : phase'[d] = "queued"} = ToSet(r)
  BY <1>3, <1>4, <1>5 DEF Queued
<1>8. Cardinality(Holders \cup ToSet(f)) = active + in
  <2>1. IsFiniteSet(ToSet(f)) /\ Cardinality(ToSet(f)) = in
    BY <1>2, DistinctCount
  <2>2. IsFiniteSet(Holders) /\ Holders \cap ToSet(f) = {} /\ Cardinality({}) = 0
    BY <1>3, <1>5, FS_Subset, FS_EmptySet
  <2>3. Cardinality(Holders \cup ToSet(f))
          = Cardinality(Holders) + Cardinality(ToSet(f)) - Cardinality(Holders \cap ToSet(f))
    BY <2>1, <2>2, FS_Union
  <2>4. Cardinality(Holders \cap ToSet(f)) = 0
    BY <2>2
  <2>5. Cardinality(Holders) + in - 0 = active + in
    BY <1>0
  <2> QED BY <2>1, <2>3, <2>4, <2>5
<1>9. queue' # <<>> => active' >= capacity'
  <2> SUFFICES ASSUME r # <<>> PROVE active + in >= capacity'
    BY <1>4
  <2>1. in < Len(queue) /\ queue # <<>>
    BY <1>0, <1>2
  <2> QED BY <1>0, <1>1, <2>1 DEF Admits
<1> QED BY <1>2, <1>4, <1>6, <1>7, <1>8, <1>9 DEF SlotInv, SlotsExact, NobodyWaitsForAFreeSlot

\* dispose empties the queue and takes no slot away.
LEMMA SlotsDispose ==
  ASSUME PoolInv, Dispose
  PROVE  SlotInv'
<1>1. {c \in Callers : phase'[c] \in Holding} = {c \in Callers : phase[c] \in Holding}
  BY DEF Dispose, Holding
<1>2. {c \in Callers : phase'[c] = "queued"} = {}
  BY DEF Dispose
<1>3. queue' = <<>> /\ active' = active
  BY DEF Dispose
<1>4. ToSet(<<>>) = {} /\ IsInjective(<<>>)
  BY DEF ToSet, IsInjective
<1> QED BY <1>1, <1>2, <1>3, <1>4 DEF PoolInv, SlotInv, SlotsExact, NobodyWaitsForAFreeSlot

\* A caller that holds a slot keeps it while it moves on.
LEMMA MoveWithin ==
  ASSUME NEW S, \A c \in Callers : c \in S => phase[c] \in Holding, NEW to \in Holding,
         phase' = Move(S, to), UNCHANGED slotVars
  PROVE  SameSlots
<1>1. "queued" \notin Holding
  BY DEF Holding
<1> QED BY <1>1 DEF Move, SameSlots

\* Every action keeps the slots' part of the invariant.
LEMMA SlotStep == PoolInv /\ [Next]_vars => SlotInv'
<1> SUFFICES ASSUME PoolInv, [Next]_vars PROVE SlotInv'
  OBVIOUS
<1>0. TypeOK /\ SlotInv
  BY DEF PoolInv, SlotInv
<1>1. ASSUME SameSlots PROVE SlotInv'
  BY <1>0, <1>1, SlotsStay
<1>h. /\ {"admitted", "opening", "waiting", "retry", "staging", "running", "settling"} = Holding
      /\ "queued" \notin Holding
  BY DEF Holding
<1>2. ASSUME NEW c \in Callers, SeatRefused(c) \/ Settle(c) PROVE SlotInv'
  <2>1. phase[c] \in Holding /\ ReleaseSlot(c)
    BY <1>2, <1>h DEF SeatRefused, Settle
  <2> QED BY <2>1, SlotsRelease
<1>3. ASSUME NEW c \in Callers, Seat(c) PROVE SameSlots
  <2>1. Started(c) \in Holding /\ phase[c] \in Holding /\ phase' = Move({c}, Started(c))
    BY <1>3, <1>h, StartedPhase DEF Seat
  <2>2. UNCHANGED slotVars
    BY <1>3 DEF Seat
  <2> QED BY <2>1, <2>2, MoveWithin
<1>4. ASSUME NEW c \in Callers, SeekPlace(c) \/ RetryPlace(c) PROVE SameSlots
  <2>1. phase[c] \in Holding /\ OpenOrWait(c) /\ UNCHANGED slotVars
    BY <1>4, <1>h DEF SeekPlace, RetryPlace
  <2>2. phase' = Move({c}, "opening") \/ phase' = Move({c}, "waiting")
    BY <2>1 DEF OpenOrWait
  <2> QED BY <1>h, <2>1, <2>2, MoveWithin
<1>c. \A d \in Claimed : phase[d] = "waiting"
  BY <1>0, ClaimedFacts DEF PoolInv, EveryWaiterHasAPlace
<1>5. ASSUME NEW c \in Callers, NEW k \in Conns, OpenSucceeds(c, k) PROVE SameSlots
  <2>1. phase' = [d \in Callers |-> IF d \in Claimed \cup {c} THEN Started(d) ELSE phase[d]]
    BY <1>5 DEF OpenSucceeds
  <2>2. \A d \in Callers : Started(d) \in Holding
    BY <1>h, StartedPhase
  <2>3. UNCHANGED slotVars /\ phase[c] = "opening"
    BY <1>5 DEF OpenSucceeds
  <2>4. \A d \in Claimed \cup {c} : phase[d] \in Holding
    BY <1>c, <1>h, <2>3
  <2> QED BY <1>h, <2>1, <2>2, <2>3, <2>4 DEF SameSlots
<1>6. ASSUME NEW c \in Callers, NEW k \in Conns, OpensLate(c, k) PROVE SameSlots
  BY <1>6, <1>h, MoveWithin DEF OpensLate
<1>7. ASSUME NEW c \in Callers, OpenFails(c) PROVE SameSlots
  <2>1. phase[c] = "opening" /\ UNCHANGED slotVars
        /\ phase' = [d \in Callers |-> IF d = c THEN "settling"
                                 ELSE IF d \in Claimed THEN "retry" ELSE phase[d]]
    BY <1>7 DEF OpenFails
  <2> QED BY <1>h, <1>c, <2>1 DEF SameSlots
<1>8. ASSUME NEW c \in Callers, Precompile(c) \/ StagingFails(c) \/ Reply(c) PROVE SameSlots
  <2>1. phase[c] \in Holding /\ UNCHANGED slotVars
    BY <1>8, <1>h DEF Precompile, StagingFails, Reply
  <2>2. phase' = Move({c}, "running") \/ phase' = Move({c}, "settling")
    BY <1>8 DEF Precompile, StagingFails, Reply
  <2> QED BY <1>h, <2>1, <2>2, MoveWithin
<1>9. ASSUME NEW c \in Callers, NEW a \in Allowances, NEW b \in BOOLEAN, Result(c, a, b)
      PROVE  SlotInv'
  <2>1. phase[c] = "running" /\ SetCapacity(a, {c})
    BY <1>9 DEF Result
  <2> QED BY <2>1, SlotsResult
<1>10. ASSUME NEW k \in Conns, EpilogueEnds(k) \/ Break(k) \/ Age(k) PROVE SameSlots
  BY <1>10 DEF EpilogueEnds, Break, Age, SameSlots
<1>11. ASSUME NEW k \in Conns, TearDown(k) PROVE SameSlots
  BY <1>11, <1>h, MoveWithin DEF TearDown
<1>12. ASSUME Sweep PROVE SameSlots
  BY <1>12 DEF Sweep, SameSlots
<1>13. ASSUME UNCHANGED vars PROVE SameSlots
  BY <1>13 DEF vars, SameSlots
<1> QED BY <1>1, <1>2, <1>3, <1>4, <1>5, <1>6, <1>7, <1>8, <1>9, <1>10, <1>11, <1>12, <1>13,
           SlotsCall, SlotsAbort, SlotsDispose DEF Next
-----------------------------------------------------------------------------
\* The step starts and ends no open and parks and releases nobody.
SamePlaces ==
  /\ UNCHANGED <<opening, waiters>>
  /\ \A c \in Callers : /\ phase'[c] = "opening" <=> phase[c] = "opening"
                        /\ phase'[c] = "waiting" <=> phase[c] = "waiting"

\* A step that starts and ends no open, and parks and releases nobody, keeps
\* the places.
LEMMA PlacesStay ==
  ASSUME EveryWaiterHasAPlace, SamePlaces
  PROVE  EveryWaiterHasAPlace'
<1>1. {c \in Callers : phase'[c] = "opening"} = {c \in Callers : phase[c] = "opening"}
  BY DEF SamePlaces
<1>2. {c \in Callers : phase'[c] = "waiting"} = {c \in Callers : phase[c] = "waiting"}
  BY DEF SamePlaces
<1> QED BY <1>1, <1>2 DEF EveryWaiterHasAPlace, SamePlaces

\* The products that count places.
LEMMA Products ==
  ASSUME NEW o \in Int, NEW p \in Int
  PROVE  /\ o * p \in Int /\ (o + 1) * p = o * p + p /\ (o - 1) * p = o * p - p
         /\ o >= 0 /\ p >= 0 => o * p >= 0
OBVIOUS

\* openOrWait opens or parks; it parks on a place still unclaimed.
LEMMA PlacesOpenOrWait ==
  ASSUME PoolInv, NEW c \in Callers, phase[c] \notin {"opening", "waiting"}, OpenOrWait(c)
  PROVE  EveryWaiterHasAPlace'
<1> DEFINE p == PerConn - 1
<1>0. /\ opening = Cardinality(Openers) /\ IsInjective(waiters) /\ ToSet(waiters) = Parked
      /\ Len(waiters) <= opening * p /\ opening \in Nat /\ waiters \in Seq(Callers)
      /\ Len(waiters) \in Nat /\ p \in Nat
  <2>1. PerConn \in Nat /\ PerConn # 0
    OBVIOUS
  <2> QED BY <2>1 DEF PoolInv, TypeOK, EveryWaiterHasAPlace, Openers, Parked
<1>1. c \notin Openers /\ c \notin Parked /\ Openers \in SUBSET Callers
  BY DEF Openers, Parked
<1>2. opening * p \in Int /\ (opening + 1) * p = opening * p + p
  BY <1>0, Products
<1>3. CASE NoPlace
  <2>1. opening' = opening + 1 /\ phase' = Move({c}, "opening") /\ waiters' = waiters
    BY <1>3 DEF OpenOrWait
  <2>2. {d \in Callers : phase'[d] = "opening"} = Openers \cup {c}
    BY <2>1 DEF Move, Openers
  <2>3. {d \in Callers : phase'[d] = "waiting"} = Parked
    BY <1>1, <2>1 DEF Move, Parked
  <2>4. Cardinality(Openers \cup {c}) = Cardinality(Openers) + 1
    BY <1>1, CallerSets
  <2>5. Len(waiters) <= (opening + 1) * p
    <3> HIDE DEF p
    <3> QED BY <1>0, <1>2
  <2> QED BY <1>0, <2>1, <2>2, <2>3, <2>4, <2>5 DEF EveryWaiterHasAPlace
<1>4. CASE ~NoPlace
  <2>1. opening' = opening /\ phase' = Move({c}, "waiting") /\ waiters' = Append(waiters, c)
    BY <1>4 DEF OpenOrWait
  <2>2. {d \in Callers : phase'[d] = "opening"} = Openers
    BY <1>1, <2>1 DEF Move, Openers
  <2>3. {d \in Callers : phase'[d] = "waiting"} = Parked \cup {c}
    BY <2>1 DEF Move, Parked
  <2>4. IsInjective(waiters') /\ ToSet(waiters') = Parked \cup {c}
    BY <1>0, <1>1, <2>1, AppendDistinct
  <2>5. Len(waiters') = Len(waiters) + 1 /\ ~(opening * p - Len(waiters) < 1)
    BY <1>0, <1>4, <2>1 DEF NoPlace
  <2>6. Len(waiters') <= opening * p
    <3> HIDE DEF p
    <3> QED BY <1>0, <1>2, <2>5
  <2> QED BY <1>0, <2>1, <2>2, <2>3, <2>4, <2>6 DEF EveryWaiterHasAPlace
<1> QED BY <1>3, <1>4

\* An open that ends settles as many waiters as it had places for.
LEMMA PlacesSettle ==
  ASSUME PoolInv, NEW c \in Callers, phase[c] = "opening", SettleWaiters,
         \A d \in Callers : /\ phase'[d] = "opening" <=> phase[d] = "opening" /\ d # c
                            /\ phase'[d] = "waiting" <=> phase[d] = "waiting" /\ d \notin Claimed
  PROVE  EveryWaiterHasAPlace'
<1> DEFINE p == PerConn - 1
           r == SubSeq(waiters, Settled + 1, Len(waiters))
<1>0. /\ opening = Cardinality(Openers) /\ IsInjective(waiters) /\ ToSet(waiters) = Parked
      /\ Len(waiters) <= opening * p /\ opening \in Nat /\ waiters \in Seq(Callers)
      /\ Len(waiters) \in Nat /\ p \in Nat /\ TypeOK
  <2>1. PerConn \in Nat /\ PerConn # 0
    OBVIOUS
  <2> QED BY <2>1 DEF PoolInv, TypeOK, EveryWaiterHasAPlace, Openers, Parked
<1>1. c \in Openers /\ Openers \in SUBSET Callers
  BY DEF Openers
<1>2. Settled \in 0..Len(waiters) /\ (Settled = p \/ Settled = Len(waiters))
  BY <1>0, ClaimedFacts
<1>3. /\ Len(r) = Len(waiters) - Settled /\ IsInjective(r)
      /\ ToSet(waiters) = Claimed \cup ToSet(r) /\ Claimed \cap ToSet(r) = {}
  BY <1>0, <1>2, CutDistinct DEF Claimed
<1>4. opening' = opening - 1 /\ waiters' = r
  BY DEF SettleWaiters
<1>5. {d \in Callers : phase'[d] = "opening"} = Openers \ {c}
  BY DEF Openers
<1>6. {d \in Callers : phase'[d] = "waiting"} = ToSet(r)
  <2>1. {d \in Callers : phase'[d] = "waiting"} = Parked \ Claimed
    BY DEF Parked
  <2> QED BY <1>0, <1>3, <2>1
<1>7. Cardinality(Openers \ {c}) = Cardinality(Openers) - 1 /\ Cardinality(Openers) # 0
      /\ Cardinality(Openers) \in Nat
  BY <1>1, CallerSets
<1>8. Len(r) <= (opening - 1) * p
  <2>1. /\ opening * p \in Int /\ (opening - 1) * p = opening * p - p
        /\ opening - 1 >= 0 /\ p >= 0 => (opening - 1) * p >= 0
    BY <1>0, Products
  <2>2. opening >= 1
    BY <1>0, <1>7
  <2> HIDE DEF p, r
  <2> QED BY <1>0, <1>2, <1>3, <2>1, <2>2
<1> HIDE DEF r
<1> QED BY <1>0, <1>3, <1>4, <1>5, <1>6, <1>7, <1>8 DEF EveryWaiterHasAPlace

\* Moving callers that neither open nor wait changes no place.
LEMMA MoveBeside ==
  ASSUME NEW S, \A c \in Callers : c \in S => phase[c] \notin {"opening", "waiting"},
         NEW to, to \notin {"opening", "waiting"}, phase' = Move(S, to),
         UNCHANGED <<opening, waiters>>
  PROVE  SamePlaces
BY DEF Move, SamePlaces

\* release touches no open and no waiter.
LEMMA ReleasePlaces ==
  ASSUME PoolInv, NEW c \in Callers, phase[c] \notin {"opening", "waiting"}, ReleaseSlot(c),
         UNCHANGED <<opening, waiters>>
  PROVE  SamePlaces
<1>0. phase \in [Callers -> Phases] /\ queue \in Seq(Callers) /\ ToSet(queue) = Queued /\ IsInjective(queue)
  BY DEF PoolInv, TypeOK, NobodyWaitsForAFreeSlot, Queued
<1>1. CASE active <= capacity /\ queue # <<>>
  <2> DEFINE d == Head(queue)
  <2>1. d \in ToSet(queue)
    BY <1>0, <1>1, TailDistinct
  <2>2. phase' = [phase EXCEPT ![c] = "idle", ![d] = "admitted"]
    BY <1>1 DEF ReleaseSlot
  <2> HIDE DEF d
  <2>3. phase[d] = "queued" /\ d \in Callers
    BY <1>0, <2>1 DEF Queued
  <2> QED BY <1>0, <2>2, <2>3 DEF SamePlaces
<1>2. CASE ~(active <= capacity /\ queue # <<>>)
  <2>1. phase' = [phase EXCEPT ![c] = "idle"]
    BY <1>2 DEF ReleaseSlot
  <2> QED BY <1>0, <2>1 DEF SamePlaces
<1> QED BY <1>1, <1>2

\* Every action leaves every waiter a place on an open in flight.
LEMMA PlaceStep == PoolInv /\ [Next]_vars => EveryWaiterHasAPlace'
<1> SUFFICES ASSUME PoolInv, [Next]_vars PROVE EveryWaiterHasAPlace'
  OBVIOUS
<1>0. TypeOK /\ EveryWaiterHasAPlace /\ DisposedIsEmpty
  BY DEF PoolInv
<1>1. ASSUME SamePlaces PROVE EveryWaiterHasAPlace'
  BY <1>0, <1>1, PlacesStay
<1> USE DEF regVars
<1>2. ASSUME NEW c \in Callers, NEW what \in Kinds, Call(c, what) PROVE SamePlaces
  <2>1. phase' = Move({c}, "admitted") \/ phase' = Move({c}, "queued")
    BY <1>2 DEF Call
  <2>2. phase[c] = "idle" /\ UNCHANGED <<opening, waiters>>
    BY <1>2 DEF Call
  <2> QED BY <2>1, <2>2, MoveBeside
<1>3. ASSUME NEW c \in Callers, AbortQueued(c) PROVE SamePlaces
  BY <1>3, MoveBeside DEF AbortQueued
<1>4. ASSUME NEW c \in Callers, SeatRefused(c) \/ Settle(c) PROVE SamePlaces
  <2>1. phase[c] \notin {"opening", "waiting"} /\ ReleaseSlot(c) /\ UNCHANGED <<opening, waiters>>
    BY <1>4 DEF SeatRefused, Settle
  <2> QED BY <2>1, ReleasePlaces
<1>5. ASSUME NEW c \in Callers, Seat(c) PROVE SamePlaces
  <2>1. /\ phase' = Move({c}, Started(c)) /\ phase[c] = "admitted"
        /\ UNCHANGED <<opening, waiters>> /\ Started(c) \notin {"opening", "waiting"}
    BY <1>5, StartedPhase DEF Seat
  <2> QED BY <2>1, MoveBeside
<1>6. ASSUME NEW c \in Callers, SeekPlace(c) \/ RetryPlace(c) PROVE EveryWaiterHasAPlace'
  <2>1. phase[c] \notin {"opening", "waiting"} /\ OpenOrWait(c)
    BY <1>6 DEF SeekPlace, RetryPlace
  <2> QED BY <2>1, PlacesOpenOrWait
<1>c. \A d \in Claimed : phase[d] = "waiting"
  BY <1>0, ClaimedFacts DEF PoolInv, EveryWaiterHasAPlace
<1>7. ASSUME NEW c \in Callers, NEW k \in Conns, OpenSucceeds(c, k) PROVE EveryWaiterHasAPlace'
  <2>1. /\ phase' = [d \in Callers |-> IF d \in Claimed \cup {c} THEN Started(d) ELSE phase[d]]
        /\ phase[c] = "opening" /\ SettleWaiters
    BY <1>7 DEF OpenSucceeds
  <2>2. \A d \in Callers : Started(d) \notin {"opening", "waiting"}
    BY StartedPhase
  <2>3. \A d \in Callers : /\ phase'[d] = "opening" <=> phase[d] = "opening" /\ d # c
                           /\ phase'[d] = "waiting" <=> phase[d] = "waiting" /\ d \notin Claimed
    BY <1>c, <2>1, <2>2
  <2> QED BY <2>1, <2>3, PlacesSettle
<1>8. ASSUME NEW c \in Callers, NEW k \in Conns, OpensLate(c, k) PROVE EveryWaiterHasAPlace'
  <2>1. phase' = Move({c}, "settling") /\ phase[c] = "opening" /\ SettleWaiters /\ disposed
    BY <1>8 DEF OpensLate
  <2>2. Claimed = {}
    <3>1. waiters = <<>>
      BY <1>0, <2>1 DEF DisposedIsEmpty
    <3>2. ToSet(waiters) = {}
      BY <3>1 DEF ToSet
    <3> QED BY <1>0, <3>2, ClaimedFacts
  <2>3. \A d \in Callers : /\ phase'[d] = "opening" <=> phase[d] = "opening" /\ d # c
                           /\ phase'[d] = "waiting" <=> phase[d] = "waiting" /\ d \notin Claimed
    BY <2>1, <2>2 DEF Move
  <2> QED BY <2>1, <2>3, PlacesSettle
<1>9. ASSUME NEW c \in Callers, OpenFails(c) PROVE EveryWaiterHasAPlace'
  <2>1. /\ phase' = [d \in Callers |-> IF d = c THEN "settling"
                                       ELSE IF d \in Claimed THEN "retry" ELSE phase[d]]
        /\ phase[c] = "opening" /\ SettleWaiters
    BY <1>9 DEF OpenFails
  <2>2. \A d \in Callers : /\ phase'[d] = "opening" <=> phase[d] = "opening" /\ d # c
                           /\ phase'[d] = "waiting" <=> phase[d] = "waiting" /\ d \notin Claimed
    BY <1>c, <2>1
  <2> QED BY <2>1, <2>2, PlacesSettle
<1>10. ASSUME NEW c \in Callers, Precompile(c) \/ StagingFails(c) \/ Reply(c) PROVE SamePlaces
  <2>1. phase[c] \notin {"opening", "waiting"} /\ UNCHANGED <<opening, waiters>>
    BY <1>10 DEF Precompile, StagingFails, Reply
  <2>2. phase' = Move({c}, "running") \/ phase' = Move({c}, "settling")
    BY <1>10 DEF Precompile, StagingFails, Reply
  <2> QED BY <2>1, <2>2, MoveBeside
<1>11. ASSUME NEW c \in Callers, NEW a \in Allowances, NEW b \in BOOLEAN, Result(c, a, b)
       PROVE  SamePlaces
  <2>1. phase[c] = "running" /\ SetCapacity(a, {c}) /\ UNCHANGED <<opening, waiters>>
    BY <1>11 DEF Result
  <2>2. PICK in \in 0..Len(queue) : Admits(in, {c})
    BY <1>0, <2>1, CapacityStep
  <2>3. queue \in Seq(Callers) /\ IsInjective(queue) /\ ToSet(queue) = Queued
    BY <1>0 DEF PoolInv, TypeOK, NobodyWaitsForAFreeSlot, Queued
  <2>4. ToSet(SubSeq(queue, 1, in)) \subseteq Queued
    BY <2>3, CutDistinct
  <2> QED BY <2>1, <2>2, <2>4 DEF SamePlaces, Queued, Admits
<1>12. ASSUME NEW k \in Conns, EpilogueEnds(k) \/ Break(k) \/ Age(k) PROVE SamePlaces
  BY <1>12 DEF EpilogueEnds, Break, Age, SamePlaces
<1>13. ASSUME NEW k \in Conns, TearDown(k) PROVE SamePlaces
  BY <1>13, MoveBeside DEF TearDown
<1>14. ASSUME Sweep PROVE SamePlaces
  BY <1>14 DEF Sweep, SamePlaces
<1>15. ASSUME Dispose PROVE EveryWaiterHasAPlace'
  <2>1. {d \in Callers : phase'[d] = "opening"} = {d \in Callers : phase[d] = "opening"}
    BY <1>15 DEF Dispose
  <2>2. {d \in Callers : phase'[d] = "waiting"} = {}
    BY <1>15 DEF Dispose
  <2>3. waiters' = <<>> /\ opening' = opening
    BY <1>15 DEF Dispose
  <2>4. ToSet(<<>>) = {} /\ IsInjective(<<>>) /\ Len(<<>>) = 0
    BY DEF ToSet, IsInjective
  <2>5. opening * (PerConn - 1) >= 0
    <3>1. PerConn \in Nat /\ PerConn # 0
      OBVIOUS
    <3>2. PerConn - 1 \in Int /\ PerConn - 1 >= 0
      BY <3>1
    <3>3. opening \in Int /\ opening >= 0
      BY <1>0 DEF TypeOK
    <3> QED BY <3>2, <3>3, Products
  <2> QED BY <1>0, <2>1, <2>2, <2>3, <2>4, <2>5 DEF EveryWaiterHasAPlace
<1>16. ASSUME UNCHANGED vars PROVE SamePlaces
  BY <1>16 DEF vars, SamePlaces
<1> QED BY <1>1, <1>2, <1>3, <1>4, <1>5, <1>6, <1>7, <1>8, <1>9, <1>10, <1>11, <1>12, <1>13,
           <1>14, <1>15, <1>16 DEF Next
-----------------------------------------------------------------------------
\* Every action keeps staging to createPrefix calls.
LEMMA StagingStep == PoolInv /\ [Next]_vars => StagingPrepares'
<1> SUFFICES ASSUME PoolInv, [Next]_vars PROVE StagingPrepares'
  OBVIOUS
<1>0. TypeOK /\ StagingPrepares /\ phase \in [Callers -> Phases] /\ kind \in [Callers -> Kinds \cup {"none"}]
  BY DEF PoolInv, TypeOK
<1>r. ASSUME NEW c \in Callers, ReleaseSlot(c) PROVE StagingPrepares'
  <2>1. kind' = [kind EXCEPT ![c] = "none"]
    BY <1>r DEF ReleaseSlot
  <2>2. \A d \in Callers : phase'[d] = "staging" => d # c /\ phase[d] = "staging"
    BY <1>0, <1>r DEF ReleaseSlot
  <2> QED BY <1>0, <2>1, <2>2 DEF StagingPrepares
<1>k. ASSUME kind' = kind,
             \A d \in Callers : phase'[d] = "staging" => phase[d] = "staging" \/ phase'[d] = Started(d)
      PROVE  StagingPrepares'
  BY <1>0, <1>k DEF StagingPrepares, Started
<1>1. ASSUME NEW c \in Callers, NEW what \in Kinds, Call(c, what) PROVE StagingPrepares'
  <2>1. kind' = [kind EXCEPT ![c] = what]
    BY <1>1 DEF Call
  <2>2. \A d \in Callers : phase'[d] = "staging" => d # c /\ phase[d] = "staging"
    BY <1>1 DEF Call, Move
  <2> QED BY <1>0, <2>1, <2>2 DEF StagingPrepares
<1>2. ASSUME NEW c \in Callers, AbortQueued(c) PROVE StagingPrepares'
  <2>1. kind' = [kind EXCEPT ![c] = "none"]
    BY <1>2 DEF AbortQueued
  <2>2. \A d \in Callers : phase'[d] = "staging" => d # c /\ phase[d] = "staging"
    BY <1>2 DEF AbortQueued, Move
  <2> QED BY <1>0, <2>1, <2>2 DEF StagingPrepares
<1>3. ASSUME NEW c \in Callers, SeatRefused(c) \/ Settle(c) PROVE StagingPrepares'
  BY <1>3, <1>r DEF SeatRefused, Settle
<1>4. ASSUME NEW c \in Callers, Seat(c) PROVE StagingPrepares'
  BY <1>4, <1>k DEF Seat, Move
<1>5. ASSUME NEW c \in Callers, SeekPlace(c) \/ RetryPlace(c) PROVE StagingPrepares'
  <2>1. kind' = kind
    BY <1>5 DEF SeekPlace, RetryPlace
  <2>2. \A d \in Callers : phase'[d] = "staging" => phase[d] = "staging"
    BY <1>5 DEF SeekPlace, RetryPlace, OpenOrWait, Move
  <2> QED BY <1>k, <2>1, <2>2
<1>6. ASSUME NEW c \in Callers, NEW k \in Conns, OpenSucceeds(c, k) PROVE StagingPrepares'
  BY <1>6, <1>k DEF OpenSucceeds
<1>7. ASSUME NEW c \in Callers, NEW k \in Conns, OpensLate(c, k) PROVE StagingPrepares'
  BY <1>7, <1>k DEF OpensLate, Move
<1>8. ASSUME NEW c \in Callers, OpenFails(c) \/ Precompile(c) \/ StagingFails(c) \/ Reply(c)
      PROVE  StagingPrepares'
  <2>1. kind' = kind
    BY <1>8 DEF OpenFails, Precompile, StagingFails, Reply
  <2>2. \A d \in Callers : phase'[d] = "staging" => phase[d] = "staging"
    BY <1>8 DEF OpenFails, Precompile, StagingFails, Reply, Move
  <2> QED BY <1>k, <2>1, <2>2
<1>9. ASSUME NEW c \in Callers, NEW a \in Allowances, NEW b \in BOOLEAN, Result(c, a, b)
      PROVE  StagingPrepares'
  <2>1. kind' = kind /\ SetCapacity(a, {c})
    BY <1>9 DEF Result
  <2>2. \A d \in Callers : phase'[d] = "staging" => phase[d] = "staging"
    BY <1>0, <2>1, CapacityStep DEF Admits
  <2> QED BY <1>k, <2>1, <2>2
<1>10. ASSUME NEW k \in Conns, EpilogueEnds(k) \/ Break(k) \/ Age(k) PROVE StagingPrepares'
  BY <1>10, <1>k DEF EpilogueEnds, Break, Age
<1>11. ASSUME NEW k \in Conns, TearDown(k) PROVE StagingPrepares'
  BY <1>11, <1>k DEF TearDown, Move
<1>12. ASSUME Sweep PROVE StagingPrepares'
  BY <1>12, <1>k DEF Sweep
<1>13. ASSUME Dispose PROVE StagingPrepares'
  <2>1. \A d \in Callers : phase'[d] = "staging" => phase[d] = "staging" /\ kind'[d] = kind[d]
    BY <1>13 DEF Dispose
  <2> QED BY <1>0, <2>1 DEF StagingPrepares
<1>14. ASSUME UNCHANGED vars PROVE StagingPrepares'
  BY <1>14, <1>k DEF vars
<1> QED BY <1>1, <1>2, <1>3, <1>4, <1>5, <1>6, <1>7, <1>8, <1>9, <1>10, <1>11, <1>12, <1>13,
           <1>14 DEF Next

\* Every action leaves a disposed pool empty.
LEMMA EmptyStep == PoolInv /\ [Next]_vars => DisposedIsEmpty'
<1> SUFFICES ASSUME PoolInv, [Next]_vars, disposed'
             PROVE  queue' = <<>> /\ waiters' = <<>> /\ connections' = <<>>
  BY DEF DisposedIsEmpty
<1> DEFINE Emptied == queue' = <<>> /\ waiters' = <<>> /\ connections' = <<>>
<1>0. TypeOK /\ (disposed => queue = <<>> /\ waiters = <<>> /\ connections = <<>>)
  BY DEF PoolInv, DisposedIsEmpty
<1> USE DEF regVars, slotVars
<1>1. ASSUME Dispose PROVE Emptied
  BY <1>1 DEF Dispose
<1>2. ASSUME ~disposed, disposed' = disposed PROVE FALSE
  BY <1>2
<1>r. ASSUME NEW c \in Callers, ReleaseSlot(c), disposed PROVE queue' = <<>>
  BY <1>0, <1>r DEF ReleaseSlot
<1>s. ASSUME disposed, SettleWaiters PROVE waiters' = <<>>
  <2>1. Settled \in 0..Len(waiters) /\ waiters = <<>> /\ waiters' = SubSeq(waiters, Settled + 1, Len(waiters))
    BY <1>0, <1>s, ClaimedFacts DEF SettleWaiters
  <2>2. Settled = 0
    BY <2>1
  <2> QED BY <2>1, <2>2
<1>3. ASSUME NEW c \in Callers, NEW what \in Kinds, Call(c, what) PROVE FALSE
  BY <1>2, <1>3 DEF Call
<1>4. ASSUME NEW c \in Callers, AbortQueued(c) PROVE FALSE
  BY <1>0, <1>4 DEF AbortQueued
<1>5. ASSUME NEW c \in Callers, SeatRefused(c) \/ Settle(c) PROVE Emptied
  <2>1. disposed /\ ReleaseSlot(c) /\ waiters' = waiters /\ connections' = connections
    BY <1>5 DEF SeatRefused, Settle
  <2> QED BY <1>0, <1>r, <2>1
<1>6. ASSUME NEW c \in Callers, Seat(c) \/ SeekPlace(c) \/ RetryPlace(c) PROVE FALSE
  BY <1>2, <1>6 DEF Seat, SeekPlace, RetryPlace
<1>7. ASSUME NEW c \in Callers, NEW k \in Conns, OpenSucceeds(c, k) PROVE FALSE
  BY <1>2, <1>7 DEF OpenSucceeds
<1>8. ASSUME NEW c \in Callers, NEW k \in Conns, OpensLate(c, k) PROVE Emptied
  <2>1. disposed /\ SettleWaiters /\ queue' = queue /\ connections' = connections
    BY <1>8 DEF OpensLate
  <2> QED BY <1>0, <1>s, <2>1
<1>9. ASSUME NEW c \in Callers, OpenFails(c) PROVE Emptied
  <2>1. disposed /\ SettleWaiters /\ queue' = queue /\ connections' = connections
    BY <1>9 DEF OpenFails
  <2> QED BY <1>0, <1>s, <2>1
<1>10. ASSUME NEW c \in Callers, Precompile(c) \/ StagingFails(c) \/ Reply(c) PROVE Emptied
  BY <1>0, <1>10 DEF Precompile, StagingFails, Reply
<1>11. ASSUME NEW c \in Callers, NEW a \in Allowances, NEW b \in BOOLEAN, Result(c, a, b)
       PROVE  Emptied
  <2>1. disposed /\ SetCapacity(a, {c}) /\ waiters' = waiters /\ connections' = connections
    BY <1>11 DEF Result
  <2>2. PICK in \in 0..Len(queue) : queue' = SubSeq(queue, in + 1, Len(queue))
    BY <1>0, <2>1, CapacityStep DEF Admits
  <2>3. queue = <<>> /\ in = 0
    BY <1>0, <2>1, <2>2
  <2> QED BY <1>0, <2>1, <2>2, <2>3
<1>12. ASSUME NEW k \in Conns, EpilogueEnds(k) \/ Break(k) \/ TearDown(k) \/ Age(k) PROVE Emptied
  BY <1>0, <1>12 DEF EpilogueEnds, Break, TearDown, Age
<1>13. ASSUME Sweep PROVE Emptied
  <2>1. disposed /\ queue' = queue /\ waiters' = waiters
    BY <1>13 DEF Sweep
  <2>2. connections = <<>> /\ connections \in Seq(Conns) /\ Len(connections) = 0
    BY <1>0, <2>1
  <2>3. connections' \in Seq(Conns) /\ Len(connections') <= Len(connections)
    BY <1>13, <2>2, SiftFacts DEF Sweep
  <2>4. connections' = <<>>
    BY <2>2, <2>3
  <2> QED BY <1>0, <2>1, <2>4
<1>14. ASSUME UNCHANGED vars PROVE Emptied
  BY <1>0, <1>14 DEF vars
<1> QED BY <1>1, <1>3, <1>4, <1>5, <1>6, <1>7, <1>8, <1>9, <1>10, <1>11, <1>12, <1>13, <1>14 DEF Next

\* Every open connection stays listed, and the sweep watches the surplus.
LEMMA ListedStep == PoolInv /\ [Next]_vars => (OpenIsListed /\ SweepIsArmed)'
<1> SUFFICES ASSUME PoolInv, [Next]_vars PROVE OpenIsListed' /\ SweepIsArmed'
  OBVIOUS
<1> DEFINE Good == OpenIsListed' /\ SweepIsArmed'
<1>0. /\ TypeOK /\ connections \in Seq(Conns) /\ Len(connections) \in Nat
      /\ sock \in [Conns -> {"open", "closed", "dead"}]
      /\ \A k \in Conns : sock[k] = "open" => k \in ToSet(connections)
      /\ Len(connections) > 1 => timer
  BY DEF PoolInv, TypeOK, OpenIsListed, SweepIsArmed
<1> USE DEF regVars, connVars
<1>1. ASSUME connections' = connections, timer' = timer,
             \A k \in Conns : sock'[k] = "open" => sock[k] = "open"
      PROVE  Good
  BY <1>0, <1>1 DEF OpenIsListed, SweepIsArmed
<1>d. ASSUME NEW n \in 0..Len(connections), connections' = DropDead(n), timer' = timer, sock' = sock
      PROVE  Good
  <2>1. /\ connections' \in Seq(Conns) /\ Len(connections') <= Len(connections)
        /\ \A k \in ToSet(connections) : sock[k] = "open" => k \in ToSet(connections')
    BY <1>0, <1>d, DropDeadFacts DEF Usable
  <2>2. Len(connections') \in Nat
    BY <2>1
  <2> QED BY <1>0, <1>d, <2>1, <2>2 DEF OpenIsListed, SweepIsArmed
<1>2. ASSUME NEW c \in Callers, NEW what \in Kinds, Call(c, what) PROVE Good
  BY <1>1, <1>2 DEF Call
<1>3. ASSUME NEW c \in Callers, AbortQueued(c) \/ SeatRefused(c) \/ Settle(c) \/ RetryPlace(c) PROVE Good
  BY <1>1, <1>3 DEF AbortQueued, SeatRefused, Settle, RetryPlace
<1>4. ASSUME NEW c \in Callers, Seat(c) PROVE Good
  <2>1. Min(Fits) \in 1..Len(connections)
    BY <1>0, <1>4, MinFits DEF Seat
  <2>2. Min(Fits) \in 0..Len(connections)
    BY <1>0, <2>1
  <2>3. connections' = DropDead(Min(Fits)) /\ timer' = timer /\ sock' = sock
    BY <1>4 DEF Seat
  <2> QED BY <1>d, <2>2, <2>3
<1>5. ASSUME NEW c \in Callers, SeekPlace(c) PROVE Good
  <2>1. Len(connections) \in 0..Len(connections)
    BY <1>0
  <2> QED BY <1>d, <1>5, <2>1 DEF SeekPlace
<1>6. ASSUME NEW c \in Callers, NEW k \in Conns, OpenSucceeds(c, k) PROVE Good
  <2>1. /\ sock' = [sock EXCEPT ![k] = "open"] /\ connections' = Append(connections, k)
        /\ timer' = (timer \/ Len(connections) > 0)
    BY <1>6 DEF OpenSucceeds, StartSweep
  <2>2. ToSet(connections') = ToSet(connections) \cup {k}
    BY <1>0, <2>1, AppendDistinct
  <2>3. OpenIsListed'
    BY <1>0, <2>1, <2>2 DEF OpenIsListed
  <2>4. Len(connections') = Len(connections) + 1
    BY <1>0, <2>1
  <2>5. Len(connections') > 1 => Len(connections) > 0
    BY <1>0, <2>4
  <2>6. SweepIsArmed'
    BY <2>1, <2>5 DEF SweepIsArmed
  <2> QED BY <2>3, <2>6
<1>7. ASSUME NEW c \in Callers, NEW k \in Conns, OpensLate(c, k) PROVE Good
  BY <1>0, <1>1, <1>7 DEF OpensLate
<1>8. ASSUME NEW c \in Callers, OpenFails(c) \/ Precompile(c) \/ StagingFails(c) \/ Reply(c) PROVE Good
  BY <1>1, <1>8 DEF OpenFails, Precompile, StagingFails, Reply
<1>9. ASSUME NEW c \in Callers, NEW a \in Allowances, NEW b \in BOOLEAN, Result(c, a, b) PROVE Good
  BY <1>1, <1>9 DEF Result
<1>10. ASSUME NEW k \in Conns, EpilogueEnds(k) \/ Age(k) PROVE Good
  BY <1>1, <1>10 DEF EpilogueEnds, Age
<1>11. ASSUME NEW k \in Conns, Break(k) \/ TearDown(k) PROVE Good
  BY <1>0, <1>1, <1>11 DEF Break, TearDown
<1>12. ASSUME Sweep PROVE Good
  <2> DEFINE others == DOMAIN connections \ {1}
             reaped == IF others \subseteq Reapable THEN others \cap Reapable ELSE Reapable
             gone   == {connections[i] : i \in reaped}
  <2>1. /\ connections' = Sift(connections, Conns \ gone)
        /\ timer' = (Len(connections') > 1)
        /\ sock' = [k \in Conns |-> IF k \in gone /\ sock[k] = "open" THEN "closed" ELSE sock[k]]
    BY <1>12 DEF Sweep
  <2> HIDE DEF gone
  <2>2. ToSet(connections') = ToSet(connections) \cap (Conns \ gone)
    BY <1>0, <2>1, SiftFacts
  <2>3. OpenIsListed'
    BY <1>0, <2>1, <2>2 DEF OpenIsListed
  <2>4. SweepIsArmed'
    BY <2>1 DEF SweepIsArmed
  <2> QED BY <2>3, <2>4
<1>13. ASSUME Dispose PROVE Good
  <2>1. connections' = <<>>
        /\ sock' = [k \in Conns |-> IF k \in ToSet(connections) /\ sock[k] = "open"
                              THEN "closed" ELSE sock[k]]
    BY <1>13 DEF Dispose
  <2>2. OpenIsListed'
    BY <1>0, <2>1 DEF OpenIsListed
  <2>3. ~(Len(connections') > 1)
    BY <2>1
  <2> QED BY <2>2, <2>3 DEF SweepIsArmed
<1>14. ASSUME UNCHANGED vars PROVE Good
  BY <1>1, <1>14 DEF vars
<1> QED BY <1>2, <1>3, <1>4, <1>5, <1>6, <1>7, <1>8, <1>9, <1>10, <1>11, <1>12, <1>13, <1>14 DEF Next
-----------------------------------------------------------------------------
\* A step that starts no run leaves no connection with more of them.
NoNewRun ==
  \A c \in Callers : phase'[c] = "running" /\ kind'[c] = "run"
                     => on'[c] = on[c] /\ phase[c] = "running" /\ kind[c] = "run"

\* A step that starts no run keeps every connection within its cap.
LEMMA FewerRuns ==
  ASSUME RunsWithinCap, NoNewRun
  PROVE  RunsWithinCap'
<1> SUFFICES ASSUME NEW k \in Conns PROVE Cardinality(RunsOn(k)') <= PerConn
  BY DEF RunsWithinCap, RunsOn
<1>1. RunsOn(k)' \subseteq RunsOn(k)
  BY DEF NoNewRun, RunsOn
<1>2. RunsOn(k) \in SUBSET Callers
  BY DEF RunsOn
<1>3. Cardinality(RunsOn(k)') <= Cardinality(RunsOn(k)) /\ Cardinality(RunsOn(k)) \in Nat
  BY <1>1, <1>2, CallerSets
<1>4. Cardinality(RunsOn(k)) <= PerConn
  BY DEF RunsWithinCap, RunsOn
<1>5. Cardinality(RunsOn(k)') \in Nat
  <2>1. RunsOn(k)' \in SUBSET Callers
    BY <1>1, <1>2
  <2> QED BY <2>1, CallerSets
<1> QED BY <1>3, <1>4, <1>5

\* tryAcquire seats a caller only where fewer than the cap run.
LEMMA CapSeat ==
  ASSUME PoolInv, NEW c \in Callers, Seat(c)
  PROVE  RunsWithinCap'
<1> DEFINE k == connections[Min(Fits)]
<1>1. Min(Fits) \in Fits /\ TypeOK
  BY MinFits DEF PoolInv, Seat
<1>2. Load(k) < PerConn
  BY <1>1 DEF Fits, HasRoom
<1>3. on' = [on EXCEPT ![c] = k] /\ phase' = Move({c}, Started(c)) /\ kind' = kind
  BY DEF Seat
<1> HIDE DEF k
<1> SUFFICES ASSUME NEW j \in Conns PROVE Cardinality(RunsOn(j)') <= PerConn
  BY DEF RunsWithinCap, RunsOn
<1>4. RunsOn(j) \in SUBSET Callers /\ on \in [Callers -> Conns \cup {NoConn}]
  BY <1>1 DEF RunsOn, TypeOK
<1>5. CASE j # k
  <2>1. RunsOn(j)' \subseteq RunsOn(j)
    BY <1>3, <1>4, <1>5 DEF RunsOn, Move
  <2>2. Cardinality(RunsOn(j)') <= Cardinality(RunsOn(j)) /\ Cardinality(RunsOn(j)) \in Nat
        /\ Cardinality(RunsOn(j)') \in Nat
    <3>1. RunsOn(j)' \in SUBSET Callers
      BY <1>4, <2>1
    <3> QED BY <1>4, <2>1, <3>1, CallerSets
  <2>3. Cardinality(RunsOn(j)) <= PerConn
    BY DEF PoolInv, RunsWithinCap, RunsOn
  <2> QED BY <2>2, <2>3
<1>6. CASE j = k
  <2> DEFINE L == {d \in Callers : on[d] = k /\ phase[d] = "running" /\ kind[d] # "drop"}
  <2>1. RunsOn(j)' \subseteq L \cup {c}
    BY <1>3, <1>4, <1>6 DEF RunsOn, Move
  <2>2. Cardinality(L) < PerConn
    BY <1>2 DEF Load
  <2> HIDE DEF L
  <2>3. L \in SUBSET Callers /\ L \cup {c} \in SUBSET Callers /\ RunsOn(j)' \in SUBSET Callers
    BY <2>1 DEF L
  <2>4. Cardinality(RunsOn(j)') <= Cardinality(L \cup {c}) /\ Cardinality(RunsOn(j)') \in Nat
        /\ Cardinality(L \cup {c}) \in Nat /\ Cardinality(L) \in Nat
    BY <2>1, <2>3, CallerSets
  <2>5. Cardinality(L \cup {c}) <= Cardinality(L) + 1
    <3>1. CASE c \in L
      <4>1. L \cup {c} = L
        BY <3>1
      <4>2. Cardinality(L \cup {c}) = Cardinality(L)
        BY <4>1
      <4> QED BY <2>4, <4>2
    <3>2. CASE c \notin L
      BY <2>3, <2>4, <3>2, CallerSets
    <3> QED BY <3>1, <3>2
  <2> QED BY <2>2, <2>4, <2>5
<1> QED BY <1>5, <1>6

\* A new connection starts with its opener and the waiters it had places for.
LEMMA CapOpen ==
  ASSUME PoolInv, NEW c \in Callers, NEW k \in Conns, OpenSucceeds(c, k)
  PROVE  RunsWithinCap'
<1> DEFINE seated == Claimed \cup {c}
<1>1. /\ on' = [d \in Callers |-> IF d \in seated THEN k ELSE on[d]]
      /\ phase' = [d \in Callers |-> IF d \in seated THEN Started(d) ELSE phase[d]]
      /\ kind' = kind /\ \A d \in Callers : on[d] # k
  BY DEF OpenSucceeds, Fresh
<1>2. /\ TypeOK /\ Settled \in Nat /\ Settled <= PerConn - 1 /\ Claimed \subseteq Callers
      /\ IsInjective(waiters) /\ waiters \in Seq(Callers) /\ Settled \in 0..Len(waiters)
  <2>1. TypeOK /\ IsInjective(waiters) /\ waiters \in Seq(Callers)
    BY DEF PoolInv, EveryWaiterHasAPlace, TypeOK
  <2> QED BY <2>1, ClaimedFacts
<1>3. Cardinality(Claimed) = Settled
  <2>1. /\ SubSeq(waiters, 1, Settled) \in Seq(Callers) /\ IsInjective(SubSeq(waiters, 1, Settled))
        /\ Len(SubSeq(waiters, 1, Settled)) = Settled
    BY <1>2, CutDistinct
  <2> QED BY <2>1, DistinctCount DEF Claimed
<1>4. Cardinality(seated) <= PerConn
  <2>1. Claimed \in SUBSET Callers /\ PerConn \in Nat
    BY <1>2
  <2>2. CASE c \in Claimed
    <3>1. seated = Claimed
      BY <2>2
    <3>2. Cardinality(seated) = Settled
      BY <1>3, <3>1
    <3> QED BY <1>2, <2>1, <3>2
  <2>3. CASE c \notin Claimed
    <3>1. Cardinality(seated) = Cardinality(Claimed) + 1
      BY <2>1, <2>3, CallerSets
    <3> QED BY <1>2, <1>3, <2>1, <3>1
  <2> QED BY <2>2, <2>3
<1>5. seated \in SUBSET Callers
  BY <1>2
<1> HIDE DEF seated
<1> SUFFICES ASSUME NEW j \in Conns PROVE Cardinality(RunsOn(j)') <= PerConn
  BY DEF RunsWithinCap, RunsOn
<1> DEFINE bound == IF j = k THEN seated ELSE RunsOn(j)
<1>6. RunsOn(j)' \subseteq bound
  BY <1>1 DEF RunsOn
<1>7. bound \in SUBSET Callers /\ Cardinality(bound) <= PerConn
  BY <1>4, <1>5 DEF RunsOn, PoolInv, RunsWithinCap
<1> HIDE DEF bound
<1>8. Cardinality(RunsOn(j)') <= Cardinality(bound) /\ Cardinality(bound) \in Nat
      /\ Cardinality(RunsOn(j)') \in Nat
  <2>1. RunsOn(j)' \in SUBSET Callers
    BY <1>6, <1>7
  <2> QED BY <1>6, <1>7, <2>1, CallerSets
<1> QED BY <1>7, <1>8

\* Every action keeps every connection within its cap.
LEMMA CapStep == PoolInv /\ [Next]_vars => RunsWithinCap'
<1> SUFFICES ASSUME PoolInv, [Next]_vars PROVE RunsWithinCap'
  OBVIOUS
<1>0. TypeOK /\ RunsWithinCap /\ StagingPrepares /\ phase \in [Callers -> Phases]
      /\ kind \in [Callers -> Kinds \cup {"none"}] /\ on \in [Callers -> Conns \cup {NoConn}]
  BY DEF PoolInv, TypeOK
<1>f. ASSUME NoNewRun PROVE RunsWithinCap'
  BY <1>0, <1>f, FewerRuns
<1>q. ASSUME kind' = kind, on' = on, \A d \in Callers : phase'[d] = "running" => phase[d] = "running"
      PROVE  NoNewRun
  BY <1>q DEF NoNewRun
<1>1. ASSUME NEW c \in Callers, NEW what \in Kinds, Call(c, what) PROVE NoNewRun
  <2>1. kind' = [kind EXCEPT ![c] = what] /\ on' = on
    BY <1>1 DEF Call
  <2>2. \A d \in Callers : phase'[d] = "running" => d # c /\ phase[d] = "running"
    BY <1>1 DEF Call, Move
  <2> QED BY <1>0, <2>1, <2>2 DEF NoNewRun
<1>2. ASSUME NEW c \in Callers, AbortQueued(c) PROVE NoNewRun
  <2>1. kind' = [kind EXCEPT ![c] = "none"] /\ on' = on
    BY <1>2 DEF AbortQueued
  <2>2. \A d \in Callers : phase'[d] = "running" => d # c /\ phase[d] = "running"
    BY <1>2 DEF AbortQueued, Move
  <2> QED BY <1>0, <2>1, <2>2 DEF NoNewRun
<1>3. ASSUME NEW c \in Callers, SeatRefused(c) \/ Settle(c) PROVE NoNewRun
  <2>1. ReleaseSlot(c) /\ (on' = on \/ on' = [on EXCEPT ![c] = NoConn])
    BY <1>3 DEF SeatRefused, Settle
  <2>2. kind' = [kind EXCEPT ![c] = "none"]
    BY <2>1 DEF ReleaseSlot
  <2>3. \A d \in Callers : phase'[d] = "running" => d # c /\ phase[d] = "running"
    BY <1>0, <2>1 DEF ReleaseSlot
  <2> QED BY <1>0, <2>1, <2>2, <2>3 DEF NoNewRun
<1>4. ASSUME NEW c \in Callers, SeekPlace(c) \/ RetryPlace(c) PROVE NoNewRun
  <2>1. kind' = kind /\ on' = on
    BY <1>4 DEF SeekPlace, RetryPlace
  <2>2. \A d \in Callers : phase'[d] = "running" => phase[d] = "running"
    BY <1>4 DEF SeekPlace, RetryPlace, OpenOrWait, Move
  <2> QED BY <1>q, <2>1, <2>2
<1>5. ASSUME NEW c \in Callers, NEW k \in Conns, OpensLate(c, k) PROVE NoNewRun
  BY <1>5, <1>q DEF OpensLate, Move
<1>6. ASSUME NEW c \in Callers, OpenFails(c) \/ StagingFails(c) \/ Reply(c) PROVE NoNewRun
  <2>1. kind' = kind /\ on' = on
    BY <1>6 DEF OpenFails, StagingFails, Reply
  <2>2. \A d \in Callers : phase'[d] = "running" => phase[d] = "running"
    BY <1>6 DEF OpenFails, StagingFails, Reply, Move
  <2> QED BY <1>q, <2>1, <2>2
<1>7. ASSUME NEW c \in Callers, Precompile(c) PROVE NoNewRun
  <2>1. kind[c] = "prepare" /\ kind' = kind /\ on' = on
    BY <1>0, <1>7 DEF Precompile, StagingPrepares
  <2>2. \A d \in Callers : d # c => phase'[d] = phase[d]
    BY <1>7 DEF Precompile, Move
  <2> QED BY <2>1, <2>2 DEF NoNewRun
<1>8. ASSUME NEW c \in Callers, NEW a \in Allowances, NEW b \in BOOLEAN, Result(c, a, b)
      PROVE  NoNewRun
  <2>1. kind' = kind /\ on' = on /\ SetCapacity(a, {c})
    BY <1>8 DEF Result
  <2>2. \A d \in Callers : phase'[d] = "running" => phase[d] = "running"
    BY <1>0, <2>1, CapacityStep DEF Admits
  <2> QED BY <1>q, <2>1, <2>2
<1>9. ASSUME NEW k \in Conns, EpilogueEnds(k) \/ Break(k) \/ Age(k) PROVE NoNewRun
  BY <1>9, <1>q DEF EpilogueEnds, Break, Age
<1>10. ASSUME NEW k \in Conns, TearDown(k) PROVE NoNewRun
  BY <1>10, <1>q DEF TearDown, Move
<1>11. ASSUME Sweep PROVE NoNewRun
  BY <1>11, <1>q DEF Sweep
<1>12. ASSUME Dispose PROVE NoNewRun
  <2>1. on' = on /\ \A d \in Callers : phase'[d] = "running" => phase[d] = "running" /\ kind'[d] = kind[d]
    BY <1>12 DEF Dispose
  <2> QED BY <2>1 DEF NoNewRun
<1>13. ASSUME UNCHANGED vars PROVE NoNewRun
  BY <1>13, <1>q DEF vars
<1> QED BY <1>f, <1>1, <1>2, <1>3, <1>4, <1>5, <1>6, <1>7, <1>8, <1>9, <1>10, <1>11, <1>12, <1>13,
           CapSeat, CapOpen DEF Next
-----------------------------------------------------------------------------
\* The invariant holds at first.
LEMMA PoolInit == Init => PoolInv
<1> SUFFICES ASSUME Init PROVE PoolInv
  OBVIOUS
<1>1. \A S \in SUBSET Callers : S = {} => Cardinality(S) = 0
  BY CallerSets
<1>2. /\ {c \in Callers : phase[c] \in Holding} = {} /\ {c \in Callers : phase[c] = "queued"} = {}
      /\ {c \in Callers : phase[c] = "opening"} = {} /\ {c \in Callers : phase[c] = "waiting"} = {}
  BY DEF Init, Holding
<1>3. ToSet(<<>>) = {} /\ IsInjective(<<>>) /\ Len(<<>>) = 0
  BY DEF ToSet, IsInjective
<1>4. SlotsExact /\ NobodyWaitsForAFreeSlot
  BY <1>1, <1>2, <1>3 DEF Init, SlotsExact, NobodyWaitsForAFreeSlot
<1>5. EveryWaiterHasAPlace
  <2>1. 0 * (PerConn - 1) = 0
    OBVIOUS
  <2> QED BY <1>1, <1>2, <1>3, <2>1 DEF Init, EveryWaiterHasAPlace
<1>6. StagingPrepares /\ OpenIsListed /\ DisposedIsEmpty
  BY DEF Init, StagingPrepares, OpenIsListed, DisposedIsEmpty
<1>7. SweepIsArmed
  BY <1>3 DEF Init, SweepIsArmed
<1>8. RunsWithinCap
  <2> SUFFICES ASSUME NEW k \in Conns PROVE Cardinality(RunsOn(k)) <= PerConn
    BY DEF RunsWithinCap, RunsOn
  <2>1. RunsOn(k) = {}
    BY DEF Init, RunsOn
  <2> QED BY <1>1, <2>1
<1> QED BY TypeInit, <1>4, <1>5, <1>6, <1>7, <1>8 DEF PoolInv

\* Every action keeps it.
LEMMA PoolStep == PoolInv /\ [Next]_vars => PoolInv'
BY TypeStep, SlotStep, PlaceStep, StagingStep, EmptyStep, ListedStep, CapStep DEF PoolInv, SlotInv

\* So it always holds.
LEMMA PoolInvariant == Spec => []PoolInv
<1>1. Init => PoolInv
  BY PoolInit
<1>2. PoolInv /\ [Next]_vars => PoolInv'
  BY PoolStep
<1> QED BY <1>1, <1>2, PTL DEF Spec

\* Every variable of the run pool always has its declared type; in particular
\* SlotPool.active and ConnectionRegistry.opening never go below zero.
THEOREM PoolTypes == Spec => []TypeOK
<1>1. PoolInv => TypeOK
  BY DEF PoolInv
<1> QED BY <1>1, PoolInvariant, PTL

\* SlotPool.active always counts exactly the callers between admission and
\* release, whatever order aborts, failed opens, allowances, teardowns and
\* dispose come in.
THEOREM SlotsAreExact == Spec => []SlotsExact
<1>1. PoolInv => SlotsExact
  BY DEF PoolInv
<1> QED BY <1>1, PoolInvariant, PTL

\* The action of ShrinkWalksDown.
Shrinks ==
  active > capacity /\ capacity' = capacity => active' <= active
       /\ \A c \in Callers : phase[c] = "queued" => phase'[c] # "admitted"

\* No action admits anybody while more run than the allowance grants.
LEMMA ShrinkStep == PoolInv /\ [Next]_vars => Shrinks
<1> SUFFICES ASSUME PoolInv, [Next]_vars, active > capacity, capacity' = capacity
             PROVE  active' <= active /\ \A c \in Callers : phase[c] = "queued" => phase'[c] # "admitted"
  BY DEF Shrinks
<1> DEFINE Held == active' <= active /\ \A c \in Callers : phase[c] = "queued" => phase'[c] # "admitted"
<1>0. TypeOK /\ active \in Nat /\ capacity \in Nat /\ phase \in [Callers -> Phases]
      /\ ~(active < capacity) /\ ~(active <= capacity)
  BY DEF PoolInv, TypeOK
<1>q. ASSUME active' = active,
             \A d \in Callers : phase[d] = "queued" => phase'[d] # "admitted"
      PROVE  Held
  BY <1>0, <1>q
<1> USE DEF slotVars
<1>1. ASSUME NEW c \in Callers, NEW what \in Kinds, Call(c, what) PROVE Held
  <2>1. active' = active /\ phase' = Move({c}, "queued")
    BY <1>0, <1>1 DEF Call
  <2> QED BY <1>q, <2>1 DEF Move
<1>2. ASSUME NEW c \in Callers, AbortQueued(c) PROVE Held
  BY <1>2, <1>q DEF AbortQueued, Move
<1>3. ASSUME NEW c \in Callers, SeatRefused(c) \/ Settle(c) PROVE Held
  <2>1. active' = active - 1 /\ phase' = [phase EXCEPT ![c] = "idle"]
    BY <1>0, <1>3 DEF SeatRefused, Settle, ReleaseSlot
  <2>2. \A d \in Callers : phase[d] = "queued" => phase'[d] # "admitted"
    BY <1>0, <2>1
  <2> QED BY <1>0, <2>1, <2>2
<1>4. ASSUME NEW c \in Callers, Seat(c) PROVE Held
  BY <1>4, <1>q, StartedPhase DEF Seat, Move
<1>5. ASSUME NEW c \in Callers, SeekPlace(c) \/ RetryPlace(c) PROVE Held
  <2>1. active' = active
    BY <1>5 DEF SeekPlace, RetryPlace
  <2>2. \A d \in Callers : phase[d] = "queued" => phase'[d] # "admitted"
    BY <1>5 DEF SeekPlace, RetryPlace, OpenOrWait, Move
  <2> QED BY <1>q, <2>1, <2>2
<1>6. ASSUME NEW c \in Callers, NEW k \in Conns, OpenSucceeds(c, k) PROVE Held
  BY <1>6, <1>q, StartedPhase DEF OpenSucceeds
<1>7. ASSUME NEW c \in Callers, NEW k \in Conns, OpensLate(c, k) PROVE Held
  BY <1>7, <1>q DEF OpensLate, Move
<1>8. ASSUME NEW c \in Callers, OpenFails(c) \/ Precompile(c) \/ StagingFails(c) \/ Reply(c) PROVE Held
  <2>1. active' = active
    BY <1>8 DEF OpenFails, Precompile, StagingFails, Reply
  <2>2. \A d \in Callers : phase[d] = "queued" => phase'[d] # "admitted"
    BY <1>8 DEF OpenFails, Precompile, StagingFails, Reply, Move
  <2> QED BY <1>q, <2>1, <2>2
<1>9. ASSUME NEW c \in Callers, NEW a \in Allowances, NEW b \in BOOLEAN, Result(c, a, b) PROVE Held
  <2>1. SetCapacity(a, {c})
    BY <1>9 DEF Result
  <2>2. active' = active + 0 /\
        phase' = [d \in Callers |-> IF d \in {c} THEN "settling"
                                    ELSE IF d \in ToSet(SubSeq(queue, 1, 0)) THEN "admitted" ELSE phase[d]]
    BY <1>0, <2>1, CapacityStep DEF Admits
  <2>3. ToSet(SubSeq(queue, 1, 0)) = {}
    <3>1. SubSeq(queue, 1, 0) = <<>>
      BY <1>0 DEF TypeOK
    <3> QED BY <3>1 DEF ToSet
  <2> QED BY <1>0, <1>q, <2>2, <2>3
<1>10. ASSUME NEW k \in Conns, EpilogueEnds(k) \/ Break(k) \/ TearDown(k) \/ Age(k) PROVE Held
  <2>1. active' = active
    BY <1>10 DEF EpilogueEnds, Break, TearDown, Age
  <2>2. \A d \in Callers : phase[d] = "queued" => phase'[d] # "admitted"
    BY <1>10 DEF EpilogueEnds, Break, TearDown, Age, Move
  <2> QED BY <1>q, <2>1, <2>2
<1>11. ASSUME Sweep PROVE Held
  BY <1>11, <1>q DEF Sweep
<1>12. ASSUME Dispose PROVE Held
  BY <1>12, <1>q DEF Dispose
<1>13. ASSUME UNCHANGED vars PROVE Held
  BY <1>13, <1>q DEF vars
<1> QED BY <1>1, <1>2, <1>3, <1>4, <1>5, <1>6, <1>7, <1>8, <1>9, <1>10, <1>11, <1>12, <1>13 DEF Next

\* No caller is ever queued beside a free slot or parked without a place on an
\* open in flight, and a shrunk allowance admits nobody before it is reached.
THEOREM AdmissionIsFair == Spec => AdmissionFair
<1>1. PoolInv => NobodyWaitsForAFreeSlot /\ EveryWaiterHasAPlace
  BY DEF PoolInv
<1>2. PoolInv /\ [Next]_vars => [Shrinks]_vars
  BY ShrinkStep
<1>3. Spec => [](NobodyWaitsForAFreeSlot /\ EveryWaiterHasAPlace)
  BY <1>1, PoolInvariant, PTL
<1>4. Spec => [][Shrinks]_vars
  BY <1>2, PoolInvariant, PTL DEF Spec
<1> QED BY <1>3, <1>4 DEF AdmissionFair, ShrinkWalksDown, Shrinks

\* The action of SweepSparesCallers.
Spares ==
  \A k \in Conns :
       k \in ToSet(connections) \ ToSet(connections') /\ Usable(k) /\ ~disposed'
       => epilogues[k] = 0 /\ \A c \in Callers : on[c] = k => phase[c] # "running"

\* No action drops a usable connection that carries a call, except dispose.
LEMMA SpareStep == PoolInv /\ [Next]_vars => Spares
<1> SUFFICES ASSUME PoolInv, [Next]_vars, NEW k \in Conns,
                    k \in ToSet(connections), k \notin ToSet(connections'), sock[k] = "open", ~disposed'
             PROVE  Quiescent(k)
  BY DEF Spares, Quiescent, Usable
<1>0. TypeOK /\ connections \in Seq(Conns) /\ Len(connections) \in Nat
  BY DEF PoolInv, TypeOK
<1>d. ASSUME NEW n \in 0..Len(connections), connections' = DropDead(n) PROVE FALSE
  BY <1>0, <1>d, DropDeadFacts DEF Usable
<1>q. ASSUME connections' = connections PROVE FALSE
  BY <1>q
<1> USE DEF regVars
<1>1. ASSUME NEW c \in Callers, NEW what \in Kinds, Call(c, what) PROVE FALSE
  BY <1>1, <1>q DEF Call
<1>2. ASSUME NEW c \in Callers, AbortQueued(c) \/ SeatRefused(c) \/ Settle(c) \/ RetryPlace(c) PROVE FALSE
  BY <1>2, <1>q DEF AbortQueued, SeatRefused, Settle, RetryPlace
<1>3. ASSUME NEW c \in Callers, Seat(c) PROVE FALSE
  <2>1. Min(Fits) \in 1..Len(connections) /\ connections' = DropDead(Min(Fits))
    BY <1>0, <1>3, MinFits DEF Seat
  <2>2. Min(Fits) \in 0..Len(connections)
    BY <1>0, <2>1
  <2> QED BY <1>d, <2>1, <2>2
<1>4. ASSUME NEW c \in Callers, SeekPlace(c) PROVE FALSE
  <2>1. Len(connections) \in 0..Len(connections)
    BY <1>0
  <2> QED BY <1>d, <1>4, <2>1 DEF SeekPlace
<1>5. ASSUME NEW c \in Callers, NEW j \in Conns, OpenSucceeds(c, j) PROVE FALSE
  <2>1. ToSet(connections') = ToSet(connections) \cup {j}
    BY <1>0, <1>5, AppendDistinct DEF OpenSucceeds
  <2> QED BY <2>1
<1>6. ASSUME NEW c \in Callers, NEW j \in Conns, OpensLate(c, j) PROVE FALSE
  BY <1>6, <1>q DEF OpensLate
<1>7. ASSUME NEW c \in Callers, OpenFails(c) \/ Precompile(c) \/ StagingFails(c) \/ Reply(c) PROVE FALSE
  BY <1>7, <1>q DEF OpenFails, Precompile, StagingFails, Reply
<1>8. ASSUME NEW c \in Callers, NEW a \in Allowances, NEW b \in BOOLEAN, Result(c, a, b) PROVE FALSE
  BY <1>8, <1>q DEF Result
<1>9. ASSUME NEW j \in Conns, EpilogueEnds(j) \/ Break(j) \/ TearDown(j) \/ Age(j) PROVE FALSE
  BY <1>9, <1>q DEF EpilogueEnds, Break, TearDown, Age
<1>10. ASSUME Sweep PROVE Quiescent(k)
  <2> DEFINE others == DOMAIN connections \ {1}
             reaped == IF others \subseteq Reapable THEN others \cap Reapable ELSE Reapable
             gone   == {connections[i] : i \in reaped}
  <2>1. connections' = Sift(connections, Conns \ gone)
    BY <1>10 DEF Sweep
  <2>2. \A j \in gone : Quiescent(j)
    <3>1. \A i \in Reapable : Quiescent(connections[i])
      BY DEF Reapable
    <3>2. reaped \subseteq Reapable
      OBVIOUS
    <3> QED BY <3>1, <3>2
  <2> HIDE DEF gone
  <2>3. ToSet(connections') = ToSet(connections) \cap (Conns \ gone)
    BY <1>0, <2>1, SiftFacts
  <2> QED BY <2>2, <2>3
<1>11. ASSUME Dispose PROVE FALSE
  BY <1>11 DEF Dispose
<1>12. ASSUME UNCHANGED vars PROVE FALSE
  BY <1>12, <1>q DEF vars
<1> QED BY <1>1, <1>2, <1>3, <1>4, <1>5, <1>6, <1>7, <1>8, <1>9, <1>10, <1>11, <1>12 DEF Next

\* Surplus connections are always watched by the sweep, which spares whatever
\* carries a call; none ever carries more runs than RUNS_PER_CONNECTION and
\* none outlives dispose.
THEOREM ConnectionsAreKept == Spec => ConnectionsKept
<1>1. PoolInv => SweepIsArmed /\ NothingOpenAfterDispose /\ RunsWithinCap
  <2>1. ToSet(<<>>) = {}
    BY DEF ToSet
  <2> QED BY <2>1 DEF PoolInv, OpenIsListed, DisposedIsEmpty, NothingOpenAfterDispose
<1>2. PoolInv /\ [Next]_vars => [Spares]_vars
  BY SpareStep
<1>3. Spec => [](SweepIsArmed /\ NothingOpenAfterDispose /\ RunsWithinCap)
  BY <1>1, PoolInvariant, PTL
<1>4. Spec => [][Spares]_vars
  BY <1>2, PoolInvariant, PTL DEF Spec
<1> QED BY <1>3, <1>4 DEF ConnectionsKept, SweepSparesCallers, Spares
=============================================================================
