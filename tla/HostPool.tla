------------------------------ MODULE HostPool ------------------------------
(***************************************************************************)
(* Run admission and connection sharing on the host                        *)
(* (packages/iso4-sandbox/src/pool.ts): SlotPool caps how many callers     *)
(* execute, ConnectionRegistry shares connections among them, and          *)
(* RunPool.withClient is one caller's way through both.  The host is one   *)
(* event loop: an action is the code between two awaits, and callers       *)
(* interleave at every await.                                              *)
(*                                                                         *)
(* A connection's load and quiescence are those of client.ts: a run or a   *)
(* precompile counts from its registration to its answer, a DisposePrefix  *)
(* is written and forgotten, an epilogue rides along uncounted.            *)
(***************************************************************************)
EXTENDS Integers, Sequences, FiniteSets, SequencesExt, FiniteSetsExt, Functions,
        Sequencing

CONSTANTS
  Callers,       \* callers of withClient, each with one call at a time
  Kinds,         \* what they call: "run", "prepare" (createPrefix), "drop"
  Conns,         \* names of connections; a dead one's name is used again
  NoConn,        \* the connection of a caller that has none
  Capacity,      \* maxConcurrentRuns at first
  Allowances,    \* the slot allowances a Result may carry (0 = no opinion)
  MaxQueued,     \* maxQueuedRuns
  PerConn,       \* RUNS_PER_CONNECTION
  MaxEpilogues   \* bound: epilogues riding the connections

ASSUME PoolAssumptions ==
  /\ IsFiniteSet(Callers) /\ NoConn \notin Conns
  /\ Kinds \subseteq {"run", "prepare", "drop"}
  /\ Capacity \in Nat \ {0} /\ Allowances \subseteq Nat
  /\ MaxQueued \in Nat /\ PerConn \in Nat \ {0} /\ MaxEpilogues \in Nat

VARIABLES
  phase,         \* where each caller is in withClient
  kind,          \* what it called
  on,            \* the connection it was given
  capacity,      \* SlotPool.capacity
  active,        \* SlotPool.active
  queue,         \* SlotPool.waiters
  connections,   \* ConnectionRegistry.connections
  opening,       \* ConnectionRegistry.opening
  waiters,       \* ConnectionRegistry.waiters
  timer,         \* the sweep timer is set
  aged,          \* connections whose busyAt is a TTL ago
  sock,          \* each connection: "open", "closed" (no longer usable, its
                 \* calls not failed yet) or "dead" (or not opened yet)
  epilogues,     \* runs in their waitUntil phase on each connection
  disposed

slotVars == <<capacity, active, queue>>
regVars  == <<connections, opening, waiters, timer, aged>>
connVars == <<sock, epilogues>>
vars == <<phase, kind, on, slotVars, regVars, connVars, disposed>>

\* A caller in one of these phases holds a slot.
Holding == {"admitted", "opening", "waiting", "retry", "staging", "running", "settling"}

Phases == {"idle", "queued"} \cup Holding

Init ==
  /\ phase = [c \in Callers |-> "idle"]
  /\ kind = [c \in Callers |-> "none"]
  /\ on = [c \in Callers |-> NoConn]
  /\ capacity = Capacity /\ active = 0 /\ queue = <<>>
  /\ connections = <<>> /\ opening = 0 /\ waiters = <<>>
  /\ timer = FALSE /\ aged = {}
  /\ sock = [k \in Conns |-> "dead"]
  /\ epilogues = [k \in Conns |-> 0]
  /\ disposed = FALSE

\* The phases after every caller of S moved to `to`.
Move(S, to) == [c \in Callers |-> IF c \in S THEN to ELSE phase[c]]
-----------------------------------------------------------------------------
(***************************************************************************)
(* The connection as the pool sees it (client.ts load, quiescent, usable). *)
(***************************************************************************)
Load(k) == Cardinality({c \in Callers : on[c] = k /\ phase[c] = "running" /\ kind[c] # "drop"})

\* A DisposePrefix still being written is in the socket's write buffer.
Quiescent(k) ==
  /\ \A c \in Callers : on[c] = k => phase[c] # "running"
  /\ epilogues[k] = 0

Usable(k) == sock[k] = "open"

\* A name no entry and no caller refers to.
Fresh(k) ==
  sock[k] = "dead" /\ k \notin ToSet(connections) /\ \A c \in Callers : on[c] # k
-----------------------------------------------------------------------------
(***************************************************************************)
(* SlotPool.                                                               *)
(***************************************************************************)
\* acquire.  A call on a disposed pool, with an aborted signal or on a full
\* queue is rejected there and leaves no trace.
Call(c, what) ==
  /\ phase[c] = "idle" /\ ~disposed
  /\ \/ /\ active < capacity
        /\ active' = active + 1
        /\ phase' = Move({c}, "admitted")
        /\ UNCHANGED queue
     \/ /\ active >= capacity /\ Len(queue) < MaxQueued
        /\ queue' = Append(queue, c)
        /\ phase' = Move({c}, "queued")
        /\ UNCHANGED active
  /\ kind' = [kind EXCEPT ![c] = what]
  /\ UNCHANGED <<on, capacity, regVars, connVars, disposed>>

\* Either signal fires while the caller is queued.
AbortQueued(c) ==
  /\ phase[c] = "queued"
  /\ \E i \in DOMAIN queue : queue[i] = c /\ queue' = RemoveAt(queue, i)
  /\ phase' = Move({c}, "idle")
  /\ kind' = [kind EXCEPT ![c] = "none"]
  /\ UNCHANGED <<on, capacity, active, regVars, connVars, disposed>>

\* setSlotLimit and setCapacity, run by a Result that settles callers too:
\* growing admits from the front of the queue.
SetCapacity(a, settled) ==
  LET cap == IF disposed \/ a = 0 THEN capacity ELSE a
      n   == Max({0, Min({cap - active, Len(queue)})})
      in  == IF cap = capacity THEN 0 ELSE n
  IN /\ capacity' = cap
     /\ active' = active + in
     /\ queue' = SubSeq(queue, in + 1, Len(queue))
     /\ phase' = [c \in Callers |->
                    IF c \in settled THEN "settling"
                    ELSE IF c \in ToSet(SubSeq(queue, 1, in)) THEN "admitted"
                    ELSE phase[c]]

\* Mutant: a freed slot is never handed on.
ReleaseNoHandoff(c) ==
  /\ kind' = [kind EXCEPT ![c] = "none"]
  /\ active' = active - 1
  /\ phase' = [phase EXCEPT ![c] = "idle"]
  /\ UNCHANGED <<capacity, queue>>

\* release, and the end of the call: the slot goes to the longest-queued
\* caller, except above capacity.
ReleaseSlot(c) ==
  /\ kind' = [kind EXCEPT ![c] = "none"]
  /\ IF active <= capacity /\ queue # <<>>
     THEN /\ queue' = Tail(queue)
          /\ phase' = [phase EXCEPT ![c] = "idle", ![Head(queue)] = "admitted"]
          /\ UNCHANGED <<capacity, active>>
     ELSE /\ active' = active - 1
          /\ phase' = [phase EXCEPT ![c] = "idle"]
          /\ UNCHANGED <<capacity, queue>>
-----------------------------------------------------------------------------
(***************************************************************************)
(* RunPool.withClient over ConnectionRegistry.                             *)
(***************************************************************************)
\* The call fn makes with its connection.  A run registers in the same tick;
\* createPrefix first awaits the bodies among its globals.
Started(c) == IF kind[c] = "prepare" THEN "staging" ELSE "running"

\* Mutant: the catch forgets the slot.
SeatRefusedLeak(c) ==
  /\ phase[c] \in {"admitted", "retry"} /\ disposed
  /\ phase' = Move({c}, "idle")
  /\ UNCHANGED <<kind, on, slotVars, regVars, connVars, disposed>>

\* A disposed registry throws; the slot is given back.
SeatRefused(c) ==
  /\ phase[c] \in {"admitted", "retry"} /\ disposed
  /\ ReleaseSlot(c)
  /\ UNCHANGED <<on, regVars, connVars, disposed>>

HasRoom(k) == Usable(k) /\ Load(k) < PerConn

Fits == {i \in DOMAIN connections : HasRoom(connections[i])}

\* tryAcquire drops the dead connections it passes, up to entry n.
DropDead(n) ==
  LET seen == SubSeq(connections, 1, n)
  IN Sift(seen, {k \in Conns : Usable(k)}) \o SubSeq(connections, n + 1, Len(connections))

\* tryAcquire: the first connection with room, and fn starts on it at once.
Seat(c) ==
  /\ phase[c] = "admitted" /\ ~disposed /\ Fits # {}
  /\ LET i == Min(Fits)
         k == connections[i]
     IN /\ connections' = DropDead(i)
        /\ aged' = (aged \cap ToSet(connections')) \ {k}
        /\ on' = [on EXCEPT ![c] = k]
        /\ phase' = Move({c}, Started(c))
  /\ UNCHANGED <<kind, slotVars, opening, waiters, timer, connVars, disposed>>

\* Mutant: a place is promised per open, the opener's own included.
NoPlaceLoose == opening * PerConn - Len(waiters) < 1

\* openOrWait's decision: every place the opens in flight promise is claimed.
NoPlace == opening * (PerConn - 1) - Len(waiters) < 1

OpenOrWait(c) ==
  \/ /\ NoPlace
     /\ opening' = opening + 1
     /\ phase' = Move({c}, "opening")
     /\ UNCHANGED waiters
  \/ /\ ~NoPlace
     /\ waiters' = Append(waiters, c)
     /\ phase' = Move({c}, "waiting")
     /\ UNCHANGED opening

\* tryAcquire found every connection full or dead.
SeekPlace(c) ==
  /\ phase[c] = "admitted" /\ ~disposed /\ Fits = {}
  /\ connections' = DropDead(Len(connections))
  /\ aged' = aged \cap ToSet(connections')
  /\ OpenOrWait(c)
  /\ UNCHANGED <<kind, on, slotVars, timer, connVars, disposed>>

\* A waiter whose open failed decides again, without another tryAcquire.
RetryPlace(c) ==
  /\ phase[c] = "retry" /\ ~disposed
  /\ OpenOrWait(c)
  /\ UNCHANGED <<kind, on, slotVars, connections, timer, aged, connVars, disposed>>

\* The waiters an open settles, however it ends: at most the places it has.
Settled == Min({PerConn - 1, Len(waiters)})

Claimed == ToSet(SubSeq(waiters, 1, Settled))

\* open's finally.
SettleWaiters ==
  /\ opening' = opening - 1
  /\ waiters' = SubSeq(waiters, Settled + 1, Len(waiters))

\* Nothing is between two of its microtasks.  A connect ends in an event of its
\* own (the Hello, the socket's error or the timeout), which starts when every
\* microtask of the ones before has run.
Drained == \A c \in Callers : phase[c] \notin {"admitted", "retry", "settling"}

\* startSweep, after the push of one more connection.
StartSweep == timer' = (timer \/ Len(connections) > 0)

\* connect resolves on a live registry.
OpenSucceeds(c, k) ==
  /\ phase[c] = "opening" /\ ~disposed /\ Drained
  /\ Fresh(k)
  /\ sock' = [sock EXCEPT ![k] = "open"]
  /\ connections' = Append(connections, k)
  /\ StartSweep
  /\ LET seated == Claimed \cup {c}
     IN /\ on' = [d \in Callers |-> IF d \in seated THEN k ELSE on[d]]
        /\ phase' = [d \in Callers |-> IF d \in seated THEN Started(d) ELSE phase[d]]
  /\ SettleWaiters
  /\ UNCHANGED <<kind, slotVars, aged, epilogues, disposed>>

\* Mutant: a connection that opens after dispose is kept.
OpensLateKept(c, k) ==
  /\ phase[c] = "opening" /\ disposed /\ Drained /\ Fresh(k)
  /\ sock' = [sock EXCEPT ![k] = "open"]
  /\ phase' = Move({c}, "settling")
  /\ SettleWaiters
  /\ UNCHANGED <<kind, on, slotVars, connections, timer, aged, epilogues, disposed>>

\* connect resolves after dispose: the connection is closed, the caller fails.
OpensLate(c, k) ==
  /\ phase[c] = "opening" /\ disposed /\ Drained /\ Fresh(k)
  /\ sock' = [sock EXCEPT ![k] = "closed"]
  /\ phase' = Move({c}, "settling")
  /\ SettleWaiters
  /\ UNCHANGED <<kind, on, slotVars, connections, timer, aged, epilogues, disposed>>

\* connect rejects: the opener's call fails, the waiters decide again.
OpenFails(c) ==
  /\ phase[c] = "opening" /\ Drained
  /\ phase' = [d \in Callers |-> IF d = c THEN "settling"
                                 ELSE IF d \in Claimed THEN "retry" ELSE phase[d]]
  /\ SettleWaiters
  /\ UNCHANGED <<kind, on, slotVars, connections, timer, aged, connVars, disposed>>
-----------------------------------------------------------------------------
(***************************************************************************)
(* The call on its connection.                                             *)
(***************************************************************************)
\* createPrefix goes on to precompile; a connection closed meanwhile throws.
Precompile(c) ==
  /\ phase[c] = "staging"
  /\ phase' = Move({c}, IF Usable(on[c]) THEN "running" ELSE "settling")
  /\ UNCHANGED <<kind, on, slotVars, regVars, connVars, disposed>>

\* createPrefix fails before it sends anything (a body errors).
StagingFails(c) ==
  /\ phase[c] = "staging"
  /\ phase' = Move({c}, "settling")
  /\ UNCHANGED <<kind, on, slotVars, regVars, connVars, disposed>>

\* A Result: the allowance it carries is applied, then the run settles.  With
\* background work it stays routed, as an epilogue.
Result(c, a, background) ==
  /\ phase[c] = "running" /\ kind[c] = "run" /\ sock[on[c]] \in {"open", "closed"}
  /\ background => SumFunction(epilogues) < MaxEpilogues
  /\ SetCapacity(a, {c})
  /\ epilogues' = [epilogues EXCEPT ![on[c]] = @ + (IF background THEN 1 ELSE 0)]
  /\ UNCHANGED <<kind, on, regVars, sock, disposed>>

\* A PrecompileResult, or the end of a DisposePrefix write.
Reply(c) ==
  /\ phase[c] = "running" /\ kind[c] # "run" /\ sock[on[c]] \in {"open", "closed"}
  /\ phase' = Move({c}, "settling")
  /\ UNCHANGED <<kind, on, slotVars, regVars, connVars, disposed>>

\* A RunComplete.
EpilogueEnds(k) ==
  /\ epilogues[k] > 0
  /\ epilogues' = [epilogues EXCEPT ![k] = @ - 1]
  /\ UNCHANGED <<phase, kind, on, slotVars, regVars, sock, disposed>>

\* fn settled, or the connection could not be had: withClient's finally.
Settle(c) ==
  /\ phase[c] = "settling"
  /\ ReleaseSlot(c)
  /\ on' = [on EXCEPT ![c] = NoConn]
  /\ UNCHANGED <<regVars, connVars, disposed>>

\* A socket error, EOF or a desync makes the connection unusable ...
Break(k) ==
  /\ sock[k] = "open"
  /\ sock' = [sock EXCEPT ![k] = "closed"]
  /\ UNCHANGED <<phase, kind, on, slotVars, regVars, epilogues, disposed>>

\* ... and its router then fails everything in flight on it.
TearDown(k) ==
  /\ sock[k] = "closed"
  /\ sock' = [sock EXCEPT ![k] = "dead"]
  /\ epilogues' = [epilogues EXCEPT ![k] = 0]
  /\ phase' = Move({c \in Callers : on[c] = k /\ phase[c] = "running"}, "settling")
  /\ UNCHANGED <<kind, on, slotVars, regVars, disposed>>
-----------------------------------------------------------------------------
(***************************************************************************)
(* The idle sweep and dispose.                                             *)
(***************************************************************************)
\* IDLE_CONNECTION_TTL_MS pass since the entry's busyAt.  Only the sweep looks,
\* in a timer event.
Age(k) ==
  /\ timer /\ Drained
  /\ k \in ToSet(connections) /\ k \notin aged
  /\ aged' = aged \cup {k}
  /\ UNCHANGED <<phase, kind, on, slotVars, connections, opening, waiters, timer,
                 connVars, disposed>>

Reapable == {i \in DOMAIN connections : Quiescent(connections[i]) /\ connections[i] \in aged}

\* sweep, newest first while more than one is left: the oldest goes only if
\* another stays.
Sweep ==
  LET others == DOMAIN connections \ {1}
      reaped == IF others \subseteq Reapable THEN others \cap Reapable ELSE Reapable
      gone   == {connections[i] : i \in reaped}
  IN /\ timer /\ Drained
     /\ connections' = Sift(connections, Conns \ gone)
     /\ aged' = {k \in aged \ gone : Quiescent(k)}
     /\ timer' = (Len(connections') > 1)
     /\ sock' = [k \in Conns |-> IF k \in gone /\ sock[k] = "open" THEN "closed" ELSE sock[k]]
     /\ UNCHANGED <<phase, kind, on, slotVars, opening, waiters, epilogues, disposed>>

\* RunPool.dispose: the queued callers are rejected, the registry's waiters
\* sent back, every connection closed.
Dispose ==
  /\ ~disposed
  /\ disposed' = TRUE
  /\ phase' = [c \in Callers |-> IF phase[c] = "queued" THEN "idle"
                                 ELSE IF phase[c] = "waiting" THEN "retry" ELSE phase[c]]
  /\ kind' = [c \in Callers |-> IF phase[c] = "queued" THEN "none" ELSE kind[c]]
  /\ queue' = <<>> /\ waiters' = <<>>
  /\ timer' = FALSE /\ connections' = <<>> /\ aged' = {}
  /\ sock' = [k \in Conns |-> IF k \in ToSet(connections) /\ sock[k] = "open"
                              THEN "closed" ELSE sock[k]]
  /\ UNCHANGED <<on, capacity, active, opening, epilogues>>
-----------------------------------------------------------------------------
Next ==
  \/ \E c \in Callers :
       \/ \E what \in Kinds : Call(c, what)
       \/ AbortQueued(c) \/ SeatRefused(c) \/ Seat(c) \/ SeekPlace(c) \/ RetryPlace(c)
       \/ \E k \in Conns : OpenSucceeds(c, k) \/ OpensLate(c, k)
       \/ OpenFails(c) \/ Precompile(c) \/ StagingFails(c)
       \/ \E a \in Allowances, b \in BOOLEAN : Result(c, a, b)
       \/ Reply(c) \/ Settle(c)
  \/ \E k \in Conns : EpilogueEnds(k) \/ Break(k) \/ TearDown(k) \/ Age(k)
  \/ Sweep
  \/ Dispose

Spec == Init /\ [][Next]_vars

\* The event loop runs every microtask it holds and comes to its next event; a
\* connect ends one way or the other within the handshake timeout, and one that
\* is tried over and over does not always fail; a closed socket ends its router;
\* every answer arrives, limits and teardown seeing to it.
Fairness ==
  /\ []<>Drained
  /\ \A c \in Callers :
       /\ SF_vars(OpenFails(c) \/ \E k \in Conns : OpenSucceeds(c, k) \/ OpensLate(c, k))
       /\ SF_vars(\E k \in Conns : OpenSucceeds(c, k))
       /\ WF_vars(\/ Precompile(c) \/ StagingFails(c) \/ Reply(c)
                  \/ \E a \in Allowances, b \in BOOLEAN : Result(c, a, b))
  /\ \A k \in Conns : WF_vars(TearDown(k))

FairSpec == Spec /\ Fairness
-----------------------------------------------------------------------------
(***************************************************************************)
(* Properties.                                                             *)
(***************************************************************************)
\* Every variable has the type its declaration says.
TypeOK ==
  /\ phase \in [Callers -> Phases]
  /\ kind \in [Callers -> Kinds \cup {"none"}]
  /\ on \in [Callers -> Conns \cup {NoConn}]
  /\ capacity \in Nat \ {0} /\ active \in Nat /\ queue \in Seq(Callers)
  /\ connections \in Seq(Conns) /\ opening \in Nat /\ waiters \in Seq(Callers)
  /\ timer \in BOOLEAN /\ aged \subseteq Conns
  /\ sock \in [Conns -> {"open", "closed", "dead"}]
  /\ epilogues \in [Conns -> Nat]
  /\ disposed \in BOOLEAN

\* SlotPool.active counts exactly the callers between admission and release:
\* no error path, abort, failed open or teardown leaks a slot or frees it
\* twice (RunPool.withClient's try and finally).
SlotsExact == active = Cardinality({c \in Callers : phase[c] \in Holding})

\* SlotPool.waiters holds exactly the queued callers, each once, and nobody is
\* queued while a slot is free, however the allowance moves (SlotPool.release,
\* setCapacity).
NobodyWaitsForAFreeSlot ==
  /\ IsInjective(queue) /\ ToSet(queue) = {c \in Callers : phase[c] = "queued"}
  /\ queue # <<>> => active >= capacity

\* Every caller parked on an open has a place on one in flight, so that the
\* opens that end seat or release all of them (ConnectionRegistry.openOrWait,
\* open).
EveryWaiterHasAPlace ==
  /\ opening = Cardinality({c \in Callers : phase[c] = "opening"})
  /\ IsInjective(waiters) /\ ToSet(waiters) = {c \in Callers : phase[c] = "waiting"}
  /\ Len(waiters) <= opening * (PerConn - 1)

\* A shrunk allowance is honoured: while more run than it grants, nobody is
\* admitted (SlotPool.release never hands on a slot above capacity).
ShrinkWalksDown ==
  [][active > capacity /\ capacity' = capacity => active' <= active
       /\ \A c \in Callers : phase[c] = "queued" => phase'[c] # "admitted"]_vars

\* Surplus connections never go unwatched: the sweep timer is set whenever
\* there are two or more (ConnectionRegistry.startSweep, sweep).
SweepIsArmed == Len(connections) > 1 => timer

\* The sweep never closes a connection in use: not the one tryAcquire handed
\* to a run a moment ago, not one with a request being written, not one an
\* epilogue rides (pool.ts sweep, client.ts quiescent).
SweepSparesCallers ==
  [][\A k \in Conns :
       k \in ToSet(connections) \ ToSet(connections') /\ Usable(k) /\ ~disposed'
       => epilogues[k] = 0 /\ \A c \in Callers : on[c] = k => phase[c] # "running"]_vars

\* No connection outlives dispose, not even one whose handshake was in flight
\* (ConnectionRegistry.open, dispose).
NothingOpenAfterDispose == disposed => \A k \in Conns : sock[k] # "open"

\* A connection never carries more than RUNS_PER_CONNECTION runs, however its
\* callers came by it: first fit, an open of their own, a place on another's
\* (ConnectionRegistry.tryAcquire, openOrWait).  A createPrefix, which counts
\* only some time after it was seated, can take the load above the cap.
RunsWithinCap ==
  \A k \in Conns :
    Cardinality({c \in Callers : on[c] = k /\ phase[c] = "running" /\ kind[c] = "run"}) <= PerConn

\* Admission forgets nobody: no caller is queued while a slot is free, none is
\* parked on an open that has no place for it, and still a shrunk allowance
\* admits nobody before it is reached (SlotPool, ConnectionRegistry.openOrWait).
AdmissionFair ==
  /\ [](NobodyWaitsForAFreeSlot /\ EveryWaiterHasAPlace)
  /\ ShrinkWalksDown

\* A connection is kept as long as it is used and no longer: surplus ones are
\* watched by the sweep, which spares whatever carries a call, none is
\* overfilled with runs and none outlives dispose (ConnectionRegistry).
ConnectionsKept ==
  /\ [](SweepIsArmed /\ NothingOpenAfterDispose /\ RunsWithinCap)
  /\ SweepSparesCallers

\* Every call that entered withClient leaves it.
CallsSettle == \A c \in Callers : (phase[c] # "idle") ~> (phase[c] = "idle")
=============================================================================
