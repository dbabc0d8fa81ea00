---------------------------- MODULE RunLoopProofs ----------------------------
(***************************************************************************)
(* Machine-checked proof about RunLoop, for any number of runs, any limits *)
(* and set-ups, any cap on timers and on bridge calls: the deadline heap   *)
(* knows the next deadline of every suspended run, the call logs agree     *)
(* with the host, a wait is never billed beyond the budget, a deadline     *)
(* ends a run only after the run's earlier events, timers fire in order,   *)
(* and every run is answered as RunLife promises.                          *)
(*                                                                         *)
(* The invariant LoopInv has one part per thing the loop relies on between *)
(* its steps.  Clocks: no instant kept is in the future.  Tables: an entry *)
(* of a timer table has its heap element.  TurnShape: what is executing,   *)
(* and which event waits behind it.  Events: what is in the channel still  *)
(* fits the run it is for; Order: by arrival, a job once, a call answered  *)
(* once.  Queued: the heap, also inside a turn, for the runs the turn has  *)
(* not touched.  Served: before an event is delivered every deadline up to *)
(* its arrival has been served.  Logs: records, in-flight indices and      *)
(* resolvers.  Said: what a run has sent, by its phase.                    *)
(*                                                                         *)
(* The actions fall into five shapes, each of which preserves LoopInv as a *)
(* whole: guest code (GuestShape), the end of a run (Concludes), a turn    *)
(* that begins (Begun), an event that arrives (Arrived) and a step of the  *)
(* loop that leaves every run alone (Moved); parking (EndPark) stands by   *)
(* itself.  The action properties and the refinement are read off the same *)
(* shapes.                                                                 *)
(***************************************************************************)
EXTENDS RunLoop, SequencingProofs

(* The invariant. *)

\* An instant of the loop's clock, or none (Option<Instant>).
Instants == Nat \union {Never}

\* The state of one run (RunState of runloop.rs).
RunState ==
  [phase : {"new", "queued", "settling", "grace", "done"},
   root : {"pending", "fulfilled", "rejected"}, callPending : BOOLEAN, start : Nat,
   counted : Nat, parkedAt : Nat, entered : Instants, reg : BOOLEAN, waits : Nat,
   werr : BOOLEAN, gcounted : Nat, graceStart : Nat, status : {"none", "truncated"},
   early : BOOLEAN, used : Nat,
   kind : {"none", "ok", "failed", "wall", "reset", "aborted"}, wall : Nat]

\* An event of the channel: a job, a frame for a run, the loss of its
\* connection.
Event ==
  [run : Runs, kind : {"job", "value", "error", "bad", "terminate", "lost"}, at : Nat,
   call : Nat]

\* The turn that is executing, if there is one.
Turn ==
  [owner : 0 .. NRuns, kind : {"none", "start", "frame", "timer"}, queued : Instants,
   began : Nat, fired : Nat, kill : BOOLEAN, bare : BOOLEAN]

\* A timer table (timers.rs): entries, and the heap elements that order them.
Table ==
  [last : Nat, entries : SUBSET [id : Nat, at : Nat, virt : Nat],
   order : SUBSET [id : Nat, at : Nat]]

\* A run's call log (bridge.rs).
Log ==
  [count : Nat,
   records : Seq([call : Nat, outcome : {"blocked", "unanswered", "ok", "error"}]),
   inFlight : SUBSET [call : Nat, idx : Nat], resolvers : SUBSET Nat, error : BOOLEAN]

\* Every variable is of its type.
TypeOK ==
  /\ cfg \in Setups
  /\ now \in Nat
  /\ pc \in {"select", "gap", "sweep", "deliver", "js", "dead"}
  /\ chan \in Seq(Event)
  /\ ev \in Event \union {NoEvent}
  /\ cutoff \in Nat
  /\ turn \in Turn
  /\ frozen \in Nat
  /\ heap \in SUBSET (Nat \X Runs)
  /\ touched \in SUBSET Runs
  /\ rs \in [Runs -> RunState]
  /\ timers \in [Runs -> Table]
  /\ calls \in [Runs -> Log]
  /\ lastCall \in [Runs -> Nat]
  /\ host \in [Runs -> SUBSET Nat]
  /\ out \in [Runs -> Seq({"early", "result", "complete"})]

\* At instant n, the run has not been parked or entered in the future.
ClockAt(s, n) == s.parkedAt <= n /\ (s.entered # Never => s.entered <= n)

\* ... at the present instant.
ClockOk(s) == ClockAt(s, now)

\* Millisecond z has begun by instant n.
Reached(z, n) == z * Ms <= n

\* No instant kept is later than now: where runs were parked and entered, the
\* cutoff, the clock the guest sees.
Clocks ==
  /\ \A r \in Runs : ClockOk(rs[r])
  /\ cutoff <= now
  /\ Reached(frozen, now)

\* Every entry has its heap element, is not due before its scheduled time, and
\* is the only one with its id.
TableOk(t) ==
  /\ \A e \in t.entries : /\ e.id <= t.last /\ Reached(e.virt, e.at)
                          /\ [id |-> e.id, at |-> e.at] \in t.order
  /\ \A e, f \in t.entries : e.id = f.id => e = f

\* ... in the table of every run.
Tables == \A r \in Runs : TableOk(timers[r])

\* What is executing and what waits behind it: inside a turn its owner is
\* live, outside one no timers are touched, and an event kept while deadlines
\* are served sets the cutoff.
TurnShape ==
  /\ pc = "js" => /\ turn.owner \in Runs /\ Live(turn.owner)
                  /\ turn.kind \in {"start", "frame", "timer"}
                  /\ turn.kind # "timer" => ev = NoEvent
  /\ pc # "js" => turn = NoTurn /\ touched = {}
  /\ pc \in {"select", "gap", "dead"} => ev = NoEvent
  /\ pc = "deliver" => ev # NoEvent
  /\ pc \in {"sweep", "js"} /\ ev # NoEvent => cfg.mode = "instance" /\ cutoff = ev.at

\* An event on its way came no later than n and fits its run: a job's run is
\* queued, an answered call belongs to a run that has started and, while that
\* run is live, still has its resolver and is out of the host's hands.
EventFits(e, n, s, l, h) ==
  /\ e.at <= n
  /\ e.kind = "job" => s[e.run].phase = "queued"
  /\ e.call # NoId => s[e.run].phase \notin {"new", "queued"}
  /\ e.call # NoId /\ s[e.run].phase \in {"settling", "grace"} =>
       e.call \in l[e.run].resolvers \ h[e.run]

\* Of two events, the first came no later; a run has one job, and a call one
\* answer.
PairOk(e, f) ==
  /\ e.at <= f.at
  /\ e.run = f.run => ~(e.kind = "job" /\ f.kind = "job")
  /\ e.run = f.run /\ e.call = f.call => e.call = NoId

\* The events in the channel and the one received fit their runs.
Events ==
  /\ \A i \in 1 .. Len(chan) : EventFits(chan[i], now, rs, calls, host)
  /\ ev # NoEvent => EventFits(ev, now, rs, calls, host)

\* They are in the order of their arrival, the received one first.
Order ==
  /\ \A i, j \in 1 .. Len(chan) : i < j => PairOk(chan[i], chan[j])
  /\ ev # NoEvent => \A i \in 1 .. Len(chan) : PairOk(ev, chan[i])

\* The heap has the next deadline of r, if r is live and has one.
Heaped(r) == Live(r) /\ NextDeadline(r) # Never => <<NextDeadline(r), r>> \in heap

\* Between turns the heap has everybody's next deadline; inside a turn
\* everybody's but the owner's and those the turn touched, and an event's turn
\* has left its owner's old deadline in.
Queued ==
  cfg.mode = "instance" =>
    /\ pc \in {"select", "gap", "sweep", "deliver"} => \A r \in Runs : Heaped(r)
    /\ pc = "js" => /\ \A r \in Runs \ touched : r # turn.owner => Heaped(r)
                    /\ turn.kind = "frame" /\ turn.queued # Never =>
                         <<turn.queued, turn.owner>> \in heap

\* When an event is delivered, no deadline up to its arrival is left.
Served ==
  cfg.mode = "instance" /\ pc = "deliver" =>
    \A r \in Runs : Live(r) /\ NextDeadline(r) # Never => NextDeadline(r) > ev.at

\* The records of calls that were sent.
Sent(l) == {i \in 1 .. Len(l.records) : l.records[i].call # NoId}

\* The log's parts agree: a resolver per call in flight, an in-flight index
\* per unanswered record, naming that record, and no more calls sent than
\* counted or allowed.
LogOk(l, last) ==
  /\ l.resolvers = {f.call : f \in l.inFlight}
  /\ \A i \in 1 .. Len(l.records) :
       l.records[i].outcome = "unanswered" <=> \E f \in l.inFlight : f.idx = i
  /\ \A f \in l.inFlight : /\ f.idx \in 1 .. Len(l.records)
                           /\ l.records[f.idx].call = f.call
                           /\ f.call \in 1 .. last
  /\ \A f, g \in l.inFlight : f.call = g.call => f = g
  /\ Cardinality(Sent(l)) <= l.count
  /\ MaxCalls > 0 => Cardinality(Sent(l)) <= MaxCalls

\* ... for every run; the host's calls have resolvers, a run that is not live
\* has no log, and no two runs of one connection share a call.
Logs ==
  /\ \A r \in Runs : LogOk(calls[r], LastId(r)) /\ host[r] \subseteq calls[r].resolvers
  /\ \A r \in Runs : ~Live(r) => calls[r] = NoCalls
  /\ \A r, b \in Runs : r # b /\ Lim(r).conn = Lim(b).conn =>
       calls[r].resolvers \intersect calls[b].resolvers = {}

\* What a run in state s has sent: nothing before its value, its early Result
\* if there is one, and its last word at its end.
Saying(s, o) ==
  /\ s.phase \in {"new", "queued", "settling"} => o = <<>>
  /\ s.phase = "grace" => o = IF s.early THEN <<"early">> ELSE <<>>
  /\ s.phase = "done" => o \in {<<"result">>, <<"early", "complete">>, <<"early", "result">>}
  /\ s.phase # "done" => s.kind = "none"

\* ... for every run.
Said == \A r \in Runs : Saying(rs[r], out[r])

\* The inductive invariant.
LoopInv ==
  /\ TypeOK /\ Clocks /\ Tables /\ TurnShape /\ Events /\ Order /\ Queued /\ Served
  /\ Logs /\ Said

-----------------------------------------------------------------------------
(* Deadlines and their minimum. *)

\* The absent deadline is no instant.
LEMMA NeverApart == Never \notin Nat
  BY TimerAssumption

\* MinTime is the least of the deadlines that are there, and none if none is.
LEMMA MinTimeIs ==
  ASSUME NEW S \in SUBSET Instants
  PROVE  /\ MinTime(S) \in Instants
         /\ MinTime(S) = Never <=> S \subseteq {Never}
         /\ MinTime(S) # Never => MinTime(S) \in S
         /\ MinTime(S) # Never => \A x \in S : x # Never => MinTime(S) <= x
<1>1. CASE S \subseteq {Never}
  BY <1>1 DEF MinTime, Instants
<1>2. CASE ~(S \subseteq {Never})
  <2>1. PICK T : T = S \ {Never}
    OBVIOUS
  <2>2. T \in SUBSET Nat /\ T # {}
    BY <1>2, <2>1 DEF Instants
  <2>3. PICK m \in T : \A k \in T : m <= k
    BY <2>2, Least
  <2>4. Min(T) \in T /\ \A k \in T : Min(T) <= k
    <3>1. Min(T) = CHOOSE x \in T : \A y \in T : x <= y
      BY DEF Min
    <3> QED BY <2>3, <3>1
  <2>5. MinTime(S) = Min(T)
    BY <1>2, <2>1 DEF MinTime
  <2>6. Min(T) # Never
    BY <2>1, <2>4
  <2>7. MinTime(S) \in Nat /\ MinTime(S) \in S
    BY <2>1, <2>2, <2>4, <2>5
  <2>8. \A x \in S : x # Never => MinTime(S) <= x
    BY <2>1, <2>4, <2>5
  <2> QED BY <1>2, <2>5, <2>6, <2>7, <2>8 DEF Instants
<1> QED BY <1>1, <1>2

\* The later of two instants is one of them.
LEMMA LaterIs ==
  ASSUME NEW a \in Nat, NEW b \in Nat
  PROVE  Later(a, b) \in Nat /\ Later(a, b) >= a /\ Later(a, b) >= b /\ Later(a, b) \in {a, b}
  BY DEF Later

\* Milliseconds in ticks: order is kept,
LEMMA MsMono ==
  ASSUME NEW a \in Nat, NEW b \in Nat, a <= b
  PROVE  a * Ms \in Nat /\ b * Ms \in Nat /\ a * Ms <= b * Ms
<1>1. PICK c \in Nat : b = a + c
  <2>1. b - a \in Nat /\ b = a + (b - a)
    OBVIOUS
  <2> QED BY <2>1
<1>2. Ms \in Nat
  BY TimerAssumption
<1>3. a * Ms \in Nat /\ c * Ms \in Nat
  BY <1>2
<1>4. (a + c) * Ms = a * Ms + c * Ms
  BY <1>2
<1> QED BY <1>1, <1>3, <1>4

\* and the wall clock shows a millisecond that has begun.
LEMMA WallMsIs ==
  ASSUME NEW n \in Nat
  PROVE  WallMs(n) \in Nat /\ Reached(WallMs(n), n)
  BY TimerAssumption DEF WallMs, Reached

\* What has begun by an instant has begun by a later one.
LEMMA ReachedOn ==
  ASSUME NEW z \in Nat, NEW n \in Nat, NEW m \in Nat, Reached(z, n), n <= m
  PROVE  Reached(z, m)
<1>1. z * Ms \in Nat /\ z * Ms <= n
  BY MsMono DEF Reached
<1> QED BY <1>1 DEF Reached

\* Of two milliseconds that have begun, the later has.
LEMMA ReachedLater ==
  ASSUME NEW y \in Nat, NEW z \in Nat, NEW n \in Nat, Reached(y, n), Reached(z, n)
  PROVE  Later(y, z) \in Nat /\ Reached(Later(y, z), n)
<1>1. Later(y, z) \in Nat /\ Later(y, z) \in {y, z}
  BY LaterIs
<1> QED BY <1>1

\* PeekDeadline is the nearest deadline of an armed element.
LEMMA PeekIs ==
  ASSUME NEW t \in Table
  PROVE  /\ PeekDeadline(t) \in Instants
         /\ PeekDeadline(t) = Never <=> Armed(t) = {}
         /\ PeekDeadline(t) # Never =>
              /\ \E o \in Armed(t) : o.at = PeekDeadline(t)
              /\ \A o \in Armed(t) : PeekDeadline(t) <= o.at
<1>1. Armed(t) \subseteq [id : Nat, at : Nat]
  BY DEF Armed, Table
<1>2. PICK S : S = {o.at : o \in Armed(t)}
  OBVIOUS
<1>3. S \in SUBSET Nat /\ S \in SUBSET Instants
  BY <1>1, <1>2 DEF Instants
<1>4. PeekDeadline(t) = MinTime(S)
  BY <1>2 DEF PeekDeadline
<1>5. S \subseteq {Never} <=> Armed(t) = {}
  BY <1>2, <1>3, NeverApart
<1>6. \A o \in Armed(t) : o.at \in S /\ o.at # Never
  BY <1>1, <1>2, NeverApart
<1>7. PICK m : m = PeekDeadline(t)
  OBVIOUS
<1>8. /\ m \in Instants /\ (m = Never <=> S \subseteq {Never})
      /\ m # Never => m \in S /\ \A x \in S : x # Never => m <= x
  BY <1>3, <1>4, <1>7, MinTimeIs
<1>9. m # Never => \E o \in Armed(t) : o.at = m
  BY <1>2, <1>8
<1>10. m # Never => \A o \in Armed(t) : m <= o.at
  BY <1>6, <1>8
<1> QED BY <1>5, <1>7, <1>8, <1>9, <1>10

\* The fields of the set-up have their types.
LEMMA LimIs ==
  ASSUME TypeOK, NEW r \in Runs
  PROVE  /\ Lim(r).wall \in Nat /\ Lim(r).grace \in Nat /\ Lim(r).session \in BOOLEAN
         /\ Lim(r).conn \in Runs
         /\ cfg.mode \in {"instance", "oneoff"} /\ cfg.source \in BOOLEAN
         /\ cfg.call \in BOOLEAN /\ cfg.delays \subseteq Nat
<1>1. cfg \in Setup
  BY LoopAssumption DEF TypeOK
<1>2. cfg.runs \in [Runs -> Limits]
  BY <1>1 DEF Setup
<1>3. Lim(r) \in Limits
  BY <1>2 DEF Lim
<1> QED BY <1>1, <1>3 DEF Setup, Limits

\* A connection's counter, and what taking an id does to it.
LEMMA IdIs ==
  ASSUME TypeOK, NEW b \in Runs
  PROVE  /\ LastId(b) \in Nat /\ TakeId(b) \in [Runs -> Nat]
         /\ TakeId(b)[Lim(b).conn] = LastId(b) + 1
         /\ \A c \in Runs : lastCall[c] \in Nat /\ lastCall[c] <= TakeId(b)[c]
<1>1. PICK k \in Runs : k = Lim(b).conn
  BY LimIs
<1>2. lastCall \in [Runs -> Nat]
  BY DEF TypeOK
<1>3. LastId(b) = lastCall[k] /\ TakeId(b) = [lastCall EXCEPT ![k] = @ + 1]
  BY <1>1 DEF LastId, TakeId
<1>4. ASSUME NEW c \in Runs PROVE lastCall[c] \in Nat /\ lastCall[c] <= TakeId(b)[c]
  BY <1>2, <1>3
<1> QED BY <1>1, <1>2, <1>3, <1>4

\* What is spent and what remains add up to the budget, or to what is spent
\* already.
LEMMA RemainingIs ==
  ASSUME NEW cap \in Nat, NEW spent \in Nat
  PROVE  /\ Remaining(cap, spent) \in Nat
         /\ spent + Remaining(cap, spent) = Later(cap, spent)
  BY DEF Remaining, Later

\* A run's boundary is an instant or none.
LEMMA InstantIs ==
  ASSUME TypeOK, NEW r \in Runs, NEW s \in RunState
  PROVE  DeadlineInstant(r, s) \in Instants
<1>1. /\ s.parkedAt \in Nat /\ s.counted \in Nat /\ s.gcounted \in Nat
  BY DEF RunState
<1>2. Remaining(Lim(r).wall, s.counted) \in Nat /\ Remaining(Lim(r).grace, s.gcounted) \in Nat
  BY <1>1, LimIs, RemainingIs
<1> QED BY <1>1, <1>2 DEF DeadlineInstant, GraceWallInstant, Instants

\* A run's next deadline is the nearer of its boundary and its first timer.
LEMMA NextIs ==
  ASSUME TypeOK, NEW r \in Runs, NEW s \in RunState, NEW t \in Table
  PROVE  /\ NextDeadlineOf(r, s, t) \in Instants
         /\ NextDeadlineOf(r, s, t) # Never =>
              /\ NextDeadlineOf(r, s, t) \in {DeadlineInstant(r, s), PeekDeadline(t)}
              /\ DeadlineInstant(r, s) # Never => NextDeadlineOf(r, s, t) <= DeadlineInstant(r, s)
              /\ PeekDeadline(t) # Never => NextDeadlineOf(r, s, t) <= PeekDeadline(t)
         /\ NextDeadlineOf(r, s, t) = Never <=>
              DeadlineInstant(r, s) = Never /\ PeekDeadline(t) = Never
<1>1. PICK S : S = {DeadlineInstant(r, s), PeekDeadline(t)}
  OBVIOUS
<1>2. S \in SUBSET Instants
  BY <1>1, InstantIs, PeekIs
<1>3. NextDeadlineOf(r, s, t) = MinTime(S)
  BY <1>1 DEF NextDeadlineOf
<1> QED BY <1>1, <1>2, <1>3, MinTimeIs

\* A set of heap entries that is not empty has a nearest one.
LEMMA Soonest ==
  ASSUME NEW H \in SUBSET (Nat \X Nat), H # {}
  PROVE  \E v \in H : \A w \in H : Sooner(v, w)
<1>1. PICK T : T = {e[1] : e \in H}
  OBVIOUS
<1>2. T \in SUBSET Nat /\ T # {}
  BY <1>1
<1>3. PICK m \in T : \A k \in T : m <= k
  BY <1>2, Least
<1>4. PICK U : U = {e[2] : e \in {e \in H : e[1] = m}}
  OBVIOUS
<1>5. U \in SUBSET Nat /\ U # {}
  BY <1>1, <1>3, <1>4
<1>6. PICK n \in U : \A k \in U : n <= k
  BY <1>5, Least
<1>7. PICK v \in H : v[1] = m /\ v[2] = n
  BY <1>4, <1>6
<1>8. ASSUME NEW w \in H PROVE Sooner(v, w)
  <2>1. w[1] \in Nat /\ w[2] \in Nat /\ m \in Nat /\ n \in Nat
    BY <1>2, <1>5
  <2>2. m <= w[1]
    BY <1>1, <1>3
  <2>3. w[1] = m => n <= w[2]
    BY <1>4, <1>6
  <2> QED BY <1>7, <2>1, <2>2, <2>3 DEF Sooner
<1> QED BY <1>7, <1>8

-----------------------------------------------------------------------------
(* Timer tables. *)

\* A set of timer elements that is not empty has an earliest one.
LEMMA Earliest ==
  ASSUME NEW H \in SUBSET [id : Nat, at : Nat], H # {}
  PROVE  \E o \in H : \A p \in H : o = p \/ Before(o, p)
<1>1. PICK T : T = {o.at : o \in H}
  OBVIOUS
<1>2. T \in SUBSET Nat /\ T # {}
  BY <1>1
<1>3. PICK m \in T : \A k \in T : m <= k
  BY <1>2, Least
<1>4. PICK U : U = {o.id : o \in {o \in H : o.at = m}}
  OBVIOUS
<1>5. U \in SUBSET Nat /\ U # {}
  BY <1>1, <1>3, <1>4
<1>6. PICK n \in U : \A k \in U : n <= k
  BY <1>5, Least
<1>7. PICK o \in H : o.at = m /\ o.id = n
  BY <1>4, <1>6
<1>8. ASSUME NEW p \in H PROVE o = p \/ Before(o, p)
  <2>1. p.at \in Nat /\ p.id \in Nat /\ m \in Nat /\ n \in Nat
    BY <1>2, <1>5
  <2>2. m <= p.at
    BY <1>1, <1>3
  <2>3. p.at = m => n <= p.id
    BY <1>4, <1>6
  <2>4. p.at = m /\ p.id = n => o = p
    BY <1>7
  <2> QED BY <1>7, <2>1, <2>2, <2>3, <2>4 DEF Before
<1> QED BY <1>7, <1>8

\* PopEarliest takes the entry whose deadline the table shows, ahead of every
\* other, and leaves a table.
LEMMA PopIs ==
  ASSUME NEW t \in Table, TableOk(t), PeekDeadline(t) # Never
  PROVE  /\ PopEarliest(t).fired \in Nat /\ PopEarliest(t).virt \in Nat
         /\ PopEarliest(t).rest \in Table /\ TableOk(PopEarliest(t).rest)
         /\ \E e \in t.entries :
              /\ e.id = PopEarliest(t).fired /\ e.at = PeekDeadline(t)
              /\ e.virt = PopEarliest(t).virt
              /\ \A f \in t.entries : f = e \/ Before(e, f)
<1>1. PICK A : A = Armed(t)
  OBVIOUS
<1>2. A \in SUBSET [id : Nat, at : Nat] /\ A # {} /\ A \subseteq t.order
  BY <1>1, PeekIs DEF Armed, Table
<1>3. PICK o : o = CHOOSE q \in A : \A p \in A : q = p \/ Before(q, p)
  OBVIOUS
<1>4. o \in A /\ \A p \in A : o = p \/ Before(o, p)
  BY <1>2, <1>3, Earliest
<1>5. PICK x : x = CHOOSE e \in t.entries : e.id = o.id
  OBVIOUS
<1>6. PICK e \in t.entries : e.id = o.id /\ e.at = o.at
  BY <1>1, <1>4 DEF Armed
<1>7. x \in t.entries /\ x.id = o.id
  BY <1>5, <1>6
<1>8. x = e
  BY <1>6, <1>7 DEF TableOk
<1>9. PICK y : y = [fired |-> o.id, virt  |-> x.virt,
                    rest  |-> [t EXCEPT !.order = {p \in @ : Before(o, p)},
                                        !.entries = @ \ {x}]]
  OBVIOUS
<1>10. PopEarliest(t) = y
  BY <1>1, <1>3, <1>5, <1>9 DEF PopEarliest
<1>11. /\ t.last \in Nat /\ t.entries \in SUBSET [id : Nat, at : Nat, virt : Nat]
       /\ t.order \in SUBSET [id : Nat, at : Nat]
  BY DEF Table
<1>12. /\ y.fired = o.id /\ y.virt = x.virt /\ y.rest \in Table
       /\ y.rest.last = t.last /\ y.rest.entries = t.entries \ {x}
       /\ y.rest.order = {p \in t.order : Before(o, p)}
  BY <1>9, <1>11 DEF Table
<1>13. ASSUME NEW f \in t.entries
       PROVE  [id |-> f.id, at |-> f.at] \in A
  BY <1>1, <1>13 DEF Armed, TableOk
<1>14. ASSUME NEW f \in t.entries
       PROVE  f = e \/ Before(e, f)
  <2>1. PICK p : p = [id |-> f.id, at |-> f.at]
    OBVIOUS
  <2>2. o = p \/ Before(o, p)
    BY <1>4, <1>13, <2>1
  <2>3. CASE o = p
    BY <1>6, <2>1, <2>3 DEF TableOk
  <2>4. CASE Before(o, p)
    BY <1>6, <2>1, <2>4 DEF Before
  <2> QED BY <2>2, <2>3, <2>4
<1>15. TableOk(y.rest)
  <2>1. ASSUME NEW f \in t.entries \ {x}
        PROVE  [id |-> f.id, at |-> f.at] \in y.rest.order
    <3>1. Before(e, f)
      BY <1>8, <1>14
    <3>2. Before(o, [id |-> f.id, at |-> f.at])
      BY <1>6, <3>1 DEF Before
    <3> QED BY <1>2, <1>12, <1>13, <3>2
  <2> QED BY <1>12, <2>1 DEF TableOk
<1>16. o.at = PeekDeadline(t)
  <2>1. PICK q \in A : q.at = PeekDeadline(t)
    BY <1>1, PeekIs
  <2>2. PeekDeadline(t) <= o.at /\ PeekDeadline(t) \in Nat
    BY <1>1, <1>4, PeekIs DEF Instants
  <2>3. o.at \in Nat /\ o.id \in Nat /\ q.id \in Nat
    BY <1>2, <1>4
  <2>4. o.at <= q.at
    BY <1>4, <2>1, <2>2, <2>3 DEF Before
  <2> QED BY <2>1, <2>2, <2>3, <2>4
<1>17. y.fired \in Nat /\ y.virt \in Nat
  BY <1>2, <1>4, <1>7, <1>11, <1>12
<1> QED BY <1>6, <1>8, <1>10, <1>12, <1>14, <1>15, <1>16, <1>17

\* setTimeout leaves a table.
LEMMA SetIs ==
  ASSUME NEW t \in Table, TableOk(t), NEW z \in Nat, NEW n \in Nat, NEW d \in Nat
  PROVE  SetTimeout(t, z, n, d) \in Table /\ TableOk(SetTimeout(t, z, n, d))
<1>1. PICK w \in Nat : w = WallMs(n) /\ Reached(w, n)
  BY WallMsIs
<1>12. PICK lead \in Nat : lead = Later(z + d, w) - w /\ z + d <= w + lead
  <2>1. z + d \in Nat
    OBVIOUS
  <2>2. Later(z + d, w) \in Nat /\ Later(z + d, w) >= w /\ Later(z + d, w) >= z + d
    BY <2>1, LaterIs
  <2>3. Later(z + d, w) - w \in Nat /\ z + d <= w + (Later(z + d, w) - w)
    BY <2>1, <2>2
  <2> QED BY <2>3
<1>13. PICK at : at = n + lead * Ms
  OBVIOUS
<1>2. at \in Nat /\ Reached(z + d, at) /\ z + d \in Nat
  <2>1. Ms \in Nat /\ z + d \in Nat /\ w + lead \in Nat
    BY TimerAssumption
  <2>2. lead * Ms \in Nat /\ w * Ms \in Nat /\ (w + lead) * Ms = w * Ms + lead * Ms
    BY <2>1
  <2>3. (z + d) * Ms \in Nat /\ (z + d) * Ms <= (w + lead) * Ms
    BY <1>12, <2>1, MsMono
  <2>4. w * Ms <= n
    BY <1>1 DEF Reached
  <2>5. PICK v \in Nat : v = (z + d) * Ms
    BY <2>3
  <2>6. PICK x \in Nat : x = lead * Ms
    BY <2>2
  <2>7. PICK y \in Nat : y = w * Ms
    BY <2>2
  <2>8. v <= n + x /\ n + x \in Nat
    BY <2>2, <2>3, <2>4, <2>5, <2>6, <2>7
  <2> QED BY <1>13, <2>1, <2>5, <2>6, <2>8 DEF Reached
<1>3. /\ t.last \in Nat /\ t.entries \in SUBSET [id : Nat, at : Nat, virt : Nat]
      /\ t.order \in SUBSET [id : Nat, at : Nat]
  BY DEF Table
<1>4. PICK e : e = [id |-> t.last + 1, at |-> at, virt |-> z + d]
  OBVIOUS
<1>5. PICK y : y = SetTimeout(t, z, n, d)
  OBVIOUS
<1>6. /\ y.last = t.last + 1 /\ y.entries = t.entries \union {e}
      /\ y.order = t.order \union {[id |-> t.last + 1, at |-> at]}
      /\ y = [last |-> y.last, entries |-> y.entries, order |-> y.order]
  BY <1>1, <1>12, <1>13, <1>4, <1>5 DEF SetTimeout
<1>7. e \in [id : Nat, at : Nat, virt : Nat] /\ e.id = t.last + 1 /\ e.at = at /\ e.virt = z + d
  BY <1>2, <1>3, <1>4
<1>8. y \in Table
  BY <1>2, <1>3, <1>6, <1>7 DEF Table
<1>9. \A f \in t.entries : f.id \in Nat /\ f.id <= t.last /\ Reached(f.virt, f.at)
        /\ [id |-> f.id, at |-> f.at] \in t.order
  BY <1>3 DEF TableOk
<1>10. ASSUME NEW f \in y.entries
       PROVE  f.id <= y.last /\ Reached(f.virt, f.at) /\ [id |-> f.id, at |-> f.at] \in y.order
  <2>1. CASE f \in t.entries
    BY <1>3, <1>6, <1>9, <2>1
  <2>2. CASE f = e
    BY <1>2, <1>3, <1>6, <1>7, <2>2
  <2> QED BY <1>6, <2>1, <2>2
<1>11. ASSUME NEW f \in y.entries, NEW g \in y.entries, f.id = g.id
       PROVE  f = g
  <2>1. CASE f \in t.entries /\ g \in t.entries
    BY <1>11, <2>1 DEF TableOk
  <2>2. CASE f = e \/ g = e
    <3>1. ASSUME NEW k \in t.entries PROVE k.id # e.id
      <4>1. k.id \in Nat /\ k.id <= t.last
        BY <1>9
      <4> QED BY <1>3, <1>7, <4>1
    <3> QED BY <1>6, <1>11, <2>2, <3>1
  <2> QED BY <1>6, <2>1, <2>2
<1> QED BY <1>5, <1>8, <1>10, <1>11 DEF TableOk

\* clearTimeout leaves a table.
LEMMA ClearIs ==
  ASSUME NEW t \in Table, TableOk(t), NEW i
  PROVE  ClearTimeout(t, i) \in Table /\ TableOk(ClearTimeout(t, i))
<1>1. PICK y : y = ClearTimeout(t, i)
  OBVIOUS
<1>2. /\ y \in Table /\ y.last = t.last /\ y.order = t.order
      /\ y.entries = {e \in t.entries : e.id # i}
  BY <1>1 DEF ClearTimeout, Table
<1> QED BY <1>1, <1>2 DEF TableOk

\* The empty table is one.
LEMMA NoTimers == EmptyTimers \in Table /\ TableOk(EmptyTimers)
  BY DEF EmptyTimers, Table, TableOk

-----------------------------------------------------------------------------
(* The deadline heap. *)

\* The run is suspended or executing.
Alive(s) == s.phase \in {"settling", "grace"}

\* The states of all runs.
States == [Runs -> RunState]

\* The timer tables of all runs.
Tabs == [Runs -> Table]

\* Runs are numbered from one.
LEMMA RunsAre == Runs \subseteq Nat \ {0} /\ 1 \in Runs
  BY LoopAssumption DEF Runs

\* Which heap entries are valid.
LEMMA ValidIs ==
  ASSUME NEW h, NEW s, NEW t, NEW e
  PROVE  e \in ValidIn(h, s, t) <=>
           /\ e \in h
           /\ Alive(s[e[2]])
           /\ NextDeadlineOf(e[2], s[e[2]], t[e[2]]) = e[1]
  BY DEF ValidIn, Alive

\* Valid entries are entries.
LEMMA ValidHas ==
  ASSUME NEW h \in SUBSET (Nat \X Runs), NEW s, NEW t
  PROVE  ValidIn(h, s, t) \in SUBSET (Nat \X Nat) /\ ValidIn(h, s, t) \subseteq h
  BY RunsAre DEF ValidIn

\* Discarding the stale top of the heap keeps every valid entry.
LEMMA PeekKeeps ==
  ASSUME NEW h \in SUBSET (Nat \X Runs), NEW s, NEW t
  PROVE  /\ PeekValid(h, s, t) \subseteq h
         /\ ValidIn(h, s, t) \subseteq PeekValid(h, s, t)
<1>1. PICK V : V = ValidIn(h, s, t)
  OBVIOUS
<1>2. V \in SUBSET (Nat \X Nat) /\ V \subseteq h
  BY <1>1, ValidHas
<1>3. PeekValid(h, s, t) = {e \in h : \E v \in V : (\A w \in V : Sooner(v, w)) /\ Sooner(v, e)}
  BY <1>1 DEF PeekValid
<1>4. ASSUME NEW e \in V PROVE e \in PeekValid(h, s, t)
  <2>1. PICK v \in V : \A w \in V : Sooner(v, w)
    BY <1>2, <1>4, Soonest
  <2> QED BY <1>2, <1>3, <1>4, <2>1
<1> QED BY <1>1, <1>3, <1>4

\* The top is the one valid entry that is nearest.
LEMMA TopIs ==
  ASSUME heap \in SUBSET (Nat \X Runs)
  PROVE  /\ Top \subseteq ValidIn(heap, rs, timers)
         /\ \A e, f \in Top : e = f
         /\ \A f \in ValidIn(heap, rs, timers) : \E e \in Top : e[1] <= f[1]
<1>1. PICK V : V = ValidIn(heap, rs, timers)
  OBVIOUS
<1>2. V \in SUBSET (Nat \X Nat) /\ V \subseteq heap
  BY <1>1, ValidHas
<1>3. Top = {e \in V : \A f \in V : Sooner(e, f)}
  BY <1>1 DEF Top
<1>4. ASSUME NEW e \in Top, NEW f \in Top PROVE e = f
  <2>1. e \in Nat \X Nat /\ f \in Nat \X Nat
    BY <1>2, <1>3
  <2>2. Sooner(e, f) /\ Sooner(f, e)
    BY <1>3
  <2>3. e[1] = f[1] /\ e[2] = f[2]
    BY <2>1, <2>2 DEF Sooner
  <2> QED BY <2>1, <2>3
<1>5. ASSUME NEW f \in V PROVE \E e \in Top : e[1] <= f[1]
  <2>1. PICK v \in V : \A w \in V : Sooner(v, w)
    BY <1>2, <1>5, Soonest
  <2>2. v \in Top /\ Sooner(v, f)
    BY <1>3, <2>1
  <2>3. v[1] \in Nat /\ f[1] \in Nat
    BY <1>2
  <2> QED BY <2>2, <2>3 DEF Sooner
<1> QED BY <1>1, <1>3, <1>4, <1>5

\* The top entry is a live run's next deadline.
LEMMA TopEntry ==
  ASSUME TypeOK, NEW e \in Top
  PROVE  /\ e \in heap /\ e[1] \in Nat /\ e[2] \in Runs /\ Live(e[2])
         /\ NextDeadline(e[2]) = e[1] /\ e = <<e[1], e[2]>>
<1>1. heap \in SUBSET (Nat \X Runs)
  BY DEF TypeOK
<1>2. e \in ValidIn(heap, rs, timers)
  BY <1>1, TopIs
<1>3. e \in heap /\ Alive(rs[e[2]]) /\ NextDeadlineOf(e[2], rs[e[2]], timers[e[2]]) = e[1]
  BY <1>2, ValidIs
<1>4. e \in Nat \X Runs
  BY <1>1, <1>3
<1> QED BY <1>3, <1>4 DEF Alive, Live, NextDeadline

\* drain_touched_timers queues the next deadline of every live run touched.
LEMMA DrainIs ==
  ASSUME TypeOK, NEW s \in States, NEW t \in Tabs
  PROVE  /\ DrainTouched(s, t) \subseteq Nat \X Runs
         /\ \A b \in touched : Alive(s[b]) /\ NextDeadlineOf(b, s[b], t[b]) # Never =>
              <<NextDeadlineOf(b, s[b], t[b]), b>> \in DrainTouched(s, t)
         /\ touched = {} => DrainTouched(s, t) = {}
<1>1. PICK B : B = {b \in touched : /\ s[b].phase \in {"settling", "grace"}
                            /\ NextDeadlineOf(b, s[b], t[b]) # Never}
  OBVIOUS
<1>2. DrainTouched(s, t) = {<<NextDeadlineOf(b, s[b], t[b]), b>> : b \in B}
  BY <1>1 DEF DrainTouched
<1>3. touched \subseteq Runs
  BY DEF TypeOK
<1>4. ASSUME NEW b \in B PROVE NextDeadlineOf(b, s[b], t[b]) \in Nat /\ b \in Runs
  <2>1. b \in Runs /\ s[b] \in RunState /\ t[b] \in Table
    BY <1>1, <1>3 DEF States, Tabs
  <2> QED BY <1>1, <2>1, NextIs DEF Instants
<1>5. \A b \in touched : Alive(s[b]) /\ NextDeadlineOf(b, s[b], t[b]) # Never => b \in B
  BY <1>1 DEF Alive
<1> QED BY <1>1, <1>2, <1>4, <1>5

\* A push queues the run's next deadline.
LEMMA PushIs ==
  ASSUME TypeOK, NEW r \in Runs, NEW s \in States, NEW t \in Tabs
  PROVE  /\ Push(r, s, t) \subseteq Nat \X Runs
         /\ Alive(s[r]) /\ NextDeadlineOf(r, s[r], t[r]) # Never =>
              <<NextDeadlineOf(r, s[r], t[r]), r>> \in Push(r, s, t)
<1>1. s[r] \in RunState /\ t[r] \in Table
  BY DEF States, Tabs
<1>2. NextDeadlineOf(r, s[r], t[r]) # Never => NextDeadlineOf(r, s[r], t[r]) \in Nat
  BY <1>1, NextIs DEF Instants
<1> QED BY <1>2 DEF Push, Alive

-----------------------------------------------------------------------------
(* The state of one run. *)

\* What the deadlines of a run, and what it has said, depend on.
Same(s, u) ==
  /\ s.phase = u.phase /\ s.counted = u.counted /\ s.parkedAt = u.parkedAt
  /\ s.entered = u.entered /\ s.gcounted = u.gcounted /\ s.status = u.status
  /\ s.early = u.early /\ s.kind = u.kind

\* A run with a new count and turn.
WithCounted(s, c, e) == [s EXCEPT !.counted = c, !.entered = e]

\* ... and its fields.
LEMMA PutCounted ==
  ASSUME NEW s \in RunState, NEW c \in Nat, NEW e \in Instants,
         NEW u, u = WithCounted(s, c, e)
  PROVE  /\ u \in RunState /\ u.phase = s.phase /\ u.parkedAt = s.parkedAt
         /\ u.entered = e /\ u.status = s.status /\ u.early = s.early
         /\ u.kind = s.kind /\ u.counted = c /\ u.gcounted = s.gcounted
<1>1. u \in RunState
  BY DEF RunState, WithCounted
<1>2. /\ u.phase = s.phase /\ u.parkedAt = s.parkedAt
      /\ u.entered = e /\ u.status = s.status /\ u.early = s.early
      /\ u.kind = s.kind /\ u.counted = c /\ u.gcounted = s.gcounted
  BY DEF RunState, WithCounted
<1> QED BY <1>1, <1>2

\* A run with a new background count and turn.
WithGrace(s, c, e) == [s EXCEPT !.gcounted = c, !.entered = e]

\* ... and its fields.
LEMMA PutGrace ==
  ASSUME NEW s \in RunState, NEW c \in Nat, NEW e \in Instants,
         NEW u, u = WithGrace(s, c, e)
  PROVE  /\ u \in RunState /\ u.phase = s.phase /\ u.parkedAt = s.parkedAt
         /\ u.entered = e /\ u.status = s.status /\ u.early = s.early
         /\ u.kind = s.kind /\ u.gcounted = c /\ u.counted = s.counted
<1>1. u \in RunState
  BY DEF RunState, WithGrace
<1>2. /\ u.phase = s.phase /\ u.parkedAt = s.parkedAt
      /\ u.entered = e /\ u.status = s.status /\ u.early = s.early
      /\ u.kind = s.kind /\ u.gcounted = c /\ u.counted = s.counted
  BY DEF RunState, WithGrace
<1> QED BY <1>1, <1>2

\* A new run is one.
LEMMA NewIs ==
  ASSUME TypeOK
  PROVE  NewRun \in RunState /\ ClockOk(NewRun) /\ NewRun.phase = "new" /\ NewRun.kind = "none"
<1>1. NewRun \in RunState
  BY DEF NewRun, RunState, Instants
<1> QED BY <1>1 DEF NewRun, ClockOk, ClockAt, TypeOK

\* enter_turn counts the wait that ended at w in the phase the run is in, and
\* changes nothing else but the turn.
LEMMA EnterIs ==
  ASSUME TypeOK, NEW s \in RunState, NEW w \in Nat
  PROVE  LET u == EnterTurn(s, w)
             wait == IF w > s.parkedAt THEN w - s.parkedAt ELSE 0
         IN  /\ u \in RunState
             /\ u.phase = s.phase /\ u.parkedAt = s.parkedAt /\ u.entered = now
             /\ u.status = s.status /\ u.early = s.early /\ u.kind = s.kind
             /\ s.phase # "grace" => u.counted = s.counted + wait /\ u.gcounted = s.gcounted
             /\ s.phase = "grace" => u.counted = s.counted /\ u.gcounted = s.gcounted + wait
<1>1. PICK wait : wait = IF w > s.parkedAt THEN w - s.parkedAt ELSE 0
  OBVIOUS
<1>2. /\ wait \in Nat /\ now \in Instants
      /\ s.counted + wait \in Nat /\ s.gcounted + wait \in Nat
  <2>1. s.parkedAt \in Nat /\ s.counted \in Nat /\ s.gcounted \in Nat /\ now \in Nat
    BY DEF RunState, TypeOK
  <2> QED BY <1>1, <2>1 DEF Instants
<1>3. CASE s.phase = "grace"
  <2>1. PICK c \in Nat : c = s.gcounted + wait
    BY <1>2
  <2>2. PICK u : u = EnterTurn(s, w)
    OBVIOUS
  <2>3. u = WithGrace(s, c, now)
    BY <1>1, <1>3, <2>1, <2>2 DEF EnterTurn, WithGrace
  <2>4. /\ u \in RunState /\ u.phase = s.phase /\ u.parkedAt = s.parkedAt
        /\ u.entered = now /\ u.status = s.status /\ u.early = s.early
        /\ u.kind = s.kind /\ u.gcounted = c /\ u.counted = s.counted
    <3>1. now \in Instants
      BY <1>2
    <3> QED BY <2>3, <3>1, PutGrace
  <2> QED BY <1>1, <1>3, <2>1, <2>2, <2>4
<1>4. CASE s.phase # "grace"
  <2>1. PICK c \in Nat : c = s.counted + wait
    BY <1>2
  <2>2. PICK u : u = EnterTurn(s, w)
    OBVIOUS
  <2>3. u = WithCounted(s, c, now)
    BY <1>1, <1>4, <2>1, <2>2 DEF EnterTurn, WithCounted
  <2>4. /\ u \in RunState /\ u.phase = s.phase /\ u.parkedAt = s.parkedAt
        /\ u.entered = now /\ u.status = s.status /\ u.early = s.early
        /\ u.kind = s.kind /\ u.counted = c /\ u.gcounted = s.gcounted
    <3>1. now \in Instants
      BY <1>2
    <3> QED BY <2>3, <3>1, PutCounted
  <2> QED BY <1>1, <1>4, <2>1, <2>2, <2>4
<1> QED BY <1>3, <1>4

\* Folding a turn's execution into the count leaves the rest alone.
LEMMA FoldedIs ==
  ASSUME TypeOK, NEW s \in RunState, ClockOk(s)
  PROVE  /\ Folded(s) \in RunState
         /\ Folded(s).phase = s.phase /\ Folded(s).kind = s.kind
         /\ Folded(s).early = s.early /\ Folded(s).parkedAt = s.parkedAt
         /\ Folded(s).entered = Never
<1>1. CASE s.entered = Never
  BY <1>1 DEF Folded
<1>2. CASE s.entered # Never
  <2>1. s.counted \in Nat /\ s.gcounted \in Nat /\ s.entered \in Instants /\ now \in Nat
    BY DEF RunState, TypeOK
  <2>4. /\ s.counted + (now - s.entered) \in Nat /\ s.gcounted + (now - s.entered) \in Nat
        /\ Never \in Instants
    BY <1>2, <2>1 DEF ClockOk, ClockAt, Instants
  <2>2. CASE s.phase = "grace"
    <3>1. PICK c \in Nat : c = s.gcounted + (now - s.entered)
      BY <2>4
    <3>2. PICK u : u = Folded(s)
      OBVIOUS
    <3>3. u = WithGrace(s, c, Never)
      BY <1>2, <2>2, <3>1, <3>2 DEF Folded, WithGrace
    <3>4. /\ u \in RunState /\ u.phase = s.phase /\ u.kind = s.kind /\ u.early = s.early
          /\ u.parkedAt = s.parkedAt /\ u.entered = Never
      BY <2>4, <3>3, PutGrace
    <3> QED BY <3>2, <3>4
  <2>3. CASE s.phase # "grace"
    <3>1. PICK c \in Nat : c = s.counted + (now - s.entered)
      BY <2>4
    <3>2. PICK u : u = Folded(s)
      OBVIOUS
    <3>3. u = WithCounted(s, c, Never)
      BY <1>2, <2>3, <3>1, <3>2 DEF Folded, WithCounted
    <3>4. /\ u \in RunState /\ u.phase = s.phase /\ u.kind = s.kind /\ u.early = s.early
          /\ u.parkedAt = s.parkedAt /\ u.entered = Never
      BY <2>4, <3>3, PutCounted
    <3> QED BY <3>2, <3>4
  <2> QED BY <2>2, <2>3
<1> QED BY <1>1, <1>2

\* leave_turn keeps the phase.
LEMMA LeaveIs ==
  ASSUME TypeOK, NEW s \in RunState, ClockOk(s)
  PROVE  /\ LeaveTurn(s) \in RunState /\ ClockOk(LeaveTurn(s))
         /\ LeaveTurn(s).phase = s.phase /\ LeaveTurn(s).kind = s.kind
         /\ LeaveTurn(s).early = s.early
<1>1. PICK f : f = Folded(s)
  OBVIOUS
<1>2. f \in RunState /\ f.phase = s.phase /\ f.kind = s.kind /\ f.early = s.early
        /\ f.entered = Never
  BY <1>1, FoldedIs
<1>3. LeaveTurn(s) = [f EXCEPT !.parkedAt = now]
  BY <1>1 DEF LeaveTurn
<1>4. now \in Nat
  BY DEF TypeOK
<1> QED BY <1>2, <1>3, <1>4 DEF RunState, ClockOk, ClockAt

\* The counted wall is a number, at the start of a turn the count itself.
LEMMA CountedIs ==
  ASSUME TypeOK, NEW s \in RunState, ClockOk(s)
  PROVE  /\ CountedWall(s) \in Nat
         /\ s.entered = now => CountedWall(s) = s.counted
<1>1. now \in Nat /\ s.counted \in Nat /\ s.parkedAt \in Nat /\ s.entered \in Instants
  BY DEF TypeOK, RunState
<1>2. LiveSegment(s) \in Nat /\ (s.entered = now => LiveSegment(s) = 0)
  BY <1>1, NeverApart DEF LiveSegment, ClockOk, ClockAt, Instants
<1> QED BY <1>1, <1>2 DEF CountedWall

\* A run that is done.
LEMMA DoneIs ==
  ASSUME TypeOK, NEW s \in RunState, ClockOk(s),
         NEW kind \in {"ok", "failed", "wall", "reset", "aborted"}
  PROVE  /\ DoneRun(s, kind) \in RunState /\ ClockOk(DoneRun(s, kind))
         /\ DoneRun(s, kind).phase = "done" /\ DoneRun(s, kind).kind = kind
         /\ DoneRun(s, kind).wall = CountedWall(s)
<1>1. CountedWall(s) \in Nat
  BY CountedIs
<1>2. DoneRun(s, kind) = [NewRun EXCEPT !.phase = "done", !.kind = kind, !.wall = CountedWall(s)]
  BY DEF DoneRun
<1>3. now \in Nat
  BY DEF TypeOK
<1>4. PICK d : d = DoneRun(s, kind)
  OBVIOUS
<1>5. d \in RunState
  <2>1. PICK n \in Nat : n = CountedWall(s)
    BY <1>1
  <2>2. d = [NewRun EXCEPT !.phase = "done", !.kind = kind, !.wall = n]
    BY <1>2, <1>4, <2>1
  <2>3. NewRun \in RunState
    BY DEF NewRun, RunState, Instants
  <2> QED BY <2>2, <2>3 DEF RunState
<1>6. d.phase = "done" /\ d.kind = kind /\ d.wall = CountedWall(s) /\ d.parkedAt = 0
        /\ d.entered = Never
  BY <1>2, <1>4 DEF NewRun
<1> QED BY <1>3, <1>4, <1>5, <1>6 DEF ClockOk, ClockAt

\* A run answered as reset is done.
LEMMA ResetIs ==
  ASSUME TypeOK, NEW s \in RunState, ClockOk(s)
  PROVE  ResetRun(s) \in RunState /\ ClockOk(ResetRun(s)) /\ ResetRun(s).phase = "done"
<1>1. now \in Nat
  BY DEF TypeOK
<1>2. [NewRun EXCEPT !.phase = "done", !.kind = "reset"] \in RunState
  BY DEF NewRun, RunState, Instants
<1>3. CASE s.phase = "queued"
  BY <1>1, <1>2, <1>3 DEF ResetRun, NewRun, ClockOk, ClockAt
<1>4. CASE s.phase # "queued"
  BY <1>4, DoneIs DEF ResetRun
<1> QED BY <1>3, <1>4

\* A run at its start turn.
LEMMA StartedIs ==
  ASSUME TypeOK, NEW r \in Runs
  PROVE  /\ Started(r) \in RunState /\ ClockOk(Started(r))
         /\ Started(r).phase = "settling" /\ Started(r).kind = "none"
<1>1. now \in Nat /\ cfg.call \in BOOLEAN
  BY LimIs DEF TypeOK
<1>2. PICK d : d = Started(r)
  OBVIOUS
<1>3. PICK q \in {"pending", "fulfilled"} :
             q = IF cfg.mode = "instance" THEN "fulfilled" ELSE "pending"
  OBVIOUS
<1>4. d = [NewRun EXCEPT !.phase = "settling", !.start = now, !.parkedAt = now, !.entered = now,
                         !.root = q, !.callPending = cfg.call]
  BY <1>2, <1>3 DEF Started
<1>5. d \in RunState
  BY <1>1, <1>4 DEF NewRun, RunState, Instants
<1>6. d.phase = "settling" /\ d.kind = "none" /\ d.parkedAt = now /\ d.entered = now
  BY <1>4 DEF NewRun
<1> QED BY <1>1, <1>2, <1>5, <1>6 DEF ClockOk, ClockAt

\* A run's deadlines depend on what Same names.
LEMMA SameNext ==
  ASSUME NEW r, NEW s, NEW u, NEW t, Same(s, u)
  PROVE  /\ NextDeadlineOf(r, s, t) = NextDeadlineOf(r, u, t)
         /\ DeadlineInstant(r, s) = DeadlineInstant(r, u)
         /\ Alive(s) <=> Alive(u)
<1>1. DeadlineInstant(r, s) = DeadlineInstant(r, u)
  BY DEF Same, DeadlineInstant, GraceWallInstant
<1> QED BY <1>1 DEF NextDeadlineOf, Same, Alive

\* ... and so does what it says.
LEMMA SameOk ==
  ASSUME NEW s, NEW u, Same(s, u), NEW o
  PROVE  (ClockOk(s) => ClockOk(u)) /\ (Saying(s, o) => Saying(u, o))
  BY DEF Same, ClockOk, ClockAt, Saying

-----------------------------------------------------------------------------
(* Call logs. *)

\* A record of a call.
Rec == [call : Nat, outcome : {"blocked", "unanswered", "ok", "error"}]

\* The fields of a log.
LEMMA LogFields ==
  ASSUME NEW l \in Log
  PROVE  /\ l.count \in Nat /\ l.records \in Seq(Rec)
              /\ l.inFlight \in SUBSET [call : Nat, idx : Nat]
         /\ l.resolvers \in SUBSET Nat /\ l.error \in BOOLEAN /\ Len(l.records) \in Nat
         /\ \A i \in 1 .. Len(l.records) : l.records[i] \in Rec
<1>1. /\ l.count \in Nat /\ l.records \in Seq(Rec)
           /\ l.inFlight \in SUBSET [call : Nat, idx : Nat]
      /\ l.resolvers \in SUBSET Nat /\ l.error \in BOOLEAN
  BY DEF Log, Rec
<1> QED BY <1>1

\* A log has finitely many calls sent.
LEMMA SentFinite ==
  ASSUME NEW l \in Log
  PROVE  IsFiniteSet(Sent(l)) /\ Cardinality(Sent(l)) \in Nat
           /\ Sent(l) \subseteq 1 .. Len(l.records)
<1>1. Sent(l) \subseteq 1 .. Len(l.records)
  BY DEF Sent
<1>2. IsFiniteSet(1 .. Len(l.records))
  BY LogFields, FS_Interval
<1> QED BY <1>1, <1>2, FS_Subset, FS_CardinalityType

\* One more record.
LEMMA OneMore ==
  ASSUME NEW w \in Seq(Rec), NEW x \in Rec
  PROVE  /\ Append(w, x) \in Seq(Rec) /\ Len(Append(w, x)) = Len(w) + 1
         /\ \A i \in 1 .. Len(w) : Append(w, x)[i] = w[i]
         /\ Append(w, x)[Len(w) + 1] = x
  OBVIOUS

\* A blocked record leaves a log's parts in agreement.
LEMMA BlockedIs ==
  ASSUME NEW l \in Log, NEW n \in Nat, NEW m \in Nat, n <= m, LogOk(l, n),
         NEW y \in Log, y.count = l.count + 1,
         y.records = Append(l.records, [call |-> NoId, outcome |-> "blocked"]),
         y.inFlight = l.inFlight, y.resolvers = l.resolvers
  PROVE  LogOk(y, m)
<1>1. PICK x \in Rec : x = [call |-> NoId, outcome |-> "blocked"]
  BY DEF Rec, NoId
<1>2. x.call = NoId /\ x.outcome = "blocked"
  BY <1>1
<1>3. PICK k \in Nat : k = Len(l.records)
  BY LogFields
<1>4. /\ Len(y.records) = k + 1 /\ \A i \in 1 .. k : y.records[i] = l.records[i]
      /\ y.records[k + 1] = x
  BY <1>1, <1>3, LogFields, OneMore
<1>5. Sent(y) = Sent(l)
  <2>1. ASSUME NEW i PROVE i \in Sent(y) <=> i \in Sent(l)
    BY <1>2, <1>3, <1>4 DEF Sent
  <2> QED BY <2>1
<1>6. Cardinality(Sent(l)) \in Nat /\ l.count \in Nat
  BY SentFinite, LogFields
<1>7. Cardinality(Sent(y)) <= y.count /\ (MaxCalls > 0 => Cardinality(Sent(y)) <= MaxCalls)
  BY <1>5, <1>6 DEF LogOk
<1>8. \A f \in l.inFlight : f.idx \in 1 .. k /\ l.records[f.idx].call = f.call
        /\ f.call \in 1 .. n
  BY <1>3 DEF LogOk
<1>9. \A f \in y.inFlight : /\ f.idx \in 1 .. Len(y.records)
                           /\ y.records[f.idx].call = f.call
                           /\ f.call \in 1 .. m
  BY <1>3, <1>4, <1>8
<1>10. ASSUME NEW i \in 1 .. (k + 1)
       PROVE  y.records[i].outcome = "unanswered" <=> \E f \in y.inFlight : f.idx = i
  <2>1. CASE i \in 1 .. k
    BY <1>3, <1>4, <2>1 DEF LogOk
  <2>2. CASE i = k + 1
    <3>1. \A f \in y.inFlight : f.idx # k + 1
      BY <1>8
    <3> QED BY <1>2, <1>4, <2>2, <3>1
  <2>3. i \in 1 .. k \/ i = k + 1
    BY <1>3
  <2> QED BY <2>1, <2>2, <2>3
<1> QED BY <1>4, <1>7, <1>9, <1>10 DEF LogOk

\* A refused or fatal call leaves a log, with its resolvers.
LEMMA RefusedIs ==
  ASSUME NEW l \in Log, NEW n \in Nat, NEW m \in Nat, n <= m, LogOk(l, n)
  PROVE  /\ RecordBlocked(Attempt(l)) \in Log /\ LogOk(RecordBlocked(Attempt(l)), m)
         /\ RecordBlocked(Attempt(l)).resolvers = l.resolvers
         /\ FatalBridgeError(Attempt(l)) \in Log /\ LogOk(FatalBridgeError(Attempt(l)), m)
         /\ FatalBridgeError(Attempt(l)).resolvers = l.resolvers
<1>1. PICK x \in Rec : x = [call |-> NoId, outcome |-> "blocked"]
  BY DEF Rec, NoId
<1>2. PICK w \in Seq(Rec) : w = Append(l.records, x)
  BY LogFields, OneMore
<1>3. PICK c \in Nat : c = l.count + 1
  BY LogFields
<1>4. Attempt(l) = [l EXCEPT !.count = c]
  BY <1>3 DEF Attempt
<1>5. /\ Attempt(l) \in Log /\ Attempt(l).count = c /\ Attempt(l).records = l.records
      /\ Attempt(l).inFlight = l.inFlight /\ Attempt(l).resolvers = l.resolvers
  BY <1>4 DEF Log
<1>6. PICK y : y = RecordBlocked(Attempt(l))
  OBVIOUS
<1>7. y = [Attempt(l) EXCEPT !.records = w]
  BY <1>1, <1>2, <1>5, <1>6 DEF RecordBlocked
<1>8. /\ y \in Log /\ y.count = c /\ y.records = w /\ y.inFlight = l.inFlight
      /\ y.resolvers = l.resolvers
  BY <1>5, <1>7 DEF Log, Rec
<1>9. PICK z : z = FatalBridgeError(Attempt(l))
  OBVIOUS
<1>10. z = [y EXCEPT !.error = TRUE]
  BY <1>6, <1>9 DEF FatalBridgeError
<1>11. /\ z \in Log /\ z.count = c /\ z.records = w /\ z.inFlight = l.inFlight
       /\ z.resolvers = l.resolvers
  BY <1>8, <1>10 DEF Log
<1>12. LogOk(y, m)
  BY <1>1, <1>2, <1>3, <1>8, BlockedIs
<1>13. LogOk(z, m)
  BY <1>1, <1>2, <1>3, <1>11, BlockedIs
<1> QED BY <1>6, <1>8, <1>9, <1>11, <1>12, <1>13

\* The empty log is one.
LEMMA NoCallsIs ==
  ASSUME NEW n \in Nat
  PROVE  NoCalls \in Log /\ LogOk(NoCalls, n) /\ NoCalls.resolvers = {}
<1>1. NoCalls \in Log
  BY DEF NoCalls, Log
<1>2. /\ NoCalls.count = 0 /\ NoCalls.records = <<>> /\ NoCalls.inFlight = {}
      /\ NoCalls.resolvers = {}
  BY DEF NoCalls
<1>3. Sent(NoCalls) = {}
  BY <1>2 DEF Sent
<1>4. Cardinality(Sent(NoCalls)) = 0
  BY <1>3, FS_EmptySet
<1>5. 1 .. Len(NoCalls.records) = {}
  BY <1>2
<1>6. /\ Cardinality(Sent(NoCalls)) <= NoCalls.count
      /\ MaxCalls > 0 => Cardinality(Sent(NoCalls)) <= MaxCalls
  BY <1>2, <1>4, CallAssumption
<1>7. NoCalls.resolvers = {f.call : f \in NoCalls.inFlight}
  BY <1>2
<1> QED BY <1>1, <1>2, <1>5, <1>6, <1>7 DEF LogOk

\* A call below the limit, sent with a fresh id, leaves a log with one more
\* resolver.
LEMMA SentIs ==
  ASSUME NEW l \in Log, NEW n \in Nat, LogOk(l, n), ~OverLimit(l)
  PROVE  LET y == StoreResolver(RecordSent(Attempt(l), n + 1), n + 1)
         IN  y \in Log /\ LogOk(y, n + 1) /\ y.resolvers = l.resolvers \union {n + 1}
<1>0. PICK m \in Nat : m = n + 1
  OBVIOUS
<1>1. PICK x \in Rec : x = [call |-> m, outcome |-> "unanswered"]
  BY <1>0 DEF Rec
<1>2. x.call = m /\ x.outcome = "unanswered"
  BY <1>1
<1>3. PICK k \in Nat : k = Len(l.records)
  BY LogFields
<1>4. PICK w \in Seq(Rec) : w = Append(l.records, x)
  BY LogFields, OneMore
<1>5. PICK c \in Nat : c = l.count + 1
  BY LogFields
<1>60. PICK j \in Nat : j = k + 1
  BY <1>3
<1>6. PICK g \in [call : Nat, idx : Nat] : g = [call |-> m, idx |-> j]
  BY <1>0, <1>60
<1>7. g.call = m /\ g.idx = k + 1
  BY <1>6, <1>60
<1>8. PICK F \in SUBSET [call : Nat, idx : Nat] : F = l.inFlight \union {g}
  BY <1>6, LogFields
<1>9. PICK R \in SUBSET Nat : R = l.resolvers \union {m}
  BY <1>0, LogFields
<1>10. Attempt(l) = [l EXCEPT !.count = c]
  BY <1>5 DEF Attempt
<1>11. /\ Attempt(l) \in Log /\ Attempt(l).count = c /\ Attempt(l).records = l.records
       /\ Attempt(l).inFlight = l.inFlight /\ Attempt(l).resolvers = l.resolvers
  BY <1>10 DEF Log
<1>12. PICK z : z = RecordSent(Attempt(l), m)
  OBVIOUS
<1>13. z = [Attempt(l) EXCEPT !.records = w, !.inFlight = F]
  BY <1>1, <1>3, <1>4, <1>6, <1>60, <1>8, <1>11, <1>12 DEF RecordSent
<1>14. PICK y : y = StoreResolver(z, m)
  OBVIOUS
<1>15. /\ z \in Log /\ z.count = c /\ z.records = w /\ z.inFlight = F /\ z.resolvers = l.resolvers
  BY <1>11, <1>13 DEF Log, Rec
<1>16. y = [z EXCEPT !.resolvers = R]
  BY <1>9, <1>14, <1>15 DEF StoreResolver
<1>17. /\ y \in Log /\ y.count = c /\ y.records = w /\ y.inFlight = F /\ y.resolvers = R
  BY <1>15, <1>16 DEF Log
<1>18. /\ Len(w) = k + 1 /\ \A i \in 1 .. k : w[i] = l.records[i]
       /\ w[k + 1] = x
  BY <1>3, <1>4, LogFields, OneMore
<1>19. \A f \in l.inFlight : f.idx \in 1 .. k /\ l.records[f.idx].call = f.call
         /\ f.call \in 1 .. n
  BY <1>3 DEF LogOk
<1>20. R = {f.call : f \in F}
  BY <1>7, <1>8, <1>9 DEF LogOk
<1>21. ASSUME NEW i \in 1 .. (k + 1)
       PROVE  w[i].outcome = "unanswered" <=> \E f \in F : f.idx = i
  <2>1. CASE i \in 1 .. k
    <3>1. i # g.idx
      BY <1>3, <1>7, <2>1
    <3> QED BY <1>3, <1>8, <1>18, <2>1, <3>1 DEF LogOk
  <2>2. CASE i = k + 1
    BY <1>2, <1>7, <1>8, <1>18, <2>2
  <2>3. i \in 1 .. k \/ i = k + 1
    BY <1>3
  <2> QED BY <2>1, <2>2, <2>3
<1>22. ASSUME NEW f \in F
       PROVE  f.idx \in 1 .. (k + 1) /\ w[f.idx].call = f.call /\ f.call \in 1 .. m
  <2>1. CASE f \in l.inFlight
    <3>1. f.idx \in 1 .. k /\ l.records[f.idx].call = f.call /\ f.call \in 1 .. n
      BY <1>19, <2>1
    <3>2. w[f.idx] = l.records[f.idx]
      BY <1>18, <3>1
    <3> QED BY <1>0, <1>3, <3>1, <3>2
  <2>2. CASE f = g
    BY <1>0, <1>2, <1>3, <1>7, <1>18, <2>2
  <2> QED BY <1>8, <2>1, <2>2
<1>23. ASSUME NEW f \in F, NEW h \in F, f.call = h.call
       PROVE  f = h
  <2>1. \A q \in l.inFlight : q.call # g.call
    BY <1>0, <1>7, <1>19
  <2>2. CASE f \in l.inFlight /\ h \in l.inFlight
    BY <1>23, <2>2 DEF LogOk
  <2> QED BY <1>8, <1>23, <2>1, <2>2
<1>24. Sent(y) = Sent(l) \union {k + 1}
  <2>1. ASSUME NEW i PROVE i \in Sent(y) <=> i \in Sent(l) \/ i = k + 1
    <3>1. i \in Sent(y) <=> i \in 1 .. (k + 1) /\ w[i].call # NoId
      BY <1>17, <1>18 DEF Sent
    <3>2. i \in Sent(l) <=> i \in 1 .. k /\ l.records[i].call # NoId
      BY <1>3 DEF Sent
    <3>3. w[k + 1].call # NoId
      BY <1>0, <1>2, <1>18 DEF NoId
    <3>4. i \in 1 .. (k + 1) <=> i \in 1 .. k \/ i = k + 1
      BY <1>3
    <3> QED BY <1>18, <3>1, <3>2, <3>3, <3>4
  <2> QED BY <2>1
<1>25. /\ IsFiniteSet(Sent(l)) /\ Cardinality(Sent(l)) \in Nat /\ k + 1 \notin Sent(l)
  BY <1>3, SentFinite
<1>26. Cardinality(Sent(y)) = Cardinality(Sent(l)) + 1
  BY <1>24, <1>25, FS_AddElement
<1>27. Cardinality(Sent(y)) <= y.count /\ (MaxCalls > 0 => Cardinality(Sent(y)) <= MaxCalls)
  <2>1. Cardinality(Sent(l)) <= l.count /\ l.count \in Nat
    BY LogFields DEF LogOk
  <2>2. MaxCalls > 0 => l.count + 1 <= MaxCalls
    BY <2>1, CallAssumption DEF OverLimit
  <2> QED BY <1>5, <1>17, <1>25, <1>26, <2>1, <2>2, CallAssumption
<1>28. LogOk(y, m)
  BY <1>17, <1>18, <1>20, <1>21, <1>22, <1>23, <1>27 DEF LogOk
<1> QED BY <1>0, <1>9, <1>12, <1>14, <1>17, <1>28

\* An answer leaves a log without its resolver.
LEMMA SettledIs ==
  ASSUME NEW l \in Log, NEW n \in Nat, LogOk(l, n), NEW c \in Nat, NEW ok \in BOOLEAN
  PROVE  LET y == TakeResolver(Settle(l, c, ok), c)
         IN  y \in Log /\ LogOk(y, n) /\ y.resolvers = l.resolvers \ {c}
<1>0. /\ l.count \in Nat /\ l.records \in Seq(Rec)
           /\ l.inFlight \in SUBSET [call : Nat, idx : Nat]
      /\ l.resolvers \in SUBSET Nat
  BY LogFields
<1>1. CASE ~\E f \in l.inFlight : f.call = c
  <2>1. Settle(l, c, ok) = l /\ c \notin l.resolvers
    BY <1>1 DEF Settle, LogOk
  <2>2. PICK y : y = TakeResolver(l, c)
    OBVIOUS
  <2>3. PICK R \in SUBSET Nat : R = l.resolvers \ {c}
    BY <1>0
  <2>4. y = [l EXCEPT !.resolvers = R]
    BY <2>2, <2>3 DEF TakeResolver
  <2>5. R = l.resolvers
    BY <2>1, <2>3
  <2>6. y = l
    BY <2>4, <2>5 DEF Log
  <2> QED BY <2>1, <2>2, <2>3, <2>5, <2>6
<1>2. CASE \E f \in l.inFlight : f.call = c
  <2>1. PICK g : g = CHOOSE f \in l.inFlight : f.call = c
    OBVIOUS
  <2>2. g \in l.inFlight /\ g.call = c
    BY <1>2, <2>1
  <2>3. PICK o \in {"ok", "error"} : o = IF ok THEN "ok" ELSE "error"
    OBVIOUS
  <2>4. g.idx \in 1 .. Len(l.records) /\ l.records[g.idx].call = c
    BY <2>2 DEF LogOk
  <2>5. PICK x : x = [l.records[g.idx] EXCEPT !.outcome = o]
    OBVIOUS
  <2>6. x \in Rec /\ x.call = c /\ x.outcome = o
    <3>1. l.records[g.idx] \in Rec
      BY <1>0, <2>4
    <3> QED BY <2>3, <2>4, <2>5, <3>1 DEF Rec
  <2>7. PICK w : w = [l.records EXCEPT ![g.idx] = x]
    OBVIOUS
  <2>8. /\ w \in Seq(Rec) /\ Len(w) = Len(l.records) /\ w[g.idx] = x
        /\ \A i \in 1 .. Len(l.records) : i # g.idx => w[i] = l.records[i]
    BY <1>0, <2>4, <2>6, <2>7
  <2>9. PICK F \in SUBSET [call : Nat, idx : Nat] : F = l.inFlight \ {g}
    BY <1>0
  <2>10. PICK R \in SUBSET Nat : R = l.resolvers \ {c}
    BY <1>0
  <2>11. PICK z : z = Settle(l, c, ok)
    OBVIOUS
  <2>12. z = [l EXCEPT !.records = w, !.inFlight = F]
    BY <1>2, <2>1, <2>3, <2>5, <2>7, <2>9, <2>11 DEF Settle
  <2>13. /\ z \in Log /\ z.count = l.count /\ z.records = w /\ z.inFlight = F
         /\ z.resolvers = l.resolvers
    BY <2>8, <2>12 DEF Log, Rec
  <2>14. PICK y : y = TakeResolver(z, c)
    OBVIOUS
  <2>15. y = [z EXCEPT !.resolvers = R]
    BY <2>10, <2>13, <2>14 DEF TakeResolver
  <2>16. /\ y \in Log /\ y.count = l.count /\ y.records = w /\ y.inFlight = F /\ y.resolvers = R
    BY <2>13, <2>15 DEF Log
  <2>17. \A f \in l.inFlight : f.call = c => f = g
    BY <2>2 DEF LogOk
  <2>18. \A f \in l.inFlight : f.idx = g.idx => f = g
    BY <2>2, <2>4, <2>17 DEF LogOk
  <2>19. R = {f.call : f \in F}
    BY <2>2, <2>9, <2>10, <2>17 DEF LogOk
  <2>20. ASSUME NEW i \in 1 .. Len(w)
         PROVE  w[i].outcome = "unanswered" <=> \E f \in F : f.idx = i
    <3>1. CASE i = g.idx
      BY <2>3, <2>6, <2>8, <2>9, <2>18, <3>1
    <3>2. CASE i # g.idx
      <4>1. w[i].outcome = "unanswered" <=> \E f \in l.inFlight : f.idx = i
        BY <2>8, <3>2 DEF LogOk
      <4> QED BY <2>9, <3>2, <4>1
    <3> QED BY <3>1, <3>2
  <2>21. ASSUME NEW f \in F
         PROVE  f.idx \in 1 .. Len(w) /\ w[f.idx].call = f.call /\ f.call \in 1 .. n
    <3>1. f \in l.inFlight /\ f.idx # g.idx
      BY <2>9, <2>18
    <3>2. f.idx \in 1 .. Len(l.records) /\ l.records[f.idx].call = f.call /\ f.call \in 1 .. n
      BY <3>1 DEF LogOk
    <3> QED BY <2>8, <3>1, <3>2
  <2>22. \A f, h \in F : f.call = h.call => f = h
    BY <2>9 DEF LogOk
  <2>23. Sent(y) = Sent(l)
    <3>1. \A i \in 1 .. Len(l.records) : w[i].call = l.records[i].call
      BY <2>4, <2>6, <2>8
    <3> QED BY <2>8, <2>16, <3>1 DEF Sent
  <2>24. LogOk(y, n)
    BY <2>16, <2>19, <2>20, <2>21, <2>22, <2>23 DEF LogOk
  <2> QED BY <2>10, <2>11, <2>14, <2>16, <2>24
<1> QED BY <1>1, <1>2

-----------------------------------------------------------------------------
(* Guest code. *)

\* A log stays one when more ids are given out.
LEMMA LogMore ==
  ASSUME NEW l, NEW n \in Nat, NEW m \in Nat, n <= m, LogOk(l, n)
  PROVE  LogOk(l, m)
<1>1. \A c \in 1 .. n : c \in 1 .. m
  OBVIOUS
<1> QED BY <1>1 DEF LogOk

\* No run's deadline, phase or word changes.
SameRuns == rs' \in States /\ \A x \in Runs : Same(rs[x], rs'[x])

\* At most run b's log changes, and by at most one call, sent with a fresh id.
Logged(b) ==
  /\ calls' \in [Runs -> Log] /\ host' \in [Runs -> SUBSET Nat] /\ lastCall' \in [Runs -> Nat]
  /\ \A x \in Runs : LogOk(calls'[x], lastCall'[Lim(x).conn])
  /\ \A x \in Runs : x # b => calls'[x] = calls[x] /\ host'[x] = host[x]
  /\ \/ calls'[b].resolvers = calls[b].resolvers /\ host'[b] = host[b]
     \/ /\ calls'[b].resolvers = calls[b].resolvers \union {LastId(b) + 1}
        /\ host'[b] = host[b] \union {LastId(b) + 1}

\* Timer tables change only for runs that are then touched.
SetTimers ==
  /\ timers' \in Tabs /\ \A x \in Runs : TableOk(timers'[x])
  /\ touched \subseteq touched' /\ touched' \subseteq Runs
  /\ \A x \in Runs \ touched' : timers'[x] = timers[x]

\* The turn goes on: it keeps its owner, its kind and the deadline that was
\* queued.
SameTurn ==
  /\ turn' \in Turn /\ turn'.owner = turn.owner /\ turn'.kind = turn.kind
  /\ turn'.queued = turn.queued

\* A step of guest code, made by run b.
GuestShape(b) ==
  /\ pc = "js" /\ Live(b)
  /\ UNCHANGED <<cfg, now, pc, chan, ev, cutoff, frozen, heap, out>>
  /\ SameRuns /\ SameTurn /\ SetTimers /\ Logged(b)

\* A row put back with the same deadlines and words.
LEMMA RowSame ==
  ASSUME TypeOK, NEW b \in Runs, NEW u \in RunState, Same(rs[b], u), rs' = [rs EXCEPT ![b] = u]
  PROVE  SameRuns
<1>1. rs \in [Runs -> RunState]
  BY DEF TypeOK
<1>2. rs' \in States
  BY <1>1 DEF States
<1>3. \A x \in Runs : Same(rs[x], rs[x])
  BY DEF Same
<1> QED BY <1>1, <1>2, <1>3 DEF SameRuns

\* Unchanged runs are the same.
LEMMA RunsStay == ASSUME TypeOK, rs' = rs PROVE SameRuns
  BY DEF TypeOK, SameRuns, States, Same

\* Unchanged logs are logs.
LEMMA LogsStay ==
  ASSUME TypeOK, Logs, NEW b, UNCHANGED <<calls, lastCall, host>>
  PROVE  Logged(b)
  BY DEF TypeOK, Logs, Logged, LastId

\* Unchanged timers are timers.
LEMMA TimersStay == ASSUME TypeOK, Tables, UNCHANGED <<timers, touched>> PROVE SetTimers
  BY DEF TypeOK, Tables, SetTimers, Tabs

\* An unchanged turn goes on.
LEMMA TurnStays == ASSUME TypeOK, UNCHANGED turn PROVE SameTurn
  BY DEF TypeOK, SameTurn

\* An operation counted changes no deadline.
LEMMA SpendIs == ASSUME TypeOK, NEW b \in Runs, Spend(b) PROVE SameRuns
<1>1. rs[b] \in RunState
  BY DEF TypeOK
<1>2. PICK n \in Nat : n = rs[b].used + 1
  BY <1>1 DEF RunState
<1>3. PICK u : u = [rs[b] EXCEPT !.used = n]
  OBVIOUS
<1>4. u \in RunState /\ Same(rs[b], u)
  BY <1>1, <1>2, <1>3 DEF RunState, Same
<1>5. rs' = [rs EXCEPT ![b] = u]
  BY <1>2, <1>3 DEF Spend
<1> QED BY <1>4, <1>5, RowSame

\* A table put back for a touched run.
LEMMA TimersPut ==
  ASSUME TypeOK, Tables, NEW b \in Runs, NEW t \in Table, TableOk(t),
         timers' = [timers EXCEPT ![b] = t], touched' = touched \union {b}
  PROVE  SetTimers
<1>1. timers \in [Runs -> Table] /\ touched \subseteq Runs
  BY DEF TypeOK
<1>2. timers' \in Tabs
  BY <1>1 DEF Tabs
<1>3. \A x \in Runs : TableOk(timers'[x]) /\ (x # b => timers'[x] = timers[x])
  BY <1>1 DEF Tables
<1> QED BY <1>1, <1>2, <1>3 DEF SetTimers

\* Whatever the counters become, if none goes down, the logs stay logs.
LEMMA LogsRaised ==
  ASSUME TypeOK, Logs, NEW l \in [Runs -> Nat], \A c \in Runs : lastCall[c] <= l[c],
         NEW x \in Runs
  PROVE  LogOk(calls[x], l[Lim(x).conn])
<1>1. PICK k \in Runs : k = Lim(x).conn
  BY LimIs
<1>2. lastCall[k] \in Nat /\ l[k] \in Nat /\ lastCall[k] <= l[k]
  BY DEF TypeOK
<1>3. LogOk(calls[x], lastCall[k])
  BY <1>1 DEF Logs, LastId
<1>4. LogOk(calls[x], l[k])
  BY <1>2, <1>3, LogMore
<1> QED BY <1>1, <1>4

\* A log put back with the same resolvers.
LEMMA LogPut ==
  ASSUME TypeOK, Logs, NEW b \in Runs, NEW l \in Log, calls' = [calls EXCEPT ![b] = l],
         lastCall' \in {lastCall, TakeId(b)}, LogOk(l, LastId(b)),
         l.resolvers = calls[b].resolvers, host' = host
  PROVE  Logged(b)
<1>1. calls \in [Runs -> Log] /\ host \in [Runs -> SUBSET Nat] /\ lastCall \in [Runs -> Nat]
  BY DEF TypeOK
<1>2. calls' \in [Runs -> Log] /\ calls'[b] = l /\ \A x \in Runs : x # b => calls'[x] = calls[x]
  BY <1>1
<1>3. lastCall' \in [Runs -> Nat] /\ \A c \in Runs : lastCall[c] <= lastCall'[c]
  BY <1>1, IdIs
<1>4. \A x \in Runs : LogOk(calls'[x], lastCall'[Lim(x).conn])
  <2>1. ASSUME NEW x \in Runs, x # b PROVE LogOk(calls[x], lastCall'[Lim(x).conn])
    BY <1>3, LogsRaised
  <2>2. LogOk(l, lastCall'[Lim(b).conn])
    <3>1. PICK k \in Runs : k = Lim(b).conn
      BY LimIs
    <3>2. LastId(b) \in Nat /\ LastId(b) = lastCall[k] /\ lastCall'[k] \in Nat
            /\ LastId(b) <= lastCall'[k]
      BY <1>3, <3>1, IdIs DEF LastId
    <3>3. LogOk(l, lastCall'[k])
      BY <3>2, LogMore
    <3> QED BY <3>1, <3>3
  <2> QED BY <1>2, <2>1, <2>2
<1> QED BY <1>1, <1>2, <1>3, <1>4 DEF Logged

\* A log put back with one more call.
LEMMA LogCalled ==
  ASSUME TypeOK, Logs, NEW b \in Runs, NEW l \in Log, calls' = [calls EXCEPT ![b] = l],
         lastCall' = TakeId(b), LogOk(l, LastId(b) + 1),
         l.resolvers = calls[b].resolvers \union {LastId(b) + 1},
         host' = [host EXCEPT ![b] = host[b] \union {LastId(b) + 1}]
  PROVE  Logged(b)
<1>1. calls \in [Runs -> Log] /\ host \in [Runs -> SUBSET Nat] /\ LastId(b) \in Nat
  BY IdIs DEF TypeOK
<1>2. calls' \in [Runs -> Log] /\ calls'[b] = l /\ \A x \in Runs : x # b => calls'[x] = calls[x]
  BY <1>1
<1>3. /\ lastCall' \in [Runs -> Nat] /\ lastCall'[Lim(b).conn] = LastId(b) + 1
      /\ \A c \in Runs : lastCall[c] <= lastCall'[c]
  BY IdIs
<1>4. \A x \in Runs : LogOk(calls'[x], lastCall'[Lim(x).conn])
  <2>1. ASSUME NEW x \in Runs, x # b PROVE LogOk(calls[x], lastCall'[Lim(x).conn])
    BY <1>3, LogsRaised
  <2> QED BY <1>2, <1>3, <2>1
<1>5. host[b] \union {LastId(b) + 1} \in SUBSET Nat
  BY <1>1
<1>6. /\ host' \in [Runs -> SUBSET Nat] /\ host'[b] = host[b] \union {LastId(b) + 1}
      /\ \A x \in Runs : x # b => host'[x] = host[x]
  BY <1>1, <1>5
<1> QED BY <1>2, <1>3, <1>4, <1>6 DEF Logged

\* setTimeout is a step of guest code.
LEMMA SetsTimerIs ==
  ASSUME TypeOK, Tables, Logs, NEW b \in Runs, NEW d \in cfg.delays, GuestSetsTimer(b, d)
  PROVE  GuestShape(b)
<1>1. timers[b] \in Table /\ TableOk(timers[b]) /\ frozen \in Nat /\ now \in Nat /\ d \in Nat
  BY LimIs DEF TypeOK, Tables
<1>2. PICK t : t = SetTimeout(timers[b], frozen, now, d)
  OBVIOUS
<1>3. t \in Table /\ TableOk(t)
  BY <1>1, <1>2, SetIs
<1>4. SetTimers
  BY <1>2, <1>3, TimersPut DEF GuestSetsTimer
<1>5. SameRuns /\ SameTurn /\ Logged(b)
  BY SpendIs, TurnStays, LogsStay DEF GuestSetsTimer
<1> QED BY <1>4, <1>5 DEF GuestSetsTimer, GuestShape, Acts

\* So is a setTimeout at the cap,
LEMMA TimerRefusedIs ==
  ASSUME TypeOK, Tables, Logs, NEW b \in Runs, GuestTimerRefused(b)
  PROVE  GuestShape(b)
<1>1. SameRuns /\ SameTurn /\ Logged(b) /\ SetTimers
  BY SpendIs, TurnStays, LogsStay, TimersStay DEF GuestTimerRefused
<1> QED BY <1>1 DEF GuestTimerRefused, GuestShape, Acts

\* a clearTimeout,
LEMMA ClearsTimerIs ==
  ASSUME TypeOK, Tables, Logs, NEW b \in Runs, GuestClearsTimer(b)
  PROVE  GuestShape(b)
<1>1. PICK e \in timers[b].entries : timers' = [timers EXCEPT ![b] = ClearTimeout(@, e.id)]
  BY DEF GuestClearsTimer
<1>2. PICK t : t = ClearTimeout(timers[b], e.id)
  OBVIOUS
<1>3. t \in Table /\ TableOk(t)
  BY <1>2, ClearIs DEF TypeOK, Tables
<1>4. SetTimers
  BY <1>1, <1>2, <1>3, TimersPut DEF GuestClearsTimer
<1>5. SameRuns /\ SameTurn /\ Logged(b)
  BY SpendIs, TurnStays, LogsStay DEF GuestClearsTimer
<1> QED BY <1>4, <1>5 DEF GuestClearsTimer, GuestShape, Acts

\* a call to the host,
LEMMA CallsIs ==
  ASSUME TypeOK, Tables, Logs, NEW b \in Runs, GuestCalls(b)
  PROVE  GuestShape(b)
<1>1. calls[b] \in Log /\ LogOk(calls[b], LastId(b)) /\ LastId(b) \in Nat /\ ~OverLimit(calls[b])
  BY IdIs DEF TypeOK, Logs, GuestCalls
<1>2. PICK l : l = StoreResolver(RecordSent(Attempt(calls[b]), LastId(b) + 1), LastId(b) + 1)
  OBVIOUS
<1>3. l \in Log /\ LogOk(l, LastId(b) + 1)
        /\ l.resolvers = calls[b].resolvers \union {LastId(b) + 1}
  BY <1>1, <1>2, SentIs
<1>4. /\ lastCall' = TakeId(b) /\ calls' = [calls EXCEPT ![b] = l]
      /\ host' = [host EXCEPT ![b] = host[b] \union {LastId(b) + 1}]
  BY <1>2 DEF GuestCalls
<1>5. Logged(b)
  BY <1>3, <1>4, LogCalled
<1>6. SameRuns /\ SameTurn /\ SetTimers
  BY SpendIs, TurnStays, TimersStay DEF GuestCalls
<1> QED BY <1>5, <1>6 DEF GuestCalls, GuestShape, Acts

\* a call refused,
LEMMA CallRefusedIs ==
  ASSUME TypeOK, Tables, Logs, NEW b \in Runs, GuestCallRefused(b)
  PROVE  GuestShape(b)
<1>1. calls[b] \in Log /\ LogOk(calls[b], LastId(b)) /\ LastId(b) \in Nat
  BY IdIs DEF TypeOK, Logs
<1>2. PICK l : l = RecordBlocked(Attempt(calls[b]))
  OBVIOUS
<1>3. l \in Log /\ LogOk(l, LastId(b)) /\ l.resolvers = calls[b].resolvers
  BY <1>1, <1>2, RefusedIs
<1>4. /\ lastCall' = lastCall /\ calls' = [calls EXCEPT ![b] = l] /\ host' = host
  BY <1>2 DEF GuestCallRefused
<1>5. Logged(b)
  BY <1>3, <1>4, LogPut
<1>6. SameRuns /\ SameTurn /\ SetTimers
  BY SpendIs, TurnStays, TimersStay DEF GuestCallRefused
<1> QED BY <1>5, <1>6 DEF GuestCallRefused, GuestShape, Acts

\* a call that ends the run,
LEMMA CallFatalIs ==
  ASSUME TypeOK, Tables, Logs, NEW b \in Runs, GuestCallFatal(b)
  PROVE  GuestShape(b)
<1>1. calls[b] \in Log /\ LogOk(calls[b], LastId(b)) /\ LastId(b) \in Nat
  BY IdIs DEF TypeOK, Logs
<1>2. PICK l : l = FatalBridgeError(Attempt(calls[b]))
  OBVIOUS
<1>4. lastCall' \in {lastCall, TakeId(b)} /\ calls' = [calls EXCEPT ![b] = l] /\ host' = host
  BY <1>2 DEF GuestCallFatal
<1>3. l \in Log /\ LogOk(l, LastId(b)) /\ l.resolvers = calls[b].resolvers
  BY <1>1, <1>2, RefusedIs
<1>5. Logged(b)
  BY <1>3, <1>4, LogPut
<1>6. SameRuns /\ SetTimers
  BY SpendIs, TimersStay DEF GuestCallFatal
<1>8. SameTurn
  BY DEF GuestCallFatal, TypeOK, Turn, SameTurn
<1> QED BY <1>5, <1>6, <1>8 DEF GuestCallFatal, GuestShape, Acts

\* a call cut off,
LEMMA CallCutIs ==
  ASSUME TypeOK, Tables, Logs, NEW b \in Runs, GuestCallCut(b)
  PROVE  GuestShape(b)
<1>1. calls[b] \in Log /\ LogOk(calls[b], LastId(b)) /\ LastId(b) \in Nat
  BY IdIs DEF TypeOK, Logs
<1>2. PICK l : l = RecordBlocked(Attempt(calls[b]))
  OBVIOUS
<1>4. lastCall' = TakeId(b) /\ calls' = [calls EXCEPT ![b] = l] /\ host' = host
  BY <1>2 DEF GuestCallCut
<1>3. l \in Log /\ LogOk(l, LastId(b)) /\ l.resolvers = calls[b].resolvers
  BY <1>1, <1>2, RefusedIs
<1>5. Logged(b)
  BY <1>3, <1>4, LogPut
<1>6. SameRuns /\ SameTurn /\ SetTimers
  BY SpendIs, TurnStays, TimersStay DEF GuestCallCut
<1> QED BY <1>5, <1>6 DEF GuestCallCut, GuestShape

\* a waitUntil,
LEMMA WaitsIs ==
  ASSUME TypeOK, Tables, Logs, NEW b \in Runs, GuestWaits(b)
  PROVE  GuestShape(b)
<1>1. PICK n \in {0, 1} :
        rs' = [rs EXCEPT ![b].reg = TRUE, ![b].waits = @ + n, ![b].used = @ + 1]
  BY DEF GuestWaits
<1>2. rs \in [Runs -> RunState] /\ rs[b] \in RunState
  BY DEF TypeOK
<1>3. PICK w \in Nat, m \in Nat : w = rs[b].waits + n /\ m = rs[b].used + 1
  BY <1>1, <1>2 DEF RunState
<1>4. PICK u : u = [rs[b] EXCEPT !.reg = TRUE, !.waits = w, !.used = m]
  OBVIOUS
<1>5. u \in RunState /\ Same(rs[b], u)
  <2>1. u \in RunState
    BY <1>2, <1>3, <1>4 DEF RunState
  <2>2. Same(rs[b], u)
    BY <1>2, <1>4 DEF RunState, Same
  <2> QED BY <2>1, <2>2
<1>6. rs' = [rs EXCEPT ![b] = u]
  BY <1>1, <1>2, <1>3, <1>4 DEF RunState
<1>7. SameRuns
  BY <1>5, <1>6, RowSame
<1>8. SameTurn /\ SetTimers /\ Logged(b)
  BY TurnStays, TimersStay, LogsStay DEF GuestWaits
<1> QED BY <1>7, <1>8 DEF GuestWaits, GuestShape, Acts

\* registered work that settles,
LEMMA WorkSettlesIs ==
  ASSUME TypeOK, Tables, Logs, NEW b \in Runs, GuestWorkSettles(b)
  PROVE  GuestShape(b)
<1>1. PICK bad \in BOOLEAN : rs' = [rs EXCEPT ![b].waits = @ - 1, ![b].werr = @ \/ bad]
  BY DEF GuestWorkSettles
<1>2. rs \in [Runs -> RunState] /\ rs[b] \in RunState
  BY DEF TypeOK
<1>3. PICK w \in Nat, m \in BOOLEAN : w = rs[b].waits - 1 /\ m = (rs[b].werr \/ bad)
  BY <1>1, <1>2 DEF RunState, GuestWorkSettles
<1>4. PICK u : u = [rs[b] EXCEPT !.waits = w, !.werr = m]
  OBVIOUS
<1>5. u \in RunState /\ Same(rs[b], u)
  <2>1. u \in RunState
    BY <1>2, <1>3, <1>4 DEF RunState
  <2>2. Same(rs[b], u)
    BY <1>2, <1>4 DEF RunState, Same
  <2> QED BY <2>1, <2>2
<1>6. rs' = [rs EXCEPT ![b] = u]
  BY <1>1, <1>2, <1>3, <1>4 DEF RunState
<1>7. SameRuns
  BY <1>5, <1>6, RowSame
<1>8. SameTurn /\ SetTimers /\ Logged(b)
  BY TurnStays, TimersStay, LogsStay DEF GuestWorkSettles
<1> QED BY <1>7, <1>8 DEF GuestWorkSettles, GuestShape

\* a promise that settles,
LEMMA SettlesIs ==
  ASSUME TypeOK, Tables, Logs, NEW b \in Runs, GuestSettles(b)
  PROVE  GuestShape(b)
<1>1. PICK v \in {"fulfilled", "rejected"} : rs' = [rs EXCEPT ![b].root = v]
  BY DEF GuestSettles
<1>2. rs \in [Runs -> RunState] /\ rs[b] \in RunState
  BY DEF TypeOK
<1>4. PICK u : u = [rs[b] EXCEPT !.root = v]
  OBVIOUS
<1>5. u \in RunState /\ Same(rs[b], u)
  BY <1>2, <1>4 DEF RunState, Same
<1>6. rs' = [rs EXCEPT ![b] = u]
  BY <1>1, <1>2, <1>4 DEF RunState
<1>7. SameRuns
  BY <1>5, <1>6, RowSame
<1>8. SameTurn /\ SetTimers /\ Logged(b)
  BY TurnStays, TimersStay, LogsStay DEF GuestSettles
<1> QED BY <1>7, <1>8 DEF GuestSettles, GuestShape, Live

\* the requested call,
LEMMA InvokeIs ==
  ASSUME TypeOK, Tables, Logs, TurnShape, InvokeCall
  PROVE  turn.owner \in Runs /\ GuestShape(turn.owner)
<1>0. PICK b \in Runs : b = turn.owner
  BY DEF TurnShape, InvokeCall
<1>2. rs \in [Runs -> RunState] /\ rs[b] \in RunState
  BY DEF TypeOK
<1>4. PICK u : u = [rs[b] EXCEPT !.callPending = FALSE, !.root = "pending"]
  OBVIOUS
<1>5. u \in RunState /\ Same(rs[b], u)
  BY <1>2, <1>4 DEF RunState, Same
<1>6. rs' = [rs EXCEPT ![b] = u]
  BY <1>0, <1>2, <1>4 DEF RunState, InvokeCall
<1>7. SameRuns
  BY <1>5, <1>6, RowSame
<1>8. SameTurn /\ SetTimers /\ Logged(b)
  BY TurnStays, TimersStay, LogsStay DEF InvokeCall
<1>9. Live(b)
  BY <1>0 DEF TurnShape, InvokeCall
<1> QED BY <1>0, <1>7, <1>8, <1>9 DEF InvokeCall, GuestShape

\* and a guard that fires.
LEMMA KilledIs ==
  ASSUME TypeOK, Tables, Logs, TurnShape, Killed
  PROVE  turn.owner \in Runs /\ GuestShape(turn.owner)
<1>1. turn.owner \in Runs /\ Live(turn.owner)
  BY DEF TurnShape, Killed
<1>2. SameTurn
  BY DEF Killed, TypeOK, Turn, SameTurn
<1>3. SameRuns /\ SetTimers /\ Logged(turn.owner)
  BY RunsStay, TimersStay, LogsStay DEF Killed
<1> QED BY <1>1, <1>2, <1>3 DEF Killed, GuestShape

\* A run's next deadline after a step, from its row after the step.
LEMMA NextPrimed ==
  ASSUME cfg' = cfg, NEW r
  PROVE  /\ NextDeadline(r)' = NextDeadlineOf(r, rs'[r], timers'[r])
         /\ Live(r)' <=> Alive(rs'[r])
         /\ Live(r) <=> Alive(rs[r])
  BY DEF NextDeadline, NextDeadlineOf, DeadlineInstant, GraceWallInstant, Lim, Live, Alive

\* A step keeps the row of x good for the events on their way.
RowKeeps(x) ==
  /\ rs'[x].phase = rs[x].phase \/ (Alive(rs[x]) /\ Alive(rs'[x]))
  /\ calls[x].resolvers \ host[x] \subseteq calls'[x].resolvers \ host'[x]

\* A step ends x.
RowDone(x) == rs'[x].phase = "done" /\ Alive(rs[x])

\* An event still fits a run that keeps its row or ends.
LEMMA FitsOn ==
  ASSUME NEW e, EventFits(e, now, rs, calls, host), now \in Nat, now' \in Nat, now <= now',
         e.at \in Nat,
         RowKeeps(e.run) \/ RowDone(e.run)
  PROVE  EventFits(e, now', rs', calls', host')
<1>1. e.at <= now'
  BY DEF EventFits
<1>2. CASE RowKeeps(e.run)
  BY <1>1, <1>2 DEF EventFits, RowKeeps, Alive
<1>3. CASE RowDone(e.run)
  BY <1>1, <1>3 DEF EventFits, Alive, RowDone
<1> QED BY <1>2, <1>3

\* The events on their way still fit when every row is kept or ends.
LEMMA EventsOn ==
  ASSUME TypeOK, Events, now' \in Nat, now <= now',
         \A x \in Runs : RowKeeps(x) \/ RowDone(x),
         chan' = chan, ev' \in {NoEvent, ev}
  PROVE  Events'
<1>1. now \in Nat /\ chan \in Seq(Event) /\ ev \in Event \union {NoEvent}
  BY DEF TypeOK
<1>2. ASSUME NEW e \in Event, EventFits(e, now, rs, calls, host)
      PROVE  EventFits(e, now', rs', calls', host')
  <2>1. e.at \in Nat /\ e.run \in Runs
    BY DEF Event
  <2> QED BY <1>1, <1>2, <2>1, FitsOn
<1>3. \A i \in 1 .. Len(chan') : EventFits(chan'[i], now', rs', calls', host')
  <2>1. ASSUME NEW i \in 1 .. Len(chan) PROVE EventFits(chan[i], now', rs', calls', host')
    <3>1. chan[i] \in Event /\ EventFits(chan[i], now, rs, calls, host)
      BY <1>1 DEF Events
    <3> QED BY <1>2, <3>1
  <2> QED BY <2>1
<1>4. ev' # NoEvent => EventFits(ev', now', rs', calls', host')
  BY <1>1, <1>2 DEF Events
<1> QED BY <1>3, <1>4 DEF Events

\* The order is kept with the channel.
LEMMA OrderOn ==
  ASSUME Order, chan' = chan, ev' \in {NoEvent, ev}
  PROVE  Order'
  BY DEF Order

\* A call waiting for an answer has an id given out.
LEMMA IdsGiven ==
  ASSUME TypeOK, Logs, NEW x \in Runs
  PROVE  \A c \in calls[x].resolvers : c \in 1 .. LastId(x)
<1>1. LogOk(calls[x], LastId(x))
  BY DEF Logs
<1> QED BY <1>1 DEF LogOk

\* Guest code keeps the events on their way: a fresh call is no call of
\* theirs.
LEMMA GuestEvents ==
  ASSUME LoopInv, NEW b \in Runs, GuestShape(b)
  PROVE  Events'
<1>1. \A x \in Runs : RowKeeps(x)
  <2>1. ASSUME NEW x \in Runs PROVE RowKeeps(x)
    <3>1. rs'[x].phase = rs[x].phase
      BY DEF GuestShape, SameRuns, Same
    <3>2. CASE x # b
      BY <3>1, <3>2 DEF GuestShape, Logged, RowKeeps
    <3>3. CASE x = b
      <4>1. CASE calls'[b].resolvers = calls[b].resolvers /\ host'[b] = host[b]
        BY <3>1, <3>3, <4>1 DEF RowKeeps
      <4>2. CASE /\ calls'[b].resolvers = calls[b].resolvers \union {LastId(b) + 1}
                 /\ host'[b] = host[b] \union {LastId(b) + 1}
        <5>1. LastId(b) \in Nat /\ \A c \in calls[b].resolvers : c \in 1 .. LastId(b)
          BY IdIs, IdsGiven DEF LoopInv
        <5>2. LastId(b) + 1 \notin calls[b].resolvers
          BY <5>1
        <5> QED BY <3>1, <3>3, <4>2, <5>2 DEF RowKeeps
      <4> QED BY <4>1, <4>2 DEF GuestShape, Logged
    <3> QED BY <3>2, <3>3
  <2> QED BY <2>1
<1>2. now' = now /\ chan' = chan /\ ev' = ev /\ now \in Nat
  BY DEF GuestShape, LoopInv, TypeOK
<1> QED BY <1>1, <1>2, EventsOn DEF LoopInv

\* Guest code keeps the logs: a fresh call is nobody else's on its connection.
LEMMA GuestLogs ==
  ASSUME LoopInv, NEW b \in Runs, GuestShape(b)
  PROVE  Logs'
<1>0. TypeOK /\ Logs /\ cfg' = cfg
  BY DEF LoopInv, GuestShape
<1>1. \A x \in Runs : LogOk(calls'[x], lastCall'[Lim(x).conn])
        /\ (x # b => calls'[x] = calls[x] /\ host'[x] = host[x])
  BY DEF GuestShape, Logged
<1>2. \A x \in Runs : host'[x] \subseteq calls'[x].resolvers
  BY <1>0, <1>1 DEF Logs, GuestShape, Logged
<1>3. \A x \in Runs : Live(x)' <=> Live(x)
  BY DEF GuestShape, SameRuns, Same, Live
<1>4. \A x \in Runs : ~Live(x)' => calls'[x] = NoCalls
  BY <1>0, <1>1, <1>3 DEF Logs, GuestShape
<1>5. \A x \in Runs : calls'[x].resolvers \subseteq calls[x].resolvers \union {LastId(b) + 1}
  BY <1>1 DEF GuestShape, Logged
<1>6. ASSUME NEW x \in Runs, Lim(x).conn = Lim(b).conn
      PROVE  LastId(b) + 1 \notin calls[x].resolvers
  <2>1. LastId(x) = LastId(b) /\ LastId(x) \in Nat
    BY <1>0, <1>6, IdIs DEF LastId
  <2> QED BY <1>0, <2>1, IdsGiven
<1>7. ASSUME NEW x \in Runs, NEW y \in Runs, x # y, Lim(x).conn = Lim(y).conn
      PROVE  calls'[x].resolvers \intersect calls'[y].resolvers = {}
  <2>1. calls[x].resolvers \intersect calls[y].resolvers = {}
    BY <1>0, <1>7 DEF Logs
  <2>2. calls'[x] = calls[x] \/ calls'[y] = calls[y]
    BY <1>1, <1>7
  <2>3. CASE x # b /\ y # b
    BY <1>1, <2>1, <2>3
  <2>4. CASE x = b \/ y = b
    <3>1. LastId(b) + 1 \notin calls[x].resolvers /\ LastId(b) + 1 \notin calls[y].resolvers
      BY <1>6, <1>7, <2>4
    <3> QED BY <1>5, <2>1, <2>2, <3>1
  <2> QED BY <2>3, <2>4
<1>8. \A x \in Runs : Lim(x)' = Lim(x) /\ LastId(x)' = lastCall'[Lim(x).conn]
  BY <1>0 DEF Lim, LastId
<1> QED BY <1>1, <1>2, <1>4, <1>7, <1>8 DEF Logs

\* Guest code keeps the heap for whom it has not touched.
LEMMA GuestQueued ==
  ASSUME LoopInv, NEW b \in Runs, GuestShape(b)
  PROVE  Queued' /\ Served'
<1>1. pc' = "js" /\ pc = "js" /\ cfg' = cfg /\ heap' = heap
  BY DEF GuestShape
<1>2. Served'
  BY <1>1 DEF Served
<1>3. turn'.owner = turn.owner /\ turn'.kind = turn.kind /\ turn'.queued = turn.queued
  BY DEF GuestShape, SameTurn
<1>4. ASSUME NEW r \in Runs \ touched', r # turn.owner, cfg.mode = "instance"
      PROVE  Heaped(r)'
  <2>1. r \notin touched /\ timers'[r] = timers[r] /\ Same(rs[r], rs'[r])
    BY DEF GuestShape, SetTimers, SameRuns
  <2>2. Heaped(r)
    BY <1>1, <1>4, <2>1 DEF LoopInv, Queued
  <2>3. NextDeadline(r)' = NextDeadline(r) /\ (Live(r)' <=> Live(r))
    BY <1>1, <2>1, SameNext, NextPrimed DEF NextDeadline
  <2> QED BY <1>1, <2>2, <2>3 DEF Heaped
<1>5. cfg.mode = "instance" /\ turn.kind = "frame"
        /\ turn.queued # Never => <<turn.queued, turn.owner>> \in heap
  BY <1>1 DEF LoopInv, Queued
<1>6. Queued'
  BY <1>1, <1>3, <1>4, <1>5 DEF Queued
<1> QED BY <1>2, <1>6

\* Guest code preserves the invariant.
LEMMA GuestStays ==
  ASSUME LoopInv, NEW b \in Runs, GuestShape(b)
  PROVE  LoopInv'
<1>1. TypeOK'
  BY DEF LoopInv, GuestShape, SameRuns, SameTurn, SetTimers, Logged, TypeOK, States, Tabs
<1>2. Clocks'
  <2>1. ASSUME NEW x \in Runs PROVE ClockAt(rs'[x], now')
    <3>1. ClockAt(rs[x], now) /\ Same(rs[x], rs'[x]) /\ now' = now
      BY DEF LoopInv, Clocks, ClockOk, GuestShape, SameRuns
    <3> QED BY <3>1 DEF ClockAt, Same
  <2> QED BY <2>1 DEF LoopInv, Clocks, ClockOk, GuestShape
<1>3. Tables'
  BY DEF Tables, GuestShape, SetTimers
<1>4. TurnShape'
  BY DEF LoopInv, TurnShape, GuestShape, SameTurn, SameRuns, Same, Live
<1>5. Order'
  BY OrderOn DEF LoopInv, GuestShape
<1>6. Said'
  <2>1. ASSUME NEW x \in Runs PROVE Saying(rs'[x], out'[x])
    <3>1. Saying(rs[x], out[x]) /\ Same(rs[x], rs'[x]) /\ out' = out
      BY DEF LoopInv, Said, GuestShape, SameRuns
    <3> QED BY <3>1 DEF Saying, Same
  <2> QED BY <2>1 DEF Said
<1> QED BY <1>1, <1>2, <1>3, <1>4, <1>5, <1>6, GuestEvents, GuestLogs, GuestQueued DEF LoopInv

-----------------------------------------------------------------------------
(* The end of a run. *)

\* How a run can end.
Ends == {"ok", "failed", "wall", "reset", "aborted"}

\* Two words in a row.
LEMMA TwoWords ==
  ASSUME NEW S, NEW a \in S, NEW b \in S
  PROVE  Append(<<a>>, b) = <<a, b>>
<1>0. <<a>> \in Seq(S) /\ <<a, b>> \in Seq(S)
  OBVIOUS
<1>1. PICK w \in Seq(S) : w = <<a>>
  BY <1>0
<1>2. Len(w) = 1 /\ w[1] = a
  BY <1>1
<1>9. Append(w, b) \in Seq(S)
  OBVIOUS
<1>3. PICK u \in Seq(S) : u = Append(w, b)
  BY <1>9
<1>4. Len(u) = 2 /\ u[1] = a /\ u[2] = b
  <2>1. Len(u) = Len(w) + 1
    BY <1>3
  <2>2. u[1] = w[1]
    BY <1>2, <1>3
  <2>3. u[Len(w) + 1] = b
    BY <1>3
  <2> QED BY <1>2, <2>1, <2>2, <2>3
<1>5. PICK v \in Seq(S) : v = <<a, b>>
  BY <1>0
<1>6. Len(v) = 2 /\ v[1] = a /\ v[2] = b
  BY <1>5
<1>7. \A i \in 1 .. Len(u) : u[i] = v[i]
  BY <1>4, <1>6
<1>8. u = v
  BY <1>4, <1>6, <1>7, SeqEqual
<1> QED BY <1>1, <1>3, <1>5, <1>8

\* What a run can have sent, word by word.
LEMMA Words ==
  /\ Append(<<>>, "result") = <<"result">>
  /\ Append(<<"early">>, "result") = <<"early", "result">>
  /\ Append(<<"early">>, "complete") = <<"early", "complete">>
  /\ Append(<<>>, "early") = <<"early">>
<1>1. Append(<<>>, "result") = <<"result">>
  OBVIOUS
<1>2. Append(<<>>, "early") = <<"early">>
  OBVIOUS
<1>3. PICK W : W = {"early", "result", "complete"}
  OBVIOUS
<1>4. "early" \in W /\ "result" \in W /\ "complete" \in W
  BY <1>3
<1> QED BY <1>1, <1>2, <1>4, TwoWords

\* A result is a last word in every phase.
LEMMA LastWord ==
  ASSUME NEW s, NEW o, Saying(s, o), NEW u, u.phase = "done",
         \/ s.phase \in {"queued", "settling", "grace"}
  PROVE  Saying(u, Append(o, "result"))
<1>1. o = <<>> \/ o = <<"early">>
  BY DEF Saying
<1>2. Append(o, "result") \in {<<"result">>, <<"early", "result">>}
  BY <1>1, Words
<1> QED BY <1>2 DEF Saying

\* completion_message is the right last word: RunComplete exactly after an
\* early Result that holds.
LEMMA LastMessage ==
  ASSUME NEW s, NEW o, Saying(s, o), NEW u, u.phase = "done", Alive(s), NEW k, NEW z,
         z.phase = s.phase, z.early = s.early
  PROVE  Saying(u, Append(o, CompletionMessage(z, k)))
<1>1. CASE k = "ok" /\ s.phase = "grace" /\ s.early
  <2>1. CompletionMessage(z, k) = "complete"
    BY <1>1 DEF CompletionMessage
  <2>2. o = <<"early">>
    BY <1>1 DEF Saying
  <2> QED BY <2>1, <2>2, Words DEF Saying
<1>2. CASE ~(k = "ok" /\ s.phase = "grace" /\ s.early)
  <2>1. CompletionMessage(z, k) = "result"
    BY <1>2 DEF CompletionMessage
  <2> QED BY <2>1, LastWord DEF Alive
<1> QED BY <1>1, <1>2

\* The runs an end takes away.
Gone(r, tainted) == {r} \union Swept(r, tainted)

\* The loop returns: the instance is tainted, or it is the one-off's.
Over(tainted) == tainted \/ cfg.mode = "oneoff"

\* What the end of run r, in state s, is to the other parts of the state.
Concludes(r, s, kind, tainted, back) ==
  /\ r \in Runs /\ Alive(rs[r]) /\ s \in RunState /\ ClockOk(s)
  /\ s.phase = rs[r].phase /\ s.early = rs[r].early
  /\ kind \in Ends /\ tainted \in BOOLEAN /\ back \in {"select", "sweep"}
  /\ pc \in {"js", "sweep", "deliver"} /\ (pc = "js" => r = turn.owner)
  /\ pc = "deliver" \/ (pc = "js" /\ turn.kind # "timer") => back = "select"
  /\ Conclude(r, s, kind, tainted, back)

\* taint_sweep takes other runs, each still owed an answer, and only when the
\* loop returns.
LEMMA SweptAre ==
  ASSUME NEW r, NEW tainted
  PROVE  /\ Swept(r, tainted) \subseteq Runs \ {r}
         /\ \A x \in Swept(r, tainted) : rs[x].phase \in {"queued", "settling", "grace"}
         /\ ~Over(tainted) => Swept(r, tainted) = {}
  BY DEF Swept, Live, Over

\* Every run taken away is done, emptied and has said its last word; the
\* others are as they were.
LEMMA ConcludeRows ==
  ASSUME LoopInv, NEW r, NEW s, NEW kind, NEW tainted, NEW back,
         Concludes(r, s, kind, tainted, back)
  PROVE  /\ \A x \in Gone(r, tainted) :
              /\ x \in Runs /\ rs'[x] \in RunState /\ rs'[x].phase = "done" /\ ClockOk(rs'[x])
              /\ timers'[x] = EmptyTimers /\ calls'[x] = NoCalls /\ host'[x] = {}
              /\ Saying(rs'[x], out'[x])
              /\ rs[x].phase \in {"queued", "settling", "grace"}
         /\ \A x \in Runs \ Gone(r, tainted) :
              /\ rs'[x] = rs[x] /\ timers'[x] = timers[x] /\ calls'[x] = calls[x]
              /\ host'[x] = host[x] /\ out'[x] = out[x]
         /\ rs'[r] = DoneRun(s, kind)
<1>0. PICK g : g = Swept(r, tainted)
  OBVIOUS
<1>1. r \in Runs /\ g \subseteq Runs \ {r}
        /\ \A x \in g : rs[x].phase \in {"queued", "settling", "grace"}
  BY <1>0, SweptAre DEF Concludes
<1>2. /\ rs' = [b \in Runs |-> IF b = r THEN DoneRun(s, kind)
                              ELSE IF b \in {r} \union g THEN ResetRun(rs[b]) ELSE rs[b]]
      /\ timers' = [b \in Runs |-> IF b \in {r} \union g THEN EmptyTimers ELSE timers[b]]
      /\ calls' = [b \in Runs |-> IF b \in {r} \union g THEN Finalize(calls[b]) ELSE calls[b]]
      /\ host' = [b \in Runs |-> IF b \in {r} \union g THEN {} ELSE host[b]]
      /\ out' = [b \in Runs |->
                   IF b = r THEN Append(out[b], CompletionMessage(s, kind))
                   ELSE IF b \in {r} \union g THEN Append(out[b], "result") ELSE out[b]]
  BY <1>0 DEF Concludes, Conclude
<1>3. TypeOK /\ Said /\ Clocks /\ rs \in [Runs -> RunState]
  BY DEF LoopInv, TypeOK
<1>4. /\ rs'[r] = DoneRun(s, kind) /\ out'[r] = Append(out[r], CompletionMessage(s, kind))
      /\ timers'[r] = EmptyTimers /\ calls'[r] = NoCalls /\ host'[r] = {}
  BY <1>1, <1>2 DEF Finalize
<1>5. ASSUME NEW x \in g
      PROVE  /\ rs'[x] = ResetRun(rs[x]) /\ out'[x] = Append(out[x], "result")
             /\ timers'[x] = EmptyTimers /\ calls'[x] = NoCalls /\ host'[x] = {}
  BY <1>1, <1>2 DEF Finalize
<1>6. \A x \in Runs \ ({r} \union g) :
              /\ rs'[x] = rs[x] /\ timers'[x] = timers[x] /\ calls'[x] = calls[x]
              /\ host'[x] = host[x] /\ out'[x] = out[x]
  BY <1>1, <1>2
<1>7. /\ DoneRun(s, kind) \in RunState /\ DoneRun(s, kind).phase = "done"
      /\ ClockOk(DoneRun(s, kind))
  BY <1>3, DoneIs DEF Concludes, Ends
<1>8. Saying(rs'[r], out'[r])
  <2>1. Saying(rs[r], out[r]) /\ s.phase = rs[r].phase /\ s.early = rs[r].early /\ Alive(rs[r])
    BY <1>1, <1>3 DEF Concludes, Said
  <2> QED BY <1>4, <1>7, <2>1, LastMessage
<1>9. ASSUME NEW x \in g
      PROVE  rs'[x] \in RunState /\ rs'[x].phase = "done" /\ ClockOk(rs'[x])
               /\ Saying(rs'[x], out'[x])
  <2>1. x \in Runs /\ rs[x] \in RunState /\ ClockOk(rs[x]) /\ Saying(rs[x], out[x])
    BY <1>1, <1>3 DEF Clocks, Said
  <2>2. ResetRun(rs[x]) \in RunState /\ ClockOk(ResetRun(rs[x])) /\ ResetRun(rs[x]).phase = "done"
    BY <1>3, <2>1, ResetIs
  <2>3. Saying(rs'[x], Append(out[x], "result"))
    BY <1>1, <1>5, <2>1, <2>2, LastWord
  <2> QED BY <1>5, <2>2, <2>3
<1>10. rs[r].phase \in {"queued", "settling", "grace"}
  BY DEF Concludes, Alive
<1> QED BY <1>0, <1>1, <1>4, <1>5, <1>6, <1>7, <1>8, <1>9, <1>10 DEF Gone

\* What else an end changes.
LEMMA ConcludeRest ==
  ASSUME NEW r, NEW s, NEW kind, NEW tainted, NEW back, Concludes(r, s, kind, tainted, back)
  PROVE  /\ touched' = {} /\ turn' = NoTurn /\ UNCHANGED <<cfg, now, lastCall>>
         /\ frozen' \in {frozen, FrozenAdvanced}
         /\ Over(tainted) => pc' = "dead" /\ chan' = <<>> /\ ev' = NoEvent /\ cutoff' = 0
              /\ heap' = {}
         /\ ~Over(tainted) =>
              /\ tainted = FALSE /\ pc' = back /\ chan' = chan
              /\ back = "select" => ev' = NoEvent /\ cutoff' = 0
              /\ back = "sweep" => ev' = ev /\ cutoff' = cutoff
              /\ heap' = PeekValid(heap \union DrainTouched(rs', timers'), rs', timers')
<1>1. Conclude(r, s, kind, tainted, back) /\ tainted \in BOOLEAN /\ back \in {"select", "sweep"}
  BY DEF Concludes
<1>2. /\ touched' = {} /\ turn' = NoTurn /\ UNCHANGED <<cfg, now, lastCall>>
      /\ frozen' \in {frozen, FrozenAdvanced}
      /\ pc' = IF Over(tainted) THEN "dead" ELSE back
      /\ chan' = IF Over(tainted) THEN <<>> ELSE chan
      /\ ev' = IF Over(tainted) \/ back = "select" THEN NoEvent ELSE ev
      /\ cutoff' = IF Over(tainted) \/ back = "select" THEN 0 ELSE cutoff
  BY <1>1 DEF Conclude, Over
<1>3. heap' = IF Over(tainted) THEN {}
              ELSE PeekValid(heap \union DrainTouched(rs', timers'), rs', timers')
  BY <1>1 DEF Conclude, Over
<1> QED BY <1>1, <1>2, <1>3 DEF Over

\* The guest's clock, kept or moved to the wall clock, is not ahead of now.
LEMMA AdvancedIs ==
  ASSUME LoopInv, NEW z \in {frozen, FrozenAdvanced}
  PROVE  z \in Nat /\ Reached(z, now)
<1>1. frozen \in Nat /\ now \in Nat /\ Reached(frozen, now)
  BY DEF LoopInv, TypeOK, Clocks
<1>2. WallMs(now) \in Nat /\ Reached(WallMs(now), now)
  BY <1>1, WallMsIs
<1>3. FrozenAdvanced \in Nat /\ Reached(FrozenAdvanced, now)
  BY <1>1, <1>2, ReachedLater DEF FrozenAdvanced
<1> QED BY <1>1, <1>3

\* No turn is a turn.
LEMMA NoTurnIs == NoTurn \in Turn
  BY LoopAssumption DEF NoTurn, Turn, Instants

\* The last word is one of two.
LEMMA WordIs == \A z, k : CompletionMessage(z, k) \in {"complete", "result"}
  BY DEF CompletionMessage

\* An end keeps the types.
LEMMA ConcludeTypes ==
  ASSUME LoopInv, NEW r, NEW s, NEW kind, NEW tainted, NEW back,
         Concludes(r, s, kind, tainted, back)
  PROVE  TypeOK'
<1>1. TypeOK
  BY DEF LoopInv
<1>2. r \in Runs /\ Conclude(r, s, kind, tainted, back)
  BY DEF Concludes
<1>3. rs' \in [Runs -> RunState]
  <2>1. \A x \in Runs : rs'[x] \in RunState
    BY <1>1, ConcludeRows DEF TypeOK
  <2>2. rs' = [x \in Runs |-> rs'[x]]
    BY <1>2 DEF Conclude
  <2> QED BY <2>1, <2>2
<1>4. timers' \in [Runs -> Table]
  <2>1. \A x \in Runs : timers'[x] \in Table
    BY <1>1, ConcludeRows, NoTimers DEF TypeOK
  <2>2. timers' = [x \in Runs |-> timers'[x]]
    BY <1>2 DEF Conclude
  <2> QED BY <2>1, <2>2
<1>5. calls' \in [Runs -> Log]
  <2>1. \A x \in Runs : calls'[x] \in Log
    BY <1>1, ConcludeRows, NoCallsIs DEF TypeOK
  <2>2. calls' = [x \in Runs |-> calls'[x]]
    BY <1>2 DEF Conclude
  <2> QED BY <2>1, <2>2
<1>6. host' \in [Runs -> SUBSET Nat]
  <2>1. \A x \in Runs : host'[x] \in SUBSET Nat
    BY <1>1, ConcludeRows DEF TypeOK
  <2>2. host' = [x \in Runs |-> host'[x]]
    BY <1>2 DEF Conclude
  <2> QED BY <2>1, <2>2
<1>7. out' \in [Runs -> Seq({"early", "result", "complete"})]
  <2>1. PICK W : W = {"early", "result", "complete"}
    OBVIOUS
  <2>2. \A x \in Runs : out[x] \in Seq(W)
    BY <1>1, <2>1 DEF TypeOK
  <2>3. "result" \in W /\ CompletionMessage(s, kind) \in W
    BY <2>1, WordIs
  <2>4. PICK g : g = {r} \union Swept(r, tainted)
    OBVIOUS
  <2>5. out' = [b \in Runs |->
                   IF b = r THEN Append(out[b], CompletionMessage(s, kind))
                   ELSE IF b \in g THEN Append(out[b], "result") ELSE out[b]]
    BY <1>2, <2>4 DEF Conclude
  <2>6. \A x \in Runs : /\ Append(out[x], CompletionMessage(s, kind)) \in Seq(W)
                        /\ Append(out[x], "result") \in Seq(W)
    BY <2>2, <2>3
  <2> QED BY <2>1, <2>2, <2>5, <2>6
<1>8. heap' \in SUBSET (Nat \X Runs)
  <2>1. CASE Over(tainted)
    BY <2>1, ConcludeRest
  <2>2. CASE ~Over(tainted)
    <3>1. rs' \in States /\ timers' \in Tabs
      BY <1>3, <1>4 DEF States, Tabs
    <3>2. heap \union DrainTouched(rs', timers') \in SUBSET (Nat \X Runs)
      BY <1>1, <3>1, DrainIs DEF TypeOK
    <3>3. PICK h : h = heap \union DrainTouched(rs', timers')
      OBVIOUS
    <3>4. heap' = PeekValid(h, rs', timers')
      BY <2>2, <3>3, ConcludeRest
    <3>5. PeekValid(h, rs', timers') \subseteq h
      BY <3>2, <3>3, PeekKeeps
    <3> QED BY <3>2, <3>3, <3>4, <3>5
  <2> QED BY <2>1, <2>2
<1>9. chan' \in Seq(Event)
  <2>1. chan' = chan \/ chan' = <<>>
    BY ConcludeRest
  <2>2. chan \in Seq(Event)
    BY <1>1 DEF TypeOK
  <2>3. CASE chan' = <<>>
    BY <2>3
  <2> QED BY <2>1, <2>2, <2>3
<1>10. /\ cfg' \in Setups /\ now' \in Nat /\ frozen' \in Nat /\ lastCall' \in [Runs -> Nat]
       /\ touched' \in SUBSET Runs
  BY <1>1, ConcludeRest, AdvancedIs DEF TypeOK
<1>11. pc' \in {"select", "gap", "sweep", "deliver", "js", "dead"} /\ cutoff' \in Nat
  <2>1. back \in {"select", "sweep"}
    BY DEF Concludes
  <2>2. (pc' = "dead" \/ pc' = back) /\ (cutoff' = 0 \/ cutoff' = cutoff)
    BY <2>1, ConcludeRest
  <2> QED BY <1>1, <2>1, <2>2 DEF TypeOK
<1>12. turn' \in Turn
  BY ConcludeRest, NoTurnIs
<1>13. ev' \in Event \union {NoEvent}
  BY <1>1, ConcludeRest DEF TypeOK, Concludes
<1> QED BY <1>3, <1>4, <1>5, <1>6, <1>7, <1>8, <1>9, <1>10, <1>11, <1>12, <1>13 DEF TypeOK

\* An end leaves the heap complete: what its turn touched is queued.
LEMMA ConcludeQueued ==
  ASSUME LoopInv, NEW r, NEW s, NEW kind, NEW tainted, NEW back,
         Concludes(r, s, kind, tainted, back)
  PROVE  Queued' /\ Served'
<1>0. TypeOK /\ TypeOK' /\ Queued /\ TurnShape /\ cfg' = cfg
  BY ConcludeTypes, ConcludeRest DEF LoopInv
<1>1. pc' # "deliver" /\ pc' # "js"
  BY ConcludeRest DEF Concludes
<1>2. Served'
  BY <1>1 DEF Served
<1>3. CASE Over(tainted)
  BY <1>2, <1>3, ConcludeRest DEF Queued
<1>4. CASE ~Over(tainted)
  <2>1. PICK h : h = heap \union DrainTouched(rs', timers')
    OBVIOUS
  <2>2. rs' \in States /\ timers' \in Tabs
    BY <1>0 DEF TypeOK, States, Tabs
  <2>3. h \in SUBSET (Nat \X Runs) /\ heap' = PeekValid(h, rs', timers')
    BY <1>0, <1>4, <2>1, <2>2, DrainIs, ConcludeRest DEF TypeOK
  <2>4. ASSUME NEW x \in Runs, Alive(rs'[x]), NextDeadlineOf(x, rs'[x], timers'[x]) # Never,
               cfg.mode = "instance"
        PROVE  <<NextDeadlineOf(x, rs'[x], timers'[x]), x>> \in h
    <3>1. x \notin Gone(r, tainted)
      BY <2>4, ConcludeRows DEF Alive
    <3>2. rs'[x] = rs[x] /\ timers'[x] = timers[x] /\ x # r
      BY <3>1, ConcludeRows DEF Gone
    <3>3. CASE x \in touched
      BY <1>0, <2>1, <2>2, <2>4, <3>3, DrainIs
    <3>4. CASE x \notin touched
      <4>1. pc = "js" => Heaped(x)
        <5>1. pc = "js" => turn.owner = r
          BY DEF Concludes
        <5> QED BY <1>0, <2>4, <3>2, <3>4, <5>1 DEF Queued
      <4>2. pc # "js" => Heaped(x)
        BY <1>0, <2>4 DEF Queued, Concludes
      <4>4. Heaped(x)
        BY <4>1, <4>2
      <4> QED BY <1>0, <2>1, <2>4, <3>2, <4>4, NextPrimed DEF Heaped, NextDeadline
    <3> QED BY <3>3, <3>4
  <2>5. ASSUME NEW x \in Runs, cfg.mode = "instance" PROVE Heaped(x)'
    <3>1. SUFFICES ASSUME Alive(rs'[x]), NextDeadlineOf(x, rs'[x], timers'[x]) # Never
                   PROVE  <<NextDeadlineOf(x, rs'[x], timers'[x]), x>> \in heap'
      BY <1>0, NextPrimed DEF Heaped
    <3>2. PICK d : d = NextDeadlineOf(x, rs'[x], timers'[x])
      OBVIOUS
    <3>3. <<d, x>> \in h
      BY <2>4, <2>5, <3>1, <3>2
    <3>4. <<d, x>> \in ValidIn(h, rs', timers')
      BY <3>1, <3>2, <3>3, ValidIs
    <3> QED BY <2>3, <3>2, <3>4, PeekKeeps
  <2> QED BY <1>0, <1>1, <1>2, <2>5 DEF Queued
<1> QED BY <1>3, <1>4

\* An end keeps the events on their way.
LEMMA ConcludeEvents ==
  ASSUME LoopInv, NEW r, NEW s, NEW kind, NEW tainted, NEW back,
         Concludes(r, s, kind, tainted, back)
  PROVE  Events' /\ Order'
<1>1. CASE Over(tainted)
  <2>1. chan' = <<>> /\ ev' = NoEvent
    BY <1>1, ConcludeRest
  <2>2. 1 .. Len(chan') = {}
    BY <2>1
  <2> QED BY <2>1, <2>2 DEF Events, Order
<1>2. CASE ~Over(tainted)
  <2>1. Gone(r, tainted) = {r} /\ r \in Runs /\ Alive(rs[r])
    BY <1>2, SweptAre DEF Gone, Concludes
  <2>2. \A x \in Runs : RowKeeps(x) \/ RowDone(x)
    <3>1. RowDone(r)
      BY <2>1, ConcludeRows DEF RowDone
    <3>2. \A x \in Runs \ {r} : rs'[x] = rs[x] /\ calls'[x] = calls[x] /\ host'[x] = host[x]
      BY <2>1, ConcludeRows
    <3>3. \A x \in Runs \ {r} : RowKeeps(x)
      BY <3>2 DEF RowKeeps
    <3> QED BY <3>1, <3>3
  <2>3. chan' = chan /\ ev' \in {NoEvent, ev} /\ now' = now
    BY <1>2, ConcludeRest DEF Concludes
  <2>4. TypeOK /\ Events /\ Order /\ now \in Nat
    BY DEF LoopInv, TypeOK
  <2>5. Events'
    BY <2>2, <2>3, <2>4, EventsOn
  <2> QED BY <2>3, <2>4, <2>5, OrderOn
<1> QED BY <1>1, <1>2

\* An end keeps the other logs.
LEMMA ConcludeLogs ==
  ASSUME LoopInv, NEW r, NEW s, NEW kind, NEW tainted, NEW back,
         Concludes(r, s, kind, tainted, back)
  PROVE  Logs'
<1>1. TypeOK /\ Logs /\ \A x \in Runs : Lim(x)' = Lim(x) /\ LastId(x)' = LastId(x)
  BY ConcludeRest DEF LoopInv, Lim, LastId
<1>2. PICK g : g = Gone(r, tainted)
  OBVIOUS
<1>3. \A x \in g : calls'[x] = NoCalls /\ host'[x] = {} /\ rs'[x].phase = "done"
  BY <1>2, ConcludeRows
<1>4. \A x \in Runs \ g : calls'[x] = calls[x] /\ host'[x] = host[x] /\ rs'[x] = rs[x]
  BY <1>2, ConcludeRows
<1>5. (\A x \in Runs : LogOk(NoCalls, LastId(x))) /\ NoCalls.resolvers = {}
  BY <1>1, IdIs, NoCallsIs
<1>6. \A x \in Runs : LogOk(calls'[x], LastId(x)) /\ host'[x] \subseteq calls'[x].resolvers
  BY <1>1, <1>3, <1>4, <1>5 DEF Logs
<1>7. ASSUME NEW x \in Runs, ~Live(x)' PROVE calls'[x] = NoCalls
  <2>1. CASE x \in g
    BY <1>3, <2>1
  <2>2. CASE x \notin g
    BY <1>1, <1>4, <1>7, <2>2 DEF Logs, Live
  <2> QED BY <2>1, <2>2
<1>8. \A x \in Runs : calls'[x].resolvers \subseteq calls[x].resolvers
  BY <1>3, <1>4, <1>5
<1>9. ASSUME NEW x \in Runs, NEW y \in Runs, x # y, Lim(x).conn = Lim(y).conn
      PROVE  calls'[x].resolvers \intersect calls'[y].resolvers = {}
  <2>1. calls[x].resolvers \intersect calls[y].resolvers = {}
    BY <1>1, <1>9 DEF Logs
  <2> QED BY <1>8, <2>1
<1> QED BY <1>1, <1>6, <1>7, <1>9 DEF Logs

\* The end of a run preserves the invariant.
LEMMA ConcludeStays ==
  ASSUME LoopInv, NEW r, NEW s, NEW kind, NEW tainted, NEW back,
         Concludes(r, s, kind, tainted, back)
  PROVE  LoopInv'
<1>0. TypeOK /\ Clocks /\ Tables /\ TurnShape /\ Said
  BY DEF LoopInv
<1>1. PICK g : g = Gone(r, tainted)
  OBVIOUS
<1>2. now' = now /\ Reached(frozen', now) /\ now \in Nat /\ cutoff \in Nat
  BY <1>0, ConcludeRest, AdvancedIs DEF TypeOK
<1>3. Clocks'
  <2>1. ASSUME NEW x \in Runs PROVE ClockAt(rs'[x], now')
    <3>1. CASE x \in g
      BY <1>1, <1>2, <3>1, ConcludeRows DEF ClockOk
    <3>2. CASE x \notin g
      BY <1>0, <1>1, <1>2, <3>2, ConcludeRows DEF Clocks, ClockOk
    <3> QED BY <3>1, <3>2
  <2>2. cutoff' = 0 \/ cutoff' = cutoff
    BY ConcludeRest DEF Concludes
  <2>3. cutoff <= now
    BY <1>0 DEF Clocks
  <2>4. cutoff' <= now'
    BY <1>2, <2>2, <2>3
  <2> QED BY <1>2, <2>1, <2>4 DEF Clocks, ClockOk
<1>4. Tables'
  <2>1. ASSUME NEW x \in Runs PROVE TableOk(timers'[x])
    <3>1. CASE x \in g
      BY <1>1, <3>1, ConcludeRows, NoTimers
    <3>2. CASE x \notin g
      BY <1>0, <1>1, <3>2, ConcludeRows DEF Tables
    <3> QED BY <3>1, <3>2
  <2> QED BY <2>1 DEF Tables
<1>5. TurnShape'
  <2>1. CASE Over(tainted)
    BY <2>1, ConcludeRest DEF TurnShape
  <2>0. touched' = {} /\ turn' = NoTurn /\ cfg' = cfg
    BY ConcludeRest
  <2>2. CASE ~Over(tainted) /\ back = "select"
    <3>1. ~Over(tainted) /\ back = "select"
      BY <2>2
    <3>2. pc' = back
      BY <3>1, ConcludeRest
    <3>3. ev' = NoEvent
      BY <3>1, ConcludeRest
    <3> QED BY <2>0, <3>1, <3>2, <3>3 DEF TurnShape
  <2>3. CASE ~Over(tainted) /\ back = "sweep"
    <3>0. ~Over(tainted) /\ back = "sweep"
      BY <2>3
    <3>4. pc' = back /\ (back = "sweep" => ev' = ev) /\ (back = "sweep" => cutoff' = cutoff)
      BY <3>0, ConcludeRest
    <3>1. pc' = "sweep" /\ ev' = ev /\ cutoff' = cutoff
      BY <3>0, <3>4
    <3>2. pc \in {"sweep", "js"}
      BY <2>3 DEF Concludes
    <3> QED BY <1>0, <2>0, <3>1, <3>2 DEF TurnShape
  <2> QED BY <2>1, <2>2, <2>3 DEF Concludes
<1>6. Said'
  <2>1. ASSUME NEW x \in Runs PROVE Saying(rs'[x], out'[x])
    <3>1. CASE x \in g
      BY <1>1, <3>1, ConcludeRows
    <3>2. CASE x \notin g
      BY <1>0, <1>1, <3>2, ConcludeRows DEF Said
    <3> QED BY <3>1, <3>2
  <2> QED BY <2>1 DEF Said
<1> QED BY <1>3, <1>4, <1>5, <1>6, ConcludeTypes, ConcludeQueued, ConcludeEvents,
      ConcludeLogs DEF LoopInv

-----------------------------------------------------------------------------
(* Which actions end a run. *)

\* The owner of the executing turn is a live run.
LEMMA OwnerIs ==
  ASSUME LoopInv, pc = "js"
  PROVE  /\ turn.owner \in Runs /\ Alive(rs[turn.owner]) /\ rs[turn.owner] \in RunState
         /\ ClockOk(rs[turn.owner]) /\ Saying(rs[turn.owner], out[turn.owner])
<1>1. turn.owner \in Runs /\ Alive(rs[turn.owner])
  BY DEF LoopInv, TurnShape, Live, Alive
<1> QED BY <1>1 DEF LoopInv, TypeOK, Clocks, Said

\* The event to deliver is one, for a run.
LEMMA EventIs ==
  ASSUME LoopInv, pc = "deliver"
  PROVE  /\ ev # NoEvent /\ ev \in Event /\ ev.run \in Runs /\ ev.at \in Nat
         /\ ev.call \in Nat /\ rs[ev.run] \in RunState /\ ClockOk(rs[ev.run])
<1>1. ev # NoEvent /\ ev \in Event
  BY DEF LoopInv, TurnShape, TypeOK
<1>2. ev.run \in Runs /\ ev.at \in Nat /\ ev.call \in Nat
  BY <1>1 DEF Event
<1> QED BY <1>1, <1>2 DEF LoopInv, TypeOK, Clocks

\* A run that enters a turn has its clock right.
LEMMA EnterClock ==
  ASSUME TypeOK, NEW s \in RunState, ClockOk(s), NEW w \in Nat, NEW u, u = EnterTurn(s, w)
  PROVE  /\ u \in RunState /\ ClockOk(u) /\ u.phase = s.phase /\ u.early = s.early
         /\ u.kind = s.kind /\ u.entered = now
<1>1. /\ u \in RunState /\ u.phase = s.phase /\ u.parkedAt = s.parkedAt /\ u.entered = now
      /\ u.early = s.early /\ u.kind = s.kind
  BY EnterIs
<1>2. now \in Nat
  BY DEF TypeOK
<1> QED BY <1>1, <1>2 DEF ClockOk, ClockAt

\* A due boundary is the deadline of a live run, and not after the cutoff.
LEMMA BoundaryIs ==
  ASSUME LoopInv, NEW r \in Runs, DueBoundary(r)
  PROVE  /\ Live(r) /\ rs[r] \in RunState /\ ClockOk(rs[r])
         /\ DeadlineInstant(r, rs[r]) \in Nat
         /\ cfg.mode = "instance" => DeadlineInstant(r, rs[r]) <= cutoff
<1>1. TypeOK /\ rs[r] \in RunState /\ ClockOk(rs[r]) /\ timers[r] \in Table
  BY DEF LoopInv, TypeOK, Clocks
<1>2. DeadlineInstant(r, rs[r]) \in Instants
  BY <1>1, InstantIs
<1>3. CASE cfg.mode = "instance"
  <2>1. PICK e \in Top : e[2] = r /\ e[1] <= cutoff /\ PeekDeadline(timers[r]) # e[1]
    BY <1>3 DEF DueBoundary
  <2>2. Live(r) /\ e[1] \in Nat /\ NextDeadline(r) = e[1]
    BY <1>1, <2>1, TopEntry
  <2>3. NextDeadlineOf(r, rs[r], timers[r]) = e[1] /\ e[1] # Never
    BY <2>2, NeverApart DEF NextDeadline
  <2>4. DeadlineInstant(r, rs[r]) = e[1]
    BY <1>1, <2>1, <2>3, NextIs
  <2> QED BY <1>1, <2>1, <2>2, <2>4
<1>4. CASE cfg.mode # "instance"
  BY <1>1, <1>2, <1>4 DEF DueBoundary, DueBy, Instants
<1> QED BY <1>3, <1>4

\* A due timer is a live run's, due by now, and in the instance loop its next
\* deadline.
LEMMA TimerDueIs ==
  ASSUME LoopInv, NEW r \in Runs, DueTimer(r)
  PROVE  /\ Live(r) /\ rs[r] \in RunState /\ ClockOk(rs[r])
         /\ timers[r] \in Table /\ TableOk(timers[r])
         /\ PeekDeadline(timers[r]) \in Nat /\ PeekDeadline(timers[r]) <= now
         /\ cfg.mode = "instance" =>
              /\ \E e \in Top : e[2] = r /\ e[1] = PeekDeadline(timers[r])
              /\ NextDeadline(r) = PeekDeadline(timers[r])
<1>1. TypeOK /\ rs[r] \in RunState /\ ClockOk(rs[r]) /\ timers[r] \in Table /\ TableOk(timers[r])
  BY DEF LoopInv, TypeOK, Clocks, Tables
<1>2. cutoff \in Nat /\ now \in Nat /\ cutoff <= now
  BY DEF LoopInv, TypeOK, Clocks
<1>3. CASE cfg.mode = "instance"
  <2>1. PICK e \in Top : e[2] = r /\ e[1] <= cutoff /\ PeekDeadline(timers[r]) = e[1]
    BY <1>3 DEF DueTimer
  <2>2. Live(r) /\ e[1] \in Nat /\ NextDeadline(r) = e[1]
    BY <1>1, <2>1, TopEntry
  <2>3. e[1] <= now
    BY <1>2, <2>1, <2>2
  <2> QED BY <1>1, <2>1, <2>2, <2>3
<1>4. CASE cfg.mode # "instance"
  <2>1. PeekDeadline(timers[r]) \in Instants
    BY <1>1, PeekIs
  <2> QED BY <1>1, <1>4, <2>1 DEF DueTimer, DueBy, Instants
<1> QED BY <1>3, <1>4

\* A turn that ends its run concludes it.
LEMMA FinishIs ==
  ASSUME LoopInv, pc = "js", NEW kind \in Ends, Finish(kind)
  PROVE  Concludes(Me, Mine, kind, Interrupted, Back)
<1>1. /\ Me \in Runs /\ Alive(rs[Me]) /\ Mine \in RunState /\ ClockOk(Mine)
      /\ Mine = rs[Me] /\ Me = turn.owner
  BY OwnerIs DEF Me, Mine
<1>2. Interrupted \in BOOLEAN
  <2>1. turn.kill \in BOOLEAN /\ turn.bare \in BOOLEAN
    BY DEF LoopInv, TypeOK, Turn
  <2> QED BY <2>1 DEF Interrupted
<1>3. Back \in {"select", "sweep"} /\ (turn.kind # "timer" => Back = "select")
  BY DEF Back
<1>4. Conclude(Me, Mine, kind, Interrupted, Back)
  BY DEF Finish
<1> QED BY <1>1, <1>2, <1>3, <1>4 DEF Concludes

\* So does an event that ends its run,
LEMMA DeliverIs ==
  ASSUME LoopInv, pc = "deliver", Live(ev.run), NEW kind \in Ends, NEW s,
         s = EnterTurn(rs[ev.run], ev.at) \/ s = rs[ev.run],
         Conclude(ev.run, s, kind, FALSE, "select")
  PROVE  Concludes(ev.run, s, kind, FALSE, "select")
<1>1. TypeOK /\ ev.run \in Runs /\ ev.at \in Nat /\ rs[ev.run] \in RunState /\ ClockOk(rs[ev.run])
  BY EventIs DEF LoopInv
<1>2. s \in RunState /\ ClockOk(s) /\ s.phase = rs[ev.run].phase /\ s.early = rs[ev.run].early
  BY <1>1, EnterClock
<1>3. Alive(rs[ev.run])
  BY DEF Live, Alive
<1> QED BY <1>1, <1>2, <1>3 DEF Concludes

\* the wall of a waiting run,
LEMMA WallIs ==
  ASSUME LoopInv, NEW r \in Runs, SweepWall(r)
  PROVE  Concludes(r, EnterTurn(rs[r], DeadlineInstant(r, rs[r])), "wall", FALSE, "sweep")
<1>1. PICK s : s = EnterTurn(rs[r], DeadlineInstant(r, rs[r]))
  OBVIOUS
<1>2. /\ TypeOK /\ rs[r] \in RunState /\ ClockOk(rs[r]) /\ Alive(rs[r])
      /\ DeadlineInstant(r, rs[r]) \in Nat
  BY BoundaryIs DEF SweepWall, LoopInv, Live, Alive
<1>3. s \in RunState /\ ClockOk(s) /\ s.phase = rs[r].phase /\ s.early = rs[r].early
  BY <1>1, <1>2, EnterClock
<1>4. pc = "sweep" /\ Conclude(r, s, "wall", FALSE, "sweep")
  BY <1>1 DEF SweepWall
<1> QED BY <1>1, <1>2, <1>3, <1>4 DEF Concludes, Ends

\* and the wall of its background phase.
LEMMA GraceWallIs ==
  ASSUME LoopInv, NEW r \in Runs, SweepGraceWall(r)
  PROVE  \E s : Concludes(r, s, "ok", FALSE, "sweep")
<1>1. PICK u : u = EnterTurn(rs[r], DeadlineInstant(r, rs[r]))
  OBVIOUS
<1>2. /\ TypeOK /\ rs[r] \in RunState /\ ClockOk(rs[r]) /\ Alive(rs[r])
      /\ DeadlineInstant(r, rs[r]) \in Nat
  BY BoundaryIs DEF SweepGraceWall, LoopInv, Live, Alive
<1>3. u \in RunState /\ ClockOk(u) /\ u.phase = rs[r].phase /\ u.early = rs[r].early
  BY <1>1, <1>2, EnterClock
<1>4. PICK s : s = [u EXCEPT !.status = "truncated"]
  OBVIOUS
<1>5. /\ s \in RunState /\ s.phase = u.phase /\ s.early = u.early /\ s.parkedAt = u.parkedAt
      /\ s.entered = u.entered
  BY <1>3, <1>4 DEF RunState
<1>6. ClockOk(s)
  BY <1>3, <1>5 DEF ClockOk, ClockAt
<1>7. pc = "sweep" /\ Conclude(r, s, "ok", FALSE, "sweep")
  BY <1>1, <1>4 DEF SweepGraceWall
<1>8. Concludes(r, s, "ok", FALSE, "sweep")
  BY <1>2, <1>3, <1>5, <1>6, <1>7 DEF Concludes, Ends
<1> QED BY <1>8

\* Some run ends.
Concluded == \E r, s, kind, tainted, back : Concludes(r, s, kind, tainted, back)

\* The ends of a turn that end its run.
TurnEnds ==
  \/ EndKilled \/ EndBridgeError \/ EndCallTarget \/ EndThrown \/ EndRejected
  \/ EndUnserializable \/ EndFinished \/ EndStranded \/ EndGrace \/ EndBlamed

\* The events that end their run.
DeliverEnds == DeliverUndecodable \/ DeliverTerminate \/ DeliverLost

\* Each of them is an end of the turn's owner.
LEMMA TurnEndsIs ==
  ASSUME LoopInv, TurnEnds
  PROVE  pc = "js" /\ Concluded
<1>1. pc = "js" /\ \E k \in Ends : Finish(k)
  BY DEF TurnEnds, EndKilled, EndBridgeError, EndCallTarget, EndThrown, EndRejected,
         EndUnserializable, EndFinished, EndStranded, EndGrace, EndBlamed, Undisturbed,
         Suspends, Ends
<1> QED BY <1>1, FinishIs DEF Concluded

\* Each of them is an end of the event's run, billed to the event's arrival in
\* the instance loop, and none at a wall.
LEMMA DeliverEndsIs ==
  ASSUME LoopInv, DeliverEnds
  PROVE  /\ pc = "deliver" /\ Live(ev.run)
         /\ \E s : \E k \in Ends \ {"wall"} :
              /\ Concludes(ev.run, s, k, FALSE, "select")
              /\ cfg.mode = "instance" => s = EnterTurn(rs[ev.run], ev.at)
<1>1. /\ pc = "deliver" /\ Live(ev.run)
      /\ \E s : \E k \in Ends \ {"wall"} :
              /\ Conclude(ev.run, s, k, FALSE, "select")
              /\ s = EnterTurn(rs[ev.run], ev.at) \/ s = rs[ev.run]
              /\ cfg.mode = "instance" => s = EnterTurn(rs[ev.run], ev.at)
  <2>1. CASE DeliverUndecodable
    <3>1. "failed" \in Ends \ {"wall"}
      BY DEF Ends
    <3>2. Conclude(ev.run, EnterTurn(rs[ev.run], ev.at), "failed", FALSE, "select")
          /\ pc = "deliver" /\ Live(ev.run)
      BY <2>1 DEF DeliverUndecodable
    <3> QED BY <3>1, <3>2
  <2>2. CASE DeliverTerminate
    <3>1. PICK k : k = IF InGrace(ev.run) THEN "ok" ELSE "aborted"
      OBVIOUS
    <3>2. k \in Ends \ {"wall"}
      BY <3>1 DEF Ends
    <3> QED BY <2>2, <3>1, <3>2 DEF DeliverTerminate
  <2>3. CASE DeliverLost
    <3>1. PICK k : k = IF InGrace(ev.run) THEN "ok" ELSE "failed"
      OBVIOUS
    <3>2. k \in Ends \ {"wall"}
      BY <3>1 DEF Ends
    <3>3. PICK s : s = IF cfg.mode = "instance" THEN EnterTurn(rs[ev.run], ev.at) ELSE rs[ev.run]
      OBVIOUS
    <3>4. Conclude(ev.run, s, k, FALSE, "select") /\ pc = "deliver" /\ Live(ev.run)
      BY <2>3, <3>1, <3>3 DEF DeliverLost
    <3> QED BY <3>2, <3>3, <3>4
  <2> QED BY <2>1, <2>2, <2>3 DEF DeliverEnds
<1> QED BY <1>1, DeliverIs

\* Any end preserves the invariant.
LEMMA ConcludedStays ==
  ASSUME LoopInv, Concluded
  PROVE  LoopInv'
  BY ConcludeStays DEF Concluded

-----------------------------------------------------------------------------
(* A turn begins. *)

\* A turn of run r begins in state u, or goes on in another phase.
Begun(r, u) ==
  /\ r \in Runs /\ u \in RunState /\ ClockOk(u) /\ Alive(u)
  /\ rs' = [rs EXCEPT ![r] = u]
  /\ pc' = "js" /\ cfg' = cfg /\ now' = now /\ chan' = chan /\ cutoff' = cutoff
  /\ touched' = touched /\ lastCall' = lastCall
  /\ pc \in {"select", "sweep", "deliver", "js"} /\ (pc = "js" => turn.owner = r)
  /\ turn' \in Turn /\ turn'.owner = r /\ turn'.kind \in {"start", "frame", "timer"}
  /\ frozen' \in Nat /\ Reached(frozen', now)
  /\ ev' \in {NoEvent, ev}
  /\ turn'.kind # "timer" => ev' = NoEvent
  /\ ev' # NoEvent => pc \in {"sweep", "js"}

\* At most r's timers change with it.
BegunTimers(r) ==
  /\ timers' \in Tabs /\ TableOk(timers'[r])
  /\ \A x \in Runs : x # r => timers'[x] = timers[x]

\* At most r's entries leave the heap; an event's turn leaves the old deadline
\* in.
BegunHeap(r) ==
  /\ heap' \subseteq heap
  /\ cfg.mode = "instance" => \A e \in heap : e[2] # r => e \in heap'
  /\ cfg.mode = "instance" /\ turn'.kind = "frame" /\ turn'.queued # Never =>
       <<turn'.queued, r>> \in heap'

\* At most r sends something, the right thing.
BegunOut(r, u) ==
  /\ out' \in [Runs -> Seq({"early", "result", "complete"})]
  /\ Saying(u, out'[r]) /\ \A x \in Runs : x # r => out'[x] = out[x]

\* Only r's row changes.
LEMMA BegunRow ==
  ASSUME TypeOK, NEW r, NEW u, Begun(r, u)
  PROVE  /\ r \in Runs /\ rs' \in States /\ rs'[r] = u /\ Alive(u)
         /\ \A x \in Runs : x # r => rs'[x] = rs[x]
<1>1. rs \in [Runs -> RunState] /\ rs' = [rs EXCEPT ![r] = u] /\ u \in RunState /\ r \in Runs
        /\ Alive(u)
  BY DEF TypeOK, Begun
<1> QED BY <1>1 DEF States

\* A turn that begins leaves the other runs' deadlines in the heap.
LEMMA BegunQueued ==
  ASSUME LoopInv, NEW r, NEW u, Begun(r, u), BegunTimers(r), BegunHeap(r)
  PROVE  Queued' /\ Served'
<1>0. TypeOK /\ Queued
  BY DEF LoopInv
<1>1. pc' = "js" /\ cfg' = cfg /\ turn'.owner = r /\ touched' = touched
  BY DEF Begun
<1>2. Served'
  BY <1>1 DEF Served
<1>3. ASSUME NEW x \in Runs \ touched, x # r, cfg.mode = "instance" PROVE Heaped(x)'
  <2>1. Heaped(x)
    BY <1>0, <1>3 DEF Queued, Begun
  <2>2. rs'[x] = rs[x] /\ timers'[x] = timers[x]
    BY <1>0, <1>3, BegunRow DEF BegunTimers
  <2>3. NextDeadline(x)' = NextDeadline(x) /\ (Live(x)' <=> Live(x))
    BY <1>1, <2>2, NextPrimed DEF NextDeadline
  <2>4. \A d : <<d, x>> \in heap => <<d, x>> \in heap'
    BY <1>3 DEF BegunHeap
  <2> QED BY <2>1, <2>3, <2>4 DEF Heaped
<1>4. cfg.mode = "instance" /\ turn'.kind = "frame" /\ turn'.queued # Never =>
        <<turn'.queued, r>> \in heap'
  BY DEF BegunHeap
<1>5. Queued'
  BY <1>1, <1>3, <1>4 DEF Queued
<1> QED BY <1>2, <1>5

\* A turn that begins preserves the invariant.
LEMMA BegunStays ==
  ASSUME LoopInv, NEW r, NEW u, Begun(r, u), BegunTimers(r), BegunHeap(r), BegunOut(r, u),
         calls' \in [Runs -> Log], host' \in [Runs -> SUBSET Nat], Events', Logs'
  PROVE  LoopInv'
<1>0. TypeOK /\ Clocks /\ Tables /\ TurnShape /\ Said
  BY DEF LoopInv
<1>1. TypeOK'
  <2>1. rs' \in [Runs -> RunState] /\ timers' \in [Runs -> Table]
    BY <1>0, BegunRow DEF BegunTimers, States, Tabs
  <2>2. /\ cfg' \in Setups /\ now' \in Nat /\ chan' \in Seq(Event) /\ cutoff' \in Nat
        /\ touched' \in SUBSET Runs /\ lastCall' \in [Runs -> Nat]
    BY <1>0 DEF Begun, TypeOK
  <2>3. heap' \in SUBSET (Nat \X Runs)
    BY <1>0 DEF BegunHeap, TypeOK
  <2>4. turn' \in Turn /\ frozen' \in Nat /\ pc' = "js"
    BY DEF Begun
  <2>5. ev' \in Event \union {NoEvent}
    BY <1>0 DEF Begun, TypeOK
  <2>6. out' \in [Runs -> Seq({"early", "result", "complete"})]
    BY DEF BegunOut
  <2> QED BY <2>1, <2>2, <2>3, <2>4, <2>5, <2>6 DEF TypeOK
<1>2. Clocks'
  <2>1. now' = now /\ cutoff' = cutoff /\ Reached(frozen', now) /\ ClockOk(u)
    BY DEF Begun
  <2>2. ASSUME NEW x \in Runs PROVE ClockAt(rs'[x], now')
    <3>1. ClockAt(rs'[x], now)
      BY <1>0, <2>1, BegunRow DEF Clocks, ClockOk
    <3> QED BY <2>1, <3>1
  <2> QED BY <1>0, <2>1, <2>2 DEF Clocks, ClockOk
<1>3. Tables'
  BY <1>0 DEF Tables, BegunTimers
<1>4. TurnShape'
  <2>1. pc' = "js" /\ turn'.owner \in Runs /\ turn'.kind \in {"start", "frame", "timer"}
    BY DEF Begun
  <2>2. Live(turn.owner)'
    <3>1. turn'.owner = r
      BY DEF Begun
    <3>2. rs'[r].phase \in {"settling", "grace"}
      BY <1>0, BegunRow DEF Alive
    <3> QED BY <3>1, <3>2 DEF Live
  <2>3. turn'.kind # "timer" => ev' = NoEvent
    BY DEF Begun
  <2>4. ev' # NoEvent => cfg'.mode = "instance" /\ cutoff' = ev'.at
    <3>1. SUFFICES ASSUME ev' # NoEvent PROVE cfg'.mode = "instance" /\ cutoff' = ev'.at
      OBVIOUS
    <3>2. ev' = ev /\ pc \in {"sweep", "js"} /\ cfg' = cfg /\ cutoff' = cutoff
      BY <3>1 DEF Begun
    <3> QED BY <1>0, <3>1, <3>2 DEF TurnShape
  <2> QED BY <2>1, <2>2, <2>3, <2>4 DEF TurnShape
<1>5. Order'
  BY OrderOn DEF LoopInv, Begun
<1>6. Said'
  <2>1. rs'[r] = u /\ \A x \in Runs : x # r => rs'[x] = rs[x]
    BY <1>0, BegunRow
  <2>2. Saying(u, out'[r]) /\ \A x \in Runs : x # r => out'[x] = out[x]
    BY DEF BegunOut
  <2>3. ASSUME NEW x \in Runs PROVE Saying(rs'[x], out'[x])
    <3>1. CASE x = r
      BY <2>1, <2>2, <3>1
    <3>2. CASE x # r
      BY <1>0, <2>1, <2>2, <3>2 DEF Said
    <3> QED BY <3>1, <3>2
  <2> QED BY <2>3 DEF Said
<1> QED BY <1>1, <1>2, <1>3, <1>4, <1>5, <1>6, BegunQueued DEF LoopInv

\* ... and the logs, if no call is settled.
LEMMA BegunLogs ==
  ASSUME LoopInv, NEW r, NEW u, Begun(r, u), UNCHANGED <<calls, host>>
  PROVE  Logs' /\ calls' \in [Runs -> Log] /\ host' \in [Runs -> SUBSET Nat]
<1>1. TypeOK /\ Logs /\ \A x \in Runs : Lim(x)' = Lim(x) /\ LastId(x)' = LastId(x)
  BY DEF LoopInv, Begun, Lim, LastId
<1>2. \A x \in Runs : Live(x) => Live(x)'
  BY <1>1, BegunRow DEF Live, Alive
<1>3. calls' \in [Runs -> Log] /\ host' \in [Runs -> SUBSET Nat]
  BY <1>1 DEF TypeOK
<1>4. Logs'
  <2>1. \A x \in Runs : LogOk(calls'[x], LastId(x)') /\ host'[x] \subseteq calls'[x].resolvers
    BY <1>1 DEF Logs
  <2>2. \A x \in Runs : ~Live(x)' => calls'[x] = NoCalls
    BY <1>1, <1>2 DEF Logs
  <2>3. \A x, y \in Runs : x # y /\ Lim(x)'.conn = Lim(y)'.conn =>
          calls'[x].resolvers \intersect calls'[y].resolvers = {}
    BY <1>1 DEF Logs
  <2> QED BY <2>1, <2>2, <2>3 DEF Logs
<1> QED BY <1>3, <1>4

\* A run that goes on keeps the events on their way.
LEMMA BegunEvents ==
  ASSUME LoopInv, NEW r, NEW u, Begun(r, u), UNCHANGED <<calls, host>>, Alive(rs[r])
  PROVE  Events'
<1>1. TypeOK /\ Events /\ now \in Nat
  BY DEF LoopInv, TypeOK
<1>2. \A x \in Runs : RowKeeps(x)
  BY <1>1, BegunRow DEF RowKeeps
<1>3. now' = now /\ chan' = chan /\ ev' \in {NoEvent, ev}
  BY DEF Begun
<1> QED BY <1>1, <1>2, <1>3, EventsOn

\* The turn BeginTurn makes.
TimerTurn(r, k, q, f) ==
  [NoTurn EXCEPT !.owner = r, !.kind = k, !.queued = q, !.began = now, !.fired = f]

\* ... and its fields.
LEMMA TurnIs ==
  ASSUME NEW r \in Runs, NEW k \in {"start", "frame", "timer"}, NEW q \in Instants, NEW f \in Nat,
         now \in Nat, NEW t, t = TimerTurn(r, k, q, f)
  PROVE  t \in Turn /\ t.owner = r /\ t.kind = k /\ t.queued = q /\ t.fired = f
<1>1. r \in 0 .. NRuns
  BY LoopAssumption DEF Runs
<1> QED BY <1>1 DEF TimerTurn, NoTurn, Turn

\* The turn StartTurn makes.
LEMMA StartTurnIs ==
  ASSUME NEW r \in Runs, now \in Nat,
         NEW t, t = [NoTurn EXCEPT !.owner = r, !.kind = "start", !.began = now]
  PROVE  t \in Turn /\ t.owner = r /\ t.kind = "start"
<1>1. r \in 0 .. NRuns /\ Never \in Instants
  BY LoopAssumption DEF Runs, Instants
<1> QED BY <1>1 DEF NoTurn, Turn

\* A next deadline is an instant or none.
LEMMA DeadlineIs ==
  ASSUME TypeOK, NEW r \in Runs
  PROVE  NextDeadline(r) \in Instants
<1>1. rs[r] \in RunState /\ timers[r] \in Table
  BY DEF TypeOK
<1> QED BY <1>1, NextIs DEF NextDeadline

\* A turn that begins says nothing.
LEMMA OutStays ==
  ASSUME LoopInv, NEW r \in Runs, NEW u, out' = out, Alive(rs[r])
           \/ rs[r].phase \in {"new", "queued"},
         u.phase = rs[r].phase \/ (u.phase = "settling" /\ ~Alive(rs[r])),
         u.early = rs[r].early \/ u.phase = "settling", u.kind = "none"
  PROVE  BegunOut(r, u)
<1>1. TypeOK /\ Saying(rs[r], out[r])
  BY DEF LoopInv, Said
<1>2. Saying(u, out[r])
  BY <1>1 DEF Saying, Alive
<1> QED BY <1>1, <1>2 DEF BegunOut, TypeOK

\* A live run has not ended in any way.
LEMMA Kindless ==
  ASSUME LoopInv, NEW r \in Runs, Alive(rs[r])
  PROVE  rs[r].kind = "none"
<1>1. Saying(rs[r], out[r])
  BY DEF LoopInv, Said
<1> QED BY <1>1 DEF Saying, Alive

\* A timer that fires begins a turn of its run; its element was the top of the
\* heap, and its scheduled time is not ahead of the clock.
LEMMA SweepTimerIs ==
  ASSUME LoopInv, NEW r \in Runs, SweepTimer(r)
  PROVE  /\ Begun(r, EnterTurn(rs[r], PeekDeadline(timers[r])))
         /\ LoopInv'
<1>0. TypeOK /\ Clocks /\ now \in Nat
  BY DEF LoopInv, TypeOK
<1>1. PICK p : p = PopEarliest(timers[r])
  OBVIOUS
<1>2. PICK w : w = PeekDeadline(timers[r])
  OBVIOUS
<1>3. PICK u : u = EnterTurn(rs[r], w)
  OBVIOUS
<1>4. pc = "sweep" /\ DueTimer(r) /\ BeginTurn(r, u, "timer", p.fired)
  BY <1>1, <1>2, <1>3 DEF SweepTimer
<1>5. /\ timers' = [timers EXCEPT ![r] = p.rest] /\ frozen' = Later(frozen, p.virt)
      /\ heap' = heap \ Top
      /\ UNCHANGED <<cfg, now, chan, ev, cutoff, touched, calls, lastCall, host, out>>
  BY <1>1 DEF SweepTimer
<1>6. /\ Live(r) /\ rs[r] \in RunState /\ ClockOk(rs[r]) /\ timers[r] \in Table
      /\ TableOk(timers[r]) /\ w \in Nat /\ w <= now
  BY <1>2, <1>4, TimerDueIs
<1>7. u \in RunState /\ ClockOk(u) /\ u.phase = rs[r].phase /\ u.early = rs[r].early
        /\ u.kind = rs[r].kind
  BY <1>0, <1>3, <1>6, EnterClock
<1>8. Alive(rs[r]) /\ Alive(u)
  BY <1>6, <1>7 DEF Live, Alive
<1>9. w # Never
  BY <1>6, NeverApart
<1>10. p.fired \in Nat /\ p.virt \in Nat /\ p.rest \in Table /\ TableOk(p.rest)
  BY <1>1, <1>2, <1>6, <1>9, PopIs
<1>11. Reached(p.virt, now)
  <2>1. PICK e \in timers[r].entries : e.at = w /\ e.virt = p.virt
    BY <1>1, <1>2, <1>6, <1>9, PopIs
  <2>2. Reached(p.virt, w)
    BY <1>6, <2>1 DEF TableOk
  <2> QED BY <1>0, <1>6, <1>10, <2>2, ReachedOn
<1>12. frozen' \in Nat /\ Reached(frozen', now)
  <2>1. frozen \in Nat /\ Reached(frozen, now)
    BY <1>0 DEF TypeOK, Clocks
  <2> QED BY <1>0, <1>5, <1>10, <1>11, <2>1, ReachedLater
<1>13. turn' \in Turn /\ turn'.owner = r /\ turn'.kind = "timer"
  <2>1. NextDeadline(r) \in Instants
    BY <1>0, DeadlineIs
  <2>2. turn' = TimerTurn(r, "timer", NextDeadline(r), p.fired)
    BY <1>4 DEF BeginTurn, TimerTurn
  <2> QED BY <1>0, <1>10, <2>1, <2>2, TurnIs
<1>14. rs' = [rs EXCEPT ![r] = u] /\ pc' = "js"
  BY <1>4 DEF BeginTurn
<1>15. Begun(r, u)
  BY <1>4, <1>5, <1>7, <1>8, <1>12, <1>13, <1>14 DEF Begun
<1>16. BegunTimers(r)
  <2>1. timers \in [Runs -> Table]
    BY <1>0 DEF TypeOK
  <2> QED BY <1>5, <1>10, <2>1 DEF BegunTimers, Tabs
<1>17. BegunHeap(r)
  <2>1. heap \in SUBSET (Nat \X Runs)
    BY <1>0 DEF TypeOK
  <2>2. ASSUME cfg.mode = "instance", NEW f \in Top PROVE f[2] = r
    <3>1. PICK e \in Top : e[2] = r
      BY <1>4, <2>2, TimerDueIs
    <3> QED BY <2>1, <2>2, <3>1, TopIs
  <2> QED BY <1>5, <1>13, <2>2 DEF BegunHeap
<1>18. BegunOut(r, u)
  BY <1>5, <1>7, <1>8, Kindless, OutStays
<1>19. UNCHANGED <<calls, host>>
  BY <1>5
<1> QED BY <1>2, <1>3, <1>8, <1>15, <1>16, <1>17, <1>18, <1>19, BegunLogs, BegunEvents, BegunStays

\* EnterGrace keeps the turn, in the background phase, with the early Result
\* said.
LEMMA EnterGraceIs ==
  ASSUME LoopInv, EnterGrace
  PROVE  LoopInv'
<1>0. TypeOK /\ Clocks /\ now \in Nat /\ pc = "js" /\ TurnShape /\ Queued
  BY DEF LoopInv, TypeOK, EnterGrace, Undisturbed
<1>1. PICK r : r = turn.owner
  OBVIOUS
<1>2. r \in Runs /\ Alive(rs[r]) /\ rs[r] \in RunState /\ ClockOk(rs[r]) /\ Saying(rs[r], out[r])
  BY <1>0, <1>1, OwnerIs
<1>3. PICK sent \in BOOLEAN :
        /\ rs' = [rs EXCEPT ![r] =
                    [Folded(@) EXCEPT !.phase = "grace", !.entered = now, !.graceStart = now,
                                      !.early = sent]]
        /\ out' = [out EXCEPT ![r] = IF sent THEN Append(@, "early") ELSE @]
  BY <1>1 DEF EnterGrace, Me
<1>4. /\ rs[r].phase = "settling"
      /\ UNCHANGED <<cfg, now, pc, chan, ev, cutoff, turn, frozen, heap, touched, timers,
                     calls, lastCall, host>>
  BY <1>1 DEF EnterGrace, Mine
<1>5. PICK f : f = Folded(rs[r])
  OBVIOUS
<1>6. f \in RunState /\ f.kind = rs[r].kind /\ f.parkedAt = rs[r].parkedAt
  BY <1>0, <1>2, <1>5, FoldedIs
<1>7. PICK u : u = [f EXCEPT !.phase = "grace", !.entered = now, !.graceStart = now, !.early = sent]
  OBVIOUS
<1>8. u \in RunState /\ u.phase = "grace" /\ u.entered = now /\ u.early = sent /\ u.kind = f.kind
      /\ u.parkedAt = f.parkedAt
  BY <1>0, <1>6, <1>7 DEF RunState, Instants
<1>9. ClockOk(u) /\ Alive(u) /\ u.kind = "none"
  <2>1. rs[r].kind = "none" /\ rs[r].parkedAt <= now
    BY <1>2, Kindless DEF ClockOk, ClockAt
  <2> QED BY <1>0, <1>6, <1>8, <2>1 DEF ClockOk, ClockAt, Alive
<1>10. rs' = [rs EXCEPT ![r] = u]
  BY <1>3, <1>5, <1>7
<1>11. /\ turn \in Turn /\ turn.kind \in {"start", "frame", "timer"} /\ frozen \in Nat
       /\ Reached(frozen, now)
       /\ turn.kind # "timer" => ev = NoEvent
  BY <1>0 DEF TypeOK, Clocks, TurnShape
<1>12. Begun(r, u)
  BY <1>0, <1>1, <1>2, <1>4, <1>8, <1>9, <1>10, <1>11 DEF Begun
<1>13. BegunTimers(r) /\ BegunHeap(r)
  BY <1>0, <1>1, <1>2, <1>4 DEF BegunTimers, BegunHeap, TypeOK, Tabs, Queued, LoopInv, Tables
<1>14. BegunOut(r, u)
  <2>1. PICK W : W = {"early", "result", "complete"}
    OBVIOUS
  <2>2. out \in [Runs -> Seq(W)] /\ "early" \in W
    BY <1>0, <2>1 DEF TypeOK
  <2>3. out[r] = <<>>
    BY <1>2, <1>4 DEF Saying
  <2>4. PICK o : o = IF sent THEN <<"early">> ELSE <<>>
    OBVIOUS
  <2>5. o \in Seq(W)
    BY <2>2, <2>4
  <2>6. o = IF sent THEN Append(out[r], "early") ELSE out[r]
    BY <2>3, <2>4, Words
  <2>7. out' = [out EXCEPT ![r] = o]
    BY <1>3, <2>6
  <2>8. Saying(u, o)
    BY <1>8, <1>9, <2>4 DEF Saying
  <2> QED BY <1>2, <2>1, <2>2, <2>5, <2>7, <2>8 DEF BegunOut
<1>15. UNCHANGED <<calls, host>>
  BY <1>4
<1> QED BY <1>2, <1>12, <1>13, <1>14, <1>15, BegunLogs, BegunEvents, BegunStays

\* A start turn begins a run submitted, or the one-off's own.
LEMMA StartIs ==
  ASSUME LoopInv, NEW r \in Runs, StartTurn(r), rs[r].phase \in {"new", "queued"},
         pc \in {"select", "deliver"}, ev' = NoEvent,
         UNCHANGED <<cfg, now, chan, cutoff, heap, touched, timers, calls, lastCall, host, out>>
  PROVE  /\ Begun(r, Started(r)) /\ BegunTimers(r) /\ BegunHeap(r) /\ BegunOut(r, Started(r))
         /\ turn'.kind = "start"
<1>0. TypeOK /\ Tables /\ now \in Nat
  BY DEF LoopInv, TypeOK
<1>1. PICK u : u = Started(r)
  OBVIOUS
<1>2. u \in RunState /\ ClockOk(u) /\ u.phase = "settling" /\ u.kind = "none"
  BY <1>0, <1>1, StartedIs
<1>3. turn' \in Turn /\ turn'.owner = r /\ turn'.kind = "start"
  <2>1. turn' = [NoTurn EXCEPT !.owner = r, !.kind = "start", !.began = now]
    BY DEF StartTurn
  <2> QED BY <1>0, <2>1, StartTurnIs
<1>4. rs' = [rs EXCEPT ![r] = u] /\ pc' = "js"
  BY <1>1 DEF StartTurn
<1>5. frozen' \in Nat /\ Reached(frozen', now)
  BY AdvancedIs DEF StartTurn
<1>6. Begun(r, u)
  BY <1>2, <1>3, <1>4, <1>5 DEF Begun, Alive
<1>7. BegunTimers(r) /\ BegunHeap(r)
  BY <1>0, <1>3 DEF BegunTimers, BegunHeap, TypeOK, Tabs, Tables
<1>8. BegunOut(r, u)
  BY <1>2, OutStays DEF Alive
<1> QED BY <1>1, <1>3, <1>6, <1>7, <1>8

\* No event on its way is a second job, or an answer to a run just started.
LEMMA StartEvents ==
  ASSUME LoopInv, NEW r \in Runs, NEW u, Begun(r, u), rs[r].phase \in {"new", "queued"},
         ev' = NoEvent, UNCHANGED <<calls, host>>,
         \A i \in 1 .. Len(chan) : chan[i].run = r => chan[i].kind # "job"
  PROVE  Events'
<1>1. TypeOK /\ Events /\ now' = now /\ chan' = chan /\ chan \in Seq(Event)
  BY DEF LoopInv, Begun, TypeOK
<1>2. ASSUME NEW i \in 1 .. Len(chan)
      PROVE  EventFits(chan[i], now', rs', calls', host')
  <2>1. EventFits(chan[i], now, rs, calls, host) /\ chan[i] \in Event
    BY <1>1 DEF Events
  <2>2. chan[i].run \in Runs
    BY <2>1 DEF Event
  <2>3. CASE chan[i].run = r
    <3>1. chan[i].call = NoId
      BY <2>1, <2>3 DEF EventFits
    <3> QED BY <1>1, <2>1, <2>3, <3>1 DEF EventFits
  <2>4. CASE chan[i].run # r
    <3>1. rs'[chan[i].run] = rs[chan[i].run]
      BY <1>1, <2>2, <2>4, BegunRow
    <3> QED BY <1>1, <2>1, <3>1 DEF EventFits
  <2> QED BY <2>3, <2>4
<1> QED BY <1>1, <1>2 DEF Events

\* A delivered job starts its run, which was queued.
LEMMA JobIs ==
  ASSUME LoopInv, DeliverJob
  PROVE  LoopInv' /\ rs[ev.run].phase = "queued"
<1>1. pc = "deliver" /\ ev.kind = "job" /\ StartTurn(ev.run) /\ ev' = NoEvent
  BY DEF DeliverJob
<1>2. ev # NoEvent /\ ev.run \in Runs
  BY <1>1, EventIs
<1>3. rs[ev.run].phase = "queued"
  BY <1>1, <1>2 DEF LoopInv, Events, EventFits
<1>4. UNCHANGED <<cfg, now, chan, cutoff, heap, touched, timers, calls, lastCall, host, out>>
  BY DEF DeliverJob
<1>5. PICK r : r = ev.run
  OBVIOUS
<1>6. /\ Begun(r, Started(r)) /\ BegunTimers(r) /\ BegunHeap(r) /\ BegunOut(r, Started(r))
  BY <1>1, <1>2, <1>3, <1>4, <1>5, StartIs
<1>7. \A i \in 1 .. Len(chan) : chan[i].run = r => chan[i].kind # "job"
  BY <1>1, <1>2, <1>5 DEF LoopInv, Order, PairOk
<1>8. UNCHANGED <<calls, host>>
  BY <1>4
<1>9. Events'
  BY <1>1, <1>2, <1>3, <1>5, <1>6, <1>7, <1>8, StartEvents
<1> QED BY <1>3, <1>6, <1>8, <1>9, BegunLogs, BegunStays

\* The one-off starts its run.
LEMMA OneOffIs ==
  ASSUME LoopInv, StartOneOff
  PROVE  LoopInv'
<1>1. pc = "select" /\ StartTurn(1) /\ rs[1].phase = "new" /\ 1 \in Runs
  BY RunsAre DEF StartOneOff
<1>2. UNCHANGED <<cfg, now, chan, ev, cutoff, heap, touched, timers, calls, lastCall, host, out>>
  BY DEF StartOneOff
<1>3. ev' = NoEvent
  BY <1>1, <1>2 DEF LoopInv, TurnShape
<1>4. UNCHANGED <<cfg, now, chan, cutoff, heap, touched, timers, calls, lastCall, host, out>>
  BY <1>2
<1>5. /\ Begun(1, Started(1)) /\ BegunTimers(1) /\ BegunHeap(1) /\ BegunOut(1, Started(1))
  BY <1>1, <1>3, <1>4, StartIs
<1>6. \A i \in 1 .. Len(chan) : chan[i].run = 1 => chan[i].kind # "job"
  BY <1>1 DEF LoopInv, Events, EventFits
<1>8. UNCHANGED <<calls, host>>
  BY <1>4
<1>9. Events'
  BY <1>1, <1>3, <1>5, <1>6, <1>8, StartEvents
<1> QED BY <1>5, <1>8, <1>9, BegunLogs, BegunStays

\* An answer takes one call out of its run's log, and no event on its way
\* names that call.
LEMMA AnswerIs ==
  ASSUME LoopInv, DeliverAnswer
  PROVE  /\ LoopInv' /\ ev.run \in Runs /\ Live(ev.run)
         /\ Begun(ev.run, EnterTurn(rs[ev.run], ev.at))
<1>0. TypeOK /\ Logs /\ Events /\ Order /\ Tables /\ Queued /\ now \in Nat
  BY DEF LoopInv, TypeOK
<1>1. PICK r : r = ev.run
  OBVIOUS
<1>2. PICK c : c = ev.call
  OBVIOUS
<1>3. PICK u : u = EnterTurn(rs[r], ev.at)
  OBVIOUS
<1>4. /\ pc = "deliver" /\ Live(r) /\ BeginTurn(r, u, "frame", 0) /\ ev' = NoEvent
      /\ frozen' = FrozenAdvanced
      /\ UNCHANGED <<cfg, now, chan, cutoff, heap, touched, timers, lastCall, host, out>>
  BY <1>1, <1>3 DEF DeliverAnswer
<1>5. PICK ok \in BOOLEAN : ok = (ev.kind = "value")
  OBVIOUS
<1>6. PICK y : y = TakeResolver(Settle(calls[r], c, ok), c)
  OBVIOUS
<1>7. calls' = [calls EXCEPT ![r] = y]
  BY <1>1, <1>2, <1>5, <1>6 DEF DeliverAnswer
<1>8. ev # NoEvent /\ r \in Runs /\ ev.at \in Nat /\ c \in Nat /\ rs[r] \in RunState
        /\ ClockOk(rs[r])
  BY <1>1, <1>2, <1>4, EventIs
<1>9. calls \in [Runs -> Log] /\ host \in [Runs -> SUBSET Nat] /\ LogOk(calls[r], LastId(r))
         /\ LastId(r) \in Nat
  BY <1>0, <1>8, IdIs DEF TypeOK, Logs
<1>10. y \in Log /\ LogOk(y, LastId(r)) /\ y.resolvers = calls[r].resolvers \ {c}
  BY <1>0, <1>6, <1>8, <1>9, SettledIs
<1>11. /\ calls' \in [Runs -> Log] /\ calls'[r] = y
            /\ \A x \in Runs : x # r => calls'[x] = calls[x]
       /\ host' = host
  BY <1>4, <1>7, <1>8, <1>9, <1>10
<1>12. u \in RunState /\ ClockOk(u) /\ u.phase = rs[r].phase /\ u.early = rs[r].early
         /\ u.kind = rs[r].kind
  BY <1>0, <1>3, <1>8, EnterClock
<1>13. Alive(rs[r]) /\ Alive(u)
  BY <1>4, <1>12 DEF Live, Alive
<1>14. turn' \in Turn /\ turn'.owner = r /\ turn'.kind = "frame" /\ turn'.queued = NextDeadline(r)
  <2>1. NextDeadline(r) \in Instants
    BY <1>0, <1>8, DeadlineIs
  <2>2. turn' = TimerTurn(r, "frame", NextDeadline(r), 0)
    BY <1>4 DEF BeginTurn, TimerTurn
  <2> QED BY <1>0, <1>8, <2>1, <2>2, TurnIs
<1>15. rs' = [rs EXCEPT ![r] = u] /\ pc' = "js"
  BY <1>4 DEF BeginTurn
<1>16. frozen' \in Nat /\ Reached(frozen', now)
  BY <1>4, AdvancedIs
<1>17. Begun(r, u)
  BY <1>4, <1>8, <1>12, <1>13, <1>14, <1>15, <1>16 DEF Begun
<1>18. BegunTimers(r)
  BY <1>0, <1>4, <1>8 DEF BegunTimers, TypeOK, Tabs, Tables
<1>19. BegunHeap(r)
  <2>1. cfg.mode = "instance" => Heaped(r)
    BY <1>0, <1>4, <1>8 DEF Queued
  <2> QED BY <1>4, <1>14, <2>1 DEF BegunHeap, Heaped
<1>20. BegunOut(r, u)
  BY <1>4, <1>8, <1>12, <1>13, Kindless, OutStays
<1>21. c \notin host[r]
  <2>1. EventFits(ev, now, rs, calls, host)
    BY <1>0, <1>8 DEF Events
  <2>2. host[r] \subseteq calls[r].resolvers
    BY <1>0, <1>8 DEF Logs
  <2>3. \A z \in calls[r].resolvers : z \in 1 .. LastId(r)
    BY <1>0, <1>8, IdsGiven
  <2>4. CASE c = NoId
    BY <1>9, <2>2, <2>3, <2>4 DEF NoId
  <2>5. CASE c # NoId
    BY <1>1, <1>2, <1>4, <2>1, <2>5 DEF EventFits, Live
  <2> QED BY <2>4, <2>5
<1>22. Logs'
  <2>1. \A x \in Runs : Live(x) => Live(x)'
    BY <1>0, <1>17, BegunRow DEF Live, Alive
  <2>6. \A x \in Runs : Lim(x)' = Lim(x) /\ LastId(x)' = LastId(x)
    BY <1>4 DEF Lim, LastId
  <2>2. \A x \in Runs : LogOk(calls'[x], LastId(x)) /\ host'[x] \subseteq calls'[x].resolvers
    BY <1>0, <1>4, <1>10, <1>11, <1>21 DEF Logs
  <2>3. \A x \in Runs : ~Live(x)' => calls'[x] = NoCalls
    BY <1>0, <1>4, <1>11, <2>1 DEF Logs
  <2>4. \A x \in Runs : calls'[x].resolvers \subseteq calls[x].resolvers
    BY <1>10, <1>11
  <2>5. \A x, b \in Runs : x # b /\ Lim(x).conn = Lim(b).conn =>
          calls'[x].resolvers \intersect calls'[b].resolvers = {}
    BY <1>0, <2>4 DEF Logs
  <2> QED BY <2>2, <2>3, <2>5, <2>6 DEF Logs
<1>23. Events'
  <2>0. chan \in Seq(Event) /\ chan' = chan /\ now' = now
    BY <1>0, <1>4 DEF TypeOK
  <2>1. ASSUME NEW i \in 1 .. Len(chan)
        PROVE  EventFits(chan[i], now', rs', calls', host')
    <3>1. EventFits(chan[i], now, rs, calls, host) /\ chan[i] \in Event
      BY <1>0, <2>0 DEF Events
    <3>2. chan[i].run \in Runs
      BY <3>1 DEF Event
    <3>3. CASE chan[i].run = r
      <4>1. rs'[r] = u
        BY <1>0, <1>17, BegunRow
      <4>2. chan[i].call # NoId => chan[i].call # c
        BY <1>0, <1>1, <1>2, <1>8, <3>3 DEF Order, PairOk
      <4> QED BY <1>4, <1>10, <1>11, <1>12, <2>0, <3>1, <3>3, <4>1, <4>2 DEF EventFits
    <3>4. CASE chan[i].run # r
      <4>1. rs'[chan[i].run] = rs[chan[i].run] /\ calls'[chan[i].run] = calls[chan[i].run]
        BY <1>0, <1>11, <1>17, <3>2, <3>4, BegunRow
      <4> QED BY <1>11, <2>0, <3>1, <4>1 DEF EventFits
    <3> QED BY <3>3, <3>4
  <2> QED BY <1>4, <2>0, <2>1 DEF Events
<1>24. host' \in [Runs -> SUBSET Nat]
  BY <1>9, <1>11
<1>25. LoopInv'
  BY <1>11, <1>17, <1>18, <1>19, <1>20, <1>22, <1>23, <1>24, BegunStays
<1> QED BY <1>1, <1>3, <1>4, <1>8, <1>17, <1>25

-----------------------------------------------------------------------------
(* A run parks; an event arrives. *)

\* A run that parks leaves the heap complete: its own deadline is pushed, or
\* was there unchanged, and those of the runs its turn touched are drained.
LEMMA ParkIs ==
  ASSUME LoopInv, EndPark
  PROVE  LoopInv'
<1>0. /\ TypeOK /\ Clocks /\ Tables /\ TurnShape /\ Events /\ Order /\ Queued /\ Logs /\ Said
      /\ now \in Nat /\ pc = "js"
  BY DEF LoopInv, TypeOK, EndPark, Suspends
<1>1. PICK r : r = turn.owner
  OBVIOUS
<1>2. r \in Runs /\ Alive(rs[r]) /\ rs[r] \in RunState /\ ClockOk(rs[r]) /\ Saying(rs[r], out[r])
  BY <1>0, <1>1, OwnerIs
<1>3. PICK u : u = LeaveTurn(rs[r])
  OBVIOUS
<1>4. u \in RunState /\ ClockOk(u) /\ u.phase = rs[r].phase /\ u.kind = rs[r].kind
        /\ u.early = rs[r].early
  BY <1>0, <1>2, <1>3, LeaveIs
<1>5. /\ rs' = [rs EXCEPT ![r] = u] /\ touched' = {} /\ turn' = NoTurn /\ pc' = Back
      /\ cutoff' = (IF Back = "select" THEN 0 ELSE cutoff)
      /\ UNCHANGED <<cfg, now, chan, ev, frozen, timers, calls, lastCall, host, out>>
  BY <1>1, <1>3 DEF EndPark, Me
<1>6. rs' \in States /\ rs'[r] = u /\ \A x \in Runs : x # r => rs'[x] = rs[x]
  BY <1>0, <1>2, <1>4, <1>5 DEF TypeOK, States
<1>7. PICK h : h = heap \union DrainTouched(rs', timers)
                        \union (IF Requeued(rs', timers) THEN Push(r, rs', timers) ELSE {})
  OBVIOUS
<1>8. heap' = IF cfg.mode = "oneoff" THEN {} ELSE PeekValid(h, rs', timers)
  BY <1>1, <1>5, <1>7 DEF EndPark, Me
<1>9. timers \in Tabs /\ h \in SUBSET (Nat \X Runs)
  <2>1. timers \in Tabs /\ heap \in SUBSET (Nat \X Runs)
    BY <1>0 DEF TypeOK, Tabs
  <2>2. DrainTouched(rs', timers) \subseteq Nat \X Runs
    BY <1>0, <1>6, <2>1, DrainIs
  <2>3. Push(r, rs', timers) \subseteq Nat \X Runs
    BY <1>0, <1>2, <1>6, <2>1, PushIs
  <2> QED BY <1>7, <2>1, <2>2, <2>3
<1>10. heap' \in SUBSET (Nat \X Runs)
  <2>1. PeekValid(h, rs', timers) \subseteq h
    BY <1>9, PeekKeeps
  <2> QED BY <1>8, <1>9, <2>1
<1>11. Back \in {"select", "sweep"} /\ (Back = "select" <=> turn.kind # "timer")
  BY DEF Back
<1>12. TypeOK'
  BY <1>0, <1>5, <1>6, <1>10, <1>11, NoTurnIs DEF TypeOK, States
<1>13. Clocks'
  <2>1. ASSUME NEW x \in Runs PROVE ClockAt(rs'[x], now')
    <3>1. ClockAt(rs'[x], now)
      BY <1>0, <1>4, <1>6 DEF Clocks, ClockOk
    <3> QED BY <1>5, <3>1
  <2>2. cutoff \in Nat /\ cutoff <= now /\ Reached(frozen, now)
    BY <1>0 DEF TypeOK, Clocks
  <2> QED BY <1>0, <1>5, <2>1, <2>2 DEF Clocks, ClockOk
<1>14. Tables' /\ Order'
  BY <1>0, <1>5, OrderOn DEF Tables
<1>15. TurnShape'
  <2>1. pc' = "select" => ev' = NoEvent
    BY <1>0, <1>5, <1>11 DEF TurnShape
  <2>2. ev' # NoEvent => cfg'.mode = "instance" /\ cutoff = ev'.at
    BY <1>0, <1>5 DEF TurnShape
  <2> QED BY <1>5, <1>11, <2>1, <2>2 DEF TurnShape
<1>16. Events'
  <2>1. \A x \in Runs : RowKeeps(x)
    BY <1>4, <1>5, <1>6 DEF RowKeeps
  <2> QED BY <1>0, <1>5, <2>1, EventsOn
<1>17. Logs'
  <2>1. \A x \in Runs : Live(x)' <=> Live(x)
    BY <1>4, <1>6 DEF Live
  <2> QED BY <1>0, <1>5, <2>1 DEF Logs, Lim, LastId
<1>18. Said'
  <2>1. Saying(u, out[r])
    BY <1>2, <1>4 DEF Saying
  <2>2. ASSUME NEW x \in Runs PROVE Saying(rs'[x], out'[x])
    BY <1>0, <1>5, <1>6, <2>1 DEF Said
  <2> QED BY <2>2 DEF Said
<1>19. ASSUME NEW x \in Runs, Alive(rs'[x]), NextDeadlineOf(x, rs'[x], timers[x]) # Never,
              cfg.mode = "instance"
       PROVE  <<NextDeadlineOf(x, rs'[x], timers[x]), x>> \in h
  <2>1. CASE x \in touched
    BY <1>0, <1>6, <1>7, <1>9, <1>19, <2>1, DrainIs
  <2>2. CASE x \notin touched /\ x # r
    <3>1. Heaped(x) /\ rs'[x] = rs[x]
      BY <1>0, <1>1, <1>6, <1>19, <2>2 DEF Queued
    <3> QED BY <1>7, <1>19, <3>1 DEF Heaped, NextDeadline, Live, Alive
  <2>3. CASE x = r
    <3>1. CASE Requeued(rs', timers)
      <4>1. <<NextDeadlineOf(x, rs'[x], timers[x]), x>> \in Push(r, rs', timers)
        BY <1>0, <1>2, <1>6, <1>9, <1>19, <2>3, PushIs
      <4> QED BY <1>7, <3>1, <4>1
    <3>2. CASE ~Requeued(rs', timers)
      <4>1. turn.kind = "frame" /\ NextDeadlineOf(r, rs'[r], timers[r]) = turn.queued
        BY <1>1, <3>2 DEF Requeued, Me
      <4>2. <<turn.queued, r>> \in heap
        BY <1>0, <1>1, <1>19, <2>3, <4>1 DEF Queued
      <4> QED BY <1>7, <2>3, <4>1, <4>2
    <3> QED BY <3>1, <3>2
  <2> QED BY <2>1, <2>2, <2>3
<1>20. ASSUME NEW x \in Runs, cfg.mode = "instance" PROVE Heaped(x)'
  <2>1. SUFFICES ASSUME Alive(rs'[x]), NextDeadlineOf(x, rs'[x], timers[x]) # Never
                 PROVE  <<NextDeadlineOf(x, rs'[x], timers[x]), x>> \in heap'
    BY <1>5, NextPrimed DEF Heaped
  <2>2. PICK d : d = NextDeadlineOf(x, rs'[x], timers[x])
    OBVIOUS
  <2>3. <<d, x>> \in h
    BY <1>19, <1>20, <2>1, <2>2
  <2>4. <<d, x>> \in ValidIn(h, rs', timers)
    BY <2>1, <2>2, <2>3, ValidIs
  <2>5. <<d, x>> \in PeekValid(h, rs', timers)
    BY <1>9, <2>4, PeekKeeps
  <2> QED BY <1>8, <1>20, <2>2, <2>5
<1>21. Queued' /\ Served'
  BY <1>5, <1>11, <1>20 DEF Queued, Served
<1> QED BY <1>12, <1>13, <1>14, <1>15, <1>16, <1>17, <1>18, <1>21 DEF LoopInv

\* An event arrives on the channel.
Arrived(e) ==
  /\ e \in Event /\ e.at = now /\ chan' = Append(chan, e) /\ pc \in {"select", "gap", "js"}
  /\ EventFits(e, now, rs', calls, host')
  /\ \A i \in 1 .. Len(chan) : PairOk(chan[i], e)
  /\ ev # NoEvent => PairOk(ev, e)
  /\ rs' \in States /\ host' \in [Runs -> SUBSET Nat]
  /\ \A x \in Runs : \/ rs'[x] = rs[x]
                     \/ /\ rs[x].phase = "new" /\ rs'[x] = [rs[x] EXCEPT !.phase = "queued"]
                        /\ \A i \in 1 .. Len(chan) : chan[i].run = x => chan[i].kind # "job"
                        /\ ev # NoEvent /\ ev.run = x => ev.kind # "job"
  /\ \A x \in Runs : host'[x] \subseteq host[x]
  /\ cfg' = cfg /\ now' = now /\ pc' = pc /\ ev' = ev /\ cutoff' = cutoff /\ turn' = turn
  /\ frozen' = frozen /\ heap' = heap /\ touched' = touched /\ timers' = timers
  /\ calls' = calls /\ lastCall' = lastCall /\ out' = out

\* A submitted run's row.
LEMMA QueuedRow ==
  ASSUME NEW s \in RunState, s.phase = "new", NEW u, u = [s EXCEPT !.phase = "queued"]
  PROVE  /\ u.phase = "queued" /\ u.parkedAt = s.parkedAt /\ u.entered = s.entered
         /\ u.kind = s.kind /\ u.early = s.early
  BY DEF RunState

\* An arrival preserves the invariant.
LEMMA ArrivedStays ==
  ASSUME LoopInv, NEW e, Arrived(e)
  PROVE  LoopInv'
<1>0. /\ TypeOK /\ Clocks /\ Tables /\ TurnShape /\ Events /\ Order /\ Queued /\ Logs /\ Said
      /\ chan \in Seq(Event) /\ ev \in Event \union {NoEvent} /\ now \in Nat
  BY DEF LoopInv, TypeOK
<1>1. ASSUME NEW x \in Runs
      PROVE  /\ rs[x] \in RunState
             /\ rs'[x] = rs[x] \/ /\ rs[x].phase = "new" /\ rs'[x].phase = "queued"
                                  /\ rs'[x].parkedAt = rs[x].parkedAt
                                  /\ rs'[x].entered = rs[x].entered
                                  /\ rs'[x].kind = rs[x].kind
                                  /\ \A i \in 1 .. Len(chan) : chan[i].run = x => chan[i].kind # "job"
                                  /\ ev # NoEvent /\ ev.run = x => ev.kind # "job"
  <2>1. rs[x] \in RunState
    BY <1>0 DEF TypeOK
  <2> QED BY <2>1, QueuedRow DEF Arrived
<1>2. e \in Event /\ chan' = Append(chan, e)
  BY DEF Arrived
<1>3. /\ chan' \in Seq(Event) /\ Len(chan') = Len(chan) + 1
      /\ \A i \in 1 .. Len(chan) : chan'[i] = chan[i]
      /\ chan'[Len(chan) + 1] = e /\ Len(chan) \in Nat
  BY <1>0, <1>2, AppendProperties
<1>4. TypeOK'
  BY <1>0, <1>3 DEF TypeOK, Arrived, States
<1>5. Clocks'
  <2>1. ASSUME NEW x \in Runs PROVE ClockAt(rs'[x], now')
    <3>1. ClockAt(rs'[x], now)
      BY <1>0, <1>1 DEF Clocks, ClockOk, ClockAt
    <3> QED BY <3>1 DEF Arrived
  <2> QED BY <1>0, <2>1 DEF Clocks, ClockOk, Arrived
<1>6. \A x \in Runs : Live(x)' <=> Live(x)
  BY <1>1 DEF Live
<1>7. Tables'
  BY <1>0 DEF Tables, Arrived
<1>8. TurnShape'
  BY <1>0, <1>6 DEF TurnShape, Arrived
<1>9. Logs'
  BY <1>0, <1>6 DEF Logs, Arrived, Lim, LastId
<1>10. Said'
  <2>1. ASSUME NEW x \in Runs PROVE Saying(rs'[x], out'[x])
    <3>1. Saying(rs'[x], out[x])
      BY <1>0, <1>1 DEF Said, Saying
    <3> QED BY <3>1 DEF Arrived
  <2> QED BY <2>1 DEF Said
<1>11. Served' /\ Queued'
  <2>1. \A x \in Runs : Heaped(x) => Heaped(x)'
    <3>1. ASSUME NEW x \in Runs, Heaped(x), Live(x)' PROVE Heaped(x)'
      <4>1. rs'[x] = rs[x] /\ timers'[x] = timers[x] /\ heap' = heap /\ cfg' = cfg
        BY <1>1, <3>1 DEF Arrived, Live
      <4>2. NextDeadline(x)' = NextDeadline(x) /\ Live(x)
        BY <1>6, <3>1, <4>1, NextPrimed DEF NextDeadline
      <4> QED BY <3>1, <4>1, <4>2 DEF Heaped
    <3> QED BY <3>1 DEF Heaped
  <2> QED BY <1>0, <2>1 DEF Queued, Served, Arrived
<1>12. Order'
  <2>1. ASSUME NEW i \in 1 .. Len(chan'), NEW j \in 1 .. Len(chan'), i < j
        PROVE  PairOk(chan'[i], chan'[j])
    <3>1. i \in 1 .. Len(chan) /\ chan'[i] = chan[i]
      BY <1>3, <2>1
    <3>2. CASE j \in 1 .. Len(chan)
      BY <1>0, <1>3, <2>1, <3>1, <3>2 DEF Order
    <3>3. CASE j = Len(chan) + 1
      BY <1>3, <3>1, <3>3 DEF Arrived
    <3> QED BY <1>3, <3>2, <3>3
  <2>2. ASSUME ev' # NoEvent, NEW i \in 1 .. Len(chan') PROVE PairOk(ev', chan'[i])
    <3>0. ev' = ev
      BY DEF Arrived
    <3>2. CASE i \in 1 .. Len(chan)
      BY <1>0, <1>3, <2>2, <3>0, <3>2 DEF Order
    <3>3. CASE i = Len(chan) + 1
      BY <1>3, <2>2, <3>0, <3>3 DEF Arrived
    <3> QED BY <1>3, <3>2, <3>3
  <2> QED BY <2>1, <2>2 DEF Order
<1>13. Events'
  <2>0. now' = now /\ calls' = calls /\ ev' = ev /\ \A x \in Runs : host'[x] \subseteq host[x]
    BY DEF Arrived
  <2>1. ASSUME NEW f \in Event, EventFits(f, now, rs, calls, host),
               f.kind # "job" \/ rs'[f.run] = rs[f.run]
        PROVE  EventFits(f, now', rs', calls', host')
    <3>1. f.run \in Runs
      BY DEF Event
    <3> QED BY <1>1, <2>0, <2>1, <3>1 DEF EventFits
  <2>2. ASSUME NEW i \in 1 .. Len(chan') PROVE EventFits(chan'[i], now', rs', calls', host')
    <3>2. CASE i \in 1 .. Len(chan)
      <4>1. chan[i] \in Event /\ EventFits(chan[i], now, rs, calls, host) /\ chan'[i] = chan[i]
        BY <1>0, <1>3, <3>2 DEF Events
      <4>2. chan[i].run \in Runs
        BY <4>1 DEF Event
      <4>3. chan[i].kind # "job" \/ rs'[chan[i].run] = rs[chan[i].run]
        BY <1>1, <3>2, <4>2
      <4> QED BY <2>1, <4>1, <4>3
    <3>3. CASE i = Len(chan) + 1
      BY <1>3, <2>0, <3>3 DEF Arrived
    <3> QED BY <1>3, <3>2, <3>3
  <2>3. ASSUME ev' # NoEvent PROVE EventFits(ev', now', rs', calls', host')
    <3>1. ev \in Event /\ EventFits(ev, now, rs, calls, host)
      BY <1>0, <2>0, <2>3 DEF Events
    <3>2. ev.run \in Runs
      BY <3>1 DEF Event
    <3>3. ev.kind # "job" \/ rs'[ev.run] = rs[ev.run]
      BY <1>1, <2>0, <2>3, <3>2
    <3> QED BY <2>0, <2>1, <3>1, <3>3
  <2> QED BY <2>2, <2>3 DEF Events
<1> QED BY <1>4, <1>5, <1>7, <1>8, <1>9, <1>10, <1>11, <1>12, <1>13 DEF LoopInv

\* An event on its way.
OnTheWay(f) == f \in Event /\ EventFits(f, now, rs, calls, host)

\* Those in the channel, and the one received.
LEMMA WayIs ==
  ASSUME LoopInv
  PROVE  /\ \A i \in 1 .. Len(chan) : OnTheWay(chan[i])
         /\ ev # NoEvent => OnTheWay(ev)
<1>1. chan \in Seq(Event) /\ ev \in Event \union {NoEvent} /\ Events
  BY DEF LoopInv, TypeOK
<1> QED BY <1>1 DEF OnTheWay, Events

\* A new event.
LEMMA NewEvent ==
  ASSUME NEW r \in Runs, NEW k \in {"job", "value", "error", "bad", "terminate", "lost"},
         NEW c \in Nat, now \in Nat,
         NEW e, e = [run |-> r, kind |-> k, at |-> now, call |-> c]
  PROVE  e \in Event /\ e.run = r /\ e.kind = k /\ e.at = now /\ e.call = c
  BY DEF Event

\* A submitted job arrives,
LEMMA SubmitIs ==
  ASSUME LoopInv, NEW r \in Runs, Submit(r)
  PROVE  LoopInv'
<1>0. TypeOK /\ now \in Nat /\ rs \in [Runs -> RunState] /\ host \in [Runs -> SUBSET Nat]
  BY DEF LoopInv, TypeOK
<1>1. PICK e : e = [run |-> r, kind |-> "job", at |-> now, call |-> NoId]
  OBVIOUS
<1>2. e \in Event /\ e.run = r /\ e.kind = "job" /\ e.at = now /\ e.call = NoId
  BY <1>0, <1>1, NewEvent DEF NoId
<1>3. /\ rs[r].phase = "new" /\ pc \in {"select", "gap", "js"} /\ chan' = Append(chan, e)
      /\ rs' = [rs EXCEPT ![r].phase = "queued"]
  BY <1>1 DEF Submit, Arrive
<1>4. PICK u : u = [rs[r] EXCEPT !.phase = "queued"]
  OBVIOUS
<1>5. rs[r] \in RunState /\ u \in RunState /\ u.phase = "queued"
  BY <1>0, <1>4 DEF RunState
<1>6. rs' = [rs EXCEPT ![r] = u]
  BY <1>3, <1>4
<1>7. rs' \in States /\ rs'[r] = u /\ \A x \in Runs : x # r => rs'[x] = rs[x]
  BY <1>0, <1>5, <1>6 DEF States
<1>8. ASSUME NEW f, OnTheWay(f) PROVE PairOk(f, e) /\ (f.run = r => f.kind # "job")
  <2>1. f.at <= now /\ (f.run = r => f.kind # "job" /\ f.call = NoId)
    BY <1>3, <1>8 DEF OnTheWay, EventFits
  <2> QED BY <1>2, <2>1 DEF PairOk
<1>9. EventFits(e, now, rs', calls, host')
  BY <1>0, <1>2, <1>5, <1>7 DEF EventFits
<1>10. /\ \A i \in 1 .. Len(chan) : PairOk(chan[i], e)
            /\ (chan[i].run = r => chan[i].kind # "job")
       /\ ev # NoEvent => PairOk(ev, e) /\ (ev.run = r => ev.kind # "job")
  BY <1>8, WayIs
<1>11. Arrived(e)
  BY <1>0, <1>2, <1>3, <1>4, <1>7, <1>9, <1>10 DEF Arrived, Submit
<1> QED BY <1>11, ArrivedStays

\* so does a handler's answer, which takes the call out of the host's hands,
LEMMA HostAnswerIs ==
  ASSUME LoopInv, NEW r \in Runs, NEW k \in {"value", "error", "bad"}, Answer(r, k)
  PROVE  LoopInv'
<1>0. /\ TypeOK /\ Logs /\ now \in Nat /\ rs \in [Runs -> RunState]
      /\ host \in [Runs -> SUBSET Nat] /\ calls \in [Runs -> Log]
  BY DEF LoopInv, TypeOK
<1>1. PICK c \in host[r] :
        /\ host' = [host EXCEPT ![r] = @ \ {c}]
        /\ Arrive([run |-> r, kind |-> k, at |-> now, call |-> c])
  BY DEF Answer
<1>2. PICK e : e = [run |-> r, kind |-> k, at |-> now, call |-> c]
  OBVIOUS
<1>3. c \in Nat
  BY <1>0
<1>4. e \in Event /\ e.run = r /\ e.kind = k /\ e.at = now /\ e.call = c
  BY <1>0, <1>2, <1>3, NewEvent
<1>5. pc \in {"select", "gap", "js"} /\ chan' = Append(chan, e)
  BY <1>1, <1>2 DEF Arrive
<1>6. c \in calls[r].resolvers
  BY <1>0 DEF Logs
<1>7. Live(r)
  <2>1. SUFFICES ASSUME ~Live(r) PROVE FALSE
    OBVIOUS
  <2>2. calls[r] = NoCalls
    BY <1>0, <2>1 DEF Logs
  <2> QED BY <1>6, <2>2 DEF NoCalls
<1>8. rs' = rs /\ host'[r] = host[r] \ {c} /\ (\A x \in Runs : x # r => host'[x] = host[x])
      /\ host' \in [Runs -> SUBSET Nat]
  BY <1>0, <1>1 DEF Answer
<1>9. ASSUME NEW f, OnTheWay(f) PROVE PairOk(f, e)
  <2>1. f.at <= now
    BY <1>9 DEF OnTheWay, EventFits
  <2>2. f.run = r /\ f.call = c => f.call = NoId
    BY <1>7, <1>9 DEF OnTheWay, EventFits, Live
  <2> QED BY <1>4, <2>1, <2>2 DEF PairOk
<1>10. EventFits(e, now, rs', calls, host')
  BY <1>0, <1>4, <1>6, <1>7, <1>8 DEF EventFits, Live
<1>11. /\ \A i \in 1 .. Len(chan) : PairOk(chan[i], e)
       /\ ev # NoEvent => PairOk(ev, e)
  BY <1>9, WayIs
<1>12. \A x \in Runs : host'[x] \subseteq host[x]
  BY <1>8
<1>13. Arrived(e)
  BY <1>0, <1>4, <1>5, <1>8, <1>10, <1>11, <1>12 DEF Arrived, Answer, States
<1> QED BY <1>13, ArrivedStays

\* and so does an abort or a lost connection.
LEMMA HostEndsIs ==
  ASSUME LoopInv, NEW r \in Runs, NEW k \in {"terminate", "lost"}, HostEnds(r, k)
  PROVE  LoopInv'
<1>0. /\ TypeOK /\ now \in Nat /\ rs \in [Runs -> RunState] /\ host \in [Runs -> SUBSET Nat]
  BY DEF LoopInv, TypeOK
<1>1. PICK e : e = [run |-> r, kind |-> k, at |-> now, call |-> NoId]
  OBVIOUS
<1>2. e \in Event /\ e.run = r /\ e.kind = k /\ e.at = now /\ e.call = NoId
  BY <1>0, <1>1, NewEvent DEF NoId
<1>3. pc \in {"select", "gap", "js"} /\ chan' = Append(chan, e) /\ rs' = rs
  BY <1>1 DEF HostEnds, Arrive
<1>4. host' \in [Runs -> SUBSET Nat] /\ \A x \in Runs : host'[x] \subseteq host[x]
  <2>1. PICK g : g = IF k = "lost" THEN {} ELSE host[r]
    OBVIOUS
  <2>2. g \in SUBSET Nat /\ g \subseteq host[r]
    BY <1>0, <2>1
  <2>3. host' = [host EXCEPT ![r] = g]
    BY <2>1 DEF HostEnds
  <2> QED BY <1>0, <2>2, <2>3
<1>5. ASSUME NEW f, OnTheWay(f) PROVE PairOk(f, e)
  <2>1. f.at <= now
    BY <1>5 DEF OnTheWay, EventFits
  <2> QED BY <1>2, <2>1 DEF PairOk
<1>6. EventFits(e, now, rs', calls, host')
  BY <1>0, <1>2 DEF EventFits
<1>7. /\ \A i \in 1 .. Len(chan) : PairOk(chan[i], e)
      /\ ev # NoEvent => PairOk(ev, e)
  BY <1>5, WayIs
<1>8. Arrived(e)
  BY <1>0, <1>2, <1>3, <1>4, <1>6, <1>7 DEF Arrived, HostEnds, States
<1> QED BY <1>8, ArrivedStays

\* The loop moves on, or time passes, with every run as it was.
Moved ==
  /\ cfg' = cfg /\ turn' = turn /\ frozen' = frozen /\ heap' = heap /\ touched' = touched
  /\ rs' = rs /\ timers' = timers /\ calls' = calls /\ lastCall' = lastCall
  /\ host' = host /\ out' = out
  /\ now' \in Nat /\ now <= now' /\ cutoff' \in Nat /\ cutoff' <= now'
  /\ \/ pc' = pc
     \/ pc \in {"select", "gap", "sweep", "deliver"}
          /\ pc' \in {"select", "gap", "sweep", "deliver"}

\* Moving on preserves the invariant, if the event kept is the right one.
LEMMA MovedStays ==
  ASSUME LoopInv, Moved, chan' \in Seq(Event), ev' \in Event \union {NoEvent},
         Events', Order', TurnShape', Served'
  PROVE  LoopInv'
<1>0. /\ TypeOK /\ Clocks /\ Tables /\ Queued /\ Logs /\ Said /\ now \in Nat /\ frozen \in Nat
  BY DEF LoopInv, TypeOK
<1>1. TypeOK'
  BY <1>0 DEF TypeOK, Moved
<1>2. Clocks'
  <2>1. ASSUME NEW x \in Runs PROVE ClockAt(rs'[x], now')
    <3>1. ClockAt(rs[x], now) /\ rs[x].parkedAt \in Nat /\ rs[x].entered \in Instants
      BY <1>0 DEF Clocks, ClockOk, TypeOK, RunState
    <3>2. rs' = rs /\ now' \in Nat /\ now <= now'
      BY DEF Moved
    <3> QED BY <1>0, <3>1, <3>2 DEF ClockAt, Instants
  <2>2. Reached(frozen, now) /\ now <= now' /\ now' \in Nat
    BY <1>0 DEF Clocks, Moved
  <2>3. Reached(frozen, now')
    BY <1>0, <2>2, ReachedOn
  <2> QED BY <2>1, <2>3 DEF Clocks, ClockOk, Moved
<1>3. Tables' /\ Said'
  BY <1>0 DEF Tables, Said, Moved
<1>4. Logs'
  BY <1>0 DEF Logs, Moved, Live, Lim, LastId
<1>5. Queued'
  <2>1. ASSUME NEW x \in Runs PROVE Heaped(x)' <=> Heaped(x)
    <3>1. rs' = rs /\ timers' = timers /\ heap' = heap /\ cfg' = cfg
      BY DEF Moved
    <3>2. NextDeadline(x)' = NextDeadline(x) /\ (Live(x)' <=> Live(x))
      BY <3>1, NextPrimed DEF NextDeadline
    <3> QED BY <3>1, <3>2 DEF Heaped
  <2> QED BY <1>0, <2>1 DEF Queued, Moved
<1> QED BY <1>1, <1>2, <1>3, <1>4, <1>5 DEF LoopInv

\* ... which it is when the channel is left alone.
LEMMA MovedEvents ==
  ASSUME LoopInv, Moved, chan' = chan, ev' \in {NoEvent, ev}
  PROVE  /\ Events' /\ Order' /\ chan' \in Seq(Event) /\ ev' \in Event \union {NoEvent}
<1>0. TypeOK /\ Events /\ Order
  BY DEF LoopInv
<1>1. \A x \in Runs : RowKeeps(x)
  BY DEF Moved, RowKeeps
<1>2. now' \in Nat /\ now <= now'
  BY DEF Moved
<1>3. Events' /\ Order'
  BY <1>0, <1>1, <1>2, EventsOn, OrderOn
<1> QED BY <1>0, <1>3 DEF TypeOK

-----------------------------------------------------------------------------
(* The loop moves on. *)

\* Time passes.
LEMMA TickIs ==
  ASSUME LoopInv, Tick
  PROVE  LoopInv'
<1>0. TypeOK /\ TurnShape /\ now \in Nat /\ cutoff \in Nat /\ cutoff <= now
  BY DEF LoopInv, TypeOK, Clocks
<1>1. /\ now' = now + 1 /\ pc \in {"select", "gap", "js"}
      /\ UNCHANGED <<cfg, pc, chan, ev, cutoff, turn, frozen, heap, touched, rs, timers, calls,
                     lastCall, host, out>>
  BY DEF Tick
<1>2. now' \in Nat /\ now <= now' /\ cutoff' \in Nat /\ cutoff' <= now'
  BY <1>0, <1>1
<1>3. Moved
  BY <1>1, <1>2 DEF Moved
<1>4. TurnShape'
  BY <1>0, <1>1 DEF TurnShape, Live
<1>5. Served'
  BY <1>1 DEF Served
<1>6. chan' = chan /\ ev' \in {NoEvent, ev}
  BY <1>1
<1> QED BY <1>3, <1>4, <1>5, <1>6, MovedEvents, MovedStays

\* The first event is received, and its arrival becomes the cutoff.
LEMMA ReceiveIs ==
  ASSUME LoopInv, Receive
  PROVE  LoopInv'
<1>0. /\ TypeOK /\ TurnShape /\ Events /\ Order /\ now \in Nat /\ chan \in Seq(Event)
  BY DEF LoopInv, TypeOK
<1>1. /\ pc = "select" /\ chan # <<>> /\ ev' = Head(chan) /\ chan' = Tail(chan)
      /\ pc' = (IF cfg.mode = "instance" THEN "sweep" ELSE "deliver")
      /\ cutoff' = (IF cfg.mode = "instance" THEN CutoffOf(Head(chan)) ELSE 0)
      /\ UNCHANGED <<cfg, now, turn, frozen, heap, touched, rs, timers, calls, lastCall, host, out>>
  BY DEF Receive
<1>2. /\ Len(chan) \in Nat /\ Len(chan) > 0 /\ Head(chan) = chan[1] /\ Tail(chan) \in Seq(Event)
      /\ Len(Tail(chan)) = Len(chan) - 1
      /\ \A i \in 1 .. Len(Tail(chan)) : Tail(chan)[i] = chan[i + 1]
  BY <1>0, <1>1, HeadTailProperties
<1>3. 1 \in 1 .. Len(chan) /\ \A i \in 1 .. Len(Tail(chan)) : i + 1 \in 1 .. Len(chan)
        /\ 1 < i + 1
  BY <1>2
<1>4. ev' = chan[1] /\ chan[1] \in Event /\ EventFits(chan[1], now, rs, calls, host)
  BY <1>0, <1>1, <1>2, <1>3 DEF Events
<1>5. chan[1].at \in Nat /\ chan[1].at <= now /\ chan[1].run \in Runs
  BY <1>4 DEF Event, EventFits
<1>6. ev' # NoEvent
  <2>1. chan[1].run # 0
    BY <1>5, RunsAre
  <2> QED BY <1>4, <2>1 DEF NoEvent
<1>7. cutoff' \in Nat /\ cutoff' <= now /\ (cfg.mode = "instance" => cutoff' = ev'.at)
  BY <1>0, <1>1, <1>2, <1>4, <1>5 DEF CutoffOf
<1>8. Moved
  BY <1>0, <1>1, <1>7 DEF Moved
<1>9. chan' \in Seq(Event) /\ ev' \in Event \union {NoEvent}
  BY <1>1, <1>2, <1>4
<1>10. TurnShape'
  BY <1>0, <1>1, <1>6, <1>7 DEF TurnShape
<1>11. Served'
  BY <1>1 DEF Served
<1>12. Events'
  <2>1. ASSUME NEW i \in 1 .. Len(chan') PROVE EventFits(chan'[i], now', rs', calls', host')
    <3>1. chan'[i] = chan[i + 1] /\ i + 1 \in 1 .. Len(chan)
      BY <1>1, <1>2, <1>3
    <3>2. EventFits(chan[i + 1], now, rs, calls, host)
      BY <1>0, <3>1 DEF Events
    <3> QED BY <1>1, <3>1, <3>2
  <2>2. EventFits(ev', now', rs', calls', host')
    BY <1>1, <1>4
  <2> QED BY <2>1, <2>2 DEF Events
<1>13. Order'
  <2>1. ASSUME NEW i \in 1 .. Len(chan'), NEW j \in 1 .. Len(chan'), i < j
        PROVE  PairOk(chan'[i], chan'[j])
    <3>1. /\ chan'[i] = chan[i + 1] /\ i + 1 \in 1 .. Len(chan)
          /\ chan'[j] = chan[j + 1] /\ j + 1 \in 1 .. Len(chan) /\ i + 1 < j + 1
      BY <1>1, <1>2, <1>3, <2>1
    <3> QED BY <1>0, <3>1 DEF Order
  <2>2. ASSUME NEW i \in 1 .. Len(chan') PROVE PairOk(ev', chan'[i])
    <3>1. chan'[i] = chan[i + 1] /\ i + 1 \in 1 .. Len(chan) /\ 1 < i + 1
      BY <1>1, <1>2, <1>3
    <3> QED BY <1>0, <1>3, <1>4, <3>1 DEF Order
  <2> QED BY <2>1, <2>2 DEF Order
<1> QED BY <1>8, <1>9, <1>10, <1>11, <1>12, <1>13, MovedStays

\* The wait times out.
LEMMA WaitEnds ==
  ASSUME LoopInv, TimedOut \/ ReadClock \/ TimedOutOne
  PROVE  LoopInv'
<1>0. TypeOK /\ TurnShape /\ now \in Nat /\ cutoff \in Nat /\ cutoff <= now
  BY DEF LoopInv, TypeOK, Clocks
<1>1. /\ pc \in {"select", "gap"} /\ pc' \in {"gap", "sweep"} /\ cutoff' \in {cutoff, now}
      /\ UNCHANGED <<cfg, now, chan, ev, turn, frozen, heap, touched, rs, timers,
                     calls, lastCall, host, out>>
  BY DEF TimedOut, ReadClock, TimedOutOne
<1>2. Moved
  BY <1>0, <1>1 DEF Moved
<1>3. TurnShape'
  BY <1>0, <1>1 DEF TurnShape
<1>4. Served'
  BY <1>1 DEF Served
<1>5. chan' = chan /\ ev' \in {NoEvent, ev}
  BY <1>1
<1> QED BY <1>2, <1>3, <1>4, <1>5, MovedEvents, MovedStays

\* When nothing is due, every deadline lies after the cutoff: the top of the
\* heap does, and it is the nearest.
LEMMA NothingDueIs ==
  ASSUME LoopInv, pc = "sweep", NothingDue, cfg.mode = "instance", NEW r \in Runs, Live(r),
         NextDeadline(r) # Never
  PROVE  NextDeadline(r) > cutoff
<1>0. TypeOK /\ Queued /\ cutoff \in Nat /\ heap \in SUBSET (Nat \X Runs)
  BY DEF LoopInv, TypeOK
<1>1. PICK d : d = NextDeadline(r)
  OBVIOUS
<1>2. <<d, r>> \in heap
  BY <1>0, <1>1 DEF Queued, Heaped
<1>3. <<d, r>> \in ValidIn(heap, rs, timers)
  BY <1>1, <1>2, ValidIs DEF NextDeadline, Live, Alive
<1>4. PICK e \in Top : e[1] <= d
  BY <1>0, <1>3, TopIs
<1>5. e[1] \in Nat /\ e[2] \in Runs
  BY <1>0, TopEntry
<1>6. ~(e[1] <= cutoff)
  BY <1>5 DEF NothingDue, DueTimer, DueBoundary
<1>7. d \in Nat
  BY <1>0, <1>2
<1> QED BY <1>0, <1>1, <1>4, <1>5, <1>6, <1>7

\* The deadlines up to the cutoff are served, and the event is next.
LEMMA SweepDoneIs ==
  ASSUME LoopInv, SweepDone
  PROVE  LoopInv'
<1>0. TypeOK /\ TurnShape /\ now \in Nat
  BY DEF LoopInv, TypeOK
<1>1. /\ pc = "sweep" /\ NothingDue /\ cutoff' = 0
      /\ pc' = (IF ev = NoEvent THEN "select" ELSE "deliver")
      /\ UNCHANGED <<cfg, now, chan, ev, turn, frozen, heap, touched, rs, timers, calls,
                     lastCall, host, out>>
  BY DEF SweepDone
<1>2. Moved
  BY <1>0, <1>1 DEF Moved
<1>3. TurnShape'
  BY <1>0, <1>1 DEF TurnShape
<1>4. Served'
  <2>1. ASSUME cfg'.mode = "instance", pc' = "deliver", NEW r \in Runs, Live(r)',
               NextDeadline(r)' # Never
        PROVE  NextDeadline(r)' > ev'.at
    <3>1. NextDeadline(r)' = NextDeadline(r) /\ Live(r)
      BY <1>1, <2>1, NextPrimed DEF NextDeadline
    <3>2. cfg.mode = "instance" /\ ev # NoEvent
      BY <1>1, <2>1
    <3>3. cutoff = ev.at
      BY <1>0, <1>1, <3>2 DEF TurnShape
    <3>4. NextDeadline(r) > cutoff
      BY <1>1, <2>1, <3>1, <3>2, NothingDueIs
    <3> QED BY <1>1, <3>1, <3>3, <3>4
  <2> QED BY <2>1 DEF Served
<1>5. chan' = chan /\ ev' \in {NoEvent, ev}
  BY <1>1
<1> QED BY <1>2, <1>3, <1>4, <1>5, MovedEvents, MovedStays

\* A late event is discarded.
LEMMA DiscardIs ==
  ASSUME LoopInv, DiscardLate
  PROVE  LoopInv'
<1>0. TypeOK /\ TurnShape /\ now \in Nat /\ cutoff \in Nat /\ cutoff <= now
  BY DEF LoopInv, TypeOK, Clocks
<1>1. /\ pc = "deliver" /\ ev' = NoEvent /\ pc' = "select"
      /\ UNCHANGED <<cfg, now, chan, cutoff, turn, frozen, heap, touched, rs, timers, calls,
                     lastCall, host, out>>
  BY DEF DiscardLate
<1>2. Moved
  BY <1>0, <1>1 DEF Moved
<1>3. TurnShape'
  BY <1>0, <1>1 DEF TurnShape
<1>4. Served'
  BY <1>1 DEF Served
<1>5. chan' = chan /\ ev' \in {NoEvent, ev}
  BY <1>1
<1> QED BY <1>2, <1>3, <1>4, <1>5, MovedEvents, MovedStays

\* Guest code is a step of one run.
LEMMA GuestIs ==
  ASSUME LoopInv, GuestStep \/ InvokeCall
  PROVE  pc = "js" /\ \E b \in Runs : GuestShape(b)
<1>1. TypeOK /\ Tables /\ Logs /\ TurnShape
  BY DEF LoopInv
<1>2. CASE Killed
  <2>1. pc = "js"
    BY <1>2 DEF Killed
  <2> QED BY <1>1, <1>2, <2>1, KilledIs
<1>3. CASE InvokeCall
  <2>1. pc = "js"
    BY <1>3 DEF InvokeCall
  <2> QED BY <1>1, <1>3, <2>1, InvokeIs
<1>4. ASSUME NEW b \in Runs,
             \/ \E d \in cfg.delays : GuestSetsTimer(b, d)
             \/ GuestTimerRefused(b) \/ GuestClearsTimer(b)
             \/ GuestCalls(b) \/ GuestCallRefused(b) \/ GuestCallFatal(b) \/ GuestCallCut(b)
             \/ GuestWaits(b) \/ GuestWorkSettles(b) \/ GuestSettles(b)
      PROVE  GuestShape(b)
  BY <1>1, <1>4, SetsTimerIs, TimerRefusedIs, ClearsTimerIs, CallsIs, CallRefusedIs, CallFatalIs,
     CallCutIs, WaitsIs, WorkSettlesIs, SettlesIs
<1>5. \A b \in Runs : GuestShape(b) => pc = "js"
  BY DEF GuestShape
<1> QED BY <1>2, <1>3, <1>4, <1>5 DEF GuestStep

-----------------------------------------------------------------------------
(* The invariant holds. *)

\* The invariant holds at first.
LEMMA InitInv == Init => LoopInv
<1>0. SUFFICES ASSUME Init PROVE LoopInv
  OBVIOUS
<1>1. \A r \in Runs : rs[r] = NewRun /\ timers[r] = EmptyTimers /\ calls[r] = NoCalls
                      /\ host[r] = {} /\ out[r] = <<>>
  BY <1>0 DEF Init
<1>2. /\ now = 0 /\ pc = "select" /\ chan = <<>> /\ ev = NoEvent /\ cutoff = 0 /\ turn = NoTurn
      /\ frozen = 0 /\ heap = {} /\ touched = {} /\ cfg \in Setups
      /\ lastCall = [c \in Runs |-> 0]
  BY <1>0 DEF Init, NoId
<1>3. NewRun \in RunState /\ NewRun.phase = "new" /\ NewRun.kind = "none" /\ NewRun.parkedAt = 0
      /\ NewRun.entered = Never
  BY DEF NewRun, RunState, Instants
<1>4. NoCalls \in Log /\ LogOk(NoCalls, 0) /\ NoCalls.resolvers = {}
  BY NoCallsIs
<1>5. EmptyTimers \in Table /\ TableOk(EmptyTimers)
  BY NoTimers
<1>6. TypeOK
  <2>1. chan \in Seq(Event)
    BY <1>2
  <2>2. PICK W : W = {"early", "result", "complete"}
    OBVIOUS
  <2>3. <<>> \in Seq(W)
    OBVIOUS
  <2>4. out \in [Runs -> Seq({"early", "result", "complete"})]
    BY <1>0, <2>2, <2>3 DEF Init
  <2>5. rs \in [Runs -> RunState] /\ timers \in [Runs -> Table] /\ calls \in [Runs -> Log]
        /\ host \in [Runs -> SUBSET Nat]
    BY <1>0, <1>3, <1>4, <1>5 DEF Init
  <2> QED BY <1>2, <2>1, <2>4, <2>5, NoTurnIs DEF TypeOK
<1>7. Clocks
  <2>1. Reached(frozen, now)
    BY <1>2, TimerAssumption DEF Reached
  <2> QED BY <1>1, <1>2, <1>3, <2>1 DEF Clocks, ClockOk, ClockAt
<1>8. Tables
  BY <1>1, <1>5 DEF Tables
<1>9. TurnShape
  BY <1>2 DEF TurnShape
<1>10. 1 .. Len(chan) = {}
  BY <1>2
<1>11. Events /\ Order
  BY <1>2, <1>10 DEF Events, Order
<1>12. \A r \in Runs : ~Live(r)
  BY <1>1, <1>3 DEF Live
<1>13. Queued /\ Served
  BY <1>2, <1>12 DEF Queued, Served, Heaped
<1>14. Logs
  <2>1. \A r \in Runs : LastId(r) = 0
    BY <1>2, <1>6, LimIs DEF LastId
  <2> QED BY <1>1, <1>4, <2>1 DEF Logs
<1>15. Said
  BY <1>1, <1>3 DEF Said, Saying
<1> QED BY <1>6, <1>7, <1>8, <1>9, <1>11, <1>13, <1>14, <1>15 DEF LoopInv

\* ... and when nothing changes.
LEMMA StutterInv == LoopInv /\ UNCHANGED vars => LoopInv'
<1>1. SUFFICES ASSUME LoopInv, UNCHANGED vars PROVE LoopInv'
  OBVIOUS
<1>0. /\ TypeOK /\ TurnShape /\ Served /\ now \in Nat /\ cutoff \in Nat /\ cutoff <= now
  BY <1>1 DEF LoopInv, TypeOK, Clocks
<1>2. Moved /\ chan' = chan /\ ev' = ev
  BY <1>0, <1>1 DEF vars, Moved
<1>3. TurnShape'
  BY <1>0, <1>1 DEF TurnShape, Live, vars
<1>4. Served'
  <2>1. rs' = rs /\ timers' = timers /\ cfg' = cfg /\ pc' = pc /\ ev' = ev
    BY <1>1 DEF vars
  <2>2. \A r : NextDeadline(r)' = NextDeadline(r) /\ (Live(r)' <=> Live(r))
    BY <2>1, NextPrimed DEF NextDeadline
  <2> QED BY <1>0, <2>1, <2>2 DEF Served
<1> QED BY <1>1, <1>2, <1>3, <1>4, MovedEvents, MovedStays

\* What a step can be.
LEMMA StepKinds ==
  ASSUME LoopInv, Next
  PROVE  \/ Receive \/ TimedOut \/ ReadClock \/ TimedOutOne \/ SweepDone \/ DiscardLate \/ Tick
         \/ StartOneOff \/ DeliverJob \/ DeliverAnswer
         \/ \E r \in Runs : SweepTimer(r) \/ SweepWall(r) \/ SweepGraceWall(r)
         \/ DeliverEnds \/ TurnEnds
         \/ pc = "js" /\ \E b \in Runs : GuestShape(b)
         \/ EnterGrace \/ EndPark
         \/ \E r \in Runs : \/ Submit(r)
                            \/ \E k \in {"value", "error", "bad"} : Answer(r, k)
                            \/ \E k \in {"terminate", "lost"} : HostEnds(r, k)
<1>1. CASE LoopStep
  BY <1>1 DEF LoopStep, DeliverEnds
<1>2. CASE GuestStep \/ InvokeCall
  BY <1>2, GuestIs
<1>3. CASE TurnStep /\ ~InvokeCall
  BY <1>3 DEF TurnStep, TurnEnds
<1>4. CASE HostStep
  BY <1>4 DEF HostStep
<1> QED BY <1>1, <1>2, <1>3, <1>4 DEF Next

\* Every step preserves the invariant.
LEMMA StepInv == LoopInv /\ [Next]_vars => LoopInv'
<1>0. SUFFICES ASSUME LoopInv, Next PROVE LoopInv'
  BY StutterInv
<1>1. CASE Receive \/ TimedOut \/ ReadClock \/ TimedOutOne \/ SweepDone \/ DiscardLate \/ Tick
  BY <1>0, <1>1, ReceiveIs, WaitEnds, SweepDoneIs, DiscardIs, TickIs
<1>2. CASE StartOneOff \/ DeliverJob \/ DeliverAnswer
  BY <1>0, <1>2, OneOffIs, JobIs, AnswerIs
<1>3. ASSUME NEW r \in Runs, SweepTimer(r) \/ SweepWall(r) \/ SweepGraceWall(r) PROVE LoopInv'
  <2>1. CASE SweepTimer(r)
    BY <1>0, <2>1, SweepTimerIs
  <2>2. CASE SweepWall(r)
    BY <1>0, <2>2, WallIs, ConcludeStays
  <2>3. CASE SweepGraceWall(r)
    BY <1>0, <2>3, GraceWallIs, ConcludeStays
  <2> QED BY <1>3, <2>1, <2>2, <2>3
<1>4. CASE DeliverEnds
  BY <1>0, <1>4, DeliverEndsIs, ConcludeStays
<1>5. CASE TurnEnds
  BY <1>0, <1>5, TurnEndsIs, ConcludedStays
<1>6. CASE \E b \in Runs : GuestShape(b)
  BY <1>0, <1>6, GuestStays
<1>7. CASE EnterGrace \/ EndPark
  BY <1>0, <1>7, EnterGraceIs, ParkIs
<1>8. ASSUME NEW r \in Runs, \/ Submit(r)
                             \/ \E k \in {"value", "error", "bad"} : Answer(r, k)
                             \/ \E k \in {"terminate", "lost"} : HostEnds(r, k)
      PROVE  LoopInv'
  BY <1>0, <1>8, SubmitIs, HostAnswerIs, HostEndsIs
<1> QED BY <1>0, <1>1, <1>2, <1>3, <1>4, <1>5, <1>6, <1>7, <1>8, StepKinds

\* The inductive invariant holds in every reachable state of serve_instance
\* and run_call_phase.
THEOREM LoopInvariant == Spec => []LoopInv
<1>1. Init => LoopInv
  BY InitInv
<1>2. LoopInv /\ [Next]_vars => LoopInv'
  BY StepInv
<1> QED BY <1>1, <1>2, PTL DEF Spec

\* Every variable keeps its type.
THEOREM LoopTypes == Spec => []TypeOK
<1>1. LoopInv => TypeOK
  BY DEF LoopInv
<1> QED BY <1>1, LoopInvariant, PTL

\* Between turns the heap of serve_instance knows the next deadline of every
\* suspended run, also of a run whose timers another run's turn set or cleared
\* (drain_touched_timers) and of one whose event path did not re-queue it:
\* nobody is left that no timeout wakes.
THEOREM DeadlinesAreQueued == Spec => []DeadlineQueued
<1>1. LoopInv => DeadlineQueued
  BY DEF LoopInv, Queued, Heaped, DeadlineQueued
<1> QED BY <1>1, LoopInvariant, PTL

\* An answer on its way to a live run has its resolver waiting.
LEMMA AnswersAre ==
  ASSUME LoopInv, NEW r \in Runs, Live(r)
  PROVE  Answers(r) \subseteq calls[r].resolvers
<1>1. ASSUME NEW i \in 1 .. Len(chan), chan[i].run = r, chan[i].call # NoId
      PROVE  chan[i].call \in calls[r].resolvers
  <2>1. EventFits(chan[i], now, rs, calls, host)
    BY WayIs DEF OnTheWay
  <2> QED BY <1>1, <2>1 DEF EventFits, Live
<1>2. ASSUME ev.run = r, ev.call # NoId PROVE ev.call \in calls[r].resolvers
  <2>1. ev # NoEvent
    BY <1>2 DEF NoEvent
  <2>2. EventFits(ev, now, rs, calls, host)
    BY <2>1, WayIs DEF OnTheWay
  <2> QED BY <1>2, <2>2 DEF EventFits, Live
<1> QED BY <1>1, <1>2 DEF Answers

\* The call log of bridge.rs is exact for any number of calls: each unanswered
\* record has its one in-flight index and resolver, the host and the channel
\* hold only calls with a resolver, no id is in flight twice on one connection
\* and the limit is kept.
THEOREM CallsAreAccounted == Spec => []CallsAccounted
<1>1. LoopInv => CallsAccounted
  <2>0. SUFFICES ASSUME LoopInv PROVE CallsAccounted
    OBVIOUS
  <2>1. TypeOK /\ Logs
    BY <2>0 DEF LoopInv
  <2>2. ASSUME NEW r \in Runs, Live(r)
        PROVE  LET l == calls[r]
                   unanswered == {i \in DOMAIN l.records : l.records[i].outcome = "unanswered"}
               IN  /\ l.resolvers = {f.call : f \in l.inFlight}
                   /\ unanswered = {f.idx : f \in l.inFlight}
                   /\ \A f \in l.inFlight : l.records[f.idx].call = f.call
                   /\ host[r] \union Answers(r) \subseteq l.resolvers
                   /\ MaxCalls > 0 =>
                        Cardinality({i \in DOMAIN l.records : l.records[i].call # NoId}) <= MaxCalls
                   /\ \A b \in Runs \ {r} : Live(b) /\ Lim(b).conn = Lim(r).conn =>
                        l.resolvers \intersect calls[b].resolvers = {}
    <3>1. PICK l : l = calls[r]
      OBVIOUS
    <3>2. l \in Log /\ LogOk(l, LastId(r)) /\ host[r] \subseteq l.resolvers
      BY <2>1, <3>1 DEF TypeOK, Logs
    <3>3. l.records \in Seq(Rec) /\ DOMAIN l.records = 1 .. Len(l.records)
      BY <3>2, LogFields
    <3>4. {i \in DOMAIN l.records : l.records[i].outcome = "unanswered"}
            = {f.idx : f \in l.inFlight}
      <4>1. \A i \in 1 .. Len(l.records) :
              l.records[i].outcome = "unanswered" <=> \E f \in l.inFlight : f.idx = i
        BY <3>2 DEF LogOk
      <4>2. \A f \in l.inFlight : f.idx \in 1 .. Len(l.records)
        BY <3>2 DEF LogOk
      <4> QED BY <3>3, <4>1, <4>2
    <3>5. {i \in DOMAIN l.records : l.records[i].call # NoId} = Sent(l)
      BY <3>3 DEF Sent
    <3>6. /\ l.resolvers = {f.call : f \in l.inFlight}
          /\ \A f \in l.inFlight : l.records[f.idx].call = f.call
          /\ MaxCalls > 0 => Cardinality(Sent(l)) <= MaxCalls
      BY <3>2 DEF LogOk
    <3>7. Answers(r) \subseteq l.resolvers
      BY <2>0, <2>2, <3>1, AnswersAre
    <3>8. \A b \in Runs \ {r} : Lim(b).conn = Lim(r).conn =>
            l.resolvers \intersect calls[b].resolvers = {}
      BY <2>1, <3>1 DEF Logs
    <3> QED BY <3>1, <3>2, <3>4, <3>5, <3>6, <3>7, <3>8
  <2> QED BY <2>2 DEF CallsAccounted
<1> QED BY <1>1, LoopInvariant, PTL

-----------------------------------------------------------------------------
(* The time a run is billed for. *)

\* The wait that ended at w, no later than the deadline, is within the budget,
\* and at the deadline it fills it.
LEMMA BillIs ==
  ASSUME TypeOK, NEW r \in Runs, Lim(r).wall > 0, rs[r].phase = "settling", ClockOk(rs[r]),
         NEW w \in Nat, w <= DeadlineInstant(r, rs[r]), NEW u, u = EnterTurn(rs[r], w)
  PROVE  /\ DeadlineInstant(r, rs[r]) \in Nat
         /\ u.counted <= Later(Lim(r).wall, rs[r].counted)
         /\ w = DeadlineInstant(r, rs[r]) => u.counted >= Lim(r).wall
         /\ CountedWall(u) = u.counted /\ u.phase = "settling"
<1>1. rs[r] \in RunState /\ now \in Nat
  BY DEF TypeOK
<1>2. PICK c \in Nat : c = rs[r].counted
  BY <1>1 DEF RunState
<1>3. PICK p \in Nat : p = rs[r].parkedAt
  BY <1>1 DEF RunState
<1>4. PICK cap \in Nat : cap = Lim(r).wall
  BY LimIs
<1>5. PICK m \in Nat : m = Remaining(cap, c)
  BY RemainingIs
<1>6. c + m = Later(cap, c) /\ c + m >= cap
  BY <1>5, RemainingIs, LaterIs
<1>7. DeadlineInstant(r, rs[r]) = p + m
  BY <1>2, <1>3, <1>4, <1>5 DEF DeadlineInstant
<1>8. u.counted = c + (IF w > p THEN w - p ELSE 0) /\ u.phase = "settling" /\ u.entered = now
        /\ u \in RunState
  BY <1>1, <1>2, <1>3, EnterIs
<1>9. ClockOk(u)
  BY <1>1, EnterClock
<1>10. CountedWall(u) = u.counted
  BY <1>8, <1>9, CountedIs
<1>11. u.counted <= c + m
  BY <1>7, <1>8
<1>12. w = p + m => u.counted >= cap
  BY <1>6, <1>8
<1> QED BY <1>2, <1>4, <1>6, <1>7, <1>8, <1>10, <1>11, <1>12

\* The next deadline of a run with a wall is no later than the wall's.
LEMMA NextBeforeWall ==
  ASSUME TypeOK, NEW r \in Runs, Lim(r).wall > 0, rs[r].phase = "settling"
  PROVE  /\ DeadlineInstant(r, rs[r]) \in Nat /\ NextDeadline(r) \in Nat
         /\ NextDeadline(r) <= DeadlineInstant(r, rs[r])
<1>1. rs[r] \in RunState /\ timers[r] \in Table
  BY DEF TypeOK
<1>2. rs[r].parkedAt \in Nat /\ rs[r].counted \in Nat /\ Lim(r).wall \in Nat
  BY <1>1, LimIs DEF RunState
<1>3. Remaining(Lim(r).wall, rs[r].counted) \in Nat
  BY <1>2, RemainingIs
<1>4. DeadlineInstant(r, rs[r]) \in Nat
  BY <1>2, <1>3 DEF DeadlineInstant
<1>5. DeadlineInstant(r, rs[r]) # Never
  BY <1>4, NeverApart
<1>6. NextDeadlineOf(r, rs[r], timers[r]) # Never
  BY <1>1, <1>5, NextIs
<1> QED BY <1>1, <1>4, <1>5, <1>6, NextIs DEF NextDeadline, Instants

\* The action WallHonest is about.
WallStep ==
  \A r \in Runs :
    cfg.mode = "instance" /\ pc # "js" /\ Lim(r).wall > 0
      /\ rs[r].phase = "settling" /\ rs'[r] # rs[r] =>
      LET c == IF rs'[r].phase = "done" THEN rs'[r].wall ELSE rs'[r].counted
      IN  /\ c <= Later(Lim(r).wall, rs[r].counted)
          /\ rs'[r].kind = "wall" => c >= Lim(r).wall

\* ... for one run.
Billed(r) ==
  LET c == IF rs'[r].phase = "done" THEN rs'[r].wall ELSE rs'[r].counted
  IN  /\ c <= Later(Lim(r).wall, rs[r].counted)
      /\ rs'[r].kind = "wall" => c >= Lim(r).wall

\* A turn that begins at its run's due timer, or at an event, bills no more
\* than is left.
LEMMA BegunBilled ==
  ASSUME LoopInv, NEW r \in Runs, Lim(r).wall > 0, rs[r].phase = "settling",
         NEW x, NEW w \in Nat, Begun(x, EnterTurn(rs[x], w)), rs'[r] # rs[r],
         x = r => w <= DeadlineInstant(r, rs[r])
  PROVE  Billed(r)
<1>1. TypeOK /\ ClockOk(rs[r])
  BY DEF LoopInv, Clocks
<1>2. PICK u : u = EnterTurn(rs[x], w)
  OBVIOUS
<1>3. x = r /\ rs'[r] = u
  BY <1>1, <1>2, BegunRow
<1>4. u.counted <= Later(Lim(r).wall, rs[r].counted) /\ u.phase = "settling"
  BY <1>1, <1>2, <1>3, BillIs
<1>5. u.kind # "wall"
  <2>1. rs[r] \in RunState /\ Alive(rs[r])
    BY <1>1 DEF TypeOK, Alive
  <2>2. rs[r].kind = "none"
    BY <2>1, Kindless
  <2> QED BY <1>1, <1>2, <1>3, <2>1, <2>2, EnterClock
<1> QED BY <1>3, <1>4, <1>5 DEF Billed

\* A run that ends without an interruption ends alone.
LEMMA ConcludeOne ==
  ASSUME LoopInv, NEW x, NEW s, NEW kind, NEW back, Concludes(x, s, kind, FALSE, back)
  PROVE  /\ x \in Runs /\ kind \in Ends /\ rs'[x] = DoneRun(s, kind)
         /\ \A y \in Runs : y # x => rs'[y] = rs[y]
<1>1. PICK t : t = FALSE
  OBVIOUS
<1>2. Concludes(x, s, kind, t, back)
  BY <1>1
<1>3. Swept(x, t) = {}
  BY <1>1 DEF Swept
<1>4. Gone(x, t) = {x}
  BY <1>3 DEF Gone
<1>5. rs'[x] = DoneRun(s, kind) /\ \A y \in Runs \ Gone(x, t) : rs'[y] = rs[y]
  BY <1>2, ConcludeRows
<1>6. x \in Runs /\ kind \in Ends
  BY DEF Concludes
<1> QED BY <1>4, <1>5, <1>6

\* Nor does a run that ends there.
LEMMA ConcludeBilled ==
  ASSUME LoopInv, NEW r \in Runs, Lim(r).wall > 0, rs[r].phase = "settling",
         NEW x, NEW w \in Nat, NEW kind, NEW back,
         Concludes(x, EnterTurn(rs[x], w), kind, FALSE, back), rs'[r] # rs[r],
         cfg.mode = "instance",
         x = r => w <= DeadlineInstant(r, rs[r])
           /\ (kind = "wall" => w = DeadlineInstant(r, rs[r]))
  PROVE  Billed(r)
<1>1. TypeOK /\ ClockOk(rs[r]) /\ rs[r] \in RunState
  BY DEF LoopInv, Clocks, TypeOK
<1>2. PICK u : u = EnterTurn(rs[x], w)
  OBVIOUS
<1>8. Concludes(x, u, kind, FALSE, back)
  BY <1>2
<1>9. kind \in Ends /\ rs'[x] = DoneRun(u, kind) /\ \A y \in Runs : y # x => rs'[y] = rs[y]
  BY <1>8, ConcludeOne
<1>3. x = r
  BY <1>9
<1>4. rs'[r] = DoneRun(u, kind) /\ kind \in Ends
  BY <1>3, <1>9
<1>5. u \in RunState /\ ClockOk(u)
  BY <1>1, <1>2, <1>3, EnterClock
<1>6. rs'[r].phase = "done" /\ rs'[r].kind = kind /\ rs'[r].wall = CountedWall(u)
  BY <1>1, <1>4, <1>5, DoneIs DEF Ends
<1>7. /\ u.counted <= Later(Lim(r).wall, rs[r].counted)
      /\ w = DeadlineInstant(r, rs[r]) => u.counted >= Lim(r).wall
      /\ CountedWall(u) = u.counted
  BY <1>1, <1>2, <1>3, BillIs
<1> QED BY <1>3, <1>6, <1>7 DEF Billed

\* enter_turn never bills a suspended run more than its budget had left,
\* however late serve_instance gets to it, and a run fails at its wall only
\* when its counted time has reached it.
THEOREM WallsAreHonest == Spec => WallHonest
<1>1. LoopInv /\ [Next]_vars => [WallStep]_vars
  <2>0. SUFFICES ASSUME LoopInv, Next, NEW r \in Runs, cfg.mode = "instance", pc # "js",
                        Lim(r).wall > 0, rs[r].phase = "settling", rs'[r] # rs[r]
                 PROVE  Billed(r)
    BY DEF WallStep, Billed
  <2>1. TypeOK /\ TurnShape /\ Served /\ Live(r)
    BY <2>0 DEF LoopInv, Live
  <2>2. /\ DeadlineInstant(r, rs[r]) \in Nat /\ NextDeadline(r) \in Nat
        /\ NextDeadline(r) <= DeadlineInstant(r, rs[r])
    BY <2>0, <2>1, NextBeforeWall
  <2>3. pc = "deliver" => ev.at \in Nat /\ ev.run \in Runs /\ ev.at <= DeadlineInstant(r, rs[r])
    <3>1. SUFFICES ASSUME pc = "deliver"
                   PROVE  ev.at \in Nat /\ ev.run \in Runs /\ ev.at <= DeadlineInstant(r, rs[r])
      OBVIOUS
    <3>2. ev.at \in Nat /\ ev.run \in Runs
      BY <2>0, <3>1, EventIs
    <3>3. NextDeadline(r) > ev.at
      BY <2>0, <2>1, <2>2, <3>1, NeverApart DEF Served
    <3> QED BY <2>2, <3>2, <3>3
  <2>4. ~(Receive \/ TimedOut \/ ReadClock \/ TimedOutOne \/ SweepDone \/ DiscardLate \/ Tick)
    BY <2>0 DEF Receive, TimedOut, ReadClock, TimedOutOne, SweepDone, DiscardLate, Tick
  <2>5. ~(StartOneOff \/ EnterGrace \/ EndPark)
    BY <2>0 DEF StartOneOff, EnterGrace, EndPark, Undisturbed, Suspends
  <2>6. ~TurnEnds
    BY <2>0, TurnEndsIs
  <2>7. ASSUME NEW x \in Runs PROVE ~Submit(x)
    <3>1. SUFFICES ASSUME Submit(x) PROVE FALSE
      OBVIOUS
    <3>2. rs \in [Runs -> RunState]
      BY <2>1 DEF TypeOK
    <3>3. x # r /\ rs' = [rs EXCEPT ![x].phase = "queued"]
      BY <2>0, <3>1 DEF Submit
    <3> QED BY <2>0, <3>2, <3>3
  <2>8. ASSUME NEW x \in Runs, NEW k PROVE ~Answer(x, k) /\ ~HostEnds(x, k)
    BY <2>0 DEF Answer, HostEnds
  <2>9. ~DeliverJob
    <3>1. SUFFICES ASSUME DeliverJob PROVE FALSE
      OBVIOUS
    <3>2. rs[ev.run].phase = "queued"
      BY <2>0, <3>1, JobIs
    <3>3. rs' = [rs EXCEPT ![ev.run] = Started(ev.run)] /\ ev.run # r
      BY <2>0, <3>1, <3>2 DEF DeliverJob, StartTurn
    <3>4. rs \in [Runs -> RunState]
      BY <2>1 DEF TypeOK
    <3> QED BY <2>0, <3>3, <3>4
  <2>10. CASE DeliverAnswer
    <3>1. pc = "deliver" /\ Begun(ev.run, EnterTurn(rs[ev.run], ev.at))
      BY <2>0, <2>10, AnswerIs DEF DeliverAnswer
    <3> QED BY <2>0, <2>3, <3>1, BegunBilled
  <2>11. ASSUME NEW x \in Runs, SweepTimer(x) PROVE Billed(r)
    <3>1. PICK w : w = PeekDeadline(timers[x])
      OBVIOUS
    <3>2. Begun(x, EnterTurn(rs[x], w)) /\ DueTimer(x)
      BY <2>0, <2>11, <3>1, SweepTimerIs DEF SweepTimer
    <3>3. w \in Nat /\ w = NextDeadline(x)
      BY <2>0, <3>1, <3>2, TimerDueIs
    <3>4. x = r => w <= DeadlineInstant(r, rs[r])
      BY <2>2, <3>3
    <3> QED BY <2>0, <3>2, <3>3, <3>4, BegunBilled
  <2>12. ASSUME NEW x \in Runs, SweepWall(x) PROVE Billed(r)
    <3>1. PICK w : w = DeadlineInstant(x, rs[x])
      OBVIOUS
    <3>2. Concludes(x, EnterTurn(rs[x], w), "wall", FALSE, "sweep") /\ DueBoundary(x)
      BY <2>0, <2>12, <3>1, WallIs DEF SweepWall
    <3>3. w \in Nat
      BY <2>0, <3>1, <3>2, BoundaryIs
    <3>4. x = r => w <= DeadlineInstant(r, rs[r]) /\ w = DeadlineInstant(r, rs[r])
      BY <3>1, <3>3
    <3> QED BY <2>0, <3>2, <3>3, <3>4, ConcludeBilled
  <2>13. ASSUME NEW x \in Runs PROVE ~SweepGraceWall(x)
    <3>1. SUFFICES ASSUME SweepGraceWall(x) PROVE FALSE
      OBVIOUS
    <3>2. PICK s : Concludes(x, s, "ok", FALSE, "sweep")
      BY <2>0, <3>1, GraceWallIs
    <3>3. x # r
      BY <2>0, <3>1 DEF SweepGraceWall, InGrace
    <3> QED BY <2>0, <3>2, <3>3, ConcludeOne
  <2>14. CASE DeliverEnds
    <3>0. PICK s : \E k \in Ends \ {"wall"} :
              /\ Concludes(ev.run, s, k, FALSE, "select")
              /\ cfg.mode = "instance" => s = EnterTurn(rs[ev.run], ev.at)
      BY <2>0, <2>14, DeliverEndsIs
    <3>1. PICK k \in Ends \ {"wall"} :
              /\ Concludes(ev.run, s, k, FALSE, "select")
              /\ cfg.mode = "instance" => s = EnterTurn(rs[ev.run], ev.at)
      BY <3>0
    <3>2. pc = "deliver" /\ k # "wall"
      BY <2>0, <2>14, DeliverEndsIs
    <3>3. Concludes(ev.run, EnterTurn(rs[ev.run], ev.at), k, FALSE, "select")
      BY <2>0, <3>1
    <3> QED BY <2>0, <2>3, <3>2, <3>3, ConcludeBilled
  <2> QED BY <2>0, <2>4, <2>5, <2>6, <2>7, <2>8, <2>9, <2>10, <2>11, <2>12, <2>13, <2>14,
        StepKinds
<1> QED BY <1>1, LoopInvariant, PTL DEF Spec, WallHonest, WallStep

-----------------------------------------------------------------------------
(* Serving deadlines. *)

\* The action ArrivalOrder is about.
ArrivalStep ==
  \A r \in Runs :
    pc = "sweep" /\ ev # NoEvent /\ Live(r) /\ rs'[r].phase = "done" =>
      \A i \in 1 .. Len(chan) :
        chan[i].run = r => chan[i].at >= DeadlineInstant(r, rs[r])

\* While deadlines are served, a step fires a timer, ends a run at its
\* boundary or is the last.
LEMMA SweepKinds ==
  ASSUME LoopInv, Next, pc = "sweep"
  PROVE  SweepDone \/ \E x \in Runs : SweepTimer(x) \/ SweepWall(x) \/ SweepGraceWall(x)
<1>1. ~(Receive \/ TimedOut \/ ReadClock \/ TimedOutOne \/ DiscardLate \/ Tick \/ StartOneOff
        \/ DeliverJob \/ DeliverAnswer \/ DeliverEnds)
  BY DEF Receive, TimedOut, ReadClock, TimedOutOne, DiscardLate, Tick, StartOneOff, DeliverJob,
         DeliverAnswer, DeliverEnds, DeliverUndecodable, DeliverTerminate, DeliverLost
<1>2. ~(EnterGrace \/ EndPark)
  BY DEF EnterGrace, EndPark, Undisturbed, Suspends
<1>3. ~TurnEnds
  BY TurnEndsIs
<1>4. ASSUME NEW x \in Runs, NEW k PROVE ~Submit(x) /\ ~Answer(x, k) /\ ~HostEnds(x, k)
  BY DEF Submit, Answer, HostEnds, Arrive
<1> QED BY <1>1, <1>2, <1>3, <1>4, StepKinds

\* The cutoff of serve_instance is right: a deadline served ahead of an event
\* ends its run only if every event still in the channel for that run came at
\* or after the deadline.
THEOREM EventsBeforeDeadlines == Spec => ArrivalOrder
<1>1. LoopInv /\ [Next]_vars => [ArrivalStep]_vars
  <2>0. SUFFICES ASSUME LoopInv, Next, NEW r \in Runs, pc = "sweep", ev # NoEvent, Live(r),
                        rs'[r].phase = "done", NEW i \in 1 .. Len(chan), chan[i].run = r
                 PROVE  chan[i].at >= DeadlineInstant(r, rs[r])
    BY DEF ArrivalStep
  <2>1. TypeOK /\ TurnShape /\ Order /\ chan \in Seq(Event) /\ ev \in Event /\ cutoff \in Nat
    BY <2>0 DEF LoopInv, TypeOK
  <2>2. rs[r].phase # "done" /\ rs'[r] # rs[r]
    BY <2>0 DEF Live
  <2>3. ~SweepDone
    BY <2>2 DEF SweepDone
  <2>4. ASSUME NEW x \in Runs PROVE ~SweepTimer(x)
    <3>1. SUFFICES ASSUME SweepTimer(x) PROVE FALSE
      OBVIOUS
    <3>2. PICK u : u = EnterTurn(rs[x], PeekDeadline(timers[x]))
      OBVIOUS
    <3>3. Begun(x, u)
      BY <2>0, <3>1, <3>2, SweepTimerIs
    <3>4. rs'[x] = u /\ Alive(u) /\ \A y \in Runs : y # x => rs'[y] = rs[y]
      BY <2>1, <3>3, BegunRow
    <3> QED BY <2>0, <2>2, <3>4 DEF Alive
  <2>5. PICK x \in Runs : SweepWall(x) \/ SweepGraceWall(x)
    BY <2>0, <2>3, <2>4, SweepKinds
  <2>6. \E s, k : Concludes(x, s, k, FALSE, "sweep")
    BY <2>0, <2>5, WallIs, GraceWallIs
  <2>7. x = r
    BY <2>0, <2>2, <2>6, ConcludeOne
  <2>8. DueBoundary(r)
    BY <2>5, <2>7 DEF SweepWall, SweepGraceWall
  <2>9. cfg.mode = "instance" /\ cutoff = ev.at
    BY <2>0, <2>1 DEF TurnShape
  <2>10. DeadlineInstant(r, rs[r]) \in Nat /\ DeadlineInstant(r, rs[r]) <= cutoff
    BY <2>0, <2>8, <2>9, BoundaryIs
  <2>11. ev.at <= chan[i].at
    BY <2>0, <2>1 DEF Order, PairOk
  <2>12. chan[i].at \in Nat
    <3>1. chan[i] \in Event
      BY <2>0, <2>1
    <3> QED BY <3>1 DEF Event
  <2> QED BY <2>1, <2>9, <2>10, <2>11, <2>12
<1> QED BY <1>1, LoopInvariant, PTL DEF Spec, ArrivalOrder, ArrivalStep

\* The action TimerOrder is about.
TimerStep ==
  /\ pc = "sweep" /\ turn'.kind = "timer" =>
          LET t == timers[turn'.owner].entries
          IN  \E e \in t :
                /\ e.id = turn'.fired /\ e.at <= now /\ e.virt * Ms <= now
                /\ \A f \in t : f = e \/ Before(e, f)
                /\ \A f \in t : f.virt < e.virt => f.at >= (f.virt + 1) * Ms
  /\ frozen' * Ms <= now'

\* A timer ahead of another has an earlier scheduled time, or the same, or the
\* other was past due when it was set.
LEMMA Overtaken ==
  ASSUME NEW t \in Table, TableOk(t), NEW e \in t.entries, NEW f \in t.entries,
         f = e \/ Before(e, f), f.virt < e.virt
  PROVE  f.at >= (f.virt + 1) * Ms
<1>1. /\ e.at \in Nat /\ e.virt \in Nat /\ e.id \in Nat
      /\ f.at \in Nat /\ f.virt \in Nat /\ f.id \in Nat
  BY DEF Table
<1>2. e.at <= f.at
  BY <1>1 DEF Before
<1>3. e.virt * Ms <= e.at
  BY DEF TableOk, Reached
<1>4. f.virt + 1 \in Nat /\ f.virt + 1 <= e.virt
  BY <1>1
<1>5. (f.virt + 1) * Ms \in Nat /\ e.virt * Ms \in Nat /\ (f.virt + 1) * Ms <= e.virt * Ms
  BY <1>1, <1>4, MsMono
<1>6. PICK a \in Nat : a = (f.virt + 1) * Ms
  BY <1>5
<1>7. PICK c \in Nat : c = e.virt * Ms
  BY <1>5
<1>8. a <= c /\ c <= e.at
  BY <1>3, <1>5, <1>6, <1>7
<1>9. f.at >= a
  BY <1>1, <1>2, <1>8
<1> QED BY <1>6, <1>9

\* Timers (timers.rs) fire by deadline and then by creation, never before the
\* millisecond they are scheduled for and never once cleared; one scheduled
\* earlier is overtaken only when it was past due as it was set; and the clock
\* the guest sees is never ahead of the real one.
THEOREM TimersFireInOrder == Spec => TimerOrder
<1>1. LoopInv /\ LoopInv' /\ [Next]_vars => [TimerStep]_vars
  <2>0. SUFFICES ASSUME LoopInv, LoopInv', Next PROVE TimerStep
    OBVIOUS
  <2>1. frozen' * Ms <= now'
    BY <2>0 DEF LoopInv, Clocks, Reached
  <2>2. ASSUME pc = "sweep", turn'.kind = "timer"
        PROVE  \E e \in timers[turn'.owner].entries :
                   /\ e.id = turn'.fired /\ e.at <= now /\ e.virt * Ms <= now
                   /\ \A f \in timers[turn'.owner].entries : f = e \/ Before(e, f)
                   /\ \A f \in timers[turn'.owner].entries :
                        f.virt < e.virt => f.at >= (f.virt + 1) * Ms
    <3>0. TypeOK /\ now \in Nat
      BY <2>0 DEF LoopInv, TypeOK
    <3>1. NoTurn.kind # "timer"
      BY DEF NoTurn
    <3>2. ~SweepDone
      <4>1. turn = NoTurn
        BY <2>0, <2>2 DEF LoopInv, TurnShape
      <4> QED BY <2>2, <3>1, <4>1 DEF SweepDone
    <3>3. ASSUME NEW x \in Runs PROVE ~SweepWall(x) /\ ~SweepGraceWall(x)
      BY <2>2, <3>1 DEF SweepWall, SweepGraceWall, Conclude
    <3>4. PICK x \in Runs : SweepTimer(x)
      BY <2>0, <2>2, <3>2, <3>3, SweepKinds
    <3>5. PICK p : p = PopEarliest(timers[x])
      OBVIOUS
    <3>6. DueTimer(x) /\ turn' = TimerTurn(x, "timer", NextDeadline(x), p.fired)
      BY <3>4, <3>5 DEF SweepTimer, BeginTurn, TimerTurn
    <3>7. /\ timers[x] \in Table /\ TableOk(timers[x]) /\ PeekDeadline(timers[x]) \in Nat
          /\ PeekDeadline(timers[x]) <= now
      BY <2>0, <3>6, TimerDueIs
    <3>8. PeekDeadline(timers[x]) # Never
      BY <3>7, NeverApart
    <3>9. p.fired \in Nat
      BY <3>5, <3>7, <3>8, PopIs
    <3>10. turn'.owner = x /\ turn'.fired = p.fired
      <4>1. NextDeadline(x) \in Instants
        BY <3>0, DeadlineIs
      <4> QED BY <3>0, <3>6, <3>9, <4>1, TurnIs
    <3>11. PICK e \in timers[x].entries :
              /\ e.id = p.fired /\ e.at = PeekDeadline(timers[x])
              /\ \A f \in timers[x].entries : f = e \/ Before(e, f)
      BY <3>5, <3>7, <3>8, PopIs
    <3>12. e.at \in Nat /\ e.virt \in Nat /\ Reached(e.virt, e.at)
      BY <3>7 DEF Table, TableOk
    <3>13. e.at <= now /\ e.virt * Ms <= now
      BY <3>0, <3>7, <3>11, <3>12, ReachedOn DEF Reached
    <3>14. \A f \in timers[x].entries : f.virt < e.virt => f.at >= (f.virt + 1) * Ms
      BY <3>7, <3>11, Overtaken
    <3> QED BY <3>10, <3>11, <3>13, <3>14
  <2> QED BY <2>1, <2>2 DEF TimerStep
<1> QED BY <1>1, LoopInvariant, PTL DEF Spec, TimerOrder, TimerStep

-----------------------------------------------------------------------------
(* What a client sees. *)

\* What a client has seen of a run, from the run's state alone.
StageOf(s) ==
  IF s.phase = "new" THEN "new"
  ELSE IF s.phase = "done" THEN "answered"
  ELSE IF s.phase = "grace" /\ s.early THEN "background"
  ELSE "waiting"

\* What can have been sent tells stages apart.
LEMMA WordsApart ==
  /\ <<>> # <<"early">> /\ <<>> # <<"result">> /\ <<>> # <<"early", "complete">>
  /\ <<>> # <<"early", "result">>
  /\ <<"early">> # <<"result">> /\ <<"early">> # <<"early", "complete">>
  /\ <<"early">> # <<"early", "result">>
  OBVIOUS

\* Stage, as an operator of a run's state and of what it has sent.
StageWord(s, o) ==
  CASE s.phase = "new" -> "new"
    [] s.phase # "new" /\ o = <<>> -> "waiting"
    [] o = <<"early">> -> "background"
    [] o \in {<<"result">>, <<"early", "complete">>, <<"early", "result">>} -> "answered"
    [] OTHER -> "answered again"

\* What has been sent shows the stage the state is in.
LEMMA StageIs ==
  ASSUME NEW s \in RunState, NEW o, Saying(s, o)
  PROVE  StageWord(s, o) = StageOf(s)
<1>2. s.phase \in {"new", "queued", "settling", "grace", "done"} /\ s.early \in BOOLEAN
  BY DEF RunState
<1>3. CASE s.phase = "new"
  <2>1. o = <<>>
    BY <1>3 DEF Saying
  <2> QED BY <1>3, <2>1, WordsApart DEF StageWord, StageOf
<1>4. CASE s.phase \in {"queued", "settling"} \/ (s.phase = "grace" /\ ~s.early)
  <2>1. o = <<>>
    BY <1>4 DEF Saying
  <2> QED BY <1>4, <2>1, WordsApart DEF StageWord, StageOf
<1>5. CASE s.phase = "grace" /\ s.early
  <2>1. o = <<"early">>
    BY <1>5 DEF Saying
  <2> QED BY <1>5, <2>1, WordsApart DEF StageWord, StageOf
<1>6. CASE s.phase = "done"
  <2>1. o \in {<<"result">>, <<"early", "complete">>, <<"early", "result">>}
    BY <1>6 DEF Saying
  <2> QED BY <1>6, <2>1, WordsApart DEF StageWord, StageOf
<1> QED BY <1>2, <1>3, <1>4, <1>5, <1>6

\* The refinement mapping of Life.
Stages == [r \in Runs |-> Stage(r)]

\* The stages before and after a step.
LEMMA StagesAre ==
  ASSUME LoopInv, LoopInv'
  PROVE  /\ Stages = [r \in Runs |-> StageOf(rs[r])]
         /\ Stages' = [r \in Runs |-> StageOf(rs'[r])]
<1>1. ASSUME NEW r \in Runs PROVE Stage(r) = StageOf(rs[r])
  <2>1. rs[r] \in RunState /\ Saying(rs[r], out[r])
    BY DEF LoopInv, TypeOK, Said
  <2>2. Stage(r) = StageWord(rs[r], out[r])
    BY DEF Stage, StageWord
  <2> QED BY <2>1, <2>2, StageIs
<1>2. ASSUME NEW r \in Runs PROVE Stage(r)' = StageOf(rs'[r])
  <2>1. rs'[r] \in RunState /\ Saying(rs'[r], out'[r])
    BY DEF LoopInv, TypeOK, Said
  <2>2. Stage(r)' = StageWord(rs'[r], out'[r])
    BY DEF Stage, StageWord
  <2> QED BY <2>1, <2>2, StageIs
<1> QED BY <1>1, <1>2 DEF Stages

\* At first every run is new.
LEMMA StagesInit == Init => Life!Init
<1>1. SUFFICES ASSUME Init PROVE \A r \in Runs : Stage(r) = "new"
  BY DEF Life!Init
<1>2. \A r \in Runs : rs[r] = NewRun /\ out[r] = <<>>
  BY <1>1 DEF Init
<1>3. NewRun.phase = "new"
  BY DEF NewRun
<1> QED BY <1>2, <1>3, WordsApart DEF Stage

\* A step that moves no run to another stage is a stutter.
LEMMA StageStutters ==
  ASSUME LoopInv, LoopInv', \A r \in Runs : StageOf(rs'[r]) = StageOf(rs[r])
  PROVE  Stages' = Stages
  BY StagesAre

\* A run submitted, or started by the one-off loop, is a Submit.
LEMMA StageSubmits ==
  ASSUME LoopInv, LoopInv', NEW r \in Runs, rs[r].phase = "new",
         rs'[r].phase \in {"queued", "settling"}, \A x \in Runs : x # r => rs'[x] = rs[x]
  PROVE  Life!Next
<1>1. StageOf(rs[r]) = "new" /\ StageOf(rs'[r]) = "waiting"
  BY DEF StageOf
<1>2. Stages[r] = "new" /\ Stages' = [Stages EXCEPT ![r] = "waiting"]
  BY <1>1, StagesAre
<1>3. Life!Submit(r)
  BY <1>2 DEF Life!Submit, Stages
<1> QED BY <1>3 DEF Life!Next

\* The end of a run, with all it takes along, is a Complete.
LEMMA StageCompletes ==
  ASSUME LoopInv, LoopInv', Concluded
  PROVE  Life!Next
<1>1. PICK r, s, kind, tainted, back : Concludes(r, s, kind, tainted, back)
  BY DEF Concluded
<1>2. PICK g : g = Gone(r, tainted)
  OBVIOUS
<1>3. \A x \in g : x \in Runs /\ rs'[x].phase = "done"
        /\ rs[x].phase \in {"queued", "settling", "grace"}
  BY <1>1, <1>2, ConcludeRows
<1>4. \A x \in Runs \ g : rs'[x] = rs[x]
  BY <1>1, <1>2, ConcludeRows
<1>5. \A x \in g : StageOf(rs[x]) \in {"waiting", "background"} /\ StageOf(rs'[x]) = "answered"
  BY <1>3 DEF StageOf
<1>6. /\ \A x \in g : Stages[x] \in {"waiting", "background"}
      /\ Stages' = [x \in Runs |-> IF x \in g THEN "answered" ELSE Stages[x]]
  BY <1>3, <1>4, <1>5, StagesAre
<1>7. g \in SUBSET Runs
  BY <1>3
<1>8. Life!Complete(g)
  BY <1>6 DEF Life!Complete, Stages
<1> QED BY <1>7, <1>8 DEF Life!Next

\* An early Result is an Early; a background phase without one is a stutter.
LEMMA StageGrace ==
  ASSUME LoopInv, LoopInv', EnterGrace
  PROVE  Life!Next \/ Stages' = Stages
<1>1. pc = "js"
  BY DEF EnterGrace, Undisturbed
<1>2. PICK r : r = turn.owner
  OBVIOUS
<1>3. r \in Runs /\ rs[r] \in RunState /\ ClockOk(rs[r])
  BY <1>1, <1>2, OwnerIs
<1>4. PICK sent \in BOOLEAN :
        rs' = [rs EXCEPT ![r] =
                    [Folded(@) EXCEPT !.phase = "grace", !.entered = now, !.graceStart = now,
                                      !.early = sent]]
  BY <1>2 DEF EnterGrace, Me
<1>5. PICK f : f = Folded(rs[r])
  OBVIOUS
<1>6. f \in RunState /\ TypeOK
  BY <1>3, <1>5, FoldedIs DEF LoopInv
<1>7. PICK u : u = [f EXCEPT !.phase = "grace", !.entered = now, !.graceStart = now, !.early = sent]
  OBVIOUS
<1>8. u.phase = "grace" /\ u.early = sent
  BY <1>6, <1>7 DEF RunState
<1>9. rs'[r] = u /\ \A x \in Runs : x # r => rs'[x] = rs[x]
  BY <1>3, <1>4, <1>5, <1>6, <1>7 DEF TypeOK
<1>10. rs[r].phase = "settling"
  BY <1>2 DEF EnterGrace, Mine
<1>11. CASE sent
  <2>1. StageOf(rs[r]) = "waiting" /\ StageOf(rs'[r]) = "background"
    BY <1>8, <1>9, <1>10, <1>11 DEF StageOf
  <2>2. Stages[r] = "waiting" /\ Stages' = [Stages EXCEPT ![r] = "background"]
    BY <1>3, <1>9, <2>1, StagesAre
  <2>3. Life!Early(r)
    BY <2>2 DEF Life!Early, Stages
  <2> QED BY <1>3, <2>3 DEF Life!Next
<1>12. CASE ~sent
  <2>1. StageOf(rs[r]) = "waiting" /\ StageOf(rs'[r]) = "waiting"
    BY <1>8, <1>9, <1>10, <1>12 DEF StageOf
  <2>2. \A x \in Runs : StageOf(rs'[x]) = StageOf(rs[x])
    BY <1>9, <2>1
  <2> QED BY <2>2, StageStutters
<1> QED BY <1>11, <1>12

\* The stage depends on the phase and the early Result.
LEMMA SamePhase ==
  ASSUME NEW s, NEW u, u.phase = s.phase, u.early = s.early
  PROVE  StageOf(u) = StageOf(s)
  BY DEF StageOf

\* A turn that begins where its run goes on changes no stage.
LEMMA BegunSame ==
  ASSUME LoopInv, NEW x \in Runs, NEW w \in Nat, Begun(x, EnterTurn(rs[x], w))
  PROVE  \A r \in Runs : StageOf(rs'[r]) = StageOf(rs[r])
<1>1. PICK u : u = EnterTurn(rs[x], w)
  OBVIOUS
<1>2. TypeOK /\ rs[x] \in RunState /\ ClockOk(rs[x])
  BY DEF LoopInv, TypeOK, Clocks
<1>3. u.phase = rs[x].phase /\ u.early = rs[x].early
  BY <1>1, <1>2, EnterClock
<1>4. rs'[x] = u /\ \A r \in Runs : r # x => rs'[r] = rs[r]
  BY <1>1, <1>2, BegunRow
<1> QED BY <1>3, <1>4, SamePhase

\* Every step of the loop is one of RunLife's, or a stutter.
LEMMA LifeStep ==
  ASSUME LoopInv, LoopInv', Next
  PROVE  Life!Next \/ Stages' = Stages
<1>0. TypeOK /\ rs \in [Runs -> RunState]
  BY DEF LoopInv, TypeOK
<1>1. CASE rs' = rs
  BY <1>1, StageStutters
<1>2. CASE Receive \/ TimedOut \/ ReadClock \/ TimedOutOne \/ SweepDone \/ DiscardLate \/ Tick
  <2>1. rs' = rs
    BY <1>2 DEF Receive, TimedOut, ReadClock, TimedOutOne, SweepDone, DiscardLate, Tick
  <2> QED BY <1>1, <2>1
<1>3. CASE StartOneOff
  <2>1. 1 \in Runs /\ rs[1].phase = "new" /\ rs' = [rs EXCEPT ![1] = Started(1)]
    BY <1>3, RunsAre DEF StartOneOff, StartTurn
  <2>2. Started(1).phase = "settling"
    BY <1>0, <2>1, StartedIs
  <2>3. rs'[1].phase = "settling" /\ \A x \in Runs : x # 1 => rs'[x] = rs[x]
    BY <1>0, <2>1, <2>2
  <2> QED BY <2>1, <2>3, StageSubmits
<1>4. CASE DeliverJob
  <2>1. PICK r : r = ev.run
    OBVIOUS
  <2>2. r \in Runs /\ rs[r].phase = "queued" /\ rs' = [rs EXCEPT ![r] = Started(r)]
    BY <1>4, <2>1, JobIs, EventIs DEF DeliverJob, StartTurn
  <2>3. Started(r).phase = "settling"
    BY <1>0, <2>2, StartedIs
  <2>4. rs'[r].phase = "settling" /\ \A x \in Runs : x # r => rs'[x] = rs[x]
    BY <1>0, <2>2, <2>3
  <2>5. StageOf(rs'[r]) = StageOf(rs[r])
    BY <2>2, <2>4 DEF StageOf
  <2>6. \A x \in Runs : StageOf(rs'[x]) = StageOf(rs[x])
    BY <2>4, <2>5
  <2> QED BY <2>6, StageStutters
<1>5. CASE DeliverAnswer
  <2>1. ev.run \in Runs /\ ev.at \in Nat
    BY <1>5, EventIs DEF DeliverAnswer
  <2>2. Begun(ev.run, EnterTurn(rs[ev.run], ev.at))
    BY <1>5, AnswerIs
  <2>3. \A x \in Runs : StageOf(rs'[x]) = StageOf(rs[x])
    BY <2>1, <2>2, BegunSame
  <2> QED BY <2>3, StageStutters
<1>6. ASSUME NEW r \in Runs, SweepTimer(r) PROVE Stages' = Stages
  <2>1. PICK w : w = PeekDeadline(timers[r])
    OBVIOUS
  <2>2. Begun(r, EnterTurn(rs[r], w)) /\ w \in Nat
    BY <1>6, <2>1, SweepTimerIs, TimerDueIs DEF SweepTimer
  <2>3. \A x \in Runs : StageOf(rs'[x]) = StageOf(rs[x])
    BY <2>2, BegunSame
  <2> QED BY <2>3, StageStutters
<1>7. ASSUME NEW r \in Runs, SweepWall(r) \/ SweepGraceWall(r) PROVE Life!Next
  <2>1. Concluded
    BY <1>7, WallIs, GraceWallIs DEF Concluded
  <2> QED BY <2>1, StageCompletes
<1>8. CASE DeliverEnds \/ TurnEnds
  <2>1. Concluded
    BY <1>8, DeliverEndsIs, TurnEndsIs DEF Concluded
  <2> QED BY <2>1, StageCompletes
<1>9. ASSUME NEW b \in Runs, GuestShape(b) PROVE Stages' = Stages
  <2>1. \A x \in Runs : rs'[x].phase = rs[x].phase /\ rs'[x].early = rs[x].early
    BY <1>9 DEF GuestShape, SameRuns, Same
  <2>2. \A x \in Runs : StageOf(rs'[x]) = StageOf(rs[x])
    BY <2>1, SamePhase
  <2> QED BY <2>2, StageStutters
<1>10. CASE EnterGrace
  BY <1>10, StageGrace
<1>11. CASE EndPark
  <2>1. PICK r : r = turn.owner
    OBVIOUS
  <2>2. r \in Runs /\ rs[r] \in RunState /\ ClockOk(rs[r])
    BY <1>11, <2>1, OwnerIs DEF EndPark, Suspends, Undisturbed
  <2>3. PICK u : u = LeaveTurn(rs[r])
    OBVIOUS
  <2>4. u.phase = rs[r].phase /\ u.early = rs[r].early
    BY <1>0, <2>2, <2>3, LeaveIs
  <2>5. rs' = [rs EXCEPT ![r] = u]
    BY <1>11, <2>1, <2>3 DEF EndPark, Me
  <2>6. rs'[r] = u /\ \A x \in Runs : x # r => rs'[x] = rs[x]
    BY <1>0, <2>2, <2>5
  <2>7. \A x \in Runs : StageOf(rs'[x]) = StageOf(rs[x])
    BY <2>4, <2>6, SamePhase
  <2> QED BY <2>7, StageStutters
<1>12. ASSUME NEW r \in Runs, Submit(r) PROVE Life!Next
  <2>1. rs[r].phase = "new" /\ rs' = [rs EXCEPT ![r].phase = "queued"] /\ rs[r] \in RunState
    BY <1>0, <1>12 DEF Submit
  <2>2. rs'[r].phase = "queued" /\ \A x \in Runs : x # r => rs'[x] = rs[x]
    BY <1>0, <2>1 DEF RunState
  <2> QED BY <2>1, <2>2, StageSubmits
<1>13. ASSUME NEW r \in Runs, NEW k, Answer(r, k) \/ HostEnds(r, k) PROVE Stages' = Stages
  <2>1. rs' = rs
    BY <1>13 DEF Answer, HostEnds
  <2> QED BY <2>1, StageStutters
<1> QED BY <1>2, <1>3, <1>4, <1>5, <1>6, <1>7, <1>8, <1>9, <1>10, <1>11, <1>12, <1>13, StepKinds

\* The loop implements RunLife: every run is answered once, or early and then
\* completed once, over completions, walls, aborts, lost connections and the
\* taint_sweep that answers a whole instance.
THEOREM RunsAnsweredOnce == Spec => LifeSpec
<1>1. LoopInv /\ LoopInv' /\ [Next]_vars => [Life!Next]_Stages
  <2>1. CASE UNCHANGED vars
    <3>1. UNCHANGED Stages
      BY <2>1 DEF vars, Stages, Stage
    <3> QED BY <3>1
  <2> QED BY <2>1, LifeStep
<1> QED BY <1>1, LoopInvariant, StagesInit, PTL DEF Spec, LifeSpec, Life!Spec, Stages
=============================================================================
