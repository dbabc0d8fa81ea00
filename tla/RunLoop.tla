------------------------------- MODULE RunLoop -------------------------------
(***************************************************************************)
(* The loop that drives runs as turns (crates/core/src/v8/instance.rs,     *)
(* serve_instance, and crates/core/src/v8/runloop.rs): it receives events  *)
(* from one ordered channel bounded by the nearest deadline, serves the    *)
(* deadlines that are due before the event, delivers it as a turn of guest *)
(* code, scans what became of the run and parks or concludes it.           *)
(*                                                                         *)
(* The same turns are driven by two loops: "instance" keeps any number of  *)
(* suspended runs and a lazily deleted heap of their deadlines; "oneoff"   *)
(* (run_call_phase) waits for one run on a private channel.                *)
(*                                                                         *)
(* Time is a counter.  It advances while the loop waits, while a turn runs *)
(* and between a wait that timed out and the reading of the clock.  Guest  *)
(* code is a bounded number of nondeterministic operations, made by the    *)
(* run whose turn it is or, through a continuation a co-resident run left  *)
(* behind, by that run (the rider of runtable.rs).  Streams are in module  *)
(* Streams, the guard's own races in TurnGuard, the channel's far end in   *)
(* Engine and Connection.                                                  *)
(***************************************************************************)
EXTENDS TimerTable, CallLog

CONSTANTS
  NRuns,        \* runs, numbered by token
  Setups,       \* the set-ups to choose from: which loop, whether the run has an event
                \* source and a requested call, the instant after which nothing new
                \* happens, the setTimeout delays used, and each run's limits and
                \* operations
  MaxTurn       \* the longest turn

Runs == 1 .. NRuns

(* What a run's limits (in ticks), its connection and the behaviours of its *)
(* code and its host can be; connections are numbered like runs.            *)
Limits ==
  [wall : Nat, grace : Nat, session : BOOLEAN, conn : Runs, fuel : Nat,
   ops : SUBSET {"timer", "wait", "call", "badcall"},
   host : SUBSET {"value", "error", "bad", "terminate", "lost", "kill"}]

Setup ==
  [mode : {"instance", "oneoff"}, source : BOOLEAN, call : BOOLEAN, horizon : Nat,
   delays : SUBSET Nat, runs : [Runs -> Limits]]

ASSUME LoopAssumption == NRuns \in Nat \ {0} /\ MaxTurn \in Nat /\ Setups \subseteq Setup

VARIABLES
  cfg,          \* the set-up: [mode, source, call, horizon, delays, runs]
  now,          \* the clock
  pc,           \* select | gap | sweep | deliver | js | dead
  chan,         \* the event channel, stamped on arrival
  ev,           \* the event received and not yet delivered
  cutoff,       \* deadlines up to this instant are due before ev
  turn,         \* the turn that is executing
  frozen,       \* the clock guest code sees
  heap,         \* deadlines: <<instant, run>>
  touched,      \* TIMERS_TOUCHED
  rs,           \* RunState of each run
  timers,       \* its timer table
  calls,        \* its call log
  lastCall,     \* each connection's call id counter
  host,         \* calls the host has not answered
  out           \* what each run has sent to the host

vars == <<cfg, now, pc, chan, ev, cutoff, turn, frozen, heap, touched, rs, timers,
          calls, lastCall, host, out>>

Lim(r) == cfg.runs[r]

(* The last call id given out on b's connection, and the counters after the next. *)
LastId(b) == lastCall[Lim(b).conn]

TakeId(b) == [lastCall EXCEPT ![Lim(b).conn] = @ + 1]

NoEvent == [run |-> 0, kind |-> "none", at |-> 0, call |-> NoId]

NoTurn == [owner |-> 0, kind |-> "none", queued |-> Never, began |-> 0, fired |-> 0,
           kill |-> FALSE, bare |-> FALSE]

(* A run before its start turn. *)
NewRun ==
  [phase |-> "new", root |-> "pending", callPending |-> FALSE, start |-> 0, counted |-> 0,
   parkedAt |-> 0, entered |-> Never, reg |-> FALSE, waits |-> 0, werr |-> FALSE,
   gcounted |-> 0, graceStart |-> 0, status |-> "none", early |-> FALSE, used |-> 0,
   kind |-> "none", wall |-> 0]

(* advance_frozen_clock: the guest's clock follows the wall clock, in ms. *)
FrozenAdvanced == Later(frozen, WallMs(now))

Live(r) == rs[r].phase \in {"settling", "grace"}

InGrace(r) == rs[r].phase = "grace"
-----------------------------------------------------------------------------
(* Counted time and deadlines of one run. *)

\* Mutant: the wait is counted to its delivery, not to the event's arrival.
EnterTurnLate(s, wokeAt) ==
  LET wait == now - s.parkedAt
  IN  IF s.phase = "grace"
        THEN [s EXCEPT !.gcounted = @ + wait, !.entered = now]
        ELSE [s EXCEPT !.counted = @ + wait, !.entered = now]

(* enter_turn: the wait that ended at wokeAt is counted, a turn begins. *)
EnterTurn(s, wokeAt) ==
  LET wait == IF wokeAt > s.parkedAt THEN wokeAt - s.parkedAt ELSE 0
  IN  IF s.phase = "grace"
        THEN [s EXCEPT !.gcounted = @ + wait, !.entered = now]
        ELSE [s EXCEPT !.counted = @ + wait, !.entered = now]

Folded(s) ==
  IF s.entered = Never THEN s
  ELSE IF s.phase = "grace"
         THEN [s EXCEPT !.gcounted = @ + (now - s.entered), !.entered = Never]
         ELSE [s EXCEPT !.counted = @ + (now - s.entered), !.entered = Never]

(* leave_turn: the turn's execution is counted, the run is parked. *)
LeaveTurn(s) == [Folded(s) EXCEPT !.parkedAt = now]

LiveSegment(s) == IF s.entered = Never THEN now - s.parkedAt ELSE now - s.entered

CountedWall(s) == IF s.phase = "grace" THEN s.counted ELSE s.counted + LiveSegment(s)

Remaining(cap, spent) == IF spent >= cap THEN 0 ELSE cap - spent

GraceWallInstant(r, s) ==
  IF s.phase = "grace" /\ s.status = "none"
    THEN s.parkedAt + Remaining(Lim(r).grace, s.gcounted)
    ELSE Never

DeadlineInstant(r, s) ==
  IF s.phase = "grace" THEN GraceWallInstant(r, s)
  ELSE IF Lim(r).wall > 0 THEN s.parkedAt + Remaining(Lim(r).wall, s.counted)
  ELSE Never

NextDeadlineOf(r, s, t) == MinTime({DeadlineInstant(r, s), PeekDeadline(t)})

NextDeadline(r) == NextDeadlineOf(r, rs[r], timers[r])
-----------------------------------------------------------------------------
(* The deadline heap.  An entry is stale when it is not its run's next     *)
(* deadline any more; stale tops are discarded when the loop peeks, which  *)
(* it does right after every push.                                         *)

ValidIn(h, s, t) ==
  {e \in h : /\ s[e[2]].phase \in {"settling", "grace"}
             /\ NextDeadlineOf(e[2], s[e[2]], t[e[2]]) = e[1]}

Sooner(e, f) == e[1] < f[1] \/ (e[1] = f[1] /\ e[2] <= f[2])

PeekValid(h, s, t) ==
  {e \in h : \E v \in ValidIn(h, s, t) :
               /\ \A w \in ValidIn(h, s, t) : Sooner(v, w)
               /\ Sooner(v, e)}

(* The valid entry at the top, if there is one. *)
Top == {e \in ValidIn(heap, rs, timers) :
          \A f \in ValidIn(heap, rs, timers) : Sooner(e, f)}

\* Mutant: only the turn's owner is re-queued.
NoDrain(s, t) == {}

(* drain_touched_timers: runs whose timers changed are re-queued. *)
DrainTouched(s, t) ==
  {<<NextDeadlineOf(b, s[b], t[b]), b>> :
     b \in {b \in touched : /\ s[b].phase \in {"settling", "grace"}
                            /\ NextDeadlineOf(b, s[b], t[b]) # Never}}

Push(r, s, t) ==
  IF s[r].phase \in {"settling", "grace"} /\ NextDeadlineOf(r, s[r], t[r]) # Never
    THEN {<<NextDeadlineOf(r, s[r], t[r]), r>>}
    ELSE {}
-----------------------------------------------------------------------------
(* The end of a run. *)

(* completion_message: RunComplete iff the early Result was sent and the *)
(* run did not fail after all.                                           *)
CompletionMessage(s, kind) ==
  IF kind = "ok" /\ s.phase = "grace" /\ s.early THEN "complete" ELSE "result"

DoneRun(s, kind) ==
  [NewRun EXCEPT !.phase = "done", !.kind = kind, !.wall = CountedWall(s)]

\* Mutant: the sweep answers runs that were answered before.
SweptAll(r, tainted) ==
  IF tainted /\ cfg.mode = "instance"
    THEN {b \in Runs \ {r} : rs[b].phase # "new"}
    ELSE {}

(* taint_sweep: every other run on the instance and every job still queued *)
(* is answered as reset.                                                   *)
Swept(r, tainted) ==
  IF tainted /\ cfg.mode = "instance"
    THEN {b \in Runs \ {r} : Live(b) \/ rs[b].phase = "queued"}
    ELSE {}

ResetRun(s) == IF s.phase = "queued" THEN [NewRun EXCEPT !.phase = "done", !.kind = "reset"]
                                     ELSE DoneRun(s, "reset")

(* conclude_run, for run r with state s: the table entry (timers, call     *)
(* log, resolvers) goes, the completion is sent, the host drops the run's  *)
(* calls.  A tainted instance answers everybody and its loop returns, as   *)
(* does the one-off loop.  A frame that ends its run has moved the clock.  *)
Conclude(r, s, kind, tainted, back) ==
  LET gone == {r} \union Swept(r, tainted)
      ends == tainted \/ cfg.mode = "oneoff"
      rsN  == [b \in Runs |-> IF b = r THEN DoneRun(s, kind)
                              ELSE IF b \in gone THEN ResetRun(rs[b]) ELSE rs[b]]
      tmN  == [b \in Runs |-> IF b \in gone THEN EmptyTimers ELSE timers[b]]
  IN  /\ rs' = rsN
      /\ timers' = tmN
      /\ calls' = [b \in Runs |-> IF b \in gone THEN Finalize(calls[b]) ELSE calls[b]]
      /\ host' = [b \in Runs |-> IF b \in gone THEN {} ELSE host[b]]
      /\ out' = [b \in Runs |->
                   IF b = r THEN Append(out[b], CompletionMessage(s, kind))
                   ELSE IF b \in gone THEN Append(out[b], "result") ELSE out[b]]
      /\ heap' = IF ends THEN {} ELSE PeekValid(heap \union DrainTouched(rsN, tmN), rsN, tmN)
      /\ touched' = {}
      /\ turn' = NoTurn
      /\ pc' = IF ends THEN "dead" ELSE back
      /\ chan' = IF ends THEN <<>> ELSE chan
      /\ ev' = IF ends \/ back = "select" THEN NoEvent ELSE ev
      /\ cutoff' = IF ends \/ back = "select" THEN 0 ELSE cutoff
      /\ frozen' = IF pc = "deliver" /\ ev.kind # "lost" THEN FrozenAdvanced ELSE frozen
      /\ UNCHANGED <<cfg, now, lastCall>>

(* Where the loop continues after a turn of this kind. *)
Back == IF turn.kind = "timer" THEN "sweep" ELSE "select"
-----------------------------------------------------------------------------
(* The host's side of the channel. *)

Open(r) == rs[r].phase \in {"queued", "settling", "grace"}

(* Sweeping and delivering take no time in this model, so an arrival during *)
(* them is the same as one right after.                                     *)
Arrive(e) == pc \in {"select", "gap", "js"} /\ chan' = Append(chan, e)

Submit(r) ==
  /\ cfg.mode = "instance" /\ rs[r].phase = "new" /\ now < cfg.horizon
  /\ rs' = [rs EXCEPT ![r].phase = "queued"]
  /\ Arrive([run |-> r, kind |-> "job", at |-> now, call |-> NoId])
  /\ UNCHANGED <<cfg, now, pc, ev, cutoff, turn, frozen, heap, touched, timers, calls,
                 lastCall, host, out>>

(* A handler's answer: a value, an error, or a value the codec refuses. *)
Answer(r, kind) ==
  /\ Open(r) /\ now <= cfg.horizon /\ kind \in Lim(r).host
  /\ \A i \in 1 .. Len(chan) : chan[i].run = r => chan[i].kind # "lost"
  /\ \E c \in host[r] :
       /\ host' = [host EXCEPT ![r] = @ \ {c}]
       /\ Arrive([run |-> r, kind |-> kind, at |-> now, call |-> c])
  /\ UNCHANGED <<cfg, now, pc, ev, cutoff, turn, frozen, heap, touched, rs, timers, calls,
                 lastCall, out>>

(* The host aborts the run, or its connection is lost: once, and after a *)
(* lost connection nothing more arrives.                                 *)
HostEnds(r, kind) ==
  /\ Open(r) /\ cfg.source /\ now <= cfg.horizon /\ kind \in Lim(r).host
  /\ \A i \in 1 .. Len(chan) : chan[i].run = r => chan[i].kind \notin {"terminate", "lost"}
  /\ Arrive([run |-> r, kind |-> kind, at |-> now, call |-> NoId])
  /\ host' = [host EXCEPT ![r] = IF kind = "lost" THEN {} ELSE @]
  /\ UNCHANGED <<cfg, now, pc, ev, cutoff, turn, frozen, heap, touched, rs, timers, calls,
                 lastCall, out>>
-----------------------------------------------------------------------------
(* Waiting. *)

NextWake == MinTime({NextDeadline(r) : r \in {b \in Runs : Live(b)}})

Tick ==
  /\ \/ pc = "select" /\ (now < cfg.horizon \/ (NextWake # Never /\ now < NextWake))
     \/ pc = "gap" /\ now < cfg.horizon
     \/ pc = "js" /\ now < turn.began + MaxTurn
  /\ now' = now + 1
  /\ UNCHANGED <<cfg, pc, chan, ev, cutoff, turn, frozen, heap, touched, rs, timers, calls,
                 lastCall, host, out>>

\* Mutant: deadlines are served by the time of processing, not of arrival.
CutoffNow(e) == now

(* Deadlines up to the event's stamp are due before it. *)
CutoffOf(e) == e.at

(* An event is received. *)
Receive ==
  /\ pc = "select" /\ chan # <<>>
  /\ ev' = Head(chan) /\ chan' = Tail(chan)
  /\ pc' = IF cfg.mode = "instance" THEN "sweep" ELSE "deliver"
  /\ cutoff' = IF cfg.mode = "instance" THEN CutoffOf(Head(chan)) ELSE 0
  /\ UNCHANGED <<cfg, now, turn, frozen, heap, touched, rs, timers, calls, lastCall, host,
                 out>>

(* The instance's select timed out with the channel empty ... *)
TimedOut ==
  /\ pc = "select" /\ cfg.mode = "instance" /\ chan = <<>>
  /\ \E e \in Top : e[1] <= now
  /\ pc' = "gap"
  /\ UNCHANGED <<cfg, now, chan, ev, cutoff, turn, frozen, heap, touched, rs, timers,
                 calls, lastCall, host, out>>

(* ... and the clock is read afterwards: events may have come between. *)
ReadClock ==
  /\ pc = "gap"
  /\ pc' = "sweep" /\ cutoff' = now
  /\ UNCHANGED <<cfg, now, chan, ev, turn, frozen, heap, touched, rs, timers, calls,
                 lastCall, host, out>>

(* wait_event of the one-off loop: a queued event beats the timeout; a run *)
(* without a source sleeps until its deadline.                             *)
TimedOutOne ==
  /\ pc = "select" /\ cfg.mode = "oneoff" /\ chan = <<>>
  /\ Live(1) /\ DueBy(NextDeadline(1), now)
  /\ pc' = "sweep"
  /\ UNCHANGED <<cfg, now, chan, ev, cutoff, turn, frozen, heap, touched, rs, timers,
                 calls, lastCall, host, out>>
-----------------------------------------------------------------------------
(* Serving due deadlines. *)

(* Which deadline of which run is served next: in the instance loop the   *)
(* nearest one not after the cutoff, its timer first on a tie; in the     *)
(* one-off loop every due timer goes before the boundary.                 *)
DueTimer(r) ==
  IF cfg.mode = "instance"
    THEN \E e \in Top : e[2] = r /\ e[1] <= cutoff /\ PeekDeadline(timers[r]) = e[1]
    ELSE Live(r) /\ DueBy(PeekDeadline(timers[r]), now)

DueBoundary(r) ==
  IF cfg.mode = "instance"
    THEN \E e \in Top : e[2] = r /\ e[1] <= cutoff /\ PeekDeadline(timers[r]) # e[1]
    ELSE /\ Live(r) /\ ~DueBy(PeekDeadline(timers[r]), now)
         /\ DueBy(DeadlineInstant(r, rs[r]), now)

BeginTurn(r, s, kind, fired) ==
  /\ turn' = [NoTurn EXCEPT !.owner = r, !.kind = kind, !.queued = NextDeadline(r),
                            !.began = now, !.fired = fired]
  /\ rs' = [rs EXCEPT ![r] = s]
  /\ pc' = "js"

(* A due timer fires: a turn, counted from the instant it was due. *)
SweepTimer(r) ==
  /\ pc = "sweep" /\ DueTimer(r)
  /\ LET p == PopEarliest(timers[r])
     IN  /\ BeginTurn(r, EnterTurn(rs[r], PeekDeadline(timers[r])), "timer", p.fired)
         /\ timers' = [timers EXCEPT ![r] = p.rest]
         /\ frozen' = Later(frozen, p.virt)
  /\ heap' = heap \ Top
  /\ UNCHANGED <<cfg, now, chan, ev, cutoff, touched, calls, lastCall, host, out>>

(* A run whose wall is due while it waits fails; nobody is interrupted. *)
SweepWall(r) ==
  /\ pc = "sweep" /\ DueBoundary(r) /\ ~InGrace(r)
  /\ Conclude(r, EnterTurn(rs[r], DeadlineInstant(r, rs[r])), "wall", FALSE, "sweep")

(* The waitUntil wall: the rest of the background work is given up. *)
SweepGraceWall(r) ==
  /\ pc = "sweep" /\ DueBoundary(r) /\ InGrace(r)
  /\ Conclude(r, [EnterTurn(rs[r], DeadlineInstant(r, rs[r])) EXCEPT !.status = "truncated"],
              "ok", FALSE, "sweep")

NothingDue == \A r \in Runs : ~DueTimer(r) /\ ~DueBoundary(r)

SweepDone ==
  /\ pc = "sweep" /\ NothingDue
  /\ pc' = IF ev = NoEvent THEN "select" ELSE "deliver"
  /\ cutoff' = 0
  /\ UNCHANGED <<cfg, now, chan, ev, turn, frozen, heap, touched, rs, timers, calls,
                 lastCall, host, out>>
-----------------------------------------------------------------------------
(* Delivering the event. *)

(* dispatch_job and begin_call: the run's table entry, a fresh state, its *)
(* start turn.  The prefix module is evaluated already, so the call is    *)
(* due at once; a one-off's module first has to be.                       *)
Started(r) ==
  [NewRun EXCEPT !.phase = "settling", !.start = now, !.parkedAt = now, !.entered = now,
                 !.root = IF cfg.mode = "instance" THEN "fulfilled" ELSE "pending",
                 !.callPending = cfg.call]

StartTurn(r) ==
  /\ turn' = [NoTurn EXCEPT !.owner = r, !.kind = "start", !.began = now]
  /\ rs' = [rs EXCEPT ![r] = Started(r)]
  /\ pc' = "js"
  /\ frozen' = FrozenAdvanced

DeliverJob ==
  /\ pc = "deliver" /\ ev.kind = "job"
  /\ StartTurn(ev.run)
  /\ ev' = NoEvent
  /\ UNCHANGED <<cfg, now, chan, cutoff, heap, touched, timers, calls, lastCall, host, out>>

StartOneOff ==
  /\ cfg.mode = "oneoff" /\ pc = "select" /\ rs[1].phase = "new"
  /\ StartTurn(1)
  /\ UNCHANGED <<cfg, now, chan, ev, cutoff, heap, touched, timers, calls, lastCall, host,
                 out>>

(* An event of a run that has ended is discarded. *)
DiscardLate ==
  /\ pc = "deliver" /\ ev.kind # "job" /\ ~Live(ev.run)
  /\ ev' = NoEvent /\ pc' = "select"
  /\ UNCHANGED <<cfg, now, chan, cutoff, turn, frozen, heap, touched, rs, timers, calls,
                 lastCall, host, out>>

(* An answer settles its record and its promise; guest code goes on. *)
DeliverAnswer ==
  /\ pc = "deliver" /\ ev.kind \in {"value", "error"} /\ Live(ev.run)
  /\ BeginTurn(ev.run, EnterTurn(rs[ev.run], ev.at), "frame", 0)
  /\ calls' = [calls EXCEPT ![ev.run] =
                 TakeResolver(Settle(@, ev.call, ev.kind = "value"), ev.call)]
  /\ frozen' = FrozenAdvanced
  /\ ev' = NoEvent
  /\ UNCHANGED <<cfg, now, chan, cutoff, heap, touched, timers, lastCall, host, out>>

(* A value that cannot be decoded fails the run, in its background phase too. *)
DeliverUndecodable ==
  /\ pc = "deliver" /\ ev.kind = "bad" /\ Live(ev.run)
  /\ Conclude(ev.run, EnterTurn(rs[ev.run], ev.at), "failed", FALSE, "select")

(* Terminate at a turn boundary: the run is abandoned, or its background *)
(* phase truncated.                                                      *)
DeliverTerminate ==
  /\ pc = "deliver" /\ ev.kind = "terminate" /\ Live(ev.run)
  /\ Conclude(ev.run, EnterTurn(rs[ev.run], ev.at),
              IF InGrace(ev.run) THEN "ok" ELSE "aborted", FALSE, "select")

(* boundary_close: the run fails alone; a background phase is reported.  *)
(* The one-off loop does not cut the wait off at the stamp.              *)
DeliverLost ==
  /\ pc = "deliver" /\ ev.kind = "lost" /\ Live(ev.run)
  /\ Conclude(ev.run,
              IF cfg.mode = "instance" THEN EnterTurn(rs[ev.run], ev.at) ELSE rs[ev.run],
              IF InGrace(ev.run) THEN "ok" ELSE "failed", FALSE, "select")
-----------------------------------------------------------------------------
(* Guest code inside a turn. *)

Interrupted == turn.kill \/ turn.bare

(* The requested call is due: the module (or the prefix) is evaluated. *)
CallDue(r) == rs[r].phase = "settling" /\ rs[r].root = "fulfilled" /\ rs[r].callPending

(* b may act: the turn's owner, or a live run through a continuation of its. *)
Acts(b, op) ==
  /\ pc = "js" /\ ~Interrupted /\ ~CallDue(turn.owner)
  /\ Live(b) /\ ~CallDue(b)
  /\ op \in Lim(b).ops /\ rs[b].used < Lim(b).fuel

Spend(b) == rs' = [rs EXCEPT ![b].used = @ + 1]

GuestSetsTimer(b, d) ==
  /\ Acts(b, "timer") /\ ~TimersFull(timers[b])
  /\ timers' = [timers EXCEPT ![b] = SetTimeout(@, frozen, now, d)]
  /\ touched' = touched \union {b}
  /\ Spend(b)
  /\ UNCHANGED <<cfg, now, pc, chan, ev, cutoff, turn, frozen, heap, calls, lastCall, host,
                 out>>

(* At the cap setTimeout throws, which the guest may catch. *)
GuestTimerRefused(b) ==
  /\ Acts(b, "timer") /\ TimersFull(timers[b])
  /\ Spend(b)
  /\ UNCHANGED <<cfg, now, pc, chan, ev, cutoff, turn, frozen, heap, touched, timers, calls,
                 lastCall, host, out>>

GuestClearsTimer(b) ==
  /\ Acts(b, "timer")
  /\ \E e \in timers[b].entries : timers' = [timers EXCEPT ![b] = ClearTimeout(@, e.id)]
  /\ touched' = touched \union {b}
  /\ Spend(b)
  /\ UNCHANGED <<cfg, now, pc, chan, ev, cutoff, turn, frozen, heap, calls, lastCall, host,
                 out>>

(* bridge_global_callback: the call is sent, recorded, its resolver stored. *)
GuestCalls(b) ==
  /\ Acts(b, "call") /\ cfg.source /\ ~OverLimit(calls[b])
  /\ lastCall' = TakeId(b)
  /\ calls' = [calls EXCEPT ![b] =
                 StoreResolver(RecordSent(Attempt(@), LastId(b) + 1), LastId(b) + 1)]
  /\ host' = [host EXCEPT ![b] = @ \union {LastId(b) + 1}]
  /\ Spend(b)
  /\ UNCHANGED <<cfg, now, pc, chan, ev, cutoff, turn, frozen, heap, touched, timers, out>>

(* A bogus handle is refused with a catchable rejection. *)
GuestCallRefused(b) ==
  /\ Acts(b, "badcall") /\ ~OverLimit(calls[b])
  /\ calls' = [calls EXCEPT ![b] = RecordBlocked(Attempt(@))]
  /\ Spend(b)
  /\ UNCHANGED <<cfg, now, pc, chan, ev, cutoff, turn, frozen, heap, touched, timers,
                 lastCall, host, out>>

(* Over the limit, a function or an unserializable argument; or, with a call *)
(* id already taken, too large or not sendable: fatal to the calling run,    *)
(* and the executing turn is terminated.                                     *)
GuestCallFatal(b) ==
  /\ Acts(b, "badcall")
  /\ calls' = [calls EXCEPT ![b] = FatalBridgeError(Attempt(@))]
  /\ lastCall' \in IF OverLimit(calls[b]) THEN {lastCall} ELSE {lastCall, TakeId(b)}
  /\ turn' = [turn EXCEPT !.bare = TRUE]
  /\ Spend(b)
  /\ UNCHANGED <<cfg, now, pc, chan, ev, cutoff, frozen, heap, touched, timers, host, out>>

(* A getter among the arguments has ended the run: nothing is sent. *)
GuestCallCut(b) ==
  /\ pc = "js" /\ Live(b) /\ "badcall" \in Lim(b).ops /\ rs[b].used < Lim(b).fuel
  /\ calls[b].error \/ turn.kill
  /\ ~OverLimit(calls[b])
  /\ calls' = [calls EXCEPT ![b] = RecordBlocked(Attempt(@))]
  /\ lastCall' = TakeId(b)
  /\ Spend(b)
  /\ UNCHANGED <<cfg, now, pc, chan, ev, cutoff, turn, frozen, heap, touched, timers, host,
                 out>>

(* waitUntil registers work, pending or settled already. *)
GuestWaits(b) ==
  /\ Acts(b, "wait")
  /\ \E n \in {0, 1} :
       rs' = [rs EXCEPT ![b].reg = TRUE, ![b].waits = @ + n, ![b].used = @ + 1]
  /\ UNCHANGED <<cfg, now, pc, chan, ev, cutoff, turn, frozen, heap, touched, timers, calls,
                 lastCall, host, out>>

GuestWorkSettles(b) ==
  /\ pc = "js" /\ ~Interrupted /\ Live(b) /\ rs[b].waits > 0
  /\ \E bad \in BOOLEAN :
       rs' = [rs EXCEPT ![b].waits = @ - 1, ![b].werr = @ \/ bad]
  /\ UNCHANGED <<cfg, now, pc, chan, ev, cutoff, turn, frozen, heap, touched, timers, calls,
                 lastCall, host, out>>

(* The module's evaluation or the call's promise settles. *)
GuestSettles(b) ==
  /\ pc = "js" /\ ~Interrupted /\ ~CallDue(turn.owner)
  /\ rs[b].phase = "settling" /\ rs[b].root = "pending"
  /\ \E v \in {"fulfilled", "rejected"} : rs' = [rs EXCEPT ![b].root = v]
  /\ UNCHANGED <<cfg, now, pc, chan, ev, cutoff, turn, frozen, heap, touched, timers, calls,
                 lastCall, host, out>>

(* invoke_requested_call: the export is called; its promise is the new root. *)
InvokeCall ==
  /\ pc = "js" /\ ~Interrupted /\ CallDue(turn.owner)
  /\ rs' = [rs EXCEPT ![turn.owner].callPending = FALSE, ![turn.owner].root = "pending"]
  /\ UNCHANGED <<cfg, now, pc, chan, ev, cutoff, turn, frozen, heap, touched, timers, calls,
                 lastCall, host, out>>

(* A guard fires (a limit, or a hard abort) while guest code runs. *)
Killed ==
  /\ pc = "js" /\ ~turn.kill /\ "kill" \in Lim(turn.owner).host
  /\ turn' = [turn EXCEPT !.kill = TRUE]
  /\ UNCHANGED <<cfg, now, pc, chan, ev, cutoff, frozen, heap, touched, rs, timers, calls,
                 lastCall, host, out>>
-----------------------------------------------------------------------------
(* The end of a turn: finish_turn and scan. *)

Me == turn.owner

Mine == rs[turn.owner]

Finish(kind) == Conclude(Me, Mine, kind, Interrupted, Back)

(* A kill wins over everything: failure, or the background phase's end. *)
EndKilled ==
  /\ pc = "js" /\ turn.kill
  /\ Finish(IF InGrace(Me) THEN "ok" ELSE "failed")

(* Then the run's own bridge violation. *)
EndBridgeError ==
  /\ pc = "js" /\ ~turn.kill /\ calls[Me].error
  /\ Finish(IF InGrace(Me) THEN "ok" ELSE "failed")

Undisturbed == pc = "js" /\ ~turn.kill /\ ~calls[Me].error

(* The call's target does not resolve, or its arguments do not decode. *)
EndCallTarget ==
  /\ Undisturbed /\ CallDue(Me)
  /\ Finish("failed")

(* A timer's callback throws. *)
EndThrown ==
  /\ Undisturbed /\ ~turn.bare /\ turn.kind = "timer"
  /\ Finish(IF InGrace(Me) THEN "ok" ELSE "failed")

EndRejected ==
  /\ Undisturbed /\ Mine.phase = "settling" /\ Mine.root = "rejected"
  /\ Finish("failed")

(* The value does not serialize or is too large; or a bare terminate is *)
(* still pending and is honoured as an abort.                           *)
EndUnserializable ==
  /\ Undisturbed /\ Mine.phase = "settling" /\ Mine.root = "fulfilled" /\ ~Mine.callPending
  /\ Finish("failed")

HasGrace == Mine.reg /\ Lim(Me).grace > 0

EndFinished ==
  /\ Undisturbed /\ Mine.phase = "settling" /\ Mine.root = "fulfilled" /\ ~Mine.callPending
  /\ ~HasGrace
  /\ Finish("ok")

(* Registered work remains: the Result goes out early, unless the run has *)
(* no client or the send fails, and the rest of the turn is background.   *)
EnterGrace ==
  /\ Undisturbed /\ Mine.phase = "settling" /\ Mine.root = "fulfilled" /\ ~Mine.callPending
  /\ HasGrace
  /\ \E sent \in IF Lim(Me).session THEN BOOLEAN ELSE {FALSE} :
       /\ rs' = [rs EXCEPT ![Me] =
                   [Folded(@) EXCEPT !.phase = "grace", !.entered = now, !.graceStart = now,
                                     !.early = sent]]
       /\ out' = [out EXCEPT ![Me] = IF sent THEN Append(@, "early") ELSE @]
  /\ UNCHANGED <<cfg, now, pc, chan, ev, cutoff, turn, frozen, heap, touched, timers, calls,
                 lastCall, host>>

(* Nothing can wake the run: it has neither a source nor a timer. *)
Stranded == ~cfg.source /\ PeekDeadline(timers[Me]) = Never

EndStranded ==
  /\ Undisturbed /\ Mine.phase = "settling" /\ Mine.root = "pending" /\ Stranded
  /\ Finish("failed")

(* grace_scan: the work is done, out of (real) time, or out of reach. *)
GraceOver ==
  \/ Mine.waits = 0
  \/ now - Mine.graceStart >= Lim(Me).grace
  \/ Stranded

EndGrace ==
  /\ Undisturbed /\ InGrace(Me) /\ GraceOver
  /\ Finish("ok")

\* Mutant: an event's turn never re-queues its run.
NeverRequeued(s, t) == turn.kind # "frame"

(* The event path re-queues a deadline only when it changed; the start and *)
(* timer paths always do.                                                  *)
Requeued(s, t) == turn.kind # "frame" \/ NextDeadlineOf(Me, s[Me], t[Me]) # turn.queued

(* Continue: the run parks.  The settling scan looks for the run's own     *)
(* violation once more, grace_scan does not.  A turn that was interrupted  *)
(* all the same (another run's violation, or one grace_scan overlooked)    *)
(* concludes its owner instead.                                            *)
Suspends ==
  /\ pc = "js" /\ ~turn.kill /\ ~CallDue(Me)
  /\ \/ Mine.phase = "settling" /\ Mine.root = "pending" /\ ~Stranded /\ ~calls[Me].error
     \/ InGrace(Me) /\ ~GraceOver

EndPark ==
  /\ Suspends /\ ~turn.bare
  /\ LET rsN == [rs EXCEPT ![Me] = LeaveTurn(@)]
     IN  /\ rs' = rsN
         /\ heap' = IF cfg.mode = "oneoff" THEN {}
                    ELSE PeekValid(heap \union DrainTouched(rsN, timers)
                                        \union (IF Requeued(rsN, timers)
                                                  THEN Push(Me, rsN, timers) ELSE {}),
                                   rsN, timers)
  /\ touched' = {}
  /\ turn' = NoTurn
  /\ pc' = Back
  /\ cutoff' = IF Back = "select" THEN 0 ELSE cutoff
  /\ UNCHANGED <<cfg, now, chan, ev, frozen, timers, calls, lastCall, host, out>>

EndBlamed ==
  /\ Suspends /\ turn.bare
  /\ Finish("aborted")
-----------------------------------------------------------------------------
Init ==
  /\ cfg \in Setups
  /\ now = 0 /\ pc = "select" /\ chan = <<>> /\ ev = NoEvent /\ cutoff = 0
  /\ turn = NoTurn /\ frozen = 0 /\ heap = {} /\ touched = {}
  /\ rs = [r \in Runs |-> NewRun]
  /\ timers = [r \in Runs |-> EmptyTimers]
  /\ calls = [r \in Runs |-> NoCalls]
  /\ lastCall = [c \in Runs |-> NoId]
  /\ host = [r \in Runs |-> {}]
  /\ out = [r \in Runs |-> <<>>]

LoopStep ==
  \/ Receive \/ TimedOut \/ ReadClock \/ TimedOutOne \/ StartOneOff
  \/ \E r \in Runs : SweepTimer(r) \/ SweepWall(r) \/ SweepGraceWall(r)
  \/ SweepDone
  \/ DeliverJob \/ DiscardLate \/ DeliverAnswer \/ DeliverUndecodable
  \/ DeliverTerminate \/ DeliverLost

GuestStep ==
  \/ \E b \in Runs :
       \/ \E d \in cfg.delays : GuestSetsTimer(b, d)
       \/ GuestTimerRefused(b) \/ GuestClearsTimer(b)
       \/ GuestCalls(b) \/ GuestCallRefused(b) \/ GuestCallFatal(b) \/ GuestCallCut(b)
       \/ GuestWaits(b) \/ GuestWorkSettles(b) \/ GuestSettles(b)
  \/ Killed

TurnStep ==
  \/ InvokeCall \/ EnterGrace
  \/ EndKilled \/ EndBridgeError \/ EndCallTarget \/ EndThrown \/ EndRejected
  \/ EndUnserializable \/ EndFinished \/ EndStranded \/ EndGrace \/ EndPark \/ EndBlamed

HostStep ==
  \E r \in Runs :
    \/ Submit(r)
    \/ \E k \in {"value", "error", "bad"} : Answer(r, k)
    \/ \E k \in {"terminate", "lost"} : HostEnds(r, k)

Next == LoopStep \/ GuestStep \/ TurnStep \/ HostStep \/ Tick

Spec == Init /\ [][Next]_vars

(* The loop is a thread that is scheduled, a turn ends (module TurnGuard: *)
(* the guard ends it if the guest does not), and time passes; guest and   *)
(* host owe nothing.                                                      *)
FairSpec == Spec /\ WF_vars(LoopStep \/ TurnStep \/ Tick)
-----------------------------------------------------------------------------
(* Between turns the heap holds the next deadline of every suspended run,  *)
(* also of one whose timers another run's turn changed: a deadline the     *)
(* heap does not know is a run nobody wakes.                               *)
DeadlineQueued ==
  cfg.mode = "instance" /\ pc \in {"select", "gap", "sweep", "deliver"} =>
    \A r \in Runs : Live(r) /\ NextDeadline(r) # Never => <<NextDeadline(r), r>> \in heap

(* Every call is accounted for in one way: the records in flight, the      *)
(* stored resolvers and the calls the host has or has answered agree, each *)
(* in-flight index names its own unanswered record, no more calls are sent *)
(* than the limit allows, and no id is in flight twice on one connection   *)
(* (co-resident runs of different connections may hold the same id).       *)
Answers(r) == {chan[i].call : i \in {i \in 1 .. Len(chan) :
                                        chan[i].run = r /\ chan[i].call # NoId}}
              \union (IF ev.run = r /\ ev.call # NoId THEN {ev.call} ELSE {})

CallsAccounted ==
  \A r \in {b \in Runs : Live(b)} :
    LET l == calls[r]
        unanswered == {i \in DOMAIN l.records : l.records[i].outcome = "unanswered"}
    IN  /\ l.resolvers = {f.call : f \in l.inFlight}
        /\ unanswered = {f.idx : f \in l.inFlight}
        /\ \A f \in l.inFlight : l.records[f.idx].call = f.call
        /\ host[r] \union Answers(r) \subseteq l.resolvers
        /\ MaxCalls > 0 =>
             Cardinality({i \in DOMAIN l.records : l.records[i].call # NoId}) <= MaxCalls
        /\ \A b \in Runs \ {r} : Live(b) /\ Lim(b).conn = Lim(r).conn =>
             l.resolvers \intersect calls[b].resolvers = {}

(* When the loop takes up a suspended run for an event or a deadline of    *)
(* its own, the wait it is billed for never exceeds the budget it had      *)
(* left, however late the loop gets to it; and a run fails at its wall     *)
(* only when its counted time has reached it.  (A run swept away with its  *)
(* instance is billed to the sweep.)                                       *)
WallHonest ==
  [][\A r \in Runs :
       cfg.mode = "instance" /\ pc # "js" /\ Lim(r).wall > 0
         /\ rs[r].phase = "settling" /\ rs'[r] # rs[r] =>
         LET c == IF rs'[r].phase = "done" THEN rs'[r].wall ELSE rs'[r].counted
         IN  /\ c <= Later(Lim(r).wall, rs[r].counted)
             /\ rs'[r].kind = "wall" => c >= Lim(r).wall]_vars

(* While the loop works off events, a deadline ends a run only when every  *)
(* event of that run that arrived before it has been delivered.            *)
ArrivalOrder ==
  [][\A r \in Runs :
       pc = "sweep" /\ ev # NoEvent /\ Live(r) /\ rs'[r].phase = "done" =>
         \A i \in 1 .. Len(chan) :
           chan[i].run = r => chan[i].at >= DeadlineInstant(r, rs[r])]_vars

(* Timers of a run fire in the order of their deadlines, then of their     *)
(* creation, never once cleared and never before the millisecond they are  *)
(* scheduled for.  A timer scheduled earlier is overtaken only when it was *)
(* past due as it was set; of timers scheduled for the same millisecond    *)
(* the later set one may go first (its deadline has less of a millisecond  *)
(* left over).  The clock the guest sees is never ahead of the real one.   *)
TimerOrder ==
  [][/\ pc = "sweep" /\ turn'.kind = "timer" =>
          LET t == timers[turn'.owner].entries
          IN  \E e \in t :
                /\ e.id = turn'.fired /\ e.at <= now /\ e.virt * Ms <= now
                /\ \A f \in t : f = e \/ Before(e, f)
                /\ \A f \in t : f.virt < e.virt => f.at >= (f.virt + 1) * Ms
     /\ frozen' * Ms <= now']_vars

(* What a client sees of a run, from what the run has sent. *)
Stage(r) ==
  CASE rs[r].phase = "new" -> "new"
    [] rs[r].phase # "new" /\ out[r] = <<>> -> "waiting"
    [] out[r] = <<"early">> -> "background"
    [] out[r] \in {<<"result">>, <<"early", "complete">>, <<"early", "result">>} -> "answered"
    [] OTHER -> "answered again"

Life == INSTANCE RunLife WITH stage <- [r \in Runs |-> Stage(r)]

(* Every run is answered once, early and then completed or at its end, also *)
(* when the instance dies with it.                                          *)
LifeSpec == Life!Spec

(* A run with a wall, and a run in its background phase, ends; an armed     *)
(* timer fires, is cleared or goes with its run.                            *)
Owed(r) ==
  \/ Open(r) /\ Lim(r).wall > 0
  \/ InGrace(r)
  \/ timers[r].entries # {}

RunEnds == \A r \in Runs : Owed(r) ~> ~Owed(r)
=============================================================================
