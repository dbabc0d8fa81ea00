# A TLA+ verification of iso4

iso4 runs untrusted JavaScript for a Node.js host. A Rust process holds V8
isolates; the host talks to it over a Unix socket with framed, multiplexed
messages. This directory models the concurrent core of both sides in TLA+,
checks it with TLC on small instances, and proves the central invariants with
TLAPS for every value of the constants.

Paths below are relative to the repository; `core` is `crates/core/src`,
`server` is `crates/server/src`, `sandbox` is `packages/iso4-sandbox/src`.

## 1. The system: inventory

| Component | State it keeps | Operations | Shares with, or is called by |
|---|---|---|---|
| Sandbox facade (`sandbox/index.ts`) | child process, pool, control connection | `run`, `createPrefix`, `Prefix.run`, `dispose` | calls the pool |
| Host run pool (`sandbox/pool.ts`) | slots in use, FIFO of callers; connections, opens in flight, callers parked on them; sweep timer | `acquire`, `release`, `setCapacity`, `tryAcquire`, `openOrWait`, `open`, `sweep`, `dispose`, `withClient` | event loop; allowance arrives with each Result |
| Host client (`sandbox/client.ts`) | runs by id, epilogues, precompile and control waiters, grace timers | `runRawCode`, `prefixRun`, `precompile`, `disposePrefix`, frame router, teardown | socket |
| Wire codec (`server/wire.rs`, `server/ipc.rs`, `sandbox/ipc.ts`, `crates/types`) | bytes read so far of a frame | encode, decode, read a frame under a ceiling | both ends |
| Session demux (`server/session.rs`) | run routes of the connection, handshake | route frames, start, refuse, terminate, fail on drop | one thread per connection; calls the engine |
| Outbox (`server/ipc.rs`) | bounded queue, byte count, socket token, death reason | send (inline or queued), writer loop, stall kill | every run's thread and the demux; one writer thread |
| Engine (`core/engine.rs`) | prefix store, registry | `prepare`, `run`, `prefix_run`, `dispose_prefix` | demux threads |
| Warm registry (`core/warm.rs`, `core/policy.rs`) | instances per prefix, in-flight counts, ledger counters, pressure latch, demand statistics | `acquire`, `release`, `reserve_oneoff`, `release_oneoff`, `dispose_prefix`, pressure pass | one mutex; demux and owner threads |
| Instance owner thread (`core/v8/instance.rs`) | parked runs, channel of jobs, frames and Retire | dispatch, turns, deadline sweep, taint sweep, conclude | one thread per instance |
| Turn guard and watchdog (`core/v8/guard.rs`) | armed target, executing run, generation, reason cell; the watchdog's heap | arm, clear, abort, fire and re-fire | owner, watchdog and demux threads |
| Run phases (`core/v8/runloop.rs`, `runtable.rs`) | settle state, wall and counted time, waitUntil promises, grace record | start, frame and timer turns, scan, output, grace | owner thread |
| Bridge, streams, timers (`core/v8/bridge.rs`, `streams.rs`, `timers.rs`) | call log and budgets, credit windows, timer table | calls and responses, chunks and credit, set and clear | owner thread; frames from the host |
| Modules, globals, codecs, URL, snapshot, OOM glue | per-isolate V8 objects | conversions and V8 calls | owner thread |
| Safe fetch (`packages/iso4-fetch`) | per-request redirect and DNS state | checked fetch | host handlers |

What is hard here: a run crosses at least five threads (event loop, demux,
owner, watchdog, writer) and most steps happen between locks. A prefix may be
disposed, an instance tainted, a connection torn down or a run aborted at any
point of another run's life. Terminating V8 is asynchronous and can be swallowed.
Counters are maintained, not recomputed. `PROJECT.json` lists the hazards at their
lines with the properties that watch them.

What makes each part correct:

- pool: slots neither leak nor stay free beside a queue; a caller parked on an
  open always has one in flight; the per-connection cap; nothing outlives dispose;
- connection: an answer finds its run, ids are not confused, a teardown settles all;
- wire: both ends read from the same bytes what the other wrote, however the
  socket cuts them, and neither calls the other broken without cause;
- outbox: whole frames in order, no lost wakeup, drained before exit;
- registry and engine: exact ledgers, no run on a dead or foreign instance, every
  started run answered, every retired thread and disposed prefix gone;
- guard: a limit and an abort hit the run that earned them, an overdue turn ends, an
  abort is not lost;
- run loop: no deadline forgotten, nobody billed for the loop's lag, events and
  deadlines in order of arrival, one answer per run;
- streams: conserved windows, every byte once and in order, one outcome per body;
- declared surface: a guest call reaches the handler of the function it called, and
  what a prefix declares stays there whatever co-resident runs do.

## 2. The modules

| Module | Models | State ↔ code |
|---|---|---|
| `WarmPolicy` | the pure verdicts of `policy.rs` and the registry's arithmetic | – |
| `WarmRegistry` | `WarmRegistry` | `pool`, `pfx`, `caps`, `inFlight`, `dead`... are the fields of `Instance`; `total`, `idleTotal`, `oneoffRunning`, `shedding` those of `RegistryInner`. One operator per critical section |
| `Engine` (extends it) | `Engine`, the owner threads, the start and the end of every run | `rst` is where a run is between two locks, `thread` where an owner thread is, `chan` its crossbeam channel |
| `TurnGuard` | one instance's guard, watchdog, turns, aborts, deadline and taint sweeps | `target`, `executing`, `generation` are `GuardShared`; `reason`, `bare` the `ReasonCell`; `term` V8's flag; `entries` the watchdog's heap |
| `RunLoop` (extends the next two) | `serve_instance`, `run_call_phase` and the turns of `runloop.rs` they share | `rs` is `RunState` with its phase, wall and grace record; `heap` the lazily deleted deadline heap; `chan` the events with their arrival stamps; `out` the answers sent |
| `TimerTable` | a run's timers, `timers.rs`, on a wall clock read in whole milliseconds | `entries` is the map, `order` the ordering heap with its stale elements |
| `CallLog` | a run's calls to the host, `bridge.rs` | counter, records, in-flight index, resolvers, first violation |
| `RunLife` | abstract: a submitted run is answered once, or early and then completed once | what `RunLoop` promises |
| `Connection` | `RuntimeIpcClient` (`client.ts`) and the session demux (`session.rs`), joined by one FIFO per direction | host: `runs`, `precompiles`, `controls`, `graceRuns`, `timer`; runtime: `routes`, `run`, `waiting`. A frame carries the call `c` it is really about, which only the properties look at; routing uses the ids |
| `Streams` | a host body streamed into a run and a body the run returns: `streams.rs`, the pumps and registries of `client.ts` and `web-codec.ts` | `src`, `gin` the inbound stream's two ends; `out`, `ost` the outbound one's; `cons` the host's reader |
| `Codec` | `PayloadWriter`, `PayloadReader`: numbers, strings, blobs, optionals, lists, unions as bytes | – |
| `Frames` | the payload layouts, in four tables transcribed separately: what `ipc.ts` writes, what `ipc.rs` and `wire.rs` read, and the reverse | – |
| `Surface` | what a prefix declares: host modules and their handle ids, stubs, placeholders, rebind checks (`bridge.rs`, `modules.rs`, `prefix.rs`) | – |
| `Dialogue` (extends `Frames`, `Surface`) | a connection byte by byte, and over it a prefix with overlapping runs on one instance | the two byte streams, what each side has sent and read; the instance's global object and the runs' tables |
| `Outbox` | `Outbox`, `OutboxState`, `FrameProgress`, `writer_loop` | variables carry the fields' names; `wire` is what the socket took; condition variables are explicit |
| `FrameChannel` | abstract: a FIFO channel that may close | what `Outbox` promises |
| `HostPool` | `SlotPool`, `ConnectionRegistry`, `RunPool` | variables carry the fields' names; `phase` is the await a caller is at |
| `MCEngine`, `MCHostPool`, `MCConnection`, `MCRunLoop`, `MCWire` | constants and symmetry for TLC | – |
| `Sequencing` | helpers on sequences that both models and proofs use: a filter, a sum and a concatenation, as recursive functions | – |
| `SequencingProofs` | lemmas on those, on tails, beginnings, orders and sequences without repetition; induction | – |
| `EngineProofs`, `TurnGuardProofs`, `OutboxProofs`, `HostPoolProofs`, `ConnectionProofs`, `StreamsProofs`, `RunLoopProofs` | theorems and proofs | – |

How they fit. A call passes `HostPool` (a slot and a connection), `Connection` (an id
and a route), `Engine` (an instance), `RunLoop` (its turns, each under `TurnGuard`)
and back; `Outbox` is the runtime's half of the FIFO `Connection` assumes,
`Dialogue` the bytes in it, `Streams` the frames that carry bodies. Each module takes
what its neighbours do as a free choice among what they allow.

Granularity. An action is one critical section, one message, or one stretch of
code between two awaits. Guest code is a free choice among what V8 lets it do:
end, park, burn a budget, swallow a terminate, break the bridge. `PROJECT.json`'s
`map` gives the source lines of every definition.

Abstractions worth knowing:

- *Floating point* (eviction scores, demand rates, the slot formula) is a
  nondeterministic choice among the verdicts its inputs allow: `VictimSets` allows
  every victim not dominated by another, `Allowances` every slot figure.
- *Memory readings* come from `UsageSamples`; *CPU readings* are the watchdog
  noticing an excess at any moment after it happened.
- *Time* is counted in `RunLoop` only, where it decides what a run is billed and
  which deadline goes first. Elsewhere a timeout may fire whenever the code has it
  armed; a connection's idle TTL may have run out at any sweep. This allows more than
  the code does, so invariants carry over. In `RunLoop` the arrival stamp of an event
  and its send are one step (observation 8 is about the gap), and ids do not wrap. An
  instant is a tick, of which a millisecond has `Ms`; the wall clock, hence the guest's
  and what a timer is scheduled for, is in milliseconds (`WallMs`), deadlines are not.
  The wall clock and the monotonic clock are one, without steps.
- *Call ids* come from one counter per connection (`session.rs:363`), while an instance
  may hold runs of several connections: each run of `RunLoop` has a connection, and
  equal ids can be in flight side by side.
- *Spurious wakeups* of condition variables are left out in `Outbox`: they would
  add one more pass of a loop that re-reads everything.
- In `HostPool` every end of a connect (a Hello, a socket error, the timeout), a tick
  of the sweep timer and its aging are events of their own, whose microtasks all run
  before the next (`Drained`). Callers interleave at every other await.
- In `Streams` bytes are numbered, so a lost, repeated or reordered byte shows.
- In `Codec` a number of 2^16 or more is one value, `Huge`, and a blob is a token of
  its length. The `ok` byte of a `StreamEnd` is 0 or 1, which is all the runtime writes;
  `ipc.ts:1683` would take any other for a failure.
- `Dialogue` leaves out the handshake deadline, reserved names, invalid export
  identifiers, names the guest froze and per-run frame ceilings. Neither side writes a
  frame over the ceiling: the encoders' error paths for it are not taken.

## 3. Runs

Every bound is a constant of the cfg or named in the module.

| Run | Shows | Bounds, and why they suffice |
|---|---|---|
| `engine_races` | ledgers exact (`InFlightExact`, `LedgerExact`), the dead stay busy until dropped (`DeadAreBusy`), an idle instance is usable, Retire is last, no live run on a dead thread (`ThreadsServe`) | 2 instances, 3 runs, 1 prefix: two runs share an instance while the third evicts, disposes or starts cold |
| `engine_pressure` | the same ledgers with both memory lines on and no pooling under the latch (`PressureHolds`); every started run is answered; threads exit and disposed prefixes drain (`RetiredDrains`) | 1 instance, 2 runs, so that joins, cold-start failures and sweeps meet; usage samples above the budget, in the hysteresis band and at its lower line; an admission line one sample crosses |
| `engine_stranded` (violation) | a job sent between the sweep's last look and the channel's drop is never answered | 3 runs |
| `guard_races` | quiet between turns; a limit or an abort hits the run that earned it, and a rider's bridge violation only the turn it cuts (`NoInnocentKill`); a consumed abort ends the run; a turn over its budget ends, though guest code swallows terminates | 2 runs (one with limits, one without), two turns at least, so that a stale watchdog entry meets a later turn; the safety part is proved for any number |
| `guard_second_result` (violation) | a run in its post-Result phase answered with a second Result by a taint sweep | 2 runs |
| `outbox_races` | token, byte count and drain at exit (`OutboxExact`), wakeups (`WriterNotAsleep`, `WaitersBlocked`), whole frames; every send returns; refinement of `FrameChannel` with its fairness (`ChannelFairSpec`) | 2 producers, up to 3 frames, one size above the whole budget, writes cut at every unit |
| `pool_races` | slots exact; no queue beside a free slot, every waiter has an open, a shrunken allowance is walked down (`AdmissionFair`); the sweep armed and harmless, runs within the cap, nothing survives dispose (`ConnectionsKept`) | 4 callers of every kind, allowances 0, 1, 3 around a capacity of 2, 2 connections of 2 places: a caller more than all places, so that queueing, a second open and a shrink meet |
| `pool_liveness` | every call settles | 3 callers, 2 slots, 2 connections |
| `connection` | a frame reaches the run it is about, ids reused or not, and a ready connection joins compatible builds (`FramesHitTheirOwn`, eight named parts); a hard abort whose Terminate is sent, or whose request is written, settles its call even if the runtime reads and answers nothing; a run whose route is gone gets its caller an outcome; a teardown settles all | 2 calls and one run id, so that the second call reuses the first one's; 1 bridge call whose answer can be late; peers that match, differ in version, format or probe, or stay silent |
| `streams` | windows conserved, buffers within them, backpressure, no lost pump (`FlowControl`); every byte once and a clean end means all (`BodyDelivered`); one outcome, before RunComplete (`ClosesOnce`); no read waits for ever (`ReadsServed`); the source released | window 2, chunks of 1, a source of 4: the window fills and refills; a peek of 1 byte before the host decodes, an own body of 2, 2 pull rounds per turn, an idle allowance of 1 tick |
| `run_loop` | the heap knows every deadline (`DeadlineQueued`); calls accounted for; nobody billed beyond his budget (`WallHonest`); events before later deadlines (`ArrivalOrder`); timers by deadline, then creation, never before their millisecond (`TimerOrder`); refinement of `RunLife` (`LifeSpec`); runs and timers end (`RunEnds`) | six set-ups: two runs sharing an instance, of two connections with timers and a wall, of two connections with calls under equal ids, or of one with waitUntil work, a kill and a fatal bridge violation; a run alone with calls and bad answers, with waitUntil work, a violation, a terminate and a lost connection, and without an event source. 2 calls, 2 timers, at most 2 ticks per turn, walls of 2 or 4 ticks of half a millisecond (`Ms = 2`): a deadline can fall before, at and after an event, and two timers on either side of a millisecond |
| `wire` | each side reads the oldest unread message with the fields sent, garbage and cut frames deliver nothing, a drop has a cause (`WireExact`); a guest call reaches the handler of the function it called (`CallsReachTheirHandler`); stubs, values and handles stay (`SurfaceHolds`) | besides the frames of the runs, one sample of any other frame per behaviour and direction; one fragmentation of the byte stream; frames of length zero, over each ceiling and cut short; 3 runs, 2 at a time, of a prefix with two host modules with nested and equal names, rebinding, overriding and leaving out declared functions |

A violation run checks one statement of the repository's own comments or protocol
document; `PROJECT.json` quotes it under `findings`.

Deadlock is checked for `Engine`, whose host can always start another run.
Elsewhere `CHECK_DEADLOCK FALSE`: the guard stops at its generation bound or with a
dead instance, the outbox when its writer exited, the pool after dispose, a
connection after its calls, a run and its streams when they are over, the dialogue
when its messages are sent.

Notes on what the properties do not say. `ArrivalOrder` is about a loop that works off
events; after a wait that timed out the code re-reads the clock, and what arrives in
that gap may lose against the deadline (observation 2). `WallHonest` is about the
instance loop, and about a run taken up for an event or a deadline of its own, not one
swept away with its instance. `TimerOrder` promises creation order for equal deadlines
only, which is less than for equal scheduled times (observation 16). `CallsAccounted`
keeps ids apart on one connection, not on an instance. `NoInnocentKill` lets the owner
of a turn end as aborted when a continuation riding in it broke the bridge (observation
11); the rider itself is then answered by the reset. `HardAbortSettles` speaks of a call
whose request is written or whose Terminate is sent (observation 17). `LifeSpec` accepts an early answer followed by a second Result, which
`guard_second_result` is about. In `CallsReachTheirHandler` code of a finished run
speaks for the run whose turn it runs in, as `runtable.rs:264` decides. `SurfaceHolds`
excepts a run after which a client dispatched another one and left a declared stub out
of its frame: that shadows the stub for co-residents by a placeholder.

### Fairness

- `Engine`: threads that started something continue. `TurnEnds` is strongly fair:
  every run has a wall limit in the deployments considered, and the deadline sweep
  precedes every message the loop delivers. New work is never fair.
- `TurnGuard`: the watchdog and the owner's Rust code continue (weak); V8 unwinds
  guest code under a terminate flag (strong: a terminate can be swallowed only as
  often as there are exports to retry).
- `Outbox`: whoever can take the lock does; a write attempt ends by its socket
  timeout; the wait for room is a timed wait. Nobody has to send or to drop a handle.
- `HostPool`: the event loop runs its microtasks (`[]<>Drained`); a connect ends by the
  handshake timeout (strong: its event waits for the microtasks of others); answers
  arrive and a dead socket is noticed (weak). A connect that is tried over and over
  does not always fail (strong): without it a caller sent back by failing opens can be
  attached to another failing open for ever, since newcomers keep opening.
- `Connection`: the host's event loop and its timers continue, and a write on a dead
  socket fails (weak). That a write completes is up to the runtime, which may stop
  reading, and that a handler settles is up to the application: neither is fair. The
  runtime owes nothing, except in `AnswersArrive`, which states the assumption in its formula: the
  demux and the threads of a run continue, and a run told to end does.
- `Streams`: the guest's thread delivers frames and fires the idle deadline (strong:
  turns of guest code come in between), finishes a drive pass, and time passes; the
  host's router reads and a reader whose chunk came takes it (weak). Guest code, the
  host's source and its consumer owe nothing; that a guest read is answered assumes, in
  its formula, that the host's pump goes on.
- `RunLoop`: the loop is scheduled, a turn ends (the guard sees to it) and time passes
  (weak). Guest and host owe nothing.

### Observations

Disagreements and corners met while modelling that have no run of their own.

1. A hard abort that lands after `runloop.rs:1971` last looked and before the guard is
   cleared is consumed by the demux while the Result stays the success it was;
   `docs/protocol.md:71` promises `ERR_ABORTED` and the comment at `runloop.rs:1970`
   says absorbing it is what the code avoids. `ConsumedAbortEnds` shows the run ends.
2. When the select of the instance loop times out the sweep reads the clock anew
   (`instance.rs:262`, "the queue is empty at that moment"): an event that arrived in
   between is not looked at first.
3. A producer waiting for room kills the connection after one full timeout
   (`ipc.rs:633`), whatever the writer wrote meanwhile; `ipc.rs:361` speaks of zero
   write progress and `ipc.rs:510` of a clock that progress resets.
4. The idle allowance of an outbound stream counts from the run's start
   (`last_activity`, `runloop.rs:1504`): registering the stream does not renew it
   (`streams.rs:139`), so a body returned after ten seconds of work can be dropped at
   once, against `docs/protocol.md:974`. It is renewed by grants only, not by every
   host read; and its sweep (`instance.rs:333`) uses the present instant where the
   other deadlines use the arrival cutoff.
5. More than `OUT_DRIVE_MAX_ROUNDS` (`streams.rs:497`) empty chunks in one turn leave a
   stream without a pull until the next event of its run, or the idle deadline.
6. An `acquire` that overtakes a dispose and ends without an instance leaves an empty
   registry entry behind (`warm.rs:765`).
7. `createPrefix` awaits between being given a connection by its load and registering
   on it (`index.ts:993`), so that the cap `tryAcquire` calls exact holds for runs only.
8. The arrival stamp is taken before the send (`engine.rs:136`); two connections feeding
   one instance can enqueue in the other order.
9. The grace scan counts real elapsed time where `runloop.rs:776` speaks of counted grace
   time.
10. A run that settles in a co-resident's turn is scanned at its own next event, timer or
    wall only.
11. A fatal bridge violation by a continuation that rides in another run's turn is
    recorded with the run it belongs to (`bridge.rs:607`, `runtable.rs:264`), but the
    terminate is the turn's: its owner is concluded as `ERR_ABORTED`, the comment at
    `instance.rs:605` taking it for a routed abort, and the sweep names it the culprit
    of the reset the violating run is answered with. In the background phase
    `grace_scan` looks at the reason only, so a violation in its own checkpoint ends the
    run as aborted too (`runloop.rs:2143`).
12. On the one-off loop a due timer goes before a wall that was due earlier
    (`runloop.rs:1165`).
13. A bridge answer that cannot be decoded in the background phase ends the run with an
    error, hence a second Result (`runloop.rs:1719`), as in `guard_second_result`.
14. `parse_bridge_response_payload` (`wire.rs:501`) accepts trailing bytes and any
    presence byte, unlike its neighbours; the layout comments of the stats and
    precompile-result encoders are out of date.
15. `globals.rs:179` says that a property the guest made non-configurable taints the
    instance; `instance_tainted` (`runloop.rs:2439`) does not see it.
16. `setTimeout` adds whole milliseconds to the present instant (`timers.rs:210`), so a
    deadline keeps the fraction of a millisecond at which it was set. Of two timers of
    equal delay set in one turn on either side of a millisecond boundary the second has
    the earlier deadline and fires first, against `DESIGN.md:1452` and
    `docs/conformance.md:128` ("equal deadlines fire in creation order") as the test at
    `timers.rs:377` reads them. Timers already past due fire in the order they were set,
    whatever they were scheduled for.
17. A hard signal that fired before `executeRun` adds its listener (`client.ts:668`) is
    looked at again, and its timer set, after the request's write has completed
    (`client.ts:680`). If the runtime reads nothing and the socket's buffer is full,
    that write does not complete and nothing bounds the call, which `client.ts:581` says
    the fallback timer does.

## 4. Proofs

All theorems hold for every value of the constants that satisfies the named
assumptions of the module (distinct tokens, finite sets, natural-number bounds).

- `EngineProofs`: `TypeCorrect`, `LedgerCorrect`, `InFlightCorrect`,
  `DeadAreBusyCorrect`, `ThreadsServeCorrect`, `PressureCorrect`. The ledger is not
  inductive by itself: that a release takes one off needs that the run still holds the
  instance (`InFlightExact`), which needs that a run with a place has one of the right
  kind (`RunShape`), that a job waits in one channel once (`ChanShape`), that pooled
  instances have a prefix (`PoolShape`) and that a dead instance is busy. `LedgerInv`
  is their conjunction. `ServeInv`, on top of it, is about the threads: a cold start
  has its instance to itself, a thread that is gone left nothing behind, a run that
  ends was served by its thread, a Retire is the last message of a channel. Registry
  operators get one lemma each on types and one on the ledger; each action of
  `Engine` cites the one it uses.
- `TurnGuardProofs`: `GuardTypeCorrect`, `QuietCorrect`, `NoInnocentKillCorrect`,
  `ConsumedAbortCorrect`. `GuardInv` adds `TurnShape` (armed means the owner's turn),
  `Blame` (every trace of a kill is deserved by the run whose turn it is, or by a live
  rider in it), `Settled` (only the sweep resets and names culprits, and before the
  turn that taints the instance nobody was ended for a rider: a rider's violation
  cannot be forgotten before the sweep ties it to the turn it cut) and `KilledEnds` (a consumed abort is still visible in the
  turn that must end it).
- `OutboxProofs`: `TokenCorrect`, `WriterWoken`, `ProducersWoken`, `FramesWhole`,
  `OutboxIsExact`, and the refinement `OutboxIsAChannel` (`Spec => ChannelSpec`).
  `OutboxInv` adds `Registered` (ids in flight are those accepted) and `HalfOut` (a
  half-written frame is in exactly one place: in a writer's hands or at the front
  of the queue), without which the next unit on the wire could belong to anything.
  `Ledger` is about bytes and order: the token holder and the queue have exactly the
  last frames accepted, in order, and the wire exactly the units of those before them.
  From it a step of the outbox is a send, a receive, a close or a stutter of
  `FrameChannel`.
- `HostPoolProofs`: `PoolTypes`, `SlotsAreExact`, `AdmissionIsFair`,
  `ConnectionsAreKept`. `PoolInv` has a part per resource: slots, places on opens in
  flight, connections, runs on each. That no run exceeds a connection's cap needs that
  a staged caller's connection was prepared for it (`StagingPrepares`), and all of it
  that a disposed pool is empty (`DisposedIsEmpty`): an open that ends after `dispose`
  would otherwise drop waiters. The parts of the two action properties that speak of
  steps (`ShrinkWalksDown`, `SweepSparesCallers`) follow from `PoolInv` action by action.
- `ConnectionProofs`: `ConnectionTypes`, `FramesHitTheirOwnCorrect`. Routing uses ids
  that wrap and are reused, so that a frame meets the right call is a fact about what
  is in flight. `ConnInv` says of each frame on its way what the two ends must still
  have (`RunOk`, `TerminateOk`, `AnswerOk`, `ReplyOk`), of two frames of one stream
  that the later does not contradict the earlier (`SBefore`, `HBefore`: nothing about
  a run follows its last frame; only a swept run has a second Result), of a
  RunComplete that its early Result is in front of it or routed (`Completes`), of
  stats replies, which carry no id, that they are in the order of their waiters
  (`RepliesInOrder`), and of a bridge call id that one run made it, wherever it is
  spoken of (`Tokens`). The proof states once what each action does to these parts,
  as a shape, and then takes the parts one at a time over the shapes.
- `StreamsProofs`: `StreamTypes`, `FlowControlCorrect`, `BodyDeliveredCorrect`,
  `ClosesOnceCorrect`, for any window, chunk limit, body, idle limit and number of
  rounds. `StreamInv` says where every unit of credit and every byte is. `Inflow` and
  `Outflow` add up what a direction has given out (held by the sender, in flight as
  bytes, buffered, on its way back): at most the window always, the window exactly
  while the stream flows. `Inside` and `Line` put the bytes of the two bodies in a row,
  from the consumer back to the source, so that a step that hands a chunk on changes
  neither. A clean end then has the whole body in front of it (`Clean`), which needs
  that nothing of a body follows its end (`InOrder`), that a run over or cut has said
  so (`Phases`, `Ends`), and that a read the guest left pending when it returned the
  stream is answered before anything is piped (`Asking`); without the last the bytes
  of that read and of the pipe could change places. The proof shows each action to be
  one of the flat `Steps`, then takes the parts of `StreamInv` one at a time.
- `RunLoopProofs`: `LoopInvariant`, `LoopTypes`, `DeadlinesAreQueued`,
  `CallsAreAccounted`, `WallsAreHonest`, `EventsBeforeDeadlines`, `TimersFireInOrder`,
  and the refinement `RunsAnsweredOnce` (`Spec => LifeSpec`), for any number of runs,
  any limits, connections and set-ups (`Setups \subseteq Setup`), any cap on timers and
  calls and any resolution `Ms` of the clock.
  `DeadlineQueued` speaks of the loop between turns and says nothing of a turn, in which
  guest code moves its own timers and, riding, those of others. `Queued` is what holds
  inside: the heap still has the deadline of every run the turn has not touched, and
  the touched ones are in the set that `drain_touched_timers` empties. `Served` is what
  `ArrivalOrder` and the billing need: when an event is delivered no deadline up to its
  arrival is left. `Events` and `Order` say of what is in the channel that it still fits
  its run and is in order of arrival, that a job is sent once and a call answered once;
  `Logs` that records, indices and resolvers are one to one and ids at most the counter
  of their run's connection; `Clocks` that no instant kept lies in the future and the
  guest's clock has been reached by the real one, millisecond against tick; `Tables`
  that every timer has its heap element and a deadline not before its millisecond; `TurnShape` what executes and which event waits behind it; `Said` what a run
  has sent, by its phase. The actions fall into five shapes, each of which preserves the
  whole of `LoopInv`: guest code (`GuestShape`), the end of a run (`Concludes`), a turn
  that begins (`Begun`), an event that arrives (`Arrived`), a step that leaves all runs
  alone (`Moved`); parking (`EndPark`) is by itself. The action properties and the
  refinement are read off these shapes. "No deadline" is `Never`, a value that is no
  instant: nothing is assumed about how long a run may last.

Induction over data. The library's induction theorems take an operator and cannot be
used; `SequencingProofs` goes around them. A set of numbers that is not empty has a
least one (`Least`, from the well-foundedness of `<`), and a set that holds 0 and,
with each number, the next holds all of `0..n` (`UpTo`); the recursive functions of
`Sequencing` are shown to exist and then unfolded one index at a time.

Checked by TLC only: all liveness (the prover does not reason about fairness or
ENABLED), such as `ReadsServed` and `SourceReleased` of `Streams` and `RunEnds` of
`RunLoop`; the fairness half of the refinement of `FrameChannel` (`ChannelFairSpec`);
and `Codec`, `Frames`, `Surface` and `Dialogue` (`WireExact`, `CallsReachTheirHandler`,
`SurfaceHolds`), whose recursive operators walk trees and byte strings and are out of
the prover's reach. Every other property of a passing run is proved.

## 5. Not modelled, and why

Structured-clone and web-type codecs, URL parsing, web classes and the facade's option
handling are sequential conversions of unbounded data. Safe fetch is a sequential
helper around the host's fetch, without shared state. V8 glue (isolate set-up,
snapshots, module instantiation and export extraction, OOM handlers) is foreign code;
what it does to control is in `TurnGuard`. Operating-system readings are inputs. Of
partly modelled components: the instance thread's heap settling and OOM label, the CPU
clock's reading, the building of a run's output, console capture and per-run frame
ceilings. `PROJECT.json` says so per component.

## 6. Plan

The modelling is complete as far as section 5 says, and every safety property and
refinement within the prover's reach is proved (section 4 says which are not). When
the code changes, the run of the component is the first thing to repeat, then its
proof: a failing leaf names the action and the part of the invariant it disturbs.
