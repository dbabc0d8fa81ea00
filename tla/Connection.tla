----------------------------- MODULE Connection -----------------------------
(***************************************************************************)
(* One multiplexed connection, both ends of it: RuntimeIpcClient           *)
(* (packages/iso4-sandbox/src/client.ts) and the session demux             *)
(* (crates/server/src/session.rs), joined by a byte stream per direction.  *)
(* Runs share the connection and are told apart by their run id alone;     *)
(* ids wrap and are used again.                                            *)
(*                                                                         *)
(* A run executes on the runtime as a free choice of bridge calls, an      *)
(* early Result and an end; Engine and RunLoop model how it gets there.    *)
(* A frame carries the call c it is really about, which only the           *)
(* properties look at: routing uses the ids.                               *)
(***************************************************************************)
EXTENDS Integers, Sequences, FiniteSets, SequencesExt, FiniteSetsExt

CONSTANTS
  Calls,       \* calls of the host: each one run, or one control request
  NoCall,
  Abortable,   \* <<c, mode>>: c was given a signal of that mode
  MaxId,       \* run ids are 0..MaxId: 2^32 - 1 in the code
  MaxCallId,   \* bound: bridge calls made on the connection
  Peers        \* what the two builds are to each other, see Init

ASSUME ConnectionAssumptions ==
  /\ IsFiniteSet(Calls) /\ NoCall \notin Calls /\ Abortable \subseteq Calls \X {"soft", "hard"}
  /\ MaxId \in Nat \ {0} /\ MaxCallId \in Nat
  /\ Peers \subseteq {"ok", "version", "format", "probe", "silent"}

VARIABLES
  peer,        \* how the handshake will find the other side
  hs,          \* the host's side of it: "auth", "ready", "failed"
  st,          \* each call: "idle", "open" (awaits its Result), "grace"
               \* (awaits its RunComplete), "done" or "failed"
  idOf,        \* the run or request id of a call
  nextRunId,
  runs,        \* RuntimeIpcClient.runs: run id -> call
  precompiles, \* precompileWaiters: calls by request id
  controls,    \* controlWaiters
  written,     \* calls whose request frame left the socket's write buffer
  fired,       \* <<c, mode>>: the signal of that mode has fired; kept while c is
               \* not settled
  listening,   \* <<c, mode>>: its listener is attached
  timer,       \* calls whose TERMINATE_GRACE_MS timer is set
  graceRuns,
  handlers,    \* bridge handlers in flight
  sock,        \* the host's socket: "open" or "destroyed"
  reader,      \* FrameReader: "open", "closed", or "ended": the router stopped
  disposed,
  toServer,
  toHost,
  demux,       \* "handshake", "serving", "ended"
  routes,      \* ConnRuns: run id -> run
  run,         \* each run: "none", "running", "posted" (its early Result is
               \* out), "over"; and with its route gone and its answer not sent
               \* yet: "ending", "closing" after an early Result, "swept"
  told,        \* runs that were delivered a Terminate or a ConnectionLost
  waiting,     \* each run's unanswered bridge calls
  lastCallId   \* Caller.call_ids

hostVars == <<hs, st, idOf, nextRunId, runs, precompiles, controls, written, fired, listening,
              timer, graceRuns, handlers, sock, reader, disposed>>
serverVars == <<demux, routes, run, told, waiting, lastCallId>>
vars == <<peer, hostVars, toServer, toHost, serverVars>>

Ids == 1..MaxId
Modes == {"soft", "hard"}

\* peer: "ok"; "version", another protocol version; "format", the runtime
\* cannot read what Node writes; "probe", Node cannot read what the runtime
\* writes; "silent", the runtime never answers.
Init ==
  /\ peer \in Peers /\ hs = "auth"
  /\ st = [c \in Calls |-> "idle"]
  /\ idOf = [c \in Calls |-> 0]
  /\ nextRunId = 0
  /\ runs = [i \in Ids |-> NoCall] /\ precompiles = {} /\ controls = <<>>
  /\ written = {} /\ fired = {} /\ listening = {} /\ timer = {}
  /\ graceRuns = 0 /\ handlers = {}
  /\ sock = "open" /\ reader = "open" /\ disposed = FALSE
  /\ toServer = <<[t |-> "Authenticate"]>> /\ toHost = <<>>
  /\ demux = "handshake"
  /\ routes = [i \in Ids |-> NoCall]
  /\ run = [c \in Calls |-> "none"]
  /\ told = {} /\ waiting = [c \in Calls |-> {}] /\ lastCallId = 0
-----------------------------------------------------------------------------
(***************************************************************************)
(* The socket.                                                             *)
(***************************************************************************)
\* write, fire-and-forget: nothing happens on a socket that is gone.
HostWrites(frames) ==
  toServer' = IF sock = "open" THEN toServer \o frames ELSE toServer

ServerWrites(frames) ==
  toHost' = IF sock = "open" THEN toHost \o frames ELSE toHost

\* destroy: of what was on its way either side gets some beginning, see
\* RouterEnds and DemuxEnds.
Destroy(out) ==
  /\ sock' = "destroyed"
  /\ toServer' = IF sock = "destroyed" THEN toServer ELSE out

\* abortConnection.  Idempotent: a broken client is left alone.
AbortConnection ==
  IF reader = "open"
  THEN reader' = "closed" /\ Destroy(toServer)
  ELSE UNCHANGED <<reader, sock, toServer>>

\* Mutant: an epilogue is left to its RunComplete.
FailForeground(rest) ==
  /\ reader' = "ended"
  /\ st' = [c \in DOMAIN st |-> IF st[c] = "open" THEN "failed" ELSE st[c]]
  /\ runs' = [i \in Ids |-> NoCall] /\ graceRuns' = 0 /\ precompiles' = {} /\ controls' = <<>>
  /\ listening' = {} /\ timer' = {} /\ fired' = {l \in fired : st[l[1]] = "idle"}
  /\ Destroy(toServer) /\ toHost' = <<>>
  /\ UNCHANGED rest

\* The router's catch: everything in flight fails, what is in its grace
\* phase ends without a report.  Handlers in flight are orphans.
FailEverything(rest) ==
  /\ reader' = "ended"
  /\ st' = [c \in DOMAIN st |-> CASE st[c] = "open" -> "failed"
                                  [] st[c] = "grace" -> "done"
                                  [] OTHER -> st[c]]
  /\ runs' = [i \in Ids |-> NoCall] /\ graceRuns' = 0 /\ precompiles' = {} /\ controls' = <<>>
  /\ listening' = {} /\ timer' = {} /\ fired' = {l \in fired : st[l[1]] = "idle"}
  /\ Destroy(toServer) /\ toHost' = <<>>
  /\ UNCHANGED rest
-----------------------------------------------------------------------------
(***************************************************************************)
(* The handshake.                                                          *)
(***************************************************************************)
\* handle_client up to the demux loop: a mismatch is answered by a Hello
\* with its status and closed.
ServerHandshake ==
  /\ demux = "handshake" /\ peer # "silent" /\ toServer # <<>>
  /\ Head(toServer).t = "Authenticate"
  /\ toServer' = Tail(toServer)
  /\ IF peer \in {"version", "format"}
     THEN demux' = "ended" /\ ServerWrites(<<[t |-> "Hello", status |-> peer]>>)
     ELSE demux' = "serving" /\ ServerWrites(<<[t |-> "Hello", status |-> "ok"]>>)
  /\ UNCHANGED <<peer, hostVars, routes, run, told, waiting, lastCallId>>

\* HANDSHAKE_DEADLINE, or a first frame that is not an Authenticate.
ServerGivesUp ==
  /\ demux = "handshake" /\ sock = "destroyed"
  /\ demux' = "ended"
  /\ UNCHANGED <<peer, hostVars, toServer, toHost, routes, run, told, waiting, lastCallId>>

\* connect's catch.
HandshakeFails ==
  /\ hs' = "failed" /\ disposed' = TRUE /\ reader' = "closed"
  /\ Destroy(toServer) /\ toHost' = <<>>

\* awaitHello, on a Hello: its status, then whether Node can read the probe.
AwaitHello(frame) ==
  IF frame.status = "ok" /\ peer # "probe"
  THEN hs' = "ready" /\ toHost' = Tail(toHost) /\ UNCHANGED <<disposed, reader, sock, toServer>>
  ELSE HandshakeFails

HostHandshake ==
  /\ hs = "auth"
  /\ \/ toHost # <<>> /\ AwaitHello(Head(toHost))
     \/ toHost = <<>> /\ HandshakeFails        \* HELLO_TIMEOUT_MS, or the socket ended
  /\ UNCHANGED <<peer, st, idOf, nextRunId, runs, precompiles, controls, written, fired, listening,
                 timer, graceRuns, handlers, serverVars>>
-----------------------------------------------------------------------------
(***************************************************************************)
(* The host starts runs and requests.                                      *)
(***************************************************************************)
\* nextRunIdValue: the first id after the last that is not 0 and not routed.
NextId(id) ==
  LET after(k) == (nextRunId + k) % (MaxId + 1)
      free(k)  == after(k) # 0 /\ runs[after(k)] = NoCall
  IN \E k \in 1..(MaxId + 1) :
       free(k) /\ id = after(k) /\ \A j \in 1..(k - 1) : ~free(j)

\* runRawCode and prefixRun: registered before the frame is written.  A
\* signal that has fired already gets no listener.
StartRun(c) ==
  /\ hs = "ready" /\ ~disposed /\ st[c] = "idle"
  /\ \E id \in Ids :
       /\ NextId(id)
       /\ nextRunId' = id
       /\ idOf' = [idOf EXCEPT ![c] = id]
       /\ runs' = [runs EXCEPT ![id] = c]
       /\ HostWrites(<<[t |-> "Run", id |-> id, c |-> c]>>)
  /\ st' = [st EXCEPT ![c] = "open"]
  /\ listening' = listening \cup {l \in Abortable \ fired : l[1] = c}
  /\ UNCHANGED <<peer, hs, precompiles, controls, written, fired, timer, graceRuns, handlers, sock,
                 reader, disposed, toHost, serverVars>>

\* beginSoftAbort, beginHardAbort: only the hard one sets the timer.
Terminate(c, m) == <<[t |-> "Terminate", id |-> idOf[c], c |-> c, mode |-> m]>>

\* Mutant: a hard abort trusts the runtime to answer.
BeginAbortNoTimer(c, m) == HostWrites(Terminate(c, m)) /\ UNCHANGED timer

BeginAbort(c, m) ==
  /\ HostWrites(Terminate(c, m))
  /\ timer' = IF m = "hard" THEN timer \cup {c} ELSE timer

\* The request frame is out; a signal that fired on the way is taken up.
Written(c) ==
  /\ sock = "open" /\ c \notin written /\ st[c] = "open"
  /\ written' = written \cup {c}
  /\ CASE <<c, "hard">> \in fired -> BeginAbort(c, "hard")
       [] <<c, "soft">> \in fired /\ <<c, "hard">> \notin fired -> BeginAbort(c, "soft")
       [] OTHER -> UNCHANGED <<toServer, timer>>
  /\ UNCHANGED <<peer, hs, st, idOf, nextRunId, runs, precompiles, controls, fired, listening, graceRuns,
                 handlers, sock, reader, disposed, toHost, serverVars>>

\* The entry of c goes, with its abort wiring.
Forget(c) ==
  /\ runs' = [runs EXCEPT ![idOf[c]] = NoCall]
  /\ listening' = {l \in listening : l[1] # c}
  /\ fired' = {l \in fired : l[1] # c}
  /\ timer' = timer \ {c}

\* executeRun's catch: the request could not be written.
WriteFails(c) ==
  /\ c \in Calls /\ sock = "destroyed" /\ c \notin written /\ st[c] = "open"
  /\ st' = [st EXCEPT ![c] = "failed"]
  /\ Forget(c)
  /\ UNCHANGED <<peer, hs, idOf, nextRunId, precompiles, controls, written, graceRuns, handlers,
                 sock, reader, disposed, toServer, toHost, serverVars>>

\* precompile and stats (controlRequest): the waiter first, then the frame.
\* nextPrecompileIdValue skips ids in flight: here the call is the id.  No
\* signal goes with them.
Request(c, t) ==
  /\ hs = "ready" /\ ~disposed /\ sock = "open" /\ st[c] = "idle"
  /\ \A l \in fired : l[1] # c
  /\ st' = [st EXCEPT ![c] = "open"]
  /\ IF t = "Precompile" THEN precompiles' = precompiles \cup {c} /\ UNCHANGED controls
                         ELSE controls' = Append(controls, c) /\ UNCHANGED precompiles
  /\ written' = written \cup {c}
  /\ HostWrites(<<[t |-> t, c |-> c]>>)
  /\ UNCHANGED <<peer, hs, idOf, nextRunId, runs, fired, listening, timer, graceRuns,
                 handlers, sock, reader, disposed, toHost, serverVars>>

\* The caller aborts: its listener, if attached, sends a Terminate.  In the
\* grace phase no timer is set (cancelGrace).  With the socket gone an abort
\* changes nothing but the error its call will reject with.
Signal(c, m) ==
  /\ <<c, m>> \in Abortable \ fired /\ sock = "open"
  /\ \/ <<c, m>> \in listening \/ c \in Range(runs)
     \/ st[c] = "idle" /\ hs = "ready" /\ ~disposed
  /\ fired' = fired \cup {<<c, m>>}
  /\ listening' = listening \ {<<c, m>>}
  /\ IF <<c, m>> \notin listening THEN UNCHANGED <<toServer, timer>>
     ELSE IF st[c] = "open" THEN BeginAbort(c, m)
     ELSE HostWrites(Terminate(c, m)) /\ UNCHANGED timer
  /\ UNCHANGED <<peer, hs, st, idOf, nextRunId, runs, precompiles, controls, written, graceRuns, handlers,
                 sock, reader, disposed, toHost, serverVars>>

\* TERMINATE_GRACE_MS without an answer.
GraceTimerFires(c) ==
  /\ c \in timer
  /\ timer' = timer \ {c}
  /\ AbortConnection
  /\ UNCHANGED <<peer, hs, st, idOf, nextRunId, runs, precompiles, controls, written, fired, listening,
                 graceRuns, handlers, disposed, toHost, serverVars>>

\* dispose: Close goes first on a connection that is not broken.
Dispose ==
  /\ hs = "ready" /\ ~disposed
  /\ disposed' = TRUE
  /\ Destroy(IF reader = "open" THEN Append(toServer, [t |-> "Close"]) ELSE toServer)
  /\ UNCHANGED <<peer, hs, st, idOf, nextRunId, runs, precompiles, controls, written, fired, listening,
                 timer, graceRuns, handlers, reader, toHost, serverVars>>
-----------------------------------------------------------------------------
(***************************************************************************)
(* The host's frame router.                                                *)
(***************************************************************************)
\* routeResult.  With background work the entry stays, and an abort from now
\* on, or before, only asks the runtime to cut the grace phase short.
RouteResult(c, f) ==
  IF ~f.bg
  THEN st' = [st EXCEPT ![c] = "done"] /\ Forget(c) /\ UNCHANGED <<graceRuns, toServer>>
  ELSE /\ st' = [st EXCEPT ![c] = "grace"]
       /\ graceRuns' = graceRuns + 1
       /\ timer' = timer \ {c}
       /\ LET late == {m \in Modes : <<c, m>> \in fired}
          IN IF late # {}
             THEN /\ HostWrites(Terminate(c, IF "hard" \in late THEN "hard" ELSE "soft"))
                  /\ listening' = {l \in listening : l[1] # c}
             ELSE UNCHANGED <<toServer, listening>>
       /\ UNCHANGED <<runs, fired>>

RouteRunComplete(c) ==
  st' = [st EXCEPT ![c] = "done"] /\ Forget(c) /\ graceRuns' = graceRuns - 1 /\ UNCHANGED toServer

\* A Result only for a run that awaits one, a RunComplete only in the grace
\* phase, a precompile's reply by its id, a stats reply in request order:
\* anything else is a desync.
Routable(f) ==
  CASE f.t = "Result" -> runs[f.id] # NoCall /\ st[runs[f.id]] = "open"
    [] f.t = "RunComplete" -> runs[f.id] # NoCall /\ st[runs[f.id]] = "grace"
    [] f.t = "PrecompileResult" -> f.c \in precompiles
    [] f.t = "StatsResult" -> controls # <<>>
    [] OTHER -> TRUE

Desync ==
  /\ hs = "ready" /\ reader # "ended" /\ toHost # <<>> /\ ~Routable(Head(toHost))
  /\ FailEverything(<<peer, hs, idOf, nextRunId, written, handlers, disposed, serverVars>>)

RouteAnswer ==
  /\ hs = "ready" /\ reader # "ended" /\ toHost # <<>>
  /\ LET f == Head(toHost)
     IN /\ f.t \in {"Result", "RunComplete"} /\ Routable(f)
        /\ IF f.t = "Result" THEN RouteResult(runs[f.id], f) ELSE RouteRunComplete(runs[f.id])
  /\ toHost' = Tail(toHost)
  /\ UNCHANGED <<peer, hs, idOf, nextRunId, precompiles, controls, written, handlers, sock, reader,
                 disposed, serverVars>>

RouteReply ==
  /\ hs = "ready" /\ reader # "ended" /\ toHost # <<>>
  /\ LET f == Head(toHost)
     IN /\ f.t \in {"PrecompileResult", "StatsResult"} /\ Routable(f)
        /\ IF f.t = "StatsResult"
           THEN /\ controls' = Tail(controls) /\ UNCHANGED precompiles
                /\ st' = [st EXCEPT ![Head(controls)] = "done"]
           ELSE /\ precompiles' = precompiles \ {f.c} /\ UNCHANGED controls
                /\ st' = [st EXCEPT ![f.c] = "done"]
  /\ toHost' = Tail(toHost)
  /\ UNCHANGED <<peer, hs, idOf, nextRunId, runs, written, fired, listening, timer, graceRuns,
                 handlers, sock, reader, disposed, toServer, serverVars>>

Response(id, c, n) == <<[t |-> "BridgeResponse", id |-> id, c |-> c, n |-> n]>>

\* dispatchBridgeCallFrame: late and dropped calls are skipped; a call that
\* cannot be decoded or dispatched is answered at once; otherwise its
\* handler runs on its own.
RouteBridgeCall ==
  /\ hs = "ready" /\ reader # "ended" /\ toHost # <<>> /\ Head(toHost).t = "BridgeCall"
  /\ LET f == Head(toHost)
         c == runs[f.id]
         aborted == \E m \in Modes : <<c, m>> \in fired
     IN \/ /\ c = NoCall \/ aborted
           /\ UNCHANGED <<handlers, toServer>>
        \/ /\ c # NoCall /\ ~aborted
           /\ handlers' = handlers \cup {[id |-> f.id, c |-> f.c, n |-> f.n]}
           /\ UNCHANGED toServer
        \/ /\ c # NoCall /\ ~aborted /\ sock = "open"
           /\ HostWrites(Response(f.id, f.c, f.n))
           /\ UNCHANGED handlers
  /\ toHost' = Tail(toHost)
  /\ UNCHANGED <<peer, hs, st, idOf, nextRunId, runs, precompiles, controls, written, fired, listening, timer,
                 graceRuns, sock, reader, disposed, serverVars>>

\* A handler settles, perhaps long after its run: the response goes out
\* under the run id of its call.  If not even the failure can be written,
\* the connection is torn down while the id still routes.
HandlerSettles(h) ==
  /\ h \in handlers
  /\ handlers' = handlers \ {h}
  /\ IF sock = "open"
     THEN HostWrites(Response(h.id, h.c, h.n)) /\ UNCHANGED <<reader, sock>>
     ELSE IF runs[h.id] # NoCall THEN AbortConnection
     ELSE UNCHANGED <<reader, sock, toServer>>
  /\ UNCHANGED <<peer, hs, st, idOf, nextRunId, runs, precompiles, controls, written, fired, listening, timer,
                 graceRuns, disposed, toHost, serverVars>>

\* The socket's end, error and close events: the reader takes no more.
SocketEnds ==
  /\ hs = "ready" /\ reader = "open"
  /\ sock = "destroyed" \/ (demux = "ended" /\ toHost = <<>>)
  /\ reader' = "closed"
  /\ sock' = "destroyed"
  /\ UNCHANGED <<peer, hs, st, idOf, nextRunId, runs, precompiles, controls, written, fired, listening, timer,
                 graceRuns, handlers, disposed, toServer, toHost, serverVars>>

\* The frames that had been received are routed (RouteAnswer and the others
\* above), then the router stops; what is left had not been received.
RouterEnds ==
  /\ hs = "ready" /\ reader = "closed"
  /\ FailEverything(<<peer, hs, idOf, nextRunId, written, handlers, disposed, serverVars>>)
-----------------------------------------------------------------------------
(***************************************************************************)
(* The session demux.                                                      *)
(***************************************************************************)
\* The next frame, if all of it is there.
Incoming(t) ==
  /\ demux = "serving" /\ toServer # <<>> /\ Head(toServer).t = t
  /\ toServer' = Tail(toServer)

\* again: a second Result, see Sweep.
Answer(t, c, bg) ==
  <<[t |-> t, id |-> idOf[c], c |-> c, bg |-> bg, again |-> run[c] = "swept"]>>

\* start_run: a duplicate is refused before anything is acquired, a run the
\* engine refuses leaves no route, a run it takes is routed before it runs.
DemuxRun ==
  /\ Incoming("Run") /\ Head(toServer).c \in written
  /\ LET f == Head(toServer)
     IN \/ /\ ServerWrites(Answer("Result", f.c, FALSE))
           /\ run' = [run EXCEPT ![f.c] = "over"]
           /\ UNCHANGED routes
        \/ /\ routes[f.id] = NoCall
           /\ routes' = [routes EXCEPT ![f.id] = f.c]
           /\ run' = [run EXCEPT ![f.c] = "running"]
           /\ UNCHANGED toHost
  /\ UNCHANGED <<peer, hostVars, demux, told, waiting, lastCallId>>

\* route_terminate: a stray one is a benign race.
DemuxTerminate ==
  /\ Incoming("Terminate")
  /\ told' = told \cup ({routes[Head(toServer).id]} \ {NoCall})
  /\ UNCHANGED <<peer, hostVars, toHost, demux, routes, run, waiting, lastCallId>>

\* route_run_frame: late frames are discarded, a run drops a response to a
\* call it does not await, a frame over the run's cap fails that run alone.
DemuxResponse ==
  /\ Incoming("BridgeResponse")
  /\ LET f == Head(toServer)
         c == routes[f.id]
     IN \/ c = NoCall /\ UNCHANGED <<told, waiting>>
        \/ /\ c # NoCall
           /\ waiting' = [waiting EXCEPT ![c] = @ \ {f.n}]
           /\ UNCHANGED told
        \/ /\ c # NoCall
           /\ told' = told \cup {c}
           /\ UNCHANGED waiting
  /\ UNCHANGED <<peer, hostVars, toHost, demux, routes, run, lastCallId>>

\* Precompile and Stats are answered by the demux itself.
DemuxRequest ==
  /\ \/ /\ Incoming("Precompile")
        /\ ServerWrites(<<[t |-> "PrecompileResult", c |-> Head(toServer).c]>>)
     \/ /\ Incoming("Stats")
        /\ ServerWrites(<<[t |-> "StatsResult", c |-> Head(toServer).c]>>)
  /\ UNCHANGED <<peer, hostVars, serverVars>>

\* Close, or the end of the stream (what is left had not been sent):
\* FailRunsOnDrop.
DemuxEnds ==
  /\ demux = "serving"
  /\ sock = "destroyed"
  /\ toServer' = <<>>
  /\ demux' = "ended"
  /\ told' = told \cup ({routes[i] : i \in Ids} \ {NoCall})
  /\ routes' = [i \in Ids |-> NoCall]
  /\ UNCHANGED <<peer, hostVars, toHost, run, waiting, lastCallId>>

\* The runtime process dies, with everything it was about to send.
Crash ==
  /\ demux = "serving"
  /\ demux' = "ended"
  /\ \E k \in 0..Len(toHost) : toHost' = SubSeq(toHost, 1, k)
  /\ toServer' = <<>>
  /\ routes' = [i \in Ids |-> NoCall]
  /\ run' = [c \in Calls |-> IF run[c] = "none" THEN "none" ELSE "over"]
  /\ told' = {} /\ waiting' = [c \in Calls |-> {}]
  /\ UNCHANGED <<peer, hostVars, lastCallId>>
-----------------------------------------------------------------------------
(***************************************************************************)
(* A run on the runtime, as the connection sees it.                        *)
(***************************************************************************)
\* Mutant: every run counts its calls from the start.
NextCallIdPerRun(c) == Cardinality(waiting[c]) + 1

NextCallId(c) == lastCallId + 1

\* A call the link refuses, because the socket is gone, is not made.
GuestCalls(c) ==
  /\ run[c] \in {"running", "posted"} /\ sock = "open" /\ NextCallId(c) <= MaxCallId
  /\ lastCallId' = NextCallId(c)
  /\ waiting' = [waiting EXCEPT ![c] = @ \cup {NextCallId(c)}]
  /\ ServerWrites(<<[t |-> "BridgeCall", id |-> idOf[c], c |-> c, n |-> NextCallId(c)]>>)
  /\ UNCHANGED <<peer, hostVars, toServer, demux, routes, run, told>>

\* The early Result of a run with background work.
PostResult(c) ==
  /\ run[c] = "running"
  /\ run' = [run EXCEPT ![c] = "posted"]
  /\ ServerWrites(Answer("Result", c, TRUE))
  /\ UNCHANGED <<peer, hostVars, toServer, demux, routes, told, waiting, lastCallId>>

\* ConnLink::finished: the route goes first.
DropRoute(c) == routes' = [routes EXCEPT ![idOf[c]] = NoCall]

\* finish_run.
Finish(c) ==
  /\ run[c] \in {"running", "posted"}
  /\ run' = [run EXCEPT ![c] = IF @ = "running" THEN "ending" ELSE "closing"]
  /\ DropRoute(c)
  /\ told' = told \ {c} /\ waiting' = [waiting EXCEPT ![c] = {}]
  /\ UNCHANGED <<peer, hostVars, toServer, toHost, demux, lastCallId>>

\* taint_sweep ends a run in its grace phase with an error, and
\* completion_message answers every error with a Result: TurnGuard shows how
\* a run gets here, guard_second_result that it does.
Sweep(c) ==
  /\ run[c] = "posted"
  /\ run' = [run EXCEPT ![c] = "swept"]
  /\ DropRoute(c)
  /\ told' = told \ {c} /\ waiting' = [waiting EXCEPT ![c] = {}]
  /\ UNCHANGED <<peer, hostVars, toServer, toHost, demux, lastCallId>>

\* Mutant: a completion over the frame ceiling is dropped.
CompletionOrNothing(c) ==
  \/ ServerWrites(Answer(IF run[c] = "closing" THEN "RunComplete" ELSE "Result", c, FALSE))
  \/ UNCHANGED toHost

\* send_completion: one over the frame ceiling is replaced by a minimal one.
Completion(c) ==
  ServerWrites(Answer(IF run[c] = "closing" THEN "RunComplete" ELSE "Result", c, FALSE))

SendCompletion(c) ==
  /\ run[c] \in {"ending", "closing", "swept"}
  /\ run' = [run EXCEPT ![c] = "over"]
  /\ Completion(c)
  /\ UNCHANGED <<peer, hostVars, toServer, demux, routes, told, waiting, lastCallId>>
-----------------------------------------------------------------------------
\* What the host's event loop does by itself.
HostStep ==
  \/ HostHandshake \/ Desync \/ RouteAnswer \/ RouteReply \/ RouteBridgeCall
  \/ SocketEnds \/ RouterEnds
  \/ \E c \in Calls : WriteFails(c) \/ GraceTimerFires(c)

\* What it does when others let it: a write completes once the runtime has read
\* enough, a handler settles when the application's code does.
HostCallback ==
  \/ \E c \in Calls : Written(c)
  \/ \E h \in handlers : HandlerSettles(h)

ServerStep ==
  \/ ServerHandshake \/ ServerGivesUp
  \/ DemuxRun \/ DemuxTerminate \/ DemuxResponse \/ DemuxRequest \/ DemuxEnds

Next ==
  \/ HostStep \/ HostCallback \/ ServerStep \/ Crash \/ Dispose
  \/ \E c \in Calls : \/ StartRun(c) \/ GuestCalls(c) \/ PostResult(c)
                      \/ Finish(c) \/ Sweep(c) \/ SendCompletion(c)
  \/ \E c \in Calls, m \in Modes : Signal(c, m)
  \/ \E c \in Calls, t \in {"Precompile", "Stats"} : Request(c, t)

Spec == Init /\ [][Next]_vars

\* The host's event loop turns, whatever the runtime does: timers fire, what
\* was received is routed, a write on a dead socket fails.  That a write
\* completes is not part of it.
HostFairness == WF_vars(HostStep)

\* The demux and the threads of a run continue, and a run that was told to
\* end does.  Nobody has to make a call, abort, crash or dispose.
ServerFairness ==
  /\ WF_vars(ServerStep)
  /\ \A c \in Calls : WF_vars(SendCompletion(c)) /\ WF_vars(c \in told /\ Finish(c))

FairSpec == Spec /\ HostFairness
-----------------------------------------------------------------------------
Frames(ch, types) == {ch[i] : i \in {j \in DOMAIN ch : ch[j].t \in types}}

TypeOK ==
  /\ peer \in Peers /\ hs \in {"auth", "ready", "failed"}
  /\ st \in [Calls -> {"idle", "open", "grace", "done", "failed"}]
  /\ idOf \in [Calls -> 0..MaxId] /\ nextRunId \in 0..MaxId
  /\ runs \in [Ids -> Calls \cup {NoCall}] /\ precompiles \subseteq Calls /\ ToSet(controls) \subseteq Calls
  /\ written \subseteq Calls
  /\ fired \subseteq Calls \X Modes /\ listening \subseteq Calls \X Modes
  /\ timer \subseteq Calls /\ graceRuns \in 0..Cardinality(Calls)
  /\ sock \in {"open", "destroyed"} /\ reader \in {"open", "closed", "ended"}
  /\ disposed \in BOOLEAN
  /\ demux \in {"handshake", "serving", "ended"}
  /\ routes \in [Ids -> Calls \cup {NoCall}]
  /\ run \in [Calls -> {"none", "running", "posted", "ending", "closing", "swept", "over"}]
  /\ told \subseteq Calls /\ waiting \in [Calls -> SUBSET (1..MaxCallId)]
  /\ lastCallId \in 0..MaxCallId

\* A connection that was declared ready joins two builds that can read each
\* other: connect checks what handle_client cannot.
ReadyIsCompatible == hs = "ready" => peer = "ok"

\* Whatever the runtime sends about a run finds that run's entry, and finds
\* it in the phase the frame is for; a stats reply, which carries no id, finds
\* the request it answers.  Only the second Result of a swept run is ever the
\* ProtocolDesyncError that costs every caller the connection.
AnswersFindTheirRun ==
  reader # "ended" /\ hs = "ready" =>
    /\ \A f \in Frames(toHost, {"Result", "RunComplete", "BridgeCall"}) : runs[f.id] = f.c
    /\ \A f \in Frames(toHost, {"Result"}) : st[f.c] = "open" \/ f.again
    /\ \A f \in Frames(toHost, {"RunComplete"}) :
         st[f.c] = "grace" \/ \E g \in Frames(toHost, {"Result"}) : g.c = f.c /\ g.bg
    /\ toHost # <<>> => Routable(Head(toHost)) \/ Head(toHost).again
    /\ toHost # <<>> /\ Head(toHost).t = "StatsResult" => Head(controls) = Head(toHost).c

\* An id the host uses again is free on the runtime when its Run arrives, so
\* start_run never refuses a run of this client as a duplicate.
NoSpuriousDuplicate ==
  \A f \in Frames(toServer, {"Run"}) : routes[f.id] = NoCall

\* A Terminate on its way meets the run it was sent for, or none: never a
\* later run under the same id.
TerminateHitsItsOwn ==
  \A f \in Frames(toServer, {"Terminate"}) : routes[f.id] \in {NoCall, f.c}

\* A response, however late, settles no other run's call, though its run id
\* may route to another run by now.
ResponseHitsItsOwn ==
  \A f \in Frames(toServer, {"BridgeResponse"}) \cup handlers :
    \A c \in Calls : f.n \in waiting[c] => c = f.c

\* While the demux serves, the routes are exactly the runs in progress: a
\* Terminate behind its Run lands, and no route outlives its run.
RoutesExact ==
  demux = "serving" =>
    \A c \in Calls : run[c] \in {"running", "posted"} <=> \E i \in Ids : routes[i] = c

\* The teardown timer of a hard abort is never left set for a run that has
\* its Result.
TimerOnlyWhileOpen == \A c \in timer : st[c] = "open"

\* What load subtracts is the number of runs in their grace phase.
GraceRunsExact == graceRuns = Cardinality({c \in Calls : st[c] = "grace"})

\* Every frame meets the run it is about or none, at both ends and however
\* late it is, though run ids are used again (route_run_frame, start_run,
\* routeResult, routeRunComplete, onBridgeResponse); load counts what it should
\* and no abort timer outlives its run.
FramesHitTheirOwn ==
  /\ ReadyIsCompatible /\ AnswersFindTheirRun /\ NoSpuriousDuplicate
  /\ TerminateHitsItsOwn /\ ResponseHitsItsOwn
  /\ RoutesExact /\ TimerOnlyWhileOpen /\ GraceRunsExact

\* A hard abort settles its call even if the runtime has stopped answering and
\* reading (TERMINATE_GRACE_MS), once its Terminate is on the way or the
\* request was written.  (A signal that had fired before executeRun could
\* listen has sent nothing yet, and sets its timer only when the request is
\* written: that call has no bound while the runtime does not read.)
HardAbortSettles ==
  \A c \in Calls :
    LET aborted == st[c] = "open" /\ <<c, "hard">> \in fired
        begun   == \E f \in Frames(toServer, {"Terminate"}) : f.c = c /\ f.mode = "hard"
    IN (aborted /\ (c \in written \/ begun)) ~> ~aborted

\* With a runtime that continues, a run whose route was dropped has an
\* outcome for its caller in the end, however large its completion is.
AnswersArrive ==
  ServerFairness =>
    \A c \in Calls : run[c] \in {"ending", "closing", "swept"} ~> st[c] \in {"done", "failed"}

\* A connection that is gone leaves no caller and no epilogue behind.
TearDownSettles ==
  \A c \in Calls :
    (sock = "destroyed" /\ st[c] \in {"open", "grace"}) ~> st[c] \in {"done", "failed"}
=============================================================================
