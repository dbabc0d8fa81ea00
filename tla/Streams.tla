------------------------------- MODULE Streams -------------------------------
(***************************************************************************)
(* Streamed bodies of one run, in both directions: a host body pumped into *)
(* the guest under the guest's credit window (crates/core/src/v8/streams.rs*)
(* with packages/iso4-sandbox/src/client.ts and web-codec.ts), and a body  *)
(* the run returns, pulled from the guest under the host's credit window.  *)
(* The returned body is either the inbound stream passed through, or an    *)
(* async iterable of the guest's own.                                      *)
(*                                                                         *)
(* Bytes are numbers, so that a lost, repeated or reordered byte shows; a  *)
(* chunk is a sequence of them.  The bytes of the host's source are 1, 2,  *)
(* ..., those of the guest's own iterable 101, 102, ...  Each direction of *)
(* the connection is a FIFO sequence of frames.  A pass of                 *)
(* drive_out_streams is several steps, one per frame it sends or pull it   *)
(* makes; nothing else of the guest's thread happens until it is over.     *)
(***************************************************************************)
EXTENDS Integers, SequencesExt, Sequencing

CONSTANTS
  Window,     \* STREAM_CREDIT_WINDOW_BYTES
  MaxChunk,   \* STREAM_CHUNK_MAX_BYTES
  SourceLen,  \* bytes in the host's body
  Probe,      \* bytes of it read to find that it is to be streamed
  OwnLen,     \* bytes the guest's own iterable yields at most
  Rounds,     \* OUT_DRIVE_MAX_ROUNDS
  Idle        \* ticks of OUT_STREAM_IDLE_MS

ASSUME StreamsAssumption ==
  /\ {Window, MaxChunk, Rounds, Idle} \subseteq Nat \ {0}
  /\ {SourceLen, OwnLen} \subseteq Nat /\ Probe \in 1..SourceLen

VARIABLES
  src,    \* the host's StreamSource, its reader and its pump
  down,   \* frames from the host to the runtime
  up,     \* frames from the runtime to the host
  gin,    \* the guest's StreamState of the inbound stream
  out,    \* the OutStream of the returned body
  run,    \* the phase of the run, and the turn in progress
  entry,  \* the run at the host: "run" | "epilogue" | "gone"
  ost,    \* the host's OutboundState
  cons,   \* the consumer's ReadableStream
  conn,   \* "up" | "lost"
  age,    \* ticks since last_activity
  got,    \* bytes guest code has read (history)
  outGot  \* bytes the consumer has read (history)

vars == <<src, down, up, gin, out, run, entry, ost, cons, conn, age,
          got, outGot>>

hostVars == <<src, entry, ost, cons, outGot>>
guestVars == <<gin, out, run, age, got>>

Bytes(chunks) == Joined(chunks)
LowerOf(a, b) == IF a < b THEN a ELSE b
Front1(s, n) == SubSeq(s, 1, n)
Rest(s, n) == SubSeq(s, n + 1, Len(s))

Chunk(d) == [t |-> "chunk", d |-> d]
End(how) == [t |-> "end", how |-> how]
Pull(n) == [t |-> "pull", n |-> n]
CancelFrame == [t |-> "cancel"]
OutChunk(d) == [t |-> "ochunk", d |-> d]
OutEnd(how) == [t |-> "oend", how |-> how]
OutPull(n) == [t |-> "opull", n |-> n]
OutCancel == [t |-> "ocancel"]
Result(streams) == [t |-> "result", streams |-> streams]
Complete == [t |-> "complete"]

\* A run with a streamed argument, or one without (its inbound stream is over
\* from the start).
Streamed == src.read > 0
Init ==
  /\ \/ /\ src = [at |-> "reg", prefix |-> <<[i \in 1..Probe |-> i]>>,
                  read |-> Probe, credit |-> 0, pump |-> "off", done |-> FALSE]
        /\ gin = [buf |-> <<>>, ended |-> "no", cancelled |-> FALSE,
                  pending |-> FALSE]
     \/ /\ src = [at |-> "gone", prefix |-> <<>>, read |-> 0, credit |-> 0,
                  pump |-> "off", done |-> TRUE]
        /\ gin = [buf |-> <<>>, ended |-> "ok", cancelled |-> FALSE,
                  pending |-> FALSE]
  /\ down = <<>> /\ up = <<>>
  /\ out = [on |-> "no", credit |-> 0, pull |-> "none", data |-> <<>>,
            backlog |-> <<>>, done |-> FALSE, made |-> 0]
  /\ run = [phase |-> "exec", turn |-> "no", rounds |-> 0, progressed |-> FALSE,
            violated |-> FALSE]
  /\ entry = "run" /\ conn = "up"
  /\ ost = [buf |-> <<>>, ended |-> "no", cancelled |-> FALSE, failed |-> FALSE]
  /\ cons = "none"
  /\ age = 0
  /\ got = <<>> /\ outGot = <<>>

(***************************************************************************)
(* The host's side of the inbound stream.                                  *)
(***************************************************************************)
\* What the host sends to a run that is over finds no route and is dropped
\* (Connection has those frames): it is left out here.
HostSends(frames) ==
  down' = IF conn = "up" /\ run.phase # "over" THEN down \o frames ELSE down

\* The pump from its loop head to its next await, from source s.
PumpOnDropsRest(s) ==  \* Mutant: the remainder of a split chunk is forgotten
  IF s.credit > 0 /\ ~s.done
  THEN IF s.prefix = <<>>
       THEN /\ src' = [s EXCEPT !.pump = "read"]
            /\ UNCHANGED down
       ELSE LET c == Head(s.prefix)
                n == LowerOf(LowerOf(MaxChunk, s.credit), Len(c))
            IN /\ src' = [s EXCEPT !.pump = "write", !.prefix = Tail(@),
                                   !.credit = @ - n]
               /\ HostSends(<<Chunk(Front1(c, n))>>)
  ELSE /\ src' = [s EXCEPT !.pump = "off"]
       /\ UNCHANGED down
PumpOn(s) ==
  IF s.credit > 0 /\ ~s.done
  THEN IF s.prefix = <<>>
       THEN /\ src' = [s EXCEPT !.pump = "read"]
            /\ UNCHANGED down
       ELSE LET c == Head(s.prefix)
                n == LowerOf(LowerOf(MaxChunk, s.credit), Len(c))
                rest == IF n < Len(c) THEN <<Rest(c, n)>> ELSE <<>>
            IN /\ src' = [s EXCEPT !.pump = "write",
                                   !.prefix = rest \o Tail(s.prefix),
                                   !.credit = @ - n]
               /\ HostSends(<<Chunk(Front1(c, n))>>)
  ELSE /\ src' = [s EXCEPT !.pump = "off"]
       /\ UNCHANGED down

\* pumpStream: a source that is pumped already is left to its pump.
PumpStream(s) ==
  IF s.pump = "off" /\ ~s.done THEN PumpOn(s)
  ELSE src' = s /\ UNCHANGED down

\* The frame that carries the handle is written: the stream gets its window.
Activate ==
  /\ src.at = "reg"
  /\ PumpStream([src EXCEPT !.at = "on", !.credit = Window])
  /\ UNCHANGED <<up, guestVars, entry, ost, cons, conn, outGot>>

\* reader.read() yields a chunk.  The pump does not look at `done` again
\* before it sends: the loop head did, and the read was made for it.
ReadYields ==
  /\ src.pump = "read" /\ src.read < SourceLen
  /\ \E n \in 1..(SourceLen - src.read) :
       LET c == [i \in 1..n |-> src.read + i]
           k == LowerOf(LowerOf(MaxChunk, src.credit), n)
       IN /\ src' = [src EXCEPT !.pump = "write", !.read = @ + n,
                                !.prefix = IF k < n THEN <<Rest(c, k)>> ELSE <<>>,
                                !.credit = @ - k]
          /\ HostSends(<<Chunk(Front1(c, k))>>)
  /\ UNCHANGED <<up, guestVars, entry, ost, cons, conn, outGot>>

\* reader.read() reports the end; a cancelled reader reports it at once.
ReadEnds ==
  /\ src.pump = "read"
  /\ src.read = SourceLen \/ src.done
  /\ src' = [src EXCEPT !.pump = "end", !.done = TRUE, !.at = "gone"]
  /\ HostSends(<<End("ok")>>)
  /\ UNCHANGED <<up, guestVars, entry, ost, cons, conn, outGot>>

\* reader.read() rejects, or a write does because the connection is gone.
PumpFails ==
  /\ \/ src.pump = "read" /\ ~src.done
     \/ src.pump = "write" /\ conn = "lost"
  /\ src' = [src EXCEPT !.pump = "off", !.done = TRUE, !.at = "gone"]
  /\ HostSends(<<End("err")>>)
  /\ UNCHANGED <<up, guestVars, entry, ost, cons, conn, outGot>>

\* The awaited write is done.
PumpWritten ==
  /\ \/ src.pump = "write" /\ conn = "up" /\ PumpOn(src)
     \/ src.pump = "end" /\ src' = [src EXCEPT !.pump = "off"] /\ UNCHANGED down
  /\ UNCHANGED <<up, guestVars, entry, ost, cons, conn, outGot>>

(***************************************************************************)
(* The guest's side of the inbound stream.                                 *)
(***************************************************************************)
GuestSends(frames) == up' = IF conn = "up" THEN up \o frames ELSE up
Quiet == run.turn = "no"

\* What a turn ends with: in the post-Result phase the scan drives the
\* returned body if it is still open; before it, nothing of a stream.
ScanFollows ==
  run' = IF run.phase = "grace"
         THEN [run EXCEPT !.turn = IF out'.done THEN "scan" ELSE "drive"]
         ELSE run

\* The outstanding read, guest code's or the returned body's pull, is
\* answered with r ("chunk" with bytes d, "eof" or "err").
ReadAnswered(r, d) ==
  IF out.on = "pipe" /\ out.pull = "pending"
  THEN /\ out' = [out EXCEPT !.pull = r, !.data = d]
       /\ UNCHANGED got
  ELSE /\ got' = got \o d
       /\ UNCHANGED out

\* stream_read_callback: what a read finds.
ReadFinds ==
  CASE gin.buf # <<>> -> "chunk"
    [] gin.buf = <<>> /\ gin.cancelled -> "eof"
    [] gin.buf = <<>> /\ ~gin.cancelled /\ gin.ended = "ok" -> "eof"
    [] gin.buf = <<>> /\ ~gin.cancelled /\ gin.ended = "err" -> "err"
    [] gin.buf = <<>> /\ ~gin.cancelled /\ gin.ended = "no" /\ gin.pending -> "err"
    [] OTHER -> "pending"

StreamRead ==
  LET f == ReadFinds
  IN /\ gin' = CASE f = "chunk" -> [gin EXCEPT !.buf = Tail(@)]
                 [] f = "pending" -> [gin EXCEPT !.pending = TRUE]
                 [] OTHER -> gin
     /\ GuestSends(IF f = "chunk" THEN <<Pull(Len(Head(gin.buf)))>> ELSE <<>>)

GuestReads ==
  /\ Quiet /\ run.phase = "exec"
  /\ StreamRead
  /\ got' = IF gin.buf # <<>> THEN got \o Head(gin.buf) ELSE got
  /\ UNCHANGED <<down, hostVars, out, run, conn, age>>

\* stream_cancel_callback: what a cancel leaves of the stream, and tells the
\* host (the frames given go out before it).
Cancellable == ~gin.cancelled /\ gin.ended = "no"
AfterCancel ==
  [gin EXCEPT !.cancelled = @ \/ Cancellable, !.pending = FALSE,
              !.buf = IF Cancellable THEN <<>> ELSE @]

StreamCancel(frames) ==
  /\ gin' = AfterCancel
  /\ GuestSends(frames \o (IF Cancellable THEN <<CancelFrame>> ELSE <<>>))

GuestCancels ==
  /\ Quiet /\ run.phase = "exec"
  /\ StreamCancel(<<>>)
  /\ UNCHANGED <<down, hostVars, out, run, conn, age, got>>

\* The next frame of the host, if it is of kind t.
Incoming(t) ==
  /\ Quiet /\ down # <<>> /\ Head(down).t = t
  /\ down' = Tail(down)

\* deliver_stream_frame, StreamChunk.
DeliverUncredited(d) ==  \* Mutant: a chunk that answers a read at once is not credited
  \/ /\ gin.cancelled
     /\ UNCHANGED <<gin, out, up, got>> /\ ScanFollows
  \/ /\ ~gin.cancelled /\ gin.pending
     /\ gin' = [gin EXCEPT !.pending = FALSE]
     /\ ReadAnswered("chunk", d)
     /\ UNCHANGED up /\ ScanFollows
  \/ /\ ~gin.cancelled /\ ~gin.pending
     /\ gin' = [gin EXCEPT !.buf = Append(@, d)]
     /\ UNCHANGED <<out, up, got>> /\ ScanFollows
Deliver(d) ==
  \/ /\ gin.cancelled
     /\ UNCHANGED <<gin, out, up, got>> /\ ScanFollows
  \/ /\ ~gin.cancelled /\ gin.pending
     /\ gin' = [gin EXCEPT !.pending = FALSE]
     /\ ReadAnswered("chunk", d)
     /\ GuestSends(<<Pull(Len(d))>>) /\ ScanFollows
  \/ /\ ~gin.cancelled /\ ~gin.pending
     /\ UNCHANGED <<out, up, got>>
     /\ IF Len(Bytes(gin.buf)) + Len(d) <= Window + MaxChunk
        THEN gin' = [gin EXCEPT !.buf = Append(@, d)] /\ ScanFollows
        ELSE run' = [run EXCEPT !.violated = TRUE] /\ UNCHANGED gin

DeliverChunk ==
  /\ Incoming("chunk")
  /\ Deliver(Head(down).d)
  /\ UNCHANGED <<hostVars, conn, age>>

\* deliver_stream_frame, StreamEnd.
DeliverEnd ==
  /\ Incoming("end")
  /\ LET how == Head(down).how
         answers == gin.buf = <<>> /\ gin.pending
     IN /\ gin' = [gin EXCEPT !.ended = how, !.pending = @ /\ ~answers]
        /\ IF answers THEN ReadAnswered(IF how = "ok" THEN "eof" ELSE "err", <<>>)
           ELSE UNCHANGED <<out, got>>
  /\ ScanFollows
  /\ UNCHANGED <<up, hostVars, conn, age>>

(***************************************************************************)
(* The returned body.                                                      *)
(***************************************************************************)
\* The value settles and its serialization registered a stream: the Result
\* goes out early and the post-Result phase starts with a drain.  A run with
\* a streamed argument passes it through, one without returns an iterable of
\* its own: two open streams would share only the turn.
ReturnsBody ==
  /\ Quiet /\ run.phase = "exec"
  /\ out' = [out EXCEPT !.on = IF Streamed THEN "pipe" ELSE "own", !.credit = Window]
  /\ run' = [run EXCEPT !.phase = "grace", !.turn = "drive"]
  /\ GuestSends(<<Result(TRUE)>>)
  /\ UNCHANGED <<down, hostVars, gin, conn, age, got>>

OutOpen == out.on # "no" /\ ~out.done
Driving == run.turn = "drive"

\* drive_out_stream, classify: send what credit and the chunk cap allow.
CanFlush == OutOpen /\ out.credit > 0 /\ out.backlog # <<>>
Flush ==
  /\ Driving /\ CanFlush
  /\ LET n == LowerOf(LowerOf(Len(out.backlog), out.credit), MaxChunk)
     IN /\ GuestSends(<<OutChunk(Front1(out.backlog, n))>>)
        /\ out' = [out EXCEPT !.backlog = Rest(@, n), !.credit = @ - n]
  /\ run' = [run EXCEPT !.progressed = TRUE]
  /\ UNCHANGED <<down, hostVars, gin, conn, age, got>>

\* drive_out_stream, settle: take a settled pull into the stream.
Awaited == OutOpen /\ out.backlog = <<>> /\ out.credit > 0
SettlePull ==
  /\ Driving /\ Awaited /\ out.pull \in {"chunk", "eof", "err"}
  /\ IF out.pull = "chunk"
     THEN /\ out' = [out EXCEPT !.pull = "none", !.data = <<>>, !.backlog = out.data]
          /\ UNCHANGED up
     ELSE /\ out' = [out EXCEPT !.pull = "none", !.done = TRUE]
          /\ GuestSends(<<OutEnd(IF out.pull = "eof" THEN "ok" ELSE "err")>>)
  /\ run' = [run EXCEPT !.progressed = TRUE]
  /\ UNCHANGED <<down, hostVars, gin, conn, age, got>>

\* After a round: drive_out_streams goes on while it progressed, up to its
\* cap.  An open stream then holds the phase, and the turn is over; without
\* one the scan has the end of the phase to decide.
NextRound(progressed) ==
  run' = IF progressed /\ run.rounds + 1 < Rounds
         THEN [run EXCEPT !.rounds = @ + 1, !.progressed = FALSE]
         ELSE [run EXCEPT !.turn = IF OutOpen THEN "no" ELSE "scan",
                          !.rounds = 0, !.progressed = FALSE]

\* A chunk of the guest's own iterable.
OwnChunk(n) == [i \in 1..n |-> 100 + out.made + i]

\* drive_out_stream, StartPull.
CanPull == Awaited /\ out.pull = "none"
StartPull ==
  /\ Driving /\ CanPull
  /\ \/ /\ out.on = "pipe"
        /\ LET f == ReadFinds
           IN out' = [out EXCEPT !.pull = f,
                                 !.data = IF f = "chunk" THEN Head(gin.buf) ELSE <<>>]
        /\ StreamRead
     \/ /\ out.on = "own"
        /\ \/ \E f \in {"pending", "eof", "err"} : out' = [out EXCEPT !.pull = f]
           \/ \E n \in 0..(OwnLen - out.made) :
                out' = [out EXCEPT !.pull = "chunk", !.data = OwnChunk(n),
                                   !.made = @ + n]
        /\ UNCHANGED <<gin, up>>
  /\ NextRound(TRUE)
  /\ UNCHANGED <<down, hostVars, conn, age, got>>

\* No step is left for the stream: it waits for credit, or for its pull.
RoundOver ==
  /\ Driving
  /\ ~CanFlush /\ ~CanPull /\ ~(Awaited /\ out.pull \in {"chunk", "eof", "err"})
  /\ NextRound(run.progressed)
  /\ UNCHANGED <<down, up, hostVars, gin, out, conn, age, got>>

\* A pull of the guest's own iterable that waited on I/O settles in a turn.
OwnPullSettles ==
  /\ Quiet /\ run.phase = "grace" /\ out.on = "own" /\ ~out.done
  /\ out.pull = "pending"
  /\ \/ \E f \in {"eof", "err"} : out' = [out EXCEPT !.pull = f]
     \/ \E n \in 0..(OwnLen - out.made) :
          out' = [out EXCEPT !.pull = "chunk", !.data = OwnChunk(n), !.made = @ + n]
  /\ ScanFollows
  /\ UNCHANGED <<down, up, hostVars, gin, conn, age, got>>

\* note_out_credit.
TakeCredit ==
  /\ Incoming("opull")
  /\ age' = 0
  /\ out' = [out EXCEPT !.credit = IF out.done THEN @ ELSE @ + Head(down).n]
  /\ ScanFollows
  /\ UNCHANGED <<up, hostVars, gin, conn, got>>

\* cancel_out_stream: end the stream, then let the guest clean up, which for
\* a pass-through cancels the inbound stream.
CancelOut(frames) ==
  /\ out' = [out EXCEPT !.done = TRUE, !.pull = "none", !.data = <<>>, !.backlog = <<>>]
  /\ IF out.on = "pipe" THEN StreamCancel(frames)
     ELSE GuestSends(frames) /\ UNCHANGED gin

TakeCancel ==
  /\ Incoming("ocancel")
  /\ age' = 0
  /\ IF OutOpen
     THEN CancelOut(<<>>)
     ELSE UNCHANGED <<gin, out, up>>
  /\ ScanFollows
  /\ UNCHANGED <<hostVars, conn, got>>

\* stream_idle_turn: the host neither granted credit nor cancelled for the
\* whole allowance.
IdleDrop ==
  /\ Quiet /\ run.phase = "grace" /\ OutOpen /\ age = Idle
  /\ CancelOut(<<OutEnd("err")>>)
  /\ ScanFollows
  /\ UNCHANGED <<down, hostVars, conn, age, got>>

(***************************************************************************)
(* The end of the run.                                                     *)
(***************************************************************************)
\* finish_post_phase, close_run_streams and the completion, in this order.
ClosingAgain ==  \* Mutant: a body that has its outcome is ended again
  (IF out.on # "no" THEN <<OutEnd("err")>> ELSE <<>>)
  \o (IF Cancellable THEN <<CancelFrame>> ELSE <<>>)
Closing == (IF OutOpen THEN <<OutEnd("err")>> ELSE <<>>)
           \o (IF Cancellable THEN <<CancelFrame>> ELSE <<>>)

TablesTaken ==
  /\ run' = [run EXCEPT !.phase = "over", !.turn = "no", !.rounds = 0,
                        !.progressed = FALSE]
  /\ out' = [out EXCEPT !.done = out.on # "no", !.pull = "none", !.data = <<>>,
                        !.backlog = <<>>, !.credit = 0]
  /\ gin' = [gin EXCEPT !.pending = FALSE, !.buf = <<>>]
  /\ down' = <<>> /\ age' = 0

Conclude(last) ==
  /\ TablesTaken
  /\ GuestSends(Closing \o <<last>>)

\* The run settles or fails without a streamed body.
ExecEnds ==
  /\ Quiet /\ run.phase = "exec"
  /\ Conclude(Result(FALSE))
  /\ UNCHANGED <<hostVars, conn, got>>

\* The scan's end: the phase is over when the returned body is and waitUntil
\* work, if there is any, is settled, which is guest code's choice.
ScanEnds ==
  /\ run.turn = "scan"
  /\ \/ Conclude(Complete)
     \/ run' = [run EXCEPT !.turn = "no"] /\ UNCHANGED <<up, down, gin, out, age>>
  /\ UNCHANGED <<hostVars, conn, got>>

\* Between turns the phase ends when waitUntil work was all that held it (it
\* settles, or its wall passes), and on a Terminate of the host or a kill,
\* which leave a body open at that time to Conclude.
PhaseEnds ==
  /\ run.phase = "grace" /\ Quiet
  /\ Conclude(Complete)
  /\ UNCHANGED <<hostVars, conn, got>>

(***************************************************************************)
(* The host's router and the consumer of the returned body.                *)
(***************************************************************************)
RoutedFrame(t) ==
  /\ up # <<>> /\ Head(up).t = t
  /\ up' = Tail(up)

\* releaseAll: the sources left are cancelled and forgotten.
Released == [src EXCEPT !.done = TRUE, !.at = "gone", !.prefix = <<>>]
Wake == cons' = IF cons = "waiting" THEN "woken" ELSE cons

\* StreamPull: more credit for a source that is still known.
RoutePull ==
  /\ RoutedFrame("pull")
  /\ IF entry # "gone" /\ src.at # "gone"
     THEN PumpStream([src EXCEPT !.credit = @ + Head(up).n])
     ELSE UNCHANGED <<src, down>>
  /\ UNCHANGED <<guestVars, entry, ost, cons, conn, outGot>>

\* StreamCancel: the guest is done with the body.
RouteCancel ==
  /\ RoutedFrame("cancel")
  /\ src' = IF entry # "gone" /\ src.at # "gone" THEN Released ELSE src
  /\ UNCHANGED <<down, guestVars, entry, ost, cons, conn, outGot>>

RouteOutChunk ==
  /\ RoutedFrame("ochunk")
  /\ IF entry # "gone" /\ ~ost.cancelled
     THEN ost' = [ost EXCEPT !.buf = Append(@, Head(up).d)] /\ Wake
     ELSE UNCHANGED <<ost, cons>>
  /\ UNCHANGED <<down, guestVars, src, entry, conn, outGot>>

RouteOutEnd ==
  /\ RoutedFrame("oend")
  /\ IF entry # "gone"
     THEN ost' = [ost EXCEPT !.ended = Head(up).how] /\ Wake
     ELSE UNCHANGED <<ost, cons>>
  /\ UNCHANGED <<down, guestVars, src, entry, conn, outGot>>

\* A Result with a streamed body starts the epilogue; any other ends the run.
RouteResult ==
  /\ RoutedFrame("result")
  /\ IF Head(up).streams
     THEN entry' = "epilogue" /\ cons' = "decode" /\ UNCHANGED src
     ELSE entry' = "gone" /\ src' = Released /\ UNCHANGED cons
  /\ UNCHANGED <<down, guestVars, ost, conn, outGot>>

\* attach: the Result is decoded and the consumer has its ReadableStream.
Attach ==
  /\ cons = "decode"
  /\ cons' = "idle"
  /\ UNCHANGED <<src, down, up, guestVars, entry, ost, conn, outGot>>

\* failAll: a stream without an outcome gets one.
FailAll ==
  IF ost.ended = "no" /\ ~ost.cancelled /\ ~ost.failed
  THEN ost' = [ost EXCEPT !.failed = TRUE] /\ Wake
  ELSE UNCHANGED <<ost, cons>>

RouteComplete ==
  /\ RoutedFrame("complete")
  /\ entry = "epilogue"
  /\ entry' = "gone" /\ src' = Released /\ FailAll
  /\ UNCHANGED <<down, guestVars, conn, outGot>>

\* serve: one pull of the ReadableStream.
ServeUncredited ==  \* Mutant: what the consumer took is not granted again
  /\ cons \in {"idle", "woken"}
  /\ IF ost.buf # <<>>
     THEN /\ outGot' = outGot \o Head(ost.buf)
          /\ ost' = [ost EXCEPT !.buf = Tail(@)]
          /\ cons' = "idle"
     ELSE /\ cons' = CASE ost.failed \/ ost.ended = "err" -> "errored"
                       [] ~ost.failed /\ ost.ended = "ok" -> "closed"
                       [] OTHER -> "waiting"
          /\ UNCHANGED <<ost, outGot>>
  /\ UNCHANGED <<up, down, guestVars, src, entry, conn>>
Serve ==
  /\ cons \in {"idle", "woken"}
  /\ IF ost.buf # <<>>
     THEN /\ outGot' = outGot \o Head(ost.buf)
          /\ ost' = [ost EXCEPT !.buf = Tail(@)]
          /\ HostSends(<<OutPull(Len(Head(ost.buf)))>>)
          /\ cons' = "idle"
     ELSE /\ cons' = CASE ost.failed \/ ost.ended = "err" -> "errored"
                       [] ~ost.failed /\ ost.ended = "ok" -> "closed"
                       [] OTHER -> "waiting"
          /\ UNCHANGED <<ost, outGot, down>>
  /\ UNCHANGED <<up, guestVars, src, entry, conn>>

ConsumerCancels ==
  /\ cons \in {"idle", "waiting", "woken"}
  /\ cons' = "cancelled"
  /\ ost' = [ost EXCEPT !.cancelled = TRUE, !.buf = <<>>]
  /\ HostSends(IF ost.ended = "no" /\ ~ost.failed THEN <<OutCancel>> ELSE <<>>)
  /\ UNCHANGED <<up, guestVars, src, entry, conn, outGot>>

(***************************************************************************)
(* The connection and the clock.                                           *)
(***************************************************************************)
\* What is in flight is lost with the connection.  At the runtime the loss
\* (SourceClosed) ends the run, after the guest's cleanup; what the guest did
\* between the loss and its notice reached nobody, and is left out.
ConnectionLost ==
  /\ conn = "up" /\ entry # "gone"
  /\ conn' = "lost" /\ up' = <<>>
  /\ TablesTaken
  /\ UNCHANGED <<hostVars, got>>

\* The router's end at the host.  A Result that was routed is decoded first:
\* its decode runs in the microtasks that follow, before the socket's event.
HostSeesLossKeeps ==  \* Mutant: the sources of the connection's runs are kept
  /\ conn = "lost" /\ entry # "gone" /\ cons # "decode"
  /\ entry' = "gone" /\ UNCHANGED src /\ FailAll
  /\ UNCHANGED <<down, up, guestVars, conn, outGot>>
HostSeesLoss ==
  /\ conn = "lost" /\ entry # "gone" /\ cons # "decode"
  /\ entry' = "gone" /\ src' = Released /\ FailAll
  /\ UNCHANGED <<down, up, guestVars, conn, outGot>>

Tick ==
  /\ run.phase = "exec" \/ OutOpen
  /\ age < Idle
  /\ age' = age + 1
  /\ UNCHANGED <<down, up, hostVars, gin, out, run, conn, got>>

Pump == Activate \/ ReadYields \/ ReadEnds \/ PumpFails \/ PumpWritten
Frames == DeliverChunk \/ DeliverEnd \/ TakeCredit \/ TakeCancel
Guest == GuestReads \/ GuestCancels \/ ReturnsBody \/ OwnPullSettles \/ ExecEnds
Drive == Flush \/ SettlePull \/ StartPull \/ RoundOver \/ ScanEnds
Route == \/ RoutePull \/ RouteCancel \/ RouteOutChunk \/ RouteOutEnd
         \/ RouteResult \/ Attach \/ RouteComplete \/ HostSeesLoss

Next ==
  \/ Pump \/ Frames \/ Guest \/ Drive \/ Route
  \/ IdleDrop \/ PhaseEnds \/ Serve \/ ConsumerCancels
  \/ ConnectionLost \/ Tick

Spec == Init /\ [][Next]_vars

\* The runtime's thread, the host's router and the clock keep going.  The
\* thread looks at its frames and its deadlines on every pass of its loop, so
\* neither waits for ever behind guest turns.  Nothing is assumed of guest
\* code, of the host's body or of the consumer.
Fairness ==
  /\ WF_vars(Drive) /\ SF_vars(Frames) /\ SF_vars(IdleDrop) /\ WF_vars(Tick)
  /\ WF_vars(Route) /\ WF_vars(cons = "woken" /\ Serve)
FairSpec == Spec /\ Fairness

-----------------------------------------------------------------------------
\* The bytes that the frames of kind t carry, and the credit they grant.
BytesIn(q, t) == Bytes([i \in 1..Len(q) |-> IF q[i].t = t THEN q[i].d ELSE <<>>])
CreditIn(q, t) == Total([i \in 1..Len(q) |-> IF q[i].t = t THEN q[i].n ELSE 0])

TypeOK ==
  /\ src.at \in {"reg", "on", "gone"} /\ src.pump \in {"off", "read", "write", "end"}
  /\ src.credit \in 0..Window /\ src.read \in 0..SourceLen /\ src.done \in BOOLEAN
  /\ gin.ended \in {"no", "ok", "err"} /\ {gin.cancelled, gin.pending} \subseteq BOOLEAN
  /\ out.on \in {"no", "pipe", "own"} /\ out.credit \in 0..Window
  /\ out.pull \in {"none", "pending", "chunk", "eof", "err"} /\ out.made \in 0..OwnLen
  /\ run.phase \in {"exec", "grace", "over"} /\ run.turn \in {"no", "drive", "scan"}
  /\ run.rounds \in 0..(Rounds - 1)
  /\ entry \in {"run", "epilogue", "gone"} /\ conn \in {"up", "lost"}
  /\ cons \in {"none", "decode", "idle", "waiting", "woken", "closed", "errored",
              "cancelled"}
  /\ age \in 0..Idle

\* While a stream lives at both ends, its window is conserved: the sender's
\* credit, the bytes on the way, the bytes buffered and the grants on the
\* way back add up to STREAM_CREDIT_WINDOW_BYTES, in either direction
\* (pumpStream and send_stream_credit; drive_out_stream and serve).
CreditConserved ==
  conn = "up" /\ run.phase # "over" /\ entry # "gone" =>
    /\ src.at = "on" /\ ~gin.cancelled =>
         src.credit + Len(BytesIn(down, "chunk")) + Len(Bytes(gin.buf))
           + CreditIn(up, "pull") = Window
    /\ OutOpen /\ ~ost.cancelled =>
         out.credit + Len(BytesIn(up, "ochunk")) + Len(Bytes(ost.buf))
           + CreditIn(down, "opull") = Window

\* The guest never buffers more than the window, so that no chunk of an honest
\* host is answered with "stream credit window violated by the host", whatever
\* cancel, read or end it races (deliver_stream_frame).
BufferWithinWindow == Len(Bytes(gin.buf)) <= Window /\ ~run.violated

\* A source that may send and is not over has a pump: credit that arrives
\* while a pump is about to stop is not lost (pumpStream's `pumping`).
NoLostPump ==
  src.at = "on" /\ ~src.done /\ src.credit > 0 => src.pump # "off"

\* No byte of the inbound body is lost, repeated or reordered: what guest
\* code read, what the returned body carries on if it passes the stream
\* through, what is buffered, on the way or still at the pump, is exactly
\* what was read from the host's reader.
NothingLost ==
  conn = "up" /\ run.phase # "over" /\ entry # "gone" /\ src.at # "gone"
    /\ ~gin.cancelled /\ ~ost.cancelled /\ ~out.done =>
    LET passed == IF out.on = "pipe"
                  THEN outGot \o Bytes(ost.buf) \o BytesIn(up, "ochunk")
                       \o out.backlog \o out.data
                  ELSE <<>>
    IN got \o passed \o Bytes(gin.buf) \o BytesIn(down, "chunk")
         \o Bytes(src.prefix)
       = [i \in 1..src.read |-> i]

\* A consumer that sees a clean end has the whole body: all of the host's
\* source for a pass-through whose inbound stream was not cancelled, all the
\* guest's iterable yielded otherwise.
CleanEndIsWhole ==
  cons = "closed" =>
    /\ out.on = "own" => outGot = [i \in 1..out.made |-> 100 + i]
    /\ out.on = "pipe" /\ ~gin.cancelled =>
         got \o outGot = [i \in 1..SourceLen |-> i]

\* A slow consumer stops a pass-through at the host's source: the runtime
\* never holds more of the body than one window and one chunk.
Backpressure ==
  out.on = "pipe" =>
    Len(Bytes(gin.buf)) + Len(out.data) + Len(out.backlog) <= Window + MaxChunk

\* The end of a returned body is told once, and nothing of it follows.
OneOutcome ==
  LET ofBody(f) == f.t \in {"ochunk", "oend"}
  IN /\ \A i, j \in 1..Len(up) : up[i].t = "oend" /\ i < j => ~ofBody(up[j])
     /\ ost.ended # "no" => \A i \in 1..Len(up) : ~ofBody(up[i])

\* "The runtime ends every outbound stream before its RunComplete": the
\* router's failAll finds no stream without an outcome while the connection
\* is up (routeRunComplete, finish_post_phase).
OutcomeBeforeComplete == conn = "up" => ~ost.failed

\* Flow control holds in both directions: windows are conserved, no buffer
\* outgrows its window, a slow consumer stops the source, and credit that
\* arrives as a pump stops is not lost (deliver_stream_frame, drive_out_stream,
\* pumpStream).
FlowControl == CreditConserved /\ BufferWithinWindow /\ NoLostPump /\ Backpressure

\* A body arrives as it was sent: no byte is lost, repeated or reordered, and
\* a clean end means all of it, whatever chunks, cancels and splits it met.
BodyDelivered == NothingLost /\ CleanEndIsWhole

\* A returned body has one end, told before its run's RunComplete, on every
\* way a run can end (close_out_streams, finish_post_phase, failAll).
ClosesOnce == OneOutcome /\ OutcomeBeforeComplete

\* A consumer whose read waits gets a chunk, an end or an error, whatever
\* guest code, the host's source and the connection do.
ConsumerServed == cons = "waiting" ~> cons # "waiting"

\* A host source is released once its run is over, on every path.
SourceReleased == run.phase = "over" ~> src.at = "gone"

\* A guest read that waits is answered, or its run ends, if the host's
\* reader and the socket make progress: no grant of credit is forgotten.
GuestReadServed == WF_vars(Pump) => (gin.pending ~> ~gin.pending)

\* No read waits for ever, on either side (stream_read_callback, serve).
ReadsServed == ConsumerServed /\ GuestReadServed
=============================================================================
