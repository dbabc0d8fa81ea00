------------------------------- MODULE Outbox -------------------------------
(***************************************************************************)
(* The outbound path of one connection (server/src/ipc.rs): a bounded      *)
(* queue, a writer thread behind it, and an inline fast path on which a    *)
(* producer that finds the queue empty and the socket free writes its      *)
(* frame itself.  One lock orders the threads; it is not held while a      *)
(* thread writes, so the socket token (`writing`) keeps their bytes apart. *)
(* Condition variables are modelled as such: a notification moves the      *)
(* threads that wait and is lost if none does.                             *)
(*                                                                         *)
(* A frame is an envelope unit and `size` payload units.  Frames over the  *)
(* protocol ceiling are refused before the lock and are not in Sizes.      *)
(***************************************************************************)
EXTENDS Integers, Sequences, FiniteSets, Sequencing

CONSTANTS
  Producers,     \* threads that may hold a handle on the outbox
  Writer,        \* the writer thread
  Sizes,         \* payload sizes the producers send
  Cap,           \* OUTBOX_CAP_BYTES
  MaxFrames      \* bound: no send begins once so many frames are accepted

ASSUME OutboxAssumptions ==
  /\ IsFiniteSet(Producers) /\ Writer \notin Producers
  /\ Sizes \subseteq Nat
  /\ Cap \in Nat /\ MaxFrames \in Nat

VARIABLES
  pc,         \* where each thread is
  want,       \* the size of the frame a producer is sending
  item,       \* what a thread that holds the token is writing
  queue,      \* OutboxState.queue
  bytes,      \* OutboxState.bytes
  dead,       \* OutboxState.dead, by who declared it ("no" = alive)
  writing,    \* OutboxState.writing
  wire,       \* the units the socket took
  accepted    \* the frames whose send was accepted, in order

vars == <<pc, want, item, queue, bytes, dead, writing, wire, accepted>>

Threads == Producers \cup {Writer}
Handles == {p \in Producers : pc[p] # "gone"}

\* A send that began below the bound may end above it, one per producer.
Frames == [id : 1..(MaxFrames + Cardinality(Producers)), size : Sizes]
Whole(f) == [frame |-> f, done |-> 0, raw |-> FALSE]
NoFrame == [id |-> 0, size |-> 0]
NoItem == Whole(NoFrame)
Units(f) == f.size + 1

\* OutFrame::len: payload bytes of a whole frame, raw bytes of a remainder.
ItemLen(it) == IF it.raw THEN Units(it.frame) - it.done ELSE it.frame.size

Written(it) == it.done = Units(it.frame)

\* Only the handle Outbox::spawn returns exists at first.
Init ==
  /\ \E p \in Producers :
       pc = [t \in Threads |-> IF t = Writer THEN "look"
                               ELSE IF t = p THEN "idle" ELSE "gone"]
  /\ want = [p \in Producers |-> 0]
  /\ item = [t \in Threads |-> NoItem]
  /\ queue = <<>> /\ bytes = 0 /\ dead = "no" /\ writing = FALSE
  /\ wire = <<>> /\ accepted = <<>>
-----------------------------------------------------------------------------
(***************************************************************************)
(* Notifications.  Each gives the pc after thread t has moved to `to`.     *)
(***************************************************************************)
Step(t, to) == [pc EXCEPT ![t] = to]

\* not_empty: the writer is its only waiter.
NotifyWriter(newpc) ==
  [newpc EXCEPT ![Writer] = IF @ = "parked" THEN "look" ELSE @]

\* not_full: every waiting producer looks again.
NotifyProducers(newpc) ==
  [t \in Threads |-> IF newpc[t] = "waiting" THEN "send" ELSE newpc[t]]

\* kill: the first reason wins; everything parked is woken.
Kill(why, newpc) ==
  /\ dead' = IF dead = "no" THEN why ELSE dead
  /\ pc' = NotifyWriter(NotifyProducers(newpc))
-----------------------------------------------------------------------------
(***************************************************************************)
(* Producers.                                                              *)
(***************************************************************************)
CloneHandle(p) ==
  /\ pc[p] = "gone" /\ Handles # {}
  /\ pc' = Step(p, "idle")
  /\ UNCHANGED <<want, item, queue, bytes, dead, writing, wire, accepted>>

\* The drop of the last handle wakes the writer.
DropHandle(p) ==
  /\ pc[p] = "idle"
  /\ pc' = IF Handles = {p} THEN NotifyWriter(Step(p, "gone")) ELSE Step(p, "gone")
  /\ UNCHANGED <<want, item, queue, bytes, dead, writing, wire, accepted>>

SendFrame(p, size) ==
  /\ pc[p] = "idle" /\ Len(accepted) < MaxFrames
  /\ pc' = Step(p, "send")
  /\ want' = [want EXCEPT ![p] = size]
  /\ UNCHANGED <<item, queue, bytes, dead, writing, wire, accepted>>

NewFrame(p) == [id |-> Len(accepted) + 1, size |-> want[p]]

Refused(p) ==
  /\ dead # "no"
  /\ pc' = Step(p, "idle")
  /\ UNCHANGED <<item, queue, bytes, writing, accepted>>

TakesToken(p) ==
  /\ queue = <<>> /\ ~writing
  /\ writing' = TRUE
  /\ item' = [item EXCEPT ![p] = Whole(NewFrame(p))]
  /\ accepted' = Append(accepted, NewFrame(p))
  /\ pc' = Step(p, "writing")
  /\ UNCHANGED <<queue, bytes>>

\* An empty queue admits any frame.
Fits(p) == queue = <<>> \/ bytes + want[p] <= Cap

\* Mutant: newest first, behind a frame that is half out.
EnqueuesFirst(p) ==
  /\ queue # <<>> \/ writing
  /\ Fits(p)
  /\ queue' = IF queue # <<>> /\ Head(queue).done > 0
              THEN Append(queue, Whole(NewFrame(p)))
              ELSE <<Whole(NewFrame(p))>> \o queue
  /\ bytes' = bytes + want[p]
  /\ accepted' = Append(accepted, NewFrame(p))
  /\ pc' = NotifyWriter(Step(p, "idle"))
  /\ UNCHANGED <<item, writing>>

Enqueues(p) ==
  /\ queue # <<>> \/ writing
  /\ Fits(p)
  /\ queue' = Append(queue, Whole(NewFrame(p)))
  /\ bytes' = bytes + want[p]
  /\ accepted' = Append(accepted, NewFrame(p))
  /\ pc' = NotifyWriter(Step(p, "idle"))
  /\ UNCHANGED <<item, writing>>

Waits(p) ==
  /\ queue # <<>> \/ writing
  /\ ~Fits(p)
  /\ pc' = Step(p, "waiting")
  /\ UNCHANGED <<item, queue, bytes, writing, accepted>>

\* Mutant: asks whether the connection is dead only where there is room.
SendPassLate(p) ==
  /\ pc[p] = "send"
  /\ \/ Refused(p) /\ Fits(p)
     \/ dead = "no" /\ (TakesToken(p) \/ Enqueues(p))
     \/ Waits(p)
  /\ UNCHANGED <<want, dead, wire>>

\* One pass of send_frame's loop under the lock.
SendPass(p) ==
  /\ pc[p] = "send"
  /\ \/ Refused(p)
     \/ dead = "no" /\ (TakesToken(p) \/ Enqueues(p) \/ Waits(p))
  /\ UNCHANGED <<want, dead, wire>>

\* wait_timeout runs out; the producer has yet to get the lock back, and a
\* notification comes too late for it.
WaitExpires(p) ==
  /\ pc[p] = "waiting"
  /\ pc' = Step(p, "expired")
  /\ UNCHANGED <<want, item, queue, bytes, dead, writing, wire, accepted>>

\* Under the lock again: still no room is a stalled connection.
ExpiredPass(p) ==
  /\ pc[p] = "expired"
  /\ IF dead = "no" /\ queue # <<>> /\ bytes + want[p] > Cap
     THEN Kill("full", Step(p, "idle"))
     ELSE pc' = Step(p, "send") /\ UNCHANGED dead
  /\ UNCHANGED <<want, item, queue, bytes, writing, wire, accepted>>
-----------------------------------------------------------------------------
(***************************************************************************)
(* Writing, by whoever holds the token.                                    *)
(***************************************************************************)
\* kill shuts the socket down, so nothing is written after it.
WriteSome(t) ==
  /\ pc[t] = "writing" /\ dead = "no" /\ ~Written(item[t])
  /\ wire' = Append(wire, [id |-> item[t].frame.id, unit |-> item[t].done + 1])
  /\ item' = [item EXCEPT ![t].done = @ + 1]
  /\ UNCHANGED <<pc, want, queue, bytes, dead, writing, accepted>>

\* Mutant: leaves what was queued behind it to a writer it does not wake.
InlineDoneQuietly(p) ==
  /\ pc[p] = "writing" /\ Written(item[p])
  /\ writing' = FALSE
  /\ item' = [item EXCEPT ![p] = NoItem]
  /\ pc' = Step(p, "idle")
  /\ UNCHANGED <<want, queue, bytes, dead, wire, accepted>>

InlineDone(p) ==
  /\ pc[p] = "writing" /\ Written(item[p])
  /\ writing' = FALSE
  /\ item' = [item EXCEPT ![p] = NoItem]
  /\ pc' = IF queue # <<>> THEN NotifyWriter(Step(p, "idle")) ELSE Step(p, "idle")
  /\ UNCHANGED <<want, queue, bytes, dead, wire, accepted>>

\* Mutant: the rest of the frame goes behind what was queued meanwhile.
InlineJamBack(p) ==
  LET rest == [item[p] EXCEPT !.raw = TRUE]
  IN /\ pc[p] = "writing" /\ ~Written(item[p])
     /\ writing' = FALSE
     /\ item' = [item EXCEPT ![p] = NoItem]
     /\ queue' = Append(queue, rest)
     /\ bytes' = bytes + ItemLen(rest)
     /\ pc' = NotifyWriter(Step(p, "idle"))
     /\ UNCHANGED <<want, dead, wire, accepted>>

\* The attempt window closed first: the rest goes to the front of the queue.
InlineJam(p) ==
  LET rest == [item[p] EXCEPT !.raw = TRUE]
  IN /\ pc[p] = "writing" /\ ~Written(item[p])
     /\ writing' = FALSE
     /\ item' = [item EXCEPT ![p] = NoItem]
     /\ queue' = <<rest>> \o queue
     /\ bytes' = bytes + ItemLen(rest)
     /\ pc' = NotifyWriter(Step(p, "idle"))
     /\ UNCHANGED <<want, dead, wire, accepted>>

InlineFails(p) ==
  /\ pc[p] = "writing" /\ ~Written(item[p])
  /\ writing' = FALSE
  /\ item' = [item EXCEPT ![p] = NoItem]
  /\ Kill("socket", Step(p, "idle"))
  /\ UNCHANGED <<want, queue, bytes, wire, accepted>>
-----------------------------------------------------------------------------
(***************************************************************************)
(* The writer thread.                                                      *)
(***************************************************************************)
\* Mutant: does not tell the producers of the room it made.
WriterPopsQuietly ==
  /\ dead = "no" /\ ~writing /\ queue # <<>>
  /\ queue' = Tail(queue)
  /\ bytes' = bytes - ItemLen(Head(queue))
  /\ item' = [item EXCEPT ![Writer] = Head(queue)]
  /\ writing' = TRUE
  /\ pc' = Step(Writer, "writing")

WriterPops ==
  /\ dead = "no" /\ ~writing /\ queue # <<>>
  /\ queue' = Tail(queue)
  /\ bytes' = bytes - ItemLen(Head(queue))
  /\ item' = [item EXCEPT ![Writer] = Head(queue)]
  /\ writing' = TRUE
  /\ pc' = NotifyProducers(Step(Writer, "writing"))

\* Mutant: leaves with the last handle, whatever is queued.
WriterExitsEarly ==
  /\ dead # "no" \/ (~writing /\ Handles = {})
  /\ pc' = Step(Writer, "exited")
  /\ UNCHANGED <<queue, bytes, item, writing>>

WriterExits ==
  /\ dead # "no" \/ (~writing /\ queue = <<>> /\ Handles = {})
  /\ pc' = Step(Writer, "exited")
  /\ UNCHANGED <<queue, bytes, item, writing>>

WriterParks ==
  /\ dead = "no" /\ (writing \/ (queue = <<>> /\ Handles # {}))
  /\ pc' = Step(Writer, "parked")
  /\ UNCHANGED <<queue, bytes, item, writing>>

\* One pass of writer_loop under the lock.
WriterPass ==
  /\ pc[Writer] = "look"
  /\ WriterPops \/ WriterExits \/ WriterParks
  /\ UNCHANGED <<want, dead, wire, accepted>>

WriterDone ==
  /\ pc[Writer] = "writing" /\ Written(item[Writer])
  /\ writing' = FALSE
  /\ item' = [item EXCEPT ![Writer] = NoItem]
  /\ pc' = Step(Writer, "look")
  /\ UNCHANGED <<want, queue, bytes, dead, wire, accepted>>

\* The socket broke, or took nothing for the whole stall bound.
WriterFails ==
  /\ pc[Writer] = "writing" /\ ~Written(item[Writer])
  /\ writing' = FALSE
  /\ item' = [item EXCEPT ![Writer] = NoItem]
  /\ \E why \in {"socket", "stall"} : Kill(why, Step(Writer, "exited"))
  /\ UNCHANGED <<want, queue, bytes, wire, accepted>>
-----------------------------------------------------------------------------
Writing(t) ==
  \/ WriteSome(t)
  \/ IF t = Writer THEN WriterDone \/ WriterFails
     ELSE InlineDone(t) \/ InlineJam(t) \/ InlineFails(t)

Next ==
  \/ WriterPass
  \/ \E t \in Threads : Writing(t)
  \/ \E p \in Producers :
       \/ CloneHandle(p) \/ DropHandle(p) \/ SendPass(p)
       \/ WaitExpires(p) \/ ExpiredPass(p)
       \/ \E size \in Sizes : SendFrame(p, size)

Spec == Init /\ [][Next]_vars

(***************************************************************************)
(* Every thread that can take the lock takes it, a write attempt ends (by  *)
(* its socket timeout at the latest) and a wait on not_full is bounded.    *)
(* Nobody has to send, clone or drop.                                      *)
(***************************************************************************)
FairSpec ==
  /\ Spec
  /\ WF_vars(WriterPass)
  /\ \A t \in Threads : WF_vars(Writing(t))
  /\ \A p \in Producers : WF_vars(SendPass(p) \/ WaitExpires(p) \/ ExpiredPass(p))
-----------------------------------------------------------------------------
(***************************************************************************)
(* Properties.                                                             *)
(***************************************************************************)
Items == [frame : Frames \cup {NoFrame}, done : Nat, raw : BOOLEAN]

\* Every variable has the type its declaration says.
TypeOK ==
  /\ pc \in [Threads -> {"gone", "idle", "send", "waiting", "expired", "writing",
                         "look", "parked", "exited"}]
  /\ want \in [Producers -> Sizes \cup {0}]
  /\ item \in [Threads -> Items]
  /\ queue \in Seq(Items)
  /\ bytes \in Nat
  /\ dead \in {"no", "full", "socket", "stall"}
  /\ writing \in BOOLEAN
  /\ wire \in Seq([id : Nat, unit : Nat])
  /\ accepted \in Seq(Frames)

\* The socket token: at most one thread writes, and the flag is up exactly
\* while one does.
TokenExclusive ==
  LET writers == {t \in Threads : pc[t] = "writing"}
  IN /\ \A s, t \in writers : s = t
     /\ writing <=> writers # {}

\* bytes is what the queue holds, so that it neither underflows nor lets the
\* queue grow past its budget for ever.
BytesExact == bytes = Total([i \in DOMAIN queue |-> ItemLen(queue[i])])

\* No wakeup of the writer is lost: it is parked only while the queue is
\* empty or an inline producer, who will wake it, holds the token.
WriterNotAsleep ==
  pc[Writer] = "parked" =>
    dead = "no" /\ Handles # {} /\ (queue = <<>> \/ writing)

\* No wakeup of a producer is lost: whoever waits has no room.
WaitersBlocked ==
  \A p \in Producers : pc[p] = "waiting" =>
    dead = "no" /\ queue # <<>> /\ bytes + want[p] > Cap

\* Frames of concurrent runs never interleave mid-frame, whatever was begun
\* inline and finished by the writer thread.
WholeFrames ==
  \A i \in DOMAIN wire :
    \/ i > 1 /\ wire[i] = [wire[i - 1] EXCEPT !.unit = @ + 1]
    \/ wire[i].unit = 1 /\ (i > 1 => wire[i - 1].unit = Units(accepted[wire[i - 1].id]))

\* The writer thread leaves a living connection only when every accepted
\* frame is out: a run that concludes after its demux is gone still answers.
DrainedAtExit ==
  pc[Writer] = "exited" /\ dead = "no" =>
    Len(wire) = Total([i \in DOMAIN accepted |-> Units(accepted[i])])

\* The queue, the socket token and the writer's exit agree: one thread writes
\* at a time, the byte count is exact, and nothing accepted is left behind by a
\* writer that leaves a living connection (send_frame, writer_loop).
OutboxExact == TokenExclusive /\ BytesExact /\ DrainedAtExit

\* The last units of the frames that are completely on the wire.
Ends ==
  Sift(wire, {u \in [id : Nat, unit : Nat] : u.unit = Units(accepted[u.id])})

\* Those frames, as the peer gets them.
Got == [i \in DOMAIN Ends |-> accepted[Ends[i].id]]

Channel == INSTANCE FrameChannel WITH sent <- accepted, got <- Got, open <- (dead = "no")

\* The outbox is a FIFO channel of whole frames ...
ChannelSpec == Channel!Spec

\* ... and what it accepts is written, unless the connection dies.
ChannelFairSpec == Channel!FairSpec

\* A send returns: a frame larger than the whole budget, a jammed socket and
\* a full queue included.
SendReturns == \A p \in Producers : pc[p] = "send" ~> pc[p] = "idle"
=============================================================================
