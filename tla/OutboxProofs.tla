---------------------------- MODULE OutboxProofs ----------------------------
(***************************************************************************)
(* Machine-checked proofs about Outbox, for any producers, frame sizes and *)
(* budget: the token, the two condition variables, the byte count, the     *)
(* wholeness and the order of frames, and that the outbox implements       *)
(* FrameChannel's FIFO channel.                                            *)
(*                                                                         *)
(* Two invariants carry them.  OutboxInv is about threads and about the frame *)
(* that is half out.  Ledger is about what was accepted: the queue and the *)
(* token holder have exactly the last frames accepted, in order, and the wire *)
(* has exactly the units of the frames before them and of the part written. *)
(* Sums and filters over sequences are Sequencing's, with the lemmas of    *)
(* SequencingProofs.                                                       *)
(***************************************************************************)
EXTENDS Outbox, SequencingProofs

\* A frame of any id and size.
AnyFrame == [id : Nat, size : Nat]

\* An item of which no more than the whole is written.
GoodItems ==
  {it \in [frame : AnyFrame, done : Nat, raw : BOOLEAN] : it.done <= Units(it.frame)}

\* Where a thread may be.
PCs == {"gone", "idle", "send", "waiting", "expired", "writing",
        "look", "parked", "exited"}

\* The types, as far as the steps need them.
Shapes ==
  /\ pc \in [Threads -> PCs]
  /\ pc[Writer] \in {"look", "parked", "writing", "exited"}
  /\ \A p \in Producers : pc[p] \notin {"look", "parked", "exited"}
  /\ want \in [Producers -> Nat]
  /\ item \in [Threads -> GoodItems]
  /\ queue \in Seq(GoodItems)
  /\ bytes \in Int
  /\ writing \in BOOLEAN
  /\ wire \in Seq([id : Nat, unit : Nat])
  /\ accepted \in Seq(AnyFrame)

\* What is on its way was accepted under its id.
Known(it) == it.frame.id \in DOMAIN accepted /\ accepted[it.frame.id] = it.frame

\* Everything queued, being written or on the wire was accepted.
Registered ==
  /\ \A i \in DOMAIN queue : Known(queue[i])
  /\ \A t \in Threads : pc[t] = "writing" => Known(item[t])
  /\ \A i \in DOMAIN wire : wire[i].id \in DOMAIN accepted

\* The last thing on the wire is this much of this item.
LastOut(it) ==
  /\ wire # <<>>
  /\ wire[Len(wire)].id = it.frame.id
  /\ wire[Len(wire)].unit = it.done

\* The wire ends inside a frame.
Torn ==
  /\ wire # <<>>
  /\ wire[Len(wire)].unit # Units(accepted[wire[Len(wire)].id])

\* While the connection lives, a frame that is half out is in the hands of the
\* token holder, or at the front of the queue with the token free.
HalfOut ==
  dead = "no" =>
    /\ \A i \in DOMAIN queue :
         queue[i].done > 0 => i = 1 /\ ~writing /\ LastOut(queue[i])
    /\ \A t \in Threads : pc[t] = "writing" /\ item[t].done > 0 => LastOut(item[t])
    /\ Torn => \/ \E t \in Threads : pc[t] = "writing" /\ item[t].done > 0
               \/ queue # <<>> /\ queue[1].done > 0

\* The inductive invariant.
OutboxInv ==
  /\ Shapes /\ TokenExclusive /\ WriterNotAsleep /\ WaitersBlocked
  /\ Registered /\ HalfOut /\ WholeFrames
-----------------------------------------------------------------------------
\* A frame to be sent whole is a good item.
LEMMA GoodItem ==
  ASSUME NEW f \in AnyFrame
  PROVE  Whole(f) \in GoodItems /\ Whole(f).done = 0
BY DEF Whole, GoodItems, AnyFrame, Units

\* OutFrame::len is a natural number.
LEMMA ItemLenNat ==
  ASSUME NEW it \in GoodItems
  PROVE  ItemLen(it) \in Nat
BY DEF GoodItems, ItemLen, Units, AnyFrame

\* A unit more is still no more than the whole.
LEMMA Advance ==
  ASSUME NEW it \in GoodItems, ~Written(it)
  PROVE  /\ [it EXCEPT !.done = @ + 1] \in GoodItems
         /\ [it EXCEPT !.done = @ + 1].done = it.done + 1
         /\ [it EXCEPT !.done = @ + 1].frame = it.frame
<1>1. /\ it \in [frame : AnyFrame, done : Nat, raw : BOOLEAN]
      /\ it.done <= Units(it.frame) /\ it.done # Units(it.frame)
  BY DEF GoodItems, Written
<1>2. Units(it.frame) \in Nat
  BY <1>1 DEF Units, AnyFrame
<1>3. it.done + 1 <= Units(it.frame)
  BY <1>1, <1>2
<1>4. [it EXCEPT !.done = @ + 1] \in [frame : AnyFrame, done : Nat, raw : BOOLEAN]
  BY <1>1
<1> QED
  BY <1>1, <1>3, <1>4 DEF GoodItems

\* The rest of an item, as InlineJam queues it.
LEMMA Remainder ==
  ASSUME NEW it \in GoodItems
  PROVE  /\ [it EXCEPT !.raw = TRUE] \in GoodItems
         /\ [it EXCEPT !.raw = TRUE].frame = it.frame
         /\ [it EXCEPT !.raw = TRUE].done = it.done
BY DEF GoodItems, AnyFrame

\* The next unit of an item, as it goes on the wire.
LEMMA NextUnit ==
  ASSUME NEW it \in GoodItems
  PROVE  [id |-> it.frame.id, unit |-> it.done + 1] \in [id : Nat, unit : Nat]
BY DEF GoodItems, AnyFrame

\* The state every item is in when it is laid down.
LEMMA NoItemGood == NoItem \in GoodItems
BY GoodItem DEF NoItem, NoFrame, AnyFrame

\* What push_front makes of a sequence.
LEMMA ConsFacts ==
  ASSUME NEW S, NEW e \in S, NEW s \in Seq(S)
  PROVE  /\ <<e>> \o s \in Seq(S)
         /\ Len(<<e>> \o s) = Len(s) + 1
         /\ (<<e>> \o s)[1] = e
         /\ \A i \in DOMAIN (<<e>> \o s) :
              i = 1 \/ (i - 1 \in DOMAIN s /\ (<<e>> \o s)[i] = s[i - 1])
<1>1. <<e>> \in Seq(S) /\ Len(<<e>>) = 1 /\ <<e>>[1] = e
  OBVIOUS
<1>2. /\ <<e>> \o s \in Seq(S) /\ Len(<<e>> \o s) = 1 + Len(s)
      /\ \A i \in 1..(1 + Len(s)) :
           (<<e>> \o s)[i] = IF i <= 1 THEN <<e>>[i] ELSE s[i - 1]
  BY <1>1, ConcatProperties
<1>3. DOMAIN s = 1..Len(s) /\ Len(s) \in Nat /\ DOMAIN (<<e>> \o s) = 1..(1 + Len(s))
  BY <1>2
<1>4. ASSUME NEW i \in 1..(1 + Len(s)), i # 1
      PROVE i - 1 \in 1..Len(s) /\ (<<e>> \o s)[i] = s[i - 1]
  BY <1>2, <1>3, <1>4
<1>5. (<<e>> \o s)[1] = e
  BY <1>1, <1>2, <1>3
<1>6. \A i \in DOMAIN (<<e>> \o s) :
        i = 1 \/ (i - 1 \in DOMAIN s /\ (<<e>> \o s)[i] = s[i - 1])
  <2> SUFFICES ASSUME NEW i \in DOMAIN (<<e>> \o s), i # 1
               PROVE  i - 1 \in DOMAIN s /\ (<<e>> \o s)[i] = s[i - 1]
    OBVIOUS
  <2>1. i \in 1..(1 + Len(s))
    BY <1>3
  <2>2. i - 1 \in 1..Len(s) /\ (<<e>> \o s)[i] = s[i - 1]
    BY <1>4, <2>1
  <2> QED BY <1>3, <2>2
<1>7. Len(<<e>> \o s) = Len(s) + 1
  BY <1>2, <1>3
<1> QED BY <1>2, <1>5, <1>6, <1>7

\* TokenExclusive without its set.
OneWriter ==
  /\ \A s, t \in Threads : pc[s] = "writing" /\ pc[t] = "writing" => s = t
  /\ writing <=> \E t \in Threads : pc[t] = "writing"

\* The two forms of the token rule agree.
LEMMA TokenPlain == TokenExclusive <=> OneWriter
BY DEF TokenExclusive, OneWriter

\* Outbox::spawn establishes the invariant.
LEMMA OutboxInit == Init => OutboxInv
<1> SUFFICES ASSUME Init PROVE OutboxInv
  OBVIOUS
<1> USE OutboxAssumptions DEF OutboxAssumptions
<1>1. PICK p \in Producers :
        pc = [t \in Threads |-> IF t = Writer THEN "look"
                                ELSE IF t = p THEN "idle" ELSE "gone"]
  BY DEF Init
<1>2. Shapes
  <2>1. /\ want \in [Producers -> Nat]
        /\ item \in [Threads -> GoodItems]
    BY NoItemGood DEF Init
  <2>2. bytes \in Int
    BY DEF Init
  <2>3. queue = <<>> /\ wire = <<>> /\ accepted = <<>>
    BY DEF Init
  <2>4. /\ queue \in Seq(GoodItems) /\ accepted \in Seq(AnyFrame)
        /\ wire \in Seq([id : Nat, unit : Nat])
    BY <2>3
  <2>5. /\ pc \in [Threads -> PCs]
        /\ pc[Writer] = "look"
        /\ \A q \in Producers : pc[q] \in {"idle", "gone"}
    BY <1>1 DEF Threads, PCs
  <2>6. writing \in BOOLEAN
    BY Zenon DEF Init
  <2> QED
    BY <2>1, <2>2, <2>4, <2>5, <2>6 DEF Shapes
<1>3. TokenExclusive /\ WriterNotAsleep /\ WaitersBlocked
  BY <1>1 DEF Init, TokenExclusive, WriterNotAsleep, WaitersBlocked, Threads
<1>4. Registered /\ HalfOut /\ WholeFrames
  BY <1>1 DEF Init, Registered, HalfOut, WholeFrames, Torn, Threads
<1> QED
  BY <1>2, <1>3, <1>4 DEF OutboxInv
-----------------------------------------------------------------------------
\* Every action, as one disjunction.
LEMMA NextCases ==
  ASSUME Next
  PROVE  \/ pc[Writer] = "look" /\ UNCHANGED <<want, dead, wire, accepted>>
            /\ (WriterPops \/ WriterExits \/ WriterParks)
         \/ WriterDone
         \/ WriterFails
         \/ \E t \in Threads : WriteSome(t)
         \/ \E p \in Producers :
              \/ InlineDone(p) \/ InlineJam(p) \/ InlineFails(p)
              \/ CloneHandle(p) \/ DropHandle(p)
              \/ SendPass(p) \/ WaitExpires(p) \/ ExpiredPass(p)
              \/ \E size \in Sizes : SendFrame(p, size)
BY DEF Next, WriterPass, Writing, Threads

\* Every step keeps the shapes.
LEMMA ShapesStep == Shapes /\ [Next]_vars => Shapes'
<1> SUFFICES ASSUME Shapes, [Next]_vars PROVE Shapes'
  OBVIOUS
<1> USE OutboxAssumptions DEF OutboxAssumptions, Shapes, Threads, PCs
<1>1. CASE UNCHANGED vars
  BY <1>1 DEF vars
<1>2. CASE pc[Writer] = "look" /\ UNCHANGED <<want, dead, wire, accepted>>
           /\ (WriterPops \/ WriterExits \/ WriterParks)
  <2>1. CASE WriterPops
    <3>1. Head(queue) \in GoodItems /\ Tail(queue) \in Seq(GoodItems)
      BY <2>1 DEF WriterPops
    <3>2. ItemLen(Head(queue)) \in Nat
      BY <3>1, ItemLenNat
    <3> QED
      BY <1>2, <2>1, <3>1, <3>2 DEF WriterPops, NotifyProducers, Step
  <2>2. CASE WriterExits
    BY <1>2, <2>2 DEF WriterExits, Step
  <2>3. CASE WriterParks
    BY <1>2, <2>3 DEF WriterParks, Step
  <2> QED BY <1>2, <2>1, <2>2, <2>3
<1>3. CASE WriterDone
  BY <1>3, NoItemGood DEF WriterDone, Step
<1>4. CASE WriterFails
  BY <1>4, NoItemGood DEF WriterFails, Kill, NotifyWriter, NotifyProducers, Step
<1>5. ASSUME NEW t \in Threads, WriteSome(t) PROVE Shapes'
  <2>1. [item[t] EXCEPT !.done = @ + 1] \in GoodItems
    BY <1>5, Advance DEF WriteSome
  <2>2. item' \in [Threads -> GoodItems]
    BY <1>5, <2>1 DEF WriteSome
  <2>3. [id |-> item[t].frame.id, unit |-> item[t].done + 1] \in [id : Nat, unit : Nat]
    BY DEF GoodItems, AnyFrame
  <2>4. wire' \in Seq([id : Nat, unit : Nat])
    BY <1>5, <2>3 DEF WriteSome
  <2> QED BY <1>5, <2>2, <2>4 DEF WriteSome
<1>6. ASSUME NEW p \in Producers,
             \/ InlineDone(p) \/ InlineJam(p) \/ InlineFails(p)
             \/ CloneHandle(p) \/ DropHandle(p)
             \/ SendPass(p) \/ WaitExpires(p) \/ ExpiredPass(p)
             \/ \E size \in Sizes : SendFrame(p, size)
      PROVE Shapes'
  <2>1. CASE InlineDone(p)
    BY <2>1, NoItemGood DEF InlineDone, NotifyWriter, Step
  <2>2. CASE InlineJam(p)
    <3> DEFINE rest == [item[p] EXCEPT !.raw = TRUE]
    <3>1. rest \in GoodItems
      BY DEF GoodItems, AnyFrame
    <3>2. ItemLen(rest) \in Nat
      BY <3>1, ItemLenNat
    <3>3. <<rest>> \o queue \in Seq(GoodItems)
      <4> HIDE DEF rest, Shapes
      <4>1. queue \in Seq(GoodItems)
        BY DEF Shapes
      <4> QED BY <3>1, <4>1, ConsFacts
    <3>4. bytes' \in Int
      BY <2>2, <3>2 DEF InlineJam
    <3>5. queue' \in Seq(GoodItems)
      BY <2>2, <3>3 DEF InlineJam
    <3> QED
      BY <2>2, <3>4, <3>5, NoItemGood DEF InlineJam, NotifyWriter, Step
  <2>3. CASE InlineFails(p)
    BY <2>3, NoItemGood DEF InlineFails, Kill, NotifyWriter, NotifyProducers, Step
  <2>4. CASE CloneHandle(p)
    BY <2>4 DEF CloneHandle, Step
  <2>5. CASE DropHandle(p)
    BY <2>5 DEF DropHandle, NotifyWriter, Step
  <2>6. CASE SendPass(p)
    <3>1. NewFrame(p) \in AnyFrame
      BY DEF NewFrame, AnyFrame
    <3>2. Whole(NewFrame(p)) \in GoodItems
      BY <3>1, GoodItem
    <3>3. CASE Refused(p)
      BY <2>6, <3>3 DEF SendPass, Refused, Step
    <3>4. CASE TakesToken(p)
      BY <2>6, <3>4, <3>1, <3>2 DEF SendPass, TakesToken, Step
    <3>5. CASE Enqueues(p)
      <4>1. queue' \in Seq(GoodItems) /\ accepted' \in Seq(AnyFrame)
        BY <3>5, <3>1, <3>2 DEF Enqueues
      <4>2. bytes' \in Int /\ item' = item /\ writing' = writing
        BY <3>5 DEF Enqueues
      <4>3. want' = want /\ wire' = wire
        BY <2>6 DEF SendPass
      <4>4. pc' = NotifyWriter(Step(p, "idle"))
        BY <3>5 DEF Enqueues
      <4> QED
        BY <4>1, <4>2, <4>3, <4>4 DEF Step, NotifyWriter
    <3>6. CASE Waits(p)
      BY <2>6, <3>6 DEF SendPass, Waits, Step
    <3> QED BY <2>6, <3>3, <3>4, <3>5, <3>6 DEF SendPass
  <2>7. CASE WaitExpires(p)
    BY <2>7 DEF WaitExpires, Step
  <2>8. CASE ExpiredPass(p)
    BY <2>8 DEF ExpiredPass, Kill, NotifyWriter, NotifyProducers, Step
  <2>9. ASSUME NEW size \in Sizes, SendFrame(p, size) PROVE Shapes'
    BY <2>9 DEF SendFrame, Step
  <2> QED BY <1>6, <2>1, <2>2, <2>3, <2>4, <2>5, <2>6, <2>7, <2>8, <2>9
<1> QED BY <1>1, <1>2, <1>3, <1>4, <1>5, <1>6, NextCases

\* The token changes hands with the flag.
LEMMA TokenTaken ==
  ASSUME OneWriter, NEW t \in Threads, ~writing, writing',
         \A u \in Threads : pc'[u] = "writing" <=> u = t \/ pc[u] = "writing"
  PROVE  OneWriter'
BY DEF OneWriter

\* The holder lays the token down with the flag.
LEMMA TokenLaidDown ==
  ASSUME OneWriter, NEW t \in Threads, pc[t] = "writing", ~writing',
         \A u \in Threads : pc'[u] = "writing" <=> u # t /\ pc[u] = "writing"
  PROVE  OneWriter'
BY DEF OneWriter

\* A step that moves no writer keeps the token rule.
LEMMA TokenKept ==
  ASSUME OneWriter, UNCHANGED writing,
         \A u \in Threads : pc'[u] = "writing" <=> pc[u] = "writing"
  PROVE  OneWriter'
BY DEF OneWriter

\* Every step keeps the token exclusive.
LEMMA TokenStep == Shapes /\ TokenExclusive /\ [Next]_vars => TokenExclusive'
<1> SUFFICES ASSUME Shapes, OneWriter, [Next]_vars PROVE OneWriter'
  <2>1. OneWriter' => TokenExclusive'
    BY DEF TokenExclusive, OneWriter
  <2> QED BY <2>1, TokenPlain
<1>0. /\ pc \in [Threads -> PCs] /\ Writer \in Threads /\ Producers \subseteq Threads
      /\ pc[Writer] \in {"look", "parked", "writing", "exited"}
      /\ \A p \in Producers : pc[p] \notin {"look", "parked", "exited"}
  BY DEF Shapes, Threads
<1>1. CASE UNCHANGED vars
  BY <1>1, TokenKept DEF vars
<1>2. CASE pc[Writer] = "look" /\ UNCHANGED <<want, dead, wire, accepted>>
           /\ (WriterPops \/ WriterExits \/ WriterParks)
  <2>1. CASE WriterPops
    <3>1. \A u \in Threads : pc'[u] = "writing" <=> u = Writer \/ pc[u] = "writing"
      BY <1>0, <2>1 DEF WriterPops, Step, NotifyWriter, NotifyProducers
    <3>2. ~writing /\ writing'
      BY <2>1 DEF WriterPops
    <3> QED BY <1>0, <3>1, <3>2, TokenTaken
  <2>2. CASE WriterExits \/ WriterParks
    <3>1. \A u \in Threads : pc'[u] = "writing" <=> pc[u] = "writing"
      BY <1>0, <1>2, <2>2 DEF WriterExits, WriterParks, Step
    <3> QED BY <2>2, <3>1, TokenKept DEF WriterExits, WriterParks
  <2> QED BY <1>2, <2>1, <2>2
<1>3. CASE WriterDone
  <2>1. \A u \in Threads : pc'[u] = "writing" <=> u # Writer /\ pc[u] = "writing"
    BY <1>0, <1>3 DEF WriterDone, Step
  <2> QED BY <1>0, <1>3, <2>1, TokenLaidDown DEF WriterDone
<1>4. CASE WriterFails
  <2>1. \A u \in Threads : pc'[u] = "writing" <=> u # Writer /\ pc[u] = "writing"
    BY <1>0, <1>4 DEF WriterFails, Kill, Step, NotifyWriter, NotifyProducers
  <2> QED BY <1>0, <1>4, <2>1, TokenLaidDown DEF WriterFails
<1>5. ASSUME NEW t \in Threads, WriteSome(t) PROVE OneWriter'
  BY <1>5, TokenKept DEF WriteSome
<1>6. ASSUME NEW p \in Producers,
             \/ InlineDone(p) \/ InlineJam(p) \/ InlineFails(p)
             \/ CloneHandle(p) \/ DropHandle(p)
             \/ SendPass(p) \/ WaitExpires(p) \/ ExpiredPass(p)
             \/ \E size \in Sizes : SendFrame(p, size)
      PROVE OneWriter'
  <2>1. CASE InlineDone(p) \/ InlineJam(p)
    <3>1. pc' \in {Step(p, "idle"), NotifyWriter(Step(p, "idle"))}
      BY <2>1 DEF InlineDone, InlineJam
    <3>2. \A u \in Threads : pc'[u] = "writing" <=> u # p /\ pc[u] = "writing"
      BY <1>0, <3>1 DEF Step, NotifyWriter, NotifyProducers
    <3>3. pc[p] = "writing" /\ ~writing'
      BY <2>1 DEF InlineDone, InlineJam
    <3> QED BY <1>0, <3>2, <3>3, TokenLaidDown
  <2>2. CASE InlineFails(p)
    <3>1. \A u \in Threads : pc'[u] = "writing" <=> u # p /\ pc[u] = "writing"
      BY <1>0, <2>2 DEF InlineFails, Kill, Step, NotifyWriter, NotifyProducers
    <3> QED BY <1>0, <2>2, <3>1, TokenLaidDown DEF InlineFails
  <2>3. CASE CloneHandle(p) \/ DropHandle(p)
    <3>1. \A u \in Threads : pc'[u] = "writing" <=> pc[u] = "writing"
      BY <1>0, <2>3 DEF CloneHandle, DropHandle, Step, NotifyWriter, NotifyProducers
    <3> QED BY <2>3, <3>1, TokenKept DEF CloneHandle, DropHandle
  <2>4. CASE SendPass(p)
    <3>1. CASE TakesToken(p)
      <4>1. \A u \in Threads : pc'[u] = "writing" <=> u = p \/ pc[u] = "writing"
        BY <1>0, <3>1 DEF TakesToken, Step
      <4>2. ~writing /\ writing'
        BY <3>1 DEF TakesToken
      <4> QED BY <1>0, <4>1, <4>2, TokenTaken
    <3>2. CASE Refused(p) \/ Enqueues(p) \/ Waits(p)
      <4>1. \E to \in {"idle", "waiting"} : pc' \in {Step(p, to), NotifyWriter(Step(p, to))}
        BY <3>2 DEF Refused, Enqueues, Waits
      <4>2. \A u \in Threads : pc'[u] = "writing" <=> pc[u] = "writing"
        BY <1>0, <2>4, <4>1 DEF SendPass, Step, NotifyWriter, NotifyProducers
      <4> QED BY <3>2, <4>2, TokenKept DEF Refused, Enqueues, Waits
    <3> QED BY <2>4, <3>1, <3>2 DEF SendPass
  <2>5. CASE WaitExpires(p)
    <3>1. \A u \in Threads : pc'[u] = "writing" <=> pc[u] = "writing"
      BY <1>0, <2>5 DEF WaitExpires, Step
    <3> QED BY <2>5, <3>1, TokenKept DEF WaitExpires
  <2>6. CASE ExpiredPass(p)
    <3>1. \A u \in Threads : pc'[u] = "writing" <=> pc[u] = "writing"
      BY <1>0, <2>6 DEF ExpiredPass, Kill, Step, NotifyWriter, NotifyProducers
    <3> QED BY <2>6, <3>1, TokenKept DEF ExpiredPass
  <2>7. ASSUME NEW size \in Sizes, SendFrame(p, size) PROVE OneWriter'
    <3>1. \A u \in Threads : pc'[u] = "writing" <=> pc[u] = "writing"
      BY <1>0, <2>7 DEF SendFrame, Step
    <3> QED BY <2>7, <3>1, TokenKept DEF SendFrame
  <2> QED BY <1>6, <2>1, <2>2, <2>3, <2>4, <2>5, <2>6, <2>7
<1> QED BY <1>1, <1>2, <1>3, <1>4, <1>5, <1>6, NextCases

\* Whatever gives the writer something to do also wakes it.
LEMMA SleepStep == Shapes /\ TokenExclusive /\ WriterNotAsleep /\ [Next]_vars => WriterNotAsleep'
<1> SUFFICES ASSUME Shapes, TokenExclusive, WriterNotAsleep, [Next]_vars PROVE WriterNotAsleep'
  OBVIOUS
<1> USE OutboxAssumptions DEF OutboxAssumptions, Shapes, TokenExclusive, WriterNotAsleep, Handles, Threads
<1>1. CASE UNCHANGED vars
  BY <1>1 DEF vars
<1>2. CASE pc[Writer] = "look" /\ UNCHANGED <<want, dead, wire, accepted>>
           /\ (WriterPops \/ WriterExits \/ WriterParks)
  BY <1>2 DEF WriterPops, WriterExits, WriterParks, NotifyProducers, Step
<1>3. CASE WriterDone
  BY <1>3 DEF WriterDone, Step
<1>4. CASE WriterFails
  BY <1>4 DEF WriterFails, Kill, NotifyWriter, NotifyProducers, Step
<1>5. ASSUME NEW t \in Threads, WriteSome(t) PROVE WriterNotAsleep'
  BY <1>5 DEF WriteSome
<1>6. ASSUME NEW p \in Producers,
             \/ InlineDone(p) \/ InlineJam(p) \/ InlineFails(p)
             \/ CloneHandle(p) \/ DropHandle(p)
             \/ SendPass(p) \/ WaitExpires(p) \/ ExpiredPass(p)
             \/ \E size \in Sizes : SendFrame(p, size)
      PROVE WriterNotAsleep'
  <2>1. CASE InlineDone(p)
    BY <2>1 DEF InlineDone, NotifyWriter, Step
  <2>2. CASE InlineJam(p)
    BY <2>2 DEF InlineJam, NotifyWriter, Step
  <2>3. CASE InlineFails(p)
    BY <2>3 DEF InlineFails, Kill, NotifyWriter, NotifyProducers, Step
  <2>4. CASE CloneHandle(p)
    BY <2>4 DEF CloneHandle, Step
  <2>5. CASE DropHandle(p)
    BY <2>5 DEF DropHandle, NotifyWriter, Step
  <2>6. CASE SendPass(p)
    BY <2>6 DEF SendPass, Refused, TakesToken, Enqueues, Waits, NotifyWriter, Step
  <2>7. CASE WaitExpires(p)
    BY <2>7 DEF WaitExpires, Step
  <2>8. CASE ExpiredPass(p)
    BY <2>8 DEF ExpiredPass, Kill, NotifyWriter, NotifyProducers, Step
  <2>9. ASSUME NEW size \in Sizes, SendFrame(p, size) PROVE WriterNotAsleep'
    BY <2>9 DEF SendFrame, Step
  <2> QED BY <1>6, <2>1, <2>2, <2>3, <2>4, <2>5, <2>6, <2>7, <2>8, <2>9
<1> QED BY <1>1, <1>2, <1>3, <1>4, <1>5, <1>6, NextCases

\* Only a pop makes room, and it wakes the producers.
LEMMA WaitStep == Shapes /\ WaitersBlocked /\ [Next]_vars => WaitersBlocked'
<1> SUFFICES ASSUME Shapes, WaitersBlocked, [Next]_vars PROVE WaitersBlocked'
  OBVIOUS
<1> USE OutboxAssumptions DEF OutboxAssumptions, Shapes, WaitersBlocked, Threads
<1>1. CASE UNCHANGED vars
  BY <1>1 DEF vars
<1>2. CASE pc[Writer] = "look" /\ UNCHANGED <<want, dead, wire, accepted>>
           /\ (WriterPops \/ WriterExits \/ WriterParks)
  BY <1>2 DEF WriterPops, WriterExits, WriterParks, NotifyProducers, Step
<1>3. CASE WriterDone
  BY <1>3 DEF WriterDone, Step
<1>4. CASE WriterFails
  BY <1>4 DEF WriterFails, Kill, NotifyWriter, NotifyProducers, Step
<1>5. ASSUME NEW t \in Threads, WriteSome(t) PROVE WaitersBlocked'
  BY <1>5 DEF WriteSome
<1>6. ASSUME NEW p \in Producers,
             \/ InlineDone(p) \/ InlineJam(p) \/ InlineFails(p)
             \/ CloneHandle(p) \/ DropHandle(p)
             \/ SendPass(p) \/ WaitExpires(p) \/ ExpiredPass(p)
             \/ \E size \in Sizes : SendFrame(p, size)
      PROVE WaitersBlocked'
  <2>1. CASE InlineDone(p)
    BY <2>1 DEF InlineDone, NotifyWriter, Step
  <2>2. CASE InlineJam(p)
    <3> DEFINE rest == [item[p] EXCEPT !.raw = TRUE]
    <3>1. rest \in GoodItems
      BY DEF GoodItems, AnyFrame
    <3>2. ItemLen(rest) \in Nat
      BY <3>1, ItemLenNat
    <3>3. bytes' >= bytes /\ bytes' \in Int
      BY <2>2, <3>2 DEF InlineJam
    <3>4. queue' # <<>>
      <4> HIDE DEF rest
      <4> QED BY <2>2, <3>1, ConsFacts DEF InlineJam, rest
    <3>5. \A q \in Producers : pc'[q] = "waiting" => pc[q] = "waiting"
      BY <2>2 DEF InlineJam, NotifyWriter, Step
    <3> QED BY <2>2, <3>3, <3>4, <3>5 DEF InlineJam
  <2>3. CASE InlineFails(p)
    BY <2>3 DEF InlineFails, Kill, NotifyWriter, NotifyProducers, Step
  <2>4. CASE CloneHandle(p)
    BY <2>4 DEF CloneHandle, Step
  <2>5. CASE DropHandle(p)
    BY <2>5 DEF DropHandle, NotifyWriter, Step
  <2>6. CASE SendPass(p)
    <3>1. CASE Refused(p) \/ TakesToken(p)
      BY <2>6, <3>1 DEF SendPass, Refused, TakesToken, Step
    <3>2. CASE dead = "no" /\ Enqueues(p)
      <4>1. queue' # <<>>
        <5>1. Whole(NewFrame(p)) \in GoodItems
          BY GoodItem DEF NewFrame, AnyFrame
        <5>2. queue' = Append(queue, Whole(NewFrame(p)))
          BY <3>2 DEF Enqueues
        <5>3. Len(queue') = Len(queue) + 1 /\ Len(queue) \in Nat
          BY <5>1, <5>2
        <5> QED BY <5>3
      <4>2. \A q \in Producers : pc'[q] = "waiting" => pc[q] = "waiting"
        BY <3>2 DEF Enqueues, NotifyWriter, Step
      <4>3. bytes' >= bytes /\ bytes' \in Int
        BY <3>2 DEF Enqueues
      <4> QED BY <2>6, <3>2, <4>1, <4>2, <4>3 DEF SendPass
    <3>3. CASE dead = "no" /\ Waits(p)
      BY <2>6, <3>3 DEF SendPass, Waits, Fits, Step
    <3> QED BY <2>6, <3>1, <3>2, <3>3 DEF SendPass
  <2>7. CASE WaitExpires(p)
    BY <2>7 DEF WaitExpires, Step
  <2>8. CASE ExpiredPass(p)
    BY <2>8 DEF ExpiredPass, Kill, NotifyWriter, NotifyProducers, Step
  <2>9. ASSUME NEW size \in Sizes, SendFrame(p, size) PROVE WaitersBlocked'
    BY <2>9 DEF SendFrame, Step
  <2> QED BY <1>6, <2>1, <2>2, <2>3, <2>4, <2>5, <2>6, <2>7, <2>8, <2>9
<1> QED BY <1>1, <1>2, <1>3, <1>4, <1>5, <1>6, NextCases

\* The id of a frame keeps its meaning, and units keep the frame they are of.
LEMMA RegisteredStep == Shapes /\ Registered /\ [Next]_vars => Registered'
<1> SUFFICES ASSUME Shapes, Registered, [Next]_vars PROVE Registered'
  OBVIOUS
<1> USE OutboxAssumptions DEF OutboxAssumptions, Shapes, Threads, PCs, Registered, Known
<1>1. CASE UNCHANGED vars
  BY <1>1 DEF vars
<1>2. CASE pc[Writer] = "look" /\ UNCHANGED <<want, dead, wire, accepted>>
           /\ (WriterPops \/ WriterExits \/ WriterParks)
  <2>1. CASE WriterPops
    <3>1. Known(Head(queue))
      BY <2>1 DEF WriterPops
    <3>2. \A i \in DOMAIN queue' : i + 1 \in DOMAIN queue /\ queue'[i] = queue[i + 1]
      BY <2>1 DEF WriterPops
    <3>3. \A t \in Threads : pc'[t] = "writing" => t = Writer \/ pc[t] = "writing"
      BY <2>1 DEF WriterPops, NotifyProducers, Step
    <3> QED BY <1>2, <2>1, <3>1, <3>2, <3>3 DEF WriterPops
  <2>2. CASE WriterExits \/ WriterParks
    BY <1>2, <2>2 DEF WriterExits, WriterParks, Step
  <2> QED BY <1>2, <2>1, <2>2
<1>3. CASE WriterDone
  BY <1>3 DEF WriterDone, Step
<1>4. CASE WriterFails
  BY <1>4 DEF WriterFails, Kill, NotifyWriter, NotifyProducers, Step
<1>5. ASSUME NEW t \in Threads, WriteSome(t) PROVE Registered'
  <2>1. item'[t].frame = item[t].frame /\ \A u \in Threads : u # t => item'[u] = item[u]
    BY <1>5, Advance DEF WriteSome
  <2>2. \A i \in DOMAIN wire' : wire'[i].id \in DOMAIN accepted
    <3> DEFINE e == [id |-> item[t].frame.id, unit |-> item[t].done + 1]
    <3>1. e \in [id : Nat, unit : Nat] /\ e.id = item[t].frame.id /\ wire' = Append(wire, e)
      BY <1>5, NextUnit DEF WriteSome
    <3>2. item[t].frame.id \in DOMAIN accepted
      BY <1>5 DEF WriteSome
    <3> HIDE DEF e
    <3>3. \A i \in DOMAIN wire' : wire'[i] = e \/ (i \in DOMAIN wire /\ wire'[i] = wire[i])
      BY <3>1
    <3> QED BY <3>1, <3>2, <3>3
  <2>3. UNCHANGED <<pc, queue, accepted>>
    BY <1>5 DEF WriteSome
  <2>4. \A u \in Threads : item'[u].frame = item[u].frame
    BY <2>1
  <2> HIDE DEF Shapes
  <2> QED BY <2>2, <2>3, <2>4
<1>6. ASSUME NEW p \in Producers,
             \/ InlineDone(p) \/ InlineJam(p) \/ InlineFails(p)
             \/ CloneHandle(p) \/ DropHandle(p)
             \/ SendPass(p) \/ WaitExpires(p) \/ ExpiredPass(p)
             \/ \E size \in Sizes : SendFrame(p, size)
      PROVE Registered'
  <2>1. CASE InlineDone(p)
    BY <2>1 DEF InlineDone, NotifyWriter, Step
  <2>2. CASE InlineJam(p)
    <3> DEFINE rest == [item[p] EXCEPT !.raw = TRUE]
    <3>1. rest \in GoodItems /\ rest.frame = item[p].frame
      <4>1. item[p] \in GoodItems
        OBVIOUS
      <4> QED BY <4>1, Remainder
    <3>2. Known(item[p])
      BY <2>2 DEF InlineJam
    <3>3. \A i \in DOMAIN queue' : Known(queue'[i])
      <4>1. queue' = <<rest>> \o queue
        BY <2>2 DEF InlineJam
      <4> HIDE DEF rest, Known, Registered
      <4>2. /\ queue'[1] = rest
            /\ \A i \in DOMAIN queue' : i = 1 \/ (i - 1 \in DOMAIN queue /\ queue'[i] = queue[i - 1])
        <5>1. queue \in Seq(GoodItems)
          BY DEF Shapes
        <5> HIDE DEF Shapes
        <5> QED BY <3>1, <4>1, <5>1, ConsFacts
      <4>3. Known(rest)
        BY <3>1, <3>2 DEF Known
      <4>4. \A i \in DOMAIN queue : Known(queue[i])
        BY DEF Registered
      <4> QED BY <4>2, <4>3, <4>4
    <3>4. \A t \in Threads : pc'[t] = "writing" => t # p /\ pc[t] = "writing"
      BY <2>2 DEF InlineJam, NotifyWriter, Step
    <3> QED BY <2>2, <3>3, <3>4 DEF InlineJam
  <2>3. CASE InlineFails(p)
    BY <2>3 DEF InlineFails, Kill, NotifyWriter, NotifyProducers, Step
  <2>4. CASE CloneHandle(p)
    BY <2>4 DEF CloneHandle, Step
  <2>5. CASE DropHandle(p)
    BY <2>5 DEF DropHandle, NotifyWriter, Step
  <2>6. CASE SendPass(p)
    <3>1. CASE Refused(p) \/ Waits(p)
      BY <2>6, <3>1 DEF SendPass, Refused, Waits, Step
    <3>2. CASE TakesToken(p) \/ Enqueues(p)
      <4> DEFINE f == NewFrame(p)
      <4>1. f \in AnyFrame /\ f.id = Len(accepted) + 1
        BY DEF NewFrame, AnyFrame
      <4>2. accepted' = Append(accepted, f)
        BY <3>2 DEF TakesToken, Enqueues
      <4> HIDE DEF f
      <4>3. f.id \in DOMAIN accepted' /\ accepted'[f.id] = f
        BY <4>1, <4>2
      <4>4. \A i \in DOMAIN accepted : i \in DOMAIN accepted' /\ accepted'[i] = accepted[i]
        BY <4>1, <4>2
      <4>5. Whole(f) \in GoodItems /\ Whole(f).frame = f
        BY <4>1, GoodItem DEF Whole
      <4>6. CASE TakesToken(p)
        <5>1. item' = [item EXCEPT ![p] = Whole(f)] /\ queue' = queue /\ wire' = wire
          BY <2>6, <4>6 DEF SendPass, TakesToken, f
        <5>2. \A t \in Threads : pc'[t] = "writing" => t = p \/ pc[t] = "writing"
          BY <4>6 DEF TakesToken, Step
        <5> QED BY <5>1, <5>2, <4>3, <4>4, <4>5
      <4>7. CASE Enqueues(p)
        <5>1. item' = item /\ queue' = Append(queue, Whole(f)) /\ wire' = wire
          BY <2>6, <4>7 DEF SendPass, Enqueues, f
        <5>2. \A t \in Threads : pc'[t] = "writing" => pc[t] = "writing"
          BY <4>7 DEF Enqueues, Step, NotifyWriter
        <5>3. \A i \in DOMAIN queue' : \/ i \in DOMAIN queue /\ queue'[i] = queue[i]
                                      \/ queue'[i] = Whole(f)
          BY <5>1, <4>5
        <5> QED BY <5>1, <5>2, <5>3, <4>3, <4>4, <4>5
      <4> QED BY <3>2, <4>6, <4>7
    <3> QED BY <2>6, <3>1, <3>2 DEF SendPass
  <2>7. CASE WaitExpires(p)
    BY <2>7 DEF WaitExpires, Step
  <2>8. CASE ExpiredPass(p)
    BY <2>8 DEF ExpiredPass, Kill, NotifyWriter, NotifyProducers, Step
  <2>9. ASSUME NEW size \in Sizes, SendFrame(p, size) PROVE Registered'
    BY <2>9 DEF SendFrame, Step
  <2> QED BY <1>6, <2>1, <2>2, <2>3, <2>4, <2>5, <2>6, <2>7, <2>8, <2>9
<1> QED BY <1>1, <1>2, <1>3, <1>4, <1>5, <1>6, NextCases

\* A frame that is half out has exactly one place it can go on from.
LEMMA HalfOutStep ==
  Shapes /\ OneWriter /\ Registered /\ HalfOut /\ [Next]_vars => HalfOut'
<1> SUFFICES ASSUME Shapes, OneWriter, Registered, HalfOut, [Next]_vars, dead' = "no"
             PROVE  HalfOut'
  BY DEF HalfOut
<1>0. /\ pc \in [Threads -> PCs] /\ Writer \in Threads /\ Producers \subseteq Threads
      /\ item \in [Threads -> GoodItems] /\ queue \in Seq(GoodItems)
      /\ wire \in Seq([id : Nat, unit : Nat])
      /\ \A it \in GoodItems : it.done \in Nat
  BY DEF Shapes, Threads, GoodItems
<1> USE DEF HalfOut, LastOut, Torn
<1>1. CASE UNCHANGED vars
  BY <1>1 DEF vars
<1>2. CASE pc[Writer] = "look" /\ UNCHANGED <<want, dead, wire, accepted>>
           /\ (WriterPops \/ WriterExits \/ WriterParks)
  <2>1. CASE WriterPops
    <3>1. /\ dead = "no" /\ ~writing /\ queue # <<>>
          /\ queue' = Tail(queue) /\ item' = [item EXCEPT ![Writer] = queue[1]]
      BY <1>0, <2>1 DEF WriterPops
    <3>2. \A i \in DOMAIN queue' : i + 1 \in DOMAIN queue /\ queue'[i] = queue[i + 1] /\ i + 1 # 1
      BY <1>0, <3>1
    <3>3. \A i \in DOMAIN queue' : ~(queue'[i].done > 0)
      BY <3>1, <3>2
    <3>4. \A t \in Threads : pc[t] # "writing"
      BY <3>1 DEF OneWriter
    <3>5. pc'[Writer] = "writing" /\ \A t \in Threads : pc'[t] = "writing" => t = Writer
      BY <1>0, <2>1, <3>4 DEF WriterPops, NotifyProducers, Step
    <3>6. item'[Writer] = queue[1] /\ 1 \in DOMAIN queue
      BY <1>0, <3>1
    <3> QED BY <1>0, <1>2, <3>1, <3>3, <3>4, <3>5, <3>6
  <2>2. CASE WriterExits \/ WriterParks
    <3>1. \A t \in Threads : pc'[t] = "writing" <=> pc[t] = "writing"
      BY <1>0, <1>2, <2>2 DEF WriterExits, WriterParks, Step
    <3> QED BY <1>2, <2>2, <3>1 DEF WriterExits, WriterParks
  <2> QED BY <1>2, <2>1, <2>2
<1>3. ASSUME NEW t \in Threads, pc[t] = "writing", Written(item[t]),
             UNCHANGED <<queue, dead, wire, accepted>>, ~writing',
             \A u \in Threads : pc'[u] = "writing" => u # t /\ pc[u] = "writing"
      PROVE HalfOut'
  <2>1. item[t].done > 0 /\ item[t].done = Units(item[t].frame)
    BY <1>0, <1>3 DEF GoodItems, Written, Units, AnyFrame
  <2>2. ~Torn
    BY <1>3, <2>1 DEF Registered, Known
  <2>3. \A u \in Threads : pc'[u] # "writing"
    BY <1>3 DEF OneWriter
  <2>4. writing
    BY <1>3 DEF OneWriter
  <2> QED BY <1>3, <2>2, <2>3, <2>4
<1>4. CASE WriterDone
  <2>1. \A u \in Threads : pc'[u] = "writing" => u # Writer /\ pc[u] = "writing"
    BY <1>0, <1>4 DEF WriterDone, Step
  <2> QED BY <1>0, <1>3, <1>4, <2>1 DEF WriterDone
<1>5. CASE WriterFails
  BY <1>5 DEF WriterFails, Kill
<1>6. ASSUME NEW t \in Threads, WriteSome(t) PROVE HalfOut'
  <2>1. /\ item'[t].frame = item[t].frame /\ item'[t].done = item[t].done + 1
        /\ \A u \in Threads : u # t => item'[u] = item[u]
    BY <1>0, <1>6, Advance DEF WriteSome
  <2>2. /\ wire' # <<>>
        /\ wire'[Len(wire')] = [id |-> item[t].frame.id, unit |-> item[t].done + 1]
    <3>1. [id |-> item[t].frame.id, unit |-> item[t].done + 1] \in [id : Nat, unit : Nat]
      BY <1>0 DEF GoodItems, AnyFrame
    <3>2. Len(wire') = Len(wire) + 1 /\ Len(wire) \in Nat
      BY <1>0, <1>6, <3>1 DEF WriteSome
    <3>3. wire'[Len(wire')] = [id |-> item[t].frame.id, unit |-> item[t].done + 1]
      BY <1>0, <1>6, <3>1, <3>2 DEF WriteSome
    <3> QED BY <3>2, <3>3
  <2>3. writing /\ \A u \in Threads : pc[u] = "writing" => u = t
    BY <1>6 DEF OneWriter, WriteSome
  <2>4. item'[t].done > 0
    BY <1>0, <2>1
  <2> QED BY <1>6, <2>1, <2>2, <2>3, <2>4 DEF WriteSome
<1>7. ASSUME NEW p \in Producers,
             \/ InlineDone(p) \/ InlineJam(p) \/ InlineFails(p)
             \/ CloneHandle(p) \/ DropHandle(p)
             \/ SendPass(p) \/ WaitExpires(p) \/ ExpiredPass(p)
             \/ \E size \in Sizes : SendFrame(p, size)
      PROVE HalfOut'
  <2>1. CASE InlineDone(p)
    <3>1. \A u \in Threads : pc'[u] = "writing" => u # p /\ pc[u] = "writing"
      BY <1>0, <2>1 DEF InlineDone, NotifyWriter, Step
    <3> QED BY <1>0, <1>3, <2>1, <3>1 DEF InlineDone
  <2>2. CASE InlineJam(p)
    <3> DEFINE rest == [item[p] EXCEPT !.raw = TRUE]
    <3>1. rest \in GoodItems /\ rest.frame = item[p].frame /\ rest.done = item[p].done
      <4>1. item[p] \in GoodItems
        BY <1>0
      <4> QED BY <4>1, Remainder
    <3>2. /\ queue' = <<rest>> \o queue /\ ~writing' /\ pc[p] = "writing"
          /\ UNCHANGED <<dead, wire, accepted>>
      BY <2>2 DEF InlineJam
    <3> HIDE DEF rest
    <3>3. /\ queue' \in Seq(GoodItems) /\ Len(queue') = Len(queue) + 1 /\ queue'[1] = rest
          /\ \A i \in DOMAIN queue' : i = 1 \/ (i - 1 \in DOMAIN queue /\ queue'[i] = queue[i - 1])
      BY <1>0, <3>1, <3>2, ConsFacts
    <3>4. writing /\ \A u \in Threads : pc[u] = "writing" => u = p
      BY <1>0, <3>2 DEF OneWriter
    <3>5. \A u \in Threads : pc'[u] # "writing"
      BY <1>0, <2>2, <3>4 DEF InlineJam, NotifyWriter, Step
    <3>6. \A i \in DOMAIN queue' : queue'[i].done > 0 => i = 1
      BY <3>2, <3>3, <3>4
    <3>7. rest.done > 0 => LastOut(queue[1])'
      <4>1. rest.done > 0 => LastOut(item[p])
        BY <1>0, <3>1, <3>2
      <4>2. LastOut(queue[1])' <=> /\ wire # <<>>
                                   /\ wire[Len(wire)].id = rest.frame.id
                                   /\ wire[Len(wire)].unit = rest.done
        BY <3>2, <3>3
      <4> QED BY <3>1, <4>1, <4>2
    <3>8. queue' # <<>>
      BY <1>0, <3>3
    <3>9. Torn' => rest.done > 0
      BY <3>1, <3>2, <3>4
    <3>10. \A i \in DOMAIN queue' :
             queue'[i].done > 0 => i = 1 /\ ~writing' /\ LastOut(queue[i])'
      BY <3>2, <3>3, <3>6, <3>7
    <3> QED BY <3>3, <3>5, <3>8, <3>9, <3>10
  <2>3. CASE InlineFails(p)
    BY <2>3 DEF InlineFails, Kill
  <2>4. CASE CloneHandle(p) \/ DropHandle(p)
    <3>1. \A t \in Threads : pc'[t] = "writing" <=> pc[t] = "writing"
      BY <1>0, <2>4 DEF CloneHandle, DropHandle, NotifyWriter, Step
    <3> QED BY <2>4, <3>1 DEF CloneHandle, DropHandle
  <2>5. CASE SendPass(p)
    <3>1. CASE Refused(p) \/ Waits(p)
      <4>1. \A t \in Threads : pc'[t] = "writing" <=> pc[t] = "writing"
        BY <1>0, <2>5, <3>1 DEF SendPass, Refused, Waits, Step
      <4> QED BY <2>5, <3>1, <4>1 DEF SendPass, Refused, Waits
    <3> DEFINE f == NewFrame(p)
    <3>2. f \in AnyFrame
      BY DEF NewFrame, AnyFrame, Shapes
    <3>3. Whole(f) \in GoodItems /\ Whole(f).done = 0
      BY <3>2, GoodItem
    <3>4. ASSUME accepted' = Append(accepted, f), wire' = wire PROVE Torn' <=> Torn
      <4>1. \A i \in DOMAIN accepted : i \in DOMAIN accepted' /\ accepted'[i] = accepted[i]
        BY <3>2, <3>4 DEF Shapes
      <4>2. wire # <<>> => wire[Len(wire)].id \in DOMAIN accepted
        BY <1>0 DEF Registered
      <4> QED BY <3>4, <4>1, <4>2
    <3>5. CASE TakesToken(p)
      <4>1. /\ item' = [item EXCEPT ![p] = Whole(f)] /\ UNCHANGED <<queue, wire, dead>>
            /\ accepted' = Append(accepted, f) /\ queue = <<>> /\ ~writing
        BY <2>5, <3>5 DEF SendPass, TakesToken
      <4>2. \A t \in Threads : pc'[t] = "writing" => t = p
        BY <1>0, <3>5, <4>1 DEF TakesToken, Step, OneWriter
      <4>3. ~Torn
        BY <4>1 DEF OneWriter
      <4>4. ~Torn'
        BY <4>1, <4>3, <3>4
      <4>5. item'[p].done = 0
        BY <1>0, <4>1, <3>3
      <4> HIDE DEF f
      <4>6. \A i \in DOMAIN queue' : ~(queue'[i].done > 0)
        BY <4>1
      <4>7. \A t \in Threads : pc'[t] = "writing" => ~(item'[t].done > 0)
        BY <4>2, <4>5
      <4> QED BY <4>4, <4>6, <4>7
    <3>6. CASE Enqueues(p)
      <4>1. /\ queue' = Append(queue, Whole(f)) /\ UNCHANGED <<item, wire, dead, writing>>
            /\ accepted' = Append(accepted, f)
        BY <2>5, <3>6 DEF SendPass, Enqueues
      <4>2. \A t \in Threads : pc'[t] = "writing" <=> pc[t] = "writing"
        BY <1>0, <2>5, <3>6 DEF SendPass, Enqueues, Step, NotifyWriter
      <4>3. Torn' <=> Torn
        BY <4>1, <3>4
      <4> HIDE DEF f
      <4>4. /\ \A i \in DOMAIN queue' : \/ i \in DOMAIN queue /\ queue'[i] = queue[i]
                                       \/ queue'[i] = Whole(f)
            /\ \A i \in DOMAIN queue : i \in DOMAIN queue' /\ queue'[i] = queue[i]
        BY <1>0, <4>1, <3>3
      <4>5. queue # <<>> => queue' # <<>> /\ 1 \in DOMAIN queue
        BY <1>0, <4>4
      <4>6. \A i \in DOMAIN queue' :
              queue'[i].done > 0 => i = 1 /\ ~writing' /\ LastOut(queue[i])'
        BY <3>3, <4>1, <4>4
      <4>7. Torn' => \/ \E t \in Threads : pc'[t] = "writing" /\ item'[t].done > 0
                     \/ queue' # <<>> /\ queue'[1].done > 0
        BY <4>1, <4>2, <4>3, <4>4, <4>5
      <4> QED BY <4>1, <4>2, <4>6, <4>7
    <3> QED BY <2>5, <3>1, <3>5, <3>6 DEF SendPass
  <2>6. CASE WaitExpires(p)
    <3>1. \A t \in Threads : pc'[t] = "writing" <=> pc[t] = "writing"
      BY <1>0, <2>6 DEF WaitExpires, Step
    <3> QED BY <2>6, <3>1 DEF WaitExpires
  <2>7. CASE ExpiredPass(p)
    <3>1. \A t \in Threads : pc'[t] = "writing" <=> pc[t] = "writing"
      BY <1>0, <2>7 DEF ExpiredPass, Kill, NotifyWriter, NotifyProducers, Step
    <3> QED BY <2>7, <3>1 DEF ExpiredPass, Kill
  <2>8. ASSUME NEW size \in Sizes, SendFrame(p, size) PROVE HalfOut'
    <3>1. \A t \in Threads : pc'[t] = "writing" <=> pc[t] = "writing"
      BY <1>0, <2>8 DEF SendFrame, Step
    <3> QED BY <2>8, <3>1 DEF SendFrame
  <2> QED BY <1>7, <2>1, <2>2, <2>3, <2>4, <2>5, <2>6, <2>7, <2>8
<1> QED BY <1>1, <1>2, <1>4, <1>5, <1>6, <1>7, NextCases

\* What is appended to the wire continues its last unit, or begins a frame
\* after a whole one.
LEMMA WholeStep ==
  Shapes /\ OneWriter /\ Registered /\ HalfOut /\ WholeFrames /\ [Next]_vars => WholeFrames'
<1> SUFFICES ASSUME Shapes, OneWriter, Registered, HalfOut, WholeFrames, [Next]_vars
             PROVE  WholeFrames'
  OBVIOUS
<1>0. /\ pc \in [Threads -> PCs] /\ Writer \in Threads /\ Producers \subseteq Threads
      /\ item \in [Threads -> GoodItems] /\ queue \in Seq(GoodItems)
      /\ wire \in Seq([id : Nat, unit : Nat])
      /\ \A it \in GoodItems : it.done \in Nat
  BY DEF Shapes, Threads, GoodItems
<1>1. ASSUME UNCHANGED wire,
             \A i \in DOMAIN accepted : accepted'[i] = accepted[i]
      PROVE  WholeFrames'
  <2>1. \A i \in DOMAIN wire : accepted'[wire[i].id] = accepted[wire[i].id]
    BY <1>1 DEF Registered
  <2>2. \A i \in DOMAIN wire : i > 1 => i - 1 \in DOMAIN wire
    BY <1>0
  <2> QED BY <1>1, <2>1, <2>2 DEF WholeFrames
<1>2. ASSUME NEW t \in Threads, WriteSome(t) PROVE WholeFrames'
  <2> DEFINE n == Len(wire)
  <2> DEFINE u == [id |-> item[t].frame.id, unit |-> item[t].done + 1]
  <2>1. u \in [id : Nat, unit : Nat]
    BY <1>0 DEF GoodItems, AnyFrame
  <2>2. /\ dead = "no" /\ pc[t] = "writing" /\ wire' = Append(wire, u)
        /\ UNCHANGED accepted
    BY <1>2 DEF WriteSome
  <2>3. writing /\ \A v \in Threads : pc[v] = "writing" => v = t
    BY <2>2 DEF OneWriter
  <2>4. \/ n > 0 /\ u.id = wire[n].id /\ u.unit = wire[n].unit + 1
        \/ u.unit = 1 /\ (n > 0 => wire[n].unit = Units(accepted[wire[n].id]))
    <3>1. CASE item[t].done > 0
      BY <1>0, <2>2, <3>1 DEF HalfOut, LastOut
    <3>2. CASE ~(item[t].done > 0)
      <4>1. item[t].done = 0
        BY <1>0, <3>2
      <4>2. ~Torn
        <5>1. ~\E v \in Threads : pc[v] = "writing" /\ item[v].done > 0
          BY <2>3, <3>2
        <5>2. queue # <<>> => 1 \in DOMAIN queue
          BY <1>0
        <5>3. ~(queue # <<>> /\ queue[1].done > 0)
          BY <2>2, <2>3, <5>2 DEF HalfOut
        <5> QED BY <2>2, <5>1, <5>3 DEF HalfOut
      <4> QED BY <4>1, <4>2 DEF Torn
    <3> QED BY <3>1, <3>2
  <2>5. /\ n \in Nat /\ DOMAIN wire = 1..n
        /\ \A i \in 1..n : wire[i] \in [id : Nat, unit : Nat]
    <3> DEFINE U == [id : Nat, unit : Nat]
    <3>1. wire \in Seq(U)
      BY <1>0
    <3> HIDE DEF U
    <3>2. n \in Nat /\ DOMAIN wire = 1..n /\ \A i \in 1..n : wire[i] \in U
      BY <3>1
    <3> QED BY <3>2 DEF U
  <2> HIDE DEF u
  <2>6. /\ DOMAIN wire' = 1..(n + 1) /\ wire'[n + 1] = u
        /\ \A i \in 1..n : wire'[i] = wire[i]
    BY <1>0, <2>1, <2>2
  <2> HIDE DEF n
  <2>7. ASSUME NEW i \in 1..n
        PROVE  \/ i > 1 /\ wire'[i] = [wire'[i - 1] EXCEPT !.unit = @ + 1]
               \/ wire'[i].unit = 1
                  /\ (i > 1 => wire'[i - 1].unit = Units(accepted'[wire'[i - 1].id]))
    <3>1. i > 1 => i - 1 \in 1..n
      BY <2>5
    <3>2. \/ i > 1 /\ wire[i] = [wire[i - 1] EXCEPT !.unit = @ + 1]
          \/ wire[i].unit = 1 /\ (i > 1 => wire[i - 1].unit = Units(accepted[wire[i - 1].id]))
      BY <2>5 DEF WholeFrames
    <3> QED BY <2>2, <2>6, <3>1, <3>2
  <2>8. \/ n + 1 > 1 /\ u = [wire[n] EXCEPT !.unit = @ + 1]
        \/ u.unit = 1 /\ (n + 1 > 1 => wire[n].unit = Units(accepted[wire[n].id]))
    <3>1. CASE n > 0 /\ u.id = wire[n].id /\ u.unit = wire[n].unit + 1
      <4>1. wire[n] \in [id : Nat, unit : Nat]
        BY <2>5, <3>1
      <4> QED BY <2>1, <2>5, <3>1, <4>1
    <3>2. CASE u.unit = 1 /\ (n > 0 => wire[n].unit = Units(accepted[wire[n].id]))
      BY <2>5, <3>2
    <3> QED BY <2>4, <3>1, <3>2 DEF n
  <2>9. n > 0 => wire'[n] = wire[n]
    BY <2>5, <2>6
  <2>10. ASSUME NEW i \in 1..(n + 1), i = n + 1
         PROVE  \/ i > 1 /\ wire'[i] = [wire'[i - 1] EXCEPT !.unit = @ + 1]
                \/ wire'[i].unit = 1
                   /\ (i > 1 => wire'[i - 1].unit = Units(accepted'[wire'[i - 1].id]))
    <3>1. i - 1 = n /\ (i > 1 => n > 0)
      BY <2>5, <2>10
    <3>2. wire'[i] = u /\ accepted' = accepted
      BY <2>2, <2>6, <2>10
    <3> QED BY <2>8, <2>9, <2>10, <3>1, <3>2
  <2>11. \A i \in 1..(n + 1) : i \in 1..n \/ i = n + 1
    BY <2>5
  <2>12. SUFFICES ASSUME NEW i \in 1..(n + 1)
                  PROVE  \/ i > 1 /\ wire'[i] = [wire'[i - 1] EXCEPT !.unit = @ + 1]
                         \/ wire'[i].unit = 1
                            /\ (i > 1 => wire'[i - 1].unit = Units(accepted'[wire'[i - 1].id]))
    BY <2>6 DEF WholeFrames, Units
  <2>13. CASE i \in 1..n
    BY <2>7, <2>13
  <2>14. CASE i = n + 1
    BY <2>10, <2>14
  <2> QED BY <2>11, <2>13, <2>14
<1>3. CASE UNCHANGED vars
  BY <1>1, <1>3 DEF vars
<1>4. CASE pc[Writer] = "look" /\ UNCHANGED <<want, dead, wire, accepted>>
           /\ (WriterPops \/ WriterExits \/ WriterParks)
  BY <1>1, <1>4
<1>5. CASE WriterDone \/ WriterFails
  BY <1>1, <1>5 DEF WriterDone, WriterFails
<1>6. ASSUME NEW p \in Producers,
             \/ InlineDone(p) \/ InlineJam(p) \/ InlineFails(p)
             \/ CloneHandle(p) \/ DropHandle(p)
             \/ SendPass(p) \/ WaitExpires(p) \/ ExpiredPass(p)
             \/ \E size \in Sizes : SendFrame(p, size)
      PROVE WholeFrames'
  <2>1. CASE SendPass(p)
    <3>1. NewFrame(p) \in AnyFrame
      BY DEF NewFrame, AnyFrame, Shapes
    <3>2. accepted' \in {accepted, Append(accepted, NewFrame(p))}
      BY <2>1 DEF SendPass, Refused, TakesToken, Enqueues, Waits
    <3>3. \A i \in DOMAIN accepted : accepted'[i] = accepted[i]
      <4> DEFINE f == NewFrame(p)
      <4>1. accepted \in Seq(AnyFrame)
        BY DEF Shapes
      <4>2. CASE accepted' = Append(accepted, f)
        <5> HIDE DEF f
        <5>1. f \in AnyFrame
          BY <3>1 DEF f
        <5> QED BY <4>1, <4>2, <5>1
      <4> QED BY <3>2, <4>2
    <3> QED BY <1>1, <2>1, <3>3 DEF SendPass
  <2>2. CASE ~SendPass(p)
    BY <1>1, <1>6, <2>2 DEF InlineDone, InlineJam, InlineFails, CloneHandle, DropHandle,
                            WaitExpires, ExpiredPass, SendFrame
  <2> QED BY <2>1, <2>2
<1> QED BY <1>2, <1>3, <1>4, <1>5, <1>6, NextCases
-----------------------------------------------------------------------------
\* The lengths of what is queued.
Lens(q) == [i \in DOMAIN q |-> ItemLen(q[i])]

\* They are numbers, one for each place.
LEMMA LensType ==
  ASSUME NEW q \in Seq(GoodItems)
  PROVE  Lens(q) \in Seq(Int) /\ Len(Lens(q)) = Len(q) /\ \A i \in 1..Len(q) : Lens(q)[i] = ItemLen(q[i])
<1>1. DOMAIN q = 1..Len(q) /\ Len(q) \in Nat /\ \A i \in 1..Len(q) : ItemLen(q[i]) \in Int
  BY ItemLenNat
<1> QED BY <1>1 DEF Lens

\* push_back adds the length of its item.
LEMMA LensAppend ==
  ASSUME NEW q \in Seq(GoodItems), NEW it \in GoodItems
  PROVE  Total(Lens(Append(q, it))) = Total(Lens(q)) + ItemLen(it)
<1> DEFINE r == Append(q, it)
           a == Lens(q)
           b == Lens(r)
           c == Append(a, ItemLen(it))
<1>1. /\ r \in Seq(GoodItems) /\ Len(r) = Len(q) + 1 /\ r[Len(q) + 1] = it
      /\ \A i \in 1..Len(q) : r[i] = q[i]
  BY AppendProperties
<1>2. ItemLen(it) \in Int /\ Len(q) \in Nat
  BY ItemLenNat
<1> HIDE DEF r
<1>3. /\ a \in Seq(Int) /\ Len(a) = Len(q) /\ \A i \in 1..Len(q) : a[i] = ItemLen(q[i])
      /\ b \in Seq(Int) /\ Len(b) = Len(q) + 1 /\ \A i \in 1..Len(r) : b[i] = ItemLen(r[i])
  BY <1>1, LensType
<1> HIDE DEF a, b
<1>4. /\ c \in Seq(Int) /\ Len(c) = Len(q) + 1 /\ c[Len(q) + 1] = ItemLen(it)
      /\ \A i \in 1..Len(q) : c[i] = a[i]
  BY <1>2, <1>3, AppendProperties
<1> HIDE DEF c
<1>5. \A i \in 1..(Len(q) + 1) : b[i] = c[i]
  <2>1. \A i \in 1..(Len(q) + 1) : i \in 1..Len(q) \/ i = Len(q) + 1
    BY <1>2
  <2> QED BY <1>1, <1>3, <1>4, <2>1
<1>6. b = c
  BY <1>3, <1>4, <1>5, SeqEqual
<1> QED BY <1>2, <1>3, <1>6, TotalAppend DEF a, b, c, r

\* push_front adds the length of its item.
LEMMA LensCons ==
  ASSUME NEW q \in Seq(GoodItems), NEW it \in GoodItems
  PROVE  Total(Lens(<<it>> \o q)) = ItemLen(it) + Total(Lens(q))
<1> DEFINE r == <<it>> \o q
           a == Lens(q)
           b == Lens(r)
           c == <<ItemLen(it)>> \o a
<1>1. /\ r \in Seq(GoodItems) /\ Len(r) = Len(q) + 1 /\ r[1] = it
      /\ \A i \in DOMAIN r : i = 1 \/ (i - 1 \in DOMAIN q /\ r[i] = q[i - 1])
  BY ConsFacts
<1>2. ItemLen(it) \in Int /\ Len(q) \in Nat /\ DOMAIN q = 1..Len(q)
  BY ItemLenNat
<1> HIDE DEF r
<1>3. /\ a \in Seq(Int) /\ Len(a) = Len(q) /\ \A i \in 1..Len(q) : a[i] = ItemLen(q[i])
      /\ b \in Seq(Int) /\ Len(b) = Len(q) + 1 /\ \A i \in 1..Len(r) : b[i] = ItemLen(r[i])
  BY <1>1, LensType
<1> HIDE DEF a, b
<1>4. /\ c \in Seq(Int) /\ Len(c) = Len(q) + 1 /\ c[1] = ItemLen(it)
      /\ \A i \in DOMAIN c : i = 1 \/ (i - 1 \in DOMAIN a /\ c[i] = a[i - 1])
  BY <1>2, <1>3, ConsFacts
<1> HIDE DEF c
<1>5. DOMAIN r = 1..(Len(q) + 1) /\ DOMAIN c = 1..(Len(q) + 1) /\ DOMAIN a = 1..Len(q)
  BY <1>1, <1>3, <1>4
<1>6. \A i \in 1..(Len(q) + 1) : b[i] = c[i]
  <2> SUFFICES ASSUME NEW i \in 1..(Len(q) + 1) PROVE b[i] = c[i]
    OBVIOUS
  <2>1. b[i] = ItemLen(r[i])
    BY <1>1, <1>3
  <2>2. CASE i = 1
    BY <1>1, <1>4, <2>1, <2>2
  <2>3. CASE i # 1
    <3>1. i - 1 \in 1..Len(q) /\ r[i] = q[i - 1] /\ c[i] = a[i - 1]
      BY <1>1, <1>2, <1>4, <1>5, <2>3
    <3> QED BY <1>3, <2>1, <3>1
  <2> QED BY <2>2, <2>3
<1>7. b = c
  BY <1>3, <1>4, <1>6, SeqEqual
<1> QED BY <1>2, <1>3, <1>7, TotalFirst DEF a, b, c, r

\* pop_front takes the length of its item away.
LEMMA LensTail ==
  ASSUME NEW q \in Seq(GoodItems), q # <<>>
  PROVE  Total(Lens(Tail(q))) = Total(Lens(q)) - ItemLen(Head(q))
<1>1. q = <<Head(q)>> \o Tail(q) /\ Head(q) \in GoodItems /\ Tail(q) \in Seq(GoodItems)
  BY HeadTailProperties, ConcatSimplifications
<1>2. Total(Lens(q)) = ItemLen(Head(q)) + Total(Lens(Tail(q)))
  BY <1>1, LensCons
<1>3. ItemLen(Head(q)) \in Int /\ Total(Lens(Tail(q))) \in Int
  <2>1. Lens(Tail(q)) \in Seq(Int)
    BY <1>1, LensType
  <2>2. ItemLen(Head(q)) \in Nat
    BY <1>1, ItemLenNat
  <2> QED BY <2>1, <2>2, TotalFacts
<1> QED BY <1>2, <1>3

\* OutboxState.bytes follows the queue through pushes and pops.
LEMMA BytesStep == Shapes /\ BytesExact /\ [Next]_vars => BytesExact'
<1> SUFFICES ASSUME Shapes, bytes = Total(Lens(queue)), [Next]_vars PROVE bytes' = Total(Lens(queue'))
  BY DEF BytesExact, Lens
<1>0. queue \in Seq(GoodItems) /\ item \in [Threads -> GoodItems] /\ Producers \subseteq Threads
      /\ Total(Lens(queue)) \in Int
  <2>1. queue \in Seq(GoodItems)
    BY DEF Shapes
  <2>2. Total(Lens(queue)) \in Int
    BY <2>1, LensType, TotalFacts
  <2> QED BY <2>1, <2>2 DEF Shapes, Threads
<1>1. ASSUME UNCHANGED <<bytes, queue>> PROVE bytes' = Total(Lens(queue'))
  BY <1>1
<1>2. CASE UNCHANGED vars
  BY <1>1, <1>2 DEF vars
<1>3. CASE pc[Writer] = "look" /\ UNCHANGED <<want, dead, wire, accepted>>
           /\ (WriterPops \/ WriterExits \/ WriterParks)
  <2>1. CASE WriterPops
    BY <1>0, <2>1, LensTail DEF WriterPops
  <2>2. CASE WriterExits \/ WriterParks
    BY <1>1, <2>2 DEF WriterExits, WriterParks
  <2> QED BY <1>3, <2>1, <2>2
<1>4. CASE WriterDone \/ WriterFails
  BY <1>1, <1>4 DEF WriterDone, WriterFails
<1>5. ASSUME NEW t \in Threads, WriteSome(t) PROVE bytes' = Total(Lens(queue'))
  BY <1>1, <1>5 DEF WriteSome
<1>6. ASSUME NEW p \in Producers,
             \/ InlineDone(p) \/ InlineJam(p) \/ InlineFails(p)
             \/ CloneHandle(p) \/ DropHandle(p)
             \/ SendPass(p) \/ WaitExpires(p) \/ ExpiredPass(p)
             \/ \E size \in Sizes : SendFrame(p, size)
      PROVE bytes' = Total(Lens(queue'))
  <2>1. CASE InlineJam(p)
    <3> DEFINE rest == [item[p] EXCEPT !.raw = TRUE]
    <3>1. rest \in GoodItems
      BY <1>0 DEF GoodItems, AnyFrame
    <3>2. queue' = <<rest>> \o queue /\ bytes' = bytes + ItemLen(rest)
      BY <2>1 DEF InlineJam
    <3> HIDE DEF rest
    <3>3. ItemLen(rest) \in Int
      BY <3>1, ItemLenNat
    <3>4. Total(Lens(<<rest>> \o queue)) = ItemLen(rest) + Total(Lens(queue))
      BY <1>0, <3>1, LensCons
    <3> QED BY <1>0, <3>2, <3>3, <3>4
  <2>2. CASE SendPass(p)
    <3>1. CASE Enqueues(p)
      <4> DEFINE it == Whole(NewFrame(p))
      <4>1. NewFrame(p) \in AnyFrame /\ ItemLen(it) = want[p]
        BY DEF NewFrame, AnyFrame, Shapes, Whole, ItemLen
      <4>2. it \in GoodItems
        BY <4>1, GoodItem
      <4>3. queue' = Append(queue, it) /\ bytes' = bytes + want[p]
        BY <3>1 DEF Enqueues
      <4> HIDE DEF it
      <4>4. Total(Lens(Append(queue, it))) = Total(Lens(queue)) + ItemLen(it)
        BY <1>0, <4>2, LensAppend
      <4> QED BY <4>1, <4>3, <4>4
    <3>2. CASE ~Enqueues(p)
      BY <1>1, <2>2, <3>2 DEF SendPass, Refused, TakesToken, Waits
    <3> QED BY <3>1, <3>2
  <2>3. CASE ~InlineJam(p) /\ ~SendPass(p)
    BY <1>1, <1>6, <2>3 DEF InlineDone, InlineFails, CloneHandle, DropHandle,
                            WaitExpires, ExpiredPass, SendFrame
  <2> QED BY <2>1, <2>2, <2>3
<1> QED BY <1>2, <1>3, <1>4, <1>5, <1>6, NextCases
-----------------------------------------------------------------------------
\* The units of the first n frames of a.
UnitsOf(a, n) == Total([i \in 1..n |-> Units(a[i])])

\* The last units of the frames of a that are completely on the wire w.
EndsOf(w, a) == Sift(w, {u \in [id : Nat, unit : Nat] : u.unit = Units(a[u.id])})

\* The units of n + 1 frames are those of n and the next one's; frames
\* accepted later change nothing.
LEMMA UnitsFacts ==
  ASSUME NEW a \in Seq(AnyFrame), NEW n \in 0..Len(a)
  PROVE  /\ UnitsOf(a, n) \in Int /\ UnitsOf(a, 0) = 0
         /\ n < Len(a) => UnitsOf(a, n + 1) = UnitsOf(a, n) + Units(a[n + 1])
         /\ \A f \in AnyFrame : UnitsOf(Append(a, f), n) = UnitsOf(a, n)
<1> DEFINE w(m) == [i \in 1..m |-> Units(a[i])]
<1>1. Len(a) \in Nat /\ \A i \in 1..Len(a) : Units(a[i]) \in Int
  <2>1. Len(a) \in Nat /\ \A i \in 1..Len(a) : a[i] \in AnyFrame
    OBVIOUS
  <2> QED BY <2>1 DEF Units, AnyFrame
<1>2. ASSUME NEW m \in 0..Len(a)
      PROVE w(m) \in Seq(Int) /\ Len(w(m)) = m /\ \A i \in 1..m : w(m)[i] = Units(a[i])
  <2>1. \A i \in 1..m : Units(a[i]) \in Int
    BY <1>1
  <2> QED BY <1>1, <2>1
<1>3. UnitsOf(a, n) \in Int
  BY <1>2, TotalFacts DEF UnitsOf
<1>4. UnitsOf(a, 0) = 0
  <2>1. 0 \in 0..Len(a)
    BY <1>1
  <2>2. w(0) \in Seq(Int) /\ Len(w(0)) = 0
    BY <1>2, <2>1
  <2>3. w(0) = <<>>
    BY <2>2, EmptySeq
  <2> QED BY <2>2, <2>3, TotalFacts DEF UnitsOf
<1>5. ASSUME n < Len(a) PROVE UnitsOf(a, n + 1) = UnitsOf(a, n) + Units(a[n + 1])
  <2> DEFINE x == Units(a[n + 1])
             b == w(n)
             c == w(n + 1)
             d == Append(b, x)
  <2>1. n + 1 \in 0..Len(a) /\ n + 1 \in 1..Len(a) /\ n \in Nat
    BY <1>1, <1>5
  <2>2. x \in Int
    BY <1>1, <2>1
  <2>3. /\ b \in Seq(Int) /\ Len(b) = n /\ \A i \in 1..n : b[i] = Units(a[i])
        /\ c \in Seq(Int) /\ Len(c) = n + 1 /\ \A i \in 1..(n + 1) : c[i] = Units(a[i])
    <3> HIDE DEF w
    <3> QED BY <1>2, <2>1
  <2>4. UnitsOf(a, n) = Total(b) /\ UnitsOf(a, n + 1) = Total(c)
    BY DEF UnitsOf
  <2> HIDE DEF b, c
  <2>5. d \in Seq(Int) /\ Len(d) = n + 1 /\ d[n + 1] = x /\ \A i \in 1..n : d[i] = b[i]
    BY <2>2, <2>3, AppendProperties
  <2> HIDE DEF d
  <2>6. \A i \in 1..(n + 1) : c[i] = d[i]
    <3>1. \A i \in 1..(n + 1) : i \in 1..n \/ i = n + 1
      BY <2>1
    <3> QED BY <2>3, <2>5, <3>1
  <2>7. c = d
    BY <2>3, <2>5, <2>6, SeqEqual
  <2> QED BY <2>2, <2>3, <2>4, <2>7, TotalAppend DEF d
<1>6. ASSUME NEW f \in AnyFrame PROVE UnitsOf(Append(a, f), n) = UnitsOf(a, n)
  <2>1. \A i \in 1..n : Append(a, f)[i] = a[i]
    <3>1. \A i \in 1..n : i \in 1..Len(a)
      BY <1>1
    <3>2. \A i \in 1..Len(a) : Append(a, f)[i] = a[i]
      BY AppendProperties
    <3> QED BY <3>1, <3>2
  <2>2. [i \in 1..n |-> Units(Append(a, f)[i])] = [i \in 1..n |-> Units(a[i])]
    BY <2>1
  <2> QED BY <2>2 DEF UnitsOf
<1> QED BY <1>3, <1>4, <1>5, <1>6

\* Frames accepted later end nothing that is on the wire.
LEMMA EndsGrow ==
  ASSUME NEW w \in Seq([id : Nat, unit : Nat]), NEW a \in Seq(AnyFrame), NEW f \in AnyFrame,
         \A i \in DOMAIN w : w[i].id \in DOMAIN a
  PROVE  EndsOf(w, Append(a, f)) = EndsOf(w, a)
<1> DEFINE U == [id : Nat, unit : Nat]
           S == {u \in U : u.unit = Units(Append(a, f)[u.id])}
           T == {u \in U : u.unit = Units(a[u.id])}
<1>1. w \in Seq(U) /\ Len(w) \in Nat /\ DOMAIN w = 1..Len(w)
  OBVIOUS
<1>2. \A j \in DOMAIN a : Append(a, f)[j] = a[j]
  <2>1. DOMAIN a = 1..Len(a)
    OBVIOUS
  <2> QED BY <2>1, AppendProperties
<1>3. \A i \in 1..Len(w) : w[i] \in S <=> w[i] \in T
  BY <1>1, <1>2
<1> HIDE DEF S, T, U
<1>4. Sift(w, S) = Sift(w, T)
  BY <1>1, <1>3, SiftSame
<1> QED BY <1>4 DEF EndsOf, S, T, U

\* A unit more on the wire ends a frame if it is its last.
LEMMA EndsWrite ==
  ASSUME NEW w \in Seq([id : Nat, unit : Nat]), NEW a, NEW u \in [id : Nat, unit : Nat]
  PROVE  /\ u.unit = Units(a[u.id]) => EndsOf(Append(w, u), a) = Append(EndsOf(w, a), u)
         /\ u.unit # Units(a[u.id]) => EndsOf(Append(w, u), a) = EndsOf(w, a)
         /\ EndsOf(w, a) \in Seq([id : Nat, unit : Nat])
<1> DEFINE U == [id : Nat, unit : Nat]
           T == {v \in U : v.unit = Units(a[v.id])}
<1>1. u \in T <=> u.unit = Units(a[u.id])
  OBVIOUS
<1>2. w \in Seq(U) /\ u \in U
  OBVIOUS
<1> HIDE DEF T, U
<1>3. Sift(Append(w, u), T) = (IF u \in T THEN Append(Sift(w, T), u) ELSE Sift(w, T))
  BY <1>2, SiftAppend
<1>4. Sift(w, T) \in Seq(U)
  BY <1>2, SiftFacts
<1> QED BY <1>1, <1>3, <1>4 DEF EndsOf, T, U
-----------------------------------------------------------------------------
\* The producers that are sending a frame not accepted yet.
Sending == {p \in Producers : pc[p] \in {"send", "waiting", "expired"}}

\* Every frame accepted has an id in Frames.
Budget ==
  /\ Len(accepted) + Cardinality(Sending) <= MaxFrames + Cardinality(Producers)
  /\ \A p \in Sending : want[p] \in Sizes

\* What is queued is not written to its end.
Unfinished == \A i \in DOMAIN queue : ~Written(queue[i])

\* The frames that are out and done with.
FullyOut == Len(accepted) - Len(queue) - (IF writing THEN 1 ELSE 0)

\* The wire holds the first n frames, whole, and so much of the next one.
Out(w, e, a, n, part, whole) ==
  /\ Len(w) = UnitsOf(a, n) + part
  /\ Len(e) = n + whole

\* Frames leave in the order they were accepted: while the connection lives,
\* the queue holds the latest ones in order, the token holder the one before.
InOrder ==
  dead = "no" =>
    /\ \A i \in DOMAIN queue : queue[i].frame.id = Len(accepted) - Len(queue) + i
    /\ \A t \in Threads : pc[t] = "writing" =>
         /\ item[t].frame.id = FullyOut + 1
         /\ Out(wire, Ends, accepted, FullyOut, item[t].done, IF Written(item[t]) THEN 1 ELSE 0)
    /\ ~writing => Out(wire, Ends, accepted, FullyOut, IF queue = <<>> THEN 0 ELSE queue[1].done, 0)

\* The n-th frame that ends is the n-th accepted.
EndsInOrder == \A i \in DOMAIN Ends : Ends[i].id = i

\* A writer that left a living connection left nothing behind and nobody who
\* could send.
LeftEmpty ==
  pc[Writer] = "exited" /\ dead = "no" => queue = <<>> /\ ~writing /\ Handles = {}

\* The ledger: what OutboxInv lacks to be about bytes and order.
Ledger == BytesExact /\ Budget /\ Unfinished /\ InOrder /\ EndsInOrder /\ LeftEmpty

\* Nothing finished is ever queued: InlineJam queues what is not written, the
\* others queue whole frames.
LEMMA UnfinishedStep == Shapes /\ Unfinished /\ [Next]_vars => Unfinished'
<1> SUFFICES ASSUME Shapes, Unfinished, [Next]_vars PROVE Unfinished'
  OBVIOUS
<1>0. queue \in Seq(GoodItems) /\ item \in [Threads -> GoodItems] /\ Producers \subseteq Threads
      /\ DOMAIN queue = 1..Len(queue)
  BY DEF Shapes, Threads
<1>1. ASSUME queue' = queue PROVE Unfinished'
  BY <1>1 DEF Unfinished, Written, Units
<1>2. CASE UNCHANGED vars
  BY <1>1, <1>2 DEF vars
<1>3. CASE pc[Writer] = "look" /\ UNCHANGED <<want, dead, wire, accepted>>
           /\ (WriterPops \/ WriterExits \/ WriterParks)
  <2>1. CASE WriterPops
    <3>1. queue' = Tail(queue) /\ queue # <<>>
      BY <2>1 DEF WriterPops
    <3>2. \A i \in DOMAIN queue' : i + 1 \in DOMAIN queue /\ queue'[i] = queue[i + 1]
      BY <1>0, <3>1
    <3> QED BY <3>2 DEF Unfinished, Written, Units
  <2>2. CASE WriterExits \/ WriterParks
    BY <1>1, <2>2 DEF WriterExits, WriterParks
  <2> QED BY <1>3, <2>1, <2>2
<1>4. CASE WriterDone \/ WriterFails
  BY <1>1, <1>4 DEF WriterDone, WriterFails
<1>5. ASSUME NEW t \in Threads, WriteSome(t) PROVE Unfinished'
  BY <1>1, <1>5 DEF WriteSome
<1>6. ASSUME NEW p \in Producers,
             \/ InlineDone(p) \/ InlineJam(p) \/ InlineFails(p)
             \/ CloneHandle(p) \/ DropHandle(p)
             \/ SendPass(p) \/ WaitExpires(p) \/ ExpiredPass(p)
             \/ \E size \in Sizes : SendFrame(p, size)
      PROVE Unfinished'
  <2>1. CASE InlineJam(p)
    <3> DEFINE rest == [item[p] EXCEPT !.raw = TRUE]
    <3>1. rest \in GoodItems /\ rest.done = item[p].done /\ rest.frame = item[p].frame
      BY <1>0 DEF GoodItems, AnyFrame
    <3>2. queue' = <<rest>> \o queue /\ ~Written(item[p])
      BY <2>1 DEF InlineJam
    <3>3. ~Written(rest)
      BY <3>1, <3>2 DEF Written
    <3> HIDE DEF rest
    <3>4. queue'[1] = rest
          /\ \A i \in DOMAIN queue' : i = 1 \/ (i - 1 \in DOMAIN queue /\ queue'[i] = queue[i - 1])
      BY <1>0, <3>1, <3>2, ConsFacts
    <3> QED BY <3>3, <3>4 DEF Unfinished, Written, Units
  <2>2. CASE SendPass(p)
    <3>1. CASE Enqueues(p)
      <4> DEFINE it == Whole(NewFrame(p))
      <4>1. NewFrame(p) \in AnyFrame
        BY DEF NewFrame, AnyFrame, Shapes
      <4>2. it \in GoodItems /\ ~Written(it)
        BY <4>1, GoodItem DEF Written, Whole, Units, AnyFrame
      <4>3. queue' = Append(queue, it)
        BY <3>1 DEF Enqueues
      <4> HIDE DEF it
      <4>4. \A i \in DOMAIN queue' : (i \in DOMAIN queue /\ queue'[i] = queue[i]) \/ queue'[i] = it
        BY <1>0, <4>2, <4>3
      <4> QED BY <4>2, <4>4 DEF Unfinished, Written, Units
    <3>2. CASE ~Enqueues(p)
      BY <1>1, <2>2, <3>2 DEF SendPass, Refused, TakesToken, Waits
    <3> QED BY <3>1, <3>2
  <2>3. CASE ~InlineJam(p) /\ ~SendPass(p)
    BY <1>1, <1>6, <2>3 DEF InlineDone, InlineFails, CloneHandle, DropHandle,
                            WaitExpires, ExpiredPass, SendFrame
  <2> QED BY <2>1, <2>2, <2>3
<1> QED BY <1>2, <1>3, <1>4, <1>5, <1>6, NextCases

\* Counting producers.
LEMMA SendingCount ==
  ASSUME NEW S \in SUBSET Producers
  PROVE  /\ IsFiniteSet(S) /\ Cardinality(S) \in Nat
         /\ \A T \in SUBSET S : Cardinality(T) <= Cardinality(S)
         /\ \A p \in S : Cardinality(S \ {p}) = Cardinality(S) - 1
<1>1. IsFiniteSet(S)
  BY OutboxAssumptions, FS_Subset DEF OutboxAssumptions
<1> QED BY <1>1, FS_CardinalityType, FS_RemoveElement, FS_Subset

\* A step after which no more producers send keeps the budget.
LEMMA BudgetShrinks ==
  ASSUME Shapes, Budget, accepted' = accepted,
         \A p \in Producers : pc'[p] \in {"send", "waiting", "expired"}
           => pc[p] \in {"send", "waiting", "expired"} /\ want'[p] = want[p]
  PROVE  Budget'
<1>1. Sending' \in SUBSET Sending /\ Sending \in SUBSET Producers /\ Sending' \in SUBSET Producers
  BY DEF Sending
<1>2. Cardinality(Sending') <= Cardinality(Sending) /\ Cardinality(Sending') \in Nat
      /\ Cardinality(Sending) \in Nat /\ Cardinality(Producers) \in Nat
  BY <1>1, SendingCount
<1>3. Len(accepted) \in Nat /\ MaxFrames \in Nat
  BY OutboxAssumptions DEF Shapes, OutboxAssumptions
<1>4. Len(accepted') + Cardinality(Sending') <= MaxFrames + Cardinality(Producers)
  BY <1>2, <1>3 DEF Budget
<1>5. \A p \in Sending' : want'[p] \in Sizes
  BY DEF Sending, Budget
<1> QED BY <1>4, <1>5 DEF Budget

\* A send that begins below the bound takes a place in the budget, and gives
\* it back when its frame is accepted or refused.
LEMMA BudgetStep == Shapes /\ Budget /\ [Next]_vars => Budget'
<1> SUFFICES ASSUME Shapes, Budget, [Next]_vars PROVE Budget'
  OBVIOUS
<1>0. /\ pc \in [Threads -> PCs] /\ Writer \in Threads /\ Producers \subseteq Threads
      /\ Writer \notin Producers /\ want \in [Producers -> Nat]
  BY OutboxAssumptions DEF Shapes, Threads, OutboxAssumptions
<1> DEFINE S == {"send", "waiting", "expired"}
<1>1. ASSUME accepted' = accepted, want' = want, \A p \in Producers : pc'[p] \in S => pc[p] \in S
      PROVE  Budget'
  BY <1>1, BudgetShrinks
<1>2. CASE UNCHANGED vars
  BY <1>1, <1>2 DEF vars
<1>3. CASE pc[Writer] = "look" /\ UNCHANGED <<want, dead, wire, accepted>>
           /\ (WriterPops \/ WriterExits \/ WriterParks)
  <2>1. \A p \in Producers : pc'[p] \in S => pc[p] \in S
    BY <1>0, <1>3 DEF WriterPops, WriterExits, WriterParks, NotifyProducers, Step
  <2> QED BY <1>1, <1>3, <2>1
<1>4. CASE WriterDone \/ WriterFails
  <2>1. \A p \in Producers : pc'[p] \in S => pc[p] \in S
    BY <1>0, <1>4 DEF WriterDone, WriterFails, Kill, NotifyWriter, NotifyProducers, Step
  <2> QED BY <1>1, <1>4, <2>1 DEF WriterDone, WriterFails
<1>5. ASSUME NEW t \in Threads, WriteSome(t) PROVE Budget'
  BY <1>1, <1>5 DEF WriteSome
<1>6. ASSUME NEW p \in Producers,
             \/ InlineDone(p) \/ InlineJam(p) \/ InlineFails(p)
             \/ CloneHandle(p) \/ DropHandle(p)
             \/ SendPass(p) \/ WaitExpires(p) \/ ExpiredPass(p)
             \/ \E size \in Sizes : SendFrame(p, size)
      PROVE Budget'
  <2>1. CASE InlineDone(p) \/ InlineJam(p) \/ InlineFails(p)
    <3>1. \A q \in Producers : pc'[q] \in S => pc[q] \in S
      BY <1>0, <2>1 DEF InlineDone, InlineJam, InlineFails, Kill, NotifyWriter, NotifyProducers, Step
    <3> QED BY <1>1, <2>1, <3>1 DEF InlineDone, InlineJam, InlineFails
  <2>2. CASE CloneHandle(p) \/ DropHandle(p) \/ WaitExpires(p)
    <3>1. \A q \in Producers : pc'[q] \in S => pc[q] \in S
      BY <1>0, <2>2 DEF CloneHandle, DropHandle, WaitExpires, NotifyWriter, Step
    <3> QED BY <1>1, <2>2, <3>1 DEF CloneHandle, DropHandle, WaitExpires
  <2>3. CASE ExpiredPass(p)
    <3>1. \A q \in Producers : pc'[q] \in S => pc[q] \in S
      BY <1>0, <2>3 DEF ExpiredPass, Kill, NotifyWriter, NotifyProducers, Step
    <3> QED BY <1>1, <2>3, <3>1 DEF ExpiredPass
  <2>4. ASSUME NEW size \in Sizes, SendFrame(p, size) PROVE Budget'
    <3>1. /\ accepted' = accepted /\ Len(accepted) < MaxFrames /\ want' = [want EXCEPT ![p] = size]
          /\ pc' = [pc EXCEPT ![p] = "send"]
      BY <2>4 DEF SendFrame, Step
    <3>2. Sending' \in SUBSET Producers
      BY DEF Sending
    <3>3. Cardinality(Sending') <= Cardinality(Producers) /\ Cardinality(Sending') \in Nat
          /\ Cardinality(Producers) \in Nat
      BY <3>2, SendingCount
    <3>4. Len(accepted) \in Nat /\ MaxFrames \in Nat
      BY OutboxAssumptions DEF Shapes, OutboxAssumptions
    <3>5. \A q \in Sending' : want'[q] \in Sizes
      BY <1>0, <3>1 DEF Sending, Budget
    <3> QED BY <3>1, <3>3, <3>4, <3>5 DEF Budget
  <2>5. CASE SendPass(p)
    <3>1. CASE Refused(p) \/ Waits(p)
      <4>1. \A q \in Producers : pc'[q] \in S => pc[q] \in S
        BY <1>0, <2>5, <3>1 DEF SendPass, Refused, Waits, Step
      <4>2. accepted' = accepted /\ want' = want
        BY <2>5, <3>1 DEF SendPass, Refused, Waits
      <4> QED BY <1>1, <4>1, <4>2
    <3>2. CASE TakesToken(p) \/ Enqueues(p)
      <4>1. want' = want /\ accepted' = Append(accepted, NewFrame(p)) /\ pc[p] = "send"
        BY <2>5, <3>2 DEF SendPass, TakesToken, Enqueues
      <4>2. \A q \in Producers : pc'[q] \in S <=> q # p /\ pc[q] \in S
        BY <1>0, <2>5, <3>2 DEF SendPass, TakesToken, Enqueues, NotifyWriter, Step
      <4>3. Sending' = Sending \ {p} /\ p \in Sending /\ Sending \in SUBSET Producers
        BY <4>1, <4>2 DEF Sending
      <4>4. Len(accepted') = Len(accepted) + 1 /\ Len(accepted) \in Nat
        <5>1. accepted \in Seq(AnyFrame) /\ NewFrame(p) \in AnyFrame
          BY DEF Shapes, NewFrame, AnyFrame
        <5> QED BY <4>1, <5>1
      <4>5. Cardinality(Sending \ {p}) = Cardinality(Sending) - 1 /\ Cardinality(Sending) \in Nat
            /\ Cardinality(Producers) \in Nat /\ MaxFrames \in Nat
        BY <4>3, SendingCount, OutboxAssumptions DEF OutboxAssumptions
      <4>6. \A q \in Sending' : want'[q] \in Sizes
        BY <4>1, <4>3 DEF Budget
      <4>7. Cardinality(Sending') = Cardinality(Sending) - 1
        BY <4>3, <4>5
      <4> QED BY <4>4, <4>5, <4>6, <4>7 DEF Budget
    <3> QED BY <2>5, <3>1, <3>2 DEF SendPass
  <2> QED BY <1>6, <2>1, <2>2, <2>3, <2>4, <2>5
<1> QED BY <1>2, <1>3, <1>4, <1>5, <1>6, NextCases

\* Nobody is left to queue behind a writer that has left.
LEMMA ExitStep == Shapes /\ OneWriter /\ LeftEmpty /\ [Next]_vars => LeftEmpty'
<1> SUFFICES ASSUME Shapes, OneWriter, LeftEmpty, [Next]_vars, pc'[Writer] = "exited", dead' = "no"
             PROVE  queue' = <<>> /\ ~writing' /\ Handles' = {}
  BY DEF LeftEmpty
<1>0. /\ pc \in [Threads -> PCs] /\ Writer \in Threads /\ Producers \subseteq Threads
      /\ Writer \notin Producers
  BY OutboxAssumptions DEF Shapes, Threads, OutboxAssumptions
<1>1. CASE UNCHANGED vars
  BY <1>1 DEF vars, LeftEmpty, Handles
<1>2. CASE pc[Writer] = "look" /\ UNCHANGED <<want, dead, wire, accepted>>
           /\ (WriterPops \/ WriterExits \/ WriterParks)
  <2>1. WriterExits
    BY <1>0, <1>2 DEF WriterPops, WriterParks, NotifyProducers, Step
  <2>2. queue = <<>> /\ ~writing /\ Handles = {} /\ queue' = queue /\ writing' = writing
    BY <1>2, <2>1 DEF WriterExits
  <2>3. \A p \in Producers : pc'[p] = pc[p]
    BY <1>0, <2>1 DEF WriterExits, Step
  <2> QED BY <2>2, <2>3 DEF Handles
<1>3. CASE WriterDone
  BY <1>0, <1>3 DEF WriterDone, Step
<1>4. CASE WriterFails
  BY <1>4 DEF WriterFails, Kill
<1>5. CASE pc[Writer] = "exited" /\ dead = "no"
  <2>1. \A p \in Producers : pc[p] = "gone"
    BY <1>5 DEF LeftEmpty, Handles
  <2>2. \A t \in Threads : pc[t] # "writing"
    BY <1>0, <1>5, <2>1 DEF Threads
  <2>3. ASSUME NEW t \in Threads, WriteSome(t) PROVE FALSE
    BY <2>2, <2>3 DEF WriteSome
  <2>4. ASSUME NEW p \in Producers,
             \/ InlineDone(p) \/ InlineJam(p) \/ InlineFails(p)
             \/ CloneHandle(p) \/ DropHandle(p)
             \/ SendPass(p) \/ WaitExpires(p) \/ ExpiredPass(p)
             \/ \E size \in Sizes : SendFrame(p, size)
        PROVE FALSE
    BY <1>5, <2>1, <2>4 DEF InlineDone, InlineJam, InlineFails, CloneHandle, DropHandle,
                            SendPass, WaitExpires, ExpiredPass, SendFrame, LeftEmpty
  <2> QED BY <1>1, <1>2, <1>3, <1>4, <2>3, <2>4, NextCases
<1>6. ASSUME NEW t \in Threads, WriteSome(t) PROVE pc[Writer] = "exited" /\ dead = "no"
  BY <1>6 DEF WriteSome
<1>7. ASSUME NEW p \in Producers,
             \/ InlineDone(p) \/ InlineJam(p) \/ InlineFails(p)
             \/ CloneHandle(p) \/ DropHandle(p)
             \/ SendPass(p) \/ WaitExpires(p) \/ ExpiredPass(p)
             \/ \E size \in Sizes : SendFrame(p, size)
      PROVE pc[Writer] = "exited" /\ dead = "no"
  <2>1. dead = "no"
    BY <1>7 DEF InlineDone, InlineJam, InlineFails, CloneHandle, DropHandle,
                            SendPass, WaitExpires, ExpiredPass, SendFrame, Kill
  <2>2. CASE InlineDone(p) \/ InlineJam(p)
    BY <1>0, <2>2 DEF InlineDone, InlineJam, NotifyWriter, Step
  <2>3. CASE InlineFails(p)
    BY <1>0, <2>3 DEF InlineFails, Kill, NotifyWriter, NotifyProducers, Step
  <2>4. CASE CloneHandle(p) \/ DropHandle(p) \/ WaitExpires(p)
    BY <1>0, <2>4 DEF CloneHandle, DropHandle, WaitExpires, NotifyWriter, Step
  <2>5. CASE SendPass(p)
    BY <1>0, <2>5 DEF SendPass, Refused, TakesToken, Enqueues, Waits, NotifyWriter, Step
  <2>6. CASE ExpiredPass(p)
    BY <1>0, <2>6 DEF ExpiredPass, Kill, NotifyWriter, NotifyProducers, Step
  <2>7. ASSUME NEW size \in Sizes, SendFrame(p, size) PROVE pc[Writer] = "exited"
    BY <1>0, <2>7 DEF SendFrame, Step
  <2> QED BY <1>7, <2>1, <2>2, <2>3, <2>4, <2>5, <2>6, <2>7
<1> QED BY <1>1, <1>2, <1>3, <1>4, <1>5, <1>6, <1>7, NextCases

\* The frames done with are a prefix of those accepted, a proper one while
\* something is being written or queued.
LEMMA FrontFacts ==
  ASSUME Shapes, OneWriter, Registered, InOrder, dead = "no"
  PROVE  /\ FullyOut \in Nat /\ FullyOut <= Len(accepted) /\ Len(accepted) \in Nat
         /\ Len(queue) \in Nat /\ DOMAIN queue = 1..Len(queue)
         /\ DOMAIN accepted = 1..Len(accepted)
         /\ writing \/ queue # <<>> => FullyOut + 1 \in 1..Len(accepted)
         /\ writing => FullyOut = Len(accepted) - Len(queue) - 1
         /\ ~writing => FullyOut = Len(accepted) - Len(queue)
<1>1. /\ Len(accepted) \in Nat /\ Len(queue) \in Nat /\ DOMAIN queue = 1..Len(queue)
      /\ DOMAIN accepted = 1..Len(accepted)
      /\ queue # <<>> => 1 \in DOMAIN queue
  BY DEF Shapes
<1>2. /\ writing => FullyOut = Len(accepted) - Len(queue) - 1
      /\ ~writing => FullyOut = Len(accepted) - Len(queue)
  <2>1. CASE writing
    BY <1>1, <2>1 DEF FullyOut
  <2>2. CASE ~writing
    <3>1. FullyOut = Len(accepted) - Len(queue) - 0
      BY <2>2 DEF FullyOut
    <3>2. Len(accepted) - Len(queue) - 0 = Len(accepted) - Len(queue)
      BY <1>1
    <3> QED BY <2>2, <3>1, <3>2, Zenon
  <2> QED BY <2>1, <2>2
<1>3. CASE writing
  <2>1. PICK t \in Threads : pc[t] = "writing"
    BY <1>3 DEF OneWriter
  <2>2. item[t].frame.id = FullyOut + 1 /\ item[t].frame.id \in DOMAIN accepted
    BY <2>1 DEF InOrder, Registered, Known
  <2>3. FullyOut + 1 \in 1..Len(accepted)
    BY <1>1, <2>2
  <2> QED BY <1>1, <1>2, <1>3, <2>3
<1>4. CASE ~writing /\ queue # <<>>
  <2>1. queue[1].frame.id = Len(accepted) - Len(queue) + 1 /\ queue[1].frame.id \in DOMAIN accepted
    BY <1>1, <1>4 DEF InOrder, Registered, Known
  <2>2. FullyOut + 1 \in 1..Len(accepted)
    BY <1>1, <1>2, <1>4, <2>1
  <2>3. FullyOut \in Nat /\ FullyOut <= Len(accepted)
    <3>1. FullyOut = Len(accepted) - Len(queue)
      BY <1>2, <1>4
    <3> QED BY <1>1, <2>2, <3>1
  <2> QED BY <1>1, <1>2, <2>2, <2>3
<1>5. CASE ~writing /\ queue = <<>>
  <2>1. Len(queue) = 0
    BY <1>5
  <2> QED BY <1>1, <1>2, <1>5, <2>1
<1> QED BY <1>3, <1>4, <1>5

\* Every step keeps the order: a pop hands the front frame to the writer, a
\* finished write moves the front, a jam puts the rest back where it was, an
\* accept adds behind everything, a unit written lengthens the wire.
LEMMA OrderStep ==
  OutboxInv /\ Unfinished /\ InOrder /\ EndsInOrder /\ [Next]_vars => InOrder' /\ EndsInOrder'
<1> SUFFICES ASSUME OutboxInv, Unfinished, InOrder, EndsInOrder, [Next]_vars
             PROVE  InOrder' /\ EndsInOrder'
  OBVIOUS
<1>0. /\ Shapes /\ OneWriter /\ Registered /\ HalfOut
      /\ pc \in [Threads -> PCs] /\ Writer \in Threads /\ Producers \subseteq Threads
      /\ pc[Writer] \in {"look", "parked", "writing", "exited"}
      /\ \A p \in Producers : pc[p] \notin {"look", "parked", "exited"}
  BY TokenPlain DEF OutboxInv, Shapes, Threads
<1>a. ASSUME UNCHANGED <<wire, accepted>> PROVE EndsInOrder' /\ Ends' = Ends
  BY <1>a DEF EndsInOrder, Ends, Units
<1>b. ASSUME UNCHANGED <<wire, accepted, queue, item, writing>>, dead' = "no" => dead = "no",
             \A u \in Threads : pc'[u] = "writing" => pc[u] = "writing"
      PROVE InOrder' /\ EndsInOrder'
  <2>1. EndsInOrder' /\ Ends' = Ends /\ FullyOut' = FullyOut
    BY <1>a, <1>b DEF FullyOut
  <2>2. \A i, j : Out(wire', Ends', accepted', FullyOut', i, j) <=> Out(wire, Ends, accepted, FullyOut, i, j)
    BY <1>b, <2>1 DEF Out, UnitsOf, Units
  <2> QED BY <1>b, <2>1, <2>2 DEF InOrder, Written, Units
<1>c. ASSUME UNCHANGED <<wire, accepted>>, dead' # "no" PROVE InOrder' /\ EndsInOrder'
  BY <1>a, <1>c DEF InOrder
<1>1. CASE UNCHANGED vars
  BY <1>1, <1>b DEF vars
<1>2. CASE pc[Writer] = "look" /\ UNCHANGED <<want, dead, wire, accepted>>
           /\ (WriterPops \/ WriterExits \/ WriterParks)
  <2>1. CASE WriterPops
    <3>1. /\ dead = "no" /\ ~writing /\ queue # <<>> /\ queue' = Tail(queue)
          /\ item' = [item EXCEPT ![Writer] = Head(queue)] /\ writing' = TRUE
      BY <2>1 DEF WriterPops
    <3>2. \A u \in Threads : pc'[u] = "writing" <=> u = Writer
      <4>1. \A u \in Threads : pc[u] # "writing"
        BY <1>0, <3>1 DEF OneWriter
      <4> QED BY <1>0, <2>1, <4>1 DEF WriterPops, Step, NotifyProducers
    <3>3. /\ Len(queue') = Len(queue) - 1 /\ Head(queue) = queue[1]
          /\ \A i \in DOMAIN queue' : i \in Nat /\ i + 1 \in DOMAIN queue /\ queue'[i] = queue[i + 1]
          /\ 1 \in DOMAIN queue
      BY <1>0, <3>1 DEF Shapes
    <3>4. /\ FullyOut' = FullyOut /\ Len(accepted) \in Nat /\ Len(queue) \in Nat
          /\ FullyOut = Len(accepted) - Len(queue)
      <4>1. /\ Len(accepted) \in Nat /\ Len(queue) \in Nat /\ FullyOut = Len(accepted) - Len(queue)
        BY <1>0, <3>1, FrontFacts
      <4>2. FullyOut' = Len(accepted) - (Len(queue) - 1) - 1
        BY <1>2, <3>1, <3>3 DEF FullyOut
      <4> QED BY <4>1, <4>2
    <3>5. EndsInOrder' /\ Ends' = Ends
      BY <1>2, <1>a
    <3>6. \A i, j : Out(wire', Ends', accepted', FullyOut', i, j) <=> Out(wire, Ends, accepted, FullyOut, i, j)
      BY <1>2, <3>4, <3>5 DEF Out, UnitsOf, Units
    <3>7. item'[Writer] = queue[1] /\ ~Written(queue[1]) /\ Out(wire, Ends, accepted, FullyOut, queue[1].done, 0)
          /\ queue[1].frame.id = FullyOut + 1
      <4>1. item'[Writer] = queue[1]
        BY <1>0, <3>1, <3>3 DEF Shapes
      <4>2. queue[1].frame.id = Len(accepted) - Len(queue) + 1
        BY <3>1, <3>3 DEF InOrder
      <4>3. ~Written(queue[1])
        BY <3>3 DEF Unfinished
      <4>4. Out(wire, Ends, accepted, FullyOut, queue[1].done, 0)
        BY <3>1 DEF InOrder
      <4> QED BY <3>4, <4>1, <4>2, <4>3, <4>4
    <3>8. \A i \in DOMAIN queue' : queue'[i].frame.id = Len(accepted') - Len(queue') + i
      <4> SUFFICES ASSUME NEW i \in DOMAIN queue'
                   PROVE  queue'[i].frame.id = Len(accepted') - Len(queue') + i
        OBVIOUS
      <4>1. queue[i + 1].frame.id = Len(accepted) - Len(queue) + (i + 1)
        BY <3>1, <3>3 DEF InOrder
      <4> QED BY <1>2, <3>3, <3>4, <4>1
    <3>9. \A u \in Threads : pc'[u] = "writing" =>
             /\ item'[u].frame.id = FullyOut' + 1
             /\ Out(wire', Ends', accepted', FullyOut', item'[u].done, IF Written(item'[u]) THEN 1 ELSE 0)
      BY <3>2, <3>4, <3>6, <3>7
    <3> QED BY <3>1, <3>5, <3>8, <3>9 DEF InOrder, Written, Units
  <2>2. CASE WriterExits \/ WriterParks
    BY <1>0, <1>2, <1>b, <2>2 DEF WriterExits, WriterParks, Step
  <2> QED BY <1>2, <2>1, <2>2
<1>3. ASSUME NEW t \in Threads, pc[t] = "writing", Written(item[t]),
             \A u \in Threads : pc'[u] = "writing" <=> u # t /\ pc[u] = "writing",
             ~writing', UNCHANGED <<queue, dead, wire, accepted>>
      PROVE  InOrder' /\ EndsInOrder'
  <2>1. EndsInOrder' /\ Ends' = Ends
    BY <1>3, <1>a
  <2>2. \A u \in Threads : pc'[u] # "writing"
    BY <1>0, <1>3 DEF OneWriter
  <2>3. CASE dead # "no"
    BY <1>3, <2>1, <2>3 DEF InOrder
  <2>4. CASE dead = "no"
    <3>0. writing
      BY <1>0, <1>3 DEF OneWriter
    <3>1. /\ FullyOut \in Nat /\ Len(accepted) \in Nat /\ Len(queue) \in Nat
          /\ FullyOut + 1 \in 1..Len(accepted)
          /\ FullyOut = Len(accepted) - Len(queue) - 1 /\ DOMAIN queue = 1..Len(queue)
      BY <1>0, <2>4, <3>0, FrontFacts
    <3>2. FullyOut' = FullyOut + 1
      BY <1>3, <3>1 DEF FullyOut
    <3>3. item[t].frame.id = FullyOut + 1 /\ Out(wire, Ends, accepted, FullyOut, item[t].done, 1)
      BY <1>3, <2>4 DEF InOrder
    <3>4. item[t].done = Units(accepted[FullyOut + 1])
      BY <1>0, <1>3, <3>3 DEF Registered, Known, Written
    <3>5. UnitsOf(accepted, FullyOut + 1) = UnitsOf(accepted, FullyOut) + Units(accepted[FullyOut + 1])
      <4>1. FullyOut \in 0..Len(accepted) /\ FullyOut < Len(accepted) /\ accepted \in Seq(AnyFrame)
        BY <1>0, <3>1 DEF Shapes
      <4> QED BY <4>1, UnitsFacts
    <3>6. Len(wire) = UnitsOf(accepted, FullyOut + 1) /\ Len(Ends) = FullyOut + 1
      BY <3>3, <3>4, <3>5 DEF Out
    <3>7. queue # <<>> => queue[1].done = 0
      <4>1. queue # <<>> => 1 \in DOMAIN queue /\ queue[1] \in GoodItems
        BY <1>0 DEF Shapes
      <4>2. queue # <<>> => ~(queue[1].done > 0)
        BY <1>0, <2>4, <3>0, <4>1 DEF HalfOut
      <4> QED BY <4>1, <4>2 DEF GoodItems
    <3>8. Len(wire') \in Nat /\ Len(Ends') = FullyOut' + 0 /\ Len(wire') = UnitsOf(accepted', FullyOut') + 0
      <4>1. UnitsOf(accepted, FullyOut + 1) \in Int /\ UnitsOf(accepted', FullyOut') = UnitsOf(accepted, FullyOut + 1)
        <5>1. FullyOut + 1 \in 0..Len(accepted) /\ accepted \in Seq(AnyFrame)
          BY <1>0, <3>1 DEF Shapes
        <5> QED BY <1>3, <3>2, <5>1, UnitsFacts
      <4>2. Len(wire) \in Nat
        BY <1>0 DEF Shapes
      <4> QED BY <1>3, <2>1, <3>1, <3>2, <3>6, <4>1, <4>2
    <3>9. Out(wire', Ends', accepted', FullyOut', 0, 0)
      BY <3>8 DEF Out
    <3>10. Out(wire', Ends', accepted', FullyOut', IF queue' = <<>> THEN 0 ELSE queue'[1].done, 0)
      BY <1>3, <3>7, <3>9
    <3>11. \A i \in DOMAIN queue' : queue'[i].frame.id = Len(accepted') - Len(queue') + i
      BY <1>3, <2>4 DEF InOrder
    <3> QED BY <2>1, <2>2, <3>10, <3>11 DEF InOrder
  <2> QED BY <2>3, <2>4
<1>4. CASE WriterDone
  <2>1. \A u \in Threads : pc'[u] = "writing" <=> u # Writer /\ pc[u] = "writing"
    BY <1>0, <1>4 DEF WriterDone, Step
  <2> QED BY <1>0, <1>3, <1>4, <2>1 DEF WriterDone
<1>5. CASE WriterFails
  <2>1. dead' # "no" /\ UNCHANGED <<wire, accepted>>
    BY <1>5 DEF WriterFails, Kill
  <2> QED BY <1>c, <2>1
<1>6. ASSUME NEW t \in Threads, WriteSome(t) PROVE InOrder' /\ EndsInOrder'
  <2> DEFINE u == [id |-> item[t].frame.id, unit |-> item[t].done + 1]
  <2>1. /\ pc[t] = "writing" /\ dead = "no" /\ ~Written(item[t]) /\ wire' = Append(wire, u)
        /\ item' = [item EXCEPT ![t].done = @ + 1]
        /\ UNCHANGED <<pc, queue, dead, writing, accepted>>
    BY <1>6 DEF WriteSome
  <2>2. /\ item[t] \in GoodItems /\ wire \in Seq([id : Nat, unit : Nat]) /\ Len(wire) \in Nat
        /\ Known(item[t]) /\ writing
    BY <1>0, <2>1 DEF Shapes, Registered, OneWriter
  <2>3. u \in [id : Nat, unit : Nat] /\ u.id = item[t].frame.id /\ u.unit = item[t].done + 1
    BY <2>2 DEF GoodItems, AnyFrame
  <2>4. /\ item'[t].done = item[t].done + 1 /\ item'[t].frame = item[t].frame
        /\ item[t].done \in Nat
    <3>1. item'[t] = [item[t] EXCEPT !.done = @ + 1]
      BY <1>0, <2>1 DEF Shapes
    <3> QED BY <2>1, <2>2, <3>1, Advance DEF GoodItems
  <2> HIDE DEF u
  <2>5. /\ FullyOut \in Nat /\ Len(accepted) \in Nat /\ FullyOut' = FullyOut
        /\ FullyOut \in 0..Len(accepted) /\ UnitsOf(accepted, FullyOut) \in Int
    <3>1. FullyOut \in 0..Len(accepted) /\ Len(accepted) \in Nat /\ accepted \in Seq(AnyFrame)
      BY <1>0, <2>1, FrontFacts DEF Shapes
    <3>2. FullyOut' = FullyOut
      BY <2>1 DEF FullyOut
    <3>3. UnitsOf(accepted, FullyOut) \in Int
      BY <3>1, UnitsFacts
    <3> QED BY <3>1, <3>2, <3>3
  <2>6. u.id = FullyOut + 1 /\ Len(wire) = UnitsOf(accepted, FullyOut) + item[t].done /\ Len(Ends) = FullyOut
        /\ item[t].frame.id = FullyOut + 1
    BY <2>1, <2>3, <2>5 DEF InOrder, Out
  <2>7. /\ Written(item'[t]) <=> u.unit = Units(accepted[u.id])
        /\ Ends = EndsOf(wire, accepted) /\ Ends' = EndsOf(Append(wire, u), accepted)
        /\ Ends \in Seq([id : Nat, unit : Nat])
    <3>1. Written(item'[t]) <=> u.unit = Units(accepted[u.id])
      BY <2>2, <2>3, <2>4 DEF Known, Written
    <3>2. Ends = EndsOf(wire, accepted) /\ Ends' = EndsOf(Append(wire, u), accepted)
      BY <2>1 DEF Ends, EndsOf, Units
    <3> QED BY <2>2, <2>3, <3>1, <3>2, EndsWrite
  <2>8. Len(wire') = UnitsOf(accepted', FullyOut') + item'[t].done
    <3>1. Len(wire') = Len(wire) + 1
      BY <2>1, <2>2, <2>3
    <3>2. UnitsOf(accepted', FullyOut') = UnitsOf(accepted, FullyOut)
      BY <2>1, <2>5
    <3> QED BY <2>4, <2>5, <2>6, <3>1, <3>2
  <2>9. EndsInOrder' /\ Len(Ends') = FullyOut' + (IF Written(item'[t]) THEN 1 ELSE 0)
    <3>1. CASE Written(item'[t])
      <4>1. Ends' = Append(Ends, u)
        BY <2>2, <2>3, <2>7, <3>1, EndsWrite
      <4>2. Len(Ends') = FullyOut + 1 /\ Ends'[FullyOut + 1] = u /\ DOMAIN Ends' = 1..(FullyOut + 1)
            /\ \A i \in 1..FullyOut : i \in DOMAIN Ends /\ Ends'[i] = Ends[i]
        BY <2>3, <2>5, <2>6, <2>7, <4>1
      <4>3. \A i \in DOMAIN Ends' : Ends'[i].id = i
        <5>1. \A i \in 1..(FullyOut + 1) : i \in 1..FullyOut \/ i = FullyOut + 1
          BY <2>5
        <5> QED BY <2>6, <4>2, <5>1 DEF EndsInOrder
      <4> QED BY <2>5, <3>1, <4>2, <4>3 DEF EndsInOrder
    <3>2. CASE ~Written(item'[t])
      <4>1. Ends' = Ends
        BY <2>2, <2>3, <2>7, <3>2, EndsWrite
      <4> QED BY <2>5, <2>6, <3>2, <4>1 DEF EndsInOrder
    <3> QED BY <3>1, <3>2
  <2>10. Out(wire', Ends', accepted', FullyOut', item'[t].done, IF Written(item'[t]) THEN 1 ELSE 0)
    BY <2>8, <2>9 DEF Out
  <2>11. \A v \in Threads : pc'[v] = "writing" => v = t
    BY <1>0, <2>1 DEF OneWriter
  <2>12. \A i \in DOMAIN queue' : queue'[i].frame.id = Len(accepted') - Len(queue') + i
    BY <2>1 DEF InOrder
  <2>13. item'[t].frame.id = FullyOut' + 1 /\ writing'
    BY <2>1, <2>2, <2>4, <2>5, <2>6
  <2>14. \A v \in Threads : pc'[v] = "writing" =>
           item'[v].frame.id = FullyOut' + 1 /\ Out(wire', Ends', accepted', FullyOut', item'[v].done, IF Written(item'[v]) THEN 1 ELSE 0)
    BY <2>10, <2>11, <2>13
  <2> QED BY <2>9, <2>12, <2>13, <2>14 DEF InOrder, Written, Units
<1>7. ASSUME NEW p \in Producers,
             \/ InlineDone(p) \/ InlineJam(p) \/ InlineFails(p)
             \/ CloneHandle(p) \/ DropHandle(p)
             \/ SendPass(p) \/ WaitExpires(p) \/ ExpiredPass(p)
             \/ \E size \in Sizes : SendFrame(p, size)
      PROVE InOrder' /\ EndsInOrder'
  <2>1. CASE InlineDone(p)
    <3>1. pc' \in {Step(p, "idle"), NotifyWriter(Step(p, "idle"))}
      BY <2>1 DEF InlineDone
    <3>2. \A u \in Threads : pc'[u] = "writing" <=> u # p /\ pc[u] = "writing"
      BY <1>0, <3>1 DEF Step, NotifyWriter
    <3> QED BY <1>0, <1>3, <2>1, <3>2 DEF InlineDone
  <2>2. CASE InlineJam(p)
    <3> DEFINE rest == [item[p] EXCEPT !.raw = TRUE]
    <3>1. /\ pc[p] = "writing" /\ ~Written(item[p]) /\ ~writing'
          /\ queue' = <<rest>> \o queue /\ UNCHANGED <<dead, wire, accepted>>
          /\ pc' = NotifyWriter(Step(p, "idle"))
      BY <2>2 DEF InlineJam
    <3>2. \A u \in Threads : pc'[u] # "writing"
      BY <1>0, <3>1 DEF Step, NotifyWriter, OneWriter
    <3>3. rest \in GoodItems /\ rest.done = item[p].done /\ rest.frame = item[p].frame
      BY <1>0 DEF Shapes, GoodItems, AnyFrame
    <3> HIDE DEF rest
    <3>4. EndsInOrder' /\ Ends' = Ends
      BY <3>1, <1>a
    <3>5. CASE dead # "no"
      BY <3>1, <3>4, <3>5 DEF InOrder
    <3>6. CASE dead = "no"
      <4>1. /\ Len(accepted) \in Nat /\ Len(queue) \in Nat
            /\ FullyOut = Len(accepted) - Len(queue) - 1 /\ DOMAIN queue = 1..Len(queue)
        BY <1>0, <3>1, <3>6, FrontFacts DEF OneWriter
      <4>2. /\ Len(queue') = Len(queue) + 1 /\ queue'[1] = rest /\ queue' # <<>>
            /\ \A i \in DOMAIN queue' : i = 1 \/ (i - 1 \in DOMAIN queue /\ queue'[i] = queue[i - 1])
            /\ DOMAIN queue' = 1..(Len(queue) + 1)
        <5>1. queue \in Seq(GoodItems)
          BY <1>0 DEF Shapes
        <5>2. /\ queue' \in Seq(GoodItems) /\ Len(queue') = Len(queue) + 1 /\ queue'[1] = rest
              /\ \A i \in DOMAIN queue' : i = 1 \/ (i - 1 \in DOMAIN queue /\ queue'[i] = queue[i - 1])
          BY <3>1, <3>3, <5>1, ConsFacts
        <5> QED BY <4>1, <5>2
      <4>3. FullyOut' = FullyOut
        BY <3>1, <4>1, <4>2 DEF FullyOut
      <4>4. item[p].frame.id = FullyOut + 1 /\ Out(wire, Ends, accepted, FullyOut, item[p].done, 0)
        BY <1>0, <3>1, <3>6 DEF InOrder
      <4>5. \A i \in DOMAIN queue' : queue'[i].frame.id = Len(accepted') - Len(queue') + i
        <5> SUFFICES ASSUME NEW i \in DOMAIN queue'
                     PROVE  queue'[i].frame.id = Len(accepted') - Len(queue') + i
          OBVIOUS
        <5>1. CASE i = 1
          BY <3>1, <3>3, <4>1, <4>2, <4>4, <5>1
        <5>2. CASE i # 1
          <6>1. i - 1 \in DOMAIN queue /\ queue'[i] = queue[i - 1] /\ i \in Nat
            BY <4>2, <5>2
          <6>2. queue[i - 1].frame.id = Len(accepted) - Len(queue) + (i - 1)
            BY <3>6, <6>1 DEF InOrder
          <6> QED BY <3>1, <4>1, <4>2, <6>1, <6>2
        <5> QED BY <5>1, <5>2
      <4>6. Out(wire', Ends', accepted', FullyOut', queue'[1].done, 0)
        BY <3>1, <3>3, <3>4, <4>2, <4>3, <4>4 DEF Out, UnitsOf, Units
      <4> QED BY <3>1, <3>2, <3>4, <4>2, <4>5, <4>6 DEF InOrder
    <3> QED BY <3>5, <3>6
  <2>3. CASE InlineFails(p)
    <3>1. dead' # "no" /\ UNCHANGED <<wire, accepted>>
      BY <2>3 DEF InlineFails, Kill
    <3> QED BY <1>c, <3>1
  <2>4. CASE CloneHandle(p) \/ DropHandle(p) \/ WaitExpires(p)
    <3>1. \A u \in Threads : pc'[u] = "writing" => pc[u] = "writing"
      BY <1>0, <2>4 DEF CloneHandle, DropHandle, WaitExpires, NotifyWriter, Step
    <3> QED BY <1>b, <2>4, <3>1 DEF CloneHandle, DropHandle, WaitExpires
  <2>5. CASE ExpiredPass(p)
    <3>1. \A u \in Threads : pc'[u] = "writing" => pc[u] = "writing"
      BY <1>0, <2>5 DEF ExpiredPass, Kill, Step, NotifyWriter, NotifyProducers
    <3>2. dead' = "no" => dead = "no"
      BY <2>5 DEF ExpiredPass, Kill
    <3> QED BY <1>b, <2>5, <3>1, <3>2 DEF ExpiredPass
  <2>6. ASSUME NEW size \in Sizes, SendFrame(p, size) PROVE InOrder' /\ EndsInOrder'
    <3>1. \A u \in Threads : pc'[u] = "writing" => pc[u] = "writing"
      BY <1>0, <2>6 DEF SendFrame, Step
    <3> QED BY <1>b, <2>6, <3>1 DEF SendFrame
  <2>7. CASE SendPass(p)
    <3>1. CASE Refused(p) \/ Waits(p)
      <4>1. \A u \in Threads : pc'[u] = "writing" => pc[u] = "writing"
        BY <1>0, <3>1 DEF Refused, Waits, Step
      <4> QED BY <1>b, <2>7, <3>1, <4>1 DEF SendPass, Refused, Waits
    <3>2. CASE dead = "no" /\ (TakesToken(p) \/ Enqueues(p))
      <4> DEFINE f == NewFrame(p)
      <4>1. f \in AnyFrame /\ f.id = Len(accepted) + 1
        BY <1>0 DEF NewFrame, AnyFrame, Shapes
      <4>2. accepted' = Append(accepted, f) /\ UNCHANGED <<dead, wire>>
        BY <2>7, <3>2 DEF SendPass, TakesToken, Enqueues
      <4>3. Whole(f).done = 0 /\ Whole(f).frame = f /\ ~Written(Whole(f)) /\ Whole(f) \in GoodItems
        BY <4>1, GoodItem DEF Whole, Written, Units, AnyFrame
      <4> HIDE DEF f
      <4>4. accepted \in Seq(AnyFrame) /\ Len(accepted') = Len(accepted) + 1 /\ Len(accepted) \in Nat
            /\ FullyOut \in 0..Len(accepted) /\ Len(queue) \in Nat /\ DOMAIN queue = 1..Len(queue)
        <5>1. accepted \in Seq(AnyFrame)
          BY <1>0 DEF Shapes
        <5>2. FullyOut \in Nat /\ FullyOut <= Len(accepted) /\ Len(accepted) \in Nat
              /\ Len(queue) \in Nat /\ DOMAIN queue = 1..Len(queue)
          BY <1>0, <3>2, FrontFacts
        <5>3. Len(accepted') = Len(accepted) + 1
          BY <4>1, <4>2, <5>1
        <5> QED BY <5>1, <5>2, <5>3
      <4>5. UnitsOf(accepted', FullyOut) = UnitsOf(accepted, FullyOut)
        BY <4>1, <4>2, <4>4, UnitsFacts
      <4>6. Ends' = Ends
        <5>1. Ends' = EndsOf(wire, Append(accepted, f)) /\ Ends = EndsOf(wire, accepted)
          BY <4>2 DEF Ends, EndsOf, Units
        <5>2. wire \in Seq([id : Nat, unit : Nat]) /\ \A i \in DOMAIN wire : wire[i].id \in DOMAIN accepted
          BY <1>0 DEF Shapes, Registered
        <5> QED BY <4>1, <4>4, <5>1, <5>2, EndsGrow
      <4>7. EndsInOrder'
        BY <4>6 DEF EndsInOrder
      <4>8. CASE TakesToken(p)
        <5>1. /\ queue = <<>> /\ ~writing /\ writing' = TRUE /\ queue' = queue
              /\ item' = [item EXCEPT ![p] = Whole(f)] /\ pc' = Step(p, "writing")
          BY <4>8 DEF TakesToken, f
        <5>2. \A u \in Threads : pc'[u] = "writing" <=> u = p
          BY <1>0, <5>1 DEF Step, OneWriter
        <5>3. item'[p] = Whole(f)
          BY <1>0, <5>1 DEF Shapes
        <5>4. FullyOut = Len(accepted) /\ FullyOut' = FullyOut
          BY <4>4, <5>1 DEF FullyOut
        <5>5. Out(wire, Ends, accepted, FullyOut, 0, 0)
          BY <3>2, <5>1 DEF InOrder
        <5>6. Out(wire', Ends', accepted', FullyOut', 0, 0)
          BY <4>2, <4>5, <4>6, <5>4, <5>5 DEF Out
        <5>7. \A u \in Threads : pc'[u] = "writing" =>
                item'[u].frame.id = FullyOut' + 1 /\ Out(wire', Ends', accepted', FullyOut', item'[u].done, IF Written(item'[u]) THEN 1 ELSE 0)
          BY <4>1, <4>3, <5>2, <5>3, <5>4, <5>6
        <5>8. DOMAIN queue' = {}
          BY <5>1
        <5> QED BY <4>7, <5>1, <5>7, <5>8 DEF InOrder, Written, Units
      <4>9. CASE Enqueues(p)
        <5>1. /\ queue # <<>> \/ writing
              /\ queue' = Append(queue, Whole(f)) /\ pc' = NotifyWriter(Step(p, "idle"))
              /\ item' = item /\ writing' = writing
          BY <4>9 DEF Enqueues, f
        <5>2. \A u \in Threads : pc'[u] = "writing" => pc[u] = "writing"
          BY <1>0, <5>1 DEF Step, NotifyWriter
        <5>3. /\ Len(queue') = Len(queue) + 1 /\ queue'[Len(queue) + 1] = Whole(f)
              /\ \A i \in DOMAIN queue : queue'[i] = queue[i]
              /\ DOMAIN queue' = 1..(Len(queue) + 1) /\ queue' # <<>>
              /\ queue # <<>> => 1 \in DOMAIN queue
          <6>1. queue \in Seq(GoodItems)
            BY <1>0 DEF Shapes
          <6> QED BY <4>3, <4>4, <5>1, <6>1
        <5>4. FullyOut' = FullyOut
          BY <4>4, <5>1, <5>3 DEF FullyOut
        <5>5. \A i, j : Out(wire', Ends', accepted', FullyOut', i, j) <=> Out(wire, Ends, accepted, FullyOut, i, j)
          BY <4>2, <4>5, <4>6, <5>4 DEF Out
        <5>6. \A i \in DOMAIN queue' : queue'[i].frame.id = Len(accepted') - Len(queue') + i
          <6> SUFFICES ASSUME NEW i \in DOMAIN queue'
                       PROVE  queue'[i].frame.id = Len(accepted') - Len(queue') + i
            OBVIOUS
          <6>1. CASE i = Len(queue) + 1
            BY <4>1, <4>3, <4>4, <5>3, <6>1
          <6>2. CASE i # Len(queue) + 1
            <7>1. i \in DOMAIN queue /\ i \in Nat
              BY <4>4, <5>3, <6>2
            <7>2. queue[i].frame.id = Len(accepted) - Len(queue) + i
              BY <3>2, <7>1 DEF InOrder
            <7> QED BY <4>4, <5>3, <7>1, <7>2
          <6> QED BY <6>1, <6>2
        <5>7. \A u \in Threads : pc'[u] = "writing" =>
                item'[u].frame.id = FullyOut' + 1 /\ Out(wire', Ends', accepted', FullyOut', item'[u].done, IF Written(item'[u]) THEN 1 ELSE 0)
          BY <3>2, <5>1, <5>2, <5>4, <5>5 DEF InOrder
        <5>8. ~writing' => Out(wire', Ends', accepted', FullyOut', IF queue' = <<>> THEN 0 ELSE queue'[1].done, 0)
          BY <3>2, <5>1, <5>3, <5>5 DEF InOrder
        <5> QED BY <4>7, <5>6, <5>7, <5>8 DEF InOrder, Written, Units
      <4> QED BY <3>2, <4>8, <4>9
    <3> QED BY <2>7, <3>1, <3>2 DEF SendPass
  <2> QED BY <1>7, <2>1, <2>2, <2>3, <2>4, <2>5, <2>6, <2>7
<1> QED BY <1>1, <1>2, <1>4, <1>5, <1>6, <1>7, NextCases

\* Nothing accepted, nothing out.
LEMMA LedgerInit == Init => Ledger
<1> SUFFICES ASSUME Init PROVE Ledger
  OBVIOUS
<1>0. /\ queue = <<>> /\ bytes = 0 /\ dead = "no" /\ ~writing /\ wire = <<>> /\ accepted = <<>>
  BY DEF Init
<1>1. \A t \in Threads : pc[t] \in {"look", "idle", "gone"}
  BY DEF Init
<1>2. BytesExact
  <2>1. queue \in Seq(GoodItems) /\ Len(queue) = 0
    BY <1>0
  <2>2. Lens(queue) \in Seq(Int) /\ Len(Lens(queue)) = 0
    BY <2>1, LensType
  <2>3. Lens(queue) = <<>>
    BY <2>2, EmptySeq
  <2>4. Total(Lens(queue)) = 0
    BY <2>2, <2>3, TotalFacts
  <2> QED BY <1>0, <2>4 DEF BytesExact, Lens
<1>3. Budget
  <2>1. Sending = {}
    BY <1>1 DEF Sending, Threads
  <2>2. Cardinality(Sending) = 0 /\ Len(accepted) = 0
    BY <1>0, <2>1, FS_EmptySet
  <2>3. Cardinality(Producers) \in Nat /\ MaxFrames \in Nat
    BY OutboxAssumptions, FS_CardinalityType DEF OutboxAssumptions
  <2> QED BY <2>1, <2>2, <2>3 DEF Budget
<1>4. Unfinished
  BY <1>0 DEF Unfinished
<1>5. Len(Ends) = 0 /\ Ends \in Seq([id : Nat, unit : Nat])
  <2> DEFINE U == [id : Nat, unit : Nat]
             T == {u \in U : u.unit = Units(accepted[u.id])}
  <2>1. wire \in Seq(U) /\ Len(wire) = 0
    BY <1>0
  <2> HIDE DEF U, T
  <2>2. Sift(wire, T) \in Seq(U) /\ Len(Sift(wire, T)) <= Len(wire)
    BY <2>1, SiftFacts
  <2>3. Ends \in Seq(U) /\ Len(Ends) <= 0
    BY <2>1, <2>2 DEF Ends, T, U
  <2>4. Len(Ends) \in Nat
    BY <2>3
  <2>5. Len(Ends) = 0
    BY <2>3, <2>4
  <2> QED BY <2>3, <2>5 DEF U
<1>6. EndsInOrder
  BY <1>5 DEF EndsInOrder
<1>7. Out(wire, Ends, accepted, FullyOut, 0, 0)
  <2>1. FullyOut = 0
    <3>1. Len(accepted) = 0 /\ Len(queue) = 0
      BY <1>0
    <3>2. FullyOut = 0 - 0 - 0
      BY <1>0, <3>1 DEF FullyOut
    <3> QED BY <3>2
  <2>2. UnitsOf(accepted, 0) = 0
    <3>1. accepted \in Seq(AnyFrame) /\ 0 \in 0..Len(accepted)
      BY <1>0
    <3> QED BY <3>1, UnitsFacts
  <2>3. Len(wire) = 0
    BY <1>0
  <2> QED BY <1>5, <2>1, <2>2, <2>3 DEF Out
<1>8. InOrder
  <2>1. \A t \in Threads : pc[t] # "writing"
    BY <1>1
  <2>2. DOMAIN queue = {}
    BY <1>0
  <2> QED BY <1>0, <1>7, <2>1, <2>2 DEF InOrder
<1>9. LeftEmpty
  <2>1. Writer \in Threads
    BY DEF Threads
  <2> QED BY <1>1, <2>1 DEF LeftEmpty
<1> QED BY <1>2, <1>3, <1>4, <1>6, <1>8, <1>9 DEF Ledger

\* Every step keeps the ledger.
LEMMA LedgerStep == OutboxInv /\ Ledger /\ [Next]_vars => Ledger'
BY BytesStep, BudgetStep, UnfinishedStep, OrderStep, ExitStep, TokenPlain DEF OutboxInv, Ledger

\* With the queue empty and the token free, the wire holds all that was
\* accepted.
LEMMA DrainedFact == OutboxInv /\ Ledger => DrainedAtExit
<1> SUFFICES ASSUME OutboxInv, Ledger, pc[Writer] = "exited", dead = "no"
             PROVE  Len(wire) = Total([i \in DOMAIN accepted |-> Units(accepted[i])])
  BY DEF DrainedAtExit
<1>1. Shapes /\ OneWriter /\ Registered /\ InOrder /\ queue = <<>> /\ ~writing
  BY TokenPlain DEF OutboxInv, Ledger, LeftEmpty
<1>2. Out(wire, Ends, accepted, FullyOut, 0, 0)
  BY <1>1 DEF InOrder
<1>3. FullyOut = Len(accepted)
  <2>1. FullyOut = Len(accepted) - Len(queue) /\ Len(accepted) \in Nat
    BY <1>1, FrontFacts
  <2>2. Len(queue) = 0
    BY <1>1
  <2> QED BY <2>1, <2>2
<1>4. Len(wire) = UnitsOf(accepted, Len(accepted)) + 0
  BY <1>2, <1>3 DEF Out
<1>5. UnitsOf(accepted, Len(accepted)) \in Int
  <2>1. accepted \in Seq(AnyFrame) /\ Len(accepted) \in 0..Len(accepted)
    BY <1>1 DEF Shapes
  <2> QED BY <2>1, UnitsFacts
<1>6. DOMAIN accepted = 1..Len(accepted)
  BY <1>1 DEF Shapes
<1>7. Len(wire) = UnitsOf(accepted, Len(accepted))
  BY <1>4, <1>5
<1> QED BY <1>6, <1>7 DEF UnitsOf

\* What the peer has is the first Len(Ends) frames accepted.
LEMMA GotFacts ==
  ASSUME Shapes, EndsInOrder
  PROVE  /\ Ends \in Seq([id : Nat, unit : Nat]) /\ Len(Ends) \in Nat
         /\ Got = [i \in 1..Len(Ends) |-> accepted[i]]
<1>1. wire \in Seq([id : Nat, unit : Nat]) /\ Ends = EndsOf(wire, accepted)
  BY DEF Shapes, Ends, EndsOf
<1>2. [id |-> 0, unit |-> 0] \in [id : Nat, unit : Nat]
  OBVIOUS
<1>3. Ends \in Seq([id : Nat, unit : Nat])
  BY <1>1, <1>2, EndsWrite
<1>4. DOMAIN Ends = 1..Len(Ends) /\ Len(Ends) \in Nat
  BY <1>3
<1> QED BY <1>3, <1>4 DEF Got, EndsInOrder

\* No more frames end than were accepted.
LEMMA EndsBound ==
  ASSUME Shapes, OneWriter, Registered, InOrder, EndsInOrder, dead = "no"
  PROVE  Len(Ends) <= Len(accepted)
<1>1. /\ FullyOut \in Nat /\ FullyOut <= Len(accepted) /\ Len(accepted) \in Nat
      /\ writing => FullyOut + 1 \in 1..Len(accepted)
  BY FrontFacts
<1>2. CASE writing
  <2>1. PICK t \in Threads : pc[t] = "writing"
    BY <1>2 DEF OneWriter
  <2>2. Len(Ends) = FullyOut + (IF Written(item[t]) THEN 1 ELSE 0)
    BY <2>1 DEF InOrder, Out
  <2>3. FullyOut + 1 \in 1..Len(accepted)
    BY <1>1, <1>2
  <2>4. (IF Written(item[t]) THEN 1 ELSE 0) \in {0, 1}
    OBVIOUS
  <2> QED BY <1>1, <2>2, <2>3, <2>4
<1>3. CASE ~writing
  <2>1. Len(Ends) = FullyOut + 0
    BY <1>3 DEF InOrder, Out
  <2> QED BY <1>1, <2>1
<1> QED BY <1>2, <1>3

\* The initial states are initial states of the channel.
LEMMA ChannelInit == Init => Channel!Init
<1> SUFFICES ASSUME Init PROVE Channel!Init
  OBVIOUS
<1>1. Shapes /\ OneWriter /\ Registered /\ InOrder /\ EndsInOrder /\ dead = "no" /\ accepted = <<>>
  BY OutboxInit, LedgerInit, TokenPlain DEF OutboxInv, Ledger, Init
<1>2. Len(Ends) \in Nat /\ Len(Ends) <= 0 /\ Got = [i \in 1..Len(Ends) |-> accepted[i]]
  BY <1>1, GotFacts, EndsBound
<1>3. Len(Ends) = 0
  BY <1>2
<1>4. Got = <<>>
  BY <1>2, <1>3
<1> QED BY <1>1, <1>4 DEF Channel!Init

\* Every step is a step of the channel or a stutter: accepting is Accept,
\* writing the last unit of a frame is Deliver, the first kill is Close.
LEMMA ChannelStep ==
  OutboxInv /\ Ledger /\ [Next]_vars => [Channel!Next]_(Channel!cvars)
<1> SUFFICES ASSUME OutboxInv, Ledger, [Next]_vars PROVE [Channel!Next]_(Channel!cvars)
  OBVIOUS
<1>0. /\ Shapes /\ OneWriter /\ Registered /\ InOrder /\ EndsInOrder /\ Budget
      /\ Shapes' /\ EndsInOrder'
  BY LedgerStep, ShapesStep, TokenPlain DEF OutboxInv, Ledger
<1>1. /\ Len(Ends) \in Nat /\ Got = [i \in 1..Len(Ends) |-> accepted[i]]
      /\ Len(Ends') \in Nat /\ Got' = [i \in 1..Len(Ends') |-> accepted'[i]]
      /\ wire \in Seq([id : Nat, unit : Nat]) /\ accepted \in Seq(AnyFrame) /\ Len(accepted) \in Nat
  <2>1. Len(Ends) \in Nat /\ Got = [i \in 1..Len(Ends) |-> accepted[i]]
    BY <1>0, GotFacts
  <2>2. (Shapes /\ EndsInOrder => Len(Ends) \in Nat /\ Got = [i \in 1..Len(Ends) |-> accepted[i]])'
    BY GotFacts, PTL
  <2>3. Len(Ends') \in Nat /\ Got' = [i \in 1..Len(Ends') |-> accepted'[i]]
    BY <1>0, <2>2
  <2>4. wire \in Seq([id : Nat, unit : Nat]) /\ accepted \in Seq(AnyFrame) /\ Len(accepted) \in Nat
    BY <1>0 DEF Shapes
  <2> QED BY <2>1, <2>3, <2>4
<1>a. ASSUME UNCHANGED <<wire, accepted>> PROVE Got' = Got
  BY <1>a DEF Got, Ends, Units
<1>b. ASSUME UNCHANGED <<wire, accepted, dead>> PROVE [Channel!Next]_(Channel!cvars)
  BY <1>a, <1>b DEF Channel!cvars
<1>c. ASSUME UNCHANGED <<wire, accepted>>, dead' # "no" PROVE [Channel!Next]_(Channel!cvars)
  <2>1. Got' = Got
    BY <1>a, <1>c
  <2>2. CASE dead = "no"
    <3>1. Channel!Close
      BY <1>c, <2>1, <2>2 DEF Channel!Close
    <3> QED BY <3>1 DEF Channel!Next
  <2>3. CASE dead # "no"
    BY <1>c, <2>1, <2>3 DEF Channel!cvars
  <2> QED BY <2>2, <2>3
<1>2. CASE UNCHANGED vars
  BY <1>2, <1>b DEF vars
<1>3. CASE pc[Writer] = "look" /\ UNCHANGED <<want, dead, wire, accepted>>
           /\ (WriterPops \/ WriterExits \/ WriterParks)
  BY <1>3, <1>b
<1>4. CASE WriterDone
  BY <1>4, <1>b DEF WriterDone
<1>5. CASE WriterFails
  <2>1. dead' # "no" /\ UNCHANGED <<wire, accepted>>
    BY <1>5 DEF WriterFails, Kill
  <2> QED BY <1>c, <2>1
<1>6. ASSUME NEW t \in Threads, WriteSome(t) PROVE [Channel!Next]_(Channel!cvars)
  <2> DEFINE u == [id |-> item[t].frame.id, unit |-> item[t].done + 1]
  <2>1. /\ pc[t] = "writing" /\ dead = "no" /\ ~Written(item[t]) /\ wire' = Append(wire, u)
        /\ UNCHANGED <<dead, accepted>>
    BY <1>6 DEF WriteSome
  <2>2. u \in [id : Nat, unit : Nat]
    <3>1. item[t] \in GoodItems
      BY <1>0 DEF Shapes
    <3> QED BY <3>1, NextUnit
  <2> HIDE DEF u
  <2>3. Ends = EndsOf(wire, accepted) /\ Ends' = EndsOf(Append(wire, u), accepted)
    BY <2>1 DEF Ends, EndsOf, Units
  <2>4. Ends' = Ends \/ (Ends' = Append(Ends, u) /\ Ends \in Seq([id : Nat, unit : Nat]))
    BY <1>1, <2>2, <2>3, EndsWrite
  <2>5. CASE Ends' = Ends
    <3>1. Got' = Got
      BY <1>1, <2>1, <2>5
    <3> QED BY <2>1, <3>1 DEF Channel!cvars
  <2>6. CASE Ends' = Append(Ends, u) /\ Ends \in Seq([id : Nat, unit : Nat])
    <3>1. Len(Ends') = Len(Ends) + 1
      BY <2>2, <2>6
    <3>2. Len(Ends) = FullyOut + 0 /\ FullyOut \in Nat /\ FullyOut + 1 \in 1..Len(accepted)
      <4>1. writing
        BY <1>0, <2>1 DEF OneWriter
      <4>2. Len(Ends) = FullyOut + 0
        BY <1>0, <2>1 DEF InOrder, Out
      <4> QED BY <1>0, <2>1, <4>1, <4>2, FrontFacts
    <3> DEFINE n == Len(Ends)
    <3>3. n \in Nat /\ n + 1 \in 1..Len(accepted) /\ n < Len(accepted)
      BY <1>1, <3>2
    <3>4. Got = [i \in 1..n |-> accepted[i]] /\ Got' = [i \in 1..(n + 1) |-> accepted[i]]
      BY <1>1, <2>1, <3>1
    <3> HIDE DEF n
    <3>5. /\ Got \in Seq(AnyFrame) /\ Len(Got) = n /\ Got' \in Seq(AnyFrame) /\ Len(Got') = n + 1
          /\ accepted[n + 1] \in AnyFrame
      <4>1. \A i \in 1..(n + 1) : accepted[i] \in AnyFrame
        BY <1>1, <3>3
      <4> QED BY <3>3, <3>4, <4>1
    <3> DEFINE g == Append(Got, accepted[n + 1])
    <3>6. g \in Seq(AnyFrame) /\ Len(g) = n + 1 /\ g[n + 1] = accepted[n + 1]
          /\ \A i \in 1..n : g[i] = Got[i]
      BY <3>5, AppendProperties
    <3> HIDE DEF g
    <3>7. \A i \in 1..(n + 1) : Got'[i] = g[i]
      <4>1. \A i \in 1..(n + 1) : i \in 1..n \/ i = n + 1
        BY <3>3
      <4>2. \A i \in 1..(n + 1) : Got'[i] = accepted[i]
        BY <3>4
      <4>3. \A i \in 1..n : Got[i] = accepted[i]
        BY <3>4
      <4> QED BY <3>6, <4>1, <4>2, <4>3
    <3>8. Got' = g
      BY <3>5, <3>6, <3>7, SeqEqual
    <3>9. Channel!Deliver
      BY <2>1, <3>3, <3>5, <3>8 DEF Channel!Deliver, g
    <3> QED BY <3>9 DEF Channel!Next
  <2> QED BY <2>4, <2>5, <2>6
<1>7. ASSUME NEW p \in Producers,
             \/ InlineDone(p) \/ InlineJam(p) \/ InlineFails(p)
             \/ CloneHandle(p) \/ DropHandle(p)
             \/ SendPass(p) \/ WaitExpires(p) \/ ExpiredPass(p)
             \/ \E size \in Sizes : SendFrame(p, size)
      PROVE [Channel!Next]_(Channel!cvars)
  <2>1. CASE InlineDone(p) \/ InlineJam(p) \/ CloneHandle(p) \/ DropHandle(p) \/ WaitExpires(p)
             \/ \E size \in Sizes : SendFrame(p, size)
    <3>1. UNCHANGED <<wire, accepted, dead>>
      BY <2>1 DEF InlineDone, InlineJam, CloneHandle, DropHandle, WaitExpires, SendFrame
    <3> QED BY <1>b, <3>1
  <2>2. CASE InlineFails(p)
    <3>1. dead' # "no" /\ UNCHANGED <<wire, accepted>>
      BY <2>2 DEF InlineFails, Kill
    <3> QED BY <1>c, <3>1
  <2>3. CASE ExpiredPass(p)
    <3>1. UNCHANGED <<wire, accepted>> /\ (dead' # "no" \/ dead' = dead)
      BY <2>3 DEF ExpiredPass, Kill
    <3> QED BY <1>b, <1>c, <3>1
  <2>4. CASE SendPass(p)
    <3>1. CASE Refused(p) \/ Waits(p)
      BY <1>b, <2>4, <3>1 DEF SendPass, Refused, Waits
    <3>2. CASE dead = "no" /\ (TakesToken(p) \/ Enqueues(p))
      <4> DEFINE f == NewFrame(p)
      <4>1. accepted' = Append(accepted, f) /\ UNCHANGED <<dead, wire>> /\ pc[p] = "send"
        BY <2>4, <3>2 DEF SendPass, TakesToken, Enqueues
      <4>2. f \in Frames
        <5>1. p \in Sending /\ Sending \in SUBSET Producers
          BY <4>1 DEF Sending
        <5>2. Cardinality(Sending) \in Nat /\ Cardinality(Sending \ {p}) = Cardinality(Sending) - 1
              /\ Cardinality(Sending \ {p}) \in Nat /\ Cardinality(Producers) \in Nat
              /\ MaxFrames \in Nat
          <6>1. Sending \ {p} \in SUBSET Producers
            BY <5>1
          <6> QED BY <5>1, <6>1, SendingCount, OutboxAssumptions DEF OutboxAssumptions
        <5>3. Len(accepted) + Cardinality(Sending) <= MaxFrames + Cardinality(Producers) /\ want[p] \in Sizes
          BY <1>0, <5>1 DEF Budget
        <5>4. Len(accepted) + 1 \in 1..(MaxFrames + Cardinality(Producers))
          BY <1>1, <5>2, <5>3
        <5> QED BY <5>3, <5>4 DEF Frames, NewFrame
      <4>3. f \in AnyFrame
        BY <1>0 DEF NewFrame, AnyFrame, Shapes
      <4> HIDE DEF f
      <4>4. Ends' = Ends
        <5>1. Ends' = EndsOf(wire, Append(accepted, f)) /\ Ends = EndsOf(wire, accepted)
          BY <4>1 DEF Ends, EndsOf, Units
        <5>2. \A i \in DOMAIN wire : wire[i].id \in DOMAIN accepted
          BY <1>0 DEF Registered
        <5> QED BY <1>1, <4>3, <5>1, <5>2, EndsGrow
      <4>5. Len(Ends) <= Len(accepted)
        BY <1>0, <3>2, EndsBound
      <4>6. \A i \in 1..Len(Ends) : accepted'[i] = accepted[i]
        BY <1>1, <4>1, <4>3, <4>5
      <4>7. Got' = Got
        BY <1>1, <4>4, <4>6
      <4>8. Channel!Accept(f)
        BY <3>2, <4>1, <4>7 DEF Channel!Accept
      <4> QED BY <4>2, <4>8 DEF Channel!Next
    <3> QED BY <2>4, <3>1, <3>2 DEF SendPass
  <2> QED BY <1>7, <2>1, <2>2, <2>3, <2>4
<1> QED BY <1>2, <1>3, <1>4, <1>5, <1>6, <1>7, NextCases
-----------------------------------------------------------------------------
\* The inductive invariant holds in every reachable state.
THEOREM OutboxInvariant == Spec => []OutboxInv
<1>1. OutboxInv /\ [Next]_vars => OutboxInv'
  BY ShapesStep, TokenStep, TokenPlain, SleepStep, WaitStep, RegisteredStep,
     HalfOutStep, WholeStep DEF OutboxInv
<1> QED BY OutboxInit, <1>1, PTL DEF Spec

\* The bytes of two threads never share the socket: the token of
\* send_frame's inline path and of writer_loop.
THEOREM TokenCorrect == Spec => []TokenExclusive
<1>1. OutboxInv => TokenExclusive
  BY DEF OutboxInv
<1> QED BY OutboxInvariant, <1>1, PTL

\* writer_loop never sleeps on not_empty over work it could do.
THEOREM WriterWoken == Spec => []WriterNotAsleep
<1>1. OutboxInv => WriterNotAsleep
  BY DEF OutboxInv
<1> QED BY OutboxInvariant, <1>1, PTL

\* send_frame never waits on not_full while there is room for its frame.
THEOREM ProducersWoken == Spec => []WaitersBlocked
<1>1. OutboxInv => WaitersBlocked
  BY DEF OutboxInv
<1> QED BY OutboxInvariant, <1>1, PTL

\* The peer never sees a frame torn by another, however often an inline write
\* is cut short and finished by the writer thread.
THEOREM FramesWhole == Spec => []WholeFrames
<1>1. OutboxInv => WholeFrames
  BY DEF OutboxInv
<1> QED BY OutboxInvariant, <1>1, PTL

\* The ledger of bytes and frames holds in every reachable state.
THEOREM LedgerInvariant == Spec => []Ledger
<1>1. OutboxInv /\ Ledger /\ [Next]_vars => Ledger'
  BY LedgerStep
<1> QED BY OutboxInvariant, LedgerInit, <1>1, PTL DEF Spec

\* One thread writes at a time, OutboxState.bytes is exactly what the queue
\* holds, and a writer that leaves a living connection leaves no accepted
\* frame unwritten: send_frame and writer_loop, for any producers, frame
\* sizes and budget.
THEOREM OutboxIsExact == Spec => []OutboxExact
<1>1. OutboxInv /\ Ledger => OutboxExact
  BY DrainedFact DEF OutboxInv, Ledger, OutboxExact
<1> QED BY OutboxInvariant, LedgerInvariant, <1>1, PTL

\* The outbox implements the FIFO channel of whole frames: what send_frame
\* accepts reaches the socket complete and in the order of acceptance, over
\* inline writes, jammed remainders and the writer thread alike.
THEOREM OutboxIsAChannel == Spec => ChannelSpec
<1>1. OutboxInv /\ Ledger /\ [Next]_vars => [Channel!Next]_(Channel!cvars)
  BY ChannelStep
<1> QED BY OutboxInvariant, LedgerInvariant, ChannelInit, <1>1, PTL DEF Spec, ChannelSpec, Channel!Spec
=============================================================================
