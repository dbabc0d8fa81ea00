--------------------------- MODULE StreamsProofs ---------------------------
(***************************************************************************)
(* Machine-checked proof about Streams, for any window, chunk limit, body  *)
(* length, idle limit and number of rounds: the credit of both directions  *)
(* is conserved and never exceeds the window, no byte of a body is lost,   *)
(* doubled or reordered on its way through the guest, a body that ends     *)
(* cleanly was delivered whole, and its outcome is told once.              *)
(*                                                                         *)
(* The invariant StreamInv says where every unit of credit and every byte  *)
(* is.  Inflow and Outflow add up the credit a direction has given out:    *)
(* what the sender still holds, what is in flight as bytes, what the       *)
(* receiver buffers, what is on its way back.  Inside puts the bytes of    *)
(* the request body in a line, from what the consumer holds back to what   *)
(* the source sent last; Line does the same for the returned body.  The    *)
(* other parts say which frames may be on their way in which phase, and in *)
(* which order.                                                            *)
(*                                                                         *)
(* The proof first shows that every action is one of the flat Steps, which *)
(* say what becomes of the queues' bytes and credit and leave the helper   *)
(* operators of the model behind (StepsAre).  It then goes through         *)
(* StreamInv part by part, over the Steps: for each part, which of them    *)
(* move what it speaks of (the Moves lemmas), and why it survives those.   *)
(***************************************************************************)
EXTENDS Streams, SequencingProofs

(* The invariant. *)

\* Bytes, in a row.
Piece == Seq(Nat)

\* What the host may have written to the run.
DownFrame ==
  [t : {"chunk"}, d : Piece] \cup [t : {"end"}, how : {"ok", "err"}]
  \cup [t : {"opull"}, n : Nat] \cup [t : {"ocancel"}]

\* What the run may have written to the host.
UpFrame ==
  [t : {"pull"}, n : Nat] \cup [t : {"cancel", "complete"}]
  \cup [t : {"ochunk"}, d : Piece] \cup [t : {"oend"}, how : {"ok", "err"}]
  \cup [t : {"result"}, streams : BOOLEAN]

\* Where the pull of the returned body is.
Pulls == {"none", "pending", "chunk", "eof", "err"}

\* The host's half of the request body.
SrcRec == [at : {"reg", "on", "gone"}, prefix : Seq(Piece), read : Nat, credit : Nat,
           pump : {"off", "read", "write", "end"}, done : BOOLEAN]

\* The guest's half of the request body.
GinRec == [buf : Seq(Piece), ended : {"no", "ok", "err"}, cancelled : BOOLEAN, pending : BOOLEAN]

\* The guest's half of the returned body.
OutRec == [on : {"no", "pipe", "own"}, credit : Nat, pull : Pulls, data : Piece, backlog : Piece,
           done : BOOLEAN, made : Nat]

\* The run.
RunRec == [phase : {"exec", "grace", "over"}, turn : {"no", "drive", "scan"}, rounds : Nat,
           progressed : BOOLEAN, violated : BOOLEAN]

\* The host's half of the returned body.
OstRec == [buf : Seq(Piece), ended : {"no", "ok", "err"}, cancelled : BOOLEAN, failed : BOOLEAN]

\* Where the consumer of the returned body is.
ConsIn == {"none", "decode", "idle", "waiting", "woken", "closed", "errored", "cancelled"}

\* The types, with the frames of both queues.
Types ==
  /\ src \in SrcRec /\ gin \in GinRec /\ out \in OutRec /\ run \in RunRec /\ ost \in OstRec
  /\ down \in Seq(DownFrame) /\ up \in Seq(UpFrame)
  /\ entry \in {"run", "epilogue", "gone"} /\ conn \in {"up", "lost"} /\ cons \in ConsIn
  /\ age \in Nat /\ got \in Piece /\ outGot \in Piece

\* The counters stay within what the body, the rounds and the idle limit
\* allow.
Bounds == src.read <= SourceLen /\ out.made <= OwnLen /\ run.rounds < Rounds /\ age <= Idle

\* A frame of kind t is on its way.
Has(q, t) == \E f \in ToSet(q) : f.t = t

\* A result without a body is on its way.
Plain(q) == \E f \in ToSet(q) : f.t = "result" /\ ~f.streams

\* A result with a body is on its way.
Body(q) == \E f \in ToSet(q) : f.t = "result" /\ f.streams

\* Which results and ends may be on their way in which phase.
Talk ==
  /\ run.phase = "exec" => out.on = "no" /\ entry = "run" /\ ~Has(up, "result")
       /\ ~Has(up, "complete")
  /\ run.phase = "grace" => out.on # "no" /\ ~Has(up, "complete") /\ ~Plain(up)
  /\ Has(up, "result") => entry = "run"
  /\ Has(up, "complete") => out.on # "no"

\* A run that is over reads nothing, buffers nothing and has ended its body.
Over ==
  run.phase = "over" =>
    down = <<>> /\ gin.buf = <<>> /\ ~gin.pending /\ out.done = (out.on # "no")

\* What a lost connection or a removed entry says of the run; before its
\* result is in, a run has no consumer.
Gone ==
  /\ conn = "lost" => run.phase = "over" /\ up = <<>>
  /\ entry = "gone" => run.phase = "over" /\ up = <<>>
  /\ entry = "run" => cons = "none"

\* The phases of the run, of its entry and of its connection fit.
Phases == (run.turn # "no" => run.phase = "grace") /\ Talk /\ Over /\ Gone

\* g may follow f to the host: nothing follows the last frame of the run,
\* there is one result, and nothing of the body follows its end.
UPair(f, g) ==
  /\ f.t # "complete" /\ (f.t = "result" => f.streams)
  /\ f.t = "result" => g.t # "result"
  /\ f.t = "oend" => g.t \notin {"ochunk", "oend"}

\* The pairs of frames to the host that may follow each other.
UBefore == {p \in UpFrame \X UpFrame : UPair(p[1], p[2])}

\* g may follow f to the run: no chunk and no second end follow an end.
DPair(f, g) == f.t = "end" => g.t \notin {"chunk", "end"}

\* The pairs of frames to the run that may follow each other.
DBefore == {p \in DownFrame \X DownFrame : DPair(p[1], p[2])}

\* Both queues are in order.
InOrder == Ordered(up, UBefore) /\ Ordered(down, DBefore)

\* The source, its pump and what the guest knows of its end agree.
Source ==
  /\ src.at = "gone" <=> src.done
  /\ src.pump = "end" => src.done
  /\ src.pump = "read" => src.prefix = <<>>
  /\ src.at = "reg" => src.pump = "off" /\ src.credit = 0
  /\ src.read = 0 => src.done /\ src.pump = "off" /\ out.on # "pipe"
  /\ src.read > 0 => out.on # "own"
  /\ src.done /\ src.pump = "read" => gin.cancelled \/ run.phase = "over"
  /\ Has(up, "cancel") => gin.cancelled \/ run.phase = "over"
  /\ gin.ended # "no" => src.done /\ src.pump \in {"off", "end"} /\ ~Has(down, "chunk")
       /\ ~Has(down, "end")
  /\ Has(down, "end") => src.done /\ src.pump \in {"off", "end"}

\* A cancelled stream buffers nothing; a read is pending only where there is
\* nothing to read.
Buffer ==
  /\ gin.cancelled => gin.buf = <<>>
  /\ gin.pending => gin.buf = <<>> /\ ~gin.cancelled /\ gin.ended = "no"

\* Before the run returns a body nothing of it exists at either end or in
\* between.
NotYet ==
  out.on = "no" =>
    /\ out.credit = 0 /\ out.pull = "none" /\ out.data = <<>> /\ out.backlog = <<>> /\ ~out.done
    /\ out.made = 0
    /\ ~Has(up, "ochunk") /\ ~Has(up, "oend") /\ ~Has(down, "opull") /\ ~Has(down, "ocancel")
    /\ ost.buf = <<>> /\ ost.ended = "no" /\ ~ost.cancelled
    /\ cons = "none" /\ outGot = <<>>
    /\ ~Body(up)

\* The credit of the request body that has been given out: held by the source,
\* in flight as bytes, buffered by the guest, on its way back.
Inflow == src.credit + Len(BytesIn(down, "chunk")) + Len(Bytes(gin.buf)) + CreditIn(up, "pull")

\* The same for the returned body.
Outflow == out.credit + Len(BytesIn(up, "ochunk")) + Len(Bytes(ost.buf)) + CreditIn(down, "opull")

\* Run, entry and connection are all still there.
Alive == conn = "up" /\ run.phase # "over" /\ entry # "gone"

\* The credit of the request body: none before it is activated, never more
\* than the window, all of the window while it flows.
InCredit ==
  /\ src.at = "reg" => Inflow = 0
  /\ Inflow <= Window
  /\ Alive /\ src.at = "on" /\ ~gin.cancelled => Inflow = Window

\* The credit of the returned body: none before there is one, never more than
\* the window, all of the window while it flows.
OutCredit ==
  /\ out.on = "no" => Outflow = 0
  /\ Outflow <= Window
  /\ Alive /\ OutOpen /\ ~ost.cancelled => Outflow = Window

\* No longer than a chunk may be.
Short(d) == Len(d) <= MaxChunk

\* Chunks of the request body stay within the limit on their way, in the
\* guest's buffer and as they are piped out.
Sizes ==
  /\ \A f \in ToSet(down) : f.t = "chunk" => Short(f.d)
  /\ \A d \in ToSet(gin.buf) : Short(d)
  /\ out.on = "pipe" => Short(out.data) /\ Short(out.backlog)

\* Data is held only for a chunk that was pulled, and nothing is pulled over a
\* backlog.
Pulling ==
  /\ out.pull # "chunk" => out.data = <<>>
  /\ out.pull # "none" => out.backlog = <<>>

\* The first n bytes of the request body.
Count(n) == [i \in 1..n |-> i]

\* The first n bytes of the guest's own body.
Own(n) == [i \in 1..n |-> 100 + i]

\* What the host has been told of the returned body, behind g: consumed,
\* buffered, on its way.
Told(g) == ((g \o outGot) \o Bytes(ost.buf)) \o BytesIn(up, "ochunk")

\* What has been taken for the returned body, behind g: told, in the backlog,
\* pulled.
Line(g) == (Told(g) \o out.backlog) \o out.data

\* The bytes of the request body that have left the guest's buffer.
Ahead == IF out.on = "pipe" THEN Line(got) ELSE got

\* The bytes of the request body that have left the source.
Inside == (Ahead \o Bytes(gin.buf)) \o BytesIn(down, "chunk")

\* A read the guest left pending when it returned the stream is answered
\* before anything is piped: until then the returned body is empty.
Asking ==
  gin.pending /\ out.on = "pipe" /\ out.pull # "pending" =>
    /\ outGot = <<>> /\ Bytes(ost.buf) = <<>> /\ BytesIn(up, "ochunk") = <<>>
    /\ out.backlog = <<>> /\ out.data = <<>>

\* The returned body, or the run before it has one, still flows.
Going == Alive /\ ~ost.cancelled /\ ~out.done

\* A frame of kind t with this outcome is on its way.
Said(q, t, how) == \E f \in ToSet(q) : f.t = t /\ f.how = how

\* While it flows, the request body is whole: what left the source and what it
\* still holds are the bytes read, and a clean end has all of them before it.
InWhole ==
  Going /\ ~gin.cancelled =>
    /\ ~src.done => Inside \o Bytes(src.prefix) = Count(src.read)
    /\ src.read > 0 /\ (gin.ended = "ok" \/ Said(down, "end", "ok")) => Inside = Count(SourceLen)

\* While it flows, the guest's own body is whole.
OutWhole == Going /\ out.on = "own" => Line(<<>>) = Own(out.made)

\* The end of the returned body: told only when it is done, told if the host
\* still cares, last of the body's frames.
Ends ==
  /\ Has(up, "oend") \/ ost.ended # "no" => out.done
  /\ out.done /\ conn = "up" => ost.cancelled \/ ost.ended # "no" \/ Has(up, "oend")
  /\ Has(down, "ocancel") => ost.cancelled
  /\ ost.ended # "no" => ~Has(up, "ochunk") /\ ~Has(up, "oend")
  /\ conn = "up" => ~ost.failed

\* A returned body that was ended cleanly was told whole.
Clean ==
  (Said(up, "oend", "ok") \/ ost.ended = "ok") /\ ~ost.cancelled =>
    /\ out.on = "own" => Told(<<>>) = Own(out.made)
    /\ out.on = "pipe" /\ ~gin.cancelled => Told(got) = Count(SourceLen) /\ gin.ended = "ok"

\* A piped body comes to its end only when the request body did.
Eof ==
  /\ out.on = "pipe" /\ out.pull = "eof" /\ ~gin.cancelled => gin.ended = "ok" /\ gin.buf = <<>>

\* The consumer closes after a clean end with nothing left, and cancels for
\* good.
Closed ==
  /\ cons = "closed" => ost.ended = "ok" /\ ~ost.cancelled /\ ost.buf = <<>>
  /\ ost.cancelled => cons = "cancelled"

\* The invariant.
StreamInv ==
  /\ Types /\ Bounds /\ Phases /\ InOrder /\ Source /\ Buffer /\ NotYet /\ InCredit /\ OutCredit
  /\ NoLostPump /\ Sizes /\ Pulling /\ Asking /\ InWhole /\ OutWhole /\ Ends /\ Clean /\ Eof
  /\ Closed /\ ~run.violated

-----------------------------------------------------------------------------
(* Bytes and credit of a queue of frames. *)

\* What the frames of kind t carry, frame by frame.
Parts(q, t) == [i \in 1..Len(q) |-> IF q[i].t = t THEN q[i].d ELSE <<>>]

\* What the frames of kind t grant, frame by frame.
Grants(q, t) == [i \in 1..Len(q) |-> IF q[i].t = t THEN q[i].n ELSE 0]

\* Parts is a sequence of pieces, one for each frame.
LEMMA PartsAre ==
  ASSUME NEW F, NEW t, \A f \in F : f.t = t => f.d \in Seq(Nat), NEW q \in Seq(F)
  PROVE  /\ Parts(q, t) \in Seq(Seq(Nat)) /\ Len(Parts(q, t)) = Len(q)
         /\ \A i \in 1..Len(q) : Parts(q, t)[i] = IF q[i].t = t THEN q[i].d ELSE <<>>
<1>1. \A i \in 1..Len(q) : q[i] \in F
  OBVIOUS
<1>2. \A i \in 1..Len(q) : (IF q[i].t = t THEN q[i].d ELSE <<>>) \in Seq(Nat)
  BY <1>1
<1>3. PICK p : p = Parts(q, t)
  OBVIOUS
<1>4. p = [i \in 1..Len(q) |-> IF q[i].t = t THEN q[i].d ELSE <<>>]
  BY <1>3 DEF Parts
<1>5. p \in [1..Len(q) -> Seq(Nat)] /\ Len(q) \in Nat
  BY <1>2, <1>4
<1>6. p \in Seq(Seq(Nat)) /\ Len(p) = Len(q)
  BY <1>5, IsASeq
<1> QED BY <1>3, <1>4, <1>6

\* Grants is a sequence of numbers, one for each frame.
LEMMA GrantsAre ==
  ASSUME NEW F, NEW t, \A f \in F : f.t = t => f.n \in Nat, NEW q \in Seq(F)
  PROVE  /\ Grants(q, t) \in Seq(Int) /\ Len(Grants(q, t)) = Len(q)
         /\ \A i \in 1..Len(q) : Grants(q, t)[i] = IF q[i].t = t THEN q[i].n ELSE 0
<1>1. \A i \in 1..Len(q) : q[i] \in F
  OBVIOUS
<1>2. \A i \in 1..Len(q) : (IF q[i].t = t THEN q[i].n ELSE 0) \in Int
  BY <1>1
<1>3. PICK p : p = Grants(q, t)
  OBVIOUS
<1>4. p = [i \in 1..Len(q) |-> IF q[i].t = t THEN q[i].n ELSE 0]
  BY <1>3 DEF Grants
<1>5. p \in [1..Len(q) -> Int] /\ Len(q) \in Nat
  BY <1>2, <1>4
<1>6. p \in Seq(Int) /\ Len(p) = Len(q)
  BY <1>5, IsASeq
<1> QED BY <1>3, <1>4, <1>6

\* The parts of two queues one after the other.
LEMMA PartsBoth ==
  ASSUME NEW F, NEW t, \A f \in F : f.t = t => f.d \in Seq(Nat), NEW q \in Seq(F), NEW r \in Seq(F)
  PROVE  Parts(q \o r, t) = Parts(q, t) \o Parts(r, t)
<1>1. PICK s : s = q \o r
  OBVIOUS
<1>2. PICK a, b, c : a = Parts(q, t) /\ b = Parts(r, t) /\ c = Parts(s, t)
  OBVIOUS
<1>3. PICK m, n : m = Len(q) /\ n = Len(r)
  OBVIOUS
<1>4. /\ s \in Seq(F) /\ Len(s) = m + n /\ m \in Nat /\ n \in Nat
      /\ \A i \in 1..(m + n) : s[i] = IF i <= m THEN q[i] ELSE r[i - m]
  BY <1>1, <1>3, ConcatProperties
<1>5. /\ a \in Seq(Seq(Nat)) /\ Len(a) = m /\ b \in Seq(Seq(Nat)) /\ Len(b) = n
      /\ c \in Seq(Seq(Nat)) /\ Len(c) = m + n
      /\ \A i \in 1..m : a[i] = IF q[i].t = t THEN q[i].d ELSE <<>>
      /\ \A i \in 1..n : b[i] = IF r[i].t = t THEN r[i].d ELSE <<>>
      /\ \A i \in 1..(m + n) : c[i] = IF s[i].t = t THEN s[i].d ELSE <<>>
  <2>1. /\ Parts(q, t) \in Seq(Seq(Nat)) /\ Len(Parts(q, t)) = Len(q)
        /\ \A i \in 1..Len(q) : Parts(q, t)[i] = IF q[i].t = t THEN q[i].d ELSE <<>>
    BY PartsAre
  <2>2. /\ Parts(r, t) \in Seq(Seq(Nat)) /\ Len(Parts(r, t)) = Len(r)
        /\ \A i \in 1..Len(r) : Parts(r, t)[i] = IF r[i].t = t THEN r[i].d ELSE <<>>
    BY PartsAre
  <2>3. /\ Parts(s, t) \in Seq(Seq(Nat)) /\ Len(Parts(s, t)) = Len(s)
        /\ \A i \in 1..Len(s) : Parts(s, t)[i] = IF s[i].t = t THEN s[i].d ELSE <<>>
    <3>1. s \in Seq(F)
      BY <1>4
    <3> QED BY <3>1, PartsAre
  <2> QED BY <1>2, <1>3, <1>4, <2>1, <2>2, <2>3
<1>6. PICK e : e = a \o b
  OBVIOUS
<1>7. /\ e \in Seq(Seq(Nat)) /\ Len(e) = m + n
      /\ \A i \in 1..(m + n) : e[i] = IF i <= m THEN a[i] ELSE b[i - m]
  BY <1>5, <1>6, ConcatProperties
<1>8. ASSUME NEW i \in 1..(m + n) PROVE c[i] = e[i]
  <2>1. CASE i <= m
    <3>1. i \in 1..m
      BY <1>4, <2>1
    <3>2. s[i] = q[i] /\ e[i] = a[i]
      BY <1>4, <1>7, <2>1
    <3> QED BY <1>5, <3>1, <3>2
  <2>2. CASE ~(i <= m)
    <3>1. i - m \in 1..n
      BY <1>4, <2>2
    <3>2. s[i] = r[i - m] /\ e[i] = b[i - m]
      BY <1>4, <1>7, <2>2
    <3>3. PICK j \in 1..n : j = i - m
      BY <3>1
    <3>4. b[j] = e[i] /\ s[i] = r[j]
      BY <3>2, <3>3
    <3> QED BY <1>5, <3>4
  <2> QED BY <2>1, <2>2
<1>9. c = e
  BY <1>5, <1>7, <1>8, SeqEqual
<1> QED BY <1>1, <1>2, <1>6, <1>9

\* The grants of two queues one after the other.
LEMMA GrantsBoth ==
  ASSUME NEW F, NEW t, \A f \in F : f.t = t => f.n \in Nat, NEW q \in Seq(F), NEW r \in Seq(F)
  PROVE  Grants(q \o r, t) = Grants(q, t) \o Grants(r, t)
<1>1. PICK s : s = q \o r
  OBVIOUS
<1>2. PICK a, b, c : a = Grants(q, t) /\ b = Grants(r, t) /\ c = Grants(s, t)
  OBVIOUS
<1>3. PICK m, n : m = Len(q) /\ n = Len(r)
  OBVIOUS
<1>4. /\ s \in Seq(F) /\ Len(s) = m + n /\ m \in Nat /\ n \in Nat
      /\ \A i \in 1..(m + n) : s[i] = IF i <= m THEN q[i] ELSE r[i - m]
  BY <1>1, <1>3, ConcatProperties
<1>5. /\ a \in Seq(Int) /\ Len(a) = m /\ b \in Seq(Int) /\ Len(b) = n /\ c \in Seq(Int)
      /\ Len(c) = m + n
      /\ \A i \in 1..m : a[i] = IF q[i].t = t THEN q[i].n ELSE 0
      /\ \A i \in 1..n : b[i] = IF r[i].t = t THEN r[i].n ELSE 0
      /\ \A i \in 1..(m + n) : c[i] = IF s[i].t = t THEN s[i].n ELSE 0
  <2>1. /\ Grants(q, t) \in Seq(Int) /\ Len(Grants(q, t)) = Len(q)
        /\ \A i \in 1..Len(q) : Grants(q, t)[i] = IF q[i].t = t THEN q[i].n ELSE 0
    BY GrantsAre
  <2>2. /\ Grants(r, t) \in Seq(Int) /\ Len(Grants(r, t)) = Len(r)
        /\ \A i \in 1..Len(r) : Grants(r, t)[i] = IF r[i].t = t THEN r[i].n ELSE 0
    BY GrantsAre
  <2>3. /\ Grants(s, t) \in Seq(Int) /\ Len(Grants(s, t)) = Len(s)
        /\ \A i \in 1..Len(s) : Grants(s, t)[i] = IF s[i].t = t THEN s[i].n ELSE 0
    <3>1. s \in Seq(F)
      BY <1>4
    <3> QED BY <3>1, GrantsAre
  <2> QED BY <1>2, <1>3, <1>4, <2>1, <2>2, <2>3
<1>6. PICK e : e = a \o b
  OBVIOUS
<1>7. /\ e \in Seq(Int) /\ Len(e) = m + n
      /\ \A i \in 1..(m + n) : e[i] = IF i <= m THEN a[i] ELSE b[i - m]
  BY <1>5, <1>6, ConcatProperties
<1>8. ASSUME NEW i \in 1..(m + n) PROVE c[i] = e[i]
  <2>1. CASE i <= m
    <3>1. i \in 1..m
      BY <1>4, <2>1
    <3>2. s[i] = q[i] /\ e[i] = a[i]
      BY <1>4, <1>7, <2>1
    <3> QED BY <1>5, <3>1, <3>2
  <2>2. CASE ~(i <= m)
    <3>1. i - m \in 1..n
      BY <1>4, <2>2
    <3>2. s[i] = r[i - m] /\ e[i] = b[i - m]
      BY <1>4, <1>7, <2>2
    <3>3. PICK j \in 1..n : j = i - m
      BY <3>1
    <3>4. b[j] = e[i] /\ s[i] = r[j]
      BY <3>2, <3>3
    <3> QED BY <1>5, <3>4
  <2> QED BY <2>1, <2>2
<1>9. c = e
  BY <1>5, <1>7, <1>8, SeqEqual
<1> QED BY <1>1, <1>2, <1>6, <1>9

\* The bytes of a queue are a piece, the empty one without frames of the kind.
LEMMA BytesType ==
  ASSUME NEW F, NEW t, \A f \in F : f.t = t => f.d \in Seq(Nat), NEW q \in Seq(F)
  PROVE  /\ BytesIn(q, t) \in Seq(Nat)
         /\ (\A f \in ToSet(q) : f.t # t) => BytesIn(q, t) = <<>>
<1>1. PICK w : w = Parts(q, t)
  OBVIOUS
<1>2. BytesIn(q, t) = Joined(w) /\ w \in Seq(Seq(Nat)) /\ Len(w) = Len(q)
      /\ \A i \in 1..Len(q) : w[i] = IF q[i].t = t THEN q[i].d ELSE <<>>
  <2>1. Parts(q, t) \in Seq(Seq(Nat)) /\ Len(Parts(q, t)) = Len(q)
        /\ \A i \in 1..Len(q) : Parts(q, t)[i] = IF q[i].t = t THEN q[i].d ELSE <<>>
    BY PartsAre
  <2> QED BY <1>1, <2>1 DEF BytesIn, Bytes, Parts
<1>3. Joined(w) \in Seq(Nat)
  BY <1>2, JoinedFacts
<1>4. ASSUME \A f \in ToSet(q) : f.t # t PROVE Joined(w) = <<>>
  <2>1. \A i \in 1..Len(q) : q[i] \in ToSet(q)
    BY DEF ToSet
  <2>2. \A i \in 1..Len(w) : w[i] = <<>>
    BY <1>2, <1>4, <2>1
  <2>3. w \in Seq(Seq(Nat))
    BY <1>2
  <2> QED BY <2>2, <2>3, JoinedNone
<1> QED BY <1>2, <1>3, <1>4

\* The bytes of two queues one after the other.
LEMMA BytesBoth ==
  ASSUME NEW F, NEW t, \A f \in F : f.t = t => f.d \in Seq(Nat), NEW q \in Seq(F), NEW r \in Seq(F)
  PROVE  BytesIn(q \o r, t) = BytesIn(q, t) \o BytesIn(r, t)
<1>1. PICK a, b : a = Parts(q, t) /\ b = Parts(r, t)
  OBVIOUS
<1>2. a \in Seq(Seq(Nat)) /\ b \in Seq(Seq(Nat))
  <2>1. Parts(q, t) \in Seq(Seq(Nat))
    BY PartsAre
  <2>2. Parts(r, t) \in Seq(Seq(Nat))
    BY PartsAre
  <2> QED BY <1>1, <2>1, <2>2
<1>3. Parts(q \o r, t) = a \o b
  BY <1>1, PartsBoth
<1>4. Joined(a \o b) = Joined(a) \o Joined(b)
  BY <1>2, JoinedBoth
<1> QED BY <1>1, <1>3, <1>4 DEF BytesIn, Bytes, Parts

\* The bytes of one frame.
LEMMA BytesOne ==
  ASSUME NEW F, NEW t, \A g \in F : g.t = t => g.d \in Seq(Nat), NEW f \in F
  PROVE  BytesIn(<<f>>, t) = IF f.t = t THEN f.d ELSE <<>>
<1>1. PICK x : x = IF f.t = t THEN f.d ELSE <<>>
  OBVIOUS
<1>2. x \in Seq(Nat)
  BY <1>1
<1>3. PICK q : q = <<f>>
  OBVIOUS
<1>4. Len(q) = 1 /\ q[1] = f
  BY <1>3
<1>5. [i \in 1..Len(q) |-> IF q[i].t = t THEN q[i].d ELSE <<>>] = <<x>>
  <2>1. [i \in 1..Len(q) |-> IF q[i].t = t THEN q[i].d ELSE <<>>] = [i \in 1..1 |-> x]
    BY <1>1, <1>4
  <2>2. <<x>> = [i \in 1..1 |-> x]
    OBVIOUS
  <2> QED BY <2>1, <2>2
<1>6. Joined(<<x>>) = x
  BY <1>2, JoinedOne
<1> QED BY <1>1, <1>3, <1>5, <1>6 DEF BytesIn, Bytes

\* The credit in a queue is a number, zero without frames of the kind.
LEMMA CreditType ==
  ASSUME NEW F, NEW t, \A f \in F : f.t = t => f.n \in Nat, NEW q \in Seq(F)
  PROVE  /\ CreditIn(q, t) \in Nat
         /\ (\A f \in ToSet(q) : f.t # t) => CreditIn(q, t) = 0
<1>1. PICK w : w = Grants(q, t)
  OBVIOUS
<1>2. CreditIn(q, t) = Total(w) /\ w \in Seq(Int) /\ Len(w) = Len(q)
      /\ \A i \in 1..Len(q) : w[i] = IF q[i].t = t THEN q[i].n ELSE 0
  <2>1. Grants(q, t) \in Seq(Int) /\ Len(Grants(q, t)) = Len(q)
        /\ \A i \in 1..Len(q) : Grants(q, t)[i] = IF q[i].t = t THEN q[i].n ELSE 0
    BY GrantsAre
  <2> QED BY <1>1, <2>1 DEF CreditIn, Grants
<1>3. Total(w) \in Nat
  <2>1. \A i \in 1..Len(q) : q[i] \in F
    OBVIOUS
  <2>2. \A i \in 1..Len(w) : w[i] \in Nat
    BY <1>2, <2>1
  <2>3. w \in Seq(Int)
    BY <1>2
  <2> QED BY <2>2, <2>3, TotalNat
<1>4. ASSUME \A f \in ToSet(q) : f.t # t PROVE Total(w) = 0
  <2>1. \A i \in 1..Len(q) : q[i] \in ToSet(q)
    BY DEF ToSet
  <2>2. \A i \in 1..Len(w) : w[i] = 0
    BY <1>2, <1>4, <2>1
  <2>3. w \in Seq(Int)
    BY <1>2
  <2> QED BY <2>2, <2>3, TotalNone
<1> QED BY <1>2, <1>3, <1>4

\* The credit in two queues one after the other.
LEMMA CreditBoth ==
  ASSUME NEW F, NEW t, \A f \in F : f.t = t => f.n \in Nat, NEW q \in Seq(F), NEW r \in Seq(F)
  PROVE  CreditIn(q \o r, t) = CreditIn(q, t) + CreditIn(r, t)
<1>1. PICK a, b : a = Grants(q, t) /\ b = Grants(r, t)
  OBVIOUS
<1>2. a \in Seq(Int) /\ b \in Seq(Int)
  <2>1. Grants(q, t) \in Seq(Int)
    BY GrantsAre
  <2>2. Grants(r, t) \in Seq(Int)
    BY GrantsAre
  <2> QED BY <1>1, <2>1, <2>2
<1>3. Grants(q \o r, t) = a \o b
  BY <1>1, GrantsBoth
<1>4. Total(a \o b) = Total(a) + Total(b)
  BY <1>2, TotalBoth
<1> QED BY <1>1, <1>3, <1>4 DEF CreditIn, Grants

\* The credit in one frame.
LEMMA CreditOne ==
  ASSUME NEW F, NEW t, \A g \in F : g.t = t => g.n \in Nat, NEW f \in F
  PROVE  CreditIn(<<f>>, t) = IF f.t = t THEN f.n ELSE 0
<1>1. PICK x : x = IF f.t = t THEN f.n ELSE 0
  OBVIOUS
<1>2. x \in Int
  BY <1>1
<1>3. PICK q : q = <<f>>
  OBVIOUS
<1>4. Len(q) = 1 /\ q[1] = f
  BY <1>3
<1>5. [i \in 1..Len(q) |-> IF q[i].t = t THEN q[i].n ELSE 0] = <<x>>
  <2>1. [i \in 1..Len(q) |-> IF q[i].t = t THEN q[i].n ELSE 0] = [i \in 1..1 |-> x]
    BY <1>1, <1>4
  <2>2. <<x>> = [i \in 1..1 |-> x]
    OBVIOUS
  <2> QED BY <2>1, <2>2
<1>6. Total(<<x>>) = x
  BY <1>2, TotalOne
<1> QED BY <1>1, <1>3, <1>5, <1>6 DEF CreditIn

\* A chunk more goes to the end.
LEMMA BytesAppend ==
  ASSUME NEW w \in Seq(Piece), NEW x \in Piece
  PROVE  Bytes(Append(w, x)) = Bytes(w) \o x /\ Bytes(w) \in Piece
  BY JoinedAppend, JoinedFacts DEF Bytes, Piece

\* The first chunk goes from the front.
LEMMA BytesHead ==
  ASSUME NEW w \in Seq(Piece), w # <<>>
  PROVE  /\ Bytes(w) = Head(w) \o Bytes(Tail(w)) /\ Head(w) \in Piece /\ Bytes(Tail(w)) \in Piece
         /\ Tail(w) \in Seq(Piece)
<1>1. PICK x, r, u : x = Head(w) /\ r = Tail(w) /\ u = <<x>>
  OBVIOUS
<1>2. w = u \o r /\ x \in Piece /\ r \in Seq(Piece) /\ u \in Seq(Piece)
  BY <1>1, HeadFirst
<1>3. Joined(u \o r) = Joined(u) \o Joined(r) /\ Joined(r) \in Seq(Nat)
  BY <1>2, JoinedBoth, JoinedFacts DEF Piece
<1>4. Joined(<<x>>) = x
  BY <1>2, JoinedOne DEF Piece
<1> QED BY <1>1, <1>2, <1>3, <1>4 DEF Bytes, Piece

\* No chunks, no bytes.
LEMMA BytesEmpty == Bytes(<<>>) = <<>>
<1>1. PICK z : z = <<>>
  OBVIOUS
<1>2. z \in Seq(Seq(Nat))
  BY <1>1
<1> QED BY <1>1, <1>2, JoinedFacts DEF Bytes

-----------------------------------------------------------------------------
(* Frames, and what a queue is with one more or one less. *)

\* The fields of a frame to the run, by its kind.
LEMMA DownFields ==
  ASSUME NEW f \in DownFrame
  PROVE  /\ f.t \in {"chunk", "end", "opull", "ocancel"}
         /\ f.t = "chunk" => f.d \in Piece
         /\ f.t = "end" => f.how \in {"ok", "err"}
         /\ f.t = "opull" => f.n \in Nat
  BY DEF DownFrame

\* The fields of a frame to the host, by its kind.
LEMMA UpFields ==
  ASSUME NEW f \in UpFrame
  PROVE  /\ f.t \in {"pull", "cancel", "complete", "ochunk", "oend", "result"}
         /\ f.t = "ochunk" => f.d \in Piece
         /\ f.t = "oend" => f.how \in {"ok", "err"}
         /\ f.t = "pull" => f.n \in Nat
         /\ f.t = "result" => f.streams \in BOOLEAN
  BY DEF UpFrame

\* The frames that are written are such frames.
LEMMA FramesNew ==
  /\ \A d \in Piece : Chunk(d) \in DownFrame /\ OutChunk(d) \in UpFrame
  /\ \A h \in {"ok", "err"} : End(h) \in DownFrame /\ OutEnd(h) \in UpFrame
  /\ \A n \in Nat : OutPull(n) \in DownFrame /\ Pull(n) \in UpFrame
  /\ OutCancel \in DownFrame /\ CancelFrame \in UpFrame /\ Complete \in UpFrame
  /\ \A b \in BOOLEAN : Result(b) \in UpFrame
  BY DEF DownFrame, UpFrame, Chunk, OutChunk, End, OutEnd, OutPull, Pull, OutCancel, CancelFrame,
     Complete, Result

\* What they say.
LEMMA FramesSay ==
  /\ \A d : Chunk(d).t = "chunk" /\ Chunk(d).d = d /\ OutChunk(d).t = "ochunk"
       /\ OutChunk(d).d = d
  /\ \A h : End(h).t = "end" /\ End(h).how = h /\ OutEnd(h).t = "oend" /\ OutEnd(h).how = h
  /\ \A n : OutPull(n).t = "opull" /\ OutPull(n).n = n /\ Pull(n).t = "pull" /\ Pull(n).n = n
  /\ OutCancel.t = "ocancel" /\ CancelFrame.t = "cancel" /\ Complete.t = "complete"
  /\ \A b : Result(b).t = "result" /\ Result(b).streams = b
  BY DEF Chunk, OutChunk, End, OutEnd, OutPull, Pull, OutCancel, CancelFrame, Complete, Result

\* Membership in the orders, spelled out.
LEMMA BeforeIs ==
  /\ \A f, g \in UpFrame : <<f, g>> \in UBefore <=> UPair(f, g)
  /\ \A f, g \in DownFrame : <<f, g>> \in DBefore <=> DPair(f, g)
  BY DEF UBefore, DBefore

\* A queue with one element more.
LEMMA OneMore ==
  ASSUME NEW F, NEW q \in Seq(F), NEW f \in F
  PROVE  /\ q \o <<f>> \in Seq(F) /\ ToSet(q \o <<f>>) = ToSet(q) \cup {f}
         /\ \A R : Ordered(q, R) /\ (\A g \in ToSet(q) : <<g, f>> \in R) => Ordered(q \o <<f>>, R)
<1>1. q \o <<f>> = Append(q, f) /\ <<f>> \in Seq(F)
  BY AppendIsConcat
<1>2. Append(q, f) \in Seq(F)
  BY AppendProperties
<1>3. ToSet(<<f>>) = {f}
  BY DEF ToSet
<1>4. ToSet(q \o <<f>>) = ToSet(q) \cup ToSet(<<f>>)
  <2>1. PICK r : r = <<f>>
    OBVIOUS
  <2>2. r \in Seq(F)
    BY <1>1, <2>1
  <2>3. ToSet(q \o r) = ToSet(q) \cup ToSet(r)
    BY <2>2, SetBoth
  <2> QED BY <2>1, <2>3
<1>5. ASSUME NEW R, Ordered(q, R), \A g \in ToSet(q) : <<g, f>> \in R
      PROVE  Ordered(Append(q, f), R)
  BY <1>5, OrderedAppend
<1> QED BY <1>1, <1>2, <1>3, <1>4, <1>5

\* A queue to the run with one frame more.
LEMMA DownOne ==
  ASSUME NEW q \in Seq(DownFrame), NEW f \in DownFrame
  PROVE  /\ q \o <<f>> \in Seq(DownFrame) /\ ToSet(q \o <<f>>) = ToSet(q) \cup {f}
         /\ BytesIn(q, "chunk") \in Piece /\ CreditIn(q, "opull") \in Nat
         /\ BytesIn(q \o <<f>>, "chunk") = IF f.t = "chunk" THEN BytesIn(q, "chunk") \o f.d ELSE BytesIn(q, "chunk")
         /\ CreditIn(q \o <<f>>, "opull") = CreditIn(q, "opull") + IF f.t = "opull" THEN f.n ELSE 0
         /\ Ordered(q, DBefore)
              /\ (\A g \in ToSet(q) : DPair(g, f)) => Ordered(q \o <<f>>, DBefore)
<1>1. /\ \A g \in DownFrame : g.t = "chunk" => g.d \in Seq(Nat)
      /\ \A g \in DownFrame : g.t = "opull" => g.n \in Nat
  BY DownFields DEF Piece
<1>2. PICK r : r = <<f>>
  OBVIOUS
<1>3. r \in Seq(DownFrame)
  BY <1>2
<1>4. /\ BytesIn(q \o r, "chunk") = BytesIn(q, "chunk") \o BytesIn(r, "chunk")
      /\ BytesIn(q, "chunk") \in Seq(Nat)
      /\ BytesIn(r, "chunk") = IF f.t = "chunk" THEN f.d ELSE <<>>
  <2>1. BytesIn(q \o r, "chunk") = BytesIn(q, "chunk") \o BytesIn(r, "chunk")
    BY <1>1, <1>2, <1>3, BytesBoth
  <2>2. BytesIn(q, "chunk") \in Seq(Nat)
    BY <1>1, <1>2, <1>3, BytesType
  <2>3. BytesIn(r, "chunk") = IF f.t = "chunk" THEN f.d ELSE <<>>
    BY <1>1, <1>2, <1>3, BytesOne
  <2> QED BY <2>1, <2>2, <2>3
<1>5. /\ CreditIn(q \o r, "opull") = CreditIn(q, "opull") + CreditIn(r, "opull")
      /\ CreditIn(q, "opull") \in Nat
      /\ CreditIn(r, "opull") = IF f.t = "opull" THEN f.n ELSE 0
  <2>1. CreditIn(q \o r, "opull") = CreditIn(q, "opull") + CreditIn(r, "opull")
    BY <1>1, <1>2, <1>3, CreditBoth
  <2>2. CreditIn(q, "opull") \in Nat
    BY <1>1, <1>2, <1>3, CreditType
  <2>3. CreditIn(r, "opull") = IF f.t = "opull" THEN f.n ELSE 0
    BY <1>1, <1>2, <1>3, CreditOne
  <2> QED BY <2>1, <2>2, <2>3
<1>6. BytesIn(q, "chunk") \o <<>> = BytesIn(q, "chunk")
  <2>1. PICK b : b = BytesIn(q, "chunk")
    OBVIOUS
  <2>2. b \in Seq(Nat)
    BY <1>4, <2>1
  <2>3. b \o <<>> = b
    BY <2>2, ConcatEmptySeq
  <2> QED BY <2>1, <2>3
<1>7. /\ q \o r \in Seq(DownFrame) /\ ToSet(q \o r) = ToSet(q) \cup {f}
      /\ Ordered(q, DBefore)
           /\ (\A g \in ToSet(q) : <<g, f>> \in DBefore) => Ordered(q \o r, DBefore)
  BY <1>2, OneMore
<1>8. \A g \in ToSet(q) : DPair(g, f) => <<g, f>> \in DBefore
  BY BeforeIs DEF ToSet
<1>9. BytesIn(q \o r, "chunk") = IF f.t = "chunk" THEN BytesIn(q, "chunk") \o f.d ELSE BytesIn(q, "chunk")
  BY <1>4, <1>6
<1>10. CreditIn(q \o r, "opull") = CreditIn(q, "opull") + IF f.t = "opull" THEN f.n ELSE 0
  BY <1>5
<1> QED BY <1>2, <1>4, <1>5, <1>7, <1>8, <1>9, <1>10 DEF Piece

\* A queue to the host with one frame more.
LEMMA UpOne ==
  ASSUME NEW q \in Seq(UpFrame), NEW f \in UpFrame
  PROVE  /\ q \o <<f>> \in Seq(UpFrame) /\ ToSet(q \o <<f>>) = ToSet(q) \cup {f}
         /\ BytesIn(q, "ochunk") \in Piece /\ CreditIn(q, "pull") \in Nat
         /\ BytesIn(q \o <<f>>, "ochunk") = IF f.t = "ochunk" THEN BytesIn(q, "ochunk") \o f.d ELSE BytesIn(q, "ochunk")
         /\ CreditIn(q \o <<f>>, "pull") = CreditIn(q, "pull") + IF f.t = "pull" THEN f.n ELSE 0
         /\ Ordered(q, UBefore)
              /\ (\A g \in ToSet(q) : UPair(g, f)) => Ordered(q \o <<f>>, UBefore)
<1>1. /\ \A g \in UpFrame : g.t = "ochunk" => g.d \in Seq(Nat)
      /\ \A g \in UpFrame : g.t = "pull" => g.n \in Nat
  BY UpFields DEF Piece
<1>2. PICK r : r = <<f>>
  OBVIOUS
<1>3. r \in Seq(UpFrame)
  BY <1>2
<1>4. /\ BytesIn(q \o r, "ochunk") = BytesIn(q, "ochunk") \o BytesIn(r, "ochunk")
      /\ BytesIn(q, "ochunk") \in Seq(Nat)
      /\ BytesIn(r, "ochunk") = IF f.t = "ochunk" THEN f.d ELSE <<>>
  <2>1. BytesIn(q \o r, "ochunk") = BytesIn(q, "ochunk") \o BytesIn(r, "ochunk")
    BY <1>1, <1>2, <1>3, BytesBoth
  <2>2. BytesIn(q, "ochunk") \in Seq(Nat)
    BY <1>1, <1>2, <1>3, BytesType
  <2>3. BytesIn(r, "ochunk") = IF f.t = "ochunk" THEN f.d ELSE <<>>
    BY <1>1, <1>2, <1>3, BytesOne
  <2> QED BY <2>1, <2>2, <2>3
<1>5. /\ CreditIn(q \o r, "pull") = CreditIn(q, "pull") + CreditIn(r, "pull")
      /\ CreditIn(q, "pull") \in Nat
      /\ CreditIn(r, "pull") = IF f.t = "pull" THEN f.n ELSE 0
  <2>1. CreditIn(q \o r, "pull") = CreditIn(q, "pull") + CreditIn(r, "pull")
    BY <1>1, <1>2, <1>3, CreditBoth
  <2>2. CreditIn(q, "pull") \in Nat
    BY <1>1, <1>2, <1>3, CreditType
  <2>3. CreditIn(r, "pull") = IF f.t = "pull" THEN f.n ELSE 0
    BY <1>1, <1>2, <1>3, CreditOne
  <2> QED BY <2>1, <2>2, <2>3
<1>6. BytesIn(q, "ochunk") \o <<>> = BytesIn(q, "ochunk")
  <2>1. PICK b : b = BytesIn(q, "ochunk")
    OBVIOUS
  <2>2. b \in Seq(Nat)
    BY <1>4, <2>1
  <2>3. b \o <<>> = b
    BY <2>2, ConcatEmptySeq
  <2> QED BY <2>1, <2>3
<1>7. /\ q \o r \in Seq(UpFrame) /\ ToSet(q \o r) = ToSet(q) \cup {f}
      /\ Ordered(q, UBefore)
           /\ (\A g \in ToSet(q) : <<g, f>> \in UBefore) => Ordered(q \o r, UBefore)
  BY <1>2, OneMore
<1>8. \A g \in ToSet(q) : UPair(g, f) => <<g, f>> \in UBefore
  BY BeforeIs DEF ToSet
<1>9. BytesIn(q \o r, "ochunk") = IF f.t = "ochunk" THEN BytesIn(q, "ochunk") \o f.d ELSE BytesIn(q, "ochunk")
  BY <1>4, <1>6
<1>10. CreditIn(q \o r, "pull") = CreditIn(q, "pull") + IF f.t = "pull" THEN f.n ELSE 0
  BY <1>5
<1> QED BY <1>2, <1>4, <1>5, <1>7, <1>8, <1>9, <1>10 DEF Piece

\* A queue to the run with one frame less.
LEMMA DownHead ==
  ASSUME NEW q \in Seq(DownFrame), q # <<>>
  PROVE  /\ Head(q) \in DownFrame /\ Tail(q) \in Seq(DownFrame)
         /\ ToSet(q) = ToSet(Tail(q)) \cup {Head(q)}
         /\ BytesIn(Tail(q), "chunk") \in Piece /\ CreditIn(Tail(q), "opull") \in Nat
         /\ BytesIn(q, "chunk") = IF Head(q).t = "chunk" THEN Head(q).d \o BytesIn(Tail(q), "chunk")
                                  ELSE BytesIn(Tail(q), "chunk")
         /\ CreditIn(q, "opull") = CreditIn(Tail(q), "opull") + IF Head(q).t = "opull" THEN Head(q).n ELSE 0
         /\ Ordered(q, DBefore) => Ordered(Tail(q), DBefore)
              /\ \A g \in ToSet(Tail(q)) : DPair(Head(q), g)
<1>1. /\ \A g \in DownFrame : g.t = "chunk" => g.d \in Seq(Nat)
      /\ \A g \in DownFrame : g.t = "opull" => g.n \in Nat
  BY DownFields DEF Piece
<1>2. PICK f, s : f = Head(q) /\ s = Tail(q)
  OBVIOUS
<1>3. PICK r : r = <<f>>
  OBVIOUS
<1>4. q = r \o s /\ f \in DownFrame /\ s \in Seq(DownFrame) /\ r \in Seq(DownFrame)
        /\ ToSet(q) = ToSet(s) \cup {f}
  BY <1>2, <1>3, HeadFirst, TailSet
<1>5. /\ BytesIn(r \o s, "chunk") = BytesIn(r, "chunk") \o BytesIn(s, "chunk")
      /\ BytesIn(s, "chunk") \in Seq(Nat)
      /\ BytesIn(r, "chunk") = IF f.t = "chunk" THEN f.d ELSE <<>>
  <2>1. BytesIn(r \o s, "chunk") = BytesIn(r, "chunk") \o BytesIn(s, "chunk")
    <3>1. r \in Seq(DownFrame) /\ s \in Seq(DownFrame)
      BY <1>4
    <3> QED BY <1>1, <3>1, BytesBoth
  <2>2. BytesIn(s, "chunk") \in Seq(Nat)
    BY <1>1, <1>3, <1>4, BytesType
  <2>3. BytesIn(r, "chunk") = IF f.t = "chunk" THEN f.d ELSE <<>>
    BY <1>1, <1>3, <1>4, BytesOne
  <2> QED BY <2>1, <2>2, <2>3
<1>6. /\ CreditIn(r \o s, "opull") = CreditIn(r, "opull") + CreditIn(s, "opull")
      /\ CreditIn(s, "opull") \in Nat
      /\ CreditIn(r, "opull") = IF f.t = "opull" THEN f.n ELSE 0
  <2>1. CreditIn(r \o s, "opull") = CreditIn(r, "opull") + CreditIn(s, "opull")
    BY <1>1, <1>3, <1>4, CreditBoth
  <2>2. CreditIn(s, "opull") \in Nat
    BY <1>1, <1>3, <1>4, CreditType
  <2>3. CreditIn(r, "opull") = IF f.t = "opull" THEN f.n ELSE 0
    BY <1>1, <1>3, <1>4, CreditOne
  <2> QED BY <2>1, <2>2, <2>3
<1>7. <<>> \o BytesIn(s, "chunk") = BytesIn(s, "chunk")
  <2>1. PICK b : b = BytesIn(s, "chunk")
    OBVIOUS
  <2>2. b \in Seq(Nat)
    BY <1>5, <2>1
  <2>3. <<>> \o b = b
    BY <2>2, ConcatEmptySeq
  <2> QED BY <2>1, <2>3
<1>8. ASSUME Ordered(q, DBefore) PROVE Ordered(s, DBefore) /\ \A g \in ToSet(s) : DPair(f, g)
  <2>1. Ordered(Tail(q), DBefore) /\ \A g \in ToSet(Tail(q)) : <<Head(q), g>> \in DBefore
    BY <1>8, OrderedTail
  <2>2. \A g \in ToSet(s) : g \in DownFrame
    BY <1>4 DEF ToSet
  <2> QED BY <1>2, <1>4, <2>1, <2>2, BeforeIs
<1>9. CreditIn(q, "opull") = CreditIn(s, "opull") + IF f.t = "opull" THEN f.n ELSE 0
  <2>1. (IF f.t = "opull" THEN f.n ELSE 0) \in Int
    BY <1>1, <1>4
  <2> QED BY <1>4, <1>6, <2>1
<1>10. BytesIn(q, "chunk") = IF f.t = "chunk" THEN f.d \o BytesIn(s, "chunk") ELSE BytesIn(s, "chunk")
  BY <1>4, <1>5, <1>7
<1> QED BY <1>2, <1>4, <1>5, <1>6, <1>8, <1>9, <1>10 DEF Piece

\* A queue to the host with one frame less.
LEMMA UpHead ==
  ASSUME NEW q \in Seq(UpFrame), q # <<>>
  PROVE  /\ Head(q) \in UpFrame /\ Tail(q) \in Seq(UpFrame)
         /\ ToSet(q) = ToSet(Tail(q)) \cup {Head(q)}
         /\ BytesIn(Tail(q), "ochunk") \in Piece /\ CreditIn(Tail(q), "pull") \in Nat
         /\ BytesIn(q, "ochunk") = IF Head(q).t = "ochunk" THEN Head(q).d \o BytesIn(Tail(q), "ochunk")
                                  ELSE BytesIn(Tail(q), "ochunk")
         /\ CreditIn(q, "pull") = CreditIn(Tail(q), "pull") + IF Head(q).t = "pull" THEN Head(q).n ELSE 0
         /\ Ordered(q, UBefore) => Ordered(Tail(q), UBefore)
              /\ \A g \in ToSet(Tail(q)) : UPair(Head(q), g)
<1>1. /\ \A g \in UpFrame : g.t = "ochunk" => g.d \in Seq(Nat)
      /\ \A g \in UpFrame : g.t = "pull" => g.n \in Nat
  BY UpFields DEF Piece
<1>2. PICK f, s : f = Head(q) /\ s = Tail(q)
  OBVIOUS
<1>3. PICK r : r = <<f>>
  OBVIOUS
<1>4. q = r \o s /\ f \in UpFrame /\ s \in Seq(UpFrame) /\ r \in Seq(UpFrame)
        /\ ToSet(q) = ToSet(s) \cup {f}
  BY <1>2, <1>3, HeadFirst, TailSet
<1>5. /\ BytesIn(r \o s, "ochunk") = BytesIn(r, "ochunk") \o BytesIn(s, "ochunk")
      /\ BytesIn(s, "ochunk") \in Seq(Nat)
      /\ BytesIn(r, "ochunk") = IF f.t = "ochunk" THEN f.d ELSE <<>>
  <2>1. BytesIn(r \o s, "ochunk") = BytesIn(r, "ochunk") \o BytesIn(s, "ochunk")
    <3>1. r \in Seq(UpFrame) /\ s \in Seq(UpFrame)
      BY <1>4
    <3> QED BY <1>1, <3>1, BytesBoth
  <2>2. BytesIn(s, "ochunk") \in Seq(Nat)
    BY <1>1, <1>3, <1>4, BytesType
  <2>3. BytesIn(r, "ochunk") = IF f.t = "ochunk" THEN f.d ELSE <<>>
    BY <1>1, <1>3, <1>4, BytesOne
  <2> QED BY <2>1, <2>2, <2>3
<1>6. /\ CreditIn(r \o s, "pull") = CreditIn(r, "pull") + CreditIn(s, "pull")
      /\ CreditIn(s, "pull") \in Nat
      /\ CreditIn(r, "pull") = IF f.t = "pull" THEN f.n ELSE 0
  <2>1. CreditIn(r \o s, "pull") = CreditIn(r, "pull") + CreditIn(s, "pull")
    BY <1>1, <1>3, <1>4, CreditBoth
  <2>2. CreditIn(s, "pull") \in Nat
    BY <1>1, <1>3, <1>4, CreditType
  <2>3. CreditIn(r, "pull") = IF f.t = "pull" THEN f.n ELSE 0
    BY <1>1, <1>3, <1>4, CreditOne
  <2> QED BY <2>1, <2>2, <2>3
<1>7. <<>> \o BytesIn(s, "ochunk") = BytesIn(s, "ochunk")
  <2>1. PICK b : b = BytesIn(s, "ochunk")
    OBVIOUS
  <2>2. b \in Seq(Nat)
    BY <1>5, <2>1
  <2>3. <<>> \o b = b
    BY <2>2, ConcatEmptySeq
  <2> QED BY <2>1, <2>3
<1>8. ASSUME Ordered(q, UBefore) PROVE Ordered(s, UBefore) /\ \A g \in ToSet(s) : UPair(f, g)
  <2>1. Ordered(Tail(q), UBefore) /\ \A g \in ToSet(Tail(q)) : <<Head(q), g>> \in UBefore
    BY <1>8, OrderedTail
  <2>2. \A g \in ToSet(s) : g \in UpFrame
    BY <1>4 DEF ToSet
  <2> QED BY <1>2, <1>4, <2>1, <2>2, BeforeIs
<1>9. CreditIn(q, "pull") = CreditIn(s, "pull") + IF f.t = "pull" THEN f.n ELSE 0
  <2>1. (IF f.t = "pull" THEN f.n ELSE 0) \in Int
    BY <1>1, <1>4
  <2> QED BY <1>4, <1>6, <2>1
<1>10. BytesIn(q, "ochunk") = IF f.t = "ochunk" THEN f.d \o BytesIn(s, "ochunk") ELSE BytesIn(s, "ochunk")
  BY <1>4, <1>5, <1>7
<1> QED BY <1>2, <1>4, <1>5, <1>6, <1>8, <1>9, <1>10 DEF Piece

\* A queue without frames.
LEMMA NoFrames ==
  ASSUME NEW q, q = <<>>
  PROVE  /\ q \in Seq(DownFrame) /\ q \in Seq(UpFrame) /\ ToSet(q) = {}
         /\ Ordered(q, DBefore) /\ Ordered(q, UBefore)
         /\ BytesIn(q, "chunk") = <<>> /\ BytesIn(q, "ochunk") = <<>>
         /\ CreditIn(q, "opull") = 0 /\ CreditIn(q, "pull") = 0
<1>1. q \in Seq(DownFrame) /\ q \in Seq(UpFrame) /\ ToSet(q) = {}
  BY DEF ToSet
<1>2. Ordered(q, DBefore) /\ Ordered(q, UBefore)
  BY OrderedEmpty
<1>3. /\ \A g \in UpFrame : g.t = "ochunk" => g.d \in Seq(Nat)
      /\ \A g \in UpFrame : g.t = "pull" => g.n \in Nat
      /\ \A g \in DownFrame : g.t = "chunk" => g.d \in Seq(Nat)
      /\ \A g \in DownFrame : g.t = "opull" => g.n \in Nat
  BY UpFields, DownFields DEF Piece
<1>4. BytesIn(q, "chunk") = <<>> /\ CreditIn(q, "opull") = 0
  BY <1>1, <1>3, BytesType, CreditType
<1>5. BytesIn(q, "ochunk") = <<>> /\ CreditIn(q, "pull") = 0
  BY <1>1, <1>3, BytesType, CreditType
<1> QED BY <1>1, <1>2, <1>4, <1>5

-----------------------------------------------------------------------------
(* A step on a queue, by what it does to its frames, bytes and credit. *)

\* r is q with f behind it, for a queue to the run.
DownGets(q, r, f) ==
  /\ f \in DownFrame /\ r \in Seq(DownFrame) /\ ToSet(r) = ToSet(q) \cup {f}
  /\ BytesIn(r, "chunk") = IF f.t = "chunk" THEN BytesIn(q, "chunk") \o f.d ELSE BytesIn(q, "chunk")
  /\ CreditIn(r, "opull") = CreditIn(q, "opull") + IF f.t = "opull" THEN f.n ELSE 0
  /\ Ordered(q, DBefore) /\ (\A g \in ToSet(q) : DPair(g, f)) => Ordered(r, DBefore)

\* r is q with f behind it, for a queue to the host.
UpGets(q, r, f) ==
  /\ f \in UpFrame /\ r \in Seq(UpFrame) /\ ToSet(r) = ToSet(q) \cup {f}
  /\ BytesIn(r, "ochunk") = IF f.t = "ochunk" THEN BytesIn(q, "ochunk") \o f.d ELSE BytesIn(q, "ochunk")
  /\ CreditIn(r, "pull") = CreditIn(q, "pull") + IF f.t = "pull" THEN f.n ELSE 0
  /\ Ordered(q, UBefore) /\ (\A g \in ToSet(q) : UPair(g, f)) => Ordered(r, UBefore)

\* r is q without its first frame f, for a queue to the run.
DownLoses(q, r, f) ==
  /\ q # <<>> /\ f = Head(q) /\ f \in DownFrame /\ r \in Seq(DownFrame)
  /\ ToSet(q) = ToSet(r) \cup {f}
  /\ BytesIn(q, "chunk") = IF f.t = "chunk" THEN f.d \o BytesIn(r, "chunk") ELSE BytesIn(r, "chunk")
  /\ CreditIn(q, "opull") = CreditIn(r, "opull") + IF f.t = "opull" THEN f.n ELSE 0
  /\ Ordered(q, DBefore) => Ordered(r, DBefore) /\ \A g \in ToSet(r) : DPair(f, g)

\* r is q without its first frame f, for a queue to the host.
UpLoses(q, r, f) ==
  /\ q # <<>> /\ f = Head(q) /\ f \in UpFrame /\ r \in Seq(UpFrame)
  /\ ToSet(q) = ToSet(r) \cup {f}
  /\ BytesIn(q, "ochunk") = IF f.t = "ochunk" THEN f.d \o BytesIn(r, "ochunk") ELSE BytesIn(r, "ochunk")
  /\ CreditIn(q, "pull") = CreditIn(r, "pull") + IF f.t = "pull" THEN f.n ELSE 0
  /\ Ordered(q, UBefore) => Ordered(r, UBefore) /\ \A g \in ToSet(r) : UPair(f, g)

\* r is q with the frames F behind it, which carry neither bytes nor credit.
UpNotes(q, r, F) ==
  /\ F \subseteq UpFrame /\ r \in Seq(UpFrame) /\ ToSet(r) = ToSet(q) \cup F
  /\ BytesIn(r, "ochunk") = BytesIn(q, "ochunk") /\ CreditIn(r, "pull") = CreditIn(q, "pull")
  /\ Ordered(q, UBefore) /\ (\A g \in ToSet(q) : \A f \in F : UPair(g, f)) => Ordered(r, UBefore)

\* A frame appended is a frame more.
LEMMA Gets ==
  /\ \A q \in Seq(DownFrame), f \in DownFrame : DownGets(q, q \o <<f>>, f)
  /\ \A q \in Seq(UpFrame), f \in UpFrame : UpGets(q, q \o <<f>>, f)
<1>1. ASSUME NEW q \in Seq(DownFrame), NEW f \in DownFrame PROVE DownGets(q, q \o <<f>>, f)
  BY DownOne DEF DownGets
<1>2. ASSUME NEW q \in Seq(UpFrame), NEW f \in UpFrame PROVE UpGets(q, q \o <<f>>, f)
  BY UpOne DEF UpGets
<1> QED BY <1>1, <1>2

\* The tail is a frame less.
LEMMA Loses ==
  /\ \A q \in Seq(DownFrame) : q # <<>> => DownLoses(q, Tail(q), Head(q))
  /\ \A q \in Seq(UpFrame) : q # <<>> => UpLoses(q, Tail(q), Head(q))
<1>1. ASSUME NEW q \in Seq(DownFrame), q # <<>> PROVE DownLoses(q, Tail(q), Head(q))
  BY <1>1, DownHead DEF DownLoses
<1>2. ASSUME NEW q \in Seq(UpFrame), q # <<>> PROVE UpLoses(q, Tail(q), Head(q))
  BY <1>2, UpHead DEF UpLoses
<1> QED BY <1>1, <1>2

\* One frame that carries nothing.
LEMMA NoteOne ==
  ASSUME NEW q \in Seq(UpFrame), NEW f \in UpFrame, f.t \notin {"ochunk", "pull"}
  PROVE  UpNotes(q, q \o <<f>>, {f})
<1>1. UpGets(q, q \o <<f>>, f)
  BY Gets
<1>2. CreditIn(q, "pull") \in Nat
  BY UpOne
<1> QED BY <1>1, <1>2 DEF UpGets, UpNotes

\* No frame at all.
LEMMA NoteNone ==
  ASSUME NEW q \in Seq(UpFrame)
  PROVE  UpNotes(q, q \o <<>>, {})
<1>1. q \o <<>> = q
  BY ConcatEmptySeq
<1> QED BY <1>1 DEF UpNotes

\* Some such frames and then others, if they may follow each other.
LEMMA NoteMore ==
  ASSUME NEW q \in Seq(UpFrame), NEW r, NEW s, NEW F, NEW G, UpNotes(q, r, F), UpNotes(r, s, G),
         \A f \in F : \A g \in G : UPair(f, g)
  PROVE  UpNotes(q, s, F \cup G)
  BY DEF UpNotes

\* The frames a cancel and the end of a run write.
LEMMA NoteLast ==
  ASSUME NEW q \in Seq(UpFrame), NEW b \in BOOLEAN, NEW c \in BOOLEAN, NEW f \in {Result(FALSE), Complete}
  PROVE  /\ UpNotes(q, q \o ((IF b THEN <<OutEnd("err")>> ELSE <<>>) \o (IF c THEN <<CancelFrame>> ELSE <<>>)),
                    (IF b THEN {OutEnd("err")} ELSE {}) \cup (IF c THEN {CancelFrame} ELSE {}))
         /\ UpNotes(q, q \o (((IF b THEN <<OutEnd("err")>> ELSE <<>>) \o (IF c THEN <<CancelFrame>> ELSE <<>>)) \o <<f>>),
                    ((IF b THEN {OutEnd("err")} ELSE {}) \cup (IF c THEN {CancelFrame} ELSE {})) \cup {f})
<1>1. /\ OutEnd("err") \in UpFrame /\ CancelFrame \in UpFrame /\ f \in UpFrame
      /\ OutEnd("err").t = "oend" /\ CancelFrame.t = "cancel" /\ f.t \in {"result", "complete"}
  <2>1. OutEnd("err") \in UpFrame /\ CancelFrame \in UpFrame /\ Complete \in UpFrame
          /\ Result(FALSE) \in UpFrame
    BY FramesNew
  <2>2. OutEnd("err").t = "oend" /\ CancelFrame.t = "cancel" /\ Complete.t = "complete"
          /\ Result(FALSE).t = "result"
    BY FramesSay
  <2> QED BY <2>1, <2>2
<1>2. PICK x, X : x = (IF b THEN <<OutEnd("err")>> ELSE <<>>)
                    /\ X = (IF b THEN {OutEnd("err")} ELSE {})
  OBVIOUS
<1>3. PICK y, Y : y = (IF c THEN <<CancelFrame>> ELSE <<>>)
                    /\ Y = (IF c THEN {CancelFrame} ELSE {})
  OBVIOUS
<1>4. PICK z : z = <<f>>
  OBVIOUS
<1>5. x \in Seq(UpFrame) /\ y \in Seq(UpFrame) /\ z \in Seq(UpFrame)
  BY <1>1, <1>2, <1>3, <1>4
<1>6. UpNotes(q, q \o x, X) /\ q \o x \in Seq(UpFrame)
  <2>1. CASE b
    BY <1>1, <1>2, <2>1, NoteOne DEF UpNotes
  <2>2. CASE ~b
    BY <1>2, <2>2, NoteNone DEF UpNotes
  <2> QED BY <2>1, <2>2
<1>7. UpNotes(q \o x, (q \o x) \o y, Y) /\ (q \o x) \o y \in Seq(UpFrame)
  <2>0. PICK p : p = q \o x
    OBVIOUS
  <2>1. CASE c
    <3>1. UpNotes(p, p \o <<CancelFrame>>, {CancelFrame})
      BY <1>1, <1>6, <2>0, NoteOne
    <3> QED BY <1>3, <2>0, <2>1, <3>1 DEF UpNotes
  <2>2. CASE ~c
    <3>1. UpNotes(p, p \o <<>>, {})
      BY <1>6, <2>0, NoteNone
    <3> QED BY <1>3, <2>0, <2>2, <3>1 DEF UpNotes
  <2> QED BY <2>1, <2>2
<1>8. UpNotes(q, (q \o x) \o y, X \cup Y)
  <2>1. \A g \in X : \A h \in Y : UPair(g, h)
    BY <1>1, <1>2, <1>3 DEF UPair
  <2> QED BY <1>6, <1>7, <2>1, NoteMore
<1>9. UpNotes((q \o x) \o y, ((q \o x) \o y) \o z, {f})
  <2>0. PICK p : p = (q \o x) \o y
    OBVIOUS
  <2>1. UpNotes(p, p \o <<f>>, {f})
    BY <1>1, <1>7, <2>0, NoteOne
  <2> QED BY <1>4, <2>0, <2>1
<1>10. UpNotes(q, ((q \o x) \o y) \o z, (X \cup Y) \cup {f})
  <2>1. \A g \in X \cup Y : \A h \in {f} : UPair(g, h)
    BY <1>1, <1>2, <1>3 DEF UPair
  <2> QED BY <1>8, <1>9, <2>1, NoteMore
<1>11. (q \o x) \o y = q \o (x \o y)
  <2>1. Cat(Cat(q, x), y) = Cat(q, Cat(x, y))
    BY <1>5, CatAssoc
  <2> QED BY <2>1 DEF Cat
<1>12. (q \o (x \o y)) \o z = q \o ((x \o y) \o z)
  <2>1. x \o y \in Seq(UpFrame)
    BY <1>5, ConcatProperties
  <2>2. PICK v : v = x \o y
    OBVIOUS
  <2>3. (q \o v) \o z = q \o (v \o z)
    <3>1. q \in Seq(UpFrame) /\ v \in Seq(UpFrame) /\ z \in Seq(UpFrame)
      BY <1>5, <2>1, <2>2
    <3>2. Cat(Cat(q, v), z) = Cat(q, Cat(v, z))
      BY <3>1, CatAssoc
    <3> QED BY <3>2 DEF Cat
  <2> QED BY <2>2, <2>3
<1>13. UpNotes(q, q \o (x \o y), X \cup Y)
  BY <1>8, <1>11
<1>14. UpNotes(q, q \o ((x \o y) \o z), (X \cup Y) \cup {f})
  BY <1>10, <1>11, <1>12
<1> QED BY <1>2, <1>3, <1>4, <1>13, <1>14

-----------------------------------------------------------------------------
(* The steps. *)

\* The host sends f, to a run that is still there to read it.
HostSaid(f) == IF run.phase = "over" THEN down' = down ELSE DownGets(down, down', f)

\* The run stays in its phase; a turn is taken only in the grace phase.
RunKeeps ==
  /\ run'.phase = run.phase /\ run'.violated = run.violated
  /\ run'.turn # "no" => run.phase = "grace"

\* The pump goes to read the source s.
Fetches(s) ==
  src' = [s EXCEPT !.pump = "read"] /\ s.credit > 0 /\ ~s.done /\ s.prefix = <<>> /\ down' = down

\* The pump of s stops, for want of credit or because s is done.
Stops(s) == src' = [s EXCEPT !.pump = "off"] /\ (s.credit = 0 \/ s.done) /\ down' = down

\* The pump of s is busy and goes on with what it does.
Stays(s) == src' = s /\ s.pump # "off" /\ down' = down

\* The pump sends the front of what s holds, within credit and chunk limit.
Sends(s) ==
  \E d \in Piece :
    /\ Len(d) <= s.credit /\ Len(d) <= MaxChunk
    /\ src'.at = s.at /\ src'.read = s.read /\ src'.done = s.done
    /\ src'.pump = "write" /\ src'.credit = s.credit - Len(d)
    /\ Bytes(s.prefix) = d \o Bytes(src'.prefix)
    /\ HostSaid(Chunk(d))

\* What PumpOn does with the source s.
Pumps(s) == Fetches(s) \/ (s.credit > 0 /\ ~s.done /\ Sends(s)) \/ Stops(s)

\* The step is the source's alone.
SourceOnly == UNCHANGED <<gin, out, run, entry, ost, cons, conn, got, outGot>>

\* A write is through and the pump goes on.
GoesOn == src.pump = "write" /\ Pumps(src) /\ up' = up /\ SourceOnly

\* The stream is activated with a window of credit.
Starts ==
  /\ src.at = "reg" /\ Pumps([src EXCEPT !.at = "on", !.credit = Window]) /\ up' = up
  /\ SourceOnly

\* Credit from the guest reaches the source.
Credited ==
  \E n \in Nat :
    /\ UpLoses(up, up', Pull(n)) /\ src.at # "gone"
    /\ Pumps([src EXCEPT !.credit = @ + n]) \/ Stays([src EXCEPT !.credit = @ + n])
    /\ SourceOnly

\* The source yields the next bytes.
Yields ==
  \E c \in Piece :
    /\ src.pump = "read" /\ src.read + Len(c) <= SourceLen
    /\ c = [i \in 1..Len(c) |-> src.read + i]
    /\ Sends([src EXCEPT !.prefix = <<c>>, !.read = @ + Len(c)])
    /\ up' = up /\ SourceOnly

\* The source ends or fails, and the run is told.
Finishes ==
  \E how \in {"ok", "err"}, p \in {"end", "off"} :
    /\ src.pump \in {"read", "write"}
    /\ how = "ok" => src.pump = "read" /\ (src.read = SourceLen \/ src.done)
    /\ src' = [src EXCEPT !.pump = p, !.done = TRUE, !.at = "gone"]
    /\ HostSaid(End(how)) /\ up' = up /\ SourceOnly

\* The pump has written the end.
Rests == src.pump = "end" /\ src' = [src EXCEPT !.pump = "off"] /\ down' = down /\ up' = up
  /\ SourceOnly

\* A cancel of the guest reaches the source.
Forgets ==
  /\ UpLoses(up, up', CancelFrame) /\ src' \in {src, Released} /\ down' = down /\ SourceOnly

\* Credit comes for a source that is gone.
Ignores ==
  /\ \E n \in Nat : UpLoses(up, up', Pull(n))
  /\ entry = "gone" \/ src.at = "gone"
  /\ src' = src /\ down' = down /\ SourceOnly

\* The step is the guest's alone.
GuestOnly == UNCHANGED <<src, entry, ost, cons, conn, outGot>> /\ RunKeeps

\* The guest reads a buffered chunk and grants its credit back.
Reads ==
  \E x \in Piece :
    /\ run.phase = "exec" /\ gin.buf # <<>> /\ x = Head(gin.buf)
    /\ gin' = [gin EXCEPT !.buf = Tail(@)] /\ Bytes(gin.buf) = x \o Bytes(gin'.buf)
    /\ got' = got \o x /\ UpGets(up, up', Pull(Len(x)))
    /\ down' = down /\ out' = out /\ GuestOnly

\* The guest's read finds nothing and is left pending.
Waits ==
  /\ run.phase = "exec" /\ gin.buf = <<>> /\ ~gin.cancelled /\ gin.ended = "no"
  /\ gin' = [gin EXCEPT !.pending = TRUE]
  /\ down' = down /\ up' = up /\ out' = out /\ got' = got /\ GuestOnly

\* The guest's half of a cancelled stream.
Cut == [gin EXCEPT !.cancelled = TRUE, !.pending = FALSE, !.buf = <<>>]

\* The guest cancels the request body.
Cancels ==
  /\ run.phase = "exec" /\ gin' \in {gin, Cut}
  /\ \E F \in SUBSET {CancelFrame} : UpNotes(up, up', F) /\ (CancelFrame \in F => gin' = Cut)
  /\ down' = down /\ out' = out /\ got' = got /\ GuestOnly

\* The chunk d is delivered to the guest.
ChunkComes(d) == d \in Piece /\ DownLoses(down, down', Chunk(d)) /\ GuestOnly

\* It is for a cancelled stream.
Drops ==
  \E d : ChunkComes(d) /\ gin.cancelled /\ UNCHANGED <<gin, out, up, got>>

\* It answers the read of a pipe.
Feeds ==
  \E d :
    /\ ChunkComes(d) /\ gin.pending /\ out.on = "pipe" /\ out.pull = "pending"
    /\ gin' = [gin EXCEPT !.pending = FALSE] /\ out' = [out EXCEPT !.pull = "chunk", !.data = d]
    /\ UpGets(up, up', Pull(Len(d))) /\ got' = got

\* It answers a read of the guest itself.
Answers ==
  \E d :
    /\ ChunkComes(d) /\ gin.pending /\ ~(out.on = "pipe" /\ out.pull = "pending")
    /\ gin' = [gin EXCEPT !.pending = FALSE] /\ out' = out
    /\ UpGets(up, up', Pull(Len(d))) /\ got' = got \o d

\* Nobody waits for it.
Buffers ==
  \E d :
    /\ ChunkComes(d) /\ ~gin.cancelled /\ ~gin.pending
    /\ gin' = [gin EXCEPT !.buf = Append(@, d)] /\ Bytes(gin'.buf) = Bytes(gin.buf) \o d
    /\ UNCHANGED <<out, up, got>>

\* The end of the request body is delivered, and answers a read.
EndComes ==
  \E how \in {"ok", "err"} :
    /\ DownLoses(down, down', End(how)) /\ GuestOnly
    /\ gin' = [gin EXCEPT !.ended = how, !.pending = FALSE]
    /\ \/ /\ gin.pending /\ out.on = "pipe" /\ out.pull = "pending"
          /\ out' = [out EXCEPT !.pull = IF how = "ok" THEN "eof" ELSE "err", !.data = <<>>]
       \/ out' = out /\ ~(gin.pending /\ out.on = "pipe" /\ out.pull = "pending")
    /\ up' = up /\ got' = got

\* The run returns a body: the request body piped, or one of its own.
Returns ==
  /\ run.phase = "exec" /\ run'.phase = "grace" /\ run'.violated = run.violated
  /\ out' = [out EXCEPT !.on = IF src.read > 0 THEN "pipe" ELSE "own", !.credit = Window]
  /\ UpNotes(up, up', {Result(TRUE)})
  /\ UNCHANGED <<src, down, gin, entry, ost, cons, conn, got, outGot>>

\* The step is the drive's, of a body that is not done.
DriveOnly == run.phase = "grace" /\ out.on # "no" /\ ~out.done /\ down' = down /\ got' = got
  /\ GuestOnly

\* The front of the backlog is sent, within credit.
Flushes ==
  \E d, r \in Piece :
    /\ out.backlog # <<>> /\ out.backlog = d \o r /\ Len(d) <= out.credit
    /\ out' = [out EXCEPT !.backlog = r, !.credit = @ - Len(d)]
    /\ UpGets(up, up', OutChunk(d)) /\ gin' = gin /\ DriveOnly

\* A pulled chunk becomes the backlog.
Settles ==
  /\ out.pull = "chunk" /\ out.backlog = <<>>
  /\ out' = [out EXCEPT !.pull = "none", !.data = <<>>, !.backlog = out.data]
  /\ up' = up /\ gin' = gin /\ DriveOnly

\* A pull that ended ends the body.
SaysEnd ==
  \E how \in {"ok", "err"} :
    /\ out.pull \in {"eof", "err"} /\ out.backlog = <<>> /\ (how = "ok" => out.pull = "eof")
    /\ out' = [out EXCEPT !.pull = "none", !.done = TRUE]
    /\ UpNotes(up, up', {OutEnd(how)}) /\ gin' = gin /\ DriveOnly

\* A pull of the piped request body starts.
PipeOnly == out.on = "pipe" /\ out.pull = "none" /\ out.backlog = <<>> /\ DriveOnly

\* It finds a chunk.
PullsChunk ==
  \E x \in Piece :
    /\ gin.buf # <<>> /\ x = Head(gin.buf)
    /\ gin' = [gin EXCEPT !.buf = Tail(@)] /\ Bytes(gin.buf) = x \o Bytes(gin'.buf)
    /\ out' = [out EXCEPT !.pull = "chunk", !.data = x]
    /\ UpGets(up, up', Pull(Len(x))) /\ PipeOnly

\* It finds nothing and waits.
PullsWait ==
  /\ gin.buf = <<>> /\ ~gin.cancelled /\ gin.ended = "no" /\ ~gin.pending
  /\ gin' = [gin EXCEPT !.pending = TRUE] /\ out' = [out EXCEPT !.pull = "pending", !.data = <<>>]
  /\ up' = up /\ PipeOnly

\* It finds the end.
PullsEnd ==
  \E f \in {"eof", "err"} :
    /\ f = "eof" => gin.buf = <<>> /\ (gin.cancelled \/ gin.ended = "ok")
    /\ gin' = gin /\ out' = [out EXCEPT !.pull = f, !.data = <<>>]
    /\ up' = up /\ PipeOnly

\* A pull of the guest's own body.
OwnOnly == out.on = "own" /\ out.pull \in {"none", "pending"} /\ out.backlog = <<>>
  /\ out.data = <<>>
           /\ up' = up /\ gin' = gin /\ DriveOnly

\* It is left pending, or ends.
OwnWaits == \E f \in {"pending", "eof", "err"} : out' = [out EXCEPT !.pull = f] /\ OwnOnly

\* It yields the next bytes.
OwnYields ==
  \E n \in Nat :
    /\ out' = [out EXCEPT !.pull = "chunk", !.data = OwnChunk(n), !.made = @ + n] /\ OwnOnly

\* Credit from the host reaches the returned body.
TakesGrant ==
  \E n \in Nat :
    /\ DownLoses(down, down', OutPull(n))
    /\ out' = [out EXCEPT !.credit = IF out.done THEN @ ELSE @ + n]
    /\ UNCHANGED <<up, gin, got>> /\ GuestOnly

\* A cancel of the host comes for a body that is done.
CancelLate ==
  DownLoses(down, down', OutCancel) /\ UNCHANGED <<up, gin, out, got>> /\ GuestOnly

\* The guest's half of a returned body that is cut short.
Hush == [out EXCEPT !.done = TRUE, !.pull = "none", !.data = <<>>, !.backlog = <<>>]

\* The returned body is cut short, by the host or for idling, and the request
\* body with it if it is piped.
CutsOut ==
  /\ run.phase = "grace" /\ out.on # "no" /\ ~out.done /\ out' = Hush
  /\ down' = down \/ DownLoses(down, down', OutCancel)
  /\ \E F \in SUBSET {OutEnd("err"), CancelFrame} :
       /\ UpNotes(up, up', F)
       /\ OutEnd("err") \in F \/ DownLoses(down, down', OutCancel)
       /\ CancelFrame \in F => gin' = Cut
  /\ gin' \in {gin, Cut} /\ (out.on = "pipe" => ~gin'.pending)
  /\ got' = got /\ GuestOnly

\* What the end of a run leaves.
Swept ==
  /\ run'.phase = "over" /\ run'.turn = "no" /\ run'.violated = run.violated
  /\ out' = [out EXCEPT !.done = out.on # "no", !.pull = "none", !.data = <<>>,
                        !.backlog = <<>>, !.credit = 0]
  /\ gin' = [gin EXCEPT !.pending = FALSE, !.buf = <<>>]
  /\ down' = <<>>

\* The run ends and says so, after the end of a body that was still open.
Ending ==
  /\ run.phase # "over" /\ Swept
  /\ \E F, last :
       /\ last \in {Result(FALSE), Complete} /\ (last = Complete <=> run.phase = "grace")
       /\ F \subseteq {OutEnd("err"), CancelFrame, last} /\ last \in F
       /\ OutEnd("err") \in F <=> (out.on # "no" /\ ~out.done)
       /\ UpNotes(up, up', F)
  /\ UNCHANGED <<src, entry, ost, cons, conn, got, outGot>>

\* The connection is lost, and the run with it.
Cuts ==
  /\ conn = "up" /\ conn' = "lost" /\ up' = <<>> /\ Swept
  /\ UNCHANGED <<src, entry, ost, cons, got, outGot>>

\* The step is the host's alone.
RouteOnly == UNCHANGED <<down, gin, out, run, conn, got>>

\* A waiting consumer is woken.
Woken == cons' = IF cons = "waiting" THEN "woken" ELSE cons

\* A chunk of the returned body reaches the host.
TakesChunk ==
  \E d \in Piece :
    /\ UpLoses(up, up', OutChunk(d))
    /\ \/ /\ ~ost.cancelled /\ ost' = [ost EXCEPT !.buf = Append(@, d)]
          /\ Bytes(ost'.buf) = Bytes(ost.buf) \o d /\ Woken
       \/ ost.cancelled /\ UNCHANGED <<ost, cons>>
    /\ UNCHANGED <<src, entry, outGot>> /\ RouteOnly

\* Its end does.
TakesEnd ==
  \E how \in {"ok", "err"} :
    /\ UpLoses(up, up', OutEnd(how)) /\ ost' = [ost EXCEPT !.ended = how] /\ Woken
    /\ UNCHANGED <<src, entry, outGot>> /\ RouteOnly

\* A result with a body reaches the host.
TakesBody ==
  /\ UpLoses(up, up', Result(TRUE)) /\ entry' = "epilogue" /\ cons' = "decode"
  /\ UNCHANGED <<src, ost, outGot>> /\ RouteOnly

\* A result without one does; the run is forgotten.
TakesResult ==
  /\ UpLoses(up, up', Result(FALSE)) /\ entry' = "gone" /\ src' = Released
  /\ UNCHANGED <<ost, cons, outGot>> /\ RouteOnly

\* The consumer is given the body.
Attaches == cons = "decode" /\ cons' = "idle" /\ UNCHANGED <<src, up, entry, ost, outGot>>
  /\ RouteOnly

\* A body that has no outcome yet fails.
Fails ==
  \/ /\ ost.ended = "no" /\ ~ost.cancelled /\ ~ost.failed
     /\ ost' = [ost EXCEPT !.failed = TRUE] /\ Woken
  \/ UNCHANGED <<ost, cons>>

\* The completion of the run reaches the host; the run is forgotten.
Completes ==
  /\ UpLoses(up, up', Complete) /\ entry' = "gone" /\ src' = Released /\ Fails
  /\ outGot' = outGot /\ RouteOnly

\* The host sees that the connection is lost.
SeesLoss ==
  /\ conn = "lost" /\ entry' = "gone" /\ src' = Released /\ Fails
  /\ UNCHANGED <<up, outGot>> /\ RouteOnly

\* The consumer is served a chunk, and its credit goes back.
Serves ==
  \E d \in Piece :
    /\ cons \in {"idle", "woken"} /\ cons' = "idle"
    /\ ost.buf # <<>> /\ ost' = [ost EXCEPT !.buf = Tail(@)]
    /\ Bytes(ost.buf) = d \o Bytes(ost'.buf) /\ outGot' = outGot \o d
    /\ HostSaid(OutPull(Len(d)))
    /\ UNCHANGED <<src, up, gin, out, run, entry, conn, got>>

\* A pull of the consumer finds no chunk.
Turns ==
  /\ cons \in {"idle", "woken"} /\ ost.buf = <<>>
  /\ cons' \in {"errored", "closed", "waiting"} /\ (cons' = "closed" => ost.ended = "ok")
  /\ UNCHANGED <<src, up, entry, ost, outGot>> /\ RouteOnly

\* The consumer cancels.
Quits ==
  /\ cons \in {"idle", "waiting", "woken"} /\ cons' = "cancelled"
  /\ ost' = [ost EXCEPT !.cancelled = TRUE, !.buf = <<>>]
  /\ down' = down \/ HostSaid(OutCancel)
  /\ UNCHANGED <<src, up, gin, out, run, entry, conn, got, outGot>>

\* Nothing that the invariant speaks of moves, but the turn of the run.
Idles == UNCHANGED <<src, down, up, gin, out, entry, ost, cons, conn, got, outGot>> /\ RunKeeps

\* The steps of the source.
SourceSteps == GoesOn \/ Starts \/ Credited \/ Yields \/ Finishes \/ Rests \/ Forgets \/ Ignores

\* The steps of the guest on the request body.
GuestSteps == Reads \/ Waits \/ Cancels \/ Drops \/ Feeds \/ Answers \/ Buffers \/ EndComes

\* The steps of the drive of the returned body.
DriveSteps == Flushes \/ Settles \/ SaysEnd \/ PullsChunk \/ PullsWait \/ PullsEnd \/ OwnWaits
  \/ OwnYields

\* The other steps of the run.
OutSteps == Returns \/ TakesGrant \/ CancelLate \/ CutsOut \/ Ending \/ Cuts

\* The steps of the host.
RouteSteps ==
  \/ TakesChunk \/ TakesEnd \/ TakesBody \/ TakesResult \/ Attaches \/ Completes \/ SeesLoss
  \/ Serves \/ Turns \/ Quits \/ Idles

\* All of them.
Steps == SourceSteps \/ GuestSteps \/ DriveSteps \/ OutSteps \/ RouteSteps

-----------------------------------------------------------------------------
(* Chunks cut in two, and runs of numbered bytes. *)

\* Two sequences of bytes one behind the other.
LEMMA NatConcat ==
  ASSUME NEW s1 \in Seq(Nat), NEW s2 \in Seq(Nat)
  PROVE  /\ s1 \o s2 \in Seq(Nat)
         /\ Len(s1 \o s2) = Len(s1) + Len(s2)
         /\ \A i \in 1..(Len(s1) + Len(s2)) : (s1 \o s2)[i] =
                IF i <= Len(s1) THEN s1[i] ELSE s2[i - Len(s1)]
  BY ConcatProperties

\* Front1 and Rest cut a piece in two.
LEMMA Halves ==
  ASSUME NEW c \in Piece, NEW n \in 0..Len(c)
  PROVE  /\ Front1(c, n) \in Piece /\ Len(Front1(c, n)) = n
         /\ Rest(c, n) \in Piece /\ Len(Rest(c, n)) = Len(c) - n
         /\ c = Front1(c, n) \o Rest(c, n)
         /\ n = Len(c) => Front1(c, n) = c
<1>1. Len(c) \in Nat /\ n \in Nat /\ n <= Len(c) /\ c \in Seq(Nat)
  BY DEF Piece
<1>2. /\ Front1(c, n) \in Seq(Nat) /\ Len(Front1(c, n)) = n
      /\ \A i \in 1..n : Front1(c, n)[i] = c[i]
  BY <1>1, BeginningOf DEF Front1
<1>3. PICK r : r = Rest(c, n)
  OBVIOUS
<1>4. /\ r \in Seq(Nat) /\ Len(r) = Len(c) - n
      /\ \A i \in 1..(Len(c) - n) : r[i] = c[n + i]
  <2>1. CASE n < Len(c)
    <3>1. n + 1 \in 1..Len(c) /\ Len(c) \in (n+1)..Len(c)
      BY <1>1, <2>1
    <3>2. PICK k \in Int, l \in Int : k = n + 1 /\ l = Len(c)
      BY <1>1
    <3>3. \A i \in k..l : c[i] \in Nat
      BY <1>1, <3>2
    <3>4. /\ SubSeq(c, k, l) \in Seq(Nat)
               /\ Len(SubSeq(c, k, l)) = IF k <= l THEN l - k + 1 ELSE 0
          /\ \A i \in 1..(l - k + 1) : SubSeq(c, k, l)[i] = c[k + i - 1]
      BY <3>3, SubSeqProperties
    <3>5. r = SubSeq(c, k, l)
      BY <1>3, <3>2 DEF Rest
    <3>6. r \in Seq(Nat) /\ Len(r) = l - n /\ \A i \in 1..(l - n) : r[i] = c[n + i]
      BY <1>1, <2>1, <3>2, <3>4, <3>5
    <3> QED BY <3>2, <3>6
  <2>2. CASE n = Len(c)
    <3>1. Rest(c, n) = <<>>
      BY <1>1, <2>2, EmptySeq DEF Rest
    <3> QED BY <1>1, <1>3, <2>2, <3>1
  <2> QED BY <1>1, <2>1, <2>2
<1>5. PICK f : f = Front1(c, n)
  OBVIOUS
<1>6. c = f \o r
  <2>1. Len(f \o r) = Len(c) /\ f \o r \in Seq(Nat)
    <3>1. f \in Seq(Nat) /\ Len(f) = n /\ r \in Seq(Nat) /\ Len(r) = Len(c) - n
      BY <1>2, <1>4, <1>5
    <3>2. f \o r \in Seq(Nat) /\ Len(f \o r) = Len(f) + Len(r)
      BY <3>1, NatConcat
    <3> QED BY <1>1, <3>1, <3>2
  <2>2. ASSUME NEW i \in 1..Len(c) PROVE (f \o r)[i] = c[i]
    <3>1. f \in Seq(Nat) /\ Len(f) = n /\ r \in Seq(Nat) /\ Len(r) = Len(c) - n
      BY <1>2, <1>4, <1>5
    <3>2. (f \o r)[i] = IF i <= n THEN f[i] ELSE r[i - n]
      BY <1>1, <3>1, NatConcat
    <3>3. CASE i <= n
      BY <1>1, <1>2, <1>5, <3>2, <3>3
    <3>4. CASE ~(i <= n)
      <4>1. i - n \in 1..(Len(c) - n) /\ n + (i - n) = i
        BY <1>1, <3>4
      <4> QED BY <1>4, <3>2, <3>4, <4>1
    <3> QED BY <3>3, <3>4
  <2> QED BY <1>1, <2>1, <2>2, SeqEqual
<1>7. n = Len(c) => f = c
  BY <1>1, <1>2, <1>5, SeqEqual
<1> QED BY <1>2, <1>3, <1>4, <1>5, <1>6, <1>7 DEF Piece

\* LowerOf is at most either number.
LEMMA LowerIs ==
  ASSUME NEW a \in Nat, NEW b \in Nat
  PROVE  LowerOf(a, b) \in Nat /\ LowerOf(a, b) <= a /\ LowerOf(a, b) <= b
  BY DEF LowerOf

\* Numbered bytes, and the next ones behind them.
LEMMA Runs ==
  /\ \A n \in Nat : Count(n) \in Piece /\ Len(Count(n)) = n /\ Own(n) \in Piece /\ Len(Own(n)) = n
  /\ \A m, n \in Nat : /\ [i \in 1..n |-> m + i] \in Piece /\ Len([i \in 1..n |-> m + i]) = n
                       /\ [i \in 1..n |-> 100 + m + i] \in Piece
                       /\ Count(m) \o [i \in 1..n |-> m + i] = Count(m + n)
                       /\ Own(m) \o [i \in 1..n |-> 100 + m + i] = Own(m + n)
<1>1. ASSUME NEW n \in Nat
      PROVE  Count(n) \in Piece /\ Len(Count(n)) = n /\ Own(n) \in Piece /\ Len(Own(n)) = n
  BY DEF Piece, Count, Own
<1>2. ASSUME NEW m \in Nat, NEW n \in Nat
      PROVE  /\ [i \in 1..n |-> m + i] \in Piece /\ Len([i \in 1..n |-> m + i]) = n
             /\ [i \in 1..n |-> 100 + m + i] \in Piece
             /\ Count(m) \o [i \in 1..n |-> m + i] = Count(m + n)
             /\ Own(m) \o [i \in 1..n |-> 100 + m + i] = Own(m + n)
  <2>1. PICK a : a = [i \in 1..n |-> m + i]
    OBVIOUS
  <2>2. PICK b : b = [i \in 1..n |-> 100 + m + i]
    OBVIOUS
  <2>3. a \in Seq(Nat) /\ Len(a) = n /\ \A i \in 1..n : a[i] = m + i
    BY <2>1
  <2>4. b \in Seq(Nat) /\ Len(b) = n /\ \A i \in 1..n : b[i] = 100 + m + i
    BY <2>2
  <2>5. Count(m) \o a = Count(m + n)
    <3>1. PICK u, w : u = Count(m) /\ w = Count(m + n)
      OBVIOUS
    <3>2. u \in Seq(Nat) /\ Len(u) = m /\ \A i \in 1..m : u[i] = i
      BY <3>1 DEF Count
    <3>3. w \in Seq(Nat) /\ Len(w) = m + n /\ \A i \in 1..(m + n) : w[i] = i
      BY <3>1 DEF Count
    <3>4. u \o a \in Seq(Nat) /\ Len(u \o a) = m + n
      BY <2>3, <3>2, NatConcat
    <3>5. \A i \in 1..(m + n) : (u \o a)[i] = i
      BY <2>3, <3>2, NatConcat
    <3> QED BY <3>1, <3>3, <3>4, <3>5, SeqEqual
  <2>6. Own(m) \o b = Own(m + n)
    <3>1. PICK u, w : u = Own(m) /\ w = Own(m + n)
      OBVIOUS
    <3>2. u \in Seq(Nat) /\ Len(u) = m /\ \A i \in 1..m : u[i] = 100 + i
      BY <3>1 DEF Own
    <3>3. w \in Seq(Nat) /\ Len(w) = m + n /\ \A i \in 1..(m + n) : w[i] = 100 + i
      BY <3>1 DEF Own
    <3>4. u \o b \in Seq(Nat) /\ Len(u \o b) = m + n
      BY <2>4, <3>2, NatConcat
    <3>5. \A i \in 1..(m + n) : (u \o b)[i] = 100 + i
      <4>1. \A i \in 1..(m + n) : (u \o b)[i] = IF i <= m THEN u[i] ELSE b[i - m]
        BY <2>4, <3>2, NatConcat
      <4>2. \A i \in 1..(m + n) : (i <= m => i \in 1..m) /\ (~(i <= m) => i - m \in 1..n)
        OBVIOUS
      <4> QED BY <2>4, <3>2, <4>1, <4>2
    <3>6. PICK x : x = u \o b
      OBVIOUS
    <3>7. x \in Seq(Nat) /\ Len(x) = Len(w) /\ \A i \in 1..Len(x) : x[i] = w[i]
      BY <3>3, <3>4, <3>5, <3>6
    <3>8. x = w
      BY <3>3, <3>7, SeqEqual
    <3> QED BY <3>1, <3>6, <3>8
  <2> QED BY <2>1, <2>2, <2>3, <2>4, <2>5, <2>6 DEF Piece
<1> QED BY <1>1, <1>2

-----------------------------------------------------------------------------
(* Every action is one of the steps: the source and its pump. *)

\* What the host sends is said.
LEMMA HostSpeaks ==
  ASSUME Types, Phases, NEW f \in DownFrame, HostSends(<<f>>)
  PROVE  HostSaid(f) /\ down' \in Seq(DownFrame)
<1>1. down \in Seq(DownFrame) /\ conn \in {"up", "lost"}
  BY DEF Types
<1>2. DownGets(down, down \o <<f>>, f)
  BY <1>1, Gets
<1>3. conn = "lost" => run.phase = "over"
  BY DEF Phases, Talk, Over, Gone
<1>4. CASE run.phase = "over"
  BY <1>1, <1>4 DEF HostSends, HostSaid
<1>5. CASE run.phase # "over"
  <2>1. down' = down \o <<f>>
    BY <1>1, <1>3, <1>5 DEF HostSends
  <2> QED BY <1>2, <1>5, <2>1 DEF HostSaid, DownGets
<1> QED BY <1>4, <1>5

\* What a run that is not over sends is in the queue.
LEMMA GuestSpeaks ==
  ASSUME Types, Phases, run.phase # "over", NEW f \in UpFrame, GuestSends(<<f>>)
  PROVE  UpGets(up, up', f) /\ up' \in Seq(UpFrame)
<1>1. up \in Seq(UpFrame) /\ conn \in {"up", "lost"}
  BY DEF Types
<1>2. UpGets(up, up \o <<f>>, f)
  BY <1>1, Gets
<1>3. conn = "up"
  BY <1>1 DEF Phases, Talk, Over, Gone
<1>4. up' = up \o <<f>>
  BY <1>3 DEF GuestSends
<1> QED BY <1>2, <1>4 DEF UpGets

\* Sending nothing changes nothing, for the run.
LEMMA GuestSilent ==
  ASSUME Types, GuestSends(<<>>)
  PROVE  up' = up
<1>1. up \in Seq(UpFrame)
  BY DEF Types
<1>2. up \o <<>> = up
  BY <1>1, ConcatEmptySeq
<1> QED BY <1>2 DEF GuestSends

\* Sending nothing changes nothing, for the host.
LEMMA HostSilent ==
  ASSUME Types, HostSends(<<>>)
  PROVE  down' = down
<1>1. down \in Seq(DownFrame)
  BY DEF Types
<1>2. down \o <<>> = down
  BY <1>1, ConcatEmptySeq
<1> QED BY <1>2 DEF HostSends

\* A source that sends the beginning of its first chunk.
LEMMA SendsPiece ==
  ASSUME Types, Phases, NEW s \in SrcRec, s.prefix # <<>>,
         NEW c, c = Head(s.prefix), NEW n, n = LowerOf(LowerOf(MaxChunk, s.credit), Len(c)),
         src' = [s EXCEPT !.pump = "write", !.prefix = (IF n < Len(c) THEN <<Rest(c, n)>> ELSE <<>>) \o Tail(s.prefix),
                          !.credit = @ - n],
         HostSends(<<Chunk(Front1(c, n))>>)
  PROVE  Sends(s) /\ src' \in SrcRec /\ down' \in Seq(DownFrame)
<1>1. s.prefix \in Seq(Piece) /\ s.credit \in Nat /\ MaxChunk \in Nat
  BY StreamsAssumption DEF SrcRec
<1>2. c \in Piece /\ Tail(s.prefix) \in Seq(Piece) /\ Bytes(s.prefix) = c \o Bytes(Tail(s.prefix))
      /\ Bytes(Tail(s.prefix)) \in Piece
  BY <1>1, BytesHead
<1>3. n \in 0..Len(c) /\ n <= s.credit /\ n <= MaxChunk /\ n \in Nat
  <2>1. Len(c) \in Nat
    BY <1>2 DEF Piece
  <2>2. LowerOf(MaxChunk, s.credit) \in Nat /\ LowerOf(MaxChunk, s.credit) <= MaxChunk
          /\ LowerOf(MaxChunk, s.credit) <= s.credit
    BY <1>1, LowerIs
  <2>3. n \in Nat /\ n <= LowerOf(MaxChunk, s.credit) /\ n <= Len(c)
    BY <2>1, <2>2, LowerIs
  <2> QED BY <1>1, <2>1, <2>2, <2>3
<1>4. PICK d, r, t : d = Front1(c, n) /\ r = Rest(c, n) /\ t = Tail(s.prefix)
  OBVIOUS
<1>5. d \in Piece /\ Len(d) = n /\ r \in Piece /\ c = d \o r /\ (n = Len(c) => d = c)
  BY <1>2, <1>3, <1>4, Halves
<1>6. PICK p : p = (IF n < Len(c) THEN <<r>> ELSE <<>>) \o t
  OBVIOUS
<1>7. p \in Seq(Piece) /\ c \o Bytes(t) = d \o Bytes(p)
  <2>1. CASE n < Len(c)
    <3>1. PICK u : u = <<r>>
      OBVIOUS
    <3>2. u \in Seq(Seq(Nat)) /\ t \in Seq(Seq(Nat)) /\ p = u \o t
      <4>1. r \in Seq(Nat)
        BY <1>5 DEF Piece
      <4>2. u \in Seq(Seq(Nat))
        BY <3>1, <4>1
      <4>3. t \in Seq(Seq(Nat))
        BY <1>2, <1>4 DEF Piece
      <4>4. p = u \o t
        BY <1>6, <2>1, <3>1
      <4> QED BY <4>2, <4>3, <4>4
    <3>3. Joined(u \o t) = Joined(u) \o Joined(t)
      BY <3>2, JoinedBoth
    <3>4. Joined(u) = r
      BY <1>5, <3>1, JoinedOne DEF Piece
    <3>5. u \o t \in Seq(Seq(Nat))
      BY <3>2, ConcatProperties
    <3>6. Bytes(p) = r \o Bytes(t)
      BY <3>2, <3>3, <3>4 DEF Bytes
    <3>7. PICK b : b = Bytes(t)
      OBVIOUS
    <3>8. b \in Seq(Nat) /\ d \in Seq(Nat) /\ r \in Seq(Nat)
      BY <1>2, <1>4, <1>5, <3>7 DEF Piece
    <3>9. (d \o r) \o b = d \o (r \o b)
      BY <3>8, ConcatAssociative
    <3> QED BY <1>5, <3>2, <3>5, <3>6, <3>7, <3>9 DEF Piece
  <2>2. CASE ~(n < Len(c))
    <3>1. n = Len(c)
      BY <1>3, <2>2
    <3>2. p = t
      <4>1. t \in Seq(Piece)
        BY <1>2, <1>4
      <4>2. <<>> \o t = t
        BY <4>1, ConcatEmptySeq
      <4> QED BY <1>6, <2>2, <4>2
    <3> QED BY <1>2, <1>4, <1>5, <3>1, <3>2
  <2> QED BY <2>1, <2>2
<1>8. src' = [s EXCEPT !.pump = "write", !.prefix = p, !.credit = @ - n]
  BY <1>4, <1>6
<1>9. /\ src'.at = s.at /\ src'.read = s.read /\ src'.done = s.done /\ src'.pump = "write"
      /\ src'.credit = s.credit - n /\ src'.prefix = p /\ src' \in SrcRec
  <2>1. s.credit - n \in Nat
    BY <1>1, <1>3
  <2> QED BY <1>7, <1>8, <2>1 DEF SrcRec
<1>10. Chunk(d) \in DownFrame
  BY <1>5, FramesNew
<1>11. HostSaid(Chunk(d)) /\ down' \in Seq(DownFrame)
  BY <1>4, <1>10, HostSpeaks
<1>12. Bytes(s.prefix) = d \o Bytes(src'.prefix)
  BY <1>2, <1>4, <1>7, <1>9
<1>13. Sends(s)
  BY <1>3, <1>5, <1>9, <1>11, <1>12 DEF Sends
<1> QED BY <1>9, <1>11, <1>13

\* PumpOn is a step of the pump.
LEMMA PumpOnIs ==
  ASSUME Types, Phases, NEW s \in SrcRec, PumpOn(s)
  PROVE  Pumps(s) /\ src' \in SrcRec /\ down' \in Seq(DownFrame)
<1>0. down \in Seq(DownFrame)
  BY DEF Types
<1>1. CASE s.credit > 0 /\ ~s.done /\ s.prefix = <<>>
  BY <1>0, <1>1 DEF PumpOn, Pumps, Fetches, SrcRec
<1>2. CASE s.credit > 0 /\ ~s.done /\ s.prefix # <<>>
  <2>1. PICK c : c = Head(s.prefix)
    OBVIOUS
  <2>2. PICK n : n = LowerOf(LowerOf(MaxChunk, s.credit), Len(c))
    OBVIOUS
  <2>3. /\ src' = [s EXCEPT !.pump = "write", !.prefix = (IF n < Len(c) THEN <<Rest(c, n)>> ELSE <<>>) \o Tail(s.prefix),
                          !.credit = @ - n]
        /\ HostSends(<<Chunk(Front1(c, n))>>)
    BY <1>2, <2>1, <2>2 DEF PumpOn
  <2>4. Sends(s) /\ src' \in SrcRec /\ down' \in Seq(DownFrame)
    BY <1>2, <2>1, <2>2, <2>3, SendsPiece
  <2> QED BY <1>2, <2>4 DEF Pumps
<1>3. CASE ~(s.credit > 0 /\ ~s.done)
  <2>1. s.credit = 0 \/ s.done
    BY <1>3 DEF SrcRec
  <2>2. src' = [s EXCEPT !.pump = "off"] /\ down' = down
    BY <1>3 DEF PumpOn
  <2>3. src' \in SrcRec
    BY <2>2 DEF SrcRec
  <2> QED BY <1>0, <2>1, <2>2, <2>3 DEF Pumps, Stops
<1> QED BY <1>1, <1>2, <1>3

\* A step of the source keeps the types of everything else.
LEMMA SourceTypes ==
  ASSUME Types, Bounds, SourceOnly, age' = age, src' \in SrcRec, src'.read <= SourceLen,
         down' \in Seq(DownFrame), up' \in Seq(UpFrame)
  PROVE  Types' /\ Bounds'
  BY DEF Types, Bounds, SourceOnly

\* Activate starts the stream.
LEMMA ActivateIs ==
  ASSUME StreamInv, Activate
  PROVE  Types' /\ Bounds' /\ Starts
<1> DEFINE s == [src EXCEPT !.at = "on", !.credit = Window]
<1>0. Types /\ Phases /\ Source /\ Bounds
  BY DEF StreamInv
<1>1. src \in SrcRec /\ up \in Seq(UpFrame) /\ down \in Seq(DownFrame)
  BY <1>0 DEF Types
<1>2. src.at = "reg" /\ src.pump = "off" /\ ~src.done /\ PumpStream(s)
  BY <1>0, <1>1 DEF Activate, Source, SrcRec
<1>3. s \in SrcRec /\ s.pump = "off" /\ ~s.done /\ s.read = src.read
  BY <1>1, <1>2, StreamsAssumption DEF SrcRec
<1> HIDE DEF s
<1>4. PumpOn(s)
  BY <1>2, <1>3 DEF PumpStream
<1>5. Pumps(s) /\ src' \in SrcRec /\ down' \in Seq(DownFrame)
  BY <1>0, <1>3, <1>4, PumpOnIs
<1>6. src'.read = s.read
  BY <1>3, <1>5 DEF Pumps, Fetches, Sends, Stops, SrcRec
<1>7. SourceOnly /\ up' = up /\ age' = age
  BY DEF Activate, SourceOnly, guestVars
<1>8. Starts
  BY <1>2, <1>5, <1>7 DEF Starts, s
<1>9. src'.read <= SourceLen
  BY <1>0, <1>3, <1>6 DEF Bounds
<1> QED BY <1>0, <1>1, <1>5, <1>7, <1>8, <1>9, SourceTypes

\* PumpWritten goes on, or comes to rest.
LEMMA PumpWrittenIs ==
  ASSUME StreamInv, PumpWritten
  PROVE  Types' /\ Bounds' /\ (GoesOn \/ Rests)
<1>0. Types /\ Phases /\ Source /\ Bounds
  BY DEF StreamInv
<1>1. src \in SrcRec /\ up \in Seq(UpFrame) /\ down \in Seq(DownFrame)
  BY <1>0 DEF Types
<1>2. SourceOnly /\ up' = up /\ age' = age
  BY DEF PumpWritten, SourceOnly, guestVars
<1>3. CASE src.pump = "write" /\ PumpOn(src)
  <2>1. Pumps(src) /\ src' \in SrcRec /\ down' \in Seq(DownFrame)
    BY <1>0, <1>1, <1>3, PumpOnIs
  <2>2. src'.read = src.read
    BY <1>1, <2>1 DEF Pumps, Fetches, Sends, Stops, SrcRec
  <2>3. src'.read <= SourceLen
    BY <1>0, <2>2 DEF Bounds
  <2> QED BY <1>0, <1>1, <1>2, <1>3, <2>1, <2>3, SourceTypes DEF GoesOn
<1>4. CASE src.pump = "end" /\ src' = [src EXCEPT !.pump = "off"] /\ down' = down
  <2>1. src' \in SrcRec /\ src'.read = src.read
    BY <1>1, <1>4 DEF SrcRec
  <2>2. src'.read <= SourceLen
    BY <1>0, <2>1 DEF Bounds
  <2> QED BY <1>0, <1>1, <1>2, <1>4, <2>1, <2>2, SourceTypes DEF Rests
<1> QED BY <1>3, <1>4 DEF PumpWritten

\* ReadYields yields.
LEMMA ReadYieldsIs ==
  ASSUME StreamInv, ReadYields
  PROVE  Types' /\ Bounds' /\ Yields
<1>0. Types /\ Phases /\ Source /\ Bounds
  BY DEF StreamInv
<1>1. src \in SrcRec /\ up \in Seq(UpFrame) /\ down \in Seq(DownFrame) /\ SourceLen \in Nat
        /\ src.read \in Nat
      /\ src.read <= SourceLen /\ src.prefix = <<>> /\ src.pump = "read"
  BY <1>0, StreamsAssumption DEF Types, SrcRec, Bounds, Source, ReadYields
<1>2. SourceOnly /\ up' = up /\ age' = age
  BY DEF ReadYields, SourceOnly, guestVars
<1>3. PICK n \in 1..(SourceLen - src.read) :
        LET c == [i \in 1..n |-> src.read + i]
            k == LowerOf(LowerOf(MaxChunk, src.credit), n)
        IN /\ src' = [src EXCEPT !.pump = "write", !.read = @ + n,
                                !.prefix = IF k < n THEN <<Rest(c, k)>> ELSE <<>>,
                                !.credit = @ - k]
           /\ HostSends(<<Chunk(Front1(c, k))>>)
  BY DEF ReadYields
<1>4. n \in Nat /\ src.read + n <= SourceLen /\ src.read + n \in Nat
  BY <1>1
<1>5. PICK c : c = [i \in 1..n |-> src.read + i]
  OBVIOUS
<1>6. c \in Piece /\ Len(c) = n
  BY <1>1, <1>4, <1>5, Runs
<1>7. PICK k : k = LowerOf(LowerOf(MaxChunk, src.credit), Len(c))
  OBVIOUS
<1>8. /\ src' = [src EXCEPT !.pump = "write", !.read = @ + n,
                            !.prefix = IF k < n THEN <<Rest(c, k)>> ELSE <<>>, !.credit = @ - k]
      /\ HostSends(<<Chunk(Front1(c, k))>>)
  BY <1>3, <1>5, <1>6, <1>7
<1>9. PICK s : s = [src EXCEPT !.prefix = <<c>>, !.read = @ + Len(c)]
  OBVIOUS
<1>10. s \in SrcRec /\ s.prefix = <<c>> /\ s.credit = src.credit /\ s.read = src.read + n
         /\ s.at = src.at /\ s.done = src.done
  <2>1. PICK p : p = <<c>>
    OBVIOUS
  <2>2. p \in Seq(Piece)
    BY <1>6, <2>1
  <2>3. s = [src EXCEPT !.prefix = p, !.read = @ + n]
    BY <1>6, <1>9, <2>1
  <2>4. s \in SrcRec /\ s.prefix = p /\ s.credit = src.credit /\ s.read = src.read + n
          /\ s.at = src.at /\ s.done = src.done
    BY <1>1, <1>4, <2>2, <2>3 DEF SrcRec
  <2> QED BY <2>1, <2>4
<1>11. s.prefix # <<>> /\ Head(s.prefix) = c /\ Tail(s.prefix) = <<>>
  BY <1>10
<1>12. PICK w : w = IF k < Len(c) THEN <<Rest(c, k)>> ELSE <<>>
  OBVIOUS
<1>13. w \o Tail(s.prefix) = w
  <2>0. PICK x : x = Rest(c, k)
    OBVIOUS
  <2>1. w \in Seq({x})
    <3>1. CASE k < Len(c)
      BY <1>12, <2>0, <3>1
    <3>2. CASE ~(k < Len(c))
      BY <1>12, <3>2
    <3> QED BY <3>1, <3>2
  <2>2. w \o <<>> = w
    BY <2>1, ConcatEmptySeq
  <2> QED BY <1>11, <2>2
<1>14. src' = [s EXCEPT !.pump = "write", !.prefix = w, !.credit = @ - k]
  BY <1>1, <1>6, <1>8, <1>9, <1>10, <1>12 DEF SrcRec
<1>15. src' = [s EXCEPT !.pump = "write", !.prefix = (IF k < Len(c) THEN <<Rest(c, k)>> ELSE <<>>) \o Tail(s.prefix), !.credit = @ - k]
  BY <1>12, <1>13, <1>14
<1>16. Sends(s) /\ src' \in SrcRec /\ down' \in Seq(DownFrame)
  <2>1. k = LowerOf(LowerOf(MaxChunk, s.credit), Len(c))
    BY <1>7, <1>10
  <2>2. HostSends(<<Chunk(Front1(c, k))>>)
    BY <1>8
  <2>3. c = Head(s.prefix) /\ s.prefix # <<>> /\ s \in SrcRec
    BY <1>10, <1>11
  <2> QED BY <1>0, <1>15, <2>1, <2>2, <2>3, SendsPiece
<1>17. src'.read <= SourceLen
  BY <1>4, <1>10, <1>16 DEF Sends
<1>18. Yields
  BY <1>1, <1>2, <1>4, <1>5, <1>6, <1>9, <1>16 DEF Yields
<1> QED BY <1>0, <1>1, <1>2, <1>16, <1>17, <1>18, SourceTypes

\* ReadEnds and PumpFails finish.
LEMMA FinishesAre ==
  ASSUME StreamInv, ReadEnds \/ PumpFails
  PROVE  Types' /\ Bounds' /\ Finishes
<1>0. Types /\ Phases /\ Source /\ Bounds
  BY DEF StreamInv
<1>1. src \in SrcRec /\ up \in Seq(UpFrame) /\ down \in Seq(DownFrame)
  BY <1>0 DEF Types
<1>2. SourceOnly /\ up' = up /\ age' = age
  BY DEF ReadEnds, PumpFails, SourceOnly, guestVars
<1>3. PICK how \in {"ok", "err"}, p \in {"end", "off"} :
        /\ src.pump \in {"read", "write"}
        /\ how = "ok" => src.pump = "read" /\ (src.read = SourceLen \/ src.done)
        /\ src' = [src EXCEPT !.pump = p, !.done = TRUE, !.at = "gone"]
        /\ HostSends(<<End(how)>>)
  BY DEF ReadEnds, PumpFails
<1>4. End(how) \in DownFrame
  BY FramesNew
<1>5. HostSaid(End(how)) /\ down' \in Seq(DownFrame)
  BY <1>0, <1>3, <1>4, HostSpeaks
<1>6. src' \in SrcRec /\ src'.read = src.read
  BY <1>1, <1>3 DEF SrcRec
<1>7. src'.read <= SourceLen
  BY <1>0, <1>6 DEF Bounds
<1>8. Finishes
  BY <1>2, <1>3, <1>5 DEF Finishes
<1> QED BY <1>0, <1>1, <1>2, <1>5, <1>6, <1>7, <1>8, SourceTypes

-----------------------------------------------------------------------------
(* Every action is one of the steps: frames that are taken, reads and cancels of the guest. *)

\* A frame to the run is what its kind and its fields say.
LEMMA DownIs ==
  ASSUME NEW f \in DownFrame
  PROVE  /\ f.t = "chunk" => f.d \in Piece /\ f = Chunk(f.d)
         /\ f.t = "end" => f.how \in {"ok", "err"} /\ f = End(f.how)
         /\ f.t = "opull" => f.n \in Nat /\ f = OutPull(f.n)
         /\ f.t = "ocancel" => f = OutCancel
  BY DEF DownFrame, Chunk, End, OutPull, OutCancel

\* A frame to the host is what its kind and its fields say.
LEMMA UpIs ==
  ASSUME NEW f \in UpFrame
  PROVE  /\ f.t = "pull" => f.n \in Nat /\ f = Pull(f.n)
         /\ f.t = "cancel" => f = CancelFrame
         /\ f.t = "complete" => f = Complete
         /\ f.t = "ochunk" => f.d \in Piece /\ f = OutChunk(f.d)
         /\ f.t = "oend" => f.how \in {"ok", "err"} /\ f = OutEnd(f.how)
         /\ f.t = "result" => f.streams \in BOOLEAN /\ f = Result(f.streams)
  BY DEF UpFrame, Pull, CancelFrame, Complete, OutChunk, OutEnd, Result

\* A frame that is routed leaves the queue to the host.
LEMMA Routed ==
  ASSUME Types, NEW t, RoutedFrame(t)
  PROVE  UpLoses(up, up', Head(up)) /\ Head(up) \in UpFrame /\ Head(up).t = t
           /\ up' \in Seq(UpFrame)
<1>1. up \in Seq(UpFrame) /\ up # <<>> /\ Head(up).t = t /\ up' = Tail(up)
  BY DEF Types, RoutedFrame
<1>2. UpLoses(up, Tail(up), Head(up))
  BY <1>1, Loses
<1> QED BY <1>1, <1>2 DEF UpLoses

\* A frame that is delivered leaves the queue to the run.
LEMMA Came ==
  ASSUME Types, NEW t, Incoming(t)
  PROVE  DownLoses(down, down', Head(down)) /\ Head(down) \in DownFrame /\ Head(down).t = t
           /\ down' \in Seq(DownFrame)
<1>1. down \in Seq(DownFrame) /\ down # <<>> /\ Head(down).t = t /\ down' = Tail(down)
  BY DEF Types, Incoming
<1>2. DownLoses(down, Tail(down), Head(down))
  BY <1>1, Loses
<1> QED BY <1>1, <1>2 DEF DownLoses

\* RoutePull credits the source, or finds it gone.
LEMMA RoutePullIs ==
  ASSUME StreamInv, RoutePull
  PROVE  Types' /\ Bounds' /\ (Credited \/ Ignores)
<1>0. Types /\ Phases /\ Source /\ Bounds
  BY DEF StreamInv
<1>1. src \in SrcRec /\ down \in Seq(DownFrame) /\ src.read <= SourceLen
  BY <1>0 DEF Types, Bounds
<1>2. UpLoses(up, up', Head(up)) /\ Head(up) \in UpFrame /\ Head(up).t = "pull"
        /\ up' \in Seq(UpFrame)
  BY <1>0, Routed DEF RoutePull
<1>3. PICK n \in Nat : n = Head(up).n /\ Head(up) = Pull(n)
  BY <1>2, UpIs
<1>4. SourceOnly /\ age' = age
  BY DEF RoutePull, SourceOnly, guestVars
<1>5. CASE entry # "gone" /\ src.at # "gone"
  <2>1. PICK s : s = [src EXCEPT !.credit = @ + n]
    OBVIOUS
  <2>2. s \in SrcRec /\ s.read = src.read /\ s.pump = src.pump /\ s.done = src.done
    <3>1. src.credit + n \in Nat
      BY <1>1 DEF SrcRec
    <3>2. PICK k \in Nat : k = src.credit + n
      BY <3>1
    <3>3. s = [src EXCEPT !.credit = k]
      BY <2>1, <3>2
    <3> QED BY <1>1, <3>3 DEF SrcRec
  <2>3. PumpStream(s)
    BY <1>3, <1>5, <2>1 DEF RoutePull
  <2>4. ~s.done
    BY <1>0, <1>5, <2>2 DEF Source
  <2>5. (Pumps(s) \/ Stays(s)) /\ src' \in SrcRec /\ down' \in Seq(DownFrame)
    <3>1. CASE s.pump = "off"
      <4>1. PumpOn(s)
        BY <2>3, <2>4, <3>1 DEF PumpStream
      <4> QED BY <1>0, <2>2, <4>1, PumpOnIs
    <3>2. CASE s.pump # "off"
      BY <1>1, <2>2, <2>3, <3>2 DEF PumpStream, Stays
    <3> QED BY <3>1, <3>2
  <2>6. src'.read = s.read
    BY <2>2, <2>5 DEF Pumps, Fetches, Sends, Stops, Stays, SrcRec
  <2>7. Credited
    BY <1>2, <1>3, <1>4, <1>5, <2>1, <2>5 DEF Credited
  <2> QED BY <1>0, <1>1, <1>2, <1>4, <2>2, <2>5, <2>6, <2>7, SourceTypes
<1>6. CASE ~(entry # "gone" /\ src.at # "gone")
  <2>1. src' = src /\ down' = down
    BY <1>6 DEF RoutePull
  <2>2. Ignores
    BY <1>2, <1>3, <1>4, <1>6, <2>1 DEF Ignores
  <2> QED BY <1>0, <1>1, <1>2, <1>4, <2>1, <2>2, SourceTypes
<1> QED BY <1>5, <1>6

\* The empty sequence has any element type.
LEMMA NoBytes == <<>> \in Seq(Piece) /\ <<>> \in Piece
  BY DEF Piece

\* What releasing the source leaves of it.
LEMMA ReleasedIs ==
  ASSUME src \in SrcRec
  PROVE  /\ Released \in SrcRec /\ Released.read = src.read /\ Released.at = "gone"
         /\ Released.done
         /\ Released.prefix = <<>> /\ Released.pump = src.pump /\ Released.credit = src.credit
<1>1. PICK z \in Seq(Piece) : z = <<>>
  BY NoBytes
<1>2. Released = [src EXCEPT !.done = TRUE, !.at = "gone", !.prefix = z]
  BY <1>1 DEF Released
<1>3. /\ Released \in SrcRec /\ Released.read = src.read /\ Released.at = "gone" /\ Released.done
      /\ Released.prefix = z /\ Released.pump = src.pump /\ Released.credit = src.credit
  BY <1>2 DEF SrcRec
<1> QED BY <1>1, <1>3

\* RouteCancel forgets the source.
LEMMA RouteCancelIs ==
  ASSUME StreamInv, RouteCancel
  PROVE  Types' /\ Bounds' /\ Forgets
<1>0. Types /\ Bounds
  BY DEF StreamInv
<1>1. src \in SrcRec /\ down \in Seq(DownFrame) /\ src.read <= SourceLen
  BY <1>0 DEF Types, Bounds
<1>2. UpLoses(up, up', Head(up)) /\ Head(up) \in UpFrame /\ Head(up).t = "cancel"
        /\ up' \in Seq(UpFrame)
  BY <1>0, Routed DEF RouteCancel
<1>3. Head(up) = CancelFrame
  BY <1>2, UpIs
<1>4. SourceOnly /\ age' = age /\ down' = down
  BY DEF RouteCancel, SourceOnly, guestVars
<1>5. src' \in {src, Released}
  BY DEF RouteCancel
<1>6. Released \in SrcRec /\ Released.read = src.read
  BY <1>1, ReleasedIs
<1>7. Forgets
  BY <1>2, <1>3, <1>4, <1>5 DEF Forgets
<1> QED BY <1>0, <1>1, <1>2, <1>4, <1>5, <1>6, <1>7, SourceTypes

\* A step of the guest keeps the types of everything else.
LEMMA GuestTypes ==
  ASSUME Types, Bounds, UNCHANGED <<src, entry, ost, cons, conn, outGot>>,
         gin' \in GinRec, out' \in OutRec, run' \in RunRec, got' \in Piece,
         down' \in Seq(DownFrame), up' \in Seq(UpFrame), age' \in Nat, age' <= Idle,
         out'.made <= OwnLen, run'.rounds < Rounds
  PROVE  Types' /\ Bounds'
  BY DEF Types, Bounds

\* What a read finds.
LEMMA ReadIs ==
  ASSUME Types, Phases, run.phase # "over", StreamRead
  PROVE  /\ gin' \in GinRec /\ up' \in Seq(UpFrame)
         /\ \/ /\ ReadFinds = "chunk" /\ gin.buf # <<>> /\ Head(gin.buf) \in Piece
               /\ gin' = [gin EXCEPT !.buf = Tail(@)]
               /\ Bytes(gin.buf) = Head(gin.buf) \o Bytes(gin'.buf)
               /\ UpGets(up, up', Pull(Len(Head(gin.buf))))
            \/ /\ ReadFinds = "pending" /\ gin.buf = <<>> /\ ~gin.cancelled /\ gin.ended = "no"
                    /\ ~gin.pending
               /\ gin' = [gin EXCEPT !.pending = TRUE] /\ up' = up
            \/ /\ ReadFinds \in {"eof", "err"} /\ gin.buf = <<>>
               /\ (ReadFinds = "eof" => gin.cancelled \/ gin.ended = "ok")
               /\ gin' = gin /\ up' = up
<1>1. gin \in GinRec /\ up \in Seq(UpFrame)
  BY DEF Types
<1>2. CASE gin.buf # <<>>
  <2>1. ReadFinds = "chunk"
    BY <1>2 DEF ReadFinds
  <2>2. gin' = [gin EXCEPT !.buf = Tail(@)] /\ GuestSends(<<Pull(Len(Head(gin.buf)))>>)
    BY <2>1 DEF StreamRead
  <2>3. /\ Bytes(gin.buf) = Head(gin.buf) \o Bytes(Tail(gin.buf)) /\ Head(gin.buf) \in Piece
        /\ Tail(gin.buf) \in Seq(Piece)
    BY <1>1, <1>2, BytesHead DEF GinRec
  <2>4. gin' \in GinRec /\ gin'.buf = Tail(gin.buf)
    BY <1>1, <2>2, <2>3 DEF GinRec
  <2>5. Len(Head(gin.buf)) \in Nat
    BY <2>3 DEF Piece
  <2>6. Pull(Len(Head(gin.buf))) \in UpFrame
    BY <2>5, FramesNew
  <2>7. UpGets(up, up', Pull(Len(Head(gin.buf)))) /\ up' \in Seq(UpFrame)
    BY <2>2, <2>6, GuestSpeaks
  <2> QED BY <1>2, <2>1, <2>2, <2>3, <2>4, <2>7
<1>3. CASE gin.buf = <<>> /\ ~gin.cancelled /\ gin.ended = "no" /\ ~gin.pending
  <2>1. ReadFinds = "pending"
    BY <1>3 DEF ReadFinds
  <2>2. gin' = [gin EXCEPT !.pending = TRUE] /\ GuestSends(<<>>)
    BY <2>1 DEF StreamRead
  <2>3. up' = up
    BY <2>2, GuestSilent
  <2>4. gin' \in GinRec
    BY <1>1, <2>2 DEF GinRec
  <2> QED BY <1>1, <1>3, <2>1, <2>2, <2>3, <2>4
<1>4. CASE gin.buf = <<>> /\ (gin.cancelled \/ gin.ended # "no" \/ gin.pending)
  <2>1. ReadFinds \in {"eof", "err"} /\ (ReadFinds = "eof" => gin.cancelled \/ gin.ended = "ok")
    <3>1. CASE gin.cancelled
      BY <1>4, <3>1 DEF ReadFinds
    <3>2. CASE ~gin.cancelled /\ gin.ended = "ok"
      BY <1>4, <3>2 DEF ReadFinds
    <3>3. CASE ~gin.cancelled /\ gin.ended = "err"
      BY <1>4, <3>3 DEF ReadFinds
    <3>4. CASE ~gin.cancelled /\ gin.ended = "no" /\ gin.pending
      BY <1>4, <3>4 DEF ReadFinds
    <3> QED BY <1>1, <1>4, <3>1, <3>2, <3>3, <3>4 DEF GinRec
  <2>2. gin' = gin /\ GuestSends(<<>>)
    BY <2>1 DEF StreamRead
  <2>3. up' = up
    BY <2>2, GuestSilent
  <2> QED BY <1>1, <1>4, <2>1, <2>2, <2>3
<1> QED BY <1>2, <1>3, <1>4

\* A scan that follows is a turn of the run.
LEMMA ScanIs ==
  ASSUME Types, Phases, ScanFollows
  PROVE  RunKeeps /\ run' \in RunRec /\ run'.rounds = run.rounds
<1>1. run \in RunRec
  BY DEF Types
<1>2. CASE run.phase = "grace"
  <2>1. PICK t \in {"drive", "scan"} : run' = [run EXCEPT !.turn = t]
    BY <1>2 DEF ScanFollows
  <2> QED BY <1>1, <1>2, <2>1 DEF RunKeeps, RunRec
<1>3. CASE run.phase # "grace"
  BY <1>1, <1>3 DEF ScanFollows, RunKeeps, Phases, Talk, Over, Gone
<1> QED BY <1>2, <1>3

\* The next round is a turn of the run.
LEMMA RoundIs ==
  ASSUME Types, Bounds, NEW p, NextRound(p), run.phase = "grace"
  PROVE  RunKeeps /\ run' \in RunRec /\ run'.rounds < Rounds
<1>1. run \in RunRec /\ Rounds \in Nat \ {0} /\ run.rounds < Rounds
  BY StreamsAssumption DEF Types, Bounds
<1>2. CASE p /\ run.rounds + 1 < Rounds
  <2>0. PICK m \in Nat : m = run.rounds + 1 /\ m < Rounds
    BY <1>1, <1>2 DEF RunRec
  <2>1. run' = [run EXCEPT !.rounds = m, !.progressed = FALSE]
    BY <1>2, <2>0 DEF NextRound
  <2>2. run' \in RunRec /\ run'.rounds = m /\ run'.phase = run.phase
          /\ run'.violated = run.violated
    BY <1>1, <2>1 DEF RunRec
  <2> QED BY <2>0, <2>2 DEF RunKeeps
<1>3. CASE ~(p /\ run.rounds + 1 < Rounds)
  <2>1. PICK t \in {"no", "scan"} : run' = [run EXCEPT !.turn = t, !.rounds = 0, !.progressed = FALSE]
    BY <1>3 DEF NextRound
  <2>2. run' \in RunRec /\ run'.rounds = 0 /\ run'.phase = run.phase
          /\ run'.violated = run.violated
    BY <1>1, <2>1 DEF RunRec
  <2>3. 0 < Rounds
    BY <1>1
  <2> QED BY <2>2, <2>3 DEF RunKeeps
<1> QED BY <1>2, <1>3

\* What StreamCancel does, with or without the end of a body before it.
LEMMA CancelIs ==
  ASSUME Types, Phases, Buffer, run.phase # "over", NEW b \in BOOLEAN,
         NEW w, w = (IF b THEN <<OutEnd("err")>> ELSE <<>>), StreamCancel(w)
  PROVE  /\ gin' \in GinRec /\ gin' \in {gin, Cut} /\ ~gin'.pending /\ up' \in Seq(UpFrame)
         /\ \E F \in SUBSET {OutEnd("err"), CancelFrame} :
              /\ UpNotes(up, up', F) /\ (b => OutEnd("err") \in F)
                   /\ (~b => F \subseteq {CancelFrame})
              /\ (CancelFrame \in F => gin' = Cut)
<1>1. gin \in GinRec /\ up \in Seq(UpFrame) /\ conn \in {"up", "lost"}
  BY DEF Types
<1>2. conn = "up"
  BY <1>1 DEF Phases, Talk, Over, Gone
<1>3. PICK c \in BOOLEAN : c = Cancellable
  BY <1>1 DEF Cancellable, GinRec
<1>4. up' = up \o ((IF b THEN <<OutEnd("err")>> ELSE <<>>) \o (IF c THEN <<CancelFrame>> ELSE <<>>))
  BY <1>2, <1>3 DEF StreamCancel, GuestSends
<1>5. PICK F : F = (IF b THEN {OutEnd("err")} ELSE {}) \cup (IF c THEN {CancelFrame} ELSE {})
  OBVIOUS
<1>6. UpNotes(up, up', F)
  BY <1>1, <1>4, <1>5, NoteLast
<1>7. gin' = AfterCancel
  BY DEF StreamCancel
<1>8. CASE c
  <2>1. PICK z \in Seq(Piece) : z = <<>>
    BY NoBytes
  <2>2. gin' = [gin EXCEPT !.cancelled = TRUE, !.pending = FALSE, !.buf = z]
    BY <1>1, <1>3, <1>7, <1>8, <2>1 DEF AfterCancel
  <2>3. gin' \in GinRec /\ ~gin'.pending
    BY <1>1, <2>2 DEF GinRec
  <2>4. gin' = Cut
    BY <2>1, <2>2 DEF Cut
  <2>5. F \in SUBSET {OutEnd("err"), CancelFrame} /\ (b => OutEnd("err") \in F)
          /\ (~b => F \subseteq {CancelFrame})
    BY <1>5, <1>8
  <2>6. up' \in Seq(UpFrame)
    BY <1>6 DEF UpNotes
  <2> QED BY <1>6, <2>3, <2>4, <2>5, <2>6
<1>9. CASE ~c
  <2>1. ~gin.pending /\ ~Cancellable
    BY <1>1, <1>3, <1>9 DEF Buffer, Cancellable, GinRec
  <2>2. gin' = [gin EXCEPT !.cancelled = @ \/ FALSE, !.pending = FALSE, !.buf = @]
    BY <1>7, <2>1 DEF AfterCancel
  <2>3. gin' = gin
    BY <1>1, <2>1, <2>2 DEF GinRec
  <2>4. F \in SUBSET {OutEnd("err"), CancelFrame} /\ (b => OutEnd("err") \in F)
          /\ (~b => F \subseteq {CancelFrame})
    BY <1>5, <1>9
  <2>5. CancelFrame \notin F
    <3>1. CancelFrame # OutEnd("err")
      BY DEF CancelFrame, OutEnd
    <3> QED BY <1>5, <1>9, <3>1
  <2>6. up' \in Seq(UpFrame)
    BY <1>6 DEF UpNotes
  <2> QED BY <1>1, <1>6, <2>1, <2>3, <2>4, <2>5, <2>6
<1> QED BY <1>8, <1>9

\* GuestReads reads, waits, or finds the end.
LEMMA GuestReadsIs ==
  ASSUME StreamInv, GuestReads
  PROVE  Types' /\ Bounds' /\ (Reads \/ Waits \/ Idles)
<1>0. Types /\ Phases /\ Bounds
  BY DEF StreamInv
<1>1. gin \in GinRec /\ out \in OutRec /\ run \in RunRec /\ got \in Piece
        /\ down \in Seq(DownFrame) /\ age \in Nat
      /\ age <= Idle /\ out.made <= OwnLen /\ run.rounds < Rounds /\ run.phase = "exec"
      /\ run.turn = "no"
  BY <1>0 DEF Types, Bounds, GuestReads, Quiet
<1>2. UNCHANGED <<down, src, entry, ost, cons, conn, outGot, out, run, age>>
      /\ got' = (IF gin.buf # <<>> THEN got \o Head(gin.buf) ELSE got) /\ StreamRead
  BY DEF GuestReads, hostVars
<1>3. RunKeeps
  BY <1>1, <1>2 DEF RunKeeps
<1>4. GuestOnly
  BY <1>2, <1>3 DEF GuestOnly
<1>5. /\ gin' \in GinRec /\ up' \in Seq(UpFrame)
      /\ \/ /\ gin.buf # <<>> /\ Head(gin.buf) \in Piece
            /\ gin' = [gin EXCEPT !.buf = Tail(@)]
            /\ Bytes(gin.buf) = Head(gin.buf) \o Bytes(gin'.buf)
            /\ UpGets(up, up', Pull(Len(Head(gin.buf))))
         \/ /\ gin.buf = <<>> /\ ~gin.cancelled /\ gin.ended = "no" /\ ~gin.pending
            /\ gin' = [gin EXCEPT !.pending = TRUE] /\ up' = up
         \/ gin.buf = <<>> /\ gin' = gin /\ up' = up
  BY <1>0, <1>1, <1>2, ReadIs
<1>6. got' \in Piece
  <2>1. CASE gin.buf = <<>>
    BY <1>1, <1>2, <2>1
  <2>2. CASE gin.buf # <<>>
    <3>1. PICK x \in Piece : x = Head(gin.buf)
      BY <1>5, <2>2
    <3>2. got \o x \in Piece
      BY <1>1, ConcatProperties DEF Piece
    <3> QED BY <1>2, <2>2, <3>1, <3>2
  <2> QED BY <2>1, <2>2
<1>7. Types' /\ Bounds'
  <2>1. UNCHANGED <<src, entry, ost, cons, conn, outGot>>
    BY <1>2
  <2> QED BY <1>0, <1>1, <1>2, <1>5, <1>6, <2>1, GuestTypes
<1>8. Reads \/ Waits \/ Idles
  <2>1. CASE gin.buf # <<>>
    <3>1. PICK x \in Piece : x = Head(gin.buf)
      BY <1>5, <2>1
    <3>2. /\ gin' = [gin EXCEPT !.buf = Tail(@)] /\ Bytes(gin.buf) = x \o Bytes(gin'.buf)
          /\ UpGets(up, up', Pull(Len(x))) /\ got' = got \o x
      BY <1>2, <1>5, <2>1, <3>1
    <3> QED BY <1>1, <1>2, <1>4, <2>1, <3>1, <3>2 DEF Reads
  <2>2. CASE gin.buf = <<>>
    BY <1>1, <1>2, <1>3, <1>4, <1>5, <2>2 DEF Waits, Idles
  <2> QED BY <2>1, <2>2
<1> QED BY <1>7, <1>8

\* GuestCancels cancels.
LEMMA GuestCancelsIs ==
  ASSUME StreamInv, GuestCancels
  PROVE  Types' /\ Bounds' /\ Cancels
<1>0. Types /\ Phases /\ Bounds /\ Buffer
  BY DEF StreamInv
<1>1. gin \in GinRec /\ out \in OutRec /\ run \in RunRec /\ got \in Piece
        /\ down \in Seq(DownFrame) /\ age \in Nat
      /\ age <= Idle /\ out.made <= OwnLen /\ run.rounds < Rounds /\ run.phase = "exec"
      /\ run.turn = "no"
  BY <1>0 DEF Types, Bounds, GuestCancels, Quiet
<1>2. UNCHANGED <<down, src, entry, ost, cons, conn, outGot, out, run, age, got>>
      /\ StreamCancel(<<>>)
  BY DEF GuestCancels, hostVars
<1>3. GuestOnly
  BY <1>1, <1>2 DEF RunKeeps, GuestOnly
<1>4. PICK b \in BOOLEAN : ~b
  OBVIOUS
<1>5. PICK w : w = (IF b THEN <<OutEnd("err")>> ELSE <<>>) /\ StreamCancel(w)
  BY <1>2, <1>4
<1>6. /\ gin' \in GinRec /\ gin' \in {gin, Cut} /\ up' \in Seq(UpFrame)
      /\ \E F \in SUBSET {OutEnd("err"), CancelFrame} :
              /\ UpNotes(up, up', F) /\ (~b => F \subseteq {CancelFrame})
              /\ (CancelFrame \in F => gin' = Cut)
  BY <1>0, <1>1, <1>5, CancelIs
<1>7. Types' /\ Bounds'
  <2>1. UNCHANGED <<src, entry, ost, cons, conn, outGot>>
    BY <1>2
  <2> QED BY <1>0, <1>1, <1>2, <1>6, <2>1, GuestTypes
<1>8. Cancels
  BY <1>1, <1>2, <1>3, <1>4, <1>6 DEF Cancels
<1> QED BY <1>7, <1>8

-----------------------------------------------------------------------------
(* Every action is one of the steps: what is delivered to the guest. *)

\* What the queues and buffers hold.
LEMMA Amounts ==
  ASSUME Types
  PROVE  /\ BytesIn(down, "chunk") \in Piece /\ CreditIn(down, "opull") \in Nat
         /\ BytesIn(up, "ochunk") \in Piece /\ CreditIn(up, "pull") \in Nat
         /\ Bytes(gin.buf) \in Piece /\ Bytes(ost.buf) \in Piece /\ Bytes(src.prefix) \in Piece
         /\ Len(BytesIn(down, "chunk")) \in Nat /\ Len(BytesIn(up, "ochunk")) \in Nat
         /\ Len(Bytes(gin.buf)) \in Nat /\ Len(Bytes(ost.buf)) \in Nat
<1>1. PICK f \in DownFrame : f = OutCancel
  BY FramesNew
<1>2. PICK g \in UpFrame : g = CancelFrame
  BY FramesNew
<1>3. BytesIn(down, "chunk") \in Piece /\ CreditIn(down, "opull") \in Nat
  BY DownOne DEF Types
<1>4. BytesIn(up, "ochunk") \in Piece /\ CreditIn(up, "pull") \in Nat
  BY UpOne DEF Types
<1>5. gin.buf \in Seq(Piece) /\ ost.buf \in Seq(Piece) /\ src.prefix \in Seq(Piece)
  BY DEF Types, GinRec, OstRec, SrcRec
<1>6. PICK x \in Piece : x = <<>>
  BY NoBytes
<1>7. Bytes(gin.buf) \in Piece /\ Bytes(ost.buf) \in Piece /\ Bytes(src.prefix) \in Piece
  BY <1>5, BytesAppend
<1> QED BY <1>3, <1>4, <1>7 DEF Piece

\* Two pieces one after the other.
LEMMA PieceBoth ==
  ASSUME NEW a \in Piece, NEW b \in Piece
  PROVE  a \o b \in Piece /\ Len(a \o b) = Len(a) + Len(b) /\ Len(a) \in Nat /\ Len(b) \in Nat
  BY ConcatProperties DEF Piece

\* A chunk in flight fits into the guest's buffer: the guard of the delivery
\* never trips.
LEMMA ChunkFits ==
  ASSUME Types, InCredit, NEW d \in Piece, DownLoses(down, down', Chunk(d))
  PROVE  Len(Bytes(gin.buf)) + Len(d) <= Window + MaxChunk
<1>1. /\ Len(BytesIn(down, "chunk")) \in Nat /\ Len(Bytes(gin.buf)) \in Nat
      /\ CreditIn(up, "pull") \in Nat
      /\ src.credit \in Nat /\ Window \in Nat /\ MaxChunk \in Nat
  BY Amounts, StreamsAssumption DEF Types, SrcRec
<1>2. BytesIn(down, "chunk") = d \o BytesIn(down', "chunk") /\ down' \in Seq(DownFrame)
  <2>1. Chunk(d).t = "chunk" /\ Chunk(d).d = d
    BY FramesSay
  <2> QED BY <2>1 DEF DownLoses
<1>3. PICK r \in Piece : r = BytesIn(down', "chunk")
  <2>1. PICK f \in DownFrame : f = OutCancel
    BY FramesNew
  <2>2. BytesIn(down', "chunk") \in Piece
    BY <1>2, <2>1, DownOne
  <2> QED BY <2>2
<1>4. Len(BytesIn(down, "chunk")) = Len(d) + Len(r) /\ Len(d) \in Nat /\ Len(r) \in Nat
  BY <1>2, <1>3, PieceBoth
<1>5. src.credit + Len(BytesIn(down, "chunk")) + Len(Bytes(gin.buf)) + CreditIn(up, "pull") <= Window
  BY DEF InCredit, Inflow
<1> QED BY <1>1, <1>4, <1>5

\* DeliverChunk drops, feeds, answers or buffers.
LEMMA DeliverChunkIs ==
  ASSUME StreamInv, DeliverChunk
  PROVE  Types' /\ Bounds' /\ (Drops \/ Feeds \/ Answers \/ Buffers)
<1>0. Types /\ Phases /\ Bounds /\ InCredit
  BY DEF StreamInv
<1>1. gin \in GinRec /\ out \in OutRec /\ run \in RunRec /\ got \in Piece /\ up \in Seq(UpFrame)
        /\ age \in Nat
      /\ age <= Idle /\ out.made <= OwnLen /\ run.rounds < Rounds
  BY <1>0 DEF Types, Bounds
<1>2. DownLoses(down, down', Head(down)) /\ Head(down) \in DownFrame /\ Head(down).t = "chunk"
        /\ down' \in Seq(DownFrame)
  BY <1>0, Came DEF DeliverChunk
<1>3. PICK d \in Piece : d = Head(down).d /\ Head(down) = Chunk(d)
  BY <1>2, DownIs
<1>4. Deliver(d) /\ UNCHANGED <<src, entry, ost, cons, outGot, conn, age>>
  BY <1>3 DEF DeliverChunk, hostVars
<1>5. down # <<>> /\ run.phase # "over"
  BY <1>0, <1>2 DEF DownLoses, Phases, Talk, Over, Gone
<1>6. Len(Bytes(gin.buf)) + Len(d) <= Window + MaxChunk
  BY <1>0, <1>2, <1>3, ChunkFits
<1>7. ScanFollows
  BY <1>4, <1>6 DEF Deliver
<1>8. RunKeeps /\ run' \in RunRec /\ run'.rounds = run.rounds
  BY <1>0, <1>7, ScanIs
<1>9. GuestOnly
  BY <1>4, <1>8 DEF GuestOnly
<1>10. ChunkComes(d)
  BY <1>2, <1>3, <1>9 DEF ChunkComes
<1>11. ASSUME gin' \in GinRec, out' \in OutRec, out'.made = out.made, got' \in Piece, up' \in Seq(UpFrame)
       PROVE  Types' /\ Bounds'
  <2>1. UNCHANGED <<src, entry, ost, cons, conn, outGot>> /\ age' = age
    BY <1>4
  <2> QED BY <1>0, <1>1, <1>2, <1>8, <1>11, <2>1, GuestTypes
<1>12. CASE gin.cancelled /\ UNCHANGED <<gin, out, up, got>>
  BY <1>1, <1>10, <1>11, <1>12 DEF Drops
<1>13. CASE /\ ~gin.cancelled /\ gin.pending
            /\ gin' = [gin EXCEPT !.pending = FALSE]
            /\ ReadAnswered("chunk", d)
            /\ GuestSends(<<Pull(Len(d))>>)
  <2>1. Pull(Len(d)) \in UpFrame
    <3>1. Len(d) \in Nat
      BY DEF Piece
    <3> QED BY <3>1, FramesNew
  <2>2. UpGets(up, up', Pull(Len(d))) /\ up' \in Seq(UpFrame)
    BY <1>0, <1>5, <1>13, <2>1, GuestSpeaks
  <2>3. gin' \in GinRec
    BY <1>1, <1>13 DEF GinRec
  <2>4. CASE out.on = "pipe" /\ out.pull = "pending"
    <3>1. out' = [out EXCEPT !.pull = "chunk", !.data = d] /\ got' = got
      BY <1>13, <2>4 DEF ReadAnswered
    <3>2. out' \in OutRec /\ out'.made = out.made
      BY <1>1, <3>1 DEF OutRec, Pulls
    <3> QED BY <1>1, <1>10, <1>11, <1>13, <2>2, <2>3, <2>4, <3>1, <3>2 DEF Feeds
  <2>5. CASE ~(out.on = "pipe" /\ out.pull = "pending")
    <3>1. out' = out /\ got' = got \o d
      BY <1>13, <2>5 DEF ReadAnswered
    <3>2. got' \in Piece
      BY <1>1, <3>1, PieceBoth
    <3> QED BY <1>1, <1>10, <1>11, <1>13, <2>2, <2>3, <2>5, <3>1, <3>2 DEF Answers
  <2> QED BY <2>4, <2>5
<1>14. CASE /\ ~gin.cancelled /\ ~gin.pending /\ UNCHANGED <<out, up, got>>
            /\ gin' = [gin EXCEPT !.buf = Append(@, d)]
  <2>1. gin.buf \in Seq(Piece)
    BY <1>1 DEF GinRec
  <2>2. Append(gin.buf, d) \in Seq(Piece) /\ Bytes(Append(gin.buf, d)) = Bytes(gin.buf) \o d
    BY <2>1, AppendProperties, BytesAppend
  <2>3. gin' \in GinRec /\ gin'.buf = Append(gin.buf, d)
    BY <1>1, <1>14, <2>2 DEF GinRec
  <2> QED BY <1>1, <1>10, <1>11, <1>14, <2>2, <2>3 DEF Buffers
<1> QED BY <1>4, <1>6, <1>12, <1>13, <1>14 DEF Deliver

\* DeliverEnd delivers the end.
LEMMA DeliverEndIs ==
  ASSUME StreamInv, DeliverEnd
  PROVE  Types' /\ Bounds' /\ EndComes
<1>0. Types /\ Phases /\ Bounds /\ Buffer
  BY DEF StreamInv
<1>1. gin \in GinRec /\ out \in OutRec /\ run \in RunRec /\ got \in Piece /\ up \in Seq(UpFrame)
        /\ age \in Nat
      /\ age <= Idle /\ out.made <= OwnLen /\ run.rounds < Rounds
  BY <1>0 DEF Types, Bounds
<1>2. DownLoses(down, down', Head(down)) /\ Head(down) \in DownFrame /\ Head(down).t = "end"
        /\ down' \in Seq(DownFrame)
  BY <1>0, Came DEF DeliverEnd
<1>3. PICK how \in {"ok", "err"} : how = Head(down).how /\ Head(down) = End(how)
  BY <1>2, DownIs
<1>4. UNCHANGED <<src, entry, ost, cons, outGot, conn, age, up>> /\ ScanFollows
  BY <1>3 DEF DeliverEnd, hostVars
<1>5. RunKeeps /\ run' \in RunRec /\ run'.rounds = run.rounds
  BY <1>0, <1>4, ScanIs
<1>6. GuestOnly
  BY <1>4, <1>5 DEF GuestOnly
<1>7. gin.pending => gin.buf = <<>>
  BY <1>0 DEF Buffer
<1>8. gin' = [gin EXCEPT !.ended = how, !.pending = FALSE]
  <2>1. gin' = [gin EXCEPT !.ended = how, !.pending = @ /\ ~(gin.buf = <<>> /\ gin.pending)]
    BY <1>3 DEF DeliverEnd
  <2>2. (gin.pending /\ ~(gin.buf = <<>> /\ gin.pending)) = FALSE
    BY <1>7
  <2> QED BY <2>1, <2>2
<1>9. gin' \in GinRec
  BY <1>1, <1>8 DEF GinRec
<1>10. got \o <<>> = got
  BY <1>1, ConcatEmptySeq DEF Piece
<1>11. got' = got /\ \/ /\ gin.pending /\ out.on = "pipe" /\ out.pull = "pending"
                        /\ out' = [out EXCEPT !.pull = IF how = "ok" THEN "eof" ELSE "err", !.data = <<>>]
                     \/ out' = out /\ ~(gin.pending /\ out.on = "pipe" /\ out.pull = "pending")
  <2>1. CASE gin.pending
    <3>1. ReadAnswered(IF how = "ok" THEN "eof" ELSE "err", <<>>)
      BY <1>3, <1>7, <2>1 DEF DeliverEnd
    <3> QED BY <1>10, <2>1, <3>1 DEF ReadAnswered
  <2>2. CASE ~gin.pending
    BY <2>2 DEF DeliverEnd
  <2> QED BY <2>1, <2>2
<1>12. out' \in OutRec /\ out'.made = out.made
  <2>1. PICK z \in Piece : z = <<>>
    BY NoBytes
  <2>2. PICK p \in Pulls : p = IF how = "ok" THEN "eof" ELSE "err"
    BY DEF Pulls
  <2>3. out' = out \/ out' = [out EXCEPT !.pull = p, !.data = z]
    BY <1>11, <2>1, <2>2
  <2> QED BY <1>1, <2>3 DEF OutRec
<1>13. Types' /\ Bounds'
  <2>1. UNCHANGED <<src, entry, ost, cons, conn, outGot>> /\ age' = age /\ up' = up
    BY <1>4
  <2> QED BY <1>0, <1>1, <1>2, <1>5, <1>9, <1>11, <1>12, <2>1, GuestTypes
<1>14. EndComes
  BY <1>2, <1>3, <1>4, <1>6, <1>8, <1>11 DEF EndComes
<1> QED BY <1>13, <1>14

-----------------------------------------------------------------------------
(* Every action is one of the steps: the drive of the returned body. *)

\* ReturnsBody returns a body.
LEMMA ReturnsBodyIs ==
  ASSUME StreamInv, ReturnsBody
  PROVE  Types' /\ Bounds' /\ Returns
<1>0. Types /\ Phases /\ Bounds
  BY DEF StreamInv
<1>1. gin \in GinRec /\ out \in OutRec /\ run \in RunRec /\ got \in Piece
        /\ down \in Seq(DownFrame) /\ age \in Nat
      /\ age <= Idle /\ out.made <= OwnLen /\ run.rounds < Rounds /\ run.phase = "exec"
  BY <1>0 DEF Types, Bounds, ReturnsBody
<1>2. /\ UNCHANGED <<down, src, entry, ost, cons, outGot, gin, conn, age, got>>
      /\ out' = [out EXCEPT !.on = IF src.read > 0 THEN "pipe" ELSE "own", !.credit = Window]
      /\ run' = [run EXCEPT !.phase = "grace", !.turn = "drive"]
      /\ GuestSends(<<Result(TRUE)>>)
  BY DEF ReturnsBody, hostVars, Streamed
<1>3. Result(TRUE) \in UpFrame /\ Result(TRUE).t = "result"
  BY FramesNew, FramesSay
<1>4. UpNotes(up, up', {Result(TRUE)}) /\ up' \in Seq(UpFrame)
  <2>1. up \in Seq(UpFrame) /\ conn = "up"
    BY <1>0, <1>1 DEF Types, Phases, Talk, Over, Gone
  <2>2. up' = up \o <<Result(TRUE)>>
    BY <1>2, <2>1 DEF GuestSends
  <2>3. UpNotes(up, up \o <<Result(TRUE)>>, {Result(TRUE)})
    BY <1>3, <2>1, NoteOne
  <2> QED BY <2>2, <2>3 DEF UpNotes
<1>5. out' \in OutRec /\ out'.made = out.made
  <2>1. PICK o \in {"pipe", "own"} : o = IF src.read > 0 THEN "pipe" ELSE "own"
    OBVIOUS
  <2>2. Window \in Nat
    BY StreamsAssumption
  <2> QED BY <1>1, <1>2, <2>1, <2>2 DEF OutRec
<1>6. run' \in RunRec /\ run'.phase = "grace" /\ run'.violated = run.violated
        /\ run'.rounds = run.rounds
  BY <1>1, <1>2 DEF RunRec
<1>7. Types' /\ Bounds'
  <2>1. UNCHANGED <<src, entry, ost, cons, conn, outGot>> /\ age' = age /\ down' = down
          /\ gin' = gin /\ got' = got
    BY <1>2
  <2> QED BY <1>0, <1>1, <1>4, <1>5, <1>6, <2>1, GuestTypes
<1>8. Returns
  BY <1>1, <1>2, <1>4, <1>6 DEF Returns
<1> QED BY <1>7, <1>8

\* A step of the drive keeps the types of everything else.
LEMMA DriveTypes ==
  ASSUME Types, Bounds, UNCHANGED <<down, src, entry, ost, cons, outGot, conn, age, got>>,
         gin' \in GinRec, out' \in OutRec, run' \in RunRec, up' \in Seq(UpFrame),
         out'.made <= OwnLen, run'.rounds < Rounds
  PROVE  Types' /\ Bounds'
  BY DEF Types, Bounds

\* Flush sends the front of the backlog.
LEMMA FlushIs ==
  ASSUME StreamInv, Flush
  PROVE  Types' /\ Bounds' /\ Flushes
<1>0. Types /\ Phases /\ Bounds
  BY DEF StreamInv
<1>1. gin \in GinRec /\ out \in OutRec /\ run \in RunRec /\ out.made <= OwnLen
        /\ run.rounds < Rounds
      /\ out.backlog \in Piece /\ out.credit \in Nat /\ MaxChunk \in Nat
  BY <1>0, StreamsAssumption DEF Types, Bounds, OutRec
<1>2. run.turn = "drive" /\ run.phase = "grace" /\ out.on # "no" /\ ~out.done
        /\ out.backlog # <<>>
  BY <1>0, <1>1 DEF Flush, Driving, CanFlush, OutOpen, Phases, Talk, Over, Gone
<1>3. PICK n : n = LowerOf(LowerOf(Len(out.backlog), out.credit), MaxChunk)
  OBVIOUS
<1>4. n \in 0..Len(out.backlog) /\ n <= out.credit /\ n \in Nat
  <2>1. Len(out.backlog) \in Nat
    BY <1>1 DEF Piece
  <2>2. PICK k : k = LowerOf(Len(out.backlog), out.credit)
    OBVIOUS
  <2>3. k \in Nat /\ k <= Len(out.backlog) /\ k <= out.credit
    BY <1>1, <2>1, <2>2, LowerIs
  <2>4. n \in Nat /\ n <= k
    BY <1>1, <1>3, <2>2, <2>3, LowerIs
  <2> QED BY <1>1, <2>1, <2>3, <2>4
<1>5. PICK d, r : d = Front1(out.backlog, n) /\ r = Rest(out.backlog, n)
  OBVIOUS
<1>6. d \in Piece /\ Len(d) = n /\ r \in Piece /\ out.backlog = d \o r
  BY <1>1, <1>4, <1>5, Halves
<1>7. /\ GuestSends(<<OutChunk(d)>>) /\ out' = [out EXCEPT !.backlog = r, !.credit = @ - n]
      /\ run' = [run EXCEPT !.progressed = TRUE]
      /\ UNCHANGED <<down, src, entry, ost, cons, outGot, gin, conn, age, got>>
  BY <1>3, <1>5 DEF Flush, hostVars
<1>8. OutChunk(d) \in UpFrame
  BY <1>6, FramesNew
<1>9. UpGets(up, up', OutChunk(d)) /\ up' \in Seq(UpFrame)
  BY <1>0, <1>2, <1>7, <1>8, GuestSpeaks
<1>10. out' \in OutRec /\ out'.made = out.made
  <2>1. out.credit - n \in Nat
    BY <1>1, <1>4
  <2> QED BY <1>1, <1>6, <1>7, <2>1 DEF OutRec
<1>11. run' \in RunRec /\ run'.rounds = run.rounds /\ RunKeeps
  BY <1>1, <1>2, <1>7 DEF RunRec, RunKeeps
<1>12. Types' /\ Bounds'
  <2>1. UNCHANGED <<down, src, entry, ost, cons, outGot, conn, age, got>> /\ gin' = gin
    BY <1>7
  <2> QED BY <1>0, <1>1, <1>9, <1>10, <1>11, <2>1, DriveTypes
<1>13. DriveOnly
  BY <1>2, <1>7, <1>11 DEF DriveOnly, GuestOnly
<1>14. Flushes
  BY <1>2, <1>4, <1>6, <1>7, <1>9, <1>13 DEF Flushes
<1> QED BY <1>12, <1>14

\* SettlePull settles a chunk, or ends the body.
LEMMA SettlePullIs ==
  ASSUME StreamInv, SettlePull
  PROVE  Types' /\ Bounds' /\ (Settles \/ SaysEnd)
<1>0. Types /\ Phases /\ Bounds
  BY DEF StreamInv
<1>1. gin \in GinRec /\ out \in OutRec /\ run \in RunRec /\ out.made <= OwnLen
        /\ run.rounds < Rounds
      /\ up \in Seq(UpFrame)
  BY <1>0 DEF Types, Bounds
<1>2. run.turn = "drive" /\ run.phase = "grace" /\ out.on # "no" /\ ~out.done
        /\ out.backlog = <<>>
  BY <1>0, <1>1 DEF SettlePull, Driving, Awaited, OutOpen, Phases, Talk, Over, Gone
<1>3. /\ run' = [run EXCEPT !.progressed = TRUE]
      /\ UNCHANGED <<down, src, entry, ost, cons, outGot, gin, conn, age, got>>
  BY DEF SettlePull, hostVars
<1>4. run' \in RunRec /\ run'.rounds = run.rounds /\ RunKeeps
  BY <1>1, <1>2, <1>3 DEF RunRec, RunKeeps
<1>5. DriveOnly
  BY <1>2, <1>3, <1>4 DEF DriveOnly, GuestOnly
<1>6. CASE out.pull = "chunk"
  <2>1. out' = [out EXCEPT !.pull = "none", !.data = <<>>, !.backlog = out.data] /\ up' = up
    BY <1>6 DEF SettlePull
  <2>2. out' \in OutRec /\ out'.made = out.made
    <3>1. PICK z \in Piece : z = <<>>
      BY NoBytes
    <3>2. out' = [out EXCEPT !.pull = "none", !.data = z, !.backlog = out.data]
      BY <2>1, <3>1
    <3> QED BY <1>1, <3>2 DEF OutRec, Pulls
  <2>3. Types' /\ Bounds'
    <3>1. UNCHANGED <<down, src, entry, ost, cons, outGot, conn, age, got>> /\ gin' = gin
      BY <1>3
    <3> QED BY <1>0, <1>1, <1>4, <2>1, <2>2, <3>1, DriveTypes
  <2> QED BY <1>2, <1>3, <1>5, <1>6, <2>1, <2>3 DEF Settles
<1>7. CASE out.pull \in {"eof", "err"}
  <2>1. PICK how \in {"ok", "err"} : how = IF out.pull = "eof" THEN "ok" ELSE "err"
    OBVIOUS
  <2>2. out' = [out EXCEPT !.pull = "none", !.done = TRUE] /\ GuestSends(<<OutEnd(how)>>)
    BY <1>7, <2>1 DEF SettlePull
  <2>3. OutEnd(how) \in UpFrame /\ OutEnd(how).t = "oend"
    BY FramesNew, FramesSay
  <2>4. UpNotes(up, up', {OutEnd(how)}) /\ up' \in Seq(UpFrame)
    <3>1. conn = "up"
      BY <1>0, <1>2 DEF Types, Phases, Talk, Over, Gone
    <3>2. up' = up \o <<OutEnd(how)>>
      BY <2>2, <3>1 DEF GuestSends
    <3>3. UpNotes(up, up \o <<OutEnd(how)>>, {OutEnd(how)})
      BY <1>1, <2>3, NoteOne
    <3> QED BY <3>2, <3>3 DEF UpNotes
  <2>5. out' \in OutRec /\ out'.made = out.made
    BY <1>1, <2>2 DEF OutRec, Pulls
  <2>6. Types' /\ Bounds'
    <3>1. UNCHANGED <<down, src, entry, ost, cons, outGot, conn, age, got>> /\ gin' = gin
      BY <1>3
    <3> QED BY <1>0, <1>1, <1>4, <2>4, <2>5, <3>1, DriveTypes
  <2> QED BY <1>2, <1>3, <1>5, <1>7, <2>1, <2>2, <2>4, <2>6 DEF SaysEnd
<1> QED BY <1>6, <1>7 DEF SettlePull

\* What the guest's own iterable may do.
OwnStep ==
  \/ \E f \in {"pending", "eof", "err"} : out' = [out EXCEPT !.pull = f]
  \/ \E n \in 0..(OwnLen - out.made) :
       out' = [out EXCEPT !.pull = "chunk", !.data = OwnChunk(n), !.made = @ + n]

\* It waits, ends or yields.
LEMMA OwnStepIs ==
  ASSUME Types, Bounds, Pulling, OwnStep, out.on = "own", out.pull \in {"none", "pending"}, out.backlog = <<>>,
         up' = up, gin' = gin, DriveOnly, age' = age, run' \in RunRec, run'.rounds < Rounds
  PROVE  Types' /\ Bounds' /\ (OwnWaits \/ OwnYields)
<1>1. gin \in GinRec /\ out \in OutRec /\ out.made <= OwnLen /\ up \in Seq(UpFrame)
        /\ out.made \in Nat /\ OwnLen \in Nat
  BY StreamsAssumption DEF Types, Bounds, OutRec
<1>2. out.data = <<>>
  BY DEF Pulling
<1>3. OwnOnly
  BY <1>2 DEF OwnOnly
<1>4. UNCHANGED <<down, src, entry, ost, cons, outGot, conn, age, got>>
  BY DEF DriveOnly, GuestOnly
<1>5. CASE \E f \in {"pending", "eof", "err"} : out' = [out EXCEPT !.pull = f]
  <2>1. out' \in OutRec /\ out'.made = out.made
    BY <1>1, <1>5 DEF OutRec, Pulls
  <2>2. Types' /\ Bounds'
    BY <1>1, <1>4, <2>1, DriveTypes
  <2> QED BY <1>3, <1>5, <2>2 DEF OwnWaits
<1>6. CASE \E n \in 0..(OwnLen - out.made) :
       out' = [out EXCEPT !.pull = "chunk", !.data = OwnChunk(n), !.made = @ + n]
  <2>1. PICK n \in 0..(OwnLen - out.made) :
       out' = [out EXCEPT !.pull = "chunk", !.data = OwnChunk(n), !.made = @ + n]
    BY <1>6
  <2>2. n \in Nat /\ out.made + n \in Nat /\ out.made + n <= OwnLen
    BY <1>1
  <2>3. OwnChunk(n) \in Piece
    BY <1>1, <2>2, Runs DEF OwnChunk
  <2>4. out' \in OutRec /\ out'.made = out.made + n
    BY <1>1, <2>1, <2>2, <2>3 DEF OutRec, Pulls
  <2>5. Types' /\ Bounds'
    BY <1>1, <1>4, <2>2, <2>4, DriveTypes
  <2> QED BY <1>3, <2>1, <2>2, <2>5 DEF OwnYields
<1> QED BY <1>5, <1>6 DEF OwnStep

\* StartPull pulls from the pipe, or from the guest's own iterable.
LEMMA StartPullIs ==
  ASSUME StreamInv, StartPull
  PROVE  Types' /\ Bounds' /\ (PullsChunk \/ PullsWait \/ PullsEnd \/ OwnWaits \/ OwnYields)
<1>0. Types /\ Phases /\ Bounds /\ Pulling
  BY DEF StreamInv
<1>1. gin \in GinRec /\ out \in OutRec /\ run \in RunRec /\ out.made <= OwnLen
        /\ run.rounds < Rounds
      /\ up \in Seq(UpFrame)
  BY <1>0 DEF Types, Bounds
<1>2. run.turn = "drive" /\ run.phase = "grace" /\ out.on # "no" /\ ~out.done
        /\ out.backlog = <<>> /\ out.pull = "none"
  BY <1>0, <1>1 DEF StartPull, Driving, CanPull, Awaited, OutOpen, Phases, Talk, Over, Gone
<1>3. NextRound(TRUE) /\ UNCHANGED <<down, src, entry, ost, cons, outGot, conn, age, got>>
  BY DEF StartPull, hostVars
<1>4. run' \in RunRec /\ run'.rounds < Rounds /\ RunKeeps
  BY <1>0, <1>2, <1>3, RoundIs
<1>5. DriveOnly /\ age' = age
  BY <1>2, <1>3, <1>4 DEF DriveOnly, GuestOnly
<1>6. CASE /\ out.on = "pipe" /\ StreamRead
           /\ out' = [out EXCEPT !.pull = ReadFinds, !.data = IF ReadFinds = "chunk" THEN Head(gin.buf) ELSE <<>>]
  <2>0. PipeOnly
    BY <1>2, <1>5, <1>6 DEF PipeOnly
  <2>1. /\ gin' \in GinRec /\ up' \in Seq(UpFrame)
        /\ \/ /\ ReadFinds = "chunk" /\ gin.buf # <<>> /\ Head(gin.buf) \in Piece
              /\ gin' = [gin EXCEPT !.buf = Tail(@)]
              /\ Bytes(gin.buf) = Head(gin.buf) \o Bytes(gin'.buf)
              /\ UpGets(up, up', Pull(Len(Head(gin.buf))))
           \/ /\ ReadFinds = "pending" /\ gin.buf = <<>> /\ ~gin.cancelled /\ gin.ended = "no"
                   /\ ~gin.pending
              /\ gin' = [gin EXCEPT !.pending = TRUE] /\ up' = up
           \/ /\ ReadFinds \in {"eof", "err"} /\ gin.buf = <<>>
              /\ (ReadFinds = "eof" => gin.cancelled \/ gin.ended = "ok")
              /\ gin' = gin /\ up' = up
    BY <1>0, <1>2, <1>6, ReadIs
  <2>2. PICK f \in Pulls, x \in Piece : f = ReadFinds
                                          /\ x = IF ReadFinds = "chunk" THEN Head(gin.buf) ELSE <<>>
    BY <2>1, NoBytes DEF Pulls
  <2>3. out' = [out EXCEPT !.pull = f, !.data = x]
    BY <1>6, <2>2
  <2>4. out' \in OutRec /\ out'.made = out.made
    BY <1>1, <2>3 DEF OutRec
  <2>5. Types' /\ Bounds'
    BY <1>0, <1>1, <1>3, <1>4, <2>1, <2>4, DriveTypes
  <2>6. CASE f = "chunk"
    <3>1. x = Head(gin.buf) /\ gin.buf # <<>> /\ gin' = [gin EXCEPT !.buf = Tail(@)]
          /\ Bytes(gin.buf) = x \o Bytes(gin'.buf) /\ UpGets(up, up', Pull(Len(x)))
      BY <2>1, <2>2, <2>6
    <3> QED BY <2>0, <2>3, <2>5, <2>6, <3>1 DEF PullsChunk
  <2>7. CASE f = "pending"
    BY <2>0, <2>1, <2>2, <2>3, <2>5, <2>7 DEF PullsWait
  <2>8. CASE f \in {"eof", "err"}
    BY <2>0, <2>1, <2>2, <2>3, <2>5, <2>8 DEF PullsEnd
  <2> QED BY <2>1, <2>2, <2>6, <2>7, <2>8
<1>7. CASE out.on = "own" /\ OwnStep /\ gin' = gin /\ up' = up
  BY <1>0, <1>2, <1>4, <1>5, <1>7, OwnStepIs
<1> QED BY <1>6, <1>7 DEF StartPull, OwnStep

\* OwnPullSettles is a step of the guest's own iterable.
LEMMA OwnPullSettlesIs ==
  ASSUME StreamInv, OwnPullSettles
  PROVE  Types' /\ Bounds' /\ (OwnWaits \/ OwnYields)
<1>0. Types /\ Phases /\ Bounds /\ Pulling
  BY DEF StreamInv
<1>1. run.phase = "grace" /\ out.on = "own" /\ ~out.done /\ out.pull = "pending" /\ OwnStep
        /\ ScanFollows
      /\ UNCHANGED <<down, up, gin, src, entry, ost, cons, outGot, conn, age, got>>
  BY DEF OwnPullSettles, hostVars, OwnStep
<1>2. out.backlog = <<>>
  BY <1>0, <1>1 DEF Pulling
<1>3. RunKeeps /\ run' \in RunRec /\ run'.rounds = run.rounds
  BY <1>0, <1>1, ScanIs
<1>4. run'.rounds < Rounds
  BY <1>0, <1>3 DEF Bounds
<1>5. DriveOnly /\ age' = age /\ up' = up /\ gin' = gin
  BY <1>1, <1>3 DEF DriveOnly, GuestOnly
<1> QED BY <1>0, <1>1, <1>2, <1>3, <1>4, <1>5, OwnStepIs

\* RoundOver, Tick and a scan that ends nothing move nothing the invariant
\* speaks of.
LEMMA RunOnlyIs ==
  ASSUME StreamInv, \/ RoundOver \/ Tick
                    \/ run.turn = "scan" /\ run' = [run EXCEPT !.turn = "no"]
                         /\ UNCHANGED <<up, down, gin, out, age, hostVars, conn, got>>
  PROVE  Types' /\ Bounds' /\ Idles
<1>0. Types /\ Phases /\ Bounds
  BY DEF StreamInv
<1>1. run \in RunRec /\ run.rounds < Rounds /\ age \in Nat /\ age <= Idle /\ Idle \in Nat
  BY <1>0, StreamsAssumption DEF Types, Bounds
<1>2. UNCHANGED <<src, down, up, gin, out, entry, ost, cons, conn, got, outGot>>
  BY DEF RoundOver, Tick, hostVars
<1>3. RunKeeps /\ run' \in RunRec /\ run'.rounds < Rounds
  <2>1. CASE RoundOver
    <3>1. run.phase = "grace" /\ NextRound(run.progressed)
      BY <1>0, <2>1 DEF RoundOver, Driving, Phases, Talk, Over, Gone
    <3> QED BY <1>0, <3>1, RoundIs
  <2>2. CASE Tick
    BY <1>0, <1>1, <2>2 DEF Tick, RunKeeps, Phases, Talk, Over, Gone
  <2>3. CASE run.turn = "scan" /\ run' = [run EXCEPT !.turn = "no"]
    <3>1. run' \in RunRec /\ run'.rounds = run.rounds /\ run'.phase = run.phase
            /\ run'.violated = run.violated /\ run'.turn = "no"
      BY <1>1, <2>3 DEF RunRec
    <3> QED BY <1>1, <3>1 DEF RunKeeps
  <2> QED BY <2>1, <2>2, <2>3
<1>4. age' \in Nat /\ age' <= Idle
  <2>1. CASE Tick
    BY <1>1, <2>1 DEF Tick
  <2>2. CASE age' = age
    BY <1>1, <2>2
  <2> QED BY <2>1, <2>2 DEF RoundOver
<1>5. Types' /\ Bounds'
  <2>1. /\ gin' \in GinRec /\ out' \in OutRec /\ got' \in Piece /\ down' \in Seq(DownFrame)
        /\ up' \in Seq(UpFrame)
        /\ out'.made <= OwnLen
    BY <1>0, <1>2 DEF Types, Bounds
  <2>2. UNCHANGED <<src, entry, ost, cons, conn, outGot>>
    BY <1>2
  <2> QED BY <1>0, <1>3, <1>4, <2>1, <2>2, GuestTypes
<1> QED BY <1>2, <1>3, <1>5 DEF Idles

\* TakeCredit takes a grant.
LEMMA TakeCreditIs ==
  ASSUME StreamInv, TakeCredit
  PROVE  Types' /\ Bounds' /\ TakesGrant
<1>0. Types /\ Phases /\ Bounds
  BY DEF StreamInv
<1>1. gin \in GinRec /\ out \in OutRec /\ run \in RunRec /\ got \in Piece /\ up \in Seq(UpFrame)
      /\ out.made <= OwnLen /\ run.rounds < Rounds
  BY <1>0 DEF Types, Bounds
<1>2. DownLoses(down, down', Head(down)) /\ Head(down) \in DownFrame /\ Head(down).t = "opull"
        /\ down' \in Seq(DownFrame)
  BY <1>0, Came DEF TakeCredit
<1>3. PICK n \in Nat : n = Head(down).n /\ Head(down) = OutPull(n)
  BY <1>2, DownIs
<1>4. /\ UNCHANGED <<src, entry, ost, cons, outGot, conn, gin, up, got>> /\ ScanFollows
      /\ age' = 0
      /\ out' = [out EXCEPT !.credit = IF out.done THEN @ ELSE @ + n]
  BY <1>3 DEF TakeCredit, hostVars
<1>5. RunKeeps /\ run' \in RunRec /\ run'.rounds = run.rounds
  BY <1>0, <1>4, ScanIs
<1>6. out' \in OutRec /\ out'.made = out.made
  <2>1. PICK k \in Nat : k = IF out.done THEN out.credit ELSE out.credit + n
    BY <1>1 DEF OutRec
  <2>2. out' = [out EXCEPT !.credit = k]
    BY <1>4, <2>1
  <2> QED BY <1>1, <2>2 DEF OutRec
<1>7. Types' /\ Bounds'
  <2>1. UNCHANGED <<src, entry, ost, cons, conn, outGot>> /\ gin' = gin /\ up' = up /\ got' = got
          /\ age' \in Nat /\ age' <= Idle
    BY <1>4, StreamsAssumption
  <2> QED BY <1>0, <1>1, <1>2, <1>5, <1>6, <2>1, GuestTypes
<1>8. TakesGrant
  BY <1>2, <1>3, <1>4, <1>5 DEF TakesGrant, GuestOnly
<1> QED BY <1>7, <1>8

-----------------------------------------------------------------------------
(* Every action is one of the steps: the ends. *)

\* What is left of a body that is cut short is typed.
LEMMA HushIs ==
  ASSUME out \in OutRec
  PROVE  Hush \in OutRec /\ Hush.made = out.made
<1>1. PICK z \in Piece : z = <<>>
  BY NoBytes
<1>2. Hush = [out EXCEPT !.done = TRUE, !.pull = "none", !.data = z, !.backlog = z]
  BY <1>1 DEF Hush
<1> QED BY <1>2 DEF OutRec, Pulls

\* What cancel_out_stream does, with or without an end of the body.
LEMMA CancelOutIs ==
  ASSUME Types, Phases, Buffer, run.phase # "over", NEW b \in BOOLEAN,
         NEW w, w = (IF b THEN <<OutEnd("err")>> ELSE <<>>), CancelOut(w)
  PROVE  /\ out' = Hush /\ out' \in OutRec /\ out'.made = out.made
         /\ gin' \in GinRec /\ gin' \in {gin, Cut} /\ (out.on = "pipe" => ~gin'.pending)
              /\ up' \in Seq(UpFrame)
         /\ \E F \in SUBSET {OutEnd("err"), CancelFrame} :
              /\ UpNotes(up, up', F) /\ (b => OutEnd("err") \in F)
              /\ (CancelFrame \in F => gin' = Cut)
<1>1. out \in OutRec /\ gin \in GinRec /\ up \in Seq(UpFrame) /\ conn = "up"
  BY DEF Types, Phases, Talk, Over, Gone
<1>2. out' = Hush
  BY DEF CancelOut, Hush
<1>3. out' \in OutRec /\ out'.made = out.made
  BY <1>1, <1>2, HushIs
<1>4. CASE out.on = "pipe"
  <2>1. StreamCancel(w)
    BY <1>4 DEF CancelOut
  <2>2. /\ gin' \in GinRec /\ gin' \in {gin, Cut} /\ ~gin'.pending /\ up' \in Seq(UpFrame)
        /\ \E F \in SUBSET {OutEnd("err"), CancelFrame} :
              /\ UpNotes(up, up', F) /\ (b => OutEnd("err") \in F)
              /\ (CancelFrame \in F => gin' = Cut)
    BY <2>1, CancelIs
  <2> QED BY <1>2, <1>3, <2>2
<1>5. CASE out.on # "pipe"
  <2>1. gin' = gin /\ up' = up \o w
    BY <1>1, <1>5 DEF CancelOut, GuestSends
  <2>2. PICK F \in SUBSET {OutEnd("err"), CancelFrame} : F = IF b THEN {OutEnd("err")} ELSE {}
    OBVIOUS
  <2>3. UpNotes(up, up', F)
    <3>1. CASE b
      <4>1. OutEnd("err") \in UpFrame /\ OutEnd("err").t = "oend"
        BY FramesNew, FramesSay
      <4>2. UpNotes(up, up \o <<OutEnd("err")>>, {OutEnd("err")})
        BY <1>1, <4>1, NoteOne
      <4> QED BY <2>1, <2>2, <3>1, <4>2
    <3>2. CASE ~b
      <4>1. UpNotes(up, up \o <<>>, {})
        BY <1>1, NoteNone
      <4> QED BY <2>1, <2>2, <3>2, <4>1
    <3> QED BY <3>1, <3>2
  <2>4. CancelFrame \notin F
    <3>1. CancelFrame # OutEnd("err")
      BY DEF CancelFrame, OutEnd
    <3> QED BY <2>2, <3>1
  <2>5. up' \in Seq(UpFrame)
    BY <2>3 DEF UpNotes
  <2>6. b => OutEnd("err") \in F
    BY <2>2
  <2> QED BY <1>1, <1>2, <1>3, <1>5, <2>1, <2>3, <2>4, <2>5, <2>6
<1> QED BY <1>4, <1>5

\* TakeCancel cuts the body short, or comes too late.
LEMMA TakeCancelIs ==
  ASSUME StreamInv, TakeCancel
  PROVE  Types' /\ Bounds' /\ (CancelLate \/ CutsOut)
<1>0. Types /\ Phases /\ Bounds /\ Buffer
  BY DEF StreamInv
<1>1. gin \in GinRec /\ out \in OutRec /\ run \in RunRec /\ got \in Piece /\ up \in Seq(UpFrame)
      /\ out.made <= OwnLen /\ run.rounds < Rounds
  BY <1>0 DEF Types, Bounds
<1>2. DownLoses(down, down', Head(down)) /\ Head(down) \in DownFrame /\ Head(down).t = "ocancel"
        /\ down' \in Seq(DownFrame)
  BY <1>0, Came DEF TakeCancel
<1>3. DownLoses(down, down', OutCancel)
  BY <1>2, DownIs
<1>4. UNCHANGED <<src, entry, ost, cons, outGot, conn, got>> /\ ScanFollows /\ age' = 0
  BY DEF TakeCancel, hostVars
<1>5. RunKeeps /\ run' \in RunRec /\ run'.rounds = run.rounds
  BY <1>0, <1>4, ScanIs
<1>6. run.phase # "over"
  BY <1>0, <1>2 DEF DownLoses, Phases, Talk, Over, Gone
<1>7. GuestOnly /\ got' = got
  BY <1>4, <1>5 DEF GuestOnly
<1>8. ASSUME gin' \in GinRec, out' \in OutRec, out'.made = out.made, up' \in Seq(UpFrame)
      PROVE  Types' /\ Bounds'
  <2>1. UNCHANGED <<src, entry, ost, cons, conn, outGot>> /\ got' = got /\ age' \in Nat
          /\ age' <= Idle
    BY <1>4, StreamsAssumption
  <2> QED BY <1>0, <1>1, <1>2, <1>5, <1>8, <2>1, GuestTypes
<1>9. CASE OutOpen
  <2>1. PICK b \in BOOLEAN : ~b
    OBVIOUS
  <2>2. PICK w : w = (IF b THEN <<OutEnd("err")>> ELSE <<>>) /\ CancelOut(w)
    BY <1>9, <2>1 DEF TakeCancel
  <2>3. /\ out' = Hush /\ out' \in OutRec /\ out'.made = out.made
        /\ gin' \in GinRec /\ gin' \in {gin, Cut} /\ (out.on = "pipe" => ~gin'.pending)
             /\ up' \in Seq(UpFrame)
        /\ \E F \in SUBSET {OutEnd("err"), CancelFrame} :
              /\ UpNotes(up, up', F) /\ (CancelFrame \in F => gin' = Cut)
    BY <1>0, <1>6, <2>2, CancelOutIs
  <2>4. run.phase = "grace" /\ out.on # "no" /\ ~out.done
    BY <1>0, <1>1, <1>6, <1>9 DEF OutOpen, Phases, Talk, Over, Gone, RunRec
  <2>5. CutsOut
    BY <1>3, <1>7, <2>3, <2>4 DEF CutsOut
  <2> QED BY <1>8, <2>3, <2>5
<1>10. CASE ~OutOpen
  <2>1. UNCHANGED <<gin, out, up>>
    BY <1>10 DEF TakeCancel
  <2> QED BY <1>1, <1>3, <1>7, <1>8, <2>1 DEF CancelLate
<1> QED BY <1>9, <1>10

\* IdleDrop cuts the body short.
LEMMA IdleDropIs ==
  ASSUME StreamInv, IdleDrop
  PROVE  Types' /\ Bounds' /\ CutsOut
<1>0. Types /\ Phases /\ Bounds /\ Buffer
  BY DEF StreamInv
<1>1. gin \in GinRec /\ out \in OutRec /\ run \in RunRec /\ got \in Piece
        /\ down \in Seq(DownFrame)
      /\ out.made <= OwnLen /\ run.rounds < Rounds /\ age \in Nat /\ age <= Idle
  BY <1>0 DEF Types, Bounds
<1>2. /\ run.phase = "grace" /\ OutOpen /\ CancelOut(<<OutEnd("err")>>) /\ ScanFollows
      /\ UNCHANGED <<down, src, entry, ost, cons, outGot, conn, age, got>>
  BY DEF IdleDrop, hostVars
<1>3. RunKeeps /\ run' \in RunRec /\ run'.rounds = run.rounds
  BY <1>0, <1>2, ScanIs
<1>4. GuestOnly /\ got' = got
  BY <1>2, <1>3 DEF GuestOnly
<1>5. PICK b \in BOOLEAN : b
  OBVIOUS
<1>6. PICK w : w = (IF b THEN <<OutEnd("err")>> ELSE <<>>) /\ CancelOut(w)
  BY <1>2, <1>5
<1>7. /\ out' = Hush /\ out' \in OutRec /\ out'.made = out.made
      /\ gin' \in GinRec /\ gin' \in {gin, Cut} /\ (out.on = "pipe" => ~gin'.pending)
           /\ up' \in Seq(UpFrame)
      /\ \E F \in SUBSET {OutEnd("err"), CancelFrame} :
            /\ UpNotes(up, up', F) /\ (b => OutEnd("err") \in F)
                 /\ (CancelFrame \in F => gin' = Cut)
  BY <1>0, <1>2, <1>6, CancelOutIs
<1>8. CutsOut
  <2>1. out.on # "no" /\ ~out.done /\ down' = down
    BY <1>2 DEF OutOpen
  <2> QED BY <1>2, <1>4, <1>5, <1>7, <2>1 DEF CutsOut
<1>9. Types' /\ Bounds'
  <2>1. UNCHANGED <<src, entry, ost, cons, conn, outGot>> /\ got' = got /\ age' = age
          /\ down' = down
    BY <1>2
  <2> QED BY <1>0, <1>1, <1>3, <1>7, <2>1, GuestTypes
<1> QED BY <1>8, <1>9

\* TablesTaken sweeps.
LEMMA TablesAre ==
  ASSUME Types, Bounds, TablesTaken
  PROVE  /\ Swept /\ out' \in OutRec /\ out'.made = out.made /\ gin' \in GinRec /\ run' \in RunRec
         /\ run'.rounds < Rounds /\ down' \in Seq(DownFrame) /\ age' \in Nat /\ age' <= Idle
<1>1. out \in OutRec /\ gin \in GinRec /\ run \in RunRec /\ Rounds \in Nat \ {0} /\ Idle \in Nat
  BY StreamsAssumption DEF Types
<1>2. PICK z \in Piece : z = <<>>
  BY NoBytes
<1>3. PICK y \in Seq(Piece) : y = <<>>
  BY NoBytes
<1>4. PICK b \in BOOLEAN : b = (out.on # "no")
  OBVIOUS
<1>5. out' = [out EXCEPT !.done = b, !.pull = "none", !.data = z, !.backlog = z, !.credit = 0]
  BY <1>2, <1>4 DEF TablesTaken
<1>6. out' \in OutRec /\ out'.made = out.made
  BY <1>1, <1>5 DEF OutRec, Pulls
<1>7. gin' = [gin EXCEPT !.pending = FALSE, !.buf = y]
  BY <1>3 DEF TablesTaken
<1>8. gin' \in GinRec
  BY <1>1, <1>7 DEF GinRec
<1>9. run' = [run EXCEPT !.phase = "over", !.turn = "no", !.rounds = 0, !.progressed = FALSE]
        /\ down' = <<>> /\ age' = 0
  BY DEF TablesTaken
<1>10. run' \in RunRec /\ run'.rounds = 0 /\ run'.phase = "over" /\ run'.turn = "no"
         /\ run'.violated = run.violated
  BY <1>1, <1>9 DEF RunRec
<1>11. run'.rounds < Rounds /\ age' \in Nat /\ age' <= Idle
  BY <1>1, <1>9, <1>10
<1>12. down' \in Seq(DownFrame)
  BY <1>9, NoFrames
<1>13. Swept
  BY <1>9, <1>10 DEF Swept, TablesTaken
<1> QED BY <1>6, <1>8, <1>10, <1>11, <1>12, <1>13

\* Conclude ends the run.
LEMMA ConcludeIs ==
  ASSUME StreamInv, NEW last \in {Result(FALSE), Complete}, Conclude(last),
         run.phase # "over", (last = Complete <=> run.phase = "grace"),
         UNCHANGED <<hostVars, conn, got>>
  PROVE  Types' /\ Bounds' /\ Ending
<1>0. Types /\ Phases /\ Bounds
  BY DEF StreamInv
<1>1. /\ Swept /\ out' \in OutRec /\ out'.made = out.made /\ gin' \in GinRec /\ run' \in RunRec
      /\ run'.rounds < Rounds /\ down' \in Seq(DownFrame) /\ age' \in Nat /\ age' <= Idle
  BY <1>0, TablesAre DEF Conclude
<1>2. UNCHANGED <<src, entry, ost, cons, outGot, conn, got>>
  BY DEF hostVars
<1>3. up \in Seq(UpFrame) /\ conn = "up" /\ out \in OutRec /\ gin \in GinRec /\ got \in Piece
  BY <1>0 DEF Types, Phases, Talk, Over, Gone
<1>4. PICK b \in BOOLEAN : b = OutOpen
  BY <1>3 DEF OutOpen
<1>5. PICK c \in BOOLEAN : c = Cancellable
  BY <1>3 DEF Cancellable
<1>6. up' = up \o (((IF b THEN <<OutEnd("err")>> ELSE <<>>) \o (IF c THEN <<CancelFrame>> ELSE <<>>)) \o <<last>>)
  BY <1>3, <1>4, <1>5 DEF Conclude, GuestSends, Closing
<1>7. PICK F : F = ((IF b THEN {OutEnd("err")} ELSE {}) \cup (IF c THEN {CancelFrame} ELSE {})) \cup {last}
  OBVIOUS
<1>8. UpNotes(up, up', F)
  BY <1>3, <1>6, <1>7, NoteLast
<1>9. up' \in Seq(UpFrame)
  BY <1>8 DEF UpNotes
<1>10. OutEnd("err") # CancelFrame /\ OutEnd("err") # last
  BY DEF OutEnd, CancelFrame, Result, Complete
<1>11. /\ F \subseteq {OutEnd("err"), CancelFrame, last} /\ last \in F
       /\ (OutEnd("err") \in F <=> (out.on # "no" /\ ~out.done))
  BY <1>4, <1>7, <1>10 DEF OutOpen
<1>12. Ending
  BY <1>1, <1>2, <1>8, <1>11 DEF Ending
<1>13. Types' /\ Bounds'
  <2>1. out'.made <= OwnLen
    BY <1>0, <1>1 DEF Bounds
  <2>2. UNCHANGED <<src, entry, ost, cons, conn, outGot>> /\ got' = got
    BY <1>2
  <2> QED BY <1>0, <1>1, <1>3, <1>9, <2>1, <2>2, GuestTypes
<1> QED BY <1>12, <1>13

\* ExecEnds, ScanEnds and PhaseEnds end the run, or leave it.
LEMMA EndsAre ==
  ASSUME StreamInv, ExecEnds \/ ScanEnds \/ PhaseEnds
  PROVE  Types' /\ Bounds' /\ (Ending \/ Idles)
<1>0. Types /\ Phases /\ Bounds
  BY DEF StreamInv
<1>1. Result(FALSE) # Complete
  BY DEF Result, Complete
<1>2. CASE ExecEnds
  BY <1>1, <1>2, ConcludeIs DEF ExecEnds
<1>3. CASE PhaseEnds
  BY <1>3, ConcludeIs DEF PhaseEnds
<1>4. CASE ScanEnds
  <2>1. run.phase = "grace" /\ UNCHANGED <<hostVars, conn, got>>
    BY <1>0, <1>4 DEF ScanEnds, Phases, Talk, Over, Gone
  <2>2. CASE Conclude(Complete)
    BY <2>1, <2>2, ConcludeIs
  <2>3. CASE run' = [run EXCEPT !.turn = "no"] /\ UNCHANGED <<up, down, gin, out, age>>
    BY <1>4, <2>1, <2>3, RunOnlyIs DEF ScanEnds
  <2> QED BY <1>4, <2>2, <2>3 DEF ScanEnds
<1> QED BY <1>2, <1>3, <1>4

\* ConnectionLost cuts the connection.
LEMMA ConnectionLostIs ==
  ASSUME StreamInv, ConnectionLost
  PROVE  Types' /\ Bounds' /\ Cuts
<1>0. Types /\ Phases /\ Bounds
  BY DEF StreamInv
<1>1. /\ Swept /\ out' \in OutRec /\ out'.made = out.made /\ gin' \in GinRec /\ run' \in RunRec
      /\ run'.rounds < Rounds /\ down' \in Seq(DownFrame) /\ age' \in Nat /\ age' <= Idle
  BY <1>0, TablesAre DEF ConnectionLost
<1>2. conn = "up" /\ conn' = "lost" /\ up' = <<>>
        /\ UNCHANGED <<src, entry, ost, cons, outGot, got>>
  BY DEF ConnectionLost, hostVars
<1>3. up' \in Seq(UpFrame)
  BY <1>2, NoFrames
<1>4. out'.made <= OwnLen
  BY <1>0, <1>1 DEF Bounds
<1>5. Types' /\ Bounds'
  BY <1>0, <1>1, <1>2, <1>3, <1>4 DEF Types, Bounds
<1> QED BY <1>1, <1>2, <1>5 DEF Cuts

-----------------------------------------------------------------------------
(* Every action is one of the steps: the host. *)

\* A step of the host keeps the types of everything else.
LEMMA HostTypes ==
  ASSUME Types, Bounds, UNCHANGED <<gin, out, run, age, got, conn>>,
         src' \in SrcRec, src'.read = src.read, entry' \in {"run", "epilogue", "gone"}, ost' \in OstRec,
         cons' \in ConsIn, outGot' \in Piece, down' \in Seq(DownFrame), up' \in Seq(UpFrame)
  PROVE  Types' /\ Bounds'
  BY DEF Types, Bounds

\* Wake wakes.
LEMMA WokenIs ==
  ASSUME cons \in ConsIn, Wake
  PROVE  Woken /\ cons' \in ConsIn
  BY DEF Wake, Woken, ConsIn

\* FailAll fails a body without an outcome.
LEMMA FailAllIs ==
  ASSUME Types, FailAll
  PROVE  Fails /\ ost' \in OstRec /\ cons' \in ConsIn
<1>1. ost \in OstRec /\ cons \in ConsIn
  BY DEF Types
<1>2. CASE ost.ended = "no" /\ ~ost.cancelled /\ ~ost.failed
  <2>1. ost' = [ost EXCEPT !.failed = TRUE] /\ Wake
    BY <1>2 DEF FailAll
  <2>2. ost' \in OstRec
    BY <1>1, <2>1 DEF OstRec
  <2>3. Woken /\ cons' \in ConsIn
    BY <1>1, <2>1, WokenIs
  <2> QED BY <1>2, <2>1, <2>2, <2>3 DEF Fails
<1>3. CASE ~(ost.ended = "no" /\ ~ost.cancelled /\ ~ost.failed)
  BY <1>1, <1>3 DEF FailAll, Fails
<1> QED BY <1>2, <1>3

\* RouteOutChunk takes a chunk.
LEMMA RouteOutChunkIs ==
  ASSUME StreamInv, RouteOutChunk
  PROVE  Types' /\ Bounds' /\ TakesChunk
<1>0. Types /\ Phases /\ Bounds
  BY DEF StreamInv
<1>1. ost \in OstRec /\ cons \in ConsIn /\ ost.buf \in Seq(Piece)
  BY <1>0 DEF Types, OstRec
<1>2. UpLoses(up, up', Head(up)) /\ Head(up) \in UpFrame /\ Head(up).t = "ochunk"
        /\ up' \in Seq(UpFrame)
  BY <1>0, Routed DEF RouteOutChunk
<1>3. PICK d \in Piece : d = Head(up).d /\ Head(up) = OutChunk(d)
  BY <1>2, UpIs
<1>4. entry # "gone"
  BY <1>0, <1>2 DEF Phases, Talk, Over, Gone, UpLoses
<1>5. UNCHANGED <<down, src, entry, conn, outGot, gin, out, run, age, got>>
  BY DEF RouteOutChunk, guestVars
<1>6. RouteOnly /\ UNCHANGED <<src, entry, outGot>>
  BY <1>5 DEF RouteOnly
<1>7. /\ ost' \in OstRec /\ cons' \in ConsIn
      /\ \/ /\ ~ost.cancelled /\ ost' = [ost EXCEPT !.buf = Append(@, d)]
            /\ Bytes(ost'.buf) = Bytes(ost.buf) \o d /\ Woken
         \/ ost.cancelled /\ UNCHANGED <<ost, cons>>
  <2>1. CASE ~ost.cancelled
    <3>1. ost' = [ost EXCEPT !.buf = Append(@, d)] /\ Wake
      BY <1>3, <1>4, <2>1 DEF RouteOutChunk
    <3>2. Append(ost.buf, d) \in Seq(Piece) /\ Bytes(Append(ost.buf, d)) = Bytes(ost.buf) \o d
      BY <1>1, AppendProperties, BytesAppend
    <3>3. ost' \in OstRec /\ ost'.buf = Append(ost.buf, d)
      BY <1>1, <3>1, <3>2 DEF OstRec
    <3>4. Woken /\ cons' \in ConsIn
      BY <1>1, <3>1, WokenIs
    <3> QED BY <2>1, <3>1, <3>2, <3>3, <3>4
  <2>2. CASE ost.cancelled
    BY <1>1, <2>2 DEF RouteOutChunk
  <2> QED BY <2>1, <2>2
<1>8. TakesChunk
  BY <1>2, <1>3, <1>6, <1>7 DEF TakesChunk
<1>9. Types' /\ Bounds'
  <2>1. /\ UNCHANGED <<gin, out, run, age, got, conn>> /\ src' \in SrcRec /\ src'.read = src.read
        /\ entry' \in {"run", "epilogue", "gone"} /\ outGot' \in Piece /\ down' \in Seq(DownFrame)
    BY <1>0, <1>5 DEF Types
  <2> QED BY <1>0, <1>2, <1>7, <2>1, HostTypes
<1> QED BY <1>8, <1>9

\* RouteOutEnd takes the end.
LEMMA RouteOutEndIs ==
  ASSUME StreamInv, RouteOutEnd
  PROVE  Types' /\ Bounds' /\ TakesEnd
<1>0. Types /\ Phases /\ Bounds
  BY DEF StreamInv
<1>1. ost \in OstRec /\ cons \in ConsIn
  BY <1>0 DEF Types
<1>2. UpLoses(up, up', Head(up)) /\ Head(up) \in UpFrame /\ Head(up).t = "oend"
        /\ up' \in Seq(UpFrame)
  BY <1>0, Routed DEF RouteOutEnd
<1>3. PICK how \in {"ok", "err"} : how = Head(up).how /\ Head(up) = OutEnd(how)
  BY <1>2, UpIs
<1>4. entry # "gone"
  BY <1>0, <1>2 DEF Phases, Talk, Over, Gone, UpLoses
<1>5. UNCHANGED <<down, src, entry, conn, outGot, gin, out, run, age, got>>
  BY DEF RouteOutEnd, guestVars
<1>6. RouteOnly /\ UNCHANGED <<src, entry, outGot>>
  BY <1>5 DEF RouteOnly
<1>7. ost' = [ost EXCEPT !.ended = how] /\ Wake
  BY <1>3, <1>4 DEF RouteOutEnd
<1>8. ost' \in OstRec
  BY <1>1, <1>7 DEF OstRec
<1>9. Woken /\ cons' \in ConsIn
  BY <1>1, <1>7, WokenIs
<1>10. TakesEnd
  BY <1>2, <1>3, <1>6, <1>7, <1>9 DEF TakesEnd
<1>11. Types' /\ Bounds'
  <2>1. /\ UNCHANGED <<gin, out, run, age, got, conn>> /\ src' \in SrcRec /\ src'.read = src.read
        /\ entry' \in {"run", "epilogue", "gone"} /\ outGot' \in Piece /\ down' \in Seq(DownFrame)
    BY <1>0, <1>5 DEF Types
  <2> QED BY <1>0, <1>2, <1>8, <1>9, <2>1, HostTypes
<1> QED BY <1>10, <1>11

\* RouteResult takes a result, with or without a body.
LEMMA RouteResultIs ==
  ASSUME StreamInv, RouteResult
  PROVE  Types' /\ Bounds' /\ (TakesBody \/ TakesResult)
<1>0. Types /\ Phases /\ Bounds
  BY DEF StreamInv
<1>1. ost \in OstRec /\ cons \in ConsIn /\ src \in SrcRec
  BY <1>0 DEF Types
<1>2. UpLoses(up, up', Head(up)) /\ Head(up) \in UpFrame /\ Head(up).t = "result"
        /\ up' \in Seq(UpFrame)
  BY <1>0, Routed DEF RouteResult
<1>3. PICK b \in BOOLEAN : b = Head(up).streams /\ Head(up) = Result(b)
  BY <1>2, UpIs
<1>4. UNCHANGED <<down, ost, conn, outGot, gin, out, run, age, got>>
  BY DEF RouteResult, guestVars
<1>5. RouteOnly /\ UNCHANGED <<ost, outGot>>
  BY <1>4 DEF RouteOnly
<1>6. ASSUME src' \in SrcRec, src'.read = src.read, entry' \in {"run", "epilogue", "gone"}, cons' \in ConsIn
      PROVE  Types' /\ Bounds'
  <2>1. /\ UNCHANGED <<gin, out, run, age, got, conn>> /\ ost' \in OstRec
        /\ outGot' \in Piece /\ down' \in Seq(DownFrame)
    BY <1>0, <1>4 DEF Types
  <2> QED BY <1>0, <1>2, <1>6, <2>1, HostTypes
<1>7. CASE b
  <2>1. entry' = "epilogue" /\ cons' = "decode" /\ src' = src
    BY <1>3, <1>7 DEF RouteResult
  <2>2. Head(up) = Result(TRUE)
    BY <1>3, <1>7
  <2>3. cons' \in ConsIn
    BY <2>1 DEF ConsIn
  <2> QED BY <1>1, <1>2, <1>5, <1>6, <2>1, <2>2, <2>3 DEF TakesBody
<1>8. CASE ~b
  <2>1. entry' = "gone" /\ cons' = cons /\ src' = Released
    BY <1>3, <1>8 DEF RouteResult
  <2>2. Head(up) = Result(FALSE)
    BY <1>3, <1>8
  <2>3. src' \in SrcRec /\ src'.read = src.read
    BY <1>1, <2>1, ReleasedIs
  <2> QED BY <1>1, <1>2, <1>5, <1>6, <2>1, <2>2, <2>3 DEF TakesResult
<1> QED BY <1>7, <1>8

\* Attach attaches.
LEMMA AttachIs ==
  ASSUME StreamInv, Attach
  PROVE  Types' /\ Bounds' /\ Attaches
<1>0. Types /\ Bounds
  BY DEF StreamInv
<1>1. cons = "decode" /\ cons' = "idle"
        /\ UNCHANGED <<src, down, up, gin, out, run, age, got, entry, ost, conn, outGot>>
  BY DEF Attach, guestVars
<1>2. Types' /\ Bounds'
  BY <1>0, <1>1 DEF Types, Bounds, ConsIn
<1> QED BY <1>1, <1>2 DEF Attaches, RouteOnly

\* RouteComplete and HostSeesLoss forget the run.
LEMMA GoesAre ==
  ASSUME StreamInv, RouteComplete \/ HostSeesLoss
  PROVE  Types' /\ Bounds' /\ (Completes \/ SeesLoss)
<1>0. Types /\ Bounds /\ Phases
  BY DEF StreamInv
<1>1. src \in SrcRec /\ up \in Seq(UpFrame)
  BY <1>0 DEF Types
<1>2. /\ entry' = "gone" /\ src' = Released /\ FailAll
      /\ UNCHANGED <<down, gin, out, run, age, got, conn, outGot>>
  BY DEF RouteComplete, HostSeesLoss, guestVars
<1>3. src' \in SrcRec /\ src'.read = src.read
  BY <1>1, <1>2, ReleasedIs
<1>4. Fails /\ ost' \in OstRec /\ cons' \in ConsIn
  BY <1>0, <1>2, FailAllIs
<1>5. RouteOnly /\ outGot' = outGot
  BY <1>2 DEF RouteOnly
<1>6. ASSUME up' \in Seq(UpFrame) PROVE Types' /\ Bounds'
  <2>1. /\ UNCHANGED <<gin, out, run, age, got, conn>> /\ entry' \in {"run", "epilogue", "gone"}
        /\ outGot' \in Piece /\ down' \in Seq(DownFrame)
    BY <1>0, <1>2 DEF Types
  <2> QED BY <1>0, <1>3, <1>4, <1>6, <2>1, HostTypes
<1>7. CASE RouteComplete
  <2>1. UpLoses(up, up', Head(up)) /\ Head(up) \in UpFrame /\ Head(up).t = "complete"
          /\ up' \in Seq(UpFrame)
    BY <1>0, <1>7, Routed DEF RouteComplete
  <2>2. Head(up) = Complete
    BY <2>1, UpIs
  <2> QED BY <1>2, <1>4, <1>5, <1>6, <2>1, <2>2 DEF Completes
<1>8. CASE HostSeesLoss
  <2>1. conn = "lost" /\ up' = up
    BY <1>8 DEF HostSeesLoss
  <2> QED BY <1>1, <1>2, <1>4, <1>5, <1>6, <2>1 DEF SeesLoss
<1> QED BY <1>7, <1>8

\* Serve serves a chunk, or finds none.
LEMMA ServeIs ==
  ASSUME StreamInv, Serve
  PROVE  Types' /\ Bounds' /\ (Serves \/ Turns)
<1>0. Types /\ Bounds /\ Phases
  BY DEF StreamInv
<1>1. ost \in OstRec /\ ost.buf \in Seq(Piece) /\ outGot \in Piece /\ down \in Seq(DownFrame)
  BY <1>0 DEF Types, OstRec
<1>2. cons \in {"idle", "woken"} /\ UNCHANGED <<up, gin, out, run, age, got, src, entry, conn>>
  BY DEF Serve, guestVars
<1>3. ASSUME ost' \in OstRec, cons' \in ConsIn, outGot' \in Piece, down' \in Seq(DownFrame)
      PROVE  Types' /\ Bounds'
  <2>1. /\ UNCHANGED <<gin, out, run, age, got, conn>> /\ src' \in SrcRec /\ src'.read = src.read
        /\ entry' \in {"run", "epilogue", "gone"} /\ up' \in Seq(UpFrame)
    BY <1>0, <1>2 DEF Types
  <2> QED BY <1>0, <1>3, <2>1, HostTypes
<1>4. CASE ost.buf # <<>>
  <2>1. PICK d : d = Head(ost.buf)
    OBVIOUS
  <2>2. d \in Piece /\ Tail(ost.buf) \in Seq(Piece) /\ Bytes(ost.buf) = d \o Bytes(Tail(ost.buf))
    BY <1>1, <1>4, <2>1, BytesHead
  <2>3. /\ outGot' = outGot \o d /\ ost' = [ost EXCEPT !.buf = Tail(@)]
        /\ HostSends(<<OutPull(Len(d))>>) /\ cons' = "idle"
    BY <1>4, <2>1 DEF Serve
  <2>4. ost' \in OstRec /\ ost'.buf = Tail(ost.buf)
    BY <1>1, <2>2, <2>3 DEF OstRec
  <2>5. outGot' \in Piece /\ Len(d) \in Nat
    BY <1>1, <2>2, <2>3, PieceBoth
  <2>6. OutPull(Len(d)) \in DownFrame
    BY <2>5, FramesNew
  <2>7. HostSaid(OutPull(Len(d))) /\ down' \in Seq(DownFrame)
    BY <1>0, <2>3, <2>6, HostSpeaks
  <2>8. cons' \in ConsIn
    BY <2>3 DEF ConsIn
  <2>9. Serves
    BY <1>2, <1>4, <2>2, <2>3, <2>4, <2>7 DEF Serves
  <2> QED BY <1>3, <2>4, <2>5, <2>7, <2>8, <2>9
<1>5. CASE ost.buf = <<>>
  <2>1. UNCHANGED <<ost, outGot, down>> /\ cons' = CASE ost.failed
          \/ ost.ended = "err" -> "errored"
                       [] ~ost.failed /\ ost.ended = "ok" -> "closed"
                       [] OTHER -> "waiting"
    BY <1>5 DEF Serve
  <2>2. cons' \in {"errored", "closed", "waiting"} /\ (cons' = "closed" => ost.ended = "ok")
    <3>1. CASE ost.failed \/ ost.ended = "err"
      BY <2>1, <3>1
    <3>2. CASE ~ost.failed /\ ost.ended = "ok"
      BY <2>1, <3>2
    <3>3. CASE ~(ost.failed \/ ost.ended = "err") /\ ~(~ost.failed /\ ost.ended = "ok")
      BY <2>1, <3>3
    <3> QED BY <3>1, <3>2, <3>3
  <2>3. cons' \in ConsIn
    BY <2>2 DEF ConsIn
  <2>4. Turns
    BY <1>2, <1>5, <2>1, <2>2 DEF Turns, RouteOnly
  <2> QED BY <1>1, <1>3, <2>1, <2>3, <2>4
<1> QED BY <1>4, <1>5

\* ConsumerCancels quits.
LEMMA ConsumerCancelsIs ==
  ASSUME StreamInv, ConsumerCancels
  PROVE  Types' /\ Bounds' /\ Quits
<1>0. Types /\ Bounds /\ Phases
  BY DEF StreamInv
<1>1. ost \in OstRec /\ down \in Seq(DownFrame)
  BY <1>0 DEF Types, OstRec
<1>2. /\ cons \in {"idle", "waiting", "woken"} /\ cons' = "cancelled"
      /\ ost' = [ost EXCEPT !.cancelled = TRUE, !.buf = <<>>]
      /\ UNCHANGED <<up, gin, out, run, age, got, src, entry, conn, outGot>>
  BY DEF ConsumerCancels, guestVars
<1>3. ost' \in OstRec
  <2>1. PICK z \in Seq(Piece) : z = <<>>
    BY NoBytes
  <2>2. ost' = [ost EXCEPT !.cancelled = TRUE, !.buf = z]
    BY <1>2, <2>1
  <2> QED BY <1>1, <2>2 DEF OstRec
<1>4. (down' = down \/ HostSaid(OutCancel)) /\ down' \in Seq(DownFrame)
  <2>1. CASE HostSends(<<OutCancel>>)
    <3>1. OutCancel \in DownFrame
      BY FramesNew
    <3> QED BY <1>0, <2>1, <3>1, HostSpeaks
  <2>2. CASE HostSends(<<>>)
    BY <1>0, <1>1, <2>2, HostSilent
  <2> QED BY <2>1, <2>2 DEF ConsumerCancels
<1>5. Types' /\ Bounds'
  <2>1. /\ UNCHANGED <<gin, out, run, age, got, conn>> /\ src' \in SrcRec /\ src'.read = src.read
        /\ entry' \in {"run", "epilogue", "gone"} /\ up' \in Seq(UpFrame) /\ outGot' \in Piece
        /\ cons' \in ConsIn
    BY <1>0, <1>2 DEF Types, ConsIn
  <2> QED BY <1>0, <1>3, <1>4, <2>1, HostTypes
<1>6. Quits
  BY <1>2, <1>4 DEF Quits
<1> QED BY <1>5, <1>6

\* Every step of the system is one of the Steps, and keeps the types and
\* bounds.
LEMMA StepsAre ==
  ASSUME StreamInv, Next
  PROVE  Types' /\ Bounds' /\ Steps
<1>1. CASE Pump
  BY <1>1, ActivateIs, ReadYieldsIs, FinishesAre, PumpWrittenIs DEF Pump, Steps, SourceSteps
<1>2. CASE Frames
  BY <1>2, DeliverChunkIs, DeliverEndIs, TakeCreditIs, TakeCancelIs DEF Frames, Steps,
     GuestSteps, OutSteps
<1>3. CASE Guest
  BY <1>3, GuestReadsIs, GuestCancelsIs, ReturnsBodyIs, OwnPullSettlesIs, EndsAre
     DEF Guest, Steps, GuestSteps, OutSteps, DriveSteps, RouteSteps
<1>4. CASE Drive
  BY <1>4, FlushIs, SettlePullIs, StartPullIs, RunOnlyIs, EndsAre DEF Drive, Steps, DriveSteps,
     OutSteps, RouteSteps
<1>5. CASE Route
  BY <1>5, RoutePullIs, RouteCancelIs, RouteOutChunkIs, RouteOutEndIs, RouteResultIs, AttachIs,
     GoesAre
     DEF Route, Steps, SourceSteps, RouteSteps
<1>6. CASE IdleDrop \/ PhaseEnds \/ Serve \/ ConsumerCancels \/ ConnectionLost \/ Tick
  BY <1>6, IdleDropIs, EndsAre, ServeIs, ConsumerCancelsIs, ConnectionLostIs,
     RunOnlyIs DEF Steps, OutSteps, RouteSteps
<1> QED BY <1>1, <1>2, <1>3, <1>4, <1>5, <1>6 DEF Next

-----------------------------------------------------------------------------
(* Pulling, Buffer, NoLostPump, and the guard that never trips. *)

\* The types, variable by variable.
LEMMA NowTypes ==
  ASSUME StreamInv
  PROVE  src \in SrcRec /\ gin \in GinRec /\ out \in OutRec /\ run \in RunRec /\ ost \in OstRec
           /\ cons \in ConsIn
         /\ up \in Seq(UpFrame) /\ down \in Seq(DownFrame) /\ got \in Piece /\ outGot \in Piece
         /\ conn \in {"up", "lost"} /\ entry \in {"run", "epilogue", "gone"}
  BY DEF StreamInv, Types

\* Pulling is kept.
LEMMA PullingStep ==
  ASSUME StreamInv, Types', Steps
  PROVE  Pulling'
<1>1. Pulling /\ out \in OutRec
  BY NowTypes DEF StreamInv
<1>2. CASE UNCHANGED <<out>>
  BY <1>1, <1>2 DEF Pulling
<1>3. CASE Feeds
  BY <1>1, <1>3 DEF Feeds, Pulling, OutRec, Pulls, ChunkComes, GuestOnly
<1>4. CASE EndComes
  BY <1>1, <1>4 DEF EndComes, Pulling, OutRec, Pulls, GuestOnly
<1>5. CASE Returns
  BY <1>1, <1>5 DEF Returns, Pulling, OutRec, Pulls
<1>6. CASE Flushes
  BY <1>1, <1>6 DEF Flushes, Pulling, OutRec, Pulls, DriveOnly, GuestOnly
<1>7. CASE Settles
  BY <1>1, <1>7 DEF Settles, Pulling, OutRec, Pulls, DriveOnly, GuestOnly
<1>8. CASE SaysEnd
  BY <1>1, <1>8 DEF SaysEnd, Pulling, OutRec, Pulls, DriveOnly, GuestOnly
<1>9. CASE PullsChunk
  BY <1>1, <1>9 DEF PullsChunk, Pulling, OutRec, Pulls, PipeOnly, DriveOnly, GuestOnly
<1>10. CASE PullsWait
  BY <1>1, <1>10 DEF PullsWait, Pulling, OutRec, Pulls, PipeOnly, DriveOnly, GuestOnly
<1>11. CASE PullsEnd
  BY <1>1, <1>11 DEF PullsEnd, Pulling, OutRec, Pulls, PipeOnly, DriveOnly, GuestOnly
<1>12. CASE OwnWaits
  BY <1>1, <1>12 DEF OwnWaits, Pulling, OutRec, Pulls, OwnOnly, DriveOnly, GuestOnly
<1>13. CASE OwnYields
  BY <1>1, <1>13 DEF OwnYields, Pulling, OutRec, Pulls, OwnOnly, DriveOnly, GuestOnly
<1>14. CASE TakesGrant
  BY <1>1, <1>14 DEF TakesGrant, Pulling, OutRec, Pulls, GuestOnly
<1>15. CASE CutsOut
  BY <1>1, <1>15 DEF CutsOut, Pulling, OutRec, Pulls, GuestOnly, Hush
<1>16. CASE Ending
  BY <1>1, <1>16 DEF Ending, Pulling, OutRec, Pulls, Swept
<1>17. CASE Cuts
  BY <1>1, <1>17 DEF Cuts, Pulling, OutRec, Pulls, Swept
<1>18. CASE SourceSteps
  BY <1>18, <1>2 DEF SourceSteps, GoesOn, Starts, Credited, Yields, Finishes, Rests, Forgets,
     Ignores, SourceOnly
<1>19. CASE GuestSteps
  BY <1>19, <1>2, <1>3, <1>4 DEF GuestSteps, Reads, Waits, Cancels, Drops, Answers, Buffers,
     GuestOnly, ChunkComes
<1>20. CASE DriveSteps
  BY <1>20, <1>6, <1>7, <1>8, <1>9, <1>10, <1>11, <1>12, <1>13 DEF DriveSteps
<1>21. CASE OutSteps
  BY <1>21, <1>2, <1>5, <1>14, <1>15, <1>16, <1>17 DEF OutSteps, CancelLate, GuestOnly
<1>22. CASE RouteSteps
  BY <1>22, <1>2 DEF RouteSteps, TakesChunk, TakesEnd, TakesBody, TakesResult, Attaches,
     Completes, SeesLoss, Serves, Turns, Quits, Idles, RouteOnly
<1> QED BY <1>18, <1>19, <1>20, <1>21, <1>22 DEF Steps

\* Buffer is kept.
LEMMA BufferStep ==
  ASSUME StreamInv, Types', Steps
  PROVE  Buffer'
<1>1. Buffer /\ gin \in GinRec /\ run \in RunRec
  BY NowTypes DEF StreamInv
<1>2. CASE UNCHANGED <<gin>>
  BY <1>1, <1>2 DEF Buffer
<1>3. CASE Reads
  BY <1>1, <1>3 DEF Reads, Buffer, GinRec, GuestOnly
<1>4. CASE Waits
  BY <1>1, <1>4 DEF Waits, Buffer, GinRec, GuestOnly
<1>5. CASE Feeds
  BY <1>1, <1>5 DEF Feeds, Buffer, GinRec, ChunkComes, GuestOnly
<1>6. CASE Answers
  BY <1>1, <1>6 DEF Answers, Buffer, GinRec, ChunkComes, GuestOnly
<1>7. CASE Buffers
  BY <1>1, <1>7 DEF Buffers, Buffer, GinRec, ChunkComes, GuestOnly
<1>8. CASE EndComes
  BY <1>1, <1>8 DEF EndComes, Buffer, GinRec, GuestOnly
<1>9. CASE PullsChunk
  BY <1>1, <1>9 DEF PullsChunk, Buffer, GinRec, PipeOnly, DriveOnly, GuestOnly
<1>10. CASE PullsWait
  BY <1>1, <1>10 DEF PullsWait, Buffer, GinRec, PipeOnly, DriveOnly, GuestOnly
<1>11. CASE Ending
  BY <1>1, <1>11 DEF Ending, Buffer, GinRec, Swept
<1>12. CASE Cuts
  BY <1>1, <1>12 DEF Cuts, Buffer, GinRec, Swept
<1>13. CASE Cancels
  BY <1>1, <1>13 DEF Cancels, Buffer, GinRec, GuestOnly, Cut
<1>14. CASE CutsOut
  BY <1>1, <1>14 DEF CutsOut, Buffer, GinRec, GuestOnly, Cut
<1>15. CASE SourceSteps
  BY <1>15, <1>2 DEF SourceSteps, GoesOn, Starts, Credited, Yields, Finishes, Rests, Forgets,
     Ignores, SourceOnly
<1>16. CASE GuestSteps
  BY <1>16, <1>2, <1>3, <1>4, <1>13, <1>5, <1>6, <1>7, <1>8 DEF GuestSteps, Drops, ChunkComes,
     GuestOnly
<1>17. CASE DriveSteps
  BY <1>17, <1>2, <1>9, <1>10 DEF DriveSteps, Flushes, Settles, SaysEnd, PullsEnd, OwnWaits,
     OwnYields, DriveOnly, GuestOnly, PipeOnly, OwnOnly
<1>18. CASE OutSteps
  BY <1>18, <1>2, <1>14, <1>11, <1>12 DEF OutSteps, Returns, TakesGrant, CancelLate, GuestOnly
<1>19. CASE RouteSteps
  BY <1>19, <1>2 DEF RouteSteps, TakesChunk, TakesEnd, TakesBody, TakesResult, Attaches,
     Completes, SeesLoss, Serves, Turns, Quits, Idles, RouteOnly
<1> QED BY <1>15, <1>16, <1>17, <1>18, <1>19 DEF Steps

\* A pump with credit is not off.
LEMMA PumpsOn ==
  ASSUME NEW s \in SrcRec, Pumps(s) \/ Stays(s)
  PROVE  src'.at = "on" /\ ~src'.done /\ src'.credit > 0 => src'.pump # "off"
<1>1. CASE Fetches(s)
  BY <1>1 DEF Fetches, SrcRec
<1>2. CASE Sends(s)
  BY <1>2 DEF Sends
<1>3. CASE Stops(s)
  BY <1>3 DEF Stops, SrcRec
<1>4. CASE Stays(s)
  BY <1>4 DEF Stays
<1> QED BY <1>1, <1>2, <1>3, <1>4 DEF Pumps

\* The sources the pump goes on from are typed.
LEMMA SourcesFrom ==
  ASSUME src \in SrcRec
  PROVE  /\ [src EXCEPT !.at = "on", !.credit = Window] \in SrcRec
         /\ \A n \in Nat : [src EXCEPT !.credit = @ + n] \in SrcRec
<1>1. Window \in Nat /\ src.credit \in Nat
  BY StreamsAssumption DEF SrcRec
<1>2. [src EXCEPT !.at = "on", !.credit = Window] \in SrcRec
  BY <1>1 DEF SrcRec
<1>3. ASSUME NEW n \in Nat PROVE [src EXCEPT !.credit = @ + n] \in SrcRec
  <2>1. PICK m \in Nat : m = src.credit + n
    BY <1>1
  <2>2. [src EXCEPT !.credit = m] \in SrcRec
    BY DEF SrcRec
  <2> QED BY <2>1, <2>2
<1> QED BY <1>2, <1>3

\* NoLostPump is kept.
LEMMA NoLostPumpStep ==
  ASSUME StreamInv, Types', Steps
  PROVE  NoLostPump'
<1>1. NoLostPump /\ Source /\ src \in SrcRec /\ Window \in Nat
  BY NowTypes, StreamsAssumption DEF StreamInv
<1>2. CASE UNCHANGED <<src>>
  BY <1>1, <1>2 DEF NoLostPump
<1>3. CASE GoesOn
  BY <1>1, <1>3 DEF GoesOn, NoLostPump, SrcRec, SourceOnly, Pumps, Fetches, Sends, Stops
<1>4. CASE Starts
  BY <1>1, <1>4, SourcesFrom, PumpsOn DEF Starts, NoLostPump
<1>5. CASE Credited
  BY <1>1, <1>5, SourcesFrom, PumpsOn DEF Credited, NoLostPump
<1>6. CASE Yields
  BY <1>1, <1>6 DEF Yields, NoLostPump, SrcRec, SourceOnly, Sends
<1>7. CASE Finishes
  BY <1>1, <1>7 DEF Finishes, NoLostPump, SrcRec, SourceOnly
<1>8. CASE Rests
  BY <1>1, <1>8 DEF Rests, NoLostPump, SrcRec, SourceOnly, Source
<1>9. CASE Forgets
  BY <1>1, <1>9 DEF Forgets, NoLostPump, SrcRec, SourceOnly, Released
<1>10. CASE TakesResult
  BY <1>1, <1>10 DEF TakesResult, NoLostPump, SrcRec, RouteOnly, Released
<1>11. CASE Completes
  BY <1>1, <1>11 DEF Completes, NoLostPump, SrcRec, RouteOnly, Released
<1>12. CASE SeesLoss
  BY <1>1, <1>12 DEF SeesLoss, NoLostPump, SrcRec, RouteOnly, Released
<1>13. CASE SourceSteps
  BY <1>13, <1>2, <1>3, <1>4, <1>5, <1>6, <1>7, <1>8, <1>9 DEF SourceSteps, Ignores, SourceOnly
<1>14. CASE GuestSteps
  BY <1>14, <1>2 DEF GuestSteps, Reads, Waits, Cancels, Drops, Feeds, Answers, Buffers, EndComes,
     GuestOnly, ChunkComes
<1>15. CASE DriveSteps
  BY <1>15, <1>2 DEF DriveSteps, Flushes, Settles, SaysEnd, PullsChunk, PullsWait, PullsEnd,
     OwnWaits, OwnYields, DriveOnly, GuestOnly, PipeOnly, OwnOnly
<1>16. CASE OutSteps
  BY <1>16, <1>2 DEF OutSteps, Returns, TakesGrant, CancelLate, CutsOut, Ending, Cuts, GuestOnly,
     Swept
<1>17. CASE RouteSteps
  BY <1>17, <1>2, <1>10, <1>11, <1>12 DEF RouteSteps, TakesChunk, TakesEnd, TakesBody, Attaches,
     Serves, Turns, Quits, Idles, RouteOnly
<1> QED BY <1>13, <1>14, <1>15, <1>16, <1>17 DEF Steps

\* The delivery's guard never trips.
LEMMA NotViolatedStep ==
  ASSUME StreamInv, Steps
  PROVE  ~run'.violated
<1>1. ~run.violated
  BY DEF StreamInv
<1>2. CASE SourceSteps
  BY <1>1, <1>2 DEF SourceSteps, GoesOn, Starts, Credited, Yields, Finishes, Rests, Forgets,
     Ignores, SourceOnly, RunKeeps
<1>3. CASE GuestSteps
  BY <1>1, <1>3 DEF GuestSteps, Reads, Waits, Cancels, Drops, Feeds, Answers, Buffers, EndComes,
     GuestOnly, ChunkComes, RunKeeps
<1>4. CASE DriveSteps
  BY <1>1, <1>4 DEF DriveSteps, Flushes, Settles, SaysEnd, PullsChunk, PullsWait, PullsEnd,
     OwnWaits, OwnYields, DriveOnly, GuestOnly, PipeOnly, OwnOnly, RunKeeps
<1>5. CASE OutSteps
  BY <1>1, <1>5 DEF OutSteps, Returns, TakesGrant, CancelLate, CutsOut, Ending, Cuts, GuestOnly,
     Swept, RunKeeps
<1>6. CASE RouteSteps
  BY <1>1, <1>6 DEF RouteSteps, TakesChunk, TakesEnd, TakesBody, TakesResult, Attaches,
     Completes, SeesLoss, Serves, Turns, Quits, Idles, RouteOnly, RunKeeps
<1> QED BY <1>2, <1>3, <1>4, <1>5, <1>6 DEF Steps

-----------------------------------------------------------------------------
(* Which steps add which frames. *)

\* The kinds of frames in a queue with the frames F more.
LEMMA KindsNotes ==
  ASSUME NEW q, NEW r, NEW F, ToSet(r) = ToSet(q) \cup F
  PROVE  /\ \A k : Has(r, k) <=> Has(q, k) \/ (\E f \in F : f.t = k)
         /\ \A k, h : Said(r, k, h) <=> Said(q, k, h) \/ (\E f \in F : f.t = k /\ f.how = h)
         /\ Plain(r) <=> Plain(q) \/ (\E f \in F : f.t = "result" /\ ~f.streams)
         /\ Body(r) <=> Body(q) \/ (\E f \in F : f.t = "result" /\ f.streams)
  BY DEF Has, Said, Plain, Body

\* The kinds of frames in a queue with one frame more.
LEMMA KindsOne ==
  ASSUME NEW q, NEW r, NEW f, ToSet(r) = ToSet(q) \cup {f}
  PROVE  /\ \A k : Has(r, k) <=> Has(q, k) \/ f.t = k
         /\ \A k, h : Said(r, k, h) <=> Said(q, k, h) \/ (f.t = k /\ f.how = h)
         /\ Plain(r) <=> Plain(q) \/ (f.t = "result" /\ ~f.streams)
         /\ Body(r) <=> Body(q) \/ (f.t = "result" /\ f.streams)
  BY DEF Has, Said, Plain, Body

\* An empty queue has no kinds of frames.
LEMMA KindsNone == /\ \A k : ~Has(<<>>, k) /\ \A h : ~Said(<<>>, k, h)
                   /\ ~Plain(<<>>) /\ ~Body(<<>>)
<1>1. ToSet(<<>>) = {}
  BY DEF ToSet
<1> QED BY <1>1 DEF Has, Said, Plain, Body

\* Which step adds which kind of frame to the host.
UpAdds ==
  /\ Has(up', "result") => Has(up, "result") \/ Returns \/ (Ending /\ run.phase = "exec")
  /\ Has(up', "complete") => Has(up, "complete") \/ (Ending /\ run.phase = "grace")
  /\ Plain(up') => Plain(up) \/ (Ending /\ run.phase = "exec")
  /\ Body(up') => Body(up) \/ Returns
  /\ Has(up', "cancel") => Has(up, "cancel") \/ gin'.cancelled \/ run'.phase = "over"
  /\ Has(up', "ochunk") => Has(up, "ochunk") \/ Flushes
  /\ Has(up', "oend") => Has(up, "oend") \/ SaysEnd \/ CutsOut
       \/ (Ending /\ out.on # "no" /\ ~out.done)
  /\ Said(up', "oend", "ok") => Said(up, "oend", "ok") \/ (SaysEnd /\ out.pull = "eof")
  /\ Has(up, "oend") => Has(up', "oend") \/ TakesEnd \/ Cuts

\* Which step adds which kind of frame to the run.
DownAdds ==
  /\ Has(down', "chunk") => Has(down, "chunk") \/ GoesOn \/ Starts \/ Credited \/ Yields
  /\ Has(down', "end") => Has(down, "end") \/ Finishes
  /\ \A h \in {"ok", "err"} : Said(down', "end", h) => Said(down, "end", h) \/ Finishes
  /\ Has(down', "opull") => Has(down, "opull") \/ Serves
  /\ Has(down', "ocancel") => Has(down, "ocancel") \/ Quits

\* Taking a frame adds none, to the host.
LEMMA UpLess ==
  ASSUME NEW f, UpLoses(up, up', f), f.t = "oend" => TakesEnd
  PROVE  UpAdds
<1>1. ToSet(up) = ToSet(up') \cup {f}
  BY DEF UpLoses
<1>2. /\ \A k : Has(up, k) <=> Has(up', k) \/ f.t = k
      /\ \A k, h : Said(up, k, h) <=> Said(up', k, h) \/ (f.t = k /\ f.how = h)
      /\ Plain(up) <=> Plain(up') \/ (f.t = "result" /\ ~f.streams)
      /\ Body(up) <=> Body(up') \/ (f.t = "result" /\ f.streams)
  BY <1>1, KindsOne
<1> QED BY <1>2 DEF UpAdds

\* Credit to the host adds only credit.
LEMMA UpPulled ==
  ASSUME NEW n, UpGets(up, up', Pull(n))
  PROVE  UpAdds
<1>1. ToSet(up') = ToSet(up) \cup {Pull(n)} /\ Pull(n).t = "pull"
  BY FramesSay DEF UpGets
<1>2. /\ \A k : Has(up', k) <=> Has(up, k) \/ Pull(n).t = k
      /\ \A k, h : Said(up', k, h) <=> Said(up, k, h) \/ (Pull(n).t = k /\ Pull(n).how = h)
      /\ Plain(up') <=> Plain(up) \/ (Pull(n).t = "result" /\ ~Pull(n).streams)
      /\ Body(up') <=> Body(up) \/ (Pull(n).t = "result" /\ Pull(n).streams)
  BY <1>1, KindsOne
<1> QED BY <1>1, <1>2 DEF UpAdds

\* What frames that carry nothing add.
LEMMA UpMore ==
  ASSUME NEW F, UpNotes(up, up', F)
  PROVE  /\ \A k : Has(up', k) <=> Has(up, k) \/ (\E f \in F : f.t = k)
         /\ \A k, h : Said(up', k, h) <=> Said(up, k, h) \/ (\E f \in F : f.t = k /\ f.how = h)
         /\ Plain(up') <=> Plain(up) \/ (\E f \in F : f.t = "result" /\ ~f.streams)
         /\ Body(up') <=> Body(up) \/ (\E f \in F : f.t = "result" /\ f.streams)
<1>1. ToSet(up') = ToSet(up) \cup F
  BY DEF UpNotes
<1> QED BY <1>1 DEF Has, Said, Plain, Body

\* UpAdds holds of every step.
LEMMA UpKinds ==
  ASSUME StreamInv, Types', Steps
  PROVE  UpAdds
<1>1. gin \in GinRec /\ run \in RunRec
  BY NowTypes
<1>2. CASE UNCHANGED <<up>>
  BY <1>2 DEF UpAdds
<1>3. CASE Credited
  <2>1. PICK n \in Nat : UpLoses(up, up', Pull(n))
    BY <1>3 DEF Credited
  <2>2. Pull(n).t = "pull"
    BY FramesSay
  <2> QED BY <2>1, <2>2, UpLess
<1>4. CASE Ignores
  <2>1. PICK n \in Nat : UpLoses(up, up', Pull(n))
    BY <1>4 DEF Ignores
  <2>2. Pull(n).t = "pull"
    BY FramesSay
  <2> QED BY <2>1, <2>2, UpLess
<1>5. CASE Forgets
  <2>2. CancelFrame.t = "cancel"
    BY FramesSay
  <2> QED BY <1>5, <2>2, UpLess DEF Forgets
<1>6. CASE Reads
  BY <1>6, UpPulled DEF Reads
<1>7. CASE PullsChunk
  BY <1>7, UpPulled DEF PullsChunk
<1>8. CASE Feeds
  BY <1>8, UpPulled DEF Feeds
<1>9. CASE Answers
  BY <1>9, UpPulled DEF Answers
<1>10. CASE Cancels
  <2>1. PICK F \in SUBSET {CancelFrame} : UpNotes(up, up', F) /\ (CancelFrame \in F => gin' = Cut)
    BY <1>10 DEF Cancels
  <2>2. (\A f \in F : f.t = "cancel") /\ (gin' = Cut => gin'.cancelled)
    BY <1>1, FramesSay DEF Cut, GinRec
  <2> QED BY <2>1, <2>2, UpMore DEF UpAdds
<1>11. CASE Flushes
  <2>1. PICK d : UpGets(up, up', OutChunk(d))
    BY <1>11 DEF Flushes
  <2>2. OutChunk(d).t = "ochunk" /\ ToSet(up') = ToSet(up) \cup {OutChunk(d)}
    BY <2>1, FramesSay DEF UpGets
  <2>3. PICK f : f = OutChunk(d)
    OBVIOUS
  <2>4. /\ \A k : Has(up', k) <=> Has(up, k) \/ f.t = k
        /\ \A k, h : Said(up', k, h) <=> Said(up, k, h) \/ (f.t = k /\ f.how = h)
        /\ Plain(up') <=> Plain(up) \/ (f.t = "result" /\ ~f.streams)
        /\ Body(up') <=> Body(up) \/ (f.t = "result" /\ f.streams)
    BY <2>2, <2>3, KindsOne
  <2> QED BY <1>11, <2>2, <2>3, <2>4 DEF UpAdds
<1>12. CASE SaysEnd
  <2>1. PICK how \in {"ok", "err"} : UpNotes(up, up', {OutEnd(how)})
                                       /\ (how = "ok" => out.pull = "eof")
    BY <1>12 DEF SaysEnd
  <2>2. \A f \in {OutEnd(how)} : f.t = "oend" /\ f.how = how
    BY FramesSay
  <2> QED BY <1>12, <2>1, <2>2, UpMore DEF UpAdds
<1>13. CASE Returns
  <2>1. UpNotes(up, up', {Result(TRUE)})
    BY <1>13 DEF Returns
  <2>0. Result(TRUE).t = "result" /\ Result(TRUE).streams = TRUE
    BY FramesSay
  <2>2. ASSUME NEW f \in {Result(TRUE)} PROVE f.t = "result" /\ f.streams
    BY <2>0, Zenon
  <2>3. PICK F : F = {Result(TRUE)}
    OBVIOUS
  <2>4. UpNotes(up, up', F)
    BY <2>1, <2>3
  <2>5. /\ \A k : Has(up', k) <=> Has(up, k) \/ (\E f \in F : f.t = k)
        /\ \A k, h : Said(up', k, h) <=> Said(up, k, h) \/ (\E f \in F : f.t = k /\ f.how = h)
        /\ Plain(up') <=> Plain(up) \/ (\E f \in F : f.t = "result" /\ ~f.streams)
    BY <2>4, UpMore
  <2>6. ~\E f \in F : f.t = "result" /\ ~f.streams
    BY <2>2, <2>3, Zenon
  <2>7. \A f \in F : f.t = "result"
    BY <2>2, <2>3, Zenon
  <2> QED BY <1>13, <2>5, <2>6, <2>7 DEF UpAdds
<1>14. CASE CutsOut
  <2>1. PICK F \in SUBSET {OutEnd("err"), CancelFrame} : UpNotes(up, up', F)
                                                           /\ (CancelFrame \in F => gin' = Cut)
    BY <1>14 DEF CutsOut
  <2>2. /\ CancelFrame.t = "cancel" /\ OutEnd("err").t = "oend" /\ OutEnd("err").how = "err"
        /\ (gin' = Cut => gin'.cancelled)
    BY <1>1, FramesSay DEF Cut, GinRec
  <2>3. ASSUME NEW f \in F
        PROVE  \/ f.t = "cancel" /\ gin'.cancelled
               \/ f.t = "oend" /\ f.how = "err"
    <3>1. CASE f = CancelFrame
      BY <2>1, <2>2, <3>1, Zenon
    <3>2. CASE f = OutEnd("err")
      BY <2>2, <3>2, Zenon
    <3> QED BY <3>1, <3>2
  <2> QED BY <1>14, <2>1, <2>3, UpMore DEF UpAdds
<1>15. CASE Ending
  <2>1. PICK F, last :
          /\ last \in {Result(FALSE), Complete} /\ (last = Complete <=> run.phase = "grace")
          /\ F \subseteq {OutEnd("err"), CancelFrame, last}
          /\ OutEnd("err") \in F <=> (out.on # "no" /\ ~out.done)
          /\ UpNotes(up, up', F)
    BY <1>15 DEF Ending
  <2>2. /\ CancelFrame.t = "cancel" /\ OutEnd("err").t = "oend" /\ OutEnd("err").how = "err"
        /\ Complete.t = "complete" /\ Result(FALSE).t = "result" /\ ~Result(FALSE).streams
    <3>1. Result(FALSE).streams = FALSE
      BY FramesSay
    <3> QED BY <3>1, FramesSay
  <2>3. run.phase # "over" /\ run.phase \in {"exec", "grace", "over"} /\ run'.phase = "over"
    BY <1>1, <1>15 DEF Ending, Swept, RunRec
  <2>4. ASSUME NEW f \in F
        PROVE  \/ f.t = "cancel"
               \/ f.t = "oend" /\ f.how = "err" /\ out.on # "no" /\ ~out.done
               \/ f.t = "complete" /\ run.phase = "grace"
               \/ f.t = "result" /\ ~f.streams /\ run.phase = "exec"
    <3>1. CASE f = CancelFrame
      BY <2>2, <3>1, Zenon
    <3>2. CASE f = OutEnd("err")
      BY <2>1, <2>2, <3>2, Zenon
    <3>3. CASE f = last
      <4>1. last.t # "result" <=> last = Complete
        BY <2>1, <2>2
      <4>2. CASE last = Complete
        BY <2>1, <2>2, <3>3, <4>2, Zenon
      <4>3. CASE last # Complete
        BY <2>1, <2>2, <2>3, <3>3, <4>3, Zenon
      <4> QED BY <4>2, <4>3
    <3> QED BY <2>1, <3>1, <3>2, <3>3
  <2> QED BY <1>15, <2>1, <2>3, <2>4, UpMore DEF UpAdds
<1>16. CASE Cuts
  <2>1. up' = <<>>
    BY <1>16 DEF Cuts
  <2> QED BY <1>16, <2>1, KindsNone DEF UpAdds
<1>17. CASE TakesBody
  <2>1. Result(TRUE).t # "oend"
    BY FramesSay
  <2> QED BY <1>17, <2>1, UpLess DEF TakesBody
<1>18. CASE TakesResult
  <2>1. Result(FALSE).t # "oend"
    BY FramesSay
  <2> QED BY <1>18, <2>1, UpLess DEF TakesResult
<1>19. CASE Completes
  <2>1. Complete.t # "oend"
    BY FramesSay
  <2> QED BY <1>19, <2>1, UpLess DEF Completes
<1>20. CASE TakesChunk
  <2>1. PICK d : UpLoses(up, up', OutChunk(d))
    BY <1>20 DEF TakesChunk
  <2>2. OutChunk(d).t = "ochunk"
    BY FramesSay
  <2> QED BY <2>1, <2>2, UpLess
<1>21. CASE TakesEnd
  <2>1. PICK h : UpLoses(up, up', OutEnd(h))
    BY <1>21 DEF TakesEnd
  <2> QED BY <1>21, <2>1, UpLess
<1>22. CASE SourceSteps
  BY <1>22, <1>2, <1>3, <1>5, <1>4 DEF SourceSteps, GoesOn, Starts, Yields, Finishes, Rests,
     SourceOnly
<1>23. CASE GuestSteps
  BY <1>23, <1>2, <1>6, <1>10, <1>8, <1>9 DEF GuestSteps, Waits, Drops, Buffers, EndComes,
     GuestOnly, ChunkComes
<1>24. CASE DriveSteps
  BY <1>24, <1>2, <1>11, <1>12, <1>7 DEF DriveSteps, Settles, PullsWait, PullsEnd, OwnWaits,
     OwnYields, DriveOnly, GuestOnly, PipeOnly, OwnOnly
<1>25. CASE OutSteps
  BY <1>25, <1>2, <1>13, <1>14, <1>15, <1>16 DEF OutSteps, TakesGrant, CancelLate, GuestOnly
<1>26. CASE RouteSteps
  BY <1>26, <1>2, <1>20, <1>21, <1>17, <1>18, <1>19 DEF RouteSteps, Attaches, SeesLoss, Serves,
     Turns, Quits, Idles, RouteOnly
<1> QED BY <1>22, <1>23, <1>24, <1>25, <1>26 DEF Steps

\* Taking a frame adds none, to the run.
LEMMA DownLess ==
  ASSUME NEW f, DownLoses(down, down', f)
  PROVE  DownAdds
<1>1. ToSet(down) = ToSet(down') \cup {f}
  BY DEF DownLoses
<1>2. /\ \A k : Has(down, k) <=> Has(down', k) \/ f.t = k
      /\ \A k, h : Said(down, k, h) <=> Said(down', k, h) \/ (f.t = k /\ f.how = h)
  BY <1>1, KindsOne
<1> QED BY <1>2 DEF DownAdds

\* What a frame of the host adds.
LEMMA DownMore ==
  ASSUME NEW f, HostSaid(f)
  PROVE  /\ \A k : Has(down', k) => Has(down, k) \/ f.t = k
         /\ \A k, h : Said(down', k, h) => Said(down, k, h) \/ (f.t = k /\ f.how = h)
<1>1. CASE DownGets(down, down', f)
  <2>1. ToSet(down') = ToSet(down) \cup {f}
    BY <1>1 DEF DownGets
  <2> QED BY <2>1, KindsOne
<1>2. CASE down' = down
  BY <1>2
<1> QED BY <1>1, <1>2 DEF HostSaid

\* What the pump adds: chunks.
LEMMA DownFed ==
  ASSUME NEW s, Pumps(s) \/ Sends(s) \/ Stays(s)
  PROVE  /\ \A k : Has(down', k) => Has(down, k) \/ k = "chunk"
         /\ \A h : Said(down', "end", h) => Said(down, "end", h)
<1>1. CASE down' = down
  BY <1>1
<1>2. CASE Sends(s)
  <2>1. PICK d : HostSaid(Chunk(d))
    BY <1>2 DEF Sends
  <2>2. Chunk(d).t = "chunk"
    BY FramesSay
  <2> QED BY <2>1, <2>2, DownMore
<1> QED BY <1>1, <1>2 DEF Pumps, Stays, Stops, Fetches

\* DownAdds holds of every step.
LEMMA DownKinds ==
  ASSUME StreamInv, Types', Steps
  PROVE  DownAdds
<1>1. CASE UNCHANGED <<down>>
  BY <1>1 DEF DownAdds
<1>2. CASE GoesOn
  <2>1. \E s : Pumps(s) \/ Sends(s) \/ Stays(s)
    BY <1>2 DEF GoesOn
  <2> QED BY <1>2, <2>1, DownFed DEF DownAdds
<1>3. CASE Starts
  <2>1. \E s : Pumps(s) \/ Sends(s) \/ Stays(s)
    BY <1>3 DEF Starts
  <2> QED BY <1>3, <2>1, DownFed DEF DownAdds
<1>4. CASE Credited
  <2>1. \E s : Pumps(s) \/ Sends(s) \/ Stays(s)
    BY <1>4 DEF Credited
  <2> QED BY <1>4, <2>1, DownFed DEF DownAdds
<1>5. CASE Yields
  <2>1. \E s : Pumps(s) \/ Sends(s) \/ Stays(s)
    BY <1>5 DEF Yields
  <2> QED BY <1>5, <2>1, DownFed DEF DownAdds
<1>6. CASE Finishes
  <2>1. PICK h : HostSaid(End(h))
    BY <1>6 DEF Finishes
  <2>2. End(h).t = "end"
    BY FramesSay
  <2> QED BY <1>6, <2>1, <2>2, DownMore DEF DownAdds
<1>7. CASE Drops
  BY <1>7, DownLess DEF Drops, ChunkComes
<1>8. CASE Feeds
  BY <1>8, DownLess DEF Feeds, ChunkComes
<1>9. CASE Answers
  BY <1>9, DownLess DEF Answers, ChunkComes
<1>10. CASE Buffers
  BY <1>10, DownLess DEF Buffers, ChunkComes
<1>11. CASE EndComes
  BY <1>11, DownLess DEF EndComes
<1>12. CASE TakesGrant
  BY <1>12, DownLess DEF TakesGrant
<1>13. CASE CancelLate
  BY <1>13, DownLess DEF CancelLate
<1>14. CASE CutsOut
  <2>1. CASE down' = down
    BY <2>1 DEF DownAdds
  <2>2. CASE DownLoses(down, down', OutCancel)
    BY <2>2, DownLess
  <2> QED BY <1>14, <2>1, <2>2 DEF CutsOut
<1>15. CASE Ending
  <2>1. down' = <<>>
    BY <1>15 DEF Ending, Swept
  <2> QED BY <2>1, KindsNone DEF DownAdds
<1>16. CASE Cuts
  <2>1. down' = <<>>
    BY <1>16 DEF Cuts, Swept
  <2> QED BY <2>1, KindsNone DEF DownAdds
<1>17. CASE Serves
  <2>1. PICK d : HostSaid(OutPull(Len(d)))
    BY <1>17 DEF Serves
  <2>2. OutPull(Len(d)).t = "opull"
    BY FramesSay
  <2> QED BY <1>17, <2>1, <2>2, DownMore DEF DownAdds
<1>18. CASE Quits
  <2>1. CASE down' = down
    BY <2>1 DEF DownAdds
  <2>2. CASE HostSaid(OutCancel)
    <3>1. OutCancel.t = "ocancel"
      BY FramesSay
    <3> QED BY <1>18, <2>2, <3>1, DownMore DEF DownAdds
  <2> QED BY <1>18, <2>1, <2>2 DEF Quits
<1>19. CASE SourceSteps
  BY <1>19, <1>1, <1>2, <1>3, <1>4, <1>5, <1>6 DEF SourceSteps, Rests, Forgets, Ignores,
     SourceOnly
<1>20. CASE GuestSteps
  BY <1>20, <1>1, <1>7, <1>8, <1>9, <1>10, <1>11 DEF GuestSteps, Reads, Waits, Cancels, GuestOnly
<1>21. CASE DriveSteps
  BY <1>21, <1>1 DEF DriveSteps, Flushes, Settles, SaysEnd, PullsChunk, PullsWait, PullsEnd,
     OwnWaits, OwnYields, DriveOnly, GuestOnly, PipeOnly, OwnOnly
<1>22. CASE OutSteps
  BY <1>22, <1>1, <1>12, <1>13, <1>14, <1>15, <1>16 DEF OutSteps, Returns
<1>23. CASE RouteSteps
  BY <1>23, <1>1, <1>17, <1>18 DEF RouteSteps, TakesChunk, TakesEnd, TakesBody, TakesResult,
     Attaches, Completes, SeesLoss, Turns, Idles, RouteOnly
<1> QED BY <1>19, <1>20, <1>21, <1>22, <1>23 DEF Steps

-----------------------------------------------------------------------------
(* Phases. *)

\* The phase moves only when the run returns a body, ends or is cut.
LEMMA PhaseMoves ==
  ASSUME StreamInv, Types', Steps
  PROVE  run'.phase = run.phase \/ Returns \/ Ending \/ Cuts
<1>1. CASE SourceSteps
  BY <1>1 DEF SourceSteps, GoesOn, Starts, Credited, Yields, Finishes, Rests, Forgets, Ignores,
     SourceOnly, RunKeeps
<1>2. CASE GuestSteps
  BY <1>2 DEF GuestSteps, Reads, Waits, Cancels, Drops, Feeds, Answers, Buffers, EndComes,
     GuestOnly, ChunkComes, RunKeeps
<1>3. CASE DriveSteps
  BY <1>3 DEF DriveSteps, Flushes, Settles, SaysEnd, PullsChunk, PullsWait, PullsEnd, OwnWaits,
     OwnYields, DriveOnly, GuestOnly, PipeOnly, OwnOnly, RunKeeps
<1>4. CASE OutSteps
  BY <1>4 DEF OutSteps, Returns, TakesGrant, CancelLate, CutsOut, Ending, Cuts, GuestOnly, Swept,
     RunKeeps
<1>5. CASE RouteSteps
  BY <1>5 DEF RouteSteps, TakesChunk, TakesEnd, TakesBody, TakesResult, Attaches, Completes,
     SeesLoss, Serves, Turns, Quits, Idles, RouteOnly, RunKeeps
<1> QED BY <1>1, <1>2, <1>3, <1>4, <1>5 DEF Steps

\* The entry moves only with a result, a completion or the loss of the
\* connection.
LEMMA EntryMoves ==
  ASSUME StreamInv, Types', Steps
  PROVE  entry' = entry \/ TakesBody \/ TakesResult \/ Completes \/ SeesLoss
<1>1. CASE SourceSteps
  BY <1>1 DEF SourceSteps, GoesOn, Starts, Credited, Yields, Finishes, Rests, Forgets, Ignores,
     SourceOnly
<1>2. CASE GuestSteps
  BY <1>2 DEF GuestSteps, Reads, Waits, Cancels, Drops, Feeds, Answers, Buffers, EndComes,
     GuestOnly, ChunkComes
<1>3. CASE DriveSteps
  BY <1>3 DEF DriveSteps, Flushes, Settles, SaysEnd, PullsChunk, PullsWait, PullsEnd, OwnWaits,
     OwnYields, DriveOnly, GuestOnly, PipeOnly, OwnOnly
<1>4. CASE OutSteps
  BY <1>4 DEF OutSteps, Returns, TakesGrant, CancelLate, CutsOut, Ending, Cuts, GuestOnly, Swept
<1>5. CASE RouteSteps
  BY <1>5 DEF RouteSteps, TakesChunk, TakesEnd, TakesBody, TakesResult, Attaches, Completes,
     SeesLoss, Serves, Turns, Quits, Idles, RouteOnly
<1> QED BY <1>1, <1>2, <1>3, <1>4, <1>5 DEF Steps

\* The connection is lost only by being cut.
LEMMA ConnMoves ==
  ASSUME StreamInv, Types', Steps
  PROVE  conn' = conn \/ Cuts
<1>1. CASE SourceSteps
  BY <1>1 DEF SourceSteps, GoesOn, Starts, Credited, Yields, Finishes, Rests, Forgets, Ignores,
     SourceOnly
<1>2. CASE GuestSteps
  BY <1>2 DEF GuestSteps, Reads, Waits, Cancels, Drops, Feeds, Answers, Buffers, EndComes,
     GuestOnly, ChunkComes
<1>3. CASE DriveSteps
  BY <1>3 DEF DriveSteps, Flushes, Settles, SaysEnd, PullsChunk, PullsWait, PullsEnd, OwnWaits,
     OwnYields, DriveOnly, GuestOnly, PipeOnly, OwnOnly
<1>4. CASE OutSteps
  BY <1>4 DEF OutSteps, Returns, TakesGrant, CancelLate, CutsOut, Ending, Cuts, GuestOnly, Swept
<1>5. CASE RouteSteps
  BY <1>5 DEF RouteSteps, TakesChunk, TakesEnd, TakesBody, TakesResult, Attaches, Completes,
     SeesLoss, Serves, Turns, Quits, Idles, RouteOnly
<1> QED BY <1>1, <1>2, <1>3, <1>4, <1>5 DEF Steps

\* The returned body comes only with the return.
LEMMA OnMoves ==
  ASSUME StreamInv, Types', Steps
  PROVE  out'.on = out.on \/ Returns
<1>1. out \in OutRec
  BY NowTypes
<1> USE DEF OutRec
<1>3. CASE SourceSteps
  BY <1>1, <1>3 DEF SourceSteps, GoesOn, Starts, Credited, Yields, Finishes, Rests, Forgets,
     Ignores, SourceOnly, Hush
<1>4. CASE GuestSteps
  BY <1>1, <1>4 DEF GuestSteps, Reads, Waits, Cancels, Drops, Feeds, Answers, Buffers, EndComes,
     GuestOnly, ChunkComes, Hush
<1>5. CASE DriveSteps
  BY <1>1, <1>5 DEF DriveSteps, Flushes, Settles, SaysEnd, PullsChunk, PullsWait, PullsEnd,
     OwnWaits, OwnYields, DriveOnly, GuestOnly, PipeOnly, OwnOnly, Hush
<1>6. CASE OutSteps
  BY <1>1, <1>6 DEF OutSteps, Returns, TakesGrant, CancelLate, CutsOut, Ending, Cuts, GuestOnly,
     Swept, Hush
<1>7. CASE RouteSteps
  BY <1>1, <1>7 DEF RouteSteps, TakesChunk, TakesEnd, TakesBody, TakesResult, Attaches,
     Completes, SeesLoss, Serves, Turns, Quits, Idles, RouteOnly, Hush
<1> QED BY <1>3, <1>4, <1>5, <1>6, <1>7 DEF Steps

\* A turn is taken only in the grace phase.
LEMMA TurnStep ==
  ASSUME StreamInv, Types', Steps
  PROVE  run'.turn # "no" => run'.phase = "grace"
<1>1. run.turn # "no" => run.phase = "grace"
  BY DEF StreamInv, Phases
<1>2. CASE SourceSteps
  BY <1>1, <1>2 DEF SourceSteps, GoesOn, Starts, Credited, Yields, Finishes, Rests, Forgets,
     Ignores, SourceOnly, RunKeeps
<1>3. CASE GuestSteps
  BY <1>1, <1>3 DEF GuestSteps, Reads, Waits, Cancels, Drops, Feeds, Answers, Buffers, EndComes,
     GuestOnly, ChunkComes, RunKeeps
<1>4. CASE DriveSteps
  BY <1>1, <1>4 DEF DriveSteps, Flushes, Settles, SaysEnd, PullsChunk, PullsWait, PullsEnd,
     OwnWaits, OwnYields, DriveOnly, GuestOnly, PipeOnly, OwnOnly, RunKeeps
<1>5. CASE OutSteps
  BY <1>1, <1>5 DEF OutSteps, Returns, TakesGrant, CancelLate, CutsOut, Ending, Cuts, GuestOnly,
     Swept, RunKeeps
<1>6. CASE RouteSteps
  BY <1>1, <1>6 DEF RouteSteps, TakesChunk, TakesEnd, TakesBody, TakesResult, Attaches,
     Completes, SeesLoss, Serves, Turns, Quits, Idles, RouteOnly, RunKeeps
<1> QED BY <1>2, <1>3, <1>4, <1>5, <1>6 DEF Steps

\* After the run is over only the source and the host move.
LEMMA OverSteps ==
  ASSUME StreamInv, Types', Steps, run.phase = "over", ~Cuts
  PROVE  (SourceSteps \/ RouteSteps) /\ UNCHANGED <<down, gin, out, got>> /\ run'.phase = "over"
<1>1. down = <<>>
  BY DEF StreamInv, Phases, Over
<1>2. ~GuestSteps
  BY <1>1 DEF GuestSteps, Reads, Waits, Cancels, Drops, Feeds, Answers, Buffers, EndComes,
     ChunkComes, DownLoses
<1>3. ~DriveSteps
  BY DEF DriveSteps, Flushes, Settles, SaysEnd, PullsChunk, PullsWait, PullsEnd, OwnWaits,
     OwnYields, PipeOnly, OwnOnly, DriveOnly
<1>4. ~OutSteps
  BY <1>1 DEF OutSteps, Returns, TakesGrant, CancelLate, CutsOut, Ending, DownLoses
<1>5. ASSUME NEW f PROVE HostSaid(f) => down' = down
  BY DEF HostSaid
<1>6. CASE SourceSteps
  <2>1. ASSUME NEW s, Pumps(s) \/ Sends(s) \/ Stays(s) PROVE down' = down
    BY <2>1, <1>5 DEF Pumps, Sends, Stays, Fetches, Stops
  <2> QED BY <1>5, <1>6, <2>1 DEF SourceSteps, GoesOn, Starts, Credited, Yields, Finishes, Rests,
        Forgets, Ignores, SourceOnly
<1>7. CASE RouteSteps
  BY <1>5, <1>7 DEF RouteSteps, TakesChunk, TakesEnd, TakesBody, TakesResult, Attaches,
     Completes, SeesLoss, Serves, Turns, Quits, Idles, RouteOnly, RunKeeps
<1> QED BY <1>2, <1>3, <1>4, <1>6, <1>7 DEF Steps

\* A sequence without elements is empty.
LEMMA NothingIn ==
  ASSUME NEW A, NEW s \in Seq(A), \A x : x \notin ToSet(s)
  PROVE  s = <<>>
<1>1. SUFFICES ASSUME s # <<>> PROVE FALSE
  OBVIOUS
<1>2. Len(s) \in Nat /\ Len(s) # 0
  BY <1>1, EmptySeq
<1>3. s[1] \in ToSet(s)
  BY <1>2 DEF ToSet
<1> QED BY <1>3

\* Nothing follows the last frame of a run.
LEMMA LastFrame ==
  ASSUME StreamInv, NEW f, UpLoses(up, up', f), f.t = "complete" \/ (f.t = "result" /\ ~f.streams)
  PROVE  up' = <<>> /\ run.phase = "over"
<1>1. \A g \in ToSet(up') : UPair(f, g)
  BY DEF StreamInv, InOrder, UpLoses
<1>2. \A g : g \notin ToSet(up')
  BY <1>1 DEF UPair
<1>3. up' = <<>>
  BY <1>2, NothingIn DEF UpLoses
<1>4. ToSet(up) = ToSet(up') \cup {f}
  BY DEF UpLoses
<1>5. Has(up, "complete") \/ Plain(up)
  BY <1>4 DEF Has, Plain
<1>6. Plain(up) => Has(up, "result")
  BY DEF Plain, Has
<1>7. Talk /\ run \in RunRec
  BY NowTypes DEF StreamInv, Phases
<1>8. run.phase \in {"exec", "grace", "over"}
  BY <1>7 DEF RunRec
<1> QED BY <1>3, <1>5, <1>6, <1>7, <1>8 DEF Talk

\* When it has been taken the run is over and nothing is on its way.
LEMMA LastSteps ==
  ASSUME StreamInv, TakesResult \/ Completes
  PROVE  up' = <<>> /\ run.phase = "over"
<1>1. CASE TakesResult
  <2>1. Result(FALSE).t = "result" /\ Result(FALSE).streams = FALSE
    BY FramesSay
  <2> QED BY <1>1, <2>1, LastFrame DEF TakesResult
<1>2. CASE Completes
  <2>1. Complete.t = "complete"
    BY FramesSay
  <2> QED BY <1>2, <2>1, LastFrame DEF Completes
<1> QED BY <1>1, <1>2

\* There is one result.
LEMMA BodyTaken ==
  ASSUME StreamInv, TakesBody
  PROVE  Body(up) /\ ~Has(up', "result") /\ ~Body(up')
<1>1. UpLoses(up, up', Result(TRUE)) /\ Result(TRUE).t = "result" /\ Result(TRUE).streams = TRUE
  BY FramesSay DEF TakesBody
<1>2. \A g \in ToSet(up') : UPair(Result(TRUE), g)
  BY <1>1 DEF StreamInv, InOrder, UpLoses
<1>3. \A g \in ToSet(up') : g.t # "result"
  BY <1>1, <1>2 DEF UPair
<1>4. Result(TRUE) \in ToSet(up)
  BY <1>1 DEF UpLoses
<1>5. Body(up)
  BY <1>1, <1>4 DEF Body
<1> QED BY <1>3, <1>5 DEF Has, Body

\* Talk is kept.
LEMMA TalkStep ==
  ASSUME StreamInv, Types', Steps
  PROVE  Talk'
<1>1. Talk /\ Gone /\ run.phase \in {"exec", "grace", "over"}
  BY NowTypes DEF StreamInv, Phases, RunRec
<1>2. Plain(up) => Has(up, "result")
  BY DEF Plain, Has
<1>3. Body(up) => Has(up, "result")
  BY DEF Body, Has
<1>4. /\ run'.phase = run.phase \/ Returns \/ Ending \/ Cuts
      /\ Returns => run.phase = "exec" /\ run'.phase = "grace" /\ entry' = entry
      /\ Ending => run'.phase = "over" /\ entry' = entry
      /\ Cuts => run'.phase = "over" /\ entry' = entry /\ up' = <<>>
  BY PhaseMoves DEF Returns, Ending, Cuts, Swept
<1>5. /\ entry' = entry \/ TakesBody \/ TakesResult \/ Completes \/ SeesLoss
      /\ TakesBody => Has(up, "result") /\ ~Has(up', "result")
      /\ TakesResult \/ Completes => run.phase = "over" /\ up' = <<>>
      /\ SeesLoss => run.phase = "over" /\ up' = <<>>
  <2>1. SeesLoss => run.phase = "over" /\ up' = <<>>
    BY <1>1 DEF SeesLoss, Gone
  <2> QED BY EntryMoves, BodyTaken, LastSteps, <1>3, <2>1
<1>6. /\ out'.on = out.on \/ Returns
      /\ Returns => out'.on # "no"
  <2>1. out \in OutRec
    BY NowTypes
  <2> QED BY OnMoves, <2>1 DEF Returns, OutRec
<1>7. UpAdds
  BY UpKinds
<1>8. ~Has(<<>>, "result") /\ ~Has(<<>>, "complete") /\ ~Plain(<<>>)
  BY KindsNone
<1>9. run'.phase = "exec" => out'.on = "no" /\ entry' = "run" /\ ~Has(up', "result")
        /\ ~Has(up', "complete")
  BY <1>1, <1>2, <1>4, <1>5, <1>6, <1>7 DEF Talk, UpAdds
<1>10. run'.phase = "grace" => out'.on # "no" /\ ~Has(up', "complete") /\ ~Plain(up')
  BY <1>1, <1>2, <1>4, <1>5, <1>6, <1>7 DEF Talk, UpAdds
<1>11. Has(up', "result") => entry' = "run"
  BY <1>1, <1>4, <1>5, <1>7, <1>8 DEF Talk, UpAdds
<1>12. Has(up', "complete") => out'.on # "no"
  BY <1>1, <1>4, <1>6, <1>7 DEF Talk, UpAdds
<1> QED BY <1>9, <1>10, <1>11, <1>12 DEF Talk

\* Over is kept.
LEMMA OverStep ==
  ASSUME StreamInv, Types', Steps
  PROVE  Over'
<1>1. Over /\ out \in OutRec /\ gin \in GinRec
  BY NowTypes DEF StreamInv, Phases
<1>2. CASE Ending \/ Cuts
  BY <1>1, <1>2 DEF Ending, Cuts, Swept, Over, OutRec, GinRec
<1>3. CASE run.phase = "over" /\ ~Cuts
  BY <1>1, <1>3, OverSteps DEF Over
<1>4. CASE run.phase # "over" /\ ~Ending /\ ~Cuts
  BY <1>4, PhaseMoves DEF Over, Returns
<1> QED BY <1>2, <1>3, <1>4

\* Gone is kept.
LEMMA GoneStep ==
  ASSUME StreamInv, Types', Steps
  PROVE  Gone'
<1>1. Gone /\ cons \in ConsIn
  BY NowTypes DEF StreamInv, Phases
<1>2. CASE Cuts
  BY <1>1, <1>2 DEF Cuts, Swept, Gone
<1>3. CASE ~Cuts
  <2>1. ASSUME run.phase = "over", up = <<>> PROVE run'.phase = "over" /\ up' = <<>>
    <3>1. (SourceSteps \/ RouteSteps) /\ run'.phase = "over"
      BY <1>3, <2>1, OverSteps
    <3>2. ASSUME NEW f PROVE ~UpLoses(up, up', f)
      BY <2>1 DEF UpLoses
    <3> QED BY <2>1, <3>1, <3>2 DEF SourceSteps, GoesOn, Starts, Credited, Yields, Finishes,
          Rests, Forgets, Ignores,
          RouteSteps, TakesChunk, TakesEnd, TakesBody, TakesResult, Attaches, Completes,
          SeesLoss, Serves, Turns, Quits, Idles
  <2>2. run.phase = "over" => run'.phase = "over"
    BY <1>3, OverSteps
  <2>3. conn' = "lost" => run'.phase = "over" /\ up' = <<>>
    BY <1>1, <1>3, <2>1, ConnMoves DEF Gone
  <2>4. entry' = "gone" => run'.phase = "over" /\ up' = <<>>
    <3>1. CASE entry' = entry
      BY <1>1, <2>1, <3>1 DEF Gone
    <3>2. CASE TakesBody
      BY <3>2 DEF TakesBody
    <3>3. CASE TakesResult \/ Completes
      BY <2>2, <3>3, LastSteps
    <3>4. CASE SeesLoss
      BY <1>1, <2>1, <3>4 DEF SeesLoss, Gone
    <3> QED BY <3>1, <3>2, <3>3, <3>4, EntryMoves
  <2>5. entry' = "run" => cons' = "none"
    <3>1. CASE entry' = entry
      <4>1. entry = "run" => cons = "none"
        BY <1>1 DEF Gone
      <4>2. CASE SourceSteps
        BY <3>1, <4>1, <4>2 DEF SourceSteps, GoesOn, Starts, Credited, Yields, Finishes, Rests,
           Forgets, Ignores, SourceOnly, Woken, Fails
      <4>3. CASE GuestSteps
        BY <3>1, <4>1, <4>3 DEF GuestSteps, Reads, Waits, Cancels, Drops, Feeds, Answers,
           Buffers, EndComes, GuestOnly, ChunkComes, Woken, Fails
      <4>4. CASE DriveSteps
        BY <3>1, <4>1, <4>4 DEF DriveSteps, Flushes, Settles, SaysEnd, PullsChunk, PullsWait,
           PullsEnd, OwnWaits, OwnYields, DriveOnly, GuestOnly, PipeOnly, OwnOnly, Woken, Fails
      <4>5. CASE OutSteps
        BY <3>1, <4>1, <4>5 DEF OutSteps, Returns, TakesGrant, CancelLate, CutsOut, Ending, Cuts,
           GuestOnly, Swept, Woken, Fails
      <4>6. CASE RouteSteps
        BY <3>1, <4>1, <4>6 DEF RouteSteps, TakesChunk, TakesEnd, TakesBody, TakesResult,
           Attaches, Completes, SeesLoss, Serves, Turns, Quits, Idles, RouteOnly, Woken, Fails
      <4> QED BY <4>2, <4>3, <4>4, <4>5, <4>6 DEF Steps
    <3>2. CASE entry' # entry
      BY <3>2, EntryMoves DEF TakesBody, TakesResult, Completes, SeesLoss
    <3> QED BY <3>1, <3>2
  <2> QED BY <2>3, <2>4, <2>5 DEF Gone
<1> QED BY <1>2, <1>3

\* Phases is kept.
LEMMA PhasesStep ==
  ASSUME StreamInv, Types', Steps
  PROVE  Phases'
  BY TurnStep, TalkStep, OverStep, GoneStep DEF Phases

-----------------------------------------------------------------------------
(* InOrder. *)

\* Before the run is over no last frame is on its way, and no end before the
\* body is done.
LEMMA UpOpen ==
  ASSUME StreamInv, run.phase # "over"
  PROVE  /\ \A g \in ToSet(up) : g.t # "complete" /\ (g.t = "result" => g.streams)
         /\ ~out.done => \A g \in ToSet(up) : g.t # "oend"
         /\ run.phase = "exec" => \A g \in ToSet(up) : g.t # "result"
<1>1. Talk /\ Ends /\ run.phase \in {"exec", "grace", "over"}
  BY NowTypes DEF StreamInv, Phases, RunRec
<1>2. ~Has(up, "complete") /\ ~Plain(up) /\ (run.phase = "exec" => ~Has(up, "result"))
  <2>1. Plain(up) => Has(up, "result")
    BY DEF Plain, Has
  <2> QED BY <1>1, <2>1 DEF Talk
<1>3. ~out.done => ~Has(up, "oend")
  BY <1>1 DEF Ends
<1>4. \A g \in ToSet(up) : g.t # "complete" /\ (g.t = "result" => g.streams)
  BY <1>2, Zenon DEF Has, Plain
<1> QED BY <1>2, <1>3, <1>4 DEF Has

\* f may follow what is on its way to the host.
Fits(f) ==
  \/ f.t \in {"cancel", "complete"}
  \/ f.t = "oend" /\ ~out.done
  \/ f.t = "result" /\ run.phase = "exec"

\* Frames that fit keep the order.
LEMMA UpOrderNotes ==
  ASSUME StreamInv, NEW F, UpNotes(up, up', F), run.phase # "over", \A f \in F : Fits(f)
  PROVE  Ordered(up', UBefore)
<1>1. ASSUME NEW g \in ToSet(up), NEW f \in F PROVE UPair(g, f)
  <2>1. /\ g.t # "complete" /\ (g.t = "result" => g.streams)
        /\ ~out.done => g.t # "oend"
        /\ run.phase = "exec" => g.t # "result"
    BY UpOpen, Zenon
  <2>2. CASE f.t \in {"cancel", "complete"}
    <3>1. f.t # "result" /\ f.t \notin {"ochunk", "oend"}
      BY <2>2
    <3> QED BY <2>1, <3>1, Zenon DEF UPair
  <2>3. CASE f.t = "oend" /\ ~out.done
    <3>1. f.t # "result" /\ g.t # "oend"
      BY <2>1, <2>3
    <3> QED BY <2>1, <3>1, Zenon DEF UPair
  <2>4. CASE f.t = "result" /\ run.phase = "exec"
    <3>1. f.t \notin {"ochunk", "oend"} /\ g.t # "result"
      BY <2>1, <2>4
    <3> QED BY <2>1, <3>1, Zenon DEF UPair
  <2> QED BY <2>2, <2>3, <2>4 DEF Fits
<1>2. Ordered(up, UBefore)
  BY DEF StreamInv, InOrder
<1> QED BY <1>1, <1>2 DEF UpNotes

\* Credit and chunks of an open body keep the order.
LEMMA UpOrderGets ==
  ASSUME StreamInv, NEW f, UpGets(up, up', f), run.phase # "over",
         f.t = "pull" \/ (f.t = "ochunk" /\ ~out.done)
  PROVE  Ordered(up', UBefore)
<1>1. ASSUME NEW g \in ToSet(up) PROVE UPair(g, f)
  <2>1. /\ g.t # "complete" /\ (g.t = "result" => g.streams)
        /\ ~out.done => g.t # "oend"
    BY UpOpen, Zenon
  <2>2. f.t # "result" /\ (g.t = "oend" => f.t \notin {"ochunk", "oend"})
    BY <2>1
  <2> QED BY <2>1, <2>2, Zenon DEF UPair
<1>2. Ordered(up, UBefore)
  BY DEF StreamInv, InOrder
<1> QED BY <1>1, <1>2 DEF UpGets

\* Taking a frame keeps the order to the host.
LEMMA UpOrderLess ==
  ASSUME StreamInv, NEW f, UpLoses(up, up', f)
  PROVE  Ordered(up', UBefore)
  BY DEF UpLoses, StreamInv, InOrder

\* The queue to the host stays in order.
LEMMA UpOrderStep ==
  ASSUME StreamInv, Types', Steps
  PROVE  Ordered(up', UBefore)
<1>1. Over /\ run \in RunRec
  BY NowTypes DEF StreamInv, Phases
<1>2. Ordered(up, UBefore)
  BY DEF StreamInv, InOrder
<1>3. CASE UNCHANGED <<up>>
  BY <1>2, <1>3
<1>4. CASE Credited
  BY <1>4, UpOrderLess DEF Credited
<1>5. CASE Ignores
  BY <1>5, UpOrderLess DEF Ignores
<1>6. CASE TakesChunk
  BY <1>6, UpOrderLess DEF TakesChunk
<1>7. CASE TakesEnd
  BY <1>7, UpOrderLess DEF TakesEnd
<1>8. CASE Forgets
  BY <1>8, UpOrderLess DEF Forgets
<1>9. CASE TakesBody
  BY <1>9, UpOrderLess DEF TakesBody
<1>10. CASE TakesResult
  BY <1>10, UpOrderLess DEF TakesResult
<1>11. CASE Completes
  BY <1>11, UpOrderLess DEF Completes
<1>12. CASE Reads
  <2>1. PICK n : UpGets(up, up', Pull(n)) /\ run.phase # "over"
    BY <1>12 DEF Reads
  <2>2. Pull(n).t = "pull"
    BY FramesSay
  <2> QED BY <2>1, <2>2, UpOrderGets
<1>13. CASE PullsChunk
  <2>1. PICK n : UpGets(up, up', Pull(n)) /\ run.phase # "over"
    BY <1>13 DEF PullsChunk, PipeOnly, DriveOnly
  <2>2. Pull(n).t = "pull"
    BY FramesSay
  <2> QED BY <2>1, <2>2, UpOrderGets
<1>14. CASE Feeds
  <2>1. PICK n : UpGets(up, up', Pull(n)) /\ down # <<>>
    BY <1>14 DEF Feeds, ChunkComes, DownLoses
  <2>2. Pull(n).t = "pull" /\ run.phase # "over"
    BY <1>1, <2>1, FramesSay DEF Over
  <2> QED BY <2>1, <2>2, UpOrderGets
<1>15. CASE Answers
  <2>1. PICK n : UpGets(up, up', Pull(n)) /\ down # <<>>
    BY <1>15 DEF Answers, ChunkComes, DownLoses
  <2>2. Pull(n).t = "pull" /\ run.phase # "over"
    BY <1>1, <2>1, FramesSay DEF Over
  <2> QED BY <2>1, <2>2, UpOrderGets
<1>16. CASE Flushes
  <2>1. PICK d : UpGets(up, up', OutChunk(d)) /\ run.phase # "over" /\ ~out.done
    BY <1>16 DEF Flushes, DriveOnly
  <2>2. OutChunk(d).t = "ochunk"
    BY FramesSay
  <2> QED BY <2>1, <2>2, UpOrderGets
<1>17. CASE Cancels
  <2>1. PICK F \in SUBSET {CancelFrame} : UpNotes(up, up', F) /\ run.phase # "over"
    BY <1>17 DEF Cancels
  <2>3. CancelFrame.t = "cancel" /\ OutEnd("err").t = "oend" /\ Result(TRUE).t = "result"
        /\ \A h : OutEnd(h).t = "oend"
    BY FramesSay
  <2>2. \A f \in F : Fits(f)
    BY <2>1, <2>3 DEF Fits
  <2> QED BY <2>1, <2>2, UpOrderNotes
<1>18. CASE SaysEnd
  <2>1. PICK how : UpNotes(up, up', {OutEnd(how)}) /\ run.phase # "over" /\ ~out.done
    BY <1>18 DEF SaysEnd, DriveOnly
  <2>3. CancelFrame.t = "cancel" /\ OutEnd("err").t = "oend" /\ Result(TRUE).t = "result"
        /\ \A h : OutEnd(h).t = "oend"
    BY FramesSay
  <2>2. \A f \in {OutEnd(how)} : Fits(f)
    BY <2>1, <2>3 DEF Fits
  <2> QED BY <2>1, <2>2, UpOrderNotes
<1>19. CASE Returns
  <2>1. PICK F : F = {Result(TRUE)}
    OBVIOUS
  <2>2. UpNotes(up, up', F) /\ run.phase = "exec" /\ run.phase # "over"
    BY <1>19, <2>1 DEF Returns
  <2>3. Result(TRUE).t = "result"
    BY FramesSay
  <2>4. \A f \in F : Fits(f)
    BY <2>1, <2>2, <2>3 DEF Fits
  <2> QED BY <2>2, <2>4, UpOrderNotes
<1>20. CASE CutsOut
  <2>1. PICK F \in SUBSET {OutEnd("err"), CancelFrame} : UpNotes(up, up', F)
                                                           /\ run.phase # "over" /\ ~out.done
    BY <1>20 DEF CutsOut
  <2>3. CancelFrame.t = "cancel" /\ OutEnd("err").t = "oend" /\ Result(TRUE).t = "result"
        /\ \A h : OutEnd(h).t = "oend"
    BY FramesSay
  <2>2. \A f \in F : Fits(f)
    BY <2>1, <2>3 DEF Fits
  <2> QED BY <2>1, <2>2, UpOrderNotes
<1>21. CASE Ending
  <2>1. PICK F, last :
          /\ last \in {Result(FALSE), Complete} /\ (last = Complete <=> run.phase = "grace")
          /\ F \subseteq {OutEnd("err"), CancelFrame, last}
          /\ OutEnd("err") \in F <=> (out.on # "no" /\ ~out.done)
          /\ UpNotes(up, up', F) /\ run.phase # "over"
    BY <1>21 DEF Ending
  <2>2. /\ CancelFrame.t = "cancel" /\ OutEnd("err").t = "oend" /\ Complete.t = "complete"
        /\ Result(FALSE).t = "result"
    BY FramesSay
  <2>3. run.phase \in {"exec", "grace", "over"}
    BY <1>1 DEF RunRec
  <2>4. ASSUME NEW f \in F PROVE Fits(f)
    <3>1. CASE f = CancelFrame
      BY <2>2, <3>1 DEF Fits
    <3>2. CASE f = OutEnd("err")
      BY <2>1, <2>2, <3>2, Zenon DEF Fits
    <3>3. CASE f = last /\ last = Complete
      BY <2>2, <3>3 DEF Fits
    <3>4. CASE f = last /\ last # Complete
      BY <2>1, <2>2, <2>3, <3>4 DEF Fits
    <3> QED BY <2>1, <3>1, <3>2, <3>3, <3>4
  <2> QED BY <2>1, <2>4, UpOrderNotes
<1>22. CASE Cuts
  <2>1. up' = <<>>
    BY <1>22 DEF Cuts
  <2>2. Ordered(<<>>, UBefore)
    BY DEF Ordered
  <2> QED BY <2>1, <2>2
<1>23. CASE SourceSteps
  BY <1>23, <1>3, <1>4, <1>8, <1>5 DEF SourceSteps, GoesOn, Starts, Yields, Finishes, Rests,
     SourceOnly
<1>24. CASE GuestSteps
  BY <1>24, <1>3, <1>12, <1>17, <1>14, <1>15 DEF GuestSteps, Waits, Drops, Buffers, EndComes,
     GuestOnly, ChunkComes
<1>25. CASE DriveSteps
  BY <1>25, <1>3, <1>16, <1>18, <1>13 DEF DriveSteps, Settles, PullsWait, PullsEnd, OwnWaits,
     OwnYields, DriveOnly, GuestOnly, PipeOnly, OwnOnly
<1>26. CASE OutSteps
  BY <1>26, <1>3, <1>19, <1>20, <1>21, <1>22 DEF OutSteps, TakesGrant, CancelLate, GuestOnly
<1>27. CASE RouteSteps
  BY <1>27, <1>3, <1>6, <1>7, <1>9, <1>10, <1>11 DEF RouteSteps, Attaches, SeesLoss, Serves,
     Turns, Quits, Idles, RouteOnly
<1> QED BY <1>23, <1>24, <1>25, <1>26, <1>27 DEF Steps

\* Frames about the returned body, and chunks before the end, keep the order.
LEMMA DownOrderMore ==
  ASSUME StreamInv, NEW f, HostSaid(f), f.t \in {"opull", "ocancel"} \/ ~Has(down, "end")
  PROVE  Ordered(down', DBefore)
<1>1. Ordered(down, DBefore)
  BY DEF StreamInv, InOrder
<1>2. ASSUME NEW g \in ToSet(down) PROVE DPair(g, f)
  BY DEF DPair, Has
<1> QED BY <1>1, <1>2 DEF HostSaid, DownGets

\* The pump keeps the order.
LEMMA DownOrderPump ==
  ASSUME StreamInv, NEW s, \/ Fetches(s) \/ Stops(s) \/ Stays(s) \/ (~s.done /\ Sends(s))
           \/ (src.pump = "read" /\ Sends(s)), s.done = src.done
  PROVE  Ordered(down', DBefore)
<1>1. Ordered(down, DBefore) /\ Source
  BY DEF StreamInv, InOrder
<1>2. CASE down' = down
  BY <1>1, <1>2
<1>3. CASE Sends(s) /\ (~s.done \/ src.pump = "read")
  <2>1. PICK d : HostSaid(Chunk(d))
    BY <1>3 DEF Sends
  <2>2. ~Has(down, "end")
    BY <1>1, <1>3 DEF Source
  <2> QED BY <2>1, <2>2, DownOrderMore
<1> QED BY <1>2, <1>3 DEF Fetches, Stops, Stays

\* Taking a frame keeps the order to the run.
LEMMA DownOrderLess ==
  ASSUME StreamInv, NEW f, DownLoses(down, down', f)
  PROVE  Ordered(down', DBefore)
  BY DEF DownLoses, StreamInv, InOrder

\* The queue to the run stays in order.
LEMMA DownOrderStep ==
  ASSUME StreamInv, Types', Steps
  PROVE  Ordered(down', DBefore)
<1>1. Source /\ src \in SrcRec
  BY NowTypes DEF StreamInv
<1>2. Ordered(down, DBefore)
  BY DEF StreamInv, InOrder
<1>3. CASE UNCHANGED <<down>>
  BY <1>2, <1>3
<1>4. CASE GoesOn
  BY <1>4, DownOrderPump DEF GoesOn, Pumps
<1>5. CASE Starts
  <2>1. PICK s : s = [src EXCEPT !.at = "on", !.credit = Window]
    OBVIOUS
  <2>2. s.done = src.done
    BY <1>1, <2>1 DEF SrcRec
  <2> QED BY <1>5, <2>1, <2>2, DownOrderPump DEF Starts, Pumps
<1>6. CASE Credited
  <2>1. PICK n \in Nat : Pumps([src EXCEPT !.credit = @ + n])
                           \/ Stays([src EXCEPT !.credit = @ + n])
    BY <1>6 DEF Credited
  <2>2. PICK s : s = [src EXCEPT !.credit = @ + n]
    OBVIOUS
  <2>3. s.done = src.done
    BY <1>1, <2>2 DEF SrcRec
  <2> QED BY <2>1, <2>2, <2>3, DownOrderPump DEF Pumps
<1>7. CASE Yields
  <2>1. PICK c \in Piece : src.pump = "read"
                             /\ Sends([src EXCEPT !.prefix = <<c>>, !.read = @ + Len(c)])
    BY <1>7 DEF Yields
  <2>2. PICK s : s = [src EXCEPT !.prefix = <<c>>, !.read = @ + Len(c)]
    OBVIOUS
  <2>3. s.done = src.done
    BY <1>1, <2>2 DEF SrcRec
  <2> QED BY <2>1, <2>2, <2>3, DownOrderPump
<1>8. CASE Finishes
  <2>1. PICK h : HostSaid(End(h)) /\ src.pump \in {"read", "write"}
    BY <1>8 DEF Finishes
  <2>2. ~Has(down, "end")
    BY <1>1, <2>1 DEF Source
  <2> QED BY <2>1, <2>2, DownOrderMore
<1>9. CASE Drops
  BY <1>9, DownOrderLess DEF Drops, ChunkComes
<1>10. CASE Feeds
  BY <1>10, DownOrderLess DEF Feeds, ChunkComes
<1>11. CASE Answers
  BY <1>11, DownOrderLess DEF Answers, ChunkComes
<1>12. CASE Buffers
  BY <1>12, DownOrderLess DEF Buffers, ChunkComes
<1>13. CASE EndComes
  BY <1>13, DownOrderLess DEF EndComes
<1>14. CASE TakesGrant
  BY <1>14, DownOrderLess DEF TakesGrant
<1>15. CASE CancelLate
  BY <1>15, DownOrderLess DEF CancelLate
<1>16. CASE CutsOut
  BY <1>2, <1>16, DownOrderLess DEF CutsOut
<1>17. CASE Ending
  <2>1. down' = <<>>
    BY <1>17 DEF Ending, Swept
  <2>2. Ordered(<<>>, DBefore)
    BY DEF Ordered
  <2> QED BY <2>1, <2>2
<1>18. CASE Cuts
  <2>1. down' = <<>>
    BY <1>18 DEF Cuts, Swept
  <2>2. Ordered(<<>>, DBefore)
    BY DEF Ordered
  <2> QED BY <2>1, <2>2
<1>19. CASE Serves
  <2>1. PICK d : HostSaid(OutPull(Len(d)))
    BY <1>19 DEF Serves
  <2>2. OutPull(Len(d)).t = "opull"
    BY FramesSay
  <2> QED BY <2>1, <2>2, DownOrderMore
<1>20. CASE Quits
  <2>1. OutCancel.t = "ocancel"
    BY FramesSay
  <2> QED BY <1>2, <1>20, <2>1, DownOrderMore DEF Quits
<1>21. CASE SourceSteps
  BY <1>21, <1>3, <1>4, <1>5, <1>6, <1>7, <1>8 DEF SourceSteps, Rests, Forgets, Ignores,
     SourceOnly
<1>22. CASE GuestSteps
  BY <1>22, <1>3, <1>9, <1>10, <1>11, <1>12, <1>13 DEF GuestSteps, Reads, Waits, Cancels,
     GuestOnly
<1>23. CASE DriveSteps
  BY <1>23, <1>3 DEF DriveSteps, Flushes, Settles, SaysEnd, PullsChunk, PullsWait, PullsEnd,
     OwnWaits, OwnYields, DriveOnly, GuestOnly, PipeOnly, OwnOnly
<1>24. CASE OutSteps
  BY <1>24, <1>3, <1>14, <1>15, <1>16, <1>17, <1>18 DEF OutSteps, Returns
<1>25. CASE RouteSteps
  BY <1>25, <1>3, <1>19, <1>20 DEF RouteSteps, TakesChunk, TakesEnd, TakesBody, TakesResult,
     Attaches, Completes, SeesLoss, Turns, Idles, RouteOnly
<1> QED BY <1>21, <1>22, <1>23, <1>24, <1>25 DEF Steps

\* InOrder is kept.
LEMMA InOrderStep ==
  ASSUME StreamInv, Types', Steps
  PROVE  InOrder'
  BY UpOrderStep, DownOrderStep DEF InOrder

-----------------------------------------------------------------------------
(* Source. *)

\* The guest learns of the end only from the end.
LEMMA EndedMoves ==
  ASSUME StreamInv, Types', Steps
  PROVE  gin'.ended = gin.ended \/ EndComes
<1>1. gin \in GinRec
  BY NowTypes
<1>2. CASE SourceSteps
  BY <1>1, <1>2 DEF SourceSteps, GoesOn, Starts, Credited, Yields, Finishes, Rests, Forgets,
     Ignores, SourceOnly, Cut, GinRec
<1>3. CASE GuestSteps
  BY <1>1, <1>3 DEF GuestSteps, Reads, Waits, Cancels, Drops, Feeds, Answers, Buffers, EndComes,
     GuestOnly, ChunkComes, Cut, GinRec
<1>4. CASE DriveSteps
  BY <1>1, <1>4 DEF DriveSteps, Flushes, Settles, SaysEnd, PullsChunk, PullsWait, PullsEnd,
     OwnWaits, OwnYields, DriveOnly, GuestOnly, PipeOnly, OwnOnly, Cut, GinRec
<1>5. CASE OutSteps
  BY <1>1, <1>5 DEF OutSteps, Returns, TakesGrant, CancelLate, CutsOut, Ending, Cuts, GuestOnly,
     Swept, Cut, GinRec
<1>6. CASE RouteSteps
  BY <1>1, <1>6 DEF RouteSteps, TakesChunk, TakesEnd, TakesBody, TakesResult, Attaches,
     Completes, SeesLoss, Serves, Turns, Quits, Idles, RouteOnly, Cut, GinRec
<1> QED BY <1>2, <1>3, <1>4, <1>5, <1>6 DEF Steps

\* A cancelled stream stays cancelled.
LEMMA CancelledStays ==
  ASSUME StreamInv, Types', Steps
  PROVE  gin.cancelled => gin'.cancelled
<1>1. gin \in GinRec
  BY NowTypes
<1>2. CASE SourceSteps
  BY <1>1, <1>2 DEF SourceSteps, GoesOn, Starts, Credited, Yields, Finishes, Rests, Forgets,
     Ignores, SourceOnly, Cut, GinRec
<1>3. CASE GuestSteps
  BY <1>1, <1>3 DEF GuestSteps, Reads, Waits, Cancels, Drops, Feeds, Answers, Buffers, EndComes,
     GuestOnly, ChunkComes, Cut, GinRec
<1>4. CASE DriveSteps
  BY <1>1, <1>4 DEF DriveSteps, Flushes, Settles, SaysEnd, PullsChunk, PullsWait, PullsEnd,
     OwnWaits, OwnYields, DriveOnly, GuestOnly, PipeOnly, OwnOnly, Cut, GinRec
<1>5. CASE OutSteps
  BY <1>1, <1>5 DEF OutSteps, Returns, TakesGrant, CancelLate, CutsOut, Ending, Cuts, GuestOnly,
     Swept, Cut, GinRec
<1>6. CASE RouteSteps
  BY <1>1, <1>6 DEF RouteSteps, TakesChunk, TakesEnd, TakesBody, TakesResult, Attaches,
     Completes, SeesLoss, Serves, Turns, Quits, Idles, RouteOnly, Cut, GinRec
<1> QED BY <1>2, <1>3, <1>4, <1>5, <1>6 DEF Steps

\* Which steps move the source.
LEMMA SrcMoves ==
  ASSUME StreamInv, Types', Steps
  PROVE  \/ src' = src \/ GoesOn \/ Starts \/ Credited \/ Yields \/ Finishes \/ Rests
         \/ src' = Released /\ (Forgets \/ TakesResult \/ Completes \/ SeesLoss)
<1>1. CASE SourceSteps
  BY <1>1 DEF SourceSteps, GoesOn, Starts, Credited, Yields, Finishes, Rests, Forgets, Ignores,
     SourceOnly
<1>2. CASE GuestSteps
  BY <1>2 DEF GuestSteps, Reads, Waits, Cancels, Drops, Feeds, Answers, Buffers, EndComes,
     GuestOnly, ChunkComes
<1>3. CASE DriveSteps
  BY <1>3 DEF DriveSteps, Flushes, Settles, SaysEnd, PullsChunk, PullsWait, PullsEnd, OwnWaits,
     OwnYields, DriveOnly, GuestOnly, PipeOnly, OwnOnly
<1>4. CASE OutSteps
  BY <1>4 DEF OutSteps, Returns, TakesGrant, CancelLate, CutsOut, Ending, Cuts, GuestOnly, Swept
<1>5. CASE RouteSteps
  BY <1>5 DEF RouteSteps, TakesChunk, TakesEnd, TakesBody, TakesResult, Attaches, Completes,
     SeesLoss, Serves, Turns, Quits, Idles, RouteOnly
<1> QED BY <1>1, <1>2, <1>3, <1>4, <1>5 DEF Steps

\* A run that is over stays so.
LEMMA OverStays ==
  ASSUME StreamInv, Types', Steps, run.phase = "over"
  PROVE  run'.phase = "over"
  BY OverSteps DEF Cuts, Swept

\* What the pump leaves alone.
LEMMA PumpShape ==
  ASSUME NEW s \in SrcRec, Pumps(s) \/ Sends(s) \/ Stays(s)
  PROVE  /\ src'.at = s.at /\ src'.read = s.read /\ src'.done = s.done
         /\ src'.pump = "end" => s.pump = "end"
         /\ src'.pump = "read" => s.pump = "read" \/ (~s.done /\ src'.prefix = <<>>)
         /\ src'.pump = "read" /\ Stays(s) => src' = s
<1>1. CASE Fetches(s)
  BY <1>1 DEF Fetches, SrcRec, Stays
<1>2. CASE Sends(s)
  BY <1>2 DEF Sends, Stays
<1>3. CASE Stops(s)
  BY <1>3 DEF Stops, SrcRec, Stays
<1>4. CASE Stays(s)
  BY <1>4 DEF Stays
<1> QED BY <1>1, <1>2, <1>3, <1>4 DEF Pumps

\* A source at rest starts nothing.
LEMMA AtRest ==
  ASSUME StreamInv, src.done, src.pump \in {"off", "end"}
  PROVE  ~GoesOn /\ ~Starts /\ ~Credited /\ ~Yields /\ ~Finishes
<1>1. src.at = "gone"
  BY DEF StreamInv, Source
<1> QED BY <1>1 DEF GoesOn, Starts, Credited, Yields, Finishes

\* A source at rest stays at rest, and sends nothing more.
LEMMA StaysAtRest ==
  ASSUME StreamInv, Types', Steps, src.done, src.pump \in {"off", "end"}
  PROVE  src'.done /\ src'.pump \in {"off", "end"} /\ (Has(down', "chunk") => Has(down, "chunk"))
         /\ (Has(down', "end") => Has(down, "end"))
<1>1. ~GoesOn /\ ~Starts /\ ~Credited /\ ~Yields /\ ~Finishes
  BY AtRest
<1>2. (Has(down', "chunk") => Has(down, "chunk")) /\ (Has(down', "end") => Has(down, "end"))
  BY <1>1, DownKinds DEF DownAdds
<1>3. src \in SrcRec
  BY NowTypes
<1>4. CASE src' = src
  BY <1>2, <1>4
<1>5. CASE Rests
  BY <1>2, <1>3, <1>5 DEF Rests, SrcRec
<1>6. CASE src' = Released
  BY <1>2, <1>3, <1>6, ReleasedIs
<1> QED BY <1>1, <1>4, <1>5, <1>6, SrcMoves

\* Before the stream is activated no credit is on its way.
LEMMA NoCreditYet ==
  ASSUME StreamInv, src.at = "reg", NEW n \in Nat, UpLoses(up, up', Pull(n)), Types'
  PROVE  n = 0
<1>1. CreditIn(up, "pull") = CreditIn(up', "pull") + n
  BY FramesSay DEF UpLoses
<1>2. CreditIn(up', "pull") \in Nat
  <2>1. up' \in Seq(UpFrame)
    BY DEF Types
  <2>2. CancelFrame \in UpFrame
    BY FramesNew
  <2> QED BY <2>1, <2>2, UpOne
<1>3. Types /\ Inflow = 0 /\ src.credit \in Nat
  BY DEF StreamInv, InCredit, Types, SrcRec
<1>4. Len(BytesIn(down, "chunk")) \in Nat /\ Len(Bytes(gin.buf)) \in Nat
        /\ CreditIn(up, "pull") \in Nat
  BY <1>3, Amounts
<1> QED BY <1>1, <1>2, <1>3, <1>4 DEF Inflow

\* The parts of Source that speak of the source alone.
SourceShape ==
  /\ src.at = "gone" <=> src.done
  /\ src.pump = "end" => src.done
  /\ src.pump = "read" => src.prefix = <<>>
  /\ src.at = "reg" => src.pump = "off" /\ src.credit = 0
  /\ src.read = 0 => src.done /\ src.pump = "off"

\* They are kept; a source that has nothing to read stays such.
LEMMA ShapeStep ==
  ASSUME StreamInv, Types', Steps
  PROVE  SourceShape' /\ (src.read > 0 <=> src'.read > 0)
<1>1. SourceShape /\ src \in SrcRec
  BY NowTypes DEF StreamInv, Source, SourceShape
<1>2. src.read \in Nat /\ src.credit \in Nat /\ Window \in Nat
  BY <1>1, StreamsAssumption DEF SrcRec
<1>3. CASE src' = src
  BY <1>1, <1>3 DEF SourceShape
<1>4. CASE GoesOn
  <2>1. src.pump = "write" /\ Pumps(src)
    BY <1>4 DEF GoesOn
  <2>2. /\ src'.at = src.at /\ src'.read = src.read /\ src'.done = src.done
        /\ src'.pump # "end" /\ (src'.pump = "read" => src'.prefix = <<>>)
    BY <1>1, <2>1, PumpShape
  <2> QED BY <1>1, <2>1, <2>2 DEF SourceShape
<1>5. CASE Starts
  <2>1. PICK s : s = [src EXCEPT !.at = "on", !.credit = Window]
    OBVIOUS
  <2>2. s \in SrcRec /\ Pumps(s) /\ src.at = "reg"
    BY <1>1, <1>5, <2>1, SourcesFrom DEF Starts
  <2>3. s.at = "on" /\ s.done = src.done /\ s.read = src.read /\ s.pump = src.pump
    BY <1>1, <2>1 DEF SrcRec
  <2>4. /\ src'.at = s.at /\ src'.read = s.read /\ src'.done = s.done
        /\ src'.pump # "end" /\ (src'.pump = "read" => src'.prefix = <<>>)
    BY <1>1, <2>2, <2>3, PumpShape DEF SourceShape
  <2> QED BY <1>1, <2>2, <2>3, <2>4 DEF SourceShape
<1>6. CASE Credited
  <2>1. PICK n \in Nat :
          /\ UpLoses(up, up', Pull(n)) /\ src.at # "gone"
          /\ Pumps([src EXCEPT !.credit = @ + n]) \/ Stays([src EXCEPT !.credit = @ + n])
    BY <1>6 DEF Credited
  <2>2. PICK s : s = [src EXCEPT !.credit = @ + n]
    OBVIOUS
  <2>3. s \in SrcRec /\ (Pumps(s) \/ Stays(s))
    BY <1>1, <2>1, <2>2, SourcesFrom
  <2>4. /\ s.at = src.at /\ s.done = src.done /\ s.read = src.read /\ s.pump = src.pump
        /\ s.prefix = src.prefix
        /\ s.credit = src.credit + n
    BY <1>1, <2>2 DEF SrcRec
  <2>5. /\ src'.at = s.at /\ src'.read = s.read /\ src'.done = s.done
        /\ src'.pump = "end" => s.pump = "end"
    BY <2>3, PumpShape
  <2>6. src'.pump = "read" => src'.prefix = <<>>
    <3>1. CASE Stays(s)
      BY <1>1, <2>4, <3>1 DEF Stays, SourceShape
    <3>2. CASE Pumps(s)
      BY <2>3, <3>2 DEF Pumps, Fetches, Sends, Stops, SrcRec
    <3> QED BY <2>3, <3>1, <3>2
  <2>7. src.at = "reg" => src'.pump = "off" /\ src'.credit = 0
    <3>1. SUFFICES ASSUME src.at = "reg" PROVE src'.pump = "off" /\ src'.credit = 0
      OBVIOUS
    <3>2. n = 0
      BY <2>1, <3>1, NoCreditYet
    <3>3. s.credit = 0 /\ s.pump = "off"
      BY <1>1, <1>2, <2>4, <3>1, <3>2 DEF SourceShape
    <3>4. Stops(s)
      BY <2>3, <3>3 DEF Pumps, Fetches, Stays
    <3> QED BY <2>3, <3>3, <3>4 DEF Stops, SrcRec
  <2>8. src.read # 0
    BY <1>1, <2>1 DEF SourceShape
  <2> QED BY <1>1, <1>2, <2>1, <2>4, <2>5, <2>6, <2>7, <2>8 DEF SourceShape
<1>7. CASE Yields
  <2>1. PICK c \in Piece : src.pump = "read"
                             /\ Sends([src EXCEPT !.prefix = <<c>>, !.read = @ + Len(c)])
    BY <1>7 DEF Yields
  <2>2. PICK s : s = [src EXCEPT !.prefix = <<c>>, !.read = @ + Len(c)]
    OBVIOUS
  <2>3. Len(c) \in Nat
    BY DEF Piece
  <2>4. s.at = src.at /\ s.done = src.done /\ s.read = src.read + Len(c)
    BY <1>1, <2>2 DEF SrcRec
  <2>5. src'.at = s.at /\ src'.read = s.read /\ src'.done = s.done /\ src'.pump = "write"
    BY <2>1, <2>2 DEF Sends
  <2>6. src.read > 0 /\ src.at # "reg"
    BY <1>1, <1>2, <2>1 DEF SourceShape
  <2> QED BY <1>1, <1>2, <2>3, <2>4, <2>5, <2>6 DEF SourceShape
<1>8. CASE Finishes
  <2>1. PICK p \in {"end", "off"} : src' = [src EXCEPT !.pump = p, !.done = TRUE, !.at = "gone"]
                                      /\ src.pump \in {"read", "write"}
    BY <1>8 DEF Finishes
  <2>2. src'.read = src.read /\ src'.pump = p /\ src'.done /\ src'.at = "gone"
    BY <1>1, <2>1 DEF SrcRec
  <2> QED BY <1>1, <2>1, <2>2 DEF SourceShape
<1>9. CASE Rests
  <2>1. src' = [src EXCEPT !.pump = "off"] /\ src.pump = "end"
    BY <1>9 DEF Rests
  <2>2. /\ src'.read = src.read /\ src'.pump = "off" /\ src'.done = src.done /\ src'.at = src.at
        /\ src'.credit = src.credit
    BY <1>1, <2>1 DEF SrcRec
  <2> QED BY <1>1, <2>1, <2>2 DEF SourceShape
<1>10. CASE src' = Released
  BY <1>1, <1>10, ReleasedIs DEF SourceShape
<1> QED BY <1>3, <1>4, <1>5, <1>6, <1>7, <1>8, <1>9, <1>10, SrcMoves

\* Source is kept.
LEMMA SourceStep ==
  ASSUME StreamInv, Types', Steps
  PROVE  Source'
<1>1. Source /\ src \in SrcRec /\ gin \in GinRec /\ Gone
  BY NowTypes DEF StreamInv, Phases
<1>2. SourceShape' /\ (src.read > 0 <=> src'.read > 0) /\ src.read \in Nat /\ src'.read \in Nat
  BY <1>1, ShapeStep DEF Types, SrcRec
<1>3. /\ out'.on = out.on \/ Returns
      /\ Returns => src' = src /\ out'.on = IF src.read > 0 THEN "pipe" ELSE "own"
  <2>1. out \in OutRec
    BY NowTypes
  <2> QED BY <2>1, OnMoves DEF Returns, OutRec
<1>4. src'.read = 0 => out'.on # "pipe"
  BY <1>1, <1>2, <1>3 DEF Source
<1>5. src'.read > 0 => out'.on # "own"
  BY <1>1, <1>2, <1>3 DEF Source
<1>6. (gin.cancelled => gin'.cancelled) /\ (run.phase = "over" => run'.phase = "over")
  BY CancelledStays, OverStays
<1>7. src'.done /\ src'.pump = "read" => gin'.cancelled \/ run'.phase = "over"
  <2>1. SUFFICES ASSUME src'.done, src'.pump = "read" PROVE gin.cancelled \/ run.phase = "over"
    BY <1>6
  <2>2. CASE src.done /\ src.pump = "read"
    BY <1>1, <2>2 DEF Source
  <2>3. CASE src' = src
    BY <2>1, <2>2, <2>3
  <2>4. CASE GoesOn
    BY <1>1, <2>1, <2>4, PumpShape DEF GoesOn
  <2>5. CASE Starts
    <3>1. src'.done = src.done
      <4>1. PICK s : s = [src EXCEPT !.at = "on", !.credit = Window]
        OBVIOUS
      <4>2. s \in SrcRec /\ Pumps(s)
        BY <1>1, <2>5, <4>1, SourcesFrom DEF Starts
      <4>3. s.done = src.done
        BY <1>1, <4>1 DEF SrcRec
      <4> QED BY <4>2, <4>3, PumpShape
    <3> QED BY <1>1, <2>1, <2>5, <3>1 DEF Starts, Source
  <2>6. CASE Credited
    <3>0. PICK n \in Nat : src.at # "gone"
                             /\ (Pumps([src EXCEPT !.credit = @ + n]) \/ Stays([src EXCEPT !.credit = @ + n]))
      BY <2>6 DEF Credited
    <3>1. src'.done = src.done
      <4>1. PICK s : s = [src EXCEPT !.credit = @ + n]
        OBVIOUS
      <4>2. s \in SrcRec /\ (Pumps(s) \/ Stays(s))
        BY <1>1, <3>0, <4>1, SourcesFrom
      <4>3. s.done = src.done
        BY <1>1, <4>1 DEF SrcRec
      <4> QED BY <4>2, <4>3, PumpShape
    <3> QED BY <1>1, <2>1, <3>0, <3>1 DEF Source
  <2>7. CASE Yields
    BY <2>1, <2>7 DEF Yields, Sends
  <2>8. CASE Finishes
    BY <1>1, <2>1, <2>8 DEF Finishes, SrcRec
  <2>9. CASE Rests
    BY <1>1, <2>1, <2>9 DEF Rests, SrcRec
  <2>10. CASE Forgets
    <3>1. CancelFrame.t = "cancel" /\ CancelFrame \in ToSet(up)
      BY <2>10, FramesSay DEF Forgets, UpLoses
    <3>2. Has(up, "cancel")
      BY <3>1 DEF Has
    <3> QED BY <1>1, <3>2 DEF Source
  <2>11. CASE TakesResult \/ Completes
    BY <2>11, LastSteps
  <2>12. CASE SeesLoss
    BY <1>1, <2>12 DEF SeesLoss, Gone
  <2> QED BY <2>3, <2>4, <2>5, <2>6, <2>7, <2>8, <2>9, <2>10, <2>11, <2>12, SrcMoves
<1>8. Has(up', "cancel") => gin'.cancelled \/ run'.phase = "over"
  BY <1>1, <1>6, UpKinds DEF UpAdds, Source
<1>9. Has(down', "end") => src'.done /\ src'.pump \in {"off", "end"}
  <2>1. CASE Has(down, "end")
    BY <1>1, <2>1, StaysAtRest DEF Source
  <2>2. CASE Finishes
    BY <1>1, <2>2 DEF Finishes, SrcRec
  <2> QED BY <2>1, <2>2, DownKinds DEF DownAdds
<1>10. gin'.ended # "no" => src'.done /\ src'.pump \in {"off", "end"} /\ ~Has(down', "chunk")
         /\ ~Has(down', "end")
  <2>1. CASE gin.ended # "no"
    BY <1>1, <2>1, StaysAtRest DEF Source
  <2>2. CASE EndComes
    <3>1. PICK how : DownLoses(down, down', End(how)) /\ src' = src
      BY <2>2 DEF EndComes, GuestOnly
    <3>2. End(how).t = "end"
      BY FramesSay
    <3>3. \A g \in ToSet(down') : DPair(End(how), g)
      BY <3>1 DEF StreamInv, InOrder, DownLoses
    <3>4. Has(down, "end")
      BY <3>1, <3>2 DEF DownLoses, Has
    <3>5. ~Has(down', "chunk") /\ ~Has(down', "end")
      BY <3>2, <3>3 DEF DPair, Has
    <3> QED BY <1>1, <3>1, <3>4, <3>5 DEF Source
  <2> QED BY <2>1, <2>2, EndedMoves
<1> QED BY <1>2, <1>4, <1>5, <1>7, <1>8, <1>9, <1>10 DEF Source, SourceShape

-----------------------------------------------------------------------------
(* NotYet, Ends and Closed. *)

\* NotYet, for the guest's half.
NotYetOut ==
  out.credit = 0 /\ out.pull = "none" /\ out.data = <<>> /\ out.backlog = <<>> /\ ~out.done
    /\ out.made = 0

\* NotYet, for the host's half.
NotYetHost == ost.buf = <<>> /\ ost.ended = "no" /\ ~ost.cancelled /\ cons = "none"
  /\ outGot = <<>>

\* NotYet is kept.
LEMMA NotYetStep ==
  ASSUME StreamInv, Types', Steps
  PROVE  NotYet'
<1>0. SUFFICES ASSUME out'.on = "no" PROVE NotYet'
  BY DEF NotYet
<1>1. out \in OutRec /\ ost \in OstRec /\ src.read \in Nat
  BY NowTypes DEF SrcRec
<1>2. ~Returns /\ out.on = "no"
  <2>1. ~Returns
    BY <1>0, <1>1 DEF Returns, OutRec
  <2> QED BY <1>0, <2>1, OnMoves
<1>3. /\ NotYetOut /\ NotYetHost
      /\ ~Has(up, "ochunk") /\ ~Has(up, "oend") /\ ~Has(down, "opull") /\ ~Has(down, "ocancel")
      /\ ~Body(up)
  BY <1>2 DEF StreamInv, NotYet, NotYetOut, NotYetHost
<1>4. ~DriveSteps /\ ~Feeds /\ ~CutsOut
  BY <1>2 DEF DriveSteps, Flushes, Settles, SaysEnd, PullsChunk, PullsWait, PullsEnd, OwnWaits,
     OwnYields, PipeOnly, OwnOnly, DriveOnly, Feeds, CutsOut
<1>5. ~Flushes /\ ~SaysEnd
  BY <1>4 DEF DriveSteps
<1>6. ~TakesGrant
  <2>1. SUFFICES ASSUME NEW n, DownLoses(down, down', OutPull(n)) PROVE FALSE
    BY DEF TakesGrant
  <2>2. OutPull(n).t = "opull" /\ OutPull(n) \in ToSet(down)
    BY <2>1, FramesSay DEF DownLoses
  <2> QED BY <1>3, <2>2 DEF Has
<1>7. ~TakesChunk
  <2>1. SUFFICES ASSUME NEW d, UpLoses(up, up', OutChunk(d)) PROVE FALSE
    BY DEF TakesChunk
  <2>2. OutChunk(d).t = "ochunk" /\ OutChunk(d) \in ToSet(up)
    BY <2>1, FramesSay DEF UpLoses
  <2> QED BY <1>3, <2>2 DEF Has
<1>8. ~TakesEnd
  <2>1. SUFFICES ASSUME NEW d, UpLoses(up, up', OutEnd(d)) PROVE FALSE
    BY DEF TakesEnd
  <2>2. OutEnd(d).t = "oend" /\ OutEnd(d) \in ToSet(up)
    BY <2>1, FramesSay DEF UpLoses
  <2> QED BY <1>3, <2>2 DEF Has
<1>9. ~TakesBody
  BY <1>3, BodyTaken
<1>10. ~Attaches /\ ~Serves /\ ~Turns /\ ~Quits
  BY <1>3 DEF Attaches, Serves, Turns, Quits, NotYetHost
<1>11. ~Has(up', "ochunk") /\ ~Has(up', "oend") /\ ~Body(up')
  BY <1>2, <1>3, <1>4, <1>5, UpKinds DEF UpAdds
<1>12. ~Has(down', "opull") /\ ~Has(down', "ocancel")
  BY <1>3, <1>10, DownKinds DEF DownAdds
<1>13. NotYetOut'
  <2>1. CASE out' = out
    BY <1>3, <2>1 DEF NotYetOut
  <2>2. CASE Ending \/ Cuts
    BY <1>1, <1>2, <1>3, <2>2 DEF Ending, Cuts, Swept, OutRec, NotYetOut
  <2>3. out' = out \/ Ending \/ Cuts
    <3>1. CASE SourceSteps \/ RouteSteps
      BY <3>1 DEF SourceSteps, GoesOn, Starts, Credited, Yields, Finishes, Rests, Forgets,
         Ignores, SourceOnly,
           RouteSteps, TakesChunk, TakesEnd, TakesBody, TakesResult, Attaches, Completes,
           SeesLoss, Serves, Turns, Quits, Idles, RouteOnly
    <3>2. CASE GuestSteps
      BY <1>2, <1>4, <3>2 DEF GuestSteps, Reads, Waits, Cancels, Drops, Answers, Buffers, EndComes
    <3>3. CASE OutSteps
      BY <1>2, <1>4, <1>6, <3>3 DEF OutSteps, CancelLate
    <3> QED BY <1>4, <3>1, <3>2, <3>3 DEF Steps
  <2> QED BY <2>1, <2>2, <2>3
<1>14. NotYetHost'
  <2>1. CASE UNCHANGED <<ost, cons, outGot>>
    BY <1>3, <2>1 DEF NotYetHost
  <2>2. CASE Completes \/ SeesLoss
    BY <1>1, <1>3, <2>2 DEF Completes, SeesLoss, Fails, Woken, OstRec, NotYetHost
  <2>3. UNCHANGED <<ost, cons, outGot>> \/ Completes \/ SeesLoss
    <3>1. CASE SourceSteps
      BY <3>1 DEF SourceSteps, GoesOn, Starts, Credited, Yields, Finishes, Rests, Forgets,
         Ignores, SourceOnly
    <3>2. CASE GuestSteps
      BY <3>2 DEF GuestSteps, Reads, Waits, Cancels, Drops, Feeds, Answers, Buffers, EndComes,
         ChunkComes, GuestOnly
    <3>3. CASE OutSteps
      BY <1>2, <1>4, <3>3 DEF OutSteps, TakesGrant, CancelLate, Ending, Cuts, GuestOnly
    <3>4. CASE RouteSteps
      BY <1>7, <1>8, <1>9, <1>10, <3>4 DEF RouteSteps, TakesResult, Idles
    <3> QED BY <1>4, <3>1, <3>2, <3>3, <3>4 DEF Steps
  <2> QED BY <2>1, <2>2, <2>3
<1> QED BY <1>11, <1>12, <1>13, <1>14 DEF NotYet, NotYetOut, NotYetHost

\* Which steps end the returned body.
LEMMA DoneMoves ==
  ASSUME StreamInv, Types', Steps
  PROVE  out'.done = out.done \/ SaysEnd \/ CutsOut \/ Ending \/ Cuts
<1>1. out \in OutRec
  BY NowTypes
<1>2. CASE SourceSteps
  BY <1>1, <1>2 DEF SourceSteps, GoesOn, Starts, Credited, Yields, Finishes, Rests, Forgets,
     Ignores, SourceOnly, OutRec
<1>3. CASE GuestSteps
  BY <1>1, <1>3 DEF GuestSteps, Reads, Waits, Cancels, Drops, Feeds, Answers, Buffers, EndComes,
     GuestOnly, ChunkComes, OutRec
<1>4. CASE DriveSteps
  BY <1>1, <1>4 DEF DriveSteps, Flushes, Settles, SaysEnd, PullsChunk, PullsWait, PullsEnd,
     OwnWaits, OwnYields, DriveOnly, GuestOnly, PipeOnly, OwnOnly, OutRec
<1>5. CASE OutSteps
  BY <1>1, <1>5 DEF OutSteps, Returns, TakesGrant, CancelLate, CutsOut, Ending, Cuts, GuestOnly,
     Swept, OutRec
<1>6. CASE RouteSteps
  BY <1>1, <1>6 DEF RouteSteps, TakesChunk, TakesEnd, TakesBody, TakesResult, Attaches,
     Completes, SeesLoss, Serves, Turns, Quits, Idles, RouteOnly, OutRec
<1> QED BY <1>2, <1>3, <1>4, <1>5, <1>6 DEF Steps

\* Which steps move the host's half of it.
LEMMA OstMoves ==
  ASSUME StreamInv, Types', Steps
  PROVE  ost' = ost \/ TakesChunk \/ TakesEnd \/ Completes \/ SeesLoss \/ Serves \/ Quits
<1>1. CASE SourceSteps
  BY <1>1 DEF SourceSteps, GoesOn, Starts, Credited, Yields, Finishes, Rests, Forgets, Ignores,
     SourceOnly
<1>2. CASE GuestSteps
  BY <1>2 DEF GuestSteps, Reads, Waits, Cancels, Drops, Feeds, Answers, Buffers, EndComes,
     GuestOnly, ChunkComes
<1>3. CASE DriveSteps
  BY <1>3 DEF DriveSteps, Flushes, Settles, SaysEnd, PullsChunk, PullsWait, PullsEnd, OwnWaits,
     OwnYields, DriveOnly, GuestOnly, PipeOnly, OwnOnly
<1>4. CASE OutSteps
  BY <1>4 DEF OutSteps, Returns, TakesGrant, CancelLate, CutsOut, Ending, Cuts, GuestOnly, Swept
<1>5. CASE RouteSteps
  BY <1>5 DEF RouteSteps, TakesChunk, TakesEnd, TakesBody, TakesResult, Attaches, Completes,
     SeesLoss, Serves, Turns, Quits, Idles, RouteOnly
<1> QED BY <1>1, <1>2, <1>3, <1>4, <1>5 DEF Steps

\* Which steps move its consumer.
LEMMA ConsMoves ==
  ASSUME StreamInv, Types', Steps
  PROVE  cons' = cons \/ TakesChunk \/ TakesEnd \/ TakesBody \/ Attaches \/ Completes \/ SeesLoss
           \/ Serves \/ Turns \/ Quits
<1>1. CASE SourceSteps
  BY <1>1 DEF SourceSteps, GoesOn, Starts, Credited, Yields, Finishes, Rests, Forgets, Ignores,
     SourceOnly
<1>2. CASE GuestSteps
  BY <1>2 DEF GuestSteps, Reads, Waits, Cancels, Drops, Feeds, Answers, Buffers, EndComes,
     GuestOnly, ChunkComes
<1>3. CASE DriveSteps
  BY <1>3 DEF DriveSteps, Flushes, Settles, SaysEnd, PullsChunk, PullsWait, PullsEnd, OwnWaits,
     OwnYields, DriveOnly, GuestOnly, PipeOnly, OwnOnly
<1>4. CASE OutSteps
  BY <1>4 DEF OutSteps, Returns, TakesGrant, CancelLate, CutsOut, Ending, Cuts, GuestOnly, Swept
<1>5. CASE RouteSteps
  BY <1>5 DEF RouteSteps, TakesChunk, TakesEnd, TakesBody, TakesResult, Attaches, Completes,
     SeesLoss, Serves, Turns, Quits, Idles, RouteOnly
<1> QED BY <1>1, <1>2, <1>3, <1>4, <1>5 DEF Steps

\* A body that is done stays so.
LEMMA DoneStays ==
  ASSUME StreamInv, Types', Steps, out.done
  PROVE  out'.done
<1>1. out \in OutRec /\ (out.on = "no" => ~out.done)
  BY NowTypes DEF StreamInv, NotYet
<1>2. CASE SaysEnd \/ CutsOut
  BY <1>2 DEF SaysEnd, CutsOut, DriveOnly
<1>3. CASE Ending \/ Cuts
  BY <1>1, <1>3 DEF Ending, Cuts, Swept, OutRec
<1> QED BY <1>2, <1>3, DoneMoves

\* What the host's half of the returned body keeps.
LEMMA OstKeeps ==
  ASSUME StreamInv, Types', Steps
  PROVE  /\ ost'.ended = ost.ended \/ TakesEnd
         /\ ost'.cancelled = ost.cancelled \/ Quits
         /\ ost'.failed = ost.failed \/ (SeesLoss /\ conn = "lost")
              \/ (Completes /\ ost.ended = "no" /\ ~ost.cancelled)
         /\ ost'.buf = ost.buf \/ (TakesChunk /\ ~ost.cancelled) \/ Serves \/ Quits
<1>1. ost \in OstRec
  BY NowTypes
<1>2. CASE ost' = ost
  BY <1>2
<1>3. CASE TakesChunk
  BY <1>1, <1>3 DEF TakesChunk, OstRec
<1>4. CASE TakesEnd
  BY <1>1, <1>4 DEF TakesEnd, OstRec
<1>5. CASE Completes
  BY <1>1, <1>5 DEF Completes, Fails, OstRec
<1>6. CASE SeesLoss
  BY <1>1, <1>6 DEF SeesLoss, Fails, OstRec
<1>7. CASE Serves
  BY <1>1, <1>7 DEF Serves, OstRec
<1>8. CASE Quits
  BY <1>1, <1>8 DEF Quits, OstRec
<1> QED BY <1>2, <1>3, <1>4, <1>5, <1>6, <1>7, <1>8, OstMoves

\* Nothing of the body follows its end.
LEMMA EndTaken ==
  ASSUME StreamInv, NEW how, UpLoses(up, up', OutEnd(how))
  PROVE  Has(up, "oend") /\ Said(up, "oend", how) /\ ~Has(up', "ochunk") /\ ~Has(up', "oend")
<1>1. OutEnd(how).t = "oend" /\ OutEnd(how).how = how /\ OutEnd(how) \in ToSet(up)
  BY FramesSay DEF UpLoses
<1>2. \A g \in ToSet(up') : UPair(OutEnd(how), g)
  BY DEF StreamInv, InOrder, UpLoses
<1>3. \A g \in ToSet(up') : g.t # "ochunk" /\ g.t # "oend"
  BY <1>1, <1>2 DEF UPair
<1> QED BY <1>1, <1>3 DEF Has, Said

\* Ends is kept.
LEMMA EndsStep ==
  ASSUME StreamInv, Types', Steps
  PROVE  Ends'
<1>1. Ends /\ ost \in OstRec /\ out \in OutRec
  BY NowTypes DEF StreamInv
<1>2. /\ UpAdds /\ DownAdds /\ (out.done => out'.done)
      /\ ost'.ended = ost.ended \/ TakesEnd
      /\ ost'.cancelled = ost.cancelled \/ Quits
  BY UpKinds, DownKinds, DoneStays, OstKeeps
<1>3. TakesEnd => Has(up, "oend") /\ ~Has(up', "ochunk") /\ ~Has(up', "oend")
        /\ ost'.ended # "no" /\ conn' = conn /\ out' = out
  <2>1. SUFFICES ASSUME TakesEnd PROVE Has(up, "oend") /\ ~Has(up', "ochunk")
                          /\ ~Has(up', "oend") /\ ost'.ended # "no" /\ conn' = conn /\ out' = out
    OBVIOUS
  <2>2. PICK how \in {"ok", "err"} : UpLoses(up, up', OutEnd(how))
                                       /\ ost' = [ost EXCEPT !.ended = how]
    BY <2>1 DEF TakesEnd
  <2>3. conn' = conn /\ out' = out
    BY <2>1 DEF TakesEnd, RouteOnly
  <2>4. ost'.ended = how
    BY <1>1, <2>2 DEF OstRec
  <2> QED BY <2>2, <2>3, <2>4, EndTaken
<1>4. SaysEnd \/ CutsOut \/ (Ending /\ out.on # "no" /\ ~out.done) => out'.done
  BY <1>1 DEF SaysEnd, CutsOut, Ending, Swept, Hush, OutRec
<1>5. Quits => ost'.cancelled
  BY <1>1 DEF Quits, OstRec
<1>6. Has(up', "oend") \/ ost'.ended # "no" => out'.done
  BY <1>1, <1>2, <1>3, <1>4 DEF Ends, UpAdds
<1>7. out'.done /\ conn' = "up" => ost'.cancelled \/ ost'.ended # "no" \/ Has(up', "oend")
  <2>0. SUFFICES ASSUME out'.done, conn' = "up" PROVE ost'.cancelled \/ ost'.ended # "no"
                          \/ Has(up', "oend")
    OBVIOUS
  <2>1. ~Cuts /\ conn = "up"
    BY <2>0, ConnMoves DEF Cuts
  <2>2. CASE out.done
    BY <1>1, <1>2, <1>3, <1>5, <2>1, <2>2 DEF Ends, UpAdds
  <2>3. CASE SaysEnd
    <3>1. PICK how : UpNotes(up, up', {OutEnd(how)})
      BY <2>3 DEF SaysEnd
    <3>2. OutEnd(how).t = "oend" /\ OutEnd(how) \in ToSet(up')
      BY <3>1, FramesSay DEF UpNotes
    <3> QED BY <3>2 DEF Has
  <2>4. CASE CutsOut
    <3>1. CASE DownLoses(down, down', OutCancel)
      <4>1. OutCancel.t = "ocancel" /\ OutCancel \in ToSet(down)
        BY <3>1, FramesSay DEF DownLoses
      <4>2. Has(down, "ocancel")
        BY <4>1 DEF Has
      <4> QED BY <1>1, <1>2, <1>5, <4>2 DEF Ends
    <3>2. CASE ~DownLoses(down, down', OutCancel)
      <4>1. PICK F : UpNotes(up, up', F) /\ OutEnd("err") \in F
        BY <2>4, <3>2 DEF CutsOut
      <4>2. OutEnd("err").t = "oend" /\ OutEnd("err") \in ToSet(up')
        BY <4>1, FramesSay DEF UpNotes
      <4> QED BY <4>2 DEF Has
    <3> QED BY <3>1, <3>2
  <2>5. CASE Ending /\ ~out.done
    <3>1. out.on # "no"
      BY <1>1, <2>0, <2>5 DEF Ending, Swept, OutRec
    <3>2. PICK F : UpNotes(up, up', F) /\ OutEnd("err") \in F
      BY <2>5, <3>1 DEF Ending
    <3>3. OutEnd("err").t = "oend" /\ OutEnd("err") \in ToSet(up')
      BY <3>2, FramesSay DEF UpNotes
    <3> QED BY <3>3 DEF Has
  <2> QED BY <2>0, <2>1, <2>2, <2>3, <2>4, <2>5, DoneMoves
<1>8. Has(down', "ocancel") => ost'.cancelled
  BY <1>1, <1>2, <1>5 DEF Ends, DownAdds
<1>9. ost'.ended # "no" => ~Has(up', "ochunk") /\ ~Has(up', "oend")
  <2>1. CASE TakesEnd
    BY <1>3, <2>1
  <2>2. CASE ost.ended # "no"
    <3>1. out.done /\ ~Has(up, "ochunk") /\ ~Has(up, "oend")
      BY <1>1, <2>2 DEF Ends
    <3>2. ~Flushes /\ ~SaysEnd /\ ~CutsOut
      BY <3>1 DEF Flushes, SaysEnd, CutsOut, DriveOnly
    <3> QED BY <1>2, <3>1, <3>2 DEF UpAdds
  <2> QED BY <1>2, <2>1, <2>2
<1>10. conn' = "up" => ~ost'.failed
  <2>0. SUFFICES ASSUME conn' = "up" PROVE ~ost'.failed
    OBVIOUS
  <2>1. conn = "up" /\ ~ost.failed
    BY <1>1, <2>0, ConnMoves DEF Cuts, Ends
  <2>2. CASE Completes /\ ost.ended = "no" /\ ~ost.cancelled
    <3>1. UpLoses(up, up', Complete) /\ Complete.t = "complete"
      BY <2>2, FramesSay DEF Completes
    <3>2. Has(up, "complete") /\ ToSet(up) = ToSet(up') \cup {Complete}
      BY <3>1 DEF UpLoses, Has
    <3>3. up' = <<>> /\ run.phase = "over"
      BY <2>2, LastSteps
    <3>4. out.on # "no" /\ out.done = (out.on # "no")
      BY <3>2, <3>3 DEF StreamInv, Phases, Talk, Over
    <3>5. Has(up, "oend")
      BY <1>1, <2>1, <2>2, <3>4 DEF Ends
    <3>6. ToSet(up') = {}
      BY <3>3 DEF ToSet
    <3> QED BY <3>1, <3>2, <3>5, <3>6 DEF Has
  <2> QED BY <2>1, <2>2, OstKeeps
<1> QED BY <1>6, <1>7, <1>8, <1>9, <1>10 DEF Ends

\* Closed is kept.
LEMMA ClosedStep ==
  ASSUME StreamInv, Types', Steps
  PROVE  Closed'
<1>1. Closed /\ Ends /\ ost \in OstRec /\ cons \in ConsIn
  BY NowTypes DEF StreamInv
<1>2. /\ ost'.ended = ost.ended \/ TakesEnd
      /\ ost'.cancelled = ost.cancelled \/ Quits
      /\ ost'.buf = ost.buf \/ (TakesChunk /\ ~ost.cancelled) \/ Serves \/ Quits
  BY OstKeeps
<1>3. TakesChunk => Has(up, "ochunk")
  <2>1. SUFFICES ASSUME NEW d, UpLoses(up, up', OutChunk(d)) PROVE Has(up, "ochunk")
    BY DEF TakesChunk
  <2>2. OutChunk(d).t = "ochunk" /\ OutChunk(d) \in ToSet(up)
    BY <2>1, FramesSay DEF UpLoses
  <2> QED BY <2>2 DEF Has
<1>4. TakesEnd => Has(up, "oend")
  BY EndTaken DEF TakesEnd
<1>5. cons' = "closed" => cons = "closed" \/ (Turns /\ ost.ended = "ok" /\ ost.buf = <<>>)
  BY ConsMoves DEF TakesChunk, TakesEnd, TakesBody, Attaches, Completes, SeesLoss, Serves, Turns,
     Quits, Woken, Fails
<1>6. cons' = "closed" => ~Quits /\ ~Serves
  BY DEF Quits, Serves
<1>7. cons = "cancelled" => cons' = "cancelled" \/ (TakesBody /\ entry = "run" /\ cons = "none")
  <2>1. TakesBody => entry = "run" /\ cons = "none"
    <3>1. Body(up) => Has(up, "result")
      BY DEF Body, Has
    <3> QED BY <3>1, BodyTaken DEF StreamInv, Phases, Talk, Gone
  <2> QED BY <2>1, ConsMoves DEF TakesChunk, TakesEnd, Attaches, Completes, SeesLoss, Serves,
        Turns, Quits, Woken, Fails
<1>8. ost.cancelled => cons' = "cancelled"
  BY <1>1, <1>7 DEF Closed
<1>9. Turns => cons # "cancelled"
  BY DEF Turns
<1>10. cons' = "closed" => ost'.ended = "ok" /\ ~ost'.cancelled /\ ost'.buf = <<>>
  <2>1. SUFFICES ASSUME cons' = "closed" PROVE ost'.ended = "ok" /\ ~ost'.cancelled
                          /\ ost'.buf = <<>>
    OBVIOUS
  <2>2. ost.ended = "ok" /\ ~ost.cancelled /\ ost.buf = <<>>
    BY <1>1, <1>5, <1>8, <2>1 DEF Closed
  <2>3. ~TakesEnd /\ ~TakesChunk
    BY <1>1, <1>3, <1>4, <2>2 DEF Ends
  <2> QED BY <1>2, <1>6, <2>1, <2>2, <2>3
<1>11. ost'.cancelled => cons' = "cancelled"
  BY <1>2, <1>8 DEF Quits
<1> QED BY <1>10, <1>11 DEF Closed

-----------------------------------------------------------------------------
(* What each step does to the bytes and the credit in the queues. *)

\* The bytes on their way to the host.
UB == BytesIn(up, "ochunk")

\* The credit on its way to the host.
UC == CreditIn(up, "pull")

\* The bytes on their way to the run.
DB == BytesIn(down, "chunk")

\* The credit on its way to the run.
DC == CreditIn(down, "opull")

\* They are typed, and so are the bytes of the buffers.
LEMMA AmountsAre ==
  ASSUME Types
  PROVE  UB \in Piece /\ UC \in Nat /\ DB \in Piece /\ DC \in Nat /\ Len(UB) \in Nat
           /\ Len(DB) \in Nat
         /\ Bytes(gin.buf) \in Piece /\ Bytes(ost.buf) \in Piece /\ Bytes(src.prefix) \in Piece
         /\ Len(Bytes(gin.buf)) \in Nat /\ Len(Bytes(ost.buf)) \in Nat
  BY Amounts DEF UB, UC, DB, DC

\* The same of any queue.
LEMMA QueuesHold ==
  /\ \A q \in Seq(UpFrame) : BytesIn(q, "ochunk") \in Piece /\ CreditIn(q, "pull") \in Nat
  /\ \A q \in Seq(DownFrame) : BytesIn(q, "chunk") \in Piece /\ CreditIn(q, "opull") \in Nat
<1>1. CancelFrame \in UpFrame /\ OutCancel \in DownFrame
  BY FramesNew
<1> QED BY <1>1, UpOne, DownOne

\* The same after the step.
LEMMA AmountsNext ==
  ASSUME Types'
  PROVE  /\ UB' \in Piece /\ UC' \in Nat /\ DB' \in Piece /\ DC' \in Nat /\ Len(UB') \in Nat
         /\ Len(DB') \in Nat
         /\ Bytes(gin'.buf) \in Piece /\ Bytes(ost'.buf) \in Piece /\ Bytes(src'.prefix) \in Piece
         /\ Len(Bytes(gin'.buf)) \in Nat /\ Len(Bytes(ost'.buf)) \in Nat
<1>1. up' \in Seq(UpFrame) /\ down' \in Seq(DownFrame)
  BY DEF Types
<1>2. UB' \in Piece /\ UC' \in Nat /\ DB' \in Piece /\ DC' \in Nat
  BY <1>1, QueuesHold DEF UB, UC, DB, DC
<1>3. gin'.buf \in Seq(Piece) /\ ost'.buf \in Seq(Piece) /\ src'.prefix \in Seq(Piece)
  BY DEF Types, GinRec, OstRec, SrcRec
<1>4. \A w \in Seq(Piece) : Bytes(w) \in Piece
  BY NoBytes, BytesAppend
<1>5. \A x \in Piece : Len(x) \in Nat
  BY DEF Piece
<1> QED BY <1>2, <1>3, <1>4, <1>5

\* Credit sent to the host.
LEMMA PullSent ==
  ASSUME NEW n, UpGets(up, up', Pull(n))
  PROVE  UB' = UB /\ UC' = UC + n
  BY FramesSay DEF UpGets, UB, UC

\* Bytes sent to the host.
LEMMA ChunkSent ==
  ASSUME Types, NEW d, UpGets(up, up', OutChunk(d))
  PROVE  UB' = UB \o d /\ UC' = UC
<1>1. OutChunk(d).t = "ochunk" /\ OutChunk(d).d = d /\ UC \in Nat
  BY FramesSay, AmountsAre
<1>2. UB' = UB \o d
  BY <1>1 DEF UpGets, UB
<1>3. UC' = UC + 0
  BY <1>1 DEF UpGets, UC
<1> QED BY <1>1, <1>2, <1>3

\* Credit taken by the host.
LEMMA PullTaken ==
  ASSUME NEW n, UpLoses(up, up', Pull(n))
  PROVE  UB' = UB /\ UC = UC' + n
<1>1. Pull(n).t = "pull" /\ Pull(n).n = n
  BY FramesSay
<1> QED BY <1>1 DEF UpLoses, UB, UC

\* Bytes taken by the host.
LEMMA OutChunkTaken ==
  ASSUME Types', NEW d, UpLoses(up, up', OutChunk(d))
  PROVE  UB = d \o UB' /\ UC' = UC
<1>1. OutChunk(d).t = "ochunk" /\ OutChunk(d).d = d /\ UC' \in Nat
  BY AmountsNext, FramesSay
<1>2. UB = d \o UB'
  BY <1>1 DEF UpLoses, UB
<1>3. PICK m \in Nat : m = UC'
  BY <1>1
<1>4. UC = m + 0
  BY <1>1, <1>3 DEF UpLoses, UC
<1>5. UC = m
  BY <1>4
<1> QED BY <1>2, <1>3, <1>5, Zenon

\* Another frame taken by the host.
LEMMA OtherTaken ==
  ASSUME Types', NEW f, UpLoses(up, up', f), f.t \notin {"ochunk", "pull"}
  PROVE  UB' = UB /\ UC' = UC
<1>1. UC' \in Nat
  BY AmountsNext
<1>2. PICK m \in Nat : m = UC'
  BY <1>1
<1>3. UB = UB' /\ UC = m + 0
  BY <1>2 DEF UpLoses, UB, UC
<1>4. UC = m
  BY <1>3
<1> QED BY <1>2, <1>3, <1>4, Zenon

\* Frames that carry nothing.
LEMMA Noted ==
  ASSUME NEW F, UpNotes(up, up', F)
  PROVE  UB' = UB /\ UC' = UC
  BY DEF UpNotes, UB, UC

\* Bytes sent to the run.
LEMMA ChunkSaid ==
  ASSUME Types, NEW d, HostSaid(Chunk(d))
  PROVE  DB' = (IF run.phase = "over" THEN DB ELSE DB \o d) /\ DC' = DC
<1>1. Chunk(d).t = "chunk" /\ Chunk(d).d = d /\ DC \in Nat
  BY FramesSay, AmountsAre
<1>2. CASE run.phase = "over"
  BY <1>2 DEF HostSaid, DB, DC
<1>3. CASE run.phase # "over"
  <2>1. DB' = DB \o d /\ DC' = DC + 0
    BY <1>1, <1>3 DEF HostSaid, DownGets, DB, DC
  <2> QED BY <1>1, <1>3, <2>1
<1> QED BY <1>2, <1>3

\* Another frame sent to the run.
LEMMA OtherSaid ==
  ASSUME Types, NEW f, HostSaid(f), f.t \notin {"chunk", "opull"}
  PROVE  DB' = DB /\ DC' = DC
<1>1. DC \in Nat
  BY AmountsAre
<1>2. CASE run.phase = "over"
  BY <1>2 DEF HostSaid, DB, DC
<1>3. CASE run.phase # "over"
  <2>1. DB' = DB /\ DC' = DC + 0
    BY <1>3 DEF HostSaid, DownGets, DB, DC
  <2> QED BY <1>1, <2>1
<1> QED BY <1>2, <1>3

\* Credit sent to the run.
LEMMA OutPullSaid ==
  ASSUME NEW n, HostSaid(OutPull(n))
  PROVE  DB' = DB /\ DC' = (IF run.phase = "over" THEN DC ELSE DC + n)
<1>1. OutPull(n).t = "opull" /\ OutPull(n).n = n
  BY FramesSay
<1> QED BY <1>1 DEF HostSaid, DownGets, DB, DC

\* Bytes taken by the run.
LEMMA ChunkGone ==
  ASSUME Types', NEW d, DownLoses(down, down', Chunk(d))
  PROVE  DB = d \o DB' /\ DC' = DC
<1>1. Chunk(d).t = "chunk" /\ Chunk(d).d = d /\ DC' \in Nat
  BY FramesSay, AmountsNext
<1>2. PICK m \in Nat : m = DC'
  BY <1>1
<1>3. DB = d \o DB' /\ DC = m + 0
  BY <1>1, <1>2 DEF DownLoses, DB, DC
<1>4. DC = m
  BY <1>3
<1> QED BY <1>2, <1>3, <1>4, Zenon

\* Credit taken by the run.
LEMMA OutPullGone ==
  ASSUME NEW n, DownLoses(down, down', OutPull(n))
  PROVE  DB' = DB /\ DC = DC' + n
<1>1. OutPull(n).t = "opull" /\ OutPull(n).n = n
  BY FramesSay
<1> QED BY <1>1 DEF DownLoses, DB, DC

\* Another frame taken by the run.
LEMMA OtherGone ==
  ASSUME Types', NEW f, DownLoses(down, down', f), f.t \notin {"chunk", "opull"}
  PROVE  DB' = DB /\ DC' = DC
<1>1. DC' \in Nat
  BY AmountsNext
<1>2. PICK m \in Nat : m = DC'
  BY <1>1
<1>3. DB = DB' /\ DC = m + 0
  BY <1>2 DEF DownLoses, DB, DC
<1>4. DC = m
  BY <1>3
<1> QED BY <1>2, <1>3, <1>4, Zenon

\* Which steps move the bytes and the credit to the host.
LEMMA UpAmounts ==
  ASSUME StreamInv, Types', Steps
  PROVE  (UB' = UB \/ Flushes \/ TakesChunk \/ Cuts)
           /\ (UC' = UC \/ Credited \/ Ignores \/ Reads \/ Feeds \/ Answers \/ PullsChunk \/ Cuts)
<1>1. Types
  BY DEF StreamInv
<1>2. CASE UNCHANGED <<up>>
  BY <1>2 DEF UB, UC
<1>3. CASE Flushes
  BY <1>1, <1>3, ChunkSent DEF Flushes
<1>4. CASE TakesChunk
  BY <1>4, OutChunkTaken DEF TakesChunk
<1>5. CASE Cuts
  BY <1>5
<1>6. CASE Credited
  BY <1>6, PullTaken DEF Credited
<1>7. CASE Ignores
  BY <1>7, PullTaken DEF Ignores
<1>8. CASE Reads
  BY <1>8, PullSent DEF Reads
<1>9. CASE Feeds
  BY <1>9, PullSent DEF Feeds
<1>10. CASE Answers
  BY <1>10, PullSent DEF Answers
<1>11. CASE PullsChunk
  BY <1>11, PullSent DEF PullsChunk
<1>12. CASE Cancels
  BY <1>12, Noted DEF Cancels
<1>13. CASE SaysEnd
  BY <1>13, Noted DEF SaysEnd
<1>14. CASE Returns
  BY <1>14, Noted DEF Returns
<1>15. CASE CutsOut
  BY <1>15, Noted DEF CutsOut
<1>16. CASE Ending
  BY <1>16, Noted DEF Ending
<1>17. CASE Forgets
  <2>1. CancelFrame.t \notin {"ochunk", "pull"}
    BY FramesSay
  <2> QED BY <1>17, <2>1, OtherTaken DEF Forgets
<1>18. CASE TakesBody
  <2>1. Result(TRUE).t \notin {"ochunk", "pull"}
    BY FramesSay
  <2> QED BY <1>18, <2>1, OtherTaken DEF TakesBody
<1>19. CASE TakesResult
  <2>1. Result(FALSE).t \notin {"ochunk", "pull"}
    BY FramesSay
  <2> QED BY <1>19, <2>1, OtherTaken DEF TakesResult
<1>20. CASE Completes
  <2>1. Complete.t \notin {"ochunk", "pull"}
    BY FramesSay
  <2> QED BY <1>20, <2>1, OtherTaken DEF Completes
<1>21. CASE TakesEnd
  <2>1. PICK h : UpLoses(up, up', OutEnd(h))
    BY <1>21 DEF TakesEnd
  <2>2. OutEnd(h).t \notin {"ochunk", "pull"}
    BY FramesSay
  <2> QED BY <2>1, <2>2, OtherTaken
<1>22. CASE SourceSteps
  BY <1>22, <1>2, <1>6, <1>17, <1>7 DEF SourceSteps, GoesOn, Starts, Yields, Finishes, Rests,
     SourceOnly
<1>23. CASE GuestSteps
  BY <1>23, <1>2, <1>8, <1>12, <1>9, <1>10 DEF GuestSteps, Waits, Drops, Buffers, EndComes,
     GuestOnly, ChunkComes
<1>24. CASE DriveSteps
  BY <1>24, <1>2, <1>3, <1>13, <1>11 DEF DriveSteps, Settles, PullsWait, PullsEnd, OwnWaits,
     OwnYields, DriveOnly, GuestOnly, PipeOnly, OwnOnly
<1>25. CASE OutSteps
  BY <1>25, <1>2, <1>14, <1>15, <1>16, <1>5 DEF OutSteps, TakesGrant, CancelLate, GuestOnly
<1>26. CASE RouteSteps
  BY <1>26, <1>2, <1>4, <1>21, <1>18, <1>19, <1>20 DEF RouteSteps, Attaches, SeesLoss, Serves,
     Turns, Quits, Idles, RouteOnly
<1> QED BY <1>22, <1>23, <1>24, <1>25, <1>26 DEF Steps

\* The pump sends no credit.
LEMMA PumpAmounts ==
  ASSUME Types, NEW s, Pumps(s) \/ Sends(s) \/ Stays(s)
  PROVE  DC' = DC
<1>1. CASE down' = down
  BY <1>1 DEF DC
<1>2. CASE Sends(s)
  BY <1>2, ChunkSaid DEF Sends
<1> QED BY <1>1, <1>2 DEF Pumps, Stays, Stops, Fetches

\* Which steps move the bytes and the credit to the run.
LEMMA DownAmounts ==
  ASSUME StreamInv, Types', Steps
  PROVE  (DB' = DB \/ GoesOn \/ Starts \/ Credited \/ Yields \/ Drops \/ Feeds \/ Answers \/ Buffers \/ Ending \/ Cuts) /\ (DC' = DC \/ Serves \/ TakesGrant \/ Ending \/ Cuts)
<1>1. Types
  BY DEF StreamInv
<1>2. CASE UNCHANGED <<down>>
  BY <1>2 DEF DB, DC
<1>3. CASE GoesOn
  BY <1>1, <1>3, PumpAmounts DEF GoesOn
<1>4. CASE Starts
  BY <1>1, <1>4, PumpAmounts DEF Starts
<1>5. CASE Credited
  BY <1>1, <1>5, PumpAmounts DEF Credited
<1>6. CASE Yields
  BY <1>1, <1>6, PumpAmounts DEF Yields
<1>7. CASE Drops
  BY <1>7, ChunkGone DEF Drops, ChunkComes
<1>8. CASE Feeds
  BY <1>8, ChunkGone DEF Feeds, ChunkComes
<1>9. CASE Answers
  BY <1>9, ChunkGone DEF Answers, ChunkComes
<1>10. CASE Buffers
  BY <1>10, ChunkGone DEF Buffers, ChunkComes
<1>11. CASE Finishes
  <2>1. PICK h : HostSaid(End(h))
    BY <1>11 DEF Finishes
  <2>2. End(h).t \notin {"chunk", "opull"}
    BY FramesSay
  <2> QED BY <1>1, <2>1, <2>2, OtherSaid
<1>12. CASE EndComes
  <2>1. PICK h : DownLoses(down, down', End(h))
    BY <1>12 DEF EndComes
  <2>2. End(h).t \notin {"chunk", "opull"}
    BY FramesSay
  <2> QED BY <2>1, <2>2, OtherGone
<1>13. CASE CancelLate
  <2>1. OutCancel.t \notin {"chunk", "opull"}
    BY FramesSay
  <2> QED BY <1>13, <2>1, OtherGone DEF CancelLate, DB, DC
<1>14. CASE CutsOut
  <2>1. OutCancel.t \notin {"chunk", "opull"}
    BY FramesSay
  <2> QED BY <1>14, <2>1, OtherGone DEF CutsOut, DB, DC
<1>15. CASE TakesGrant
  BY <1>15, OutPullGone DEF TakesGrant
<1>16. CASE Ending
  BY <1>16
<1>17. CASE Cuts
  BY <1>17
<1>18. CASE Serves
  BY <1>18, OutPullSaid DEF Serves
<1>19. CASE Quits
  <2>1. OutCancel.t \notin {"chunk", "opull"}
    BY FramesSay
  <2>2. CASE down' = down
    BY <2>2 DEF DB, DC
  <2>3. CASE HostSaid(OutCancel)
    BY <1>1, <2>1, <2>3, OtherSaid
  <2> QED BY <1>19, <2>2, <2>3 DEF Quits
<1>20. CASE SourceSteps
  BY <1>20, <1>2, <1>3, <1>4, <1>5, <1>6, <1>11 DEF SourceSteps, Rests, Forgets, Ignores,
     SourceOnly
<1>21. CASE GuestSteps
  BY <1>21, <1>2, <1>7, <1>8, <1>9, <1>10, <1>12 DEF GuestSteps, Reads, Waits, Cancels, GuestOnly
<1>22. CASE DriveSteps
  BY <1>22, <1>2 DEF DriveSteps, Flushes, Settles, SaysEnd, PullsChunk, PullsWait, PullsEnd,
     OwnWaits, OwnYields, DriveOnly, GuestOnly, PipeOnly, OwnOnly
<1>23. CASE OutSteps
  BY <1>23, <1>2, <1>15, <1>13, <1>14, <1>16, <1>17 DEF OutSteps, Returns
<1>24. CASE RouteSteps
  BY <1>24, <1>2, <1>18, <1>19 DEF RouteSteps, TakesChunk, TakesEnd, TakesBody, TakesResult,
     Attaches, Completes, SeesLoss, Turns, Idles, RouteOnly
<1> QED BY <1>20, <1>21, <1>22, <1>23, <1>24 DEF Steps

-----------------------------------------------------------------------------
(* Sizes and Eof. *)

\* No bytes are short.
LEMMA ShortNone == Short(<<>>)
<1>1. Len(<<>>) = 0 /\ MaxChunk \in Nat
  BY StreamsAssumption
<1> QED BY <1>1 DEF Short

\* A buffered chunk is short.
LEMMA HeadsShort ==
  ASSUME StreamInv, gin.buf # <<>>
  PROVE  Short(Head(gin.buf)) /\ \A d \in ToSet(Tail(gin.buf)) : Short(d)
<1>1. gin.buf \in Seq(Piece) /\ \A d \in ToSet(gin.buf) : Short(d)
  BY NowTypes DEF GinRec, StreamInv, Sizes
<1>2. ToSet(gin.buf) = ToSet(Tail(gin.buf)) \cup {Head(gin.buf)}
  BY <1>1, TailSet
<1> QED BY <1>1, <1>2

\* A chunk that is delivered is short.
LEMMA ComesShort ==
  ASSUME StreamInv, NEW d, ChunkComes(d)
  PROVE  Short(d) /\ Has(down, "chunk")
<1>1. Chunk(d).t = "chunk" /\ Chunk(d).d = d /\ Chunk(d) \in ToSet(down)
  BY FramesSay DEF ChunkComes, DownLoses
<1>2. Short(Chunk(d).d)
  BY <1>1 DEF StreamInv, Sizes
<1>3. Has(down, "chunk")
  BY <1>1 DEF Has
<1> QED BY <1>1, <1>2, <1>3

\* The chunks on their way are short.
DownShort == \A f \in ToSet(down) : f.t = "chunk" => Short(f.d)

\* A short chunk more keeps them short.
LEMMA SaidShort ==
  ASSUME DownShort, NEW f, HostSaid(f), f.t = "chunk" => Short(f.d)
  PROVE  DownShort'
<1>1. CASE down' = down
  BY <1>1 DEF DownShort
<1>2. CASE DownGets(down, down', f)
  BY <1>2 DEF DownShort, DownGets
<1> QED BY <1>1, <1>2 DEF HostSaid

\* The pump keeps them short.
LEMMA PumpShort ==
  ASSUME DownShort, NEW s, Pumps(s) \/ Sends(s) \/ Stays(s)
  PROVE  DownShort'
<1>1. CASE down' = down
  BY <1>1 DEF DownShort
<1>2. CASE Sends(s)
  <2>1. PICK d : HostSaid(Chunk(d)) /\ Len(d) <= MaxChunk
    BY <1>2 DEF Sends
  <2>2. Chunk(d).d = d
    BY FramesSay
  <2> QED BY <2>1, <2>2, SaidShort DEF Short
<1> QED BY <1>1, <1>2 DEF Pumps, Stays, Stops, Fetches

\* A chunk less keeps them short.
LEMMA LostShort ==
  ASSUME DownShort, NEW f, DownLoses(down, down', f)
  PROVE  DownShort'
  BY DEF DownShort, DownLoses

\* DownShort is kept.
LEMMA DownShortStep ==
  ASSUME StreamInv, Types', Steps
  PROVE  DownShort'
<1>1. DownShort
  BY DEF StreamInv, Sizes, DownShort
<1>2. CASE UNCHANGED <<down>>
  BY <1>1, <1>2 DEF DownShort
<1>3. CASE GoesOn
  BY <1>1, <1>3, PumpShort DEF GoesOn
<1>4. CASE Starts
  BY <1>1, <1>4, PumpShort DEF Starts
<1>5. CASE Credited
  BY <1>1, <1>5, PumpShort DEF Credited
<1>6. CASE Yields
  BY <1>1, <1>6, PumpShort DEF Yields
<1>7. CASE Drops
  BY <1>1, <1>7, LostShort DEF Drops, ChunkComes
<1>8. CASE Feeds
  BY <1>1, <1>8, LostShort DEF Feeds, ChunkComes
<1>9. CASE Answers
  BY <1>1, <1>9, LostShort DEF Answers, ChunkComes
<1>10. CASE Buffers
  BY <1>1, <1>10, LostShort DEF Buffers, ChunkComes
<1>11. CASE Finishes
  <2>1. PICK h : HostSaid(End(h))
    BY <1>11 DEF Finishes
  <2>2. End(h).t # "chunk"
    BY FramesSay
  <2> QED BY <1>1, <2>1, <2>2, SaidShort
<1>12. CASE EndComes
  BY <1>1, <1>12, LostShort DEF EndComes
<1>13. CASE TakesGrant
  BY <1>1, <1>13, LostShort DEF TakesGrant
<1>14. CASE CancelLate
  BY <1>1, <1>14, LostShort DEF CancelLate
<1>15. CASE CutsOut
  <2>1. CASE down' = down
    BY <1>1, <2>1 DEF DownShort
  <2> QED BY <1>1, <1>15, <2>1, LostShort DEF CutsOut
<1>16. CASE Ending
  <2>1. down' = <<>>
    BY <1>16 DEF Ending, Swept
  <2> QED BY <2>1 DEF DownShort, ToSet
<1>17. CASE Cuts
  <2>1. down' = <<>>
    BY <1>17 DEF Cuts, Swept
  <2> QED BY <2>1 DEF DownShort, ToSet
<1>18. CASE Serves
  <2>1. PICK n : HostSaid(OutPull(n))
    BY <1>18 DEF Serves
  <2>2. OutPull(n).t # "chunk"
    BY FramesSay
  <2> QED BY <1>1, <2>1, <2>2, SaidShort
<1>19. CASE Quits
  <2>1. OutCancel.t # "chunk"
    BY FramesSay
  <2>2. CASE down' = down
    BY <1>1, <2>2 DEF DownShort
  <2> QED BY <1>1, <1>19, <2>1, <2>2, SaidShort DEF Quits
<1>20. CASE SourceSteps
  BY <1>20, <1>2, <1>3, <1>4, <1>5, <1>6, <1>11 DEF SourceSteps, Rests, Forgets, Ignores,
     SourceOnly
<1>21. CASE GuestSteps
  BY <1>21, <1>2, <1>7, <1>8, <1>9, <1>10, <1>12 DEF GuestSteps, Reads, Waits, Cancels, GuestOnly
<1>22. CASE DriveSteps
  BY <1>22, <1>2 DEF DriveSteps, Flushes, Settles, SaysEnd, PullsChunk, PullsWait, PullsEnd,
     OwnWaits, OwnYields, DriveOnly, GuestOnly, PipeOnly, OwnOnly
<1>23. CASE OutSteps
  BY <1>23, <1>2, <1>13, <1>14, <1>15, <1>16, <1>17 DEF OutSteps, Returns
<1>24. CASE RouteSteps
  BY <1>24, <1>2, <1>18, <1>19 DEF RouteSteps, TakesChunk, TakesEnd, TakesBody, TakesResult,
     Attaches, Completes, SeesLoss, Turns, Idles, RouteOnly
<1> QED BY <1>20, <1>21, <1>22, <1>23, <1>24 DEF Steps

\* The buffered chunks are short.
BufShort == \A d \in ToSet(gin.buf) : Short(d)

\* BufShort is kept.
LEMMA BufShortStep ==
  ASSUME StreamInv, Types', Steps
  PROVE  BufShort'
<1>1. BufShort
  BY DEF StreamInv, Sizes, BufShort
<1>2. gin \in GinRec
  BY NowTypes
<1>3. CASE UNCHANGED <<gin>>
  BY <1>1, <1>3 DEF BufShort
<1>4. CASE Waits
  <2>1. gin'.buf = gin.buf
    BY <1>2, <1>4 DEF Waits, GinRec
  <2> QED BY <1>1, <2>1 DEF BufShort
<1>5. CASE PullsWait
  <2>1. gin'.buf = gin.buf
    BY <1>2, <1>5 DEF PullsWait, GinRec
  <2> QED BY <1>1, <2>1 DEF BufShort
<1>6. CASE Feeds
  <2>1. gin'.buf = gin.buf
    BY <1>2, <1>6 DEF Feeds, GinRec
  <2> QED BY <1>1, <2>1 DEF BufShort
<1>7. CASE Answers
  <2>1. gin'.buf = gin.buf
    BY <1>2, <1>7 DEF Answers, GinRec
  <2> QED BY <1>1, <2>1 DEF BufShort
<1>8. CASE EndComes
  <2>1. gin'.buf = gin.buf
    BY <1>2, <1>8 DEF EndComes, GinRec
  <2> QED BY <1>1, <2>1 DEF BufShort
<1>9. CASE Reads
  <2>1. gin'.buf = Tail(gin.buf) /\ gin.buf # <<>>
    BY <1>2, <1>9 DEF Reads, GinRec
  <2> QED BY <2>1, HeadsShort DEF BufShort
<1>10. CASE PullsChunk
  <2>1. gin'.buf = Tail(gin.buf) /\ gin.buf # <<>>
    BY <1>2, <1>10 DEF PullsChunk, GinRec
  <2> QED BY <2>1, HeadsShort DEF BufShort
<1>11. CASE Buffers
  <2>1. PICK d : ChunkComes(d) /\ gin' = [gin EXCEPT !.buf = Append(@, d)]
    BY <1>11 DEF Buffers
  <2>2. d \in Piece /\ Short(d) /\ gin.buf \in Seq(Piece)
    BY <1>2, <2>1, ComesShort DEF ChunkComes, GinRec
  <2>3. gin'.buf = Append(gin.buf, d)
    BY <1>2, <2>1 DEF GinRec
  <2>4. ToSet(gin'.buf) = ToSet(gin.buf) \cup {d}
    BY <2>2, <2>3, AppendDistinct
  <2> QED BY <1>1, <2>2, <2>4 DEF BufShort
<1>12. CASE Ending
  <2>1. gin'.buf = <<>>
    BY <1>2, <1>12 DEF Ending, Swept, GinRec
  <2> QED BY <2>1 DEF BufShort, ToSet
<1>13. CASE Cuts
  <2>1. gin'.buf = <<>>
    BY <1>2, <1>13 DEF Cuts, Swept, GinRec
  <2> QED BY <2>1 DEF BufShort, ToSet
<1>14. CASE Cancels
  <2>1. CASE gin' = gin
    BY <1>1, <2>1 DEF BufShort
  <2>2. CASE gin' = Cut
    <3>1. gin'.buf = <<>>
      BY <1>2, <2>2 DEF Cut, GinRec
    <3> QED BY <3>1 DEF BufShort, ToSet
  <2> QED BY <1>14, <2>1, <2>2 DEF Cancels
<1>15. CASE CutsOut
  <2>1. CASE gin' = gin
    BY <1>1, <2>1 DEF BufShort
  <2>2. CASE gin' = Cut
    <3>1. gin'.buf = <<>>
      BY <1>2, <2>2 DEF Cut, GinRec
    <3> QED BY <3>1 DEF BufShort, ToSet
  <2> QED BY <1>15, <2>1, <2>2 DEF CutsOut
<1>16. CASE SourceSteps
  BY <1>16, <1>3 DEF SourceSteps, GoesOn, Starts, Credited, Yields, Finishes, Rests, Forgets,
     Ignores, SourceOnly
<1>17. CASE GuestSteps
  BY <1>17, <1>3, <1>9, <1>4, <1>14, <1>6, <1>7, <1>11, <1>8 DEF GuestSteps, Drops, ChunkComes,
     GuestOnly
<1>18. CASE DriveSteps
  BY <1>18, <1>3, <1>10, <1>5 DEF DriveSteps, Flushes, Settles, SaysEnd, PullsEnd, OwnWaits,
     OwnYields, DriveOnly, GuestOnly, PipeOnly, OwnOnly
<1>19. CASE OutSteps
  BY <1>19, <1>3, <1>15, <1>12, <1>13 DEF OutSteps, Returns, TakesGrant, CancelLate, GuestOnly
<1>20. CASE RouteSteps
  BY <1>20, <1>3 DEF RouteSteps, TakesChunk, TakesEnd, TakesBody, TakesResult, Attaches,
     Completes, SeesLoss, Serves, Turns, Quits, Idles, RouteOnly
<1> QED BY <1>16, <1>17, <1>18, <1>19, <1>20 DEF Steps

\* What a pipe holds is short.
OutShort == out.on = "pipe" => Short(out.data) /\ Short(out.backlog)

\* OutShort is kept.
LEMMA OutShortStep ==
  ASSUME StreamInv, Types', Steps
  PROVE  OutShort'
<1>1. OutShort
  BY DEF StreamInv, Sizes, OutShort
<1>2. out \in OutRec
  BY NowTypes
<1>3. Short(<<>>)
  BY ShortNone
<1>4. CASE UNCHANGED <<out>>
  BY <1>1, <1>4 DEF OutShort
<1>5. CASE Settles
  BY <1>1, <1>2, <1>3, <1>5 DEF Settles, OutShort, OutRec, DriveOnly, GuestOnly
<1>6. CASE SaysEnd
  BY <1>1, <1>2, <1>3, <1>6 DEF SaysEnd, OutShort, OutRec, DriveOnly, GuestOnly
<1>7. CASE PullsWait
  BY <1>1, <1>2, <1>3, <1>7 DEF PullsWait, OutShort, OutRec, PipeOnly, DriveOnly, GuestOnly
<1>8. CASE PullsEnd
  BY <1>1, <1>2, <1>3, <1>8 DEF PullsEnd, OutShort, OutRec, PipeOnly, DriveOnly, GuestOnly
<1>9. CASE OwnWaits
  BY <1>1, <1>2, <1>3, <1>9 DEF OwnWaits, OutShort, OutRec, OwnOnly, DriveOnly, GuestOnly
<1>10. CASE OwnYields
  BY <1>1, <1>2, <1>3, <1>10 DEF OwnYields, OutShort, OutRec, OwnOnly, DriveOnly, GuestOnly
<1>11. CASE TakesGrant
  BY <1>1, <1>2, <1>3, <1>11 DEF TakesGrant, OutShort, OutRec, GuestOnly
<1>12. CASE EndComes
  BY <1>1, <1>2, <1>3, <1>12 DEF EndComes, OutShort, OutRec, GuestOnly
<1>13. CASE Ending
  BY <1>1, <1>2, <1>3, <1>13 DEF Ending, OutShort, OutRec, Swept
<1>14. CASE Cuts
  BY <1>1, <1>2, <1>3, <1>14 DEF Cuts, OutShort, OutRec, Swept
<1>15. CASE CutsOut
  BY <1>1, <1>2, <1>3, <1>15 DEF CutsOut, OutShort, OutRec, GuestOnly, Hush
<1>16. CASE Feeds
  <2>1. PICK d : ChunkComes(d) /\ out' = [out EXCEPT !.pull = "chunk", !.data = d]
    BY <1>16 DEF Feeds
  <2>2. Short(d)
    BY <2>1, ComesShort
  <2> QED BY <1>1, <1>2, <2>1, <2>2 DEF OutShort, OutRec
<1>17. CASE PullsChunk
  <2>1. gin.buf # <<>> /\ out' = [out EXCEPT !.pull = "chunk", !.data = Head(gin.buf)]
    BY <1>17 DEF PullsChunk
  <2>2. Short(Head(gin.buf))
    BY <2>1, HeadsShort
  <2> QED BY <1>1, <1>2, <2>1, <2>2 DEF OutShort, OutRec
<1>18. CASE Flushes
  <2>1. PICK d, r \in Piece : out.backlog = d \o r
                                /\ out' = [out EXCEPT !.backlog = r, !.credit = @ - Len(d)]
    BY <1>18 DEF Flushes
  <2>2. Len(out.backlog) = Len(d) + Len(r) /\ Len(d) \in Nat /\ Len(r) \in Nat
    BY <2>1, PieceBoth
  <2>3. out'.backlog = r /\ out'.data = out.data /\ out'.on = out.on
    BY <1>2, <2>1 DEF OutRec
  <2>4. Short(out.backlog) => Short(r)
    BY <2>2, StreamsAssumption DEF Short
  <2> QED BY <1>1, <2>3, <2>4 DEF OutShort
<1>19. CASE Returns
  <2>1. out.data = <<>> /\ out.backlog = <<>>
    BY <1>19 DEF Returns, StreamInv, NotYet, Phases, Talk
  <2> QED BY <1>2, <1>3, <1>19, <2>1 DEF Returns, OutShort, OutRec
<1>20. CASE SourceSteps
  BY <1>20, <1>4 DEF SourceSteps, GoesOn, Starts, Credited, Yields, Finishes, Rests, Forgets,
     Ignores, SourceOnly
<1>21. CASE GuestSteps
  BY <1>21, <1>4, <1>16, <1>12 DEF GuestSteps, Reads, Waits, Cancels, Drops, Answers, Buffers,
     GuestOnly, ChunkComes
<1>22. CASE DriveSteps
  BY <1>22, <1>18, <1>5, <1>6, <1>17, <1>7, <1>8, <1>9, <1>10 DEF DriveSteps
<1>23. CASE OutSteps
  BY <1>23, <1>4, <1>19, <1>11, <1>15, <1>13, <1>14 DEF OutSteps, CancelLate, GuestOnly
<1>24. CASE RouteSteps
  BY <1>24, <1>4 DEF RouteSteps, TakesChunk, TakesEnd, TakesBody, TakesResult, Attaches,
     Completes, SeesLoss, Serves, Turns, Quits, Idles, RouteOnly
<1> QED BY <1>20, <1>21, <1>22, <1>23, <1>24 DEF Steps

\* Sizes is kept.
LEMMA SizesStep ==
  ASSUME StreamInv, Types', Steps
  PROVE  Sizes'
  BY DownShortStep, BufShortStep, OutShortStep DEF Sizes, DownShort, BufShort, OutShort

\* Eof is kept.
LEMMA EofStep ==
  ASSUME StreamInv, Types', Steps
  PROVE  Eof'
<1>1. Eof
  BY DEF StreamInv
<1>2. out \in OutRec /\ gin \in GinRec
  BY NowTypes
<1>3. CASE UNCHANGED <<out, gin>>
  BY <1>1, <1>3 DEF Eof
<1>4. CASE Settles
  BY <1>1, <1>2, <1>4 DEF Settles, Eof, OutRec, GinRec, Pulls, DriveOnly, GuestOnly
<1>5. CASE Flushes
  BY <1>1, <1>2, <1>5 DEF Flushes, Eof, OutRec, GinRec, Pulls, DriveOnly, GuestOnly
<1>6. CASE SaysEnd
  BY <1>1, <1>2, <1>6 DEF SaysEnd, Eof, OutRec, GinRec, Pulls, DriveOnly, GuestOnly
<1>7. CASE PullsWait
  BY <1>1, <1>2, <1>7 DEF PullsWait, Eof, OutRec, GinRec, Pulls, PipeOnly, DriveOnly, GuestOnly
<1>8. CASE PullsEnd
  BY <1>1, <1>2, <1>8 DEF PullsEnd, Eof, OutRec, GinRec, Pulls, PipeOnly, DriveOnly, GuestOnly
<1>9. CASE PullsChunk
  BY <1>1, <1>2, <1>9 DEF PullsChunk, Eof, OutRec, GinRec, Pulls, PipeOnly, DriveOnly, GuestOnly
<1>10. CASE OwnWaits
  BY <1>1, <1>2, <1>10 DEF OwnWaits, Eof, OutRec, GinRec, Pulls, OwnOnly, DriveOnly, GuestOnly
<1>11. CASE OwnYields
  BY <1>1, <1>2, <1>11 DEF OwnYields, Eof, OutRec, GinRec, Pulls, OwnOnly, DriveOnly, GuestOnly
<1>12. CASE TakesGrant
  BY <1>1, <1>2, <1>12 DEF TakesGrant, Eof, OutRec, GinRec, Pulls, GuestOnly
<1>13. CASE Feeds
  BY <1>1, <1>2, <1>13 DEF Feeds, Eof, OutRec, GinRec, Pulls, ChunkComes, GuestOnly
<1>14. CASE Answers
  BY <1>1, <1>2, <1>14 DEF Answers, Eof, OutRec, GinRec, Pulls, ChunkComes, GuestOnly
<1>15. CASE Ending
  BY <1>1, <1>2, <1>15 DEF Ending, Eof, OutRec, GinRec, Pulls, Swept
<1>16. CASE Cuts
  BY <1>1, <1>2, <1>16 DEF Cuts, Eof, OutRec, GinRec, Pulls, Swept
<1>17. CASE Cancels
  BY <1>1, <1>2, <1>17 DEF Cancels, Eof, OutRec, GinRec, Pulls, GuestOnly, Cut
<1>18. CASE CutsOut
  BY <1>1, <1>2, <1>18 DEF CutsOut, Eof, OutRec, GinRec, Pulls, GuestOnly, Hush
<1>19. CASE Reads
  <2>1. out.on = "no" /\ out' = out
    BY <1>19 DEF Reads, StreamInv, Phases, Talk
  <2> QED BY <2>1 DEF Eof
<1>20. CASE Waits
  <2>1. out.on = "no" /\ out' = out
    BY <1>20 DEF Waits, StreamInv, Phases, Talk
  <2> QED BY <2>1 DEF Eof
<1>21. CASE Buffers
  <2>1. Has(down, "chunk") /\ out' = out
    BY <1>21, ComesShort DEF Buffers
  <2>2. gin.ended = "no"
    BY <2>1 DEF StreamInv, Source
  <2>3. gin'.cancelled = gin.cancelled
    BY <1>2, <1>21 DEF Buffers, GinRec
  <2> QED BY <1>1, <2>1, <2>2, <2>3 DEF Eof
<1>22. CASE EndComes
  <2>1. PICK how \in {"ok", "err"} :
          /\ DownLoses(down, down', End(how))
          /\ gin' = [gin EXCEPT !.ended = how, !.pending = FALSE]
          /\ \/ /\ gin.pending /\ out.on = "pipe" /\ out.pull = "pending"
                /\ out' = [out EXCEPT !.pull = IF how = "ok" THEN "eof" ELSE "err", !.data = <<>>]
             \/ out' = out
    BY <1>22 DEF EndComes
  <2>2. End(how).t = "end" /\ End(how) \in ToSet(down)
    BY <2>1, FramesSay DEF DownLoses
  <2>3. gin.ended = "no"
    BY <2>2 DEF StreamInv, Source, Has
  <2>4. gin.pending => gin.buf = <<>>
    BY DEF StreamInv, Buffer
  <2>5. gin'.ended = how /\ gin'.buf = gin.buf /\ gin'.cancelled = gin.cancelled
    BY <1>2, <2>1 DEF GinRec
  <2>6. CASE out' = out
    BY <1>1, <2>3, <2>5, <2>6 DEF Eof
  <2>7. CASE gin.pending
               /\ out' = [out EXCEPT !.pull = IF how = "ok" THEN "eof" ELSE "err", !.data = <<>>]
    <3>1. out'.pull = IF how = "ok" THEN "eof" ELSE "err"
      BY <1>2, <2>7 DEF OutRec
    <3> QED BY <2>1, <2>4, <2>5, <2>7, <3>1 DEF Eof
  <2> QED BY <2>1, <2>6, <2>7
<1>23. CASE Returns
  <2>1. out.pull = "none"
    BY <1>23 DEF Returns, StreamInv, NotYet, Phases, Talk
  <2> QED BY <1>2, <1>23, <2>1 DEF Returns, Eof, OutRec
<1>24. CASE SourceSteps
  BY <1>24, <1>3 DEF SourceSteps, GoesOn, Starts, Credited, Yields, Finishes, Rests, Forgets,
     Ignores, SourceOnly
<1>25. CASE GuestSteps
  BY <1>25, <1>3, <1>19, <1>20, <1>17, <1>13, <1>14, <1>21, <1>22 DEF GuestSteps, Drops,
     ChunkComes, GuestOnly
<1>26. CASE DriveSteps
  BY <1>26, <1>5, <1>4, <1>6, <1>9, <1>7, <1>8, <1>10, <1>11 DEF DriveSteps
<1>27. CASE OutSteps
  BY <1>27, <1>3, <1>23, <1>12, <1>18, <1>15, <1>16 DEF OutSteps, CancelLate, GuestOnly
<1>28. CASE RouteSteps
  BY <1>28, <1>3 DEF RouteSteps, TakesChunk, TakesEnd, TakesBody, TakesResult, Attaches,
     Completes, SeesLoss, Serves, Turns, Quits, Idles, RouteOnly
<1> QED BY <1>24, <1>25, <1>26, <1>27, <1>28 DEF Steps

-----------------------------------------------------------------------------
(* Asking. *)

\* Only nothing adds up to nothing.
LEMMA ConcatNone ==
  ASSUME NEW a \in Piece, NEW b \in Piece, a \o b = <<>>
  PROVE  a = <<>> /\ b = <<>>
<1>1. Len(a \o b) = Len(a) + Len(b) /\ Len(a) \in Nat /\ Len(b) \in Nat
  BY PieceBoth
<1>2. Len(a \o b) = 0
  BY DEF Piece
<1>3. Len(a) = 0 /\ Len(b) = 0
  BY <1>1, <1>2
<1> QED BY <1>3, EmptySeq DEF Piece

\* Nothing before or behind a piece is that piece.
LEMMA NoneAfter ==
  /\ <<>> \o <<>> = <<>>
  /\ \A x \in Piece : x \o <<>> = x /\ <<>> \o x = x
  BY ConcatEmptySeq, NoBytes DEF Piece

\* The consumer gets bytes only when it is served.
LEMMA GotMoves ==
  ASSUME StreamInv, Types', Steps
  PROVE  outGot' = outGot \/ Serves
<1>1. CASE SourceSteps
  BY <1>1 DEF SourceSteps, GoesOn, Starts, Credited, Yields, Finishes, Rests, Forgets, Ignores,
     SourceOnly
<1>2. CASE GuestSteps
  BY <1>2 DEF GuestSteps, Reads, Waits, Cancels, Drops, Feeds, Answers, Buffers, EndComes,
     GuestOnly, ChunkComes
<1>3. CASE DriveSteps
  BY <1>3 DEF DriveSteps, Flushes, Settles, SaysEnd, PullsChunk, PullsWait, PullsEnd, OwnWaits,
     OwnYields, DriveOnly, GuestOnly, PipeOnly, OwnOnly
<1>4. CASE OutSteps
  BY <1>4 DEF OutSteps, Returns, TakesGrant, CancelLate, CutsOut, Ending, Cuts, GuestOnly, Swept
<1>5. CASE RouteSteps
  BY <1>5 DEF RouteSteps, TakesChunk, TakesEnd, TakesBody, TakesResult, Attaches, Completes,
     SeesLoss, Serves, Turns, Quits, Idles, RouteOnly
<1> QED BY <1>1, <1>2, <1>3, <1>4, <1>5 DEF Steps

\* A read is pending only because one waited.
LEMMA PendingMoves ==
  ASSUME StreamInv, Types', Steps
  PROVE  gin'.pending => gin.pending \/ Waits \/ PullsWait
<1>1. gin \in GinRec
  BY NowTypes
<1>2. CASE SourceSteps
  BY <1>1, <1>2 DEF SourceSteps, GoesOn, Starts, Credited, Yields, Finishes, Rests, Forgets,
     Ignores, SourceOnly, Cut, GinRec
<1>3. CASE GuestSteps
  BY <1>1, <1>3 DEF GuestSteps, Reads, Waits, Cancels, Drops, Feeds, Answers, Buffers, EndComes,
     GuestOnly, ChunkComes, Cut, GinRec
<1>4. CASE DriveSteps
  BY <1>1, <1>4 DEF DriveSteps, Flushes, Settles, SaysEnd, PullsChunk, PullsWait, PullsEnd,
     OwnWaits, OwnYields, DriveOnly, GuestOnly, PipeOnly, OwnOnly, Cut, GinRec
<1>5. CASE OutSteps
  BY <1>1, <1>5 DEF OutSteps, Returns, TakesGrant, CancelLate, CutsOut, Ending, Cuts, GuestOnly,
     Swept, Cut, GinRec
<1>6. CASE RouteSteps
  BY <1>1, <1>6 DEF RouteSteps, TakesChunk, TakesEnd, TakesBody, TakesResult, Attaches,
     Completes, SeesLoss, Serves, Turns, Quits, Idles, RouteOnly, Cut, GinRec
<1> QED BY <1>2, <1>3, <1>4, <1>5, <1>6 DEF Steps

\* While a read of the guest itself is pending, nothing is piped.
LEMMA AnswerMoves ==
  ASSUME StreamInv, Types', Steps
  PROVE  out.on = "pipe" /\ gin'.pending =>
           /\ out.pull = "pending" => out'.pull = "pending"
           /\ out.pull # "pending" /\ gin.pending /\ out.backlog = <<>>
                /\ out.data = <<>> => out'.backlog = <<>> /\ out'.data = <<>>
<1>1. out \in OutRec /\ gin \in GinRec /\ Buffer
  BY NowTypes DEF StreamInv
<1>2. CASE UNCHANGED <<out>>
  BY <1>2
<1>3. CASE Flushes
  BY <1>1, <1>3 DEF Flushes, OutRec, GinRec, DriveOnly, GuestOnly
<1>4. CASE Settles
  BY <1>1, <1>4 DEF Settles, OutRec, GinRec, DriveOnly, GuestOnly
<1>5. CASE SaysEnd
  BY <1>1, <1>5 DEF SaysEnd, OutRec, GinRec, DriveOnly, GuestOnly
<1>6. CASE PullsChunk
  BY <1>1, <1>6 DEF PullsChunk, OutRec, GinRec, PipeOnly, DriveOnly, GuestOnly, Buffer
<1>7. CASE PullsWait
  BY <1>1, <1>7 DEF PullsWait, OutRec, GinRec, PipeOnly, DriveOnly, GuestOnly
<1>8. CASE PullsEnd
  BY <1>1, <1>8 DEF PullsEnd, OutRec, GinRec, PipeOnly, DriveOnly, GuestOnly
<1>9. CASE OwnWaits
  BY <1>1, <1>9 DEF OwnWaits, OutRec, GinRec, OwnOnly, DriveOnly, GuestOnly
<1>10. CASE OwnYields
  BY <1>1, <1>10 DEF OwnYields, OutRec, GinRec, OwnOnly, DriveOnly, GuestOnly
<1>11. CASE Returns
  <2>1. out.on = "no"
    BY <1>11 DEF Returns, StreamInv, Phases, Talk
  <2> QED BY <2>1
<1>12. CASE TakesGrant
  BY <1>1, <1>12 DEF TakesGrant, OutRec, GinRec, GuestOnly
<1>13. CASE EndComes
  BY <1>1, <1>13 DEF EndComes, OutRec, GinRec, GuestOnly
<1>14. CASE Feeds
  BY <1>1, <1>14 DEF Feeds, OutRec, GinRec, ChunkComes, GuestOnly
<1>15. CASE Ending
  BY <1>1, <1>15 DEF Ending, OutRec, GinRec, Swept
<1>16. CASE Cuts
  BY <1>1, <1>16 DEF Cuts, OutRec, GinRec, Swept
<1>17. CASE CutsOut
  BY <1>1, <1>17 DEF CutsOut, OutRec, GinRec, GuestOnly, Hush
<1>18. CASE SourceSteps
  BY <1>18, <1>2 DEF SourceSteps, GoesOn, Starts, Credited, Yields, Finishes, Rests, Forgets,
     Ignores, SourceOnly
<1>19. CASE GuestSteps
  BY <1>19, <1>2, <1>14, <1>13 DEF GuestSteps, Reads, Waits, Cancels, Drops, Answers, Buffers,
     GuestOnly, ChunkComes
<1>20. CASE DriveSteps
  BY <1>20, <1>3, <1>4, <1>5, <1>6, <1>7, <1>8, <1>9, <1>10 DEF DriveSteps
<1>21. CASE OutSteps
  BY <1>21, <1>2, <1>11, <1>12, <1>17, <1>15, <1>16 DEF OutSteps, CancelLate, GuestOnly
<1>22. CASE RouteSteps
  BY <1>22, <1>2 DEF RouteSteps, TakesChunk, TakesEnd, TakesBody, TakesResult, Attaches,
     Completes, SeesLoss, Serves, Turns, Quits, Idles, RouteOnly
<1> QED BY <1>18, <1>19, <1>20, <1>21, <1>22 DEF Steps

\* Asking is kept.
LEMMA AskingStep ==
  ASSUME StreamInv, Types', Steps
  PROVE  Asking'
<1>0. SUFFICES ASSUME gin'.pending, out'.on = "pipe", out'.pull # "pending"
               PROVE  /\ outGot' = <<>> /\ Bytes(ost'.buf) = <<>> /\ UB' = <<>>
                      /\ out'.backlog = <<>> /\ out'.data = <<>>
  BY DEF Asking, UB
<1>1. out \in OutRec /\ gin \in GinRec /\ ost \in OstRec /\ outGot \in Piece /\ Types
  BY NowTypes DEF StreamInv
<1>2. CASE Returns
  <2>1. out.on = "no"
    BY <1>2 DEF Returns, StreamInv, Phases, Talk
  <2>2. out.data = <<>> /\ out.backlog = <<>> /\ outGot = <<>> /\ ost.buf = <<>>
          /\ ~Has(up, "ochunk")
    BY <2>1 DEF StreamInv, NotYet
  <2>3. out'.data = <<>> /\ out'.backlog = <<>> /\ outGot' = <<>> /\ ost'.buf = <<>>
    BY <1>1, <1>2, <2>2 DEF Returns, OutRec
  <2>4. UB' = UB
    BY <1>2, Noted DEF Returns
  <2>5. \A f \in UpFrame : f.t = "ochunk" => f.d \in Seq(Nat)
    BY UpFields DEF Piece
  <2>6. up \in Seq(UpFrame) /\ \A f \in ToSet(up) : f.t # "ochunk"
    BY <2>2, NowTypes DEF Has
  <2>7. UB = <<>>
    BY <2>5, <2>6, BytesType DEF UB
  <2> QED BY <2>3, <2>4, <2>7, BytesEmpty
<1>3. CASE ~Returns
  <2>1. out.on = "pipe"
    BY <1>0, <1>3, OnMoves
  <2>2. ~Waits
    BY <2>1 DEF Waits, StreamInv, Phases, Talk
  <2>3. ~PullsWait
    BY <1>0, <1>1 DEF PullsWait, OutRec
  <2>4. gin.pending /\ out.pull # "pending"
    BY <1>0, <2>1, <2>2, <2>3, PendingMoves, AnswerMoves
  <2>5. /\ outGot = <<>> /\ Bytes(ost.buf) = <<>> /\ UB = <<>>
        /\ out.backlog = <<>> /\ out.data = <<>>
    BY <2>1, <2>4 DEF StreamInv, Asking, UB
  <2>6. out'.backlog = <<>> /\ out'.data = <<>>
    BY <1>0, <2>1, <2>4, <2>5, AnswerMoves
  <2>7. ~Flushes /\ ~Cuts
    BY <1>0, <1>1, <2>5 DEF Flushes, Cuts, Swept, GinRec
  <2>8. CASE TakesChunk
    <3>1. PICK d \in Piece :
            /\ UpLoses(up, up', OutChunk(d))
            /\ Bytes(ost'.buf) = Bytes(ost.buf) \o d \/ ost' = ost
            /\ outGot' = outGot
      BY <2>8 DEF TakesChunk
    <3>a. UB' \in Piece
      BY AmountsNext
    <3>c. UpLoses(up, up', OutChunk(d))
      BY <3>1
    <3>b. UB = d \o UB'
      BY <3>c, OutChunkTaken
    <3>2. UB = d \o UB' /\ UB' \in Piece
      BY <3>a, <3>b
    <3>3. d = <<>> /\ UB' = <<>>
      <4>1. PICK v \in Piece : v = UB'
        BY <3>2
      <4>2. d \o v = <<>>
        BY <2>5, <3>2, <4>1
      <4> QED BY <4>1, <4>2, ConcatNone
    <3>4. Bytes(ost'.buf) = <<>>
      BY <2>5, <3>1, <3>3, NoneAfter
    <3> QED BY <2>5, <2>6, <3>1, <3>3, <3>4
  <2>9. CASE Serves
    <3>1. PICK d \in Piece : /\ Bytes(ost.buf) = d \o Bytes(ost'.buf) /\ outGot' = outGot \o d
                                  /\ up' = up
      BY <2>9 DEF Serves
    <3>2. PICK v \in Piece : v = Bytes(ost'.buf)
      BY AmountsNext
    <3>3. d \o v = <<>>
      BY <2>5, <3>1, <3>2
    <3>4. d = <<>> /\ v = <<>>
      BY <3>3, ConcatNone
    <3>5. outGot' = <<>>
      BY <2>5, <3>1, <3>4, NoneAfter
    <3>6. UB' = UB
      BY <3>1 DEF UB
    <3> QED BY <2>5, <2>6, <3>2, <3>4, <3>5, <3>6
  <2>10. CASE Quits
    <3>1. ost'.buf = <<>> /\ outGot' = outGot /\ up' = up
      BY <1>1, <2>10 DEF Quits, OstRec
    <3> QED BY <2>5, <2>6, <3>1, BytesEmpty DEF UB
  <2>11. CASE ~TakesChunk /\ ~Serves /\ ~Quits
    <3>1. ost'.buf = ost.buf /\ outGot' = outGot /\ UB' = UB
      BY <2>7, <2>11, OstKeeps, GotMoves, UpAmounts
    <3> QED BY <2>5, <2>6, <3>1
  <2> QED BY <2>8, <2>9, <2>10, <2>11
<1> QED BY <1>2, <1>3

-----------------------------------------------------------------------------
(* InCredit. *)

\* What is alive was alive.
LEMMA AliveBack ==
  ASSUME StreamInv, Types', Steps, Alive'
  PROVE  Alive
<1>1. conn = "up" /\ run.phase # "over"
  BY ConnMoves, OverStays DEF Alive, Cuts
<1>2. entry # "gone"
  BY <1>1 DEF StreamInv, Phases, Gone
<1> QED BY <1>1, <1>2 DEF Alive

\* The credit the source holds.
SC == src.credit

\* How much the guest buffers.
GL == Len(Bytes(gin.buf))

\* The credit the returned body holds.
OC == out.credit

\* How much the host buffers.
OL == Len(Bytes(ost.buf))

\* How much is on its way to the run.
DL == Len(DB)

\* How much is on its way to the host.
UL == Len(UB)

\* Which steps move the credit of the source.
LEMMA CreditMoves ==
  ASSUME StreamInv, Types', Steps
  PROVE  SC' = SC \/ GoesOn \/ Starts \/ Credited \/ Yields
<1>1. src \in SrcRec
  BY NowTypes
<1>2. Released.credit = src.credit
  BY <1>1, ReleasedIs
<1>3. CASE SourceSteps
  BY <1>1, <1>2, <1>3 DEF SourceSteps, GoesOn, Starts, Credited, Yields, Finishes, Rests,
     Forgets, Ignores, SourceOnly, SrcRec, SC
<1>4. CASE GuestSteps
  BY <1>1, <1>2, <1>4 DEF GuestSteps, Reads, Waits, Cancels, Drops, Feeds, Answers, Buffers,
     EndComes, GuestOnly, ChunkComes, SrcRec, SC
<1>5. CASE DriveSteps
  BY <1>1, <1>2, <1>5 DEF DriveSteps, Flushes, Settles, SaysEnd, PullsChunk, PullsWait, PullsEnd,
     OwnWaits, OwnYields, DriveOnly, GuestOnly, PipeOnly, OwnOnly, SrcRec, SC
<1>6. CASE OutSteps
  BY <1>1, <1>2, <1>6 DEF OutSteps, Returns, TakesGrant, CancelLate, CutsOut, Ending, Cuts,
     GuestOnly, Swept, SrcRec, SC
<1>7. CASE RouteSteps
  BY <1>1, <1>2, <1>7 DEF RouteSteps, TakesChunk, TakesEnd, TakesBody, TakesResult, Attaches,
     Completes, SeesLoss, Serves, Turns, Quits, Idles, RouteOnly, SrcRec, SC
<1> QED BY <1>3, <1>4, <1>5, <1>6, <1>7 DEF Steps

\* Which steps move the guest's buffer.
LEMMA BufMoves ==
  ASSUME StreamInv, Types', Steps
  PROVE  gin'.buf = gin.buf \/ Reads \/ PullsChunk \/ Buffers \/ Cancels \/ CutsOut \/ Ending
           \/ Cuts
<1>1. gin \in GinRec
  BY NowTypes
<1>2. CASE SourceSteps
  BY <1>1, <1>2 DEF SourceSteps, GoesOn, Starts, Credited, Yields, Finishes, Rests, Forgets,
     Ignores, SourceOnly, GinRec
<1>3. CASE GuestSteps
  BY <1>1, <1>3 DEF GuestSteps, Reads, Waits, Cancels, Drops, Feeds, Answers, Buffers, EndComes,
     GuestOnly, ChunkComes, GinRec
<1>4. CASE DriveSteps
  BY <1>1, <1>4 DEF DriveSteps, Flushes, Settles, SaysEnd, PullsChunk, PullsWait, PullsEnd,
     OwnWaits, OwnYields, DriveOnly, GuestOnly, PipeOnly, OwnOnly, GinRec
<1>5. CASE OutSteps
  BY <1>1, <1>5 DEF OutSteps, Returns, TakesGrant, CancelLate, CutsOut, Ending, Cuts, GuestOnly,
     Swept, GinRec
<1>6. CASE RouteSteps
  BY <1>1, <1>6 DEF RouteSteps, TakesChunk, TakesEnd, TakesBody, TakesResult, Attaches,
     Completes, SeesLoss, Serves, Turns, Quits, Idles, RouteOnly, GinRec
<1> QED BY <1>2, <1>3, <1>4, <1>5, <1>6 DEF Steps

\* Which steps move the credit of the returned body.
LEMMA OutCreditMoves ==
  ASSUME StreamInv, Types', Steps
  PROVE  OC' = OC \/ Flushes \/ TakesGrant \/ Returns \/ Ending \/ Cuts
<1>1. out \in OutRec
  BY NowTypes
<1>2. CASE SourceSteps
  BY <1>1, <1>2 DEF SourceSteps, GoesOn, Starts, Credited, Yields, Finishes, Rests, Forgets,
     Ignores, SourceOnly, OutRec, OC, Hush
<1>3. CASE GuestSteps
  BY <1>1, <1>3 DEF GuestSteps, Reads, Waits, Cancels, Drops, Feeds, Answers, Buffers, EndComes,
     GuestOnly, ChunkComes, OutRec, OC, Hush
<1>4. CASE DriveSteps
  BY <1>1, <1>4 DEF DriveSteps, Flushes, Settles, SaysEnd, PullsChunk, PullsWait, PullsEnd,
     OwnWaits, OwnYields, DriveOnly, GuestOnly, PipeOnly, OwnOnly, OutRec, OC, Hush
<1>5. CASE OutSteps
  BY <1>1, <1>5 DEF OutSteps, Returns, TakesGrant, CancelLate, CutsOut, Ending, Cuts, GuestOnly,
     Swept, OutRec, OC, Hush
<1>6. CASE RouteSteps
  BY <1>1, <1>6 DEF RouteSteps, TakesChunk, TakesEnd, TakesBody, TakesResult, Attaches,
     Completes, SeesLoss, Serves, Turns, Quits, Idles, RouteOnly, OutRec, OC, Hush
<1> QED BY <1>2, <1>3, <1>4, <1>5, <1>6 DEF Steps

\* The pump pays for what it sends.
LEMMA PumpPays ==
  ASSUME Types, Types', NEW s \in SrcRec, Pumps(s) \/ Sends(s) \/ Stays(s)
  PROVE  /\ SC' + DL' <= s.credit + DL
         /\ run.phase # "over" => SC' + DL' = s.credit + DL
<1>0. PICK a, b, a1, b1 \in Nat : a = s.credit /\ b = DL /\ a1 = SC' /\ b1 = DL'
  <2>1. s.credit \in Nat /\ SC' \in Nat
    BY DEF SrcRec, SC, Types
  <2>2. DL \in Nat /\ DL' \in Nat
    BY AmountsAre, AmountsNext DEF DL
  <2> QED BY <2>1, <2>2
<1>1. CASE down' = down /\ src'.credit = s.credit
  <2>1. a1 = a /\ b1 = b
    BY <1>0, <1>1 DEF DL, DB, SC
  <2>2. a1 + b1 = a + b /\ a1 + b1 <= a + b
    BY <2>1
  <2> QED BY <1>0, <2>2
<1>2. CASE Sends(s)
  <2>1. PICK d \in Piece : Len(d) <= s.credit /\ src'.credit = s.credit - Len(d)
                             /\ HostSaid(Chunk(d))
    BY <1>2 DEF Sends
  <2>2. DB' = (IF run.phase = "over" THEN DB ELSE DB \o d)
    BY <2>1, ChunkSaid
  <2>3. PICK m \in Nat : m = Len(d)
    BY DEF Piece
  <2>4. m <= a /\ a1 = a - m
    BY <1>0, <2>1, <2>3 DEF SC
  <2>5. CASE run.phase = "over"
    <3>1. b1 = b
      BY <1>0, <2>2, <2>5 DEF DL
    <3>2. a1 + b1 <= a + b
      BY <2>4, <3>1
    <3> QED BY <1>0, <2>5, <3>2
  <2>6. CASE run.phase # "over"
    <3>1. DB' = DB \o d /\ DB \in Piece
      BY <2>2, <2>6, AmountsAre
    <3>2. PICK v \in Piece : v = DB
      BY <3>1
    <3>3. Len(v \o d) = Len(v) + Len(d)
      BY PieceBoth
    <3>4. b1 = b + m
      BY <1>0, <2>3, <3>1, <3>2, <3>3 DEF DL
    <3>5. a1 + b1 = a + b /\ a1 + b1 <= a + b
      BY <2>4, <3>4
    <3> QED BY <1>0, <3>5
  <2> QED BY <2>5, <2>6
<1>3. Pumps(s) \/ Stays(s) => Sends(s) \/ (down' = down /\ src'.credit = s.credit)
  BY DEF Pumps, Fetches, Stops, Stays, SrcRec
<1> QED BY <1>1, <1>2, <1>3

\* Inflow and Outflow, as sums of named numbers.
LEMMA FlowParts ==
  ASSUME Types, Types'
  PROVE  /\ {SC, DL, GL, UC, OC, UL, OL, DC} \subseteq Nat
         /\ {SC', DL', GL', UC', OC', UL', OL', DC'} \subseteq Nat
         /\ Inflow = SC + DL + GL + UC /\ Outflow = OC + UL + OL + DC
         /\ Inflow' = SC' + DL' + GL' + UC' /\ Outflow' = OC' + UL' + OL' + DC'
<1>1. SC \in Nat /\ OC \in Nat /\ SC' \in Nat /\ OC' \in Nat
  BY DEF Types, SrcRec, OutRec, SC, OC
<1>2. DL \in Nat /\ GL \in Nat /\ UC \in Nat /\ UL \in Nat /\ OL \in Nat /\ DC \in Nat
  BY AmountsAre DEF DL, GL, UL, OL
<1>3. DL' \in Nat /\ GL' \in Nat /\ UC' \in Nat /\ UL' \in Nat /\ OL' \in Nat /\ DC' \in Nat
  BY AmountsNext DEF DL, GL, UL, OL
<1>4. Inflow = SC + DL + GL + UC /\ Outflow = OC + UL + OL + DC
  BY DEF Inflow, Outflow, SC, DL, GL, UC, OC, UL, OL, DC, DB, UB
<1>5. Inflow' = SC' + DL' + GL' + UC' /\ Outflow' = OC' + UL' + OL' + DC'
  BY DEF Inflow, Outflow, SC, DL, GL, UC, OC, UL, OL, DC, DB, UB
<1> QED BY <1>1, <1>2, <1>3, <1>4, <1>5

\* Activation gives out the window.
LEMMA InflowStarts ==
  ASSUME StreamInv, Types', Steps, Starts
  PROVE  Inflow' <= Window /\ (Alive' => Inflow' = Window)
<1>1. Types /\ src \in SrcRec /\ gin \in GinRec /\ Window \in Nat
  BY NowTypes, StreamsAssumption DEF StreamInv
<1>2. PICK a, b, c, e \in Nat : a = SC /\ b = DL /\ c = GL /\ e = UC
  BY <1>1, FlowParts
<1>3. PICK a1, b1, c1, e1 \in Nat : a1 = SC' /\ b1 = DL' /\ c1 = GL' /\ e1 = UC'
  BY <1>1, FlowParts
<1>4. Inflow = a + b + c + e
  BY <1>1, <1>2, FlowParts
<1>5. Inflow' = a1 + b1 + c1 + e1
  BY <1>1, <1>3, FlowParts
<1>6. SUFFICES a1 + b1 + c1 + e1 <= Window /\ (Alive' => a1 + b1 + c1 + e1 = Window)
  BY <1>4, <1>5
<1>7. run.phase = "over" => ~Alive'
  BY OverStays DEF Alive
<1>8. (UC' = UC => e1 = e) /\ (DB' = DB => b1 = b) /\ (gin'.buf = gin.buf => c1 = c)
        /\ (SC' = SC => a1 = a)
  BY <1>2, <1>3 DEF DL, GL
<1>9. gin'.buf = <<>> => c1 = 0
  <2>1. Len(<<>>) = 0
    OBVIOUS
  <2> QED BY <1>3, <2>1, BytesEmpty DEF GL
<1>10. down' = <<>> => b1 = 0
  <2>1. Len(<<>>) = 0 /\ BytesIn(<<>>, "chunk") = <<>>
    BY NoFrames
  <2> QED BY <1>3, <2>1 DEF DL, DB
<1>11. up' = <<>> => e1 = 0
  BY <1>3, NoFrames DEF UC
<1>12. PICK s : s = [src EXCEPT !.at = "on", !.credit = Window]
  OBVIOUS
<1>13. s \in SrcRec /\ Pumps(s) /\ src.at = "reg" /\ s.credit = Window /\ up' = up /\ gin' = gin
  <2>1. s.credit = Window
    BY <1>1, <1>12 DEF SrcRec
  <2>2. s \in SrcRec
    BY <1>1, <1>12 DEF SrcRec
  <2> QED BY <1>12, <2>1, <2>2 DEF Starts, SourceOnly
<1>14. a1 + b1 <= Window + b /\ (run.phase # "over" => a1 + b1 = Window + b)
  BY <1>1, <1>2, <1>3, <1>13, PumpPays
<1>15. c1 = c /\ e1 = e
  BY <1>8, <1>13 DEF UC
<1>16. a + b + c + e = 0
  BY <1>4, <1>13 DEF StreamInv, InCredit
<1>17. b = 0 /\ c = 0 /\ e = 0
  BY <1>16
<1>18. a1 + b1 + c1 + e1 <= Window /\ (run.phase # "over" => a1 + b1 + c1 + e1 = Window)
  BY <1>1, <1>14, <1>15, <1>17
<1> QED BY <1>7, <1>18

\* No other step gives out credit, and none loses any while the stream flows.
LEMMA InflowStep ==
  ASSUME StreamInv, Types', Steps, ~Starts
  PROVE  /\ Inflow' <= Inflow
         /\ Alive' /\ src'.at = "on" /\ ~gin'.cancelled => Inflow' = Inflow
<1>1. Types /\ src \in SrcRec /\ gin \in GinRec /\ Window \in Nat
  BY NowTypes, StreamsAssumption DEF StreamInv
<1>2. PICK a, b, c, e \in Nat : a = SC /\ b = DL /\ c = GL /\ e = UC
  BY <1>1, FlowParts
<1>3. PICK a1, b1, c1, e1 \in Nat : a1 = SC' /\ b1 = DL' /\ c1 = GL' /\ e1 = UC'
  BY <1>1, FlowParts
<1>4. Inflow = a + b + c + e
  BY <1>1, <1>2, FlowParts
<1>5. Inflow' = a1 + b1 + c1 + e1
  BY <1>1, <1>3, FlowParts
<1>6. SUFFICES /\ a1 + b1 + c1 + e1 <= a + b + c + e
               /\ Alive' /\ src'.at = "on" /\ ~gin'.cancelled => a1 + b1 + c1 + e1 = a + b + c + e
  BY <1>4, <1>5
<1>7. run.phase = "over" => ~Alive'
  BY OverStays DEF Alive
<1>8. (UC' = UC => e1 = e) /\ (DB' = DB => b1 = b) /\ (gin'.buf = gin.buf => c1 = c)
        /\ (SC' = SC => a1 = a)
  BY <1>2, <1>3 DEF DL, GL
<1>9. gin'.buf = <<>> => c1 = 0
  <2>1. Len(<<>>) = 0
    OBVIOUS
  <2> QED BY <1>3, <2>1, BytesEmpty DEF GL
<1>10. down' = <<>> => b1 = 0
  <2>1. Len(<<>>) = 0 /\ BytesIn(<<>>, "chunk") = <<>>
    BY NoFrames
  <2> QED BY <1>3, <2>1 DEF DL, DB
<1>11. up' = <<>> => e1 = 0
  BY <1>3, NoFrames DEF UC
<1>12. CASE GoesOn
  <2>1. src.pump = "write" /\ Pumps(src) /\ up' = up /\ gin' = gin
    BY <1>12 DEF GoesOn, SourceOnly
  <2>2. a1 + b1 <= a + b /\ (run.phase # "over" => a1 + b1 = a + b)
    BY <1>1, <1>2, <1>3, <2>1, PumpPays DEF SC
  <2>3. c1 = c /\ e1 = e
    BY <1>8, <2>1 DEF UC
  <2> QED BY <1>7, <2>2, <2>3
<1>13. CASE Credited
  <2>1. PICK n \in Nat :
          /\ UpLoses(up, up', Pull(n)) /\ src.at # "gone"
          /\ Pumps([src EXCEPT !.credit = @ + n]) \/ Stays([src EXCEPT !.credit = @ + n])
    BY <1>13 DEF Credited
  <2>2. PICK s : s = [src EXCEPT !.credit = @ + n]
    OBVIOUS
  <2>3. s \in SrcRec /\ (Pumps(s) \/ Stays(s))
    BY <1>1, <2>1, <2>2, SourcesFrom
  <2>4. s.credit = a + n
    BY <1>1, <1>2, <2>2 DEF SrcRec, SC
  <2>5. a1 + b1 <= a + n + b /\ (run.phase # "over" => a1 + b1 = a + n + b)
    BY <1>1, <1>2, <1>3, <2>3, <2>4, PumpPays
  <2>6. e = e1 + n
    BY <1>2, <1>3, <2>1, PullTaken
  <2>7. c1 = c
    BY <1>8, <1>13 DEF Credited, SourceOnly
  <2>8. a1 + b1 + c1 + e1 <= a + b + c + e
          /\ (run.phase # "over" => a1 + b1 + c1 + e1 = a + b + c + e)
    BY <2>5, <2>6, <2>7
  <2> QED BY <1>7, <2>8
<1>14. CASE Yields
  <2>1. PICK cc \in Piece : src.pump = "read"
                              /\ Sends([src EXCEPT !.prefix = <<cc>>, !.read = @ + Len(cc)])
                              /\ up' = up /\ gin' = gin
    BY <1>14 DEF Yields, SourceOnly
  <2>2. PICK s : s = [src EXCEPT !.prefix = <<cc>>, !.read = @ + Len(cc)]
    OBVIOUS
  <2>3. s \in SrcRec /\ s.credit = src.credit
    <3>1. PICK m \in Nat : m = src.read + Len(cc)
      BY <1>1 DEF SrcRec, Piece
    <3>2. PICK w : w = <<cc>>
      OBVIOUS
    <3>3. w \in Seq(Piece)
      BY <3>2
    <3>4. s = [src EXCEPT !.prefix = w, !.read = m]
      BY <1>1, <2>2, <3>1, <3>2 DEF SrcRec
    <3> QED BY <1>1, <3>1, <3>3, <3>4 DEF SrcRec
  <2>4. a1 + b1 <= a + b /\ (run.phase # "over" => a1 + b1 = a + b)
    BY <1>1, <1>2, <1>3, <2>1, <2>2, <2>3, PumpPays DEF SC
  <2>5. c1 = c /\ e1 = e
    BY <1>8, <2>1 DEF UC
  <2> QED BY <1>7, <2>4, <2>5
<1>15. CASE Ignores
  <2>1. PICK n \in Nat : UpLoses(up, up', Pull(n))
    BY <1>15 DEF Ignores
  <2>2. (entry = "gone" \/ src.at = "gone") /\ src' = src /\ down' = down /\ gin' = gin
          /\ entry' = entry
    BY <1>15 DEF Ignores, SourceOnly
  <2>3. e = e1 + n
    BY <1>2, <1>3, <2>1, PullTaken
  <2>4. a1 = a /\ b1 = b /\ c1 = c
    BY <1>8, <2>2 DEF DB, SC
  <2>5. a1 + b1 + c1 + e1 <= a + b + c + e
    BY <2>3, <2>4
  <2>6. ~(Alive' /\ src'.at = "on")
    BY <2>2 DEF Alive
  <2> QED BY <2>5, <2>6
<1>16. CASE Reads
  <2>1. PICK x \in Piece : /\ Bytes(gin.buf) = x \o Bytes(gin'.buf)
                                /\ UpGets(up, up', Pull(Len(x)))
    BY <1>16 DEF Reads
  <2>2. src' = src /\ down' = down
    BY <1>16 DEF Reads, GuestOnly
  <2>3. PICK m \in Nat : m = Len(x)
    BY DEF Piece
  <2>4. e1 = e + m
    BY <1>2, <1>3, <2>1, <2>3, PullSent
  <2>5. PICK v \in Piece : v = Bytes(gin'.buf)
    BY AmountsNext
  <2>6. Len(x \o v) = Len(x) + Len(v)
    BY PieceBoth
  <2>7. c = m + c1
    BY <1>2, <1>3, <2>1, <2>3, <2>5, <2>6 DEF GL
  <2>8. a1 = a /\ b1 = b
    BY <1>8, <2>2 DEF DB, SC
  <2>9. a1 + b1 + c1 + e1 = a + b + c + e /\ a1 + b1 + c1 + e1 <= a + b + c + e
    BY <2>4, <2>7, <2>8
  <2> QED BY <2>9
<1>17. CASE PullsChunk
  <2>1. PICK x \in Piece : /\ Bytes(gin.buf) = x \o Bytes(gin'.buf)
                                /\ UpGets(up, up', Pull(Len(x)))
    BY <1>17 DEF PullsChunk
  <2>2. src' = src /\ down' = down
    BY <1>17 DEF PullsChunk, PipeOnly, DriveOnly, GuestOnly
  <2>3. PICK m \in Nat : m = Len(x)
    BY DEF Piece
  <2>4. e1 = e + m
    BY <1>2, <1>3, <2>1, <2>3, PullSent
  <2>5. PICK v \in Piece : v = Bytes(gin'.buf)
    BY AmountsNext
  <2>6. Len(x \o v) = Len(x) + Len(v)
    BY PieceBoth
  <2>7. c = m + c1
    BY <1>2, <1>3, <2>1, <2>3, <2>5, <2>6 DEF GL
  <2>8. a1 = a /\ b1 = b
    BY <1>8, <2>2 DEF DB, SC
  <2>9. a1 + b1 + c1 + e1 = a + b + c + e /\ a1 + b1 + c1 + e1 <= a + b + c + e
    BY <2>4, <2>7, <2>8
  <2> QED BY <2>9
<1>18. CASE Feeds
  <2>1. PICK d : ChunkComes(d) /\ UpGets(up, up', Pull(Len(d)))
    BY <1>18 DEF Feeds
  <2>2. d \in Piece /\ DownLoses(down, down', Chunk(d)) /\ src' = src
    BY <2>1 DEF ChunkComes, GuestOnly
  <2>3. PICK m \in Nat : m = Len(d)
    BY <2>2 DEF Piece
  <2>4. DB = d \o DB'
    BY <2>2, ChunkGone
  <2>5. PICK v \in Piece : v = DB'
    BY AmountsNext
  <2>6. Len(d \o v) = Len(d) + Len(v)
    BY <2>2, PieceBoth
  <2>7. b = m + b1
    BY <1>2, <1>3, <2>3, <2>4, <2>5, <2>6 DEF DL
  <2>8. a1 = a
    BY <1>8, <2>2 DEF SC
  <2>10. e1 = e + m
    BY <1>2, <1>3, <2>1, <2>3, PullSent
  <2>11. c1 = c
    BY <1>1, <1>8, <1>18 DEF Feeds, GinRec
  <2>12. a1 + b1 + c1 + e1 = a + b + c + e /\ a1 + b1 + c1 + e1 <= a + b + c + e
    BY <2>7, <2>8, <2>10, <2>11
  <2> QED BY <2>12
<1>19. CASE Answers
  <2>1. PICK d : ChunkComes(d) /\ UpGets(up, up', Pull(Len(d)))
    BY <1>19 DEF Answers
  <2>2. d \in Piece /\ DownLoses(down, down', Chunk(d)) /\ src' = src
    BY <2>1 DEF ChunkComes, GuestOnly
  <2>3. PICK m \in Nat : m = Len(d)
    BY <2>2 DEF Piece
  <2>4. DB = d \o DB'
    BY <2>2, ChunkGone
  <2>5. PICK v \in Piece : v = DB'
    BY AmountsNext
  <2>6. Len(d \o v) = Len(d) + Len(v)
    BY <2>2, PieceBoth
  <2>7. b = m + b1
    BY <1>2, <1>3, <2>3, <2>4, <2>5, <2>6 DEF DL
  <2>8. a1 = a
    BY <1>8, <2>2 DEF SC
  <2>10. e1 = e + m
    BY <1>2, <1>3, <2>1, <2>3, PullSent
  <2>11. c1 = c
    BY <1>1, <1>8, <1>19 DEF Answers, GinRec
  <2>12. a1 + b1 + c1 + e1 = a + b + c + e /\ a1 + b1 + c1 + e1 <= a + b + c + e
    BY <2>7, <2>8, <2>10, <2>11
  <2> QED BY <2>12
<1>20. CASE Buffers
  <2>1. PICK d : ChunkComes(d) /\ Bytes(gin'.buf) = Bytes(gin.buf) \o d /\ up' = up
    BY <1>20 DEF Buffers
  <2>2. d \in Piece /\ DownLoses(down, down', Chunk(d)) /\ src' = src
    BY <2>1 DEF ChunkComes, GuestOnly
  <2>3. PICK m \in Nat : m = Len(d)
    BY <2>2 DEF Piece
  <2>4. DB = d \o DB'
    BY <2>2, ChunkGone
  <2>5. PICK v \in Piece : v = DB'
    BY AmountsNext
  <2>6. Len(d \o v) = Len(d) + Len(v)
    BY <2>2, PieceBoth
  <2>7. b = m + b1
    BY <1>2, <1>3, <2>3, <2>4, <2>5, <2>6 DEF DL
  <2>8. a1 = a
    BY <1>8, <2>2 DEF SC
  <2>10. e1 = e
    BY <1>8, <2>1 DEF UC
  <2>11. PICK w \in Piece : w = Bytes(gin.buf)
    BY <1>1, AmountsAre
  <2>12. Len(w \o d) = Len(w) + Len(d)
    BY <2>2, PieceBoth
  <2>13. c1 = c + m
    BY <1>2, <1>3, <2>1, <2>3, <2>11, <2>12 DEF GL
  <2>14. a1 + b1 + c1 + e1 = a + b + c + e /\ a1 + b1 + c1 + e1 <= a + b + c + e
    BY <2>7, <2>8, <2>10, <2>13
  <2> QED BY <2>14
<1>21. CASE Drops
  <2>1. PICK d : ChunkComes(d) /\ gin' = gin /\ up' = up /\ gin.cancelled
    BY <1>21 DEF Drops
  <2>2. d \in Piece /\ DownLoses(down, down', Chunk(d)) /\ src' = src
    BY <2>1 DEF ChunkComes, GuestOnly
  <2>3. PICK m \in Nat : m = Len(d)
    BY <2>2 DEF Piece
  <2>4. DB = d \o DB'
    BY <2>2, ChunkGone
  <2>5. PICK v \in Piece : v = DB'
    BY AmountsNext
  <2>6. Len(d \o v) = Len(d) + Len(v)
    BY <2>2, PieceBoth
  <2>7. b = m + b1
    BY <1>2, <1>3, <2>3, <2>4, <2>5, <2>6 DEF DL
  <2>8. a1 = a
    BY <1>8, <2>2 DEF SC
  <2>10. e1 = e /\ c1 = c
    BY <1>8, <2>1 DEF UC
  <2>11. a1 + b1 + c1 + e1 <= a + b + c + e
    BY <2>7, <2>8, <2>10
  <2> QED BY <2>1, <2>11
<1>22. CASE Cancels
  <2>1. src' = src /\ gin' \in {gin, Cut}
    BY <1>22 DEF Cancels, GuestOnly
  <2>2. UC' = UC
    BY <1>22, Noted DEF Cancels
  <2>3. DB' = DB
    <3>1. OutCancel.t \notin {"chunk", "opull"}
      BY FramesSay
    <3> QED BY <1>22, <3>1, OtherGone DEF Cancels, DB
  <2>4. a1 = a /\ b1 = b /\ e1 = e
    BY <1>8, <2>1, <2>2, <2>3 DEF SC
  <2>6. CASE gin' = gin
    BY <1>8, <2>4, <2>6
  <2>7. CASE gin' = Cut
    <3>1. gin'.buf = <<>> /\ gin'.cancelled
      BY <1>1, <2>7 DEF Cut, GinRec
    <3>2. a1 + b1 + c1 + e1 <= a + b + c + e
      BY <1>9, <2>4, <3>1
    <3> QED BY <3>1, <3>2
  <2> QED BY <2>1, <2>6, <2>7
<1>23. CASE CutsOut
  <2>1. src' = src /\ gin' \in {gin, Cut}
    BY <1>23 DEF CutsOut, GuestOnly
  <2>2. UC' = UC
    BY <1>23, Noted DEF CutsOut
  <2>3. DB' = DB
    <3>1. OutCancel.t \notin {"chunk", "opull"}
      BY FramesSay
    <3> QED BY <1>23, <3>1, OtherGone DEF CutsOut, DB
  <2>4. a1 = a /\ b1 = b /\ e1 = e
    BY <1>8, <2>1, <2>2, <2>3 DEF SC
  <2>6. CASE gin' = gin
    BY <1>8, <2>4, <2>6
  <2>7. CASE gin' = Cut
    <3>1. gin'.buf = <<>> /\ gin'.cancelled
      BY <1>1, <2>7 DEF Cut, GinRec
    <3>2. a1 + b1 + c1 + e1 <= a + b + c + e
      BY <1>9, <2>4, <3>1
    <3> QED BY <3>1, <3>2
  <2> QED BY <2>1, <2>6, <2>7
<1>24. CASE Ending
  <2>1. src' = src /\ down' = <<>> /\ gin'.buf = <<>> /\ run'.phase = "over"
    BY <1>1, <1>24 DEF Ending, Swept, GinRec
  <2>2. e1 = e
    BY <1>8, <1>24, Noted DEF Ending
  <2>3. a1 = a /\ b1 = 0 /\ c1 = 0
    BY <1>8, <1>9, <1>10, <2>1 DEF SC
  <2>5. a1 + b1 + c1 + e1 <= a + b + c + e
    BY <2>2, <2>3
  <2>6. ~Alive'
    BY <2>1 DEF Alive
  <2> QED BY <2>5, <2>6
<1>25. CASE Cuts
  <2>1. src' = src /\ down' = <<>> /\ gin'.buf = <<>> /\ run'.phase = "over"
    BY <1>1, <1>25 DEF Cuts, Swept, GinRec
  <2>2. e1 = 0
    BY <1>11, <1>25 DEF Cuts
  <2>3. a1 = a /\ b1 = 0 /\ c1 = 0
    BY <1>8, <1>9, <1>10, <2>1 DEF SC
  <2>5. a1 + b1 + c1 + e1 <= a + b + c + e
    BY <2>2, <2>3
  <2>6. ~Alive'
    BY <2>1 DEF Alive
  <2> QED BY <2>5, <2>6
<1>26. CASE ~GoesOn /\ ~Credited /\ ~Yields /\ ~Ignores /\ ~Reads /\ ~PullsChunk /\ ~Feeds
              /\ ~Answers /\ ~Buffers /\ ~Drops /\ ~Cancels /\ ~CutsOut /\ ~Ending /\ ~Cuts
  <2>1. SC' = SC /\ gin'.buf = gin.buf
    BY <1>26, CreditMoves, BufMoves
  <2>2. UC' = UC /\ DB' = DB
    BY <1>26, UpAmounts, DownAmounts
  <2>3. a1 = a /\ b1 = b /\ c1 = c /\ e1 = e
    BY <1>8, <2>1, <2>2
  <2> QED BY <1>26, <2>3
<1> QED BY <1>12, <1>13, <1>14, <1>15, <1>16, <1>17, <1>18, <1>19, <1>20, <1>21, <1>22, <1>23,
      <1>24, <1>25, <1>26

\* InCredit is kept.
LEMMA InCreditStep ==
  ASSUME StreamInv, Types', Steps
  PROVE  InCredit'
<1>1. InCredit /\ Types /\ src \in SrcRec /\ Window \in Nat
  BY NowTypes, StreamsAssumption DEF StreamInv
<1>2. PICK i, j \in Nat : i = Inflow /\ j = Inflow'
  BY <1>1, FlowParts
<1>3. CASE Starts
  <2>0. Inflow' <= Window /\ (Alive' => Inflow' = Window)
    BY <1>3, InflowStarts
  <2>1. src'.at = "on"
    BY <1>1, <1>3 DEF Starts, Pumps, Fetches, Sends, Stops, SrcRec
  <2> QED BY <2>0, <2>1 DEF InCredit
<1>4. CASE ~Starts
  <2>0. Inflow' <= Inflow /\ (Alive' /\ src'.at = "on" /\ ~gin'.cancelled => Inflow' = Inflow)
    BY <1>4, InflowStep
  <2>1. j <= i /\ i <= Window /\ (src.at = "reg" => i = 0)
    BY <1>1, <1>2, <2>0 DEF InCredit
  <2>2. src'.at = "reg" => src.at = "reg"
    <3>1. CASE src' = src
      BY <3>1
    <3>2. CASE GoesOn
      BY <1>1, <3>2 DEF GoesOn, Pumps, Fetches, Sends, Stops, SrcRec
    <3>3. CASE Credited
      BY <1>1, <3>3 DEF Credited, Pumps, Fetches, Sends, Stops, Stays, SrcRec
    <3>4. CASE Yields
      BY <1>1, <3>4 DEF Yields, Sends, SrcRec
    <3>5. CASE Finishes \/ Rests
      BY <1>1, <3>5 DEF Finishes, Rests, SrcRec
    <3>6. CASE src' = Released
      BY <1>1, <3>6, ReleasedIs
    <3> QED BY <1>4, <3>1, <3>2, <3>3, <3>4, <3>5, <3>6, SrcMoves
  <2>3. src'.at = "on" => src.at = "on"
    <3>1. CASE src' = src
      BY <3>1
    <3>2. CASE GoesOn
      BY <1>1, <3>2 DEF GoesOn, Pumps, Fetches, Sends, Stops, SrcRec
    <3>3. CASE Credited
      BY <1>1, <3>3 DEF Credited, Pumps, Fetches, Sends, Stops, Stays, SrcRec
    <3>4. CASE Yields
      BY <1>1, <3>4 DEF Yields, Sends, SrcRec
    <3>5. CASE Finishes \/ Rests
      BY <1>1, <3>5 DEF Finishes, Rests, SrcRec
    <3>6. CASE src' = Released
      BY <1>1, <3>6, ReleasedIs
    <3> QED BY <1>4, <3>1, <3>2, <3>3, <3>4, <3>5, <3>6, SrcMoves
  <2>4. src'.at = "reg" => j = 0
    BY <2>1, <2>2
  <2>5. j <= Window
    BY <1>1, <2>1
  <2>6. Alive' /\ src'.at = "on" /\ ~gin'.cancelled => j = Window
    <3>1. SUFFICES ASSUME Alive', src'.at = "on", ~gin'.cancelled PROVE j = Window
      OBVIOUS
    <3>2. Alive /\ src.at = "on" /\ ~gin.cancelled
      BY <2>3, <3>1, AliveBack, CancelledStays
    <3>3. i = Window
      BY <1>1, <1>2, <3>2 DEF InCredit
    <3>4. j = i
      BY <1>2, <2>0, <3>1
    <3> QED BY <3>3, <3>4
  <2> QED BY <1>2, <2>4, <2>5, <2>6 DEF InCredit
<1> QED BY <1>3, <1>4

-----------------------------------------------------------------------------
(* OutCredit. *)

\* The return gives out the window.
LEMMA OutflowReturns ==
  ASSUME StreamInv, Types', Steps, Returns
  PROVE  Outflow' = Window
<1>1. Types /\ out \in OutRec /\ ost \in OstRec /\ Window \in Nat
  BY NowTypes, StreamsAssumption DEF StreamInv
<1>2. PICK a, b, c, e \in Nat : a = OC /\ b = UL /\ c = OL /\ e = DC
  BY <1>1, FlowParts
<1>3. PICK a1, b1, c1, e1 \in Nat : a1 = OC' /\ b1 = UL' /\ c1 = OL' /\ e1 = DC'
  BY <1>1, FlowParts
<1>4. Outflow = a + b + c + e
  BY <1>1, <1>2, FlowParts
<1>5. Outflow' = a1 + b1 + c1 + e1
  BY <1>1, <1>3, FlowParts
<1>6. SUFFICES a1 + b1 + c1 + e1 = Window
  BY <1>4, <1>5
<1>7. run.phase = "over" => ~Alive'
  BY OverStays DEF Alive
<1>8. (UB' = UB => b1 = b) /\ (DC' = DC => e1 = e) /\ (ost'.buf = ost.buf => c1 = c)
        /\ (OC' = OC => a1 = a)
  BY <1>2, <1>3 DEF UL, OL
<1>9. ost'.buf = <<>> => c1 = 0
  <2>1. Len(<<>>) = 0
    OBVIOUS
  <2> QED BY <1>3, <2>1, BytesEmpty DEF OL
<1>10. down' = <<>> => e1 = 0
  BY <1>3, NoFrames DEF DC
<1>11. up' = <<>> => b1 = 0
  <2>1. Len(<<>>) = 0 /\ BytesIn(<<>>, "ochunk") = <<>>
    BY NoFrames
  <2> QED BY <1>3, <2>1 DEF UL, UB
<1>12. out.on = "no"
  BY DEF Returns, StreamInv, Phases, Talk
<1>13. a + b + c + e = 0
  BY <1>4, <1>12 DEF StreamInv, OutCredit
<1>14. b = 0 /\ c = 0 /\ e = 0
  BY <1>13
<1>15. a1 = Window
  BY <1>1, <1>3 DEF Returns, OutRec, OC
<1>16. b1 = b
  BY <1>8, Noted DEF Returns
<1>17. c1 = c /\ e1 = e
  BY <1>8 DEF Returns, DC
<1> QED BY <1>1, <1>14, <1>15, <1>16, <1>17

\* No other step gives out credit, and none loses any while the body flows.
LEMMA OutflowStep ==
  ASSUME StreamInv, Types', Steps, ~Returns
  PROVE  /\ Outflow' <= Outflow
         /\ Alive' /\ OutOpen' /\ ~ost'.cancelled => Outflow' = Outflow
<1>1. Types /\ out \in OutRec /\ ost \in OstRec /\ Window \in Nat
  BY NowTypes, StreamsAssumption DEF StreamInv
<1>2. PICK a, b, c, e \in Nat : a = OC /\ b = UL /\ c = OL /\ e = DC
  BY <1>1, FlowParts
<1>3. PICK a1, b1, c1, e1 \in Nat : a1 = OC' /\ b1 = UL' /\ c1 = OL' /\ e1 = DC'
  BY <1>1, FlowParts
<1>4. Outflow = a + b + c + e
  BY <1>1, <1>2, FlowParts
<1>5. Outflow' = a1 + b1 + c1 + e1
  BY <1>1, <1>3, FlowParts
<1>6. SUFFICES /\ a1 + b1 + c1 + e1 <= a + b + c + e
               /\ Alive' /\ OutOpen' /\ ~ost'.cancelled => a1 + b1 + c1 + e1 = a + b + c + e
  BY <1>4, <1>5
<1>7. run.phase = "over" => ~Alive'
  BY OverStays DEF Alive
<1>8. (UB' = UB => b1 = b) /\ (DC' = DC => e1 = e) /\ (ost'.buf = ost.buf => c1 = c)
        /\ (OC' = OC => a1 = a)
  BY <1>2, <1>3 DEF UL, OL
<1>9. ost'.buf = <<>> => c1 = 0
  <2>1. Len(<<>>) = 0
    OBVIOUS
  <2> QED BY <1>3, <2>1, BytesEmpty DEF OL
<1>10. down' = <<>> => e1 = 0
  BY <1>3, NoFrames DEF DC
<1>11. up' = <<>> => b1 = 0
  <2>1. Len(<<>>) = 0 /\ BytesIn(<<>>, "ochunk") = <<>>
    BY NoFrames
  <2> QED BY <1>3, <2>1 DEF UL, UB
<1>12. CASE Flushes
  <2>1. PICK d, r \in Piece :
          /\ Len(d) <= out.credit /\ out' = [out EXCEPT !.backlog = r, !.credit = @ - Len(d)]
          /\ UpGets(up, up', OutChunk(d))
    BY <1>12 DEF Flushes
  <2>2. ost' = ost /\ down' = down
    BY <1>12 DEF Flushes, DriveOnly, GuestOnly
  <2>3. PICK m \in Nat : m = Len(d)
    BY DEF Piece
  <2>4. m <= a /\ a1 = a - m
    BY <1>1, <1>2, <1>3, <2>1, <2>3 DEF OutRec, OC
  <2>5. UB' = UB \o d
    BY <1>1, <2>1, ChunkSent
  <2>6. PICK v \in Piece : v = UB
    BY <1>1, AmountsAre
  <2>7. Len(v \o d) = Len(v) + Len(d)
    BY PieceBoth
  <2>8. b1 = b + m
    BY <1>2, <1>3, <2>3, <2>5, <2>6, <2>7 DEF UL
  <2>9. c1 = c /\ e1 = e
    BY <1>8, <2>2 DEF DC
  <2>10. a1 + b1 + c1 + e1 = a + b + c + e /\ a1 + b1 + c1 + e1 <= a + b + c + e
    BY <2>4, <2>8, <2>9
  <2> QED BY <2>10
<1>13. CASE TakesChunk
  <2>1. PICK d \in Piece :
          /\ UpLoses(up, up', OutChunk(d))
          /\ Bytes(ost'.buf) = Bytes(ost.buf) \o d \/ (ost.cancelled /\ ost' = ost)
    BY <1>13 DEF TakesChunk
  <2>2. out' = out /\ down' = down
    BY <1>13 DEF TakesChunk, RouteOnly
  <2>3. PICK m \in Nat : m = Len(d)
    BY DEF Piece
  <2>4. UB = d \o UB'
    BY <2>1, OutChunkTaken
  <2>5. PICK v \in Piece : v = UB'
    BY AmountsNext
  <2>6. Len(d \o v) = Len(d) + Len(v)
    BY PieceBoth
  <2>7. b = m + b1
    BY <1>2, <1>3, <2>3, <2>4, <2>5, <2>6 DEF UL
  <2>8. a1 = a /\ e1 = e
    BY <1>8, <2>2 DEF OC, DC
  <2>9. CASE Bytes(ost'.buf) = Bytes(ost.buf) \o d
    <3>1. PICK w \in Piece : w = Bytes(ost.buf)
      BY <1>1, AmountsAre
    <3>2. Len(w \o d) = Len(w) + Len(d)
      BY PieceBoth
    <3>3. c1 = c + m
      BY <1>2, <1>3, <2>3, <2>9, <3>1, <3>2 DEF OL
    <3>4. a1 + b1 + c1 + e1 = a + b + c + e /\ a1 + b1 + c1 + e1 <= a + b + c + e
      BY <2>7, <2>8, <3>3
    <3> QED BY <3>4
  <2>10. CASE ost.cancelled /\ ost' = ost
    <3>1. c1 = c
      BY <1>8, <2>10
    <3>2. a1 + b1 + c1 + e1 <= a + b + c + e
      BY <2>7, <2>8, <3>1
    <3> QED BY <2>10, <3>2
  <2> QED BY <2>1, <2>9, <2>10
<1>14. CASE Serves
  <2>1. PICK d \in Piece : Bytes(ost.buf) = d \o Bytes(ost'.buf) /\ HostSaid(OutPull(Len(d)))
    BY <1>14 DEF Serves
  <2>2. out' = out /\ up' = up
    BY <1>14 DEF Serves
  <2>3. PICK m \in Nat : m = Len(d)
    BY DEF Piece
  <2>4. PICK v \in Piece : v = Bytes(ost'.buf)
    BY AmountsNext
  <2>5. Len(d \o v) = Len(d) + Len(v)
    BY PieceBoth
  <2>6. c = m + c1
    BY <1>2, <1>3, <2>1, <2>3, <2>4, <2>5 DEF OL
  <2>7. DC' = (IF run.phase = "over" THEN DC ELSE DC + Len(d))
    BY <2>1, OutPullSaid
  <2>8. e1 = (IF run.phase = "over" THEN e ELSE e + m)
    BY <1>2, <1>3, <2>3, <2>7
  <2>9. a1 = a /\ b1 = b
    BY <1>8, <2>2 DEF OC, UB
  <2>10. a1 + b1 + c1 + e1 <= a + b + c + e
           /\ (run.phase # "over" => a1 + b1 + c1 + e1 = a + b + c + e)
    BY <2>6, <2>8, <2>9
  <2> QED BY <1>7, <2>10
<1>15. CASE TakesGrant
  <2>1. PICK n \in Nat :
          /\ DownLoses(down, down', OutPull(n))
          /\ out' = [out EXCEPT !.credit = IF out.done THEN @ ELSE @ + n]
    BY <1>15 DEF TakesGrant
  <2>2. ost' = ost /\ up' = up
    BY <1>15 DEF TakesGrant, GuestOnly
  <2>3. e = e1 + n
    BY <1>2, <1>3, <2>1, OutPullGone
  <2>4. b1 = b /\ c1 = c
    BY <1>8, <2>2 DEF UB
  <2>5. CASE out.done
    <3>1. a1 = a /\ out'.done
      BY <1>1, <1>8, <2>1, <2>5 DEF OutRec, OC
    <3>2. a1 + b1 + c1 + e1 <= a + b + c + e
      BY <2>3, <2>4, <3>1
    <3> QED BY <3>1, <3>2 DEF OutOpen
  <2>6. CASE ~out.done
    <3>1. out'.credit = out.credit + n
      BY <1>1, <2>1, <2>6 DEF OutRec
    <3>2. a1 = a + n
      BY <1>2, <1>3, <3>1 DEF OC
    <3>3. a1 + b1 + c1 + e1 = a + b + c + e /\ a1 + b1 + c1 + e1 <= a + b + c + e
      BY <2>3, <2>4, <3>2
    <3> QED BY <3>3
  <2> QED BY <2>5, <2>6
<1>16. CASE Quits
  <2>1. ost'.buf = <<>> /\ ost'.cancelled /\ out' = out /\ up' = up
    BY <1>1, <1>16 DEF Quits, OstRec
  <2>2. DC' = DC
    <3>1. OutCancel.t \notin {"chunk", "opull"}
      BY FramesSay
    <3> QED BY <1>1, <1>16, <3>1, OtherSaid DEF Quits, DC
  <2>3. a1 = a /\ b1 = b /\ c1 = 0 /\ e1 = e
    BY <1>8, <1>9, <2>1, <2>2 DEF OC, UB
  <2>4. a1 + b1 + c1 + e1 <= a + b + c + e
    BY <2>3
  <2> QED BY <2>1, <2>4
<1>17. CASE Ending
  <2>1. out'.credit = 0 /\ down' = <<>> /\ ost' = ost /\ run'.phase = "over"
    BY <1>1, <1>17 DEF Ending, Swept, OutRec
  <2>2. b1 = b
    BY <1>8, <1>17, Noted DEF Ending
  <2>3. a1 = 0 /\ c1 = c /\ e1 = 0
    BY <1>3, <1>8, <1>10, <2>1 DEF OC
  <2>4. a1 + b1 + c1 + e1 <= a + b + c + e
    BY <2>2, <2>3
  <2>5. ~Alive'
    BY <2>1 DEF Alive
  <2> QED BY <2>4, <2>5
<1>18. CASE Cuts
  <2>1. out'.credit = 0 /\ down' = <<>> /\ ost' = ost /\ run'.phase = "over"
    BY <1>1, <1>18 DEF Cuts, Swept, OutRec
  <2>2. b1 = 0
    BY <1>11, <1>18 DEF Cuts
  <2>3. a1 = 0 /\ c1 = c /\ e1 = 0
    BY <1>3, <1>8, <1>10, <2>1 DEF OC
  <2>4. a1 + b1 + c1 + e1 <= a + b + c + e
    BY <2>2, <2>3
  <2>5. ~Alive'
    BY <2>1 DEF Alive
  <2> QED BY <2>4, <2>5
<1>19. CASE ~Flushes /\ ~TakesChunk /\ ~Serves /\ ~TakesGrant /\ ~Quits /\ ~Ending /\ ~Cuts
  <2>1. OC' = OC
    BY <1>19, OutCreditMoves
  <2>2. UB' = UB /\ DC' = DC
    BY <1>19, UpAmounts, DownAmounts
  <2>3. ost'.buf = ost.buf
    BY <1>19, OstKeeps
  <2>4. a1 = a /\ b1 = b /\ c1 = c /\ e1 = e
    BY <1>8, <2>1, <2>2, <2>3
  <2> QED BY <2>4
<1> QED BY <1>12, <1>13, <1>14, <1>15, <1>16, <1>17, <1>18, <1>19

\* OutCredit is kept.
LEMMA OutCreditStep ==
  ASSUME StreamInv, Types', Steps
  PROVE  OutCredit'
<1>1. OutCredit /\ Types /\ out \in OutRec /\ Window \in Nat
  BY NowTypes, StreamsAssumption DEF StreamInv
<1>2. PICK i, j \in Nat : i = Outflow /\ j = Outflow'
  BY <1>1, FlowParts
<1>3. CASE Returns
  <2>1. Outflow' = Window
    BY <1>3, OutflowReturns
  <2>2. out'.on # "no"
    BY <1>1, <1>3 DEF Returns, OutRec
  <2> QED BY <1>1, <2>1, <2>2 DEF OutCredit
<1>4. CASE ~Returns
  <2>0. Outflow' <= Outflow /\ (Alive' /\ OutOpen' /\ ~ost'.cancelled => Outflow' = Outflow)
    BY <1>4, OutflowStep
  <2>1. j <= i /\ i <= Window /\ (out.on = "no" => i = 0)
    BY <1>1, <1>2, <2>0 DEF OutCredit
  <2>2. out'.on = out.on
    BY <1>4, OnMoves
  <2>3. out'.on = "no" => j = 0
    BY <2>1, <2>2
  <2>4. j <= Window
    BY <1>1, <2>1
  <2>5. Alive' /\ OutOpen' /\ ~ost'.cancelled => j = Window
    <3>1. SUFFICES ASSUME Alive', OutOpen', ~ost'.cancelled PROVE j = Window
      OBVIOUS
    <3>2. Alive /\ OutOpen
      BY <2>2, <3>1, AliveBack, DoneStays DEF OutOpen
    <3>3. ~ost.cancelled
      <4>1. CASE Quits
        BY <1>1, <3>1, <4>1 DEF Quits, Types, OstRec
      <4> QED BY <3>1, <4>1, OstKeeps
    <3>4. i = Window
      BY <1>1, <1>2, <3>2, <3>3 DEF OutCredit
    <3>5. j = i
      BY <1>2, <2>0, <3>1
    <3> QED BY <3>4, <3>5
  <2> QED BY <1>2, <2>3, <2>4, <2>5 DEF OutCredit
<1> QED BY <1>3, <1>4

-----------------------------------------------------------------------------
(* OutWhole: the line of the returned body. *)

\* Two pieces give a piece.
LEMMA CatPiece ==
  ASSUME NEW a \in Piece, NEW b \in Piece
  PROVE  Cat(a, b) \in Piece
  BY PieceBoth DEF Cat

\* Concatenation of pieces is associative.
LEMMA Assoc ==
  ASSUME NEW a \in Piece, NEW b \in Piece, NEW c \in Piece
  PROVE  Cat(Cat(a, b), c) = Cat(a, Cat(b, c))
  BY CatAssoc DEF Piece

\* The front of what follows may go to the back of what precedes.
LEMMA Shift ==
  ASSUME NEW a \in Piece, NEW b \in Piece, NEW d \in Piece, NEW c \in Piece
  PROVE  Cat(Cat(a, b), Cat(d, c)) = Cat(Cat(a, Cat(b, d)), c)
<1>1. PICK p \in Piece : p = Cat(a, b)
  BY CatPiece
<1>2. Cat(p, Cat(d, c)) = Cat(Cat(p, d), c)
  BY Assoc
<1>3. Cat(p, d) = Cat(a, Cat(b, d))
  BY <1>1, Assoc
<1> QED BY <1>1, <1>2, <1>3

\* The empty piece is the unit of concatenation.
LEMMA NoneCat ==
  /\ Cat(<<>>, <<>>) = <<>>
  /\ \A x \in Piece : Cat(x, <<>>) = x /\ Cat(<<>>, x) = x
  BY NoneAfter DEF Cat

\* The bytes the host buffers.
OB == Bytes(ost.buf)

\* The bytes the guest buffers.
GB == Bytes(gin.buf)

\* The bytes the source holds.
SB == Bytes(src.prefix)

\* The lines are pieces.
LEMMA WholeAre ==
  ASSUME Types, NEW g \in Piece
  PROVE  Told(g) \in Piece /\ Line(g) \in Piece /\ Ahead \in Piece /\ Inside \in Piece
<1>1. /\ outGot \in Piece /\ Bytes(ost.buf) \in Piece /\ BytesIn(up, "ochunk") \in Piece
      /\ got \in Piece
      /\ out.backlog \in Piece /\ out.data \in Piece /\ Bytes(gin.buf) \in Piece
      /\ BytesIn(down, "chunk") \in Piece
  BY AmountsAre DEF Types, OutRec, UB, DB
<1>2. ASSUME NEW h \in Piece
      PROVE  Told(h) \in Piece /\ Line(h) \in Piece
  <2>1. PICK p \in Piece : p = h \o outGot
    BY <1>1, PieceBoth
  <2>2. PICK q \in Piece : q = p \o Bytes(ost.buf)
    BY <1>1, PieceBoth
  <2>3. PICK r \in Piece : r = q \o BytesIn(up, "ochunk")
    BY <1>1, PieceBoth
  <2>4. r = Told(h)
    BY <2>1, <2>2, <2>3 DEF Told
  <2>5. PICK s \in Piece : s = r \o out.backlog
    BY <1>1, PieceBoth
  <2>6. s \o out.data \in Piece
    BY <1>1, PieceBoth
  <2> QED BY <2>4, <2>5, <2>6 DEF Line
<1>3. Ahead \in Piece
  BY <1>1, <1>2 DEF Ahead
<1>4. PICK p \in Piece : p = Ahead \o Bytes(gin.buf)
  BY <1>1, <1>3, PieceBoth
<1>5. p \o BytesIn(down, "chunk") \in Piece
  BY <1>1, PieceBoth
<1> QED BY <1>2, <1>3, <1>4, <1>5 DEF Inside

\* What flows flowed, and no step has ended it.
LEMMA GoingBack ==
  ASSUME StreamInv, Types', Steps, Going'
  PROVE  /\ Going /\ run.phase # "over" /\ conn = "up"
         /\ ~Cuts /\ ~Ending /\ ~Quits /\ ~CutsOut /\ ~SaysEnd
<1>1. Alive /\ ~out.done
  BY AliveBack, DoneStays DEF Going
<1>2. ~Cuts /\ ~Ending
  BY DEF Going, Alive, Cuts, Ending, Swept
<1>3. out \in OutRec /\ ost \in OstRec
  BY NowTypes
<1>4. ~Quits /\ ~CutsOut /\ ~SaysEnd
  BY <1>3 DEF Going, Quits, CutsOut, SaysEnd, Hush, OutRec, OstRec
<1>5. ~ost.cancelled
  BY <1>4, OstKeeps DEF Going
<1> QED BY <1>1, <1>2, <1>4, <1>5 DEF Going, Alive

\* Told, by its parts.
LEMMA ToldIs ==
  ASSUME NEW g
  PROVE  /\ Told(g) = Cat(Cat(Cat(g, outGot), OB), UB)
         /\ Told(g)' = Cat(Cat(Cat(g, outGot'), OB'), UB')
  BY DEF Told, Cat, OB, UB

\* Only a flush tells more: taking a chunk and serving it move bytes along.
LEMMA ToldKeeps ==
  ASSUME StreamInv, Types', Steps, NEW g \in Piece, ~Flushes, ~Quits, ~Cuts, ~TakesChunk
           \/ ~ost.cancelled
  PROVE  Told(g)' = Told(g)
<1>1. /\ Types /\ outGot \in Piece /\ OB \in Piece /\ UB \in Piece
      /\ outGot' \in Piece /\ OB' \in Piece /\ UB' \in Piece
  BY AmountsAre, AmountsNext DEF Types, OB, StreamInv
<1>2. PICK w, b, u \in Piece : w = outGot /\ b = OB /\ u = UB
  BY <1>1
<1>3. PICK w1, b1, u1 \in Piece : w1 = outGot' /\ b1 = OB' /\ u1 = UB'
  BY <1>1
<1>4. Told(g) = Cat(Cat(Cat(g, w), b), u) /\ Told(g)' = Cat(Cat(Cat(g, w1), b1), u1)
  BY <1>2, <1>3, ToldIs
<1>5. CASE TakesChunk
  <2>1. PICK d \in Piece : UpLoses(up, up', OutChunk(d)) /\ OB' = OB \o d
    BY <1>5 DEF TakesChunk, OB
  <2>2. outGot' = outGot
    BY <1>5 DEF TakesChunk
  <2>3. UB = d \o UB'
    BY <2>1, OutChunkTaken
  <2>4. w1 = w /\ b1 = Cat(b, d) /\ u = Cat(d, u1)
    BY <1>2, <1>3, <2>1, <2>2, <2>3 DEF Cat
  <2>5. PICK p \in Piece : p = Cat(g, w)
    BY CatPiece
  <2>6. Cat(Cat(p, b), Cat(d, u1)) = Cat(Cat(p, Cat(b, d)), u1)
    BY Shift
  <2> QED BY <1>4, <2>4, <2>5, <2>6
<1>6. CASE Serves
  <2>1. PICK d \in Piece : OB = d \o OB' /\ outGot' = outGot \o d
    BY <1>6 DEF Serves, OB
  <2>2. UB' = UB
    BY <1>6 DEF Serves, UB
  <2>3. w1 = Cat(w, d) /\ b = Cat(d, b1) /\ u1 = u
    BY <1>2, <1>3, <2>1, <2>2 DEF Cat
  <2>4. Cat(Cat(g, w), Cat(d, b1)) = Cat(Cat(g, Cat(w, d)), b1)
    BY Shift
  <2> QED BY <1>4, <2>3, <2>4
<1>7. CASE ~TakesChunk /\ ~Serves
  <2>1. UB' = UB
    BY <1>7, UpAmounts
  <2>2. outGot' = outGot
    BY <1>7, GotMoves
  <2>3. OB' = OB
    BY <1>7, OstKeeps DEF OB
  <2> QED BY <1>2, <1>3, <1>4, <2>1, <2>2, <2>3
<1> QED BY <1>5, <1>6, <1>7

\* A flush tells what it sends.
LEMMA FlushedTold ==
  ASSUME StreamInv, Types', NEW g \in Piece, NEW d \in Piece, UpGets(up, up', OutChunk(d)), UNCHANGED <<ost, outGot>>
  PROVE  Told(g)' = Cat(Told(g), d)
<1>1. Types /\ outGot \in Piece /\ OB \in Piece /\ UB \in Piece
  BY AmountsAre DEF Types, OB, StreamInv
<1>2. PICK w, b, u \in Piece : w = outGot /\ b = OB /\ u = UB
  BY <1>1
<1>3. UB' = Cat(UB, d) /\ OB' = OB
  BY <1>1, ChunkSent DEF OB, Cat
<1>4. Told(g) = Cat(Cat(Cat(g, w), b), u)
  BY <1>2, ToldIs
<1>5. Told(g)' = Cat(Cat(Cat(g, w), b), Cat(u, d))
  BY <1>2, <1>3, ToldIs
<1>6. PICK p \in Piece : p = Cat(g, w)
  BY CatPiece
<1>7. PICK q \in Piece : q = Cat(p, b)
  BY CatPiece
<1>8. Cat(Cat(q, u), d) = Cat(q, Cat(u, d))
  BY Assoc
<1> QED BY <1>4, <1>5, <1>6, <1>7, <1>8

\* Without chunks in a queue there are no bytes in it.
LEMMA NoChunks ==
  ASSUME Types
  PROVE  (~Has(up, "ochunk") => UB = <<>>) /\ (~Has(down, "chunk") => DB = <<>>)
<1>1. up \in Seq(UpFrame) /\ down \in Seq(DownFrame)
  BY DEF Types
<1>2. \A f \in UpFrame : f.t = "ochunk" => f.d \in Seq(Nat)
  BY UpFields DEF Piece
<1>3. \A f \in DownFrame : f.t = "chunk" => f.d \in Seq(Nat)
  BY DownFields DEF Piece
<1>4. (\A f \in ToSet(up) : f.t # "ochunk") => UB = <<>>
  BY <1>1, <1>2, BytesType DEF UB
<1>5. (\A f \in ToSet(down) : f.t # "chunk") => DB = <<>>
  BY <1>1, <1>3, BytesType DEF DB
<1> QED BY <1>4, <1>5 DEF Has

\* Line, by its parts.
LEMMA LineIs ==
  ASSUME NEW g
  PROVE  /\ Line(g) = Cat(Cat(Told(g), out.backlog), out.data)
         /\ Line(g)' = Cat(Cat(Told(g)', out'.backlog), out'.data)
  BY DEF Line, Cat

\* Where there is nothing the line is empty.
LEMMA LineNone ==
  ASSUME NEW g \in Piece
  PROVE  /\ outGot = <<>> /\ OB = <<>> /\ UB = <<>> /\ out.backlog = <<>>
              /\ out.data = <<>> => Line(g) = g
         /\ outGot' = <<>> /\ OB' = <<>> /\ UB' = <<>> /\ out'.backlog = <<>>
              /\ out'.data = <<>> => Line(g)' = g
<1>1. Cat(g, <<>>) = g
  BY NoneCat
<1> QED BY <1>1, ToldIs, LineIs

\* Which steps move the backlog and what was pulled.
LEMMA DataMoves ==
  ASSUME StreamInv, Types', Steps
  PROVE  (out'.backlog = out.backlog /\ out'.data = out.data) \/ Flushes \/ Settles \/ Feeds
           \/ PullsChunk \/ OwnYields \/ CutsOut \/ Ending \/ Cuts
<1>1. out \in OutRec
  BY NowTypes
<1>2. out.pull # "chunk" => out.data = <<>>
  BY DEF StreamInv, Pulling
<1>3. CASE SourceSteps
  BY <1>1, <1>2, <1>3 DEF SourceSteps, GoesOn, Starts, Credited, Yields, Finishes, Rests,
     Forgets, Ignores, SourceOnly, OutRec, Hush
<1>4. CASE GuestSteps
  BY <1>1, <1>2, <1>4 DEF GuestSteps, Reads, Waits, Cancels, Drops, Feeds, Answers, Buffers,
     EndComes, GuestOnly, ChunkComes, OutRec, Hush
<1>5. CASE DriveSteps
  <2>1. CASE PullsWait
    BY <1>1, <1>2, <2>1 DEF PullsWait, PipeOnly, OutRec
  <2>2. CASE PullsEnd
    BY <1>1, <1>2, <2>2 DEF PullsEnd, PipeOnly, OutRec
  <2>3. CASE SaysEnd
    BY <1>1, <2>3 DEF SaysEnd, OutRec
  <2>4. CASE OwnWaits
    BY <1>1, <2>4 DEF OwnWaits, OutRec
  <2> QED BY <1>5, <2>1, <2>2, <2>3, <2>4 DEF DriveSteps
<1>6. CASE OutSteps
  BY <1>1, <1>2, <1>6 DEF OutSteps, Returns, TakesGrant, CancelLate, CutsOut, Ending, Cuts,
     GuestOnly, Swept, OutRec, Hush
<1>7. CASE RouteSteps
  BY <1>1, <1>2, <1>7 DEF RouteSteps, TakesChunk, TakesEnd, TakesBody, TakesResult, Attaches,
     Completes, SeesLoss, Serves, Turns, Quits, Idles, RouteOnly, OutRec, Hush
<1> QED BY <1>3, <1>4, <1>5, <1>6, <1>7 DEF Steps

\* What is pulled goes to the end of the line.
LEMMA LineAdds ==
  ASSUME StreamInv, Types', Steps, Going', NEW g \in Piece, NEW d \in Piece, ~Flushes,
         out.data = <<>>, out'.data = d, out'.backlog = out.backlog
  PROVE  Line(g)' = Cat(Line(g), d)
<1>1. Types /\ out \in OutRec
  BY NowTypes DEF StreamInv
<1>2. PICK t, b \in Piece : t = Told(g) /\ b = out.backlog
  BY <1>1, WholeAre DEF OutRec
<1>3. Told(g)' = t
  BY <1>2, GoingBack, ToldKeeps DEF Going
<1>4. PICK p \in Piece : p = Cat(t, b)
  BY CatPiece
<1>5. Line(g) = Cat(p, <<>>) /\ Line(g)' = Cat(p, d)
  BY <1>2, <1>3, <1>4, LineIs
<1>6. Cat(p, <<>>) = p
  BY NoneCat
<1> QED BY <1>5, <1>6

\* No other step moves the line.
LEMMA LineKeeps ==
  ASSUME StreamInv, Types', Steps, Going', NEW g \in Piece, ~Feeds, ~PullsChunk, ~OwnYields
  PROVE  Line(g)' = Line(g)
<1>1. Types /\ out \in OutRec /\ ~Quits /\ ~Cuts /\ ~Ending /\ ~CutsOut /\ ~ost.cancelled
  BY NowTypes, GoingBack DEF StreamInv, Going
<1>2. PICK t, b, x \in Piece : t = Told(g) /\ b = out.backlog /\ x = out.data
  BY <1>1, WholeAre DEF OutRec
<1>3. CASE Flushes
  <2>1. PICK d, r \in Piece :
          /\ out.backlog = d \o r /\ out' = [out EXCEPT !.backlog = r, !.credit = @ - Len(d)]
          /\ UpGets(up, up', OutChunk(d))
    BY <1>3 DEF Flushes
  <2>2. UNCHANGED <<ost, outGot>>
    BY <1>3 DEF Flushes, DriveOnly, GuestOnly
  <2>3. Told(g)' = Cat(t, d)
    BY <1>2, <2>1, <2>2, FlushedTold
  <2>4. b = Cat(d, r) /\ out'.backlog = r /\ out'.data = x
    BY <1>1, <1>2, <2>1 DEF Cat, OutRec
  <2>5. Cat(Cat(t, d), r) = Cat(t, Cat(d, r))
    BY Assoc
  <2> QED BY <1>2, <2>3, <2>4, <2>5, LineIs
<1>4. CASE Settles
  <2>1. Told(g)' = t
    BY <1>1, <1>2, <1>4, ToldKeeps DEF Settles, Flushes
  <2>2. b = <<>> /\ out'.backlog = x /\ out'.data = <<>>
    BY <1>1, <1>2, <1>4 DEF Settles, OutRec
  <2>3. Cat(t, <<>>) = t
    BY NoneCat
  <2>4. PICK p \in Piece : p = Cat(t, x)
    BY CatPiece
  <2>5. Cat(p, <<>>) = p
    BY NoneCat
  <2> QED BY <1>2, <2>1, <2>2, <2>3, <2>4, <2>5, LineIs
<1>5. CASE ~Flushes /\ ~Settles
  <2>1. Told(g)' = Told(g)
    BY <1>1, <1>5, ToldKeeps
  <2>2. out'.backlog = out.backlog /\ out'.data = out.data
    BY <1>1, <1>5, DataMoves
  <2> QED BY <2>1, <2>2, LineIs
<1> QED BY <1>3, <1>4, <1>5

\* The guest's own body grows only when it yields.
LEMMA MadeMoves ==
  ASSUME StreamInv, Types', Steps
  PROVE  out'.made = out.made \/ OwnYields
<1>1. out \in OutRec
  BY NowTypes
<1>2. CASE SourceSteps
  BY <1>1, <1>2 DEF SourceSteps, GoesOn, Starts, Credited, Yields, Finishes, Rests, Forgets,
     Ignores, SourceOnly, OutRec, Hush
<1>3. CASE GuestSteps
  BY <1>1, <1>3 DEF GuestSteps, Reads, Waits, Cancels, Drops, Feeds, Answers, Buffers, EndComes,
     GuestOnly, ChunkComes, OutRec, Hush
<1>4. CASE DriveSteps
  BY <1>1, <1>4 DEF DriveSteps, Flushes, Settles, SaysEnd, PullsChunk, PullsWait, PullsEnd,
     OwnWaits, OwnYields, DriveOnly, GuestOnly, PipeOnly, OwnOnly, OutRec, Hush
<1>5. CASE OutSteps
  BY <1>1, <1>5 DEF OutSteps, Returns, TakesGrant, CancelLate, CutsOut, Ending, Cuts, GuestOnly,
     Swept, OutRec, Hush
<1>6. CASE RouteSteps
  BY <1>1, <1>6 DEF RouteSteps, TakesChunk, TakesEnd, TakesBody, TakesResult, Attaches,
     Completes, SeesLoss, Serves, Turns, Quits, Idles, RouteOnly, OutRec, Hush
<1> QED BY <1>2, <1>3, <1>4, <1>5, <1>6 DEF Steps

\* The line is empty when the body is returned.
LEMMA LineReturns ==
  ASSUME StreamInv, Types', Returns, NEW g \in Piece
  PROVE  Line(g)' = g /\ got' = got /\ out.on = "no" /\ out'.made = 0
<1>1. Types /\ out \in OutRec /\ out.on = "no"
  BY NowTypes DEF StreamInv, Returns, Phases, Talk
<1>2. /\ outGot = <<>> /\ ost.buf = <<>> /\ out.backlog = <<>> /\ out.data = <<>>
      /\ ~Has(up, "ochunk")
      /\ out.made = 0
  BY <1>1 DEF StreamInv, NotYet
<1>3. UB = <<>>
  BY <1>1, <1>2, NoChunks
<1>4. UB' = UB
  BY Noted DEF Returns
<1>5. outGot' = <<>> /\ ost'.buf = <<>> /\ out'.backlog = <<>> /\ out'.data = <<>> /\ got' = got
        /\ out'.made = 0
  BY <1>1, <1>2 DEF Returns, OutRec
<1>6. OB' = <<>>
  BY <1>5, BytesEmpty DEF OB
<1>7. Line(g)' = g
  BY <1>3, <1>4, <1>5, <1>6, LineNone
<1> QED BY <1>1, <1>5, <1>7

\* OutWhole is kept.
LEMMA OutWholeStep ==
  ASSUME StreamInv, Types', Steps
  PROVE  OutWhole'
<1>1. SUFFICES ASSUME Going', out'.on = "own" PROVE Line(<<>>)' = Own(out'.made)
  BY DEF OutWhole
<1>2. PICK z \in Piece : z = <<>>
  BY NoBytes
<1>3. out \in OutRec /\ Types /\ Going
  BY NowTypes, <1>1, GoingBack DEF StreamInv
<1>4. SUFFICES Line(z)' = Own(out'.made)
  BY <1>2
<1>5. CASE Returns
  <2>1. Line(z)' = z /\ out'.made = 0
    BY <1>5, LineReturns
  <2>2. Own(0) = <<>>
    BY DEF Own
  <2> QED BY <1>2, <2>1, <2>2
<1>6. CASE OwnYields
  <2>1. PICK n \in Nat : out' = [out EXCEPT !.pull = "chunk", !.data = OwnChunk(n), !.made = @ + n] /\ OwnOnly
    BY <1>6 DEF OwnYields
  <2>2. out.on = "own" /\ out.data = <<>> /\ out.made \in Nat /\ up' = up
    BY <1>3, <2>1 DEF OwnOnly, OutRec
  <2>3. PICK m \in Nat : m = out.made
    BY <2>2
  <2>4. PICK c \in Piece : c = OwnChunk(n)
    BY <2>3, Runs DEF OwnChunk
  <2>5. out'.data = c /\ out'.backlog = out.backlog /\ out'.made = m + n
    BY <1>3, <2>1, <2>3, <2>4 DEF OutRec
  <2>6. ~Flushes
    BY <2>1 DEF OwnOnly, Flushes
  <2>7. Line(z)' = Cat(Line(z), c)
    BY <1>1, <2>2, <2>5, <2>6, LineAdds
  <2>8. Line(z) = Own(m)
    BY <1>2, <1>3, <2>2, <2>3 DEF StreamInv, OutWhole
  <2>9. Own(m) \o [i \in 1..n |-> 100 + m + i] = Own(m + n)
    BY Runs
  <2>10. c = [i \in 1..n |-> 100 + m + i]
    BY <2>3, <2>4 DEF OwnChunk
  <2>11. Cat(Own(m), c) = Own(m + n)
    BY <2>9, <2>10 DEF Cat
  <2> QED BY <2>5, <2>7, <2>8, <2>11
<1>7. CASE ~Returns /\ ~OwnYields
  <2>1. out'.on = out.on
    BY <1>7, OnMoves
  <2>2. ~Feeds /\ ~PullsChunk
    BY <1>1, <2>1 DEF Feeds, PullsChunk, PipeOnly
  <2>3. Line(z)' = Line(z)
    BY <1>1, <1>7, <2>2, LineKeeps
  <2>4. out'.made = out.made
    BY <1>7, MadeMoves
  <2>5. Line(z) = Own(out.made)
    BY <1>1, <1>2, <1>3, <2>1 DEF StreamInv, OutWhole
  <2> QED BY <2>3, <2>4, <2>5
<1> QED BY <1>5, <1>6, <1>7

-----------------------------------------------------------------------------
(* InWhole: the line of the request body. *)

\* Inside, by its parts.
LEMMA InsideIs ==
  Inside = Cat(Cat(Ahead, GB), DB) /\ Inside' = Cat(Cat(Ahead', GB'), DB')
  BY DEF Inside, Cat, GB, DB

\* They are pieces, before and after the step.
LEMMA WholeParts ==
  ASSUME Types, Types'
  PROVE  /\ Ahead \in Piece /\ GB \in Piece /\ DB \in Piece /\ Inside \in Piece /\ SB \in Piece
         /\ GB' \in Piece /\ DB' \in Piece /\ SB' \in Piece
<1>1. PICK z \in Piece : z = <<>>
  BY NoBytes
<1>2. Ahead \in Piece /\ Inside \in Piece
  BY WholeAre
<1> QED BY <1>2, AmountsAre, AmountsNext DEF GB, SB

\* The guest gets bytes only by a read, or its answer.
LEMMA GuestGot ==
  ASSUME StreamInv, Types', Steps
  PROVE  got' = got \/ Reads \/ Answers
<1>1. CASE SourceSteps
  BY <1>1 DEF SourceSteps, GoesOn, Starts, Credited, Yields, Finishes, Rests, Forgets, Ignores,
     SourceOnly
<1>2. CASE GuestSteps
  BY <1>2 DEF GuestSteps, Reads, Waits, Cancels, Drops, Feeds, Answers, Buffers, EndComes,
     GuestOnly, ChunkComes
<1>3. CASE DriveSteps
  BY <1>3 DEF DriveSteps, Flushes, Settles, SaysEnd, PullsChunk, PullsWait, PullsEnd, OwnWaits,
     OwnYields, DriveOnly, GuestOnly, PipeOnly, OwnOnly
<1>4. CASE OutSteps
  BY <1>4 DEF OutSteps, Returns, TakesGrant, CancelLate, CutsOut, Ending, Cuts, GuestOnly, Swept
<1>5. CASE RouteSteps
  BY <1>5 DEF RouteSteps, TakesChunk, TakesEnd, TakesBody, TakesResult, Attaches, Completes,
     SeesLoss, Serves, Turns, Quits, Idles, RouteOnly
<1> QED BY <1>1, <1>2, <1>3, <1>4, <1>5 DEF Steps

\* What has left the guest's buffer moves with a read, an answer or a pull.
LEMMA AheadKeeps ==
  ASSUME StreamInv, Types', Steps, Going', ~Reads, ~Answers, ~PullsChunk, ~Feeds
  PROVE  Ahead' = Ahead
<1>1. got' = got /\ Types /\ out \in OutRec
  BY GuestGot, NowTypes DEF StreamInv
<1>2. PICK g \in Piece : g = got
  BY NowTypes
<1>3. Line(got)' = Line(g)' /\ Line(got) = Line(g)
  BY <1>1, <1>2 DEF Line, Told
<1>4. CASE Returns
  <2>1. Line(g)' = g /\ out.on = "no"
    BY <1>4, LineReturns
  <2>2. Ahead = got
    BY <2>1 DEF Ahead
  <2>3. Ahead' = got'
    BY <1>1, <1>2, <1>3, <2>1 DEF Ahead
  <2> QED BY <1>1, <2>2, <2>3
<1>5. CASE ~Returns
  <2>1. out'.on = out.on
    BY <1>5, OnMoves
  <2>2. CASE out.on = "pipe"
    <3>1. ~OwnYields
      BY <2>2 DEF OwnYields, OwnOnly
    <3>2. Line(g)' = Line(g)
      BY <3>1, LineKeeps
    <3> QED BY <1>3, <2>1, <2>2, <3>2 DEF Ahead
  <2>3. CASE out.on # "pipe"
    BY <1>1, <2>1, <2>3 DEF Ahead
  <2> QED BY <2>2, <2>3
<1> QED BY <1>4, <1>5

\* An answered read puts its chunk at the end.
LEMMA AheadAnswered ==
  ASSUME StreamInv, Types', Steps, Going', NEW d \in Piece, ChunkComes(d), gin.pending,
         ~(out.on = "pipe" /\ out.pull = "pending"), out' = out, got' = got \o d, UB' = UB
  PROVE  Ahead' = Cat(Ahead, d)
<1>1. Types /\ UNCHANGED <<ost, outGot>>
  BY DEF ChunkComes, GuestOnly, StreamInv
<1>2. PICK g, h \in Piece : g = got /\ h = got'
  BY DEF Types, StreamInv
<1>3. CASE out.on = "pipe"
  <2>1. outGot = <<>> /\ OB = <<>> /\ UB = <<>> /\ out.backlog = <<>> /\ out.data = <<>>
    BY <1>3 DEF StreamInv, Asking, OB, UB
  <2>2. outGot' = <<>> /\ OB' = <<>> /\ UB' = <<>> /\ out'.backlog = <<>> /\ out'.data = <<>>
    BY <1>1, <2>1 DEF OB
  <2>3. Line(g) = g
    BY <2>1, LineNone
  <2>4. Line(h)' = h
    BY <2>2, LineNone
  <2>5. Ahead = Line(g) /\ Ahead' = Line(h)'
    BY <1>2, <1>3 DEF Ahead, Line, Told
  <2> QED BY <1>2, <2>3, <2>4, <2>5 DEF Cat
<1>4. CASE out.on # "pipe"
  BY <1>4 DEF Ahead, Cat
<1> QED BY <1>3, <1>4

\* So does a chunk that is pulled.
LEMMA AheadFed ==
  ASSUME StreamInv, Types', Steps, Going', NEW d \in Piece, out.on = "pipe", ~Flushes, ~Returns,
         out.pull # "chunk", out'.data = d, out'.backlog = out.backlog, got' = got
  PROVE  Ahead' = Cat(Ahead, d)
<1>1. PICK g \in Piece : g = got
  BY NowTypes
<1>2. out.data = <<>>
  BY DEF StreamInv, Pulling
<1>3. Line(g)' = Cat(Line(g), d)
  BY <1>2, LineAdds
<1>4. out'.on = "pipe"
  BY OnMoves
<1> QED BY <1>1, <1>3, <1>4 DEF Ahead, Line, Told

\* Only the pump moves what has left the source: the guest moves bytes along.
LEMMA InsideKeeps ==
  ASSUME StreamInv, Types', Steps, Going', ~gin'.cancelled, ~GoesOn, ~Starts, ~Credited, ~Yields
  PROVE  Inside' = Inside
<1>1. Types /\ out \in OutRec /\ gin \in GinRec /\ ~Cuts /\ ~Ending /\ ~CutsOut
  BY NowTypes, GoingBack DEF StreamInv
<1>2. PICK a, b, c \in Piece : a = Ahead /\ b = GB /\ c = DB
  BY <1>1, WholeParts
<1>3. PICK b1, c1 \in Piece : b1 = GB' /\ c1 = DB'
  BY <1>1, WholeParts
<1>4. Inside = Cat(Cat(a, b), c) /\ Inside' = Cat(Cat(Ahead', b1), c1)
  BY <1>2, <1>3, InsideIs
<1>5. ~gin.cancelled
  BY CancelledStays
<1>6. CASE Reads
  <2>1. PICK x \in Piece : GB = x \o GB' /\ got' = got \o x /\ down' = down /\ out' = out
    BY <1>6 DEF Reads, GB
  <2>2. out.on = "no"
    BY <1>6 DEF Reads, StreamInv, Phases, Talk
  <2>3. Ahead' = Cat(a, x)
    BY <1>2, <2>1, <2>2 DEF Ahead, Cat
  <2>4. b = Cat(x, b1) /\ c1 = c
    BY <1>2, <1>3, <2>1 DEF Cat, DB
  <2>5. Cat(Cat(a, x), b1) = Cat(a, Cat(x, b1))
    BY Assoc
  <2> QED BY <1>4, <2>3, <2>4, <2>5
<1>7. CASE PullsChunk
  <2>1. PICK x \in Piece : GB = x \o GB' /\ out' = [out EXCEPT !.pull = "chunk", !.data = x]
                             /\ PipeOnly
    BY <1>7 DEF PullsChunk, GB
  <2>2. out.on = "pipe" /\ out.pull = "none" /\ out.backlog = <<>> /\ down' = down /\ got' = got
          /\ run'.phase = run.phase /\ run.phase = "grace"
    BY <2>1 DEF PipeOnly, DriveOnly, GuestOnly, RunKeeps
  <2>3. ~Flushes /\ ~Returns
    BY <2>2 DEF Flushes, Returns
  <2>4. out'.data = x /\ out'.backlog = out.backlog
    BY <1>1, <2>1 DEF OutRec
  <2>5. Ahead' = Cat(a, x)
    BY <1>2, <2>2, <2>3, <2>4, AheadFed
  <2>6. b = Cat(x, b1) /\ c1 = c
    BY <1>2, <1>3, <2>1, <2>2 DEF Cat, DB
  <2>7. Cat(Cat(a, x), b1) = Cat(a, Cat(x, b1))
    BY Assoc
  <2> QED BY <1>4, <2>5, <2>6, <2>7
<1>8. CASE Feeds \/ Answers
  <2>1. PICK d \in Piece :
          /\ ChunkComes(d) /\ gin.pending /\ gin' = [gin EXCEPT !.pending = FALSE]
          /\ \/ /\ out.on = "pipe" /\ out.pull = "pending"
                     /\ out' = [out EXCEPT !.pull = "chunk", !.data = d] /\ got' = got
             \/ /\ ~(out.on = "pipe" /\ out.pull = "pending") /\ out' = out /\ got' = got \o d
          /\ UpGets(up, up', Pull(Len(d)))
    BY <1>8 DEF Feeds, Answers, ChunkComes
  <2>2. gin.buf = <<>> /\ gin'.buf = <<>>
    BY <1>1, <2>1 DEF StreamInv, Buffer, GinRec
  <2>3. b = <<>> /\ b1 = <<>>
    BY <1>2, <1>3, <2>2, BytesEmpty DEF GB
  <2>4. UB' = UB
    BY <2>1, PullSent
  <2>5. DB = d \o DB'
    BY <2>1, ChunkGone DEF ChunkComes
  <2>6. c = Cat(d, c1)
    BY <1>2, <1>3, <2>5 DEF Cat
  <2>7. Ahead' = Cat(a, d)
    <3>1. CASE out.on = "pipe" /\ out.pull = "pending"
                 /\ out' = [out EXCEPT !.pull = "chunk", !.data = d] /\ got' = got
      <4>1. out'.data = d /\ out'.backlog = out.backlog /\ out'.on = out.on
        BY <1>1, <3>1 DEF OutRec
      <4>2. ~Flushes
        <5>1. out.backlog = <<>>
          BY <3>1 DEF StreamInv, Pulling
        <5> QED BY <5>1 DEF Flushes
      <4>3. ~Returns
        BY <3>1 DEF Returns, StreamInv, Phases, Talk
      <4> QED BY <1>2, <3>1, <4>1, <4>2, <4>3, AheadFed
    <3>2. CASE ~(out.on = "pipe" /\ out.pull = "pending") /\ out' = out /\ got' = got \o d
      BY <1>2, <2>1, <2>4, <3>2, AheadAnswered
    <3> QED BY <2>1, <3>1, <3>2
  <2>8. Cat(a, <<>>) = a
    BY NoneCat
  <2>9. PICK p \in Piece : p = Cat(a, d)
    BY CatPiece
  <2>10. Cat(p, <<>>) = p
    BY NoneCat
  <2>11. Cat(Cat(a, d), c1) = Cat(a, Cat(d, c1))
    BY Assoc
  <2> QED BY <1>4, <2>3, <2>6, <2>7, <2>8, <2>9, <2>10, <2>11
<1>9. CASE Buffers
  <2>1. PICK d \in Piece : ChunkComes(d) /\ GB' = GB \o d /\ UNCHANGED <<out, up, got>>
    BY <1>9 DEF Buffers, ChunkComes, GB
  <2>2. Ahead' = Ahead
    BY <2>1 DEF ChunkComes, GuestOnly, Ahead, Line, Told
  <2>3. DB = d \o DB'
    BY <2>1, ChunkGone DEF ChunkComes
  <2>4. b1 = Cat(b, d) /\ c = Cat(d, c1)
    BY <1>2, <1>3, <2>1, <2>3 DEF Cat
  <2>5. Cat(Cat(a, b), Cat(d, c1)) = Cat(Cat(a, Cat(b, d)), c1)
    BY Shift
  <2> QED BY <1>2, <1>4, <2>2, <2>4, <2>5
<1>10. CASE ~Reads /\ ~PullsChunk /\ ~Feeds /\ ~Answers /\ ~Buffers
  <2>1. Ahead' = Ahead
    BY <1>10, AheadKeeps
  <2>2. ~Drops
    BY <1>5 DEF Drops
  <2>3. DB' = DB
    BY <1>1, <1>10, <2>2, DownAmounts
  <2>4. gin'.buf = gin.buf
    <3>1. CASE Cancels
      BY <1>1, <3>1 DEF Cancels, Cut, GinRec
    <3> QED BY <1>1, <1>10, <3>1, BufMoves
  <2>5. GB' = GB
    BY <2>4 DEF GB
  <2> QED BY <2>1, <2>3, <2>5, InsideIs
<1> QED BY <1>6, <1>7, <1>8, <1>9, <1>10

\* The source leaves the rest of the line alone.
LEMMA SourceApart ==
  ASSUME SourceOnly, UB' = UB
  PROVE  Ahead' = Ahead /\ GB' = GB
  BY DEF SourceOnly, Ahead, Line, Told, UB, GB

\* The pump moves bytes from the source into the line.
LEMMA PumpWhole ==
  ASSUME StreamInv, Types', SourceOnly, UB' = UB, run.phase # "over", NEW s, Pumps(s) \/ Sends(s)
           \/ Stays(s), s \in SrcRec
  PROVE  Cat(Inside', SB') = Cat(Inside, Bytes(s.prefix))
<1>1. Types
  BY DEF StreamInv
<1>2. PICK a, b, c, r \in Piece : a = Ahead /\ b = GB /\ c = DB /\ r = SB'
  BY <1>1, WholeParts
<1>3. Inside = Cat(Cat(a, b), c) /\ Inside' = Cat(Cat(a, b), DB')
  BY <1>2, InsideIs, SourceApart
<1>4. CASE Sends(s)
  <2>1. PICK d \in Piece : Bytes(s.prefix) = d \o SB' /\ HostSaid(Chunk(d))
    BY <1>4 DEF Sends, SB
  <2>2. DB' = DB \o d
    BY <1>1, <2>1, ChunkSaid
  <2>3. DB' = Cat(c, d) /\ Bytes(s.prefix) = Cat(d, r)
    BY <1>2, <2>1, <2>2 DEF Cat
  <2>4. PICK p \in Piece : p = Cat(a, b)
    BY CatPiece
  <2>5. PICK q \in Piece : q = Cat(p, c)
    BY CatPiece
  <2>6. Cat(Cat(p, c), d) = Cat(p, Cat(c, d))
    BY Assoc
  <2>7. Cat(Cat(q, d), r) = Cat(q, Cat(d, r))
    BY Assoc
  <2>8. Inside = q /\ Inside' = Cat(q, d)
    BY <1>3, <2>3, <2>4, <2>5, <2>6
  <2> QED BY <1>2, <2>3, <2>7, <2>8
<1>5. CASE down' = down /\ src'.prefix = s.prefix
  <2>1. DB' = DB /\ SB' = Bytes(s.prefix)
    BY <1>5 DEF DB, SB
  <2> QED BY <1>2, <1>3, <2>1
<1>6. Pumps(s) \/ Stays(s) => Sends(s) \/ (down' = down /\ src'.prefix = s.prefix)
  BY DEF Pumps, Fetches, Stops, Stays, SrcRec
<1> QED BY <1>4, <1>5, <1>6

\* The line is whole after the pump went on.
LEMMA PumpedWhole ==
  ASSUME StreamInv, Types', Steps, Going', ~gin'.cancelled, GoesOn \/ Starts
           \/ Credited, ~src'.done
  PROVE  Cat(Inside', SB') = Count(src'.read)
<1>1. Types /\ src \in SrcRec /\ run.phase # "over" /\ Going /\ ~gin.cancelled
  BY NowTypes, GoingBack, CancelledStays DEF StreamInv
<1>2. PICK s :
        /\ s \in SrcRec /\ s.prefix = src.prefix /\ s.read = src.read /\ s.done = src.done
        /\ Pumps(s) \/ Stays(s)
  <2>1. CASE GoesOn
    BY <1>1, <2>1 DEF GoesOn
  <2>2. CASE Starts
    <3>1. PICK s : s = [src EXCEPT !.at = "on", !.credit = Window]
      OBVIOUS
    <3>2. s \in SrcRec /\ Pumps(s)
      BY <1>1, <2>2, <3>1, SourcesFrom DEF Starts
    <3>3. s.prefix = src.prefix /\ s.read = src.read /\ s.done = src.done
      BY <1>1, <3>1 DEF SrcRec
    <3> QED BY <3>2, <3>3
  <2>3. CASE Credited
    <3>1. PICK n \in Nat : Pumps([src EXCEPT !.credit = @ + n])
                             \/ Stays([src EXCEPT !.credit = @ + n])
      BY <2>3 DEF Credited
    <3>2. PICK s : s = [src EXCEPT !.credit = @ + n]
      OBVIOUS
    <3>3. s \in SrcRec /\ (Pumps(s) \/ Stays(s))
      BY <1>1, <3>1, <3>2, SourcesFrom
    <3>4. s.prefix = src.prefix /\ s.read = src.read /\ s.done = src.done
      BY <1>1, <3>2 DEF SrcRec
    <3> QED BY <3>3, <3>4
  <2> QED BY <2>1, <2>2, <2>3
<1>3. SourceOnly
  BY DEF GoesOn, Starts, Credited
<1>4. UB' = UB
  <2>1. CASE Credited
    BY <2>1, PullTaken DEF Credited
  <2>2. CASE GoesOn \/ Starts
    BY <2>2 DEF GoesOn, Starts, UB
  <2> QED BY <2>1, <2>2
<1>5. src'.read = src.read /\ src'.done = src.done
  BY <1>2, PumpShape
<1>6. Cat(Inside', SB') = Cat(Inside, SB)
  BY <1>1, <1>2, <1>3, <1>4, PumpWhole DEF SB
<1>7. Cat(Inside, SB) = Count(src.read)
  BY <1>1, <1>5 DEF StreamInv, InWhole, Cat, SB
<1> QED BY <1>5, <1>6, <1>7

\* The line is whole after the source yielded.
LEMMA YieldedWhole ==
  ASSUME StreamInv, Types', Steps, Going', ~gin'.cancelled, Yields, ~src'.done
  PROVE  Cat(Inside', SB') = Count(src'.read)
<1>1. Types /\ src \in SrcRec /\ run.phase # "over" /\ Going /\ ~gin.cancelled
  BY NowTypes, GoingBack, CancelledStays DEF StreamInv
<1>2. PICK c \in Piece :
        /\ src.pump = "read" /\ c = [i \in 1..Len(c) |-> src.read + i]
        /\ Sends([src EXCEPT !.prefix = <<c>>, !.read = @ + Len(c)]) /\ up' = up /\ SourceOnly
  BY DEF Yields
<1>3. PICK s : s = [src EXCEPT !.prefix = <<c>>, !.read = @ + Len(c)]
  OBVIOUS
<1>4. PICK n \in Nat : n = Len(c)
  BY DEF Piece
<1>5. PICK m \in Nat : m = src.read
  BY <1>1 DEF SrcRec
<1>6. PICK w : w = <<c>>
  OBVIOUS
<1>7. w \in Seq(Piece)
  BY <1>6
<1>8. s = [src EXCEPT !.prefix = w, !.read = m + n]
  BY <1>1, <1>3, <1>4, <1>5, <1>6 DEF SrcRec
<1>9. s \in SrcRec /\ s.prefix = w /\ s.read = m + n /\ s.done = src.done
  <2>1. PICK k \in Nat : k = m + n
    OBVIOUS
  <2>2. s = [src EXCEPT !.prefix = w, !.read = k]
    BY <1>8, <2>1
  <2>3. s \in SrcRec /\ s.prefix = w /\ s.read = k
    BY <1>1, <1>7, <2>2 DEF SrcRec
  <2>4. s.done = src.done
    BY <1>1, <2>2 DEF SrcRec
  <2> QED BY <2>1, <2>3, <2>4
<1>10. Bytes(w) = c
  BY <1>6, JoinedOne DEF Bytes, Piece
<1>11. UB' = UB /\ Sends(s)
  BY <1>2, <1>3 DEF UB
<1>12. Cat(Inside', SB') = Cat(Inside, Bytes(s.prefix))
  BY <1>1, <1>2, <1>9, <1>11, PumpWhole
<1>13. src'.read = m + n /\ src'.done = src.done
  BY <1>9, <1>11, PumpShape
<1>14. src.prefix = <<>>
  BY <1>2 DEF StreamInv, Source
<1>15. SB = <<>>
  BY <1>14, BytesEmpty DEF SB
<1>16. Cat(Inside, SB) = Count(m)
  BY <1>1, <1>5, <1>13 DEF StreamInv, InWhole, Cat, SB
<1>17. Inside \in Piece
  BY <1>1, WholeParts
<1>18. Cat(Inside, <<>>) = Inside
  BY <1>17, NoneCat
<1>19. Count(m) \o [i \in 1..n |-> m + i] = Count(m + n)
  BY Runs
<1>20. c = [i \in 1..n |-> m + i]
  BY <1>2, <1>4, <1>5
<1>21. Cat(Count(m), c) = Count(m + n)
  BY <1>19, <1>20 DEF Cat
<1> QED BY <1>9, <1>10, <1>12, <1>13, <1>15, <1>16, <1>18, <1>21

\* The line is whole after every step.
LEMMA SourceWhole ==
  ASSUME StreamInv, Types', Steps, Going', ~gin'.cancelled, ~src'.done
  PROVE  Cat(Inside', SB') = Count(src'.read)
<1>1. Types /\ src \in SrcRec /\ Going /\ ~gin.cancelled
  BY NowTypes, GoingBack, CancelledStays DEF StreamInv
<1>2. CASE GoesOn \/ Starts \/ Credited
  BY <1>2, PumpedWhole
<1>3. CASE Yields
  BY <1>3, YieldedWhole
<1>4. CASE ~GoesOn /\ ~Starts /\ ~Credited /\ ~Yields
  <2>1. src' = src
    <3>1. ~Finishes
      BY <1>1 DEF Finishes, SrcRec
    <3>2. ~Rests
      <4>1. SUFFICES ASSUME Rests PROVE FALSE
        OBVIOUS
      <4>2. src.done
        BY <4>1 DEF Rests, StreamInv, Source
      <4>3. src'.done = src.done
        BY <1>1, <4>1 DEF Rests, SrcRec
      <4> QED BY <4>2, <4>3
    <3>3. src' # Released
      BY <1>1, ReleasedIs
    <3> QED BY <1>4, <3>1, <3>2, <3>3, SrcMoves
  <2>2. Inside' = Inside
    BY <1>4, InsideKeeps
  <2>3. Cat(Inside, SB) = Count(src.read)
    BY <1>1, <2>1 DEF StreamInv, InWhole, Cat, SB
  <2> QED BY <2>1, <2>2, <2>3 DEF SB
<1> QED BY <1>2, <1>3, <1>4

\* A clean end has the whole body before it.
LEMMA EndedWhole ==
  ASSUME StreamInv, Types', Steps, Going', ~gin'.cancelled, src'.read > 0,
         gin'.ended = "ok" \/ Said(down', "end", "ok")
  PROVE  Inside' = Count(SourceLen)
<1>1. Types /\ src \in SrcRec /\ gin \in GinRec /\ Going /\ ~gin.cancelled /\ src.read > 0
        /\ run.phase # "over"
  BY NowTypes, GoingBack, CancelledStays, ShapeStep DEF StreamInv
<1>2. CASE gin.ended = "ok" \/ Said(down, "end", "ok")
  <2>1. Inside = Count(SourceLen)
    BY <1>1, <1>2 DEF StreamInv, InWhole
  <2>2. src.done /\ src.pump \in {"off", "end"}
    BY <1>2 DEF StreamInv, Source, Said, Has
  <2>3. ~GoesOn /\ ~Starts /\ ~Credited /\ ~Yields
    BY <2>2, AtRest
  <2> QED BY <2>1, <2>3, InsideKeeps
<1>3. CASE gin.ended # "ok" /\ ~Said(down, "end", "ok")
  <2>1. gin'.ended # "ok"
    <3>1. SUFFICES ASSUME gin'.ended = "ok" PROVE FALSE
      OBVIOUS
    <3>2. EndComes
      BY <1>3, <3>1, EndedMoves
    <3>3. PICK how : DownLoses(down, down', End(how))
                       /\ gin' = [gin EXCEPT !.ended = how, !.pending = FALSE]
      BY <3>2 DEF EndComes
    <3>4. how = "ok"
      BY <1>1, <3>1, <3>3 DEF GinRec
    <3>5. End(how).t = "end" /\ End(how).how = how
      BY FramesSay
    <3>6. End(how) \in ToSet(down)
      BY <3>3 DEF DownLoses
    <3> QED BY <1>3, <3>4, <3>5, <3>6 DEF Said
  <2>2. Said(down', "end", "ok")
    BY <2>1
  <2>3. Finishes
    BY <1>3, <2>2, DownKinds DEF DownAdds
  <2>4. PICK how \in {"ok", "err"} :
          /\ how = "ok" => src.pump = "read" /\ (src.read = SourceLen \/ src.done)
          /\ HostSaid(End(how)) /\ up' = up /\ SourceOnly
    BY <2>3 DEF Finishes
  <2>5. End(how).t = "end" /\ End(how).how = how
    BY FramesSay
  <2>6. how = "ok"
    BY <1>3, <2>2, <2>4, <2>5, DownMore
  <2>7. ~src.done
    BY <1>1, <2>4, <2>6 DEF StreamInv, Source
  <2>8. src.prefix = <<>>
    BY <2>4, <2>6 DEF StreamInv, Source
  <2>9. SB = <<>>
    BY <2>8, BytesEmpty DEF SB
  <2>10. Cat(Inside, SB) = Count(SourceLen)
    BY <1>1, <2>4, <2>6, <2>7 DEF StreamInv, InWhole, Cat, SB
  <2>11. Inside \in Piece
    BY <1>1, WholeParts
  <2>12. Cat(Inside, <<>>) = Inside
    BY <2>11, NoneCat
  <2>13. UB' = UB
    BY <2>4 DEF UB
  <2>14. DB' = DB
    BY <1>1, <2>4, <2>5, OtherSaid
  <2>15. Inside' = Inside
    BY <2>4, <2>13, <2>14, SourceApart, InsideIs
  <2> QED BY <2>9, <2>10, <2>12, <2>15
<1> QED BY <1>2, <1>3

\* InWhole is kept.
LEMMA InWholeStep ==
  ASSUME StreamInv, Types', Steps
  PROVE  InWhole'
<1>1. SUFFICES ASSUME Going', ~gin'.cancelled
               PROVE  /\ ~src'.done => Inside' \o Bytes(src'.prefix) = Count(src'.read)
                      /\ src'.read > 0
                           /\ (gin'.ended = "ok" \/ Said(down', "end", "ok")) => Inside' = Count(SourceLen)
  BY DEF InWhole, Said
<1>2. ~src'.done => Inside' \o Bytes(src'.prefix) = Count(src'.read)
  BY <1>1, SourceWhole DEF Cat, SB
<1>3. src'.read > 0
        /\ (gin'.ended = "ok" \/ Said(down', "end", "ok")) => Inside' = Count(SourceLen)
  BY <1>1, EndedWhole
<1> QED BY <1>2, <1>3

-----------------------------------------------------------------------------
(* Clean. *)

\* A body that is done is told no more.
LEMMA ToldLater ==
  ASSUME StreamInv, Types', Steps, NEW g \in Piece, out.done, ~ost.cancelled, ~ost'.cancelled,
         Said(up', "oend", "ok") \/ ost'.ended = "ok"
  PROVE  Told(g)' = Told(g)
<1>1. ~Flushes
  BY DEF Flushes, DriveOnly
<1>2. ~Quits
  BY NowTypes DEF Quits, OstRec
<1>3. CASE Cuts
  <2>1. up' = <<>> /\ ost' = ost /\ outGot' = outGot
    BY <1>3 DEF Cuts
  <2>2. ost.ended = "ok"
    BY <2>1, KindsNone
  <2>3. ~Has(up, "ochunk") /\ Types
    BY <2>2 DEF StreamInv, Ends
  <2>4. UB = <<>>
    BY <2>3, NoChunks
  <2>5. UB' = <<>>
    BY <2>1, NoFrames DEF UB
  <2>6. OB' = OB
    BY <2>1 DEF OB
  <2> QED BY <2>1, <2>4, <2>5, <2>6, ToldIs
<1>4. CASE ~Cuts
  BY <1>1, <1>2, <1>4, ToldKeeps
<1> QED BY <1>3, <1>4

\* A body told whole stays so.
LEMMA CleanKept ==
  ASSUME StreamInv, Types', Steps, Said(up, "oend", "ok")
           \/ ost.ended = "ok", ~ost.cancelled, ~ost'.cancelled,
         Said(up', "oend", "ok") \/ ost'.ended = "ok"
  PROVE  /\ out'.on = "own" => Told(<<>>)' = Own(out'.made)
         /\ out'.on = "pipe" /\ ~gin'.cancelled => Told(got)' = Count(SourceLen)
              /\ gin'.ended = "ok"
<1>1. Types /\ out \in OutRec /\ gin \in GinRec
  BY NowTypes DEF StreamInv
<1>2. out.done
  <2>1. Said(up, "oend", "ok") => Has(up, "oend")
    BY DEF Said, Has
  <2> QED BY <2>1 DEF StreamInv, Ends
<1>3. out.on # "no"
  BY <1>2 DEF StreamInv, NotYet
<1>4. run.phase # "exec"
  BY <1>3 DEF StreamInv, Phases, Talk
<1>5. ~Returns /\ ~Reads /\ ~OwnYields
  BY <1>2, <1>4 DEF Returns, Reads, OwnYields, OwnOnly, DriveOnly
<1>6. out'.on = out.on /\ out'.made = out.made
  BY <1>5, OnMoves, MadeMoves
<1>7. CASE out.on = "own"
  <2>1. PICK z \in Piece : z = <<>>
    BY NoBytes
  <2>2. Told(z)' = Told(z)
    BY <1>2, ToldLater
  <2>3. Told(z) = Own(out.made)
    BY <1>7, <2>1 DEF StreamInv, Clean
  <2> QED BY <1>6, <1>7, <2>1, <2>2, <2>3
<1>8. CASE out.on = "pipe" /\ ~gin'.cancelled
  <2>1. ~gin.cancelled
    BY <1>8, CancelledStays
  <2>2. Told(got) = Count(SourceLen) /\ gin.ended = "ok"
    BY <1>8, <2>1 DEF StreamInv, Clean
  <2>3. ~Answers
    BY <2>2 DEF Answers, StreamInv, Buffer
  <2>4. got' = got
    BY <1>5, <2>3, GuestGot
  <2>5. PICK g \in Piece : g = got
    BY NowTypes
  <2>6. Told(g)' = Told(g)
    BY <1>2, ToldLater
  <2>7. Told(got)' = Told(g)' /\ Told(got) = Told(g)
    BY <2>4, <2>5 DEF Told
  <2>8. ~EndComes
    <3>1. SUFFICES ASSUME EndComes PROVE FALSE
      OBVIOUS
    <3>2. PICK how : DownLoses(down, down', End(how))
      BY <3>1 DEF EndComes
    <3>3. End(how).t = "end" /\ End(how) \in ToSet(down)
      BY <3>2, FramesSay DEF DownLoses
    <3>4. Has(down, "end")
      BY <3>3 DEF Has
    <3> QED BY <2>2, <3>4 DEF StreamInv, Source
  <2>9. gin'.ended = gin.ended
    BY <2>8, EndedMoves
  <2> QED BY <1>6, <1>8, <2>2, <2>6, <2>7, <2>9
<1> QED BY <1>3, <1>6, <1>7, <1>8

\* A body that ends cleanly is told whole.
LEMMA CleanBegins ==
  ASSUME StreamInv, Types', Steps, SaysEnd, out.pull = "eof", ~ost.cancelled
  PROVE  /\ out'.on = "own" => Told(<<>>)' = Own(out'.made)
         /\ out'.on = "pipe" /\ ~gin'.cancelled => Told(got)' = Count(SourceLen)
              /\ gin'.ended = "ok"
<1>1. Types /\ out \in OutRec /\ gin \in GinRec /\ src \in SrcRec
  BY NowTypes DEF StreamInv
<1>2. /\ out.backlog = <<>> /\ run.phase = "grace" /\ out.on # "no" /\ ~out.done /\ gin' = gin
      /\ got' = got
      /\ UNCHANGED <<ost, outGot>>
  BY DEF SaysEnd, DriveOnly, GuestOnly
<1>3. out.data = <<>>
  BY DEF StreamInv, Pulling
<1>4. out'.on = out.on /\ out'.made = out.made
  BY <1>1 DEF SaysEnd, OutRec
<1>5. Going
  BY <1>1, <1>2 DEF Going, Alive, StreamInv, Phases, Gone, Types
<1>6. UB' = UB
  BY Noted DEF SaysEnd
<1>7. ASSUME NEW g \in Piece
      PROVE  Told(g)' = Line(g)
  <2>1. PICK t \in Piece : t = Told(g)
    BY <1>1, WholeAre
  <2>2. OB' = OB
    BY <1>2 DEF OB
  <2>3. Told(g)' = t
    BY <1>2, <1>6, <2>1, <2>2, ToldIs
  <2>4. Cat(t, <<>>) = t
    BY NoneCat
  <2>5. Line(g) = Cat(Cat(t, <<>>), <<>>)
    BY <1>2, <1>3, <2>1, LineIs
  <2> QED BY <2>3, <2>4, <2>5
<1>8. CASE out.on = "own"
  <2>1. PICK z \in Piece : z = <<>>
    BY NoBytes
  <2>2. Told(z)' = Line(z)
    BY <1>7
  <2>3. Line(z) = Own(out.made)
    BY <1>5, <1>8, <2>1 DEF StreamInv, OutWhole
  <2> QED BY <1>4, <1>8, <2>1, <2>2, <2>3
<1>9. CASE out.on = "pipe" /\ ~gin.cancelled
  <2>1. gin.ended = "ok" /\ gin.buf = <<>>
    BY <1>9 DEF StreamInv, Eof
  <2>2. ~Has(down, "chunk")
    BY <2>1 DEF StreamInv, Source
  <2>3. src.read > 0
    BY <1>1, <1>9 DEF StreamInv, Source, SrcRec
  <2>4. Inside = Count(SourceLen)
    BY <1>5, <1>9, <2>1, <2>3 DEF StreamInv, InWhole
  <2>5. GB = <<>> /\ DB = <<>>
    BY <1>1, <2>1, <2>2, BytesEmpty, NoChunks DEF GB
  <2>6. PICK g \in Piece : g = got
    BY NowTypes
  <2>7. PICK a \in Piece : a = Line(g)
    BY <1>1, WholeAre
  <2>8. Ahead = a
    BY <1>9, <2>6, <2>7 DEF Ahead
  <2>9. Cat(a, <<>>) = a
    BY NoneCat
  <2>10. Inside = a
    BY <2>5, <2>8, <2>9, InsideIs
  <2>11. Told(g)' = a
    BY <1>7, <2>7
  <2>12. Told(got)' = Told(g)'
    BY <1>2, <2>6 DEF Told
  <2> QED BY <1>2, <1>4, <1>9, <2>1, <2>4, <2>10, <2>11, <2>12
<1> QED BY <1>1, <1>2, <1>4, <1>8, <1>9

\* Clean is kept.
LEMMA CleanStep ==
  ASSUME StreamInv, Types', Steps
  PROVE  Clean'
<1>1. SUFFICES ASSUME Said(up', "oend", "ok") \/ ost'.ended = "ok", ~ost'.cancelled
               PROVE  /\ out'.on = "own" => Told(<<>>)' = Own(out'.made)
                      /\ out'.on = "pipe" /\ ~gin'.cancelled => Told(got)' = Count(SourceLen)
                           /\ gin'.ended = "ok"
  BY DEF Clean, Said
<1>2. ~ost.cancelled
  <2>1. ~Quits
    BY <1>1, NowTypes DEF Quits, OstRec
  <2> QED BY <1>1, <2>1, OstKeeps
<1>3. CASE Said(up, "oend", "ok") \/ ost.ended = "ok"
  BY <1>1, <1>2, <1>3, CleanKept
<1>4. CASE ~Said(up, "oend", "ok") /\ ost.ended # "ok"
  <2>1. ost'.ended # "ok"
    <3>1. SUFFICES ASSUME ost'.ended = "ok" PROVE FALSE
      OBVIOUS
    <3>2. TakesEnd
      BY <1>4, <3>1, OstKeeps
    <3>3. PICK how : UpLoses(up, up', OutEnd(how)) /\ ost' = [ost EXCEPT !.ended = how]
      BY <3>2 DEF TakesEnd
    <3>4. how = "ok"
      BY <3>1, <3>3, NowTypes DEF OstRec
    <3> QED BY <1>4, <3>3, <3>4, EndTaken
  <2>2. SaysEnd /\ out.pull = "eof"
    BY <1>1, <1>4, <2>1, UpKinds DEF UpAdds
  <2> QED BY <1>2, <2>2, CleanBegins
<1> QED BY <1>3, <1>4

-----------------------------------------------------------------------------
(* The invariant holds, and what follows from it. *)

\* The types hold initially.
LEMMA StartTypes ==
  ASSUME Init
  PROVE  Types /\ Bounds
<1>1. PICK c : c = [i \in 1..Probe |-> i]
  OBVIOUS
<1>2. Probe \in Nat /\ Probe <= SourceLen /\ Probe > 0 /\ SourceLen \in Nat /\ OwnLen \in Nat
        /\ Rounds > 0 /\ Idle \in Nat
  BY StreamsAssumption
<1>3. c \in Piece
  BY <1>1, <1>2 DEF Piece
<1>4. PICK w : w = <<c>>
  OBVIOUS
<1>5. w \in Seq(Piece)
  BY <1>3, <1>4
<1>6. PICK e \in Seq(Piece) : e = <<>>
  BY NoBytes
<1>7. PICK z \in Piece : z = <<>>
  BY NoBytes
<1>8. src \in SrcRec /\ src.read <= SourceLen
  <2>1. \/ src = [at |-> "reg", prefix |-> w, read |-> Probe, credit |-> 0, pump |-> "off", done |-> FALSE]
        \/ src = [at |-> "gone", prefix |-> e, read |-> 0, credit |-> 0, pump |-> "off", done |-> TRUE]
    BY <1>1, <1>4, <1>6 DEF Init
  <2>2. CASE src = [at |-> "reg", prefix |-> w, read |-> Probe, credit |-> 0, pump |-> "off", done |-> FALSE]
    BY <1>2, <1>5, <2>2 DEF SrcRec
  <2>3. CASE src = [at |-> "gone", prefix |-> e, read |-> 0, credit |-> 0, pump |-> "off", done |-> TRUE]
    BY <1>2, <2>3 DEF SrcRec
  <2> QED BY <2>1, <2>2, <2>3
<1>9. gin \in GinRec
  <2>1. \/ gin = [buf |-> e, ended |-> "no", cancelled |-> FALSE, pending |-> FALSE]
        \/ gin = [buf |-> e, ended |-> "ok", cancelled |-> FALSE, pending |-> FALSE]
    BY <1>6 DEF Init
  <2>2. CASE gin = [buf |-> e, ended |-> "no", cancelled |-> FALSE, pending |-> FALSE]
    BY <2>2 DEF GinRec
  <2>3. CASE gin = [buf |-> e, ended |-> "ok", cancelled |-> FALSE, pending |-> FALSE]
    BY <2>3 DEF GinRec
  <2> QED BY <2>1, <2>2, <2>3
<1>10. out \in OutRec /\ out.made <= OwnLen
  <2>1. out = [on |-> "no", credit |-> 0, pull |-> "none", data |-> z, backlog |-> z, done |-> FALSE, made |-> 0]
    BY <1>7 DEF Init
  <2> QED BY <1>2, <2>1 DEF OutRec, Pulls
<1>11. run \in RunRec /\ run.rounds < Rounds
  BY <1>2 DEF Init, RunRec
<1>12. ost \in OstRec
  <2>1. ost = [buf |-> e, ended |-> "no", cancelled |-> FALSE, failed |-> FALSE]
    BY <1>6 DEF Init
  <2> QED BY <2>1 DEF OstRec
<1>13. down \in Seq(DownFrame) /\ up \in Seq(UpFrame)
  BY DEF Init
<1>14. entry \in {"run", "epilogue", "gone"} /\ conn \in {"up", "lost"} /\ cons \in ConsIn
  BY DEF Init, ConsIn
<1>15. age \in Nat /\ age <= Idle
  BY <1>2 DEF Init
<1>16. got \in Piece /\ outGot \in Piece
  BY <1>7 DEF Init
<1> QED BY <1>8, <1>9, <1>10, <1>11, <1>12, <1>13, <1>14, <1>15, <1>16 DEF Types, Bounds

\* The invariant holds initially.
LEMMA InitHolds ==
  ASSUME Init
  PROVE  StreamInv
<1>1. Types /\ Bounds
  BY StartTypes
<1>2. down = <<>> /\ up = <<>> /\ gin.buf = <<>> /\ ost.buf = <<>> /\ got = <<>> /\ outGot = <<>>
  BY DEF Init
<1>3. /\ \A k : ~Has(up, k) /\ ~Has(down, k)
      /\ \A k, h : ~Said(up, k, h) /\ ~Said(down, k, h)
      /\ ~Plain(up) /\ ~Body(up) /\ ToSet(down) = {}
  BY <1>2, KindsNone, NoFrames
<1>4. UB = <<>> /\ UC = 0 /\ DB = <<>> /\ DC = 0
  BY <1>2, NoFrames DEF UB, UC, DB, DC
<1>5. GB = <<>> /\ OB = <<>>
  BY <1>2, BytesEmpty DEF GB, OB
<1>6. /\ out.on = "no" /\ out.credit = 0 /\ out.pull = "none" /\ out.data = <<>>
      /\ out.backlog = <<>> /\ ~out.done /\ out.made = 0
      /\ run.phase = "exec" /\ run.turn = "no" /\ ~run.violated
      /\ entry = "run" /\ conn = "up" /\ cons = "none"
      /\ ost.ended = "no" /\ ~ost.cancelled /\ ~ost.failed /\ ~gin.pending /\ ~gin.cancelled
      /\ src.credit = 0 /\ src.pump = "off"
  BY DEF Init
<1>7. \/ src.at = "reg" /\ ~src.done /\ src.read = Probe
           /\ src.prefix = <<[i \in 1..Probe |-> i]>> /\ gin.ended = "no"
      \/ src.at = "gone" /\ src.done /\ src.read = 0
  <2>1. CASE /\ src = [at |-> "reg", prefix |-> <<[i \in 1..Probe |-> i]>>, read |-> Probe, credit |-> 0,
                       pump |-> "off", done |-> FALSE]
             /\ gin = [buf |-> <<>>, ended |-> "no", cancelled |-> FALSE, pending |-> FALSE]
    <3>1. PICK p : p = <<[i \in 1..Probe |-> i]>>
      OBVIOUS
    <3>2. src = [at |-> "reg", prefix |-> p, read |-> Probe, credit |-> 0, pump |-> "off", done |-> FALSE]
      BY <2>1, <3>1
    <3>3. src.at = "reg" /\ ~src.done /\ src.read = Probe /\ src.prefix = p
      BY <3>2
    <3>4. gin.ended = "no"
      BY <2>1
    <3> QED BY <3>1, <3>3, <3>4
  <2>2. CASE src = [at |-> "gone", prefix |-> <<>>, read |-> 0, credit |-> 0, pump |-> "off", done |-> TRUE]
    BY <2>2
  <2> QED BY <2>1, <2>2 DEF Init
<1>8. Probe \in Nat /\ Probe > 0 /\ Window \in Nat
  BY StreamsAssumption
<1>9. Phases
  BY <1>2, <1>3, <1>6 DEF Phases, Talk, Over, Gone
<1>10. InOrder
  BY <1>2, NoFrames DEF InOrder
<1>11. Source
  BY <1>3, <1>6, <1>7, <1>8 DEF Source
<1>12. Buffer /\ NotYet
  BY <1>2, <1>3, <1>6 DEF Buffer, NotYet
<1>13. Inflow = 0 /\ Outflow = 0
  <2>1. Len(<<>>) = 0
    OBVIOUS
  <2>2. Inflow = src.credit + Len(DB) + Len(GB) + UC
          /\ Outflow = out.credit + Len(UB) + Len(OB) + DC
    BY DEF Inflow, Outflow, UB, UC, DB, DC, GB, OB
  <2> QED BY <1>4, <1>5, <1>6, <2>1, <2>2
<1>14. InCredit /\ OutCredit
  BY <1>6, <1>7, <1>8, <1>13 DEF InCredit, OutCredit, OutOpen
<1>15. NoLostPump
  BY <1>6 DEF NoLostPump
<1>16. Sizes
  <2>1. ToSet(gin.buf) = {}
    BY <1>2, NoFrames
  <2> QED BY <1>3, <1>6, <2>1 DEF Sizes
<1>17. Pulling /\ Asking /\ OutWhole /\ Eof /\ Closed /\ Ends /\ Clean
  BY <1>3, <1>6 DEF Pulling, Asking, OutWhole, Eof, Closed, Ends, Clean
<1>18. InWhole
  <2>1. PICK z \in Piece : z = <<>>
    BY NoBytes
  <2>2. Inside = <<>>
    <3>1. Ahead = <<>>
      BY <1>2, <1>6 DEF Ahead
    <3> QED BY <1>4, <1>5, <3>1, InsideIs, NoneCat
  <2>3. src.read > 0 => gin.ended # "ok"
    BY <1>7
  <2>4. ~src.done => Inside \o Bytes(src.prefix) = Count(src.read)
    <3>1. SUFFICES ASSUME ~src.done PROVE Inside \o Bytes(src.prefix) = Count(src.read)
      OBVIOUS
    <3>2. PICK c : c = [i \in 1..Probe |-> i]
      OBVIOUS
    <3>3. c = Count(Probe) /\ src.prefix = <<c>> /\ src.read = Probe
      BY <1>7, <3>1, <3>2 DEF Count
    <3>4. c \in Piece
      BY <1>8, <3>3, Runs
    <3>5. Bytes(src.prefix) = c
      BY <3>3, <3>4, JoinedOne DEF Bytes, Piece
    <3>6. <<>> \o c = c
      BY <3>4, NoneAfter
    <3> QED BY <2>2, <3>3, <3>5, <3>6
  <2> QED BY <1>3, <2>3, <2>4 DEF InWhole
<1> QED BY <1>1, <1>6, <1>9, <1>10, <1>11, <1>12, <1>14, <1>15, <1>16, <1>17, <1>18 DEF StreamInv

\* A stutter is one of the steps.
LEMMA StutterIs ==
  ASSUME StreamInv, UNCHANGED vars
  PROVE  Types' /\ Bounds' /\ Steps
<1>1. Types'
  BY DEF StreamInv, Types, vars
<1>2. Bounds'
  BY DEF StreamInv, Bounds, vars
<1>3. Idles
  BY DEF StreamInv, Phases, vars, Idles, RunKeeps
<1> QED BY <1>1, <1>2, <1>3 DEF Steps, RouteSteps

\* Every step keeps the invariant.
LEMMA StepHolds ==
  ASSUME StreamInv, [Next]_vars
  PROVE  StreamInv'
<1>1. Types' /\ Bounds' /\ Steps
  BY StepsAre, StutterIs
<1>2. Phases' /\ InOrder' /\ Source' /\ Buffer' /\ NotYet'
  BY <1>1, PhasesStep, InOrderStep, SourceStep, BufferStep, NotYetStep
<1>3. InCredit' /\ OutCredit' /\ NoLostPump' /\ Sizes' /\ Pulling'
  BY <1>1, InCreditStep, OutCreditStep, NoLostPumpStep, SizesStep, PullingStep
<1>4. Asking' /\ InWhole' /\ OutWhole' /\ Ends' /\ Clean' /\ Eof' /\ Closed'
  BY <1>1, AskingStep, InWholeStep, OutWholeStep, EndsStep, CleanStep, EofStep, ClosedStep
<1>5. ~run'.violated
  BY <1>1, NotViolatedStep
<1> QED BY <1>1, <1>2, <1>3, <1>4, <1>5 DEF StreamInv

\* StreamInv is an invariant of the streams: credit and bytes are where it
\* says, in every interleaving of pump, guest, drive, router and consumer.
THEOREM StreamInvariant == Spec => []StreamInv
<1>1. Init => StreamInv
  BY InitHolds
<1>2. StreamInv /\ [Next]_vars => StreamInv'
  BY StepHolds
<1> QED BY <1>1, <1>2, PTL DEF Spec

\* What the sums say of each side's credit.
LEMMA FlowNow ==
  ASSUME StreamInv
  PROVE  /\ src.credit \in Nat /\ out.credit \in Nat /\ GL \in Nat /\ Window \in Nat
         /\ src.credit <= Window /\ out.credit <= Window /\ GL <= Window
<1>1. Types /\ Window \in Nat
  BY StreamsAssumption DEF StreamInv
<1>2. src.credit \in Nat /\ out.credit \in Nat
  BY NowTypes DEF SrcRec, OutRec
<1>3. DL \in Nat /\ GL \in Nat /\ UC \in Nat /\ UL \in Nat /\ OL \in Nat /\ DC \in Nat
  BY <1>1, AmountsAre DEF DL, GL, UL, OL
<1>4. Inflow = src.credit + DL + GL + UC /\ Outflow = out.credit + UL + OL + DC
  BY DEF Inflow, Outflow, DL, GL, UC, UL, OL, DC, DB, UB
<1>5. Inflow <= Window /\ Outflow <= Window
  BY DEF StreamInv, InCredit, OutCredit
<1>6. src.credit + DL + GL + UC <= Window /\ out.credit + UL + OL + DC <= Window
  BY <1>4, <1>5
<1>7. PICK a, b, c, d, e, f, g, h \in Nat :
        /\ a = src.credit /\ b = DL /\ c = GL /\ d = UC
        /\ e = out.credit /\ f = UL /\ g = OL /\ h = DC
  BY <1>2, <1>3
<1>8. a <= Window /\ c <= Window /\ e <= Window
  BY <1>1, <1>6, <1>7
<1> QED BY <1>1, <1>2, <1>3, <1>7, <1>8

\* TypeOK: every variable has its type, and no side ever holds more credit
\* than the window (u32 credit in OutStream and the pump).
THEOREM StreamTypes == Spec => []TypeOK
<1>1. StreamInv => TypeOK
  <2>1. SUFFICES ASSUME StreamInv PROVE TypeOK
    OBVIOUS
  <2>2. Types /\ Bounds
    BY <2>1 DEF StreamInv
  <2>3. Rounds \in Nat /\ Rounds > 0 /\ SourceLen \in Nat /\ OwnLen \in Nat /\ Idle \in Nat
    BY StreamsAssumption
  <2>4. src.credit \in 0..Window /\ out.credit \in 0..Window
    BY <2>1, FlowNow
  <2>5. src.read \in 0..SourceLen /\ out.made \in 0..OwnLen /\ run.rounds \in 0..(Rounds - 1)
          /\ age \in 0..Idle
    BY <2>2, <2>3 DEF Types, Bounds, SrcRec, OutRec, RunRec
  <2>6. /\ src.at \in {"reg", "on", "gone"} /\ src.pump \in {"off", "read", "write", "end"}
        /\ src.done \in BOOLEAN
        /\ gin.ended \in {"no", "ok", "err"} /\ gin.cancelled \in BOOLEAN
        /\ gin.pending \in BOOLEAN
    BY <2>2 DEF Types, SrcRec, GinRec
  <2>7. /\ out.on \in {"no", "pipe", "own"}
        /\ out.pull \in {"none", "pending", "chunk", "eof", "err"}
        /\ run.phase \in {"exec", "grace", "over"} /\ run.turn \in {"no", "drive", "scan"}
    BY <2>2 DEF Types, OutRec, RunRec, Pulls
  <2>8. /\ entry \in {"run", "epilogue", "gone"} /\ conn \in {"up", "lost"}
        /\ cons \in {"none", "decode", "idle", "waiting", "woken", "closed", "errored", "cancelled"}
    BY <2>2 DEF Types, ConsIn
  <2> QED BY <2>4, <2>5, <2>6, <2>7, <2>8 DEF TypeOK
<1> QED BY <1>1, StreamInvariant, PTL

\* FlowControl: the credit given out for a flowing body is the window, the
\* guest never buffers more than it, a source with credit has its pump
\* running, and a pipe holds at most one chunk beyond the window.
THEOREM FlowControlCorrect == Spec => []FlowControl
<1>1. StreamInv => FlowControl
  <2>1. SUFFICES ASSUME StreamInv PROVE FlowControl
    OBVIOUS
  <2>2. CreditConserved
    BY <2>1 DEF StreamInv, InCredit, OutCredit, Inflow, Outflow, Alive, CreditConserved
  <2>3. BufferWithinWindow
    BY <2>1, FlowNow DEF StreamInv, BufferWithinWindow, GL
  <2>4. NoLostPump
    BY <2>1 DEF StreamInv
  <2>5. Backpressure
    <3>1. SUFFICES ASSUME out.on = "pipe"
                   PROVE  Len(Bytes(gin.buf)) + Len(out.data) + Len(out.backlog) <= Window + MaxChunk
      BY DEF Backpressure
    <3>2. PICK a, b, c, w, m \in Nat : a = Len(Bytes(gin.buf)) /\ b = Len(out.data)
                                         /\ c = Len(out.backlog) /\ w = Window /\ m = MaxChunk
      <4>1. Len(out.data) \in Nat /\ Len(out.backlog) \in Nat
        BY <2>1, NowTypes DEF OutRec, Piece
      <4> QED BY <2>1, <4>1, FlowNow, StreamsAssumption DEF GL
    <3>3. b <= m /\ c <= m
      BY <2>1, <3>1, <3>2 DEF StreamInv, Sizes, Short
    <3>4. a <= w
      BY <2>1, <3>2, FlowNow DEF GL
    <3>5. b = 0 \/ c = 0
      <4>1. out.data = <<>> \/ out.backlog = <<>>
        BY <2>1 DEF StreamInv, Pulling
      <4>2. Len(<<>>) = 0
        OBVIOUS
      <4> QED BY <3>2, <4>1, <4>2
    <3>6. a + b + c <= w + m
      BY <3>3, <3>4, <3>5
    <3> QED BY <3>2, <3>6
  <2> QED BY <2>2, <2>3, <2>4, <2>5 DEF FlowControl
<1> QED BY <1>1, StreamInvariant, PTL

\* Every byte of the request body is somewhere on the line.
LEMMA NothingLostNow ==
  ASSUME StreamInv
  PROVE  NothingLost
<1>1. Types /\ out \in OutRec
  BY NowTypes DEF StreamInv
<1>2. PICK g, w, b, u, k, x, i, d, s \in Piece :
        /\ g = got /\ w = outGot /\ b = OB /\ u = UB /\ k = out.backlog /\ x = out.data
        /\ i = GB /\ d = DB /\ s = SB
  <2>1. got \in Piece /\ outGot \in Piece /\ out.backlog \in Piece /\ out.data \in Piece
    BY <1>1 DEF Types, OutRec
  <2>2. OB \in Piece /\ UB \in Piece /\ GB \in Piece /\ DB \in Piece /\ SB \in Piece
    BY <1>1, AmountsAre DEF OB, GB, SB
  <2> QED BY <2>1, <2>2
<1>3. SUFFICES ASSUME Going, src.at # "gone", ~gin.cancelled,
                      NEW p, p = IF out.on = "pipe" THEN Cat(Cat(Cat(Cat(w, b), u), k), x) ELSE <<>>
               PROVE  Cat(Cat(Cat(Cat(g, p), i), d), s) = Count(src.read)
  BY <1>2 DEF NothingLost, Going, Alive, Cat, Count, OB, UB, GB, DB, SB
<1>4. ~src.done
  BY <1>3 DEF StreamInv, Source
<1>5. Cat(Inside, s) = Count(src.read)
  BY <1>2, <1>3, <1>4 DEF StreamInv, InWhole, Cat, SB
<1>6. Inside = Cat(Cat(Ahead, i), d)
  BY <1>2, InsideIs
<1>7. Ahead = Cat(g, p)
  <2>1. CASE out.on = "pipe"
    <3>1. Ahead = Line(g)
      BY <1>2, <2>1 DEF Ahead
    <3>2. Line(g) = Cat(Cat(Cat(Cat(Cat(g, w), b), u), k), x)
      BY <1>2, ToldIs, LineIs
    <3>3. PICK p1 \in Piece : p1 = Cat(w, b)
      BY CatPiece
    <3>4. PICK p2 \in Piece : p2 = Cat(p1, u)
      BY CatPiece
    <3>5. PICK p3 \in Piece : p3 = Cat(p2, k)
      BY CatPiece
    <3>6. Cat(Cat(g, w), b) = Cat(g, p1)
      BY <3>3, Assoc
    <3>7. Cat(Cat(g, p1), u) = Cat(g, p2)
      BY <3>4, Assoc
    <3>8. Cat(Cat(g, p2), k) = Cat(g, p3)
      BY <3>5, Assoc
    <3>9. Cat(Cat(g, p3), x) = Cat(g, Cat(p3, x))
      BY Assoc
    <3> QED BY <1>3, <2>1, <3>1, <3>2, <3>3, <3>4, <3>5, <3>6, <3>7, <3>8, <3>9
  <2>2. CASE out.on # "pipe"
    <3>1. Cat(g, <<>>) = g
      BY NoneCat
    <3> QED BY <1>2, <1>3, <2>2, <3>1 DEF Ahead
  <2> QED BY <2>1, <2>2
<1> QED BY <1>5, <1>6, <1>7

\* A consumer that closes has all of the body.
LEMMA CleanEndNow ==
  ASSUME StreamInv
  PROVE  CleanEndIsWhole
<1>1. SUFFICES ASSUME cons = "closed"
               PROVE  /\ out.on = "own" => outGot = Own(out.made)
                      /\ out.on = "pipe" /\ ~gin.cancelled => got \o outGot = Count(SourceLen)
  BY DEF CleanEndIsWhole, Own, Count
<1>2. ost.ended = "ok" /\ ~ost.cancelled /\ ost.buf = <<>>
  BY <1>1 DEF StreamInv, Closed
<1>3. OB = <<>>
  BY <1>2, BytesEmpty DEF OB
<1>4. ~Has(up, "ochunk") /\ Types
  BY <1>2 DEF StreamInv, Ends
<1>5. UB = <<>>
  BY <1>4, NoChunks
<1>6. PICK g, w, z \in Piece : g = got /\ w = outGot /\ z = <<>>
  BY <1>4, NoBytes DEF Types
<1>7. ASSUME NEW h \in Piece
      PROVE  Told(h) = Cat(h, w)
  <2>1. PICK p \in Piece : p = Cat(h, w)
    BY CatPiece
  <2>2. Cat(p, <<>>) = p
    BY NoneCat
  <2>3. Told(h) = Cat(Cat(p, <<>>), <<>>)
    BY <1>3, <1>5, <1>6, <2>1, ToldIs
  <2> QED BY <2>1, <2>2, <2>3
<1>8. Told(z) = w
  <2>1. Cat(<<>>, w) = w
    BY NoneCat
  <2> QED BY <1>6, <1>7, <2>1
<1>9. Told(g) = got \o outGot
  BY <1>6, <1>7 DEF Cat
<1>10. out.on = "own" => Told(z) = Own(out.made)
  BY <1>2, <1>6 DEF StreamInv, Clean
<1>11. out.on = "pipe" /\ ~gin.cancelled => Told(g) = Count(SourceLen)
  BY <1>2, <1>6 DEF StreamInv, Clean
<1> QED BY <1>6, <1>8, <1>9, <1>10, <1>11

\* BodyDelivered: no byte of a body is lost, doubled or reordered between the
\* source, the guest and the consumer, and a consumer that sees a clean end
\* has seen the whole body.
THEOREM BodyDeliveredCorrect == Spec => []BodyDelivered
<1>1. StreamInv => BodyDelivered
  BY NothingLostNow, CleanEndNow DEF BodyDelivered
<1> QED BY <1>1, StreamInvariant, PTL

\* ClosesOnce: the returned body ends once, nothing of it follows its end, and
\* its outcome comes before the completion of the run.
THEOREM ClosesOnceCorrect == Spec => []ClosesOnce
<1>1. StreamInv => ClosesOnce
  <2>1. SUFFICES ASSUME StreamInv PROVE ClosesOnce
    OBVIOUS
  <2>2. up \in Seq(UpFrame)
    BY <2>1, NowTypes
  <2>3. ASSUME NEW i \in 1..Len(up), NEW j \in 1..Len(up), up[i].t = "oend", i < j
        PROVE  up[j].t \notin {"ochunk", "oend"}
    <3>1. up[i] \in UpFrame /\ up[j] \in UpFrame
      BY <2>2
    <3>2. <<up[i], up[j]>> \in UBefore
      BY <2>1, <2>3 DEF StreamInv, InOrder, Ordered
    <3>3. UPair(up[i], up[j])
      BY <3>1, <3>2, BeforeIs
    <3> QED BY <2>3, <3>3 DEF UPair
  <2>4. ASSUME ost.ended # "no", NEW i \in 1..Len(up)
        PROVE  up[i].t \notin {"ochunk", "oend"}
    <3>1. ~Has(up, "ochunk") /\ ~Has(up, "oend")
      BY <2>1, <2>4 DEF StreamInv, Ends
    <3>2. up[i] \in ToSet(up)
      BY <2>2 DEF ToSet
    <3> QED BY <3>1, <3>2 DEF Has
  <2>5. OneOutcome
    BY <2>3, <2>4 DEF OneOutcome
  <2>6. OutcomeBeforeComplete
    BY <2>1 DEF StreamInv, Ends, OutcomeBeforeComplete
  <2> QED BY <2>5, <2>6 DEF ClosesOnce
<1> QED BY <1>1, StreamInvariant, PTL
=============================================================================
