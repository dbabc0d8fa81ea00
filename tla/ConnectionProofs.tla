-------------------------- MODULE ConnectionProofs --------------------------
(***************************************************************************)
(* Machine-checked proof about Connection, for any calls, ids and peers:   *)
(* every frame reaches what it is about.  A Terminate reaches its own run  *)
(* or none, an answer finds its caller in the phase it is for, a reply     *)
(* without an id finds the request it answers, a bridge response resolves  *)
(* a call of its own guest, and the routing tables, the timers and the     *)
(* grace count are what the calls' states say.                             *)
(*                                                                         *)
(* The invariant ConnInv ties the two ends to the two streams between them: *)
(* each frame on its way constrains the state at the end that wrote it (the *)
(* id is the caller's, the caller still waits, the run has gone as far as  *)
(* the frame says), two frames in the same stream never contradict each    *)
(* other (SBefore, HBefore), the stats replies and requests on their way   *)
(* are the waiters in order, and a bridge call id belongs to one run       *)
(* wherever it is spoken of.                                               *)
(*                                                                         *)
(* The proof first says of every action what it does to the parts ConnInv  *)
(* speaks of (the Shapes), then goes through ConnInv part by part, over the *)
(* shapes.                                                                 *)
(***************************************************************************)
EXTENDS Connection, SequencingProofs

(* The invariant. *)

\* What the host may have written to the runtime.
ToServerFrame ==
  [t : {"Authenticate", "Close"}] \cup [t : {"Precompile", "Stats"}, c : Calls]
  \cup [t : {"Run"}, id : Ids, c : Calls] \cup [t : {"Terminate"}, id : Ids, c : Calls, mode : Modes]
  \cup [t : {"BridgeResponse"}, id : Ids, c : Calls, n : 1..MaxCallId]

\* What the runtime may have written to the host.
ToHostFrame ==
  [t : {"Hello"}, status : {"ok", "version", "format"}] \cup [t : {"PrecompileResult", "StatsResult"}, c : Calls]
  \cup [t : {"Result", "RunComplete"}, id : Ids, c : Calls, bg : BOOLEAN, again : BOOLEAN]
  \cup [t : {"BridgeCall"}, id : Ids, c : Calls, n : 1..MaxCallId]

\* The types, with the frames of both streams.
Types ==
  /\ peer \in Peers /\ hs \in {"auth", "ready", "failed"}
  /\ st \in [Calls -> {"idle", "open", "grace", "done", "failed"}]
  /\ idOf \in [Calls -> 0..MaxId] /\ nextRunId \in 0..MaxId
  /\ runs \in [Ids -> Calls \cup {NoCall}] /\ precompiles \subseteq Calls /\ controls \in Seq(Calls)
  /\ written \subseteq Calls
  /\ fired \subseteq Calls \X Modes /\ listening \subseteq Calls \X Modes
  /\ timer \subseteq Calls /\ graceRuns \in Int
  /\ handlers \subseteq [id : Ids, c : Calls, n : 1..MaxCallId]
  /\ sock \in {"open", "destroyed"} /\ reader \in {"open", "closed", "ended"}
  /\ disposed \in BOOLEAN
  /\ toServer \in Seq(ToServerFrame) /\ toHost \in Seq(ToHostFrame)
  /\ demux \in {"handshake", "serving", "ended"}
  /\ routes \in [Ids -> Calls \cup {NoCall}]
  /\ run \in [Calls -> {"none", "running", "posted", "ending", "closing", "swept", "over"}]
  /\ told \subseteq Calls /\ waiting \in [Calls -> SUBSET (1..MaxCallId)]
  /\ lastCallId \in 0..MaxCallId

\* The phases of a run the runtime has taken up and not completed.
Going == {"running", "posted", "ending", "closing", "swept"}

\* The frames to the host that are about a run.
RunTypes == {"Result", "RunComplete", "BridgeCall"}

\* A frame after which the runtime says nothing more about its run.
Final(f) == f.t = "RunComplete" \/ (f.t = "Result" /\ f.bg = FALSE)

\* Before the handshake is over nothing is called, handled or written back; a
\* router that has stopped has no open socket.
Quiet ==
  /\ sock = "open" => reader = "open"
  /\ hs # "ready" => handlers = {} /\ \A c \in Calls : st[c] = "idle"
  /\ demux = "handshake" => hs # "ready" /\ toHost = <<>>
  /\ ReadyIsCompatible

\* What the phase of call c says of its id, of its write and of its run.
CallShape(c) ==
  /\ st[c] = "idle" => idOf[c] = 0 /\ c \notin written /\ run[c] = "none"
  /\ run[c] # "none" => c \in written /\ idOf[c] # 0
  /\ st[c] = "open" /\ c \notin written => idOf[c] # 0
  /\ st[c] = "grace" => idOf[c] # 0

\* A run its caller awaits is in the router's table, under its id.
Registered(c) == st[c] \in {"open", "grace"} /\ idOf[c] # 0 => runs[idOf[c]] = c

\* Only a run that its caller awaits has a grace timer or an abort listener.
Wired(c) ==
  /\ c \in timer => st[c] = "open" /\ idOf[c] # 0
  /\ \A m \in Modes : <<c, m>> \in listening => st[c] \in {"open", "grace"} /\ idOf[c] # 0

\* A waiter for a reply without an id is one request, of one kind, that is
\* open.
Asked(c) ==
  /\ c \in precompiles => st[c] = "open" /\ idOf[c] = 0 /\ c \notin ToSet(controls)
  /\ c \in ToSet(controls) => st[c] = "open" /\ idOf[c] = 0

\* An entry of the router's table is a run its caller awaits, under its id.
Entered(i) == runs[i] # NoCall => idOf[runs[i]] = i /\ st[runs[i]] \in {"open", "grace"}

\* What the host keeps is consistent.
HostShape ==
  /\ \A c \in Calls : CallShape(c)
  /\ \A c \in Calls : Registered(c)
  /\ \A c \in Calls : Wired(c)
  /\ \A c \in Calls : Asked(c)
  /\ \A i \in Ids : Entered(i)
  /\ IsInjective(controls)

\* A route is of a run in progress, under its id.
Routed(i) ==
  routes[i] # NoCall => idOf[routes[i]] = i /\ run[routes[i]] \in {"running", "posted"} /\ demux = "serving"

\* A run in progress has its route, and a caller that waits for as much as the
\* run may still say.
Progress(c) ==
  /\ demux = "serving" /\ run[c] \in {"running", "posted"} => routes[idOf[c]] = c
  /\ reader # "ended" /\ run[c] \in Going => st[c] \in {"open", "grace"}
  /\ reader # "ended" /\ run[c] \in {"running", "ending"} => st[c] = "open"

\* What the runtime keeps is consistent.
ServerShape ==
  /\ \A i \in Ids : Routed(i)
  /\ \A c \in Calls : Progress(c)

\* A Run on its way: its run has not begun, its id is free, and its caller
\* waits.
RunOk(f) == f.t = "Run" =>
  /\ f.id = idOf[f.c] /\ run[f.c] = "none" /\ routes[f.id] = NoCall /\ st[f.c] # "idle"
  /\ (f.c \in written \/ sock = "open") /\ reader # "ended" => st[f.c] = "open"

\* A Terminate on its way: its id is its own run's or nobody's.
TerminateOk(f) == f.t = "Terminate" => f.id = idOf[f.c] /\ routes[f.id] \in {NoCall, f.c} /\ st[f.c] # "idle"

\* A Precompile on its way: its waiter is there, and it has not been answered.
PrecompileOk(f) == f.t = "Precompile" /\ sock = "open" =>
  f.c \in precompiles /\ \A g \in ToSet(toHost) : g.t = "PrecompileResult" => g.c # f.c

\* What a frame f to the runtime says of a frame g behind it: no second Run
\* under an id, no Terminate of an other run under it, no Precompile twice.
SPair(f, g) ==
  /\ f.t = "Run" /\ g.t = "Run" => f.id # g.id
  /\ f.t = "Run" /\ g.t = "Terminate" => (f.id = g.id => f.c = g.c)
  /\ f.t = "Precompile" /\ g.t = "Precompile" => f.c # g.c

\* The order of frames to the runtime, as a relation.
SBefore == {p \in ToServerFrame \X ToServerFrame : SPair(p[1], p[2])}

\* Every frame on its way to the runtime is fit to arrive.
ServerWire ==
  /\ hs # "ready" => \A f \in ToSet(toServer) : f.t = "Authenticate"
  /\ \A f \in ToSet(toServer) : RunOk(f)
  /\ \A f \in ToSet(toServer) : TerminateOk(f)
  /\ \A f \in ToSet(toServer) : PrecompileOk(f)
  /\ Ordered(toServer, SBefore)

\* A Hello that says ok is of a compatible runtime.
HelloOk(f) == f.t = "Hello" => (f.status = "ok" => peer \in {"ok", "probe"})

\* A frame about a run on its way: its id is its caller's, the run has gone as
\* far as the frame says, and the caller waits for it.
AnswerOk(f) == f.t \in RunTypes =>
  /\ f.id = idOf[f.c] /\ run[f.c] # "none"
  /\ reader # "ended" => st[f.c] \in {"open", "grace"}
  /\ Final(f) => run[f.c] = "over"
  /\ f.t = "Result" => /\ run[f.c] \notin {"running", "ending"}
                       /\ reader # "ended" => st[f.c] = "open" \/ f.again = TRUE

\* A precompile's reply on its way has its waiter.
ReplyOk(f) == f.t = "PrecompileResult" /\ reader # "ended" => f.c \in precompiles

\* What a frame f to the host says of a frame g behind it: nothing after a
\* final frame of the run, no second Result but a swept run's, no second
\* reply.
HPair(f, g) ==
  /\ f.t \in RunTypes /\ Final(f) /\ g.t \in RunTypes => f.c # g.c
  /\ f.t = "Result" /\ g.t = "Result" => (f.c = g.c => g.again = TRUE)
  /\ f.t = "PrecompileResult" /\ g.t = "PrecompileResult" => f.c # g.c

\* The order of frames to the host, as a relation.
HBefore == {p \in ToHostFrame \X ToHostFrame : HPair(p[1], p[2])}

\* The early Result of c is on its way.
Early(c) == \E f \in ToSet(toHost) : f.t = "Result" /\ f.bg = TRUE /\ f.c = c

\* Every frame on its way to the host is fit to arrive.
HostWire ==
  /\ hs = "auth" => \A f \in ToSet(toHost) : f.t = "Hello"
  /\ \A f \in ToSet(toHost) : HelloOk(f)
  /\ \A f \in ToSet(toHost) : AnswerOk(f)
  /\ \A f \in ToSet(toHost) : ReplyOk(f)
  /\ Ordered(toHost, HBefore)

\* A RunComplete, on its way or still to be written, finds its caller in the
\* grace phase or comes behind the early Result.
Completes ==
  /\ reader # "ended" => \A f \in ToSet(toHost) : f.t = "RunComplete" => st[f.c] = "grace" \/ Early(f.c)
  /\ \A c \in Calls : sock = "open" /\ run[c] \in {"posted", "closing"} => st[c] = "grace" \/ Early(c)

\* The stats replies.
StatsReplies == [t : {"StatsResult"}, c : Calls]

\* The stats requests.
StatsRequests == [t : {"Stats"}, c : Calls]

\* The stats replies on their way, in order.
Replies == Sift(toHost, StatsReplies)

\* The stats requests on their way, in order.
Requests == Sift(toServer, StatsRequests)

\* The replies on their way are for the first waiters, in order, and while the
\* connection lasts the requests on their way are the other waiters, in order.
RepliesInOrder ==
  /\ reader # "ended" => Len(Replies) <= Len(controls) /\ \A n \in 1..Len(Replies) : Replies[n].c = controls[n]
  /\ sock = "open" /\ demux # "ended" =>
       /\ Len(Replies) + Len(Requests) = Len(controls)
       /\ \A n \in 1..Len(Requests) : Requests[n].c = controls[Len(Replies) + n]

\* Who is said to have made which bridge call: by a call or a response on its
\* way, by a handler at work, by a guest that waits.
Claims ==
  {<<f.n, f.c>> : f \in {g \in ToSet(toHost) : g.t = "BridgeCall"}}
  \cup {<<h.n, h.c>> : h \in handlers}
  \cup {<<f.n, f.c>> : f \in {g \in ToSet(toServer) : g.t = "BridgeResponse"}}
  \cup {p \in (1..MaxCallId) \X Calls : p[1] \in waiting[p[2]]}

\* Every bridge call id spoken of was given out, to one run.
Tokens ==
  /\ \A p \in Claims : p[1] <= lastCallId
  /\ \A p, q \in Claims : p[1] = q[1] => p[2] = q[2]

\* The inductive invariant.
ConnInv ==
  /\ Types /\ Quiet /\ HostShape /\ ServerShape /\ ServerWire /\ HostWire /\ Completes
  /\ RepliesInOrder /\ Tokens /\ GraceRunsExact

-----------------------------------------------------------------------------
(* Frames, and what a step does to a stream of them. *)

\* The fields of a frame to the runtime, by its type.
LEMMA ToServerFields ==
  ASSUME NEW f \in ToServerFrame
  PROVE  /\ f.t \in {"Run", "Terminate", "Precompile", "Stats", "BridgeResponse", "Authenticate", "Close"}
         /\ f.t \in {"Run", "Terminate", "Precompile", "Stats", "BridgeResponse"} => f.c \in Calls
         /\ f.t \in {"Run", "Terminate", "BridgeResponse"} => f.id \in Ids
         /\ f.t = "BridgeResponse" => f.n \in 1..MaxCallId
         /\ f \in StatsRequests <=> f.t = "Stats"
<1>1. CASE f \in [t : {"Authenticate", "Close"}]
  BY <1>1 DEF StatsRequests
<1>2. CASE f \in [t : {"Precompile", "Stats"}, c : Calls]
  BY <1>2 DEF StatsRequests
<1>3. CASE f \in [t : {"Run"}, id : Ids, c : Calls]
  BY <1>3 DEF StatsRequests
<1>4. CASE f \in [t : {"Terminate"}, id : Ids, c : Calls, mode : Modes]
  BY <1>4 DEF StatsRequests
<1>5. CASE f \in [t : {"BridgeResponse"}, id : Ids, c : Calls, n : 1..MaxCallId]
  BY <1>5 DEF StatsRequests
<1> QED BY <1>1, <1>2, <1>3, <1>4, <1>5 DEF ToServerFrame

\* The fields of a frame to the host, by its type.
LEMMA ToHostFields ==
  ASSUME NEW f \in ToHostFrame
  PROVE  /\ f.t \in {"Hello", "PrecompileResult", "StatsResult", "Result", "RunComplete", "BridgeCall"}
         /\ f.t # "Hello" => f.c \in Calls
         /\ f.t \in RunTypes => f.id \in Ids
         /\ f.t \in {"Result", "RunComplete"} => f.bg \in BOOLEAN /\ f.again \in BOOLEAN
         /\ f.t = "BridgeCall" => f.n \in 1..MaxCallId
         /\ f \in StatsReplies <=> f.t = "StatsResult"
<1>1. CASE f \in [t : {"Hello"}, status : {"ok", "version", "format"}]
  BY <1>1 DEF StatsReplies, RunTypes
<1>2. CASE f \in [t : {"PrecompileResult", "StatsResult"}, c : Calls]
  BY <1>2 DEF StatsReplies, RunTypes
<1>3. CASE f \in [t : {"Result", "RunComplete"}, id : Ids, c : Calls, bg : BOOLEAN, again : BOOLEAN]
  BY <1>3 DEF StatsReplies, RunTypes
<1>4. CASE f \in [t : {"BridgeCall"}, id : Ids, c : Calls, n : 1..MaxCallId]
  BY <1>4 DEF StatsReplies, RunTypes
<1> QED BY <1>1, <1>2, <1>3, <1>4 DEF ToHostFrame

\* The frames the host writes.
LEMMA ToServerNew ==
  ASSUME NEW c \in Calls
  PROVE  /\ [t |-> "Close"] \in ToServerFrame /\ [t |-> "Authenticate"] \in ToServerFrame
         /\ \A x \in {"Precompile", "Stats"} : [t |-> x, c |-> c] \in ToServerFrame
         /\ \A i \in Ids : [t |-> "Run", id |-> i, c |-> c] \in ToServerFrame
         /\ \A i \in Ids, m \in Modes : [t |-> "Terminate", id |-> i, c |-> c, mode |-> m] \in ToServerFrame
         /\ \A i \in Ids, n \in 1..MaxCallId : [t |-> "BridgeResponse", id |-> i, c |-> c, n |-> n] \in ToServerFrame
  BY DEF ToServerFrame

\* The frames the runtime writes about a call.
LEMMA ToHostNew ==
  ASSUME NEW c \in Calls
  PROVE  /\ \A x \in {"PrecompileResult", "StatsResult"} : [t |-> x, c |-> c] \in ToHostFrame
         /\ \A x \in {"Result", "RunComplete"}, i \in Ids, b \in BOOLEAN, a \in BOOLEAN :
              [t |-> x, id |-> i, c |-> c, bg |-> b, again |-> a] \in ToHostFrame
         /\ \A i \in Ids, n \in 1..MaxCallId : [t |-> "BridgeCall", id |-> i, c |-> c, n |-> n] \in ToHostFrame
  BY DEF ToHostFrame

\* The Hello the runtime writes.
LEMMA HelloNew ==
  ASSUME NEW x \in {"ok", "version", "format"}
  PROVE  [t |-> "Hello", status |-> x] \in ToHostFrame
  BY DEF ToHostFrame

\* The orders on frames, by name.
LEMMA BeforeIs ==
  /\ \A f, g \in ToServerFrame : <<f, g>> \in SBefore <=> SPair(f, g)
  /\ \A f, g \in ToHostFrame : <<f, g>> \in HBefore <=> HPair(f, g)
  BY DEF SBefore, HBefore

\* The host writes f.
SAdds(f) == sock = "open" /\ f \in ToServerFrame /\ toServer' = Append(toServer, f)

\* The runtime reads f.
STakes(f) == toServer # <<>> /\ f = Head(toServer) /\ toServer' = Tail(toServer)

\* The runtime writes f.
HAdds(f) == sock = "open" /\ f \in ToHostFrame /\ toHost' = Append(toHost, f)

\* The host reads f.
HTakes(f) == toHost # <<>> /\ f = Head(toHost) /\ toHost' = Tail(toHost)

\* A write by the host, of one frame, happens unless the socket is gone.
LEMMA HostWritesOne ==
  ASSUME Types, NEW f \in ToServerFrame, HostWrites(<<f>>)
  PROVE  (sock = "open" /\ SAdds(f)) \/ (sock # "open" /\ UNCHANGED toServer)
<1>1. toServer \o <<f>> = Append(toServer, f)
  BY AppendIsConcat DEF Types
<1> QED BY <1>1 DEF HostWrites, SAdds

\* A write by the runtime, of one frame, happens unless the socket is gone.
LEMMA ServerWritesOne ==
  ASSUME Types, NEW f \in ToHostFrame, ServerWrites(<<f>>)
  PROVE  (sock = "open" /\ HAdds(f)) \/ (sock # "open" /\ UNCHANGED toHost)
<1>1. toHost \o <<f>> = Append(toHost, f)
  BY AppendIsConcat DEF Types
<1> QED BY <1>1 DEF ServerWrites, HAdds

\* The stream to the runtime after a write.
LEMMA SAddsFacts ==
  ASSUME Types, NEW f, SAdds(f)
  PROVE  /\ toServer' \in Seq(ToServerFrame) /\ f \in ToServerFrame /\ ToSet(toServer)' = ToSet(toServer) \cup {f}
         /\ Ordered(toServer, SBefore) /\ (\A g \in ToSet(toServer) : SPair(g, f)) => Ordered(toServer, SBefore)'
         /\ Requests' = IF f.t = "Stats" THEN Append(Requests, f) ELSE Requests
<1>1. toServer \in Seq(ToServerFrame) /\ f \in ToServerFrame /\ toServer' = Append(toServer, f)
  BY DEF Types, SAdds
<1>2. toServer' \in Seq(ToServerFrame) /\ ToSet(toServer') = ToSet(toServer) \cup {f}
  BY <1>1, AppendDistinct, AppendProperties
<1>3. \A g \in ToSet(toServer) : g \in ToServerFrame
  BY <1>1 DEF ToSet
<1>4. Ordered(toServer, SBefore) /\ (\A g \in ToSet(toServer) : SPair(g, f)) => Ordered(toServer', SBefore)
  BY <1>1, <1>3, OrderedAppend, BeforeIs
<1>5. Sift(toServer', StatsRequests) = IF f.t = "Stats" THEN Append(Sift(toServer, StatsRequests), f) ELSE Sift(toServer, StatsRequests)
  BY <1>1, SiftAppend, ToServerFields
<1>6. SBefore' = SBefore /\ StatsRequests' = StatsRequests
  BY DEF SBefore, StatsRequests, ToServerFrame, SPair
<1> QED BY <1>1, <1>2, <1>4, <1>5, <1>6 DEF Requests

\* The stream to the runtime after a read.
LEMMA STakesFacts ==
  ASSUME Types, NEW f, STakes(f)
  PROVE  /\ toServer' \in Seq(ToServerFrame) /\ f \in ToServerFrame /\ f \in ToSet(toServer)
         /\ ToSet(toServer) = ToSet(toServer)' \cup {f}
         /\ Ordered(toServer, SBefore) => Ordered(toServer, SBefore)' /\ \A g \in ToSet(toServer)' : SPair(f, g)
         /\ Requests = IF f.t = "Stats" THEN <<f>> \o Requests' ELSE Requests'
<1>1. toServer \in Seq(ToServerFrame) /\ toServer # <<>> /\ f = Head(toServer) /\ toServer' = Tail(toServer)
  BY DEF Types, STakes
<1>2. toServer' \in Seq(ToServerFrame) /\ ToSet(toServer) = ToSet(toServer') \cup {f} /\ f \in ToServerFrame
  BY <1>1, TailSet
<1>3. \A g \in ToSet(toServer') : g \in ToServerFrame
  BY <1>2 DEF ToSet
<1>4. Ordered(toServer, SBefore) => Ordered(toServer', SBefore) /\ \A g \in ToSet(toServer') : SPair(f, g)
  BY <1>1, <1>2, <1>3, OrderedTail, BeforeIs
<1>5. Sift(toServer, StatsRequests) = IF f.t = "Stats" THEN <<f>> \o Sift(toServer', StatsRequests) ELSE Sift(toServer', StatsRequests)
  BY <1>1, <1>2, SiftTail, ToServerFields
<1>6. SBefore' = SBefore /\ StatsRequests' = StatsRequests
  BY DEF SBefore, StatsRequests, ToServerFrame, SPair
<1> QED BY <1>1, <1>2, <1>4, <1>5, <1>6 DEF Requests

\* The stream to the host after a write.
LEMMA HAddsFacts ==
  ASSUME Types, NEW f, HAdds(f)
  PROVE  /\ toHost' \in Seq(ToHostFrame) /\ f \in ToHostFrame /\ ToSet(toHost)' = ToSet(toHost) \cup {f}
         /\ Ordered(toHost, HBefore) /\ (\A g \in ToSet(toHost) : HPair(g, f)) => Ordered(toHost, HBefore)'
         /\ Replies' = IF f.t = "StatsResult" THEN Append(Replies, f) ELSE Replies
<1>1. toHost \in Seq(ToHostFrame) /\ f \in ToHostFrame /\ toHost' = Append(toHost, f)
  BY DEF Types, HAdds
<1>2. toHost' \in Seq(ToHostFrame) /\ ToSet(toHost') = ToSet(toHost) \cup {f}
  BY <1>1, AppendDistinct, AppendProperties
<1>3. \A g \in ToSet(toHost) : g \in ToHostFrame
  BY <1>1 DEF ToSet
<1>4. Ordered(toHost, HBefore) /\ (\A g \in ToSet(toHost) : HPair(g, f)) => Ordered(toHost', HBefore)
  BY <1>1, <1>3, OrderedAppend, BeforeIs
<1>5. Sift(toHost', StatsReplies) = IF f.t = "StatsResult" THEN Append(Sift(toHost, StatsReplies), f) ELSE Sift(toHost, StatsReplies)
  BY <1>1, SiftAppend, ToHostFields
<1>6. HBefore' = HBefore /\ StatsReplies' = StatsReplies
  BY DEF HBefore, StatsReplies, ToHostFrame, HPair, Final, RunTypes
<1> QED BY <1>1, <1>2, <1>4, <1>5, <1>6 DEF Replies

\* The stream to the host after a read.
LEMMA HTakesFacts ==
  ASSUME Types, NEW f, HTakes(f)
  PROVE  /\ toHost' \in Seq(ToHostFrame) /\ f \in ToHostFrame /\ f \in ToSet(toHost)
         /\ ToSet(toHost) = ToSet(toHost)' \cup {f}
         /\ Ordered(toHost, HBefore) => Ordered(toHost, HBefore)' /\ \A g \in ToSet(toHost)' : HPair(f, g)
         /\ Replies = IF f.t = "StatsResult" THEN <<f>> \o Replies' ELSE Replies'
<1>1. toHost \in Seq(ToHostFrame) /\ toHost # <<>> /\ f = Head(toHost) /\ toHost' = Tail(toHost)
  BY DEF Types, HTakes
<1>2. toHost' \in Seq(ToHostFrame) /\ ToSet(toHost) = ToSet(toHost') \cup {f} /\ f \in ToHostFrame
  BY <1>1, TailSet
<1>3. \A g \in ToSet(toHost') : g \in ToHostFrame
  BY <1>2 DEF ToSet
<1>4. Ordered(toHost, HBefore) => Ordered(toHost', HBefore) /\ \A g \in ToSet(toHost') : HPair(f, g)
  BY <1>1, <1>2, <1>3, OrderedTail, BeforeIs
<1>5. Sift(toHost, StatsReplies) = IF f.t = "StatsResult" THEN <<f>> \o Sift(toHost', StatsReplies) ELSE Sift(toHost', StatsReplies)
  BY <1>1, <1>2, SiftTail, ToHostFields
<1>6. HBefore' = HBefore /\ StatsReplies' = StatsReplies
  BY DEF HBefore, StatsReplies, ToHostFrame, HPair, Final, RunTypes
<1> QED BY <1>1, <1>2, <1>4, <1>5, <1>6 DEF Replies

-----------------------------------------------------------------------------
(* What the host does. *)

\* The host writes f, unless the socket is gone.
Sends(f) == \/ SAdds(f)
            \/ sock # "open" /\ UNCHANGED toServer

\* The runtime writes f, unless the socket is gone.
Posts(f) == \/ HAdds(f)
            \/ sock # "open" /\ UNCHANGED toHost

\* The host may write a Terminate of c.
MayTell(c) == \/ UNCHANGED toServer
              \/ \E m \in Modes : SAdds([t |-> "Terminate", id |-> idOf[c], c |-> c, mode |-> m])

\* A call that the router still has an entry for.
Active(c) == c \in Calls /\ st[c] \in {"open", "grace"} /\ idOf[c] \in Ids /\ runs[idOf[c]] = c

\* A run its caller awaits has its entry.
LEMMA IsActive ==
  ASSUME Types, HostShape, NEW c \in Calls, st[c] \in {"open", "grace"}, idOf[c] # 0
  PROVE  Active(c)
  BY DEF Types, HostShape, Registered, Active, Ids

\* An entry is of a run its caller awaits.
LEMMA EntryIsActive ==
  ASSUME Types, HostShape, NEW i \in Ids, runs[i] # NoCall
  PROVE  Active(runs[i]) /\ idOf[runs[i]] = i
  BY DEF Types, HostShape, Entered, Active

\* What the host writes to terminate c is a Terminate of c, or nothing.
LEMMA Tells ==
  ASSUME Types, NEW c \in Calls, idOf[c] \in Ids, NEW m \in Modes, HostWrites(Terminate(c, m))
  PROVE  MayTell(c)
<1> DEFINE f == [t |-> "Terminate", id |-> idOf[c], c |-> c, mode |-> m]
<1>2. f \in ToServerFrame
  BY ToServerNew
<1>3. HostWrites(<<f>>)
  BY DEF Terminate
<1> HIDE DEF f
<1>4. SAdds(f) \/ UNCHANGED toServer
  BY <1>2, <1>3, HostWritesOne
<1> QED BY <1>4 DEF MayTell, f

\* Run c starts under a free id; its Run goes out.
StartedShape(c, id) ==
  /\ hs = "ready" /\ st[c] = "idle" /\ runs[id] = NoCall /\ id \in Ids
  /\ nextRunId' = id /\ idOf' = [idOf EXCEPT ![c] = id] /\ runs' = [runs EXCEPT ![id] = c]
  /\ Sends([t |-> "Run", id |-> id, c |-> c])
  /\ st' = [st EXCEPT ![c] = "open"]
  /\ listening' \subseteq listening \cup {l \in Abortable : l[1] = c}
  /\ UNCHANGED <<peer, hs, precompiles, controls, written, fired, timer, graceRuns, handlers, sock,
                 reader, disposed, toHost, serverVars>>

\* So does StartRun.
LEMMA StartRunShape ==
  ASSUME Types, NEW c \in Calls, StartRun(c)
  PROVE  \E id \in Ids : StartedShape(c, id)
<1>1. PICK id \in Ids :
       /\ NextId(id)
       /\ nextRunId' = id
       /\ idOf' = [idOf EXCEPT ![c] = id]
       /\ runs' = [runs EXCEPT ![id] = c]
       /\ HostWrites(<<[t |-> "Run", id |-> id, c |-> c]>>)
  BY DEF StartRun
<1>2. runs[id] = NoCall
  BY <1>1 DEF NextId
<1>3. Sends([t |-> "Run", id |-> id, c |-> c])
  BY <1>1, ToServerNew, HostWritesOne DEF Sends
<1> QED BY <1>1, <1>2, <1>3 DEF StartRun, StartedShape

\* The Run of c is written; an abort that came before goes out now.
WrittenShape(c) ==
  /\ sock = "open" /\ c \notin written /\ st[c] = "open" /\ Active(c)
  /\ written' = written \cup {c} /\ timer' \subseteq timer \cup {c}
  /\ MayTell(c)
  /\ UNCHANGED <<peer, hs, st, idOf, nextRunId, runs, precompiles, controls, fired, listening, graceRuns,
                 handlers, sock, reader, disposed, toHost, serverVars>>

\* So does Written.
LEMMA WrittenDoes ==
  ASSUME Types, HostShape, NEW c \in Calls, Written(c)
  PROVE  WrittenShape(c)
<1>0. Active(c) /\ idOf[c] \in Ids
  <2>1. st[c] = "open" /\ c \notin written
    BY DEF Written
  <2>2. idOf[c] # 0
    BY <2>1 DEF HostShape, CallShape
  <2> QED BY <2>1, <2>2, IsActive DEF Active
<1>1. \/ BeginAbort(c, "hard") \/ BeginAbort(c, "soft") \/ UNCHANGED <<toServer, timer>>
  BY DEF Written
<1>2. ASSUME NEW m \in Modes, BeginAbort(c, m) PROVE MayTell(c) /\ timer' \subseteq timer \cup {c}
  BY <1>0, <1>2, Tells DEF BeginAbort
<1>3. MayTell(c) /\ timer' \subseteq timer \cup {c}
  BY <1>1, <1>2 DEF Modes, MayTell
<1> QED BY <1>0, <1>3 DEF Written, WrittenShape

\* An abort signal of c fires: it is remembered, or told to the runtime.
SignalShape(c, m) ==
  /\ <<c, m>> \in Abortable /\ sock = "open" /\ fired' = fired \cup {<<c, m>>}
  /\ listening' = listening \ {<<c, m>>}
  /\ \/ UNCHANGED <<toServer, timer>>
     \/ /\ <<c, m>> \in listening /\ Active(c) /\ MayTell(c)
        /\ timer' = timer \/ (st[c] = "open" /\ timer' = timer \cup {c})
  /\ UNCHANGED <<peer, hs, st, idOf, nextRunId, runs, precompiles, controls, written, graceRuns, handlers,
                 sock, reader, disposed, toHost, serverVars>>

\* So does Signal.
LEMMA SignalDoes ==
  ASSUME Types, HostShape, NEW c \in Calls, NEW m \in Modes, Signal(c, m)
  PROVE  SignalShape(c, m)
<1>0. <<c, m>> \in listening => Active(c) /\ idOf[c] \in Ids
  BY IsActive DEF HostShape, Wired, Active
<1>1. CASE <<c, m>> \notin listening
  BY <1>1 DEF Signal, SignalShape
<1>2. CASE <<c, m>> \in listening /\ st[c] = "open"
  <2>1. BeginAbort(c, m)
    BY <1>2 DEF Signal
  <2>2. MayTell(c) /\ (timer' = timer \/ timer' = timer \cup {c})
    BY <1>0, <1>2, <2>1, Tells DEF BeginAbort
  <2> QED BY <1>0, <1>2, <2>2 DEF Signal, SignalShape
<1>3. CASE <<c, m>> \in listening /\ st[c] # "open"
  <2>1. HostWrites(Terminate(c, m)) /\ UNCHANGED timer
    BY <1>3 DEF Signal
  <2>2. MayTell(c)
    BY <1>0, <1>3, <2>1, Tells
  <2> QED BY <1>0, <1>3, <2>1, <2>2 DEF Signal, SignalShape
<1> QED BY <1>1, <1>2, <1>3

\* A request without an id goes out, and waits.
RequestShape(c, t) ==
  /\ hs = "ready" /\ sock = "open" /\ st[c] = "idle"
  /\ st' = [st EXCEPT ![c] = "open"]
  /\ \/ t = "Precompile" /\ precompiles' = precompiles \cup {c} /\ UNCHANGED controls
     \/ t = "Stats" /\ controls' = Append(controls, c) /\ UNCHANGED precompiles
  /\ written' = written \cup {c}
  /\ SAdds([t |-> t, c |-> c])
  /\ UNCHANGED <<peer, hs, idOf, nextRunId, runs, fired, listening, timer, graceRuns,
                 handlers, sock, reader, disposed, toHost, serverVars>>

\* So does Request.
LEMMA RequestDoes ==
  ASSUME Types, NEW c \in Calls, NEW t \in {"Precompile", "Stats"}, Request(c, t)
  PROVE  RequestShape(c, t)
<1>1. [t |-> t, c |-> c] \in ToServerFrame
  BY ToServerNew
<1>2. HostWrites(<<[t |-> t, c |-> c]>>) /\ sock = "open"
  BY DEF Request
<1>3. SAdds([t |-> t, c |-> c])
  BY <1>1, <1>2, HostWritesOne
<1> QED BY <1>2, <1>3 DEF Request, RequestShape

\* What abortConnection leaves.
CutShape ==
  /\ reader' \in {reader, "closed"} /\ (reader = "ended" => reader' = "ended")
  /\ (sock' = sock /\ reader' = reader) \/ sock' = "destroyed"
  /\ UNCHANGED toServer

\* So does AbortConnection.
LEMMA AbortConnectionDoes ==
  ASSUME Types, AbortConnection
  PROVE  CutShape
  BY DEF AbortConnection, Destroy, CutShape

\* The router fails every call that waits.
FailedShape ==
  /\ reader' = "ended" /\ sock' = "destroyed" /\ hs = "ready"
  /\ st' = [c \in Calls |-> CASE st[c] = "open" -> "failed" [] st[c] = "grace" -> "done" [] OTHER -> st[c]]
  /\ runs' = [i \in Ids |-> NoCall] /\ graceRuns' = 0 /\ precompiles' = {} /\ controls' = <<>>
  /\ listening' = {} /\ timer' = {} /\ fired' \subseteq fired
  /\ toHost' = <<>> /\ UNCHANGED <<toServer, peer, hs, idOf, nextRunId, written, handlers, disposed, serverVars>>

\* So do a desync and the end of the router.
LEMMA FailsDo ==
  ASSUME Types, Desync \/ RouterEnds
  PROVE  FailedShape
  BY DEF Types, Desync, RouterEnds, FailEverything, Destroy, FailedShape

-----------------------------------------------------------------------------
(* What the router does with a frame. *)

\* The entry of c goes: its Result was the last word, or its RunComplete.
EndShape(f, c) ==
  /\ f.t \in {"Result", "RunComplete"} /\ Final(f)
  /\ st[c] = (IF f.t = "Result" THEN "open" ELSE "grace")
  /\ st' = [st EXCEPT ![c] = "done"]
  /\ graceRuns' = (IF f.t = "Result" THEN graceRuns ELSE graceRuns - 1)
  /\ runs' = [runs EXCEPT ![idOf[c]] = NoCall]
  /\ listening' = {l \in listening : l[1] # c} /\ fired' \subseteq fired /\ timer' = timer \ {c}
  /\ UNCHANGED toServer

\* c awaits its RunComplete now.
GraceShape(f, c) ==
  /\ f.t = "Result" /\ f.bg = TRUE
  /\ st[c] = "open" /\ st' = [st EXCEPT ![c] = "grace"]
  /\ graceRuns' = graceRuns + 1
  /\ timer' = timer \ {c} /\ listening' \subseteq listening
  /\ MayTell(c)
  /\ UNCHANGED <<runs, fired>>

\* A Result or a RunComplete is routed to its run.
AnsweredShape(f, c) ==
  /\ HTakes(f) /\ reader # "ended" /\ hs = "ready"
  /\ Active(c) /\ f.c = c /\ f.id = idOf[c] /\ run[c] # "none"
  /\ EndShape(f, c) \/ GraceShape(f, c)
  /\ UNCHANGED <<peer, hs, idOf, nextRunId, precompiles, controls, written, handlers, sock, reader,
                 disposed, serverVars>>

\* A frame about a run, on its way to a router that takes frames, finds the run.
LEMMA FrameFinds ==
  ASSUME Types, HostShape, HostWire, reader # "ended",
         NEW f \in ToSet(toHost), f.t \in RunTypes
  PROVE  /\ f \in ToHostFrame /\ f.c \in Calls /\ f.id = idOf[f.c] /\ run[f.c] # "none"
         /\ Active(f.c) /\ runs[f.id] = f.c /\ f.id \in Ids
<1>1. f \in ToHostFrame
  BY DEF Types, ToSet
<1>2. f.c \in Calls
  BY <1>1, ToHostFields DEF RunTypes
<1>3. f.id = idOf[f.c] /\ run[f.c] # "none" /\ st[f.c] \in {"open", "grace"}
  BY DEF HostWire, AnswerOk
<1>4. idOf[f.c] # 0
  BY <1>2, <1>3 DEF HostShape, CallShape
<1>5. Active(f.c)
  BY <1>2, <1>3, <1>4, IsActive
<1> QED BY <1>1, <1>2, <1>3, <1>5 DEF Active

\* So does RouteAnswer: no such frame ever misses its run.
LEMMA RouteAnswerDoes ==
  ASSUME Types, HostShape, HostWire, RouteAnswer
  PROVE  \E f, c : AnsweredShape(f, c)
<1> DEFINE f == Head(toHost)
           c == runs[f.id]
<1>1. /\ hs = "ready" /\ reader # "ended" /\ HTakes(f) /\ f.t \in {"Result", "RunComplete"} /\ Routable(f)
  BY DEF RouteAnswer, HTakes
<1>2. f \in ToSet(toHost)
  BY <1>1, HTakesFacts
<1>3. f \in ToHostFrame /\ c = f.c /\ f.id = idOf[f.c] /\ run[f.c] # "none" /\ Active(f.c) /\ f.id \in Ids
  BY <1>1, <1>2, FrameFinds DEF RunTypes
<1>4. (f.t = "Result" => f.bg \in BOOLEAN)
  BY <1>1, <1>3, ToHostFields
<1>5. IF f.t = "Result" THEN RouteResult(c, f) ELSE RouteRunComplete(c)
  BY DEF RouteAnswer
<1>6. UNCHANGED <<peer, hs, idOf, nextRunId, precompiles, controls, written, handlers, sock, reader,
                 disposed, serverVars>>
  BY DEF RouteAnswer
<1> HIDE DEF f
<1>7. idOf[c] = f.id /\ c \in Calls
  BY <1>3 DEF Active
<1>8. CASE f.t = "Result" /\ f.bg = FALSE
  <2>1. RouteResult(c, f) /\ st[c] = "open"
    BY <1>1, <1>5, <1>8 DEF Routable
  <2>2. EndShape(f, c)
    BY <1>8, <2>1 DEF RouteResult, Forget, EndShape, Final
  <2> QED BY <1>1, <1>3, <1>6, <2>2 DEF AnsweredShape
<1>9. CASE f.t = "Result" /\ f.bg = TRUE
  <2>1. RouteResult(c, f) /\ st[c] = "open"
    BY <1>1, <1>5, <1>9 DEF Routable
  <2>2. MayTell(c) /\ listening' \subseteq listening
    <3> DEFINE late == {m \in Modes : <<c, m>> \in fired}
    <3>1. CASE late # {}
      <4>1. HostWrites(Terminate(c, IF "hard" \in late THEN "hard" ELSE "soft"))
        BY <1>9, <2>1, <3>1 DEF RouteResult
      <4>2. (IF "hard" \in late THEN "hard" ELSE "soft") \in Modes
        BY DEF Modes
      <4>3. listening' \subseteq listening
        BY <1>9, <2>1, <3>1 DEF RouteResult
      <4> HIDE DEF late, c
      <4> QED BY <1>3, <1>7, <4>1, <4>2, <4>3, Tells
    <3>2. CASE late = {}
      BY <1>9, <2>1, <3>2 DEF RouteResult, MayTell
    <3> QED BY <3>1, <3>2
  <2>3. GraceShape(f, c)
    BY <1>9, <2>1, <2>2 DEF RouteResult, GraceShape
  <2> QED BY <1>1, <1>3, <1>6, <2>3 DEF AnsweredShape
<1>10. CASE f.t = "RunComplete"
  <2>1. RouteRunComplete(c) /\ st[c] = "grace"
    BY <1>1, <1>5, <1>10 DEF Routable
  <2>2. EndShape(f, c)
    BY <1>10, <2>1 DEF RouteRunComplete, Forget, EndShape, Final
  <2> QED BY <1>1, <1>3, <1>6, <2>2 DEF AnsweredShape
<1> QED BY <1>1, <1>4, <1>8, <1>9, <1>10

\* A reply ends the request it is for.
RepliedShape(f, x) ==
  /\ HTakes(f) /\ reader # "ended" /\ hs = "ready"
  /\ x \in Calls /\ st[x] = "open" /\ idOf[x] = 0 /\ run[x] = "none" /\ st' = [st EXCEPT ![x] = "done"]
  /\ \/ /\ f.t = "StatsResult" /\ controls # <<>> /\ x = Head(controls)
        /\ controls' = Tail(controls) /\ UNCHANGED precompiles
     \/ /\ f.t = "PrecompileResult" /\ x = f.c /\ x \in precompiles
        /\ precompiles' = precompiles \ {x} /\ UNCHANGED controls
  /\ UNCHANGED <<peer, hs, idOf, nextRunId, runs, written, fired, listening, timer, graceRuns,
                 handlers, sock, reader, disposed, toServer, serverVars>>

\* So does RouteReply.
LEMMA RouteReplyDoes ==
  ASSUME Types, HostShape, RouteReply
  PROVE  \E f, x : RepliedShape(f, x)
<1> DEFINE f == Head(toHost)
<1>1. /\ HTakes(f) /\ reader # "ended" /\ hs = "ready" /\ f.t \in {"PrecompileResult", "StatsResult"} /\ Routable(f)
      /\ UNCHANGED <<peer, hs, idOf, nextRunId, runs, written, fired, listening, timer, graceRuns,
                 handlers, sock, reader, disposed, toServer, serverVars>>
  BY DEF RouteReply, HTakes
<1>2. IF f.t = "StatsResult"
           THEN /\ controls' = Tail(controls) /\ UNCHANGED precompiles
                /\ st' = [st EXCEPT ![Head(controls)] = "done"]
           ELSE /\ precompiles' = precompiles \ {f.c} /\ UNCHANGED controls
                /\ st' = [st EXCEPT ![f.c] = "done"]
  BY DEF RouteReply
<1> HIDE DEF f
<1>3. \A x \in Calls : idOf[x] = 0 => run[x] = "none"
  BY DEF HostShape, CallShape
<1>4. CASE f.t = "StatsResult"
  <2>1. controls # <<>> /\ controls \in Seq(Calls)
    BY <1>1, <1>4 DEF Routable, Types
  <2>2. Head(controls) \in Calls /\ Head(controls) \in ToSet(controls)
    BY <2>1, TailSet
  <2>3. st[Head(controls)] = "open" /\ idOf[Head(controls)] = 0
    BY <2>2 DEF HostShape, Asked
  <2>4. RepliedShape(f, Head(controls))
    BY <1>1, <1>2, <1>3, <1>4, <2>1, <2>2, <2>3 DEF RepliedShape
  <2> QED BY <2>4
<1>5. CASE f.t = "PrecompileResult"
  <2>1. f.c \in precompiles /\ f.c \in Calls
    BY <1>1, <1>5 DEF Routable, Types
  <2>2. st[f.c] = "open" /\ idOf[f.c] = 0
    BY <2>1 DEF HostShape, Asked
  <2>3. RepliedShape(f, f.c)
    BY <1>1, <1>2, <1>3, <1>5, <2>1, <2>2 DEF RepliedShape
  <2> QED BY <2>3
<1> QED BY <1>1, <1>4, <1>5

\* The response to a bridge call f, or by a handler f.
ResponseFrame(f) == [t |-> "BridgeResponse", id |-> f.id, c |-> f.c, n |-> f.n]

\* A bridge call is taken off the stream: dropped, handled, or answered.
CalledShape(f) ==
  /\ HTakes(f) /\ f.t = "BridgeCall" /\ hs = "ready"
  /\ \/ UNCHANGED <<handlers, toServer>>
     \/ handlers' = handlers \cup {[id |-> f.id, c |-> f.c, n |-> f.n]} /\ UNCHANGED toServer
     \/ SAdds(ResponseFrame(f)) /\ UNCHANGED handlers
  /\ UNCHANGED <<peer, hs, st, idOf, nextRunId, runs, precompiles, controls, written, fired, listening, timer,
                 graceRuns, sock, reader, disposed, serverVars>>

\* So does RouteBridgeCall.
LEMMA RouteBridgeCallDoes ==
  ASSUME Types, RouteBridgeCall
  PROVE  \E f \in ToHostFrame : CalledShape(f)
<1> DEFINE f == Head(toHost)
<1>1. HTakes(f) /\ f.t = "BridgeCall" /\ hs = "ready"
  BY DEF RouteBridgeCall, HTakes
<1>2. f \in ToHostFrame
  BY <1>1, HTakesFacts
<1>3. f.c \in Calls /\ f.id \in Ids /\ f.n \in 1..MaxCallId
  BY <1>1, <1>2, ToHostFields DEF RunTypes
<1>4. ResponseFrame(f) \in ToServerFrame
  BY <1>3, ToServerNew DEF ResponseFrame
<1>5. \/ UNCHANGED <<handlers, toServer>>
      \/ handlers' = handlers \cup {[id |-> f.id, c |-> f.c, n |-> f.n]} /\ UNCHANGED toServer
      \/ sock = "open" /\ HostWrites(Response(f.id, f.c, f.n)) /\ UNCHANGED handlers
  BY DEF RouteBridgeCall
<1>6. sock = "open" /\ HostWrites(Response(f.id, f.c, f.n)) => SAdds(ResponseFrame(f))
  <2> HIDE DEF f
  <2> QED BY <1>4, HostWritesOne DEF Response, ResponseFrame
<1>7. CalledShape(f)
  <2> HIDE DEF f
  <2> QED BY <1>1, <1>5, <1>6 DEF CalledShape, RouteBridgeCall
<1> QED BY <1>2, <1>7

\* A handler settles: its response goes out, or the connection is cut.
SettledShape(h) ==
  /\ h \in handlers /\ handlers' = handlers \ {h}
  /\ (SAdds(ResponseFrame(h)) /\ UNCHANGED <<reader, sock>>) \/ CutShape
  /\ UNCHANGED <<peer, hs, st, idOf, nextRunId, runs, precompiles, controls, written, fired, listening, timer,
                 graceRuns, disposed, toHost, serverVars>>

\* So does HandlerSettles.
LEMMA HandlerSettlesDoes ==
  ASSUME Types, NEW h \in handlers, HandlerSettles(h)
  PROVE  SettledShape(h)
<1>1. h.c \in Calls /\ h.id \in Ids /\ h.n \in 1..MaxCallId
  BY DEF Types
<1>2. ResponseFrame(h) \in ToServerFrame
  BY <1>1, ToServerNew DEF ResponseFrame
<1>3. \/ sock = "open" /\ HostWrites(Response(h.id, h.c, h.n)) /\ UNCHANGED <<reader, sock>>
      \/ AbortConnection
      \/ UNCHANGED <<reader, sock, toServer>>
  BY DEF HandlerSettles
<1>4. sock = "open" /\ HostWrites(Response(h.id, h.c, h.n)) => SAdds(ResponseFrame(h))
  BY <1>2, HostWritesOne DEF Response, ResponseFrame
<1>5. UNCHANGED <<reader, sock, toServer>> => CutShape
  BY DEF CutShape
<1>6. (SAdds(ResponseFrame(h)) /\ UNCHANGED <<reader, sock>>) \/ CutShape
  BY <1>3, <1>4, <1>5, AbortConnectionDoes
<1> QED BY <1>6 DEF HandlerSettles, SettledShape

-----------------------------------------------------------------------------
(* What the runtime does. *)

\* The runtime answers the handshake.
GreetedShape(f) ==
  /\ demux = "handshake" /\ STakes(f) /\ f.t = "Authenticate"
  /\ \/ \E x \in {"version", "format"} : demux' = "ended" /\ Posts([t |-> "Hello", status |-> x])
     \/ peer \in {"ok", "probe"} /\ demux' = "serving" /\ Posts([t |-> "Hello", status |-> "ok"])
  /\ UNCHANGED <<peer, hostVars, routes, run, told, waiting, lastCallId>>

\* A write by the runtime, as Posts.
LEMMA PostsOne ==
  ASSUME Types, NEW f \in ToHostFrame, ServerWrites(<<f>>)
  PROVE  Posts(f)
  BY ServerWritesOne DEF Posts

\* So does ServerHandshake.
LEMMA ServerHandshakeDoes ==
  ASSUME Types, ServerHandshake
  PROVE  \E f : GreetedShape(f)
<1>1. STakes(Head(toServer)) /\ Head(toServer).t = "Authenticate" /\ demux = "handshake" /\ peer # "silent"
  BY DEF ServerHandshake, STakes
<1>2. peer \in {"ok", "version", "format", "probe", "silent"}
  BY ConnectionAssumptions DEF Types, ConnectionAssumptions
<1>3. CASE peer \in {"version", "format"}
  <2>1. [t |-> "Hello", status |-> peer] \in ToHostFrame
    BY <1>3, HelloNew
  <2>2. demux' = "ended" /\ ServerWrites(<<[t |-> "Hello", status |-> peer]>>)
    BY <1>3 DEF ServerHandshake
  <2>3. Posts([t |-> "Hello", status |-> peer])
    BY <2>1, <2>2, PostsOne
  <2>4. GreetedShape(Head(toServer))
    BY <1>1, <1>3, <2>2, <2>3 DEF GreetedShape, ServerHandshake
  <2> QED BY <2>4
<1>4. CASE peer \notin {"version", "format"}
  <2>1. [t |-> "Hello", status |-> "ok"] \in ToHostFrame
    BY HelloNew
  <2>2. demux' = "serving" /\ ServerWrites(<<[t |-> "Hello", status |-> "ok"]>>)
    BY <1>4 DEF ServerHandshake
  <2>3. Posts([t |-> "Hello", status |-> "ok"])
    BY <2>1, <2>2, PostsOne
  <2>4. GreetedShape(Head(toServer))
    BY <1>1, <1>2, <1>4, <2>2, <2>3 DEF GreetedShape, ServerHandshake
  <2> QED BY <2>4
<1> QED BY <1>3, <1>4

\* The host takes the Hello: the client is ready, or has failed.
HelloShape ==
  /\ hs = "auth"
  /\ \/ /\ \E f : HTakes(f) /\ f.status = "ok" /\ peer # "probe"
        /\ hs' = "ready" /\ UNCHANGED <<disposed, reader, sock, toServer>>
     \/ /\ hs' = "failed" /\ disposed' = TRUE /\ reader' = "closed" /\ sock' = "destroyed"
        /\ toHost' = <<>> /\ UNCHANGED toServer
  /\ UNCHANGED <<peer, st, idOf, nextRunId, runs, precompiles, controls, written, fired, listening,
                 timer, graceRuns, handlers, serverVars>>

\* So does HostHandshake.
LEMMA HostHandshakeDoes ==
  ASSUME Types, HostHandshake
  PROVE  HelloShape
<1>1. CASE toHost # <<>> /\ AwaitHello(Head(toHost))
  <2>1. CASE Head(toHost).status = "ok" /\ peer # "probe"
    BY <1>1, <2>1 DEF AwaitHello, HTakes, HelloShape, HostHandshake
  <2>2. CASE ~(Head(toHost).status = "ok" /\ peer # "probe")
    BY <1>1, <2>2 DEF AwaitHello, HandshakeFails, Destroy, HelloShape, HostHandshake
  <2> QED BY <2>1, <2>2
<1>2. CASE toHost = <<>> /\ HandshakeFails
  BY <1>2 DEF HandshakeFails, Destroy, HelloShape, HostHandshake
<1> QED BY <1>1, <1>2 DEF HostHandshake

\* A frame about c that the runtime writes.
AnswerFrame(t, c, bg) == [t |-> t, id |-> idOf[c], c |-> c, bg |-> bg, again |-> run[c] = "swept"]

\* So does Answer.
LEMMA Answers ==
  ASSUME Types, NEW t \in {"Result", "RunComplete"}, NEW c \in Calls, NEW bg \in BOOLEAN, idOf[c] \in Ids,
         ServerWrites(Answer(t, c, bg))
  PROVE  Posts(AnswerFrame(t, c, bg))
<1>1. (run[c] = "swept") \in BOOLEAN
  BY DEF Types
<1>2. AnswerFrame(t, c, bg) \in ToHostFrame
  BY <1>1, ToHostNew DEF AnswerFrame
<1> QED BY <1>2, PostsOne DEF Answer, AnswerFrame

\* A Run that arrived is refused, or routed.
TakenShape(f) ==
  /\ STakes(f) /\ f.t = "Run" /\ f.c \in written /\ demux = "serving"
  /\ f.c \in Calls /\ f.id \in Ids /\ idOf[f.c] = f.id /\ run[f.c] = "none" /\ routes[f.id] = NoCall
  /\ \/ /\ Posts(AnswerFrame("Result", f.c, FALSE))
        /\ run' = [run EXCEPT ![f.c] = "over"]
        /\ UNCHANGED routes
     \/ /\ routes' = [routes EXCEPT ![f.id] = f.c]
        /\ run' = [run EXCEPT ![f.c] = "running"]
        /\ UNCHANGED toHost
  /\ UNCHANGED <<peer, hostVars, demux, told, waiting, lastCallId>>

\* So does DemuxRun: an id that arrives with a Run is free.
LEMMA DemuxRunDoes ==
  ASSUME Types, ServerWire, DemuxRun
  PROVE  \E f \in ToServerFrame : TakenShape(f)
<1> DEFINE f == Head(toServer)
<1>1. STakes(f) /\ f.t = "Run" /\ f.c \in written /\ demux = "serving"
  BY DEF DemuxRun, Incoming, STakes
<1>2. f \in ToServerFrame
  BY <1>1, STakesFacts
<1>3. f.c \in Calls /\ f.id \in Ids /\ idOf[f.c] = f.id /\ run[f.c] = "none" /\ routes[f.id] = NoCall
  <2>1. f.c \in Calls /\ f.id \in Ids
    BY <1>1, <1>2, ToServerFields
  <2>2. RunOk(f)
    BY <1>1, STakesFacts DEF ServerWire
  <2> QED BY <1>1, <2>1, <2>2 DEF RunOk
<1>4. \/ /\ ServerWrites(Answer("Result", f.c, FALSE))
         /\ run' = [run EXCEPT ![f.c] = "over"]
         /\ UNCHANGED routes
      \/ /\ routes[f.id] = NoCall
         /\ routes' = [routes EXCEPT ![f.id] = f.c]
         /\ run' = [run EXCEPT ![f.c] = "running"]
         /\ UNCHANGED toHost
  BY DEF DemuxRun
<1>5. UNCHANGED <<peer, hostVars, demux, told, waiting, lastCallId>>
  BY DEF DemuxRun
<1> HIDE DEF f
<1>6. ServerWrites(Answer("Result", f.c, FALSE)) => Posts(AnswerFrame("Result", f.c, FALSE))
  BY <1>3, Answers
<1>7. TakenShape(f)
  BY <1>1, <1>3, <1>4, <1>5, <1>6 DEF TakenShape
<1> QED BY <1>2, <1>7

\* Terminates and responses that arrive change what the runs know only.
HeardShape(f) ==
  /\ STakes(f) /\ f.t \in {"Terminate", "BridgeResponse"} /\ demux = "serving"
  /\ told' \subseteq Calls /\ waiting' \in [Calls -> SUBSET (1..MaxCallId)]
  /\ \A c \in Calls : waiting'[c] \subseteq waiting[c]
  /\ UNCHANGED <<peer, hostVars, toHost, demux, routes, run, lastCallId>>

\* So do DemuxTerminate and DemuxResponse.
LEMMA DemuxHears ==
  ASSUME Types, DemuxTerminate \/ DemuxResponse
  PROVE  \E f : HeardShape(f)
<1> DEFINE f == Head(toServer)
<1>1. STakes(f) /\ f.t \in {"Terminate", "BridgeResponse"} /\ demux = "serving"
  BY DEF DemuxTerminate, DemuxResponse, Incoming, STakes
<1>2. f.id \in Ids /\ f \in ToServerFrame
  BY <1>1, STakesFacts, ToServerFields
<1>3. routes[f.id] \in Calls \cup {NoCall} /\ told \subseteq Calls /\ waiting \in [Calls -> SUBSET (1..MaxCallId)]
  BY <1>2 DEF Types
<1>4. CASE DemuxTerminate
  <2>1. told' = told \cup ({routes[f.id]} \ {NoCall}) /\ waiting' = waiting
    BY <1>4 DEF DemuxTerminate
  <2>2. UNCHANGED <<peer, hostVars, toHost, demux, routes, run, lastCallId>>
    BY <1>4 DEF DemuxTerminate
  <2> QED BY <1>1, <1>3, <2>1, <2>2 DEF HeardShape
<1>5. CASE DemuxResponse
  <2>1. UNCHANGED <<peer, hostVars, toHost, demux, routes, run, lastCallId>>
    BY <1>5 DEF DemuxResponse
  <2>2. \/ UNCHANGED <<told, waiting>>
        \/ routes[f.id] # NoCall /\ waiting' = [waiting EXCEPT ![routes[f.id]] = @ \ {f.n}] /\ UNCHANGED told
        \/ routes[f.id] # NoCall /\ told' = told \cup {routes[f.id]} /\ UNCHANGED waiting
    BY <1>5 DEF DemuxResponse
  <2>3. told' \subseteq Calls /\ waiting' \in [Calls -> SUBSET (1..MaxCallId)]
        /\ \A c \in Calls : waiting'[c] \subseteq waiting[c]
    <3> HIDE DEF f
    <3> QED BY <1>3, <2>2
  <2> QED BY <1>1, <2>1, <2>3 DEF HeardShape
<1> QED BY <1>4, <1>5

\* A request that arrived is answered at once.
RequestedShape(f) ==
  /\ STakes(f) /\ demux = "serving" /\ f.c \in Calls
  /\ \/ f.t = "Precompile" /\ Posts([t |-> "PrecompileResult", c |-> f.c])
     \/ f.t = "Stats" /\ Posts([t |-> "StatsResult", c |-> f.c])
  /\ UNCHANGED <<peer, hostVars, serverVars>>

\* So does DemuxRequest.
LEMMA DemuxRequestDoes ==
  ASSUME Types, DemuxRequest
  PROVE  \E f : RequestedShape(f)
<1> DEFINE f == Head(toServer)
<1>1. STakes(f) /\ f.t \in {"Precompile", "Stats"} /\ demux = "serving"
  BY DEF DemuxRequest, Incoming, STakes
<1>2. f \in ToServerFrame
  BY <1>1, STakesFacts
<1>3. f.c \in Calls
  BY <1>1, <1>2, ToServerFields
<1>4. [t |-> "PrecompileResult", c |-> f.c] \in ToHostFrame /\ [t |-> "StatsResult", c |-> f.c] \in ToHostFrame
  BY <1>3, ToHostNew
<1>5. \/ f.t = "Precompile" /\ ServerWrites(<<[t |-> "PrecompileResult", c |-> f.c]>>)
      \/ f.t = "Stats" /\ ServerWrites(<<[t |-> "StatsResult", c |-> f.c]>>)
  BY DEF DemuxRequest, Incoming
<1>6. UNCHANGED <<peer, hostVars, serverVars>>
  BY DEF DemuxRequest
<1> HIDE DEF f
<1>7. RequestedShape(f)
  BY <1>1, <1>3, <1>4, <1>5, <1>6, PostsOne DEF RequestedShape
<1> QED BY <1>7

\* A run that has begun is under an id.
LEMMA BegunHasId ==
  ASSUME Types, HostShape, NEW c \in Calls, run[c] # "none"
  PROVE  idOf[c] \in Ids
  BY DEF Types, HostShape, CallShape, Ids

\* The guest of c makes bridge call n.
CallingShape(c, n) ==
  /\ run[c] \in {"running", "posted"} /\ n = lastCallId + 1 /\ n \in 1..MaxCallId /\ idOf[c] \in Ids
  /\ lastCallId' = n /\ waiting' = [waiting EXCEPT ![c] = @ \cup {n}]
  /\ HAdds([t |-> "BridgeCall", id |-> idOf[c], c |-> c, n |-> n])
  /\ UNCHANGED <<peer, hostVars, toServer, demux, routes, run, told>>

\* So does GuestCalls.
LEMMA GuestCallsDoes ==
  ASSUME Types, HostShape, NEW c \in Calls, GuestCalls(c)
  PROVE  \E n : CallingShape(c, n)
<1> DEFINE n == lastCallId + 1
<1>1. n \in 1..MaxCallId
  BY DEF Types, GuestCalls, NextCallId
<1>2. run[c] \in {"running", "posted"} /\ sock = "open"
  BY DEF GuestCalls
<1>3. idOf[c] \in Ids
  BY <1>2, BegunHasId
<1>4. [t |-> "BridgeCall", id |-> idOf[c], c |-> c, n |-> n] \in ToHostFrame
  BY <1>1, <1>3, ToHostNew
<1>5. ServerWrites(<<[t |-> "BridgeCall", id |-> idOf[c], c |-> c, n |-> n]>>)
  BY DEF GuestCalls, NextCallId
<1>6. HAdds([t |-> "BridgeCall", id |-> idOf[c], c |-> c, n |-> n])
  BY <1>2, <1>4, <1>5, ServerWritesOne
<1>7. lastCallId' = n /\ waiting' = [waiting EXCEPT ![c] = @ \cup {n}]
      /\ UNCHANGED <<peer, hostVars, toServer, demux, routes, run, told>>
  BY DEF GuestCalls, NextCallId
<1> HIDE DEF n
<1>8. CallingShape(c, n)
  BY <1>1, <1>2, <1>3, <1>6, <1>7 DEF CallingShape, n
<1> QED BY <1>8

\* The early Result of c is posted.
PostedShape(c) ==
  /\ run[c] = "running" /\ run' = [run EXCEPT ![c] = "posted"] /\ idOf[c] \in Ids
  /\ Posts(AnswerFrame("Result", c, TRUE))
  /\ UNCHANGED <<peer, hostVars, toServer, demux, routes, told, waiting, lastCallId>>

\* So does PostResult.
LEMMA PostResultDoes ==
  ASSUME Types, HostShape, NEW c \in Calls, PostResult(c)
  PROVE  PostedShape(c)
<1>1. idOf[c] \in Ids
  BY BegunHasId DEF PostResult
<1>2. Posts(AnswerFrame("Result", c, TRUE))
  BY <1>1, Answers DEF PostResult
<1> QED BY <1>1, <1>2 DEF PostResult, PostedShape

\* A run ends: its route goes.
EndedShape(c) ==
  /\ idOf[c] \in Ids
  /\ \/ run[c] = "running" /\ run' = [run EXCEPT ![c] = "ending"]
     \/ run[c] = "posted" /\ run' = [run EXCEPT ![c] = "closing"]
     \/ run[c] = "posted" /\ run' = [run EXCEPT ![c] = "swept"]
  /\ routes' = [routes EXCEPT ![idOf[c]] = NoCall]
  /\ told' \subseteq told /\ waiting' = [waiting EXCEPT ![c] = {}]
  /\ UNCHANGED <<peer, hostVars, toServer, toHost, demux, lastCallId>>

\* So do Finish and Sweep.
LEMMA RunEndsDo ==
  ASSUME Types, HostShape, NEW c \in Calls, Finish(c) \/ Sweep(c)
  PROVE  EndedShape(c)
<1>1. idOf[c] \in Ids
  BY BegunHasId DEF Finish, Sweep
<1>2. CASE Finish(c)
  <2>1. \/ run[c] = "running" /\ run' = [run EXCEPT ![c] = "ending"]
        \/ run[c] = "posted" /\ run' = [run EXCEPT ![c] = "closing"]
    BY <1>2 DEF Finish, Types
  <2> QED BY <1>1, <1>2, <2>1 DEF Finish, DropRoute, EndedShape
<1>3. CASE Sweep(c)
  BY <1>1, <1>3 DEF Sweep, DropRoute, EndedShape
<1> QED BY <1>2, <1>3

\* The last frame of run c goes out.
CompletedShape(c) ==
  /\ run' = [run EXCEPT ![c] = "over"] /\ idOf[c] \in Ids
  /\ \/ run[c] = "closing" /\ Posts(AnswerFrame("RunComplete", c, FALSE))
     \/ run[c] \in {"ending", "swept"} /\ Posts(AnswerFrame("Result", c, FALSE))
  /\ UNCHANGED <<peer, hostVars, toServer, demux, routes, told, waiting, lastCallId>>

\* So does SendCompletion.
LEMMA SendCompletionDoes ==
  ASSUME Types, HostShape, NEW c \in Calls, SendCompletion(c)
  PROVE  CompletedShape(c)
<1>1. idOf[c] \in Ids
  BY BegunHasId DEF SendCompletion
<1>2. CASE run[c] = "closing"
  <2>1. ServerWrites(Answer("RunComplete", c, FALSE))
    BY <1>2 DEF SendCompletion, Completion
  <2>2. Posts(AnswerFrame("RunComplete", c, FALSE))
    BY <1>1, <2>1, Answers
  <2> QED BY <1>1, <1>2, <2>2 DEF SendCompletion, CompletedShape
<1>3. CASE run[c] # "closing"
  <2>1. ServerWrites(Answer("Result", c, FALSE))
    BY <1>3 DEF SendCompletion, Completion
  <2>2. Posts(AnswerFrame("Result", c, FALSE))
    BY <1>1, <2>1, Answers
  <2>3. run[c] \in {"ending", "swept"}
    BY <1>3 DEF SendCompletion
  <2> QED BY <1>1, <2>2, <2>3 DEF SendCompletion, CompletedShape
<1> QED BY <1>2, <1>3

\* dispose: a Close may go out before the socket is destroyed.
DisposedShape ==
  /\ hs = "ready" /\ disposed' = TRUE /\ sock' = "destroyed"
  /\ SAdds([t |-> "Close"]) \/ UNCHANGED toServer
  /\ UNCHANGED <<peer, hs, st, idOf, nextRunId, runs, precompiles, controls, written, fired, listening,
                 timer, graceRuns, handlers, reader, toHost, serverVars>>

\* So does Dispose.
LEMMA DisposeDoes ==
  ASSUME Types, Dispose
  PROVE  DisposedShape
<1>1. [t |-> "Close"] \in ToServerFrame
  BY DEF ToServerFrame
<1>2. sock = "open" \/ sock = "destroyed"
  BY DEF Types
<1> QED BY <1>1, <1>2 DEF Dispose, Destroy, SAdds, DisposedShape

-----------------------------------------------------------------------------
(* Every step has one of these shapes. *)

\* A grace timer that fires, or the end of the socket.
CutOff ==
  /\ timer' \subseteq timer /\ CutShape
  /\ UNCHANGED <<peer, hs, st, idOf, nextRunId, runs, precompiles, controls, written, fired, listening,
                 graceRuns, handlers, disposed, toHost, serverVars>>

\* The runtime is gone, and with it what was on its way to it.
Lost ==
  /\ demux = "serving" /\ demux' = "ended" /\ toServer' = <<>>
  /\ routes' = [i \in Ids |-> NoCall] /\ told' \subseteq Calls
  /\ \/ sock = "destroyed" /\ UNCHANGED <<run, waiting, toHost>>
     \/ /\ run' = [c \in Calls |-> IF run[c] = "none" THEN "none" ELSE "over"]
        /\ waiting' = [c \in Calls |-> {}]
        /\ \E k \in 0..Len(toHost) : toHost' = SubSeq(toHost, 1, k)
  /\ UNCHANGED <<peer, hostVars, lastCallId>>

\* What the host may do.
HostSteps ==
  \/ HelloShape \/ FailedShape \/ CutOff \/ DisposedShape
  \/ \E c \in Calls, id \in Ids : StartedShape(c, id)
  \/ \E c \in Calls : WrittenShape(c) \/ WriteFails(c)
  \/ \E c \in Calls, m \in Modes : SignalShape(c, m)
  \/ \E c \in Calls, t \in {"Precompile", "Stats"} : RequestShape(c, t)
  \/ \E f, c : AnsweredShape(f, c) \/ RepliedShape(f, c)
  \/ \E f \in ToHostFrame : CalledShape(f)
  \/ \E h \in handlers : SettledShape(h)

\* What the runtime may do.
ServerSteps ==
  \/ ServerGivesUp \/ Lost
  \/ \E f : GreetedShape(f) \/ HeardShape(f) \/ RequestedShape(f) \/ TakenShape(f)
  \/ \E c \in Calls : PostedShape(c) \/ EndedShape(c) \/ CompletedShape(c) \/ \E n : CallingShape(c, n)

\* What a step of the connection may do.
Steps == HostSteps \/ ServerSteps \/ UNCHANGED vars

\* Every step has one of the shapes.
LEMMA NextDoes ==
  ASSUME ConnInv, [Next]_vars
  PROVE  Steps
<1> USE DEF ConnInv
<1>1. CASE HostStep
  <2>1. CASE HostHandshake
    BY <2>1, HostHandshakeDoes DEF Steps, HostSteps
  <2>2. CASE Desync \/ RouterEnds
    BY <2>2, FailsDo DEF Steps, HostSteps
  <2>3. CASE RouteAnswer
    BY <2>3, RouteAnswerDoes DEF Steps, HostSteps
  <2>4. CASE RouteReply
    BY <2>4, RouteReplyDoes DEF Steps, HostSteps
  <2>5. CASE RouteBridgeCall
    BY <2>5, RouteBridgeCallDoes DEF Steps, HostSteps
  <2>6. CASE SocketEnds
    <3>1. CutOff
      BY <2>6 DEF SocketEnds, CutOff, CutShape, serverVars
    <3> QED BY <3>1 DEF Steps, HostSteps
  <2>7. ASSUME NEW c \in Calls, WriteFails(c) \/ GraceTimerFires(c)
        PROVE  Steps
    <3>1. CASE WriteFails(c)
      BY <3>1 DEF Steps, HostSteps
    <3>2. CASE GraceTimerFires(c)
      <4>1. CutOff
        BY <3>2, AbortConnectionDoes DEF GraceTimerFires, CutOff
      <4> QED BY <4>1 DEF Steps, HostSteps
    <3> QED BY <2>7, <3>1, <3>2
  <2> QED BY <1>1, <2>1, <2>2, <2>3, <2>4, <2>5, <2>6, <2>7 DEF HostStep
<1>2. CASE ServerStep
  <2>1. CASE ServerHandshake
    BY <2>1, ServerHandshakeDoes DEF Steps, ServerSteps
  <2>2. CASE ServerGivesUp
    BY <2>2 DEF Steps, ServerSteps
  <2>3. CASE DemuxRun
    BY <2>3, DemuxRunDoes DEF Steps, ServerSteps
  <2>4. CASE DemuxTerminate \/ DemuxResponse
    BY <2>4, DemuxHears DEF Steps, ServerSteps
  <2>5. CASE DemuxRequest
    BY <2>5, DemuxRequestDoes DEF Steps, ServerSteps
  <2>6. CASE DemuxEnds
    <3>1. told' \subseteq Calls
      BY <2>6 DEF DemuxEnds, Types
    <3>2. Lost
      BY <2>6, <3>1 DEF DemuxEnds, Lost
    <3> QED BY <3>2 DEF Steps, ServerSteps
  <2> QED BY <1>2, <2>1, <2>2, <2>3, <2>4, <2>5, <2>6 DEF ServerStep
<1>3. CASE Crash
  <2>1. Lost
    BY <1>3 DEF Crash, Lost
  <2> QED BY <2>1 DEF Steps, ServerSteps
<1>4. CASE Dispose
  BY <1>4, DisposeDoes DEF Steps, HostSteps
<1>5. ASSUME NEW c \in Calls, \/ StartRun(c) \/ GuestCalls(c) \/ PostResult(c)
                              \/ Finish(c) \/ Sweep(c) \/ SendCompletion(c)
      PROVE  Steps
  <2>1. CASE StartRun(c)
    BY <2>1, StartRunShape DEF Steps, HostSteps
  <2>2. CASE GuestCalls(c)
    BY <2>2, GuestCallsDoes DEF Steps, ServerSteps
  <2>3. CASE PostResult(c)
    BY <2>3, PostResultDoes DEF Steps, ServerSteps
  <2>4. CASE Finish(c) \/ Sweep(c)
    BY <2>4, RunEndsDo DEF Steps, ServerSteps
  <2>5. CASE SendCompletion(c)
    BY <2>5, SendCompletionDoes DEF Steps, ServerSteps
  <2> QED BY <1>5, <2>1, <2>2, <2>3, <2>4, <2>5
<1>6. ASSUME NEW c \in Calls, NEW m \in Modes, Signal(c, m) PROVE Steps
  BY <1>6, SignalDoes DEF Steps, HostSteps
<1>7. ASSUME NEW c \in Calls, NEW t \in {"Precompile", "Stats"}, Request(c, t) PROVE Steps
  BY <1>7, RequestDoes DEF Steps, HostSteps
<1>8. CASE HostCallback
  <2>1. ASSUME NEW c \in Calls, Written(c)
        PROVE  Steps
    BY <2>1, WrittenDoes DEF Steps, HostSteps
  <2>2. ASSUME NEW h \in handlers, HandlerSettles(h)
        PROVE  Steps
    BY <2>2, HandlerSettlesDoes DEF Steps, HostSteps
  <2> QED BY <1>8, <2>1, <2>2 DEF HostCallback
<1>9. CASE UNCHANGED vars
  BY <1>9 DEF Steps
<1> QED BY <1>1, <1>2, <1>3, <1>4, <1>5, <1>6, <1>7, <1>8, <1>9 DEF Next

-----------------------------------------------------------------------------
(* The types. *)

\* Whatever a step does to a stream, it stays one of frames.
LEMMA StreamsTyped ==
  ASSUME Types
  PROVE  /\ \A f : SAdds(f) \/ Sends(f) \/ STakes(f) => toServer' \in Seq(ToServerFrame)
         /\ \A c : MayTell(c) => toServer' \in Seq(ToServerFrame)
         /\ \A f : HAdds(f) \/ Posts(f) \/ HTakes(f) => toHost' \in Seq(ToHostFrame)
         /\ UNCHANGED toServer \/ toServer' = <<>> => toServer' \in Seq(ToServerFrame)
         /\ UNCHANGED toHost \/ toHost' = <<>> => toHost' \in Seq(ToHostFrame)
         /\ \A k \in 0..Len(toHost) : toHost' = SubSeq(toHost, 1, k) => toHost' \in Seq(ToHostFrame)
<1>1. toServer \in Seq(ToServerFrame) /\ toHost \in Seq(ToHostFrame)
  BY DEF Types
<1>2. UNCHANGED toServer \/ toServer' = <<>> => toServer' \in Seq(ToServerFrame)
  <2>1. CASE UNCHANGED toServer
    BY <1>1, <2>1
  <2>2. CASE toServer' = <<>>
    BY <2>2, EmptySeq
  <2> QED BY <2>1, <2>2
<1>3. UNCHANGED toHost \/ toHost' = <<>> => toHost' \in Seq(ToHostFrame)
  <2>1. CASE UNCHANGED toHost
    BY <1>1, <2>1
  <2>2. CASE toHost' = <<>>
    BY <2>2, EmptySeq
  <2> QED BY <2>1, <2>2
<1>4. \A f : SAdds(f) \/ STakes(f) => toServer' \in Seq(ToServerFrame)
  BY SAddsFacts, STakesFacts
<1>5. \A f : HAdds(f) \/ HTakes(f) => toHost' \in Seq(ToHostFrame)
  BY HAddsFacts, HTakesFacts
<1>6. \A k \in 0..Len(toHost) : toHost' = SubSeq(toHost, 1, k) => toHost' \in Seq(ToHostFrame)
  BY <1>1, BeginningOf
<1> QED BY <1>2, <1>3, <1>4, <1>5, <1>6 DEF Sends, MayTell, Posts

\* Every step keeps the types.
LEMMA TypesStep ==
  ASSUME ConnInv, Steps
  PROVE  Types'
<1>0. Types
  BY DEF ConnInv
<1> USE <1>0
<1>s. NoCall \notin Calls /\ Abortable \subseteq Calls \X Modes
  BY ConnectionAssumptions DEF ConnectionAssumptions, Modes
<1>1. CASE HelloShape
  <2>1. toServer' \in Seq(ToServerFrame) /\ toHost' \in Seq(ToHostFrame)
    BY <1>1, StreamsTyped DEF HelloShape
  <2> QED BY <1>1, <2>1 DEF HelloShape, Types, serverVars
<1>2. CASE FailedShape
  <2>1. toServer' \in Seq(ToServerFrame) /\ toHost' \in Seq(ToHostFrame)
    BY <1>2, StreamsTyped DEF FailedShape
  <2>2. st' \in [Calls -> {"idle", "open", "grace", "done", "failed"}]
    BY <1>2 DEF FailedShape, Types
  <2> QED BY <1>2, <2>1, <2>2 DEF FailedShape, Types, serverVars
<1>3. CASE CutOff
  <2>1. toServer' \in Seq(ToServerFrame) /\ toHost' \in Seq(ToHostFrame)
    BY <1>3, StreamsTyped DEF CutOff, CutShape
  <2> QED BY <1>3, <2>1 DEF CutOff, CutShape, Types, serverVars
<1>4. CASE DisposedShape
  <2>1. toServer' \in Seq(ToServerFrame) /\ toHost' \in Seq(ToHostFrame)
    BY <1>4, StreamsTyped DEF DisposedShape
  <2> QED BY <1>4, <2>1 DEF DisposedShape, Types, serverVars
<1>5. ASSUME NEW c \in Calls, NEW id \in Ids, StartedShape(c, id) PROVE Types'
  <2>1. toServer' \in Seq(ToServerFrame) /\ toHost' \in Seq(ToHostFrame)
    BY <1>5, StreamsTyped DEF StartedShape
  <2>2. id \in 0..MaxId
    BY DEF Ids
  <2>3. listening' \subseteq Calls \X Modes
    BY <1>5, <1>s DEF StartedShape, Types
  <2> QED BY <1>5, <2>1, <2>2, <2>3 DEF StartedShape, Types, serverVars
<1>6. ASSUME NEW c \in Calls, WrittenShape(c) PROVE Types'
  <2>1. toServer' \in Seq(ToServerFrame) /\ toHost' \in Seq(ToHostFrame)
    BY <1>6, StreamsTyped DEF WrittenShape
  <2> QED BY <1>6, <2>1 DEF WrittenShape, Types, serverVars
<1>7. ASSUME NEW c \in Calls, WriteFails(c) PROVE Types'
  BY <1>7 DEF WriteFails, Forget, Types, serverVars
<1>8. ASSUME NEW c \in Calls, NEW m \in Modes, SignalShape(c, m) PROVE Types'
  <2>1. toServer' \in Seq(ToServerFrame) /\ toHost' \in Seq(ToHostFrame)
    BY <1>8, StreamsTyped DEF SignalShape
  <2>2. fired' \subseteq Calls \X Modes /\ listening' \subseteq Calls \X Modes /\ timer' \subseteq Calls
    BY <1>8, <1>s DEF SignalShape, Types
  <2> QED BY <1>8, <2>1, <2>2 DEF SignalShape, Types, serverVars
<1>9. ASSUME NEW c \in Calls, NEW t \in {"Precompile", "Stats"}, RequestShape(c, t) PROVE Types'
  <2>1. toServer' \in Seq(ToServerFrame) /\ toHost' \in Seq(ToHostFrame)
    BY <1>9, StreamsTyped DEF RequestShape
  <2>2. controls' \in Seq(Calls)
    <3>1. controls \in Seq(Calls) /\ (controls' = Append(controls, c) \/ controls' = controls)
      BY <1>9 DEF RequestShape, Types
    <3> QED BY <3>1, AppendProperties
  <2> QED BY <1>9, <2>1, <2>2 DEF RequestShape, Types, serverVars
<1>10. ASSUME NEW f, NEW c, AnsweredShape(f, c) PROVE Types'
  <2>1. toServer' \in Seq(ToServerFrame) /\ toHost' \in Seq(ToHostFrame)
    BY <1>10, StreamsTyped DEF AnsweredShape, EndShape, GraceShape
  <2>2. c \in Calls
    BY <1>10 DEF AnsweredShape, Active
  <2>3. CASE EndShape(f, c)
    <3>1. graceRuns' \in Int
      BY <2>3 DEF EndShape, Types
    <3> QED BY <1>10, <2>1, <2>2, <2>3, <3>1 DEF AnsweredShape, EndShape, Types, serverVars
  <2>4. CASE GraceShape(f, c)
    <3>1. graceRuns' \in Int
      BY <2>4 DEF GraceShape, Types
    <3> QED BY <1>10, <2>1, <2>2, <2>4, <3>1 DEF AnsweredShape, GraceShape, Types, serverVars
  <2> QED BY <1>10, <2>3, <2>4 DEF AnsweredShape
<1>11. ASSUME NEW f, NEW x, RepliedShape(f, x) PROVE Types'
  <2>1. toServer' \in Seq(ToServerFrame) /\ toHost' \in Seq(ToHostFrame)
    BY <1>11, StreamsTyped DEF RepliedShape
  <2>2. controls' \in Seq(Calls)
    <3>1. controls \in Seq(Calls) /\ ((controls # <<>> /\ controls' = Tail(controls)) \/ controls' = controls)
      BY <1>11 DEF RepliedShape, Types
    <3> QED BY <3>1, TailSet
  <2> QED BY <1>11, <2>1, <2>2 DEF RepliedShape, Types, serverVars
<1>12. ASSUME NEW f \in ToHostFrame, CalledShape(f) PROVE Types'
  <2>1. toServer' \in Seq(ToServerFrame) /\ toHost' \in Seq(ToHostFrame)
    BY <1>12, StreamsTyped DEF CalledShape
  <2>2. f.c \in Calls /\ f.id \in Ids /\ f.n \in 1..MaxCallId
    BY <1>12, ToHostFields DEF CalledShape, RunTypes
  <2>3. handlers' \subseteq [id : Ids, c : Calls, n : 1..MaxCallId]
    BY <1>12, <2>2 DEF CalledShape, Types
  <2> QED BY <1>12, <2>1, <2>3 DEF CalledShape, Types, serverVars
<1>13. ASSUME NEW h \in handlers, SettledShape(h) PROVE Types'
  <2>1. toServer' \in Seq(ToServerFrame) /\ toHost' \in Seq(ToHostFrame)
    BY <1>13, StreamsTyped DEF SettledShape, CutShape
  <2>2. reader' \in {"open", "closed", "ended"} /\ sock' \in {"open", "destroyed"}
    BY <1>13 DEF SettledShape, CutShape, Types
  <2> QED BY <1>13, <2>1, <2>2 DEF SettledShape, Types, serverVars
<1>14. CASE ServerGivesUp
  BY <1>14 DEF ServerGivesUp, Types, hostVars
<1>15. CASE Lost
  <2>1. toServer' \in Seq(ToServerFrame) /\ toHost' \in Seq(ToHostFrame)
    BY <1>15, StreamsTyped DEF Lost
  <2>2. run' \in [Calls -> {"none", "running", "posted", "ending", "closing", "swept", "over"}]
    BY <1>15 DEF Lost, Types
  <2>3. waiting' \in [Calls -> SUBSET (1..MaxCallId)]
    BY <1>15 DEF Lost, Types
  <2> QED BY <1>15, <2>1, <2>2, <2>3 DEF Lost, Types, hostVars
<1>16. ASSUME NEW f, GreetedShape(f) PROVE Types'
  <2>1. toServer' \in Seq(ToServerFrame) /\ toHost' \in Seq(ToHostFrame)
    BY <1>16, StreamsTyped DEF GreetedShape
  <2> QED BY <1>16, <2>1 DEF GreetedShape, Types, hostVars
<1>17. ASSUME NEW f, HeardShape(f) PROVE Types'
  <2>1. toServer' \in Seq(ToServerFrame) /\ toHost' \in Seq(ToHostFrame)
    BY <1>17, StreamsTyped DEF HeardShape
  <2> QED BY <1>17, <2>1 DEF HeardShape, Types, hostVars
<1>18. ASSUME NEW f, RequestedShape(f) PROVE Types'
  <2>1. toServer' \in Seq(ToServerFrame) /\ toHost' \in Seq(ToHostFrame)
    BY <1>18, StreamsTyped DEF RequestedShape
  <2> QED BY <1>18, <2>1 DEF RequestedShape, Types, hostVars, serverVars
<1>19. ASSUME NEW f, TakenShape(f) PROVE Types'
  <2>1. toServer' \in Seq(ToServerFrame) /\ toHost' \in Seq(ToHostFrame)
    BY <1>19, StreamsTyped DEF TakenShape
  <2> QED BY <1>19, <2>1 DEF TakenShape, Types, hostVars
<1>20. ASSUME NEW c \in Calls, PostedShape(c) \/ EndedShape(c) \/ CompletedShape(c) PROVE Types'
  <2>1. toServer' \in Seq(ToServerFrame) /\ toHost' \in Seq(ToHostFrame)
    BY <1>20, StreamsTyped DEF PostedShape, EndedShape, CompletedShape
  <2>2. CASE PostedShape(c)
    BY <2>1, <2>2 DEF PostedShape, Types, hostVars
  <2>3. CASE EndedShape(c)
    <3>1. run' \in [Calls -> {"none", "running", "posted", "ending", "closing", "swept", "over"}]
      BY <2>3 DEF EndedShape, Types
    <3>2. waiting' \in [Calls -> SUBSET (1..MaxCallId)]
      BY <2>3 DEF EndedShape, Types
    <3> QED BY <2>1, <2>3, <3>1, <3>2 DEF EndedShape, Types, hostVars
  <2>4. CASE CompletedShape(c)
    BY <2>1, <2>4 DEF CompletedShape, Types, hostVars
  <2> QED BY <1>20, <2>2, <2>3, <2>4
<1>21. ASSUME NEW c \in Calls, NEW n, CallingShape(c, n) PROVE Types'
  <2>1. toServer' \in Seq(ToServerFrame) /\ toHost' \in Seq(ToHostFrame)
    BY <1>21, StreamsTyped DEF CallingShape
  <2>2. n \in 1..MaxCallId /\ n \in 0..MaxCallId
    BY <1>21 DEF CallingShape
  <2>3. waiting' \in [Calls -> SUBSET (1..MaxCallId)]
    BY <1>21, <2>2 DEF CallingShape, Types
  <2> QED BY <1>21, <2>1, <2>2, <2>3 DEF CallingShape, Types, hostVars
<1>22. CASE UNCHANGED vars
  BY <1>22 DEF Types, vars, hostVars, serverVars
<1>23. CASE HostSteps
  BY <1>1, <1>2, <1>3, <1>4, <1>5, <1>6, <1>7, <1>8, <1>9, <1>10, <1>11, <1>12, <1>13, <1>23 DEF HostSteps
<1>24. CASE ServerSteps
  BY <1>14, <1>15, <1>16, <1>17, <1>18, <1>19, <1>20, <1>21, <1>24 DEF ServerSteps
<1> QED BY <1>22, <1>23, <1>24 DEF Steps

-----------------------------------------------------------------------------
(* What the router keeps. *)

\* Steps that change no call's state.
Aside == UNCHANGED <<st, idOf, runs, precompiles, controls, graceRuns, run, routes>>

\* The steps that change a call's state.
CoreSteps ==
  \/ FailedShape \/ Lost
  \/ \E c \in Calls, id \in Ids : StartedShape(c, id)
  \/ \E c \in Calls : WriteFails(c)
  \/ \E c \in Calls, t \in {"Precompile", "Stats"} : RequestShape(c, t)
  \/ \E f, c : AnsweredShape(f, c)
  \/ \E f, c : RepliedShape(f, c)
  \/ \E f : TakenShape(f)
  \/ \E c \in Calls : PostedShape(c)
  \/ \E c \in Calls : EndedShape(c)
  \/ \E c \in Calls : CompletedShape(c)

\* There are no others.
LEMMA CoreOrAside ==
  ASSUME Steps
  PROVE  CoreSteps \/ Aside
<1>1. CASE HelloShape \/ CutOff \/ DisposedShape
  BY <1>1 DEF Aside, HelloShape, CutOff, DisposedShape, serverVars
<1>2. ASSUME NEW c \in Calls, WrittenShape(c) PROVE Aside
  BY <1>2 DEF Aside, WrittenShape, serverVars
<1>3. ASSUME NEW c \in Calls, NEW m \in Modes, SignalShape(c, m) PROVE Aside
  BY <1>3 DEF Aside, SignalShape, serverVars
<1>4. ASSUME NEW f \in ToHostFrame, CalledShape(f) PROVE Aside
  BY <1>4 DEF Aside, CalledShape, serverVars
<1>5. ASSUME NEW h \in handlers, SettledShape(h) PROVE Aside
  BY <1>5 DEF Aside, SettledShape, serverVars
<1>6. CASE ServerGivesUp
  BY <1>6 DEF Aside, ServerGivesUp, hostVars
<1>7. ASSUME NEW f, GreetedShape(f) \/ HeardShape(f) \/ RequestedShape(f) PROVE Aside
  BY <1>7 DEF Aside, GreetedShape, HeardShape, RequestedShape, hostVars, serverVars
<1>8. ASSUME NEW c \in Calls, NEW n, CallingShape(c, n) PROVE Aside
  BY <1>8 DEF Aside, CallingShape, hostVars
<1>9. CASE UNCHANGED vars
  BY <1>9 DEF Aside, vars, hostVars, serverVars
<1>10. CASE HostSteps
  BY <1>1, <1>2, <1>3, <1>4, <1>5, <1>10 DEF HostSteps, CoreSteps
<1>11. CASE ServerSteps
  BY <1>6, <1>7, <1>8, <1>11 DEF ServerSteps, CoreSteps
<1> QED BY <1>9, <1>10, <1>11 DEF Steps

\* The handshake and the socket.
LEMMA QuietStep ==
  ASSUME ConnInv, Steps
  PROVE  Quiet'
<1>0. Types /\ Quiet /\ HostWire /\ HostShape
  BY DEF ConnInv
<1>h. demux = "handshake" => hs # "ready" /\ toHost = <<>> /\ \A c \in Calls : run[c] = "none"
  BY <1>0 DEF Quiet, HostShape, CallShape
<1> USE DEF Quiet, ReadyIsCompatible
<1>1. CASE HelloShape
  <2>1. hs = "auth" /\ handlers' = handlers /\ st' = st /\ peer' = peer /\ demux' = demux
    BY <1>1 DEF HelloShape, serverVars
  <2>2. hs # "ready"
    BY <2>1
  <2>3. sock' = "open" => reader' = "open"
    BY <1>0, <1>1 DEF HelloShape
  <2>4. ASSUME hs' = "ready" PROVE peer' = "ok" /\ demux # "handshake"
    <3>1. PICK f : HTakes(f) /\ f.status = "ok" /\ peer # "probe"
      BY <1>1, <2>4 DEF HelloShape
    <3>2. f \in ToSet(toHost)
      BY <1>0, <3>1, HTakesFacts
    <3>3. f.t = "Hello"
      BY <1>0, <2>1, <3>2 DEF HostWire
    <3>4. peer \in {"ok", "probe"}
      BY <1>0, <3>1, <3>2, <3>3 DEF HostWire, HelloOk
    <3> QED BY <1>0, <2>1, <3>1, <3>4 DEF HTakes
  <2>5. hs' \in {"ready", "failed"} /\ (hs' = "failed" => toHost' = <<>>)
    BY <1>1 DEF HelloShape
  <2> QED BY <1>0, <2>1, <2>2, <2>3, <2>4, <2>5
<1>2. CASE FailedShape
  BY <1>0, <1>2 DEF FailedShape, serverVars
<1>3. CASE CutOff
  BY <1>0, <1>3 DEF CutOff, CutShape, serverVars
<1>4. CASE DisposedShape
  BY <1>0, <1>4 DEF DisposedShape, serverVars
<1>5. ASSUME NEW c \in Calls, NEW id \in Ids, StartedShape(c, id) PROVE Quiet'
  BY <1>0, <1>5 DEF StartedShape, serverVars
<1>6. ASSUME NEW c \in Calls, WrittenShape(c) PROVE Quiet'
  BY <1>0, <1>6 DEF WrittenShape, serverVars
<1>7. ASSUME NEW c \in Calls, WriteFails(c) PROVE Quiet'
  BY <1>0, <1>7 DEF WriteFails, serverVars
<1>8. ASSUME NEW c \in Calls, NEW m \in Modes, SignalShape(c, m) PROVE Quiet'
  BY <1>0, <1>8 DEF SignalShape, serverVars
<1>9. ASSUME NEW c \in Calls, NEW t \in {"Precompile", "Stats"}, RequestShape(c, t) PROVE Quiet'
  BY <1>0, <1>9 DEF RequestShape, serverVars
<1>10. ASSUME NEW f, NEW c, AnsweredShape(f, c) PROVE Quiet'
  BY <1>0, <1>10 DEF AnsweredShape, serverVars
<1>11. ASSUME NEW f, NEW x, RepliedShape(f, x) PROVE Quiet'
  BY <1>0, <1>11 DEF RepliedShape, serverVars
<1>12. ASSUME NEW f \in ToHostFrame, CalledShape(f) PROVE Quiet'
  BY <1>0, <1>12 DEF CalledShape, serverVars
<1>13. ASSUME NEW h \in handlers, SettledShape(h) PROVE Quiet'
  BY <1>0, <1>13 DEF SettledShape, CutShape, serverVars
<1>14. CASE UNCHANGED <<peer, hostVars>> /\ (demux' = "handshake" => demux = "handshake" /\ UNCHANGED toHost)
  BY <1>0, <1>14 DEF hostVars
<1>15. ServerGivesUp \/ Lost => UNCHANGED <<peer, hostVars>> /\ (demux' = "handshake" => FALSE)
  BY DEF ServerGivesUp, Lost
<1>16. ASSUME NEW f, GreetedShape(f) \/ HeardShape(f) \/ RequestedShape(f) \/ TakenShape(f)
       PROVE  UNCHANGED <<peer, hostVars>> /\ demux' # "handshake"
  BY <1>16 DEF GreetedShape, HeardShape, RequestedShape, TakenShape, serverVars
<1>17. ASSUME NEW c \in Calls, PostedShape(c) \/ EndedShape(c) \/ CompletedShape(c) \/ \E n : CallingShape(c, n)
       PROVE  UNCHANGED <<peer, hostVars>> /\ demux' # "handshake"
  <2>1. run[c] # "none" /\ demux' = demux /\ UNCHANGED <<peer, hostVars>>
    BY <1>17 DEF PostedShape, EndedShape, CompletedShape, CallingShape
  <2> QED BY <1>h, <2>1
<1>18. CASE ServerSteps
  BY <1>14, <1>15, <1>16, <1>17, <1>18 DEF ServerSteps
<1>19. CASE UNCHANGED vars
  BY <1>14, <1>19 DEF vars, serverVars
<1>23. CASE HostSteps
  BY <1>1, <1>2, <1>3, <1>4, <1>5, <1>6, <1>7, <1>8, <1>9, <1>10, <1>11, <1>12, <1>13, <1>23 DEF HostSteps
<1> QED BY <1>18, <1>19, <1>23 DEF Steps

\* The phase of a call agrees with its id, its write and its run.
LEMMA CallShapeStep ==
  ASSUME ConnInv, Steps, NEW d \in Calls
  PROVE  CallShape(d)'
<1>0. Types /\ HostShape /\ ServerWire /\ CallShape(d)
  BY DEF ConnInv, HostShape
<1>t. /\ st \in [Calls -> {"idle", "open", "grace", "done", "failed"}] /\ idOf \in [Calls -> 0..MaxId]
      /\ run \in [Calls -> {"none", "running", "posted", "ending", "closing", "swept", "over"}]
      /\ \A i \in Ids : i # 0
  BY <1>0 DEF Types, Ids
<1>1. CASE FailedShape
  BY <1>0, <1>1, <1>t DEF FailedShape, CallShape, serverVars
<1>2. CASE Lost
  BY <1>0, <1>2, <1>t DEF Lost, CallShape, hostVars
<1>3. ASSUME NEW c \in Calls, NEW id \in Ids, StartedShape(c, id) PROVE CallShape(d)'
  <2>1. CallShape(c)
    BY <1>0 DEF HostShape
  <2> QED BY <1>0, <1>3, <1>t, <2>1 DEF StartedShape, CallShape, serverVars
<1>4. ASSUME NEW c \in Calls, WriteFails(c) PROVE CallShape(d)'
  BY <1>0, <1>4, <1>t DEF WriteFails, CallShape, serverVars
<1>5. ASSUME NEW c \in Calls, NEW t \in {"Precompile", "Stats"}, RequestShape(c, t) PROVE CallShape(d)'
  BY <1>0, <1>5, <1>t DEF RequestShape, CallShape, serverVars
<1>6. ASSUME NEW f, NEW c, AnsweredShape(f, c) PROVE CallShape(d)'
  <2>1. c \in Calls /\ idOf[c] # 0 /\ UNCHANGED <<idOf, written, run>>
    BY <1>6, <1>t DEF AnsweredShape, Active, serverVars
  <2>2. st' = [st EXCEPT ![c] = "done"] \/ st' = [st EXCEPT ![c] = "grace"]
    BY <1>6 DEF AnsweredShape, EndShape, GraceShape
  <2> QED BY <1>0, <1>t, <2>1, <2>2 DEF CallShape
<1>7. ASSUME NEW f, NEW x, RepliedShape(f, x) PROVE CallShape(d)'
  BY <1>0, <1>7, <1>t DEF RepliedShape, CallShape, serverVars
<1>8. ASSUME NEW f, TakenShape(f) PROVE CallShape(d)'
  <2>1. f.c \in Calls /\ f.c \in written /\ idOf[f.c] # 0
    BY <1>8, <1>t DEF TakenShape
  <2>2. st[f.c] # "idle"
    <3>1. f \in ToSet(toServer) /\ f.t = "Run"
      BY <1>0, <1>8, STakesFacts DEF TakenShape
    <3> QED BY <1>0, <3>1 DEF ServerWire, RunOk
  <2>3. \E y : run' = [run EXCEPT ![f.c] = y]
    BY <1>8 DEF TakenShape
  <2>4. UNCHANGED <<st, idOf, written>>
    BY <1>8 DEF TakenShape, hostVars
  <2> QED BY <1>0, <1>t, <2>1, <2>2, <2>3, <2>4 DEF CallShape
<1>9. ASSUME NEW c \in Calls, PostedShape(c) \/ EndedShape(c) \/ CompletedShape(c) PROVE CallShape(d)'
  <2>1. run[c] # "none" /\ \E y : run' = [run EXCEPT ![c] = y]
    BY <1>9 DEF PostedShape, EndedShape, CompletedShape
  <2>2. UNCHANGED <<st, idOf, written>>
    BY <1>9 DEF PostedShape, EndedShape, CompletedShape, hostVars
  <2>3. CallShape(c)
    BY <1>0 DEF HostShape
  <2> QED BY <1>0, <1>t, <2>1, <2>2, <2>3 DEF CallShape
<1>10. CASE Aside
  <2>1. UNCHANGED <<st, idOf, run>>
    BY <1>10 DEF Aside
  <2>2. UNCHANGED written \/ \E c \in Calls : st[c] = "open" /\ written' = written \cup {c}
    <3>1. ASSUME NEW c \in Calls, WrittenShape(c) PROVE st[c] = "open" /\ written' = written \cup {c}
      BY <3>1 DEF WrittenShape
    <3>2. CASE HostSteps
      <4>1. ASSUME NEW c \in Calls, NEW t \in {"Precompile", "Stats"}, RequestShape(c, t) PROVE FALSE
        BY <1>t, <2>1, <4>1 DEF RequestShape
      <4> QED BY <3>1, <3>2, <4>1 DEF HostSteps, HelloShape, FailedShape, CutOff, DisposedShape, StartedShape, WriteFails,
               SignalShape, AnsweredShape, RepliedShape, CalledShape, SettledShape
    <3>3. CASE ServerSteps
      BY <3>3 DEF ServerSteps, ServerGivesUp, Lost, GreetedShape, HeardShape, RequestedShape, TakenShape, PostedShape,
         EndedShape, CompletedShape, CallingShape, hostVars
    <3>4. CASE UNCHANGED vars
      BY <3>4 DEF vars, hostVars
    <3> QED BY <3>2, <3>3, <3>4 DEF Steps
  <2> QED BY <1>0, <2>1, <2>2 DEF CallShape
<1> QED BY <1>1, <1>2, <1>3, <1>4, <1>5, <1>6, <1>7, <1>8, <1>9, <1>10, CoreOrAside DEF CoreSteps

\* Every call the router awaits is under its id, and nothing else is.
LEMMA RegisteredStep ==
  ASSUME ConnInv, Steps
  PROVE  (\A d \in Calls : Registered(d)') /\ (\A i \in Ids : Entered(i)')
<1>0. Types /\ HostShape
  BY DEF ConnInv
<1>t. /\ st \in [Calls -> {"idle", "open", "grace", "done", "failed"}] /\ idOf \in [Calls -> 0..MaxId]
      /\ runs \in [Ids -> Calls \cup {NoCall}] /\ NoCall \notin Calls
      /\ \A d \in Calls : idOf[d] # 0 => idOf[d] \in Ids
  BY <1>0, ConnectionAssumptions DEF Types, Ids, ConnectionAssumptions
<1>a. /\ \A d \in Calls : st[d] \in {"open", "grace"} /\ idOf[d] # 0 => runs[idOf[d]] = d
      /\ \A i \in Ids : runs[i] # NoCall => idOf[runs[i]] = i /\ st[runs[i]] \in {"open", "grace"}
      /\ \A i \in Ids : i # 0
  BY <1>0 DEF HostShape, Registered, Entered, Ids
<1> DEFINE Goal == (\A d \in Calls : Registered(d)') /\ (\A i \in Ids : Entered(i)')
<1>1. CASE FailedShape
  BY <1>1, <1>t DEF FailedShape, Registered, Entered
<1>2. ASSUME NEW c \in Calls, NEW id \in Ids, StartedShape(c, id) PROVE Goal
  BY <1>2, <1>t, <1>a DEF StartedShape, Registered, Entered
<1>3. ASSUME NEW c \in Calls, WriteFails(c) PROVE Goal
  <2>1. st[c] = "open" /\ c \notin written /\ st' = [st EXCEPT ![c] = "failed"]
        /\ runs' = [runs EXCEPT ![idOf[c]] = NoCall] /\ idOf' = idOf
    BY <1>3 DEF WriteFails, Forget
  <2>2. idOf[c] # 0
    BY <1>0, <2>1 DEF HostShape, CallShape
  <2> QED BY <1>t, <1>a, <2>1, <2>2 DEF Registered, Entered
<1>4. ASSUME NEW c \in Calls, NEW t \in {"Precompile", "Stats"}, RequestShape(c, t) PROVE Goal
  <2>1. idOf[c] = 0
    BY <1>0, <1>4 DEF RequestShape, HostShape, CallShape
  <2> QED BY <1>4, <1>t, <1>a, <2>1 DEF RequestShape, Registered, Entered
<1>5. ASSUME NEW f, NEW c, AnsweredShape(f, c) PROVE Goal
  <2>1. c \in Calls /\ idOf[c] \in Ids /\ idOf' = idOf /\ st[c] \in {"open", "grace"} /\ runs[idOf[c]] = c
    BY <1>5 DEF AnsweredShape, Active
  <2>2. CASE EndShape(f, c)
    BY <1>t, <1>a, <2>1, <2>2 DEF EndShape, Registered, Entered
  <2>3. CASE GraceShape(f, c)
    BY <1>t, <1>a, <2>1, <2>3 DEF GraceShape, Registered, Entered
  <2> QED BY <1>5, <2>2, <2>3 DEF AnsweredShape
<1>6. ASSUME NEW f, NEW x, RepliedShape(f, x) PROVE Goal
  BY <1>6, <1>t, <1>a DEF RepliedShape, Registered, Entered
<1>7. CASE UNCHANGED <<st, idOf, runs>>
  BY <1>7, <1>a DEF Registered, Entered
<1>8. Aside => UNCHANGED <<st, idOf, runs>>
  BY DEF Aside
<1>9. \A c, f : Lost \/ TakenShape(f) \/ PostedShape(c) \/ EndedShape(c) \/ CompletedShape(c) => UNCHANGED <<st, idOf, runs>>
  BY DEF Lost, TakenShape, PostedShape, EndedShape, CompletedShape, hostVars
<1> HIDE DEF Goal
<1>10. Goal
  BY <1>1, <1>2, <1>3, <1>4, <1>5, <1>6, <1>7, <1>8, <1>9, CoreOrAside DEF CoreSteps, Goal
<1> QED BY <1>10 DEF Goal

\* Requests without an id: each waits once, and none is a run.
LEMMA AskedStep ==
  ASSUME ConnInv, Steps
  PROVE  (\A d \in Calls : Asked(d)') /\ IsInjective(controls)'
<1>0. Types /\ HostShape
  BY DEF ConnInv
<1>t. /\ st \in [Calls -> {"idle", "open", "grace", "done", "failed"}] /\ idOf \in [Calls -> 0..MaxId]
      /\ controls \in Seq(Calls) /\ \A i \in Ids : i # 0
  BY <1>0 DEF Types, Ids
<1>a. /\ \A d \in Calls : d \in precompiles => st[d] = "open" /\ idOf[d] = 0 /\ d \notin ToSet(controls)
      /\ \A d \in Calls : d \in ToSet(controls) => st[d] = "open" /\ idOf[d] = 0
      /\ IsInjective(controls)
  BY <1>0 DEF HostShape, Asked
<1> DEFINE Goal == (\A d \in Calls : Asked(d)') /\ IsInjective(controls)'
<1>1. CASE FailedShape
  <2>1. precompiles' = {} /\ controls' = <<>>
    BY <1>1 DEF FailedShape
  <2>2. ToSet(<<>>) = {} /\ IsInjective(<<>>)
    BY DEF ToSet, IsInjective
  <2> QED BY <2>1, <2>2 DEF Asked
<1>2. ASSUME NEW c \in Calls, NEW id \in Ids, StartedShape(c, id) PROVE Goal
  BY <1>2, <1>t, <1>a DEF StartedShape, Asked
<1>3. ASSUME NEW c \in Calls, WriteFails(c) PROVE Goal
  <2>1. st[c] = "open" /\ c \notin written /\ st' = [st EXCEPT ![c] = "failed"]
        /\ UNCHANGED <<idOf, precompiles, controls>>
    BY <1>3 DEF WriteFails, Forget
  <2>2. idOf[c] # 0
    BY <1>0, <2>1 DEF HostShape, CallShape
  <2> QED BY <1>t, <1>a, <2>1, <2>2 DEF Asked
<1>4. ASSUME NEW c \in Calls, NEW t \in {"Precompile", "Stats"}, RequestShape(c, t) PROVE Goal
  <2>1. idOf[c] = 0 /\ st[c] = "idle" /\ st' = [st EXCEPT ![c] = "open"] /\ idOf' = idOf
    BY <1>0, <1>4 DEF RequestShape, HostShape, CallShape
  <2>2. c \notin ToSet(controls) /\ c \notin precompiles
    BY <1>a, <2>1
  <2>3. CASE controls' = Append(controls, c) /\ UNCHANGED precompiles
    <3>1. ToSet(controls') = ToSet(controls) \cup {c} /\ IsInjective(controls')
      BY <1>t, <1>a, <2>2, <2>3, AppendDistinct
    <3> QED BY <1>t, <1>a, <2>1, <2>2, <2>3, <3>1 DEF Asked
  <2>4. CASE precompiles' = precompiles \cup {c} /\ UNCHANGED controls
    BY <1>t, <1>a, <2>1, <2>2, <2>4 DEF Asked
  <2> QED BY <1>4, <2>3, <2>4 DEF RequestShape
<1>5. ASSUME NEW f, NEW c, AnsweredShape(f, c) PROVE Goal
  <2>1. c \in Calls /\ idOf[c] # 0 /\ UNCHANGED <<idOf, precompiles, controls>>
    BY <1>5, <1>t DEF AnsweredShape, Active
  <2>2. \E y : st' = [st EXCEPT ![c] = y]
    BY <1>5 DEF AnsweredShape, EndShape, GraceShape
  <2> QED BY <1>t, <1>a, <2>1, <2>2 DEF Asked
<1>6. ASSUME NEW f, NEW x, RepliedShape(f, x) PROVE Goal
  <2>1. x \in Calls /\ st' = [st EXCEPT ![x] = "done"] /\ idOf' = idOf
    BY <1>6 DEF RepliedShape
  <2>2. CASE controls # <<>> /\ x = Head(controls) /\ controls' = Tail(controls) /\ UNCHANGED precompiles
    <3>1. ToSet(controls') = ToSet(controls) \ {x} /\ IsInjective(controls') /\ x \in ToSet(controls)
      BY <1>t, <1>a, <2>2, TailDistinct
    <3> QED BY <1>t, <1>a, <2>1, <2>2, <3>1 DEF Asked
  <2>3. CASE x \in precompiles /\ precompiles' = precompiles \ {x} /\ UNCHANGED controls
    BY <1>t, <1>a, <2>1, <2>3 DEF Asked
  <2> QED BY <1>6, <2>2, <2>3 DEF RepliedShape
<1>7. CASE UNCHANGED <<st, idOf, precompiles, controls>>
  BY <1>7, <1>a DEF Asked
<1>8. Aside => UNCHANGED <<st, idOf, precompiles, controls>>
  BY DEF Aside
<1>9. \A c, f : Lost \/ TakenShape(f) \/ PostedShape(c) \/ EndedShape(c) \/ CompletedShape(c)
                => UNCHANGED <<st, idOf, precompiles, controls>>
  BY DEF Lost, TakenShape, PostedShape, EndedShape, CompletedShape, hostVars
<1> HIDE DEF Goal
<1>10. Goal
  BY <1>1, <1>2, <1>3, <1>4, <1>5, <1>6, <1>7, <1>8, <1>9, CoreOrAside DEF CoreSteps, Goal
<1> QED BY <1>10 DEF Goal

\* Timers and listeners are those of runs the router awaits.
LEMMA WiredStep ==
  ASSUME ConnInv, Steps, NEW d \in Calls
  PROVE  Wired(d)'
<1>0. Types /\ HostShape
  BY DEF ConnInv
<1>t. /\ st \in [Calls -> {"idle", "open", "grace", "done", "failed"}] /\ idOf \in [Calls -> 0..MaxId]
      /\ listening \subseteq Calls \X Modes /\ \A i \in Ids : i # 0
  BY <1>0 DEF Types, Ids
<1>a. /\ d \in timer => st[d] = "open" /\ idOf[d] # 0
      /\ \A m \in Modes : <<d, m>> \in listening => st[d] \in {"open", "grace"} /\ idOf[d] # 0
  BY <1>0 DEF HostShape, Wired
<1>b. st[d] = "open" /\ d \notin written => idOf[d] # 0
  BY <1>0 DEF HostShape, CallShape
<1>1. CASE FailedShape
  BY <1>1 DEF FailedShape, Wired
<1>2. ASSUME NEW c \in Calls, NEW id \in Ids, StartedShape(c, id) PROVE Wired(d)'
  BY <1>2, <1>t, <1>a DEF StartedShape, Wired
<1>3. ASSUME NEW c \in Calls, WriteFails(c) PROVE Wired(d)'
  BY <1>3, <1>t, <1>a DEF WriteFails, Forget, Wired
<1>4. ASSUME NEW c \in Calls, NEW t \in {"Precompile", "Stats"}, RequestShape(c, t) PROVE Wired(d)'
  BY <1>4, <1>t, <1>a DEF RequestShape, Wired
<1>5. ASSUME NEW f, NEW c, AnsweredShape(f, c) PROVE Wired(d)'
  <2>1. c \in Calls /\ idOf[c] # 0 /\ UNCHANGED idOf
    BY <1>5, <1>t DEF AnsweredShape, Active
  <2>2. CASE EndShape(f, c)
    BY <1>t, <1>a, <2>1, <2>2 DEF EndShape, Wired
  <2>3. CASE GraceShape(f, c)
    BY <1>t, <1>a, <2>1, <2>3 DEF GraceShape, Wired
  <2> QED BY <1>5, <2>2, <2>3 DEF AnsweredShape
<1>6. ASSUME NEW f, NEW x, RepliedShape(f, x) PROVE Wired(d)'
  BY <1>6, <1>t, <1>a DEF RepliedShape, Wired
<1>7. ASSUME NEW c \in Calls, WrittenShape(c) PROVE Wired(d)'
  BY <1>7, <1>t, <1>a, <1>b DEF WrittenShape, Wired
<1>8. ASSUME NEW c \in Calls, NEW m \in Modes, SignalShape(c, m) PROVE Wired(d)'
  <2>1. UNCHANGED <<st, idOf>> /\ listening' \subseteq listening
    BY <1>8 DEF SignalShape
  <2>2. d \in timer' => d \in timer \/ (st[d] = "open" /\ idOf[d] # 0)
    BY <1>8, <1>t DEF SignalShape, Active
  <2> QED BY <1>a, <2>1, <2>2 DEF Wired
<1>9. CASE UNCHANGED <<st, idOf, listening>> /\ timer' \subseteq timer
  BY <1>9, <1>a DEF Wired
<1>10. HelloShape \/ CutOff \/ DisposedShape \/ ServerSteps \/ UNCHANGED vars
        => UNCHANGED <<st, idOf, listening>> /\ timer' \subseteq timer
  BY DEF HelloShape, CutOff, DisposedShape, ServerSteps, ServerGivesUp, Lost, GreetedShape, HeardShape,
         RequestedShape, TakenShape, PostedShape, EndedShape, CompletedShape, CallingShape, vars, hostVars
<1>11. \A f : CalledShape(f) \/ SettledShape(f) => UNCHANGED <<st, idOf, listening>> /\ timer' \subseteq timer
  BY DEF CalledShape, SettledShape
<1> QED BY <1>1, <1>2, <1>3, <1>4, <1>5, <1>6, <1>7, <1>8, <1>9, <1>10, <1>11 DEF Steps, HostSteps

\* What the router keeps is consistent.
LEMMA HostShapeStep ==
  ASSUME ConnInv, Steps
  PROVE  HostShape'
  BY CallShapeStep, RegisteredStep, WiredStep, AskedStep DEF HostShape

-----------------------------------------------------------------------------
(* What the runtime keeps. *)

\* What a router that takes frames knew before the step.
LEMMA ReaderStays ==
  ASSUME ConnInv, Steps
  PROVE  reader' # "ended" => reader # "ended" \/ \A c \in Calls : run[c] = "none"
<1>0. Quiet /\ HostShape
  BY DEF ConnInv
<1>1. CASE HelloShape
  BY <1>0, <1>1 DEF HelloShape, Quiet, HostShape, CallShape
<1>2. CASE HostSteps
  <2>1. UNCHANGED reader \/ CutShape \/ HelloShape \/ reader' = "ended"
    BY <1>2 DEF HostSteps, FailedShape, CutOff, DisposedShape, StartedShape, WrittenShape, WriteFails,
         SignalShape, RequestShape, AnsweredShape, RepliedShape, CalledShape, SettledShape
  <2> QED BY <1>1, <2>1 DEF CutShape
<1>3. CASE ServerSteps \/ UNCHANGED vars
  BY <1>3 DEF ServerSteps, ServerGivesUp, Lost, GreetedShape, HeardShape,
         RequestedShape, TakenShape, PostedShape, EndedShape, CompletedShape, CallingShape, vars, hostVars
<1> QED BY <1>2, <1>3 DEF Steps

\* The routes are the runs in progress.
LEMMA RoutedStep ==
  ASSUME ConnInv, Steps
  PROVE  \A i \in Ids : Routed(i)'
<1>0. Types /\ HostShape /\ ServerShape /\ ServerWire
  BY DEF ConnInv
<1>t. /\ idOf \in [Calls -> 0..MaxId] /\ routes \in [Ids -> Calls \cup {NoCall}] /\ NoCall \notin Calls
      /\ run \in [Calls -> {"none", "running", "posted", "ending", "closing", "swept", "over"}]
  BY <1>0, ConnectionAssumptions DEF Types, ConnectionAssumptions
<1>a. \A i \in Ids : routes[i] # NoCall =>
         idOf[routes[i]] = i /\ run[routes[i]] \in {"running", "posted"} /\ demux = "serving"
  BY <1>0 DEF ServerShape, Routed
<1>1. CASE Lost
  BY <1>1 DEF Lost, Routed
<1>2. ASSUME NEW c \in Calls, NEW id \in Ids, StartedShape(c, id) PROVE \A i \in Ids : Routed(i)'
  <2>1. run[c] = "none" /\ idOf' = [idOf EXCEPT ![c] = id] /\ UNCHANGED <<routes, run, demux>>
    BY <1>0, <1>2 DEF StartedShape, HostShape, CallShape, serverVars
  <2> QED BY <1>t, <1>a, <2>1 DEF Routed
<1>3. ASSUME NEW f, TakenShape(f) PROVE \A i \in Ids : Routed(i)'
  <2>1. /\ UNCHANGED <<idOf, demux>> /\ demux = "serving" /\ f.c \in Calls /\ f.id \in Ids
        /\ idOf[f.c] = f.id /\ run[f.c] = "none" /\ routes[f.id] = NoCall
    BY <1>3 DEF TakenShape, hostVars
  <2>2. CASE routes' = [routes EXCEPT ![f.id] = f.c] /\ run' = [run EXCEPT ![f.c] = "running"]
    BY <1>t, <1>a, <2>1, <2>2 DEF Routed
  <2>3. CASE run' = [run EXCEPT ![f.c] = "over"] /\ UNCHANGED routes
    BY <1>t, <1>a, <2>1, <2>3 DEF Routed
  <2> QED BY <1>3, <2>2, <2>3 DEF TakenShape
<1>4. ASSUME NEW c \in Calls, PostedShape(c) PROVE \A i \in Ids : Routed(i)'
  BY <1>4, <1>t, <1>a DEF PostedShape, hostVars, Routed
<1>5. ASSUME NEW c \in Calls, EndedShape(c) PROVE \A i \in Ids : Routed(i)'
  <2>1. /\ UNCHANGED <<idOf, demux>> /\ routes' = [routes EXCEPT ![idOf[c]] = NoCall] /\ idOf[c] \in Ids
        /\ \E y : run' = [run EXCEPT ![c] = y]
    BY <1>5 DEF EndedShape, hostVars
  <2> QED BY <1>t, <1>a, <2>1 DEF Routed
<1>6. ASSUME NEW c \in Calls, CompletedShape(c) PROVE \A i \in Ids : Routed(i)'
  <2>1. /\ UNCHANGED <<idOf, demux, routes>> /\ run[c] \notin {"running", "posted"}
        /\ run' = [run EXCEPT ![c] = "over"]
    BY <1>6 DEF CompletedShape, hostVars
  <2> QED BY <1>t, <1>a, <2>1 DEF Routed
<1>7. CASE UNCHANGED <<idOf, routes, run>> /\ (demux' = demux \/ demux = "handshake")
  BY <1>7, <1>a DEF Routed
<1>8. CASE ServerGivesUp
  BY <1>7, <1>8 DEF ServerGivesUp, hostVars
<1>9. ASSUME NEW f, GreetedShape(f) \/ HeardShape(f) \/ RequestedShape(f) PROVE \A i \in Ids : Routed(i)'
  BY <1>7, <1>9 DEF GreetedShape, HeardShape, RequestedShape, hostVars, serverVars
<1>10. ASSUME NEW c \in Calls, NEW n, CallingShape(c, n) PROVE \A i \in Ids : Routed(i)'
  BY <1>7, <1>10 DEF CallingShape, hostVars
<1>11. CASE HostSteps
  <2>1. (\E c \in Calls, id \in Ids : StartedShape(c, id)) \/ UNCHANGED <<idOf, routes, run, demux>>
    BY <1>11 DEF HostSteps, HelloShape, FailedShape, CutOff, DisposedShape, WrittenShape, WriteFails,
         SignalShape, RequestShape, AnsweredShape, RepliedShape, CalledShape, SettledShape, serverVars
  <2> QED BY <1>2, <1>7, <2>1
<1>12. CASE ServerSteps
  BY <1>1, <1>3, <1>4, <1>5, <1>6, <1>8, <1>9, <1>10, <1>12 DEF ServerSteps
<1>13. CASE UNCHANGED vars
  BY <1>7, <1>13 DEF vars, hostVars, serverVars
<1> QED BY <1>11, <1>12, <1>13 DEF Steps

\* A run in progress is routed, and its caller still waits.
LEMMA ProgressStep ==
  ASSUME ConnInv, Steps, NEW d \in Calls
  PROVE  Progress(d)'
<1>0. Types /\ Quiet /\ HostShape /\ ServerShape /\ ServerWire /\ HostWire
  BY DEF ConnInv
<1>t. /\ idOf \in [Calls -> 0..MaxId] /\ routes \in [Ids -> Calls \cup {NoCall}] /\ NoCall \notin Calls
      /\ run \in [Calls -> {"none", "running", "posted", "ending", "closing", "swept", "over"}]
      /\ st \in [Calls -> {"idle", "open", "grace", "done", "failed"}]
      /\ \A c \in Calls : run[c] # "none" => idOf[c] \in Ids
  BY <1>0, BegunHasId, ConnectionAssumptions DEF Types, ConnectionAssumptions
<1>a. /\ demux = "serving" /\ run[d] \in {"running", "posted"} => routes[idOf[d]] = d
      /\ reader # "ended" /\ run[d] \in Going => st[d] \in {"open", "grace"}
      /\ reader # "ended" /\ run[d] \in {"running", "ending"} => st[d] = "open"
  BY <1>0 DEF ServerShape, Progress
<1>r. reader' # "ended" => reader # "ended" \/ run[d] = "none"
  BY ReaderStays
<1>i. st[d] = "idle" => run[d] = "none"
  BY <1>0 DEF HostShape, CallShape
<1>1. CASE FailedShape
  BY <1>1, <1>a DEF FailedShape, serverVars, Progress
<1>2. CASE Lost
  BY <1>2, <1>t, <1>a DEF Lost, hostVars, Progress, Going
<1>3. ASSUME NEW c \in Calls, NEW id \in Ids, StartedShape(c, id) PROVE Progress(d)'
  <2>1. st[c] = "idle" /\ idOf' = [idOf EXCEPT ![c] = id] /\ st' = [st EXCEPT ![c] = "open"]
        /\ UNCHANGED <<routes, run, demux, reader>>
    BY <1>0, <1>3 DEF StartedShape, serverVars
  <2> QED BY <1>t, <1>a, <1>i, <2>1 DEF Progress, Going
<1>4. ASSUME NEW c \in Calls, WriteFails(c) PROVE Progress(d)'
  <2>1. c \notin written /\ st' = [st EXCEPT ![c] = "failed"] /\ UNCHANGED <<idOf, routes, run, demux, reader>>
    BY <1>4 DEF WriteFails, serverVars
  <2>2. run[c] = "none"
    BY <1>0, <2>1 DEF HostShape, CallShape
  <2> QED BY <1>t, <1>a, <2>1, <2>2 DEF Progress, Going
<1>5. ASSUME NEW c \in Calls, NEW t \in {"Precompile", "Stats"}, RequestShape(c, t) PROVE Progress(d)'
  <2>1. st[c] = "idle" /\ st' = [st EXCEPT ![c] = "open"] /\ UNCHANGED <<idOf, routes, run, demux, reader>>
    BY <1>5 DEF RequestShape, serverVars
  <2> QED BY <1>t, <1>a, <1>i, <2>1 DEF Progress, Going
<1>6. ASSUME NEW f, NEW c, AnsweredShape(f, c) PROVE Progress(d)'
  <2>1. c \in Calls /\ UNCHANGED <<idOf, routes, run, demux, reader>> /\ f.c = c /\ reader # "ended"
    BY <1>6 DEF AnsweredShape, Active, serverVars
  <2>2. f \in ToSet(toHost)
    BY <1>0, <1>6, HTakesFacts DEF AnsweredShape
  <2>3. f.t \in RunTypes => (Final(f) => run[c] = "over") /\ (f.t = "Result" => run[c] \notin {"running", "ending"})
    BY <1>0, <2>1, <2>2 DEF HostWire, AnswerOk
  <2>4. CASE EndShape(f, c)
    <3>1. run[c] = "over" /\ st' = [st EXCEPT ![c] = "done"]
      BY <2>3, <2>4 DEF EndShape, RunTypes
    <3> QED BY <1>t, <1>a, <2>1, <3>1 DEF Progress, Going
  <2>5. CASE GraceShape(f, c)
    <3>1. run[c] \notin {"running", "ending"} /\ st' = [st EXCEPT ![c] = "grace"]
      BY <2>3, <2>5 DEF GraceShape, RunTypes
    <3> QED BY <1>t, <1>a, <2>1, <3>1 DEF Progress, Going
  <2> QED BY <1>6, <2>4, <2>5 DEF AnsweredShape
<1>7. ASSUME NEW f, NEW x, RepliedShape(f, x) PROVE Progress(d)'
  <2>1. x \in Calls /\ run[x] = "none" /\ st' = [st EXCEPT ![x] = "done"] /\ UNCHANGED <<idOf, routes, run, demux, reader>>
    BY <1>7 DEF RepliedShape, serverVars
  <2> QED BY <1>t, <1>a, <2>1 DEF Progress, Going
<1>8. ASSUME NEW f, TakenShape(f) PROVE Progress(d)'
  <2>1. /\ UNCHANGED <<idOf, demux, st, reader>> /\ f.c \in Calls /\ f.id \in Ids /\ f.c \in written
        /\ idOf[f.c] = f.id /\ run[f.c] = "none" /\ routes[f.id] = NoCall /\ f.t = "Run"
    BY <1>8 DEF TakenShape, hostVars
  <2>2. f \in ToSet(toServer)
    BY <1>0, <1>8, STakesFacts DEF TakenShape
  <2>3. reader # "ended" => st[f.c] = "open"
    BY <1>0, <2>1, <2>2 DEF ServerWire, RunOk
  <2>4. CASE routes' = [routes EXCEPT ![f.id] = f.c] /\ run' = [run EXCEPT ![f.c] = "running"]
    BY <1>t, <1>a, <2>1, <2>3, <2>4 DEF Progress, Going
  <2>5. CASE run' = [run EXCEPT ![f.c] = "over"] /\ UNCHANGED routes
    BY <1>t, <1>a, <2>1, <2>3, <2>5 DEF Progress, Going
  <2> QED BY <1>8, <2>4, <2>5 DEF TakenShape
<1>9. ASSUME NEW c \in Calls, PostedShape(c) PROVE Progress(d)'
  BY <1>9, <1>t, <1>a DEF PostedShape, hostVars, Progress, Going
<1>10. ASSUME NEW c \in Calls, EndedShape(c) PROVE Progress(d)'
  <2>1. /\ UNCHANGED <<idOf, demux, st, reader>> /\ routes' = [routes EXCEPT ![idOf[c]] = NoCall] /\ idOf[c] \in Ids
        /\ run[c] \in {"running", "posted"}
        /\ \/ run[c] = "running" /\ run' = [run EXCEPT ![c] = "ending"]
           \/ run[c] = "posted" /\ run' = [run EXCEPT ![c] = "closing"]
           \/ run[c] = "posted" /\ run' = [run EXCEPT ![c] = "swept"]
    BY <1>10 DEF EndedShape, hostVars
  <2>2. demux = "serving" => routes[idOf[c]] = c
    BY <1>0, <2>1 DEF ServerShape, Progress
  <2>3. d # c /\ demux = "serving" /\ run[d] \in {"running", "posted"} => idOf[d] # idOf[c] /\ idOf[d] \in Ids
    BY <1>t, <1>a, <2>2
  <2>4. demux' = "serving" /\ run'[d] \in {"running", "posted"} => routes'[idOf'[d]] = d
    BY <1>t, <1>a, <2>1, <2>3
  <2>5. /\ reader' # "ended" /\ run'[d] \in Going => st'[d] \in {"open", "grace"}
        /\ reader' # "ended" /\ run'[d] \in {"running", "ending"} => st'[d] = "open"
    BY <1>t, <1>a, <2>1 DEF Going
  <2> QED BY <2>4, <2>5 DEF Progress
<1>11. ASSUME NEW c \in Calls, CompletedShape(c) PROVE Progress(d)'
  BY <1>11, <1>t, <1>a DEF CompletedShape, hostVars, Progress, Going
<1>12. CASE Aside
  <2>1. UNCHANGED <<st, idOf, run, routes>>
    BY <1>12 DEF Aside
  <2>2. demux' = "serving" => demux = "serving" \/ run[d] = "none"
    <3>1. ASSUME NEW f, GreetedShape(f) PROVE run[d] = "none"
      BY <1>0, <1>i, <3>1 DEF GreetedShape, Quiet
    <3>2. CASE HostSteps
      BY <3>2 DEF HostSteps, HelloShape, FailedShape, CutOff, DisposedShape, WrittenShape, WriteFails, StartedShape,
         SignalShape, RequestShape, AnsweredShape, RepliedShape, CalledShape, SettledShape, serverVars
    <3>3. CASE ServerSteps
      BY <3>1, <3>3 DEF ServerSteps, ServerGivesUp, Lost, HeardShape, RequestedShape, TakenShape, PostedShape,
         EndedShape, CompletedShape, CallingShape, serverVars
    <3>4. CASE UNCHANGED vars
      BY <3>4 DEF vars, serverVars
    <3> QED BY <3>2, <3>3, <3>4 DEF Steps
  <2> QED BY <1>a, <1>r, <2>1, <2>2 DEF Progress, Going
<1> QED BY <1>1, <1>2, <1>3, <1>4, <1>5, <1>6, <1>7, <1>8, <1>9, <1>10, <1>11, <1>12, CoreOrAside DEF CoreSteps

\* The routing table is consistent.
LEMMA ServerShapeStep ==
  ASSUME ConnInv, Steps
  PROVE  ServerShape'
  BY RoutedStep, ProgressStep DEF ServerShape

\* The grace count is exact.
LEMMA GraceRunsStep ==
  ASSUME ConnInv, Steps
  PROVE  GraceRunsExact'
<1>0. Types /\ GraceRunsExact /\ HostShape
  BY DEF ConnInv
<1> DEFINE G == {c \in Calls : st[c] = "grace"}
<1>t. st \in [Calls -> {"idle", "open", "grace", "done", "failed"}] /\ graceRuns = Cardinality(G)
  BY <1>0 DEF Types, GraceRunsExact
<1>f. IsFiniteSet(G) /\ Cardinality(G) \in Nat
  <2>1. G \subseteq Calls /\ IsFiniteSet(Calls)
    BY ConnectionAssumptions DEF ConnectionAssumptions
  <2> HIDE DEF G
  <2> QED BY <2>1, FS_Subset, FS_CardinalityType
<1>1. CASE FailedShape
  <2>1. {c \in Calls : st'[c] = "grace"} = {}
    BY <1>1, <1>t DEF FailedShape
  <2> QED BY <1>1, <2>1, FS_EmptySet DEF FailedShape, GraceRunsExact
<1>2. CASE graceRuns' = graceRuns /\ \A c \in Calls : st'[c] = "grace" <=> st[c] = "grace"
  <2>1. {c \in Calls : st'[c] = "grace"} = G
    BY <1>2
  <2> QED BY <1>2, <1>t, <2>1 DEF GraceRunsExact
<1>3. ASSUME NEW c \in Calls, NEW id \in Ids, StartedShape(c, id) PROVE GraceRunsExact'
  BY <1>2, <1>3, <1>t DEF StartedShape
<1>4. ASSUME NEW c \in Calls, WriteFails(c) PROVE GraceRunsExact'
  BY <1>2, <1>4, <1>t DEF WriteFails
<1>5. ASSUME NEW c \in Calls, NEW t \in {"Precompile", "Stats"}, RequestShape(c, t) PROVE GraceRunsExact'
  BY <1>2, <1>5, <1>t DEF RequestShape
<1>6. ASSUME NEW f, NEW c, AnsweredShape(f, c) PROVE GraceRunsExact'
  <2>1. c \in Calls
    BY <1>6 DEF AnsweredShape, Active
  <2>2. CASE EndShape(f, c) /\ f.t = "Result"
    BY <1>2, <1>t, <2>1, <2>2 DEF EndShape
  <2>3. CASE EndShape(f, c) /\ f.t # "Result"
    <3>1. st[c] = "grace" /\ st' = [st EXCEPT ![c] = "done"] /\ graceRuns' = graceRuns - 1
      BY <2>3 DEF EndShape
    <3>2. {x \in Calls : st'[x] = "grace"} = G \ {c} /\ c \in G
      BY <1>t, <2>1, <3>1
    <3> HIDE DEF G
    <3>3. Cardinality(G \ {c}) = Cardinality(G) - 1
      BY <1>f, <3>2, FS_RemoveElement
    <3>4. Cardinality({x \in Calls : st'[x] = "grace"}) = Cardinality(G \ {c})
      BY <3>2
    <3> QED BY <1>t, <3>1, <3>3, <3>4 DEF GraceRunsExact
  <2>4. CASE GraceShape(f, c)
    <3>1. st[c] = "open" /\ st' = [st EXCEPT ![c] = "grace"] /\ graceRuns' = graceRuns + 1
      BY <2>4 DEF GraceShape
    <3>2. {x \in Calls : st'[x] = "grace"} = G \cup {c} /\ c \notin G
      BY <1>t, <2>1, <3>1
    <3> HIDE DEF G
    <3>3. Cardinality(G \cup {c}) = Cardinality(G) + 1
      BY <1>f, <3>2, FS_AddElement
    <3>4. Cardinality({x \in Calls : st'[x] = "grace"}) = Cardinality(G \cup {c})
      BY <3>2
    <3> QED BY <1>t, <3>1, <3>3, <3>4 DEF GraceRunsExact
  <2> QED BY <1>6, <2>2, <2>3, <2>4 DEF AnsweredShape
<1>7. ASSUME NEW f, NEW x, RepliedShape(f, x) PROVE GraceRunsExact'
  BY <1>2, <1>7, <1>t DEF RepliedShape
<1>8. CASE UNCHANGED <<st, graceRuns>>
  BY <1>2, <1>8
<1>9. Aside => UNCHANGED <<st, graceRuns>>
  BY DEF Aside
<1>10. \A c, f : Lost \/ TakenShape(f) \/ PostedShape(c) \/ EndedShape(c) \/ CompletedShape(c) => UNCHANGED <<st, graceRuns>>
  BY DEF Lost, TakenShape, PostedShape, EndedShape, CompletedShape, hostVars
<1> QED BY <1>1, <1>3, <1>4, <1>5, <1>6, <1>7, <1>8, <1>9, <1>10, CoreOrAside DEF CoreSteps

-----------------------------------------------------------------------------
(* The frames on their way to the runtime and to the host. *)

\* What only ever goes one way.
LEMMA OneWay ==
  ASSUME ConnInv, Steps
  PROVE  /\ sock' = "open" => sock = "open"
         /\ hs = "ready" => hs' = "ready" /\ (reader' # "ended" => reader # "ended")
         /\ hs' = "auth" => hs = "auth"
         /\ sock # "open" => UNCHANGED written
         /\ written \subseteq written'
<1>0. Types
  BY DEF ConnInv
<1>1. CASE HostSteps
  BY <1>0, <1>1 DEF HostSteps, HelloShape, FailedShape, CutOff, CutShape, DisposedShape, WrittenShape, WriteFails, StartedShape,
         SignalShape, RequestShape, AnsweredShape, RepliedShape, CalledShape, SettledShape, Types
<1>2. CASE ServerSteps
  BY <1>2 DEF ServerSteps, ServerGivesUp, Lost, GreetedShape, HeardShape, RequestedShape, TakenShape, PostedShape,
         EndedShape, CompletedShape, CallingShape, hostVars
<1>3. CASE UNCHANGED vars
  BY <1>3 DEF vars, hostVars
<1> QED BY <1>1, <1>2, <1>3 DEF Steps

\* f is a Terminate of a run its caller awaits, written by a step that moves
\* no route.
Telling(f) == f.t = "Terminate" /\ Active(f.c) /\ f.id = idOf[f.c] /\ UNCHANGED <<idOf, routes>>
                /\ (st'[f.c] = st[f.c] \/ st'[f.c] = "grace")

\* The host writes f, and why.
SNew(f) ==
  /\ SAdds(f) /\ hs = "ready"
  /\ \/ \E c \in Calls, id \in Ids : StartedShape(c, id) /\ f = [t |-> "Run", id |-> id, c |-> c]
     \/ Telling(f)
     \/ \E c \in Calls, t \in {"Precompile", "Stats"} : RequestShape(c, t) /\ f = [t |-> t, c |-> c]
     \/ f.t \in {"BridgeResponse", "Close"}

\* What a step does to the stream to the runtime.
STouched ==
  \/ UNCHANGED toServer
  \/ toServer' = <<>>
  \/ \E f : STakes(f)
  \/ \E f : SNew(f)

\* A step that may write a Terminate does one of these.
LEMMA Telled ==
  ASSUME Types, Quiet, NEW c, Active(c), MayTell(c), UNCHANGED <<idOf, routes>>, st'[c] = st[c] \/ st'[c] = "grace"
  PROVE  UNCHANGED toServer \/ \E f : SNew(f)
<1>1. SUFFICES ASSUME NEW m \in Modes, SAdds([t |-> "Terminate", id |-> idOf[c], c |-> c, mode |-> m])
               PROVE  \E f : SNew(f)
  BY DEF MayTell
<1>2. hs = "ready"
  BY DEF Active, Quiet
<1>3. SNew([t |-> "Terminate", id |-> idOf[c], c |-> c, mode |-> m])
  BY <1>1, <1>2 DEF SNew, Telling
<1> QED BY <1>3

\* So does every step.
LEMMA ToServerStep ==
  ASSUME ConnInv, Steps
  PROVE  STouched
<1>0. Types /\ Quiet
  BY DEF ConnInv
<1>1. CASE HelloShape \/ FailedShape \/ CutOff
  BY <1>1 DEF HelloShape, FailedShape, CutOff, CutShape, STouched
<1>2. CASE DisposedShape
  <2>1. SAdds([t |-> "Close"]) /\ hs = "ready" => SNew([t |-> "Close"])
    BY DEF SNew
  <2> QED BY <1>2, <2>1 DEF DisposedShape, STouched
<1>3. ASSUME NEW c \in Calls, NEW id \in Ids, StartedShape(c, id) PROVE STouched
  <2>1. hs = "ready" /\ Sends([t |-> "Run", id |-> id, c |-> c])
    BY <1>3 DEF StartedShape
  <2>2. SAdds([t |-> "Run", id |-> id, c |-> c]) => SNew([t |-> "Run", id |-> id, c |-> c])
    BY <1>3, <2>1 DEF SNew
  <2> QED BY <2>1, <2>2 DEF Sends, STouched
<1>4. ASSUME NEW c \in Calls, WrittenShape(c) PROVE STouched
  <2>1. Active(c) /\ MayTell(c) /\ UNCHANGED <<idOf, routes, st>>
    BY <1>4 DEF WrittenShape, serverVars
  <2> QED BY <1>0, <2>1, Telled DEF STouched
<1>5. ASSUME NEW c \in Calls, WriteFails(c) PROVE STouched
  BY <1>5 DEF WriteFails, STouched
<1>6. ASSUME NEW c \in Calls, NEW m \in Modes, SignalShape(c, m) PROVE STouched
  <2>1. UNCHANGED <<idOf, routes, st>> /\ (UNCHANGED toServer \/ (Active(c) /\ MayTell(c)))
    BY <1>6 DEF SignalShape, serverVars
  <2> QED BY <1>0, <2>1, Telled DEF STouched
<1>7. ASSUME NEW c \in Calls, NEW t \in {"Precompile", "Stats"}, RequestShape(c, t) PROVE STouched
  <2>1. SNew([t |-> t, c |-> c])
    BY <1>7 DEF RequestShape, SNew
  <2> QED BY <2>1 DEF STouched
<1>8. ASSUME NEW f, NEW c, AnsweredShape(f, c) PROVE STouched
  <2>1. CASE EndShape(f, c)
    BY <2>1 DEF EndShape, STouched
  <2>2. CASE GraceShape(f, c)
    <3>1. Active(c) /\ MayTell(c) /\ UNCHANGED <<idOf, routes>> /\ c \in Calls
      BY <1>8, <2>2 DEF AnsweredShape, GraceShape, serverVars, Active
    <3>2. st'[c] = "grace"
      BY <1>0, <2>2, <3>1 DEF GraceShape, Types
    <3> QED BY <1>0, <3>1, <3>2, Telled DEF STouched
  <2> QED BY <1>8, <2>1, <2>2 DEF AnsweredShape
<1>9. ASSUME NEW f, NEW x, RepliedShape(f, x) PROVE STouched
  BY <1>9 DEF RepliedShape, STouched
<1>10. ASSUME NEW f \in ToHostFrame, CalledShape(f) PROVE STouched
  <2>1. SAdds(ResponseFrame(f)) => SNew(ResponseFrame(f))
    BY <1>10 DEF CalledShape, SNew, ResponseFrame
  <2> QED BY <1>10, <2>1 DEF CalledShape, STouched
<1>11. ASSUME NEW h \in handlers, SettledShape(h) PROVE STouched
  <2>1. hs = "ready"
    BY <1>0 DEF Quiet
  <2>2. SAdds(ResponseFrame(h)) => SNew(ResponseFrame(h))
    BY <2>1 DEF SNew, ResponseFrame
  <2> QED BY <1>11, <2>2 DEF SettledShape, CutShape, STouched
<1>12. CASE HostSteps
  BY <1>1, <1>2, <1>3, <1>4, <1>5, <1>6, <1>7, <1>8, <1>9, <1>10, <1>11, <1>12 DEF HostSteps
<1>13. CASE ServerSteps
  BY <1>13 DEF ServerSteps, ServerGivesUp, Lost, GreetedShape, HeardShape, RequestedShape, TakenShape, PostedShape,
         EndedShape, CompletedShape, CallingShape, STouched
<1>14. CASE UNCHANGED vars
  BY <1>14 DEF vars, STouched
<1> QED BY <1>12, <1>13, <1>14 DEF Steps

\* The runtime writes f, and why.
HNew(f) ==
  /\ HAdds(f)
  /\ \/ f.t = "Hello" /\ (\E g : GreetedShape(g)) /\ (f.status = "ok" => peer \in {"ok", "probe"})
     \/ \E g : TakenShape(g) /\ f = AnswerFrame("Result", g.c, FALSE) /\ run' = [run EXCEPT ![g.c] = "over"]
     \/ \E g : RequestedShape(g) /\ \/ g.t = "Precompile" /\ f = [t |-> "PrecompileResult", c |-> g.c]
                                    \/ g.t = "Stats" /\ f = [t |-> "StatsResult", c |-> g.c]
     \/ \E c \in Calls : \E n : CallingShape(c, n) /\ f = [t |-> "BridgeCall", id |-> idOf[c], c |-> c, n |-> n]
     \/ \E c \in Calls : PostedShape(c) /\ f = AnswerFrame("Result", c, TRUE)
     \/ \E c \in Calls : CompletedShape(c)
          /\ \/ run[c] = "closing" /\ f = AnswerFrame("RunComplete", c, FALSE)
             \/ run[c] \in {"ending", "swept"} /\ f = AnswerFrame("Result", c, FALSE)

\* What a step does to the stream to the host.
HTouched ==
  \/ UNCHANGED toHost
  \/ toHost' = <<>>
  \/ Lost
  \/ \E f : HTakes(f)
  \/ \E f : HNew(f)

\* So does every step.
LEMMA ToHostStep ==
  ASSUME ConnInv, Steps
  PROVE  HTouched
<1>1. CASE HostSteps
  BY <1>1 DEF HostSteps, HelloShape, FailedShape, CutOff, DisposedShape, WrittenShape, WriteFails, StartedShape,
         SignalShape, RequestShape, AnsweredShape, RepliedShape, CalledShape, SettledShape, HTouched
<1>2. ASSUME NEW g, GreetedShape(g) PROVE HTouched
  <2>1. PICK x : Posts([t |-> "Hello", status |-> x]) /\ (x = "ok" => peer \in {"ok", "probe"})
    BY <1>2 DEF GreetedShape
  <2>2. HAdds([t |-> "Hello", status |-> x]) => HNew([t |-> "Hello", status |-> x])
    BY <1>2, <2>1 DEF HNew
  <2> QED BY <2>1, <2>2 DEF Posts, HTouched
<1>3. ASSUME NEW g, TakenShape(g) PROVE HTouched
  <2>1. CASE Posts(AnswerFrame("Result", g.c, FALSE)) /\ run' = [run EXCEPT ![g.c] = "over"]
    <3>1. HAdds(AnswerFrame("Result", g.c, FALSE)) => HNew(AnswerFrame("Result", g.c, FALSE))
      BY <1>3, <2>1 DEF HNew
    <3> QED BY <2>1, <3>1 DEF Posts, HTouched
  <2> QED BY <1>3, <2>1 DEF TakenShape, HTouched
<1>4. ASSUME NEW g, RequestedShape(g) PROVE HTouched
  <2>1. CASE g.t = "Precompile" /\ Posts([t |-> "PrecompileResult", c |-> g.c])
    <3>1. HAdds([t |-> "PrecompileResult", c |-> g.c]) => HNew([t |-> "PrecompileResult", c |-> g.c])
      BY <1>4, <2>1 DEF HNew
    <3> QED BY <2>1, <3>1 DEF Posts, HTouched
  <2>2. CASE g.t = "Stats" /\ Posts([t |-> "StatsResult", c |-> g.c])
    <3>1. HAdds([t |-> "StatsResult", c |-> g.c]) => HNew([t |-> "StatsResult", c |-> g.c])
      BY <1>4, <2>2 DEF HNew
    <3> QED BY <2>2, <3>1 DEF Posts, HTouched
  <2> QED BY <1>4, <2>1, <2>2 DEF RequestedShape
<1>5. ASSUME NEW c \in Calls, NEW n, CallingShape(c, n) PROVE HTouched
  <2>1. HNew([t |-> "BridgeCall", id |-> idOf[c], c |-> c, n |-> n])
    <3>1. HAdds([t |-> "BridgeCall", id |-> idOf[c], c |-> c, n |-> n])
      BY <1>5 DEF CallingShape
    <3> QED BY <1>5, <3>1 DEF HNew
  <2> QED BY <2>1 DEF HTouched
<1>6. ASSUME NEW c \in Calls, PostedShape(c) PROVE HTouched
  <2>1. Posts(AnswerFrame("Result", c, TRUE))
    BY <1>6 DEF PostedShape
  <2>2. HAdds(AnswerFrame("Result", c, TRUE)) => HNew(AnswerFrame("Result", c, TRUE))
    BY <1>6 DEF HNew
  <2> QED BY <2>1, <2>2 DEF Posts, HTouched
<1>7. ASSUME NEW c \in Calls, CompletedShape(c) PROVE HTouched
  <2>1. CASE run[c] = "closing" /\ Posts(AnswerFrame("RunComplete", c, FALSE))
    <3>1. HAdds(AnswerFrame("RunComplete", c, FALSE)) => HNew(AnswerFrame("RunComplete", c, FALSE))
      BY <1>7, <2>1 DEF HNew
    <3> QED BY <2>1, <3>1 DEF Posts, HTouched
  <2>2. CASE run[c] \in {"ending", "swept"} /\ Posts(AnswerFrame("Result", c, FALSE))
    <3>1. HAdds(AnswerFrame("Result", c, FALSE)) => HNew(AnswerFrame("Result", c, FALSE))
      BY <1>7, <2>2 DEF HNew
    <3> QED BY <2>2, <3>1 DEF Posts, HTouched
  <2> QED BY <1>7, <2>1, <2>2 DEF CompletedShape
<1>8. ASSUME NEW f, HeardShape(f) PROVE HTouched
  BY <1>8 DEF HeardShape, HTouched
<1>9. ASSUME NEW c \in Calls, EndedShape(c) PROVE HTouched
  BY <1>9 DEF EndedShape, HTouched
<1>10. CASE ServerSteps
  BY <1>2, <1>3, <1>4, <1>5, <1>6, <1>7, <1>8, <1>9, <1>10 DEF ServerSteps, ServerGivesUp, HTouched
<1>11. CASE UNCHANGED vars
  BY <1>11 DEF vars, HTouched
<1> QED BY <1>1, <1>10, <1>11 DEF Steps

-----------------------------------------------------------------------------
(* Frames to the runtime: those that stay, and those that are new. *)

\* An empty stream has no frames.
LEMMA NoFrames == \A s : s = <<>> => ToSet(s) = {}
  BY DEF ToSet

\* A Run on its way stays the one its id is free for.
LEMMA RunKept ==
  ASSUME ConnInv, Steps, NEW g \in ToSet(toServer), g \in ToSet(toServer)', g.t = "Run"
  PROVE  RunOk(g)'
<1>0. Types /\ HostShape /\ ServerWire /\ Quiet
  BY DEF ConnInv
<1>g. g \in ToServerFrame /\ g.c \in Calls /\ g.id \in Ids /\ hs = "ready"
  <2>1. g \in ToServerFrame
    BY <1>0 DEF Types, ToSet
  <2> QED BY <1>0, <2>1, ToServerFields DEF ServerWire
<1>t. /\ idOf \in [Calls -> 0..MaxId] /\ routes \in [Ids -> Calls \cup {NoCall}]
      /\ run \in [Calls -> {"none", "running", "posted", "ending", "closing", "swept", "over"}]
      /\ st \in [Calls -> {"idle", "open", "grace", "done", "failed"}]
      /\ 0 \notin Ids
  BY <1>0 DEF Types, Ids
<1>a. /\ g.id = idOf[g.c] /\ run[g.c] = "none" /\ routes[g.id] = NoCall /\ st[g.c] # "idle"
      /\ (g.c \in written \/ sock = "open") /\ reader # "ended" => st[g.c] = "open"
  BY <1>0 DEF ServerWire, RunOk
<1>o. /\ sock' = "open" => sock = "open"
      /\ reader' # "ended" => reader # "ended"
      /\ sock # "open" => UNCHANGED written
  BY <1>g, OneWay
<1>1. CASE FailedShape
  <2>1. st'[g.c] # "idle"
    BY <1>1, <1>a, <1>g, <1>t DEF FailedShape
  <2> QED BY <1>1, <1>a, <2>1 DEF FailedShape, serverVars, RunOk
<1>2. CASE Lost
  BY <1>2, NoFrames DEF Lost
<1>3. ASSUME NEW c \in Calls, NEW id \in Ids, StartedShape(c, id) PROVE RunOk(g)'
  <2>1. st[c] = "idle" /\ idOf' = [idOf EXCEPT ![c] = id] /\ st' = [st EXCEPT ![c] = "open"]
        /\ UNCHANGED <<routes, run, sock, written, reader>>
    BY <1>3 DEF StartedShape, serverVars
  <2> QED BY <1>t, <1>a, <1>g, <2>1 DEF RunOk
<1>4. ASSUME NEW c \in Calls, WriteFails(c) PROVE RunOk(g)'
  <2>1. sock # "open" /\ c \notin written /\ st' = [st EXCEPT ![c] = "failed"] /\ UNCHANGED <<idOf, routes, run, sock, written, reader>>
    BY <1>4 DEF WriteFails, serverVars
  <2> QED BY <1>t, <1>a, <1>g, <2>1 DEF RunOk
<1>5. ASSUME NEW c \in Calls, NEW t \in {"Precompile", "Stats"}, RequestShape(c, t) PROVE RunOk(g)'
  <2>1. sock = "open" /\ st[c] = "idle" /\ st' = [st EXCEPT ![c] = "open"] /\ UNCHANGED <<idOf, routes, run, reader>>
    BY <1>5 DEF RequestShape, serverVars
  <2> QED BY <1>t, <1>a, <1>g, <2>1 DEF RunOk
<1>6. ASSUME NEW f, NEW c, AnsweredShape(f, c) PROVE RunOk(g)'
  <2>1. c \in Calls /\ run[c] # "none" /\ UNCHANGED <<idOf, routes, run, sock, written, reader>>
        /\ \E y : st' = [st EXCEPT ![c] = y]
    BY <1>6 DEF AnsweredShape, Active, EndShape, GraceShape, serverVars
  <2> QED BY <1>t, <1>a, <1>g, <2>1 DEF RunOk
<1>7. ASSUME NEW f, NEW x, RepliedShape(f, x) PROVE RunOk(g)'
  <2>1. x \in Calls /\ idOf[x] = 0 /\ st' = [st EXCEPT ![x] = "done"] /\ UNCHANGED <<idOf, routes, run, sock, written, reader>>
    BY <1>7 DEF RepliedShape, serverVars
  <2> QED BY <1>t, <1>a, <1>g, <2>1 DEF RunOk
<1>8. ASSUME NEW f, TakenShape(f) PROVE RunOk(g)'
  <2>1. /\ UNCHANGED <<idOf, st, sock, written, reader>> /\ f.c \in Calls /\ f.id \in Ids
        /\ idOf[f.c] = f.id /\ f.t = "Run"
        /\ \E y : run' = [run EXCEPT ![f.c] = y]
        /\ \/ routes' = [routes EXCEPT ![f.id] = f.c]
           \/ routes' = routes
    BY <1>8 DEF TakenShape, hostVars
  <2>2. SPair(f, g)
    BY <1>0, <1>8, STakesFacts DEF TakenShape, ServerWire
  <2>3. f.id # g.id
    BY <2>1, <2>2 DEF SPair
  <2> QED BY <1>t, <1>a, <1>g, <2>1, <2>3 DEF RunOk
<1>9. ASSUME NEW c \in Calls, PostedShape(c) \/ EndedShape(c) \/ CompletedShape(c) PROVE RunOk(g)'
  <2>1. /\ UNCHANGED <<idOf, st, sock, written, reader>> /\ run[c] # "none" /\ idOf[c] \in Ids
        /\ \E y : run' = [run EXCEPT ![c] = y]
        /\ \/ routes' = [routes EXCEPT ![idOf[c]] = NoCall]
           \/ routes' = routes
    BY <1>9 DEF PostedShape, EndedShape, CompletedShape, hostVars
  <2> QED BY <1>t, <1>a, <1>g, <2>1 DEF RunOk
<1>10. CASE Aside
  BY <1>10, <1>a, <1>o DEF Aside, RunOk
<1> QED BY <1>1, <1>2, <1>3, <1>4, <1>5, <1>6, <1>7, <1>8, <1>9, <1>10, CoreOrAside DEF CoreSteps

\* A Terminate on its way stays clear of every other run.
LEMMA TerminateKept ==
  ASSUME ConnInv, Steps, NEW g \in ToSet(toServer), g \in ToSet(toServer)', g.t = "Terminate"
  PROVE  TerminateOk(g)'
<1>0. Types /\ HostShape /\ ServerWire
  BY DEF ConnInv
<1>g. g \in ToServerFrame /\ g.c \in Calls /\ g.id \in Ids
  <2>1. g \in ToServerFrame
    BY <1>0 DEF Types, ToSet
  <2> QED BY <1>0, <2>1, ToServerFields
<1>t. /\ idOf \in [Calls -> 0..MaxId] /\ routes \in [Ids -> Calls \cup {NoCall}]
      /\ st \in [Calls -> {"idle", "open", "grace", "done", "failed"}]
  BY <1>0 DEF Types
<1>a. g.id = idOf[g.c] /\ routes[g.id] \in {NoCall, g.c} /\ st[g.c] # "idle"
  BY <1>0 DEF ServerWire, TerminateOk
<1>1. CASE FailedShape
  <2>1. st'[g.c] # "idle"
    BY <1>1, <1>a, <1>g, <1>t DEF FailedShape
  <2> QED BY <1>1, <1>a, <2>1 DEF FailedShape, serverVars, TerminateOk
<1>2. CASE Lost
  BY <1>2, NoFrames DEF Lost
<1>3. ASSUME NEW c \in Calls, NEW id \in Ids, StartedShape(c, id) PROVE TerminateOk(g)'
  <2>1. st[c] = "idle" /\ idOf' = [idOf EXCEPT ![c] = id] /\ st' = [st EXCEPT ![c] = "open"] /\ UNCHANGED <<routes>>
    BY <1>3 DEF StartedShape, serverVars
  <2> QED BY <1>t, <1>a, <1>g, <2>1 DEF TerminateOk
<1>4. CASE UNCHANGED <<idOf, routes>> /\ \E c \in Calls, y \in {"open", "grace", "done", "failed"} : st' = [st EXCEPT ![c] = y]
  <2>1. st'[g.c] # "idle"
    BY <1>4, <1>t, <1>a, <1>g
  <2> QED BY <1>4, <1>a, <2>1 DEF TerminateOk
<1>5. ASSUME NEW c \in Calls, WriteFails(c) \/ \E t \in {"Precompile", "Stats"} : RequestShape(c, t) PROVE TerminateOk(g)'
  BY <1>4, <1>5 DEF WriteFails, RequestShape, serverVars
<1>6. ASSUME NEW f, NEW c, AnsweredShape(f, c) PROVE TerminateOk(g)'
  BY <1>4, <1>6 DEF AnsweredShape, Active, EndShape, GraceShape, serverVars
<1>7. ASSUME NEW f, NEW x, RepliedShape(f, x) PROVE TerminateOk(g)'
  BY <1>4, <1>7 DEF RepliedShape, serverVars
<1>8. ASSUME NEW f, TakenShape(f) PROVE TerminateOk(g)'
  <2>1. /\ UNCHANGED <<idOf, st>> /\ f.c \in Calls /\ f.id \in Ids /\ f.t = "Run"
        /\ \/ routes' = [routes EXCEPT ![f.id] = f.c]
           \/ routes' = routes
    BY <1>8 DEF TakenShape, hostVars
  <2>2. SPair(f, g)
    BY <1>0, <1>8, STakesFacts DEF TakenShape, ServerWire
  <2>3. f.id = g.id => f.c = g.c
    BY <2>1, <2>2 DEF SPair
  <2> QED BY <1>t, <1>a, <1>g, <2>1, <2>3 DEF TerminateOk
<1>9. ASSUME NEW c \in Calls, PostedShape(c) \/ EndedShape(c) \/ CompletedShape(c) PROVE TerminateOk(g)'
  <2>1. /\ UNCHANGED <<idOf, st>> /\ idOf[c] \in Ids
        /\ \/ routes' = [routes EXCEPT ![idOf[c]] = NoCall]
           \/ routes' = routes
    BY <1>9 DEF PostedShape, EndedShape, CompletedShape, hostVars
  <2> QED BY <1>t, <1>a, <1>g, <2>1 DEF TerminateOk
<1>10. CASE Aside
  BY <1>10, <1>a DEF Aside, TerminateOk
<1> QED BY <1>1, <1>2, <1>3, <1>5, <1>6, <1>7, <1>8, <1>9, <1>10, CoreOrAside DEF CoreSteps

\* A Precompile on its way has not been answered.
LEMMA PrecompileKept ==
  ASSUME ConnInv, Steps, NEW g \in ToSet(toServer), g \in ToSet(toServer)', g.t = "Precompile"
  PROVE  PrecompileOk(g)'
<1>0. Types /\ HostShape /\ ServerWire
  BY DEF ConnInv
<1>1. SUFFICES ASSUME sock' = "open"
               PROVE  g.c \in precompiles' /\ \A h \in ToSet(toHost)' : h.t = "PrecompileResult" => h.c # g.c
  BY DEF PrecompileOk
<1>2. sock = "open"
  BY <1>1, OneWay
<1>3. g.c \in precompiles /\ \A h \in ToSet(toHost) : h.t = "PrecompileResult" => h.c # g.c
  BY <1>0, <1>2 DEF ServerWire, PrecompileOk
<1>4. g.c \in precompiles'
  <2>1. CASE FailedShape
    BY <1>1, <2>1 DEF FailedShape
  <2>2. ASSUME NEW c \in Calls, NEW id \in Ids, StartedShape(c, id) PROVE UNCHANGED precompiles
    BY <2>2 DEF StartedShape
  <2>3. ASSUME NEW c \in Calls, NEW t \in {"Precompile", "Stats"}, RequestShape(c, t) PROVE precompiles \subseteq precompiles'
    BY <2>3 DEF RequestShape
  <2>4. ASSUME NEW f, NEW x, RepliedShape(f, x) PROVE g.c \in precompiles'
    <3>1. f \in ToSet(toHost)
      BY <1>0, <2>4, HTakesFacts DEF RepliedShape
    <3> QED BY <1>3, <2>4, <3>1 DEF RepliedShape
  <2>5. ASSUME NEW f, NEW c, AnsweredShape(f, c) PROVE UNCHANGED precompiles
    BY <2>5 DEF AnsweredShape
  <2>6. ASSUME NEW c \in Calls, WriteFails(c) PROVE UNCHANGED precompiles
    BY <2>6 DEF WriteFails
  <2>7. \A f, c : Lost \/ TakenShape(f) \/ PostedShape(c) \/ EndedShape(c) \/ CompletedShape(c) => UNCHANGED precompiles
    BY DEF Lost, TakenShape, PostedShape, EndedShape, CompletedShape, hostVars
  <2>8. Aside => UNCHANGED precompiles
    BY DEF Aside
  <2> QED BY <1>3, <2>1, <2>2, <2>3, <2>4, <2>5, <2>6, <2>7, <2>8, CoreOrAside DEF CoreSteps
<1>5. ASSUME NEW h \in ToSet(toHost)', h.t = "PrecompileResult" PROVE h.c # g.c
  <2>1. CASE UNCHANGED toHost
    BY <1>3, <1>5, <2>1
  <2>2. CASE toHost' = <<>>
    BY <1>5, <2>2, NoFrames
  <2>3. CASE Lost
    BY <2>3, NoFrames DEF Lost
  <2>4. ASSUME NEW f, HTakes(f) PROVE h \in ToSet(toHost)
    BY <1>0, <2>4, HTakesFacts
  <2>5. ASSUME NEW f, HNew(f) PROVE h.c # g.c
    <3>1. h \in ToSet(toHost) \/ h = f
      BY <1>0, <2>5, HAddsFacts DEF HNew
    <3>2. CASE h = f
      <4>1. PICK x : RequestedShape(x) /\ x.t = "Precompile" /\ f = [t |-> "PrecompileResult", c |-> x.c]
        BY <1>5, <2>5, <3>2 DEF HNew, AnswerFrame
      <4>2. SPair(x, g)
        BY <1>0, <4>1, STakesFacts DEF RequestedShape, ServerWire
      <4> QED BY <3>2, <4>1, <4>2 DEF SPair
    <3> QED BY <1>3, <1>5, <3>1, <3>2
  <2> QED BY <1>3, <1>5, <2>1, <2>2, <2>3, <2>4, <2>5, ToHostStep DEF HTouched
<1> QED BY <1>4, <1>5

\* While the socket is open, a route has its entry at the host.
LEMMA RouteHasEntry ==
  ASSUME ConnInv, sock = "open", NEW i \in Ids, routes[i] # NoCall
  PROVE  routes[i] \in Calls /\ runs[i] = routes[i]
<1>1. Types /\ Quiet /\ HostShape /\ ServerShape
  BY DEF ConnInv
<1>2. routes[i] \in Calls
  BY <1>1 DEF Types
<1>3. idOf[routes[i]] = i /\ run[routes[i]] \in {"running", "posted"}
  BY <1>1 DEF ServerShape, Routed
<1>4. reader # "ended"
  BY <1>1 DEF Quiet
<1>5. st[routes[i]] \in {"open", "grace"}
  BY <1>1, <1>2, <1>3, <1>4 DEF ServerShape, Progress, Going
<1>6. idOf[routes[i]] # 0
  BY <1>3 DEF Ids
<1> QED BY <1>1, <1>2, <1>3, <1>5, <1>6 DEF HostShape, Registered

\* While the socket is open, a Run on its way has its entry at the host.
LEMMA RunHasEntry ==
  ASSUME ConnInv, sock = "open", NEW g \in ToSet(toServer), g.t = "Run"
  PROVE  g.c \in Calls /\ g.id \in Ids /\ runs[g.id] = g.c
<1>1. Types /\ Quiet /\ HostShape /\ ServerWire
  BY DEF ConnInv
<1>2. g \in ToServerFrame
  BY <1>1 DEF Types, ToSet
<1>3. g.c \in Calls /\ g.id \in Ids
  BY <1>2, ToServerFields
<1>4. reader # "ended"
  BY <1>1 DEF Quiet
<1>5. g.id = idOf[g.c] /\ st[g.c] = "open"
  BY <1>1, <1>4 DEF ServerWire, RunOk
<1>6. idOf[g.c] # 0
  BY <1>3, <1>5 DEF Ids
<1> QED BY <1>1, <1>3, <1>5, <1>6 DEF HostShape, Registered

\* What the host writes is fit to be on its way.
LEMMA SNewOk ==
  ASSUME ConnInv, Steps, NEW f, SNew(f)
  PROVE  /\ RunOk(f)' /\ TerminateOk(f)' /\ PrecompileOk(f)'
         /\ \A g \in ToSet(toServer) : SPair(g, f)
<1>0. Types /\ Quiet /\ HostShape /\ ServerShape /\ ServerWire /\ HostWire /\ NoCall \notin Calls
  BY ConnectionAssumptions DEF ConnInv, ConnectionAssumptions
<1>s. sock = "open" /\ f \in ToServerFrame /\ hs = "ready"
  BY DEF SNew, SAdds
<1>t. /\ idOf \in [Calls -> 0..MaxId] /\ routes \in [Ids -> Calls \cup {NoCall}]
      /\ run \in [Calls -> {"none", "running", "posted", "ending", "closing", "swept", "over"}]
      /\ st \in [Calls -> {"idle", "open", "grace", "done", "failed"}]
  BY <1>0 DEF Types
<1>1. ASSUME NEW c \in Calls, NEW id \in Ids, StartedShape(c, id), f = [t |-> "Run", id |-> id, c |-> c]
      PROVE  RunOk(f)' /\ TerminateOk(f)' /\ PrecompileOk(f)' /\ \A g \in ToSet(toServer) : SPair(g, f)
  <2>1. /\ st[c] = "idle" /\ runs[id] = NoCall /\ idOf' = [idOf EXCEPT ![c] = id]
        /\ st' = [st EXCEPT ![c] = "open"] /\ UNCHANGED <<routes, run>>
    BY <1>1 DEF StartedShape, serverVars
  <2>2. run[c] = "none"
    BY <1>0, <2>1 DEF HostShape, CallShape
  <2>3. routes[id] = NoCall
    BY <1>0, <1>s, <2>1, RouteHasEntry
  <2>4. f.t = "Run" /\ f.id = id /\ f.c = c
    BY <1>1
  <2>5. RunOk(f)'
    <3>1. f.id = idOf'[f.c] /\ run'[f.c] = "none" /\ routes'[f.id] = NoCall /\ st'[f.c] = "open"
      BY <1>t, <2>1, <2>2, <2>3, <2>4
    <3> QED BY <3>1 DEF RunOk
  <2>6. TerminateOk(f)' /\ PrecompileOk(f)'
    BY <2>4 DEF TerminateOk, PrecompileOk
  <2>7. ASSUME NEW g \in ToSet(toServer) PROVE SPair(g, f)
    <3>1. g.t = "Run" => g.id # f.id
      BY <1>0, <1>s, <2>1, <2>4, RunHasEntry
    <3> QED BY <2>4, <3>1 DEF SPair
  <2> QED BY <2>5, <2>6, <2>7
<1>2. CASE Telling(f)
  <2>1. /\ f.t = "Terminate" /\ f.c \in Calls /\ st[f.c] \in {"open", "grace"} /\ idOf[f.c] \in Ids
        /\ runs[f.id] = f.c /\ f.id = idOf[f.c] /\ UNCHANGED <<idOf, routes>>
        /\ (st'[f.c] = st[f.c] \/ st'[f.c] = "grace")
    BY <1>2 DEF Telling, Active
  <2>2. routes[f.id] \in {NoCall, f.c}
    BY <1>s, <2>1, RouteHasEntry
  <2>3. TerminateOk(f)'
    <3>1. f.id = idOf'[f.c] /\ routes'[f.id] \in {NoCall, f.c} /\ st'[f.c] # "idle"
      BY <2>1, <2>2
    <3> QED BY <3>1 DEF TerminateOk
  <2>4. RunOk(f)' /\ PrecompileOk(f)'
    BY <2>1 DEF RunOk, PrecompileOk
  <2>5. ASSUME NEW g \in ToSet(toServer) PROVE SPair(g, f)
    <3>1. g.t = "Run" => (g.id = f.id => g.c = f.c)
      BY <1>s, <2>1, RunHasEntry
    <3> QED BY <2>1, <3>1 DEF SPair
  <2> QED BY <2>3, <2>4, <2>5
<1>3. ASSUME NEW c \in Calls, NEW t \in {"Precompile", "Stats"}, RequestShape(c, t), f = [t |-> t, c |-> c]
      PROVE  RunOk(f)' /\ TerminateOk(f)' /\ PrecompileOk(f)' /\ \A g \in ToSet(toServer) : SPair(g, f)
  <2>1. /\ st[c] = "idle" /\ UNCHANGED toHost /\ sock = "open"
        /\ (t = "Precompile" => precompiles' = precompiles \cup {c})
    BY <1>3 DEF RequestShape
  <2>2. f.t = t /\ f.c = c
    BY <1>3
  <2>3. c \notin precompiles
    BY <1>0, <2>1 DEF HostShape, Asked
  <2>4. reader # "ended"
    BY <1>0, <2>1 DEF Quiet
  <2>5. \A h \in ToSet(toHost) : h.t = "PrecompileResult" => h.c # c
    BY <1>0, <2>3, <2>4 DEF HostWire, ReplyOk
  <2>6. RunOk(f)' /\ TerminateOk(f)'
    BY <2>2 DEF RunOk, TerminateOk
  <2>7. PrecompileOk(f)'
    BY <2>1, <2>2, <2>5 DEF PrecompileOk
  <2>8. ASSUME NEW g \in ToSet(toServer) PROVE SPair(g, f)
    <3>1. g.t = "Precompile" => g.c # c
      BY <1>0, <1>s, <2>3 DEF ServerWire, PrecompileOk
    <3> QED BY <2>2, <3>1 DEF SPair
  <2> QED BY <2>6, <2>7, <2>8
<1>4. CASE f.t \in {"BridgeResponse", "Close"}
  BY <1>4 DEF RunOk, TerminateOk, PrecompileOk, SPair
<1> QED BY <1>1, <1>2, <1>3, <1>4 DEF SNew

\* Every frame on its way to the runtime stays fit to arrive.
LEMMA ServerWireStep ==
  ASSUME ConnInv, Steps
  PROVE  ServerWire'
<1>0. Types /\ ServerWire
  BY DEF ConnInv
<1>1. \A g \in ToSet(toServer)' : g \in ToSet(toServer) \/ SNew(g)
  <2>1. CASE UNCHANGED toServer
    BY <2>1
  <2>2. CASE toServer' = <<>>
    BY <2>2, NoFrames
  <2>3. ASSUME NEW f, STakes(f) PROVE \A g \in ToSet(toServer)' : g \in ToSet(toServer)
    BY <1>0, <2>3, STakesFacts
  <2>4. ASSUME NEW f, SNew(f) PROVE \A g \in ToSet(toServer)' : g \in ToSet(toServer) \/ SNew(g)
    BY <1>0, <2>4, SAddsFacts DEF SNew
  <2> QED BY <2>1, <2>2, <2>3, <2>4, ToServerStep DEF STouched
<1>2. hs' # "ready" => \A g \in ToSet(toServer)' : g.t = "Authenticate"
  <2>1. hs' # "ready" => hs # "ready"
    BY OneWay
  <2> QED BY <1>0, <1>1, <2>1 DEF ServerWire, SNew
<1>3. ASSUME NEW g \in ToSet(toServer)' PROVE RunOk(g)' /\ TerminateOk(g)' /\ PrecompileOk(g)'
  <2>1. CASE SNew(g)
    BY <2>1, SNewOk
  <2>2. CASE g \in ToSet(toServer)
    <3>1. g.t = "Run" => RunOk(g)'
      BY <1>3, <2>2, RunKept
    <3>2. g.t = "Terminate" => TerminateOk(g)'
      BY <1>3, <2>2, TerminateKept
    <3>3. g.t = "Precompile" => PrecompileOk(g)'
      BY <1>3, <2>2, PrecompileKept
    <3> QED BY <3>1, <3>2, <3>3 DEF RunOk, TerminateOk, PrecompileOk
  <2> QED BY <1>1, <1>3, <2>1, <2>2
<1>4. Ordered(toServer, SBefore)'
  <2>0. SBefore' = SBefore
    BY DEF SBefore, ToServerFrame, SPair
  <2>1. CASE UNCHANGED toServer
    BY <1>0, <2>0, <2>1 DEF ServerWire
  <2>2. CASE toServer' = <<>>
    BY <2>2, OrderedEmpty
  <2>3. ASSUME NEW f, STakes(f) PROVE Ordered(toServer, SBefore)'
    BY <1>0, <2>3, STakesFacts DEF ServerWire
  <2>4. ASSUME NEW f, SNew(f) PROVE Ordered(toServer, SBefore)'
    BY <1>0, <2>4, SAddsFacts, SNewOk DEF SNew, ServerWire
  <2> QED BY <2>1, <2>2, <2>3, <2>4, ToServerStep DEF STouched
<1> QED BY <1>2, <1>3, <1>4 DEF ServerWire

-----------------------------------------------------------------------------
(* Frames to the host: those that stay, and those that are new. *)

\* An answer on its way to the host stays one its caller waits for.
LEMMA AnswerKept ==
  ASSUME ConnInv, Steps, NEW g \in ToSet(toHost), g \in ToSet(toHost)', g.t \in RunTypes
  PROVE  AnswerOk(g)'
<1>0. Types /\ HostShape /\ HostWire /\ Quiet
  BY DEF ConnInv
<1>g. g \in ToHostFrame /\ g.c \in Calls /\ g.id \in Ids
  <2>1. g \in ToHostFrame
    BY <1>0 DEF Types, ToSet
  <2> QED BY <1>0, <2>1, ToHostFields DEF RunTypes
<1>t. /\ idOf \in [Calls -> 0..MaxId]
      /\ run \in [Calls -> {"none", "running", "posted", "ending", "closing", "swept", "over"}]
      /\ st \in [Calls -> {"idle", "open", "grace", "done", "failed"}]
  BY <1>0 DEF Types
<1>a. /\ g.id = idOf[g.c] /\ run[g.c] # "none"
      /\ reader # "ended" => st[g.c] \in {"open", "grace"}
      /\ Final(g) => run[g.c] = "over"
      /\ g.t = "Result" => run[g.c] \notin {"running", "ending"}
      /\ g.t = "Result" /\ reader # "ended" => st[g.c] = "open" \/ g.again = TRUE
  BY <1>0 DEF HostWire, AnswerOk
<1>i. st[g.c] # "idle" /\ hs = "ready"
  BY <1>0, <1>a, <1>g DEF HostShape, CallShape, Quiet
<1>f. Final(g)' = Final(g)
  BY DEF Final
<1>1. CASE FailedShape
  BY <1>1, NoFrames DEF FailedShape
<1>2. CASE Lost
  <2>1. UNCHANGED <<idOf, st, reader>> /\ (run' = run \/ run'[g.c] = "over")
    BY <1>2, <1>t, <1>a, <1>g DEF Lost, hostVars
  <2> QED BY <1>a, <1>f, <2>1 DEF AnswerOk
<1>3. CASE /\ \E c \in Calls : /\ run[c] = "none"
                               /\ (\E y : st' = [st EXCEPT ![c] = y]) /\ (idOf' = idOf \/ \E i : idOf' = [idOf EXCEPT ![c] = i])
           /\ UNCHANGED <<run, reader>>
  BY <1>3, <1>t, <1>a, <1>g, <1>f DEF AnswerOk
<1>4. ASSUME NEW c \in Calls, NEW id \in Ids, StartedShape(c, id) PROVE AnswerOk(g)'
  <2>1. run[c] = "none" /\ st' = [st EXCEPT ![c] = "open"] /\ idOf' = [idOf EXCEPT ![c] = id] /\ UNCHANGED <<run, reader>>
    BY <1>0, <1>4 DEF StartedShape, HostShape, CallShape, serverVars
  <2> QED BY <1>3, <2>1
<1>5. ASSUME NEW c \in Calls, WriteFails(c) PROVE AnswerOk(g)'
  <2>1. run[c] = "none" /\ st' = [st EXCEPT ![c] = "failed"] /\ UNCHANGED <<run, reader, idOf>>
    BY <1>0, <1>5 DEF WriteFails, HostShape, CallShape, serverVars
  <2> QED BY <1>3, <2>1
<1>6. ASSUME NEW c \in Calls, NEW t \in {"Precompile", "Stats"}, RequestShape(c, t) PROVE AnswerOk(g)'
  <2>1. run[c] = "none" /\ st' = [st EXCEPT ![c] = "open"] /\ UNCHANGED <<run, reader, idOf>>
    BY <1>0, <1>6 DEF RequestShape, HostShape, CallShape, serverVars
  <2> QED BY <1>3, <2>1
<1>7. ASSUME NEW f, NEW x, RepliedShape(f, x) PROVE AnswerOk(g)'
  <2>1. x \in Calls /\ run[x] = "none" /\ st' = [st EXCEPT ![x] = "done"] /\ UNCHANGED <<run, reader, idOf>>
    BY <1>7 DEF RepliedShape, serverVars
  <2> QED BY <1>3, <2>1
<1>8. ASSUME NEW f, NEW c, AnsweredShape(f, c) PROVE AnswerOk(g)'
  <2>1. c \in Calls /\ f.c = c /\ UNCHANGED <<idOf, run, reader>>
    BY <1>8 DEF AnsweredShape, Active, serverVars
  <2>2. HPair(f, g)
    BY <1>0, <1>8, HTakesFacts DEF AnsweredShape, HostWire
  <2>3. CASE EndShape(f, c)
    <3>1. c # g.c
      BY <2>1, <2>2, <2>3 DEF EndShape, HPair, RunTypes
    <3>2. st' = [st EXCEPT ![c] = "done"]
      BY <2>3 DEF EndShape
    <3> QED BY <1>t, <1>a, <1>g, <1>f, <2>1, <3>1, <3>2 DEF AnswerOk
  <2>4. CASE GraceShape(f, c)
    <3>1. g.t = "Result" /\ g.c = c => g.again = TRUE
      BY <2>1, <2>2, <2>4 DEF GraceShape, HPair
    <3>2. st' = [st EXCEPT ![c] = "grace"]
      BY <2>4 DEF GraceShape
    <3> QED BY <1>t, <1>a, <1>g, <1>f, <2>1, <3>1, <3>2 DEF AnswerOk
  <2> QED BY <1>8, <2>3, <2>4 DEF AnsweredShape
<1>9. ASSUME NEW f, TakenShape(f) PROVE AnswerOk(g)'
  <2>1. UNCHANGED <<idOf, st, reader>> /\ f.c \in Calls /\ run[f.c] = "none" /\ \E y : run' = [run EXCEPT ![f.c] = y]
    BY <1>9 DEF TakenShape, hostVars
  <2> QED BY <1>t, <1>a, <1>g, <1>f, <2>1 DEF AnswerOk
<1>10. ASSUME NEW c \in Calls, PostedShape(c) \/ EndedShape(c) \/ CompletedShape(c) PROVE AnswerOk(g)'
  <2>1. /\ UNCHANGED <<idOf, st, reader>>
        /\ \/ run[c] = "running" /\ run' = [run EXCEPT ![c] = "posted"]
           \/ run[c] = "running" /\ run' = [run EXCEPT ![c] = "ending"]
           \/ run[c] = "posted" /\ run' = [run EXCEPT ![c] = "closing"]
           \/ run[c] = "posted" /\ run' = [run EXCEPT ![c] = "swept"]
           \/ run' = [run EXCEPT ![c] = "over"]
    BY <1>10 DEF PostedShape, EndedShape, CompletedShape, hostVars
  <2> QED BY <1>t, <1>a, <1>g, <1>f, <2>1 DEF AnswerOk
<1>11. CASE Aside
  <2>1. UNCHANGED <<idOf, st, run>>
    BY <1>11 DEF Aside
  <2>2. reader' # "ended" => reader # "ended"
    BY <1>i, OneWay
  <2> QED BY <1>a, <1>f, <2>1, <2>2 DEF AnswerOk
<1> QED BY <1>1, <1>2, <1>4, <1>5, <1>6, <1>7, <1>8, <1>9, <1>10, <1>11, CoreOrAside DEF CoreSteps

\* A precompile's reply on its way finds its waiter.
LEMMA ReplyKept ==
  ASSUME ConnInv, Steps, NEW g \in ToSet(toHost), g \in ToSet(toHost)', g.t = "PrecompileResult"
  PROVE  ReplyOk(g)'
<1>0. Types /\ HostShape /\ HostWire /\ Quiet
  BY DEF ConnInv
<1>1. SUFFICES ASSUME reader' # "ended"
               PROVE  g.c \in precompiles'
  BY DEF ReplyOk
<1>2. hs # "auth"
  BY <1>0 DEF HostWire
<1>3. reader # "ended"
  <2>1. CASE HelloShape
    BY <1>2, <2>1 DEF HelloShape
  <2>2. CASE HostSteps
    <3>1. UNCHANGED reader \/ CutShape \/ HelloShape \/ reader' = "ended"
      BY <2>2 DEF HostSteps, FailedShape, CutOff, DisposedShape, StartedShape, WrittenShape, WriteFails,
           SignalShape, RequestShape, AnsweredShape, RepliedShape, CalledShape, SettledShape
    <3> QED BY <1>1, <2>1, <3>1 DEF CutShape
  <2>3. CASE ServerSteps \/ UNCHANGED vars
    BY <1>1, <2>3 DEF ServerSteps, ServerGivesUp, Lost, GreetedShape, HeardShape,
           RequestedShape, TakenShape, PostedShape, EndedShape, CompletedShape, CallingShape, vars, hostVars
  <2> QED BY <2>2, <2>3 DEF Steps
<1>4. g.c \in precompiles
  BY <1>0, <1>3 DEF HostWire, ReplyOk
<1>5. CASE FailedShape
  BY <1>1, <1>5 DEF FailedShape
<1>6. ASSUME NEW f, NEW x, RepliedShape(f, x) PROVE g.c \in precompiles'
  <2>1. HPair(f, g)
    BY <1>0, <1>6, HTakesFacts DEF RepliedShape, HostWire
  <2> QED BY <1>4, <1>6, <2>1 DEF RepliedShape, HPair
<1>7. ASSUME NEW c \in Calls, NEW id \in Ids, StartedShape(c, id) PROVE UNCHANGED precompiles
  BY <1>7 DEF StartedShape
<1>8. ASSUME NEW c \in Calls, NEW t \in {"Precompile", "Stats"}, RequestShape(c, t) PROVE precompiles \subseteq precompiles'
  BY <1>8 DEF RequestShape
<1>9. ASSUME NEW f, NEW c, AnsweredShape(f, c) PROVE UNCHANGED precompiles
  BY <1>9 DEF AnsweredShape
<1>10. ASSUME NEW c \in Calls, WriteFails(c) PROVE UNCHANGED precompiles
  BY <1>10 DEF WriteFails
<1>11. \A f, c : Lost \/ TakenShape(f) \/ PostedShape(c) \/ EndedShape(c) \/ CompletedShape(c) => UNCHANGED precompiles
  BY DEF Lost, TakenShape, PostedShape, EndedShape, CompletedShape, hostVars
<1>12. Aside => UNCHANGED precompiles
  BY DEF Aside
<1> QED BY <1>4, <1>5, <1>6, <1>7, <1>8, <1>9, <1>10, <1>11, <1>12, CoreOrAside DEF CoreSteps

\* A run that is in progress while the socket is open has a caller that waits.
LEMMA CallerWaits ==
  ASSUME ConnInv, sock = "open", NEW c \in Calls, run[c] \in Going
  PROVE  /\ st[c] \in {"open", "grace"} /\ hs = "ready" /\ reader # "ended"
         /\ run[c] \in {"running", "ending"} => st[c] = "open"
<1>1. Types /\ Quiet /\ ServerShape
  BY DEF ConnInv
<1>2. reader # "ended"
  BY <1>1 DEF Quiet
<1>3. st[c] \in {"open", "grace"} /\ (run[c] \in {"running", "ending"} => st[c] = "open")
  BY <1>1, <1>2 DEF ServerShape, Progress
<1>4. hs = "ready"
  BY <1>1, <1>3 DEF Quiet
<1> QED BY <1>2, <1>3, <1>4

\* f is fit to be on its way to the host, behind what is there.
HFit(f) ==
  /\ (hs' = "auth" => f.t = "Hello") /\ HelloOk(f)' /\ AnswerOk(f)' /\ ReplyOk(f)'
  /\ \A g \in ToSet(toHost) : HPair(g, f)

\* When a frame about a run is fit to be written.
LEMMA AnswerFits ==
  ASSUME ConnInv, NEW f, NEW c \in Calls, f.t \in RunTypes, f.c = c, f.id = idOf[c], hs = "ready",
         UNCHANGED <<idOf, st, hs, reader>>, run'[c] # "none", st[c] \in {"open", "grace"}, Final(f) => run'[c] = "over",
         f.t = "Result" => run'[c] \notin {"running", "ending"} /\ (st[c] = "open" \/ f.again = TRUE),
         \A g \in ToSet(toHost) : g.t \in RunTypes /\ g.c = c => ~Final(g),
         f.t = "Result" => \/ f.again = TRUE
                           \/ \A g \in ToSet(toHost) : g.t = "Result" => g.c # c
  PROVE  HFit(f)
<1>1. f.t # "Hello" /\ f.t # "PrecompileResult"
  BY DEF RunTypes
<1>2. HelloOk(f)' /\ ReplyOk(f)' /\ hs' # "auth"
  BY <1>1 DEF HelloOk, ReplyOk
<1>3. Final(f)' = Final(f)
  BY DEF Final
<1>4. AnswerOk(f)'
  BY <1>3 DEF AnswerOk
<1>5. ASSUME NEW g \in ToSet(toHost) PROVE HPair(g, f)
  BY <1>1, <1>5 DEF HPair
<1> QED BY <1>2, <1>4, <1>5 DEF HFit

\* What the runtime writes is fit to be on its way.
LEMMA HNewFits ==
  ASSUME ConnInv, Steps, NEW f, HNew(f)
  PROVE  HFit(f)
<1>0. Types /\ Quiet /\ HostShape /\ ServerShape /\ ServerWire /\ HostWire
  BY DEF ConnInv
<1>s. sock = "open" /\ f \in ToHostFrame
  BY DEF HNew, HAdds
<1>t. run \in [Calls -> {"none", "running", "posted", "ending", "closing", "swept", "over"}]
  BY <1>0 DEF Types
<1>a. \A g \in ToSet(toHost) : g.t \in RunTypes =>
        /\ run[g.c] # "none" /\ (Final(g) => run[g.c] = "over")
        /\ (g.t = "Result" => run[g.c] \notin {"running", "ending"})
  BY <1>0 DEF HostWire, AnswerOk
<1>r. "Result" \in RunTypes /\ "RunComplete" \in RunTypes /\ "BridgeCall" \in RunTypes
  BY DEF RunTypes
<1>1. CASE f.t = "Hello" /\ (\E g : GreetedShape(g)) /\ (f.status = "ok" => peer \in {"ok", "probe"})
  <2>1. demux = "handshake" /\ peer' = peer
    BY <1>1 DEF GreetedShape
  <2>2. toHost = <<>>
    BY <1>0, <2>1 DEF Quiet
  <2>3. ToSet(toHost) = {}
    BY <2>2, NoFrames
  <2>4. HelloOk(f)'
    BY <1>1, <2>1 DEF HelloOk
  <2>5. AnswerOk(f)' /\ ReplyOk(f)'
    BY <1>1 DEF AnswerOk, ReplyOk, RunTypes
  <2> QED BY <1>1, <2>3, <2>4, <2>5 DEF HFit
<1>2. ASSUME NEW g, TakenShape(g), f = AnswerFrame("Result", g.c, FALSE), run' = [run EXCEPT ![g.c] = "over"]
      PROVE  HFit(f)
  <2>1. g.c \in Calls /\ run[g.c] = "none" /\ UNCHANGED <<idOf, st, hs, reader>> /\ g.c \in written /\ g.t = "Run"
    BY <1>2 DEF TakenShape, hostVars
  <2>2. g \in ToSet(toServer)
    BY <1>0, <1>2, STakesFacts DEF TakenShape
  <2>3. reader # "ended"
    BY <1>0, <1>s DEF Quiet
  <2>4. st[g.c] = "open" /\ hs = "ready"
    BY <1>0, <2>1, <2>2, <2>3 DEF ServerWire, RunOk
  <2>5. f.t = "Result" /\ f.c = g.c /\ f.id = idOf[g.c]
    BY <1>2 DEF AnswerFrame
  <2>6. run'[g.c] = "over"
    BY <1>2, <1>t, <2>1
  <2>7. \A x \in ToSet(toHost) : x.t \in RunTypes => x.c # g.c
    BY <1>a, <2>1
  <2> QED BY <1>r, <2>1, <2>4, <2>5, <2>6, <2>7, AnswerFits
<1>3. ASSUME NEW g, RequestedShape(g), g.t = "Precompile", f = [t |-> "PrecompileResult", c |-> g.c]
      PROVE  HFit(f)
  <2>1. g \in ToSet(toServer)
    BY <1>0, <1>3, STakesFacts DEF RequestedShape
  <2>2. hs = "ready" /\ g.c \in precompiles /\ \A x \in ToSet(toHost) : x.t = "PrecompileResult" => x.c # g.c
    BY <1>0, <1>s, <1>3, <2>1 DEF ServerWire, PrecompileOk
  <2>3. f.t = "PrecompileResult" /\ f.c = g.c /\ UNCHANGED <<hs, precompiles>>
    BY <1>3 DEF RequestedShape, hostVars
  <2>4. HelloOk(f)' /\ AnswerOk(f)' /\ ReplyOk(f)'
    BY <2>2, <2>3 DEF HelloOk, AnswerOk, ReplyOk, RunTypes
  <2>5. \A x \in ToSet(toHost) : HPair(x, f)
    BY <2>2, <2>3 DEF HPair, RunTypes
  <2> QED BY <2>2, <2>3, <2>4, <2>5 DEF HFit
<1>4. ASSUME NEW g, RequestedShape(g), g.t = "Stats", f = [t |-> "StatsResult", c |-> g.c]
      PROVE  HFit(f)
  <2>1. g \in ToSet(toServer)
    BY <1>0, <1>4, STakesFacts DEF RequestedShape
  <2>2. hs = "ready"
    BY <1>0, <1>4, <2>1 DEF ServerWire
  <2>3. f.t = "StatsResult" /\ UNCHANGED hs
    BY <1>4 DEF RequestedShape, hostVars
  <2> QED BY <2>2, <2>3 DEF HelloOk, AnswerOk, ReplyOk, HPair, RunTypes, HFit
<1>5. ASSUME NEW c \in Calls, NEW n, CallingShape(c, n), f = [t |-> "BridgeCall", id |-> idOf[c], c |-> c, n |-> n]
      PROVE  HFit(f)
  <2>1. run[c] \in {"running", "posted"} /\ UNCHANGED <<idOf, st, hs, reader, run>>
    BY <1>5 DEF CallingShape, hostVars
  <2>2. st[c] \in {"open", "grace"} /\ hs = "ready"
    BY <1>s, <2>1, CallerWaits DEF Going
  <2>3. f.t = "BridgeCall" /\ f.c = c /\ f.id = idOf[c] /\ ~Final(f)
    BY <1>5 DEF Final
  <2>4. \A g \in ToSet(toHost) : g.t \in RunTypes /\ g.c = c => ~Final(g)
    BY <1>a, <2>1
  <2> QED BY <1>r, <2>1, <2>2, <2>3, <2>4, AnswerFits
<1>6. ASSUME NEW c \in Calls, PostedShape(c), f = AnswerFrame("Result", c, TRUE)
      PROVE  HFit(f)
  <2>1. run[c] = "running" /\ UNCHANGED <<idOf, st, hs, reader>> /\ run' = [run EXCEPT ![c] = "posted"]
    BY <1>6 DEF PostedShape, hostVars
  <2>2. st[c] = "open" /\ hs = "ready"
    BY <1>s, <2>1, CallerWaits DEF Going
  <2>3. f.t = "Result" /\ f.c = c /\ f.id = idOf[c] /\ ~Final(f)
    BY <1>6 DEF AnswerFrame, Final
  <2>4. run'[c] = "posted"
    BY <1>t, <2>1
  <2>5. \A g \in ToSet(toHost) : g.t \in RunTypes /\ g.c = c => ~Final(g) /\ g.t # "Result"
    BY <1>a, <2>1
  <2> QED BY <1>r, <2>1, <2>2, <2>3, <2>4, <2>5, AnswerFits
<1>7. ASSUME NEW c \in Calls, CompletedShape(c), run[c] = "closing", f = AnswerFrame("RunComplete", c, FALSE)
      PROVE  HFit(f)
  <2>1. UNCHANGED <<idOf, st, hs, reader>> /\ run' = [run EXCEPT ![c] = "over"]
    BY <1>7 DEF CompletedShape, hostVars
  <2>2. st[c] \in {"open", "grace"} /\ hs = "ready"
    BY <1>s, <1>7, CallerWaits DEF Going
  <2>3. f.t = "RunComplete" /\ f.c = c /\ f.id = idOf[c]
    BY <1>7 DEF AnswerFrame
  <2>4. run'[c] = "over"
    BY <1>t, <2>1
  <2>5. \A g \in ToSet(toHost) : g.t \in RunTypes /\ g.c = c => ~Final(g)
    BY <1>a, <1>7
  <2> QED BY <1>r, <2>1, <2>2, <2>3, <2>4, <2>5, AnswerFits
<1>8. ASSUME NEW c \in Calls, CompletedShape(c), run[c] \in {"ending", "swept"}, f = AnswerFrame("Result", c, FALSE)
      PROVE  HFit(f)
  <2>1. UNCHANGED <<idOf, st, hs, reader>> /\ run' = [run EXCEPT ![c] = "over"]
    BY <1>8 DEF CompletedShape, hostVars
  <2>2. st[c] \in {"open", "grace"} /\ hs = "ready" /\ (run[c] = "ending" => st[c] = "open")
    BY <1>s, <1>8, CallerWaits DEF Going
  <2>3. f.t = "Result" /\ f.c = c /\ f.id = idOf[c] /\ (run[c] = "swept" => f.again = TRUE)
    BY <1>8 DEF AnswerFrame
  <2>4. run'[c] = "over"
    BY <1>t, <2>1
  <2>5. \A g \in ToSet(toHost) : g.t \in RunTypes /\ g.c = c => ~Final(g)
    BY <1>a, <1>8
  <2>6. run[c] = "ending" => \A g \in ToSet(toHost) : g.t = "Result" => g.c # c
    BY <1>a, <1>r
  <2> QED BY <1>r, <1>8, <2>1, <2>2, <2>3, <2>4, <2>5, <2>6, AnswerFits
<1> QED BY <1>1, <1>2, <1>3, <1>4, <1>5, <1>6, <1>7, <1>8 DEF HNew

\* A frame on its way to the host was there, or is new.
LEMMA HostFramesStep ==
  ASSUME ConnInv, Steps
  PROVE  \A g \in ToSet(toHost)' : g \in ToSet(toHost) \/ HNew(g)
<1>0. Types
  BY DEF ConnInv
<1>1. CASE UNCHANGED toHost
  BY <1>1
<1>2. CASE toHost' = <<>>
  BY <1>2, NoFrames
<1>3. CASE Lost
  <2>1. CASE \E k \in 0..Len(toHost) : toHost' = SubSeq(toHost, 1, k)
    BY <1>0, <2>1, BeginningOf DEF Types
  <2> QED BY <1>1, <1>3, <2>1 DEF Lost
<1>4. ASSUME NEW f, HTakes(f) PROVE \A g \in ToSet(toHost)' : g \in ToSet(toHost)
  BY <1>0, <1>4, HTakesFacts
<1>5. ASSUME NEW f, HNew(f) PROVE \A g \in ToSet(toHost)' : g \in ToSet(toHost) \/ HNew(g)
  <2>1. HAdds(f)
    BY <1>5 DEF HNew
  <2>2. ToSet(toHost)' = ToSet(toHost) \cup {f}
    BY <1>0, <2>1, HAddsFacts
  <2> QED BY <1>5, <2>2
<1> QED BY <1>1, <1>2, <1>3, <1>4, <1>5, ToHostStep DEF HTouched

\* Every frame on its way to the host stays fit to arrive.
LEMMA HostWireStep ==
  ASSUME ConnInv, Steps
  PROVE  HostWire'
<1>0. Types /\ HostWire
  BY DEF ConnInv
<1>1. \A g \in ToSet(toHost)' : g \in ToSet(toHost) \/ HNew(g)
  BY HostFramesStep
<1>2. ASSUME hs' = "auth" PROVE \A g \in ToSet(toHost)' : g.t = "Hello"
  <2>1. hs = "auth"
    BY <1>2, OneWay
  <2> QED BY <1>0, <1>1, <1>2, <2>1, HNewFits DEF HostWire, HFit
<1>p. peer' = peer
  <2>1. CASE HostSteps
    BY <2>1 DEF HostSteps, HelloShape, FailedShape, CutOff, CutShape, DisposedShape, WrittenShape, WriteFails, StartedShape,
         SignalShape, RequestShape, AnsweredShape, RepliedShape, CalledShape, SettledShape
  <2>2. CASE ServerSteps
    BY <2>2 DEF ServerSteps, ServerGivesUp, Lost, GreetedShape, HeardShape, RequestedShape, TakenShape, PostedShape,
         EndedShape, CompletedShape, CallingShape
  <2>3. CASE UNCHANGED vars
    BY <2>3 DEF vars
  <2> QED BY <2>1, <2>2, <2>3 DEF Steps
<1>3. ASSUME NEW g \in ToSet(toHost)' PROVE HelloOk(g)' /\ AnswerOk(g)' /\ ReplyOk(g)'
  <2>1. CASE HNew(g)
    BY <2>1, HNewFits DEF HFit
  <2>2. CASE g \in ToSet(toHost)
    <3>1. HelloOk(g)'
      BY <1>0, <1>p, <2>2 DEF HostWire, HelloOk
    <3>2. g.t \in RunTypes => AnswerOk(g)'
      BY <1>3, <2>2, AnswerKept
    <3>3. g.t = "PrecompileResult" => ReplyOk(g)'
      BY <1>3, <2>2, ReplyKept
    <3> QED BY <3>1, <3>2, <3>3 DEF AnswerOk, ReplyOk
  <2> QED BY <1>1, <1>3, <2>1, <2>2
<1>4. Ordered(toHost, HBefore)'
  <2>0. HBefore' = HBefore
    BY DEF HBefore, ToHostFrame, HPair, Final, RunTypes
  <2>1. CASE UNCHANGED toHost
    BY <1>0, <2>0, <2>1 DEF HostWire
  <2>2. CASE toHost' = <<>>
    BY <2>2, OrderedEmpty
  <2>3. CASE Lost
    <3>1. ASSUME NEW k \in 0..Len(toHost), toHost' = SubSeq(toHost, 1, k) PROVE Ordered(toHost', HBefore)
      BY <1>0, <3>1, OrderedBeginning DEF HostWire, Types
    <3> QED BY <2>0, <2>1, <2>3, <3>1 DEF Lost
  <2>4. ASSUME NEW f, HTakes(f) PROVE Ordered(toHost, HBefore)'
    BY <1>0, <2>4, HTakesFacts DEF HostWire
  <2>5. ASSUME NEW f, HNew(f) PROVE Ordered(toHost, HBefore)'
    BY <1>0, <2>5, HAddsFacts, HNewFits DEF HNew, HostWire, HFit
  <2> QED BY <2>1, <2>2, <2>3, <2>4, <2>5, ToHostStep DEF HTouched
<1> QED BY <1>2, <1>3, <1>4 DEF HostWire

-----------------------------------------------------------------------------
(* A RunComplete comes after its early Result. *)

\* How a frame leaves the stream to the host.
LEMMA HostFrameLeaves ==
  ASSUME ConnInv, Steps, NEW g \in ToSet(toHost), g \notin ToSet(toHost)'
  PROVE  \/ FailedShape \/ Lost \/ HelloShape
         \/ \E c : AnsweredShape(g, c) \/ RepliedShape(g, c)
         \/ CalledShape(g)
<1>0. Types
  BY DEF ConnInv
<1>1. UNCHANGED toHost => FALSE
  OBVIOUS
<1>2. \A f : HTakes(f) => f = g
  <2>1. ASSUME NEW f, HTakes(f) PROVE f = g
    <3>1. ToSet(toHost) = ToSet(toHost)' \cup {f}
      BY <1>0, <2>1, HTakesFacts
    <3> QED BY <3>1
  <2> QED BY <2>1
<1>3. \A f : HAdds(f) => FALSE
  BY <1>0, HAddsFacts
<1>4. \A f : Posts(f) => FALSE
  BY <1>1, <1>3 DEF Posts
<1>5. CASE HostSteps
  <2>1. \A f, c : AnsweredShape(f, c) => f = g
    BY <1>2 DEF AnsweredShape
  <2>2. \A f, c : RepliedShape(f, c) => f = g
    BY <1>2 DEF RepliedShape
  <2>3. \A f : CalledShape(f) => f = g
    BY <1>2 DEF CalledShape
  <2>4. \/ HelloShape \/ FailedShape
        \/ \E f, c : AnsweredShape(f, c) \/ RepliedShape(f, c)
        \/ \E f : CalledShape(f)
    BY <1>1, <1>5 DEF HostSteps, CutOff, DisposedShape, WrittenShape, WriteFails, StartedShape,
         SignalShape, RequestShape, SettledShape
  <2> QED BY <2>1, <2>2, <2>3, <2>4
<1>6. CASE ServerSteps
  BY <1>1, <1>3, <1>4, <1>6 DEF ServerSteps, ServerGivesUp, GreetedShape, HeardShape, RequestedShape, TakenShape, PostedShape,
         EndedShape, CompletedShape, CallingShape
<1>7. CASE UNCHANGED vars
  BY <1>1, <1>7 DEF vars
<1> QED BY <1>5, <1>6, <1>7 DEF Steps

\* How a grace phase ends.
LEMMA GraceEnds ==
  ASSUME ConnInv, Steps, NEW c \in Calls, st[c] = "grace", st'[c] # "grace"
  PROVE  FailedShape \/ \E f : AnsweredShape(f, c) /\ EndShape(f, c)
<1>t. st \in [Calls -> {"idle", "open", "grace", "done", "failed"}]
  BY DEF ConnInv, Types
<1>1. ASSUME NEW d \in Calls, NEW id \in Ids, StartedShape(d, id) PROVE FALSE
  BY <1>t, <1>1 DEF StartedShape
<1>2. ASSUME NEW d \in Calls, WriteFails(d) PROVE FALSE
  BY <1>t, <1>2 DEF WriteFails
<1>3. ASSUME NEW d \in Calls, NEW t \in {"Precompile", "Stats"}, RequestShape(d, t) PROVE FALSE
  BY <1>t, <1>3 DEF RequestShape
<1>4. ASSUME NEW f, NEW d, AnsweredShape(f, d) PROVE d = c /\ EndShape(f, d)
  <2>1. d \in Calls
    BY <1>4 DEF AnsweredShape, Active
  <2> QED BY <1>t, <1>4, <2>1 DEF AnsweredShape, EndShape, GraceShape
<1>5. ASSUME NEW f, NEW x, RepliedShape(f, x) PROVE FALSE
  BY <1>t, <1>5 DEF RepliedShape
<1>6. \A f, d : ~(Lost \/ TakenShape(f) \/ PostedShape(d) \/ EndedShape(d) \/ CompletedShape(d))
  BY DEF Lost, TakenShape, PostedShape, EndedShape, CompletedShape, hostVars
<1>7. ~Aside
  BY DEF Aside
<1> QED BY <1>1, <1>2, <1>3, <1>4, <1>5, <1>6, <1>7, CoreOrAside DEF CoreSteps

\* A run whose early Result is out is in its grace phase, or will be once the
\* Result is routed.
Due(c) == st[c] = "grace" \/ Early(c)

\* Only its last frame, or a failure, ends that.
LEMMA DueStays ==
  ASSUME ConnInv, Steps, NEW c \in Calls, Due(c), ~FailedShape, ~Lost,
         \A f : ~(AnsweredShape(f, c) /\ EndShape(f, c))
  PROVE  Due(c)'
<1>0. Types /\ Quiet /\ HostShape /\ HostWire
  BY DEF ConnInv
<1>1. CASE st[c] = "grace"
  BY <1>1, GraceEnds DEF Due
<1>2. CASE Early(c)
  <2>1. PICK g \in ToSet(toHost) : g.t = "Result" /\ g.bg = TRUE /\ g.c = c
    BY <1>2 DEF Early
  <2>2. g \in ToSet(toHost)' => Due(c)'
    BY <2>1 DEF Due, Early
  <2>3. run[c] # "none"
    BY <1>0, <2>1 DEF HostWire, AnswerOk, RunTypes
  <2>4. hs = "ready"
    BY <1>0, <2>3 DEF HostShape, CallShape, Quiet
  <2>5. ~HelloShape
    BY <2>4 DEF HelloShape
  <2>6. ASSUME NEW d, AnsweredShape(g, d) PROVE Due(c)'
    <3>1. d = c /\ ~Final(g) /\ c \in Calls
      BY <2>1, <2>6 DEF AnsweredShape, Final
    <3>2. GraceShape(g, c)
      BY <2>6, <3>1 DEF AnsweredShape, EndShape
    <3>3. st'[c] = "grace"
      BY <1>0, <3>1, <3>2 DEF GraceShape, Types
    <3> QED BY <3>3 DEF Due
  <2>7. ASSUME NEW d, RepliedShape(g, d) PROVE FALSE
    BY <2>1, <2>7 DEF RepliedShape
  <2>8. ~CalledShape(g)
    BY <2>1 DEF CalledShape
  <2> QED BY <2>2, <2>5, <2>6, <2>7, <2>8, HostFrameLeaves
<1> QED BY <1>1, <1>2 DEF Due

\* In a beginning of the stream, an early Result still precedes its RunComplete.
LEMMA EarlyInBeginning ==
  ASSUME Types, HostWire, NEW k \in 0..Len(toHost), toHost' = SubSeq(toHost, 1, k),
         NEW f \in ToSet(toHost)', f.t = "RunComplete", Early(f.c)
  PROVE  Early(f.c)'
<1>0. toHost \in Seq(ToHostFrame) /\ Len(toHost) \in Nat
  BY DEF Types
<1>1. /\ toHost' \in Seq(ToHostFrame) /\ Len(toHost') = k
      /\ \A i \in 1..k : toHost'[i] = toHost[i]
  BY <1>0, BeginningOf
<1>2. PICK i \in 1..k : f = toHost[i]
  BY <1>1 DEF ToSet
<1>3. PICK g \in ToSet(toHost) : g.t = "Result" /\ g.bg = TRUE /\ g.c = f.c
  BY DEF Early
<1>4. PICK j \in 1..Len(toHost) : g = toHost[j]
  BY <1>0, <1>3 DEF ToSet
<1>5. i \in 1..Len(toHost) /\ f \in ToHostFrame /\ g \in ToHostFrame
  BY <1>0, <1>2, <1>4
<1>6. ~(i < j)
  <2>1. ASSUME i < j PROVE FALSE
    <3>1. <<f, g>> \in HBefore
      BY <1>2, <1>4, <1>5, <2>1 DEF HostWire, Ordered
    <3>2. HPair(f, g)
      BY <1>5, <3>1, BeforeIs
    <3> QED BY <1>3, <3>2 DEF HPair, Final, RunTypes
  <2> QED BY <2>1
<1>7. j \in 1..k
  BY <1>2, <1>4, <1>6
<1>8. g \in ToSet(toHost')
  <2>1. g = toHost'[j] /\ j \in DOMAIN toHost'
    BY <1>1, <1>4, <1>7
  <2> QED BY <2>1 DEF ToSet
<1> QED BY <1>3, <1>8 DEF Early

\* A RunComplete always finds its caller in the grace phase.
LEMMA CompletesStep ==
  ASSUME ConnInv, Steps
  PROVE  Completes'
<1>0. Types /\ Quiet /\ HostShape /\ ServerShape /\ HostWire /\ Completes
  BY DEF ConnInv
<1>t. /\ run \in [Calls -> {"none", "running", "posted", "ending", "closing", "swept", "over"}]
  BY <1>0 DEF Types
<1>1. ASSUME reader' # "ended", NEW f \in ToSet(toHost)', f.t = "RunComplete"
      PROVE  Due(f.c)'
  <2>1. ~FailedShape
    BY <1>1 DEF FailedShape
  <2>2. CASE HNew(f)
    <3>1. PICK c \in Calls : CompletedShape(c) /\ run[c] = "closing" /\ f = AnswerFrame("RunComplete", c, FALSE) /\ sock = "open"
      BY <1>1, <2>2 DEF HNew, AnswerFrame, HAdds
    <3>2. f.c = c
      BY <3>1 DEF AnswerFrame
    <3>3. Due(c)
      BY <1>0, <3>1 DEF Completes, Due
    <3>4. ~Lost /\ \A x : ~AnsweredShape(x, c)
      <4>1. toServer' = toServer /\ UNCHANGED demux /\ run' # run
        BY <1>t, <3>1 DEF CompletedShape
      <4> QED BY <4>1 DEF Lost, AnsweredShape, serverVars
    <3> QED BY <2>1, <3>2, <3>3, <3>4, DueStays
  <2>3. CASE f \in ToSet(toHost)
    <3>1. f \in ToHostFrame /\ f.c \in Calls
      <4>1. f \in ToHostFrame
        BY <1>0, <2>3 DEF Types, ToSet
      <4> QED BY <1>1, <4>1, ToHostFields
    <3>2. run[f.c] = "over"
      BY <1>0, <1>1, <2>3 DEF HostWire, AnswerOk, Final, RunTypes
    <3>3. reader # "ended"
      BY <1>1, <3>1, <3>2, ReaderStays
    <3>4. Due(f.c)
      BY <1>0, <1>1, <2>3, <3>3 DEF Completes, Due
    <3>5. CASE Lost
      <4>1. UNCHANGED st
        BY <3>5 DEF Lost, hostVars
      <4>2. CASE UNCHANGED toHost
        BY <3>4, <4>1, <4>2 DEF Due, Early
      <4>3. ASSUME NEW k \in 0..Len(toHost), toHost' = SubSeq(toHost, 1, k) PROVE Due(f.c)'
        BY <1>0, <1>1, <3>4, <4>1, <4>3, EarlyInBeginning DEF Due
      <4> QED BY <3>5, <4>2, <4>3 DEF Lost
    <3>6. CASE ~Lost
      <4>1. ASSUME NEW x, AnsweredShape(x, f.c), EndShape(x, f.c) PROVE FALSE
        <5>1. HPair(x, f)
          BY <1>0, <1>1, <4>1, HTakesFacts DEF AnsweredShape, HostWire
        <5> QED BY <1>1, <4>1, <5>1 DEF AnsweredShape, EndShape, HPair, RunTypes
      <4> QED BY <2>1, <3>1, <3>4, <3>6, <4>1, DueStays
    <3> QED BY <3>5, <3>6
  <2> QED BY <1>1, <2>2, <2>3, HostFramesStep
<1>2. ASSUME NEW c \in Calls, sock' = "open", run'[c] \in {"posted", "closing"}
      PROVE  Due(c)'
  <2>1. sock = "open" /\ ~FailedShape
    BY <1>2, OneWay DEF FailedShape
  <2>2. ~Lost
    BY <1>2, <2>1, <1>t DEF Lost
  <2>3. CASE run[c] \in {"posted", "closing"}
    <3>1. Due(c)
      BY <1>0, <2>1, <2>3 DEF Completes, Due
    <3>2. ASSUME NEW x, AnsweredShape(x, c), EndShape(x, c) PROVE FALSE
      <4>1. x \in ToSet(toHost) /\ x.c = c
        BY <1>0, <3>2, HTakesFacts DEF AnsweredShape
      <4>2. run[c] = "over"
        BY <1>0, <3>2, <4>1 DEF HostWire, AnswerOk, EndShape, RunTypes
      <4> QED BY <2>3, <4>2
    <3> QED BY <2>1, <2>2, <3>1, <3>2, DueStays
  <2>4. CASE run[c] \notin {"posted", "closing"}
    <3>1. PostedShape(c)
      <4>1. ASSUME NEW f, TakenShape(f) PROVE FALSE
        <5>1. f.c \in Calls /\ (run' = [run EXCEPT ![f.c] = "over"] \/ run' = [run EXCEPT ![f.c] = "running"])
          BY <4>1 DEF TakenShape
        <5> QED BY <1>t, <1>2, <2>4, <5>1
      <4>2. ASSUME NEW d \in Calls, EndedShape(d) \/ CompletedShape(d) PROVE FALSE
        BY <1>t, <1>2, <2>4, <4>2 DEF EndedShape, CompletedShape
      <4>3. ASSUME NEW d \in Calls, PostedShape(d) PROVE d = c
        BY <1>t, <1>2, <2>4, <4>3 DEF PostedShape
      <4>4. ~Aside
        BY <1>2, <2>4 DEF Aside
      <4>5. ASSUME NEW d, NEW f, AnsweredShape(f, d) \/ RepliedShape(f, d) PROVE FALSE
        BY <1>2, <2>4, <4>5 DEF AnsweredShape, RepliedShape, serverVars
      <4>6. ASSUME NEW d, \/ WriteFails(d) \/ (\E id \in Ids : StartedShape(d, id))
                          \/ \E t \in {"Precompile", "Stats"} : RequestShape(d, t)
            PROVE FALSE
        BY <1>2, <2>4, <4>6 DEF WriteFails, StartedShape, RequestShape, serverVars
      <4> QED BY <2>1, <2>2, <4>1, <4>2, <4>3, <4>4, <4>5, <4>6, CoreOrAside DEF CoreSteps
    <3>2. HAdds(AnswerFrame("Result", c, TRUE))
      BY <2>1, <3>1 DEF PostedShape, Posts
    <3>3. AnswerFrame("Result", c, TRUE) \in ToSet(toHost)'
      BY <1>0, <3>2, HAddsFacts
    <3>4. AnswerFrame("Result", c, TRUE).t = "Result" /\ AnswerFrame("Result", c, TRUE).bg = TRUE /\ AnswerFrame("Result", c, TRUE).c = c
      BY DEF AnswerFrame
    <3> QED BY <3>3, <3>4 DEF Due, Early
  <2> QED BY <2>3, <2>4
<1> QED BY <1>1, <1>2 DEF Completes, Due

-----------------------------------------------------------------------------
(* Stats replies come in the order of their requests. *)

\* The replies rp are for the first of the waiters cs, in order.
Leads(rp, cs) == Len(rp) <= Len(cs) /\ \A n \in 1..Len(rp) : rp[n].c = cs[n]

\* The requests rq are the waiters of cs that the replies rp leave, in order.
Follows(rp, rq, cs) ==
  Len(rp) + Len(rq) = Len(cs) /\ \A n \in 1..Len(rq) : rq[n].c = cs[Len(rp) + n]

\* A sequence with one element put in front.
LEMMA FirstOf ==
  ASSUME NEW A, NEW f, NEW s \in Seq(A)
  PROVE  /\ Len(<<f>> \o s) = Len(s) + 1 /\ (<<f>> \o s)[1] = f
         /\ \A n \in 1..Len(s) : (<<f>> \o s)[n + 1] = s[n]
  OBVIOUS

\* A new request joins the waiters and the requests at the end.
LEMMA Asking ==
  ASSUME NEW A, NEW B, NEW rp \in Seq(A), NEW rq \in Seq(B), NEW cs \in Seq(Calls), NEW f, NEW x \in Calls, f.c = x,
         Leads(rp, cs), Follows(rp, rq, cs), f \in B
  PROVE  Leads(rp, Append(cs, x)) /\ Follows(rp, Append(rq, f), Append(cs, x))
<1> DEFINE dq == Append(rq, f)
           ds == Append(cs, x)
<1>1. Len(rp) \in Nat /\ Len(rq) \in Nat /\ Len(cs) \in Nat
  OBVIOUS
<1>2. Len(ds) = Len(cs) + 1 /\ ds[Len(cs) + 1] = x /\ \A n \in 1..Len(cs) : ds[n] = cs[n]
  OBVIOUS
<1>3. Len(dq) = Len(rq) + 1 /\ dq[Len(rq) + 1] = f /\ \A n \in 1..Len(rq) : dq[n] = rq[n]
  OBVIOUS
<1> HIDE DEF dq, ds
<1>4. Leads(rp, ds)
  BY <1>1, <1>2 DEF Leads
<1>5. ASSUME NEW n \in 1..Len(dq) PROVE dq[n].c = ds[Len(rp) + n]
  <2>1. CASE n = Len(rq) + 1
    BY <1>1, <1>2, <1>3, <2>1 DEF Follows
  <2>2. CASE n \in 1..Len(rq)
    <3>1. Len(rp) + n \in 1..Len(cs)
      BY <1>1, <2>2 DEF Follows
    <3> QED BY <1>2, <1>3, <2>2, <3>1 DEF Follows
  <2> QED BY <1>1, <1>3, <2>1, <2>2
<1>6. Follows(rp, dq, ds)
  BY <1>1, <1>2, <1>3, <1>5 DEF Follows
<1> QED BY <1>4, <1>6 DEF dq, ds

\* The first request becomes the last reply.
LEMMA Answering ==
  ASSUME NEW A, NEW B, NEW rp \in Seq(A), NEW rq \in Seq(B), NEW cs \in Seq(Calls), NEW f, NEW e \in A, e.c = f.c,
         Leads(rp, cs), Follows(rp, <<f>> \o rq, cs)
  PROVE  Leads(Append(rp, e), cs) /\ Follows(Append(rp, e), rq, cs)
<1> DEFINE dp == Append(rp, e)
           dq == <<f>> \o rq
<1>1. Len(rp) \in Nat /\ Len(rq) \in Nat /\ Len(cs) \in Nat
  OBVIOUS
<1>2. Len(dp) = Len(rp) + 1 /\ dp[Len(rp) + 1] = e /\ \A n \in 1..Len(rp) : dp[n] = rp[n]
  OBVIOUS
<1>3. Len(dq) = Len(rq) + 1 /\ dq[1] = f /\ \A n \in 1..Len(rq) : dq[n + 1] = rq[n]
  BY FirstOf
<1>4. Follows(rp, dq, cs)
  OBVIOUS
<1> HIDE DEF dp, dq
<1>5. Len(rp) + 1 + Len(rq) = Len(cs) /\ f.c = cs[Len(rp) + 1]
  BY <1>1, <1>3, <1>4 DEF Follows
<1>6. ASSUME NEW n \in 1..Len(dp) PROVE dp[n].c = cs[n]
  <2>1. CASE n = Len(rp) + 1
    BY <1>2, <1>5, <2>1
  <2>2. CASE n \in 1..Len(rp)
    BY <1>2, <2>2 DEF Leads
  <2> QED BY <1>1, <1>2, <2>1, <2>2
<1>7. Leads(dp, cs)
  BY <1>1, <1>2, <1>5, <1>6 DEF Leads
<1>8. ASSUME NEW n \in 1..Len(rq) PROVE rq[n].c = cs[Len(dp) + n]
  <2>1. n + 1 \in 1..Len(dq) /\ Len(rp) + (n + 1) = Len(dp) + n
    BY <1>1, <1>2, <1>3
  <2>2. dq[n + 1].c = cs[Len(rp) + (n + 1)]
    BY <1>4, <2>1 DEF Follows
  <2> QED BY <1>3, <2>1, <2>2
<1>9. Follows(dp, rq, cs)
  BY <1>1, <1>2, <1>5, <1>8 DEF Follows
<1> QED BY <1>7, <1>9 DEF dp

\* The first reply is for the first waiter, and both leave.
LEMMA Hearing ==
  ASSUME NEW A, NEW B, NEW rp \in Seq(A), NEW rq \in Seq(B), NEW cs \in Seq(Calls), NEW f, cs # <<>>
  PROVE  /\ Leads(<<f>> \o rp, cs) => Leads(rp, Tail(cs)) /\ f.c = Head(cs)
         /\ Follows(<<f>> \o rp, rq, cs) => Follows(rp, rq, Tail(cs))
<1> DEFINE dp == <<f>> \o rp
           ds == Tail(cs)
<1>1. Len(rp) \in Nat /\ Len(rq) \in Nat /\ Len(cs) \in Nat
  OBVIOUS
<1>2. Len(dp) = Len(rp) + 1 /\ dp[1] = f /\ \A n \in 1..Len(rp) : dp[n + 1] = rp[n]
  BY FirstOf
<1>3. Len(ds) = Len(cs) - 1 /\ Head(cs) = cs[1] /\ \A n \in 1..(Len(cs) - 1) : ds[n] = cs[n + 1]
  OBVIOUS
<1> HIDE DEF dp, ds
<1>4. ASSUME Leads(dp, cs) PROVE Leads(rp, ds) /\ f.c = Head(cs)
  <2>1. Len(rp) + 1 <= Len(cs) /\ \A n \in 1..(Len(rp) + 1) : dp[n].c = cs[n]
    BY <1>2, <1>4 DEF Leads
  <2>2. f.c = Head(cs)
    BY <1>1, <1>2, <1>3, <2>1
  <2>3. ASSUME NEW n \in 1..Len(rp) PROVE rp[n].c = ds[n]
    <3>1. n + 1 \in 1..(Len(rp) + 1) /\ n \in 1..(Len(cs) - 1)
      BY <1>1, <2>1
    <3> QED BY <1>2, <1>3, <2>1, <3>1
  <2> QED BY <1>1, <1>3, <2>1, <2>2, <2>3 DEF Leads
<1>5. ASSUME Follows(dp, rq, cs) PROVE Follows(rp, rq, ds)
  <2>1. Len(rp) + 1 + Len(rq) = Len(cs) /\ \A n \in 1..Len(rq) : rq[n].c = cs[Len(dp) + n]
    BY <1>2, <1>5 DEF Follows
  <2>2. ASSUME NEW n \in 1..Len(rq) PROVE rq[n].c = ds[Len(rp) + n]
    <3>1. Len(rp) + n \in 1..(Len(cs) - 1) /\ Len(dp) + n = (Len(rp) + n) + 1
      BY <1>1, <1>2, <2>1
    <3> QED BY <1>3, <2>1, <3>1
  <2>3. Len(rp) + Len(rq) = Len(ds)
    BY <1>1, <1>3, <2>1
  <2> QED BY <2>2, <2>3 DEF Follows
<1> QED BY <1>4, <1>5 DEF dp, ds

\* Fewer replies still lead.
LEMMA LeadingLess ==
  ASSUME NEW A, NEW rp \in Seq(A), NEW rs \in Seq(A), NEW cs \in Seq(Calls), Leads(rp, cs), Len(rs) <= Len(rp),
         \A j \in 1..Len(rs) : rs[j] = rp[j]
  PROVE  Leads(rs, cs)
<1>1. Len(rp) \in Nat /\ Len(rs) \in Nat /\ Len(cs) \in Nat
  OBVIOUS
<1> QED BY <1>1 DEF Leads

\* Replies, requests and waiters are sequences.
LEMMA StatsTyped ==
  ASSUME Types
  PROVE  Replies \in Seq(ToHostFrame) /\ Requests \in Seq(ToServerFrame) /\ controls \in Seq(Calls)
  BY SiftFacts DEF Types, Replies, Requests

\* Other frames to the runtime are no requests.
LEMMA RequestsSame ==
  ASSUME Types, \/ UNCHANGED toServer
                \/ \E f : f.t # "Stats" /\ (SAdds(f) \/ Sends(f) \/ STakes(f))
                \/ \E c : MayTell(c)
  PROVE  Requests' = Requests
<1>1. CASE UNCHANGED toServer
  BY <1>1 DEF Requests, StatsRequests
<1>2. ASSUME NEW f, f.t # "Stats", SAdds(f) PROVE Requests' = Requests
  BY <1>2, SAddsFacts
<1>3. ASSUME NEW f, f.t # "Stats", STakes(f) PROVE Requests' = Requests
  BY <1>3, STakesFacts
<1>4. ASSUME NEW c, MayTell(c) PROVE Requests' = Requests
  BY <1>1, <1>2, <1>4 DEF MayTell
<1> QED BY <1>1, <1>2, <1>3, <1>4 DEF Sends

\* Other frames to the host are no replies.
LEMMA RepliesSame ==
  ASSUME Types, \/ UNCHANGED toHost
                \/ \E f : f.t # "StatsResult" /\ (HAdds(f) \/ Posts(f) \/ HTakes(f))
  PROVE  Replies' = Replies
<1>1. CASE UNCHANGED toHost
  BY <1>1 DEF Replies, StatsReplies
<1>2. ASSUME NEW f, f.t # "StatsResult", HAdds(f) PROVE Replies' = Replies
  BY <1>2, HAddsFacts
<1>3. ASSUME NEW f, f.t # "StatsResult", HTakes(f) PROVE Replies' = Replies
  BY <1>3, HTakesFacts
<1> QED BY <1>1, <1>2, <1>3 DEF Posts

\* RepliesInOrder by Leads and Follows.
LEMMA InOrderIs ==
  RepliesInOrder <=> /\ reader # "ended" => Leads(Replies, controls)
                     /\ sock = "open" /\ demux # "ended" => Follows(Replies, Requests, controls)
  BY DEF RepliesInOrder, Leads, Follows

\* Steps that touch no stats request.
Plain ==
  /\ Replies' = Replies /\ Requests' = Requests /\ controls' = controls
  /\ (reader' # "ended" => reader # "ended") /\ (sock' = "open" => sock = "open")
  /\ (demux' # "ended" => demux # "ended")

\* They keep the order.
LEMMA PlainKeeps ==
  ASSUME RepliesInOrder, Plain
  PROVE  RepliesInOrder'
  BY DEF RepliesInOrder, Plain

\* Every step keeps the order of stats replies.
LEMMA RepliesInOrderStep ==
  ASSUME ConnInv, Steps
  PROVE  RepliesInOrder'
<1>0. Types /\ Quiet /\ HostShape /\ ServerWire /\ HostWire /\ RepliesInOrder
  BY DEF ConnInv
<1>y. Replies \in Seq(ToHostFrame) /\ Requests \in Seq(ToServerFrame) /\ controls \in Seq(Calls)
  BY <1>0, StatsTyped
<1>z. /\ Replies' \in Seq(ToHostFrame) /\ Requests' \in Seq(ToServerFrame) /\ controls' \in Seq(Calls)
  <2>1. Types'
    BY TypesStep
  <2>2. /\ toHost' \in Seq(ToHostFrame)' /\ toServer' \in Seq(ToServerFrame)' /\ controls' \in Seq(Calls)
    BY <2>1 DEF Types
  <2>3. ToHostFrame' = ToHostFrame /\ ToServerFrame' = ToServerFrame /\ StatsReplies' = StatsReplies /\ StatsRequests' = StatsRequests
    BY DEF ToHostFrame, ToServerFrame, StatsReplies, StatsRequests
  <2>4. Sift(toHost', StatsReplies) \in Seq(ToHostFrame) /\ Sift(toServer', StatsRequests) \in Seq(ToServerFrame)
    BY <2>2, <2>3, SiftFacts
  <2> QED BY <2>2, <2>3, <2>4 DEF Replies, Requests
<1>i. /\ reader # "ended" => Leads(Replies, controls)
      /\ sock = "open" /\ demux # "ended" => Follows(Replies, Requests, controls)
  BY <1>0, InOrderIs
<1>k. ASSUME /\ reader' # "ended" => Leads(Replies', controls')
             /\ sock' = "open" /\ demux' # "ended" => Follows(Replies', Requests', controls')
      PROVE  RepliesInOrder'
  BY <1>k DEF RepliesInOrder, Leads, Follows
<1>o. sock = "open" => reader # "ended"
  BY <1>0 DEF Quiet
<1>1. CASE FailedShape
  BY <1>1, <1>k DEF FailedShape
<1>2. CASE Lost
  <2>1. UNCHANGED <<controls, reader>> /\ demux' = "ended"
    BY <1>2 DEF Lost, hostVars
  <2>2. CASE UNCHANGED toHost
    <3>1. Replies' = Replies
      BY <1>0, <2>2, RepliesSame
    <3> QED BY <1>i, <1>k, <2>1, <3>1
  <2>3. ASSUME NEW k \in 0..Len(toHost), toHost' = SubSeq(toHost, 1, k) PROVE RepliesInOrder'
    <3>1. /\ Len(Sift(toHost', StatsReplies)) <= Len(Replies)
          /\ \A j \in 1..Len(Sift(toHost', StatsReplies)) : Sift(toHost', StatsReplies)[j] = Replies[j]
      BY <1>0, <2>3, SiftBeginning DEF Types, Replies
    <3>2. Replies' = Sift(toHost', StatsReplies)
      BY DEF Replies, StatsReplies
    <3>3. Leads(Replies, controls) => Leads(Replies', controls)
      BY <1>y, <1>z, <3>1, <3>2, LeadingLess
    <3> QED BY <1>i, <1>k, <2>1, <3>3
  <2> QED BY <1>2, <2>2, <2>3 DEF Lost
<1>3. CASE HelloShape
  <2>1. hs = "auth" /\ UNCHANGED <<controls, demux, toServer>>
    BY <1>3 DEF HelloShape, serverVars
  <2>2. Requests' = Requests
    BY <1>0, <2>1, RequestsSame
  <2>3. ASSUME NEW f, HTakes(f), UNCHANGED <<reader, sock>> PROVE RepliesInOrder'
    <3>1. f.t = "Hello"
      BY <1>0, <2>1, <2>3, HTakesFacts DEF HostWire
    <3>2. Replies' = Replies
      BY <1>0, <2>3, <3>1, RepliesSame
    <3> QED BY <1>0, <2>1, <2>2, <2>3, <3>2, PlainKeeps DEF Plain
  <2>4. ASSUME toHost' = <<>>, sock' = "destroyed" PROVE RepliesInOrder'
    <3>1. toHost' \in Seq({}) /\ ToSet(toHost') = {}
      BY <2>4, EmptySeq, NoFrames
    <3>2. Sift(toHost', StatsReplies) \in Seq({}) /\ Len(Sift(toHost', StatsReplies)) <= Len(toHost')
      BY <3>1, SiftFacts
    <3>3. Len(toHost') = 0
      BY <2>4
    <3>4. Len(Replies') = 0
      <4>1. Replies' = Sift(toHost', StatsReplies)
        BY DEF Replies, StatsReplies
      <4> QED BY <3>2, <3>3, <4>1
    <3>5. Leads(Replies', controls')
      <4>1. Len(controls') \in Nat
        BY <1>z
      <4> QED BY <3>4, <4>1 DEF Leads
    <3> QED BY <1>k, <2>4, <3>5
  <2> QED BY <1>3, <2>3, <2>4 DEF HelloShape
<1>4. CASE CutOff
  <2>1. UNCHANGED <<toServer, toHost, controls, demux>> /\ (reader' # "ended" => reader # "ended") /\ (sock' = "open" => sock = "open")
    BY <1>0, <1>4 DEF CutOff, CutShape, serverVars
  <2> QED BY <1>0, <2>1, RequestsSame, RepliesSame, PlainKeeps DEF Plain
<1>5. CASE DisposedShape
  <2>1. UNCHANGED <<toHost, controls, demux, reader>> /\ sock' # "open" /\ (SAdds([t |-> "Close"]) \/ UNCHANGED toServer)
    BY <1>5 DEF DisposedShape, serverVars
  <2>2. Requests' = Requests
    BY <1>0, <2>1, RequestsSame
  <2> QED BY <1>0, <2>1, <2>2, RepliesSame, PlainKeeps DEF Plain
<1>6. CASE UNCHANGED <<controls, demux, reader, sock>> /\ Requests' = Requests /\ Replies' = Replies
  BY <1>0, <1>6, PlainKeeps DEF Plain
<1>7. ASSUME NEW c \in Calls, NEW id \in Ids, StartedShape(c, id) PROVE RepliesInOrder'
  <2>1. UNCHANGED <<toHost, controls, demux, reader, sock>> /\ Sends([t |-> "Run", id |-> id, c |-> c])
    BY <1>7 DEF StartedShape, serverVars
  <2> QED BY <1>0, <1>6, <2>1, RequestsSame, RepliesSame
<1>8. ASSUME NEW c \in Calls, WrittenShape(c) PROVE RepliesInOrder'
  <2>1. UNCHANGED <<toHost, controls, demux, reader, sock>> /\ MayTell(c)
    BY <1>8 DEF WrittenShape, serverVars
  <2> QED BY <1>0, <1>6, <2>1, RequestsSame, RepliesSame
<1>9. ASSUME NEW c \in Calls, WriteFails(c) PROVE RepliesInOrder'
  <2>1. UNCHANGED <<toHost, controls, demux, reader, sock, toServer>>
    BY <1>9 DEF WriteFails, serverVars
  <2> QED BY <1>0, <1>6, <2>1, RequestsSame, RepliesSame
<1>10. ASSUME NEW c \in Calls, NEW m \in Modes, SignalShape(c, m) PROVE RepliesInOrder'
  <2>1. UNCHANGED <<toHost, controls, demux, reader, sock>> /\ (UNCHANGED toServer \/ MayTell(c))
    BY <1>10 DEF SignalShape, serverVars
  <2> QED BY <1>0, <1>6, <2>1, RequestsSame, RepliesSame
<1>11. ASSUME NEW c \in Calls, RequestShape(c, "Precompile") PROVE RepliesInOrder'
  <2>1. UNCHANGED <<toHost, controls, demux, reader, sock>> /\ SAdds([t |-> "Precompile", c |-> c])
    BY <1>11 DEF RequestShape, serverVars
  <2> QED BY <1>0, <1>6, <2>1, RequestsSame, RepliesSame
<1>12. ASSUME NEW c \in Calls, RequestShape(c, "Stats") PROVE RepliesInOrder'
  <2> DEFINE f == [t |-> "Stats", c |-> c]
  <2>1. UNCHANGED <<toHost, demux, reader, sock>> /\ SAdds(f) /\ sock = "open" /\ controls' = Append(controls, c)
    BY <1>12 DEF RequestShape, serverVars
  <2>2. f.t = "Stats" /\ f.c = c
    OBVIOUS
  <2> HIDE DEF f
  <2>3. Replies' = Replies /\ Requests' = Append(Requests, f) /\ f \in ToServerFrame
    BY <1>0, <2>1, <2>2, RepliesSame, SAddsFacts
  <2>4. Leads(Replies, controls)
    BY <1>i, <1>o, <2>1
  <2>5. CASE demux = "ended"
    <3>1. Leads(Replies, Append(controls, c))
      <4>1. Len(Append(controls, c)) = Len(controls) + 1 /\ \A n \in 1..Len(controls) : Append(controls, c)[n] = controls[n]
        BY <1>y
      <4>2. Len(Replies) \in Nat /\ Len(controls) \in Nat
        BY <1>y
      <4> QED BY <2>4, <4>1, <4>2 DEF Leads
    <3> QED BY <1>k, <2>1, <2>3, <2>5, <3>1
  <2>6. CASE demux # "ended"
    <3>1. Follows(Replies, Requests, controls)
      BY <1>i, <2>1, <2>6
    <3>2. Leads(Replies, Append(controls, c)) /\ Follows(Replies, Append(Requests, f), Append(controls, c))
      BY <1>y, <2>2, <2>3, <2>4, <3>1, Asking
    <3> QED BY <1>k, <2>1, <2>3, <3>2
  <2> QED BY <2>5, <2>6
<1>13. ASSUME NEW f, NEW c, AnsweredShape(f, c) PROVE RepliesInOrder'
  <2>1. UNCHANGED <<controls, demux, reader, sock>> /\ HTakes(f) /\ f.t # "StatsResult" /\ (UNCHANGED toServer \/ MayTell(c))
    BY <1>13 DEF AnsweredShape, EndShape, GraceShape, serverVars
  <2> QED BY <1>0, <1>6, <2>1, RequestsSame, RepliesSame
<1>14. ASSUME NEW f, NEW x, RepliedShape(f, x) PROVE RepliesInOrder'
  <2>1. UNCHANGED <<demux, reader, sock, toServer>> /\ HTakes(f) /\ reader # "ended"
    BY <1>14 DEF RepliedShape, serverVars
  <2>2. Requests' = Requests
    BY <1>0, <2>1, RequestsSame
  <2>3. CASE f.t = "PrecompileResult"
    <3>1. UNCHANGED controls
      BY <1>14, <2>3 DEF RepliedShape
    <3> QED BY <1>0, <1>6, <2>1, <2>2, <2>3, <3>1, RepliesSame
  <2>4. CASE f.t = "StatsResult"
    <3>1. controls # <<>> /\ controls' = Tail(controls)
      BY <1>14, <2>4 DEF RepliedShape
    <3>2. Replies = <<f>> \o Replies'
      BY <1>0, <2>1, <2>4, HTakesFacts
    <3>3. Leads(<<f>> \o Replies', controls)
      BY <1>i, <2>1, <3>2
    <3>4. sock = "open" /\ demux # "ended" => Follows(<<f>> \o Replies', Requests, controls)
      BY <1>i, <3>2
    <3>5. Leads(Replies', Tail(controls)) /\ (sock = "open" /\ demux # "ended" => Follows(Replies', Requests, Tail(controls)))
      BY <1>y, <1>z, <3>1, <3>3, <3>4, Hearing
    <3> QED BY <1>k, <2>1, <2>2, <3>1, <3>5
  <2> QED BY <1>14, <2>3, <2>4 DEF RepliedShape
<1>15. ASSUME NEW f \in ToHostFrame, CalledShape(f) PROVE RepliesInOrder'
  <2>1. /\ UNCHANGED <<controls, demux, reader, sock>> /\ HTakes(f) /\ f.t # "StatsResult"
        /\ (UNCHANGED toServer \/ SAdds(ResponseFrame(f)))
    BY <1>15 DEF CalledShape, serverVars
  <2>2. ResponseFrame(f).t # "Stats"
    BY DEF ResponseFrame
  <2> QED BY <1>0, <1>6, <2>1, <2>2, RequestsSame, RepliesSame
<1>16. ASSUME NEW h \in handlers, SettledShape(h) PROVE RepliesInOrder'
  <2>1. /\ UNCHANGED <<controls, demux, toHost>> /\ (reader' # "ended" => reader # "ended") /\ (sock' = "open" => sock = "open")
        /\ (UNCHANGED toServer \/ SAdds(ResponseFrame(h)))
    BY <1>0, <1>16 DEF SettledShape, CutShape, serverVars
  <2>2. ResponseFrame(h).t # "Stats"
    BY DEF ResponseFrame
  <2>3. Requests' = Requests /\ Replies' = Replies
    BY <1>0, <2>1, <2>2, RequestsSame, RepliesSame
  <2> QED BY <1>0, <2>1, <2>3, PlainKeeps DEF Plain
<1>17. CASE ServerGivesUp
  <2>1. UNCHANGED <<controls, toServer, toHost, reader, sock>> /\ demux' = "ended"
    BY <1>17 DEF ServerGivesUp, hostVars
  <2> QED BY <1>0, <2>1, RequestsSame, RepliesSame, PlainKeeps DEF Plain
<1>18. ASSUME NEW f, GreetedShape(f) PROVE RepliesInOrder'
  <2>1. UNCHANGED <<controls, reader, sock>> /\ demux # "ended" /\ STakes(f) /\ f.t # "Stats"
    BY <1>18 DEF GreetedShape, hostVars
  <2>2. PICK x : Posts([t |-> "Hello", status |-> x])
    BY <1>18 DEF GreetedShape
  <2>3. Requests' = Requests /\ Replies' = Replies
    BY <1>0, <2>1, <2>2, RequestsSame, RepliesSame
  <2> QED BY <1>0, <2>1, <2>3, PlainKeeps DEF Plain
<1>19. ASSUME NEW f, HeardShape(f) PROVE RepliesInOrder'
  <2>1. UNCHANGED <<controls, reader, sock, demux, toHost>> /\ STakes(f) /\ f.t # "Stats"
    BY <1>19 DEF HeardShape, hostVars
  <2> QED BY <1>0, <1>6, <2>1, RequestsSame, RepliesSame
<1>20. ASSUME NEW f, RequestedShape(f) PROVE RepliesInOrder'
  <2>1. UNCHANGED <<controls, reader, sock, demux>> /\ STakes(f) /\ f.c \in Calls /\ demux # "ended"
    BY <1>20 DEF RequestedShape, hostVars, serverVars
  <2>2. CASE f.t = "Precompile" /\ Posts([t |-> "PrecompileResult", c |-> f.c])
    BY <1>0, <1>6, <2>1, <2>2, RequestsSame, RepliesSame
  <2>3. CASE f.t = "Stats" /\ Posts([t |-> "StatsResult", c |-> f.c])
    <3> DEFINE e == [t |-> "StatsResult", c |-> f.c]
    <3>1. e.t = "StatsResult" /\ e.c = f.c /\ Posts(e)
      BY <2>3
    <3> HIDE DEF e
    <3>2. Requests = <<f>> \o Requests'
      BY <1>0, <2>1, <2>3, STakesFacts
    <3>3. CASE sock # "open"
      <4>1. Replies' = Replies
        BY <1>0, <3>1, <3>3, RepliesSame DEF Posts, HAdds
      <4> QED BY <1>i, <1>k, <2>1, <3>3, <4>1
    <3>4. CASE sock = "open"
      <4>1. HAdds(e)
        BY <3>1, <3>4 DEF Posts
      <4>2. Replies' = Append(Replies, e) /\ e \in ToHostFrame
        BY <1>0, <3>1, <4>1, HAddsFacts
      <4>3. Leads(Replies, controls) /\ Follows(Replies, <<f>> \o Requests', controls)
        BY <1>i, <1>o, <2>1, <3>2, <3>4
      <4>4. Leads(Append(Replies, e), controls) /\ Follows(Append(Replies, e), Requests', controls)
        BY <1>y, <1>z, <3>1, <4>2, <4>3, Answering
      <4> QED BY <1>k, <2>1, <4>2, <4>4
    <3> QED BY <3>3, <3>4
  <2> QED BY <1>20, <2>2, <2>3 DEF RequestedShape
<1>21. ASSUME NEW f, TakenShape(f) PROVE RepliesInOrder'
  <2>1. /\ UNCHANGED <<controls, reader, sock, demux>> /\ STakes(f) /\ f.t # "Stats"
        /\ (UNCHANGED toHost \/ Posts(AnswerFrame("Result", f.c, FALSE)))
    BY <1>21 DEF TakenShape, hostVars
  <2>2. AnswerFrame("Result", f.c, FALSE).t # "StatsResult"
    BY DEF AnswerFrame
  <2> QED BY <1>0, <1>6, <2>1, <2>2, RequestsSame, RepliesSame
<1>22. ASSUME NEW c \in Calls, PostedShape(c) \/ EndedShape(c) \/ CompletedShape(c) PROVE RepliesInOrder'
  <2>1. /\ UNCHANGED <<controls, reader, sock, demux, toServer>>
        /\ (UNCHANGED toHost \/ \E t \in {"Result", "RunComplete"}, b \in BOOLEAN : Posts(AnswerFrame(t, c, b)))
    BY <1>22 DEF PostedShape, EndedShape, CompletedShape, hostVars
  <2>2. \A t \in {"Result", "RunComplete"}, b \in BOOLEAN : AnswerFrame(t, c, b).t # "StatsResult"
    BY DEF AnswerFrame
  <2> QED BY <1>0, <1>6, <2>1, <2>2, RequestsSame, RepliesSame
<1>23. ASSUME NEW c \in Calls, NEW n, CallingShape(c, n) PROVE RepliesInOrder'
  <2>1. /\ UNCHANGED <<controls, reader, sock, demux, toServer>>
        /\ HAdds([t |-> "BridgeCall", id |-> idOf[c], c |-> c, n |-> n])
    BY <1>23 DEF CallingShape, hostVars
  <2> QED BY <1>0, <1>6, <2>1, RequestsSame, RepliesSame
<1>24. CASE UNCHANGED vars
  BY <1>0, <1>6, <1>24, RequestsSame, RepliesSame DEF vars, hostVars, serverVars
<1>25. CASE HostSteps
  BY <1>1, <1>3, <1>4, <1>5, <1>7, <1>8, <1>9, <1>10, <1>11, <1>12, <1>13, <1>14, <1>15, <1>16, <1>25 DEF HostSteps
<1>26. CASE ServerSteps
  BY <1>2, <1>17, <1>18, <1>19, <1>20, <1>21, <1>22, <1>23, <1>26 DEF ServerSteps
<1> QED BY <1>24, <1>25, <1>26 DEF Steps

-----------------------------------------------------------------------------
(* Bridge call ids. *)

\* Bridge call n was made by c, and something still speaks of it.
Claim(n, c) ==
  \/ \E f \in ToSet(toHost) : f.t = "BridgeCall" /\ f.n = n /\ f.c = c
  \/ \E h \in handlers : h.n = n /\ h.c = c
  \/ \E f \in ToSet(toServer) : f.t = "BridgeResponse" /\ f.n = n /\ f.c = c
  \/ c \in Calls /\ n \in 1..MaxCallId /\ n \in waiting[c]

\* Every bridge call id spoken of was given out, to one run.
Owned ==
  /\ \A n, c : Claim(n, c) => n <= lastCallId
  /\ \A n, c, d : Claim(n, c) /\ Claim(n, d) => c = d

\* Tokens, by Claim.
LEMMA TokensAre == Tokens <=> Owned
<1>1. ASSUME NEW n, NEW c PROVE <<n, c>> \in Claims <=> Claim(n, c)
  BY DEF Claims, Claim
<1>2. \A p \in Claims : p = <<p[1], p[2]>>
  BY DEF Claims
<1>3. (\A p \in Claims : p[1] <= lastCallId) <=> \A n, c : Claim(n, c) => n <= lastCallId
  <2>1. ASSUME \A p \in Claims : p[1] <= lastCallId, NEW n, NEW c, Claim(n, c) PROVE n <= lastCallId
    <3>1. <<n, c>> \in Claims /\ <<n, c>>[1] = n
      BY <1>1, <2>1
    <3>2. <<n, c>>[1] <= lastCallId
      BY <2>1, <3>1
    <3> QED BY <3>1, <3>2
  <2>2. ASSUME \A n, c : Claim(n, c) => n <= lastCallId, NEW p \in Claims PROVE p[1] <= lastCallId
    <3>1. Claim(p[1], p[2])
      BY <1>1, <1>2
    <3> QED BY <2>2, <3>1
  <2> QED BY <2>1, <2>2
<1>4. (\A p, q \in Claims : p[1] = q[1] => p[2] = q[2]) <=> \A n, c, d : Claim(n, c) /\ Claim(n, d) => c = d
  <2>1. ASSUME \A p, q \in Claims : p[1] = q[1] => p[2] = q[2], NEW n, NEW c, NEW d, Claim(n, c), Claim(n, d) PROVE c = d
    <3>1. /\ <<n, c>> \in Claims /\ <<n, c>>[1] = n /\ <<n, c>>[2] = c
          /\ <<n, d>> \in Claims /\ <<n, d>>[1] = n /\ <<n, d>>[2] = d
      BY <1>1, <2>1
    <3>2. <<n, c>>[1] = <<n, d>>[1] => <<n, c>>[2] = <<n, d>>[2]
      BY <2>1, <3>1
    <3> QED BY <3>1, <3>2
  <2>2. ASSUME \A n, c, d : Claim(n, c) /\ Claim(n, d) => c = d, NEW p \in Claims, NEW q \in Claims, p[1] = q[1] PROVE p[2] = q[2]
    <3>1. Claim(p[1], p[2]) /\ Claim(q[1], q[2])
      BY <1>1, <1>2
    <3> QED BY <2>2, <3>1
  <2> QED BY <2>1, <2>2
<1> QED BY <1>3, <1>4 DEF Tokens, Owned

\* A handler at work was there, or its call was just taken off the stream.
LEMMA HandlersStep ==
  ASSUME Steps, NEW h \in handlers'
  PROVE  h \in handlers \/ \E f \in ToHostFrame : CalledShape(f) /\ h = [id |-> f.id, c |-> f.c, n |-> f.n]
<1>1. CASE HostSteps
  BY <1>1 DEF HostSteps, HelloShape, FailedShape, CutOff, DisposedShape, WrittenShape, WriteFails, StartedShape,
         SignalShape, RequestShape, AnsweredShape, RepliedShape, CalledShape, SettledShape
<1>2. CASE ServerSteps
  BY <1>2 DEF ServerSteps, ServerGivesUp, Lost, GreetedShape, HeardShape, RequestedShape, TakenShape, PostedShape,
         EndedShape, CompletedShape, CallingShape, hostVars
<1>3. CASE UNCHANGED vars
  BY <1>3 DEF vars, hostVars
<1> QED BY <1>1, <1>2, <1>3 DEF Steps

\* A guest waits for a call it waited for, or has just made.
LEMMA WaitingStep ==
  ASSUME Types, Steps, NEW c \in Calls, NEW n \in waiting'[c]
  PROVE  n \in waiting[c] \/ CallingShape(c, n)
<1>t. waiting \in [Calls -> SUBSET (1..MaxCallId)]
  BY DEF Types
<1>1. UNCHANGED waiting => n \in waiting[c]
  OBVIOUS
<1>2. CASE HostSteps
  BY <1>1, <1>2 DEF HostSteps, HelloShape, FailedShape, CutOff, DisposedShape, WrittenShape, WriteFails, StartedShape,
         SignalShape, RequestShape, AnsweredShape, RepliedShape, CalledShape, SettledShape, serverVars
<1>3. CASE Lost
  BY <1>1, <1>3 DEF Lost
<1>4. ASSUME NEW f, HeardShape(f) PROVE n \in waiting[c]
  BY <1>4 DEF HeardShape
<1>5. ASSUME NEW d \in Calls, EndedShape(d) PROVE n \in waiting[c]
  BY <1>t, <1>5 DEF EndedShape
<1>6. ASSUME NEW d \in Calls, NEW k, CallingShape(d, k) PROVE n \in waiting[c] \/ CallingShape(c, n)
  <2>1. waiting' = [waiting EXCEPT ![d] = @ \cup {k}]
    BY <1>6 DEF CallingShape
  <2>2. n \in waiting[c] \/ (c = d /\ n = k)
    BY <1>t, <2>1
  <2> QED BY <1>6, <2>2
<1>7. CASE ServerSteps
  BY <1>1, <1>3, <1>4, <1>5, <1>6, <1>7 DEF ServerSteps, ServerGivesUp, GreetedShape, RequestedShape, TakenShape, PostedShape,
         CompletedShape, serverVars
<1>8. CASE UNCHANGED vars
  BY <1>1, <1>8 DEF vars, serverVars
<1> QED BY <1>2, <1>7, <1>8 DEF Steps

\* A response on its way was there, or its call was just answered.
LEMMA ResponsesStep ==
  ASSUME ConnInv, Steps, NEW g \in ToSet(toServer)', g.t = "BridgeResponse"
  PROVE  \/ g \in ToSet(toServer)
         \/ \E f \in ToHostFrame : CalledShape(f) /\ g = ResponseFrame(f)
         \/ \E h \in handlers : g = ResponseFrame(h)
<1>0. Types
  BY DEF ConnInv
<1>1. UNCHANGED toServer => g \in ToSet(toServer)
  OBVIOUS
<1>2. \A f : STakes(f) => g \in ToSet(toServer)
  BY <1>0, STakesFacts
<1>3. \A f : SAdds(f) => g \in ToSet(toServer) \/ g = f
  BY <1>0, SAddsFacts
<1>4. \A c : MayTell(c) => g \in ToSet(toServer)
  <2>1. ASSUME NEW c, NEW m, SAdds([t |-> "Terminate", id |-> idOf[c], c |-> c, mode |-> m]) PROVE g \in ToSet(toServer)
    <3>1. [t |-> "Terminate", id |-> idOf[c], c |-> c, mode |-> m].t = "Terminate"
      OBVIOUS
    <3> QED BY <1>3, <2>1, <3>1
  <2> QED BY <1>1, <2>1 DEF MayTell
<1>5. \A c, id : Sends([t |-> "Run", id |-> id, c |-> c]) => g \in ToSet(toServer)
  BY <1>1, <1>3 DEF Sends
<1>6. toServer' # <<>>
  BY NoFrames
<1>7. CASE HostSteps
  <2>1. ASSUME NEW f \in ToHostFrame, CalledShape(f) PROVE g \in ToSet(toServer) \/ g = ResponseFrame(f)
    BY <1>1, <1>3, <2>1 DEF CalledShape
  <2>2. ASSUME NEW h \in handlers, SettledShape(h) PROVE g \in ToSet(toServer) \/ g = ResponseFrame(h)
    BY <1>1, <1>3, <2>2 DEF SettledShape, CutShape
  <2>3. CASE DisposedShape
    BY <1>1, <1>3, <2>3 DEF DisposedShape
  <2>4. ASSUME NEW c \in Calls, NEW t \in {"Precompile", "Stats"}, RequestShape(c, t) PROVE g \in ToSet(toServer)
    BY <1>3, <2>4 DEF RequestShape
  <2>5. ASSUME NEW f, NEW c, AnsweredShape(f, c) PROVE g \in ToSet(toServer)
    BY <1>1, <1>4, <2>5 DEF AnsweredShape, EndShape, GraceShape
  <2>6. ASSUME NEW c \in Calls, NEW m \in Modes, SignalShape(c, m) PROVE g \in ToSet(toServer)
    BY <1>1, <1>4, <2>6 DEF SignalShape
  <2>7. ASSUME NEW c \in Calls, NEW id \in Ids, StartedShape(c, id) PROVE g \in ToSet(toServer)
    BY <1>5, <2>7 DEF StartedShape
  <2>8. ASSUME NEW c \in Calls, WrittenShape(c) \/ WriteFails(c) PROVE g \in ToSet(toServer)
    BY <1>1, <1>4, <2>8 DEF WrittenShape, WriteFails
  <2>9. ASSUME NEW f, NEW c, RepliedShape(f, c) PROVE g \in ToSet(toServer)
    BY <1>1, <2>9 DEF RepliedShape
  <2>10. CASE HelloShape \/ FailedShape \/ CutOff
    BY <1>1, <2>10 DEF HelloShape, FailedShape, CutOff, CutShape
  <2> QED BY <1>7, <2>1, <2>2, <2>3, <2>4, <2>5, <2>6, <2>7, <2>8, <2>9, <2>10 DEF HostSteps
<1>8. CASE ServerSteps
  BY <1>1, <1>2, <1>6, <1>8 DEF ServerSteps, ServerGivesUp, Lost, GreetedShape, HeardShape, RequestedShape, TakenShape, PostedShape,
         EndedShape, CompletedShape, CallingShape
<1>9. CASE UNCHANGED vars
  BY <1>1, <1>9 DEF vars
<1> QED BY <1>7, <1>8, <1>9 DEF Steps

\* Nobody comes to speak of a bridge call of a run but by that run's own call.
LEMMA ClaimStep ==
  ASSUME ConnInv, Steps, NEW n, NEW c, Claim(n, c)'
  PROVE  Claim(n, c) \/ (c \in Calls /\ CallingShape(c, n))
<1>0. Types
  BY DEF ConnInv
<1>c. ASSUME NEW f \in ToHostFrame, CalledShape(f), f.n = n, f.c = c PROVE Claim(n, c)
  <2>1. f \in ToSet(toHost) /\ f.t = "BridgeCall"
    BY <1>0, <1>c, HTakesFacts DEF CalledShape
  <2> QED BY <1>c, <2>1 DEF Claim
<1>1. ASSUME NEW g \in ToSet(toHost)', g.t = "BridgeCall", g.n = n, g.c = c
      PROVE  Claim(n, c) \/ (c \in Calls /\ CallingShape(c, n))
  <2>1. CASE g \in ToSet(toHost)
    BY <1>1, <2>1 DEF Claim
  <2>2. CASE HNew(g)
    <3>1. PICK d \in Calls : \E k : CallingShape(d, k) /\ g = [t |-> "BridgeCall", id |-> idOf[d], c |-> d, n |-> k]
      BY <1>1, <2>2 DEF HNew, AnswerFrame
    <3>2. PICK k : CallingShape(d, k) /\ g = [t |-> "BridgeCall", id |-> idOf[d], c |-> d, n |-> k]
      BY <3>1
    <3> QED BY <1>1, <3>2
  <2> QED BY <1>1, <2>1, <2>2, HostFramesStep
<1>2. ASSUME NEW h \in handlers', h.n = n, h.c = c PROVE Claim(n, c)
  <2>1. CASE h \in handlers
    BY <1>2, <2>1 DEF Claim
  <2>2. ASSUME NEW f \in ToHostFrame, CalledShape(f), h = [id |-> f.id, c |-> f.c, n |-> f.n] PROVE Claim(n, c)
    BY <1>2, <1>c, <2>2
  <2> QED BY <1>2, <2>1, <2>2, HandlersStep
<1>3. ASSUME NEW g \in ToSet(toServer)', g.t = "BridgeResponse", g.n = n, g.c = c PROVE Claim(n, c)
  <2>1. CASE g \in ToSet(toServer)
    BY <1>3, <2>1 DEF Claim
  <2>2. ASSUME NEW f \in ToHostFrame, CalledShape(f), g = ResponseFrame(f) PROVE Claim(n, c)
    BY <1>3, <1>c, <2>2 DEF ResponseFrame
  <2>3. ASSUME NEW h \in handlers, g = ResponseFrame(h) PROVE Claim(n, c)
    BY <1>3, <2>3 DEF ResponseFrame, Claim
  <2> QED BY <1>3, <2>1, <2>2, <2>3, ResponsesStep
<1>4. ASSUME c \in Calls, n \in 1..MaxCallId, n \in waiting'[c]
      PROVE  Claim(n, c) \/ (c \in Calls /\ CallingShape(c, n))
  BY <1>0, <1>4, WaitingStep DEF Claim
<1> QED BY <1>1, <1>2, <1>3, <1>4 DEF Claim

\* Every step keeps bridge call ids apart.
LEMMA TokensStep ==
  ASSUME ConnInv, Steps
  PROVE  Tokens'
<1>0. Types /\ Tokens
  BY DEF ConnInv
<1>1. /\ \A n, c : Claim(n, c) => n <= lastCallId
      /\ \A n, c, d : Claim(n, c) /\ Claim(n, d) => c = d
  BY <1>0, TokensAre DEF Owned
<1>l. lastCallId \in Nat
  BY <1>0 DEF Types
<1>n. ASSUME NEW n, NEW c, Claim(n, c) PROVE n \in Int
  <2>1. \A f \in ToSet(toHost) : f.t = "BridgeCall" => f.n \in Int
    BY <1>0, ToHostFields DEF Types, ToSet
  <2>2. \A f \in ToSet(toServer) : f.t = "BridgeResponse" => f.n \in Int
    BY <1>0, ToServerFields DEF Types, ToSet
  <2>3. \A h \in handlers : h.n \in Int
    BY <1>0 DEF Types
  <2> QED BY <1>n, <2>1, <2>2, <2>3 DEF Claim
<1>2. ASSUME UNCHANGED lastCallId, \A c \in Calls : \A n : ~CallingShape(c, n) PROVE Owned'
  <2>1. \A n, c : Claim(n, c)' => Claim(n, c)
    BY <1>2, ClaimStep
  <2> QED BY <1>1, <1>2, <2>1 DEF Owned
<1>3. ASSUME NEW b \in Calls, NEW k, CallingShape(b, k) PROVE Owned'
  <2>1. lastCallId' = k /\ k = lastCallId + 1
    BY <1>3 DEF CallingShape
  <2>2. ASSUME NEW c, NEW n, CallingShape(c, n), c \in Calls PROVE c = b /\ n = k
    <3>1. n = k
      BY <2>1, <2>2 DEF CallingShape
    <3>2. k \in waiting'[c] /\ k \notin waiting[c]
      <4>1. k \in waiting'[c]
        BY <1>0, <2>2, <3>1 DEF CallingShape, Types
      <4>2. k \in waiting[c] => Claim(k, c)
        BY <1>3, <2>2 DEF Claim, CallingShape
      <4>3. ~(k <= lastCallId)
        BY <1>l, <2>1
      <4> QED BY <1>1, <4>1, <4>2, <4>3
    <3>3. waiting' = [waiting EXCEPT ![b] = @ \cup {k}] /\ waiting \in [Calls -> SUBSET (1..MaxCallId)]
      BY <1>0, <1>3 DEF CallingShape, Types
    <3>4. c = b
      BY <2>2, <3>2, <3>3
    <3> QED BY <3>1, <3>4
  <2>3. \A n, c : Claim(n, c)' => Claim(n, c) \/ (c = b /\ n = k)
    BY <2>2, ClaimStep
  <2>4. ASSUME NEW n, NEW c, Claim(n, c) PROVE n <= lastCallId /\ n \in Int /\ n # k
    <3>1. n <= lastCallId /\ n \in Int
      BY <1>1, <1>n, <2>4
    <3> QED BY <1>l, <2>1, <3>1
  <2>5. ASSUME NEW n, NEW c, Claim(n, c)' PROVE n <= lastCallId'
    <3>1. CASE Claim(n, c)
      BY <1>l, <2>1, <2>4, <3>1
    <3>2. CASE n = k
      BY <1>l, <2>1, <3>2
    <3> QED BY <2>3, <2>5, <3>1, <3>2
  <2>6. ASSUME NEW n, NEW c, NEW d, Claim(n, c)', Claim(n, d)' PROVE c = d
    <3>1. Claim(n, c) \/ (c = b /\ n = k)
      BY <2>3, <2>6
    <3>2. Claim(n, d) \/ (d = b /\ n = k)
      BY <2>3, <2>6
    <3> QED BY <1>1, <2>4, <3>1, <3>2
  <2> QED BY <2>5, <2>6 DEF Owned
<1>4. UNCHANGED lastCallId \/ \E c \in Calls : \E n : CallingShape(c, n)
  <2>1. CASE HostSteps
    BY <2>1 DEF HostSteps, HelloShape, FailedShape, CutOff, DisposedShape, WrittenShape, WriteFails, StartedShape,
         SignalShape, RequestShape, AnsweredShape, RepliedShape, CalledShape, SettledShape, serverVars
  <2>2. CASE ServerSteps
    BY <2>2 DEF ServerSteps, ServerGivesUp, Lost, GreetedShape, HeardShape, RequestedShape, TakenShape, PostedShape,
         EndedShape, CompletedShape, serverVars
  <2>3. CASE UNCHANGED vars
    BY <2>3 DEF vars, serverVars
  <2> QED BY <2>1, <2>2, <2>3 DEF Steps
<1>5. Owned'
  BY <1>2, <1>3, <1>4
<1> QED BY <1>5, TokensAre, PTL

-----------------------------------------------------------------------------
(* The invariant holds, and what follows from it. *)

\* The frames of a stream that are of some types.
LEMMA FramesAre ==
  ASSUME NEW A, NEW s \in Seq(A), NEW T, NEW f
  PROVE  f \in Frames(s, T) <=> f \in ToSet(s) /\ f.t \in T
  BY DEF Frames, ToSet

\* The first frame on its way to the host is one the router takes.
LEMMA HeadRoutable ==
  ASSUME ConnInv, reader # "ended", hs = "ready", toHost # <<>>
  PROVE  /\ Routable(Head(toHost)) \/ Head(toHost).again
         /\ Head(toHost).t = "StatsResult" => Head(controls) = Head(toHost).c
<1>0. Types /\ HostShape /\ HostWire /\ Completes /\ RepliesInOrder
  BY DEF ConnInv
<1>n. NoCall \notin Calls
  BY ConnectionAssumptions DEF ConnectionAssumptions
<1> DEFINE f == Head(toHost)
<1>1. /\ toHost \in Seq(ToHostFrame) /\ f \in ToHostFrame /\ ToSet(toHost) = ToSet(Tail(toHost)) \cup {f}
      /\ Tail(toHost) \in Seq(ToHostFrame)
  BY <1>0, TailSet DEF Types
<1>2. f \in ToSet(toHost)
  BY <1>1
<1>3. \A g \in ToSet(Tail(toHost)) : HPair(f, g)
  <2>1. \A g \in ToSet(Tail(toHost)) : g \in ToHostFrame
    BY <1>1 DEF ToSet
  <2>2. \A g \in ToSet(Tail(toHost)) : <<f, g>> \in HBefore
    BY <1>0, <1>1, OrderedTail DEF HostWire
  <2> HIDE DEF f
  <2> QED BY <1>1, <2>1, <2>2, BeforeIs
<1>4. f.t = "StatsResult" => Replies = <<f>> \o Sift(Tail(toHost), StatsReplies)
  BY <1>1, SiftTail, ToHostFields DEF Replies
<1> HIDE DEF f
<1>5. f.t \in {"Hello", "PrecompileResult", "StatsResult", "Result", "RunComplete", "BridgeCall"}
  BY <1>1, ToHostFields
<1>6. CASE f.t = "Result"
  <2>1. runs[f.id] = f.c /\ f.c \in Calls
    BY <1>0, <1>2, <1>6, FrameFinds DEF RunTypes
  <2>2. st[f.c] = "open" \/ f.again = TRUE
    BY <1>0, <1>2, <1>6 DEF HostWire, AnswerOk, RunTypes
  <2> QED BY <1>6, <1>n, <2>1, <2>2 DEF Routable, f
<1>7. CASE f.t = "RunComplete"
  <2>1. runs[f.id] = f.c /\ f.c \in Calls
    BY <1>0, <1>2, <1>7, FrameFinds DEF RunTypes
  <2>2. st[f.c] = "grace" \/ Early(f.c)
    BY <1>0, <1>2, <1>7 DEF Completes
  <2>3. ~Early(f.c)
    <3>1. ASSUME NEW g \in ToSet(toHost), g.t = "Result", g.c = f.c PROVE FALSE
      <4>1. g \in ToSet(Tail(toHost))
        BY <1>1, <1>7, <3>1
      <4>2. HPair(f, g)
        BY <1>3, <4>1
      <4> QED BY <1>7, <3>1, <4>2 DEF HPair, Final, RunTypes
    <3> QED BY <3>1 DEF Early
  <2> QED BY <1>7, <1>n, <2>1, <2>2, <2>3 DEF Routable, f
<1>8. CASE f.t = "PrecompileResult"
  <2>1. f.c \in precompiles
    BY <1>0, <1>2, <1>8 DEF HostWire, ReplyOk
  <2> QED BY <1>8, <2>1 DEF Routable, f
<1>9. CASE f.t = "StatsResult"
  <2> DEFINE r == Sift(Tail(toHost), StatsReplies)
  <2>1. r \in Seq(ToHostFrame)
    BY <1>1, SiftFacts
  <2> HIDE DEF r
  <2>2. Leads(<<f>> \o r, controls)
    BY <1>0, <1>4, <1>9, InOrderIs DEF r
  <2>3. Len(<<f>> \o r) = Len(r) + 1 /\ Len(r) \in Nat
    BY <2>1, FirstOf
  <2>4. controls \in Seq(Calls)
    BY <1>0 DEF Types
  <2>5. controls # <<>>
    <3>1. Len(controls) \in Nat /\ Len(r) + 1 <= Len(controls)
      BY <2>2, <2>3, <2>4 DEF Leads
    <3>2. Len(controls) # 0
      BY <2>3, <3>1
    <3> QED BY <3>2
  <2>6. f.c = Head(controls)
    BY <2>1, <2>2, <2>4, <2>5, Hearing
  <2> QED BY <1>9, <2>5, <2>6 DEF Routable, f
<1>10. CASE f.t \in {"Hello", "BridgeCall"}
  BY <1>10 DEF Routable, f
<1> QED BY <1>5, <1>6, <1>7, <1>8, <1>9, <1>10 DEF f

\* The invariant says that every answer finds its run.
LEMMA InvAnswers == ConnInv => AnswersFindTheirRun
<1>1. SUFFICES ASSUME ConnInv, reader # "ended", hs = "ready" PROVE AnswersFindTheirRun
  BY DEF AnswersFindTheirRun
<1>0. Types /\ HostShape /\ HostWire /\ Completes
  BY <1>1 DEF ConnInv
<1>s. toHost \in Seq(ToHostFrame)
  BY <1>0 DEF Types
<1>2. \A f \in Frames(toHost, {"Result", "RunComplete", "BridgeCall"}) : runs[f.id] = f.c
  BY <1>0, <1>1, <1>s, FramesAre, FrameFinds DEF RunTypes
<1>3. \A f \in Frames(toHost, {"Result"}) : st[f.c] = "open" \/ f.again
  <2>1. ASSUME NEW f \in Frames(toHost, {"Result"}) PROVE st[f.c] = "open" \/ f.again
    <3>1. f \in ToSet(toHost) /\ f.t = "Result"
      BY <1>s, <2>1, FramesAre
    <3>2. st[f.c] = "open" \/ f.again = TRUE
      BY <1>0, <1>1, <3>1 DEF HostWire, AnswerOk, RunTypes
    <3> QED BY <3>2
  <2> QED BY <2>1
<1>4. ASSUME NEW f \in Frames(toHost, {"RunComplete"})
      PROVE  st[f.c] = "grace" \/ \E g \in Frames(toHost, {"Result"}) : g.c = f.c /\ g.bg
  <2>1. f \in ToSet(toHost) /\ f.t = "RunComplete"
    BY <1>s, <1>4, FramesAre
  <2>2. st[f.c] = "grace" \/ Early(f.c)
    BY <1>0, <1>1, <2>1 DEF Completes
  <2>3. ASSUME NEW g \in ToSet(toHost), g.t = "Result", g.bg = TRUE, g.c = f.c
        PROVE  g \in Frames(toHost, {"Result"}) /\ g.c = f.c /\ g.bg
    BY <1>s, <2>3, FramesAre
  <2> QED BY <2>2, <2>3 DEF Early
<1> QED BY <1>1, <1>2, <1>3, <1>4, HeadRoutable DEF AnswersFindTheirRun

\* The invariant says that frames hit their own.
LEMMA InvFrames == ConnInv => FramesHitTheirOwn
<1> SUFFICES ASSUME ConnInv PROVE FramesHitTheirOwn
  OBVIOUS
<1>0. Types /\ Quiet /\ HostShape /\ ServerShape /\ ServerWire /\ Tokens /\ GraceRunsExact
  BY DEF ConnInv
<1>s. toServer \in Seq(ToServerFrame) /\ NoCall \notin Calls
  BY <1>0, ConnectionAssumptions DEF Types, ConnectionAssumptions
<1>1. ReadyIsCompatible
  BY <1>0 DEF Quiet
<1>2. NoSpuriousDuplicate
  BY <1>0, <1>s, FramesAre DEF NoSpuriousDuplicate, ServerWire, RunOk
<1>3. TerminateHitsItsOwn
  BY <1>0, <1>s, FramesAre DEF TerminateHitsItsOwn, ServerWire, TerminateOk
<1>4. ResponseHitsItsOwn
  <2>1. ASSUME NEW f \in Frames(toServer, {"BridgeResponse"}) \cup handlers, NEW c \in Calls, f.n \in waiting[c]
        PROVE  c = f.c
    <3>1. (f \in ToSet(toServer) /\ f.t = "BridgeResponse") \/ f \in handlers
      BY <1>s, <2>1, FramesAre
    <3>2. Claim(f.n, f.c)
      BY <3>1 DEF Claim
    <3>3. Claim(f.n, c)
      BY <1>0, <2>1 DEF Claim, Types
    <3> QED BY <1>0, <3>2, <3>3, TokensAre DEF Owned
  <2> QED BY <2>1 DEF ResponseHitsItsOwn
<1>5. RoutesExact
  <2>1. ASSUME demux = "serving", NEW c \in Calls, run[c] \in {"running", "posted"} PROVE \E i \in Ids : routes[i] = c
    <3>1. idOf[c] \in Ids
      BY <1>0, <2>1, BegunHasId
    <3>2. routes[idOf[c]] = c
      BY <1>0, <2>1 DEF ServerShape, Progress
    <3> QED BY <3>1, <3>2
  <2>2. ASSUME NEW c \in Calls, NEW i \in Ids, routes[i] = c PROVE run[c] \in {"running", "posted"}
    BY <1>0, <1>s, <2>2 DEF ServerShape, Routed
  <2> QED BY <2>1, <2>2 DEF RoutesExact
<1>6. TimerOnlyWhileOpen
  BY <1>0 DEF TimerOnlyWhileOpen, HostShape, Wired, Types
<1> QED BY <1>0, <1>1, <1>2, <1>3, <1>4, <1>5, <1>6, InvAnswers DEF FramesHitTheirOwn

\* The invariant says that the types are right.
LEMMA InvTypes == ConnInv => TypeOK
<1> SUFFICES ASSUME ConnInv PROVE TypeOK
  OBVIOUS
<1>1. Types /\ GraceRunsExact
  BY DEF ConnInv
<1>2. ToSet(controls) \subseteq Calls
  BY <1>1 DEF Types, ToSet
<1>3. graceRuns \in 0..Cardinality(Calls)
  <2> DEFINE G == {c \in Calls : st[c] = "grace"}
  <2>1. G \subseteq Calls /\ IsFiniteSet(Calls) /\ graceRuns = Cardinality(G)
    BY <1>1, ConnectionAssumptions DEF GraceRunsExact, ConnectionAssumptions
  <2> HIDE DEF G
  <2>2. IsFiniteSet(G) /\ Cardinality(G) <= Cardinality(Calls)
    BY <2>1, FS_Subset
  <2>3. Cardinality(G) \in Nat /\ Cardinality(Calls) \in Nat
    BY <2>1, <2>2, FS_CardinalityType
  <2> QED BY <2>1, <2>2, <2>3
<1> QED BY <1>1, <1>2, <1>3 DEF Types, TypeOK

\* The invariant holds at the start.
LEMMA InitInv == Init => ConnInv
<1> SUFFICES ASSUME Init PROVE ConnInv
  OBVIOUS
<1>n. NoCall \notin Calls /\ IsFiniteSet(Calls) /\ MaxId \in Nat \ {0} /\ MaxCallId \in Nat
  BY ConnectionAssumptions DEF ConnectionAssumptions
<1>1. toServer \in Seq(ToServerFrame) /\ toServer = <<[t |-> "Authenticate"]>> /\ Len(toServer) = 1 /\ toServer[1] = [t |-> "Authenticate"]
  BY DEF Init, ToServerFrame
<1>2. ToSet(toServer) = {[t |-> "Authenticate"]}
  BY <1>1 DEF ToSet
<1>3. toHost = <<>> /\ toHost \in Seq(ToHostFrame) /\ ToSet(toHost) = {} /\ Len(toHost) = 0
  BY EmptySeq, NoFrames DEF Init
<1>4. controls = <<>> /\ controls \in Seq(Calls) /\ ToSet(controls) = {} /\ Len(controls) = 0
  BY EmptySeq, NoFrames DEF Init
<1>5. Types
  <2>1. /\ st \in [Calls -> {"idle", "open", "grace", "done", "failed"}] /\ idOf \in [Calls -> 0..MaxId]
        /\ nextRunId \in 0..MaxId /\ graceRuns \in Int /\ lastCallId \in 0..MaxCallId
    BY <1>n DEF Init
  <2>2. /\ runs \in [Ids -> Calls \cup {NoCall}] /\ routes \in [Ids -> Calls \cup {NoCall}]
        /\ run \in [Calls -> {"none", "running", "posted", "ending", "closing", "swept", "over"}]
        /\ waiting \in [Calls -> SUBSET (1..MaxCallId)]
    BY DEF Init
  <2>3. /\ precompiles \subseteq Calls /\ written \subseteq Calls /\ fired \subseteq Calls \X Modes
        /\ listening \subseteq Calls \X Modes /\ timer \subseteq Calls /\ told \subseteq Calls
        /\ handlers \subseteq [id : Ids, c : Calls, n : 1..MaxCallId]
    BY DEF Init
  <2>4. /\ peer \in Peers /\ hs \in {"auth", "ready", "failed"} /\ sock \in {"open", "destroyed"}
        /\ reader \in {"open", "closed", "ended"} /\ disposed \in BOOLEAN /\ demux \in {"handshake", "serving", "ended"}
    BY DEF Init
  <2> QED BY <1>1, <1>3, <1>4, <2>1, <2>2, <2>3, <2>4 DEF Types
<1>6. Quiet
  BY DEF Init, Quiet, ReadyIsCompatible
<1>7. HostShape
  <2>1. IsInjective(controls)
    BY <1>4 DEF IsInjective
  <2> QED BY <1>4, <2>1 DEF Init, HostShape, CallShape, Registered, Wired, Asked, Entered
<1>8. ServerShape
  BY DEF Init, ServerShape, Routed, Progress, Going
<1>9. ServerWire
  <2>1. Ordered(toServer, SBefore)
    BY <1>1 DEF Ordered
  <2> QED BY <1>2, <2>1 DEF ServerWire, RunOk, TerminateOk, PrecompileOk
<1>10. HostWire /\ Completes
  <2>1. Ordered(toHost, HBefore)
    BY <1>3 DEF Ordered
  <2> QED BY <1>3, <2>1 DEF Init, HostWire, Completes
<1>11. RepliesInOrder
  <2>1. Replies \in Seq(ToHostFrame) /\ Len(Replies) <= 0
    BY <1>3, SiftFacts DEF Replies
  <2>2. Requests \in Seq(ToServerFrame) /\ ToSet(Requests) = {}
    <3>1. [t |-> "Authenticate"] \notin StatsRequests
      BY DEF StatsRequests
    <3>2. ToSet(Requests) = ToSet(toServer) \cap StatsRequests /\ Requests \in Seq(ToServerFrame)
      BY <1>1, SiftFacts DEF Requests
    <3> QED BY <1>2, <3>1, <3>2
  <2>3. Len(Replies) = 0 /\ Len(Requests) = 0
    <3>1. Len(Requests) \in Nat /\ Len(Replies) \in Nat
      BY <2>1, <2>2
    <3>2. 1 \notin 1..Len(Requests)
      BY <2>2 DEF ToSet
    <3> QED BY <2>1, <3>1, <3>2
  <2> QED BY <1>4, <2>3 DEF RepliesInOrder
<1>12. Tokens
  BY <1>2, <1>3 DEF Init, Tokens, Claims
<1>13. GraceRunsExact
  <2>1. {c \in Calls : st[c] = "grace"} = {}
    BY DEF Init
  <2> QED BY <2>1, FS_EmptySet DEF Init, GraceRunsExact
<1> QED BY <1>5, <1>6, <1>7, <1>8, <1>9, <1>10, <1>11, <1>12, <1>13 DEF ConnInv

\* Every step keeps the invariant.
LEMMA NextInv == ConnInv /\ [Next]_vars => ConnInv'
<1> SUFFICES ASSUME ConnInv, [Next]_vars PROVE ConnInv'
  OBVIOUS
<1>1. Steps
  BY NextDoes
<1> QED BY <1>1, TypesStep, QuietStep, HostShapeStep, ServerShapeStep, ServerWireStep, HostWireStep, CompletesStep,
           RepliesInOrderStep, TokensStep, GraceRunsStep DEF ConnInv

\* The invariant always holds.
LEMMA ConnectionInvariant == Spec => []ConnInv
  BY InitInv, NextInv, PTL DEF Spec

\* Every table, set and stream of the connection keeps its type: ids and
\* bridge call ids stay within their bounds, and both streams carry only
\* frames of the protocol (client.ts, ipc.rs).
THEOREM ConnectionTypes == Spec => []TypeOK
  BY ConnectionInvariant, InvTypes, PTL

\* In every reachable state a Terminate on its way is for its own run or for
\* nobody, every answer finds its run waiting for it, no reply or bridge
\* response reaches an other caller, the two routing tables and the grace
\* count are exact and no grace timer outlives its run (RunRouter in
\* client.ts, the session demux in ipc.rs).
THEOREM FramesHitTheirOwnCorrect == Spec => []FramesHitTheirOwn
  BY ConnectionInvariant, InvFrames, PTL
=============================================================================
