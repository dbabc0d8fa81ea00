------------------------------ MODULE Dialogue ------------------------------
(***************************************************************************)
(* One connection from the first byte to the last, at the level of bytes:  *)
(* the host writes frames (ipc.ts), the socket delivers them in pieces,    *)
(* the runtime reads, checks and acts on them (session.rs), and answers    *)
(* with frames of its own. Over it runs a prefix: it is declared, an       *)
(* instance is started for it, runs are dispatched on the instance, guest  *)
(* code calls what the prefix declared (bridge.rs, modules.rs, globals.rs) *)
(* and the host finds the handler for each call.                           *)
(*                                                                         *)
(* The instance has no turns of its own here: a guest call names the run   *)
(* whose turn it happens in and the run whose code makes it. Which runs    *)
(* share an instance, and when they end, are the Engine's and the          *)
(* RunLoop's matter; here every run of the prefix lands on one instance.   *)
(***************************************************************************)
EXTENDS Frames, Surface

CONSTANTS
    MaxFrame, AuthMax,     \* the two frame ceilings, in bytes
    Version,               \* PROTOCOL_VERSION
    ReadFormat,            \* the newest serialization format this V8 reads
    Globals, Imports,      \* what the prefix declares
    Orders,                \* orders in which its module graph may ask for imports
    Runs,                  \* run ids
    RunFrames,             \* by run: the globals, rebinds and limits its PrefixRun may carry
    Overrides,             \* by run: the stubs and import keys it gives handlers of its own
    UpSamples, DownSamples, Greetings,  \* messages either side may send
    EarlyGarbage, LateGarbage,  \* bytes that are no frame this session may get, by phase
    MaxCuts, MaxSamples, MaxCalls, MaxOpen  \* bounds: pieces, samples, guest calls, open runs

VARIABLES
    up,      \* host to runtime: bytes in the socket, bytes arrived, whether it ended
    down,    \* runtime to host, arrived as a queue of chunks
    owed,    \* the messages sent each way and not yet delivered
    host,    \* where the host stands, its open runs and the calls it has to answer
    rt,      \* where the session stands and the prefix it stores
    inst,    \* the instance: module cache, global object, stubs bound by each run
    job,     \* each run on the runtime's side
    saved,   \* a function reference guest code keeps across runs
    faults,  \* what has been done to the connection
    spent    \* how much of each bound is used

vars == <<up, down, owed, host, rt, inst, job, saved, faults, spent>>

PrefixId == <<112>>
NoRun    == [globals |-> <<>>, rebinds |-> <<>>, at |-> "none"]

Init ==
    /\ up = [wire |-> <<>>, buf |-> <<>>, eof |-> FALSE]
    /\ down = [wire |-> <<>>, chunks |-> <<>>, eof |-> FALSE]
    /\ owed = [up |-> <<>>, down |-> <<>>]
    /\ host = [at |-> "new", prefix |-> "none", open |-> {}, answers |-> {}]
    /\ rt = [at |-> "auth", why |-> "open", prefix |-> "none", globals |-> <<>>, imports |-> <<>>]
    /\ inst = [up |-> FALSE, modules |-> <<>>, names |-> <<>>, bound |-> [r \in Runs |-> {}]]
    /\ job = [r \in Runs |-> NoRun]
    /\ saved = <<>>
    /\ faults = {}
    /\ spent = [cuts |-> 0, samples |-> 0, calls |-> 0]

surface == <<inst, job, saved>>

----------------------------------------------------------------------------
(* The socket. *)

\* The socket's own behaviour is explored on a connection used for sampled
\* messages and on the frame that declares a prefix; later ones arrive at once.
Fragmented == host.prefix = "none" \/ up.wire # <<>>

Sent(frame) == [up EXCEPT !.wire = IF Fragmented THEN @ \o frame ELSE @,
                          !.buf  = IF Fragmented THEN @ ELSE @ \o frame]

HostWrites(name, v) ==
    /\ Len(Enc(TsWrites[name], v)) + 1 <= MaxFrame
    /\ up' = Sent(encodeFrame(name, v))
    /\ owed' = [owed EXCEPT !.up = Append(@, [n |-> name, v |-> v])]

\* Frames of one step, in order; a note travels with a bridge call for the
\* properties only.
Written(messages) ==
    LET bytes == FlattenSeq([i \in DOMAIN messages |-> write_frame(messages[i].n, messages[i].v)]) IN
    IF bytes = <<>> THEN down
    ELSE [down EXCEPT !.wire   = IF Fragmented THEN @ \o bytes ELSE @,
                      !.chunks = IF Fragmented THEN @ ELSE Append(@, bytes)]

RuntimeWrites(messages) ==
    /\ \A i \in DOMAIN messages : Len(Enc(RustWrites[messages[i].n], messages[i].v)) + 1 <= MaxFrame
    /\ down' = Written(messages)
    /\ owed' = [owed EXCEPT !.down = @ \o messages]

Says(name, v) == [n |-> name, v |-> v, note |-> <<>>]

\* How much of the bytes in the socket arrives at once: all, or, while
\* pieces are left, a part that ends inside the length prefix, after it, after the
\* type byte or one byte short.
Pieces(wire) ==
    {Len(wire)} \cup (IF spent.cuts < MaxCuts
                      THEN {k \in {1, 4, 5, Len(wire) - 1} : 0 < k /\ k < Len(wire)} ELSE {})

DeliverUp(k) ==
    /\ up.wire # <<>>
    /\ k \in Pieces(up.wire)
    /\ up' = [up EXCEPT !.buf = @ \o SubSeq(up.wire, 1, k),
                        !.wire = SubSeq(@, k + 1, Len(@))]
    /\ spent' = [spent EXCEPT !.cuts = IF k < Len(up.wire) THEN @ + 1 ELSE @]
    /\ UNCHANGED <<down, owed, host, rt, surface, faults>>

DeliverDown(k) ==
    /\ down.wire # <<>>
    /\ k \in Pieces(down.wire)
    /\ down' = [down EXCEPT !.chunks = Append(@, SubSeq(down.wire, 1, k)),
                            !.wire = SubSeq(@, k + 1, Len(@))]
    /\ spent' = [spent EXCEPT !.cuts = IF k < Len(down.wire) THEN @ + 1 ELSE @]
    /\ UNCHANGED <<up, owed, host, rt, surface, faults>>

\* The host process is gone: the tail of what it was writing never arrives.
CutUp(k) ==
    /\ host.at # "closed" /\ host.prefix = "none" /\ "cut" \notin faults
    /\ up.wire # <<>>
    /\ k \in Pieces(up.wire) \cup {0}
    /\ up' = [up EXCEPT !.wire = SubSeq(@, 1, k), !.eof = TRUE]
    /\ host' = [host EXCEPT !.at = "closed"]
    /\ faults' = faults \cup {"cut"}
    /\ UNCHANGED <<down, owed, rt, surface, spent>>

\* The runtime process is gone.
CutDown(k) ==
    /\ rt.at # "closed" /\ host.prefix = "none" /\ "cut" \notin faults
    /\ down.wire # <<>>
    /\ k \in Pieces(down.wire) \cup {0}
    /\ down' = [down EXCEPT !.wire = SubSeq(@, 1, k), !.eof = TRUE]
    /\ rt' = [rt EXCEPT !.at = "closed", !.why = "gone"]
    /\ faults' = faults \cup {"cut"}
    /\ UNCHANGED <<up, owed, host, surface, spent>>

----------------------------------------------------------------------------
(* The host. *)

HostAuthenticates(v) ==
    /\ host.at = "new"
    /\ HostWrites("Authenticate", v)
    /\ host' = [host EXCEPT !.at = "hello"]
    /\ UNCHANGED <<down, rt, surface, faults, spent>>

\* Any message of the protocol, on a connection that is not used for a prefix.
HostSends(m) ==
    /\ host.at = "live" /\ host.prefix = "none"
    /\ spent.samples < MaxSamples
    /\ HostWrites(m.n, m.v)
    /\ spent' = [spent EXCEPT !.samples = @ + 1]
    /\ UNCHANGED <<down, host, rt, surface, faults>>

\* Bytes of a peer that does not speak the protocol, before or after the
\* handshake.
PeerSendsGarbage(bytes) ==
    /\ \/ host.at = "new" /\ bytes \in EarlyGarbage
       \/ host.at = "live" /\ bytes \in LateGarbage
    /\ host.prefix = "none"
    /\ spent.samples < MaxSamples
    /\ up' = [up EXCEPT !.wire = @ \o bytes]
    /\ owed' = [owed EXCEPT !.up = Append(@, [n |-> "garbage", v |-> bytes])]
    /\ host' = [host EXCEPT !.at = IF @ = "new" THEN "hello" ELSE @]
    /\ faults' = faults \cup {"garbage"}
    /\ spent' = [spent EXCEPT !.samples = @ + 1]
    /\ UNCHANGED <<down, rt, surface>>

\* A teardown with open runs is module Connection's matter.
HostCloses ==
    /\ host.at = "live" /\ host.open = {}
    /\ up' = [Sent(encodeFrame("Close", <<>>)) EXCEPT !.eof = TRUE]
    /\ owed' = [owed EXCEPT !.up = Append(@, [n |-> "Close", v |-> <<>>])]
    /\ host' = [host EXCEPT !.at = "closed"]
    /\ faults' = faults \cup {"close"}
    /\ UNCHANGED <<down, rt, surface, spent>>

HostPrepares ==
    /\ host.at = "live" /\ host.prefix = "none" /\ spent.samples = 0
    /\ HostWrites("Precompile", <<0, <<99>>, <<>>, [i \in 1..10 |-> <<>>], Globals, Imports>>)
    /\ host' = [host EXCEPT !.prefix = "asked"]
    /\ UNCHANGED <<down, rt, surface, faults, spent>>

\* prefix.call(): the frame carries every declared stub (extractBridgeGlobals)
\* and the rebinds asked for; some frames come from a client that leaves its
\* own checks out.
HostCalls(r, f) ==
    /\ host.at = "live" /\ host.prefix = "known" /\ r \notin host.open
    /\ Cardinality(host.open) < MaxOpen
    /\ job[r].at = "none"
    /\ HostWrites("PrefixRun", <<r, PrefixId, f.limits, f.globals, f.rebinds, <<<<101>>, <<>>>>>>)
    /\ host' = [host EXCEPT !.open = @ \cup {r}]
    /\ UNCHANGED <<down, rt, surface, faults, spent>>

\* The handler a run's dispatch map holds for a bridge target: an override of
\* that run, or the one given when the prefix was declared (0).
HandlerFor(r, target) == IF target \in Overrides[r] THEN <<r, target>> ELSE <<0, target>>

\* A handler settles and its answer is written.
HostAnswers(a) ==
    /\ host.at = "live" /\ a \in host.answers
    /\ HostWrites("BridgeResponse", <<a[1], a[2], 1, <<<<a[2]>>>>>>)
    /\ host' = [host EXCEPT !.answers = @ \ {a}]
    /\ UNCHANGED <<down, rt, surface, faults, spent>>

\* What the client's reader has: a message, nothing yet, or the end.
HostArrival ==
    LET f == tryReadFrame(down.chunks, down.eof /\ down.wire = <<>>, MaxFrame) IN
    IF f.is # "frame" THEN f
    ELSE IF f.type \notin DOMAIN parseRustToTsMessageType THEN Broken
    ELSE LET name == parseRustToTsMessageType[f.type]
             r    == Parse(TsReads[name], f.payload)
         IN IF r.ok THEN [is |-> "message", n |-> name, v |-> r.v, size |-> f.size] ELSE Broken

HostReads(m) ==
    LET opened == [host EXCEPT !.at = IF m.v[1] = 0 THEN "live" ELSE "closed"] IN
    /\ host.at # "closed"
    /\ m.is = "message"
    /\ down' = [down EXCEPT !.chunks = TakeChunks(@, m.size)]
    /\ owed' = [owed EXCEPT !.down = Tail(@)]
    /\ host' = CASE m.n = "Hello"            -> opened
                 [] m.n = "PrecompileResult" -> [host EXCEPT !.prefix = "known"]
                 [] m.n = "Result"           -> [host EXCEPT !.open = @ \ {m.v[1]}]
                 [] m.n = "BridgeCall"       -> [host EXCEPT !.answers = @ \cup {<<m.v[1], m.v[2]>>}]
                 [] OTHER                    -> host
    /\ UNCHANGED <<up, rt, surface, faults, spent>>

\* The end of the socket, or bytes that make no frame, tear the client down.
HostLoses(m) ==
    /\ host.at # "closed"
    /\ m.is \in {"ended", "broken"}
    /\ host' = [host EXCEPT !.at = "closed"]
    /\ up' = [up EXCEPT !.eof = TRUE]
    /\ faults' = faults \cup {m.is}
    /\ UNCHANGED <<down, owed, rt, surface, spent>>

----------------------------------------------------------------------------
(* The session. *)

Routed == {"BridgeResponse", "StreamChunk", "StreamEnd", "StreamPull", "StreamCancel"}

\* What the session's reader has. The first frame has a ceiling of its own; a
\* type byte outside the table and a payload its parser refuses end the
\* connection, except that a frame of a run is that run's matter (stray) as
\* soon as it is long enough to hold a run id.
Arrival ==
    LET f == read_frame_with_limit(up.buf, up.eof /\ up.wire = <<>>,
                                   IF rt.at = "auth" THEN AuthMax ELSE MaxFrame) IN
    IF f.is # "frame" THEN f
    ELSE IF f.type \notin DOMAIN parse_ts_to_rust_message_type THEN Broken
    ELSE LET name == parse_ts_to_rust_message_type[f.type]
             r    == Parse(RustReads[name], f.payload)
         IN IF rt.at = "auth" /\ name # "Authenticate" THEN Broken
            ELSE IF rt.at = "live" /\ name = "Authenticate" THEN Broken
            ELSE IF r.ok THEN [is |-> "message", n |-> name, v |-> r.v, size |-> f.size]
            ELSE IF name \in Routed /\ Len(f.payload) >= 4 THEN [is |-> "stray", size |-> f.size]
            ELSE Broken

\* The limits a request carries, resolved; a one-off's cap is strict.
LimitsOf(m) ==
    CASE m.n = "Run"        -> ResourceLimits(m.v[4], "strict")
      [] m.n = "Precompile" -> ResourceLimits(m.v[4], "managed")
      [] m.n = "PrefixRun"  -> ResourceLimits(m.v[3], "managed")
      [] OTHER              -> <<>>

RuntimeTakes(m) ==
    /\ m.is = "message"
    /\ up' = [up EXCEPT !.buf = SubSeq(@, m.size + 1, Len(@))]

RuntimeEnds(why) ==
    rt' = [rt EXCEPT !.at = "closed", !.why = why]

Closing(m) ==
    /\ rt.at # "closed"
    /\ m.is \in {"ended", "broken"}
    /\ RuntimeEnds(m.is)
    /\ down' = [down EXCEPT !.eof = TRUE]
    /\ UNCHANGED <<up, owed, host, surface, faults, spent>>

CloseArrives(m) ==
    /\ rt.at = "live"
    /\ m.is = "message" /\ m.n = "Close"
    /\ RuntimeTakes(m)
    /\ RuntimeEnds("closed by host")
    /\ owed' = [owed EXCEPT !.up = Tail(@)]
    /\ down' = [down EXCEPT !.eof = TRUE]
    /\ UNCHANGED <<host, surface, faults, spent>>

\* The probe is a serialized null: its second byte is the format version.
HelloStatus(auth) ==
    IF auth[1] # Version THEN 1
    ELSE IF Len(auth[2]) < 2 \/ auth[2][2] > ReadFormat THEN 2
    ELSE 0

\* The handshake; a refusal is answered and then the connection ends.
Greet(m) ==
    LET status == HelloStatus(m.v) IN
    /\ rt.at = "auth"
    /\ m.is = "message"
    /\ RuntimeTakes(m)
    /\ down' = [down EXCEPT !.wire = @ \o write_frame("Hello", <<status, <<255, ReadFormat>>, <<>>>>),
                            !.eof = status # 0]
    /\ owed' = [up |-> Tail(owed.up), down |-> Append(owed.down, Says("Hello", <<status, <<255, ReadFormat>>, <<>>>>))]
    /\ IF status = 0 THEN rt' = [rt EXCEPT !.at = "live"] ELSE RuntimeEnds("refused")
    /\ UNCHANGED <<host, surface, faults, spent>>

\* The answer of a run, as it goes out: failures carry an error.
Failed(r) ==
    Says("Result", <<r, 0, 0, <<0, 1, <<<<69>>, <<69>>, <<>>, <<>>, <<>>, <<>>, 0, <<>>>>, <<>>, <<>>,
                                 0, 0, 0, <<>>, <<>>>>>>)
Succeeded(r) ==
    Says("Result", <<r, 0, 1, <<1, <<>>, <<>>, <<>>, <<>>, 0, 0, 0, <<>>, <<7>>, 0, 0>>>>)

\* Takes the message and answers with frames of its own.
TakeAndSay(m, messages) ==
    /\ RuntimeTakes(m)
    /\ down' = Written(messages)
    /\ owed' = [up |-> Tail(owed.up), down |-> owed.down \o messages]

Live(m, name) ==
    rt.at = "live" /\ m.is = "message" /\ m.n = name

\* Stats is answered at once; a sampled one-off run with any completion.
HandleStats(m) ==
    /\ Live(m, "Stats")
    /\ \E a \in {s \in DownSamples : s.n = "StatsResult"} : TakeAndSay(m, <<Says(a.n, a.v)>>)
    /\ UNCHANGED <<host, rt, surface, faults, spent>>

HandleRun(m) ==
    /\ Live(m, "Run")
    /\ \E a \in {s \in DownSamples : s.n # "StatsResult"} : TakeAndSay(m, <<Says(a.n, a.v)>>)
    /\ UNCHANGED <<host, rt, surface, faults, spent>>

\* Frames of a run go to the run, or nowhere when it is gone; neither a
\* Terminate nor a DisposePrefix is answered.
HandleRouted(m) ==
    /\ \E name \in Routed \cup {"Terminate"} : Live(m, name)
    /\ TakeAndSay(m, <<>>)
    /\ UNCHANGED <<host, rt, surface, faults, spent>>

\* No run of the sampled connection is open, so the frame is discarded unread.
HandleStray(m) ==
    /\ rt.at = "live" /\ m.is = "stray"
    /\ up' = [up EXCEPT !.buf = SubSeq(@, m.size + 1, Len(@))]
    /\ owed' = [owed EXCEPT !.up = Tail(@)]
    /\ UNCHANGED <<down, host, rt, surface, faults, spent>>

HandleDispose(m) ==
    /\ Live(m, "DisposePrefix")
    /\ TakeAndSay(m, <<>>)
    /\ rt' = [rt EXCEPT !.prefix = IF m.v[1] = PrefixId THEN "none" ELSE @]
    /\ UNCHANGED <<host, surface, faults, spent>>

HandlePrecompile(m) ==
    /\ Live(m, "Precompile")
    /\ TakeAndSay(m, <<Says("PrecompileResult", <<m.v[1], 1, <<1, PrefixId, 0>>>>)>>)
    /\ rt' = [rt EXCEPT !.prefix = "ready", !.globals = m.v[5], !.imports = m.v[6]]
    /\ UNCHANGED <<host, surface, faults, spent>>

\* A run of an unknown or broken prefix, or one that rebinds what the prefix
\* does not declare as a function, is refused.
HandlePrefixRun(m) ==
    LET r == m.v[1]
        allowed == /\ rt.prefix = "ready"
                   /\ validate_global_rebinds(m.v[4], rt.globals)
                   /\ validate_import_rebinds(m.v[5], rt.imports)
    IN
    /\ Live(m, "PrefixRun")
    /\ job' = [job EXCEPT ![r] =
                    IF allowed
                    THEN [globals |-> m.v[4], rebinds |-> m.v[5], at |-> "queued"]
                    ELSE [NoRun EXCEPT !.at = "refused"]]
    /\ TakeAndSay(m, IF allowed THEN <<>> ELSE <<Failed(r)>>)
    /\ UNCHANGED <<host, rt, inst, saved, faults, spent>>

----------------------------------------------------------------------------
(* The instance. *)

NameMap(names, what) == [n \in names |-> what]

\* evaluate_prefix_module: values and placeholders, then the module graph. A
\* missing import or a bridge call breaks the prefix, and every run waiting
\* for the instance fails. The prefix may keep a bridge function it saw.
ColdStart(order, calls, keeps) ==
    LET waiting == {r \in Runs : job[r].at = "queued"}
        graph == Instantiate(rt.imports, <<>>, order)
        failed == calls \/ ~graph.ok
        answers == SetToSeq(waiting)
        name == CHOOSE n \in StubNames(rt.globals) : TRUE
    IN
    /\ rt.at = "live" /\ ~inst.up /\ waiting # {}
    /\ IF failed
       THEN /\ rt' = [rt EXCEPT !.prefix = "broken"]
            /\ job' = [r \in Runs |-> IF r \in waiting THEN [job[r] EXCEPT !.at = "failed"] ELSE job[r]]
            /\ RuntimeWrites([i \in DOMAIN answers |-> Failed(answers[i])])
            /\ UNCHANGED <<inst, saved>>
       ELSE /\ inst' = [inst EXCEPT !.up = TRUE, !.modules = graph.cache,
                                    !.names = NameMap(PlaceholderNames(rt.globals, rt.imports), "placeholder")
                                              @@ NameMap(ValueGlobals(rt.globals), "value")]
            /\ saved' = IF keeps THEN <<"placeholder", name>> ELSE saved
            /\ UNCHANGED <<rt, job, down, owed>>
    /\ UNCHANGED <<up, host, faults, spent>>

\* Mutant: the live stubs go in first and the placeholders over them.
NamesClobbered(globals, declared, imports, names) ==
    NameMap(PlaceholderNames(declared, imports), "placeholder")
    @@ NameMap(RunStubNames(globals, imports), "stub") @@ names

\* The global object after a run starts: placeholders over every bridge
\* callable, then this run's stubs.
InstalledNames(globals, declared, imports, names) ==
    NameMap(RunStubNames(globals, imports), "stub")
    @@ NameMap(PlaceholderNames(declared, imports), "placeholder") @@ names

\* dispatch_job and the start turn's installs, in one stretch of the owner
\* thread.
Dispatch(r) ==
    /\ rt.at = "live" /\ inst.up /\ job[r].at = "queued"
    /\ inst' = [inst EXCEPT !.names = InstalledNames(job[r].globals, rt.globals, rt.imports, @),
                            !.bound[r] = RunStubNames(job[r].globals, rt.imports)]
    /\ job' = [job EXCEPT ![r].at = "live"]
    /\ UNCHANGED <<up, down, owed, host, rt, saved, faults, spent>>

\* Guest code keeps the function it finds under a name.
GuestSaves(r, name) ==
    /\ rt.at = "live" /\ job[r].at = "live" /\ saved = <<>>
    /\ saved' = <<inst.names[name], name>>
    /\ UNCHANGED <<up, down, owed, host, rt, inst, job, faults, spent>>

\* Mutant: a call belongs to the run whose turn it happens in.
AttributedToOwner(by, owner) == owner

\* attributed_state: the run whose code calls, while it lives; a continuation
\* of a finished run counts as the turn owner's.
attributed_state(by, owner) == IF job[by].at = "live" THEN by ELSE owner

\* What guest code can call: a bridge global or a shim's handler by its stub,
\* a function leaf of an imported host module, a kept function.
Callables ==
    {[k |-> "stub", name |-> n] : n \in StubNames(rt.globals)}
    \cup {[k |-> "leaf", name |-> s, path |-> p] :
            s \in DOMAIN inst.modules, p \in UNION {DOMAIN inst.modules[t] : t \in DOMAIN inst.modules}}
    \cup {[k |-> "kept", name |-> saved[2]] : x \in {1} \cap {Len(saved) - 1}}

Callable(c) == c.k = "leaf" => c.path \in DOMAIN inst.modules[c.name]

\* bridge_global_callback's way from the function called to the frame: a
\* placeholder throws, a run that did not bind the name throws, and a handle
\* is looked up in the calling run's table.
Target(c, by, owner) ==
    LET who == attributed_state(by, owner)
        stub == IF c.k = "leaf" THEN Dispatcher ELSE c.name
        what == IF c.k = "kept" THEN saved[1] ELSE inst.names[stub]
        handles == collect_import_handles(rt.imports)
        entry == handles[inst.modules[c.name][c.path] + 1]
    IN IF what = "placeholder" \/ stub \notin inst.bound[who] THEN <<>>
       ELSE IF c.k = "leaf" THEN <<who, 1, <<1, entry[1], entry[2], <<>>>>>>
       ELSE <<who, 0, <<0, stub, <<>>>>>>

GuestCalls(owner, by, c) ==
    LET t == Target(c, by, owner) IN
    /\ rt.at = "live" /\ spent.calls < MaxCalls
    /\ job[owner].at = "live" /\ job[by].at \in {"live", "done"}
    /\ Callable(c)
    /\ spent' = [spent EXCEPT !.calls = @ + 1]
    /\ IF t = <<>>
       THEN UNCHANGED <<down, owed>>
       ELSE RuntimeWrites(<<[n |-> "BridgeCall", v |-> <<t[1], spent.calls + 1, t[2], t[3]>>,
                             note |-> [whose |-> IF job[by].at = "live" THEN by ELSE owner, c |-> c]]>>)
    /\ UNCHANGED <<up, host, rt, surface, faults>>

\* conclude_run: the entry leaves the table with its stubs, and the answer
\* goes out.
EndRun(r) ==
    /\ rt.at = "live" /\ job[r].at = "live"
    /\ job' = [job EXCEPT ![r].at = "done"]
    /\ inst' = [inst EXCEPT !.bound[r] = {}]
    /\ RuntimeWrites(<<Succeeded(r)>>)
    /\ UNCHANGED <<up, host, rt, saved, faults, spent>>

----------------------------------------------------------------------------

Next ==
    \/ \E k \in Pieces(up.wire) \cup {0} : DeliverUp(k) \/ CutUp(k)
    \/ \E k \in Pieces(down.wire) \cup {0} : DeliverDown(k) \/ CutDown(k)
    \/ \E v \in Greetings : HostAuthenticates(v)
    \/ \E m \in UpSamples : HostSends(m)
    \/ \E bytes \in EarlyGarbage \cup LateGarbage : PeerSendsGarbage(bytes)
    \/ HostCloses
    \/ HostPrepares
    \/ \E r \in Runs : \E f \in RunFrames[r] : HostCalls(r, f)
    \/ \E a \in host.answers : HostAnswers(a)
    \/ \E m \in {HostArrival} : HostReads(m) \/ HostLoses(m)
    \/ \E m \in {Arrival} :
        \/ Closing(m)
        \/ CloseArrives(m)
        \/ Greet(m)
        \/ HandleStats(m)
        \/ HandleRun(m)
        \/ HandleRouted(m)
        \/ HandleStray(m)
        \/ HandleDispose(m)
        \/ HandlePrecompile(m)
        \/ HandlePrefixRun(m)
    \/ \E order \in Orders, calls, keeps \in BOOLEAN : ColdStart(order, calls, keeps)
    \/ \E r \in Runs : Dispatch(r)
    \/ \E r \in Runs, name \in StubNames(rt.globals) : GuestSaves(r, name)
    \/ \E owner, by \in Runs, c \in Callables : GuestCalls(owner, by, c)
    \/ \E r \in Runs : EndRun(r)

Spec == Init /\ [][Next]_vars

----------------------------------------------------------------------------
(* Properties. *)

TypeOK ==
    /\ host.at \in {"new", "hello", "live", "closed"}
    /\ host.open \subseteq Runs
    /\ rt.at \in {"auth", "live", "closed"}
    /\ rt.prefix \in {"none", "ready", "broken"}
    /\ \A r \in Runs : job[r].at \in {"none", "queued", "refused", "failed", "live", "done"}

\* A bridge call's import target reaches the host as the key of its dispatch map.
Meaning(m) ==
    IF m.n = "BridgeCall" /\ m.v[3] = 1
    THEN [m.v EXCEPT ![4] = <<1, encodeImportKey(@[2], @[3]), @[4]>>]
    ELSE m.v

\* What the request asked for is what is enforced: explicit values stay, zero
\* switches a limit off, a one-off has no soft line, and the line that retires
\* an instance is below the one that kills the run.
LimitsKept(asked, got, oneOff) ==
    /\ \A i \in 2..9 : asked[i] # <<>> => got[i + 1] = asked[i][1]
    /\ asked[10] # <<>> => got[2] = asked[10][1]
    /\ asked[10] = <<>> /\ asked[1] # <<>> => asked[1][1] \in {got[1], got[2]}
    /\ oneOff => got[1] = 0
    /\ got[1] # 0 => got[1] < got[2]

(***************************************************************************)
(* The two sides mean the same by the same bytes (ipc.ts against ipc.rs    *)
(* and wire.rs): every message delivered is the oldest one sent and not    *)
(* yet delivered, with the fields that were sent and the limits that were  *)
(* asked for, however the socket cuts the bytes; garbage, a frame over its *)
(* ceiling or a frame cut short by a dying peer delivers nothing; and a    *)
(* side drops the connection as broken only when the peer spoke garbage or *)
(* died mid-frame.                                                         *)
(***************************************************************************)
WireExact ==
    /\ \A got \in {Arrival} : rt.at # "closed" /\ got.is = "message" =>
        LET sent == Head(owed.up) IN
        /\ got.n = sent.n
        /\ got.v = sent.v
        /\ got.n \in {"Run", "Precompile"} => LimitsKept(sent.v[4], LimitsOf(got), got.n = "Run")
        /\ got.n = "PrefixRun" => LimitsKept(sent.v[3], LimitsOf(got), FALSE)
    /\ \A got \in {HostArrival} : host.at # "closed" /\ got.is = "message" =>
        LET sent == Head(owed.down) IN
        got.n = sent.n /\ got.v = Meaning(sent)
    /\ rt.at # "closed" /\ up.wire = <<>> /\ up.buf = <<>> /\ ~up.eof => owed.up = <<>>
    /\ host.at # "closed" /\ down.wire = <<>> /\ FlattenSeq(down.chunks) = <<>> /\ ~down.eof
        => owed.down = <<>>
    /\ rt.why = "broken" => faults \cap {"cut", "garbage"} # {}
    /\ "broken" \notin faults

(***************************************************************************)
(* A bridge call that reaches a handler reaches the one the calling run    *)
(* gave for the very function guest code called: through the trampoline's  *)
(* handle id, the dispatcher, the run's own table, the frame and the       *)
(* host's dispatch map, with several runs on the instance, code of one run *)
(* running in another's turn and functions kept across runs. Code of a     *)
(* finished run speaks for the run whose turn it runs in (runtable.rs,     *)
(* attributed_token_and_state).                                            *)
(***************************************************************************)
CallsReachTheirHandler ==
    \A m \in {HostArrival} : host.at = "live" /\ m.is = "message" /\ m.n = "BridgeCall" =>
        LET note == Head(owed.down).note
            c == note.c
            target == IF c.k = "leaf" THEN encodeImportKey(c.name, c.path) ELSE c.name
        IN /\ m.v[1] = note.whose
           /\ m.v[1] \in host.open => HandlerFor(m.v[1], m.v[4][2]) = HandlerFor(note.whose, target)

Dispatched == {r \in Runs : job[r].at \in {"live", "done"}}

(***************************************************************************)
(* What a prefix declares stays there for every run on its instance:       *)
(* whatever starts or ends around it, a live run's stubs are on the global *)
(* object and bound for it (unless a run of a client that leaves a         *)
(* declared stub out has started since), value globals are never replaced, *)
(* every function leaf has the handle the dispatcher's table has for it,   *)
(* and no accepted run has rebound anything but a declared function.       *)
(***************************************************************************)
SurfaceHolds ==
    /\ \A r \in Runs : job[r].at = "live" =>
        \A n \in RunStubNames(job[r].globals, Imports) :
            (\A q \in Dispatched : n \in RunStubNames(job[q].globals, Imports)) =>
                inst.names[n] = "stub" /\ n \in inst.bound[r]
    /\ inst.up => \A n \in ValueGlobals(Globals) : inst.names[n] = "value"
    /\ \A s \in DOMAIN inst.modules : \A p \in DOMAIN inst.modules[s] :
        collect_import_handles(Imports)[inst.modules[s][p] + 1] = <<s, p>>
    /\ \A r \in Runs : job[r].at \in {"queued", "live", "done"} =>
        /\ StubNames(job[r].globals) \subseteq StubNames(Globals)
        /\ \A i \in DOMAIN job[r].rebinds :
            job[r].rebinds[i] \in {collect_import_handles(Imports)[j] :
                                     j \in DOMAIN collect_import_handles(Imports)}
=============================================================================
