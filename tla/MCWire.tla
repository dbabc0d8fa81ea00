------------------------------- MODULE MCWire -------------------------------
(* A prefix with a bridge global g, a data global d, a shim h (handler H), a *)
(* string global e, host modules a = {x(), o: {y, z()}} and b = {x(), k} and *)
(* a source module s; names are one-byte strings.                            *)
EXTENDS Dialogue

g == <<103>>
d == <<100>>
h == <<104>>
e == <<101>>
H == <<72>>
a == <<97>>
b == <<98>>
src == <<115>>
async == <<110>>
x == <<120>>
o == <<111>>
y == <<121>>
z == <<122>>
k == <<107>>

MCDispatcher == <<95>>
MCBuiltIns == {async}
Fn == <<0, <<>>>>

MCGlobals ==
    <<<<0, g, 1, <<>>>>, <<2, d, 1, <<5>>>>, <<3, h, 0, <<<<1>>, H>>>>, <<1, e, 1, <<49>>>>>>

MCImports ==
    <<<<a, 1, <<<<x, Fn>>, <<o, <<2, <<<<y, <<1, <<5>>>>>>, <<z, Fn>>>>>>>>>>>>,
      <<src, 0, <<59>>>>,
      <<b, 1, <<<<x, Fn>>, <<k, <<1, <<6>>>>>>>>>>>>

MCOrders ==
    {<<b, async, a, src, b>>, <<a, <<113>>>>}

Absent == [i \in 1..10 |-> <<>>]
Asked  == [i \in 1..10 |-> CASE i = 1 -> <<64>> [] i = 2 -> <<0>> [] i = 9 -> <<7>> [] i = 10 -> <<32>>
                             [] OTHER -> <<>>]
Raised == [i \in 1..10 |-> CASE i = 1 -> <<64>> [] i = 10 -> <<80>> [] OTHER -> <<>>]

Stub(name) == <<0, name, 1, <<>>>>
AllStubs == <<Stub(g), Stub(H)>>
Carries(globals, rebinds, limits) == [globals |-> globals, rebinds |-> rebinds, limits |-> limits]

MCRunFrames ==
    <<{Carries(AllStubs, <<>>, Absent)},
      {Carries(AllStubs, <<<<a, <<o, z>>>>>>, Raised)},
      {Carries(<<Stub(g)>>, <<>>, Asked),
       Carries(<<Stub(d)>>, <<>>, Absent), Carries(<<<<2, g, 1, <<5>>>>>>, <<>>, Absent),
       Carries(AllStubs, <<<<a, <<o>>>>>>, Absent), Carries(AllStubs, <<<<a, <<o, y>>>>>>, Absent),
       Carries(AllStubs, <<<<src, <<x>>>>>>, Absent), Carries(AllStubs, <<<<a, <<x, z>>>>>>, Absent),
       Carries(AllStubs, <<<<b, <<>>>>>>, Absent), Carries(AllStubs, <<<<k, <<x>>>>>>, Absent)}>>

MCOverrides == <<{}, {g, encodeImportKey(a, <<o, z>>)}, {g}>>

Token == <<1, 2>>
MCGreetings ==
    {<<1, <<255, 15>>, Token>>, <<2, <<255, 15>>, Token>>, <<1, <<255, 16>>, Token>>, <<1, <<>>, Token>>}

Up(n, v) == [n |-> n, v |-> v]
Deep == <<2, <<<<x, <<2, <<<<y, Fn>>>>>>>>>>>>
MCUpSamples ==
    {Up("Run", <<7, <<99>>, <<<<102>>>>, Asked, MCGlobals, MCImports, <<<<<<101>>, <<1>>>>>>>>),
     Up("Run", <<8, <<>>, <<>>, Absent, <<>>, <<<<a, 1, <<<<o, Deep>>>>>>>>, <<>>>>),
     Up("DisposePrefix", <<PrefixId>>), Up("Terminate", <<7, 1>>), Up("Stats", <<>>),
     Up("BridgeResponse", <<7, 3, 0, <<<<1>>, <<2>>, <<3>>, <<>>, <<<<200, 4>>>>>>>>),
     Up("StreamChunk", <<7, 2, <<200, 0>>>>), Up("StreamEnd", <<7, 2, 0, <<<<1>>>>>>),
     Up("StreamEnd", <<7, 2, 1, <<>>>>), Up("StreamPull", <<7, 2, 300>>),
     Up("StreamCancel", <<7, 2, <<1>>>>)}

Record(outcome) == <<<<103>>, 1, 2, 3, 4, 5, outcome>>
Error(reset, cause) == <<<<1>>, <<2>>, <<3>>, <<<<4>>>>, <<<<200>>>>, reset, 1, cause>>
MCDownSamples ==
    {Up("Result", <<7, 3, 1, <<1, <<9>>, <<<<1>>>>, <<<<2>>>>, <<>>, 1, 2, 3, <<Record(3), Record(0)>>,
                               <<5>>, 3, 0>>>>),
     Up("Result", <<7, 3, 0, <<0, 1, Error(<<<<5, 9>>>>, <<<<<<1>>, <<2>>, <<3>>, <<>>>>>>), <<<<2>>>>,
                               <<<<3>>>>, 1, 2, 3, <<>>, <<>>>>>>),
     Up("PrecompileResult", <<1, 0, <<0, 1, Error(<<>>, <<>>)>>>>),
     Up("StatsResult", <<1, 2, 3, 4, 5, 6, 7, 8, 9, 1, <<<<PrefixId, 1, 2>>>>>>),
     Up("RunComplete", <<7, 2, 1, 2, 3, <<<<2>>>>, <<>>, <<Record(2)>>, <<<<<<1>>, <<2>>>>>>>>),
     Up("StreamPull", <<7, 2, 300>>), Up("StreamCancel", <<7, 2, <<1>>>>),
     Up("StreamChunk", <<7, 2, <<200, 0>>>>), Up("StreamEnd", <<7, 2, 0, <<<<1>>>>>>),
     Up("StreamEnd", <<7, 2, 1, <<>>>>)}

Enveloped(type, payload) == BigEndian(4, Len(payload) + 1) \o <<type>> \o payload
MCEarlyGarbage ==
    {<<0, 0, 0, 0>>, encodeFrame("Stats", <<>>),
     encodeFrame("Authenticate", <<1, [i \in 1..40 |-> 15], Token>>),
     encodeFrame("Authenticate", <<1, <<255, 15>>, <<1>>>>)}
MCLateGarbage ==
    {<<0, 0, 0, 0>>, Enveloped(99, <<>>), Enveloped(4, <<1>>),
     Enveloped(5, BigEndian(4, 1) \o <<112, 0>>), Enveloped(5, BigEndian(4, 2) \o <<112>>),
     Enveloped(5, BigEndian(4, 1) \o <<200>>), Enveloped(7, BigEndian(4, 7) \o <<2>>),
     Enveloped(9, BigEndian(4, 7) \o <<1>>), Enveloped(10, <<0, 0, 7>>),
     Enveloped(5, BigEndian(4, 500) \o [i \in 1..500 |-> 112]),
     encodeFrame("Authenticate", <<1, <<255, 15>>, Token>>),
     encodeFrame("Run", <<8, <<>>, <<>>, Absent, <<>>, <<<<a, 1, <<<<o, <<2, <<<<o, Deep>>>>>>>>>>>>>>, <<>>>>)}
=============================================================================
