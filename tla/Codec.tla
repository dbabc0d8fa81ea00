------------------------------- MODULE Codec -------------------------------
(***************************************************************************)
(* The byte encoding both sides of the socket share by convention only:    *)
(* fixed-width big-endian numbers, length-prefixed strings and value       *)
(* blobs, optionals with a presence byte, counted lists, tagged unions.    *)
(* A payload layout is a shape; Enc writes a value in a shape and Dec      *)
(* reads one back from a byte position, as PayloadWriter (ipc.ts, wire.rs) *)
(* and PayloadReader (ipc.rs, ipc.ts) do. Which side uses which shape for  *)
(* which frame is in module Frames. Numbers stay below 2^16; every wider   *)
(* one reads as Huge. A string or a blob is a sequence of bytes that is    *)
(* never looked into, except that a byte of 128 or more is not UTF-8 here. *)
(***************************************************************************)
EXTENDS Integers, Sequences, SequencesExt, TLC

CONSTANT
    \* The deepest host-module node accepted (MAX_HOST_MODULE_DEPTH).
    MaxDepth

ASSUME DepthAssumption == MaxDepth \in Nat \ {0}

Huge == 65536

\* The shapes. A value of a Rec is the tuple of its parts' values; of an Opt
\* <<>> or <<v>>; of a List a sequence; of a Dep its head's tuple and then
\* the tail that the head's element at sel selects.
Num(w)              == [k |-> "num", w |-> w]
Byte(allowed)       == [k |-> "byte", of |-> allowed]
Bytes(utf8, most)   == [k |-> "bytes", utf8 |-> utf8, most |-> most]
Exactly(n)          == [k |-> "exact", n |-> n]
Opt(other, shape)   == [k |-> "opt", other |-> other, of |-> shape]
List(shape)         == [k |-> "list", of |-> shape]
Rec(shapes)         == [k |-> "rec", of |-> shapes]
Dep(head, sel, tails) == [k |-> "dep", head |-> head, sel |-> sel, tails |-> tails]
Key(shape)          == [k |-> "key", of |-> shape]
Node(depth)         == [k |-> "node", depth |-> depth]

U8      == Num(1)
U16     == Num(2)
U32     == Num(4)
U64     == Num(8)
F64     == Num(8)
Blob    == Bytes(FALSE, Huge)
Nothing == Rec(<<>>)

\* The layout of a host-module node whose distance from the export is depth.
NodeLayout(str, depth) ==
    Dep(<<Byte({0, 1, 2})>>, 1,
        0 :> Nothing @@ 1 :> Blob @@ 2 :> List(Rec(<<str, Node(depth + 1)>>)))

BigEndian(w, n) ==
    [i \in 1..w |-> CASE i = w -> n % 256 [] i = w - 1 -> n \div 256 [] OTHER -> 0]

FromBigEndian(bs) ==
    LET w == Len(bs) IN
    IF \E i \in 1..(w - 2) : bs[i] # 0 THEN Huge
    ELSE bs[w] + (IF w > 1 THEN 256 * bs[w - 1] ELSE 0)

RECURSIVE Enc(_, _)
Enc(s, v) ==
    CASE s.k = "num"   -> BigEndian(s.w, v)
      [] s.k = "byte"  -> <<v>>
      [] s.k \in {"bytes", "exact"} -> BigEndian(4, Len(v)) \o v
      [] s.k = "opt"   -> IF v = <<>> THEN <<0>> ELSE <<1>> \o Enc(s.of, v[1])
      [] s.k = "list"  -> BigEndian(4, Len(v)) \o FlattenSeq([i \in DOMAIN v |-> Enc(s.of, v[i])])
      [] s.k = "rec"   -> FlattenSeq([i \in DOMAIN s.of |-> Enc(s.of[i], v[i])])
      [] s.k = "dep"   -> FlattenSeq([i \in DOMAIN s.head |-> Enc(s.head[i], v[i])])
                            \o Enc(s.tails[v[s.sel]], v[Len(v)])
      [] s.k = "key"   -> v
      [] s.k = "node"  -> Enc(NodeLayout(Bytes(TRUE, Huge), s.depth), v)

Malformed == [ok |-> FALSE, v |-> 0, p |-> 0]
Read(v, p) == [ok |-> TRUE, v |-> v, p |-> p]

\* w bytes from position p, or nothing: every read checks what remains first.
Fixed(b, p, w) ==
    IF p + w > Len(b) THEN Malformed ELSE Read(FromBigEndian(SubSeq(b, p + 1, p + w)), p + w)

\* A length and that many bytes; the length must lie between least and most.
Prefixed(b, p, utf8, least, most) ==
    LET n == Fixed(b, p, 4) IN
    IF ~n.ok \/ n.v + n.p > Len(b) \/ n.v < least \/ n.v > most THEN Malformed
    ELSE LET bs == SubSeq(b, n.p + 1, n.p + n.v) IN
         IF utf8 /\ \E i \in DOMAIN bs : bs[i] >= 128 THEN Malformed
         ELSE Read(bs, n.p + n.v)

RECURSIVE Dec(_, _, _), DecAll(_, _, _)
Dec(s, b, p) ==
    CASE s.k = "num"   -> Fixed(b, p, s.w)
      [] s.k = "byte"  -> LET one == Fixed(b, p, 1) IN
                          IF one.ok /\ one.v \in s.of THEN one ELSE Malformed
      [] s.k = "bytes" -> Prefixed(b, p, s.utf8, 0, s.most)
      [] s.k = "exact" -> Prefixed(b, p, FALSE, s.n, s.n)
      [] s.k = "opt"   -> LET mark    == Fixed(b, p, 1)
                              present == mark.v = 1 \/ (mark.v > 1 /\ s.other = "present")
                              absent  == mark.v = 0 \/ (mark.v > 1 /\ s.other = "absent")
                              there   == Dec(s.of, b, mark.p)
                          IN IF mark.ok /\ absent THEN Read(<<>>, mark.p)
                             ELSE IF mark.ok /\ present /\ there.ok THEN Read(<<there.v>>, there.p)
                             ELSE Malformed
      [] s.k = "list"  -> LET n == Fixed(b, p, 4) IN
                          \* Every entry costs a byte: a count over what remains cannot be read.
                          IF ~n.ok \/ n.v > Len(b) - n.p THEN Malformed
                          ELSE DecAll([i \in 1..n.v |-> s.of], b, n.p)
      [] s.k = "rec"   -> DecAll(s.of, b, p)
      [] s.k = "dep"   -> LET h == DecAll(s.head, b, p) IN
                          IF ~h.ok \/ h.v[s.sel] \notin DOMAIN s.tails THEN Malformed
                          ELSE LET tail == Dec(s.tails[h.v[s.sel]], b, h.p) IN
                               IF tail.ok THEN Read(Append(h.v, tail.v), tail.p) ELSE Malformed
      [] s.k = "key"   -> LET inner == Dec(s.of, b, p) IN
                          IF inner.ok THEN Read(SubSeq(b, p + 1, inner.p), inner.p) ELSE Malformed
      [] s.k = "node"  -> IF s.depth > MaxDepth THEN Malformed
                          ELSE Dec(NodeLayout(Bytes(TRUE, Huge), s.depth), b, p)

DecAll(shapes, b, p) ==
    IF shapes = <<>> THEN Read(<<>>, p)
    ELSE LET one == Dec(Head(shapes), b, p) IN
         IF ~one.ok THEN Malformed
         ELSE LET rest == DecAll(Tail(shapes), b, one.p) IN
              IF rest.ok THEN Read(<<one.v>> \o rest.v, rest.p) ELSE Malformed

\* A whole payload: assert_done refuses trailing bytes where the parser ends
\* with it.
Parse(layout, b) ==
    LET r == Dec(layout.shape, b, 0) IN
    IF r.ok /\ (layout.done => r.p = Len(b)) THEN r ELSE Malformed
=============================================================================
