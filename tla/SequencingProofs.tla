-------------------------- MODULE SequencingProofs --------------------------
(***************************************************************************)
(* Lemmas about sequences that the proofs about the components share: the  *)
(* filter, the sum and the concatenation of Sequencing, sequences without  *)
(* repetition, tails and beginnings, sequences in an order, the least and  *)
(* the greatest of two numbers.                                            *)
(*                                                                         *)
(* Induction goes through Least: a set of numbers that misses one of       *)
(* 0..n has a least one that it misses, which the step case contradicts    *)
(* (UpTo).  The recursive functions are first shown to exist, then         *)
(* unfolded one index at a time.                                           *)
(***************************************************************************)
EXTENDS Integers, Sequencing, SequencesExt, FiniteSetTheorems, WellFoundedInduction,
        SequenceTheorems, TLAPS

\* A set of numbers that is not empty has a least one.
LEMMA Least ==
  ASSUME NEW T \in SUBSET Nat, T # {}
  PROVE  \E m \in T : \A k \in T : m <= k
<1>1. PICK m \in T : \A k \in T : ~ (<<k, m>> \in OpToRel(<, Nat))
  BY NatLessThanWellFounded, WFMin
<1>2. \A k \in T : ~(k < m)
  BY <1>1 DEF OpToRel
<1> QED BY <1>2

\* Induction up to n: a set that holds 0 and, with each number below n, the
\* next one, holds all of 0..n.
LEMMA UpTo ==
  ASSUME NEW n \in Nat, NEW T, 0 \in T, \A i \in 1..n : i - 1 \in T => i \in T
  PROVE  \A i \in 0..n : i \in T
<1> DEFINE Bad == {i \in 0..n : i \notin T}
<1>1. SUFFICES ASSUME Bad # {} PROVE FALSE
  OBVIOUS
<1>2. Bad \in SUBSET Nat
  OBVIOUS
<1>3. PICK m \in Bad : \A k \in Bad : m <= k
  <2> HIDE DEF Bad
  <2> QED BY <1>1, <1>2, Least
<1>4. m # 0 /\ m - 1 \in 0..n /\ m \in 1..n
  OBVIOUS
<1>5. m - 1 \in T
  BY <1>3, <1>4
<1> QED BY <1>4, <1>5

\* Concatenation, under a name that the provers do not look into.
Cat(a, b) == a \o b

\* It is associative.
LEMMA CatAssoc ==
  ASSUME NEW A, NEW a \in Seq(A), NEW b \in Seq(A), NEW c \in Seq(A)
  PROVE  Cat(Cat(a, b), c) = Cat(a, Cat(b, c))
<1>1. (a \o b) \o c = a \o (b \o c)
  BY ConcatAssociative
<1> QED BY <1>1 DEF Cat

\* g is the recursive function of Sift, up to n.
LeftStep(s, S, g, n) ==
  g = [i \in 0..n |-> IF i = 0 THEN <<>>
        ELSE IF s[i] \in S THEN Append(g[i - 1], s[i]) ELSE g[i - 1]]

\* There is one.
LEMMA LeftExists ==
  ASSUME NEW s, NEW S, NEW n \in Nat
  PROVE  \E g : LeftStep(s, S, g, n)
<1> DEFINE T == {i \in 0..n : \E g : LeftStep(s, S, g, i)}
<1>1. 0 \in T
  <2>1. LeftStep(s, S, [i \in 0..0 |-> <<>>], 0)
    BY DEF LeftStep
  <2> QED BY <2>1
<1>2. ASSUME NEW i \in 1..n, i - 1 \in T
      PROVE  i \in T
  <2>1. PICK g : LeftStep(s, S, g, i - 1)
    BY <1>2
  <2> DEFINE h == [j \in 0..i |-> IF j = i THEN (IF s[i] \in S THEN Append(g[i - 1], s[i]) ELSE g[i - 1]) ELSE g[j]]
  <2>2. \A j \in 0..i : j # 0 => j - 1 \in 0..(i - 1)
    OBVIOUS
  <2>3. \A j \in 0..(i-1) : g[j] = IF j = 0 THEN <<>>
        ELSE IF s[j] \in S THEN Append(g[j - 1], s[j]) ELSE g[j - 1]
    BY <2>1 DEF LeftStep
  <2>4. \A j \in 0..(i-1) : h[j] = g[j]
    OBVIOUS
  <2>5. \A j \in 0..i : h[j] = IF j = 0 THEN <<>>
        ELSE IF s[j] \in S THEN Append(h[j - 1], s[j]) ELSE h[j - 1]
    BY <2>2, <2>3, <2>4
  <2>6. LeftStep(s, S, h, i)
    BY <2>5 DEF LeftStep
  <2> QED BY <2>6
<1>3. \A i \in 0..n : i \in T
  <2> HIDE DEF T
  <2> QED BY <1>1, <1>2, UpTo
<1> QED BY <1>3

\* Sift is its last value.
LEMMA SiftLeft ==
  ASSUME NEW A, NEW s \in Seq(A), NEW S
  PROVE  \E g : LeftStep(s, S, g, Len(s)) /\ Sift(s, S) = g[Len(s)]
<1> DEFINE g == CHOOSE f : LeftStep(s, S, f, Len(s))
<1>1. LeftStep(s, S, g, Len(s))
  BY LeftExists
<1>2. Sift(s, S) = g[Len(s)]
  BY DEF Sift, LeftStep
<1> QED BY <1>1, <1>2

\* What sifting leaves: the elements in S, each where it was or further to
\* the front; nothing twice that was not there twice.
LEMMA SiftFacts ==
  ASSUME NEW A, NEW s \in Seq(A), NEW S
  PROVE  /\ Sift(s, S) \in Seq(A)
         /\ Len(Sift(s, S)) <= Len(s)
         /\ ToSet(Sift(s, S)) = ToSet(s) \cap S
         /\ IsInjective(s) => IsInjective(Sift(s, S))
<1>1. PICK g : LeftStep(s, S, g, Len(s)) /\ Sift(s, S) = g[Len(s)]
  BY SiftLeft
<1> DEFINE n == Len(s)
           Good(q, i) == /\ q \in Seq(A) /\ Len(q) <= i
                         /\ \A j \in 1..Len(q) : q[j] \in S /\ \E h \in 1..i : q[j] = s[h]
                         /\ \A h \in 1..i : s[h] \in S => \E j \in 1..Len(q) : q[j] = s[h]
                         /\ IsInjective(s) => \A j, k \in 1..Len(q) : q[j] = q[k] => j = k
           T == {i \in 0..n : Good(g[i], i)}
<1>2. n \in Nat /\ DOMAIN s = 1..n /\ \A i \in 1..n : s[i] \in A
  OBVIOUS
<1>3. g[0] = <<>> /\ \A i \in 1..n : g[i] = IF s[i] \in S THEN Append(g[i - 1], s[i]) ELSE g[i - 1]
  <2>1. g = [i \in 0..n |-> IF i = 0 THEN <<>>
               ELSE IF s[i] \in S THEN Append(g[i - 1], s[i]) ELSE g[i - 1]]
    BY <1>1 DEF LeftStep
  <2>2. 0 \in 0..n /\ \A i \in 1..n : i \in 0..n /\ i # 0
    BY <1>2
  <2> HIDE DEF n
  <2>3. \A i \in 0..n : g[i] = IF i = 0 THEN <<>>
               ELSE IF s[i] \in S THEN Append(g[i - 1], s[i]) ELSE g[i - 1]
    BY <2>1
  <2> QED BY <2>2, <2>3
<1>4. 0 \in T
  <2>1. Good(<<>>, 0)
    OBVIOUS
  <2>2. 0 \in 0..n
    BY <1>2
  <2> HIDE DEF Good, n
  <2> QED BY <2>1, <2>2, <1>3
<1>5. ASSUME NEW i \in 1..n, i - 1 \in T
      PROVE  i \in T
  <2> DEFINE p == g[i - 1]
  <2>1. Good(p, i - 1) /\ i \in 0..n /\ s[i] \in A
    BY <1>2, <1>5
  <2>2. CASE s[i] \notin S
    <3>1. g[i] = p
      BY <1>3, <2>2
    <3>2. \A h \in 1..i : h = i \/ h \in 1..(i - 1)
      OBVIOUS
    <3>3. Good(p, i)
      <4> HIDE DEF p
      <4> QED BY <2>1, <2>2, <3>2
    <3>4. i \in 0..n
      BY <2>1
    <3> HIDE DEF Good, n, p
    <3> QED BY <3>1, <3>3, <3>4
  <2>3. CASE s[i] \in S
    <3> DEFINE q == Append(p, s[i])
    <3>1. g[i] = q
      BY <1>3, <2>3
    <3>2. /\ q \in Seq(A) /\ Len(q) = Len(p) + 1 /\ q[Len(p) + 1] = s[i] /\ Len(p) \in Nat
          /\ \A j \in 1..Len(p) : q[j] = p[j]
      <4> HIDE DEF p
      <4> QED BY <2>1, AppendProperties
    <3> HIDE DEF q, p
    <3>3. \A j \in 1..Len(q) : j = Len(p) + 1 \/ j \in 1..Len(p)
      BY <3>2
    <3>4. ASSUME NEW j \in 1..Len(q)
          PROVE  q[j] \in S /\ \E h \in 1..i : q[j] = s[h]
      <4>1. CASE j = Len(p) + 1
        <5>1. i \in 1..i
          OBVIOUS
        <5> QED BY <2>3, <3>2, <4>1, <5>1
      <4>2. CASE j \in 1..Len(p)
        <5>1. PICK h \in 1..(i - 1) : p[j] = s[h]
          BY <2>1, <4>2
        <5>2. h \in 1..i
          OBVIOUS
        <5>3. q[j] = s[h]
          BY <3>2, <4>2, <5>1
        <5> QED BY <2>1, <3>2, <4>2, <5>2, <5>3
      <4> QED BY <3>3, <4>1, <4>2
    <3>5. ASSUME NEW h \in 1..i, s[h] \in S
          PROVE  \E j \in 1..Len(q) : q[j] = s[h]
      <4>1. CASE h = i
        BY <4>1, <3>2
      <4>2. CASE h # i
        <5>1. h \in 1..(i - 1)
          BY <4>2
        <5>2. PICK j \in 1..Len(p) : p[j] = s[h]
          BY <5>1, <3>5, <2>1
        <5>3. j \in 1..Len(q)
          BY <3>2
        <5> QED BY <5>2, <5>3, <3>2
      <4> QED BY <4>1, <4>2
    <3>6. ASSUME IsInjective(s), NEW j \in 1..Len(q), NEW k \in 1..Len(q), q[j] = q[k]
          PROVE  j = k
      <4>1. \A b \in 1..Len(p) : p[b] # s[i]
        <5> SUFFICES ASSUME NEW b \in 1..Len(p), p[b] = s[i] PROVE FALSE
          OBVIOUS
        <5>1. PICK h \in 1..(i - 1) : p[b] = s[h]
          BY <2>1
        <5>2. h \in DOMAIN s /\ i \in DOMAIN s /\ h # i
          BY <1>2
        <5> QED BY <5>1, <5>2, <3>6 DEF IsInjective
      <4> QED BY <4>1, <3>2, <3>3, <3>6, <2>1
    <3>7. Good(q, i)
      BY <2>1, <3>2, <3>4, <3>5, <3>6
    <3>8. i \in 0..n
      BY <2>1
    <3> HIDE DEF Good, n
    <3> QED BY <3>1, <3>7, <3>8
  <2> QED BY <2>2, <2>3
<1>6. n \in T
  <2> HIDE DEF T, n
  <2>1. \A i \in 0..n : i \in T
    BY <1>2, <1>4, <1>5, UpTo
  <2> QED BY <2>1, <1>2
<1>7. Good(Sift(s, S), n)
  BY <1>1, <1>6
<1> DEFINE r == Sift(s, S)
<1>8. DOMAIN r = 1..Len(r)
  BY <1>7
<1> HIDE DEF r, n
<1>9. r \in Seq(A) /\ Len(r) <= n
  BY <1>7 DEF r
<1>10. ToSet(r) = ToSet(s) \cap S
  <2>1. ASSUME NEW x \in ToSet(r) PROVE x \in ToSet(s) \cap S
    <3>1. PICK j \in 1..Len(r) : x = r[j]
      BY <1>8 DEF ToSet
    <3>2. PICK h \in 1..n : r[j] = s[h]
      BY <1>7 DEF r
    <3>3. r[j] \in S
      BY <1>7 DEF r
    <3>4. s[h] \in ToSet(s)
      BY <1>2 DEF ToSet
    <3> QED BY <3>1, <3>2, <3>3, <3>4
  <2>2. ASSUME NEW x \in ToSet(s) \cap S PROVE x \in ToSet(r)
    <3>1. PICK h \in 1..n : x = s[h]
      BY <1>2 DEF ToSet
    <3>2. PICK j \in 1..Len(r) : r[j] = s[h]
      BY <1>7, <3>1 DEF r
    <3> QED BY <1>8, <3>1, <3>2 DEF ToSet
  <2> QED BY <2>1, <2>2
<1>11. IsInjective(s) => IsInjective(r)
  BY <1>7, <1>8 DEF IsInjective, r
<1> QED BY <1>9, <1>10, <1>11 DEF r, n

\* Sifting goes from the front: one element more is looked at last.
LEMMA SiftAppend ==
  ASSUME NEW A, NEW s \in Seq(A), NEW e \in A, NEW S
  PROVE  Sift(Append(s, e), S) = IF e \in S THEN Append(Sift(s, S), e) ELSE Sift(s, S)
<1> DEFINE t == Append(s, e)
           n == Len(s)
<1>1. PICK g : LeftStep(s, S, g, n) /\ Sift(s, S) = g[n]
  BY SiftLeft
<1>2. PICK h : LeftStep(t, S, h, Len(t)) /\ Sift(t, S) = h[Len(t)]
  BY SiftLeft, AppendProperties
<1>3. /\ n \in Nat /\ Len(t) = n + 1 /\ t[n + 1] = e
      /\ \A i \in 1..n : t[i] = s[i]
  BY AppendProperties
<1> HIDE DEF n, t
<1>4. \A i \in 0..n : g[i] = IF i = 0 THEN <<>>
               ELSE IF s[i] \in S THEN Append(g[i - 1], s[i]) ELSE g[i - 1]
  BY <1>1 DEF LeftStep
<1>5. \A i \in 0..(n + 1) : h[i] = IF i = 0 THEN <<>>
               ELSE IF t[i] \in S THEN Append(h[i - 1], t[i]) ELSE h[i - 1]
  BY <1>2, <1>3 DEF LeftStep
<1> DEFINE T == {i \in 0..n : g[i] = h[i]}
<1>6. 0 \in T
  BY <1>3, <1>4, <1>5
<1>7. ASSUME NEW i \in 1..n, i - 1 \in T PROVE i \in T
  <2>1. i \in 0..n /\ i \in 0..(n + 1) /\ i # 0
    BY <1>3
  <2>2. g[i - 1] = h[i - 1]
    BY <1>7
  <2>3. g[i] = h[i]
    BY <2>1, <2>2, <1>3, <1>4, <1>5
  <2> QED BY <2>1, <2>3
<1>8. n \in T
  <2> HIDE DEF T
  <2>1. \A i \in 0..n : i \in T
    BY <1>3, <1>6, <1>7, UpTo
  <2> QED BY <1>3, <2>1
<1>9. g[n] = h[n]
  BY <1>8
<1>10. h[n + 1] = IF t[n + 1] \in S THEN Append(h[n], t[n + 1]) ELSE h[n]
  <2>1. n + 1 \in 0..(n + 1) /\ n + 1 # 0 /\ (n + 1) - 1 = n
    BY <1>3
  <2> QED BY <1>5, <2>1
<1> QED BY <1>1, <1>2, <1>3, <1>9, <1>10 DEF t, n

\* Sifting by two sets that agree on the elements leaves the same.
LEMMA SiftSame ==
  ASSUME NEW A, NEW s \in Seq(A), NEW S, NEW T, \A i \in 1..Len(s) : s[i] \in S <=> s[i] \in T
  PROVE  Sift(s, S) = Sift(s, T)
<1> DEFINE n == Len(s)
<1>1. PICK g : LeftStep(s, S, g, n) /\ Sift(s, S) = g[n]
  BY SiftLeft
<1>2. PICK h : LeftStep(s, T, h, n) /\ Sift(s, T) = h[n]
  BY SiftLeft
<1>3. n \in Nat /\ \A i \in 1..n : s[i] \in S <=> s[i] \in T
  OBVIOUS
<1> HIDE DEF n
<1>4. \A i \in 0..n : g[i] = IF i = 0 THEN <<>>
               ELSE IF s[i] \in S THEN Append(g[i - 1], s[i]) ELSE g[i - 1]
  BY <1>1 DEF LeftStep
<1>5. \A i \in 0..n : h[i] = IF i = 0 THEN <<>>
               ELSE IF s[i] \in T THEN Append(h[i - 1], s[i]) ELSE h[i - 1]
  BY <1>2 DEF LeftStep
<1> DEFINE E == {i \in 0..n : g[i] = h[i]}
<1>6. 0 \in E
  <2>1. 0 \in 0..n
    BY <1>3
  <2>2. g[0] = <<>> /\ h[0] = <<>>
    BY <1>4, <1>5, <2>1
  <2> QED BY <2>1, <2>2
<1>7. ASSUME NEW i \in 1..n, i - 1 \in E PROVE i \in E
  <2>1. i \in 0..n /\ i # 0
    BY <1>3
  <2>2. g[i - 1] = h[i - 1]
    BY <1>7
  <2>3. g[i] = h[i]
    BY <2>1, <2>2, <1>3, <1>4, <1>5
  <2> QED BY <2>1, <2>3
<1>8. \A i \in 0..n : i \in E
  <2> HIDE DEF E
  <2> QED BY <1>3, <1>6, <1>7, UpTo
<1> QED BY <1>1, <1>2, <1>3, <1>8
-----------------------------------------------------------------------------
\* g is the recursive function of Total, up to n.
SumStep(w, g, n) == g = [i \in 0..n |-> IF i = 0 THEN 0 ELSE g[i - 1] + w[i]]

\* There is one.
LEMMA SumExists ==
  ASSUME NEW w, NEW n \in Nat
  PROVE  \E g : SumStep(w, g, n)
<1> DEFINE T == {i \in 0..n : \E g : SumStep(w, g, i)}
<1>1. 0 \in T
  <2>1. SumStep(w, [i \in 0..0 |-> 0], 0)
    BY DEF SumStep
  <2> QED BY <2>1
<1>2. ASSUME NEW i \in 1..n, i - 1 \in T
      PROVE  i \in T
  <2>1. PICK g : SumStep(w, g, i - 1)
    BY <1>2
  <2> DEFINE h == [j \in 0..i |-> IF j = i THEN g[i - 1] + w[i] ELSE g[j]]
  <2>2. \A j \in 0..i : j # 0 => j - 1 \in 0..(i - 1)
    OBVIOUS
  <2>3. \A j \in 0..(i-1) : g[j] = IF j = 0 THEN 0 ELSE g[j - 1] + w[j]
    BY <2>1 DEF SumStep
  <2>4. \A j \in 0..(i-1) : h[j] = g[j]
    OBVIOUS
  <2>5. \A j \in 0..i : h[j] = IF j = 0 THEN 0 ELSE h[j - 1] + w[j]
    BY <2>2, <2>3, <2>4
  <2>6. SumStep(w, h, i)
    BY <2>5 DEF SumStep
  <2> QED BY <2>6
<1>3. \A i \in 0..n : i \in T
  <2> HIDE DEF T
  <2> QED BY <1>1, <1>2, UpTo
<1> QED BY <1>3

\* Total is its last value, each value the one before plus the next number.
LEMMA TotalSum ==
  ASSUME NEW w \in Seq(Int)
  PROVE  \E g : /\ Total(w) = g[Len(w)] /\ g[0] = 0
                /\ \A i \in 1..Len(w) : g[i] = g[i - 1] + w[i]
                /\ \A i \in 0..Len(w) : g[i] \in Int
<1> DEFINE n == Len(w)
           g == CHOOSE f : SumStep(w, f, n)
<1>0. n \in Nat /\ \A i \in 1..n : w[i] \in Int
  OBVIOUS
<1>1. SumStep(w, g, n)
  BY <1>0, SumExists
<1>2. Total(w) = g[n]
  BY DEF Total, SumStep
<1> HIDE DEF g, n
<1>3. \A i \in 0..n : g[i] = IF i = 0 THEN 0 ELSE g[i - 1] + w[i]
  BY <1>1 DEF SumStep
<1>4. g[0] = 0 /\ \A i \in 1..n : g[i] = g[i - 1] + w[i]
  BY <1>0, <1>3
<1> DEFINE T == {i \in 0..n : g[i] \in Int}
<1>5. 0 \in T
  BY <1>0, <1>4
<1>6. ASSUME NEW i \in 1..n, i - 1 \in T PROVE i \in T
  BY <1>0, <1>4, <1>6
<1>7. \A i \in 0..n : i \in T
  <2> HIDE DEF T
  <2> QED BY <1>0, <1>5, <1>6, UpTo
<1> QED BY <1>2, <1>4, <1>7 DEF n

\* A sum of integers is an integer, and nothing sums to zero.
LEMMA TotalFacts ==
  ASSUME NEW w \in Seq(Int)
  PROVE  Total(w) \in Int /\ (w = <<>> => Total(w) = 0)
<1>1. Len(w) \in 0..Len(w) /\ (w = <<>> => Len(w) = 0)
  OBVIOUS
<1> QED BY <1>1, TotalSum

\* One number more at the end adds itself.
LEMMA TotalAppend ==
  ASSUME NEW w \in Seq(Int), NEW x \in Int
  PROVE  Total(Append(w, x)) = Total(w) + x
<1> DEFINE n == Len(w)
           u == Append(w, x)
<1>1. /\ n \in Nat /\ u \in Seq(Int) /\ Len(u) = n + 1 /\ u[n + 1] = x
      /\ \A i \in 1..n : u[i] = w[i] /\ w[i] \in Int
  BY AppendProperties
<1> HIDE DEF n, u
<1>2. PICK g : /\ Total(w) = g[n] /\ g[0] = 0
               /\ \A i \in 1..n : g[i] = g[i - 1] + w[i]
               /\ \A i \in 0..n : g[i] \in Int
  BY TotalSum DEF n
<1>3. PICK h : /\ Total(u) = h[n + 1] /\ h[0] = 0
               /\ \A i \in 1..(n + 1) : h[i] = h[i - 1] + u[i]
               /\ \A i \in 0..(n + 1) : h[i] \in Int
  <2>1. PICK h : /\ Total(u) = h[Len(u)] /\ h[0] = 0
                 /\ \A i \in 1..Len(u) : h[i] = h[i - 1] + u[i]
                 /\ \A i \in 0..Len(u) : h[i] \in Int
    <3>1. u \in Seq(Int)
      BY <1>1
    <3> QED BY <3>1, TotalSum
  <2> QED BY <1>1, <2>1
<1> DEFINE T == {i \in 0..n : g[i] = h[i]}
<1>4. 0 \in T
  BY <1>1, <1>2, <1>3
<1>5. ASSUME NEW i \in 1..n, i - 1 \in T PROVE i \in T
  <2>1. i \in 0..n /\ i \in 1..(n + 1)
    BY <1>1
  <2> QED BY <1>1, <1>2, <1>3, <1>5, <2>1
<1>6. \A i \in 0..n : i \in T
  <2> HIDE DEF T
  <2> QED BY <1>1, <1>4, <1>5, UpTo
<1>7. g[n] = h[n]
  BY <1>1, <1>6
<1>8. h[n + 1] = h[n] + x
  BY <1>1, <1>3
<1> QED BY <1>2, <1>3, <1>7, <1>8 DEF u

\* The first number can be split off as well as the last.
LEMMA TotalFirst ==
  ASSUME NEW w \in Seq(Int), NEW x \in Int
  PROVE  Total(<<x>> \o w) = x + Total(w)
<1> DEFINE n == Len(w)
           u == <<x>> \o w
<1>1. /\ n \in Nat /\ u \in Seq(Int) /\ Len(u) = n + 1 /\ u[1] = x
      /\ \A i \in 1..n : u[i + 1] = w[i] /\ w[i] \in Int
  <2>1. <<x>> \in Seq(Int) /\ Len(<<x>>) = 1 /\ <<x>>[1] = x
    OBVIOUS
  <2>2. /\ u \in Seq(Int) /\ Len(u) = 1 + n
        /\ \A i \in 1..(1 + n) : u[i] = IF i <= 1 THEN <<x>>[i] ELSE w[i - 1]
    BY <2>1, ConcatProperties
  <2>3. n \in Nat /\ \A i \in 1..n : w[i] \in Int /\ i + 1 \in 1..(1 + n) /\ ~(i + 1 <= 1) /\ (i + 1) - 1 = i
    OBVIOUS
  <2> HIDE DEF u, n
  <2>4. \A i \in 1..n : u[i + 1] = w[i]
    BY <2>2, <2>3
  <2>5. u[1] = x
    BY <2>1, <2>2, <2>3
  <2> QED BY <2>2, <2>3, <2>4, <2>5
<1> HIDE DEF n, u
<1>2. PICK g : /\ Total(w) = g[n] /\ g[0] = 0
               /\ \A i \in 1..n : g[i] = g[i - 1] + w[i]
               /\ \A i \in 0..n : g[i] \in Int
  BY TotalSum DEF n
<1>3. PICK h : /\ Total(u) = h[n + 1] /\ h[0] = 0
               /\ \A i \in 1..(n + 1) : h[i] = h[i - 1] + u[i]
               /\ \A i \in 0..(n + 1) : h[i] \in Int
  <2>1. PICK h : /\ Total(u) = h[Len(u)] /\ h[0] = 0
                 /\ \A i \in 1..Len(u) : h[i] = h[i - 1] + u[i]
                 /\ \A i \in 0..Len(u) : h[i] \in Int
    <3>1. u \in Seq(Int)
      BY <1>1
    <3> QED BY <3>1, TotalSum
  <2> QED BY <1>1, <2>1
<1> DEFINE T == {i \in 0..n : h[i + 1] = x + g[i]}
<1>4. 0 \in T
  <2>1. h[1] = x
    BY <1>1, <1>3
  <2> QED BY <1>1, <1>2, <2>1
<1>5. ASSUME NEW i \in 1..n, i - 1 \in T PROVE i \in T
  <2>1. i \in 0..n /\ i + 1 \in 1..(n + 1) /\ (i + 1) - 1 = i /\ (i - 1) + 1 = i
    BY <1>1
  <2>2. h[i] = x + g[i - 1]
    BY <1>5, <2>1
  <2>3. h[i + 1] = h[i] + w[i]
    <3>1. h[i + 1] = h[(i + 1) - 1] + u[i + 1]
      BY <1>3, <2>1
    <3> QED BY <3>1, <1>1, <2>1
  <2>5. g[i] = g[i - 1] + w[i] /\ g[i - 1] \in Int
    <3>1. i - 1 \in 0..n
      BY <1>1
    <3> QED BY <1>2, <3>1
  <2>4. h[i + 1] = x + g[i]
    BY <1>1, <2>2, <2>3, <2>5
  <2> QED BY <2>1, <2>4
<1>6. \A i \in 0..n : i \in T
  <2> HIDE DEF T
  <2> QED BY <1>1, <1>4, <1>5, UpTo
<1> QED BY <1>1, <1>2, <1>3, <1>6 DEF u

\* The head counts for itself.
LEMMA TotalTail ==
  ASSUME NEW w \in Seq(Int), w # <<>>
  PROVE  Total(w) = w[1] + Total(Tail(w))
<1>1. w = <<w[1]>> \o Tail(w) /\ w[1] \in Int /\ Tail(w) \in Seq(Int)
  BY HeadTailProperties, ConcatSimplifications
<1> QED BY <1>1, TotalFirst
-----------------------------------------------------------------------------
\* A sequence without repetition has as many elements as places.
LEMMA DistinctCount ==
  ASSUME NEW A, NEW s \in Seq(A), IsInjective(s)
  PROVE  IsFiniteSet(ToSet(s)) /\ Cardinality(ToSet(s)) = Len(s)
<1>1. Len(s) \in Nat /\ DOMAIN s = 1..Len(s) /\ s = [i \in 1..Len(s) |-> s[i]]
  OBVIOUS
<1>2. s \in [1..Len(s) -> ToSet(s)]
  BY <1>1 DEF ToSet
<1>3. s \in Bijection(1..Len(s), ToSet(s))
  BY <1>1, <1>2 DEF Bijection, Injection, Surjection, IsInjective, ToSet
<1>4. ExistsBijection(1..Len(s), ToSet(s))
  BY <1>3 DEF ExistsBijection
<1> QED BY <1>1, <1>4, FS_CountingElements, FS_NatBijection

\* Appending a new element keeps a sequence free of repetition.
LEMMA AppendDistinct ==
  ASSUME NEW A, NEW s \in Seq(A), NEW e \in A
  PROVE  /\ ToSet(Append(s, e)) = ToSet(s) \cup {e}
         /\ IsInjective(s) /\ e \notin ToSet(s) => IsInjective(Append(s, e))
<1> DEFINE t == Append(s, e)
           n == Len(s)
<1>1. /\ n \in Nat /\ Len(t) = n + 1 /\ t[n + 1] = e /\ \A i \in 1..n : t[i] = s[i]
      /\ DOMAIN s = 1..n /\ DOMAIN t = 1..(n + 1)
  BY AppendProperties
<1> HIDE DEF t, n
<1>2. \A i \in 1..(n + 1) : i = n + 1 \/ i \in 1..n
  BY <1>1
<1>3. ToSet(t) = ToSet(s) \cup {e}
  BY <1>1, <1>2 DEF ToSet
<1>4. IsInjective(s) /\ e \notin ToSet(s) => IsInjective(t)
  BY <1>1, <1>2 DEF IsInjective, ToSet
<1> QED BY <1>3, <1>4 DEF t

\* Cutting a sequence free of repetition leaves two such sequences, which
\* share its elements.
LEMMA CutDistinct ==
  ASSUME NEW A, NEW s \in Seq(A), NEW n \in 0..Len(s), IsInjective(s)
  PROVE  LET a == SubSeq(s, 1, n)
             b == SubSeq(s, n + 1, Len(s))
         IN /\ a \in Seq(A) /\ b \in Seq(A) /\ Len(a) = n /\ Len(b) = Len(s) - n
            /\ IsInjective(a) /\ IsInjective(b)
            /\ ToSet(s) = ToSet(a) \cup ToSet(b) /\ ToSet(a) \cap ToSet(b) = {}
<1> DEFINE m == Len(s)
           a == SubSeq(s, 1, n)
           b == SubSeq(s, n + 1, m)
<1>1. /\ m \in Nat /\ DOMAIN s = 1..m
      /\ a \in Seq(A) /\ Len(a) = n /\ \A i \in 1..n : a[i] = s[i]
      /\ b \in Seq(A) /\ Len(b) = m - n /\ \A i \in 1..(m - n) : b[i] = s[n + i]
  OBVIOUS
<1>2. DOMAIN a = 1..n /\ DOMAIN b = 1..(m - n)
  <2> HIDE DEF m, a, b
  <2> QED BY <1>1
<1> HIDE DEF m, a, b
<1>3. \A i \in 1..n : i \in 1..m
  BY <1>1 DEF m
<1>4. \A i \in 1..(m - n) : n + i \in 1..m /\ n + i \notin 1..n
  BY <1>1
<1>5. \A i \in 1..m : i \in 1..n \/ (i - n \in 1..(m - n) /\ n + (i - n) = i)
  BY <1>1
<1>6. IsInjective(a) /\ IsInjective(b)
  <2>1. \A i, j \in 1..m : s[i] = s[j] => i = j
    BY <1>1 DEF IsInjective
  <2>2. \A i, j \in 1..n : a[i] = a[j] => i = j
    BY <1>1, <1>3, <2>1
  <2>3. \A i, j \in 1..(m - n) : n + i = n + j => i = j
    BY <1>1
  <2>4. \A i, j \in 1..(m - n) : b[i] = b[j] => i = j
    BY <1>1, <1>4, <2>1, <2>3
  <2> QED BY <1>2, <2>2, <2>4 DEF IsInjective
<1>7. ToSet(s) = ToSet(a) \cup ToSet(b)
  <2>1. ToSet(a) \subseteq ToSet(s) /\ ToSet(b) \subseteq ToSet(s)
    BY <1>1, <1>2, <1>3, <1>4 DEF ToSet
  <2>2. ASSUME NEW i \in 1..m PROVE s[i] \in ToSet(a) \cup ToSet(b)
    <3>1. CASE i \in 1..n
      BY <1>1, <1>2, <3>1 DEF ToSet
    <3>2. CASE i - n \in 1..(m - n) /\ n + (i - n) = i
      <4>1. b[i - n] = s[i]
        BY <1>1, <3>2
      <4> QED BY <1>2, <3>2, <4>1 DEF ToSet
    <3> QED BY <1>5, <3>1, <3>2
  <2>3. \A x \in ToSet(s) : \E i \in 1..m : x = s[i]
    BY <1>1 DEF ToSet
  <2> QED BY <2>1, <2>2, <2>3
<1>8. ToSet(a) \cap ToSet(b) = {}
  <2> SUFFICES ASSUME NEW i \in 1..n, NEW j \in 1..(m - n), a[i] = b[j] PROVE FALSE
    BY <1>2 DEF ToSet
  <2>1. s[i] = s[n + j] /\ i \in 1..m /\ n + j \in 1..m /\ i # n + j
    BY <1>1, <1>3, <1>4
  <2> QED BY <1>1, <2>1 DEF IsInjective
<1> QED BY <1>1, <1>6, <1>7, <1>8 DEF m, a, b

\* Taking one element out of a sequence free of repetition.
LEMMA RemoveDistinct ==
  ASSUME NEW A, NEW s \in Seq(A), NEW i \in 1..Len(s), IsInjective(s)
  PROVE  /\ RemoveAt(s, i) \in Seq(A) /\ IsInjective(RemoveAt(s, i))
         /\ ToSet(RemoveAt(s, i)) = ToSet(s) \ {s[i]}
<1> DEFINE m == Len(s)
           a == SubSeq(s, 1, i - 1)
           b == SubSeq(s, i + 1, m)
           r == a \o b
<1>1. /\ m \in Nat /\ DOMAIN s = 1..m
      /\ a \in Seq(A) /\ Len(a) = i - 1 /\ \A j \in 1..(i - 1) : a[j] = s[j]
      /\ b \in Seq(A) /\ Len(b) = m - i /\ \A j \in 1..(m - i) : b[j] = s[i + j]
  OBVIOUS
<1> HIDE DEF a, b
<1>2. /\ r \in Seq(A) /\ Len(r) = (i - 1) + (m - i)
      /\ \A j \in 1..((i - 1) + (m - i)) : r[j] = IF j <= i - 1 THEN a[j] ELSE b[j - (i - 1)]
  <2>1. /\ r \in Seq(A) /\ Len(r) = Len(a) + Len(b)
        /\ \A j \in 1..(Len(a) + Len(b)) : r[j] = IF j <= Len(a) THEN a[j] ELSE b[j - Len(a)]
    BY <1>1, ConcatProperties
  <2> QED BY <1>1, <2>1
<1> HIDE DEF r
<1>3. Len(r) = m - 1
  BY <1>1, <1>2
<1>4. ASSUME NEW j \in 1..(m - 1) PROVE r[j] = IF j < i THEN s[j] ELSE s[j + 1]
  <2>1. j \in 1..((i - 1) + (m - i))
    BY <1>1
  <2>2. CASE j < i
    <3>1. j \in 1..(i - 1) /\ j <= i - 1
      BY <2>2
    <3> QED BY <1>1, <1>2, <2>1, <2>2, <3>1
  <2>3. CASE ~(j < i)
    <3>1. j - (i - 1) \in 1..(m - i) /\ i + (j - (i - 1)) = j + 1 /\ ~(j <= i - 1)
      BY <1>1, <2>3
    <3>2. b[j - (i - 1)] = s[j + 1]
      BY <1>1, <3>1
    <3> QED BY <1>2, <2>1, <2>3, <3>1, <3>2
  <2> QED BY <2>2, <2>3
<1>5. DOMAIN r = 1..(m - 1)
  BY <1>2, <1>3
<1>6. \A j, k \in 1..m : s[j] = s[k] => j = k
  BY <1>1 DEF IsInjective
<1> HIDE DEF m
<1>7. \A j \in 1..(m - 1) : j \in 1..m /\ j + 1 \in 1..m
  BY <1>1
<1>8. \A j, k \in 1..(m - 1) : r[j] = r[k] => j = k
  BY <1>1, <1>4, <1>6, <1>7
<1>9. ToSet(r) = ToSet(s) \ {s[i]}
  <2>1. ASSUME NEW j \in 1..(m - 1) PROVE r[j] \in ToSet(s) \ {s[i]}
    <3>1. i \in 1..m
      BY DEF m
    <3> DEFINE h == IF j < i THEN j ELSE j + 1
    <3>2. r[j] = s[h] /\ h \in 1..m /\ h # i
      BY <1>1, <1>4, <1>7
    <3> HIDE DEF h
    <3>3. s[h] # s[i]
      BY <1>6, <3>1, <3>2
    <3> QED BY <1>1, <3>2, <3>3 DEF ToSet
  <2>2. ASSUME NEW j \in 1..m, j # i PROVE \E k \in 1..(m - 1) : r[k] = s[j]
    <3>1. CASE j < i
      <4>1. j \in 1..(m - 1)
        BY <1>1, <3>1 DEF m
      <4> QED BY <1>4, <3>1, <4>1
    <3>2. CASE j > i
      <4>1. j - 1 \in 1..(m - 1) /\ ~(j - 1 < i) /\ (j - 1) + 1 = j
        BY <1>1, <3>2
      <4> QED BY <1>4, <4>1
    <3> QED BY <1>1, <2>2, <3>1, <3>2
  <2>3. \A x \in ToSet(r) : x \in ToSet(s) \ {s[i]}
    BY <1>5, <2>1 DEF ToSet
  <2>4. ASSUME NEW x \in ToSet(s) \ {s[i]} PROVE x \in ToSet(r)
    <3>1. PICK j \in 1..m : x = s[j]
      BY <1>1 DEF ToSet
    <3>2. PICK k \in 1..(m - 1) : r[k] = s[j]
      BY <2>2, <3>1
    <3> QED BY <1>5, <3>1, <3>2 DEF ToSet
  <2> QED BY <2>3, <2>4
<1> QED BY <1>2, <1>5, <1>8, <1>9 DEF r, a, b, m, RemoveAt, IsInjective

\* The same for its head.
LEMMA TailDistinct ==
  ASSUME NEW A, NEW s \in Seq(A), s # <<>>, IsInjective(s)
  PROVE  /\ Tail(s) \in Seq(A) /\ IsInjective(Tail(s))
         /\ Head(s) \in ToSet(s) /\ ToSet(Tail(s)) = ToSet(s) \ {Head(s)}
<1> DEFINE t == Tail(s)
           m == Len(s)
<1>1. /\ m \in Nat \ {0} /\ DOMAIN s = 1..m /\ Head(s) = s[1]
      /\ t \in Seq(A) /\ Len(t) = m - 1 /\ \A j \in 1..(m - 1) : t[j] = s[j + 1]
  BY HeadTailProperties
<1> HIDE DEF t, m
<1>2. DOMAIN t = 1..(m - 1)
  BY <1>1
<1>3. \A j, k \in 1..m : s[j] = s[k] => j = k
  BY <1>1 DEF IsInjective
<1>4. /\ 1 \in 1..m /\ \A j \in 1..(m - 1) : j + 1 \in 1..m /\ j + 1 # 1
      /\ \A j, k \in 1..(m - 1) : j + 1 = k + 1 => j = k
      /\ \A j \in 1..m : j # 1 => j - 1 \in 1..(m - 1) /\ (j - 1) + 1 = j
  BY <1>1
<1>5. \A j, k \in 1..(m - 1) : t[j] = t[k] => j = k
  BY <1>1, <1>3, <1>4
<1>6. ToSet(t) = ToSet(s) \ {s[1]}
  <2>1. \A j \in 1..(m - 1) : t[j] \in ToSet(s) \ {s[1]}
    BY <1>1, <1>3, <1>4 DEF ToSet
  <2>2. \A j \in 1..m : j # 1 => s[j] \in ToSet(t)
    <3> SUFFICES ASSUME NEW j \in 1..m, j # 1 PROVE s[j] \in ToSet(t)
      OBVIOUS
    <3>1. t[j - 1] = s[(j - 1) + 1]
      BY <1>1, <1>4
    <3> QED BY <1>2, <1>4, <3>1 DEF ToSet
  <2>3. \A x \in ToSet(s) : \E j \in 1..m : x = s[j]
    BY <1>1 DEF ToSet
  <2>4. \A x \in ToSet(t) : \E j \in 1..(m - 1) : x = t[j]
    BY <1>2 DEF ToSet
  <2>5. \A x \in ToSet(s) \ {s[1]} : x \in ToSet(t)
    BY <2>2, <2>3
  <2>6. \A x \in ToSet(t) : x \in ToSet(s) \ {s[1]}
    BY <2>1, <2>4
  <2> QED BY <2>5, <2>6
<1>7. s[1] \in ToSet(s)
  BY <1>1, <1>4 DEF ToSet
<1> QED BY <1>1, <1>2, <1>5, <1>6, <1>7 DEF t, m, IsInjective
-----------------------------------------------------------------------------
\* A sequence is its head in front of its tail.
LEMMA TailSet ==
  ASSUME NEW A, NEW s \in Seq(A), s # <<>>
  PROVE  /\ Head(s) \in A /\ Tail(s) \in Seq(A)
         /\ ToSet(s) = ToSet(Tail(s)) \cup {Head(s)}
<1> DEFINE t == Tail(s)
           m == Len(s)
<1>1. /\ m \in Nat \ {0} /\ DOMAIN s = 1..m /\ Head(s) = s[1] /\ Head(s) \in A
      /\ t \in Seq(A) /\ Len(t) = m - 1 /\ \A j \in 1..(m - 1) : t[j] = s[j + 1]
  BY HeadTailProperties
<1> HIDE DEF t, m
<1>2. DOMAIN t = 1..(m - 1)
  BY <1>1
<1>3. /\ 1 \in 1..m /\ \A j \in 1..(m - 1) : j + 1 \in 1..m
      /\ \A j \in 1..m : j # 1 => j - 1 \in 1..(m - 1) /\ (j - 1) + 1 = j
  BY <1>1
<1>4. ASSUME NEW x \in ToSet(s) PROVE x \in ToSet(t) \cup {s[1]}
  <2>1. PICK j \in 1..m : x = s[j]
    BY <1>1 DEF ToSet
  <2>2. CASE j # 1
    <3>1. j - 1 \in 1..(m - 1) /\ t[j - 1] = s[j]
      BY <1>1, <1>3, <2>2
    <3> QED BY <1>2, <2>1, <3>1 DEF ToSet
  <2> QED BY <2>1, <2>2
<1>5. ASSUME NEW x \in ToSet(t) PROVE x \in ToSet(s)
  <2>1. PICK j \in 1..(m - 1) : x = t[j]
    BY <1>2 DEF ToSet
  <2> QED BY <1>1, <1>3, <2>1 DEF ToSet
<1>6. s[1] \in ToSet(s)
  BY <1>1, <1>3 DEF ToSet
<1> QED BY <1>1, <1>4, <1>5, <1>6 DEF t

\* A beginning of a sequence.
LEMMA BeginningOf ==
  ASSUME NEW A, NEW s \in Seq(A), NEW k \in 0..Len(s)
  PROVE  /\ SubSeq(s, 1, k) \in Seq(A) /\ Len(SubSeq(s, 1, k)) = k
         /\ \A i \in 1..k : SubSeq(s, 1, k)[i] = s[i]
         /\ ToSet(SubSeq(s, 1, k)) \subseteq ToSet(s)
<1> DEFINE t == SubSeq(s, 1, k)
<1>1. /\ Len(s) \in Nat /\ DOMAIN s = 1..Len(s) /\ k \in Nat /\ \A i \in 1..k : i \in 1..Len(s) /\ s[i] \in A
  OBVIOUS
<1>2. /\ t \in Seq(A) /\ Len(t) = k /\ \A i \in 1..k : t[i] = s[i]
  <2>1. /\ t \in Seq(A) /\ Len(t) = (IF 1 <= k THEN k - 1 + 1 ELSE 0)
        /\ \A i \in 1..(k - 1 + 1) : t[i] = s[1 + i - 1]
    BY <1>1, SubSeqProperties
  <2>2. k - 1 + 1 = k /\ \A i \in 1..k : 1 + i - 1 = i
    BY <1>1
  <2> QED BY <1>1, <2>1, <2>2
<1> HIDE DEF t
<1>3. DOMAIN t = 1..k
  BY <1>2
<1>4. ToSet(t) \subseteq ToSet(s)
  BY <1>1, <1>2, <1>3 DEF ToSet
<1> QED BY <1>2, <1>4 DEF t

\* Beginnings grow by one element.
LEMMA BeginningGrows ==
  ASSUME NEW A, NEW s \in Seq(A), NEW k \in 1..Len(s)
  PROVE  SubSeq(s, 1, k) = Append(SubSeq(s, 1, k - 1), s[k]) /\ s[k] \in A
<1> DEFINE t == SubSeq(s, 1, k)
           u == SubSeq(s, 1, k - 1)
           v == Append(u, s[k])
<1>1. Len(s) \in Nat /\ k \in 0..Len(s) /\ k - 1 \in 0..Len(s) /\ s[k] \in A
  OBVIOUS
<1>2. t \in Seq(A) /\ Len(t) = k /\ \A i \in 1..k : t[i] = s[i]
  BY <1>1, BeginningOf
<1>3. u \in Seq(A) /\ Len(u) = k - 1 /\ \A i \in 1..(k - 1) : u[i] = s[i]
  BY <1>1, BeginningOf
<1> HIDE DEF t, u
<1>4. v \in Seq(A) /\ Len(v) = k /\ v[k] = s[k] /\ \A i \in 1..(k - 1) : v[i] = s[i]
  BY <1>1, <1>3, AppendProperties
<1>5. \A i \in 1..k : i = k \/ i \in 1..(k - 1)
  OBVIOUS
<1> HIDE DEF v
<1>6. \A i \in 1..k : t[i] = v[i]
  BY <1>2, <1>4, <1>5
<1>7. t = v
  BY <1>2, <1>4, <1>6, SeqEqual
<1> QED BY <1>1, <1>7 DEF t, u, v

\* Sifting the tail: the head, if it passes, is in front.
LEMMA SiftTail ==
  ASSUME NEW A, NEW s \in Seq(A), s # <<>>, NEW S
  PROVE  Sift(s, S) = IF Head(s) \in S THEN <<Head(s)>> \o Sift(Tail(s), S) ELSE Sift(Tail(s), S)
<1> DEFINE n == Len(s)
           t == Tail(s)
           base == IF Head(s) \in S THEN <<Head(s)>> ELSE <<>>
           T == {i \in 0..(n - 1) : Sift(SubSeq(s, 1, i + 1), S) = base \o Sift(SubSeq(t, 1, i), S)}
<1>1. /\ n \in Nat \ {0} /\ t \in Seq(A) /\ Len(t) = n - 1 /\ \A i \in 1..(n - 1) : t[i] = s[i + 1]
      /\ Head(s) = s[1] /\ s[1] \in A
  BY HeadTailProperties
<1>2. base \in Seq(A)
  BY <1>1
<1>3. Sift(<<>>, S) = <<>>
  <2>1. PICK z : z = <<>>
    OBVIOUS
  <2>2. z \in Seq(A) /\ Len(z) = 0
    BY <2>1
  <2>3. Sift(z, S) \in Seq(A) /\ Len(Sift(z, S)) <= Len(z)
    BY <2>2, SiftFacts
  <2>4. PICK r : r = Sift(z, S)
    OBVIOUS
  <2>5. r = <<>>
    BY <2>2, <2>3, <2>4
  <2> QED BY <2>1, <2>4, <2>5
<1> HIDE DEF n, t
<1>4. 0 \in T
  <2>1. SubSeq(s, 1, 1) = Append(SubSeq(s, 1, 1 - 1), s[1])
    BY <1>1, BeginningGrows DEF n
  <2>2. SubSeq(s, 1, 0) = <<>> /\ SubSeq(t, 1, 0) = <<>> /\ <<>> \in Seq(A) /\ 1 - 1 = 0 /\ 0 + 1 = 1
    BY SubSeqEmpty
  <2>3. Sift(Append(<<>>, s[1]), S) = IF s[1] \in S THEN Append(<<>>, s[1]) ELSE <<>>
    <3>1. PICK z : z = <<>>
      OBVIOUS
    <3>2. z \in Seq(A) /\ Sift(z, S) = z
      BY <1>3, <3>1
    <3>3. PICK e \in A : e = s[1]
      BY <1>1
    <3>4. Sift(Append(z, e), S) = IF e \in S THEN Append(Sift(z, S), e) ELSE Sift(z, S)
      BY <3>2, SiftAppend
    <3> QED BY <3>1, <3>2, <3>3, <3>4
  <2>4. Append(<<>>, s[1]) = <<s[1]>>
    OBVIOUS
  <2>5. Sift(SubSeq(s, 1, 0 + 1), S) = base
    BY <1>1, <2>1, <2>2, <2>3, <2>4
  <2>6. base \o <<>> = base
    BY <1>2, ConcatEmptySeq
  <2>7. 0 \in 0..(n - 1)
    BY <1>1
  <2> QED BY <1>3, <2>2, <2>5, <2>6, <2>7
<1> HIDE DEF base
<1>5. ASSUME NEW i \in 1..(n - 1), i - 1 \in T PROVE i \in T
  <2>1. /\ i \in 0..(n - 1) /\ i + 1 \in 1..n /\ (i + 1) - 1 = i /\ (i - 1) + 1 = i /\ i \in 0..n /\ i \in 1..n
        /\ i - 1 \in 0..(n - 1)
    BY <1>1
  <2> DEFINE u == SubSeq(s, 1, i)
             v == SubSeq(t, 1, i - 1)
             e == s[i + 1]
  <2>2. SubSeq(s, 1, i + 1) = Append(u, e) /\ e \in A
    BY <1>1, <2>1, BeginningGrows DEF n
  <2>3. SubSeq(t, 1, i) = Append(v, e)
    BY <1>1, <2>1, BeginningGrows
  <2>4. u \in Seq(A) /\ v \in Seq(A)
    BY <1>1, <2>1, BeginningOf DEF n
  <2>5. Sift(u, S) = base \o Sift(v, S)
    BY <1>5, <2>1
  <2> HIDE DEF u, v, e
  <2>6. /\ Sift(Append(u, e), S) = (IF e \in S THEN Append(Sift(u, S), e) ELSE Sift(u, S))
        /\ Sift(Append(v, e), S) = (IF e \in S THEN Append(Sift(v, S), e) ELSE Sift(v, S))
    BY <2>2, <2>4, SiftAppend
  <2>7. PICK q : q = Sift(v, S)
    OBVIOUS
  <2>8. q \in Seq(A)
    BY <2>4, <2>7, SiftFacts
  <2>9. Append(base \o q, e) = base \o Append(q, e)
    <3>1. base \o q \in Seq(A) /\ <<e>> \in Seq(A)
      BY <1>2, <2>2, <2>8, ConcatProperties
    <3>2. Append(base \o q, e) = (base \o q) \o <<e>> /\ Append(q, e) = q \o <<e>>
      BY <2>2, <2>8, <3>1, AppendIsConcat
    <3>3. PICK z \in Seq(A) : z = <<e>>
      BY <3>1
    <3>4. Cat(Cat(base, q), z) = Cat(base, Cat(q, z))
      BY <1>2, <2>8, CatAssoc
    <3>5. (base \o q) \o z = base \o (q \o z)
      BY <3>4 DEF Cat
    <3> QED BY <3>2, <3>3, <3>5
  <2>10. Sift(SubSeq(s, 1, i + 1), S) = base \o Sift(SubSeq(t, 1, i), S)
    BY <2>2, <2>3, <2>5, <2>6, <2>7, <2>9
  <2> QED BY <2>1, <2>10
<1>6. n - 1 \in T
  <2> HIDE DEF T
  <2>1. n - 1 \in Nat
    BY <1>1
  <2>2. \A i \in 0..(n - 1) : i \in T
    BY <1>4, <1>5, <2>1, UpTo
  <2> QED BY <2>1, <2>2
<1>7. SubSeq(s, 1, n) = s /\ SubSeq(t, 1, n - 1) = t /\ (n - 1) + 1 = n
  BY <1>1, SubSeqFull DEF n
<1>8. Sift(s, S) = base \o Sift(t, S)
  BY <1>6, <1>7
<1>9. Sift(t, S) \in Seq(A)
  BY <1>1, SiftFacts
<1>10. <<>> \o Sift(t, S) = Sift(t, S)
  BY <1>9, ConcatEmptySeq
<1> QED BY <1>8, <1>10 DEF base, t

\* What is sifted from a beginning is a beginning of what is sifted from all.
LEMMA SiftBeginning ==
  ASSUME NEW A, NEW s \in Seq(A), NEW k \in 0..Len(s), NEW S
  PROVE  /\ Len(Sift(SubSeq(s, 1, k), S)) <= Len(Sift(s, S))
         /\ \A j \in 1..Len(Sift(SubSeq(s, 1, k), S)) : Sift(SubSeq(s, 1, k), S)[j] = Sift(s, S)[j]
<1> DEFINE n == Len(s)
           p == Sift(SubSeq(s, 1, k), S)
           Pre(q) == /\ q \in Seq(A) /\ Len(p) <= Len(q) /\ \A j \in 1..Len(p) : p[j] = q[j]
           T == {i \in 0..n : i < k \/ Pre(Sift(SubSeq(s, 1, i), S))}
<1>1. n \in Nat /\ k \in Nat /\ k \in 0..n
  OBVIOUS
<1>2. p \in Seq(A) /\ Pre(p)
  <2>1. SubSeq(s, 1, k) \in Seq(A)
    BY BeginningOf
  <2>2. p \in Seq(A)
    BY <2>1, SiftFacts
  <2> HIDE DEF p
  <2>3. Len(p) \in Nat
    BY <2>2
  <2> QED BY <2>2, <2>3
<1> HIDE DEF n, p
<1>3. 0 \in T
  <2>1. CASE k = 0
    BY <1>1, <1>2, <2>1 DEF p
  <2>2. CASE k # 0
    BY <1>1, <2>2
  <2> QED BY <2>1, <2>2
<1>4. ASSUME NEW i \in 1..n, i - 1 \in T PROVE i \in T
  <2>1. i \in 0..n /\ i - 1 \in 0..n
    BY <1>1
  <2>2. CASE i < k
    BY <2>1, <2>2
  <2>3. CASE i = k
    BY <1>2, <2>1, <2>3 DEF p
  <2>4. CASE k < i
    <3> DEFINE u == SubSeq(s, 1, i - 1)
    <3>1. SubSeq(s, 1, i) = Append(u, s[i]) /\ s[i] \in A
      BY BeginningGrows DEF n
    <3>2. u \in Seq(A)
      BY <2>1, BeginningOf DEF n
    <3>3. Pre(Sift(u, S))
      BY <1>1, <1>4, <2>4
    <3> HIDE DEF u
    <3>4. Sift(Append(u, s[i]), S) = IF s[i] \in S THEN Append(Sift(u, S), s[i]) ELSE Sift(u, S)
      BY <3>1, <3>2, SiftAppend
    <3>5. PICK q : q = Sift(u, S)
      OBVIOUS
    <3>6. Pre(q) /\ Len(q) \in Nat /\ Len(p) \in Nat
      BY <1>2, <3>3, <3>5
    <3>7. Pre(Append(q, s[i]))
      <4>1. /\ Append(q, s[i]) \in Seq(A) /\ Len(Append(q, s[i])) = Len(q) + 1
            /\ \A j \in 1..Len(q) : Append(q, s[i])[j] = q[j]
        BY <3>1, <3>6, AppendProperties
      <4>2. \A j \in 1..Len(p) : j \in 1..Len(q)
        BY <3>6
      <4>3. Len(p) <= Len(q) + 1
        BY <3>6
      <4> QED BY <3>6, <4>1, <4>2, <4>3
    <3>8. Pre(Sift(SubSeq(s, 1, i), S))
      <4> HIDE DEF Pre
      <4> QED BY <3>1, <3>4, <3>5, <3>6, <3>7
    <3> QED BY <2>1, <3>8
  <2> QED BY <1>1, <2>2, <2>3, <2>4
<1>5. n \in T
  <2> HIDE DEF T
  <2>1. \A i \in 0..n : i \in T
    BY <1>1, <1>3, <1>4, UpTo
  <2> QED BY <1>1, <2>1
<1>6. Pre(Sift(s, S))
  <2>1. SubSeq(s, 1, n) = s
    BY SubSeqFull DEF n
  <2>2. ~(n < k)
    BY <1>1
  <2>3. Pre(Sift(SubSeq(s, 1, n), S))
    <3> HIDE DEF Pre
    <3> QED BY <1>5, <2>2
  <2> HIDE DEF Pre
  <2> QED BY <2>1, <2>3
<1> QED BY <1>6 DEF p

\* Every element stands in R to every later one.
Ordered(s, R) == \A i, j \in 1..Len(s) : i < j => <<s[i], s[j]>> \in R

\* The empty sequence is in any order.
LEMMA OrderedEmpty ==
  ASSUME NEW R
  PROVE  Ordered(<<>>, R)
  BY DEF Ordered

\* A tail keeps the order, and the head stands in it to all of the tail.
LEMMA OrderedTail ==
  ASSUME NEW A, NEW s \in Seq(A), s # <<>>, NEW R, Ordered(s, R)
  PROVE  Ordered(Tail(s), R) /\ \A g \in ToSet(Tail(s)) : <<Head(s), g>> \in R
<1> DEFINE t == Tail(s)
           m == Len(s)
<1>1. /\ m \in Nat \ {0} /\ Head(s) = s[1]
      /\ t \in Seq(A) /\ Len(t) = m - 1 /\ \A j \in 1..(m - 1) : t[j] = s[j + 1]
  BY HeadTailProperties
<1>2. \A i, j \in 1..m : i < j => <<s[i], s[j]>> \in R
  BY DEF Ordered
<1> HIDE DEF t, m
<1>3. DOMAIN t = 1..(m - 1)
  BY <1>1
<1>4. /\ 1 \in 1..m /\ \A j \in 1..(m - 1) : j + 1 \in 1..m /\ 1 < j + 1
      /\ \A i, j \in 1..(m - 1) : i < j => i + 1 < j + 1
  BY <1>1
<1>5. Ordered(t, R)
  <2>1. ASSUME NEW i \in 1..(m - 1), NEW j \in 1..(m - 1), i < j PROVE <<t[i], t[j]>> \in R
    BY <1>1, <1>2, <1>4, <2>1
  <2> QED BY <1>1, <2>1 DEF Ordered
<1>6. \A g \in ToSet(t) : <<s[1], g>> \in R
  <2>1. SUFFICES ASSUME NEW g \in ToSet(t) PROVE <<s[1], g>> \in R
    OBVIOUS
  <2>2. PICK j \in 1..(m - 1) : g = t[j]
    BY <1>3, <2>1 DEF ToSet
  <2>3. g = s[j + 1] /\ 1 \in 1..m /\ j + 1 \in 1..m /\ 1 < j + 1
    BY <1>1, <1>4, <2>2
  <2> QED BY <1>2, <2>3
<1> QED BY <1>1, <1>5, <1>6 DEF t

\* A beginning keeps the order.
LEMMA OrderedBeginning ==
  ASSUME NEW A, NEW s \in Seq(A), NEW k \in 0..Len(s), NEW R, Ordered(s, R)
  PROVE  Ordered(SubSeq(s, 1, k), R)
<1> DEFINE t == SubSeq(s, 1, k)
<1>1. Len(t) = k /\ \A i \in 1..k : t[i] = s[i]
  BY BeginningOf
<1>2. \A i \in 1..k : i \in 1..Len(s)
  OBVIOUS
<1> HIDE DEF t
<1>3. Ordered(t, R)
  BY <1>1, <1>2 DEF Ordered
<1> QED BY <1>3 DEF t

\* An element to which all before it stand in the order may follow.
LEMMA OrderedAppend ==
  ASSUME NEW A, NEW s \in Seq(A), NEW e \in A, NEW R, Ordered(s, R), \A f \in ToSet(s) : <<f, e>> \in R
  PROVE  Ordered(Append(s, e), R)
<1> DEFINE t == Append(s, e)
           n == Len(s)
<1>1. n \in Nat /\ DOMAIN s = 1..n /\ Len(t) = n + 1 /\ t[n + 1] = e /\ \A i \in 1..n : t[i] = s[i]
  BY AppendProperties
<1>2. \A i, j \in 1..n : i < j => <<s[i], s[j]>> \in R
  BY DEF Ordered
<1> HIDE DEF t, n
<1>3. \A i \in 1..n : <<s[i], e>> \in R
  BY <1>1 DEF ToSet
<1>4. \A i, j \in 1..(n + 1) : i < j => i \in 1..n /\ (j = n + 1 \/ j \in 1..n)
  BY <1>1
<1>5. Ordered(t, R)
  BY <1>1, <1>2, <1>3, <1>4 DEF Ordered
<1> QED BY <1>5 DEF t

-----------------------------------------------------------------------------
\* Concatenation: associative, with the empty sequence as its unit.
LEMMA Concat ==
  ASSUME NEW A, NEW a \in Seq(A), NEW b \in Seq(A), NEW c \in Seq(A)
  PROVE  /\ a \o b \in Seq(A) /\ Len(a \o b) = Len(a) + Len(b) /\ Len(a) \in Nat /\ Len(b) \in Nat
         /\ (a \o b) \o c = a \o (b \o c)
         /\ a \o <<>> = a /\ <<>> \o a = a
  BY ConcatProperties, ConcatAssociative, ConcatEmptySeq

\* g is the recursive function of Joined, up to n.
JoinStep(w, g, n) == g = [i \in 0..n |-> IF i = 0 THEN <<>> ELSE g[i - 1] \o w[i]]

\* There is one.
LEMMA JoinExists ==
  ASSUME NEW w, NEW n \in Nat
  PROVE  \E g : JoinStep(w, g, n)
<1> DEFINE T == {i \in 0..n : \E g : JoinStep(w, g, i)}
<1>1. 0 \in T
  <2>1. JoinStep(w, [i \in 0..0 |-> <<>>], 0)
    BY DEF JoinStep
  <2> QED BY <2>1
<1>2. ASSUME NEW i \in 1..n, i - 1 \in T
      PROVE  i \in T
  <2>1. PICK g : JoinStep(w, g, i - 1)
    BY <1>2
  <2> DEFINE h == [j \in 0..i |-> IF j = i THEN g[i - 1] \o w[i] ELSE g[j]]
  <2>2. \A j \in 0..i : j # 0 => j - 1 \in 0..(i - 1)
    OBVIOUS
  <2>3. \A j \in 0..(i-1) : g[j] = IF j = 0 THEN <<>> ELSE g[j - 1] \o w[j]
    BY <2>1 DEF JoinStep
  <2>4. \A j \in 0..(i-1) : h[j] = g[j]
    OBVIOUS
  <2>5. \A j \in 0..i : h[j] = IF j = 0 THEN <<>> ELSE h[j - 1] \o w[j]
    BY <2>2, <2>3, <2>4
  <2>6. JoinStep(w, h, i)
    BY <2>5 DEF JoinStep
  <2> QED BY <2>6
<1>3. \A i \in 0..n : i \in T
  <2> HIDE DEF T
  <2> QED BY <1>1, <1>2, UpTo
<1> QED BY <1>3

\* Joined is its last value, each value the one before and the next sequence.
LEMMA JoinedSteps ==
  ASSUME NEW A, NEW w \in Seq(Seq(A))
  PROVE  \E g : /\ Joined(w) = g[Len(w)] /\ g[0] = <<>>
                /\ \A i \in 1..Len(w) : g[i] = g[i - 1] \o w[i]
                /\ \A i \in 0..Len(w) : g[i] \in Seq(A)
<1> DEFINE n == Len(w)
           g == CHOOSE f : JoinStep(w, f, n)
<1>0. n \in Nat /\ \A i \in 1..n : w[i] \in Seq(A)
  OBVIOUS
<1>1. JoinStep(w, g, n)
  BY <1>0, JoinExists
<1>2. Joined(w) = g[n]
  BY DEF Joined, JoinStep
<1> HIDE DEF g, n
<1>3. \A i \in 0..n : g[i] = IF i = 0 THEN <<>> ELSE g[i - 1] \o w[i]
  BY <1>1 DEF JoinStep
<1>4. g[0] = <<>> /\ \A i \in 1..n : g[i] = g[i - 1] \o w[i]
  <2>1. 0 \in 0..n /\ \A i \in 1..n : i \in 0..n /\ i # 0
    BY <1>0
  <2> QED BY <1>3, <2>1
<1> DEFINE T == {i \in 0..n : g[i] \in Seq(A)}
<1>5. 0 \in T
  <2>1. 0 \in 0..n /\ <<>> \in Seq(A)
    BY <1>0
  <2> QED BY <2>1, <1>4
<1>6. ASSUME NEW i \in 1..n, i - 1 \in T PROVE i \in T
  <2>1. i \in 0..n /\ g[i - 1] \in Seq(A) /\ w[i] \in Seq(A)
    BY <1>0, <1>6
  <2>2. g[i] \in Seq(A)
    BY <1>4, <2>1, ConcatProperties
  <2> QED BY <2>1, <2>2
<1>7. \A i \in 0..n : i \in T
  <2> HIDE DEF T
  <2> QED BY <1>0, <1>5, <1>6, UpTo
<1> QED BY <1>2, <1>4, <1>7 DEF n

\* Sequences joined are a sequence, and nothing joined is the empty one.
LEMMA JoinedFacts ==
  ASSUME NEW A, NEW w \in Seq(Seq(A))
  PROVE  Joined(w) \in Seq(A) /\ (w = <<>> => Joined(w) = <<>>)
<1>1. Len(w) \in 0..Len(w) /\ (w = <<>> => Len(w) = 0)
  OBVIOUS
<1>2. PICK g : /\ Joined(w) = g[Len(w)] /\ g[0] = <<>>
               /\ \A i \in 0..Len(w) : g[i] \in Seq(A)
  BY JoinedSteps
<1>3. Joined(w) \in Seq(A)
  BY <1>1, <1>2
<1>4. w = <<>> => Joined(w) = g[0]
  BY <1>1, <1>2
<1> QED BY <1>2, <1>3, <1>4

\* One sequence more goes to the end.
LEMMA JoinedAppend ==
  ASSUME NEW A, NEW w \in Seq(Seq(A)), NEW x \in Seq(A)
  PROVE  Joined(Append(w, x)) = Joined(w) \o x
<1> DEFINE n == Len(w)
           u == Append(w, x)
<1>1. /\ n \in Nat /\ u \in Seq(Seq(A)) /\ Len(u) = n + 1 /\ u[n + 1] = x
      /\ \A i \in 1..n : u[i] = w[i] /\ w[i] \in Seq(A)
  BY AppendProperties
<1> HIDE DEF n, u
<1>2. PICK g : /\ Joined(w) = g[n] /\ g[0] = <<>>
               /\ \A i \in 1..n : g[i] = g[i - 1] \o w[i]
               /\ \A i \in 0..n : g[i] \in Seq(A)
  BY JoinedSteps DEF n
<1>3. PICK h : /\ Joined(u) = h[n + 1] /\ h[0] = <<>>
               /\ \A i \in 1..(n + 1) : h[i] = h[i - 1] \o u[i]
  <2>1. PICK h : /\ Joined(u) = h[Len(u)] /\ h[0] = <<>>
                 /\ \A i \in 1..Len(u) : h[i] = h[i - 1] \o u[i]
    <3>1. u \in Seq(Seq(A))
      BY <1>1
    <3>2. PICK h : /\ Joined(u) = h[Len(u)] /\ h[0] = <<>>
                   /\ \A i \in 1..Len(u) : h[i] = h[i - 1] \o u[i]
                   /\ \A i \in 0..Len(u) : h[i] \in Seq(A)
      BY <3>1, JoinedSteps
    <3> QED BY <3>2
  <2> QED BY <1>1, <2>1
<1> DEFINE T == {i \in 0..n : g[i] = h[i]}
<1>4. 0 \in T
  BY <1>1, <1>2, <1>3
<1>5. ASSUME NEW i \in 1..n, i - 1 \in T PROVE i \in T
  <2>1. i \in 0..n /\ i \in 1..(n + 1)
    BY <1>1
  <2>2. g[i - 1] = h[i - 1] /\ u[i] = w[i]
    BY <1>1, <1>5
  <2>3. g[i] = h[i]
    BY <1>2, <1>3, <2>1, <2>2
  <2> QED BY <2>1, <2>3
<1>6. \A i \in 0..n : i \in T
  <2> HIDE DEF T
  <2> QED BY <1>1, <1>4, <1>5, UpTo
<1>7. g[n] = h[n]
  <2>1. n \in 0..n
    BY <1>1
  <2>2. n \in T
    BY <1>6, <2>1
  <2> QED BY <2>2
<1>8. h[n + 1] = h[n] \o x
  <2>1. n + 1 \in 1..(n + 1) /\ (n + 1) - 1 = n
    BY <1>1
  <2> QED BY <1>1, <1>3, <2>1
<1> QED BY <1>2, <1>3, <1>7, <1>8 DEF u

\* Joining two sequences of sequences one after the other.
LEMMA JoinedBoth ==
  ASSUME NEW A, NEW u \in Seq(Seq(A)), NEW w \in Seq(Seq(A))
  PROVE  Joined(u \o w) = Joined(u) \o Joined(w)
<1> DEFINE n == Len(w)
           T == {k \in 0..n : Joined(u \o SubSeq(w, 1, k)) = Joined(u) \o Joined(SubSeq(w, 1, k))}
<1>0. n \in Nat /\ Joined(u) \in Seq(A)
  BY JoinedFacts
<1>1. 0 \in T
  <2>1. 0 \in 0..n /\ SubSeq(w, 1, 0) = <<>>
    BY <1>0, BeginningOf, EmptySeq
  <2>2. PICK z : z = SubSeq(w, 1, 0)
    OBVIOUS
  <2>3. z = <<>> /\ z \in Seq(Seq(A))
    BY <2>1, <2>2
  <2>4. u \o z = u /\ Joined(z) = <<>> /\ Joined(u) \o <<>> = Joined(u)
    BY <1>0, <2>3, ConcatEmptySeq, JoinedFacts
  <2>5. Joined(u \o z) = Joined(u) \o Joined(z)
    BY <2>4
  <2> QED BY <2>1, <2>2, <2>5
<1>2. ASSUME NEW k \in 1..n, k - 1 \in T PROVE k \in T
  <2>1. PICK p : p = SubSeq(w, 1, k - 1)
    OBVIOUS
  <2>2. k - 1 \in 0..n /\ k \in 0..n /\ k \in 1..n
    BY <1>0
  <2>3. /\ SubSeq(w, 1, k) = Append(p, w[k]) /\ w[k] \in Seq(A) /\ p \in Seq(Seq(A))
    BY <2>1, <2>2, BeginningGrows, BeginningOf
  <2>4. PICK x : x = w[k]
    OBVIOUS
  <2>5. Joined(u \o p) = Joined(u) \o Joined(p) /\ x \in Seq(A)
    BY <1>2, <2>1, <2>3, <2>4
  <2>6. u \o Append(p, x) = Append(u \o p, x) /\ u \o p \in Seq(Seq(A))
    <3>0. p \in Seq(Seq(A)) /\ x \in Seq(A)
      BY <2>3, <2>5
    <3>1. /\ Append(p, x) = p \o <<x>> /\ <<x>> \in Seq(Seq(A)) /\ u \o p \in Seq(Seq(A))
      <4> HIDE DEF T, n
      <4>1. Append(p, x) = p \o <<x>>
        BY <3>0, AppendIsConcat
      <4>2. <<x>> \in Seq(Seq(A))
        BY <3>0
      <4>3. u \o p \in Seq(Seq(A))
        BY <3>0, ConcatProperties
      <4> QED BY <4>1, <4>2, <4>3
    <3>2. Append(u \o p, x) = (u \o p) \o <<x>>
      BY <2>5, <3>1, AppendIsConcat
    <3>3. PICK v : v = <<x>>
      OBVIOUS
    <3>5. u \in Seq(Seq(A)) /\ p \in Seq(Seq(A)) /\ v \in Seq(Seq(A))
      BY <2>3, <3>1, <3>3
    <3>4. (u \o p) \o v = u \o (p \o v)
      <4> HIDE DEF T, n
      <4>1. Cat(Cat(u, p), v) = Cat(u, Cat(p, v))
        BY <3>5, CatAssoc
      <4> QED BY <4>1 DEF Cat
    <3> QED BY <3>1, <3>2, <3>3, <3>4
  <2>7. Joined(Append(u \o p, x)) = Joined(u \o p) \o x /\ Joined(Append(p, x)) = Joined(p) \o x
    BY <2>3, <2>5, <2>6, JoinedAppend
  <2>8. (Joined(u) \o Joined(p)) \o x = Joined(u) \o (Joined(p) \o x)
    <3>1. PICK a, b : a = Joined(u) /\ b = Joined(p)
      OBVIOUS
    <3>2. a \in Seq(A) /\ b \in Seq(A)
      BY <1>0, <2>3, <3>1, JoinedFacts
    <3>3. (a \o b) \o x = a \o (b \o x)
      <4>1. x \in Seq(A)
        BY <2>5
      <4> HIDE DEF T, n
      <4>2. Cat(Cat(a, b), x) = Cat(a, Cat(b, x))
        BY <3>2, <4>1, CatAssoc
      <4> QED BY <4>2 DEF Cat
    <3> QED BY <3>1, <3>3
  <2>9. Joined(u \o Append(p, x)) = Joined(u) \o Joined(Append(p, x))
    BY <2>5, <2>6, <2>7, <2>8
  <2>10. SubSeq(w, 1, k) = Append(p, x)
    BY <2>3, <2>4
  <2> QED BY <2>2, <2>9, <2>10
<1>3. \A k \in 0..n : k \in T
  <2> HIDE DEF T, n
  <2> QED BY <1>0, <1>1, <1>2, UpTo
<1>4. SubSeq(w, 1, n) = w /\ n \in 0..n
  BY <1>0, SubSeqFull
<1> QED BY <1>3, <1>4

\* The sum of two sequences one after the other.
LEMMA TotalBoth ==
  ASSUME NEW u \in Seq(Int), NEW w \in Seq(Int)
  PROVE  Total(u \o w) = Total(u) + Total(w)
<1> DEFINE n == Len(w)
           T == {k \in 0..n : Total(u \o SubSeq(w, 1, k)) = Total(u) + Total(SubSeq(w, 1, k))}
<1>0. n \in Nat /\ Total(u) \in Int
  BY TotalFacts
<1>1. 0 \in T
  <2>1. 0 \in 0..n /\ SubSeq(w, 1, 0) = <<>>
    BY <1>0, BeginningOf, EmptySeq
  <2>2. PICK z : z = SubSeq(w, 1, 0)
    OBVIOUS
  <2>3. z = <<>> /\ z \in Seq(Int)
    BY <2>1, <2>2
  <2>4. u \o z = u /\ Total(z) = 0
    BY <2>3, ConcatEmptySeq, TotalFacts
  <2>5. Total(u \o z) = Total(u) + Total(z)
    BY <1>0, <2>4
  <2> QED BY <2>1, <2>2, <2>5
<1>2. ASSUME NEW k \in 1..n, k - 1 \in T PROVE k \in T
  <2>1. PICK p : p = SubSeq(w, 1, k - 1)
    OBVIOUS
  <2>2. k - 1 \in 0..n /\ k \in 0..n /\ k \in 1..n
    BY <1>0
  <2>3. /\ SubSeq(w, 1, k) = Append(p, w[k]) /\ w[k] \in Int /\ p \in Seq(Int)
    BY <2>1, <2>2, BeginningGrows, BeginningOf
  <2>4. PICK x : x = w[k]
    OBVIOUS
  <2>5. Total(u \o p) = Total(u) + Total(p) /\ x \in Int
    BY <1>2, <2>1, <2>3, <2>4
  <2>6. u \o Append(p, x) = Append(u \o p, x) /\ u \o p \in Seq(Int)
    <3>0. p \in Seq(Int) /\ x \in Int
      BY <2>3, <2>5
    <3>1. /\ Append(p, x) = p \o <<x>> /\ <<x>> \in Seq(Int) /\ u \o p \in Seq(Int)
      <4> HIDE DEF T, n
      <4>1. Append(p, x) = p \o <<x>>
        BY <3>0, AppendIsConcat
      <4>2. <<x>> \in Seq(Int)
        BY <3>0
      <4>3. u \o p \in Seq(Int)
        BY <3>0, ConcatProperties
      <4> QED BY <4>1, <4>2, <4>3
    <3>2. Append(u \o p, x) = (u \o p) \o <<x>>
      BY <2>5, <3>1, AppendIsConcat
    <3>3. PICK v : v = <<x>>
      OBVIOUS
    <3>4. (u \o p) \o v = u \o (p \o v)
      <4>1. u \in Seq(Int) /\ p \in Seq(Int) /\ v \in Seq(Int)
        BY <2>3, <3>1, <3>3
      <4> HIDE DEF T, n
      <4>2. Cat(Cat(u, p), v) = Cat(u, Cat(p, v))
        BY <4>1, CatAssoc
      <4> QED BY <4>2 DEF Cat
    <3> QED BY <3>1, <3>2, <3>3, <3>4
  <2>7. Total(Append(u \o p, x)) = Total(u \o p) + x /\ Total(Append(p, x)) = Total(p) + x
    BY <2>3, <2>5, <2>6, TotalAppend
  <2>8. Total(p) \in Int
    BY <2>3, TotalFacts
  <2>9. Total(u \o Append(p, x)) = Total(u) + Total(Append(p, x))
    BY <1>0, <2>5, <2>6, <2>7, <2>8
  <2>10. SubSeq(w, 1, k) = Append(p, x)
    BY <2>3, <2>4
  <2> QED BY <2>2, <2>9, <2>10
<1>3. \A k \in 0..n : k \in T
  <2> HIDE DEF T, n
  <2> QED BY <1>0, <1>1, <1>2, UpTo
<1>4. SubSeq(w, 1, n) = w /\ n \in 0..n
  BY <1>0, SubSeqFull
<1> QED BY <1>3, <1>4

\* Empty sequences joined are empty.
LEMMA JoinedNone ==
  ASSUME NEW A, NEW w \in Seq(Seq(A)), \A i \in 1..Len(w) : w[i] = <<>>
  PROVE  Joined(w) = <<>>
<1>1. PICK n : n = Len(w)
  OBVIOUS
<1>2. PICK g : /\ Joined(w) = g[n] /\ g[0] = <<>>
               /\ \A i \in 1..n : g[i] = g[i - 1] \o w[i]
  <2>1. PICK g : /\ Joined(w) = g[Len(w)] /\ g[0] = <<>>
                 /\ \A i \in 1..Len(w) : g[i] = g[i - 1] \o w[i]
                 /\ \A i \in 0..Len(w) : g[i] \in Seq(A)
    BY JoinedSteps, Zenon
  <2> QED BY <1>1, <2>1
<1> DEFINE T == {i \in 0..n : g[i] = <<>>}
<1>3. n \in Nat /\ \A i \in 1..n : w[i] = <<>> /\ <<>> \in Seq(A)
  BY <1>1
<1>4. 0 \in T
  <2>1. 0 \in 0..n
    BY <1>3
  <2> QED BY <1>2, <2>1
<1>5. ASSUME NEW i \in 1..n, i - 1 \in T PROVE i \in T
  <2>1. g[i - 1] = <<>> /\ i \in 0..n
    BY <1>3, <1>5
  <2>2. PICK z : z = <<>>
    OBVIOUS
  <2>3. z \o z = z
    BY <1>3, <2>2, ConcatEmptySeq
  <2>4. g[i] = z \o z
    BY <1>2, <1>3, <2>1, <2>2
  <2> QED BY <2>1, <2>2, <2>3, <2>4
<1>6. \A i \in 0..n : i \in T
  <2> HIDE DEF T
  <2> QED BY <1>3, <1>4, <1>5, UpTo
<1>7. n \in T
  <2> HIDE DEF T
  <2> QED BY <1>3, <1>6
<1> QED BY <1>2, <1>7

\* Zeros sum to zero.
LEMMA TotalNone ==
  ASSUME NEW w \in Seq(Int), \A i \in 1..Len(w) : w[i] = 0
  PROVE  Total(w) = 0
<1>1. PICK n : n = Len(w)
  OBVIOUS
<1>2. PICK g : /\ Total(w) = g[n] /\ g[0] = 0
               /\ \A i \in 1..n : g[i] = g[i - 1] + w[i]
  BY <1>1, TotalSum
<1> DEFINE T == {i \in 0..n : g[i] = 0}
<1>3. n \in Nat /\ \A i \in 1..n : w[i] = 0
  BY <1>1
<1>4. 0 \in T
  BY <1>2, <1>3
<1>5. ASSUME NEW i \in 1..n, i - 1 \in T PROVE i \in T
  <2>1. g[i - 1] = 0 /\ i \in 0..n /\ w[i] = 0
    BY <1>3, <1>5
  <2>2. g[i] = g[i - 1] + w[i]
    BY <1>2
  <2> QED BY <2>1, <2>2
<1>6. \A i \in 0..n : i \in T
  <2> HIDE DEF T
  <2> QED BY <1>3, <1>4, <1>5, UpTo
<1>7. n \in T
  <2> HIDE DEF T
  <2> QED BY <1>3, <1>6
<1> QED BY <1>2, <1>7

\* A sum of natural numbers is one.
LEMMA TotalNat ==
  ASSUME NEW w \in Seq(Int), \A i \in 1..Len(w) : w[i] \in Nat
  PROVE  Total(w) \in Nat
<1>1. PICK n : n = Len(w)
  OBVIOUS
<1>2. PICK g : /\ Total(w) = g[n] /\ g[0] = 0
               /\ \A i \in 1..n : g[i] = g[i - 1] + w[i]
  BY <1>1, TotalSum
<1> DEFINE T == {i \in 0..n : g[i] \in Nat}
<1>3. n \in Nat /\ \A i \in 1..n : w[i] \in Nat
  BY <1>1
<1>4. 0 \in T
  BY <1>2, <1>3
<1>5. ASSUME NEW i \in 1..n, i - 1 \in T PROVE i \in T
  <2>1. g[i - 1] \in Nat /\ i \in 0..n /\ w[i] \in Nat
    BY <1>3, <1>5
  <2>2. g[i] = g[i - 1] + w[i]
    BY <1>2
  <2> QED BY <2>1, <2>2
<1>6. \A i \in 0..n : i \in T
  <2> HIDE DEF T
  <2> QED BY <1>3, <1>4, <1>5, UpTo
<1>7. n \in T
  <2> HIDE DEF T
  <2> QED BY <1>3, <1>6
<1> QED BY <1>2, <1>7

\* The elements of two sequences one after the other.
LEMMA SetBoth ==
  ASSUME NEW A, NEW s \in Seq(A), NEW r \in Seq(A)
  PROVE  ToSet(s \o r) = ToSet(s) \cup ToSet(r)
<1>1. PICK q : q = s \o r
  OBVIOUS
<1>2. /\ q \in Seq(A) /\ Len(q) = Len(s) + Len(r) /\ Len(s) \in Nat /\ Len(r) \in Nat
      /\ \A i \in 1..(Len(s) + Len(r)) : q[i] = IF i <= Len(s) THEN s[i] ELSE r[i - Len(s)]
  BY <1>1, ConcatProperties
<1>3. PICK m, n : m = Len(s) /\ n = Len(r)
  OBVIOUS
<1>4. /\ DOMAIN q = 1..(m + n) /\ DOMAIN s = 1..m /\ DOMAIN r = 1..n /\ m \in Nat /\ n \in Nat
      /\ \A i \in 1..(m + n) : q[i] = IF i <= m THEN s[i] ELSE r[i - m]
  BY <1>2, <1>3
<1>5. ASSUME NEW x \in ToSet(q) PROVE x \in ToSet(s) \cup ToSet(r)
  <2>1. PICK i \in 1..(m + n) : x = q[i]
    BY <1>4 DEF ToSet
  <2>2. CASE i <= m
    <3>1. i \in 1..m /\ x = s[i]
      BY <1>4, <2>1, <2>2
    <3> QED BY <1>4, <3>1 DEF ToSet
  <2>3. CASE ~(i <= m)
    <3>1. i - m \in 1..n /\ x = r[i - m]
      BY <1>4, <2>1, <2>3
    <3> QED BY <1>4, <3>1 DEF ToSet
  <2> QED BY <2>2, <2>3
<1>6. ASSUME NEW x \in ToSet(s) PROVE x \in ToSet(q)
  <2>1. PICK i \in 1..m : x = s[i]
    BY <1>4 DEF ToSet
  <2>2. i \in 1..(m + n) /\ q[i] = s[i]
    BY <1>4
  <2> QED BY <1>4, <2>1, <2>2 DEF ToSet
<1>7. ASSUME NEW x \in ToSet(r) PROVE x \in ToSet(q)
  <2>1. PICK i \in 1..n : x = r[i]
    BY <1>4 DEF ToSet
  <2>2. m + i \in 1..(m + n) /\ q[m + i] = r[i]
    <3>1. m + i \in 1..(m + n) /\ ~(m + i <= m) /\ (m + i) - m = i
      BY <1>4
    <3> QED BY <1>4, <3>1
  <2> QED BY <1>4, <2>1, <2>2 DEF ToSet
<1> QED BY <1>1, <1>5, <1>6, <1>7

\* One sequence joined is that sequence.
LEMMA JoinedOne ==
  ASSUME NEW A, NEW x \in Seq(A)
  PROVE  Joined(<<x>>) = x
<1>1. PICK z : z = <<>>
  OBVIOUS
<1>2. z \in Seq(Seq(A))
  BY <1>1
<1>3. Joined(z) = <<>>
  BY <1>1, <1>2, JoinedFacts
<1>4. Append(z, x) = <<x>>
  BY <1>1
<1>5. Joined(Append(z, x)) = Joined(z) \o x
  BY <1>2, JoinedAppend
<1>6. <<>> \o x = x
  BY ConcatEmptySeq
<1> QED BY <1>3, <1>4, <1>5, <1>6

\* One number sums to itself.
LEMMA TotalOne ==
  ASSUME NEW x \in Int
  PROVE  Total(<<x>>) = x
<1>1. PICK z : z = <<>>
  OBVIOUS
<1>2. z \in Seq(Int)
  BY <1>1
<1>3. Total(z) = 0
  BY <1>1, <1>2, TotalFacts
<1>4. Append(z, x) = <<x>>
  BY <1>1
<1>5. Total(Append(z, x)) = Total(z) + x
  BY <1>2, TotalAppend
<1> QED BY <1>3, <1>4, <1>5

\* A sequence begins with its head.
LEMMA HeadFirst ==
  ASSUME NEW A, NEW s \in Seq(A), s # <<>>
  PROVE  s = <<Head(s)>> \o Tail(s) /\ Head(s) \in A /\ Tail(s) \in Seq(A)
  BY HeadTailProperties, ConcatSimplifications

-----------------------------------------------------------------------------
\* The least of two numbers.
LEMMA MinOfTwo ==
  ASSUME NEW a \in Int, NEW b \in Int
  PROVE  Min({a, b}) = IF a <= b THEN a ELSE b
<1> DEFINE m == IF a <= b THEN a ELSE b
<1>1. m \in {a, b} /\ \A y \in {a, b} : m <= y
  OBVIOUS
<1>2. \A x \in {a, b} : (\A y \in {a, b} : x <= y) => x = m
  OBVIOUS
<1>3. Min({a, b}) = CHOOSE x \in {a, b} : \A y \in {a, b} : x <= y
  BY DEF Min
<1> QED BY <1>1, <1>2, <1>3

\* The greatest of two numbers.
LEMMA MaxOfTwo ==
  ASSUME NEW a \in Int, NEW b \in Int
  PROVE  Max({a, b}) = IF a <= b THEN b ELSE a
<1> DEFINE m == IF a <= b THEN b ELSE a
<1>1. m \in {a, b} /\ \A y \in {a, b} : m >= y
  OBVIOUS
<1>2. \A x \in {a, b} : (\A y \in {a, b} : x >= y) => x = m
  OBVIOUS
<1>3. Max({a, b}) = CHOOSE x \in {a, b} : \A y \in {a, b} : x >= y
  BY DEF Max
<1> QED BY <1>1, <1>2, <1>3
=============================================================================
