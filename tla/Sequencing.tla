----------------------------- MODULE Sequencing -----------------------------
(***************************************************************************)
(* A filter, a sum and a concatenation over sequences, as recursive        *)
(* functions that a proof can unfold.                                      *)
(***************************************************************************)
EXTENDS Naturals, Sequences

\* What is left of s when every element outside S is spliced out.
Sift(s, S) ==
  LET left[i \in 0..Len(s)] ==
        IF i = 0 THEN <<>>
        ELSE IF s[i] \in S THEN Append(left[i - 1], s[i]) ELSE left[i - 1]
  IN left[Len(s)]

\* The sum of a sequence of numbers.
Total(w) ==
  LET sum[i \in 0..Len(w)] == IF i = 0 THEN 0 ELSE sum[i - 1] + w[i]
  IN sum[Len(w)]

\* A sequence of sequences, one after the other.
Joined(w) ==
  LET join[i \in 0..Len(w)] == IF i = 0 THEN <<>> ELSE join[i - 1] \o w[i]
  IN join[Len(w)]
=============================================================================
