---------------------------- MODULE FrameChannel ----------------------------
(***************************************************************************)
(* What one direction of a connection promises the runs that share it: the *)
(* frames it accepts are delivered whole, in the order they were accepted, *)
(* until the channel closes.  The outbox (ipc.rs) implements it.           *)
(***************************************************************************)
EXTENDS Naturals, Sequences

CONSTANT Frames

VARIABLES
  sent,   \* the frames accepted so far
  got,    \* the frames delivered so far
  open    \* the channel still carries frames

cvars == <<sent, got, open>>

Init == sent = <<>> /\ got = <<>> /\ open = TRUE

Accept(f) ==
  /\ open
  /\ sent' = Append(sent, f)
  /\ UNCHANGED <<got, open>>

Deliver ==
  /\ open
  /\ Len(got) < Len(sent)
  /\ got' = Append(got, sent[Len(got) + 1])
  /\ UNCHANGED <<sent, open>>

Close ==
  /\ open
  /\ open' = FALSE
  /\ UNCHANGED <<sent, got>>

Next == Deliver \/ Close \/ \E f \in Frames : Accept(f)

Spec == Init /\ [][Next]_cvars

\* What is accepted is delivered, unless the channel closes.
FairSpec == Spec /\ WF_cvars(Deliver)
=============================================================================
