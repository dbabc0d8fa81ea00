------------------------------- MODULE RunLife -------------------------------
(***************************************************************************)
(* What a client is promised about each run it submits: one answer.  A run *)
(* with work left after its value is answered early and then completed     *)
(* once; nothing is said about a run after that.                           *)
(***************************************************************************)
CONSTANT Runs
VARIABLE stage

Init == stage = [r \in Runs |-> "new"]

Submit(r)   == stage[r] = "new" /\ stage' = [stage EXCEPT ![r] = "waiting"]

Early(r)    == stage[r] = "waiting" /\ stage' = [stage EXCEPT ![r] = "background"]

(* An instance that dies answers all its runs at once. *)
Complete(S) ==
  /\ \A r \in S : stage[r] \in {"waiting", "background"}
  /\ stage' = [r \in Runs |-> IF r \in S THEN "answered" ELSE stage[r]]

Next ==
  \/ \E r \in Runs : Submit(r) \/ Early(r)
  \/ \E S \in SUBSET Runs : Complete(S)

Spec == Init /\ [][Next]_stage
=============================================================================
