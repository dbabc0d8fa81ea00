-------------------------- MODULE TurnGuardProofs ---------------------------
(***************************************************************************)
(* Machine-checked proofs about TurnGuard.                                 *)
(***************************************************************************)
EXTENDS TurnGuard, TLAPS

InTurn == {"arming", "js", "clearing", "cleared", "closing", "verdict"}

\* The guard is armed for the owner or for nobody, never between turns, and a
\* turn's run is neither parked nor over.
TurnShape ==
  /\ target = executing
  /\ target # NoRun => target = owner /\ pc \in {"arming", "js", "clearing", "closing"}
  /\ pc \in InTurn => /\ owner \in Runs /\ owner \notin live
                      /\ phase[owner] \in {"settling", "grace"}
  /\ pc = "sweep" => owner \in Runs /\ phase[owner] = "done"
  /\ \A r \in live : phase[r] \in {"settling", "grace"}
  /\ pc = "js" => verdict \in {"none", "frame"}
  /\ pc \in {"clearing", "cleared"} => verdict = "none"
  /\ pc = "arming" => verdict \in {"none", "frame", "ok", "aborted"}
  /\ pc = "closing" => verdict # "frame"
  /\ pc = "verdict" => verdict # "frame"
  /\ routed \subseteq asked
  /\ pc \in InTurn => generation > 0

\* The turn of run r may end as aborted.
MayAbort(r) == r \in asked \/ "bridge" \in over[r] \/ CutByRider(r)

\* Run r has done, or suffered from a rider, what the error or reason names.
Deserves(r, why) ==
  /\ why = "cpu" => over[r] \cap {"cpu", "graceCpu"} # {}
  /\ why = "wall" => "wall" \in over[r]
  /\ why = "memory" => "memory" \in over[r]
  /\ why = "abort" => r \in asked
  /\ why = "aborted" => MayAbort(r)

\* Every trace of a kill is the doing of the run whose turn it is, or of a run
\* that rides in it, and is gone between turns.
Blame ==
  /\ pc = "loop" => reason = "none" /\ ~bare /\ ~term
  /\ pc \in InTurn => /\ Deserves(owner, reason)
                      /\ bare => "bridge" \in over[owner] \/ CutByRider(owner)
                      /\ term => reason # "none" \/ bare
  /\ pc \in {"arming", "closing", "verdict"} => Deserves(owner, verdict)
  /\ pc \in {"closing", "verdict"} /\ verdict = "aborted"
       => owner \in asked \/ bare
  /\ pc = "arming" /\ verdict = "aborted" => owner \in asked
  /\ pc = "sweep" => over[owner] # {} \/ owner \in asked \/ CutByRider(owner)

\* Only the sweep resets, and until the turn that taints the instance nobody
\* has paid for a rider.
Settled ==
  /\ \A r \in Runs : result[r] = "reset" => pc = "dead" /\ culprit[r] \in Runs
  /\ \A r \in Runs : culprit[r] # NoRun => pc = "dead"
  /\ pc = "loop" \/ pc \in InTurn =>
       \A r \in Runs : result[r] = "aborted" => r \in asked \/ "bridge" \in over[r]
  /\ pc = "sweep" =>
       \A r \in Runs \ {owner} :
         result[r] = "aborted" => r \in asked \/ "bridge" \in over[r]

\* A run whose abort was consumed is over, or is in the turn that ends it.
KilledEnds ==
  \A r \in killed :
    \/ phase[r] = "done"
    \/ /\ r = owner /\ pc \in InTurn
       /\ reason # "none" \/ verdict \in {"ok", "aborted"}

\* The inductive invariant.
GuardInv == TypeOK /\ TurnShape /\ Blame /\ Settled /\ KilledEnds /\ NoInnocentKill
-----------------------------------------------------------------------------
\* What the watchdog may write.
LEMMA SpentDeserved ==
  ASSUME TypeOK, NEW r \in Runs,
         Budgets(r) \cap over[r] # {}
  PROVE  Deserves(r, IF Budgets(r) \cap over[r] = {"wall"} THEN "wall" ELSE "cpu")
<1>1. Budgets(r) \subseteq {"cpu", "wall", "graceCpu"}
  BY DEF Budgets
<1>2. CASE Budgets(r) \cap over[r] = {"wall"}
  BY <1>2 DEF Deserves
<1>3. CASE Budgets(r) \cap over[r] # {"wall"}
  <2>1. over[r] \cap {"cpu", "graceCpu"} # {}
    BY <1>1, <1>3
  <2> QED BY <2>1, <1>3 DEF Deserves
<1> QED BY <1>2, <1>3

LEMMA GuardInit == Init => GuardInv
<1> SUFFICES ASSUME Init PROVE GuardInv
  OBVIOUS
<1> USE GuardAssumptions DEF Init, GuardAssumptions
<1>1. TypeOK
  BY DEF TypeOK, Verdicts, Reasons, Phases, Outcomes, Excesses
<1>2. TurnShape
  BY DEF TurnShape, InTurn
<1>3. Blame /\ Settled
  BY DEF Blame, Settled, InTurn
<1>4. KilledEnds
  BY DEF KilledEnds
<1>5. NoInnocentKill
  BY DEF NoInnocentKill
<1> QED
  BY <1>1, <1>2, <1>3, <1>4, <1>5 DEF GuardInv
-----------------------------------------------------------------------------
\* Typing, action by action.
LEMMA TypeStep == TypeOK /\ TurnShape /\ [Next]_vars => TypeOK'
<1> SUFFICES ASSUME TypeOK, TurnShape, [Next]_vars PROVE TypeOK'
  OBVIOUS
<1> USE GuardAssumptions DEF TypeOK, GuardAssumptions
<1>1. CASE UNCHANGED vars
  BY <1>1 DEF vars, ownerVars, guardVars, killVars, dogVars, hostVars
<1>2. CASE Register
  <2>1. entries' \subseteq Nat \ {0}
    BY <1>2 DEF Register, TurnShape, InTurn
  <2>2. pc' \in {"js", "closing"}
    BY <1>2 DEF Register
  <2> QED
    BY <1>2, <2>1, <2>2 DEF Register, guardVars, killVars, hostVars
<1>3. CASE GraceClear
  BY <1>3 DEF GraceClear, Disarm, killVars, dogVars, hostVars
<1>4. CASE GraceEnter
  <2>1. owner \in Runs
    BY <1>4 DEF GraceEnter, TurnShape, InTurn
  <2>2. term' \in BOOLEAN /\ bare' \in BOOLEAN
    BY <1>4 DEF GraceEnter
  <2>3. reason' \in Reasons
    BY <1>4 DEF GraceEnter, Reasons
  <2>4. verdict' \in Verdicts /\ pc' \in {"closing", "arming"}
    BY <1>4 DEF GraceEnter, Verdicts
  <2>5. phase' \in [Runs -> Phases] /\ early' \subseteq Runs
    BY <1>4, <2>1 DEF GraceEnter, Phases
  <2>6. /\ target' \in Runs \cup {NoRun} /\ executing' \in Runs \cup {NoRun}
        /\ generation' \in Nat
    BY <1>4, <2>1 DEF GraceEnter, Arm, guardVars
  <2> QED
    BY <1>4, <2>2, <2>3, <2>4, <2>5, <2>6 DEF GraceEnter, dogVars, hostVars
<1>5. CASE CloseTurn
  BY <1>5 DEF CloseTurn, Disarm, killVars, dogVars, hostVars
<1>6. CASE TurnVerdict
  <2>1. owner \in Runs
    BY <1>6 DEF TurnVerdict, TurnShape, InTurn
  <2>2. term' \in BOOLEAN
    BY <1>6 DEF TurnVerdict
  <2>3. pc' \in {"loop", "sweep"} /\ live' \subseteq Runs
    BY <1>6, <2>1 DEF TurnVerdict
  <2>4. Classified \in Outcomes /\ (verdict # "park" => verdict \in Outcomes)
    BY <1>6 DEF TurnVerdict, TurnShape, Classified, Outcomes, Verdicts
  <2>5. result' \in [Runs -> Outcomes]
    BY <1>6, <2>1, <2>4 DEF TurnVerdict, Conclude
  <2>6. phase' \in [Runs -> Phases]
    BY <1>6, <2>1 DEF TurnVerdict, Conclude, Phases
  <2> QED
    BY <1>6, <2>2, <2>3, <2>5, <2>6 DEF TurnVerdict, guardVars, dogVars, hostVars
<1>7. ASSUME NEW queued \in SUBSET Runs, Sweep(queued) PROVE TypeOK'
  <2>1. owner \in Runs
    BY <1>7 DEF Sweep, TurnShape
  <2>2. result' \in [Runs -> Outcomes]
    BY <1>7 DEF Sweep, Outcomes
  <2>3. phase' \in [Runs -> Phases]
    BY <1>7 DEF Sweep, Phases
  <2>4. culprit' \in [Runs -> Runs \cup {NoRun}]
    BY <1>7, <2>1 DEF Sweep
  <2> QED
    BY <1>7, <2>2, <2>3, <2>4 DEF Sweep, guardVars, killVars, dogVars
<1>8. CASE Burn \/ SelfKill \/ \E b \in Runs : BridgeViolation(b)
  <2>1. owner \in Runs
    BY <1>8 DEF Burn, SelfKill, BridgeViolation, TurnShape, InTurn
  <2>2. over' \in [Runs -> SUBSET Excesses]
    BY <1>8, <2>1 DEF Burn, SelfKill, BridgeViolation, Excesses
  <2>3. reason' \in Reasons
    BY <1>8 DEF Burn, SelfKill, BridgeViolation, SetReason, killVars, Reasons
  <2>4. term' \in BOOLEAN /\ bare' \in BOOLEAN
    BY <1>8 DEF Burn, SelfKill, BridgeViolation, killVars
  <2> QED
    BY <1>8, <2>2, <2>3, <2>4
       DEF Burn, SelfKill, BridgeViolation, ownerVars, guardVars, dogVars, hostVars
<1>9. CASE LoseTerminate
  BY <1>9 DEF LoseTerminate, ownerVars, guardVars, dogVars, hostVars
<1>10. CASE JsEnds
  <2>1. verdict' \in Verdicts /\ pc' \in {"closing", "clearing"}
    BY <1>10 DEF JsEnds, GraceLook, SettlingLook, Classified, Verdicts, Reasons
  <2>2. term' \in BOOLEAN
    BY <1>10 DEF JsEnds, GraceLook, SettlingLook
  <2> QED
    BY <1>10, <2>1, <2>2 DEF JsEnds, guardVars, dogVars, hostVars
<1>11. CASE CheckDeadline
  <2>1. reason' \in Reasons
    BY <1>11 DEF CheckDeadline, SetReason, Reasons
  <2>2. term' \in BOOLEAN
    BY <1>11 DEF CheckDeadline
  <2>3. entries' \subseteq Nat \ {0} /\ popped' \in Nat
    BY <1>11 DEF CheckDeadline
  <2> QED
    BY <1>11, <2>1, <2>2, <2>3 DEF CheckDeadline, ownerVars, guardVars, hostVars
<1>12. ASSUME NEW g \in entries, Pop(g) PROVE TypeOK'
  BY <1>12 DEF Pop, ownerVars, guardVars, killVars, hostVars
<1>13. ASSUME NEW r \in Runs, Dispatch(r) PROVE TypeOK'
  <2>1. reason' \in Reasons
    BY <1>13 DEF Dispatch, Reasons
  <2>2. bare' \in BOOLEAN
    BY <1>13 DEF Dispatch
  <2>3. phase' \in [Runs -> Phases]
    BY <1>13 DEF Dispatch, Phases
  <2>4. verdict' \in Verdicts
    BY <1>13 DEF Dispatch, Verdicts
  <2> QED
    BY <1>13, <2>1, <2>2, <2>3, <2>4 DEF Dispatch, Arm, dogVars, hostVars
<1>14. ASSUME NEW r \in Runs, BeginTurn(r) \/ AbandonTurn(r) PROVE TypeOK'
  <2>1. verdict' \in Verdicts
    BY <1>14 DEF BeginTurn, AbandonTurn, Verdicts
  <2>2. CASE BeginTurn(r)
    BY <2>1, <2>2 DEF BeginTurn, Arm, killVars, dogVars, hostVars
  <2>3. CASE AbandonTurn(r)
    BY <2>1, <2>3 DEF AbandonTurn, Arm, killVars, dogVars
  <2> QED
    BY <1>14, <2>2, <2>3
<1>15. ASSUME NEW r \in Runs, WallPasses(r) PROVE TypeOK'
  <2>1. over' \in [Runs -> SUBSET Excesses]
    BY <1>15 DEF WallPasses, Excesses
  <2> QED
    BY <1>15, <2>1 DEF WallPasses, ownerVars, guardVars, killVars, dogVars, hostVars
<1>16. ASSUME NEW r \in Runs, DropLate(r) PROVE TypeOK'
  BY <1>16 DEF DropLate, ownerVars, guardVars, killVars, dogVars
<1>17. ASSUME NEW r \in Runs, BoundaryDeadline(r) \/ BoundaryClose(r) PROVE TypeOK'
  <2>1. phase' \in [Runs -> Phases]
    BY <1>17 DEF BoundaryDeadline, BoundaryClose, Conclude, Phases
  <2>2. result' \in [Runs -> Outcomes]
    BY <1>17 DEF BoundaryDeadline, BoundaryClose, Conclude, Outcomes, Verdicts
  <2> QED
    BY <1>17, <2>1, <2>2
       DEF BoundaryDeadline, BoundaryClose, guardVars, killVars, dogVars, hostVars
<1>18. ASSUME NEW r \in Runs, NEW hard \in BOOLEAN, Terminate(r, hard) PROVE TypeOK'
  <2>1. reason' \in Reasons
    BY <1>18 DEF Terminate, AbortExecuting, Route, SetReason, Reasons
  <2>2. term' \in BOOLEAN
    BY <1>18 DEF Terminate, AbortExecuting, Route
  <2>3. killed' \subseteq Runs /\ routed' \subseteq Runs
    BY <1>18 DEF Terminate, AbortExecuting, Route
  <2> QED
    BY <1>18, <2>1, <2>2, <2>3 DEF Terminate, ownerVars, guardVars, dogVars
<1>19. CASE FrameFails
  <2>1. verdict' \in Verdicts /\ pc' = "closing"
    BY <1>19 DEF FrameFails, Classified, Verdicts, Reasons
  <2> QED
    BY <1>19, <2>1 DEF FrameFails, guardVars, killVars, dogVars, hostVars
<1> QED
  BY <1>1, <1>2, <1>3, <1>4, <1>5, <1>6, <1>7, <1>8, <1>9, <1>10, <1>11, <1>12,
     <1>13, <1>14, <1>15, <1>16, <1>17, <1>18, <1>19
     DEF Next, OwnerTail, GuestStep, DogStep
-----------------------------------------------------------------------------
\* Who is armed, who is parked, which runs are over.
LEMMA ShapeStep == TypeOK /\ TurnShape /\ [Next]_vars => TurnShape'
<1> SUFFICES ASSUME TypeOK, TurnShape, [Next]_vars PROVE TurnShape'
  OBVIOUS
<1> USE GuardAssumptions DEF TypeOK, TurnShape, InTurn, GuardAssumptions
<1>1. CASE UNCHANGED vars
  BY <1>1 DEF vars, ownerVars, guardVars, hostVars
<1>2. CASE Register
  BY <1>2 DEF Register, guardVars, hostVars
<1>3. CASE GraceClear
  BY <1>3 DEF GraceClear, Disarm, hostVars
<1>4. CASE GraceEnter
  BY <1>4 DEF GraceEnter, Arm, guardVars, hostVars
<1>5. CASE CloseTurn
  BY <1>5 DEF CloseTurn, Disarm, hostVars
<1>6. CASE TurnVerdict
  BY <1>6 DEF TurnVerdict, Conclude, guardVars, hostVars
<1>7. ASSUME NEW queued \in SUBSET Runs, Sweep(queued) PROVE TurnShape'
  BY <1>7 DEF Sweep, guardVars
<1>8. CASE Burn \/ SelfKill \/ LoseTerminate \/ \E b \in Runs : BridgeViolation(b)
  BY <1>8 DEF Burn, SelfKill, BridgeViolation, LoseTerminate, ownerVars, guardVars, hostVars
<1>9. CASE JsEnds \/ FrameFails
  BY <1>9 DEF JsEnds, GraceLook, SettlingLook, FrameFails, Classified, guardVars, hostVars
<1>10. CASE CheckDeadline \/ \E g \in entries : Pop(g)
  BY <1>10 DEF CheckDeadline, Pop, ownerVars, guardVars, hostVars
<1>11. ASSUME NEW r \in Runs, Dispatch(r) PROVE TurnShape'
  BY <1>11 DEF Dispatch, Arm, hostVars
<1>12. ASSUME NEW r \in Runs, BeginTurn(r) PROVE TurnShape'
  BY <1>12 DEF BeginTurn, Arm, hostVars
<1>13. ASSUME NEW r \in Runs, AbandonTurn(r) PROVE TurnShape'
  BY <1>13 DEF AbandonTurn, Arm
<1>14. ASSUME NEW r \in Runs, WallPasses(r) \/ DropLate(r) PROVE TurnShape'
  BY <1>14 DEF WallPasses, DropLate, ownerVars, guardVars, hostVars
<1>15. ASSUME NEW r \in Runs, BoundaryDeadline(r) \/ BoundaryClose(r) PROVE TurnShape'
  BY <1>15 DEF BoundaryDeadline, BoundaryClose, Conclude, guardVars, hostVars
<1>16. ASSUME NEW r \in Runs, NEW hard \in BOOLEAN, Terminate(r, hard) PROVE TurnShape'
  BY <1>16 DEF Terminate, AbortExecuting, Route, ownerVars, guardVars
<1> QED
  BY <1>1, <1>2, <1>3, <1>4, <1>5, <1>6, <1>7, <1>8, <1>9, <1>10, <1>11, <1>12,
     <1>13, <1>14, <1>15, <1>16
     DEF Next, OwnerTail, GuestStep, DogStep
-----------------------------------------------------------------------------
\* A consumed abort survives every look at the reason cell.
LEMMA KilledStep == TypeOK /\ TurnShape /\ KilledEnds /\ [Next]_vars => KilledEnds'
<1> SUFFICES ASSUME TypeOK, TurnShape, KilledEnds, [Next]_vars PROVE KilledEnds'
  OBVIOUS
<1> USE GuardAssumptions DEF TypeOK, TurnShape, KilledEnds, InTurn, GuardAssumptions
<1>1. CASE UNCHANGED vars
  BY <1>1 DEF vars, ownerVars, killVars, hostVars
<1>2. CASE Register
  BY <1>2 DEF Register, killVars, hostVars
<1>3. CASE GraceClear
  BY <1>3 DEF GraceClear, killVars, hostVars
<1>4. CASE GraceEnter
  BY <1>4 DEF GraceEnter, hostVars
<1>5. CASE CloseTurn
  BY <1>5 DEF CloseTurn, killVars, hostVars
<1>6. CASE TurnVerdict
  BY <1>6 DEF TurnVerdict, Conclude, Tainted, hostVars
<1>7. ASSUME NEW queued \in SUBSET Runs, Sweep(queued) PROVE KilledEnds'
  BY <1>7 DEF Sweep
<1>8. CASE Burn \/ SelfKill \/ LoseTerminate \/ \E b \in Runs : BridgeViolation(b)
  BY <1>8 DEF Burn, SelfKill, BridgeViolation, LoseTerminate, SetReason, ownerVars,
              killVars, hostVars
<1>9. CASE JsEnds \/ FrameFails
  BY <1>9 DEF JsEnds, GraceLook, SettlingLook, FrameFails, Classified, killVars, hostVars
<1>10. CASE CheckDeadline \/ \E g \in entries : Pop(g)
  BY <1>10 DEF CheckDeadline, Pop, SetReason, ownerVars, killVars, hostVars
<1>11. ASSUME NEW r \in Runs, Dispatch(r) PROVE KilledEnds'
  BY <1>11 DEF Dispatch, hostVars
<1>12. ASSUME NEW r \in Runs, BeginTurn(r) \/ AbandonTurn(r) PROVE KilledEnds'
  BY <1>12 DEF BeginTurn, AbandonTurn, hostVars
<1>13. ASSUME NEW r \in Runs, WallPasses(r) \/ DropLate(r) PROVE KilledEnds'
  BY <1>13 DEF WallPasses, DropLate, ownerVars, killVars, hostVars
<1>14. ASSUME NEW r \in Runs, BoundaryDeadline(r) \/ BoundaryClose(r) PROVE KilledEnds'
  BY <1>14 DEF BoundaryDeadline, BoundaryClose, Conclude, killVars, hostVars
<1>15. ASSUME NEW r \in Runs, NEW hard \in BOOLEAN, Terminate(r, hard) PROVE KilledEnds'
  BY <1>15 DEF Terminate, AbortExecuting, Route, SetReason, ownerVars
<1> QED
  BY <1>1, <1>2, <1>3, <1>4, <1>5, <1>6, <1>7, <1>8, <1>9, <1>10, <1>11, <1>12,
     <1>13, <1>14, <1>15
     DEF Next, OwnerTail, GuestStep, DogStep
-----------------------------------------------------------------------------
\* What a run has done is never forgotten.
LEMMA ExcessGrows ==
  ASSUME TypeOK, TurnShape, [Next]_vars
  PROVE  asked \subseteq asked' /\ \A r \in Runs : over[r] \subseteq over'[r]
<1> USE DEF TypeOK
<1>1. CASE Burn \/ SelfKill \/ \E b \in Runs : BridgeViolation(b)
  BY <1>1 DEF Burn, SelfKill, BridgeViolation, hostVars
<1>2. ASSUME NEW r \in Runs, WallPasses(r) \/ \E hard \in BOOLEAN : Terminate(r, hard)
      PROVE  asked \subseteq asked' /\ \A q \in Runs : over[q] \subseteq over'[q]
  BY <1>2 DEF WallPasses, Terminate, hostVars
<1>3. CASE UNCHANGED vars
  BY <1>3 DEF vars, hostVars
<1>4. CASE OwnerTail
  BY <1>4 DEF OwnerTail, Register, FrameFails, GraceClear, GraceEnter, CloseTurn, TurnVerdict, Sweep,
              hostVars
<1>5. CASE LoseTerminate \/ JsEnds \/ DogStep
  BY <1>5 DEF LoseTerminate, JsEnds, DogStep, CheckDeadline, Pop, hostVars
<1>6. ASSUME NEW r \in Runs,
             \/ Dispatch(r) \/ BeginTurn(r) \/ AbandonTurn(r)
             \/ BoundaryDeadline(r) \/ BoundaryClose(r) \/ DropLate(r)
      PROVE  asked \subseteq asked' /\ \A q \in Runs : over[q] \subseteq over'[q]
  BY <1>6 DEF Dispatch, BeginTurn, AbandonTurn, BoundaryDeadline, BoundaryClose, DropLate,
              hostVars
<1> QED
  BY <1>1, <1>2, <1>3, <1>4, <1>5, <1>6 DEF Next, GuestStep

\* Riders stay parked while a turn runs, and a rider's debt is never forgotten.
LEMMA CutGrows ==
  ASSUME TypeOK, [Next]_vars,
         live' = live, owner' = owner, culprit' = culprit,
         \A r \in Runs : over[r] \subseteq over'[r]
  PROVE  \A r \in Runs : CutByRider(r) => CutByRider(r)'
  BY DEF CutByRider

\* A reason is written only by or against the run whose turn it is, a bare
\* terminate by it or by a rider, and both are cleared, or end the instance,
\* before the next turn.
LEMMA BlameStep == TypeOK /\ TurnShape /\ Blame /\ [Next]_vars => Blame'
<1> SUFFICES ASSUME TypeOK, TurnShape, Blame, [Next]_vars PROVE Blame'
  OBVIOUS
<1>a. asked \subseteq asked' /\ \A r \in Runs : over[r] \subseteq over'[r]
  BY ExcessGrows
<1>b. live' = live /\ owner' = owner /\ culprit' = culprit
        => \A r \in Runs : CutByRider(r) => CutByRider(r)'
  BY <1>a, CutGrows
<1> USE GuardAssumptions, <1>a, <1>b DEF TypeOK, TurnShape, Blame, InTurn, GuardAssumptions,
                                         Deserves, MayAbort
<1>1. CASE UNCHANGED vars
  BY <1>1 DEF vars, ownerVars, killVars, hostVars
<1>2. CASE Register
  BY <1>2 DEF Register, killVars
<1>3. CASE GraceClear
  BY <1>3 DEF GraceClear, killVars
<1>4. CASE GraceEnter
  BY <1>4 DEF GraceEnter
<1>5. CASE CloseTurn
  BY <1>5 DEF CloseTurn, killVars
<1>6. CASE TurnVerdict
  <2>1. pc' = "loop" => reason' = "none" /\ ~bare' /\ ~term'
    BY <1>6 DEF TurnVerdict, Tainted
  <2>2. pc' = "sweep" => over'[owner'] # {} \/ owner' \in asked' \/ CutByRider(owner)'
    <3> SUFFICES ASSUME pc' = "sweep"
                 PROVE  over'[owner'] # {} \/ owner' \in asked' \/ CutByRider(owner)'
      OBVIOUS
    <3>1. pc = "verdict" /\ live' = live /\ owner' = owner /\ culprit' = culprit
      BY <1>6 DEF TurnVerdict
    <3>2. reason # "none" \/ bare
      BY <1>6 DEF TurnVerdict, Tainted
    <3>3. CASE reason # "none"
      BY <3>1, <3>3 DEF Reasons
    <3>4. CASE bare
      BY <3>1, <3>4
    <3> QED
      BY <3>2, <3>3, <3>4
  <2> QED
    BY <1>6, <2>1, <2>2 DEF TurnVerdict
<1>7. ASSUME NEW queued \in SUBSET Runs, Sweep(queued) PROVE Blame'
  BY <1>7 DEF Sweep, killVars
<1>8. CASE Burn
  BY <1>8 DEF Burn, ownerVars, killVars
<1>9. CASE SelfKill
  BY <1>9 DEF SelfKill, SetReason, ownerVars
<1>10. ASSUME NEW b \in Runs, BridgeViolation(b) PROVE Blame'
  <2>1. "bridge" \in over'[b] /\ UNCHANGED ownerVars /\ pc = "js"
    BY <1>10 DEF BridgeViolation
  <2>2. "bridge" \in over'[owner] \/ CutByRider(owner)'
    <3>1. CASE b = owner
      BY <2>1, <3>1
    <3>2. CASE b # owner
      <4>1. b \in live
        BY <1>10, <3>2 DEF BridgeViolation
      <4> QED
        BY <2>1, <3>2, <4>1 DEF CutByRider, ownerVars
    <3> QED
      BY <3>1, <3>2
  <2> QED
    BY <1>10, <2>1, <2>2 DEF BridgeViolation, ownerVars
<1>11. CASE LoseTerminate
  BY <1>11 DEF LoseTerminate, ownerVars
<1>12. CASE JsEnds
  <2>1. CASE phase[owner] = "grace"
    BY <1>12, <2>1 DEF JsEnds, GraceLook, Reasons
  <2>2. CASE phase[owner] # "grace"
    <3>1. pc = "js" /\ reason \in Reasons
      BY <1>12 DEF JsEnds
    <3>2. verdict' = "aborted" => (owner \in asked' \/ bare') /\ MayAbort(owner)'
      BY <1>12, <2>2, <3>1 DEF JsEnds, SettlingLook, Classified, Reasons, hostVars
    <3>3. verdict' \in {"cpu", "wall", "memory"} => verdict' = reason
      BY <1>12, <2>2 DEF JsEnds, SettlingLook, Classified
    <3>4. /\ verdict' = "cpu" => over'[owner] \cap {"cpu", "graceCpu"} # {}
          /\ verdict' = "wall" => "wall" \in over'[owner]
          /\ verdict' = "memory" => "memory" \in over'[owner]
      BY <3>1, <3>3
    <3>5. term' => term
      BY <1>12, <2>2 DEF JsEnds, SettlingLook
    <3>6. /\ pc' \in {"closing", "clearing"} /\ verdict' # "abort"
          /\ UNCHANGED <<owner, live, culprit, over, reason, bare, asked>>
      BY <1>12, <2>2 DEF JsEnds, SettlingLook, Classified, Verdicts, hostVars
    <3>7. Deserves(owner, verdict)'
      BY <3>2, <3>4, <3>6
    <3>8. Deserves(owner, reason)' /\ (bare' => "bridge" \in over'[owner] \/ CutByRider(owner)')
      BY <3>1, <3>6
    <3> QED
      BY <3>1, <3>2, <3>5, <3>6, <3>7, <3>8
  <2> QED
    BY <2>1, <2>2
<1>13. CASE CheckDeadline
  BY <1>13, SpentDeserved DEF CheckDeadline, SetReason, ownerVars
<1>14. CASE \E g \in entries : Pop(g)
  BY <1>14 DEF Pop, ownerVars, killVars
<1>15. ASSUME NEW r \in Runs, Dispatch(r) PROVE Blame'
  BY <1>15 DEF Dispatch
<1>16. ASSUME NEW r \in Runs, BeginTurn(r) PROVE Blame'
  BY <1>16 DEF BeginTurn, killVars
<1>17. ASSUME NEW r \in Runs, AbandonTurn(r) PROVE Blame'
  BY <1>17 DEF AbandonTurn, killVars
<1>18. ASSUME NEW r \in Runs, WallPasses(r) \/ DropLate(r) PROVE Blame'
  BY <1>18 DEF WallPasses, DropLate, ownerVars, killVars
<1>19. ASSUME NEW r \in Runs, BoundaryDeadline(r) \/ BoundaryClose(r) PROVE Blame'
  BY <1>19 DEF BoundaryDeadline, BoundaryClose, Conclude, killVars
<1>20. ASSUME NEW r \in Runs, NEW hard \in BOOLEAN, Terminate(r, hard) PROVE Blame'
  BY <1>20 DEF Terminate, AbortExecuting, Route, SetReason, ownerVars
<1>21. CASE FrameFails
  BY <1>21 DEF FrameFails, Classified, Reasons, killVars
<1> QED
  BY <1>1, <1>2, <1>3, <1>4, <1>5, <1>6, <1>7, <1>8, <1>9, <1>10, <1>11, <1>12,
     <1>13, <1>14, <1>15, <1>16, <1>17, <1>18, <1>19, <1>20, <1>21
     DEF Next, OwnerTail, GuestStep, DogStep
-----------------------------------------------------------------------------
\* The steps that conclude no run.
Unconcluded ==
  \/ UNCHANGED vars
  \/ Register \/ FrameFails \/ GraceClear \/ GraceEnter \/ CloseTurn \/ GuestStep \/ DogStep
  \/ \E r \in Runs :
       \/ Dispatch(r) \/ BeginTurn(r) \/ AbandonTurn(r) \/ WallPasses(r) \/ DropLate(r)
       \/ \E hard \in BOOLEAN : Terminate(r, hard)

LEMMA UnconcludedKeeps ==
  ASSUME TypeOK, Unconcluded
  PROVE  /\ result' = result /\ culprit' = culprit
         /\ pc' \in {"sweep", "dead"} => pc' = pc /\ owner' = owner /\ live' = live
         /\ pc \in {"sweep", "dead"} => pc' = pc
<1>1. CASE UNCHANGED vars
  BY <1>1 DEF vars, ownerVars
<1>2. CASE Register \/ FrameFails \/ GraceClear \/ GraceEnter \/ CloseTurn
  BY <1>2 DEF Register, FrameFails, GraceClear, GraceEnter, CloseTurn
<1>3. CASE JsEnds
  BY <1>3 DEF JsEnds, GraceLook, SettlingLook
<1>4. CASE \/ Burn \/ SelfKill \/ LoseTerminate \/ DogStep
           \/ \E b \in Runs : BridgeViolation(b)
  BY <1>4 DEF Burn, SelfKill, LoseTerminate, DogStep, BridgeViolation, CheckDeadline, Pop,
              ownerVars
<1>5. ASSUME NEW r \in Runs,
             \/ Dispatch(r) \/ BeginTurn(r) \/ AbandonTurn(r) \/ WallPasses(r)
             \/ DropLate(r) \/ \E hard \in BOOLEAN : Terminate(r, hard)
      PROVE  /\ result' = result /\ culprit' = culprit
             /\ pc' \in {"sweep", "dead"} => pc' = pc /\ owner' = owner /\ live' = live
             /\ pc \in {"sweep", "dead"} => pc' = pc
  BY <1>5 DEF Dispatch, BeginTurn, AbandonTurn, WallPasses, DropLate, Terminate, ownerVars
<1> QED
  BY <1>1, <1>2, <1>3, <1>4, <1>5 DEF Unconcluded, GuestStep

\* Before the taint sweep nobody is reset, and nobody but the run whose turn
\* tainted the instance has been aborted for a rider.
LEMMA SettledStep == TypeOK /\ TurnShape /\ Blame /\ Settled /\ [Next]_vars => Settled'
<1> SUFFICES ASSUME TypeOK, TurnShape, Blame, Settled, [Next]_vars PROVE Settled'
  OBVIOUS
<1>a. asked \subseteq asked' /\ \A r \in Runs : over[r] \subseteq over'[r]
  BY ExcessGrows
<1> USE GuardAssumptions, <1>a DEF TypeOK, GuardAssumptions
<1>1. CASE Unconcluded
  BY <1>1, UnconcludedKeeps DEF Settled, InTurn
<1>2. CASE TurnVerdict
  <2>1. pc = "verdict" /\ pc' \in {"loop", "sweep"} /\ owner' = owner /\ culprit' = culprit
    BY <1>2 DEF TurnVerdict
  <2>2. \A r \in Runs \ {owner} : result'[r] = result[r]
    BY <1>2 DEF TurnVerdict, Conclude
  <2>3. result'[owner] # "reset"
    BY <1>2, <2>1 DEF TurnVerdict, Conclude, Classified, Verdicts, Settled, TurnShape, InTurn
  <2>4. pc' = "loop" /\ result'[owner] = "aborted" => owner \in asked \/ "bridge" \in over[owner]
    BY <1>2, <2>1 DEF TurnVerdict, Conclude, Tainted, Blame, Settled, TurnShape, InTurn
  <2> QED
    BY <2>1, <2>2, <2>3, <2>4 DEF Settled, InTurn
<1>3. ASSUME NEW queued \in SUBSET Runs, Sweep(queued) PROVE Settled'
  BY <1>3 DEF Sweep, Settled, TurnShape, InTurn
<1>4. ASSUME NEW r \in Runs, BoundaryDeadline(r) \/ BoundaryClose(r) PROVE Settled'
  BY <1>4 DEF BoundaryDeadline, BoundaryClose, Conclude, Settled, InTurn
<1> QED
  BY <1>1, <1>2, <1>3, <1>4 DEF Next, OwnerTail, Unconcluded
-----------------------------------------------------------------------------
\* Results are written where the blame is known.
LEMMA InnocentStep ==
  TypeOK /\ TurnShape /\ Blame /\ Settled /\ NoInnocentKill /\ [Next]_vars => NoInnocentKill'
<1> SUFFICES ASSUME TypeOK, TurnShape, Blame, Settled, NoInnocentKill, [Next]_vars
             PROVE  NoInnocentKill'
  OBVIOUS
<1>a. asked \subseteq asked' /\ \A r \in Runs : over[r] \subseteq over'[r]
  BY ExcessGrows
<1>b. Settled'
  BY SettledStep
<1>c. live' = live /\ owner' = owner /\ culprit' = culprit
        => \A r \in Runs : CutByRider(r) => CutByRider(r)'
  BY <1>a, CutGrows
<1> USE GuardAssumptions DEF GuardAssumptions
<1>1. CASE Unconcluded
  <2>1. /\ result' = result /\ culprit' = culprit
        /\ pc' \in {"sweep", "dead"} => pc' = pc /\ owner' = owner /\ live' = live
    BY <1>1, UnconcludedKeeps
  <2>2. CASE pc' \in {"sweep", "dead"}
    BY <1>a, <1>c, <2>1, <2>2 DEF NoInnocentKill, Settled, TypeOK
  <2>3. CASE pc' \notin {"sweep", "dead"}
    <3>1. pc' = "loop" \/ pc' \in InTurn
      BY <2>3, TypeStep DEF TypeOK, InTurn
    <3>2. \A r \in Runs : result'[r] # "reset"
      BY <1>b, <2>3 DEF Settled
    <3>3. \A r \in Runs : result'[r] = "aborted" => r \in asked' \/ "bridge" \in over'[r]
      BY <1>b, <3>1 DEF Settled, InTurn
    <3> QED
      BY <1>a, <2>1, <3>2, <3>3 DEF NoInnocentKill, TypeOK
  <2> QED
    BY <2>2, <2>3
<1>2. CASE TurnVerdict
  <2>1. /\ pc = "verdict" /\ pc' \in {"loop", "sweep"} /\ owner \in Runs /\ owner' = owner
        /\ culprit' = culprit /\ asked' = asked /\ over' = over
    BY <1>2 DEF TurnVerdict, TurnShape, InTurn, hostVars
  <2>2. \A r \in Runs : result'[r] # "reset"
    BY <1>b, <2>1 DEF Settled
  <2>3. \A r \in Runs \ {owner} : result'[r] = result[r]
    BY <1>2 DEF TurnVerdict, Conclude, TypeOK
  <2>4. /\ result'[owner] = "cpu" => over[owner] \cap {"cpu", "graceCpu"} # {}
        /\ result'[owner] \in {"wall", "memory"} => result'[owner] \in over[owner]
    BY <1>2, <2>1 DEF TurnVerdict, Conclude, Tainted, Classified, Reasons, NoInnocentKill,
                      Blame, TypeOK, TurnShape, InTurn, Deserves, Verdicts
  <2>5. \A r \in Runs \ {owner} : result'[r] = "aborted" => r \in asked \/ "bridge" \in over[r]
    BY <2>1, <2>3 DEF Settled, InTurn
  <2>6. result'[owner] = "aborted" => MayAbort(owner)'
    <3>1. CASE pc' = "loop"
      BY <1>b, <2>1, <3>1 DEF Settled, MayAbort
    <3>2. CASE pc' = "sweep"
      <4>1. /\ live' = live
            /\ result'[owner] = IF verdict = "park" THEN Classified ELSE verdict
            /\ reason # "none" \/ bare \/ term
        BY <1>2, <2>1, <3>2 DEF TurnVerdict, Conclude, Tainted, TypeOK
      <4>2. MayAbort(owner) => MayAbort(owner)'
        BY <1>c, <2>1, <4>1 DEF MayAbort
      <4>3. verdict = "aborted" => MayAbort(owner)
        BY <2>1 DEF Blame, Deserves
      <4>4. verdict = "park" /\ Classified = "aborted" => MayAbort(owner)
        BY <2>1, <4>1 DEF Blame, InTurn, Deserves, Classified, MayAbort, TypeOK, Reasons
      <4> QED
        BY <4>1, <4>2, <4>3, <4>4
    <3> QED
      BY <2>1, <3>1, <3>2
  <2> QED
    BY <2>1, <2>2, <2>3, <2>4, <2>5, <2>6 DEF NoInnocentKill, MayAbort
<1>3. ASSUME NEW queued \in SUBSET Runs, Sweep(queued) PROVE NoInnocentKill'
  <2>1. /\ pc = "sweep" /\ owner \in Runs /\ owner \notin live \cup queued /\ owner' = owner
        /\ asked' = asked /\ over' = over /\ live \cup queued \subseteq Runs
    BY <1>3 DEF Sweep, TurnShape, TypeOK
  <2>2. \A r \in live \cup queued : result'[r] = "reset" /\ culprit'[r] = owner
    BY <1>3, <2>1 DEF Sweep
  <2>3. \A r \in Runs \ (live \cup queued) : result'[r] = result[r] /\ result[r] # "reset"
    BY <1>3, <2>1 DEF Sweep, Settled
  <2>4. \A b \in Runs : culprit[b] = NoRun
    BY <2>1 DEF Settled
  <2>5. CutByRider(owner) => CutByRider(owner)'
    BY <2>1, <2>2, <2>4 DEF CutByRider
  <2>6. over[owner] # {} \/ owner \in asked \/ CutByRider(owner)
    BY <2>1 DEF Blame
  <2>7. \A r \in Runs : result[r] = "aborted" =>
          r \in asked \/ "bridge" \in over[r] \/ CutByRider(r)'
    BY <2>1, <2>5 DEF Settled, NoInnocentKill
  <2> QED
    BY <2>1, <2>2, <2>3, <2>5, <2>6, <2>7 DEF NoInnocentKill
<1>4. ASSUME NEW r \in Runs, BoundaryDeadline(r) \/ BoundaryClose(r) PROVE NoInnocentKill'
  <2>1. pc = "loop" /\ pc' = "loop" /\ over' = over /\ asked' = asked
    BY <1>4 DEF BoundaryDeadline, BoundaryClose, hostVars
  <2>2. \A q \in Runs : result'[q] # "reset"
    BY <1>b, <2>1 DEF Settled
  <2>3. \A q \in Runs : result'[q] = "aborted" => q \in asked' \/ "bridge" \in over'[q]
    BY <1>b, <2>1 DEF Settled
  <2>4. \A q \in Runs : \/ result'[q] = result[q] \/ result'[q] \in {"ok", "failed"}
                        \/ result'[q] = "wall" /\ "wall" \in over[q]
    BY <1>4 DEF BoundaryDeadline, BoundaryClose, Conclude, TypeOK
  <2> QED
    BY <2>1, <2>2, <2>3, <2>4 DEF NoInnocentKill
<1> QED
  BY <1>1, <1>2, <1>3, <1>4 DEF Next, OwnerTail, Unconcluded
-----------------------------------------------------------------------------
\* The invariant is inductive.
THEOREM GuardInvariant == Spec => []GuardInv
<1>1. GuardInv /\ [Next]_vars => GuardInv'
  BY TypeStep, ShapeStep, KilledStep, BlameStep, SettledStep, InnocentStep DEF GuardInv
<1> QED
  BY GuardInit, <1>1, PTL DEF Spec

\* Every variable keeps its type, for any runs and limits.
THEOREM GuardTypeCorrect == Spec => []TypeOK
<1>1. GuardInv => TypeOK
  BY DEF GuardInv
<1> QED
  BY GuardInvariant, <1>1, PTL

\* Between turns the guard is disarmed and no kill is left over: TurnGuard's
\* drop and the taint check of serve_instance cover every way out of a turn.
THEOREM QuietCorrect == Spec => []QuietBetweenTurns
<1>1. GuardInv => QuietBetweenTurns
  BY DEF GuardInv, QuietBetweenTurns, TurnShape, Blame
<1> QED
  BY GuardInvariant, <1>1, PTL

\* The watchdog, the allocator and a Terminate only ever hurt the run that
\* deserves it (guard.rs's generations and its target lock); only a rider's
\* bridge violation costs another run, the one whose turn it rode in, its
\* outcome, and that rider is then reset in that run's name.
THEOREM NoInnocentKillCorrect == Spec => []NoInnocentKill
<1>1. GuardInv => NoInnocentKill
  BY DEF GuardInv
<1> QED
  BY GuardInvariant, <1>1, PTL

\* A run whose abort was consumed mid-turn does not outlive the turn.
THEOREM ConsumedAbortCorrect == Spec => []ConsumedAbortEnds
<1>1. GuardInv => ConsumedAbortEnds
  BY DEF GuardInv, ConsumedAbortEnds, KilledEnds, InTurn
<1> QED
  BY GuardInvariant, <1>1, PTL
=============================================================================
