----------------------------- MODULE TurnGuard ------------------------------
(***************************************************************************)
(* The limit guard of one instance (v8/guard.rs) around the turns of its   *)
(* runs (v8/instance.rs, v8/runloop.rs).  Three threads meet here: the     *)
(* owner thread arms the guard, runs guest code, looks at the reason cell  *)
(* and disarms; the process-wide watchdog re-reads the armed budgets; a    *)
(* connection's demux kills an executing turn for a hard Terminate.  Only  *)
(* the target lock orders them, and the owner holds it neither while guest *)
(* code runs nor between its last look at the reason and the disarm.       *)
(***************************************************************************)
EXTENDS Integers, FiniteSets

CONSTANTS
  Runs,          \* the runs given to this instance (their tokens)
  NoRun,         \* token 0: no turn executing, no target armed
  CpuCapped,     \* runs with a cpuTimeMs limit
  WallCapped,    \* runs with a wallTimeMs limit
  GraceCapped,   \* runs whose post-Result phase has a CPU cap
  MaxGeneration  \* bound: no turn begins at or above this arm generation

ASSUME GuardAssumptions ==
  /\ NoRun \notin Runs
  /\ CpuCapped \subseteq Runs
  /\ WallCapped \subseteq Runs
  /\ CpuCapped \subseteq GraceCapped /\ GraceCapped \subseteq Runs
  /\ MaxGeneration \in Nat

VARIABLES
  pc,            \* where the owner thread is
  owner,         \* the run of the current or the last turn
  verdict,       \* what that turn has decided so far
  phase,         \* RunPhase, with "new" (job not dispatched) and "done"
  live,          \* the parked runs
  early,         \* runs whose Result went out ahead of background work
  result,        \* how a concluded run ended
  culprit,       \* for a reset run: the run its error names
  target,        \* GuardShared.target: whose budgets are armed
  executing,     \* GuardShared.executing
  generation,    \* GuardShared.generation
  reason,        \* ReasonCell: the first enforcer to fire
  bare,          \* ReasonCell.bare_terminate
  term,          \* V8's terminate flag
  entries,       \* the watchdog heap: generations of its entries
  popped,        \* the entry the watchdog holds while it checks, 0 = none
  over,          \* the budgets each run has really exceeded
  asked,         \* runs the host has aborted
  routed,        \* Terminates waiting on the instance's channel
  killed         \* runs whose abort was consumed mid-turn, before a Result

ownerVars == <<pc, owner, verdict, phase, live, early, result, culprit>>
guardVars == <<target, executing, generation>>
killVars  == <<reason, bare, term>>
dogVars   == <<entries, popped>>
hostVars  == <<asked, routed, killed>>
vars == <<ownerVars, guardVars, killVars, dogVars, over, hostVars>>

Reasons == {"none", "cpu", "wall", "memory", "abort"}

\* "frame": the turn delivers a frame that turns out to be undecodable.
Verdicts == {"none", "frame", "park", "ok", "failed", "aborted", "cpu", "wall", "memory"}

Outcomes == (Verdicts \ {"park", "frame"}) \cup {"reset"}

Phases == {"new", "settling", "grace", "done"}

\* What a run can be blamed for: a budget it has exceeded, or a fatal bridge
\* violation (its bridge_error).
Excesses == {"cpu", "wall", "graceCpu", "memory", "bridge"}

Init ==
  /\ pc = "loop" /\ owner = NoRun /\ verdict = "none"
  /\ phase = [r \in Runs |-> "new"]
  /\ live = {} /\ early = {}
  /\ result = [r \in Runs |-> "none"]
  /\ culprit = [r \in Runs |-> NoRun]
  /\ target = NoRun /\ executing = NoRun /\ generation = 0
  /\ reason = "none" /\ bare = FALSE /\ term = FALSE
  /\ entries = {} /\ popped = 0
  /\ over = [r \in Runs |-> {}]
  /\ asked = {} /\ routed = {} /\ killed = {}

\* First write wins.
SetReason(why) == reason' = IF reason = "none" THEN why ELSE reason
-----------------------------------------------------------------------------
(***************************************************************************)
(* InstanceGuard.                                                          *)
(***************************************************************************)
\* set_for, under the target lock.  The entry is registered after the unlock.
Arm(r) ==
  /\ target' = r
  /\ executing' = r
  /\ generation' = generation + 1

\* Mutant: the clear forgets the target and the generation.
DisarmHalf ==
  /\ executing' = NoRun
  /\ UNCHANGED <<target, generation>>

\* clear, under the target lock.
Disarm ==
  /\ target' = NoRun
  /\ executing' = NoRun
  /\ generation' = generation + 1

\* The budgets a target enforces: a settling run's CPU and wall, or the
\* post-Result phase's own CPU allotment (its wall is the loop's business).
Budgets(r) ==
  IF phase[r] = "grace"
  THEN IF r \in GraceCapped THEN {"graceCpu"} ELSE {}
  ELSE (IF r \in CpuCapped THEN {"cpu"} ELSE {})
         \cup (IF r \in WallCapped THEN {"wall"} ELSE {})

\* An uncapped target registers nothing.
Register ==
  /\ pc = "arming"
  /\ entries' = IF Budgets(owner) = {} THEN entries ELSE entries \cup {generation}
  /\ pc' = IF verdict \in {"none", "frame"} THEN "js" ELSE "closing"
  /\ UNCHANGED <<owner, verdict, phase, live, early, result, culprit, guardVars,
                 killVars, popped, over, hostVars>>
-----------------------------------------------------------------------------
(***************************************************************************)
(* The watchdog thread.                                                    *)
(***************************************************************************)
Pop(g) ==
  /\ popped = 0 /\ g \in entries
  /\ popped' = g
  /\ entries' = entries \ {g}
  /\ UNCHANGED <<ownerVars, guardVars, killVars, over, hostVars>>

\* Mutant: a fired entry is not checked again.
CheckDeadlineOnce ==
  LET current == popped = generation /\ target # NoRun
      spent   == IF current THEN Budgets(target) \cap over[target] ELSE {}
  IN /\ popped # 0
     /\ popped' = 0
     /\ entries' = IF current /\ spent = {} THEN entries \cup {popped} ELSE entries
     /\ IF spent = {} THEN UNCHANGED <<reason, term>>
        ELSE /\ SetReason(IF spent = {"wall"} THEN "wall" ELSE "cpu")
             /\ term' = TRUE
     /\ UNCHANGED <<ownerVars, guardVars, bare, over, hostVars>>

\* Mutant: an entry that is due counts as a spent budget.
CheckDeadlineTrusting ==
  LET current == popped = generation /\ target # NoRun
      spent   == IF current THEN Budgets(target) ELSE {}
  IN /\ popped # 0
     /\ popped' = 0
     /\ entries' = IF current THEN entries \cup {popped} ELSE entries
     /\ IF spent = {} THEN UNCHANGED <<reason, term>>
        ELSE /\ SetReason(IF spent = {"wall"} THEN "wall" ELSE "cpu")
             /\ term' = TRUE
     /\ UNCHANGED <<ownerVars, guardVars, bare, over, hostVars>>

\* check_deadline: under the target lock, and only for the generation the
\* entry was pushed under (the unlocked look before it drops stale entries
\* early; a stale entry stays stale).  CPU goes before wall; a fired entry
\* comes back until the turn disarms.
CheckDeadline ==
  LET current == popped = generation /\ target # NoRun
      spent   == IF current THEN Budgets(target) \cap over[target] ELSE {}
  IN /\ popped # 0
     /\ popped' = 0
     /\ entries' = IF current THEN entries \cup {popped} ELSE entries
     /\ IF spent = {} THEN UNCHANGED <<reason, term>>
        ELSE /\ SetReason(IF spent = {"wall"} THEN "wall" ELSE "cpu")
             /\ term' = TRUE
     /\ UNCHANGED <<ownerVars, guardVars, bare, over, hostVars>>
-----------------------------------------------------------------------------
(***************************************************************************)
(* The demux: RunHandle::deliver of a Terminate.                           *)
(***************************************************************************)
\* Soft, or hard for a run that is not executing: the frame is routed.
Route(r) ==
  /\ routed' = routed \cup {r}
  /\ UNCHANGED <<reason, term, killed>>

\* abort_executing, under the target lock.
AbortExecuting(r) ==
  /\ executing = r
  /\ SetReason("abort")
  /\ term' = TRUE
  /\ killed' = IF phase[r] = "settling" THEN killed \cup {r} ELSE killed
  /\ UNCHANGED routed

Terminate(r, hard) ==
  /\ r \notin asked /\ phase[r] # "done"
  /\ asked' = asked \cup {r}
  /\ IF hard /\ executing = r THEN AbortExecuting(r) ELSE Route(r)
  /\ UNCHANGED <<ownerVars, guardVars, bare, dogVars, over>>
-----------------------------------------------------------------------------
(***************************************************************************)
(* Turns of the owner thread.                                              *)
(***************************************************************************)
\* dispatch_job: the reason cell is reset only when nothing else is in flight.
Dispatch(r) ==
  /\ pc = "loop" /\ phase[r] = "new" /\ generation < MaxGeneration
  /\ IF live = {} THEN reason' = "none" /\ bare' = FALSE
                  ELSE UNCHANGED <<reason, bare>>
  /\ Arm(r)
  /\ pc' = "arming" /\ owner' = r /\ verdict' = "none"
  /\ phase' = [phase EXCEPT ![r] = "settling"]
  /\ UNCHANGED <<live, early, result, culprit, term, dogVars, over, hostVars>>

\* TurnGuard::begin for an event or a timer of a parked run; the event may be
\* a frame that does not decode.
BeginTurn(r) ==
  /\ pc = "loop" /\ r \in live /\ generation < MaxGeneration
  /\ Arm(r)
  /\ pc' = "arming" /\ owner' = r /\ verdict' \in {"none", "frame"}
  /\ live' = live \ {r}
  /\ UNCHANGED <<phase, early, result, culprit, killVars, dogVars, over, hostVars>>

\* The turn of a routed Terminate: no guest code runs.  After the Result it
\* only truncates the phase.
AbandonTurn(r) ==
  /\ pc = "loop" /\ r \in live /\ r \in routed /\ generation < MaxGeneration
  /\ Arm(r)
  /\ pc' = "arming" /\ owner' = r
  /\ verdict' = IF phase[r] = "grace" THEN "ok" ELSE "aborted"
  /\ live' = live \ {r}
  /\ routed' = routed \ {r}
  /\ UNCHANGED <<phase, early, result, culprit, killVars, dogVars, over, asked, killed>>

\* Guest code spends CPU; time passes for everyone.
Burn ==
  /\ pc = "js"
  /\ over' = [over EXCEPT ![owner] =
                @ \cup {IF phase[owner] = "grace" THEN "graceCpu" ELSE "cpu"}]
  /\ UNCHANGED <<ownerVars, guardVars, killVars, dogVars, hostVars>>

WallPasses(r) ==
  /\ phase[r] = "settling" /\ r \in WallCapped
  /\ over' = [over EXCEPT ![r] = @ \cup {"wall"}]
  /\ UNCHANGED <<ownerVars, guardVars, killVars, dogVars, hostVars>>

\* The near-heap callback, the buffer allocator and a dynamic import() record
\* a reason and terminate from inside the turn.
SelfKill ==
  /\ pc = "js"
  /\ SetReason("memory")
  /\ term' = TRUE
  /\ over' = [over EXCEPT ![owner] = @ \cup {"memory"}]
  /\ UNCHANGED <<ownerVars, guardVars, bare, dogVars, hostVars>>

\* A fatal bridge violation terminates without a reason.  It is charged to the
\* run the call is attributed to: the owner, or the parked run whose
\* continuation rides in this turn.
BridgeViolation(b) ==
  /\ pc = "js" /\ verdict = "none"
  /\ b = owner \/ b \in live
  /\ bare' = TRUE /\ term' = TRUE
  /\ over' = [over EXCEPT ![b] = @ \cup {"bridge"}]
  /\ UNCHANGED <<ownerVars, guardVars, reason, dogVars, hostVars>>

\* V8 consumes a terminate (a checkpoint, a caught serialization) and guest
\* code goes on.
LoseTerminate ==
  /\ pc = "js" /\ term
  /\ term' = FALSE
  /\ UNCHANGED <<ownerVars, guardVars, reason, bare, dogVars, over, hostVars>>

\* reason_error.
Classified == IF reason \in {"cpu", "wall", "memory"} THEN reason ELSE "aborted"

\* rs.bridge_error of the turn's own run.
Broken == "bridge" \in over[owner]

\* The last look of a settling run's turn (finish_turn, scan and the
\* settled-value checks of build_output_and_maybe_grace).  A rider's violation
\* shows only in the terminate flag: a root still pending parks, a rejected
\* one fails, and a settled one is taken for a routed abort.
SettlingLook ==
  \/ /\ verdict' = IF reason # "none" THEN Classified ELSE "failed"
     /\ pc' = "closing"
     /\ UNCHANGED term
  \/ /\ reason = "none" /\ ~Broken
     /\ \/ verdict' = "park" /\ pc' = "closing" /\ UNCHANGED term
        \/ term /\ verdict' = "aborted" /\ pc' = "closing" /\ term' = FALSE
        \/ ~term /\ verdict' = "ok" /\ pc' = "closing" /\ UNCHANGED term
        \/ ~term /\ verdict' = "none" /\ pc' = "clearing" /\ UNCHANGED term

\* The last look of a turn of the post-Result phase, which ends with what it
\* has.  finish_turn looks at bridge_error, grace_scan, whose checkpoint runs
\* guest code again, only at the reason.
GraceLook ==
  /\ verdict' \in {"ok", "park"}
  /\ verdict' = "park" => reason = "none" /\ (Broken => bare)
  /\ pc' = "closing"
  /\ UNCHANGED term

\* What follows the last look, until the guard is cleared, is Rust code with
\* the guard still armed.
JsEnds ==
  /\ pc = "js" /\ verdict = "none"
  /\ IF phase[owner] = "grace" THEN GraceLook ELSE SettlingLook
  /\ UNCHANGED <<owner, phase, live, early, result, culprit, guardVars, reason, bare,
                 dogVars, over, hostVars>>

\* frame_turn's early returns, also in the post-Result phase: an answer that
\* does not decode gives way to a reason, a stream frame's error does not.
FrameFails ==
  /\ pc = "js" /\ verdict = "frame"
  /\ verdict' \in {"failed", IF reason # "none" THEN Classified ELSE "failed"}
  /\ pc' = "closing"
  /\ UNCHANGED <<owner, phase, live, early, result, culprit, guardVars, killVars,
                 dogVars, over, hostVars>>

\* A settled value with background work or open streams: the guard comes
\* down first,
GraceClear ==
  /\ pc = "clearing"
  /\ Disarm
  /\ pc' = "cleared"
  /\ UNCHANGED <<owner, verdict, phase, live, early, result, culprit, killVars,
                 dogVars, over, hostVars>>

\* Mutant: whatever won the race is undone and the phase begins.
GraceEnterForgets ==
  /\ pc = "cleared"
  /\ term' = FALSE /\ reason' = "none" /\ bare' = FALSE
  /\ early' \in {early, early \cup {owner}}
  /\ Arm(owner)
  /\ phase' = [phase EXCEPT ![owner] = "grace"]
  /\ pc' = "arming"
  /\ UNCHANGED <<owner, verdict, live, result, culprit, dogVars, over, hostVars>>

\* then a fire that won the race is undone: an abort is honoured, a limit is
\* not; otherwise the Result ships early (if it can be sent) and the phase
\* arms its own budget.
\* (A terminate flag without a reason would be an abort too, but the last
\* look has let none through and no guest code ran since.)
GraceEnter ==
  /\ pc = "cleared"
  /\ term' = FALSE
  /\ IF reason # "none"
     THEN /\ reason' = "none" /\ bare' = FALSE
          /\ verdict' = IF reason = "abort" THEN "aborted" ELSE "ok"
          /\ pc' = "closing"
          /\ UNCHANGED <<guardVars, phase, early>>
     ELSE /\ early' \in {early, early \cup {owner}}
          /\ Arm(owner)
          /\ phase' = [phase EXCEPT ![owner] = "grace"]
          /\ pc' = "arming"
          /\ UNCHANGED <<reason, bare, verdict>>
  /\ UNCHANGED <<owner, live, result, culprit, dogVars, over, hostVars>>

\* The drop of TurnGuard (begin_call's clear for a start turn).
CloseTurn ==
  /\ pc = "closing"
  /\ Disarm
  /\ pc' = "verdict"
  /\ UNCHANGED <<owner, verdict, phase, live, early, result, culprit, killVars,
                 dogVars, over, hostVars>>

\* instance_tainted.
Tainted == reason # "none" \/ bare \/ term

Conclude(r, how) ==
  /\ result' = [result EXCEPT ![r] = how]
  /\ phase' = [phase EXCEPT ![r] = "done"]

\* After the turn: park the run, or conclude it; a tainted instance ends.
TurnVerdict ==
  /\ pc = "verdict"
  /\ IF verdict = "park" /\ ~Tainted
     THEN /\ live' = live \cup {owner}
          /\ pc' = "loop"
          /\ UNCHANGED <<result, phase, term>>
     ELSE /\ Conclude(owner, IF verdict = "park" THEN Classified ELSE verdict)
          /\ term' = FALSE
          /\ pc' = IF Tainted THEN "sweep" ELSE "loop"
          /\ UNCHANGED live
  /\ UNCHANGED <<owner, verdict, early, culprit, guardVars, reason, bare, dogVars,
                 over, hostVars>>

\* taint_sweep: every parked run, and every job already queued, is reset and
\* told whose turn it was.
Sweep(queued) ==
  LET others == live \cup queued
  IN /\ pc = "sweep"
     /\ \A r \in queued : phase[r] = "new"
     /\ result' = [r \in Runs |-> IF r \in others THEN "reset" ELSE result[r]]
     /\ culprit' = [r \in Runs |-> IF r \in others THEN owner ELSE culprit[r]]
     /\ phase' = [r \in Runs |-> IF r \in others THEN "done" ELSE phase[r]]
     /\ live' = {} /\ routed' = {}
     /\ pc' = "dead"
     /\ UNCHANGED <<owner, verdict, early, guardVars, killVars, dogVars, over, asked, killed>>

\* Ends without a turn while parked: the wall (the post-Result phase has one
\* of its own), or the loss of the connection.
BoundaryDeadline(r) ==
  /\ pc = "loop" /\ r \in live
  /\ phase[r] = "grace" \/ "wall" \in over[r]
  /\ live' = live \ {r}
  /\ Conclude(r, IF phase[r] = "grace" THEN "ok" ELSE "wall")
  /\ owner' = r
  /\ UNCHANGED <<pc, verdict, early, culprit, guardVars, killVars, dogVars, over, hostVars>>

BoundaryClose(r) ==
  /\ pc = "loop" /\ r \in live
  /\ live' = live \ {r}
  /\ Conclude(r, IF phase[r] = "grace" THEN "ok" ELSE "failed")
  /\ owner' = r
  /\ UNCHANGED <<pc, verdict, early, culprit, guardVars, killVars, dogVars, over, hostVars>>

\* A Terminate behind its run's end is discarded.
DropLate(r) ==
  /\ pc = "loop" /\ r \in routed /\ phase[r] = "done"
  /\ routed' = routed \ {r}
  /\ UNCHANGED <<ownerVars, guardVars, killVars, dogVars, over, asked, killed>>
-----------------------------------------------------------------------------
OwnerTail ==
  \/ Register \/ FrameFails \/ GraceClear \/ GraceEnter \/ CloseTurn \/ TurnVerdict
  \/ \E queued \in SUBSET Runs : Sweep(queued)

GuestStep ==
  \/ Burn \/ SelfKill \/ LoseTerminate \/ JsEnds
  \/ \E b \in Runs : BridgeViolation(b)

DogStep == CheckDeadline \/ \E g \in entries : Pop(g)

Next ==
  \/ OwnerTail
  \/ GuestStep
  \/ DogStep
  \/ \E r \in Runs :
       \/ Dispatch(r) \/ BeginTurn(r) \/ AbandonTurn(r)
       \/ WallPasses(r) \/ BoundaryDeadline(r) \/ BoundaryClose(r) \/ DropLate(r)
       \/ \E hard \in BOOLEAN : Terminate(r, hard)

Spec == Init /\ [][Next]_vars

(***************************************************************************)
(* Fairness: the watchdog thread goes on, the owner thread goes on with    *)
(* Rust code, and V8 unwinds guest code under a terminate flag.  A turn    *)
(* that nobody terminates may run for ever.  The unwinding is strong:      *)
(* guest code can swallow a terminate only as often as it has exports.     *)
(***************************************************************************)
FairSpec ==
  /\ Spec
  /\ WF_vars(OwnerTail)
  /\ WF_vars(DogStep)
  /\ SF_vars(term /\ JsEnds)
-----------------------------------------------------------------------------
(***************************************************************************)
(* Properties.                                                             *)
(***************************************************************************)
\* Every variable has the type its declaration says.
TypeOK ==
  /\ pc \in {"loop", "arming", "js", "clearing", "cleared", "closing",
             "verdict", "sweep", "dead"}
  /\ owner \in Runs \cup {NoRun}
  /\ verdict \in Verdicts
  /\ phase \in [Runs -> Phases]
  /\ live \subseteq Runs /\ early \subseteq Runs
  /\ result \in [Runs -> Outcomes]
  /\ culprit \in [Runs -> Runs \cup {NoRun}]
  /\ target \in Runs \cup {NoRun}
  /\ executing \in Runs \cup {NoRun}
  /\ generation \in Nat
  /\ reason \in Reasons /\ bare \in BOOLEAN /\ term \in BOOLEAN
  /\ entries \subseteq Nat \ {0} /\ popped \in Nat
  /\ over \in [Runs -> SUBSET Excesses]
  /\ asked \subseteq Runs /\ routed \subseteq Runs /\ killed \subseteq Runs

\* Between turns nothing is armed, and no trace of a kill waits for the next
\* turn: dispatch_job relies on it when it does not reset the reason cell
\* ("when runs are live it is guaranteed clear").
QuietBetweenTurns ==
  pc = "loop" => /\ target = NoRun /\ executing = NoRun
                 /\ reason = "none" /\ ~bare /\ ~term

\* The turn of r was cut down by the bridge violation of a co-resident b, whose
\* continuation ran in it; b goes down with the instance.
CutByRider(r) ==
  \E b \in Runs \ {r} :
    /\ "bridge" \in over[b]
    /\ (b \in live /\ owner = r) \/ culprit[b] = r

\* A kill hits the run it is meant for: a run ends by a limit only if it
\* exceeded that limit itself, and as aborted only if its host asked, it broke
\* the bridge itself (after its Result), or a co-resident's continuation broke
\* it inside its turn; the run a reset names was over a limit, aborted, or cut
\* down in that way.  (A stale watchdog entry, or one that fires as its turn
\* ends, must not hit the next turn; an abort must not hit a neighbour.)
NoInnocentKill ==
  \A r \in Runs :
    /\ result[r] = "cpu" => over[r] \cap {"cpu", "graceCpu"} # {}
    /\ result[r] \in {"wall", "memory"} => result[r] \in over[r]
    /\ result[r] = "aborted" => r \in asked \/ "bridge" \in over[r] \/ CutByRider(r)
    /\ result[r] = "reset" =>
         LET c == culprit[r]
         IN c # r /\ (over[c] # {} \/ c \in asked \/ CutByRider(c))

\* An abort that was consumed mid-turn ends the run with that turn: it is
\* never parked again, whatever the turn was doing when the kill landed.
ConsumedAbortEnds ==
  pc \in {"loop", "dead"} => \A r \in killed : phase[r] = "done"

\* A turn whose run is over its budget does not run for ever, even if guest
\* code swallows a terminate.
OverdueTurnEnds ==
  \A r \in Runs :
    (executing = r /\ Budgets(r) \cap over[r] # {}) ~> executing # r

\* completion_message: the frame that ends a concluded run.
CompletionMessage(r) ==
  IF result[r] = "ok" /\ r \in early THEN "RunComplete" ELSE "Result"

=============================================================================
