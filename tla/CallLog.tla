------------------------------- MODULE CallLog -------------------------------
(***************************************************************************)
(* What one run keeps about the calls it makes to the host                 *)
(* (crates/core/src/v8/bridge.rs): the attempt counter, the records its    *)
(* result reports, which records await an answer, the resolvers of the     *)
(* promises handed to the guest, and the first fatal violation.            *)
(*                                                                         *)
(* Names, sizes and times of a record are left out; a record is its call   *)
(* id (Blocked has none) and its outcome.                                  *)
(***************************************************************************)
EXTENDS Naturals, Sequences

CONSTANT
  MaxCalls      \* maxBridgeCalls; 0 = no limit

ASSUME CallAssumption == MaxCalls \in Nat

NoId == 0

NoCalls == [count |-> 0, records |-> <<>>, inFlight |-> {}, resolvers |-> {},
            error |-> FALSE]

Attempt(l) == [l EXCEPT !.count = @ + 1]

OverLimit(l) == MaxCalls > 0 /\ l.count >= MaxCalls

RecordBlocked(l) ==
  [l EXCEPT !.records = Append(@, [call |-> NoId, outcome |-> "blocked"])]

(* First error wins; it ends the run whatever the guest catches. *)
FatalBridgeError(l) == [RecordBlocked(l) EXCEPT !.error = TRUE]

RecordSent(l, call) ==
  [l EXCEPT !.records = Append(@, [call |-> call, outcome |-> "unanswered"]),
            !.inFlight = @ \union {[call |-> call, idx |-> Len(l.records) + 1]}]

StoreResolver(l, call) == [l EXCEPT !.resolvers = @ \union {call}]

\* Mutant: the record is settled at the wrong index.
SettleFirst(l, call, ok) ==
  IF \E f \in l.inFlight : f.call = call
    THEN [l EXCEPT !.records[1].outcome = IF ok THEN "ok" ELSE "error",
                   !.inFlight = {f \in @ : f.call # call}]
    ELSE l

(* An answer settles the record it is in flight for; unknown ids are ignored. *)
Settle(l, call, ok) ==
  IF \E f \in l.inFlight : f.call = call
    THEN LET f == CHOOSE f \in l.inFlight : f.call = call
         IN  [l EXCEPT !.records[f.idx].outcome = IF ok THEN "ok" ELSE "error",
                       !.inFlight = @ \ {f}]
    ELSE l

(* ... and its resolver is taken out of the map and resolved or rejected. *)
TakeResolver(l, call) == [l EXCEPT !.resolvers = @ \ {call}]

(* The run's end: the records go into its result, calls still in flight as *)
(* unanswered ones, and the log is dropped with the run's table entry.     *)
Finalize(l) == NoCalls
=============================================================================
