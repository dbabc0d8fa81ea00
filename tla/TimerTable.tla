----------------------------- MODULE TimerTable -----------------------------
(***************************************************************************)
(* A run's setTimeout registrations (crates/core/src/v8/timers.rs): a map  *)
(* from timer id to entry, and a heap of (deadline, creation number, id)   *)
(* giving the order in which they fire.  clearTimeout removes only the map *)
(* entry; a heap element without a matching entry is stale and is skipped  *)
(* when it reaches the top.                                                *)
(*                                                                         *)
(* Ids and creation numbers grow together, so one number stands for both.  *)
(* A callback and its arguments are not told apart.  Instants are natural  *)
(* numbers, ticks of the loop's clock; Never, which is none, stands for    *)
(* "no deadline" (None in the code).  The guest's clock, delays and        *)
(* scheduled times are whole milliseconds of Ms ticks, so a deadline keeps *)
(* the part of a millisecond that had passed when its timer was set.       *)
(***************************************************************************)
EXTENDS Naturals, FiniteSets, FiniteSetsExt

CONSTANTS
  MaxPending,   \* MAX_PENDING_TIMERS: entries one run may have
  Ms,           \* ticks to a millisecond
  Never         \* no instant

ASSUME TimerAssumption == MaxPending \in Nat /\ Ms \in Nat \ {0} /\ Never \notin Nat

(* wall_now_ms: the millisecond that instant t is in. *)
WallMs(t) == t \div Ms

Later(a, b) == IF a >= b THEN a ELSE b

(* The nearest of some deadlines, each of which may be Never. *)
MinTime(S) == IF S \subseteq {Never} THEN Never ELSE Min(S \ {Never})

DueBy(d, t) == d # Never /\ d <= t

(* No registrations: the table of a new run, and what a dropped entry leaves. *)
EmptyTimers == [last |-> 0, entries |-> {}, order |-> {}]

(* The heap elements whose entry is still there with the same deadline. *)
Armed(t) == {o \in t.order : \E e \in t.entries : e.id = o.id /\ e.at = o.at}

Before(o, p) == o.at < p.at \/ (o.at = p.at /\ o.id < p.id)

PeekDeadline(t) == MinTime({o.at : o \in Armed(t)})

\* Mutant: a cleared timer's heap element is taken for a timer.
PopAnything(t) ==
  LET o == CHOOSE o \in t.order : \A p \in t.order : o = p \/ Before(o, p)
  IN  [fired |-> o.id,
       virt  |-> IF \E e \in t.entries : e.id = o.id
                   THEN (CHOOSE e \in t.entries : e.id = o.id).virt ELSE 0,
       rest  |-> [t EXCEPT !.order = @ \ {o},
                           !.entries = {e \in @ : e.id # o.id}]]

(* A fire: the earliest armed element, and with it every stale one before. *)
PopEarliest(t) ==
  LET o == CHOOSE o \in Armed(t) : \A p \in Armed(t) : o = p \/ Before(o, p)
      x == CHOOSE e \in t.entries : e.id = o.id
  IN  [fired |-> o.id,
       virt  |-> x.virt,
       rest  |-> [t EXCEPT !.order = {p \in @ : Before(o, p)},
                           !.entries = @ \ {x}]]

(* setTimeout(_, delay): scheduled for the millisecond frozen + delay.  The *)
(* deadline is as many whole milliseconds from now as the wall clock, read  *)
(* in whole milliseconds, is short of that; at once if it is past.          *)
SetTimeout(t, frozen, now, delay) ==
  LET virt == frozen + delay
      lead == Later(virt, WallMs(now)) - WallMs(now)
      at   == now + lead * Ms
      id   == t.last + 1
  IN  [last    |-> id,
       entries |-> t.entries \union {[id |-> id, at |-> at, virt |-> virt]},
       order   |-> t.order \union {[id |-> id, at |-> at]}]

TimersFull(t) == Cardinality(t.entries) >= MaxPending

(* clearTimeout(id) of a pending timer; every other id is a no-op. *)
ClearTimeout(t, id) == [t EXCEPT !.entries = {e \in @ : e.id # id}]
=============================================================================
