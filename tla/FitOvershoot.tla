---------------------------- MODULE FitOvershoot ----------------------------
(***************************************************************************)
(* Job::fit_overshoot: the longest run-up that stays inside the travel     *)
(* limits, found by bisection.  The geometry is that of one axis: a lead   *)
(* point lies on the line of the segment, beyond one of its ends.          *)
(***************************************************************************)
EXTENDS Integers

CONSTANT Full  \* the last galvo count, 0xFFFF in the code
ASSUME FullAssumption == Full \in Nat

VARIABLES p0, p1, counts, atStart,  \* the arguments of the call
          lo, hi, best              \* best: the run-up granted so far

fitArgs == <<p0, p1, counts, atStart>>
fitVars == <<fitArgs, lo, hi, best>>

Travel == 0..Full
InField(p) == p \in Travel

(* The point c counts before p, or past q, on the way from p to q.         *)
Lead(p, q, c, start) ==
  LET u == IF q > p THEN 1 ELSE -1
      d == IF p = q \/ c <= 0 THEN 0 ELSE c
  IN IF start THEN p - u * d ELSE q + u * d

(* What the search is to find.                                             *)
IsLongest(k, p, q, c, start) ==
  /\ k \in 0..c /\ InField(Lead(p, q, k, start))
  /\ \A l \in k+1..c : ~InField(Lead(p, q, l, start))

FitIdle == /\ p0 = 0 /\ p1 = 0 /\ counts = 0 /\ atStart = TRUE
           /\ lo = 1 /\ hi = 0 /\ best = 0

FitCall(p, q, c, start) ==
  /\ p0' = p /\ p1' = q /\ counts' = c /\ atStart' = start
  /\ lo' = 0 /\ hi' = c /\ best' = 0

Fitted == lo > hi
Mid == (lo + hi) \div 2

(* Mutant of Grow: a midpoint that fits moves the wrong bound.             *)
GrowShort ==
  /\ ~Fitted /\ InField(Lead(p0, p1, Mid, atStart))
  /\ best' = Mid /\ hi' = Mid - 1 /\ UNCHANGED <<fitArgs, lo>>

(* One round of the loop: the midpoint fits, or it does not.               *)
Grow ==
  /\ ~Fitted /\ InField(Lead(p0, p1, Mid, atStart))
  /\ best' = Mid /\ lo' = Mid + 1 /\ UNCHANGED <<fitArgs, hi>>

(* Mutant of Shrink: the midpoint is kept in the interval.                 *)
ShrinkTooLittle ==
  /\ ~Fitted /\ ~InField(Lead(p0, p1, Mid, atStart))
  /\ hi' = Mid /\ UNCHANGED <<fitArgs, lo, best>>

Shrink ==
  /\ ~Fitted /\ ~InField(Lead(p0, p1, Mid, atStart))
  /\ hi' = Mid - 1 /\ UNCHANGED <<fitArgs, lo, best>>

-----------------------------------------------------------------------------
(* The run-up a search ends with is the longest that fits: no shorter, and *)
(* never one that would put the beam outside its travel limits.            *)
GrantsLongest == Fitted => IsLongest(best, p0, p1, counts, atStart)
=============================================================================
