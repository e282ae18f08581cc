------------------------------ MODULE MarkPath ------------------------------
(***************************************************************************)
(* Job::path, segments and dots: the vectors a run of points becomes.      *)
(* One axis of the field stands for both.  A speed is a duration per       *)
(* vector (raw) or a feed rate; a wiggle is any pair of points as far from *)
(* the line as its radius allows.  A command is the record                 *)
(*   [op: jump or mark, us: its duration, to: its end, dwell: Param4].     *)
(***************************************************************************)
EXTENDS FitOvershoot, Sequences, FiniteSets

CONSTANTS
  Jobs,           \* the calls of path() a caller may make
  SegLists,       \* the lists of segments it may give to segments()
  SegOpts,        \* ... with these options
  DotLists,       \* the lists of points it may give to dots()
  RawUs,          \* a raw speed, microseconds per vector
  UsNum, UsDen,   \* a feed rate, UsNum / UsDen microseconds per count
  MaxUs           \* the longest duration a command can carry

AtJumpSpeed == 0  \* in the place of a duration: jump_speed, whatever it is
NoPoint == -1     \* `at' before the first command

Ops    == {"jump", "mark"}
Dwells == {"none", "jump", "corner", "off"}
Cmds   == [op : Ops, us : Nat, to : Int, dwell : Dwells]
Opts   == [over : Nat, wig : Nat, wigOk : BOOLEAN, feed : BOOLEAN, slow : BOOLEAN]
JobSet == [pts : Seq(Travel), lit : Seq(BOOLEAN), opts : Opts]

ASSUME JobsAssumption  == Jobs \subseteq JobSet /\ SegOpts \subseteq Opts
ASSUME ListsAssumption == /\ SegLists \subseteq Seq(Travel \X Travel)
                          /\ DotLists \subseteq Seq(Travel)
(* A raw speed is a u16, as every duration is.                             *)
ASSUME SpeedAssumption == /\ MaxUs \in Nat \ {0} /\ RawUs \in 0..MaxUs
                          /\ UsNum \in Nat /\ UsDen \in Nat \ {0}

VARIABLES
  job,      \* the arguments of path()
  i,        \* the segment it is at
  at,       \* where it believes the beam is, or NoPoint
  granted,  \* the shortest run-up granted so far
  cmds,     \* the vectors built so far
  asked,    \* what the caller wants marked: pairs <<from, to>>
  pc        \* idle, check, approach, runup, body, runout, done, dots, refused

pathVars == <<job, i, at, granted, cmds, asked, pc>>
vars == <<pathVars, fitVars>>

N    == Len(job.lit)
P0   == job.pts[i]
P1   == job.pts[i + 1]
over == job.opts.over
wig  == job.opts.wig
StartsRun == job.lit[i] /\ (i > 1 => ~job.lit[i - 1])

(* Mutant of EndsRun: only the last segment of the path ends a run.        *)
EndsPath == job.lit[i] /\ i = N
EndsRun  == job.lit[i] /\ (i < N => ~job.lit[i + 1])

Dist(a, b) == IF a < b THEN b - a ELSE a - b
Clamp(us)  == IF us < 1 THEN 1 ELSE IF us > MaxUs THEN MaxUs ELSE us
Rounded(a, b) == (2 * a + b) \div (2 * b)

(* Param0 of a vector from a to b.                                         *)
Duration(a, b) ==
  IF job.opts.feed THEN Clamp(Rounded(Dist(a, b) * UsNum, UsDen))
  ELSE IF RawUs < 1 THEN 1 ELSE RawUs

Cmd(op, us, to, dwell) == [op |-> op, us |-> us, to |-> to, dwell |-> dwell]
JumpTo(p) == Cmd("jump", AtJumpSpeed, p, "jump")
Smaller(a, b) == IF a < b THEN a ELSE b

Init ==
  /\ FitIdle
  /\ job = [pts |-> <<>>, lit |-> <<>>,
            opts |-> [over |-> 0, wig |-> 0, wigOk |-> TRUE, feed |-> TRUE, slow |-> FALSE]]
  /\ i = 1 /\ at = NoPoint /\ granted = 0 /\ cmds = <<>> /\ asked = <<>> /\ pc = "idle"

-----------------------------------------------------------------------------
(* The calls.                                                              *)
Called(j, lines) ==
  /\ pc' = "check" /\ job' = j /\ asked' = lines
  /\ granted' = j.opts.over
  /\ UNCHANGED <<i, at, cmds, fitVars>>

(* The place of k among the numbers of S, and the number in a place.       *)
Place(S, k) == Cardinality({n \in S : n <= k})
Nth(S, m)   == CHOOSE k \in S : Place(S, k) = m

(* The lit segments of a call, in order.                                   *)
Lit(j) == {k \in 1..Len(j.lit) : j.lit[k]}
Line(j, k)  == <<j.pts[k], j.pts[k + 1]>>
LitLines(j) == [m \in 1..Cardinality(Lit(j)) |-> Line(j, Nth(Lit(j), m))]

Accepted(j) ==
  /\ Len(j.pts) >= 2 /\ Len(j.lit) = Len(j.pts) - 1
  /\ j.opts.wig > 0 => j.opts.wigOk

CallPath ==
  /\ pc = "idle"
  /\ \E j \in Jobs : Called(j, IF Accepted(j) THEN LitLines(j) ELSE <<>>)

(* The points of the segments, in order.                                   *)
Flat(segs) == [k \in 1..2 * Len(segs) |-> segs[(k + 1) \div 2][2 - (k % 2)]]

(* Mutant of SegmentsJob: the connecting jump comes before its segment.    *)
SegmentsShifted(segs, o) ==
  [pts |-> Flat(segs), lit |-> [k \in 1..2 * Len(segs) - 1 |-> k % 2 = 0], opts |-> o]

(* Every other stretch is the jump to the next segment.                    *)
SegmentsJob(segs, o) ==
  [pts |-> Flat(segs), lit |-> [k \in 1..2 * Len(segs) - 1 |-> k % 2 = 1], opts |-> o]

CallSegments ==
  /\ pc = "idle"
  /\ \E segs \in SegLists, o \in SegOpts :
       IF segs = <<>>
       THEN pc' = "refused" /\ UNCHANGED <<job, i, at, granted, cmds, asked, fitVars>>
       ELSE Called(SegmentsJob(segs, o), segs)

CallDots ==
  /\ pc = "idle" /\ pc' = "dots"
  /\ \E dots \in DotLists :
    /\ asked' = [k \in 1..Len(dots) |-> <<dots[k], dots[k]>>]
    /\ cmds' = [k \in 1..2 * Len(dots) |->
                  IF k % 2 = 1 THEN JumpTo(dots[(k + 1) \div 2])
                  ELSE Cmd("mark", IF RawUs < 1 THEN 1 ELSE RawUs, dots[k \div 2], "none")]
    /\ UNCHANGED <<job, i, at, granted, fitVars>>

(* Everything path() refuses before it builds a vector.  That the points   *)
(* lie in the field follows from their type.                               *)
Check ==
  /\ pc = "check" /\ pc' = IF Accepted(job) THEN "approach" ELSE "refused"
  /\ UNCHANGED <<job, i, at, granted, cmds, asked, fitVars>>

-----------------------------------------------------------------------------
(* One segment: approach, body, run-out.                                   *)
(* Mutant of FinishSegment: the loop runs one segment too far.             *)
FinishSegmentLate == i' = i + 1 /\ pc' = IF i > N THEN "done" ELSE "approach"
FinishSegment     == i' = i + 1 /\ pc' = IF i = N THEN "done" ELSE "approach"

RunUpCall ==
  /\ pc = "approach" /\ StartsRun /\ over > 0 /\ pc' = "runup"
  /\ FitCall(P0, P1, over, TRUE)
  /\ UNCHANGED <<job, i, at, granted, cmds, asked>>

(* The jump to the start of a segment the beam is not at.                  *)
Approach ==
  /\ pc = "approach" /\ ~(StartsRun /\ over > 0) /\ pc' = "body"
  /\ cmds' = IF at = P0 THEN cmds ELSE Append(cmds, JumpTo(P0))
  /\ UNCHANGED <<job, i, at, granted, asked, fitVars>>

Search == pc \in {"runup", "runout"} /\ (Grow \/ Shrink) /\ UNCHANGED pathVars

(* Mutant of RunUp: the lead without the dark leg that follows it.         *)
RunUpNoLeg ==
  /\ pc = "runup" /\ Fitted /\ pc' = "body"
  /\ granted' = Smaller(granted, best)
  /\ cmds' = Append(cmds, JumpTo(Lead(p0, p1, best, TRUE)))
  /\ UNCHANGED <<job, i, at, asked, fitVars>>

RunUp ==
  LET lead == Lead(p0, p1, best, TRUE)
      jump == Append(cmds, JumpTo(lead))
  IN /\ pc = "runup" /\ Fitted /\ pc' = "body"
     /\ granted' = Smaller(granted, best)
     /\ cmds' = IF best = 0 THEN jump
                ELSE Append(jump, Cmd("jump", Duration(lead, P0), P0, "none"))
     /\ UNCHANGED <<job, i, at, asked, fitVars>>

(* A body leaves the beam at the end of the segment, and a lit run that    *)
(* ends there is followed by its run-out.                                  *)
Body(new) ==
  /\ pc = "body" /\ cmds' = cmds \o new /\ at' = P1
  /\ IF EndsRun /\ over > 0
     THEN pc' = "runout" /\ FitCall(P0, P1, over, FALSE) /\ UNCHANGED i
     ELSE FinishSegment /\ UNCHANGED fitVars
  /\ UNCHANGED <<job, granted, asked>>

MarkLine ==
  /\ pc = "body" /\ job.lit[i] /\ wig = 0
  /\ Body(<<Cmd("mark", Duration(P0, P1), P1, IF EndsRun THEN "off" ELSE "corner")>>)

Move ==
  /\ pc = "body" /\ ~job.lit[i]
  /\ Body(<<IF job.opts.slow THEN Cmd("jump", Duration(P0, P1), P1, "none")
            ELSE JumpTo(P1)>>)

-----------------------------------------------------------------------------
(* A wiggle: a point on the way and one near the end of the segment, each  *)
(* within the radius of the line.                                          *)
Near(a, b) == (IF a < b THEN a ELSE b) - wig .. (IF a < b THEN b ELSE a) + wig

(* Mutant of Chains: the run may end off its line.                         *)
ChainsAdrift ==
  IF P0 = P1 THEN {<<P1>>}
  ELSE {<<c, e>> : c \in Near(P0, P1), e \in Near(P1, P1)}

Chains ==
  IF P0 = P1 THEN {<<P1>>}
  ELSE {<<c, e>> : c \in Near(P0, P1), e \in IF EndsRun THEN {P1} ELSE Near(P1, P1)}

InTravel(chain) == \A k \in 1..Len(chain) : InField(chain[k])

(* Mutant of Prev: every vector is timed from the corner.                 *)
PrevStart(chain, k) == P0

(* Where the code has the beam before the k-th point of the chain.         *)
Prev(chain, k) == IF k = 1 THEN P0 ELSE chain[k - 1]
Traced(chain) ==
  IF Len(chain) = 1 THEN Dist(P0, chain[1])
  ELSE Dist(P0, chain[1]) + Dist(chain[1], chain[2])

(* Mutant of Sub: a raw duration given to every point, not shared.         *)
SubWhole(chain, k) == Duration(Prev(chain, k), chain[k])

(* A raw duration is shared out along the chain, a feed rate is not.       *)
Sub(chain, k) ==
  IF job.opts.feed THEN Duration(Prev(chain, k), chain[k])
  ELSE IF Traced(chain) = 0 THEN 1
  ELSE Clamp(Rounded(RawUs * Dist(Prev(chain, k), chain[k]), Traced(chain)))

WiggleVia(chain) ==
  Body([k \in 1..Len(chain) |->
         Cmd("mark", Sub(chain, k), chain[k],
             IF k = Len(chain) /\ EndsRun THEN "off" ELSE "none")])

(* Mutant of Wiggle: circles that leave the field are let through.         *)
WiggleAnywhere ==
  pc = "body" /\ job.lit[i] /\ wig > 0 /\ \E chain \in Chains : WiggleVia(chain)

Wiggle ==
  /\ pc = "body" /\ job.lit[i] /\ wig > 0
  /\ \E chain \in Chains : InTravel(chain) /\ WiggleVia(chain)

(* A circle that leaves the field refuses the whole path: the vectors      *)
(* built so far are dropped.                                               *)
WiggleRefused ==
  /\ pc = "body" /\ job.lit[i] /\ wig > 0
  /\ \E chain \in Chains : ~InTravel(chain)
  /\ pc' = "refused" /\ cmds' = <<>>
  /\ UNCHANGED <<job, i, at, granted, asked, fitVars>>

-----------------------------------------------------------------------------
RunOutStep(least, beam) ==
  LET out == Lead(p0, p1, best, FALSE)
  IN /\ pc = "runout" /\ Fitted /\ granted' = least /\ at' = beam
     /\ cmds' = IF best = 0 THEN cmds
                ELSE Append(cmds, Cmd("jump", Duration(P1, out), out, "none"))
     /\ FinishSegment /\ UNCHANGED <<job, asked, fitVars>>

(* Mutants of RunOut: the beam is taken to be at the end of the segment;   *)
(* the last length granted is the one reported.                            *)
RunOutForgotten == RunOutStep(Smaller(granted, best), at)
RunOutLast == RunOutStep(best, IF best = 0 THEN at ELSE Lead(p0, p1, best, FALSE))

RunOut ==
  RunOutStep(Smaller(granted, best), IF best = 0 THEN at ELSE Lead(p0, p1, best, FALSE))

Plan == \/ Check \/ RunUpCall \/ Approach \/ Search \/ RunUp \/ MarkLine \/ Move
        \/ Wiggle \/ WiggleRefused \/ RunOut
Next == CallPath \/ CallSegments \/ CallDots \/ Plan

Spec == Init /\ [][Next]_vars
(* The loops of path() run on their own once it is called.                 *)
FairSpec == Spec /\ WF_vars(Plan)

-----------------------------------------------------------------------------
(* Every variable has its type, and a segment is worked on only while      *)
(* there is one.                                                           *)
PlanType ==
  /\ job \in JobSet /\ i \in Nat \ {0} /\ at \in Int /\ granted \in Nat
  /\ cmds \in Seq(Cmds)
  /\ pc \in {"idle", "check", "approach", "runup", "body", "runout", "done", "dots", "refused"}
  /\ pc \in {"approach", "runup", "body", "runout"} => Accepted(job) /\ i <= N
TypeOK == PlanType /\ asked \in Seq(Int \X Int)

Marks     == {k \in 1..Len(cmds) : cmds[k].op = "mark"}
IsMark(k) == k \in Marks
Beam(k)   == IF k = 1 THEN NoPoint ELSE cmds[k - 1].to
IsLit(j)  == j \in Lit(job)

(* What is marked is what the caller asked for: each lit segment once, in  *)
(* order, from its first point to its last, wherever run-ups, run-outs and *)
(* jumps have taken the beam in between (path, segments and dots).         *)
MarksTheAsked ==
  pc \in {"done", "dots"} /\ wig = 0 =>
    asked = [m \in 1..Cardinality(Marks) |->
               <<Beam(Nth(Marks, m)), cmds[Nth(Marks, m)].to>>]

(* Wiggled or not, the beam is lit run by run, and each lit run begins and *)
(* ends exactly on its end points.                                         *)
RunStarts  == {j \in Lit(job) : ~IsLit(j - 1)}
RunEnds    == {j \in Lit(job) : ~IsLit(j + 1)}
MarkStarts == {k \in Marks : ~IsMark(k - 1)}
MarkEnds   == {k \in Marks : ~IsMark(k + 1)}
RunsEndOnTheirPoints ==
  pc = "done" =>
    /\ Cardinality(MarkStarts) = Cardinality(RunStarts)
    /\ Cardinality(MarkEnds) = Cardinality(RunEnds)
    /\ \A r \in 1..Cardinality(RunStarts) :
         Beam(Nth(MarkStarts, r)) = job.pts[Nth(RunStarts, r)]
    /\ \A r \in 1..Cardinality(RunEnds) :
         cmds[Nth(MarkEnds, r)].to = job.pts[Nth(RunEnds, r) + 1]

(* The laser-off dwell is on the vector after which the laser goes off,    *)
(* and on no other.                                                        *)
DwellWhereLaserStops ==
  pc = "done" => \A k \in 1..Len(cmds) :
    (cmds[k].dwell = "off") <=> (IsMark(k) /\ ~IsMark(k + 1))

(* At a feed rate every vector is timed for the distance the beam covers,  *)
(* from where the vector before it ends.                                   *)
TimedAsTravelled ==
  wig = 0 /\ job.opts.feed /\ pc # "dots" => \A k \in 1..Len(cmds) :
    cmds[k].us # AtJumpSpeed => k > 1 /\ cmds[k].us = Duration(Beam(k), cmds[k].to)

(* No vector ends outside the travel limits.                               *)
StaysInTravel == \A k \in 1..Len(cmds) : InField(cmds[k].to)

(* The run-up reported is there at both ends of every lit run, as long as  *)
(* the segment at that end has a length, and so a direction.               *)
HasLength(j) == job.pts[j] # job.pts[j + 1]
GrantedAtEveryRun ==
  pc = "done" /\ over > 0 /\ granted > 0 =>
    /\ \A r \in 1..Cardinality(RunStarts) :
         LET k == Nth(MarkStarts, r)
         IN HasLength(Nth(RunStarts, r)) => k > 2 /\ Dist(Beam(k - 1), Beam(k)) >= granted
    /\ \A r \in 1..Cardinality(RunEnds) :
         LET l == Nth(MarkEnds, r)
         IN HasLength(Nth(RunEnds, r)) =>
              l < Len(cmds) /\ Dist(cmds[l].to, cmds[l + 1].to) >= granted

(* The vectors that a step adds are timed for the way they take.           *)
Added == SubSeq(cmds', Len(cmds) + 1, Len(cmds'))
KeepsTime ==
  LET chain == [k \in 1..Len(Added) |-> Added[k].to]
      total == Added[1].us + IF Len(Added) = 2 THEN Added[2].us ELSE 0
      from(k) == IF k = 1 THEN cmds[Len(cmds)].to ELSE chain[k - 1]
  IN IF job.opts.feed
       THEN \A k \in 1..Len(Added) :
              k > 1 \/ from(1) = P0 => Added[k].us = Duration(from(k), chain[k])
       ELSE Traced(chain) > 0 => Dist(total, RawUs) <= Len(Added)

(* A wiggled segment with a raw duration takes the time asked for, give or *)
(* take the rounding of each vector, if its circles lead anywhere at all.  *)
(* At a feed rate each of its vectors is timed for the counts the board    *)
(* moves between (job.rs: "time the rounded points") -- except the first   *)
(* one after a corner inside a run, which is timed from the corner.        *)
WiggleKeepsTime == [][Wiggle => KeepsTime]_vars

(* A call that was accepted is planned to its end, or refused.             *)
PathReturns == pc = "check" ~> pc \in {"done", "refused"}
=============================================================================
