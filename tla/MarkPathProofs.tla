--------------------------- MODULE MarkPathProofs ---------------------------
(* Proofs about MarkPath, for every field, path, speed and run-up.         *)
EXTENDS MarkPath, SequenceTheorems, FiniteSetTheorems, TLAPS

(* The state of a search: what fits lies below lo, what does not above hi. *)
SearchInv ==
  /\ counts \in Nat /\ p0 \in Travel /\ p1 \in Travel /\ atStart \in BOOLEAN
  /\ best \in 0..counts /\ lo \in 0..counts + 1 /\ hi \in -1..counts /\ lo <= hi + 1
  /\ best = IF lo = 0 THEN 0 ELSE lo - 1
  /\ InField(Lead(p0, p1, best, atStart))
  /\ \A l \in hi + 1..counts : ~InField(Lead(p0, p1, l, atStart))

-----------------------------------------------------------------------------
(* The lead point is a count, and that of no run-up is the end itself.     *)
LEMMA LeadIsInt ==
  ASSUME NEW p \in Travel, NEW q \in Travel, NEW c \in Nat, NEW start \in BOOLEAN
  PROVE  /\ Lead(p, q, c, start) \in Int
         /\ Lead(p, q, 0, start) = IF start THEN p ELSE q
  BY FullAssumption DEF Lead, Travel

(* A longer run-up leaves the field if a shorter one does.                 *)
LEMMA LeadMonotone ==
  ASSUME NEW p \in Travel, NEW q \in Travel, NEW k \in Nat, NEW l \in Nat, k <= l,
         NEW start \in BOOLEAN, ~InField(Lead(p, q, k, start))
  PROVE  ~InField(Lead(p, q, l, start))
<1>1. CASE p = q \/ k = 0
  BY <1>1, FullAssumption DEF Lead, Travel, InField
<1>2. CASE p # q /\ k # 0 /\ q > p
  BY <1>2, FullAssumption DEF Lead, Travel, InField
<1>3. CASE p # q /\ k # 0 /\ ~(q > p)
  BY <1>3, FullAssumption DEF Lead, Travel, InField
<1> QED BY <1>1, <1>2, <1>3

LEMMA FitCallInv ==
  ASSUME NEW p \in Travel, NEW q \in Travel, NEW c \in Nat, NEW start \in BOOLEAN,
         FitCall(p, q, c, start)
  PROVE  SearchInv'
<1>1. InField(Lead(p, q, 0, start))
  BY LeadIsInt DEF InField
<1> QED BY <1>1 DEF FitCall, SearchInv

LEMMA GrowInv == SearchInv /\ Grow => SearchInv'
<1> SUFFICES ASSUME SearchInv, Grow PROVE SearchInv'
  OBVIOUS
<1>1. Mid \in lo..hi
  BY DEF SearchInv, Grow, Fitted, Mid
<1> QED BY <1>1 DEF SearchInv, Grow, Fitted, fitArgs

LEMMA ShrinkInv == SearchInv /\ Shrink => SearchInv'
<1> SUFFICES ASSUME SearchInv, Shrink PROVE SearchInv'
  OBVIOUS
<1>1. Mid \in lo..hi
  BY DEF SearchInv, Shrink, Fitted, Mid
<1>2. \A l \in Mid..counts : ~InField(Lead(p0, p1, l, atStart))
  <2> TAKE l \in Mid..counts
  <2>1. Mid \in Nat /\ l \in Nat /\ Mid <= l
    BY <1>1 DEF SearchInv
  <2> QED BY <2>1, LeadMonotone DEF SearchInv, Shrink
<1> QED BY <1>1, <1>2 DEF SearchInv, Shrink, Fitted, fitArgs

(* A search that is over has found the longest run-up.                     *)
LEMMA SearchLongest == SearchInv => GrantsLongest
<1> SUFFICES ASSUME SearchInv, Fitted PROVE IsLongest(best, p0, p1, counts, atStart)
  BY DEF GrantsLongest
<1>1. lo = hi + 1
  BY DEF SearchInv, Fitted
<1>2. lo # 0
  <2> SUFFICES ASSUME lo = 0 PROVE FALSE
    OBVIOUS
  <2>1. best = 0 /\ 0 \in hi + 1..counts
    BY <1>1 DEF SearchInv
  <2> QED BY <2>1 DEF SearchInv
<1>3. best = hi
  BY <1>1, <1>2 DEF SearchInv
<1> QED BY <1>3 DEF SearchInv, IsLongest

-----------------------------------------------------------------------------
(* Types, travel limits, and what the search in progress is about.         *)
PlanInv ==
  /\ PlanType /\ SearchInv /\ StaysInTravel
  /\ at \in Travel \cup {NoPoint}
  /\ pc \in {"idle", "check"} => cmds = <<>> /\ at = NoPoint /\ i = 1
  /\ pc \in {"runup", "runout"} => p0 = P0 /\ p1 = P1
  /\ pc = "runup" => atStart = TRUE
  /\ pc = "runout" => atStart = FALSE

Working == {"approach", "runup", "body", "runout"}

(* While a segment is worked on, it has two points of the field.           *)
LEMMA SegmentPoints ==
  ASSUME PlanType, pc \in Working
  PROVE  /\ P0 \in Travel /\ P1 \in Travel /\ i \in 1..N /\ N \in Nat
         /\ over \in Nat /\ wig \in Nat /\ job.opts \in Opts
<1>1. /\ job \in [pts : Seq(Travel), lit : Seq(BOOLEAN), opts : Opts]
      /\ i \in Nat \ {0} /\ i <= N /\ Len(job.lit) = Len(job.pts) - 1
  BY DEF PlanType, Working, Accepted, JobSet
<1>2. i \in 1..Len(job.pts) /\ i + 1 \in 1..Len(job.pts)
  BY <1>1, LenProperties DEF N
<1>3. P0 \in Travel /\ P1 \in Travel
  BY <1>1, <1>2, ElementOfSeq DEF P0, P1
<1> QED BY <1>1, <1>3, LenProperties DEF N, over, wig, Opts

LEMMA DurationType ==
  ASSUME job \in JobSet, NEW a \in Int, NEW b \in Int
  PROVE  Duration(a, b) \in Nat /\ Duration(a, b) > 0
<1>1. Dist(a, b) \in Nat
  BY DEF Dist
<1>2. Dist(a, b) * UsNum \in Nat
  BY <1>1, SpeedAssumption
<1>3. \A n \in Nat : Rounded(n, UsDen) \in Int
  BY SpeedAssumption DEF Rounded
<1>4. \A n \in Int : Clamp(n) \in Nat /\ Clamp(n) > 0
  BY SpeedAssumption DEF Clamp
<1>5. Clamp(Rounded(Dist(a, b) * UsNum, UsDen)) \in Nat /\ Clamp(Rounded(Dist(a, b) * UsNum, UsDen)) > 0
  BY <1>2, <1>3, <1>4
<1> QED BY <1>5, SpeedAssumption DEF Duration

LEMMA JumpType == ASSUME NEW p \in Int PROVE JumpTo(p) \in Cmds /\ JumpTo(p).to = p
  BY DEF JumpTo, Cmd, Cmds, Ops, Dwells, AtJumpSpeed

(* Appending a vector that ends in the field keeps the plan in the field.  *)
LEMMA AppendInField ==
  ASSUME NEW s \in Seq(Cmds), NEW c \in Cmds, \A k \in 1..Len(s) : InField(s[k].to), InField(c.to)
  PROVE  /\ Append(s, c) \in Seq(Cmds) /\ Len(Append(s, c)) = Len(s) + 1
         /\ \A k \in 1..Len(s) + 1 : InField(Append(s, c)[k].to)
         /\ \A k \in 1..Len(s) : Append(s, c)[k] = s[k]
         /\ Append(s, c)[Len(s) + 1] = c
<1>1. /\ Append(s, c) \in Seq(Cmds) /\ Len(Append(s, c)) = Len(s) + 1
      /\ \A k \in 1..Len(s) : Append(s, c)[k] = s[k]
      /\ Append(s, c)[Len(s) + 1] = c
  BY AppendProperties
<1>2. \A k \in 1..Len(s) + 1 : k \in 1..Len(s) \/ k = Len(s) + 1
  BY LenProperties
<1> QED BY <1>1, <1>2

(* What follows the vectors of a segment keeps the plan in order.          *)
LEMMA BodyInv ==
  ASSUME PlanInv, pc = "body", NEW new \in Seq(Cmds),
         \A k \in 1..Len(new) : InField(new[k].to), Body(new)
  PROVE  PlanInv'
<1>1. /\ P0 \in Travel /\ P1 \in Travel /\ i \in 1..N /\ N \in Nat /\ over \in Nat
  BY SegmentPoints DEF PlanInv, Working
<1>2. /\ cmds' \in Seq(Cmds) /\ Len(cmds') = Len(cmds) + Len(new)
      /\ \A k \in 1..Len(cmds') : cmds'[k] = IF k <= Len(cmds) THEN cmds[k] ELSE new[k - Len(cmds)]
  BY ConcatProperties DEF PlanInv, PlanType, Body
<1>3. StaysInTravel'
  <2> SUFFICES ASSUME NEW k \in 1..Len(cmds') PROVE InField(cmds'[k].to)
    BY DEF StaysInTravel, InField
  <2>1. Len(cmds) \in Nat /\ Len(new) \in Nat
    BY LenProperties DEF PlanInv, PlanType
  <2>2. k \in 1..Len(cmds) \/ k - Len(cmds) \in 1..Len(new)
    BY <1>2, <2>1
  <2>3. CASE k \in 1..Len(cmds)
    BY <1>2, <2>1, <2>3 DEF PlanInv, StaysInTravel
  <2>4. CASE k - Len(cmds) \in 1..Len(new)
    <3>1. cmds'[k] = new[k - Len(cmds)]
      BY <1>2, <2>1, <2>4
    <3> QED BY <2>4, <3>1
  <2> QED BY <2>2, <2>3, <2>4
<1>4. CASE EndsRun /\ over > 0
  <2>1. SearchInv'
    BY <1>1, <1>4, FitCallInv DEF Body
  <2>2. PlanType'
    BY <1>1, <1>2, <1>4 DEF PlanInv, PlanType, Body, N, Travel, Accepted
  <2> QED BY <1>1, <1>3, <1>4, <2>1, <2>2 DEF PlanInv, Body, FitCall, P0, P1, N
<1>5. CASE ~(EndsRun /\ over > 0)
  <2>1. SearchInv'
    BY <1>5 DEF PlanInv, SearchInv, Body, fitVars, fitArgs, InField
  <2>2. PlanType'
    <3>1. /\ i' = i + 1 /\ pc' = (IF i = N THEN "done" ELSE "approach")
          /\ job' = job /\ granted' = granted /\ at' = P1
      BY <1>5 DEF Body, FinishSegment
    <3>2. pc' = "approach" => Accepted(job)' /\ (i <= N)'
      BY <1>1, <3>1 DEF PlanInv, PlanType, Accepted, N
    <3>3. i' \in Nat \ {0} /\ at' \in Int
      BY <1>1, <3>1, FullAssumption DEF Travel
    <3> QED BY <1>2, <3>1, <3>2, <3>3 DEF PlanInv, PlanType
  <2> QED BY <1>1, <1>3, <1>5, <2>1, <2>2 DEF PlanInv, Body, FinishSegment
<1> QED BY <1>4, <1>5

LEMMA CallsInv == PlanInv /\ (CallPath \/ CallSegments \/ CallDots) => PlanInv'
<1> SUFFICES ASSUME PlanInv, pc = "idle", CallPath \/ CallSegments \/ CallDots PROVE PlanInv'
  BY DEF CallPath, CallSegments, CallDots
<1>1. ASSUME NEW j \in JobSet, NEW lines, Called(j, lines) PROVE PlanInv'
  <2>1. PlanType'
    BY <1>1 DEF PlanInv, PlanType, Called, JobSet, Opts
  <2>2. SearchInv' /\ StaysInTravel'
    BY <1>1 DEF PlanInv, SearchInv, StaysInTravel, Called, fitVars, fitArgs, InField
  <2> QED BY <1>1, <2>1, <2>2 DEF PlanInv, Called
<1>2. CASE CallPath
  BY <1>1, <1>2, JobsAssumption DEF CallPath
<1>3. CASE CallSegments
  <2>1. PICK segs \in SegLists, o \in SegOpts :
           IF segs = <<>>
           THEN pc' = "refused" /\ UNCHANGED <<job, i, at, granted, cmds, asked, fitVars>>
           ELSE Called(SegmentsJob(segs, o), segs)
    BY <1>3 DEF CallSegments
  <2>2. CASE segs = <<>>
    BY <2>1, <2>2 DEF PlanInv, PlanType, SearchInv, StaysInTravel, fitVars, fitArgs, InField
  <2>3. CASE segs # <<>>
    <3>1. segs \in Seq(Travel \X Travel) /\ Len(segs) \in Nat \ {0} /\ o \in Opts
      BY <2>3, ListsAssumption, JobsAssumption, EmptySeq, LenProperties
    <3>2. \A k \in 1..2 * Len(segs) : segs[(k + 1) \div 2][2 - (k % 2)] \in Travel
      <4> TAKE k \in 1..2 * Len(segs)
      <4>1. (k + 1) \div 2 \in 1..Len(segs) /\ 2 - (k % 2) \in {1, 2}
        BY <3>1
      <4>2. segs[(k + 1) \div 2] \in Travel \X Travel
        BY <3>1, <4>1, ElementOfSeq
      <4> QED BY <4>1, <4>2
    <3>3. Flat(segs) \in Seq(Travel)
      BY <3>1, <3>2 DEF Flat
    <3>4. [k \in 1..2 * Len(segs) - 1 |-> k % 2 = 1] \in Seq(BOOLEAN)
      BY <3>1
    <3>5. SegmentsJob(segs, o) \in JobSet
      BY <3>1, <3>3, <3>4 DEF SegmentsJob, JobSet
    <3> QED BY <1>1, <2>1, <2>3, <3>5
  <2> QED BY <2>2, <2>3
<1>4. CASE CallDots
  <2>1. PICK dots \in DotLists :
           /\ cmds' = [k \in 1..2 * Len(dots) |->
                  IF k % 2 = 1 THEN JumpTo(dots[(k + 1) \div 2])
                  ELSE Cmd("mark", IF RawUs < 1 THEN 1 ELSE RawUs, dots[k \div 2], "none")]
           /\ pc' = "dots" /\ UNCHANGED <<job, i, at, granted, fitVars>>
    BY <1>4 DEF CallDots
  <2>2. dots \in Seq(Travel) /\ Len(dots) \in Nat
    BY ListsAssumption, LenProperties
  <2>3. ASSUME NEW k \in 1..2 * Len(dots) PROVE cmds'[k] \in Cmds /\ InField(cmds'[k].to)
    <3>1. CASE k % 2 = 1
      <4>1. (k + 1) \div 2 \in 1..Len(dots) /\ cmds'[k] = JumpTo(dots[(k + 1) \div 2])
        BY <2>1, <2>2, <3>1
      <4>2. dots[(k + 1) \div 2] \in Travel
        BY <2>2, <4>1, ElementOfSeq
      <4> QED BY <4>1, <4>2, JumpType DEF InField, Travel
    <3>2. CASE k % 2 # 1
      <4>1. /\ k \div 2 \in 1..Len(dots)
            /\ cmds'[k] = Cmd("mark", IF RawUs < 1 THEN 1 ELSE RawUs, dots[k \div 2], "none")
        BY <2>1, <2>2, <3>2
      <4>2. dots[k \div 2] \in Travel
        BY <2>2, <4>1, ElementOfSeq
      <4> QED BY <4>1, <4>2, SpeedAssumption DEF InField, Travel, Cmd, Cmds, Ops, Dwells
    <3> QED BY <3>1, <3>2
  <2>4. cmds' \in Seq(Cmds) /\ Len(cmds') = 2 * Len(dots)
    <3>1. \A k \in 1..2 * Len(dots) : cmds'[k] \in Cmds
      BY <2>3
    <3>2. cmds' = [k \in 1..2 * Len(dots) |-> cmds'[k]]
      BY <2>1
    <3> HIDE DEF Cmds
    <3>3. cmds' \in [1..2 * Len(dots) -> Cmds] /\ 2 * Len(dots) \in Nat
      BY <2>2, <3>1, <3>2
    <3> QED BY <3>3, SeqDef, LenProperties
  <2>5. PlanType' /\ SearchInv' /\ StaysInTravel'
    BY <2>1, <2>3, <2>4
       DEF PlanInv, PlanType, SearchInv, StaysInTravel, fitVars, fitArgs, InField
  <2> QED BY <2>1, <2>5 DEF PlanInv
<1> QED BY <1>2, <1>3, <1>4

LEMMA CheckInv == PlanInv /\ Check => PlanInv'
<1> SUFFICES ASSUME PlanInv, Check PROVE PlanInv'
  OBVIOUS
<1>1. pc' = "approach" => Accepted(job)' /\ (i <= N)'
  BY LenProperties DEF PlanInv, PlanType, JobSet, Check, Accepted, N
<1>2. PlanType'
  BY <1>1 DEF PlanInv, PlanType, Check
<1>3. SearchInv' /\ StaysInTravel'
  BY DEF PlanInv, SearchInv, StaysInTravel, Check, fitVars, fitArgs, InField
<1> QED BY <1>2, <1>3 DEF PlanInv, Check

LEMMA RunUpCallInv == PlanInv /\ RunUpCall => PlanInv'
<1> SUFFICES ASSUME PlanInv, RunUpCall PROVE PlanInv'
  OBVIOUS
<1>1. P0 \in Travel /\ P1 \in Travel /\ over \in Nat
  BY SegmentPoints DEF PlanInv, Working, RunUpCall
<1>2. SearchInv'
  BY <1>1, FitCallInv DEF RunUpCall
<1>3. PlanType' /\ StaysInTravel'
  BY DEF PlanInv, PlanType, StaysInTravel, RunUpCall, Accepted, N, InField
<1> QED BY <1>2, <1>3 DEF PlanInv, RunUpCall, FitCall, P0, P1

LEMMA ApproachInv == PlanInv /\ Approach => PlanInv'
<1> SUFFICES ASSUME PlanInv, Approach PROVE PlanInv'
  OBVIOUS
<1>1. P0 \in Travel
  BY SegmentPoints DEF PlanInv, Working, Approach
<1>2. JumpTo(P0) \in Cmds /\ InField(JumpTo(P0).to)
  BY <1>1, JumpType DEF InField, Travel
<1>3. cmds' \in Seq(Cmds) /\ StaysInTravel'
  <2>1. CASE at = P0
    BY <2>1 DEF PlanInv, PlanType, StaysInTravel, Approach, InField
  <2>2. CASE at # P0
    BY <1>2, <2>2, AppendInField DEF PlanInv, PlanType, StaysInTravel, Approach, InField
  <2> QED BY <2>1, <2>2
<1>4. PlanType' /\ SearchInv'
  BY <1>3 DEF PlanInv, PlanType, SearchInv, Approach, fitVars, fitArgs, InField, Accepted, N
<1> QED BY <1>3, <1>4 DEF PlanInv, Approach

LEMMA SearchStepInv == PlanInv /\ Search => PlanInv'
<1> SUFFICES ASSUME PlanInv, Search PROVE PlanInv'
  OBVIOUS
<1>1. SearchInv'
  BY GrowInv, ShrinkInv DEF PlanInv, Search
<1>2. PlanType' /\ StaysInTravel'
  BY DEF PlanInv, PlanType, StaysInTravel, Search, pathVars, Accepted, N, InField
<1>3. p0' = p0 /\ p1' = p1 /\ atStart' = atStart
  BY DEF Search, Grow, Shrink, fitArgs
<1> QED BY <1>1, <1>2, <1>3 DEF PlanInv, Search, pathVars, P0, P1

LEMMA RunUpInv == PlanInv /\ RunUp => PlanInv'
<1> SUFFICES ASSUME PlanInv, RunUp PROVE PlanInv'
  OBVIOUS
<1> DEFINE lead == Lead(p0, p1, best, TRUE)
           jump == Append(cmds, JumpTo(lead))
           leg  == Cmd("jump", Duration(lead, P0), P0, "none")
<1>1. P0 \in Travel /\ P0 \in Int
  BY SegmentPoints, FullAssumption DEF PlanInv, Working, RunUp, Travel
<1>2. InField(lead) /\ lead \in Int
  <2>1. p0 \in Travel /\ p1 \in Travel /\ best \in Nat /\ atStart = TRUE
    BY DEF PlanInv, SearchInv, RunUp
  <2>2. lead \in Int
    BY <2>1, LeadIsInt
  <2> QED BY <2>1, <2>2 DEF PlanInv, SearchInv
<1>3. JumpTo(lead) \in Cmds /\ JumpTo(lead).to = lead
  BY <1>2, JumpType
<1>4. /\ jump \in Seq(Cmds) /\ Len(jump) = Len(cmds) + 1
      /\ \A k \in 1..Len(jump) : InField(jump[k].to)
  BY <1>2, <1>3, AppendInField DEF PlanInv, PlanType, StaysInTravel
<1>5. leg \in Cmds /\ leg.to = P0
  BY <1>1, <1>2, DurationType DEF PlanInv, PlanType, Cmd, Cmds, Ops, Dwells
<1>6. /\ Append(jump, leg) \in Seq(Cmds) /\ Len(Append(jump, leg)) = Len(jump) + 1
      /\ \A k \in 1..Len(jump) + 1 : InField(Append(jump, leg)[k].to)
  BY <1>1, <1>4, <1>5, AppendInField DEF InField
<1>7. /\ cmds' = (IF best = 0 THEN jump ELSE Append(jump, leg)) /\ pc' = "body" /\ pc = "runup"
      /\ granted' = Smaller(granted, best) /\ UNCHANGED <<job, i, at, asked, fitVars>>
  BY DEF RunUp
<1>8. cmds' \in Seq(Cmds) /\ StaysInTravel'
  <2> HIDE DEF jump, leg
  <2>1. CASE best = 0
    BY <1>4, <1>7, <2>1 DEF StaysInTravel, InField
  <2>2. CASE best # 0
    BY <1>6, <1>7, <2>2 DEF StaysInTravel, InField
  <2> QED BY <2>1, <2>2
<1>9. PlanType' /\ SearchInv'
  <2> HIDE DEF jump, leg
  <2>1. granted' \in Nat
    BY <1>7 DEF PlanInv, PlanType, SearchInv, Smaller
  <2> QED BY <1>7, <1>8, <2>1
        DEF PlanInv, PlanType, SearchInv, fitVars, fitArgs, InField, Accepted, N
<1> QED BY <1>7, <1>8, <1>9 DEF PlanInv

LEMMA MarkLineInv == PlanInv /\ MarkLine => PlanInv'
<1> SUFFICES ASSUME PlanInv, MarkLine PROVE PlanInv'
  OBVIOUS
<1> DEFINE c == Cmd("mark", Duration(P0, P1), P1, IF EndsRun THEN "off" ELSE "corner")
<1>1. P0 \in Travel /\ P1 \in Travel /\ P0 \in Int /\ P1 \in Int
  BY SegmentPoints, FullAssumption DEF PlanInv, Working, MarkLine, Travel
<1>2. c \in Cmds /\ InField(c.to)
  BY <1>1, DurationType DEF PlanInv, PlanType, Cmd, Cmds, Ops, Dwells, InField
<1> HIDE DEF c
<1>3. <<c>> \in Seq(Cmds) /\ \A k \in 1..Len(<<c>>) : InField(<<c>>[k].to)
  BY <1>2
<1> QED BY <1>3, BodyInv DEF MarkLine, c

LEMMA MoveInv == PlanInv /\ Move => PlanInv'
<1> SUFFICES ASSUME PlanInv, Move PROVE PlanInv'
  OBVIOUS
<1> DEFINE c == IF job.opts.slow THEN Cmd("jump", Duration(P0, P1), P1, "none") ELSE JumpTo(P1)
<1>1. P0 \in Travel /\ P1 \in Travel /\ P0 \in Int /\ P1 \in Int
  BY SegmentPoints, FullAssumption DEF PlanInv, Working, Move, Travel
<1>2. c \in Cmds /\ InField(c.to)
  BY <1>1, DurationType, JumpType DEF PlanInv, PlanType, Cmd, Cmds, Ops, Dwells, InField
<1> HIDE DEF c
<1>3. <<c>> \in Seq(Cmds) /\ \A k \in 1..Len(<<c>>) : InField(<<c>>[k].to)
  BY <1>2
<1> QED BY <1>3, BodyInv DEF Move, c

(* The share of a chain's time a point gets is a duration.                 *)
LEMMA SubType ==
  ASSUME job \in JobSet, P0 \in Int, NEW chain \in Seq(Int), Len(chain) \in {1, 2},
         NEW k \in 1..Len(chain)
  PROVE  Sub(chain, k) \in Nat
<1>1. Prev(chain, k) \in Int /\ chain[k] \in Int
  BY DEF Prev
<1>2. Duration(Prev(chain, k), chain[k]) \in Nat
  BY <1>1, DurationType
<1>3. Traced(chain) \in Nat
  BY SMTT(30) DEF Traced, Dist
<1>4. Traced(chain) # 0 => Clamp(Rounded(RawUs * Dist(Prev(chain, k), chain[k]), Traced(chain))) \in Nat
  <2>1. Dist(Prev(chain, k), chain[k]) \in Nat
    BY <1>1 DEF Dist
  <2>2. RawUs * Dist(Prev(chain, k), chain[k]) \in Nat
    BY <2>1, SpeedAssumption
  <2>3. ASSUME NEW n \in Nat, NEW m \in Nat \ {0} PROVE Clamp(Rounded(n, m)) \in Nat
    BY SpeedAssumption DEF Clamp, Rounded
  <2> QED BY <1>3, <2>2, <2>3
<1> QED BY <1>2, <1>4 DEF Sub

LEMMA WiggleInv == PlanInv /\ Wiggle => PlanInv'
<1> SUFFICES ASSUME PlanInv, Wiggle PROVE PlanInv'
  OBVIOUS
<1>1. /\ P0 \in Travel /\ P1 \in Travel /\ P0 \in Int /\ P1 \in Int /\ wig \in Int
  BY SegmentPoints, FullAssumption DEF PlanInv, Working, Wiggle, Travel
<1>2. PICK chain \in Chains : InTravel(chain) /\ WiggleVia(chain)
  BY DEF Wiggle
<1>3. chain \in Seq(Int) /\ Len(chain) \in {1, 2}
  <2>1. CASE P0 = P1
    <3>1. chain = <<P1>>
      BY <2>1 DEF Chains
    <3> QED BY <1>1, <3>1
  <2>2. CASE P0 # P1
    <3>1. Near(P0, P1) \subseteq Int /\ Near(P1, P1) \subseteq Int
      BY <1>1 DEF Near
    <3>2. PICK c \in Int, e \in Int : chain = <<c, e>>
      BY <1>1, <2>2, <3>1 DEF Chains
    <3> QED BY <3>2
  <2> QED BY <2>1, <2>2
<1> DEFINE c(k) == Cmd("mark", Sub(chain, k), chain[k],
                        IF k = Len(chain) /\ EndsRun THEN "off" ELSE "none")
           new == [k \in 1..Len(chain) |-> c(k)]
<1>4. \A k \in 1..Len(chain) : c(k) \in Cmds /\ c(k).to = chain[k]
  BY <1>1, <1>3, SubType DEF PlanInv, PlanType, Cmd, Cmds, Ops, Dwells
<1>5. new \in Seq(Cmds) /\ Len(new) = Len(chain) /\ \A k \in 1..Len(new) : InField(new[k].to)
  <2> HIDE DEF c, Cmds
  <2>1. new \in Seq(Cmds) /\ Len(new) = Len(chain)
    BY <1>3, <1>4
  <2>2. \A k \in 1..Len(new) : new[k] = c(k)
    BY <2>1
  <2> QED BY <1>2, <1>4, <2>1, <2>2 DEF InTravel
<1>6. Body(new)
  BY <1>2 DEF WiggleVia
<1>7. pc = "body"
  BY DEF Wiggle
<1> HIDE DEF new
<1> QED BY <1>5, <1>6, <1>7, BodyInv

LEMMA WiggleRefusedInv == PlanInv /\ WiggleRefused => PlanInv'
<1> SUFFICES ASSUME PlanInv, WiggleRefused PROVE PlanInv'
  OBVIOUS
<1>1. PlanType' /\ SearchInv' /\ StaysInTravel'
  BY DEF PlanInv, PlanType, SearchInv, StaysInTravel, WiggleRefused, fitVars, fitArgs, InField
<1> QED BY <1>1 DEF PlanInv, WiggleRefused

LEMMA RunOutInv == PlanInv /\ RunOut => PlanInv'
<1> SUFFICES ASSUME PlanInv, RunOut PROVE PlanInv'
  OBVIOUS
<1> DEFINE out == Lead(p0, p1, best, FALSE)
           c   == Cmd("jump", Duration(P1, out), out, "none")
<1>1. /\ P1 \in Travel /\ P1 \in Int /\ i \in 1..N /\ N \in Nat
  BY SegmentPoints, FullAssumption DEF PlanInv, Working, RunOut, RunOutStep, Travel
<1>2. InField(out) /\ out \in Int
  <2>1. p0 \in Travel /\ p1 \in Travel /\ best \in Nat /\ atStart = FALSE
    BY DEF PlanInv, SearchInv, RunOut, RunOutStep
  <2>2. out \in Int
    BY <2>1, LeadIsInt
  <2> QED BY <2>1, <2>2 DEF PlanInv, SearchInv
<1>3. c \in Cmds /\ c.to = out
  BY <1>1, <1>2, DurationType DEF PlanInv, PlanType, Cmd, Cmds, Ops, Dwells
<1>4. /\ cmds' = (IF best = 0 THEN cmds ELSE Append(cmds, c))
      /\ granted' = Smaller(granted, best) /\ at' = (IF best = 0 THEN at ELSE out)
      /\ i' = i + 1 /\ pc' = (IF i = N THEN "done" ELSE "approach")
      /\ UNCHANGED <<job, asked, fitVars>> /\ pc = "runout"
  BY DEF RunOut, RunOutStep, FinishSegment
<1> HIDE DEF c, out
<1>5. cmds' \in Seq(Cmds) /\ StaysInTravel'
  <2>1. CASE best = 0
    BY <1>4, <2>1 DEF PlanInv, PlanType, StaysInTravel, InField
  <2>2. CASE best # 0
    BY <1>2, <1>3, <1>4, <2>2, AppendInField DEF PlanInv, PlanType, StaysInTravel, InField
  <2> QED BY <2>1, <2>2
<1>6. PlanType' /\ SearchInv'
  <2>1. granted' \in Nat /\ at' \in Int /\ i' \in Nat \ {0}
    BY <1>1, <1>2, <1>4 DEF PlanInv, PlanType, SearchInv, Smaller
  <2>2. pc' = "approach" => Accepted(job)' /\ (i <= N)'
    BY <1>1, <1>4 DEF PlanInv, PlanType, Accepted, N
  <2> QED BY <1>4, <1>5, <2>1, <2>2
        DEF PlanInv, PlanType, SearchInv, fitVars, fitArgs, InField
<1> QED BY <1>2, <1>4, <1>5, <1>6 DEF PlanInv, InField

-----------------------------------------------------------------------------
LEMMA PlanInvariant == Spec => []PlanInv
<1>1. Init => PlanInv
  BY FullAssumption
     DEF Init, FitIdle, PlanInv, PlanType, SearchInv, StaysInTravel, JobSet, Opts,
         Lead, InField, Travel, NoPoint
<1>2. PlanInv /\ [Next]_vars => PlanInv'
  <2> SUFFICES ASSUME PlanInv, [Next]_vars PROVE PlanInv'
    OBVIOUS
  <2>1. CASE CallPath \/ CallSegments \/ CallDots
    BY <2>1, CallsInv
  <2>2. CASE Plan
    BY <2>2, CheckInv, RunUpCallInv, ApproachInv, SearchStepInv, RunUpInv, MarkLineInv,
       MoveInv, WiggleInv, WiggleRefusedInv, RunOutInv DEF Plan
  <2>3. CASE UNCHANGED vars
    BY <2>3 DEF vars, pathVars, fitVars, fitArgs, PlanInv, PlanType, SearchInv,
                StaysInTravel, InField, Accepted, N, P0, P1
  <2> QED BY <2>1, <2>2, <2>3 DEF Next
<1> QED BY <1>1, <1>2, PTL DEF Spec

(* path(), segments() and dots() build well-formed vectors, whatever they  *)
(* are called with.                                                        *)
THEOREM PathTypeCorrect == Spec => []PlanType
  BY PlanInvariant, PTL DEF PlanInv

(* Every search of every path ends with the longest run-up that fits, for  *)
(* every field, segment and run-up asked for.                              *)
THEOREM RunUpsAreLongest == Spec => []GrantsLongest
<1>1. PlanInv => GrantsLongest
  BY SearchLongest DEF PlanInv
<1> QED BY <1>1, PlanInvariant, PTL

(* No path, wiggled or not, has a vector that ends outside the field.      *)
THEOREM BeamStaysInTravel == Spec => []StaysInTravel
  BY PlanInvariant, PTL DEF PlanInv

-----------------------------------------------------------------------------
(* Timing.  Where the vectors s leave the beam, and vectors of which each  *)
(* is timed for the way from the end of the one before it.                 *)
LastTo(s) == s[Len(s)].to
Timed(s) == \A k \in 1..Len(s) : s[k].us # AtJumpSpeed =>
  k > 1 /\ s[k].us = Duration(IF k = 1 THEN NoPoint ELSE s[k - 1].to, s[k].to)

Ideal == wig = 0 /\ job.opts.feed /\ pc # "dots"

(* path() is never wrong about where the beam is when it times a vector.   *)
BeamInv ==
  Ideal =>
    /\ Timed(cmds)
    /\ pc = "approach" /\ at # NoPoint => cmds # <<>> /\ LastTo(cmds) = at
    /\ pc = "body"   => cmds # <<>> /\ LastTo(cmds) = P0
    /\ pc = "runout" => cmds # <<>> /\ LastTo(cmds) = P1 /\ at = P1

LEMMA TimedAppend ==
  ASSUME NEW s \in Seq(Cmds), NEW c \in Cmds, Timed(s),
         \/ c.us = AtJumpSpeed
         \/ s # <<>> /\ c.us = Duration(LastTo(s), c.to)
  PROVE  /\ Timed(Append(s, c)) /\ Append(s, c) # <<>> /\ LastTo(Append(s, c)) = c.to
         /\ Append(s, c) \in Seq(Cmds)
<1> DEFINE t == Append(s, c)
<1>1. /\ t \in Seq(Cmds) /\ Len(t) = Len(s) + 1 /\ Len(s) \in Nat
      /\ \A k \in 1..Len(s) : t[k] = s[k]
      /\ t[Len(s) + 1] = c
  BY AppendProperties, LenProperties
<1>2. t # <<>> /\ LastTo(t) = c.to
  BY <1>1 DEF LastTo
<1> HIDE DEF t
<1>3. ASSUME NEW k \in 1..Len(t), t[k].us # AtJumpSpeed
      PROVE  k > 1 /\ t[k].us = Duration(IF k = 1 THEN NoPoint ELSE t[k - 1].to, t[k].to)
  <2>1. CASE k \in 1..Len(s)
    <3>1. t[k] = s[k] /\ s[k].us # AtJumpSpeed
      BY <1>1, <1>3, <2>1
    <3>2. k > 1 /\ s[k].us = Duration(s[k - 1].to, s[k].to)
      BY <2>1, <3>1 DEF Timed
    <3>3. t[k - 1] = s[k - 1]
      BY <1>1, <2>1, <3>2
    <3> QED BY <3>1, <3>2, <3>3
  <2>2. CASE k = Len(s) + 1
    <3>1. t[k] = c /\ s # <<>> /\ c.us = Duration(LastTo(s), c.to)
      BY <1>1, <1>3, <2>2
    <3>2. Len(s) > 0
      BY <3>1, EmptySeq
    <3>3. k > 1 /\ t[k - 1] = s[Len(s)]
      BY <1>1, <2>2, <3>2
    <3> QED BY <3>1, <3>3 DEF LastTo
  <2> QED BY <1>1, <2>1, <2>2
<1> QED BY <1>1, <1>2, <1>3 DEF t, Timed

(* A step that leaves the job alone leaves the meaning of Timed alone.     *)
LEMMA TimedStable == ASSUME job' = job, Timed(cmds') PROVE Timed(cmds)'
  BY DEF Timed, Duration

LEMMA BeamApproach == PlanInv /\ BeamInv /\ Approach => BeamInv'
<1> SUFFICES ASSUME PlanInv, BeamInv, Approach, Ideal' PROVE BeamInv'
  BY DEF BeamInv
<1>1. Ideal /\ Timed(cmds) /\ job' = job /\ i' = i /\ pc' = "body" /\ P0 \in Travel
  BY SegmentPoints DEF BeamInv, Ideal, Approach, wig, PlanInv, Working
<1>2. Timed(cmds') /\ cmds' # <<>> /\ LastTo(cmds') = P0
  <2>1. CASE at = P0
    <3>1. at # NoPoint /\ cmds' = cmds
      BY <1>1, <2>1 DEF Travel, NoPoint, Approach
    <3> QED BY <1>1, <2>1, <3>1 DEF BeamInv, Approach
  <2>2. CASE at # P0
    <3>1. cmds' = Append(cmds, JumpTo(P0)) /\ JumpTo(P0) \in Cmds /\ JumpTo(P0).to = P0
      BY <1>1, <2>2, JumpType DEF Approach, Travel
    <3>2. JumpTo(P0).us = AtJumpSpeed /\ cmds \in Seq(Cmds)
      BY DEF JumpTo, Cmd, PlanInv, PlanType
    <3> QED BY <1>1, <3>1, <3>2, TimedAppend
  <2> QED BY <2>1, <2>2
<1>3. Timed(cmds)'
  BY <1>1, <1>2, TimedStable
<1> QED BY <1>1, <1>2, <1>3 DEF BeamInv, LastTo, P0

LEMMA BeamRunUp == PlanInv /\ BeamInv /\ RunUp => BeamInv'
<1> SUFFICES ASSUME PlanInv, BeamInv, RunUp, Ideal' PROVE BeamInv'
  BY DEF BeamInv
<1> DEFINE lead == Lead(p0, p1, best, TRUE)
           jump == Append(cmds, JumpTo(lead))
           leg  == Cmd("jump", Duration(lead, P0), P0, "none")
<1>1. /\ Ideal /\ Timed(cmds) /\ cmds \in Seq(Cmds) /\ job' = job /\ i' = i /\ pc' = "body"
      /\ cmds' = (IF best = 0 THEN jump ELSE Append(jump, leg))
  BY DEF BeamInv, Ideal, RunUp, wig, PlanInv, PlanType
<1>2. /\ P0 \in Travel /\ P0 \in Int /\ p0 = P0 /\ p1 = P1 /\ p1 \in Travel /\ best \in Nat
  BY SegmentPoints, FullAssumption DEF PlanInv, SearchInv, Working, RunUp, Travel
<1>3. lead \in Int /\ (best = 0 => lead = P0)
  <2>1. lead \in Int
    BY <1>2, LeadIsInt
  <2>2. Lead(p0, p1, 0, TRUE) = p0
    BY <1>2, LeadIsInt
  <2> QED BY <1>2, <2>1, <2>2
<1>4. JumpTo(lead) \in Cmds /\ JumpTo(lead).to = lead /\ JumpTo(lead).us = AtJumpSpeed
  <2> HIDE DEF lead
  <2> QED BY <1>3, JumpType DEF JumpTo, Cmd
<1>5. Timed(jump) /\ jump # <<>> /\ LastTo(jump) = lead /\ jump \in Seq(Cmds)
  <2> HIDE DEF lead
  <2> QED BY <1>1, <1>4, TimedAppend
<1>6. leg \in Cmds /\ leg.to = P0 /\ leg.us = Duration(lead, P0)
  <2> HIDE DEF lead
  <2> QED BY <1>2, <1>3, DurationType DEF PlanInv, PlanType, Cmd, Cmds, Ops, Dwells
<1>7. Timed(Append(jump, leg)) /\ Append(jump, leg) # <<>> /\ LastTo(Append(jump, leg)) = P0
  <2> HIDE DEF jump, leg
  <2> QED BY <1>5, <1>6, TimedAppend
<1> HIDE DEF jump, leg
<1>8. Timed(cmds') /\ cmds' # <<>> /\ LastTo(cmds') = P0
  <2>1. CASE best = 0
    BY <1>1, <1>3, <1>5, <2>1
  <2>2. CASE best # 0
    BY <1>1, <1>7, <2>2
  <2> QED BY <2>1, <2>2
<1>9. Timed(cmds)'
  BY <1>1, <1>8, TimedStable
<1> QED BY <1>1, <1>8, <1>9 DEF BeamInv, LastTo, P0

(* A segment whose one vector is timed from its start, or not timed at all.*)
LEMMA BeamBody ==
  ASSUME PlanInv, BeamInv, Ideal', pc = "body", NEW c \in Cmds, Body(<<c>>), c.to = P1,
         c.us = AtJumpSpeed \/ c.us = Duration(P0, P1)
  PROVE  BeamInv'
<1>1. /\ Ideal /\ Timed(cmds) /\ cmds \in Seq(Cmds) /\ cmds # <<>> /\ LastTo(cmds) = P0
      /\ job' = job /\ at' = P1 /\ P1 \in Travel
  BY SegmentPoints DEF BeamInv, Ideal, Body, wig, PlanInv, PlanType, Working
<1>2. cmds' = Append(cmds, c)
  BY <1>1, AppendIsConcat DEF Body
<1>3. Timed(cmds') /\ cmds' # <<>> /\ LastTo(cmds') = P1
  BY <1>1, <1>2, TimedAppend
<1>4. Timed(cmds)'
  BY <1>1, <1>3, TimedStable
<1>5. \/ pc' = "runout" /\ i' = i
      \/ pc' \in {"done", "approach"}
  BY DEF Body, FinishSegment
<1>6. pc' = "runout" => P1' = P1
  BY <1>1, <1>5 DEF P1
<1> QED BY <1>1, <1>3, <1>4, <1>5, <1>6 DEF BeamInv, LastTo

LEMMA BeamMarkLine == PlanInv /\ BeamInv /\ MarkLine => BeamInv'
<1> SUFFICES ASSUME PlanInv, BeamInv, MarkLine, Ideal' PROVE BeamInv'
  BY DEF BeamInv
<1> DEFINE c == Cmd("mark", Duration(P0, P1), P1, IF EndsRun THEN "off" ELSE "corner")
<1>1. P0 \in Int /\ P1 \in Int
  BY SegmentPoints, FullAssumption DEF PlanInv, Working, MarkLine, Travel
<1>2. c \in Cmds /\ c.to = P1 /\ c.us = Duration(P0, P1)
  BY <1>1, DurationType DEF PlanInv, PlanType, Cmd, Cmds, Ops, Dwells
<1>3. pc = "body" /\ Body(<<c>>)
  BY DEF MarkLine
<1> HIDE DEF c
<1> QED BY <1>2, <1>3, BeamBody

LEMMA BeamMove == PlanInv /\ BeamInv /\ Move => BeamInv'
<1> SUFFICES ASSUME PlanInv, BeamInv, Move, Ideal' PROVE BeamInv'
  BY DEF BeamInv
<1> DEFINE c == IF job.opts.slow THEN Cmd("jump", Duration(P0, P1), P1, "none") ELSE JumpTo(P1)
<1>1. P0 \in Int /\ P1 \in Int
  BY SegmentPoints, FullAssumption DEF PlanInv, Working, Move, Travel
<1>2. c \in Cmds /\ c.to = P1 /\ (c.us = AtJumpSpeed \/ c.us = Duration(P0, P1))
  <2>1. JumpTo(P1) \in Cmds /\ JumpTo(P1).to = P1 /\ JumpTo(P1).us = AtJumpSpeed
    BY <1>1, JumpType DEF JumpTo, Cmd
  <2> DEFINE timed == Cmd("jump", Duration(P0, P1), P1, "none")
  <2>2. timed \in Cmds /\ timed.to = P1 /\ timed.us = Duration(P0, P1)
    BY <1>1, DurationType DEF PlanInv, PlanType, Cmd, Cmds, Ops, Dwells
  <2> HIDE DEF timed
  <2> QED BY <2>1, <2>2 DEF timed
<1>3. pc = "body" /\ Body(<<c>>)
  BY DEF Move
<1> HIDE DEF c
<1> QED BY <1>2, <1>3, BeamBody

LEMMA BeamRunOut == PlanInv /\ BeamInv /\ RunOut => BeamInv'
<1> SUFFICES ASSUME PlanInv, BeamInv, RunOut, Ideal' PROVE BeamInv'
  BY DEF BeamInv
<1> DEFINE out == Lead(p0, p1, best, FALSE)
           c   == Cmd("jump", Duration(P1, out), out, "none")
<1>1. /\ Ideal /\ Timed(cmds) /\ cmds \in Seq(Cmds) /\ cmds # <<>> /\ LastTo(cmds) = P1
      /\ at = P1 /\ job' = job /\ pc' \in {"done", "approach"}
      /\ cmds' = (IF best = 0 THEN cmds ELSE Append(cmds, c))
      /\ at' = (IF best = 0 THEN at ELSE out)
  BY DEF BeamInv, Ideal, RunOut, RunOutStep, FinishSegment, wig, PlanInv, PlanType
<1>2. P1 \in Int /\ p0 \in Travel /\ p1 \in Travel /\ best \in Nat
  BY SegmentPoints, FullAssumption
     DEF PlanInv, SearchInv, Working, RunOut, RunOutStep, Travel
<1>3. out \in Int
  BY <1>2, LeadIsInt
<1> HIDE DEF out
<1>4. c \in Cmds /\ c.to = out /\ c.us = Duration(P1, out)
  BY <1>2, <1>3, DurationType DEF PlanInv, PlanType, Cmd, Cmds, Ops, Dwells
<1> HIDE DEF c
<1>5. Timed(cmds') /\ cmds' # <<>> /\ LastTo(cmds') = at'
  <2>1. CASE best = 0
    BY <1>1, <2>1
  <2>2. CASE best # 0
    BY <1>1, <1>4, <2>2, TimedAppend
  <2> QED BY <2>1, <2>2
<1>6. Timed(cmds)'
  BY <1>1, <1>5, TimedStable
<1> QED BY <1>1, <1>5, <1>6 DEF BeamInv, LastTo

(* At a feed rate, every vector of every path without a wiggle is timed    *)
(* for the distance the beam really covers, whatever run-ups were trimmed, *)
(* and a path always opens with a jump at jump speed.                      *)
THEOREM EveryVectorTimed == Spec => []TimedAsTravelled
<1>1. Init => BeamInv
  BY DEF Init, BeamInv, Timed
<1>2. PlanInv /\ BeamInv /\ [Next]_vars => BeamInv'
  <2> SUFFICES ASSUME PlanInv, BeamInv, [Next]_vars PROVE BeamInv'
    OBVIOUS
  <2>1. CASE CallPath \/ CallSegments
    <3>1. cmds = <<>> /\ UNCHANGED <<cmds, at>> /\ pc' \in {"check", "refused"}
      BY <2>1 DEF CallPath, CallSegments, Called, PlanInv
    <3> QED BY <3>1 DEF BeamInv, Timed
  <2>2. CASE CallDots
    BY <2>2 DEF CallDots, BeamInv, Ideal
  <2>3. CASE Check
    <3>1. cmds = <<>> /\ at = NoPoint /\ UNCHANGED <<cmds, at>> /\ pc' \in {"approach", "refused"}
      BY <2>3 DEF Check, PlanInv
    <3> QED BY <3>1 DEF BeamInv, Timed
  <2>4. CASE RunUpCall \/ Search
    <3>1. /\ UNCHANGED <<job, i, cmds, at>> /\ pc # "dots"
          /\ \/ pc' = "runup"
             \/ pc' = pc /\ pc = "runout"
      BY <2>4 DEF RunUpCall, Search, pathVars
    <3>2. Ideal' => Ideal
      BY <3>1 DEF Ideal, wig
    <3>3. Timed(cmds) => Timed(cmds)'
      BY <3>1, TimedStable
    <3> QED BY <3>1, <3>2, <3>3 DEF BeamInv, LastTo, P1
  <2>5. CASE Approach \/ RunUp \/ MarkLine \/ Move \/ RunOut
    BY <2>5, BeamApproach, BeamRunUp, BeamMarkLine, BeamMove, BeamRunOut
  <2>6. CASE Wiggle \/ WiggleRefused
    <3>1. wig > 0 /\ job' = job /\ wig \in Nat
      BY <2>6, SegmentPoints
         DEF Wiggle, WiggleVia, WiggleRefused, Body, PlanInv, Working
    <3>2. ~Ideal'
      BY <3>1 DEF Ideal, wig
    <3> QED BY <3>2 DEF BeamInv
  <2>7. CASE UNCHANGED vars
    <3>1. UNCHANGED <<job, i, cmds, at, pc>>
      BY <2>7 DEF vars, pathVars
    <3>2. (Ideal' => Ideal) /\ (Timed(cmds) => Timed(cmds)')
      BY <3>1, TimedStable DEF Ideal, wig
    <3> QED BY <3>1, <3>2 DEF BeamInv, LastTo, P0, P1
  <2> QED BY <2>1, <2>2, <2>3, <2>4, <2>5, <2>6, <2>7 DEF Next, Plan
<1>3. BeamInv => TimedAsTravelled
  BY DEF BeamInv, Ideal, Timed, TimedAsTravelled, Beam
<1> QED BY <1>1, <1>2, <1>3, PlanInvariant, PTL DEF Spec

-----------------------------------------------------------------------------
(* Counting.  Members of two sets of numbers with the same place in each.  *)
Twins(S, s, T, t) == s \in S /\ t \in T /\ Place(S, s) = Place(T, t)

(* Places are numbers of 1..Cardinality(S), and grow along S.              *)
LEMMA PlaceGrows ==
  ASSUME NEW S \in SUBSET Nat, IsFiniteSet(S)
  PROVE  /\ Cardinality(S) \in Nat
         /\ \A k \in S : Place(S, k) \in 1..Cardinality(S)
         /\ \A k, l \in S : k < l => Place(S, k) < Place(S, l)
<1> DEFINE Upto(k) == {n \in S : n <= k}
<1>1. ASSUME NEW k \in S
      PROVE  /\ IsFiniteSet(Upto(k)) /\ Cardinality(Upto(k)) \in Nat
             /\ Cardinality(Upto(k)) <= Cardinality(S) /\ Cardinality(Upto(k)) # 0
  <2>1. IsFiniteSet(Upto(k)) /\ Cardinality(Upto(k)) <= Cardinality(S)
    BY FS_Subset
  <2>2. k \in Upto(k)
    OBVIOUS
  <2> HIDE DEF Upto
  <2> QED BY <2>1, <2>2, FS_CardinalityType, FS_EmptySet
<1>2. ASSUME NEW k \in S, NEW l \in S, k < l PROVE Cardinality(Upto(k)) < Cardinality(Upto(l))
  <2>1. Upto(k) \in SUBSET Upto(l) /\ l \in Upto(l) /\ l \notin Upto(k)
    <3>1. k \in Nat /\ l \in Nat /\ S \subseteq Nat
      OBVIOUS
    <3>2. \A n \in S : n <= k => n <= l
      BY <1>2, <3>1
    <3>3. l <= l /\ ~(l <= k)
      BY <1>2, <3>1
    <3> QED BY <3>2, <3>3
  <2>2. IsFiniteSet(Upto(l)) /\ Cardinality(Upto(k)) \in Nat /\ Cardinality(Upto(l)) \in Nat
    BY <1>1
  <2> HIDE DEF Upto
  <2>3. Cardinality(Upto(k)) <= Cardinality(Upto(l)) /\ Cardinality(Upto(k)) # Cardinality(Upto(l))
    BY <2>1, <2>2, FS_Subset
  <2> QED BY <2>2, <2>3
<1>3. Cardinality(S) \in Nat
  BY FS_CardinalityType
<1>4. \A k \in S : Place(S, k) = Cardinality(Upto(k))
  BY DEF Place
<1> HIDE DEF Upto
<1> QED BY <1>1, <1>2, <1>3, <1>4

(* Every place is taken, by one number.                                    *)
LEMMA NthPlace ==
  ASSUME NEW S \in SUBSET Nat, IsFiniteSet(S)
  PROVE  /\ \A m \in 1..Cardinality(S) : Nth(S, m) \in S /\ Place(S, Nth(S, m)) = m
         /\ \A k, l \in S : Place(S, k) = Place(S, l) => k = l
<1> DEFINE f == [k \in S |-> Place(S, k)]
           C == 1..Cardinality(S)
<1>1. \A k, l \in S : Place(S, k) = Place(S, l) => k = l
  <2> TAKE k \in S, l \in S
  <2>1. k \in Nat /\ l \in Nat /\ Place(S, k) \in Nat /\ Place(S, l) \in Nat
    BY PlaceGrows
  <2>2. (k < l => Place(S, k) < Place(S, l)) /\ (l < k => Place(S, l) < Place(S, k))
    BY PlaceGrows
  <2> QED BY <2>1, <2>2
<1>2. IsFiniteSet(C) /\ Cardinality(C) = Cardinality(S)
  BY PlaceGrows, FS_Interval
<1>3. f \in Injection(S, C)
  BY <1>1, PlaceGrows DEF Injection, IsInjective
<1>4. f \in Surjection(S, C)
  <2> HIDE DEF f, C
  <2> QED BY <1>2, <1>3, FS_Injection
<1>5. ASSUME NEW m \in C PROVE Nth(S, m) \in S /\ Place(S, Nth(S, m)) = m
  <2>1. \E k \in S : Place(S, k) = m
    BY <1>4 DEF Surjection
  <2> QED BY <2>1 DEF Nth
<1> QED BY <1>1, <1>5

(* The numbers in the same place of two sets of one size are twins.        *)
LEMMA NthTwins ==
  ASSUME NEW S \in SUBSET Nat, NEW T \in SUBSET Nat, IsFiniteSet(S), IsFiniteSet(T),
         Cardinality(S) = Cardinality(T), NEW m \in 1..Cardinality(S)
  PROVE  Twins(S, Nth(S, m), T, Nth(T, m))
  BY NthPlace DEF Twins

(* A number above all others comes last, and leaves the others in place.   *)
LEMMA PlaceAdd ==
  ASSUME NEW S \in SUBSET Nat, IsFiniteSet(S), NEW s \in Nat, \A k \in S : k < s
  PROVE  /\ S \cup {s} \in SUBSET Nat /\ IsFiniteSet(S \cup {s})
         /\ Cardinality(S \cup {s}) = Cardinality(S) + 1
         /\ Place(S \cup {s}, s) = Cardinality(S) + 1
         /\ \A k \in S : Place(S \cup {s}, k) = Place(S, k)
<1>1. s \notin S
  OBVIOUS
<1>2. IsFiniteSet(S \cup {s}) /\ Cardinality(S \cup {s}) = Cardinality(S) + 1
  BY <1>1, FS_AddElement
<1>3. {n \in S \cup {s} : n <= s} = S \cup {s}
  <2>1. \A n \in S \cup {s} : n <= s
    OBVIOUS
  <2> QED BY <2>1
<1>4. \A k \in S : {n \in S \cup {s} : n <= k} = {n \in S : n <= k}
  OBVIOUS
<1> QED BY <1>2, <1>3, <1>4 DEF Place

(* A number that comes after all those of S.                               *)
Last(S, s) == S \in SUBSET Nat /\ IsFiniteSet(S) /\ s \in Nat /\ \A k \in S : k < s

(* The twins of two sets that each get a new last number.                  *)
LEMMA TwinsAdd ==
  ASSUME NEW S, NEW s, NEW T, NEW t, Last(S, s), Last(T, t), Cardinality(S) = Cardinality(T)
  PROVE  /\ Cardinality(S \cup {s}) = Cardinality(T \cup {t})
         /\ \A a, b : Twins(S \cup {s}, a, T \cup {t}, b) => Twins(S, a, T, b) \/ (a = s /\ b = t)
<1> USE DEF Last
<1>1. ASSUME NEW a \in S \cup {s}, NEW b \in T \cup {t},
             Place(S \cup {s}, a) = Place(T \cup {t}, b)
      PROVE  Twins(S, a, T, b) \/ (a = s /\ b = t)
  <2>1. /\ Cardinality(S) \in Nat
        /\ \A k \in S : Place(S \cup {s}, k) = Place(S, k) /\ Place(S, k) \in 1..Cardinality(S)
        /\ \A k \in T : Place(T \cup {t}, k) = Place(T, k) /\ Place(T, k) \in 1..Cardinality(S)
    BY PlaceGrows, PlaceAdd, ZenonT(60)
  <2>2. Place(S \cup {s}, s) = Cardinality(S) + 1 /\ Place(T \cup {t}, t) = Cardinality(S) + 1
    BY PlaceAdd
  <2>3. CASE a \in S /\ b \in T
    BY <1>1, <2>1, <2>3 DEF Twins
  <2>4. ASSUME a \in S, b = t PROVE FALSE
    <3>1. Place(S, a) \in 1..Cardinality(S) /\ Place(S, a) = Cardinality(S) + 1
      BY <1>1, <2>1, <2>2, <2>4
    <3> QED BY <2>1, <3>1
  <2>5. ASSUME a = s, b \in T PROVE FALSE
    <3>1. Place(T, b) \in 1..Cardinality(S) /\ Place(T, b) = Cardinality(S) + 1
      BY <1>1, <2>1, <2>2, <2>5
    <3> QED BY <2>1, <3>1
  <2> QED BY <2>3, <2>4, <2>5
<1>2. Cardinality(S \cup {s}) = Cardinality(T \cup {t})
  BY PlaceAdd
<1> QED BY <1>1, <1>2 DEF Twins
-----------------------------------------------------------------------------
(* What a step adds to the plan.                                           *)
Planning == {"approach", "runup", "body", "runout", "done"}

Offs  == {k \in 1..Len(cmds) : cmds[k].dwell = "off"}
EndsMarked == Len(cmds) \in Marks
EndsOpen   == Len(cmds) \in Marks \ Offs

Grows ==
  /\ cmds' \in Seq(Cmds) /\ Len(cmds') >= Len(cmds)
  /\ \A k \in 1..Len(cmds) : cmds'[k] = cmds[k]
AddsJumps ==
  Grows /\ \A k \in Len(cmds) + 1..Len(cmds') : cmds'[k].op = "jump" /\ cmds'[k].dwell # "off"
AddsMarks ==
  /\ Grows /\ Len(cmds') > Len(cmds)
  /\ \A k \in Len(cmds) + 1..Len(cmds') :
       cmds'[k].op = "mark" /\ (cmds'[k].dwell = "off" <=> EndsRun /\ k = Len(cmds'))

LEMMA GrowsByAppend ==
  ASSUME cmds \in Seq(Cmds), NEW c \in Cmds, cmds' = Append(cmds, c)
  PROVE  /\ Grows /\ Len(cmds') = Len(cmds) + 1 /\ cmds'[Len(cmds')] = c
         /\ c.op = "jump" /\ c.dwell # "off" => AddsJumps
<1>1. /\ cmds' \in Seq(Cmds) /\ Len(cmds') = Len(cmds) + 1 /\ Len(cmds) \in Nat
      /\ \A k \in 1..Len(cmds) : cmds'[k] = cmds[k]
      /\ cmds'[Len(cmds) + 1] = c
  BY AppendProperties, LenProperties
<1>2. \A k \in Len(cmds) + 1..Len(cmds') : cmds'[k] = c
  BY <1>1
<1> QED BY <1>1, <1>2 DEF Grows, AddsJumps

LEMMA ApproachAdds ==
  ASSUME PlanInv, Approach
  PROVE  AddsJumps /\ (at # P0 => cmds' # <<>> /\ LastTo(cmds') = P0 /\ Len(cmds') = Len(cmds) + 1)
<1>1. P0 \in Int /\ cmds \in Seq(Cmds)
  BY SegmentPoints, FullAssumption DEF PlanInv, PlanType, Working, Approach, Travel
<1>2. CASE at = P0
  BY <1>1, <1>2, LenProperties DEF Approach, Grows, AddsJumps
<1>3. CASE at # P0
  <2>1. cmds' = Append(cmds, JumpTo(P0)) /\ JumpTo(P0) \in Cmds
    BY <1>1, <1>3, JumpType DEF Approach
  <2>2. JumpTo(P0).op = "jump" /\ JumpTo(P0).dwell = "jump" /\ JumpTo(P0).to = P0
    BY DEF JumpTo, Cmd
  <2>3. /\ AddsJumps /\ Len(cmds') = Len(cmds) + 1 /\ cmds'[Len(cmds')] = JumpTo(P0)
    BY <1>1, <2>1, <2>2, GrowsByAppend
  <2>4. Len(cmds') > 0
    BY <1>1, <2>3, LenProperties
  <2> QED BY <2>2, <2>3, <2>4 DEF LastTo
<1> QED BY <1>2, <1>3

(* The run-up is there, as long as the shortest granted.                   *)
LEMMA RunUpAdds ==
  ASSUME PlanInv, RunUp
  PROVE  /\ AddsJumps /\ cmds' # <<>> /\ LastTo(cmds') = P0
         /\ Len(cmds') > Len(cmds) /\ cmds'[Len(cmds')].op = "jump"
         /\ granted' \in Nat /\ granted' <= granted
         /\ granted' > 0 /\ P0 # P1 =>
              Len(cmds') > 1 /\ Dist(cmds'[Len(cmds') - 1].to, P0) >= granted'
<1> DEFINE lead == Lead(p0, p1, best, TRUE)
           jump == Append(cmds, JumpTo(lead))
           leg  == Cmd("jump", Duration(lead, P0), P0, "none")
<1>1. /\ cmds \in Seq(Cmds) /\ granted \in Nat
      /\ cmds' = (IF best = 0 THEN jump ELSE Append(jump, leg))
      /\ granted' = Smaller(granted, best)
  BY DEF RunUp, PlanInv, PlanType
<1>2. /\ P0 \in Int /\ p0 = P0 /\ p1 = P1 /\ p0 \in Travel /\ p1 \in Travel /\ best \in Nat
  BY SegmentPoints, FullAssumption DEF PlanInv, SearchInv, Working, RunUp, Travel
<1>3. /\ lead \in Int /\ (best = 0 => lead = P0)
      /\ P0 # P1 => Dist(lead, P0) = best
  BY <1>2, FullAssumption DEF Lead, Dist, Travel
<1>4. granted' \in Nat /\ granted' <= granted /\ granted' <= best
  BY <1>1, <1>2 DEF Smaller
<1> HIDE DEF lead
<1>5. /\ JumpTo(lead) \in Cmds /\ JumpTo(lead).to = lead
      /\ JumpTo(lead).op = "jump" /\ JumpTo(lead).dwell # "off"
  BY <1>3, JumpType DEF JumpTo, Cmd
<1>6. leg \in Cmds /\ leg.to = P0 /\ leg.op = "jump" /\ leg.dwell # "off"
  BY <1>2, <1>3, DurationType DEF PlanInv, PlanType, Cmd, Cmds, Ops, Dwells
<1>7. /\ jump \in Seq(Cmds) /\ Len(jump) = Len(cmds) + 1 /\ Len(cmds) \in Nat
      /\ \A k \in 1..Len(cmds) : jump[k] = cmds[k]
      /\ jump[Len(cmds) + 1] = JumpTo(lead)
  BY <1>1, <1>5, AppendProperties, LenProperties
<1>8. /\ Append(jump, leg) \in Seq(Cmds) /\ Len(Append(jump, leg)) = Len(cmds) + 2
      /\ \A k \in 1..Len(cmds) + 1 : Append(jump, leg)[k] = jump[k]
      /\ Append(jump, leg)[Len(cmds) + 2] = leg
  <2> HIDE DEF jump, leg
  <2> QED BY <1>6, <1>7, AppendProperties
<1> HIDE DEF jump, leg
<1>9. CASE best = 0
  <2>1. \A k \in Len(cmds) + 1..Len(cmds') : k = Len(cmds) + 1
    BY <1>1, <1>7, <1>9
  <2>2. AddsJumps /\ Len(cmds') = Len(cmds) + 1 /\ cmds'[Len(cmds')] = JumpTo(lead)
    BY <1>1, <1>5, <1>7, <1>9, <2>1 DEF AddsJumps, Grows
  <2> QED BY <1>3, <1>4, <1>5, <1>7, <1>9, <2>2 DEF LastTo
<1>10. CASE best # 0
  <2>1. \A k \in Len(cmds) + 1..Len(cmds') : k = Len(cmds) + 1 \/ k = Len(cmds) + 2
    BY <1>1, <1>7, <1>8, <1>10
  <2>2. /\ cmds' \in Seq(Cmds) /\ Len(cmds') = Len(cmds) + 2
        /\ cmds'[Len(cmds) + 1] = JumpTo(lead) /\ cmds'[Len(cmds) + 2] = leg
        /\ \A k \in 1..Len(cmds) : cmds'[k] = cmds[k]
    BY <1>1, <1>7, <1>8, <1>10
  <2>3. AddsJumps
    BY <1>5, <1>6, <1>7, <2>1, <2>2 DEF AddsJumps, Grows
  <2>4. cmds'[Len(cmds')] = leg /\ cmds'[Len(cmds') - 1] = JumpTo(lead) /\ Len(cmds') > 1
    BY <1>7, <2>2
  <2> QED BY <1>3, <1>4, <1>5, <1>6, <1>7, <2>2, <2>3, <2>4 DEF LastTo
<1> QED BY <1>9, <1>10

LEMMA RunOutAdds ==
  ASSUME PlanInv, RunOut
  PROVE  /\ AddsJumps /\ (best = 0 => cmds' = cmds /\ at' = at)
         /\ best # 0 => LastTo(cmds') = at' /\ cmds' # <<>>
         /\ granted' \in Nat /\ granted' <= granted
         /\ granted' > 0 /\ P0 # P1 =>
              Len(cmds') = Len(cmds) + 1 /\ Dist(P1, LastTo(cmds')) >= granted'
<1> DEFINE out == Lead(p0, p1, best, FALSE)
           c   == Cmd("jump", Duration(P1, out), out, "none")
<1>1. /\ cmds \in Seq(Cmds) /\ granted \in Nat
      /\ cmds' = (IF best = 0 THEN cmds ELSE Append(cmds, c))
      /\ at' = (IF best = 0 THEN at ELSE out)
      /\ granted' = Smaller(granted, best)
  BY DEF RunOut, RunOutStep, PlanInv, PlanType
<1>2. P1 \in Int /\ p0 = P0 /\ p1 = P1 /\ p0 \in Travel /\ p1 \in Travel /\ best \in Nat
  BY SegmentPoints, FullAssumption
     DEF PlanInv, SearchInv, Working, RunOut, RunOutStep, Travel
<1>3. out \in Int /\ (P0 # P1 => Dist(P1, out) = best)
  BY <1>2, FullAssumption DEF Lead, Dist, Travel
<1>4. granted' \in Nat /\ granted' <= granted /\ granted' <= best
  BY <1>1, <1>2 DEF Smaller
<1> HIDE DEF out
<1>5. c \in Cmds /\ c.to = out /\ c.op = "jump" /\ c.dwell # "off"
  BY <1>2, <1>3, DurationType DEF PlanInv, PlanType, Cmd, Cmds, Ops, Dwells
<1> HIDE DEF c
<1>6. CASE best = 0
  BY <1>1, <1>2, <1>4, <1>6, LenProperties DEF AddsJumps, Grows
<1>7. CASE best # 0
  <2>1. AddsJumps /\ Len(cmds') = Len(cmds) + 1 /\ cmds'[Len(cmds')] = c /\ Len(cmds) \in Nat
    BY <1>1, <1>5, <1>7, GrowsByAppend, LenProperties
  <2>2. LastTo(cmds') = out /\ cmds' # <<>>
    BY <1>5, <2>1 DEF LastTo
  <2> QED BY <1>1, <1>2, <1>3, <1>4, <1>7, <2>1, <2>2
<1> QED BY <1>6, <1>7

(* What a body adds, one vector or two.                                    *)
LEMMA BodyAdds ==
  ASSUME PlanInv, pc = "body", NEW new \in Seq(Cmds), Len(new) > 0, Body(new)
  PROVE  /\ Grows /\ Len(cmds') = Len(cmds) + Len(new) /\ Len(cmds') > Len(cmds)
         /\ \A k \in 1..Len(new) : cmds'[Len(cmds) + k] = new[k]
         /\ \A k \in Len(cmds) + 1..Len(cmds') : cmds'[k] = new[k - Len(cmds)] /\ k - Len(cmds) \in 1..Len(new)
         /\ LastTo(cmds') = new[Len(new)].to /\ cmds' # <<>>
<1>1. /\ cmds' \in Seq(Cmds) /\ Len(cmds') = Len(cmds) + Len(new)
      /\ \A k \in 1..Len(cmds') : cmds'[k] = IF k <= Len(cmds) THEN cmds[k] ELSE new[k - Len(cmds)]
  BY ConcatProperties DEF PlanInv, PlanType, Body
<1>2. Len(cmds) \in Nat /\ Len(new) \in Nat
  BY LenProperties DEF PlanInv, PlanType
<1>3. ASSUME NEW k \in Len(cmds) + 1..Len(cmds')
      PROVE  cmds'[k] = new[k - Len(cmds)] /\ k - Len(cmds) \in 1..Len(new)
  BY <1>1, <1>2
<1>4. ASSUME NEW k \in 1..Len(new) PROVE cmds'[Len(cmds) + k] = new[k]
  <2>1. Len(cmds) + k \in Len(cmds) + 1..Len(cmds') /\ Len(cmds) + k - Len(cmds) = k
    BY <1>1, <1>2
  <2> QED BY <1>3, <2>1
<1>5. Grows
  BY <1>1, <1>2 DEF Grows
<1> QED BY <1>1, <1>2, <1>3, <1>4, <1>5 DEF LastTo

LEMMA MoveAdds ==
  ASSUME PlanInv, Move
  PROVE  /\ AddsJumps /\ Len(cmds') > Len(cmds) /\ cmds'[Len(cmds')].op = "jump"
         /\ LastTo(cmds') = P1 /\ cmds' # <<>>
<1> DEFINE c == IF job.opts.slow THEN Cmd("jump", Duration(P0, P1), P1, "none") ELSE JumpTo(P1)
<1>1. P0 \in Int /\ P1 \in Int
  BY SegmentPoints, FullAssumption DEF PlanInv, Working, Move, Travel
<1>2. c \in Cmds /\ c.to = P1 /\ c.op = "jump" /\ c.dwell # "off"
  <2>1. /\ JumpTo(P1) \in Cmds /\ JumpTo(P1).to = P1
        /\ JumpTo(P1).op = "jump" /\ JumpTo(P1).dwell # "off"
    BY <1>1, JumpType DEF JumpTo, Cmd
  <2> DEFINE timed == Cmd("jump", Duration(P0, P1), P1, "none")
  <2>2. timed \in Cmds /\ timed.to = P1 /\ timed.op = "jump" /\ timed.dwell # "off"
    BY <1>1, DurationType DEF PlanInv, PlanType, Cmd, Cmds, Ops, Dwells
  <2> HIDE DEF timed
  <2> QED BY <2>1, <2>2 DEF timed
<1> DEFINE new == <<c>>
<1>3. pc = "body" /\ Body(new)
  BY DEF Move
<1> HIDE DEF c
<1>4. new \in Seq(Cmds) /\ Len(new) = 1 /\ new[1] = c
  BY <1>2
<1> HIDE DEF new
<1>5. Len(cmds) \in Nat
  BY LenProperties DEF PlanInv, PlanType
<1>6. /\ Grows /\ Len(cmds') = Len(cmds) + 1 /\ LastTo(cmds') = c.to /\ cmds' # <<>>
      /\ cmds'[Len(cmds) + 1] = c
  BY <1>3, <1>4, BodyAdds
<1>7. \A k \in Len(cmds) + 1..Len(cmds') : cmds'[k] = c
  BY <1>5, <1>6
<1> QED BY <1>2, <1>5, <1>6, <1>7 DEF AddsJumps

LEMMA MarkLineAdds ==
  ASSUME PlanInv, MarkLine
  PROVE  AddsMarks /\ LastTo(cmds') = P1 /\ Len(cmds') = Len(cmds) + 1
<1> DEFINE c == Cmd("mark", Duration(P0, P1), P1, IF EndsRun THEN "off" ELSE "corner")
<1>1. P0 \in Int /\ P1 \in Int
  BY SegmentPoints, FullAssumption DEF PlanInv, Working, MarkLine, Travel
<1>2. c \in Cmds /\ c.to = P1 /\ c.op = "mark" /\ (c.dwell = "off" <=> EndsRun)
  BY <1>1, DurationType DEF PlanInv, PlanType, Cmd, Cmds, Ops, Dwells
<1> DEFINE new == <<c>>
<1>3. pc = "body" /\ Body(new)
  BY DEF MarkLine
<1> HIDE DEF c
<1>4. new \in Seq(Cmds) /\ Len(new) = 1 /\ new[1] = c
  BY <1>2
<1> HIDE DEF new
<1>5. Len(cmds) \in Nat
  BY LenProperties DEF PlanInv, PlanType
<1>6. /\ Grows /\ Len(cmds') = Len(cmds) + 1 /\ LastTo(cmds') = c.to /\ cmds' # <<>>
      /\ cmds'[Len(cmds) + 1] = c
  BY <1>3, <1>4, BodyAdds
<1>7. \A k \in Len(cmds) + 1..Len(cmds') : cmds'[k] = c /\ k = Len(cmds')
  BY <1>5, <1>6
<1> QED BY <1>2, <1>5, <1>6, <1>7 DEF AddsMarks

(* A wiggle adds one vector or two, ends the run where it should, and is   *)
(* the chain of points of its segment.                                     *)
LEMMA WiggleAdds ==
  ASSUME PlanInv, Wiggle
  PROVE  /\ AddsMarks
         /\ EndsRun => LastTo(cmds') = P1
         /\ \E chain \in Chains :
              /\ chain \in Seq(Int) /\ Len(chain) \in {1, 2} /\ Len(cmds') = Len(cmds) + Len(chain)
              /\ \A k \in 1..Len(chain) :
                   cmds'[Len(cmds) + k].to = chain[k] /\ cmds'[Len(cmds) + k].us = Sub(chain, k)
<1>1. /\ P0 \in Int /\ P1 \in Int /\ wig \in Int
  BY SegmentPoints, FullAssumption DEF PlanInv, Working, Wiggle, Travel
<1>2. PICK chain \in Chains : WiggleVia(chain)
  BY DEF Wiggle
<1>3. chain \in Seq(Int) /\ Len(chain) \in {1, 2} /\ (EndsRun => chain[Len(chain)] = P1)
  <2>1. CASE P0 = P1
    <3>1. chain = <<P1>>
      BY <2>1 DEF Chains
    <3> QED BY <1>1, <3>1
  <2>2. CASE P0 # P1
    <3>1. Near(P0, P1) \subseteq Int /\ Near(P1, P1) \subseteq Int
      BY <1>1 DEF Near
    <3>2. PICK c \in Int, e \in Int : chain = <<c, e>> /\ (EndsRun => e = P1)
      BY <1>1, <2>2, <3>1 DEF Chains
    <3> QED BY <3>2
  <2> QED BY <2>1, <2>2
<1> DEFINE c(k) == Cmd("mark", Sub(chain, k), chain[k],
                        IF k = Len(chain) /\ EndsRun THEN "off" ELSE "none")
           new == [k \in 1..Len(chain) |-> c(k)]
<1>4. \A k \in 1..Len(chain) :
        /\ c(k) \in Cmds /\ c(k).to = chain[k] /\ c(k).us = Sub(chain, k)
        /\ c(k).op = "mark" /\ (c(k).dwell = "off" <=> EndsRun /\ k = Len(chain))
  BY <1>1, <1>3, SubType DEF PlanInv, PlanType, Cmd, Cmds, Ops, Dwells
<1>5. pc = "body" /\ Body(new)
  BY <1>2 DEF Wiggle, WiggleVia
<1>6. new \in Seq(Cmds) /\ Len(new) = Len(chain) /\ \A k \in 1..Len(new) : new[k] = c(k)
  <2> HIDE DEF c, Cmds
  <2>1. new \in Seq(Cmds) /\ Len(new) = Len(chain)
    BY <1>3, <1>4
  <2> QED BY <2>1
<1> HIDE DEF new, c
<1>7. /\ Grows /\ Len(cmds') = Len(cmds) + Len(chain) /\ Len(cmds') > Len(cmds)
      /\ \A k \in 1..Len(chain) : cmds'[Len(cmds) + k] = c(k)
      /\ \A k \in Len(cmds) + 1..Len(cmds') :
           cmds'[k] = c(k - Len(cmds)) /\ k - Len(cmds) \in 1..Len(chain)
      /\ LastTo(cmds') = c(Len(chain)).to
  BY <1>3, <1>5, <1>6, BodyAdds, SMTT(40)
<1>8. AddsMarks
  <2>1. Len(cmds) \in Nat
    BY LenProperties DEF PlanInv, PlanType
  <2>2. \A k \in Len(cmds) + 1..Len(cmds') : k = Len(cmds') <=> k - Len(cmds) = Len(chain)
    BY <1>3, <1>7, <2>1
  <2>3. \A k \in Len(cmds) + 1..Len(cmds') :
          /\ cmds'[k].op = "mark"
          /\ cmds'[k].dwell = "off" <=> EndsRun /\ k - Len(cmds) = Len(chain)
    BY <1>4, <1>7
  <2> QED BY <1>7, <2>2, <2>3 DEF AddsMarks
<1>9. EndsRun => LastTo(cmds') = P1
  BY <1>3, <1>4, <1>7
<1> QED BY <1>3, <1>4, <1>7, <1>8, <1>9, SMTT(40)

LEMMA JumpsKeep ==
  ASSUME cmds \in Seq(Cmds), AddsJumps
  PROVE  /\ Marks' = Marks /\ Offs' = Offs /\ MarkStarts' = MarkStarts
         /\ \A k \in 1..Len(cmds) : Beam(k)' = Beam(k)
         /\ \A k \in Len(cmds) + 1..Len(cmds') : k \notin Marks' /\ k \notin Offs'
<1>1. Len(cmds) \in Nat /\ Len(cmds') \in Nat /\ Len(cmds') >= Len(cmds)
  BY LenProperties DEF AddsJumps, Grows
<1>2. Marks' = Marks /\ Offs' = Offs
  <2>1. \A k \in 1..Len(cmds') : k \in 1..Len(cmds) \/ k \in Len(cmds) + 1..Len(cmds')
    BY <1>1
  <2>2. \A k \in 1..Len(cmds) : k \in 1..Len(cmds') /\ cmds'[k] = cmds[k]
    BY <1>1 DEF AddsJumps, Grows
  <2>3. \A k \in Len(cmds) + 1..Len(cmds') : cmds'[k].op # "mark" /\ cmds'[k].dwell # "off"
    BY DEF AddsJumps
  <2> QED BY <2>1, <2>2, <2>3 DEF Marks, Offs
<1>3. MarkStarts' = MarkStarts
  BY <1>2 DEF MarkStarts, IsMark
<1>4. ASSUME NEW k \in 1..Len(cmds) PROVE Beam(k)' = Beam(k)
  <2>1. k # 1 => k - 1 \in 1..Len(cmds)
    BY <1>1
  <2> QED BY <2>1 DEF AddsJumps, Grows, Beam
<1>5. \A k \in Len(cmds) + 1..Len(cmds') : k \notin 1..Len(cmds)
  BY <1>1
<1> QED BY <1>2, <1>3, <1>4, <1>5 DEF Marks, Offs

LEMMA MarksAdd ==
  ASSUME cmds \in Seq(Cmds), AddsMarks
  PROVE  /\ Marks' = Marks \cup (Len(cmds) + 1..Len(cmds'))
         /\ Offs' = IF EndsRun THEN Offs \cup {Len(cmds')} ELSE Offs
         /\ MarkStarts' = IF EndsMarked THEN MarkStarts ELSE MarkStarts \cup {Len(cmds) + 1}
         /\ \A k \in 1..Len(cmds) : Beam(k)' = Beam(k)
<1>1. Len(cmds) \in Nat /\ Len(cmds') \in Nat /\ Len(cmds') > Len(cmds)
  BY LenProperties DEF AddsMarks, Grows
<1>2. \A k : k \in 1..Len(cmds') <=> k \in 1..Len(cmds) \/ k \in Len(cmds) + 1..Len(cmds')
  BY <1>1
<1>3. \A k \in 1..Len(cmds) : cmds'[k] = cmds[k]
  BY DEF AddsMarks, Grows
<1>4. \A k \in Len(cmds) + 1..Len(cmds') :
        cmds'[k].op = "mark" /\ (cmds'[k].dwell = "off" <=> EndsRun /\ k = Len(cmds'))
  BY DEF AddsMarks
<1>5. Marks' = Marks \cup (Len(cmds) + 1..Len(cmds'))
  BY <1>2, <1>3, <1>4 DEF Marks
<1>6. Offs' = IF EndsRun THEN Offs \cup {Len(cmds')} ELSE Offs
  <2>1. Len(cmds') \in Len(cmds) + 1..Len(cmds')
    BY <1>1
  <2> QED BY <1>2, <1>3, <1>4, <2>1 DEF Offs
<1>7. MarkStarts' = IF EndsMarked THEN MarkStarts ELSE MarkStarts \cup {Len(cmds) + 1}
  <2>1. MarkStarts' = {k \in Marks' : k - 1 \notin Marks'} /\ MarkStarts = {k \in Marks : k - 1 \notin Marks}
    BY DEF MarkStarts, IsMark
  <2>2. Marks \subseteq 1..Len(cmds)
    BY DEF Marks
  <2>3. ASSUME NEW k \in Marks PROVE k \in MarkStarts' <=> k \in MarkStarts
    <3>1. k - 1 \notin Len(cmds) + 1..Len(cmds')
      BY <1>1, <2>2
    <3> QED BY <1>5, <2>1, <3>1
  <2>4. ASSUME NEW k \in Len(cmds) + 1..Len(cmds') PROVE k \in MarkStarts' <=> k = Len(cmds) + 1 /\ ~EndsMarked
    <3>1. CASE k = Len(cmds) + 1
      <4>1. k - 1 = Len(cmds) /\ Len(cmds) \notin Len(cmds) + 1..Len(cmds')
        BY <1>1, <3>1
      <4> QED BY <1>5, <2>1, <3>1, <4>1 DEF EndsMarked
    <3>2. CASE k # Len(cmds) + 1
      <4>1. k - 1 \in Len(cmds) + 1..Len(cmds')
        BY <1>1, <3>2
      <4> QED BY <1>5, <2>1, <3>2, <4>1
    <3> QED BY <3>1, <3>2
  <2>5. Len(cmds) + 1 \in Len(cmds) + 1..Len(cmds') /\ \A k \in Len(cmds) + 1..Len(cmds') : k \notin Marks
    BY <1>1, <2>2
  <2> QED BY <1>5, <2>1, <2>3, <2>4, <2>5
<1>8. ASSUME NEW k \in 1..Len(cmds) PROVE Beam(k)' = Beam(k)
  <2>1. k # 1 => k - 1 \in 1..Len(cmds)
    BY <1>1
  <2> QED BY <1>3, <2>1 DEF Beam
<1> QED BY <1>5, <1>6, <1>7, <1>8

-----------------------------------------------------------------------------
(* The laser-off dwell is where the laser goes off, but for the last       *)
(* vector, of which the next one decides.                                  *)
Dwelt ==
  /\ Offs \subseteq Marks
  /\ \A k \in 1..Len(cmds) - 1 : k \in Offs <=> k \in Marks /\ k + 1 \notin Marks

LEMMA DweltJumps ==
  ASSUME cmds \in Seq(Cmds), Dwelt, AddsJumps, Len(cmds') > Len(cmds) => ~EndsOpen
  PROVE  Dwelt'
<1>1. Len(cmds) \in Nat /\ Len(cmds') \in Nat /\ Len(cmds') >= Len(cmds)
  BY LenProperties DEF AddsJumps, Grows
<1>2. /\ Marks' = Marks /\ Offs' = Offs
      /\ \A k \in Len(cmds) + 1..Len(cmds') : k \notin Marks /\ k \notin Offs
  BY JumpsKeep
<1>3. ASSUME NEW k \in 1..Len(cmds') - 1 PROVE k \in Offs <=> k \in Marks /\ k + 1 \notin Marks
  <2>1. \/ k \in 1..Len(cmds) - 1
        \/ k = Len(cmds) /\ k + 1 \in Len(cmds) + 1..Len(cmds') /\ Len(cmds') > Len(cmds)
        \/ k \in Len(cmds) + 1..Len(cmds')
    BY <1>1
  <2> QED BY <1>2, <2>1 DEF Dwelt, EndsOpen
<1> QED BY <1>2, <1>3 DEF Dwelt

LEMMA DweltMarks ==
  ASSUME cmds \in Seq(Cmds), Dwelt, AddsMarks, EndsMarked => EndsOpen
  PROVE  Dwelt'
<1>1. Len(cmds) \in Nat /\ Len(cmds') \in Nat /\ Len(cmds') > Len(cmds)
  BY LenProperties DEF AddsMarks, Grows
<1>2. /\ Marks' = Marks \cup (Len(cmds) + 1..Len(cmds'))
      /\ Offs' = IF EndsRun THEN Offs \cup {Len(cmds')} ELSE Offs
  BY MarksAdd
<1>3. Marks \subseteq 1..Len(cmds) /\ Offs \subseteq 1..Len(cmds)
  BY DEF Marks, Offs
<1>4. ASSUME NEW k \in 1..Len(cmds') - 1 PROVE k \in Offs' <=> k \in Marks' /\ k + 1 \notin Marks'
  <2>1. k # Len(cmds')
    BY <1>1
  <2>2. k \in Offs' <=> k \in Offs
    BY <1>2, <2>1
  <2>3. CASE k \in 1..Len(cmds) - 1
    <3>1. k \notin Len(cmds) + 1..Len(cmds') /\ k + 1 \notin Len(cmds) + 1..Len(cmds')
      BY <1>1, <2>3
    <3> QED BY <1>2, <2>2, <2>3, <3>1 DEF Dwelt
  <2>4. CASE k \in Len(cmds)..Len(cmds')
    <3>1. k + 1 \in Len(cmds) + 1..Len(cmds')
      BY <1>1, <2>4
    <3>2. k \notin Offs
      BY <1>1, <1>3, <2>4 DEF EndsOpen, EndsMarked, Dwelt
    <3> QED BY <1>2, <2>2, <3>1, <3>2
  <2> QED BY <1>1, <2>3, <2>4
<1>5. Offs' \subseteq Marks'
  BY <1>1, <1>2 DEF Dwelt
<1> QED BY <1>4, <1>5 DEF Dwelt

(* Inside a run, at the corner between two lit segments.                   *)
Corner == i > 1 /\ job.lit[i - 1] /\ job.lit[i]

(* Where the beam is, and whether the laser is on, between the steps.  A   *)
(* wiggle may come to a corner off the line.                               *)
ShapeInv ==
  /\ pc = "approach" /\ i = 1 => cmds = <<>> /\ at = NoPoint
  /\ pc = "approach" /\ i > 1 =>
       /\ cmds # <<>> /\ (Corner => at = P0)
       /\ LastTo(cmds) = at \/ (Corner /\ wig > 0)
  /\ pc \in {"approach", "runup", "body"} =>
       (EndsOpen <=> Corner) /\ (StartsRun => ~EndsMarked)
  /\ pc = "runup" => StartsRun /\ over > 0
  /\ pc = "body" => cmds # <<>> /\ (LastTo(cmds) = P0 \/ (Corner /\ wig > 0))
  /\ pc = "runout" =>
       /\ EndsRun /\ over > 0 /\ at = P1
       /\ cmds # <<>> /\ LastTo(cmds) = P1 /\ Len(cmds) \in Offs
  /\ pc = "done" => i = N + 1 /\ ~EndsOpen /\ Accepted(job)

DwellInv == pc \in Planning => Dwelt

(* The flags of a call that was accepted.                                  *)
LEMMA LitFlags ==
  ASSUME job \in JobSet
  PROVE  N \in Nat /\ \A j \in 1..N : job.lit[j] \in BOOLEAN
  BY LenProperties, ElementOfSeq DEF JobSet, N

(* A body that ends at its point, unless it ends at a corner.              *)
LEMMA BodyShape ==
  ASSUME PlanInv, pc = "body", NEW new, Body(new), cmds' # <<>>,
         LastTo(cmds') = P1 \/ (wig > 0 /\ job.lit[i] /\ ~EndsRun),
         EndsOpen' <=> job.lit[i] /\ ~EndsRun,
         EndsRun => Len(cmds') \in Offs',
         EndsMarked' => job.lit[i]
  PROVE  ShapeInv'
<1>1. /\ job' = job /\ at' = P1 /\ i \in 1..N /\ N \in Nat /\ Accepted(job)
      /\ \A j \in 1..N : job.lit[j] \in BOOLEAN
  BY SegmentPoints, LitFlags DEF Body, PlanInv, PlanType, Working
<1>2. CASE EndsRun /\ over > 0
  <2>1. pc' = "runout" /\ i' = i
    BY <1>2 DEF Body
  <2>2. EndsRun' /\ over' > 0 /\ P1' = P1 /\ LastTo(cmds') = P1
    BY <1>1, <1>2, <2>1 DEF EndsRun, over, P1, N
  <2> QED BY <1>1, <1>2, <2>1, <2>2 DEF ShapeInv, LastTo
<1>3. CASE ~(EndsRun /\ over > 0)
  <2>1. i' = i + 1 /\ pc' = IF i = N THEN "done" ELSE "approach"
    BY <1>3 DEF Body, FinishSegment
  <2>2. CASE i = N
    <3>1. ~EndsOpen'
      BY <1>1, <2>2 DEF EndsRun
    <3> QED BY <1>1, <2>1, <2>2, <3>1 DEF ShapeInv, N, Accepted
  <2>3. CASE i # N
    <3>1. pc' = "approach" /\ i' > 1 /\ P0' = at' /\ i' - 1 = i
      BY <1>1, <2>1, <2>3 DEF P0, P1
    <3>2. Corner' <=> job.lit[i] /\ ~EndsRun
      BY <1>1, <2>1, <2>3, <3>1 DEF Corner, EndsRun
    <3>3. StartsRun' => ~job.lit[i]
      BY <1>1, <2>1, <3>1 DEF StartsRun
    <3>4. LastTo(cmds') = at' \/ (Corner' /\ wig' > 0)
      BY <1>1, <3>2 DEF wig
    <3> QED BY <1>1, <2>1, <3>1, <3>2, <3>3, <3>4 DEF ShapeInv, LastTo
  <2> QED BY <2>2, <2>3
<1> QED BY <1>2, <1>3

LEMMA MarksShape ==
  ASSUME PlanInv, ShapeInv, DwellInv, pc = "body", job.lit[i], AddsMarks
  PROVE  /\ Dwelt' /\ cmds' # <<>>
         /\ EndsMarked <=> ~StartsRun
         /\ EndsOpen' <=> ~EndsRun
         /\ EndsRun => Len(cmds') \in Offs'
<1>1. /\ cmds \in Seq(Cmds) /\ Dwelt /\ i \in 1..N /\ N \in Nat /\ cmds' \in Seq(Cmds)
      /\ (EndsOpen <=> Corner) /\ (StartsRun => ~EndsMarked)
      /\ \A j \in 1..N : job.lit[j] \in BOOLEAN
  BY SegmentPoints, LitFlags
     DEF PlanInv, PlanType, ShapeInv, DwellInv, Planning, Working, AddsMarks, Grows
<1>2. StartsRun \/ Corner
  BY <1>1 DEF StartsRun, Corner
<1>3. (EndsMarked <=> ~StartsRun) /\ (EndsMarked => EndsOpen)
  BY <1>1, <1>2 DEF EndsMarked, EndsOpen
<1>4. Dwelt'
  BY <1>1, <1>3, DweltMarks
<1>5. Len(cmds') \in Len(cmds) + 1..Len(cmds') /\ Len(cmds') > 0 /\ Len(cmds') \notin Offs
  BY <1>1, LenProperties DEF AddsMarks, Grows, Offs
<1>6. /\ Marks' = Marks \cup (Len(cmds) + 1..Len(cmds'))
      /\ Offs' = IF EndsRun THEN Offs \cup {Len(cmds')} ELSE Offs
  BY <1>1, MarksAdd
<1>7. cmds' # <<>>
  BY <1>5
<1> QED BY <1>3, <1>4, <1>5, <1>6, <1>7 DEF EndsOpen

LEMMA MarkLineShape == PlanInv /\ ShapeInv /\ DwellInv /\ MarkLine => ShapeInv' /\ DwellInv'
<1> SUFFICES ASSUME PlanInv, ShapeInv, DwellInv, MarkLine PROVE ShapeInv' /\ DwellInv'
  OBVIOUS
<1>1. pc = "body" /\ job.lit[i] /\ AddsMarks /\ LastTo(cmds') = P1
  BY MarkLineAdds DEF MarkLine
<1>2. PICK new : Body(new)
  BY DEF MarkLine
<1>3. /\ Dwelt' /\ cmds' # <<>> /\ (EndsOpen' <=> ~EndsRun)
      /\ EndsRun => Len(cmds') \in Offs'
  BY <1>1, MarksShape
<1> QED BY <1>1, <1>2, <1>3, BodyShape DEF DwellInv

LEMMA WiggleShape == PlanInv /\ ShapeInv /\ DwellInv /\ Wiggle => ShapeInv' /\ DwellInv'
<1> SUFFICES ASSUME PlanInv, ShapeInv, DwellInv, Wiggle PROVE ShapeInv' /\ DwellInv'
  OBVIOUS
<1>1. pc = "body" /\ job.lit[i] /\ wig > 0 /\ AddsMarks /\ (EndsRun => LastTo(cmds') = P1)
  BY WiggleAdds DEF Wiggle
<1>2. PICK new : Body(new)
  BY DEF Wiggle, WiggleVia
<1>3. /\ Dwelt' /\ cmds' # <<>> /\ (EndsOpen' <=> ~EndsRun)
      /\ EndsRun => Len(cmds') \in Offs'
  BY <1>1, MarksShape
<1> QED BY <1>1, <1>2, <1>3, BodyShape DEF DwellInv

(* A step that ends with a jump leaves the laser off.                      *)
LEMMA JumpShape ==
  ASSUME cmds \in Seq(Cmds), AddsJumps, Len(cmds') > Len(cmds)
  PROVE  ~EndsMarked' /\ ~EndsOpen'
<1>1. Len(cmds') \in Len(cmds) + 1..Len(cmds')
  BY LenProperties DEF AddsJumps, Grows
<1> QED BY <1>1, JumpsKeep DEF EndsMarked, EndsOpen

LEMMA MoveShape == PlanInv /\ ShapeInv /\ DwellInv /\ Move => ShapeInv' /\ DwellInv'
<1> SUFFICES ASSUME PlanInv, ShapeInv, DwellInv, Move PROVE ShapeInv' /\ DwellInv'
  OBVIOUS
<1>1. /\ pc = "body" /\ ~job.lit[i] /\ cmds \in Seq(Cmds) /\ Dwelt
      /\ EndsOpen <=> Corner
  BY DEF Move, PlanInv, PlanType, ShapeInv, DwellInv, Planning
<1>2. ~Corner /\ ~EndsRun
  BY <1>1 DEF Corner, EndsRun
<1>3. AddsJumps /\ Len(cmds') > Len(cmds) /\ LastTo(cmds') = P1 /\ cmds' # <<>>
  BY MoveAdds
<1>4. Dwelt' /\ ~EndsMarked' /\ ~EndsOpen'
  BY <1>1, <1>2, <1>3, DweltJumps, JumpShape
<1>5. PICK new : Body(new)
  BY DEF Move
<1> QED BY <1>1, <1>2, <1>3, <1>4, <1>5, BodyShape DEF DwellInv

LEMMA ApproachShape == PlanInv /\ ShapeInv /\ DwellInv /\ Approach => ShapeInv' /\ DwellInv'
<1> SUFFICES ASSUME PlanInv, ShapeInv, DwellInv, Approach PROVE ShapeInv' /\ DwellInv'
  OBVIOUS
<1>1. /\ cmds \in Seq(Cmds) /\ Dwelt /\ i \in Nat \ {0} /\ P0 \in Travel
      /\ UNCHANGED <<job, i>> /\ pc' = "body"
      /\ (EndsOpen <=> Corner) /\ (StartsRun => ~EndsMarked)
      /\ i = 1 => at = NoPoint
      /\ i > 1 => cmds # <<>> /\ (Corner => at = P0) /\ (LastTo(cmds) = at \/ (Corner /\ wig > 0))
  BY SegmentPoints
     DEF Approach, PlanInv, PlanType, ShapeInv, DwellInv, Planning, Working
<1>2. AddsJumps /\ (at # P0 => cmds' # <<>> /\ LastTo(cmds') = P0 /\ Len(cmds') = Len(cmds) + 1)
  BY ApproachAdds
<1>3. /\ Corner' <=> Corner
      /\ StartsRun' <=> StartsRun
      /\ wig' = wig /\ P0' = P0
  BY <1>1 DEF Corner, StartsRun, wig, P0
<1>4. CASE at = P0
  <2>1. cmds' = cmds
    BY <1>4 DEF Approach
  <2>2. i > 1
    BY <1>1, <1>4 DEF Travel, NoPoint
  <2>3. Dwelt' /\ EndsOpen' = EndsOpen /\ EndsMarked' = EndsMarked
    BY <1>1, <2>1 DEF Dwelt, EndsOpen, EndsMarked, Marks, Offs
  <2> QED BY <1>1, <1>3, <1>4, <2>1, <2>2, <2>3 DEF ShapeInv, DwellInv, LastTo
<1>5. CASE at # P0
  <2>1. ~Corner
    BY <1>1, <1>5 DEF Corner
  <2>2. Len(cmds') > Len(cmds)
    BY <1>1, <1>2, <1>5, LenProperties
  <2>3. Dwelt' /\ ~EndsMarked' /\ ~EndsOpen'
    BY <1>1, <1>2, <2>1, <2>2, DweltJumps, JumpShape
  <2> QED BY <1>1, <1>2, <1>3, <1>5, <2>1, <2>3 DEF ShapeInv, DwellInv, LastTo
<1> QED BY <1>4, <1>5

LEMMA RunUpShape == PlanInv /\ ShapeInv /\ DwellInv /\ RunUp => ShapeInv' /\ DwellInv'
<1> SUFFICES ASSUME PlanInv, ShapeInv, DwellInv, RunUp PROVE ShapeInv' /\ DwellInv'
  OBVIOUS
<1>1. /\ cmds \in Seq(Cmds) /\ Dwelt /\ UNCHANGED <<job, i>> /\ pc' = "body"
      /\ (EndsOpen <=> Corner) /\ StartsRun
  BY DEF RunUp, PlanInv, PlanType, ShapeInv, DwellInv, Planning
<1>2. AddsJumps /\ cmds' # <<>> /\ LastTo(cmds') = P0 /\ Len(cmds') > Len(cmds)
  BY RunUpAdds
<1>3. ~Corner /\ ~Corner' /\ P0' = P0
  BY <1>1 DEF Corner, StartsRun, P0
<1>4. Dwelt' /\ ~EndsMarked' /\ ~EndsOpen'
  BY <1>1, <1>2, <1>3, DweltJumps, JumpShape
<1> QED BY <1>1, <1>2, <1>3, <1>4 DEF ShapeInv, DwellInv, LastTo

LEMMA RunOutShape == PlanInv /\ ShapeInv /\ DwellInv /\ RunOut => ShapeInv' /\ DwellInv'
<1> SUFFICES ASSUME PlanInv, ShapeInv, DwellInv, RunOut PROVE ShapeInv' /\ DwellInv'
  OBVIOUS
<1>1. /\ cmds \in Seq(Cmds) /\ Dwelt /\ i \in 1..N /\ N \in Nat /\ Accepted(job)
      /\ EndsRun /\ at = P1 /\ cmds # <<>> /\ LastTo(cmds) = P1 /\ Len(cmds) \in Offs
      /\ job' = job /\ i' = i + 1 /\ pc' = IF i = N THEN "done" ELSE "approach"
      /\ \A j \in 1..N : job.lit[j] \in BOOLEAN
  BY SegmentPoints, LitFlags
     DEF RunOut, RunOutStep, FinishSegment, PlanInv, PlanType, ShapeInv, DwellInv, Planning, Working
<1>2. /\ AddsJumps /\ (best = 0 => cmds' = cmds /\ at' = at)
      /\ best # 0 => LastTo(cmds') = at' /\ cmds' # <<>>
  BY RunOutAdds
<1>3. ~EndsOpen
  BY <1>1 DEF EndsOpen
<1>4. Dwelt' /\ ~EndsOpen'
  <2>1. Dwelt'
    BY <1>1, <1>2, <1>3, DweltJumps
  <2>2. CASE Len(cmds') > Len(cmds)
    BY <1>1, <1>2, <2>1, <2>2, JumpShape
  <2>3. CASE ~(Len(cmds') > Len(cmds))
    <3>1. Len(cmds') = Len(cmds)
      BY <1>1, <1>2, <2>3, LenProperties DEF AddsJumps, Grows
    <3> QED BY <1>1, <1>2, <2>1, <3>1, JumpsKeep DEF EndsOpen
  <2> QED BY <2>2, <2>3, <2>1
<1>5. cmds' # <<>> /\ LastTo(cmds') = at'
  BY <1>1, <1>2
<1>6. CASE i = N
  BY <1>1, <1>4, <1>6 DEF ShapeInv, DwellInv, N, Accepted
<1>7. CASE i # N
  <2>1. pc' = "approach" /\ i' > 1 /\ i' - 1 = i
    BY <1>1, <1>7
  <2>2. ~Corner' /\ ~StartsRun'
    BY <1>1, <1>7, <2>1 DEF Corner, StartsRun, EndsRun
  <2> QED BY <1>4, <1>5, <2>1, <2>2 DEF ShapeInv, DwellInv, LastTo
<1> QED BY <1>6, <1>7

LEMMA ShapeInvariant == Spec => [](ShapeInv /\ DwellInv)
<1>1. Init => ShapeInv /\ DwellInv
  BY DEF Init, ShapeInv, DwellInv, Planning
<1>2. PlanInv /\ ShapeInv /\ DwellInv /\ [Next]_vars => ShapeInv' /\ DwellInv'
  <2> SUFFICES ASSUME PlanInv, ShapeInv, DwellInv, [Next]_vars PROVE ShapeInv' /\ DwellInv'
    OBVIOUS
  <2>1. CASE CallPath \/ CallSegments \/ CallDots
    <3>1. pc' \in {"check", "refused", "dots"}
      BY <2>1 DEF CallPath, CallSegments, CallDots, Called
    <3> QED BY <3>1 DEF ShapeInv, DwellInv, Planning
  <2>2. CASE Check
    <3>1. cmds = <<>> /\ at = NoPoint /\ i = 1 /\ UNCHANGED <<cmds, at, i>> /\ pc' \in {"approach", "refused"}
      BY <2>2 DEF Check, PlanInv
    <3>2. Marks' = {} /\ Offs' = {}
      BY <3>1 DEF Marks, Offs
    <3>3. Dwelt' /\ ~EndsOpen' /\ ~EndsMarked' /\ ~Corner'
      BY <3>1, <3>2 DEF Dwelt, EndsOpen, EndsMarked, Corner
    <3> QED BY <3>1, <3>3 DEF ShapeInv, DwellInv
  <2>3. CASE RunUpCall \/ Search
    <3>1. /\ UNCHANGED <<job, i, cmds, at>>
          /\ \/ pc = "approach" /\ pc' = "runup" /\ StartsRun /\ over > 0
             \/ pc' = pc
      BY <2>3 DEF RunUpCall, Search, pathVars
    <3>2. /\ Corner' = Corner /\ EndsOpen' = EndsOpen /\ EndsMarked' = EndsMarked
          /\ Dwelt' = Dwelt /\ StartsRun' = StartsRun /\ EndsRun' = EndsRun
          /\ over' = over /\ wig' = wig /\ P0' = P0 /\ P1' = P1 /\ N' = N /\ Offs' = Offs
      BY <3>1 DEF Corner, EndsOpen, EndsMarked, Dwelt, StartsRun, EndsRun, over, wig, P0, P1, N,
                  Marks, Offs
    <3> QED BY <3>1, <3>2 DEF ShapeInv, DwellInv, Planning, LastTo, Accepted
  <2>4. CASE WiggleRefused
    BY <2>4 DEF WiggleRefused, ShapeInv, DwellInv, Planning
  <2>5. CASE UNCHANGED vars
    <3>1. UNCHANGED <<job, i, cmds, at, pc>>
      BY <2>5 DEF vars, pathVars
    <3>2. /\ Corner' = Corner /\ EndsOpen' = EndsOpen /\ EndsMarked' = EndsMarked
          /\ Dwelt' = Dwelt /\ StartsRun' = StartsRun /\ EndsRun' = EndsRun
          /\ over' = over /\ wig' = wig /\ P0' = P0 /\ P1' = P1 /\ N' = N /\ Offs' = Offs
      BY <3>1 DEF Corner, EndsOpen, EndsMarked, Dwelt, StartsRun, EndsRun, over, wig, P0, P1, N,
                  Marks, Offs
    <3> QED BY <3>1, <3>2 DEF ShapeInv, DwellInv, Planning, LastTo, Accepted
  <2> QED BY <2>1, <2>2, <2>3, <2>4, <2>5, ApproachShape, RunUpShape, MarkLineShape, MoveShape,
             WiggleShape, RunOutShape DEF Next, Plan
<1> QED BY <1>1, <1>2, PlanInvariant, PTL DEF Spec

(* On every path, however its runs, corners, wiggles and run-outs fall,    *)
(* the laser-off dwell is on the vectors after which the laser goes off    *)
(* and on no other.                                                        *)
THEOREM DwellIsWhereLaserStops == Spec => []DwellWhereLaserStops
<1>1. PlanInv /\ ShapeInv /\ DwellInv => DwellWhereLaserStops
  <2> SUFFICES ASSUME PlanInv, ShapeInv, DwellInv, pc = "done", NEW k \in 1..Len(cmds)
               PROVE  (cmds[k].dwell = "off") <=> (IsMark(k) /\ ~IsMark(k + 1))
    BY DEF DwellWhereLaserStops
  <2>1. Dwelt /\ ~EndsOpen /\ Len(cmds) \in Nat
    BY LenProperties DEF DwellInv, ShapeInv, Planning, PlanInv, PlanType
  <2>2. k + 1 \in Marks => k \in 1..Len(cmds) - 1
    BY <2>1 DEF Marks
  <2>3. k \in 1..Len(cmds) - 1 \/ k = Len(cmds)
    BY <2>1
  <2>4. k \in Offs <=> k \in Marks /\ k + 1 \notin Marks
    <3>1. CASE k \in 1..Len(cmds) - 1
      BY <2>1, <3>1 DEF Dwelt
    <3>2. CASE k = Len(cmds)
      <4>1. k + 1 \notin Marks
        BY <2>1, <3>2 DEF Marks
      <4> QED BY <2>1, <3>2, <4>1 DEF Dwelt, EndsOpen
    <3> QED BY <2>3, <3>1, <3>2
  <2> QED BY <2>4 DEF Offs, IsMark
<1> QED BY <1>1, PlanInvariant, ShapeInvariant, PTL
-----------------------------------------------------------------------------
(* What is marked.  The segments whose vectors are all built, and those of *)
(* them that are lit, that begin a run, and that end one.                  *)
Built == IF pc = "runout" THEN i ELSE i - 1
UpTo(S, b)  == {j \in S : j <= b}
LitBuilt    == UpTo(Lit(job), Built)
StartsBuilt == UpTo(RunStarts, Built)
EndsBuilt   == UpTo(RunEnds, Built)

LEMMA FiniteNumbers ==
  ASSUME PlanType
  PROVE  /\ LitBuilt \in SUBSET Nat /\ StartsBuilt \in SUBSET Nat /\ EndsBuilt \in SUBSET Nat
         /\ IsFiniteSet(LitBuilt) /\ IsFiniteSet(StartsBuilt) /\ IsFiniteSet(EndsBuilt)
         /\ Lit(job) \in SUBSET Nat /\ RunStarts \in SUBSET Nat /\ RunEnds \in SUBSET Nat
         /\ IsFiniteSet(Lit(job)) /\ IsFiniteSet(RunStarts) /\ IsFiniteSet(RunEnds)
         /\ Marks \in SUBSET Nat /\ MarkStarts \in SUBSET Nat /\ Offs \in SUBSET Nat
         /\ IsFiniteSet(Marks) /\ IsFiniteSet(MarkStarts) /\ IsFiniteSet(Offs)
<1>1. N \in Nat /\ Len(cmds) \in Nat
  BY LenProperties, LitFlags DEF PlanType
<1>2. /\ IsFiniteSet(1..N) /\ IsFiniteSet(1..Len(cmds))
      /\ 1..N \subseteq Nat /\ 1..Len(cmds) \subseteq Nat
  BY <1>1, FS_Interval, SMTT(30)
<1>3. /\ Lit(job) \in SUBSET (1..N) /\ RunStarts \in SUBSET (1..N) /\ RunEnds \in SUBSET (1..N)
      /\ LitBuilt \in SUBSET (1..N) /\ StartsBuilt \in SUBSET (1..N) /\ EndsBuilt \in SUBSET (1..N)
  BY DEF Lit, RunStarts, RunEnds, LitBuilt, StartsBuilt, EndsBuilt, UpTo, N
<1>4. /\ Marks \in SUBSET (1..Len(cmds)) /\ MarkStarts \in SUBSET (1..Len(cmds))
      /\ Offs \in SUBSET (1..Len(cmds))
  BY DEF Marks, MarkStarts, Offs
<1>5. \A S \in SUBSET (1..N) : S \in SUBSET Nat /\ IsFiniteSet(S)
  BY <1>2, FS_Subset
<1>6. \A S \in SUBSET (1..Len(cmds)) : S \in SUBSET Nat /\ IsFiniteSet(S)
  BY <1>2, FS_Subset
<1> QED BY <1>3, <1>4, <1>5, <1>6

(* A body builds one segment more, the last so far.                        *)
LEMMA BodyBuilds ==
  ASSUME PlanInv, pc = "body", NEW new, Body(new)
  PROVE  /\ job' = job
         /\ LitBuilt'    = IF job.lit[i] THEN LitBuilt \cup {i} ELSE LitBuilt
         /\ StartsBuilt' = IF StartsRun THEN StartsBuilt \cup {i} ELSE StartsBuilt
         /\ EndsBuilt'   = IF EndsRun THEN EndsBuilt \cup {i} ELSE EndsBuilt
         /\ \A j \in LitBuilt \cup StartsBuilt \cup EndsBuilt : j < i
<1>1. /\ job' = job /\ i \in 1..N /\ N \in Nat /\ \A j \in 1..N : job.lit[j] \in BOOLEAN
  BY SegmentPoints, LitFlags DEF Body, PlanInv, PlanType, Working
<1>2. Built = i - 1 /\ Built' = i
  <2>1. Built = i - 1
    BY DEF Built
  <2>2. CASE EndsRun /\ over > 0
    <3>1. pc' = "runout" /\ i' = i
      BY <2>2 DEF Body
    <3> QED BY <2>1, <3>1 DEF Built
  <2>3. CASE ~(EndsRun /\ over > 0)
    <3>1. pc' # "runout" /\ i' = i + 1
      BY <2>3 DEF Body, FinishSegment
    <3>2. i' - 1 = i
      BY <1>1, <3>1
    <3> QED BY <2>1, <3>1, <3>2 DEF Built
  <2> QED BY <2>2, <2>3
<1>3. Lit(job)' = Lit(job) /\ RunStarts' = RunStarts /\ RunEnds' = RunEnds
  BY <1>1 DEF Lit, RunStarts, RunEnds, IsLit
<1>4. /\ i \in Lit(job) <=> job.lit[i]
      /\ i \in RunStarts <=> StartsRun
      /\ i \in RunEnds <=> EndsRun
  <2>1. /\ \A j \in 1..N : IsLit(j) <=> job.lit[j]
        /\ ~IsLit(0) /\ ~IsLit(N + 1)
    BY <1>1 DEF IsLit, Lit, N
  <2>2. i - 1 \in 1..N \/ i = 1
    BY <1>1
  <2>3. i + 1 \in 1..N \/ i = N
    BY <1>1
  <2>4. i \in RunStarts <=> StartsRun
    BY <1>1, <2>1, <2>2 DEF RunStarts, StartsRun, IsLit
  <2>5. i \in RunEnds <=> EndsRun
    BY <1>1, <2>1, <2>3 DEF RunEnds, EndsRun, IsLit
  <2> QED BY <1>1, <2>1, <2>4, <2>5 DEF IsLit
<1>5. ASSUME NEW S \in SUBSET (1..N)
      PROVE  /\ UpTo(S, i) = IF i \in S THEN UpTo(S, i - 1) \cup {i} ELSE UpTo(S, i - 1)
             /\ \A j \in UpTo(S, i - 1) : j < i
  <2>1. \A j \in S : j <= i <=> j <= i - 1 \/ j = i
    BY <1>1
  <2>2. \A j \in S : j <= i - 1 => j < i
    BY <1>1
  <2> QED BY <2>1, <2>2 DEF UpTo
<1>6. Lit(job) \in SUBSET (1..N) /\ RunStarts \in SUBSET (1..N) /\ RunEnds \in SUBSET (1..N)
  BY DEF Lit, RunStarts, RunEnds, N
<1> QED BY <1>1, <1>2, <1>3, <1>4, <1>5, <1>6 DEF LitBuilt, StartsBuilt, EndsBuilt

LEMMA SameBuilds ==
  ASSUME job' = job, Built' = Built
  PROVE  LitBuilt' = LitBuilt /\ StartsBuilt' = StartsBuilt /\ EndsBuilt' = EndsBuilt
  BY DEF LitBuilt, StartsBuilt, EndsBuilt, UpTo, Lit, RunStarts, RunEnds, IsLit

LEMMA AllBuilt ==
  ASSUME PlanInv, ShapeInv, pc = "done"
  PROVE  LitBuilt = Lit(job) /\ StartsBuilt = RunStarts /\ EndsBuilt = RunEnds
<1>1. N \in Nat /\ Built = N
  BY LitFlags DEF PlanInv, PlanType, ShapeInv, Built
<1>2. Lit(job) \subseteq 1..N /\ RunStarts \subseteq 1..N /\ RunEnds \subseteq 1..N
  BY DEF Lit, RunStarts, RunEnds, N
<1>3. \A j \in 1..N : j <= N
  BY <1>1
<1> QED BY <1>1, <1>2, <1>3 DEF LitBuilt, StartsBuilt, EndsBuilt, UpTo

(* The vectors that mark are the lit segments built, in the same order.    *)
LinesInv ==
  pc \in Planning /\ wig = 0 =>
    /\ Cardinality(LitBuilt) = Cardinality(Marks)
    /\ \A s, t : Twins(LitBuilt, s, Marks, t) => <<Beam(t), cmds[t].to>> = Line(job, s)

LEMMA LinesJumps ==
  ASSUME cmds \in Seq(Cmds), pc \in Planning, LinesInv, AddsJumps, job' = job, LitBuilt' = LitBuilt
  PROVE  LinesInv'
<1> SUFFICES ASSUME wig = 0
             PROVE  /\ Cardinality(LitBuilt') = Cardinality(Marks')
                    /\ \A s, t : Twins(LitBuilt', s, Marks', t) =>
                         <<Beam(t)', cmds'[t].to>> = Line(job, s)
  BY DEF LinesInv, wig, Line, Twins, Place
<1>1. Marks' = Marks /\ \A k \in 1..Len(cmds) : Beam(k)' = Beam(k) /\ cmds'[k] = cmds[k]
  BY JumpsKeep DEF AddsJumps, Grows
<1>2. \A s, t : Twins(LitBuilt, s, Marks, t) => t \in 1..Len(cmds)
  BY DEF Twins, Marks
<1> QED BY <1>1, <1>2 DEF LinesInv

LEMMA LinesMarkLine == PlanInv /\ ShapeInv /\ LinesInv /\ MarkLine => LinesInv'
<1> SUFFICES ASSUME PlanInv, ShapeInv, LinesInv, MarkLine
             PROVE  /\ Cardinality(LitBuilt') = Cardinality(Marks')
                    /\ \A s, t : Twins(LitBuilt', s, Marks', t) =>
                         <<Beam(t)', cmds'[t].to>> = Line(job', s)
  BY DEF LinesInv, Line, Twins, Place
<1>1. /\ pc = "body" /\ job.lit[i] /\ wig = 0 /\ i \in Nat /\ PlanType
      /\ cmds \in Seq(Cmds) /\ Len(cmds) \in Nat /\ cmds # <<>> /\ LastTo(cmds) = P0
  BY LenProperties DEF MarkLine, PlanInv, PlanType, ShapeInv
<1>2. AddsMarks /\ LastTo(cmds') = P1 /\ Len(cmds') = Len(cmds) + 1
  BY MarkLineAdds
<1>3. /\ job' = job /\ LitBuilt' = LitBuilt \cup {i} /\ \A j \in LitBuilt : j < i
  BY <1>1, BodyBuilds DEF MarkLine
<1>0. PICK n : n = Len(cmds) + 1 /\ n \in Nat
  BY <1>1
<1>4. Marks' = Marks \cup {n} /\ \A k \in Marks : k < n
  <2>1. Marks' = Marks \cup (Len(cmds) + 1..Len(cmds'))
    BY <1>0, <1>1, <1>2, MarksAdd
  <2> QED BY <1>0, <1>1, <1>2, <2>1 DEF Marks
<1>5. /\ Cardinality(LitBuilt) = Cardinality(Marks)
      /\ \A s, t : Twins(LitBuilt, s, Marks, t) => <<Beam(t), cmds[t].to>> = Line(job, s)
  BY <1>1 DEF LinesInv, Planning
<1>6. /\ Cardinality(LitBuilt') = Cardinality(Marks')
      /\ \A s, t : Twins(LitBuilt', s, Marks', t) =>
           Twins(LitBuilt, s, Marks, t) \/ (s = i /\ t = n)
  <2>1. Last(LitBuilt, i) /\ Last(Marks, n)
    BY <1>0, <1>1, <1>3, <1>4, FiniteNumbers DEF Last
  <2>2. Cardinality(LitBuilt) = Cardinality(Marks)
    BY <1>5
  <2>3. Cardinality(LitBuilt \cup {i}) = Cardinality(Marks \cup {n})
    BY <2>1, <2>2, TwinsAdd
  <2>4. ASSUME NEW s, NEW t, Twins(LitBuilt \cup {i}, s, Marks \cup {n}, t)
        PROVE  Twins(LitBuilt, s, Marks, t) \/ (s = i /\ t = n)
    BY <2>1, <2>2, <2>4, TwinsAdd
  <2> QED BY <1>3, <1>4, <2>3, <2>4
<1>7. \A s, t : Twins(LitBuilt, s, Marks, t) =>
        <<Beam(t)', cmds'[t].to>> = <<Beam(t), cmds[t].to>>
  <2>1. \A k \in 1..Len(cmds) : Beam(k)' = Beam(k) /\ cmds'[k] = cmds[k]
    BY <1>0, <1>1, <1>2, MarksAdd DEF AddsMarks, Grows
  <2> QED BY <2>1 DEF Twins, Marks
<1>8. <<Beam(n)', cmds'[n].to>> = Line(job, i)
  <2>1. Len(cmds) \in 1..Len(cmds) /\ n - 1 = Len(cmds) /\ n # 1
    BY <1>0, <1>1, EmptySeq
  <2>2. cmds'[Len(cmds)].to = P0
    BY <1>0, <1>1, <1>2, <2>1 DEF AddsMarks, Grows, LastTo
  <2> QED BY <1>0, <1>1, <1>2, <2>1, <2>2 DEF Beam, LastTo, Line, P0, P1
<1> QED BY <1>3, <1>5, <1>6, <1>7, <1>8
-----------------------------------------------------------------------------
(* The n-th number of an increasing sequence of numbers is in place n.     *)
LEMMA PlaceOfIncreasing ==
  ASSUME NEW n \in Nat, NEW f \in [1..n -> Nat], NEW S, S = {f[m] : m \in 1..n},
         \A k, l \in 1..n : k < l => f[k] < f[l]
  PROVE  /\ S \in SUBSET Nat /\ IsFiniteSet(S) /\ Cardinality(S) = n
         /\ \A m \in 1..n : Nth(S, m) = f[m]
<1>1. \A k, l \in 1..n : (f[k] <= f[l] <=> k <= l) /\ (f[k] = f[l] => k = l)
  <2> TAKE k \in 1..n, l \in 1..n
  <2>1. f[k] \in Nat /\ f[l] \in Nat /\ k \in Nat /\ l \in Nat
    OBVIOUS
  <2>2. (k < l => f[k] < f[l]) /\ (l < k => f[l] < f[k])
    OBVIOUS
  <2> QED BY <2>1, <2>2
<1>2. ASSUME NEW m \in 0..n, NEW T,
             \A k \in 1..m : f[k] \in T, \A x \in T : \E k \in 1..m : x = f[k]
      PROVE  IsFiniteSet(T) /\ Cardinality(T) = m
  <2> DEFINE g == [k \in 1..m |-> f[k]]
  <2>1. \A k \in 1..m : k \in 1..n
    OBVIOUS
  <2>2. g \in Surjection(1..m, T) /\ g \in Injection(1..m, T)
    BY <1>1, <1>2, <2>1 DEF Surjection, Injection, IsInjective
  <2>3. IsFiniteSet(1..m) /\ Cardinality(1..m) = m
    BY FS_Interval
  <2> HIDE DEF g
  <2> QED BY <2>2, <2>3, FS_Surjection
<1>3. S \in SUBSET Nat /\ IsFiniteSet(S) /\ Cardinality(S) = n
  <2>1. n \in 0..n /\ S \in SUBSET Nat
    OBVIOUS
  <2>2. \A k \in 1..n : f[k] \in S
    OBVIOUS
  <2>3. \A x \in S : \E k \in 1..n : x = f[k]
    OBVIOUS
  <2>4. IsFiniteSet(S) /\ Cardinality(S) = n
    BY ONLY <1>2, <2>1, <2>2, <2>3
  <2> QED BY <2>1, <2>4
<1>4. ASSUME NEW m \in 1..n PROVE f[m] \in S /\ Place(S, f[m]) = m
  <2> DEFINE T == {k \in S : k <= f[m]}
  <2>1. ASSUME NEW x \in T PROVE \E k \in 1..m : x = f[k]
    <3>1. PICK k \in 1..n : x = f[k]
      OBVIOUS
    <3>2. k <= m
      BY <1>1, <3>1
    <3> QED BY <3>1, <3>2
  <2>2. ASSUME NEW k \in 1..m PROVE f[k] \in T
    <3>1. k \in 1..n /\ k <= m
      OBVIOUS
    <3> QED BY <1>1, <3>1
  <2> HIDE DEF T
  <2>3. m \in 0..n
    OBVIOUS
  <2>4. Cardinality(T) = m
    BY <1>2, <2>1, <2>2, <2>3
  <2> QED BY <2>4 DEF T, Place
<1>5. ASSUME NEW m \in 1..n PROVE Nth(S, m) = f[m]
  <2> DEFINE c == Cardinality(S)
  <2>1. \A x \in 1..c : Nth(S, x) \in S /\ Place(S, Nth(S, x)) = x
    BY ONLY <1>3, NthPlace
  <2>2. c = n
    BY <1>3
  <2> HIDE DEF c
  <2>3. Nth(S, m) \in S /\ Place(S, Nth(S, m)) = m
    BY <2>1, <2>2
  <2>4. \A k, l \in S : Place(S, k) = Place(S, l) => k = l
    BY ONLY <1>3, NthPlace
  <2> QED BY <1>4, <2>3, <2>4
<1> QED BY <1>3, <1>5

LEMMA OddAndEven ==
  /\ \A m \in Nat : /\ (2 * m - 1) % 2 = 1 /\ (2 * m) % 2 = 0
                   /\ (2 * m) \div 2 = m /\ (2 * m + 1) \div 2 = m
  /\ \A k \in Nat : \E h \in Nat : k = IF k % 2 = 1 THEN 2 * h + 1 ELSE 2 * h
<1>1. ASSUME NEW m \in Nat
      PROVE  /\ (2 * m - 1) % 2 = 1 /\ (2 * m) % 2 = 0 /\ (2 * m + 1) % 2 = 1
             /\ (2 * m) \div 2 = m /\ (2 * m + 1) \div 2 = m
  OBVIOUS
<1>2. ASSUME NEW k \in Nat PROVE \E h \in Nat : k = IF k % 2 = 1 THEN 2 * h + 1 ELSE 2 * h
  <2>1. PICK h \in Nat : k = 2 * h \/ k = 2 * h + 1
    <3>1. k \div 2 \in Nat /\ 2 * (k \div 2) <= k /\ k <= 2 * (k \div 2) + 1
      OBVIOUS
    <3> QED BY <3>1
  <2> QED BY <1>1, <2>1
<1> QED BY <1>1, <1>2

(* The lit segments of the job of segments() are the segments given to it. *)
LEMMA SegmentsAreLines ==
  ASSUME NEW segs \in Seq(Travel \X Travel), segs # <<>>, NEW o
  PROVE  LitLines(SegmentsJob(segs, o)) = segs
<1> DEFINE n == Len(segs)
           j == SegmentsJob(segs, o)
           f == [m \in 1..n |-> 2 * m - 1]
<1>1. /\ n \in Nat \ {0} /\ \A m \in 1..n : segs[m] \in Travel \X Travel
      /\ segs = [m \in 1..n |-> segs[m]]
  BY EmptySeq, LenProperties, ElementOfSeq
<1>2. /\ j.lit = [k \in 1..2 * n - 1 |-> k % 2 = 1]
      /\ j.pts = [k \in 1..2 * n |-> segs[(k + 1) \div 2][2 - (k % 2)]]
  BY DEF SegmentsJob, Flat
<1>3. Len(j.lit) = 2 * n - 1
  BY <1>1, <1>2
<1> HIDE DEF j, n
<1>4. Lit(j) = {f[m] : m \in 1..n}
  <2>1. Lit(j) = {k \in 1..2 * n - 1 : k % 2 = 1}
    BY <1>2, <1>3 DEF Lit
  <2>2. ASSUME NEW k \in 1..2 * n - 1, k % 2 = 1 PROVE \E m \in 1..n : k = f[m]
    <3>1. PICK h \in Nat : k = 2 * h + 1
      <4>1. k \in Nat
        BY <1>1
      <4> QED BY <2>2, <4>1, OddAndEven
    <3>2. h + 1 \in 1..n /\ 2 * (h + 1) - 1 = k
      BY <1>1, <3>1
    <3>3. f[h + 1] = 2 * (h + 1) - 1
      BY <3>2
    <3> QED BY <3>2, <3>3
  <2>3. ASSUME NEW m \in 1..n PROVE f[m] \in 1..2 * n - 1 /\ f[m] % 2 = 1
    BY <1>1
  <2> HIDE DEF f
  <2> QED BY <2>1, <2>2, <2>3
<1>5. Cardinality(Lit(j)) = n /\ \A m \in 1..n : Nth(Lit(j), m) = f[m]
  <2>1. f \in [1..n -> Nat] /\ \A k, l \in 1..n : k < l => f[k] < f[l]
    BY <1>1
  <2> HIDE DEF f
  <2> QED BY <1>1, <1>4, <2>1, PlaceOfIncreasing, ZenonT(60)
<1>6. ASSUME NEW m \in 1..n PROVE Line(j, f[m]) = segs[m]
  <2>1. 2 * m - 1 \in 1..2 * n /\ 2 * m \in 1..2 * n
    BY <1>1
  <2>2. /\ ((2 * m - 1) + 1) \div 2 = m /\ 2 - ((2 * m - 1) % 2) = 1
        /\ (2 * m + 1) \div 2 = m /\ 2 - ((2 * m) % 2) = 2 /\ (2 * m - 1) + 1 = 2 * m
    <3>1. m \in Nat /\ (2 * m - 1) + 1 = 2 * m
      OBVIOUS
    <3> QED BY <3>1, OddAndEven
  <2>3. j.pts[2 * m - 1] = segs[m][1] /\ j.pts[2 * m] = segs[m][2]
    BY <1>2, <2>1, <2>2, ZenonT(60)
  <2>4. segs[m] = <<segs[m][1], segs[m][2]>>
    BY <1>1
  <2> QED BY <2>2, <2>3, <2>4 DEF Line
<1>7. LitLines(j) = [m \in 1..n |-> segs[m]]
  <2> HIDE DEF f
  <2> QED BY <1>5, <1>6 DEF LitLines
<1> QED BY <1>1, <1>7 DEF j

(* What the caller asked for is kept as it is while the path is planned.   *)
AskedInv ==
  /\ asked \in Seq(Int \X Int)
  /\ pc \notin {"idle", "dots", "refused"} /\ Accepted(job) => asked = LitLines(job)

(* The vectors of dots(): a jump to each point, and a mark that stays.     *)
DotsInv ==
  pc = "dots" =>
    /\ Len(cmds) = 2 * Len(asked)
    /\ \A k \in 1..Len(asked) :
         /\ cmds[2 * k - 1].op = "jump" /\ cmds[2 * k].op = "mark"
         /\ asked[k] = <<cmds[2 * k - 1].to, cmds[2 * k].to>>

LEMMA LitLinesType ==
  ASSUME NEW j \in JobSet, Accepted(j)
  PROVE  LitLines(j) \in Seq(Int \X Int)
<1>1. Len(j.lit) \in Nat /\ Len(j.pts) = Len(j.lit) + 1 /\ j.pts \in Seq(Travel)
  BY LenProperties DEF JobSet, Accepted
<1>2. Lit(j) \in SUBSET (1..Len(j.lit))
  BY DEF Lit
<1>3. Lit(j) \in SUBSET Nat /\ IsFiniteSet(Lit(j))
  <2>1. \A n \in Nat : IsFiniteSet(1..n) /\ 1..n \subseteq Nat
    BY FS_Interval
  <2> QED BY <1>1, <1>2, <2>1, FS_Subset
<1>4. ASSUME NEW k \in Lit(j) PROVE Line(j, k) \in Int \X Int
  <2>1. k \in 1..Len(j.pts) /\ k + 1 \in 1..Len(j.pts)
    BY <1>1, <1>2
  <2>2. j.pts[k] \in Travel /\ j.pts[k + 1] \in Travel
    BY <1>1, <2>1, ElementOfSeq
  <2> QED BY <2>2, FullAssumption DEF Line, Travel
<1>5. /\ Cardinality(Lit(j)) \in Nat
      /\ \A m \in 1..Cardinality(Lit(j)) : Nth(Lit(j), m) \in Lit(j)
  BY <1>3, FS_CardinalityType, NthPlace
<1> DEFINE c == Cardinality(Lit(j))
<1>6. \A m \in 1..c : Line(j, Nth(Lit(j), m)) \in Int \X Int
  BY <1>4, <1>5
<1>7. c \in Nat
  BY <1>5
<1> HIDE DEF c
<1>8. [m \in 1..c |-> Line(j, Nth(Lit(j), m))] \in Seq(Int \X Int)
  BY <1>6, <1>7
<1> QED BY <1>8 DEF c, LitLines

LEMMA DotsCalled ==
  ASSUME CallDots
  PROVE  AskedInv' /\ DotsInv'
<1>1. PICK dots \in DotLists :
        /\ asked' = [k \in 1..Len(dots) |-> <<dots[k], dots[k]>>]
        /\ cmds' = [k \in 1..2 * Len(dots) |->
               IF k % 2 = 1 THEN JumpTo(dots[(k + 1) \div 2])
               ELSE Cmd("mark", IF RawUs < 1 THEN 1 ELSE RawUs, dots[k \div 2], "none")]
        /\ pc' = "dots"
  BY DEF CallDots
<1>2. Len(dots) \in Nat /\ \A k \in 1..Len(dots) : dots[k] \in Int
  <2>1. dots \in Seq(Travel)
    BY ListsAssumption
  <2> QED BY <2>1, LenProperties, ElementOfSeq, FullAssumption DEF Travel
<1>3. asked' \in Seq(Int \X Int) /\ Len(asked') = Len(dots) /\ Len(cmds') = 2 * Len(dots)
  BY <1>1, <1>2
<1>4. ASSUME NEW k \in 1..Len(dots)
      PROVE  /\ cmds'[2 * k - 1].op = "jump" /\ cmds'[2 * k].op = "mark"
             /\ cmds'[2 * k - 1].to = dots[k] /\ cmds'[2 * k].to = dots[k]
  <2>1. 2 * k - 1 \in 1..2 * Len(dots) /\ 2 * k \in 1..2 * Len(dots) /\ k \in Nat
    BY <1>2
  <2>2. (2 * k - 1) % 2 = 1 /\ (2 * k) % 2 = 0 /\ (2 * k) \div 2 = k
        /\ ((2 * k - 1) + 1) \div 2 = k
    <3>1. (2 * k - 1) + 1 = 2 * k
      BY <2>1
    <3> QED BY <2>1, <3>1, OddAndEven
  <2>3. /\ cmds'[2 * k - 1] = JumpTo(dots[k])
        /\ cmds'[2 * k] = Cmd("mark", IF RawUs < 1 THEN 1 ELSE RawUs, dots[k], "none")
    BY <1>1, <2>1, <2>2
  <2> QED BY <2>3 DEF JumpTo, Cmd
<1>5. ASSUME NEW k \in 1..Len(dots) PROVE asked'[k] = <<dots[k], dots[k]>>
  BY <1>1
<1> QED BY <1>1, <1>3, <1>4, <1>5 DEF AskedInv, DotsInv

(* Planning changes neither the call nor what it asked for.                *)
LEMMA PlanKeepsCall ==
  ASSUME Plan
  PROVE  /\ UNCHANGED <<job, asked>>
         /\ pc \in {"check", "approach", "runup", "body", "runout"}
         /\ pc' \notin {"idle", "dots"}
<1>1. ASSUME NEW new, Body(new)
      PROVE  UNCHANGED <<job, asked>> /\ pc' \in {"runout", "done", "approach"}
  BY <1>1 DEF Body, FinishSegment
<1>2. CASE Check \/ RunUpCall \/ Approach \/ Search \/ RunUp \/ WiggleRefused \/ RunOut
  BY <1>2 DEF Check, RunUpCall, Approach, Search, RunUp, WiggleRefused, RunOut, RunOutStep,
              FinishSegment, pathVars
<1>3. CASE MarkLine \/ Move \/ Wiggle
  BY <1>1, <1>3 DEF MarkLine, Move, Wiggle, WiggleVia
<1> QED BY <1>2, <1>3 DEF Plan

LEMMA AskedInvariant == Spec => [](AskedInv /\ DotsInv)
<1>1. Init => AskedInv /\ DotsInv
  BY DEF Init, AskedInv, DotsInv
<1>2. PlanInv /\ AskedInv /\ DotsInv /\ [Next]_vars => AskedInv' /\ DotsInv'
  <2> SUFFICES ASSUME PlanInv, AskedInv, DotsInv, [Next]_vars PROVE AskedInv' /\ DotsInv'
    OBVIOUS
  <2>1. CASE CallPath
    <3>1. PICK j \in JobSet : Called(j, IF Accepted(j) THEN LitLines(j) ELSE <<>>)
      BY <2>1, JobsAssumption DEF CallPath
    <3>2. /\ job' = j /\ pc' = "check"
          /\ asked' = IF Accepted(j) THEN LitLines(j) ELSE <<>>
      BY <3>1 DEF Called
    <3>3. asked' \in Seq(Int \X Int)
      BY <3>2, LitLinesType
    <3> QED BY <3>2, <3>3 DEF AskedInv, DotsInv
  <2>2. CASE CallSegments
    <3>1. PICK segs \in SegLists, o \in SegOpts :
            IF segs = <<>>
            THEN pc' = "refused" /\ UNCHANGED <<job, i, at, granted, cmds, asked, fitVars>>
            ELSE Called(SegmentsJob(segs, o), segs)
      BY <2>2 DEF CallSegments
    <3>2. CASE segs = <<>>
      BY <3>1, <3>2, SMTT(40) DEF AskedInv, DotsInv
    <3>3. CASE segs # <<>>
      <4>1. segs \in Seq(Travel \X Travel) /\ segs \in Seq(Int \X Int)
        <5>1. segs \in Seq(Travel \X Travel)
          BY ListsAssumption
        <5>2. Travel \X Travel \subseteq Int \X Int
          BY FullAssumption DEF Travel
        <5> QED BY <5>1, <5>2
      <4>2. job' = SegmentsJob(segs, o) /\ asked' = segs /\ pc' = "check"
        BY <3>1, <3>3 DEF Called
      <4>3. asked' = LitLines(job')
        BY <3>3, <4>1, <4>2, SegmentsAreLines
      <4>4. asked' \in Seq(Int \X Int)
        BY <4>1, <4>2
      <4> QED BY <4>2, <4>3, <4>4, ZenonT(30) DEF AskedInv, DotsInv
    <3> QED BY <3>2, <3>3
  <2>3. CASE CallDots
    BY <2>3, DotsCalled
  <2>4. CASE Plan
    BY <2>4, PlanKeepsCall DEF AskedInv, DotsInv, Accepted
  <2>5. CASE UNCHANGED vars
    BY <2>5 DEF vars, pathVars, AskedInv, DotsInv, Accepted
  <2> QED BY <2>1, <2>2, <2>3, <2>4, <2>5 DEF Next
<1> QED BY <1>1, <1>2, PlanInvariant, PTL DEF Spec

(* Every variable has its type in every state of path(), segments() and    *)
(* dots(), and a segment is worked on only while there is one.             *)
THEOREM PathVariablesTyped == Spec => []TypeOK
<1>1. PlanInv /\ AskedInv => TypeOK
  BY DEF PlanInv, AskedInv, TypeOK
<1> QED BY <1>1, PlanInvariant, AskedInvariant, PTL

LEMMA NothingBuilt ==
  ASSUME PlanInv, Check
  PROVE  /\ LitBuilt' = {} /\ StartsBuilt' = {} /\ EndsBuilt' = {}
         /\ Marks' = {} /\ MarkStarts' = {} /\ Offs' = {} /\ Cardinality({}) = 0
         /\ pc' \in {"approach", "refused"}
<1>1. cmds' = <<>> /\ i' = 1 /\ job' = job /\ pc' \in {"approach", "refused"}
  BY DEF Check, PlanInv
<1>2. N \in Nat
  BY LitFlags DEF PlanInv, PlanType
<1>3. Marks' = {} /\ MarkStarts' = {} /\ Offs' = {}
  BY <1>1 DEF Marks, MarkStarts, Offs
<1>4. Built' = 0
  BY <1>1 DEF Built
<1>5. ASSUME NEW S \in SUBSET (1..N) PROVE UpTo(S, 0) = {}
  <2>1. \A k \in 1..N : ~(k <= 0)
    BY <1>2
  <2> QED BY <2>1 DEF UpTo
<1>6. /\ Lit(job)' \in SUBSET (1..N) /\ RunStarts' \in SUBSET (1..N) /\ RunEnds' \in SUBSET (1..N)
  BY <1>1 DEF Lit, RunStarts, RunEnds, N
<1> QED BY <1>1, <1>3, <1>4, <1>5, <1>6, FS_EmptySet DEF LitBuilt, StartsBuilt, EndsBuilt

LEMMA QuietBuilds ==
  ASSUME PlanInv, RunUpCall \/ Search \/ UNCHANGED vars
  PROVE  /\ UNCHANGED <<job, cmds, granted, i>> /\ Built' = Built
         /\ LitBuilt' = LitBuilt /\ StartsBuilt' = StartsBuilt /\ EndsBuilt' = EndsBuilt
         /\ pc' = pc \/ (pc = "approach" /\ pc' = "runup")
<1>1. /\ UNCHANGED <<job, cmds, granted, i>>
      /\ pc' = pc \/ (pc = "approach" /\ pc' = "runup")
  BY DEF RunUpCall, Search, vars, pathVars
<1>2. Built' = Built
  BY <1>1 DEF Built
<1> QED BY <1>1, <1>2, SameBuilds

LEMMA JumpsBuild ==
  ASSUME PlanInv, Approach \/ RunUp \/ RunOut
  PROVE  /\ AddsJumps /\ job' = job /\ pc \in Planning /\ Built' = Built /\ cmds \in Seq(Cmds)
         /\ LitBuilt' = LitBuilt /\ StartsBuilt' = StartsBuilt /\ EndsBuilt' = EndsBuilt
<1>1. AddsJumps
  BY ApproachAdds, RunUpAdds, RunOutAdds
<1>2. i \in Nat /\ cmds \in Seq(Cmds)
  BY DEF PlanInv, PlanType
<1>3. job' = job /\ pc \in Planning /\ Built' = Built
  <2>1. CASE Approach \/ RunUp
    BY <2>1 DEF Approach, RunUp, Built, Planning
  <2>2. CASE RunOut
    <3>1. job' = job /\ pc = "runout" /\ pc' # "runout" /\ i' = i + 1 /\ i' - 1 = i
      BY <1>2, <2>2 DEF RunOut, RunOutStep, FinishSegment
    <3> QED BY <3>1 DEF Built, Planning
  <2> QED BY <2>1, <2>2
<1> QED BY <1>1, <1>2, <1>3, SameBuilds

LEMMA LinesInvariant == Spec => []LinesInv
<1>1. Init => LinesInv
  BY DEF Init, LinesInv, Planning
<1>2. PlanInv /\ ShapeInv /\ LinesInv /\ [Next]_vars => LinesInv'
  <2> SUFFICES ASSUME PlanInv, ShapeInv, LinesInv, [Next]_vars PROVE LinesInv'
    OBVIOUS
  <2>1. CASE CallPath \/ CallSegments \/ CallDots
    <3>1. pc' \in {"check", "refused", "dots"}
      BY <2>1 DEF CallPath, CallSegments, CallDots, Called
    <3> QED BY <3>1 DEF LinesInv, Planning
  <2>2. CASE Check
    BY <2>2, NothingBuilt DEF LinesInv, Twins
  <2>3. CASE RunUpCall \/ Search \/ UNCHANGED vars
    <3>1. /\ UNCHANGED <<job, cmds>> /\ LitBuilt' = LitBuilt
          /\ pc' \in Planning => pc \in Planning
      BY <2>3, QuietBuilds DEF Planning
    <3>2. Marks' = Marks /\ wig' = wig /\ \A t : Beam(t)' = Beam(t)
      BY <3>1 DEF Marks, wig, Beam
    <3> QED BY <3>1, <3>2 DEF LinesInv
  <2>4. CASE Approach \/ RunUp \/ RunOut
    BY <2>4, JumpsBuild, LinesJumps
  <2>5. CASE Move
    <3>1. pc = "body" /\ ~job.lit[i] /\ cmds \in Seq(Cmds) /\ AddsJumps
      BY <2>5, MoveAdds DEF Move, PlanInv, PlanType
    <3>2. job' = job /\ LitBuilt' = LitBuilt
      BY <2>5, <3>1, BodyBuilds DEF Move
    <3> QED BY <3>1, <3>2, LinesJumps DEF Planning
  <2>6. CASE MarkLine
    BY <2>6, LinesMarkLine
  <2>7. CASE Wiggle
    BY <2>7 DEF Wiggle, WiggleVia, Body, LinesInv, wig
  <2>8. CASE WiggleRefused
    BY <2>8 DEF WiggleRefused, LinesInv, Planning
  <2> QED BY <2>1, <2>2, <2>3, <2>4, <2>5, <2>6, <2>7, <2>8 DEF Next, Plan
<1> QED BY <1>1, <1>2, PlanInvariant, ShapeInvariant, PTL DEF Spec

LEMMA DotsMarked ==
  ASSUME PlanInv, AskedInv, DotsInv, pc = "dots"
  PROVE  MarksTheAsked
<1> DEFINE n == Len(asked)
           f == [m \in 1..n |-> 2 * m]
<1>1. /\ n \in Nat /\ Len(cmds) = 2 * n
      /\ \A k \in 1..n : /\ cmds[2 * k - 1].op = "jump" /\ cmds[2 * k].op = "mark"
                         /\ asked[k] = <<cmds[2 * k - 1].to, cmds[2 * k].to>>
      /\ asked = [k \in 1..n |-> asked[k]]
  BY LenProperties DEF AskedInv, DotsInv
<1> HIDE DEF n
<1>2. Marks = {f[m] : m \in 1..n}
  <2>1. ASSUME NEW k \in Marks PROVE \E m \in 1..n : k = f[m]
    <3>1. k \in 1..2 * n /\ cmds[k].op = "mark"
      BY <1>1 DEF Marks
    <3>2. PICK h \in Nat : k = 2 * h + 1 \/ k = 2 * h
      <4>1. k \in Nat
        BY <1>1, <3>1
      <4> QED BY <4>1, OddAndEven
    <3>3. CASE k = 2 * h + 1
      <4>1. h + 1 \in 1..n /\ 2 * (h + 1) - 1 = k
        BY <1>1, <3>1, <3>3
      <4> QED BY <1>1, <3>1, <4>1
    <3>4. CASE k = 2 * h
      BY <1>1, <3>1, <3>4
    <3> QED BY <3>2, <3>3, <3>4
  <2>2. ASSUME NEW m \in 1..n PROVE f[m] \in Marks
    BY <1>1 DEF Marks
  <2> HIDE DEF f
  <2> QED BY <2>1, <2>2
<1>3. Cardinality(Marks) = n /\ \A m \in 1..n : Nth(Marks, m) = f[m]
  <2>1. f \in [1..n -> Nat] /\ \A k, l \in 1..n : k < l => f[k] < f[l]
    BY <1>1
  <2> HIDE DEF f
  <2> QED BY <1>1, <1>2, <2>1, PlaceOfIncreasing, ZenonT(60)
<1>4. ASSUME NEW m \in 1..n
      PROVE  asked[m] = <<Beam(Nth(Marks, m)), cmds[Nth(Marks, m)].to>>
  <2>1. Nth(Marks, m) = 2 * m /\ 2 * m # 1
    BY <1>1, <1>3
  <2> QED BY <1>1, <2>1 DEF Beam
<1>5. asked = [m \in 1..n |-> <<Beam(Nth(Marks, m)), cmds[Nth(Marks, m)].to>>]
  BY <1>1, <1>4
<1> QED BY <1>3, <1>5 DEF MarksTheAsked

(* Whatever path(), segments() or dots() is called with, what is marked is *)
(* what was asked for: each lit segment once, in order, from its first     *)
(* point to its last.                                                      *)
THEOREM MarksWhatIsAsked == Spec => []MarksTheAsked
<1>1. PlanInv /\ ShapeInv /\ AskedInv /\ DotsInv /\ LinesInv => MarksTheAsked
  <2> SUFFICES ASSUME PlanInv, ShapeInv, AskedInv, LinesInv, pc = "done", wig = 0
               PROVE  asked = [m \in 1..Cardinality(Marks) |->
                                 <<Beam(Nth(Marks, m)), cmds[Nth(Marks, m)].to>>]
    BY DotsMarked DEF MarksTheAsked
  <2>1. asked = LitLines(job) /\ LitBuilt = Lit(job)
    BY AllBuilt DEF AskedInv, ShapeInv
  <2>2. /\ Cardinality(Lit(job)) = Cardinality(Marks)
        /\ \A s, t : Twins(Lit(job), s, Marks, t) => <<Beam(t), cmds[t].to>> = Line(job, s)
    BY <2>1 DEF LinesInv, Planning
  <2>3. \A m \in 1..Cardinality(Marks) :
          Twins(Lit(job), Nth(Lit(job), m), Marks, Nth(Marks, m))
    <3>1. /\ Lit(job) \in SUBSET Nat /\ IsFiniteSet(Lit(job))
          /\ Marks \in SUBSET Nat /\ IsFiniteSet(Marks)
      BY FiniteNumbers DEF PlanInv
    <3> QED BY <2>2, <3>1, NthTwins
  <2>4. \A m \in 1..Cardinality(Marks) :
          Line(job, Nth(Lit(job), m)) = <<Beam(Nth(Marks, m)), cmds[Nth(Marks, m)].to>>
    BY <2>2, <2>3
  <2> QED BY <2>1, <2>2, <2>4 DEF LitLines
<1> QED BY <1>1, PlanInvariant, ShapeInvariant, AskedInvariant, LinesInvariant, PTL
-----------------------------------------------------------------------------
(* Where the runs begin.                                                   *)
(* The beam comes to the mark t at the first point of the segment s, along *)
(* a dark leg as long as the run-up granted.                               *)
LedIn(s, t) ==
  /\ Beam(t) = job.pts[s]
  /\ over > 0 /\ granted > 0 /\ HasLength(s) =>
       t > 2 /\ Dist(Beam(t - 1), Beam(t)) >= granted

StartsInv ==
  pc \in Planning =>
    /\ Cardinality(StartsBuilt) = Cardinality(MarkStarts)
    /\ \A s, t : Twins(StartsBuilt, s, MarkStarts, t) => LedIn(s, t)
    /\ pc = "body" /\ StartsRun /\ over > 0 /\ granted > 0 /\ P0 # P1 =>
         Len(cmds) > 1 /\ Dist(cmds[Len(cmds) - 1].to, LastTo(cmds)) >= granted

LEMMA BeamType ==
  ASSUME cmds \in Seq(Cmds), NEW k \in 1..Len(cmds)
  PROVE  cmds[k].to \in Int /\ Beam(k) \in Int
<1>1. Len(cmds) \in Nat /\ \A l \in 1..Len(cmds) : cmds[l] \in Cmds
  BY LenProperties, ElementOfSeq
<1>2. \A l \in 1..Len(cmds) : cmds[l].to \in Int
  BY <1>1 DEF Cmds
<1>3. k # 1 => k - 1 \in 1..Len(cmds)
  BY <1>1
<1> QED BY <1>2, <1>3 DEF Beam, NoPoint

(* A run led in stays so, as long as the run-up reported only shrinks.     *)
LEMMA LedInStays ==
  ASSUME cmds \in Seq(Cmds), Grows, job' = job, granted \in Nat, granted' \in Nat,
         granted' <= granted, NEW s, NEW t \in 1..Len(cmds), LedIn(s, t)
  PROVE  LedIn(s, t)'
<1>1. \A k \in 1..Len(cmds) : Beam(k)' = Beam(k) /\ Beam(k) \in Int
  <2> TAKE k \in 1..Len(cmds)
  <2>1. Len(cmds) \in Nat
    BY LenProperties
  <2>2. k # 1 => k - 1 \in 1..Len(cmds)
    BY <2>1
  <2>3. Beam(k)' = Beam(k)
    BY <2>2 DEF Grows, Beam
  <2> QED BY <2>3, BeamType
<1>2. over' = over /\ (HasLength(s)' <=> HasLength(s)) /\ (job.pts[s])' = job.pts[s]
  BY DEF over, HasLength
<1>3. CASE over > 0 /\ granted' > 0 /\ HasLength(s)
  <2>1. granted > 0 /\ t > 2 /\ Dist(Beam(t - 1), Beam(t)) >= granted /\ Beam(t) = job.pts[s]
    BY <1>3 DEF LedIn
  <2>2. t - 1 \in 1..Len(cmds)
    BY <2>1, LenProperties
  <2>3. Dist(Beam(t - 1), Beam(t)) \in Int
    BY <1>1, <2>2 DEF Dist
  <2>4. Dist(Beam(t - 1), Beam(t)) >= granted'
    BY <2>1, <2>3
  <2>5. \A k : k = t - 1 => Beam(k)' = Beam(t - 1)
    BY <1>1, <2>2
  <2> QED BY <1>1, <1>2, <2>1, <2>4, <2>5 DEF LedIn, Dist
<1>4. CASE ~(over > 0 /\ granted' > 0 /\ HasLength(s))
  BY <1>1, <1>2, <1>4 DEF LedIn
<1> QED BY <1>3, <1>4

LEMMA StartsJumps ==
  ASSUME cmds \in Seq(Cmds), pc \in Planning, StartsInv, AddsJumps, job' = job,
         StartsBuilt' = StartsBuilt, granted \in Nat, granted' \in Nat, granted' <= granted,
         pc' = "body" /\ StartsRun' /\ over' > 0 /\ granted' > 0 /\ P0' # P1' =>
           Len(cmds') > 1 /\ Dist(cmds'[Len(cmds') - 1].to, LastTo(cmds')) >= granted'
  PROVE  StartsInv'
<1>1. MarkStarts' = MarkStarts /\ Grows
  BY JumpsKeep DEF AddsJumps
<1>2. ASSUME NEW s, NEW t, Twins(StartsBuilt, s, MarkStarts, t) PROVE LedIn(s, t)'
  <2>1. t \in 1..Len(cmds) /\ LedIn(s, t)
    BY <1>2 DEF Twins, MarkStarts, Marks, StartsInv
  <2> QED BY <1>1, <2>1, LedInStays
<1> QED BY <1>1, <1>2 DEF StartsInv, Dist, LastTo

LEMMA StartsMarks ==
  ASSUME PlanInv, ShapeInv, DwellInv, StartsInv, job.lit[i],
         pc = "body", NEW new, Body(new), AddsMarks
  PROVE  StartsInv'
<1>1. /\ cmds \in Seq(Cmds) /\ Len(cmds) \in Nat \ {0} /\ granted \in Nat /\ i \in Nat /\ PlanType
      /\ EndsMarked <=> ~StartsRun
  BY MarksShape, LenProperties, EmptySeq DEF PlanInv, PlanType, ShapeInv
<1>2. /\ job' = job /\ granted' = granted /\ pc' # "body" /\ Grows
      /\ StartsBuilt' = IF StartsRun THEN StartsBuilt \cup {i} ELSE StartsBuilt
      /\ \A j \in StartsBuilt : j < i
  BY BodyBuilds DEF Body, FinishSegment, AddsMarks
<1>3. PICK n : n = Len(cmds) + 1 /\ n \in Nat
  BY <1>1
<1>4. /\ MarkStarts' = IF StartsRun THEN MarkStarts \cup {n} ELSE MarkStarts
      /\ MarkStarts \subseteq 1..Len(cmds)
  BY <1>1, <1>3, MarksAdd DEF MarkStarts, Marks
<1>5. Cardinality(StartsBuilt) = Cardinality(MarkStarts)
  BY DEF StartsInv, Planning
<1>6. ASSUME NEW s, NEW t, Twins(StartsBuilt, s, MarkStarts, t) PROVE LedIn(s, t)'
  <2>1. t \in 1..Len(cmds) /\ LedIn(s, t)
    BY <1>4, <1>6 DEF Twins, StartsInv, Planning
  <2>2. granted' \in Nat /\ granted' <= granted
    BY <1>1, <1>2
  <2> QED BY <1>1, <1>2, <2>1, <2>2, LedInStays
<1>7. CASE ~StartsRun
  BY <1>2, <1>4, <1>5, <1>6, <1>7 DEF StartsInv
<1>8. CASE StartsRun
  <2>1. Last(StartsBuilt, i) /\ Last(MarkStarts, n)
    <3>1. \A k \in MarkStarts : k < n
      BY <1>1, <1>3, <1>4
    <3> QED BY <1>1, <1>2, <1>3, <3>1, FiniteNumbers DEF Last
  <2>2. Cardinality(StartsBuilt \cup {i}) = Cardinality(MarkStarts \cup {n})
    BY <1>5, <2>1, TwinsAdd
  <2>3. ASSUME NEW s, NEW t, Twins(StartsBuilt \cup {i}, s, MarkStarts \cup {n}, t)
        PROVE  Twins(StartsBuilt, s, MarkStarts, t) \/ (s = i /\ t = n)
    BY <1>5, <2>1, <2>3, TwinsAdd
  <2>5. ASSUME NEW s, s = i PROVE LedIn(s, n)'
    <3>1. /\ LastTo(cmds) = P0 /\ job.pts[s] = P0 /\ (HasLength(s) <=> P0 # P1)
      <4>1. ~Corner
        BY <1>8 DEF Corner, StartsRun
      <4> QED BY <2>5, <4>1 DEF ShapeInv, P0, P1, HasLength
    <3>2. /\ n # 1 /\ n - 1 = Len(cmds) /\ n - 1 \in 1..Len(cmds)
          /\ Len(cmds) > 1 => n - 1 # 1 /\ (n - 1) - 1 \in 1..Len(cmds)
      BY <1>1, <1>3
    <3>3. Beam(n)' = P0 /\ (Len(cmds) > 1 => \A k : k = n - 1 => Beam(k)' = cmds[Len(cmds) - 1].to)
      BY <1>2, <3>1, <3>2 DEF Beam, Grows, LastTo
    <3>4. over > 0 /\ granted > 0 /\ P0 # P1 =>
            Len(cmds) > 1 /\ Dist(cmds[Len(cmds) - 1].to, P0) >= granted
      BY <1>8, <3>1 DEF StartsInv, Planning
    <3>5. Len(cmds) > 1 => n > 2
      BY <1>1, <1>3
    <3>6. over' = over /\ (HasLength(s)' <=> HasLength(s)) /\ (job.pts[s])' = job.pts[s]
      BY <1>2 DEF over, HasLength
    <3> QED BY <1>2, <3>1, <3>3, <3>4, <3>5, <3>6 DEF LedIn, Dist
  <2>6. \A s, t : Twins(StartsBuilt', s, MarkStarts', t) => LedIn(s, t)'
    BY <1>2, <1>4, <1>6, <1>8, <2>3, <2>5
  <2> QED BY <1>2, <1>4, <1>8, <2>2, <2>6 DEF StartsInv
<1> QED BY <1>7, <1>8

LEMMA StartsInvariant == Spec => []StartsInv
<1>1. Init => StartsInv
  BY DEF Init, StartsInv, Planning
<1>2. PlanInv /\ ShapeInv /\ DwellInv /\ StartsInv /\ [Next]_vars => StartsInv'
  <2> SUFFICES ASSUME PlanInv, ShapeInv, DwellInv, StartsInv, [Next]_vars PROVE StartsInv'
    OBVIOUS
  <2>1. CASE CallPath \/ CallSegments \/ CallDots
    <3>1. pc' \in {"check", "refused", "dots"}
      BY <2>1 DEF CallPath, CallSegments, CallDots, Called
    <3> QED BY <3>1 DEF StartsInv, Planning
  <2>2. CASE Check
    <3>1. pc' # "body"
      BY <2>2 DEF Check
    <3> QED BY <2>2, <3>1, NothingBuilt DEF StartsInv, Twins
  <2>3. CASE RunUpCall \/ Search \/ UNCHANGED vars
    <3>1. /\ UNCHANGED <<job, cmds, granted, i>> /\ StartsBuilt' = StartsBuilt
          /\ pc' \in Planning => pc \in Planning
          /\ pc' = "body" => pc = "body"
      BY <2>3, QuietBuilds DEF Planning
    <3>2. /\ MarkStarts' = MarkStarts /\ \A s, t : LedIn(s, t)' <=> LedIn(s, t)
          /\ StartsRun' = StartsRun /\ over' = over /\ P0' = P0 /\ P1' = P1
      BY <3>1 DEF MarkStarts, Marks, IsMark, LedIn, Beam, HasLength, Dist, over, StartsRun, P0, P1
    <3> QED BY <3>1, <3>2 DEF StartsInv, LastTo, Dist
  <2>4. CASE Approach \/ RunOut
    <3>1. /\ granted \in Nat /\ granted' \in Nat /\ granted' <= granted
          /\ ~(pc' = "body" /\ StartsRun' /\ over' > 0)
      <4>1. CASE Approach
        BY <4>1 DEF Approach, StartsRun, over, PlanInv, PlanType
      <4>2. CASE RunOut
        BY <4>2, RunOutAdds DEF RunOut, RunOutStep, FinishSegment, PlanInv, PlanType
      <4> QED BY <2>4, <4>1, <4>2
    <3> QED BY <2>4, <3>1, JumpsBuild, StartsJumps
  <2>5. CASE RunUp
    <3>1. /\ granted \in Nat /\ granted' \in Nat /\ granted' <= granted /\ P0' = P0 /\ P1' = P1
      BY <2>5, RunUpAdds DEF RunUp, P0, P1, PlanInv, PlanType
    <3>2. granted' > 0 /\ P0 # P1 =>
            Len(cmds') > 1 /\ Dist(cmds'[Len(cmds') - 1].to, LastTo(cmds')) >= granted'
      BY <2>5, RunUpAdds
    <3> QED BY <2>5, <3>1, <3>2, JumpsBuild, StartsJumps
  <2>6. CASE Move
    <3>1. pc = "body" /\ ~job.lit[i] /\ cmds \in Seq(Cmds) /\ AddsJumps /\ granted \in Nat
      BY <2>6, MoveAdds DEF Move, PlanInv, PlanType
    <3>2. /\ job' = job /\ StartsBuilt' = StartsBuilt /\ granted' = granted /\ pc' # "body"
      BY <2>6, <3>1, BodyBuilds DEF Move, Body, FinishSegment, StartsRun
    <3>3. granted' \in Nat /\ granted' <= granted
      BY <3>1, <3>2
    <3> QED BY <3>1, <3>2, <3>3, StartsJumps DEF Planning
  <2>7. CASE MarkLine
    <3>1. PICK new : Body(new)
      BY <2>7 DEF MarkLine
    <3> QED BY <2>7, <3>1, MarkLineAdds, StartsMarks DEF MarkLine
  <2>8. CASE Wiggle
    <3>1. PICK new : Body(new)
      BY <2>8 DEF Wiggle, WiggleVia
    <3> QED BY <2>8, <3>1, WiggleAdds, StartsMarks DEF Wiggle
  <2>9. CASE WiggleRefused
    BY <2>9 DEF WiggleRefused, StartsInv, Planning
  <2> QED BY <2>1, <2>2, <2>3, <2>4, <2>5, <2>6, <2>7, <2>8, <2>9 DEF Next, Plan
<1> QED BY <1>1, <1>2, PlanInvariant, ShapeInvariant, PTL DEF Spec
-----------------------------------------------------------------------------
(* Where the runs end.                                                     *)
(* The mark t ends at the last point of the segment s, and a dark leg as   *)
(* long as the run-up granted follows it, or is about to.                  *)
LedOut(s, t) ==
  /\ cmds[t].to = job.pts[s + 1]
  /\ over > 0 /\ granted > 0 /\ HasLength(s) /\ ~(pc = "runout" /\ s = i) =>
       t < Len(cmds) /\ Dist(cmds[t].to, cmds[t + 1].to) >= granted

EndsInv ==
  pc \in Planning =>
    /\ Cardinality(EndsBuilt) = Cardinality(Offs)
    /\ \A s, t : Twins(EndsBuilt, s, Offs, t) => LedOut(s, t)

LEMMA LedOutStays ==
  ASSUME cmds \in Seq(Cmds), Grows, job' = job, granted \in Nat, granted' \in Nat,
         granted' <= granted, NEW s, NEW t \in 1..Len(cmds), LedOut(s, t),
         pc # "runout" \/ s # i
  PROVE  LedOut(s, t)'
<1>1. Len(cmds) \in Nat /\ Len(cmds') \in Nat /\ Len(cmds') >= Len(cmds)
  BY LenProperties DEF Grows
<1>2. \A k \in 1..Len(cmds) : cmds'[k] = cmds[k] /\ cmds[k].to \in Int
  BY BeamType DEF Grows
<1>3. over' = over /\ (HasLength(s)' <=> HasLength(s)) /\ (job.pts[s + 1])' = job.pts[s + 1]
  BY DEF over, HasLength
<1>4. CASE over > 0 /\ granted' > 0 /\ HasLength(s)
  <2>1. t < Len(cmds) /\ Dist(cmds[t].to, cmds[t + 1].to) >= granted
    BY <1>4 DEF LedOut
  <2>2. t + 1 \in 1..Len(cmds) /\ t < Len(cmds')
    BY <1>1, <2>1
  <2>3. Dist(cmds[t].to, cmds[t + 1].to) \in Int
    BY <1>2, <2>2 DEF Dist
  <2>4. Dist(cmds[t].to, cmds[t + 1].to) >= granted'
    BY <2>1, <2>3
  <2> QED BY <1>2, <1>3, <2>2, <2>4 DEF LedOut, Dist
<1>5. CASE ~(over > 0 /\ granted' > 0 /\ HasLength(s))
  BY <1>2, <1>3, <1>5 DEF LedOut
<1> QED BY <1>4, <1>5

LEMMA EndsJumps ==
  ASSUME cmds \in Seq(Cmds), pc \in Planning, pc # "runout", EndsInv, AddsJumps, job' = job,
         EndsBuilt' = EndsBuilt, granted \in Nat, granted' \in Nat, granted' <= granted
  PROVE  EndsInv'
<1>1. Offs' = Offs /\ Grows
  BY JumpsKeep DEF AddsJumps
<1>2. ASSUME NEW s, NEW t, Twins(EndsBuilt, s, Offs, t) PROVE LedOut(s, t)'
  <2>1. t \in 1..Len(cmds) /\ LedOut(s, t)
    BY <1>2 DEF Twins, Offs, EndsInv
  <2> QED BY <1>1, <2>1, LedOutStays
<1> QED BY <1>1, <1>2 DEF EndsInv

LEMMA EndsMarks ==
  ASSUME PlanInv, ShapeInv, DwellInv, EndsInv, job.lit[i],
         pc = "body", NEW new, Body(new), AddsMarks, EndsRun => LastTo(cmds') = P1
  PROVE  EndsInv'
<1>1. /\ cmds \in Seq(Cmds) /\ Len(cmds) \in Nat /\ granted \in Nat /\ i \in Nat /\ PlanType
  BY LenProperties DEF PlanInv, PlanType
<1>2. /\ job' = job /\ granted' = granted /\ Grows /\ Len(cmds') > Len(cmds)
      /\ Len(cmds') \in Nat
      /\ EndsBuilt' = IF EndsRun THEN EndsBuilt \cup {i} ELSE EndsBuilt
      /\ \A j \in EndsBuilt : j < i
  BY BodyBuilds, LenProperties DEF Body, AddsMarks, Grows
<1>3. PICK n : n = Len(cmds') /\ n \in Nat
  BY <1>2
<1>4. /\ Offs' = IF EndsRun THEN Offs \cup {n} ELSE Offs
      /\ Offs \subseteq 1..Len(cmds)
  BY <1>1, <1>3, MarksAdd DEF Offs
<1>5. Cardinality(EndsBuilt) = Cardinality(Offs)
  BY DEF EndsInv, Planning
<1>6. ASSUME NEW s, NEW t, Twins(EndsBuilt, s, Offs, t) PROVE LedOut(s, t)'
  <2>1. t \in 1..Len(cmds) /\ LedOut(s, t)
    BY <1>4, <1>6 DEF Twins, EndsInv, Planning
  <2>2. granted' \in Nat /\ granted' <= granted
    BY <1>1, <1>2
  <2> QED BY <1>1, <1>2, <2>1, <2>2, LedOutStays
<1>7. CASE ~EndsRun
  BY <1>2, <1>4, <1>5, <1>6, <1>7 DEF EndsInv
<1>8. CASE EndsRun
  <2>1. Last(EndsBuilt, i) /\ Last(Offs, n)
    <3>1. \A k \in Offs : k < n
      BY <1>1, <1>2, <1>3, <1>4
    <3> QED BY <1>1, <1>2, <1>3, <3>1, FiniteNumbers DEF Last
  <2>2. Cardinality(EndsBuilt \cup {i}) = Cardinality(Offs \cup {n})
    BY <1>5, <2>1, TwinsAdd
  <2>3. ASSUME NEW s, NEW t, Twins(EndsBuilt \cup {i}, s, Offs \cup {n}, t)
        PROVE  Twins(EndsBuilt, s, Offs, t) \/ (s = i /\ t = n)
    BY <1>5, <2>1, <2>3, TwinsAdd
  <2>4. ASSUME NEW s, s = i PROVE LedOut(s, n)'
    <3>1. cmds'[n].to = P1 /\ (job.pts[s + 1])' = P1
      BY <1>2, <1>3, <1>8, <2>4 DEF LastTo, P1
    <3>2. over' > 0 => pc' = "runout" /\ s = i'
      BY <1>2, <1>8, <2>4 DEF Body, over
    <3> QED BY <3>1, <3>2 DEF LedOut
  <2>5. \A s, t : Twins(EndsBuilt', s, Offs', t) => LedOut(s, t)'
    BY <1>2, <1>4, <1>6, <1>8, <2>3, <2>4
  <2> QED BY <1>2, <1>4, <1>8, <2>2, <2>5 DEF EndsInv
<1> QED BY <1>7, <1>8

(* The run that is being run out of is the last, and so is its mark.       *)
LEMMA RunningOut ==
  ASSUME PlanInv, ShapeInv, EndsInv, pc = "runout",
         NEW t, Twins(EndsBuilt, i, Offs, t)
  PROVE  t = Len(cmds)
<1>1. /\ Len(cmds) \in Offs /\ Cardinality(EndsBuilt) = Cardinality(Offs)
      /\ EndsBuilt \in SUBSET Nat /\ Offs \in SUBSET Nat /\ IsFiniteSet(Offs)
  BY FiniteNumbers DEF ShapeInv, EndsInv, Planning, PlanInv
<1>2. {n \in EndsBuilt : n <= i} = EndsBuilt
  BY DEF EndsBuilt, UpTo, Built
<1>3. {n \in Offs : n <= Len(cmds)} = Offs
  BY LenProperties DEF Offs, PlanInv, PlanType
<1>4. Place(EndsBuilt, i) = Cardinality(Offs) /\ Place(Offs, Len(cmds)) = Cardinality(Offs)
  BY <1>1, <1>2, <1>3 DEF Place
<1>5. t \in Offs /\ Place(Offs, t) = Place(Offs, Len(cmds))
  BY <1>4 DEF Twins
<1>6. \A k, l \in Offs : Place(Offs, k) = Place(Offs, l) => k = l
  BY <1>1, NthPlace
<1> QED BY <1>1, <1>5, <1>6

LEMMA EndsRunOut == PlanInv /\ ShapeInv /\ EndsInv /\ RunOut => EndsInv'
<1> SUFFICES ASSUME PlanInv, ShapeInv, EndsInv, RunOut PROVE EndsInv'
  OBVIOUS
<1>1. /\ AddsJumps /\ Grows /\ job' = job /\ EndsBuilt' = EndsBuilt /\ cmds \in Seq(Cmds)
      /\ pc = "runout" /\ pc' \in Planning /\ pc' # "runout" /\ granted \in Nat
  BY JumpsBuild DEF RunOut, RunOutStep, FinishSegment, Planning, AddsJumps, PlanInv, PlanType
<1>2. /\ granted' \in Nat /\ granted' <= granted
      /\ granted' > 0 /\ P0 # P1 =>
           Len(cmds') = Len(cmds) + 1 /\ Dist(P1, LastTo(cmds')) >= granted'
  BY RunOutAdds
<1>3. Offs' = Offs /\ Cardinality(EndsBuilt) = Cardinality(Offs)
  BY <1>1, JumpsKeep DEF EndsInv, Planning
<1>4. ASSUME NEW s, NEW t, Twins(EndsBuilt, s, Offs, t) PROVE LedOut(s, t)'
  <2>1. t \in 1..Len(cmds) /\ LedOut(s, t)
    BY <1>1, <1>4 DEF Twins, Offs, EndsInv, Planning
  <2>2. CASE s # i
    BY <1>1, <1>2, <2>1, <2>2, LedOutStays
  <2>3. CASE s = i
    <3>1. t = Len(cmds)
      BY <1>1, <1>4, <2>3, RunningOut
    <3>2. cmds'[t] = cmds[t] /\ cmds[t].to = P1 /\ Len(cmds) \in Nat
      BY <1>1, <2>1, <3>1, LenProperties DEF Grows, ShapeInv, LastTo
    <3>3. (job.pts[s + 1])' = P1 /\ (HasLength(s)' <=> P0 # P1)
      BY <1>1, <2>3 DEF P0, P1, HasLength
    <3>4. Len(cmds') = Len(cmds) + 1 => t < Len(cmds') /\ LastTo(cmds') = cmds'[t + 1].to
      BY <3>1, <3>2 DEF LastTo
    <3> QED BY <1>1, <1>2, <3>2, <3>3, <3>4 DEF LedOut, Dist
  <2> QED BY <2>2, <2>3
<1> QED BY <1>1, <1>3, <1>4 DEF EndsInv

LEMMA EndsInvariant == Spec => []EndsInv
<1>1. Init => EndsInv
  BY DEF Init, EndsInv, Planning
<1>2. PlanInv /\ ShapeInv /\ DwellInv /\ EndsInv /\ [Next]_vars => EndsInv'
  <2> SUFFICES ASSUME PlanInv, ShapeInv, DwellInv, EndsInv, [Next]_vars PROVE EndsInv'
    OBVIOUS
  <2>1. CASE CallPath \/ CallSegments \/ CallDots
    <3>1. pc' \in {"check", "refused", "dots"}
      BY <2>1 DEF CallPath, CallSegments, CallDots, Called
    <3> QED BY <3>1 DEF EndsInv, Planning
  <2>2. CASE Check
    BY <2>2, NothingBuilt DEF EndsInv, Twins
  <2>3. CASE RunUpCall \/ Search \/ UNCHANGED vars
    <3>1. /\ UNCHANGED <<job, cmds, granted, i>> /\ EndsBuilt' = EndsBuilt
          /\ pc' \in Planning => pc \in Planning
          /\ pc' = "runout" <=> pc = "runout"
      BY <2>3, QuietBuilds DEF Planning
    <3>2. Offs' = Offs /\ \A s, t : LedOut(s, t)' <=> LedOut(s, t)
      BY <3>1 DEF Offs, LedOut, HasLength, Dist, over
    <3> QED BY <3>1, <3>2 DEF EndsInv
  <2>4. CASE Approach \/ RunUp
    <3>1. /\ granted \in Nat /\ granted' \in Nat /\ granted' <= granted /\ pc # "runout"
      <4>1. CASE Approach
        BY <4>1 DEF Approach, PlanInv, PlanType
      <4>2. CASE RunUp
        BY <4>2, RunUpAdds DEF RunUp, PlanInv, PlanType
      <4> QED BY <2>4, <4>1, <4>2
    <3> QED BY <2>4, <3>1, JumpsBuild, EndsJumps
  <2>5. CASE RunOut
    BY <2>5, EndsRunOut
  <2>6. CASE Move
    <3>1. pc = "body" /\ ~job.lit[i] /\ cmds \in Seq(Cmds) /\ AddsJumps /\ granted \in Nat
      BY <2>6, MoveAdds DEF Move, PlanInv, PlanType
    <3>2. /\ job' = job /\ EndsBuilt' = EndsBuilt /\ granted' = granted
      BY <2>6, <3>1, BodyBuilds DEF Move, Body, EndsRun
    <3>3. granted' \in Nat /\ granted' <= granted
      BY <3>1, <3>2
    <3> QED BY <3>1, <3>2, <3>3, EndsJumps DEF Planning
  <2>7. CASE MarkLine
    <3>1. PICK new : Body(new)
      BY <2>7 DEF MarkLine
    <3> QED BY <2>7, <3>1, MarkLineAdds, EndsMarks DEF MarkLine
  <2>8. CASE Wiggle
    <3>1. PICK new : Body(new)
      BY <2>8 DEF Wiggle, WiggleVia
    <3> QED BY <2>8, <3>1, WiggleAdds, EndsMarks DEF Wiggle
  <2>9. CASE WiggleRefused
    BY <2>9 DEF WiggleRefused, EndsInv, Planning
  <2> QED BY <2>1, <2>2, <2>3, <2>4, <2>5, <2>6, <2>7, <2>8, <2>9 DEF Next, Plan
<1> QED BY <1>1, <1>2, PlanInvariant, ShapeInvariant, PTL DEF Spec

-----------------------------------------------------------------------------
(* A plan that is done marks run for run what was asked for.               *)
LEMMA RunsMatched ==
  ASSUME PlanInv, ShapeInv, DwellInv, StartsInv, EndsInv, pc = "done"
  PROVE  /\ Cardinality(MarkStarts) = Cardinality(RunStarts)
         /\ Cardinality(MarkEnds) = Cardinality(RunEnds)
         /\ \A r \in 1..Cardinality(RunStarts) : LedIn(Nth(RunStarts, r), Nth(MarkStarts, r))
         /\ \A r \in 1..Cardinality(RunEnds) : LedOut(Nth(RunEnds, r), Nth(MarkEnds, r))
<1>1. StartsBuilt = RunStarts /\ EndsBuilt = RunEnds
  BY AllBuilt
<1>2. Offs = MarkEnds
  <2>1. Dwelt /\ ~EndsOpen /\ Len(cmds) \in Nat
    BY LenProperties DEF DwellInv, ShapeInv, Planning, PlanInv, PlanType
  <2>2. Offs \subseteq 1..Len(cmds) /\ Marks \subseteq 1..Len(cmds)
    BY DEF Offs, Marks
  <2>3. ASSUME NEW k \in 1..Len(cmds) PROVE k \in Offs <=> k \in Marks /\ k + 1 \notin Marks
    <3>1. k \in 1..Len(cmds) - 1 \/ (k = Len(cmds) /\ k + 1 \notin 1..Len(cmds))
      BY <2>1
    <3> QED BY <2>1, <2>2, <3>1 DEF Dwelt, EndsOpen
  <2> QED BY <2>2, <2>3 DEF MarkEnds, IsMark
<1>3. /\ RunStarts \in SUBSET Nat /\ IsFiniteSet(RunStarts)
      /\ RunEnds \in SUBSET Nat /\ IsFiniteSet(RunEnds)
      /\ MarkStarts \in SUBSET Nat /\ IsFiniteSet(MarkStarts)
      /\ MarkEnds \in SUBSET Nat /\ IsFiniteSet(MarkEnds)
  BY <1>2, FiniteNumbers DEF PlanInv
<1>4. /\ Cardinality(RunStarts) = Cardinality(MarkStarts)
      /\ Cardinality(RunEnds) = Cardinality(MarkEnds)
      /\ \A s, t : Twins(RunStarts, s, MarkStarts, t) => LedIn(s, t)
      /\ \A s, t : Twins(RunEnds, s, MarkEnds, t) => LedOut(s, t)
  BY <1>1, <1>2 DEF StartsInv, EndsInv, Planning
<1>5. \A r \in 1..Cardinality(RunStarts) :
        Twins(RunStarts, Nth(RunStarts, r), MarkStarts, Nth(MarkStarts, r))
  BY <1>3, <1>4, NthTwins
<1>6. \A r \in 1..Cardinality(RunEnds) :
        Twins(RunEnds, Nth(RunEnds, r), MarkEnds, Nth(MarkEnds, r))
  BY <1>3, <1>4, NthTwins
<1> QED BY <1>4, <1>5, <1>6

(* On every path, wiggled or not, the beam is lit run by run, and each run *)
(* begins and ends exactly on its end points.                              *)
THEOREM RunsKeepTheirPoints == Spec => []RunsEndOnTheirPoints
<1>1. PlanInv /\ ShapeInv /\ DwellInv /\ StartsInv /\ EndsInv => RunsEndOnTheirPoints
  BY RunsMatched DEF RunsEndOnTheirPoints, LedIn, LedOut
<1> QED BY <1>1, PlanInvariant, ShapeInvariant, StartsInvariant, EndsInvariant, PTL

(* The run-up that is reported is there at both ends of every lit run,     *)
(* however many segments were granted less than was asked for.             *)
THEOREM GrantedIsThere == Spec => []GrantedAtEveryRun
<1>1. PlanInv /\ ShapeInv /\ DwellInv /\ StartsInv /\ EndsInv => GrantedAtEveryRun
  BY RunsMatched DEF GrantedAtEveryRun, LedIn, LedOut
<1> QED BY <1>1, PlanInvariant, ShapeInvariant, StartsInvariant, EndsInvariant, PTL
-----------------------------------------------------------------------------
(* Time.  A rounded quotient is within half of the exact one.              *)
LEMMA DivideNat ==
  ASSUME NEW n \in Nat, NEW d \in Nat \ {0}
  PROVE  n \div d \in Nat /\ d * (n \div d) <= n /\ n < d * (n \div d) + d
  OBVIOUS

LEMMA RoundedNear ==
  ASSUME NEW a \in Nat, NEW b \in Nat \ {0}
  PROVE  /\ Rounded(a, b) \in Nat
         /\ 2 * (b * Rounded(a, b)) <= 2 * a + b /\ 2 * a + b < 2 * (b * Rounded(a, b)) + 2 * b
<1> DEFINE n == 2 * a + b
           q == n \div (2 * b)
<1>1. n \in Nat /\ 2 * b \in Nat \ {0}
  OBVIOUS
<1>2. q \in Nat /\ (2 * b) * q <= n /\ n < (2 * b) * q + 2 * b
  <2> HIDE DEF n
  <2> QED BY <1>1, DivideNat
<1> HIDE DEF q
<1>3. (2 * b) * q = 2 * (b * q)
  BY <1>2
<1>4. Rounded(a, b) = q
  BY DEF Rounded, q
<1> QED BY <1>2, <1>3, <1>4

LEMMA Cancel ==
  ASSUME NEW t \in Nat \ {0}, NEW x \in Int, NEW y \in Int
  PROVE  (t * x <= t * y => x <= y) /\ (t * x < t * y => x < y)
  OBVIOUS

(* The shares of a duration add up to it, but for the rounding.            *)
LEMMA SharesAddUp ==
  ASSUME NEW R \in Nat, NEW d \in Nat, NEW e \in Nat, d + e > 0
  PROVE  /\ Rounded(R * d, d + e) \in 0..R /\ Rounded(R * e, d + e) \in 0..R
         /\ Rounded(R * d, d + e) + Rounded(R * e, d + e) \in {R, R + 1}
<1> DEFINE t == d + e
           q == Rounded(R * d, t)
           r == Rounded(R * e, t)
           x == R * d
           y == R * e
<1>1. t \in Nat \ {0} /\ x \in Nat /\ y \in Nat /\ t * R = x + y
  OBVIOUS
<1>2. /\ q \in Nat /\ 2 * (t * q) <= 2 * x + t /\ 2 * x + t < 2 * (t * q) + 2 * t
      /\ r \in Nat /\ 2 * (t * r) <= 2 * y + t /\ 2 * y + t < 2 * (t * r) + 2 * t
  <2> HIDE DEF t, x, y
  <2> QED BY <1>1, RoundedNear DEF x, y
<1> HIDE DEF t, q, r, x, y
<1>3. /\ t * (2 * q) = 2 * (t * q) /\ t * (2 * r) = 2 * (t * r)
      /\ t * (2 * R + 1) = 2 * (t * R) + t
      /\ t * (q + r) = t * q + t * r /\ t * (R + 1) = t * R + t
      /\ t * (q + r + 2) = t * q + t * r + 2 * t
  BY <1>1, <1>2
<1>4. t * q \in Nat /\ t * r \in Nat /\ t * R \in Nat
  BY <1>1, <1>2
<1>5. t * (2 * q) <= t * (2 * R + 1) /\ t * (2 * r) <= t * (2 * R + 1)
  BY <1>1, <1>2, <1>3, <1>4
<1>6. t * (q + r) <= t * (R + 1) /\ t * (R + 1) < t * (q + r + 2)
  BY <1>1, <1>2, <1>3, <1>4
<1>7. 2 * q <= 2 * R + 1 /\ 2 * r <= 2 * R + 1
  BY <1>1, <1>2, <1>5, Cancel
<1>8. q + r <= R + 1 /\ R + 1 < q + r + 2
  BY <1>1, <1>2, <1>6, Cancel
<1>9. q \in 0..R /\ r \in 0..R /\ q + r \in {R, R + 1}
  BY <1>2, <1>7, <1>8
<1> QED BY <1>9 DEF q, r, t, x, y

(* The two ways a wiggle is timed.                                         *)
LEMMA SharesKeepTime ==
  ASSUME job \in JobSet, P0 \in Int, NEW chain \in Seq(Int), Len(chain) \in {1, 2},
         ~job.opts.feed, Traced(chain) > 0
  PROVE  Dist(Sub(chain, 1) + (IF Len(chain) = 2 THEN Sub(chain, 2) ELSE 0), RawUs) <= Len(chain)
<1>1. /\ RawUs \in Nat /\ RawUs <= MaxUs /\ MaxUs \in Nat \ {0}
  BY SpeedAssumption
<1>2. \A u \in 0..RawUs : Clamp(u) = IF u = 0 THEN 1 ELSE u
  BY <1>1 DEF Clamp
<1>3. \A k \in 1..Len(chain) : chain[k] \in Int
  OBVIOUS
<1>4. CASE Len(chain) = 1
  <2> DEFINE d == Dist(P0, chain[1])
             q == Rounded(RawUs * d, d)
  <2>1. Traced(chain) = d /\ Prev(chain, 1) = P0 /\ d \in Nat /\ d > 0
    BY <1>3, <1>4 DEF Traced, Prev, Dist
  <2>2. Sub(chain, 1) = Clamp(q)
    BY <2>1 DEF Sub
  <2> HIDE DEF d
  <2>3. q = RawUs
    <3>1. /\ q \in 0..RawUs
          /\ q + Rounded(RawUs * 0, d) \in {RawUs, RawUs + 1}
      <4>1. ASSUME NEW e \in Nat, d + e > 0
            PROVE  /\ Rounded(RawUs * d, d + e) \in 0..RawUs
                   /\ Rounded(RawUs * d, d + e) + Rounded(RawUs * e, d + e) \in {RawUs, RawUs + 1}
        BY <1>1, <2>1, <4>1, SharesAddUp
      <4>2. 0 \in Nat /\ d + 0 > 0 /\ d + 0 = d
        BY <2>1
      <4>3. /\ Rounded(RawUs * d, d + 0) \in 0..RawUs
            /\ Rounded(RawUs * d, d + 0) + Rounded(RawUs * 0, d + 0) \in {RawUs, RawUs + 1}
        BY ONLY <4>1, <4>2
      <4> QED BY <4>2, <4>3
    <3>2. Rounded(RawUs * 0, d) = 0
      BY <1>1, <2>1 DEF Rounded
    <3> QED BY <1>1, <3>1, <3>2
  <2> HIDE DEF q
  <2> QED BY <1>1, <1>2, <1>4, <2>2, <2>3 DEF Dist
<1>5. CASE Len(chain) = 2
  <2> DEFINE d == Dist(P0, chain[1])
             e == Dist(chain[1], chain[2])
             q == Rounded(RawUs * d, d + e)
             r == Rounded(RawUs * e, d + e)
  <2>1. /\ Traced(chain) = d + e /\ Prev(chain, 1) = P0 /\ Prev(chain, 2) = chain[1]
        /\ d \in Nat /\ e \in Nat /\ d + e > 0
    BY <1>3, <1>5 DEF Traced, Prev, Dist
  <2>2. Sub(chain, 1) = Clamp(q) /\ Sub(chain, 2) = Clamp(r)
    BY <2>1 DEF Sub
  <2> HIDE DEF d, e
  <2>3. q \in 0..RawUs /\ r \in 0..RawUs /\ q + r \in {RawUs, RawUs + 1}
    BY <1>1, <2>1, SharesAddUp
  <2> HIDE DEF q, r
  <2> QED BY <1>1, <1>2, <1>5, <2>2, <2>3 DEF Dist
<1> QED BY <1>4, <1>5

LEMMA WiggleTimed == PlanInv /\ Wiggle => KeepsTime
<1> SUFFICES ASSUME PlanInv, Wiggle PROVE KeepsTime
  OBVIOUS
<1>1. PICK chain \in Chains :
        /\ chain \in Seq(Int) /\ Len(chain) \in {1, 2} /\ Len(cmds') = Len(cmds) + Len(chain)
        /\ \A k \in 1..Len(chain) :
             cmds'[Len(cmds) + k].to = chain[k] /\ cmds'[Len(cmds) + k].us = Sub(chain, k)
  BY WiggleAdds
<1>2. /\ cmds \in Seq(Cmds) /\ Len(cmds) \in Nat /\ cmds' \in Seq(Cmds) /\ Len(cmds') \in Nat
      /\ job \in JobSet /\ P0 \in Int
  BY WiggleAdds, SegmentPoints, LenProperties, FullAssumption
     DEF AddsMarks, Grows, PlanInv, PlanType, Working, Wiggle, Travel
<1>3. /\ Len(Added) = Len(chain)
      /\ \A k \in 1..Len(chain) : Added[k].to = chain[k] /\ Added[k].us = Sub(chain, k)
  <2>1. Added = [k \in 1..Len(chain) |-> cmds'[Len(cmds) + k]]
    <3>1. Added = [k \in 1..Len(cmds') - (Len(cmds) + 1) + 1 |-> cmds'[k + (Len(cmds) + 1) - 1]]
      BY <1>2 DEF Added
    <3>2. /\ Len(cmds') - (Len(cmds) + 1) + 1 = Len(chain)
          /\ \A k \in 1..Len(chain) : k + (Len(cmds) + 1) - 1 = Len(cmds) + k
      BY <1>1, <1>2
    <3> QED BY <3>1, <3>2
  <2>2. Len(chain) \in Nat
    BY <1>1
  <2> HIDE DEF Added
  <2> QED BY <1>1, <2>1, <2>2
<1>4. [k \in 1..Len(Added) |-> Added[k].to] = chain
  <2>1. chain = [k \in 1..Len(chain) |-> chain[k]]
    BY <1>1
  <2>2. \A k \in 1..Len(chain) : Added[k].to = chain[k]
    BY <1>3
  <2> QED BY <1>3, <2>1, <2>2
<1>5. CASE job.opts.feed
  <2> SUFFICES ASSUME NEW k \in 1..Len(chain), k > 1 \/ cmds[Len(cmds)].to = P0
               PROVE  Added[k].us =
                        Duration(IF k = 1 THEN cmds[Len(cmds)].to ELSE chain[k - 1], chain[k])
    BY <1>3, <1>4, <1>5 DEF KeepsTime
  <2>1. Added[k].us = Duration(Prev(chain, k), chain[k])
    BY <1>3, <1>5 DEF Sub
  <2> QED BY <2>1 DEF Prev
<1>6. CASE ~job.opts.feed
  <2> SUFFICES ASSUME Traced(chain) > 0
               PROVE  Dist(Added[1].us + (IF Len(chain) = 2 THEN Added[2].us ELSE 0), RawUs)
                        <= Len(chain)
    BY <1>3, <1>4, <1>6 DEF KeepsTime
  <2>1. Added[1].us = Sub(chain, 1) /\ (Len(chain) = 2 => Added[2].us = Sub(chain, 2))
    BY <1>1, <1>3
  <2>2. Dist(Sub(chain, 1) + (IF Len(chain) = 2 THEN Sub(chain, 2) ELSE 0), RawUs) <= Len(chain)
    BY <1>1, <1>2, <1>6, SharesKeepTime
  <2> QED BY <2>1, <2>2
<1> QED BY <1>5, <1>6

(* Whatever its circles, a wiggled segment with a raw duration takes the   *)
(* time asked for, give or take the rounding of each vector; at a feed     *)
(* rate each vector is timed for the counts between the rounded points.    *)
THEOREM WigglesKeepTime == Spec => WiggleKeepsTime
<1>1. PlanInv /\ [Next]_vars => [Wiggle => KeepsTime]_vars
  BY WiggleTimed
<1> QED BY <1>1, PlanInvariant, PTL DEF Spec, WiggleKeepsTime
=============================================================================
