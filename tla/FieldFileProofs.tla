-------------------------- MODULE FieldFileProofs --------------------------
(* The shared markcfg0 and the geometry of a field, for every set of       *)
(* processes, fields and points.                                           *)
EXTENDS FieldFile, TLAPS

FieldType ==
  [size : Nat, offset : Pairs, aspect : Pairs, negate : BOOLEAN \X BOOLEAN,
   swap : BOOLEAN, fine : BOOLEAN]

-----------------------------------------------------------------------------
(* The geometry.                                                           *)
LEMMA Divide ==
  ASSUME NEW n \in Nat, NEW d \in Nat \ {0}
  PROVE  n \div d \in Nat /\ d * (n \div d) <= n /\ n < d * (n \div d) + d
  OBVIOUS

LEMMA Rounding ==
  ASSUME NEW n \in Int, NEW d \in Nat \ {0}
  PROVE  /\ Rounded(n, d) \in Int
         /\ 2 * (Rounded(n, d) * d - n) <= d
         /\ -2 * (Rounded(n, d) * d - n) <= d
<1>1. CASE n >= 0
  <2> DEFINE a == 2 * n + d
             q == a \div (2 * d)
  <2>1. a \in Nat /\ 2 * d \in Nat \ {0}
    BY <1>1
  <2>2. q \in Nat /\ (2 * d) * q <= a /\ a < (2 * d) * q + 2 * d
    <3> HIDE DEF a
    <3> QED BY <2>1, Divide
  <2> HIDE DEF q
  <2>3. (2 * d) * q = 2 * (q * d) /\ q * d \in Nat
    BY <2>2
  <2>4. Rounded(n, d) = q
    BY <1>1 DEF Rounded, q
  <2> DEFINE x == q * d
  <2>5. x \in Nat /\ 2 * x <= 2 * n + d /\ 2 * n + d < 2 * x + 2 * d
    BY <2>2, <2>3
  <2> HIDE DEF x
  <2>6. 2 * (x - n) <= d /\ -2 * (x - n) <= d
    BY <2>5
  <2> QED BY <2>2, <2>4, <2>6 DEF x
<1>2. CASE n < 0
  <2> DEFINE a == d - 2 * n
             q == a \div (2 * d)
  <2>1. a \in Nat /\ 2 * d \in Nat \ {0}
    BY <1>2
  <2>2. q \in Nat /\ (2 * d) * q <= a /\ a < (2 * d) * q + 2 * d
    <3> HIDE DEF a
    <3> QED BY <2>1, Divide
  <2> HIDE DEF q
  <2>3. (2 * d) * q = 2 * (q * d) /\ q * d \in Nat /\ (-q) * d = -(q * d)
    BY <2>2
  <2>4. Rounded(n, d) = -q
    BY <1>2 DEF Rounded, q
  <2> DEFINE x == q * d
  <2>5. x \in Nat /\ 2 * x <= d - 2 * n /\ d - 2 * n < 2 * x + 2 * d
    BY <2>2, <2>3
  <2>6. Rounded(n, d) * d = -x
    BY <2>3, <2>4
  <2> HIDE DEF x
  <2>7. 2 * (-x - n) <= d /\ -2 * (-x - n) <= d
    BY <2>5
  <2> QED BY <2>2, <2>4, <2>6, <2>7
<1> QED BY <1>1, <1>2

(* One axis: what is taken off the count is what was put on.               *)
LEMMA AxisBack ==
  ASSUME NEW d \in Nat \ {0}, NEW c \in Int, NEW move \in Int, NEW mirror \in BOOLEAN,
         NEW g \in Int,
         g = IF mirror THEN Full * d - (Centre * d + move) ELSE Centre * d + move,
         2 * (c * d - g) <= d, -2 * (c * d - g) <= d
  PROVE  LET u   == IF mirror THEN Full - c ELSE c
             off == (u - Centre) * d - move
         IN  2 * off <= d /\ -2 * off <= d
<1>1. CASE mirror
  <2>1. ((Full - c) - Centre) * d = Full * d - c * d - Centre * d
    BY DEF Full, Centre
  <2> QED BY <1>1, <2>1 DEF Full, Centre
<1>2. CASE ~mirror
  <2>1. (c - Centre) * d = c * d - Centre * d
    BY DEF Centre
  <2> QED BY <1>2, <2>1 DEF Full, Centre
<1> QED BY <1>1, <1>2

Move(f, at, i) == (at[i] - f.offset[i]) * f.aspect[i] * 2 * Half
Axis(f, at, i) == IF f.negate[i] THEN Full * Den(f) - (Centre * Den(f) + Move(f, at, i))
                                 ELSE Centre * Den(f) + Move(f, at, i)

LEMMA FieldParts ==
  ASSUME NEW f \in FieldType, f.size > 0, NEW at \in Pairs
  PROVE  /\ Den(f) \in Nat \ {0}
         /\ f.swap \in BOOLEAN
         /\ \A i \in Axes :
              /\ f.negate[i] \in BOOLEAN /\ f.aspect[i] \in Int /\ f.offset[i] \in Int
              /\ at[i] \in Int
              /\ Move(f, at, i) \in Int /\ Axis(f, at, i) \in Int
<1>1. f.size \in Nat /\ f.swap \in BOOLEAN
  BY DEF FieldType
<1>2. Den(f) \in Nat \ {0}
  BY <1>1 DEF Den, Span
<1>3. ASSUME NEW i \in Axes
      PROVE  /\ f.negate[i] \in BOOLEAN /\ f.aspect[i] \in Int /\ f.offset[i] \in Int
             /\ at[i] \in Int
  BY DEF FieldType, Pairs, Axes
<1>4. ASSUME NEW i \in Axes PROVE Move(f, at, i) \in Int
  <2> DEFINE x == at[i] - f.offset[i]
             y == f.aspect[i]
  <2>1. x \in Int /\ y \in Int /\ Half \in Int
    BY <1>3 DEF Half, Full
  <2> HIDE DEF x, y
  <2>2. x * y * 2 * Half \in Int
    BY <2>1
  <2> QED BY <2>2 DEF Move, x, y
<1>5. ASSUME NEW i \in Axes PROVE Axis(f, at, i) \in Int
  BY <1>2, <1>4, <1>3 DEF Axis, Full, Centre
<1> QED BY <1>1, <1>2, <1>3, <1>4, <1>5

(* The galvo's axes are the field's, or the other way round.               *)
LEMMA GalvoAxes ==
  ASSUME NEW f \in FieldType, f.size > 0, NEW at \in Pairs
  PROVE  /\ ~f.swap => Galvo(f, at)[1] = Axis(f, at, 1) /\ Galvo(f, at)[2] = Axis(f, at, 2)
         /\ f.swap  => Galvo(f, at)[1] = Axis(f, at, 2) /\ Galvo(f, at)[2] = Axis(f, at, 1)
  BY DEF Galvo, Swapped, Axis, Move, Axes

LEMMA ThereAndBack ==
  ASSUME NEW f \in FieldType, f.size > 0, NEW at \in Pairs
  PROVE  ComesBack(f, at)
<1> DEFINE d == Den(f)
           counts == ToCounts(f, at, FALSE)
           c(i)   == Rounded(Galvo(f, at)[i], d)
           k(i)   == IF f.swap THEN c(3 - i) ELSE c(i)
<1> SUFFICES ASSUME counts # Outside
             PROVE  Near(f, at, counts) /\ counts = ToCounts(f, at, TRUE)
  BY DEF ComesBack
<1>1. /\ d \in Nat \ {0} /\ f.swap \in BOOLEAN
      /\ \A i \in Axes :
           /\ f.negate[i] \in BOOLEAN /\ f.aspect[i] \in Int /\ f.offset[i] \in Int
           /\ at[i] \in Int
           /\ Move(f, at, i) \in Int /\ Axis(f, at, i) \in Int
  BY FieldParts
<1>2. \A i \in Axes : Galvo(f, at)[i] \in Int
  BY <1>1, GalvoAxes DEF Axes
<1>3. \A i \in Axes : c(i) \in Int
  BY <1>1, <1>2, Rounding
<1>4. counts = <<Clamped(c(1)), Clamped(c(2))>> /\ \A i \in Axes : Fits(c(i))
  BY DEF ToCounts, Axes
<1>5. counts = <<c(1), c(2)>>
  <2>1. \A x \in Int : Fits(x) => Clamped(x) = x
    BY DEF Fits, Clamped, Full
  <2> HIDE DEF c, counts
  <2>2. Clamped(c(1)) = c(1) /\ Clamped(c(2)) = c(2)
    BY <1>3, <1>4, <2>1 DEF Axes
  <2> QED BY <1>4, <2>2
<1>6. counts = ToCounts(f, at, TRUE)
  BY <1>4 DEF ToCounts, Axes
<1>7. ASSUME NEW i \in Axes
      PROVE  /\ k(i) \in Int
             /\ 2 * (k(i) * d - Axis(f, at, i)) <= d /\ -2 * (k(i) * d - Axis(f, at, i)) <= d
  <2> DEFINE j == IF f.swap THEN 3 - i ELSE i
  <2>1. j \in Axes /\ k(i) = c(j)
    BY <1>1 DEF Axes
  <2>2. Galvo(f, at)[j] = Axis(f, at, i)
    BY <1>1, GalvoAxes DEF Axes
  <2>3. Galvo(f, at)[j] \in Int
    BY <1>2, <2>1
  <2> HIDE DEF d, j
  <2>4. /\ c(j) \in Int
        /\ 2 * (c(j) * d - Galvo(f, at)[j]) <= d /\ -2 * (c(j) * d - Galvo(f, at)[j]) <= d
    BY <1>1, <2>3, Rounding
  <2> HIDE DEF c, k
  <2> QED BY <2>1, <2>2, <2>4
<1>8. ASSUME NEW i \in Axes
      PROVE  Unturned(f, counts)[i] = IF f.negate[i] THEN Full - k(i) ELSE k(i)
  <2>1. Swapped(f, counts)[i] = k(i)
    <3> HIDE DEF c, counts
    <3>1. counts[1] = c(1) /\ counts[2] = c(2)
      BY <1>5
    <3>2. CASE f.swap
      BY <3>1, <3>2 DEF Swapped, Axes
    <3>3. CASE ~f.swap
      BY <3>1, <3>3 DEF Swapped, Axes
    <3> QED BY <3>2, <3>3
  <2> HIDE DEF k, counts
  <2> QED BY <2>1 DEF Unturned
<1>9. ASSUME NEW i \in Axes
      PROVE  LET off == ToMm(f, counts)[i] - at[i] * ToMmDen(f, i)
             IN  2 * off <= d /\ -2 * off <= d
  <2> DEFINE u   == Unturned(f, counts)[i]
             off == ToMm(f, counts)[i] - at[i] * ToMmDen(f, i)
             m   == Move(f, at, i)
             g   == Axis(f, at, i)
             back == (u - Centre) * d - m
  <2>1. u = IF f.negate[i] THEN Full - k(i) ELSE k(i)
    BY <1>8
  <2>2. g = IF f.negate[i] THEN Full * d - (Centre * d + m) ELSE Centre * d + m
    BY DEF Axis
  <2>3. m \in Int /\ g \in Int /\ f.negate[i] \in BOOLEAN /\ k(i) \in Int
    BY <1>1, <1>7
  <2>4. 2 * (k(i) * d - g) <= d /\ -2 * (k(i) * d - g) <= d
    BY <1>7
  <2>5. 2 * back <= d /\ -2 * back <= d
    <3> HIDE DEF d, k, m, g, u
    <3> QED BY <1>1, <2>1, <2>2, <2>3, <2>4, AxisBack
  <2>6. off = back
    <3> DEFINE p == at[i]
               o == f.offset[i]
               a == f.aspect[i]
               h == Half
               t == ToMmDen(f, i)
    <3>1. off = ((u - Centre) * d + o * t) - p * t
      <4> HIDE DEF counts, t
      <4>1. ToMm(f, counts)[i] = (u - Centre) * d + o * t
        BY DEF ToMm, t
      <4>2. off = ToMm(f, counts)[i] - p * t
        BY DEF t
      <4> HIDE DEF u, d, o, p, off
      <4> QED BY <4>1, <4>2
    <3>2. m = (p - o) * a * 2 * h
      BY DEF Move
    <3>3. t = 2 * h * a
      BY DEF ToMmDen
    <3>4. p \in Int /\ o \in Int /\ a \in Int /\ h \in Int /\ u \in Int /\ d \in Int
      <4>1. p \in Int /\ o \in Int /\ a \in Int /\ h \in Int
        BY <1>1 DEF Half, Full
      <4> HIDE DEF u, d, k
      <4>2. u \in Int /\ d \in Int
        BY <1>1, <2>1, <2>3 DEF Full
      <4> QED BY <4>1, <4>2
    <3> HIDE DEF p, o, a, h, t, u, d, m, off
    <3>5. o * t - p * t = -((p - o) * a * 2 * h)
      BY <3>4, <3>3
    <3>6. (u - Centre) * d \in Int /\ m \in Int
      BY <3>4, <2>3 DEF Centre
    <3>7. o * t \in Int /\ p * t \in Int
      BY <3>4, <3>3
    <3> DEFINE r == (u - Centre) * d
               v == o * t
               w == p * t
    <3> HIDE DEF r, v, w
    <3>8. off = r + v - w /\ v - w = -m /\ r \in Int /\ v \in Int /\ w \in Int
      BY <3>1, <3>2, <3>5, <3>6, <3>7 DEF r, v, w
    <3>9. off = r - m
      BY <3>6, <3>8
    <3> QED BY <3>9 DEF r
  <2> QED BY <2>5, <2>6
<1> QED BY <1>6, <1>9 DEF Near

-----------------------------------------------------------------------------
(* Types.                                                                  *)
LEMMA BlankTyped == Blank \in Factors /\ \A f \in Factors : Printed(f) \in Factors
  BY BlankAssumption, PrintedAssumption

LEMMA TextTyped ==
  ASSUME NEW t, t \in {Absent, Empty} \cup Texts, t # Absent
  PROVE  Parsed(t) \in Factors
  BY BlankAssumption DEF Parsed, Texts

LEMMA OthersTyped == \A t : Others(t) \in BOOLEAN
<1> SUFFICES ASSUME NEW t PROVE Others(t) \in BOOLEAN
  OBVIOUS
<1>1. CASE t \in Texts
  BY <1>1 DEF Others, Texts
<1>2. CASE t \notin Texts
  BY <1>2 DEF Others
<1> QED BY <1>1, <1>2

LEMMA WholeTyped ==
  ASSUME TypeOK, NEW p \in Procs
  PROVE  /\ Whole(p) \in Texts /\ Mixtures(p) \subseteq Texts
         /\ Whole(p).others = seen[p] /\ Whole(p).factors = Printed(out[p])
<1>1. seen[p] \in BOOLEAN /\ out[p] \in Factors
  BY DEF TypeOK
<1>2. Whole(p) \in Texts /\ Whole(p).others = seen[p] /\ Whole(p).factors = Printed(out[p])
  BY <1>1, BlankTyped DEF Whole, Texts
<1>3. (seen[p] \/ Others(file)) \in BOOLEAN
  BY <1>1, OthersTyped
<1>4. Mixtures(p) \subseteq Texts
  BY <1>1, <1>2, <1>3 DEF Mixtures, Texts
<1> QED BY <1>2, <1>4

LEMMA CutTyped ==
  ASSUME TypeOK, NEW p \in Procs, Cut(p)
  PROVE  /\ file' \in {Absent, Empty} \cup Texts
         /\ unsure' = TRUE /\ mishaps' \subseteq Mishaps /\ "cut" \in mishaps'
         /\ last' = last /\ kept' = kept
<1>1. seen[p] \in BOOLEAN
  BY DEF TypeOK
<1>2. file' \in {Absent, Empty} \cup Texts
  BY <1>1 DEF Cut, Texts
<1>3. mishaps' = mishaps \cup {"cut"}
  BY DEF Cut
<1> QED BY <1>2, <1>3 DEF Cut, TypeOK, Mishaps

LEMMA ForgetTyped ==
  ASSUME TypeOK, NEW p \in Procs, Forget(p)
  PROVE  /\ out' \in [Procs -> Factors] /\ seen' \in [Procs -> BOOLEAN]
         /\ making' \in [Procs -> BOOLEAN] /\ early' \in [Procs -> BOOLEAN]
  BY BlankTyped DEF Forget, TypeOK

LEMMA TypeInit == Init => TypeOK
<1> SUFFICES ASSUME Init PROVE TypeOK
  OBVIOUS
<1>1. file \in {Absent} \cup Texts
  BY DEF Init
<1>2. last \in Factors \cup {None}
  BY <1>1 DEF Init, Texts
<1>3. kept \in BOOLEAN
  BY OthersTyped DEF Init
<1> QED BY <1>1, <1>2, <1>3, BlankTyped DEF Init, TypeOK, Steps

LEMMA TypeStep == TypeOK /\ [Next]_vars => TypeOK'
<1> SUFFICES ASSUME TypeOK, [Next]_vars PROVE TypeOK'
  OBVIOUS
<1> USE DEF Goto, At
<1> DEFINE Base == /\ file' \in {Absent, Empty} \cup Texts
                   /\ pc' \in [Procs -> Steps]
                   /\ held' \in [Procs -> Factors \cup {None}]
                   /\ created' \in [Procs -> BOOLEAN]
           Locals == /\ out' \in [Procs -> Factors] /\ seen' \in [Procs -> BOOLEAN]
                     /\ making' \in [Procs -> BOOLEAN] /\ early' \in [Procs -> BOOLEAN]
           Past == /\ last' \in Factors \cup {None} /\ unsure' \in BOOLEAN
                   /\ kept' \in BOOLEAN /\ mishaps' \subseteq Mishaps
<1> SUFFICES Base /\ Locals /\ Past
  BY DEF TypeOK
<1>0. UNCHANGED <<last, unsure, kept, mishaps>> => Past
  BY DEF TypeOK
<1>1. CASE UNCHANGED vars
  BY <1>1 DEF vars, own, history, TypeOK
<1> SUFFICES ASSUME NEW p \in Procs, Step(p) PROVE Base /\ Locals /\ Past
  BY <1>1 DEF Next
<1>2. CASE CallCreate(p)
  <2>1. Base
    BY <1>2 DEF CallCreate, TypeOK, Steps
  <2>2. Locals
    BY <1>2, BlankAssumption DEF CallCreate, history, TypeOK
  <2> QED BY <1>0, <1>2, <2>1, <2>2 DEF CallCreate, history
<1>3. CASE Stat(p)
  <2>1. Base
    BY <1>3 DEF Stat, Look, TypeOK, Steps
  <2>2. (last = None) \in BOOLEAN /\ (file = Absent) \in BOOLEAN
    OBVIOUS
  <2>3. Locals
    BY <1>3, <2>2 DEF Stat, Look, TypeOK
  <2>4. mishaps' \subseteq Mishaps
    BY <1>3 DEF Stat, TypeOK, Mishaps
  <2> QED BY <1>3, <2>1, <2>3, <2>4 DEF Stat, Look, TypeOK
<1>4. CASE CallLoad(p)
  <2>1. Base
    BY <1>4 DEF CallLoad, TypeOK, Steps
  <2>2. Locals
    BY <1>4 DEF CallLoad, history, TypeOK
  <2> QED BY <1>0, <1>4, <2>1, <2>2 DEF CallLoad, history
<1>5. CASE Load(p)
  <2>1. file # Absent => Parsed(file) \in Factors
    BY TextTyped DEF TypeOK
  <2>2. held' \in [Procs -> Factors \cup {None}] /\ created' \in [Procs -> BOOLEAN]
    BY <1>5, <2>1 DEF Load, TypeOK
  <2>3. Base
    BY <1>5, <2>2 DEF Load, TypeOK, Steps
  <2> QED BY <1>0, <1>5, <2>3, ForgetTyped DEF Load
<1>6. CASE Set(p)
  <2>1. Base
    BY <1>6 DEF Set, TypeOK
  <2> QED BY <1>0, <1>6, <2>1 DEF Set, history, TypeOK
<1>7. CASE CallSave(p)
  <2>1. Base
    BY <1>7 DEF CallSave, TypeOK, Steps
  <2>2. Locals
    BY <1>7 DEF CallSave, history, TypeOK
  <2> QED BY <1>0, <1>7, <2>1, <2>2 DEF CallSave, history
<1>8. CASE Read(p)
  <2>1. Base
    BY <1>8 DEF Read, TypeOK, Steps
  <2>2. Others(file) \in BOOLEAN
    BY OthersTyped
  <2>3. Locals
    BY <1>8, <2>2 DEF Read, TypeOK
  <2>4. mishaps' \subseteq Mishaps
    BY <1>8 DEF Read, Mark, TypeOK, Mishaps
  <2> QED BY <1>8, <2>1, <2>3, <2>4 DEF Read, TypeOK
<1>9. CASE Open(p)
  <2>1. Base
    BY <1>9 DEF Open, own, TypeOK, Steps
  <2>2. mishaps' \subseteq Mishaps
    BY <1>9 DEF Open, Mark, TypeOK, Mishaps
  <2> QED BY <1>9, <2>1, <2>2 DEF Open, own, TypeOK
<1>10. CASE OpenFails(p)
  <2>1. Base
    BY <1>10 DEF OpenFails, TypeOK, Steps
  <2> QED BY <1>0, <1>10, <2>1, ForgetTyped DEF OpenFails
<1>11. CASE Put(p)
  <2>1. Base
    BY <1>11, WholeTyped DEF Put, Finish, TypeOK, Steps
  <2>2. Locals
    BY <1>11, ForgetTyped DEF Put, TypeOK
  <2>3. last' \in Factors \cup {None} /\ kept' \in BOOLEAN
    BY <1>11, BlankTyped DEF Put, TypeOK
  <2>4. unsure' \in BOOLEAN
    BY <1>11 DEF Put, Shared
  <2>5. mishaps' \subseteq Mishaps
    BY <1>11 DEF Put, TypeOK
  <2> QED BY <2>1, <2>2, <2>3, <2>4, <2>5
<1>12. CASE PutFails(p)
  <2>1. Base
    BY <1>12, CutTyped DEF PutFails, TypeOK, Steps
  <2>2. Past
    BY <1>12, CutTyped DEF PutFails, TypeOK
  <2> QED BY <1>12, <2>1, <2>2, ForgetTyped DEF PutFails
<1>13. CASE Crash(p)
  <2>1. Base
    BY <1>13, CutTyped DEF Crash, TypeOK, Steps
  <2>2. Past
    BY <1>0, <1>13, CutTyped DEF Crash, TypeOK
  <2> QED BY <1>13, <2>1, <2>2, ForgetTyped DEF Crash
<1> QED BY <1>2, <1>3, <1>4, <1>5, <1>6, <1>7, <1>8, <1>9, <1>10, <1>11, <1>12, <1>13
        DEF Step

(* The file is one that a save, whole or cut short, can have left, and     *)
(* what the processes hold are fields.                                     *)
THEOREM TypeCorrect == Spec => []TypeOK
<1> QED BY TypeInit, TypeStep, PTL DEF Spec

-----------------------------------------------------------------------------
LEMMA Turns ==
  ASSUME NEW f \in FieldType, NEW n \in BOOLEAN \X BOOLEAN, NEW s \in BOOLEAN
  PROVE  Turned(f, n, s) \in FieldType /\ Turned(f, n, s).size = f.size
  BY DEF Turned, FieldType

(* Millimetres to counts and back, for every field that validates, however *)
(* it is mirrored and swapped, and for every point.                        *)
THEOREM AlwaysRoundTrips == Spec => []RoundTrips
<1>1. TypeOK => RoundTrips
  <2> SUFFICES ASSUME TypeOK, NEW p \in Procs, held[p] # None, Valid(held[p])
               PROVE  held[p] \in Faithful
    BY DEF RoundTrips
  <2> DEFINE f == held[p]
  <2>1. f \in Factors
    BY DEF TypeOK
  <2>2. f \in FieldType /\ f.size > 0
    BY <2>1, FactorsAssumption DEF FieldType, Valid
  <2> HIDE DEF f
  <2>3. ASSUME NEW n \in BOOLEAN \X BOOLEAN, NEW s \in BOOLEAN, NEW at \in Points
        PROVE  ComesBack(Turned(f, n, s), at)
    <3>1. Turned(f, n, s) \in FieldType /\ Turned(f, n, s).size > 0
      BY <2>2, Turns
    <3>2. at \in Pairs
      BY PointsAssumption
    <3> QED BY <3>1, <3>2, ThereAndBack
  <2>4. f \in Faithful
    BY <2>1, <2>3 DEF Faithful
  <2> QED BY <2>4 DEF f
<1> QED BY TypeCorrect, <1>1, PTL

-----------------------------------------------------------------------------
(* The other lines.  While no save has been cut short, failed to read or   *)
(* overlapped another: one process at most is writing, and one that is     *)
(* about to has read the lines.                                            *)
Calm == kept /\ mishaps \subseteq {"unseen"}

OneWriter == \A p, q \in Procs : pc[p] = "put" /\ pc[q] = "put" => p = q
Carries   == \A p \in Procs : pc[p] \in {"open", "put"} => seen[p]
Guarded   == Calm => OneWriter /\ Carries /\ (Quiet => Others(file))

LEMMA CalmBefore ==
  ASSUME kept' = kept, mishaps \subseteq mishaps', Calm' PROVE Calm
  BY DEF Calm

LEMMA Growing ==
  ASSUME TypeOK, NEW p \in Procs, Step(p)
  PROVE  kept' = kept /\ mishaps \subseteq mishaps'
<1>1. CASE Put(p)
  BY <1>1 DEF Put
<1>2. CASE PutFails(p)
  BY <1>2 DEF PutFails, Cut
<1>3. CASE Crash(p)
  BY <1>3 DEF Crash, Cut
<1> QED BY <1>1, <1>2, <1>3
        DEF Step, CallCreate, Stat, Look, CallLoad, Load, Set, CallSave, Read, Open, OpenFails, history

LEMMA NobodyWrites ==
  ASSUME NEW p \in Procs, ~Shared(p), pc[p] # "put"
  PROVE  Quiet
  BY DEF Shared, Quiet

(* A step that neither enters nor leaves open and put, nor writes.         *)
LEMMA GuardedElsewhere ==
  ASSUME TypeOK, Guarded, Calm, NEW p \in Procs,
         \A q \in Procs \ {p} : pc'[q] = pc[q] /\ seen'[q] = seen[q],
         pc[p] # "put", pc'[p] \notin {"open", "put"}, file' = file
  PROVE  OneWriter' /\ Carries' /\ (Quiet' => Others(file'))
<1>1. OneWriter /\ Carries /\ (Quiet => Others(file))
  BY DEF Guarded
<1>2. OneWriter'
  BY <1>1 DEF OneWriter
<1>3. Carries'
  BY <1>1 DEF Carries
<1>4. Quiet' => Quiet
  BY DEF Quiet
<1> QED BY <1>1, <1>2, <1>3, <1>4

LEMMA GuardedInit == Init => Guarded
<1> SUFFICES ASSUME Init PROVE Guarded
  OBVIOUS
<1>1. \A p \in Procs : pc[p] = "idle"
  BY DEF Init
<1>2. Calm => Others(file)
  BY DEF Init, Calm
<1> QED BY <1>1, <1>2 DEF Guarded, OneWriter, Carries

LEMMA GuardedStep == TypeOK /\ Guarded /\ [Next]_vars => Guarded'
<1> SUFFICES ASSUME TypeOK, Guarded, [Next]_vars PROVE Guarded'
  OBVIOUS
<1>1. CASE UNCHANGED vars
  BY <1>1 DEF vars, own, history, Guarded, Calm, OneWriter, Carries, Quiet, Others
<1> SUFFICES ASSUME NEW p \in Procs, Step(p), Calm'
             PROVE  OneWriter' /\ Carries' /\ (Quiet' => Others(file'))
  BY <1>1 DEF Next, Guarded, Others
<1>2. Calm /\ OneWriter /\ Carries /\ (Quiet => Others(file))
  BY Growing, CalmBefore DEF Guarded
<1>3. /\ pc \in [Procs -> Steps] /\ seen \in [Procs -> BOOLEAN]
  BY DEF TypeOK
<1>4. CASE CallCreate(p) \/ Stat(p) \/ CallLoad(p) \/ CallSave(p)
  <2>1. pc[p] # "put" /\ pc'[p] \notin {"open", "put"} /\ file' = file /\ seen' = seen
    BY <1>3, <1>4 DEF CallCreate, Stat, Look, CallLoad, CallSave, At, Goto
  <2>2. \A q \in Procs \ {p} : pc'[q] = pc[q]
    BY <1>3, <1>4 DEF CallCreate, Stat, CallLoad, CallSave, Goto
  <2> QED BY <1>2, <2>1, <2>2, GuardedElsewhere
<1>5. CASE Load(p) \/ OpenFails(p)
  <2>1. pc[p] # "put" /\ pc'[p] = "idle" /\ file' = file
    BY <1>3, <1>5 DEF Load, OpenFails, At, Goto
  <2>2. \A q \in Procs \ {p} : pc'[q] = pc[q] /\ seen'[q] = seen[q]
    BY <1>3, <1>5 DEF Load, OpenFails, Goto, Forget
  <2> QED BY <1>2, <2>1, <2>2, GuardedElsewhere
<1>6. CASE Set(p)
  BY <1>2, <1>6 DEF Set, OneWriter, Carries, Quiet, Others
<1>7. CASE Read(p)
  <2>1. /\ pc[p] = "read" /\ pc' = [pc EXCEPT ![p] = "open"] /\ file' = file
        /\ seen' = [seen EXCEPT ![p] = Others(file)] /\ Mark(p) \subseteq mishaps'
    <3>1. "unread" \notin mishaps'
      BY DEF Calm
    <3> QED BY <1>7, <3>1 DEF Read, At, Goto
  <2>2. "overlap" \notin mishaps'
    BY DEF Calm
  <2>3. Quiet
    BY <2>1, <2>2, NobodyWrites DEF Mark
  <2>4. Others(file)
    BY <1>2, <2>3
  <2>5. OneWriter'
    BY <1>2, <1>3, <2>1 DEF OneWriter
  <2>6. Carries'
    BY <1>2, <1>3, <2>1, <2>4 DEF Carries
  <2> QED BY <2>1, <2>4, <2>5, <2>6 DEF Others
<1>8. CASE Open(p)
  <2>1. /\ pc[p] = "open" /\ pc' = [pc EXCEPT ![p] = "put"] /\ seen' = seen
        /\ Mark(p) \subseteq mishaps'
    BY <1>8 DEF Open, At, Goto, own
  <2>2. "overlap" \notin mishaps'
    BY DEF Calm
  <2>3. Quiet
    BY <2>1, <2>2, NobodyWrites DEF Mark
  <2>4. OneWriter'
    BY <1>3, <2>1, <2>3 DEF OneWriter, Quiet
  <2>5. Carries'
    BY <1>2, <1>3, <2>1 DEF Carries
  <2>6. ~Quiet'
    BY <1>3, <2>1 DEF Quiet
  <2> QED BY <2>4, <2>5, <2>6
<1>9. CASE Put(p)
  <2>1. /\ pc[p] = "put" /\ pc' = [pc EXCEPT ![p] = Finish(p)] /\ file' \in Mixtures(p)
        /\ Finish(p) \in {"load", "idle"}
    BY <1>9 DEF Put, At, Goto, Finish
  <2>2. \A q \in Procs \ {p} : seen'[q] = seen[q]
    BY <1>3, <1>9 DEF Put, Forget
  <2>3. seen[p] = TRUE
    BY <1>2, <1>3, <2>1 DEF Carries
  <2>4. file' \in Texts /\ file'.others
    BY <2>1, <2>3, WholeTyped DEF Mixtures
  <2>5. OneWriter'
    BY <1>2, <1>3, <2>1 DEF OneWriter
  <2>6. Carries'
    BY <1>2, <1>3, <2>1, <2>2 DEF Carries
  <2> QED BY <2>4, <2>5, <2>6 DEF Others
<1>10. CASE PutFails(p)
  BY <1>10, CutTyped DEF PutFails, Calm
<1>11. CASE Crash(p)
  <2>1. pc[p] # "put"
    BY <1>11, CutTyped DEF Crash, At, Calm
  <2>2. pc'[p] = "idle" /\ file' = file
    BY <1>3, <1>11, <2>1 DEF Crash, At, Goto
  <2>3. \A q \in Procs \ {p} : pc'[q] = pc[q] /\ seen'[q] = seen[q]
    BY <1>3, <1>11 DEF Crash, Goto, Forget
  <2> QED BY <1>2, <2>1, <2>2, <2>3, GuardedElsewhere
<1> QED BY <1>4, <1>5, <1>6, <1>7, <1>8, <1>9, <1>10, <1>11 DEF Step

(* For any number of processes: the lines this library does not read stay  *)
(* in the file until a save is cut short, cannot read it, or overlaps.     *)
THEOREM ForeignAlwaysKept == Spec => []ForeignKept
<1>1. Guarded => ForeignKept
  BY DEF Guarded, Calm, ForeignKept
<1>2. TypeOK /\ Guarded /\ [Next]_vars => (TypeOK /\ Guarded)'
  BY TypeStep, GuardedStep
<1> QED BY TypeInit, GuardedInit, <1>1, <1>2, PTL DEF Spec

-----------------------------------------------------------------------------
(* Creation.  Whoever is about to write the default, or has written it,    *)
(* looked before anybody had saved factors, or its look failed.            *)
Creating ==
  /\ \A p \in Procs : making[p] => early[p] \/ "unseen" \in mishaps
  /\ file = Absent => last = None

(* Only the process that takes the step changes its place.                 *)
LEMMA OnlyOneMoves ==
  ASSUME TypeOK, NEW p \in Procs, Step(p), NEW q \in Procs, pc'[q] # pc[q]
  PROVE  q = p
<1>1. pc \in [Procs -> Steps]
  BY DEF TypeOK
<1>2. \E step : pc' = [pc EXCEPT ![p] = step] \/ pc' = pc
  BY DEF Step, CallCreate, Stat, CallLoad, Load, Set, CallSave, Read, Open, OpenFails,
         Put, PutFails, Crash, Goto
<1> QED BY <1>1, <1>2

LEMMA FileStays ==
  ASSUME TypeOK, NEW p \in Procs, Step(p), file # Absent
  PROVE  file' # Absent
<1>1. CASE Put(p)
  BY <1>1, WholeTyped, NoneAssumption DEF Put
<1>2. CASE Cut(p)
  <2>1. file' \in {Empty} \cup Texts
    BY <1>2 DEF Cut, TypeOK, Texts
  <2> QED BY <2>1, NoneAssumption
<1>3. CASE Open(p)
  BY <1>3, NoneAssumption DEF Open
<1>4. file' = file \/ Put(p) \/ Cut(p) \/ Open(p)
  BY DEF Step, CallCreate, Stat, Look, CallLoad, Load, Set, CallSave, Read, OpenFails,
         PutFails, Crash
<1> QED BY <1>1, <1>2, <1>3, <1>4

(* A step in which nobody else starts making, and nothing is forgotten.    *)
LEMMA NoMoreMaking ==
  ASSUME Creating, mishaps \subseteq mishaps', file' = Absent => file = Absent,
         last' = last,
         \A q \in Procs : making'[q] => making[q] /\ early'[q] = early[q]
  PROVE  Creating'
  BY DEF Creating

LEMMA CreatingStep == TypeOK /\ Creating /\ [Next]_vars => Creating'
<1> SUFFICES ASSUME TypeOK, Creating, [Next]_vars PROVE Creating'
  OBVIOUS
<1>1. CASE UNCHANGED vars
  BY <1>1 DEF vars, own, history, Creating
<1> SUFFICES ASSUME NEW p \in Procs, Step(p) PROVE Creating'
  BY <1>1 DEF Next
<1>2. /\ making \in [Procs -> BOOLEAN] /\ early \in [Procs -> BOOLEAN]
      /\ mishaps \subseteq mishaps' /\ (file' = Absent => file = Absent)
  BY Growing, FileStays DEF TypeOK
<1>3. CASE \/ CallCreate(p) \/ CallLoad(p) \/ CallSave(p) \/ Set(p) \/ Read(p)
           \/ Open(p)
  <2>1. /\ last' = last /\ early' = early
        /\ making' \in {making, [making EXCEPT ![p] = FALSE]}
    BY <1>3 DEF CallCreate, CallLoad, CallSave, Set, Read, Open, own, history
  <2> QED BY <1>2, <2>1, NoMoreMaking
<1>4. CASE Load(p) \/ OpenFails(p) \/ PutFails(p) \/ Crash(p)
  <2>1. last' = last /\ Forget(p)
    BY <1>4 DEF Load, OpenFails, PutFails, Crash, Cut
  <2>2. \A q \in Procs : making'[q] => making[q] /\ early'[q] = early[q]
    BY <1>2, <2>1 DEF Forget
  <2> QED BY <1>2, <2>1, <2>2, NoMoreMaking
<1>5. CASE Stat(p)
  <2>1. PICK missing \in {file = Absent, TRUE} :
          /\ making' = [making EXCEPT ![p] = missing]
          /\ mishaps' = mishaps \cup (IF missing /\ file # Absent THEN {"unseen"} ELSE {})
    BY <1>5 DEF Stat
  <2>2. early' = [early EXCEPT ![p] = (last = None)] /\ last' = last /\ file' = file
    BY <1>5 DEF Stat, Look
  <2>3. making'[p] => early'[p] \/ "unseen" \in mishaps'
    <3>1. CASE file = Absent
      BY <1>2, <2>2, <3>1 DEF Creating
    <3>2. CASE file # Absent
      BY <1>2, <2>1, <3>2
    <3> QED BY <3>1, <3>2
  <2>4. ASSUME NEW q \in Procs \ {p}, making'[q]
        PROVE  early'[q] \/ "unseen" \in mishaps'
    BY <1>2, <2>1, <2>2, <2>4 DEF Creating
  <2> QED BY <2>2, <2>3, <2>4 DEF Creating
<1>6. CASE Put(p)
  <2>1. file' # Absent
    BY <1>6, WholeTyped, NoneAssumption DEF Put
  <2>2. \A q \in Procs : making'[q] => making[q] /\ early'[q] = early[q]
    BY <1>2, <1>6 DEF Put, Forget
  <2> QED BY <1>2, <2>1, <2>2 DEF Creating
<1> QED BY <1>3, <1>4, <1>5, <1>6 DEF Step

(* For any number of processes: the default is written, and the caller     *)
(* told so, only by one that looked before anybody had saved factors,      *)
(* unless a look failed.                                                   *)
THEOREM AlwaysCreatedOnce == Spec => CreatedOnce
<1> DEFINE Good == \A p \in Procs :
       WritesDefault(p) \/ IsTold(p) => early[p] \/ "unseen" \in mishaps
<1>1. Init => Creating
  BY NoneAssumption DEF Init, Creating
<1>2. TypeOK /\ Creating /\ [Next]_vars => [Good]_vars
  <2> SUFFICES ASSUME TypeOK, Creating, NEW p \in Procs, Step(p), NEW q \in Procs,
                      WritesDefault(q) \/ IsTold(q)
               PROVE  early[q] \/ "unseen" \in mishaps
    BY DEF Next
  <2>1. CASE WritesDefault(q)
    BY <2>1 DEF WritesDefault, Creating
  <2>2. CASE IsTold(q)
    <3>1. q = p
      BY <2>2, OnlyOneMoves DEF IsTold
    <3>2. Load(p) \/ Crash(p)
      BY <2>2, <3>1 DEF IsTold, Step, CallCreate, Stat, Look, CallLoad, Set, CallSave, Read,
                        Open, OpenFails, Put, PutFails, At
    <3>3. created \in [Procs -> BOOLEAN]
      BY DEF TypeOK
    <3>4. created'[p] => making[p]
      BY <3>2, <3>3 DEF Load, Crash
    <3> QED BY <2>2, <3>1, <3>4 DEF IsTold, Creating
  <2> QED BY <2>1, <2>2
<1>3. TypeOK /\ Creating /\ [Next]_vars => (TypeOK /\ Creating)'
  BY TypeStep, CreatingStep
<1> QED BY TypeInit, <1>1, <1>2, <1>3, PTL DEF Spec, CreatedOnce

-----------------------------------------------------------------------------
(* A file that nobody is writing has the factors last saved, unless that   *)
(* save was cut short or mixed with another.                               *)
Settled == Quiet /\ ~unsure /\ file # Absent => file \in Texts /\ file.factors = last

LEMMA SettledStep == TypeOK /\ Settled /\ [Next]_vars => Settled'
<1> SUFFICES ASSUME TypeOK, Settled, [Next]_vars PROVE Settled'
  OBVIOUS
<1>1. CASE UNCHANGED vars
  BY <1>1 DEF vars, own, history, Settled, Quiet
<1> SUFFICES ASSUME NEW p \in Procs, Step(p) PROVE Settled'
  BY <1>1 DEF Next
<1>2. pc \in [Procs -> Steps]
  BY DEF TypeOK
<1>3. ASSUME file' = file, last' = last, unsure' = unsure, Quiet' => Quiet
      PROVE  Settled'
  BY <1>3 DEF Settled
<1>4. CASE \/ CallCreate(p) \/ Stat(p) \/ CallLoad(p) \/ Load(p) \/ Set(p)
           \/ CallSave(p) \/ Read(p) \/ OpenFails(p)
  <2>1. file' = file /\ last' = last /\ unsure' = unsure
    BY <1>4 DEF CallCreate, Stat, Look, CallLoad, Load, Set, CallSave, Read, OpenFails, history
  <2>2. pc[p] # "put" /\ \A q \in Procs \ {p} : pc'[q] = pc[q]
    BY <1>2, <1>4 DEF CallCreate, Stat, Look, CallLoad, Load, Set, CallSave, Read, OpenFails,
                      At, Goto
  <2> QED BY <1>3, <2>1, <2>2 DEF Quiet
<1>5. CASE Open(p)
  BY <1>2, <1>5 DEF Open, Goto, Settled, Quiet
<1>6. CASE Put(p)
  <2>1. CASE ~unsure'
    <3>1. file = Empty /\ last' = Printed(out[p]) /\ file' \in Mixtures(p)
      BY <1>6, <2>1 DEF Put
    <3>2. file' = Whole(p)
      BY <3>1 DEF Mixtures
    <3> QED BY <3>1, <3>2, WholeTyped DEF Settled
  <2> QED BY <2>1 DEF Settled
<1>7. CASE PutFails(p)
  BY <1>7, CutTyped DEF PutFails, Settled
<1>8. CASE Crash(p)
  <2>1. CASE pc[p] = "put"
    BY <1>8, <2>1, CutTyped DEF Crash, At, Settled
  <2>2. CASE pc[p] # "put"
    <3>1. file' = file /\ last' = last /\ unsure' = unsure
      BY <1>8, <2>2 DEF Crash, At
    <3>2. \A q \in Procs \ {p} : pc'[q] = pc[q]
      BY <1>2, <1>8 DEF Crash, Goto
    <3> QED BY <1>3, <2>2, <3>1, <3>2 DEF Quiet
  <2> QED BY <2>1, <2>2
<1> QED BY <1>4, <1>5, <1>6, <1>7, <1>8 DEF Step

(* What a process loads while nobody writes is what was last saved.        *)
THEOREM AlwaysLoadsTheSaved == Spec => LoadsTheSaved
<1> DEFINE Good == \A p \in Procs :
       pc[p] = "load" /\ pc'[p] = "idle" /\ held'[p] # None /\ Quiet /\ ~unsure
         => held'[p] = last
<1>1. Init => Settled
  BY NoneAssumption DEF Init, Settled
<1>2. TypeOK /\ Settled /\ [Next]_vars => [Good]_vars
  <2> SUFFICES ASSUME TypeOK, Settled, NEW p \in Procs, Step(p), NEW q \in Procs,
                      pc[q] = "load", pc'[q] = "idle", held'[q] # None, Quiet, ~unsure
               PROVE  held'[q] = last
    BY DEF Next
  <2>1. pc \in [Procs -> Steps] /\ held \in [Procs -> Factors \cup {None}]
    BY DEF TypeOK
  <2>2. q = p
    BY OnlyOneMoves
  <2>3. Load(p) \/ Crash(p)
    BY <2>2 DEF Step, CallCreate, Stat, Look, CallLoad, Set, CallSave, Read, Open, OpenFails,
                Put, PutFails, At
  <2>4. ~Crash(p)
    BY <2>1, <2>2 DEF Crash
  <2>5. file # Absent /\ held'[p] = Parsed(file)
    BY <2>1, <2>2, <2>3, <2>4 DEF Load
  <2>6. file \in Texts /\ file.factors = last
    BY <2>5 DEF Settled
  <2> QED BY <2>2, <2>5, <2>6, NoneAssumption DEF Parsed
<1>3. TypeOK /\ Settled /\ [Next]_vars => (TypeOK /\ Settled)'
  BY TypeStep, SettledStep
<1> QED BY TypeInit, <1>1, <1>2, <1>3, PTL DEF Spec, LoadsTheSaved
=============================================================================
