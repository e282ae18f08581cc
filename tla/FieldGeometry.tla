--------------------------- MODULE FieldGeometry ---------------------------
(***************************************************************************)
(* field.rs: millimetres to 16-bit galvo counts and back, for a field      *)
(* whose distortion factors are all 1.0 (distort() is then the identity).  *)
(* Lengths are whole millimetres and aspects whole percents; a position on *)
(* the way to a count is kept exact, as a numerator over Den(f).           *)
(***************************************************************************)
EXTENDS Integers, Sequences

Centre == 32768
Full   == 65535
Half   == Full \div 2

Axes == 1..2

(* Twice half_mm(), with its stand-in for an empty field.                  *)
Span(f) == IF f.size = 0 THEN 2 ELSE f.size
Den(f)  == 100 * Span(f)

(* f64::round: halves away from zero.                                      *)
Rounded(n, d) ==
  IF n >= 0 THEN (2 * n + d) \div (2 * d) ELSE -((d - 2 * n) \div (2 * d))

Swapped(f, pair) == IF f.swap THEN <<pair[2], pair[1]>> ELSE pair

(* The numerators of the two coordinates: scaled, mirrored, then swapped.  *)
Galvo(f, at) ==
  LET scaled(i)   == Centre * Den(f) + (at[i] - f.offset[i]) * f.aspect[i] * 2 * Half
      mirrored(i) == IF f.negate[i] THEN Full * Den(f) - scaled(i) ELSE scaled(i)
  IN  Swapped(f, <<mirrored(1), mirrored(2)>>)

Fits(count) == count >= 0 /\ count <= Full
Clamped(count) == IF count < 0 THEN 0 ELSE IF count > Full THEN Full ELSE count

Outside == <<>>   \* the error

(* to_counts()                                                             *)
ToCounts(f, at, clamp) ==
  LET count == [i \in Axes |-> Rounded(Galvo(f, at)[i], Den(f))]
  IN  IF clamp \/ \A i \in Axes : Fits(count[i])
        THEN <<Clamped(count[1]), Clamped(count[2])>> ELSE Outside

(* Mutant of Unturned: the mirrors are taken off before the swap.          *)
UnturnedMirrorFirst(f, counts) ==
  Swapped(f, [i \in Axes |-> IF f.negate[i] THEN Full - counts[i] ELSE counts[i]])

Unturned(f, counts) ==
  [i \in Axes |-> IF f.negate[i] THEN Full - Swapped(f, counts)[i]
                                 ELSE Swapped(f, counts)[i]]

(* to_mm(), as a numerator over ToMmDen                                    *)
ToMmDen(f, i) == 2 * Half * f.aspect[i]
ToMm(f, counts) ==
  [i \in Axes |-> (Unturned(f, counts)[i] - Centre) * Den(f) + f.offset[i] * ToMmDen(f, i)]

(* validate()                                                              *)
Valid(f) == f.size > 0 /\ \A i \in Axes : f.aspect[i] # 0

(* What comes back is what was asked, to within half a count.              *)
Near(f, at, counts) ==
  \A i \in Axes :
    LET off == ToMm(f, counts)[i] - at[i] * ToMmDen(f, i)
    IN  2 * off <= Den(f) /\ -2 * off <= Den(f)
=============================================================================
