----------------------------- MODULE MCSettings -----------------------------
(* Settings with arguments on both sides of every bound, by a hundredth of *)
(* 10 Hz, of a percent and of a microsecond.  The width 1 rounds to zero;  *)
(* 135135 is the longest at 0.74 kHz, and rounds to the whole period.      *)
EXTENDS Settings

EdgeFreqs  == {9999, 10000, 400001}
EdgePcts   == {10000, 10001}
EdgeTicks  == {7300, 7399, 7400}
EdgeWidths == {0, 1, 135135, 135136}
=============================================================================
