--------------------------- MODULE MCBurstPacing ---------------------------
(* BurstPacing with a queue of a few vectors, and as it is shipped.        *)
EXTENDS BurstPacing

(* At 0.83 ms a vector (job.rs, SEG_TIME) 40 ms are 48 vectors and 10 ms   *)
(* are 12.                                                                 *)
ShippedSettle == {48}
ShippedNap    == {12}

SlowSettle == {1, 2}
SlowNap    == {0, 1}
SlowLate   == {1, 4}

(* The small instance has the room the theorem about it asks for.          *)
ASSUME RoomAssumption == Free = 7 => Roomy
============================================================================
