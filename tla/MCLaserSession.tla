-------------------------- MODULE MCLaserSession --------------------------
(* LaserSession with the clients its runs look at.                         *)
EXTENDS LaserSession

(* Every method that talks to the board; of the settings only the MO bit.  *)
OperatorClient == Methods \ {"select", "configure", "tick"}

(* A client that keeps changing its settings between headers.              *)
SettingsClient == {"select", "configure", "tick", "begin", "power_byte",
                   "laser_off", "close", "drop"}

(* The README's quick start, an abort, and a quiet end.                    *)
AbortClient == {"begin", "lines", "abort", "close", "drop"}

(* red_light(), which may switch the pilot on or off, then a quiet close.  *)
PointerClient == {"red_light", "close"}
===========================================================================
