--------------------------- MODULE OutputPromise ---------------------------
(***************************************************************************)
(* What a Job promises about the outputs it programs, with the transfers   *)
(* abstracted away.  A job that switches outputs on takes on a duty.  It   *)
(* may lay the duty down only once the outputs are off or it has said that *)
(* it could not switch them off, and a job that was not closed ends only   *)
(* without a duty.  LaserSession is shown to implement this.               *)
(***************************************************************************)
CONSTANT Outputs

VARIABLES phase,    \* "none", "held", "dropped" or "killed"
          on,       \* the outputs on because of the job
          duty,     \* has it still to silence them?
          excused,  \* has it admitted that silencing failed?
          closed    \* was it closed?

vars == <<phase, on, duty, excused, closed>>

Init == /\ phase = "none" /\ on = {} /\ duty = FALSE
        /\ excused = FALSE /\ closed = FALSE

Start == /\ phase # "held" /\ phase' = "held"
         /\ on' = {} /\ duty' = FALSE /\ excused' = FALSE /\ closed' = FALSE

Work == /\ phase = "held"
        /\ on' \in SUBSET Outputs /\ duty' = TRUE
        /\ UNCHANGED <<phase, excused, closed>>

(* Some outputs go off; when all are off nothing is left to excuse.        *)
Fade == /\ on' \in SUBSET on
        /\ excused' = excused \/ (on' = {} /\ excused' = FALSE)
        /\ UNCHANGED <<phase, duty, closed>>

GiveUp == /\ phase = "held" /\ duty' = duty
          /\ on' \in SUBSET on /\ excused' = TRUE
          /\ UNCHANGED <<phase, closed>>

Release == /\ phase = "held" /\ (on = {} \/ excused)
           /\ duty' = FALSE
           /\ UNCHANGED <<phase, on, excused, closed>>

Close == /\ phase = "held" /\ closed' = TRUE
         /\ UNCHANGED <<phase, on, duty, excused>>

End == /\ phase = "held" /\ (duty => closed)
       /\ phase' = "dropped"
       /\ UNCHANGED <<on, duty, excused, closed>>

Kill == /\ phase = "held" /\ phase' = "killed"
        /\ UNCHANGED <<on, duty, excused, closed>>

Next == Start \/ Work \/ Fade \/ GiveUp \/ Release \/ Close \/ End \/ Kill
Spec == Init /\ [][Next]_vars

(* No output is on that nobody has the duty to silence: the promise behind *)
(* Job::live.                                                              *)
DutyCovers == phase # "killed" /\ ~duty /\ ~excused => on = {}

(* A job that ended with no close has left nothing on unexcused.           *)
EndedSilent == phase = "dropped" /\ ~closed /\ ~excused => on = {}
=============================================================================
