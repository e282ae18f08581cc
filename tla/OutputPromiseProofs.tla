------------------------- MODULE OutputPromiseProofs -------------------------
(* What the abstract promise is worth: its two consequences, for any set   *)
(* of outputs.                                                             *)
EXTENDS OutputPromise, TLAPS

(* EndedSilent is inductive only together with the flag it rests on: a job *)
(* that ended unclosed has no duty left.                                   *)
PromiseInv ==
  /\ DutyCovers
  /\ phase = "dropped" /\ ~closed => ~duty
  /\ duty \in BOOLEAN /\ excused \in BOOLEAN /\ closed \in BOOLEAN

(* It holds before any job exists ...                                      *)
LEMMA PromiseInit == ASSUME Init PROVE PromiseInv
  BY DEF Init, PromiseInv, DutyCovers

(* ... and every step of the promise keeps it.                             *)
LEMMA PromiseStep == ASSUME PromiseInv, [Next]_vars PROVE PromiseInv'
<1> USE DEF PromiseInv, DutyCovers
<1>1. CASE Start
  BY <1>1 DEF Start
<1>2. CASE Work
  BY <1>2 DEF Work
<1>3. CASE Fade
  <2>1. UNCHANGED <<phase, duty, closed>> /\ (on = {} => on' = {})
    BY <1>3 DEF Fade
  <2>2. CASE excused' = excused
    BY <2>1, <2>2
  <2>3. CASE on' = {} /\ excused' = FALSE
    BY <2>1, <2>3
  <2> QED BY <1>3, <2>2, <2>3 DEF Fade
<1>4. CASE GiveUp
  BY <1>4 DEF GiveUp
<1>5. CASE Release
  BY <1>5 DEF Release
<1>6. CASE Close
  BY <1>6 DEF Close
<1>7. CASE End
  BY <1>7 DEF End
<1>8. CASE Kill
  BY <1>8 DEF Kill
<1>9. CASE UNCHANGED vars
  BY <1>9 DEF vars
<1> QED
  BY <1>1, <1>2, <1>3, <1>4, <1>5, <1>6, <1>7, <1>8, <1>9 DEF Next

(* No output is on that the job has neither the duty to silence nor owned  *)
(* up to: what Job::live stands for.                                       *)
THEOREM DutyAlwaysCovers == Spec => []DutyCovers
<1>1. Init => PromiseInv
  BY PromiseInit
<1>2. PromiseInv /\ [Next]_vars => PromiseInv'
  BY PromiseStep
<1>3. PromiseInv => DutyCovers
  BY DEF PromiseInv
<1> QED BY <1>1, <1>2, <1>3, PTL DEF Spec

(* A job that ended unclosed left nothing on: what Drop is for.            *)
THEOREM EndIsSilent == Spec => []EndedSilent
<1>1. Init => PromiseInv
  BY PromiseInit
<1>2. PromiseInv /\ [Next]_vars => PromiseInv'
  BY PromiseStep
<1>3. PromiseInv => EndedSilent
  BY DEF PromiseInv, DutyCovers, EndedSilent
<1> QED BY <1>1, <1>2, <1>3, PTL DEF Spec
==============================================================================
