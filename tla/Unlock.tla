------------------------------- MODULE Unlock -------------------------------
(***************************************************************************)
(* ensure_unlocked() over the reply channel: RESET, CLEAR_CACHE and RESET  *)
(* are asked, then the encrypt state is asked and, as long as it does not  *)
(* read "authenticated", the three frames of unlock.rs are replayed, which *)
(* reads one reply each without looking whose it is.                       *)
(*                                                                         *)
(* The exchanges are AskReply's, one after the other; this module says     *)
(* which comes next, and what the board makes of the commands it takes.    *)
(***************************************************************************)
EXTENDS AskReply

CONSTANTS
  ResetOp, ClearOp, EncryptOp, DigestOp, MacOp,   \* the opcodes used
  Attempts,    \* ensure_unlocked()'s argument, at least 1
  MaxFaults    \* bound on the transfers that go wrong

ASSUME UnlockOpsAssumption == Ops = {ResetOp, ClearOp, EncryptOp, DigestOp, MacOp}
(* The replies to a RESET, a CLEAR_CACHE and an 0x0102 can be told apart,   *)
(* and so can the frames the board counts.                                 *)
ASSUME OpcodesDiffer == /\ ResetOp # ClearOp /\ DigestOp # MacOp
                        /\ EncryptOp \notin {ResetOp, ClearOp, DigestOp, MacOp}
ASSUME AttemptsAssumption  == Attempts \in Nat \ {0} /\ MaxFaults \in Nat

VARIABLES
  step,     \* the exchange in progress, or the answer of ensure_unlocked()
  left,     \* attempts left
  auth,     \* the board's latch: once set it stays set
  stage,    \* how many of the three frames the board has taken
  said,     \* the commands whose reply reads "authenticated"
  faults,   \* transfers that went wrong
  calm      \* history: has every command been answered in time?

program == <<step, left>>
latch   == <<auth, stage, said>>
all     == <<vars, program, latch, faults, calm>>

Steps == <<"reset", "clear", "again", "check", "digest", "mac", "token", "state">>

OpOf(s) ==
  CASE s \in {"reset", "again"}          -> ResetOp
    [] s = "clear"                       -> ClearOp
    [] s \in {"check", "state", "last"}  -> EncryptOp
    [] s = "digest"                      -> DigestOp
    [] s \in {"mac", "token"}            -> MacOp

UnlockInit ==
  /\ Init
  /\ step = "start" /\ left = Attempts
  /\ auth \in BOOLEAN /\ stage = 0
  /\ said \in {{}, {0}} /\ (0 \in said => auth)
  /\ faults = 0 /\ calm = TRUE

-----------------------------------------------------------------------------
(* The board takes a command: the frames open the latch in order, and a    *)
(* reply to 0x0102 carries it.                                             *)
Staged(o) ==
  IF o = DigestOp THEN 1 ELSE IF o = MacOp /\ stage \in 1..2 THEN stage + 1 ELSE stage

Take(m) ==
  /\ stage' = Staged(m.op)
  /\ auth' = (auth \/ Staged(m.op) = 3)
  /\ said' = IF m.op = EncryptOp /\ auth THEN said \cup {m.num} ELSE said

BoardAnswers ==
  /\ Answer /\ Take(Head(inbox))
  /\ UNCHANGED <<program, faults, calm>>

(* A fault spends one of MaxFaults, and ends the calm.                     *)
Faulted == faults < MaxFaults /\ faults' = faults + 1 /\ calm' = FALSE

BoardFails ==
  /\ Faulted
  /\ \/ Stall /\ UNCHANGED latch
     \/ LoseReply /\ UNCHANGED latch
     \/ Ignore /\ (UNCHANGED latch \/ Take(Head(inbox)))
  /\ UNCHANGED program

-----------------------------------------------------------------------------
(* Mutant of Unlocked: any answer will do.                                 *)
UnlockedAny == result # NoReply

(* unlocked(): is it an answer, and does it read 2?                        *)
Unlocked == result # NoReply /\ result.num \in said

(* Mutant of After: the frames are replayed before the first check.        *)
AfterReplayFirst ==
  CASE step = "start" -> "reset" [] step = "reset" -> "clear" [] step = "clear" -> "again"
    [] step = "again" -> "digest" [] step = "digest" -> "mac" [] step = "mac" -> "token"
    [] step = "token" -> "state"
    [] step = "state" /\ left = 0 -> "last" [] step = "state" /\ left > 0 -> "check"
    [] step \in {"check", "last"} /\ Unlocked -> "yes"
    [] step = "check" /\ ~Unlocked -> "digest" [] step = "last" /\ ~Unlocked -> "no"

(* Mutant of After: it gives up without the last look.                     *)
AfterNoLast ==
  CASE step = "start" -> "reset" [] step = "reset" -> "clear" [] step = "clear" -> "again"
    [] step = "again" -> "check" [] step = "digest" -> "mac" [] step = "mac" -> "token"
    [] step = "token" -> "state"
    [] step = "state" /\ left = 0 -> "no" [] step = "state" /\ left > 0 -> "check"
    [] step = "check" -> IF Unlocked THEN "yes" ELSE "digest"

(* What comes after the exchange that has ended: in a loop, after the      *)
(* three asks, the check and the replay; then a last check.                *)
After ==
  CASE step = "start" -> "reset" [] step = "reset" -> "clear" [] step = "clear" -> "again"
    [] step = "again" -> "check" [] step = "digest" -> "mac" [] step = "mac" -> "token"
    [] step = "token" -> "state"
    [] step = "state" /\ left = 0 -> "last" [] step = "state" /\ left > 0 -> "check"
    [] step \in {"check", "last"} /\ Unlocked -> "yes"
    [] step = "check" /\ ~Unlocked -> "digest" [] step = "last" /\ ~Unlocked -> "no"

Returned == step \in {"yes", "no"}

Exchange(s) ==
  IF s \in {"digest", "mac", "token", "state"} THEN CallRaw(OpOf(s), s # "state")
                                               ELSE CallAsk(OpOf(s))

(* The write went through: nothing stalled, and a read is to come.         *)
WentThrough == inbox' # inbox /\ halted' = halted /\ pc' # "idle"

Proceed ==
  /\ pc = "idle" /\ ~Returned /\ After \notin {"yes", "no"}
  /\ step' = After
  /\ left' = IF After = "digest" THEN left - 1 ELSE left
  /\ Exchange(After)
  /\ IF WentThrough THEN UNCHANGED <<faults, calm>>
     ELSE IF "ctrl" \in halted THEN calm' = FALSE /\ UNCHANGED faults ELSE Faulted
  /\ UNCHANGED latch

Finish ==
  /\ pc = "idle" /\ ~Returned /\ After \in {"yes", "no"} /\ step' = After
  /\ UNCHANGED <<vars, left, latch, faults, calm>>

(* A read that has nothing to read times out, and costs no fault.          *)
Starved == ep88 = <<>> \/ "reply" \in halted

ReadOn ==
  /\ \/ ReadReply /\ UNCHANGED <<faults, calm>>
     \/ ReadZeros /\ Faulted
     \/ /\ ReadRecover
        /\ IF Starved /\ inbox' # inbox /\ halted' = {}
             THEN calm' = FALSE /\ UNCHANGED faults ELSE Faulted
     \/ /\ ReadGiveUp
        /\ IF Starved THEN calm' = FALSE /\ UNCHANGED faults ELSE Faulted
     \/ /\ RawRead
        /\ IF ep88' # ep88 THEN UNCHANGED <<faults, calm>>
           ELSE IF Starved THEN calm' = FALSE /\ UNCHANGED faults ELSE Faulted
  /\ UNCHANGED <<program, latch>>

UnlockNext == Proceed \/ Finish \/ ReadOn \/ BoardAnswers \/ BoardFails

(* ensure_unlocked() goes on, as every read has a timeout.                 *)
UnlockSpec ==
  UnlockInit /\ [][UnlockNext]_all /\ WF_all(Proceed \/ Finish \/ ReadOn)
-----------------------------------------------------------------------------
(* job.rs: "true once the board is authenticated".  Replies are matched by *)
(* opcode only and may be older than the question, and reads of the replay *)
(* shift them; TRUE is never wrong all the same.                           *)
UnlockedIsTrue == step = "yes" => auth

(* A calm run ends unlocked, whatever an earlier process has left on the   *)
(* pipe: the three asks before the first check take that away.             *)
UnlocksIfCalm == step = "no" => ~calm

(* API.md: it replays until the board reports authenticated, so in a calm  *)
(* run it sends nothing to a board that is.                                *)
ReplaysOnlyLocked == calm /\ step = "digest" /\ pc = "raw" /\ inbox # <<>> => ~auth

(* ensure_unlocked() answers, whether or not the board does.               *)
EnsureReturns == <>Returned
=============================================================================
