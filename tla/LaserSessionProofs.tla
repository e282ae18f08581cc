------------------------- MODULE LaserSessionProofs -------------------------
(* Proofs about LaserSession, for every choice of its constants.           *)
EXTENDS LaserSession, TLAPS

(* The strengthening: besides what the invariants say, a method runs only  *)
(* in a held job, only an arming method reaches a batch and only close()   *)
(* its own reset; and once laser_off() is past its flags, or a job that    *)
(* was never closed has come to its end, `live' is clear.                  *)
Running ==
  /\ pc # "idle" => job = "held"
  /\ pc \in ArmPcs => call \in ArmedCalls
  /\ pc = "closeStop" => call \in {"close", "close_loud"}

FlagsDropped ==
  /\ pc = "offReset" => ~live
  /\ (pc = "shut" /\ call = "drop" /\ ~closed) => ~live
  /\ (job = "dropped" /\ ~closed) => ~live

IInv == TypeOK /\ LiveAccounting /\ OffSilences /\ Running /\ FlagsDropped

-----------------------------------------------------------------------------
IsBatch(b) == b.writes \in SUBSET Lines /\ b.on \in SUBSET Lines

(* Every method's batch writes, and leaves on, only known registers.       *)
LEMMA BatchType == ASSUME NEW c \in ArmedCalls PROVE IsBatch(BatchOf[c])
<1>1. /\ IsBatch(Header) /\ IsBatch(PowerByteBatch) /\ IsBatch(RedLightBatch)
      /\ IsBatch(HalfWordBatch) /\ IsBatch(TickOffBatch) /\ IsBatch(NoOutputs)
  BY DEF IsBatch, Header, PowerByteBatch, RedLightBatch, HalfWordBatch,
         TickOffBatch, NoOutputs, Batch, When, Lines
<1> QED BY <1>1 DEF BatchOf, ArmedCalls

(* Whatever part of a batch lands, the histories stay within the registers *)
(* and only a batch of a live call adds to the owed lines.                 *)
LEMMA LandType ==
  ASSUME TypeOK, NEW b, IsBatch(b), NEW L \in SUBSET Lines, NEW owes \in BOOLEAN,
         Land(b, L, owes)
  PROVE  /\ latched' \subseteq Lines /\ own' \subseteq latched' /\ owed' \subseteq own'
         /\ ~owes => owed' \subseteq owed
  BY DEF Land, TypeOK, IsBatch

(* The same for a write, refused or not.                                   *)
LEMMA WriteType ==
  ASSUME TypeOK, NEW b, IsBatch(b), NEW owes \in BOOLEAN,
         WriteOk(b, owes) \/ WriteErr(b, owes)
  PROVE  /\ latched' \subseteq Lines /\ own' \subseteq latched' /\ owed' \subseteq own'
         /\ ~owes => owed' \subseteq owed
         /\ halted' \subseteq {"data", "ctrl"}
<1>1. CASE WriteOk(b, owes)
  <2>1. Land(b, Lines, owes) /\ halted' = halted
    BY <1>1 DEF WriteOk
  <2> QED BY <2>1, LandType DEF TypeOK
<1>2. CASE WriteErr(b, owes)
  <2>1. CASE UNCHANGED <<latched, own, owed, halted>>
    BY <2>1 DEF TypeOK
  <2>2. CASE /\ \E L \in Prefixes : Land(b, L, owes)
             /\ halted' \in {halted, halted \cup {"data"}}
    <3>1. PICK L \in Prefixes : Land(b, L, owes)
      BY <2>2
    <3>2. L \in SUBSET Lines
      BY DEF Prefixes, Lines
    <3> QED BY <2>2, <3>1, <3>2, LandType DEF TypeOK
  <2> QED BY <1>2, <2>1, <2>2 DEF WriteErr
<1> QED BY <1>1, <1>2

(* A silencing write that succeeds clears every register.                  *)
LEMMA OffWriteClears ==
  ASSUME TypeOK, WriteOk(OffBatch, FALSE)
  PROVE  latched' = {}
  BY DEF TypeOK, WriteOk, Land, OffBatch, Batch

(* An ask leaves the registers alone and moves the engine and the pipes    *)
(* within their types.                                                     *)
LEMMA AskType ==
  ASSUME TypeOK, NEW o, Ask(o)
  PROVE  engine' \in BOOLEAN /\ halted' \subseteq {"data", "ctrl"}
  BY DEF TypeOK, Ask, After

(* A step that asks, on its way from one pc to another, keeps the types.   *)
LEMMA ReturnType ==
  ASSUME TypeOK, NEW l \in Pcs, Goto(l)
  PROVE  pc' \in Pcs /\ call' \in Methods \cup {"none"} /\ arg' \in BOOLEAN
  BY DEF TypeOK, Goto

-----------------------------------------------------------------------------
(* The parts of an arming, resetting or aborting step that only asks.      *)
LEMMA AskStepInv ==
  ASSUME IInv, NEW from \in Pcs \ {"idle"}, NEW op, NEW to \in Pcs,
         AskStep(from, op, to),
         to \in ArmPcs => from \in ArmPcs,
         to \notin {"offClear", "closeStop"},
         to = "offReset" => from = "offReset",
         to = "shut" => ~(call = "drop" /\ ~closed) \/ from = "offReset"
  PROVE  IInv'
<1>1. TypeOK'
  BY AskType, ReturnType DEF AskStep, IInv, TypeOK, settings, status, history
<1>2. UNCHANGED <<job, live, closed, gaveUp, latched, own, owed>> /\ pc = from /\ pc' = to
  BY DEF AskStep, status, history, Goto
<1>3. to # "idle" => call' = call
  BY DEF AskStep, Goto
<1> QED
  BY <1>1, <1>2, <1>3 DEF IInv, LiveAccounting, OffSilences, Running, FlagsDropped,
                          ArmPcs

(* A settings method touches nothing the invariant is about but types.     *)
LEMMA SettingsInv ==
  ASSUME IInv, SettingsOnly,
         kind' \in LaserTypes, pct' \in BOOLEAN, byte' \in BOOLEAN,
         mo' \in BOOLEAN, tickle' \in BOOLEAN
  PROVE  IInv'
  BY DEF IInv, TypeOK, LiveAccounting, OffSilences, Running, FlagsDropped,
         SettingsOnly, status, control, history

(* The invariant is inductive, first under what the client does ...        *)
LEMMA ClientInv == ASSUME IInv, Client PROVE IInv'
<1> USE DEF IInv, TypeOK, LiveAccounting, OffSilences, Running, FlagsDropped,
            settings, status, control, history, Ready, SettingsOnly, Enter,
            Pcs, ArmPcs, OffPcs, AbortPcs, Methods, ArmedCalls
<1>1. ASSUME NEW k \in Kinds, NewJob(k) PROVE IInv'
  <2>1. tickle' \in BOOLEAN /\ kind' \in LaserTypes
    BY <1>1, KindsAssumption DEF NewJob, Tickles
  <2>2. halted' \subseteq {"data", "ctrl"}
    BY <1>1 DEF NewJob, ClearHalts
  <2> QED BY <1>1, <2>1, <2>2 DEF NewJob
<1>2. ASSUME NEW k \in Kinds, Select(k) PROVE IInv'
  <2>1. kind' \in LaserTypes /\ tickle' \in BOOLEAN
    BY <1>2, KindsAssumption DEF Select, Tickles
  <2> QED BY <1>2, <2>1, SettingsInv DEF Select
<1>3. ASSUME NEW flag \in BOOLEAN, Tick(flag) PROVE IInv'
  BY <1>3, SettingsInv DEF Tick
<1>4. ASSUME NEW flag \in BOOLEAN, Mo(flag) PROVE IInv'
  BY <1>4, SettingsInv DEF Mo
<1>5. ASSUME NEW flag \in BOOLEAN, CallClose(flag) PROVE IInv'
  BY <1>5 DEF CallClose
<1>6. ASSUME NEW c \in ArmedCalls, NEW flag \in BOOLEAN, CallArmed(c, flag) PROVE IInv'
  BY <1>6 DEF CallArmed
<1>7. CASE Configure
  <2>1. pct' \in BOOLEAN /\ byte' \in BOOLEAN /\ mo' \in BOOLEAN /\ tickle' \in BOOLEAN
    BY <1>7 DEF Configure
  <2> QED BY <1>7, <2>1, SettingsInv DEF Configure
<1>8. CASE CallLines
  BY <1>8, ZenonT(60) DEF CallLines
<1>9. CASE PlainWrite
  <2>1. IsBatch(NoOutputs)
    BY DEF IsBatch, NoOutputs, Batch
  <2>2. /\ latched' \subseteq Lines /\ own' \subseteq latched' /\ owed' \subseteq own'
        /\ owed' \subseteq owed /\ halted' \subseteq {"data", "ctrl"}
    BY <1>9, <2>1, WriteType DEF PlainWrite
  <2> QED BY <1>9, <2>2 DEF PlainWrite
<1>10. CASE Query
  BY <1>10, AskType DEF Query
<1>11. CASE Stop
  BY <1>11, AskType DEF Stop
<1>12. CASE CallLaserOff
  BY <1>12, ZenonT(60) DEF CallLaserOff
<1>13. CASE CallDrop
  <2>1. \/ pc' = "offWrite"
        \/ pc' = "shut" /\ (closed \/ ~live)
    BY <1>13 DEF CallDrop
  <2> QED BY <1>13, <2>1, ZenonT(60) DEF CallDrop
<1>14. CASE CallAbort
  BY <1>14, ZenonT(60) DEF CallAbort
<1>15. CASE CallGuard
  BY <1>15, ZenonT(60) DEF CallGuard
<1> QED
  BY <1>1, <1>2, <1>3, <1>4, <1>5, <1>6, <1>7, <1>8, <1>9, <1>10, <1>11, <1>12,
     <1>13, <1>14, <1>15 DEF Client

(* A write that owes nothing, on the way to a step that asserts nothing.   *)
LEMMA WriteStepInv ==
  ASSUME IInv, pc # "idle", NEW b, IsBatch(b),
         WriteOk(b, FALSE) \/ WriteErr(b, FALSE),
         UNCHANGED <<settings, status, engine>>,
         NEW to \in Pcs, Goto(to),
         to \notin ArmPcs \cup {"offClear", "offReset", "closeStop", "shut"}
  PROVE  IInv'
<1>1. /\ latched' \subseteq Lines /\ own' \subseteq latched' /\ owed' \subseteq own'
      /\ owed' \subseteq owed /\ halted' \subseteq {"data", "ctrl"}
  BY WriteType DEF IInv
<1>2. pc' = to /\ pc' \in Pcs /\ call' \in Methods \cup {"none"} /\ arg' \in BOOLEAN
  BY ReturnType DEF IInv, Goto
<1>3. TypeOK'
  BY <1>1, <1>2 DEF IInv, TypeOK, settings, status
<1> QED
  BY <1>1, <1>2, <1>3 DEF IInv, LiveAccounting, OffSilences, Running, FlagsDropped,
                          status

(* The two batches that light nothing are batches.                         *)
LEMMA NoOutputsBatch == IsBatch(NoOutputs) /\ IsBatch(OffBatch)
  BY DEF IsBatch, NoOutputs, OffBatch, Batch

(* ... then under the steps of a method in progress.                       *)
LEMMA MethodInv == ASSUME IInv, Method PROVE IInv'
<1>0. TypeOK
  BY DEF IInv
<1>1. ASSUME NEW from \in Pcs \ {"idle"}, NEW op, NEW to \in Pcs,
             AskStep(from, op, to),
             <<from, to>> \in {<<"armClear", "armReset">>, <<"armReset", "armRun">>,
               <<"armRun", "batch">>, <<"tickReset", "idle">>,
               <<"offReset", "idle">>, <<"offReset", "shut">>,
               <<"abortGate", "abortClear">>, <<"abortClear", "abortReset">>,
               <<"abortReset", "abortRun">>, <<"abortRun", "abortEnd">>}
      PROVE  IInv'
  BY <1>1, AskStepInv DEF ArmPcs
<1>2. ASSUME ArmClear \/ ArmReset \/ ArmRun \/ TickReset PROVE IInv'
  BY <1>1, <1>2 DEF ArmClear, ArmReset, ArmRun, TickReset, Pcs, ArmPcs
<1>3. ASSUME AbortGate \/ AbortClear \/ AbortReset \/ AbortRun PROVE IInv'
  BY <1>1, <1>3 DEF AbortGate, AbortClear, AbortReset, AbortRun, Pcs, AbortPcs
<1>4. CASE OffReset
  BY <1>1, <1>4 DEF OffReset, Pcs, OffPcs
<1>5. CASE CloseStop
  <2>1. call # "drop"
    BY <1>5 DEF CloseStop, AskStep, IInv, Running
  <2> QED BY <1>5, <2>1, AskStepInv DEF CloseStop, Pcs, ArmPcs
<1>6. CASE SendBatch
  <2>1. call \in ArmedCalls /\ pc = "batch" /\ job = "held"
    BY <1>6 DEF SendBatch, IInv, Running, ArmPcs
  <2>2. IsBatch(BatchOf[call]) /\ MarksLive(call) \in BOOLEAN
    BY <2>1, BatchType DEF MarksLive
  <2>3. /\ latched' \subseteq Lines /\ own' \subseteq latched' /\ owed' \subseteq own'
        /\ ~MarksLive(call) => owed' \subseteq owed
        /\ halted' \subseteq {"data", "ctrl"}
    BY <1>0, <1>6, <2>2, WriteType DEF SendBatch
  <2>4. PICK to \in {"axisWrite", "tickReset", "idle"} : Goto(to)
    BY <1>6 DEF SendBatch
  <2>5. pc' = to /\ pc' \in Pcs /\ call' \in Methods \cup {"none"} /\ arg' \in BOOLEAN
    BY <1>0, <2>4, ReturnType DEF Pcs, Goto
  <2>6. /\ UNCHANGED <<settings, job, closed, gaveUp, engine>>
        /\ live' = (live \/ MarksLive(call))
    BY <1>6 DEF SendBatch
  <2>7. TypeOK'
    BY <1>0, <2>2, <2>3, <2>5, <2>6 DEF TypeOK, settings
  <2>8. LiveAccounting'
    BY <2>3, <2>6, <1>0 DEF IInv, TypeOK, LiveAccounting
  <2> QED
    BY <2>1, <2>4, <2>5, <2>6, <2>7, <2>8 DEF IInv, OffSilences, Running, FlagsDropped,
                                              ArmPcs
<1>7. CASE AxisWrite
  BY <1>7, WriteStepInv, NoOutputsBatch DEF AxisWrite, Pcs, ArmPcs
<1>8. CASE LinesChunk
  BY <1>8, WriteStepInv, NoOutputsBatch DEF LinesChunk, Pcs, ArmPcs
<1>9. CASE LinesDone
  <2>1. pc' = "idle" /\ call' = "none" /\ arg' = FALSE /\ job = "held"
    BY <1>9 DEF LinesDone, Goto, IInv, Running
  <2> QED
    BY <1>9, <2>1 DEF LinesDone, IInv, TypeOK, LiveAccounting, OffSilences, Running, FlagsDropped,
                      settings, history, Pcs, ArmPcs
<1>10. CASE OffWrite
  <2>1. CASE WriteErr(OffBatch, FALSE) /\ Goto("offRecover") /\ UNCHANGED gaveUp
    BY <1>10, <2>1, WriteStepInv, NoOutputsBatch DEF OffWrite, Pcs, ArmPcs, OffPcs, status
  <2>2. CASE WriteOk(OffBatch, FALSE) /\ Goto("offClear") /\ gaveUp' = FALSE
    <3>1. latched' = {} /\ own' = {} /\ owed' = {} /\ halted' \subseteq {"data", "ctrl"}
      BY <1>0, <2>2, OffWriteClears, WriteType, NoOutputsBatch
    <3>2. pc' = "offClear" /\ UNCHANGED <<call, arg>> /\ job = "held"
      BY <1>10, <2>2 DEF OffWrite, Goto, IInv, Running
    <3>3. UNCHANGED <<settings, job, live, closed, engine>>
      BY <1>10 DEF OffWrite
    <3> QED
      BY <2>2, <3>1, <3>2, <3>3, ZenonT(60) DEF IInv, TypeOK, LiveAccounting, OffSilences, Running, FlagsDropped,
                                    settings, Pcs, ArmPcs, OffPcs
  <2> QED BY <1>10, <2>1, <2>2 DEF OffWrite
<1>11. CASE OffRecover
  <2>1. pc' = "offRetry" /\ UNCHANGED <<call, arg>> /\ job = "held"
    BY <1>11 DEF OffRecover, Goto, IInv, Running
  <2>2. halted' \subseteq {"data", "ctrl"}
    BY <1>0, <1>11 DEF OffRecover, TypeOK
  <2> QED
    BY <1>11, <2>1, <2>2 DEF OffRecover, IInv, TypeOK, LiveAccounting, OffSilences, Running, FlagsDropped,
                             settings, status, history, Pcs, ArmPcs, OffPcs
<1>12. CASE OffRetry
  <2>1. /\ latched' \subseteq Lines /\ own' \subseteq latched' /\ owed' \subseteq own'
        /\ halted' \subseteq {"data", "ctrl"}
    BY <1>0, <1>12, WriteType, NoOutputsBatch DEF OffRetry
  <2>2. gaveUp' \in BOOLEAN /\ (~gaveUp' => latched' = {})
    BY <1>0, <1>12, OffWriteClears DEF OffRetry
  <2>3. pc' = "offClear" /\ UNCHANGED <<call, arg>> /\ job = "held"
    BY <1>12 DEF OffRetry, Goto, IInv, Running
  <2>4. UNCHANGED <<settings, job, live, closed, engine>>
    BY <1>12 DEF OffRetry
  <2> QED
    BY <2>1, <2>2, <2>3, <2>4 DEF IInv, TypeOK, LiveAccounting, OffSilences, Running, FlagsDropped,
                                  settings, Pcs, ArmPcs, OffPcs
<1>13. CASE OffClear
  <2>1. pc' = "offReset" /\ UNCHANGED <<call, arg>> /\ job = "held"
    BY <1>13 DEF OffClear, Goto, IInv, Running
  <2>2. engine' \in BOOLEAN /\ halted' \subseteq {"data", "ctrl"}
    BY <1>0, <1>13, AskType DEF OffClear
  <2>3. pc = "offClear"
    BY <1>13 DEF OffClear
  <2> QED
    BY <1>13, <2>1, <2>2, <2>3 DEF OffClear, IInv, TypeOK, LiveAccounting, OffSilences, Running, FlagsDropped,
                                   history, Pcs, ArmPcs, OffPcs
<1>14. CASE Shut
  <2>1. pc' = "idle" /\ call' = "none" /\ arg' = FALSE /\ job = "held"
    BY <1>14 DEF Shut, Goto, IInv, Running
  <2>2. halted' \subseteq {"data", "ctrl"}
    BY <1>0, <1>14 DEF Shut, ClearHalts, TypeOK
  <2>3. CASE call = "drop"
    BY <1>14, <2>1, <2>2, <2>3 DEF Shut, IInv, TypeOK, LiveAccounting, OffSilences, Running, FlagsDropped,
                                   settings, history, Pcs, ArmPcs
  <2>4. CASE call # "drop"
    BY <1>14, <2>1, <2>2, <2>4 DEF Shut, IInv, TypeOK, LiveAccounting, OffSilences, Running, FlagsDropped,
                                   settings, history, Pcs, ArmPcs
  <2> QED BY <2>3, <2>4
<1>15. CASE GuardPoll
  <2>1. PICK to \in {"abortGate", "guard"} : AskStep("guard", "STATUS", to)
    BY <1>15 DEF GuardPoll, AskStep
  <2> QED BY <2>1, AskStepInv DEF Pcs, ArmPcs, AbortPcs
<1>16. CASE GuardTimeout
  <2>1. pc' = "idle" /\ call' = "none" /\ arg' = FALSE
    BY <1>16 DEF GuardTimeout, Goto
  <2> QED
    BY <1>16, <2>1 DEF GuardTimeout, IInv, TypeOK, LiveAccounting, OffSilences, Running, FlagsDropped,
                       settings, status, history, Pcs, ArmPcs
<1>17. CASE AbortEnd
  <2>1. pc' = "idle" /\ call' = "none" /\ arg' = FALSE
    BY <1>17 DEF AbortEnd, Goto
  <2>2. engine' \in BOOLEAN /\ halted' \subseteq {"data", "ctrl"}
    BY <1>0, <1>17, AskType DEF AbortEnd
  <2> QED
    BY <1>17, <2>1, <2>2 DEF AbortEnd, IInv, TypeOK, LiveAccounting, OffSilences, Running, FlagsDropped,
                             status, history, Pcs, ArmPcs
<1> QED
  BY <1>2, <1>3, <1>4, <1>5, <1>6, <1>7, <1>8, <1>9, <1>10, <1>11, <1>12, <1>13,
     <1>14, <1>15, <1>16, <1>17 DEF Method

(* ... and under anything else: a kill, a power cycle, a stutter.          *)
LEMMA NextInv == ASSUME IInv, [Next]_vars PROVE IInv'
<1>1. CASE Client
  BY <1>1, ClientInv
<1>2. CASE Method
  BY <1>2, MethodInv
<1>3. CASE Kill
  <2>1. pc' = "idle" /\ call' = "none" /\ arg' = FALSE /\ job' = "killed"
    BY <1>3 DEF Kill, Goto
  <2> QED
    BY <1>3, <2>1 DEF Kill, IInv, TypeOK, LiveAccounting, OffSilences, Running,
                      FlagsDropped, settings, history, Pcs, ArmPcs
<1>4. CASE PowerCycle
  BY <1>4, ZenonT(60) DEF PowerCycle, IInv, TypeOK, LiveAccounting, OffSilences, Running,
              FlagsDropped, settings, status, control, Pcs, ArmPcs
<1>5. CASE UNCHANGED vars
  BY <1>5 DEF IInv, TypeOK, LiveAccounting, OffSilences, Running, FlagsDropped,
              vars, settings, status, control, history
<1> QED
  BY <1>1, <1>2, <1>3, <1>4, <1>5 DEF Next

(* A power-cycled board and no process satisfy the invariant.              *)
LEMMA InitInv == ASSUME Init PROVE IInv
<1>1. kind \in LaserTypes /\ tickle \in BOOLEAN
  BY KindsAssumption DEF Init, Tickles
<1> QED
  BY <1>1 DEF Init, IInv, TypeOK, LiveAccounting, OffSilences, Running,
              FlagsDropped, Pcs, ArmPcs, OffPcs, Methods

(* The invariant holds throughout every session.                           *)
THEOREM Invariance == Spec => []IInv
<1>1. Init => IInv
  BY InitInv
<1>2. IInv /\ [Next]_vars => IInv'
  BY NextInv
<1> QED BY <1>1, <1>2, PTL DEF Spec

(* Type correctness, with the histories within the registers.              *)
THEOREM TypeCorrect == Spec => []TypeOK
<1>1. IInv => TypeOK
  BY DEF IInv
<1> QED BY <1>1, Invariance, PTL

(* The flag `live' never loses an output it stands for: while it is clear, *)
(* nothing the accounted methods put on the registers is still there.      *)
THEOREM LiveIsAccountable == Spec => []LiveAccounting
<1>1. IInv => LiveAccounting
  BY DEF IInv
<1> QED BY <1>1, Invariance, PTL

(* laser_off() has silenced every register by the time it drops its flags, *)
(* or has warned.                                                          *)
THEOREM OffIsSilent == Spec => []OffSilences
<1>1. IInv => OffSilences
  BY DEF IInv
<1> QED BY <1>1, Invariance, PTL

(* A job that was never closed ends with none of its outputs on, whichever *)
(* methods failed on the way.                                              *)
THEOREM DropIsSilent == Spec => []DropSilences
<1>1. IInv => DropSilences
  BY DEF IInv, LiveAccounting, FlagsDropped, DropSilences
<1> QED BY <1>1, Invariance, PTL

-----------------------------------------------------------------------------
(* Silencing never starts the engine.                                      *)

(* Only 0x0104 starts it.                                                  *)
LEMMA AskStarts ==
  ASSUME NEW o, Ask(o), o # "RUN", engine'
  PROVE  engine
  BY DEF Ask, After

(* No step of laser_off(), close() or Drop starts the engine, and no other *)
(* step can be taken in their place.                                       *)
THEOREM SilencingIsQuiet == Spec => SilencingNeverStarts
<1> DEFINE Silencing == pc \in OffPcs \cup {"closeStop", "shut"}
<1>1. ASSUME [Next]_vars, Silencing, engine' PROVE engine
  <2>1. pc # "idle"
    BY <1>1 DEF OffPcs
  <2>2. ~Client
    BY <2>1 DEF Client, NewJob, Select, Tick, Mo, CallClose, CallArmed, Configure,
                CallLines, PlainWrite, Query, Stop, CallLaserOff, CallDrop,
                CallAbort, CallGuard, Enter, Ready
  <2>3. CASE Method
    <3>1. pc \notin ArmPcs \cup AbortPcs \cup {"axisWrite", "tickReset", "lines", "guard"}
      BY <1>1 DEF OffPcs, ArmPcs, AbortPcs
    <3>2. OffWrite \/ OffRecover \/ OffRetry \/ OffClear \/ OffReset \/ CloseStop \/ Shut
      BY <2>3, <3>1 DEF Method, ArmPcs, AbortPcs, AskStep, ArmClear, ArmReset, ArmRun,
             SendBatch, AxisWrite, TickReset, LinesChunk, LinesDone, GuardPoll,
             GuardTimeout, AbortGate, AbortClear, AbortReset, AbortRun, AbortEnd
    <3>3. CASE OffWrite \/ OffRecover \/ OffRetry \/ Shut
      BY <1>1, <3>3 DEF OffWrite, OffRecover, OffRetry, Shut
    <3>4. CASE OffClear \/ OffReset \/ CloseStop
      BY <1>1, <3>4, AskStarts DEF OffClear, OffReset, CloseStop, AskStep
    <3> QED BY <3>2, <3>3, <3>4
  <2>4. CASE Kill \/ PowerCycle \/ UNCHANGED vars
    BY <1>1, <2>4 DEF Kill, PowerCycle, vars
  <2> QED BY <1>1, <2>2, <2>3, <2>4 DEF Next
<1>2. [Next]_vars => [(Silencing /\ engine') => engine]_vars
  BY <1>1
<1> QED BY <1>2, PTL DEF Spec, SilencingNeverStarts

-----------------------------------------------------------------------------
(* The session implements OutputPromise.                                   *)

(* A session step that is a step of the promise, or none.                  *)
Keeps == [Promise!Next]_(Promise!vars)

(* A batch that lights nothing leaves the owed outputs as they are.        *)
LEMMA NothingLit ==
  ASSUME WriteOk(NoOutputs, FALSE) \/ WriteErr(NoOutputs, FALSE)
  PROVE  owed' = owed
  BY DEF WriteOk, WriteErr, Land, NoOutputs, Batch

(* Switching a laser output on by an accounted method is work, any other   *)
(* batch can only fade.                                                    *)
LEMMA BatchKeeps == ASSUME IInv, SendBatch PROVE Keeps
<1>1. call \in ArmedCalls /\ job = "held"
  BY DEF SendBatch, IInv, Running, ArmPcs
<1>2. IsBatch(BatchOf[call]) /\ MarksLive(call) \in BOOLEAN
  BY <1>1, BatchType DEF MarksLive
<1>3. /\ owed' \in SUBSET Lines
      /\ ~MarksLive(call) => owed' \in SUBSET owed
  BY <1>2, WriteType DEF SendBatch, IInv
<1>4. UNCHANGED <<job, closed, gaveUp>> /\ live' = (live \/ MarksLive(call))
  BY DEF SendBatch
<1>5. CASE MarksLive(call)
  <2>1. Promise!Work
    BY <1>1, <1>3, <1>4, <1>5 DEF Promise!Work
  <2> QED BY <2>1 DEF Keeps, Promise!Next
<1>6. CASE ~MarksLive(call)
  <2>1. live' = live
    BY <1>4, <1>6 DEF IInv, TypeOK
  <2>2. Promise!Fade
    BY <1>3, <1>4, <1>6, <2>1 DEF Promise!Fade
  <2> QED BY <2>2 DEF Keeps, Promise!Next
<1> QED BY <1>5, <1>6

(* laser_off() fades the outputs or gives up, and lays its duty down only  *)
(* after one or the other.                                                 *)
LEMMA OffKeeps ==
  ASSUME IInv, OffWrite \/ OffRetry \/ OffClear PROVE Keeps
<1>1. job = "held"
  BY DEF OffWrite, OffRetry, OffClear, IInv, Running
<1>2. ASSUME WriteOk(OffBatch, FALSE), gaveUp' = FALSE,
             UNCHANGED <<job, live, closed>>
      PROVE  Keeps
  <2>1. owed' = {} /\ owed' \in SUBSET owed
    BY <1>2, OffWriteClears, WriteType, NoOutputsBatch DEF IInv
  <2>2. Promise!Fade
    BY <1>2, <2>1 DEF Promise!Fade
  <2> QED BY <2>2 DEF Keeps, Promise!Next
<1>3. ASSUME WriteErr(OffBatch, FALSE), UNCHANGED <<job, live, closed>>,
             gaveUp' = gaveUp \/ gaveUp' = TRUE
      PROVE  Keeps
  <2>1. owed' \in SUBSET owed
    BY <1>3, WriteType, NoOutputsBatch DEF IInv
  <2>2. Promise!Fade \/ Promise!GiveUp
    BY <1>1, <1>3, <2>1 DEF Promise!Fade, Promise!GiveUp
  <2> QED BY <2>2 DEF Keeps, Promise!Next
<1>4. CASE OffWrite
  BY <1>2, <1>3, <1>4 DEF OffWrite
<1>5. CASE OffRetry
  BY <1>2, <1>3, <1>5 DEF OffRetry
<1>6. CASE OffClear
  <2>1. owed = {} \/ gaveUp
    BY <1>6 DEF OffClear, IInv, OffSilences, TypeOK
  <2>2. Promise!Release
    BY <1>1, <1>6, <2>1 DEF OffClear, Promise!Release, history
  <2> QED BY <2>2 DEF Keeps, Promise!Next
<1> QED BY <1>4, <1>5, <1>6

(* What a Job does on its own account: it is created, marks itself live,   *)
(* is closed, dropped, killed or switched off.                             *)
LEMMA LifeKeeps ==
  ASSUME IInv, (\E k \in Kinds : NewJob(k)) \/ LinesDone \/ Shut \/ Kill \/ PowerCycle
  PROVE  Keeps
<1>1. CASE \E k \in Kinds : NewJob(k)
  <2>1. Promise!Start
    BY <1>1 DEF NewJob, Promise!Start
  <2> QED BY <2>1 DEF Keeps, Promise!Next
<1>2. CASE LinesDone
  <2>1. owed \in SUBSET Lines /\ job = "held"
    BY <1>2 DEF LinesDone, IInv, TypeOK, Running
  <2>2. Promise!Work
    BY <1>2, <2>1 DEF LinesDone, Promise!Work, history
  <2> QED BY <2>2 DEF Keeps, Promise!Next
<1>3. CASE Shut
  <2>1. job = "held" /\ pc = "shut" /\ UNCHANGED <<owed, live, gaveUp>>
    BY <1>3 DEF Shut, IInv, Running, history
  <2>2. Promise!End \/ Promise!Close
    BY <1>3, <2>1 DEF Shut, IInv, FlagsDropped, Promise!End, Promise!Close
  <2> QED BY <2>2 DEF Keeps, Promise!Next
<1>4. CASE Kill
  <2>1. Promise!Kill
    BY <1>4 DEF Kill, Promise!Kill, history
  <2> QED BY <2>1 DEF Keeps, Promise!Next
<1>5. CASE PowerCycle
  <2>1. Promise!Fade
    BY <1>5 DEF PowerCycle, Promise!Fade, status
  <2> QED BY <2>1 DEF Keeps, Promise!Next
<1> QED BY <1>1, <1>2, <1>3, <1>4, <1>5

(* Every other step leaves the promise where it is.                        *)
LEMMA RestKeeps ==
  ASSUME UNCHANGED <<status, owed>>
  PROVE  Keeps
  BY DEF Keeps, Promise!vars, status

(* Every transfer of every method is a step of the promise or none.        *)
LEMMA StepKeeps == ASSUME IInv, [Next]_vars PROVE Keeps
<1>1. CASE Client
  <2>1. CASE \E k \in Kinds : NewJob(k)
    BY <2>1, LifeKeeps
  <2>2. CASE ~ \E k \in Kinds : NewJob(k)
    <3>1. \/ \E k \in Kinds : Select(k)
          \/ \E flag \in BOOLEAN : Tick(flag) \/ Mo(flag) \/ CallClose(flag)
          \/ \E c \in ArmedCalls, flag \in BOOLEAN : CallArmed(c, flag)
          \/ Configure \/ CallLines \/ PlainWrite \/ Query \/ Stop
          \/ CallLaserOff \/ CallDrop \/ CallAbort \/ CallGuard
      BY <1>1, <2>2 DEF Client
    <3>2. UNCHANGED <<status, owed>>
      BY <3>1, NothingLit
         DEF Select, Tick, Mo, CallClose, CallArmed, Configure, CallLines, PlainWrite,
             Query, Stop, CallLaserOff, CallDrop, CallAbort, CallGuard,
             SettingsOnly, Enter, history
    <3> QED BY <3>2, RestKeeps
  <2> QED BY <2>1, <2>2
<1>2. CASE Method
  <2>1. CASE SendBatch
    BY <2>1, BatchKeeps
  <2>2. CASE OffWrite \/ OffRetry \/ OffClear
    BY <2>2, OffKeeps
  <2>3. CASE LinesDone \/ Shut
    BY <2>3, LifeKeeps
  <2>4. CASE \/ ArmClear \/ ArmReset \/ ArmRun \/ TickReset \/ OffRecover \/ OffReset
             \/ CloseStop \/ GuardPoll \/ GuardTimeout
             \/ AbortGate \/ AbortClear \/ AbortReset \/ AbortRun \/ AbortEnd
    <3>1. UNCHANGED <<status, owed>>
      BY <2>4 DEF ArmClear, ArmReset, ArmRun, TickReset, OffRecover, OffReset,
             CloseStop, GuardPoll, GuardTimeout, AbortGate, AbortClear, AbortReset,
             AbortRun, AbortEnd, AskStep, history
    <3> QED BY <3>1, RestKeeps
  <2>5. CASE AxisWrite \/ LinesChunk
    <3>1. UNCHANGED <<status, owed>>
      BY <2>5, NothingLit DEF AxisWrite, LinesChunk
    <3> QED BY <3>1, RestKeeps
  <2> QED BY <1>2, <2>1, <2>2, <2>3, <2>4, <2>5 DEF Method
<1>3. CASE Kill \/ PowerCycle
  BY <1>3, LifeKeeps
<1>4. CASE UNCHANGED vars
  BY <1>4, RestKeeps DEF vars, history
<1> QED BY <1>1, <1>2, <1>3, <1>4 DEF Next

(* The detailed session implements the abstract promise: no transfer of    *)
(* any method, failed or not, drops a duty that is still owed.             *)
THEOREM Implementation == Spec => PromiseKept
<1>1. Init => Promise!Init
  BY DEF Init, Promise!Init
<1>2. IInv /\ [Next]_vars => [Promise!Next]_(Promise!vars)
  BY StepKeeps DEF Keeps
<1> QED BY <1>1, <1>2, Invariance, PTL DEF Spec, PromiseKept, Promise!Spec

-----------------------------------------------------------------------------
(* On Windows, where a closed handle takes no more transfers, a client that *)
(* closes quietly leaves nothing owed behind, however its job ends.        *)

(* The strengthening: a quiet close() that is past its silencing is not    *)
(* live, and a job it closed owes nothing from then on.                    *)
QuietEnd ==
  /\ pc \in OffPcs => call \in {"laser_off", "close", "drop"}
  /\ pc \in {"closeStop", "shut"} =>
       call \in {"close", "drop"} /\ (call = "close" /\ ~closed => ~live)
  /\ closed /\ ~gaveUp => owed = {}

(* A closed job's writes land nowhere.                                     *)
LEMMA ClosedWrite ==
  ASSUME Backend = "windows", closed, NEW b, NEW owes,
         WriteOk(b, owes) \/ WriteErr(b, owes)
  PROVE  owed' = owed /\ ~WriteOk(b, owes)
  BY DEF WriteOk, WriteErr, Reachable

(* A step that does not reach for the end of the job.                      *)
LEMMA QuietElsewhere ==
  ASSUME QuietEnd, UNCHANGED closed, closed => UNCHANGED <<gaveUp, owed>>,
         pc' \notin OffPcs \cup {"closeStop", "shut"}
  PROVE  QuietEnd'
  BY DEF QuietEnd

(* A step of laser_off(), close() or Drop towards its end.                 *)
LEMMA QuietSilencing ==
  ASSUME QuietEnd, UNCHANGED <<closed, call, arg>>, closed => UNCHANGED owed,
         closed => (gaveUp' = gaveUp \/ gaveUp'),
         pc \in OffPcs, pc' \in OffPcs
  PROVE  QuietEnd'
  BY DEF QuietEnd, OffPcs

(* What the client does keeps a quiet end ...                              *)
LEMMA QuietClient ==
  ASSUME "close_loud" \notin Calls, Backend = "windows", IInv, QuietEnd, Client
  PROVE  QuietEnd'
<1> USE DEF Ready, Enter, SettingsOnly, status, control, history, OffPcs, ArmPcs
<1>1. ASSUME NEW k \in Kinds, NewJob(k) PROVE QuietEnd'
  BY <1>1 DEF NewJob, QuietEnd
<1>2. ASSUME NEW k \in Kinds, Select(k) PROVE QuietEnd'
  BY <1>2 DEF Select, QuietEnd
<1>3. ASSUME NEW flag \in BOOLEAN, Tick(flag) \/ Mo(flag) PROVE QuietEnd'
  BY <1>3 DEF Tick, Mo, QuietEnd
<1>4. ASSUME NEW flag \in BOOLEAN, CallClose(flag) PROVE QuietEnd'
  BY <1>4 DEF CallClose, QuietEnd
<1>5. ASSUME NEW c \in ArmedCalls, NEW flag \in BOOLEAN, CallArmed(c, flag)
      PROVE  QuietEnd'
  BY <1>5 DEF CallArmed, QuietEnd
<1>6. CASE Configure \/ Query \/ Stop
  <2>1. UNCHANGED <<status, control, history>>
    BY <1>6 DEF Configure, Query, Stop
  <2> QED BY <2>1 DEF QuietEnd
<1>7. CASE PlainWrite
  <2>1. pc' = pc /\ UNCHANGED <<closed, gaveUp>> /\ pc = "idle"
    BY <1>7 DEF PlainWrite
  <2>2. closed => owed' = owed
    BY <1>7, ClosedWrite DEF PlainWrite
  <2> QED BY <2>1, <2>2, QuietElsewhere
<1>8. CASE CallLines \/ CallAbort \/ CallGuard
  BY <1>8 DEF CallLines, CallAbort, CallGuard, QuietEnd, AbortPcs
<1>9. CASE CallLaserOff \/ CallDrop
  BY <1>9 DEF CallLaserOff, CallDrop, QuietEnd
<1> QED
  BY <1>1, <1>2, <1>3, <1>4, <1>5, <1>6, <1>7, <1>8, <1>9 DEF Client

(* ... and so does every step of a method.                                 *)
LEMMA QuietMethod ==
  ASSUME Backend = "windows", IInv, QuietEnd, Method PROVE QuietEnd'
<1>1. CASE \/ ArmClear \/ ArmReset \/ ArmRun \/ TickReset \/ GuardPoll
           \/ GuardTimeout \/ AbortGate \/ AbortClear \/ AbortReset \/ AbortRun
           \/ AbortEnd \/ LinesDone
  <2>1. UNCHANGED <<closed, gaveUp, owed>>
    BY <1>1 DEF ArmClear, ArmReset, ArmRun, TickReset, GuardPoll, GuardTimeout,
                AbortGate, AbortClear, AbortReset, AbortRun, AbortEnd, LinesDone,
                AskStep, status, history
  <2>2. pc' \notin OffPcs \cup {"closeStop", "shut"}
    BY <1>1 DEF ArmClear, ArmReset, ArmRun, TickReset, GuardPoll, GuardTimeout,
                AbortGate, AbortClear, AbortReset, AbortRun, AbortEnd, LinesDone,
                AskStep, Goto, OffPcs
  <2> QED BY <2>1, <2>2, QuietElsewhere
<1>2. CASE SendBatch \/ AxisWrite \/ LinesChunk
  <2>1. UNCHANGED <<closed, gaveUp>>
    BY <1>2 DEF SendBatch, AxisWrite, LinesChunk, status
  <2>2. closed => owed' = owed
    BY <1>2, ClosedWrite DEF SendBatch, AxisWrite, LinesChunk
  <2>3. pc' \in {"axisWrite", "tickReset", "lines", "idle"}
    BY <1>2 DEF SendBatch, AxisWrite, LinesChunk, Goto
  <2>4. pc' \notin OffPcs \cup {"closeStop", "shut"}
    BY <2>3 DEF OffPcs
  <2> QED BY <2>1, <2>2, <2>4, QuietElsewhere
<1>3. CASE OffWrite \/ OffRetry
  <2>1. UNCHANGED closed /\ pc \in OffPcs
    BY <1>3 DEF OffWrite, OffRetry, OffPcs
  <2>2. pc' \in OffPcs /\ UNCHANGED <<call, arg>>
    BY <1>3 DEF OffWrite, OffRetry, Goto, OffPcs
  <2>3. closed => UNCHANGED owed /\ (gaveUp' = gaveUp \/ gaveUp')
    BY <1>3, ClosedWrite DEF OffWrite, OffRetry
  <2> QED BY <2>1, <2>2, <2>3, QuietSilencing
<1>4. CASE OffRecover \/ OffClear
  <2>1. UNCHANGED <<closed, gaveUp, owed>> /\ pc \in OffPcs
    BY <1>4 DEF OffRecover, OffClear, OffPcs, status, history
  <2>2. pc' \in OffPcs /\ UNCHANGED <<call, arg>>
    BY <1>4 DEF OffRecover, OffClear, Goto, OffPcs
  <2> QED BY <2>1, <2>2, QuietSilencing
<1>5. CASE OffReset
  <2>1. pc = "offReset" /\ UNCHANGED <<closed, gaveUp, owed, live>>
    BY <1>5 DEF OffReset, AskStep, status, history
  <2>2. CASE call = "laser_off"
    BY <1>5, <2>1, <2>2 DEF OffReset, AskStep, Goto, QuietEnd, OffPcs
  <2>3. CASE call # "laser_off"
    <3>1. pc' = "shut" /\ call' = call
      BY <1>5, <2>3 DEF OffReset, AskStep, Goto
    <3>2. ~live
      BY <2>1 DEF IInv, FlagsDropped
    <3> QED BY <2>1, <2>3, <3>1, <3>2 DEF QuietEnd, OffPcs
  <2> QED BY <2>2, <2>3
<1>6. CASE CloseStop
  BY <1>6 DEF CloseStop, AskStep, Goto, QuietEnd, OffPcs, status, history
<1>7. CASE Shut
  <2>1. /\ pc = "shut" /\ pc' = "idle" /\ UNCHANGED <<gaveUp, owed>>
        /\ call = "drop" => UNCHANGED closed
        /\ job = "held"
    BY <1>7 DEF Shut, Goto, history, IInv, Running
  <2>2. call # "drop" => (closed \/ ~live)
    BY <2>1 DEF QuietEnd
  <2>3. call # "drop" => (~gaveUp => owed = {})
    BY <2>1, <2>2 DEF QuietEnd, IInv, LiveAccounting
  <2> QED BY <2>1, <2>3 DEF QuietEnd, OffPcs
<1> QED
  BY <1>1, <1>2, <1>3, <1>4, <1>5, <1>6, <1>7 DEF Method

(* A quiet client on Windows: every job that is dropped, closed or not,    *)
(* leaves no accounted output driving that it has not warned about.        *)
THEOREM QuietWindowsEndsSilent ==
  ASSUME Backend = "windows", "close_loud" \notin Calls
  PROVE  Spec => []EndsSilent
<1>1. Init => QuietEnd
  BY DEF Init, QuietEnd, OffPcs
<1>2. IInv /\ QuietEnd /\ [Next]_vars => QuietEnd'
  <2> SUFFICES ASSUME IInv, QuietEnd, [Next]_vars PROVE QuietEnd'
    OBVIOUS
  <2>1. CASE Client
    BY <2>1, QuietClient
  <2>2. CASE Method
    BY <2>2, QuietMethod
  <2>3. CASE Kill
    BY <2>3 DEF Kill, Goto, QuietEnd, OffPcs, history
  <2>4. CASE PowerCycle
    BY <2>4 DEF PowerCycle, QuietEnd, status, control
  <2>5. CASE UNCHANGED vars
    BY <2>5 DEF QuietEnd, vars, status, control, history
  <2> QED BY <2>1, <2>2, <2>3, <2>4, <2>5 DEF Next
<1>3. IInv /\ QuietEnd => EndsSilent
  BY DEF IInv, QuietEnd, LiveAccounting, FlagsDropped, EndsSilent
<1> QED BY <1>1, <1>2, <1>3, Invariance, PTL DEF Spec
=============================================================================
