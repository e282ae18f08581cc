---------------------------- MODULE LaserSession ----------------------------
(***************************************************************************)
(* A host session against one DBK2JP board: the life of a Job (job.rs)     *)
(* from Job::new to close, Drop or a hard kill, and the output registers   *)
(* it leaves behind on the board.                                          *)
(*                                                                         *)
(* The board's outputs latch.  A level programmed by a batch on EP 0x02    *)
(* stays until a later batch clears it: it survives a reset, the end of    *)
(* the job and the exit of the process.  The host keeps one flag, `live',  *)
(* that says whether close and Drop have to silence anything.  The module  *)
(* is about the distance between that flag and the registers.              *)
(*                                                                         *)
(* Every USB transfer is one step, so a kill, a stalled endpoint or a      *)
(* partial write can fall between any two transfers of a method.           *)
(***************************************************************************)
EXTENDS FiniteSets

CONSTANTS
  Kinds,    \* the laser types a client selects, a subset of LaserTypes
  Calls,    \* the Job methods a client uses, a subset of Methods
  Backend,  \* "libusb" or "windows"
  Faulty    \* whether transfers may fail

(* The output registers a batch can latch (0x0211 MO enable, 0x0211 pilot  *)
(* pointer, 0x0210 duty and power word, tickle generator), in wire order.  *)
Lines == {"mo", "pointer", "power", "tickle"}

(* What a failed write may still have delivered: a prefix of the batch.    *)
Prefixes == {{}, {"mo", "pointer"}, {"mo", "pointer", "power"}, Lines}

LaserTypes == {"co2", "fiber", "uv", "green", "mopa", "yag"}
ByteTypes  == {"fiber", "mopa"}    \* Power::Byte, the others are Power::Pwm
Tickles(k) == k = "co2"            \* Laser::tickle

ArmedCalls == {"begin", "mopa_pulse", "power_byte", "red_light", "axis_move",
               "dac", "tick_off", "laser_port_switch"}
Methods == ArmedCalls \cup {"lines", "plain_write", "query", "stop", "abort",
             "guard", "laser_off", "close", "close_loud", "drop",
             "select", "configure", "tick", "mo"}

ASSUME KindsAssumption   == Kinds \subseteq LaserTypes
ASSUME CallsAssumption   == Calls \subseteq Methods
ASSUME BackendAssumption == Backend \in {"libusb", "windows"}
ASSUME FaultyAssumption  == Faulty \in BOOLEAN

VARIABLES
  kind, pct, byte, mo, tickle,   \* Job's settings; pct, byte: is it non-zero?
  job,                           \* "none", "held", "dropped" or "killed"
  live, closed,                  \* Job::live, Job::closed
  gaveUp,                        \* the last laser_off() warned and gave up
  pc, call, arg,                 \* the step, method and flag in progress
  latched, engine, halted,       \* board: registers, 0x0104 engine, stalls
  own, owed                      \* history: which latched lines this job
                                 \* switched on, and which of those by a
                                 \* method that marks the job live

settings == <<kind, pct, byte, mo, tickle>>
status   == <<job, live, closed, gaveUp>>
control  == <<pc, call, arg>>
history  == <<own, owed>>
vars == <<settings, status, control, latched, engine, halted, history>>

ArmPcs   == {"armClear", "armReset", "armRun", "batch"}
OffPcs   == {"offWrite", "offRecover", "offRetry", "offClear", "offReset"}
AbortPcs == {"abortGate", "abortClear", "abortReset", "abortRun", "abortEnd"}
Pcs == {"idle", "axisWrite", "tickReset", "lines", "guard", "closeStop",
        "shut"} \cup ArmPcs \cup OffPcs \cup AbortPcs

(* A power-cycled board, no process.                                       *)
Init ==
  /\ kind \in Kinds /\ pct = TRUE /\ byte = TRUE /\ mo = FALSE
  /\ tickle = Tickles(kind)
  /\ job = "none" /\ live = FALSE /\ closed = FALSE /\ gaveUp = FALSE
  /\ pc = "idle" /\ call = "none" /\ arg = FALSE
  /\ latched = {} /\ engine = FALSE /\ halted = {}
  /\ own = {} /\ owed = {}

-----------------------------------------------------------------------------
(* Batches: the registers a method's EP 0x02 blob writes, and those it     *)
(* leaves driving.  A 0x0211 always writes both the MO bit and the pointer *)
(* byte.  Methods that pass a literal pass it here.                        *)

Batch(w, on) == [writes |-> w, on |-> on]
When(cond, line) == IF cond THEN {line} ELSE {}
IsByte == kind \in ByteTypes

(* set_power_raw(freq, power_byte, 0, power_pct) or set_power_0210.        *)
HeaderPower == pct \/ (IsByte /\ byte)

Header ==
  Batch(Lines, When(mo, "mo") \cup When(HeaderPower, "power")
                 \cup When(tickle, "tickle"))

PowerByteBatch == Batch(Lines \ {"tickle"}, When(arg, "power"))

RedLightBatch ==
  Batch(Lines, When(arg, "pointer") \cup When(pct, "power")
                 \cup When(tickle, "tickle"))

(* set_power_raw(freq, 0x80, 0, 0.0): no duty, but bit 7 of the parallel   *)
(* word P0..P7, whichever laser is selected.                               *)
HalfWordBatch == Batch(Lines \ {"tickle"}, {"power"})

TickOffBatch == Batch({"tickle"}, {})
NoOutputs    == Batch({}, {})
(* Mutant of OffBatch: the tickle frame left out.                          *)
OffBatchNoTickle == Batch(Lines \ {"tickle"}, {})
OffBatch     == Batch(Lines, {})

BatchOf ==
  [begin      |-> Header,         mopa_pulse |-> Header,
   power_byte |-> PowerByteBatch, red_light  |-> RedLightBatch,
   axis_move  |-> HalfWordBatch,  dac        |-> HalfWordBatch,
   tick_off   |-> TickOffBatch,   laser_port_switch |-> NoOutputs]

(* The methods that set `live' before their batch is written.              *)
MarksLive(c) == c \in {"begin", "mopa_pulse", "power_byte", "dac"}

-----------------------------------------------------------------------------
(* Transfers.                                                              *)

(* Mutant of Reachable: a handle that goes on taking transfers.            *)
AlwaysReachable == TRUE

(* CYUSB3's handle is gone after close; libusb's still takes transfers.    *)
Reachable == closed => Backend = "libusb"

(* Mutant of Land: a later batch that clears a line leaves its history.    *)
LandKeepsHistory(b, L, owes) ==
  /\ latched' = (latched \ (b.writes \cap L)) \cup (b.on \cap L)
  /\ own'  = own \cup (b.on \cap L)
  /\ owed' = owed \cup (IF owes THEN b.on \cap L ELSE {})

(* The part L of batch b reaches the registers; `owes': by a live call.    *)
Land(b, L, owes) ==
  LET cleared == b.writes \cap L
      lit     == b.on \cap L
  IN /\ latched' = (latched \ cleared) \cup lit
     /\ own'  = (own \ cleared) \cup lit
     /\ owed' = (owed \ cleared) \cup (IF owes THEN lit ELSE {})

WriteOk(b, owes) ==
  /\ Reachable /\ "data" \notin halted
  /\ Land(b, Lines, owes)
  /\ UNCHANGED halted

(* The write returns Err: the pipe was halted, the handle closed, or the   *)
(* transfer failed part way, perhaps leaving the pipe halted.              *)
WriteErr(b, owes) ==
  \/ /\ ~Reachable \/ "data" \in halted
     /\ UNCHANGED <<latched, own, owed, halted>>
  \/ /\ Faulty /\ Reachable /\ "data" \notin halted
     /\ \E L \in Prefixes : Land(b, L, owes)
     /\ halted' \in {halted, halted \cup {"data"}}

(* The control commands: 0x0104 starts the engine, a reset stops it.       *)
After(op) == op = "RUN" \/ (engine /\ op # "RESET")

(* Board::ask on EP 0x06, its answer ignored.  A refused write is lost and *)
(* recovers nothing; a failed read recovers all pipes and sends again.     *)
Ask(op) ==
  \/ /\ ~Reachable \/ "ctrl" \in halted
     /\ UNCHANGED <<engine, halted>>
  \/ /\ Reachable /\ "ctrl" \notin halted
     /\ engine' = After(op)
     /\ halted' \in IF Faulty
                      THEN {halted, halted \cup {"ctrl"}, {}, {"ctrl"}}
                      ELSE {halted}
  \/ /\ Faulty /\ Reachable /\ "ctrl" \notin halted
     /\ UNCHANGED engine
     /\ halted' \in {halted, halted \cup {"ctrl"}}

(* Transport::close and a fresh open clear the halts on libusb only.       *)
ClearHalts == IF Backend = "libusb" THEN {} ELSE halted

-----------------------------------------------------------------------------
(* Processes.                                                              *)

(* A method that returns leaves nothing behind of its call.               *)
Goto(l) ==
  /\ pc' = l
  /\ IF l = "idle" THEN call' = "none" /\ arg' = FALSE
                   ELSE UNCHANGED <<call, arg>>

(* Board::open and Job::new.                                               *)
NewJob(k) ==
  /\ job # "held" /\ pc = "idle"
  /\ kind' = k /\ pct' = TRUE /\ byte' = TRUE /\ mo' = FALSE
  /\ tickle' = Tickles(k)
  /\ job' = "held" /\ live' = FALSE /\ closed' = FALSE /\ gaveUp' = FALSE
  /\ halted' = ClearHalts
  /\ own' = {} /\ owed' = {}
  /\ UNCHANGED <<control, latched, engine>>

(* The process dies with no unwinding: nothing is sent.                    *)
Kill ==
  /\ job = "held"
  /\ job' = "killed" /\ Goto("idle")
  /\ UNCHANGED <<settings, live, closed, gaveUp, latched, engine, halted,
                 history>>

PowerCycle ==
  /\ job # "held"
  /\ latched' = {} /\ engine' = FALSE /\ halted' = {}
  /\ own' = {} /\ owed' = {}
  /\ UNCHANGED <<settings, status, control>>

-----------------------------------------------------------------------------
(* Settings.  Settings.tla has the checks in full; here only what decides  *)
(* the registers.                                                          *)

Ready(c) == job = "held" /\ pc = "idle" /\ c \in Calls
SettingsOnly == UNCHANGED <<status, control, latched, engine, halted, history>>

Select(k) ==
  /\ Ready("select")
  /\ kind' = k /\ pct' = TRUE /\ byte' = TRUE /\ mo' = FALSE
  /\ tickle' = Tickles(k)
  /\ SettingsOnly

Configure ==
  /\ Ready("configure")
  /\ pct' \in BOOLEAN
  /\ byte' \in (IF IsByte THEN BOOLEAN ELSE {byte})
  /\ mo' \in BOOLEAN
  /\ tickle' \in ({FALSE, tickle} \cup (IF Tickles(kind) THEN {TRUE} ELSE {}))
  /\ UNCHANGED kind
  /\ SettingsOnly

(* tick(.., enable) never asks whether the laser has a tickle.             *)
Tick(enable) ==
  /\ Ready("tick")
  /\ tickle' = enable
  /\ UNCHANGED <<kind, pct, byte, mo>>
  /\ SettingsOnly

Mo(on) ==
  /\ Ready("mo")
  /\ mo' = on
  /\ UNCHANGED <<kind, pct, byte, tickle>>
  /\ SettingsOnly

-----------------------------------------------------------------------------
(* Methods that arm the engine and then write one batch.                   *)

Enter(c, flag, first) ==
  /\ Ready(c)
  /\ call' = c /\ arg' = flag /\ pc' = first
  /\ UNCHANGED <<status, latched, engine, halted, history>>

(* red_light(on) and power_byte(value) take a flag.  tick_off() drops its  *)
(* setting before it sends anything.                                       *)
CallArmed(c, flag) ==
  /\ flag => c \in {"red_light", "power_byte"}
  /\ Enter(c, flag, "armClear")
  /\ tickle' = (tickle /\ c # "tick_off")
  /\ UNCHANGED <<kind, pct, byte, mo>>

AskStep(from, op, to) ==
  /\ pc = from /\ Ask(op) /\ Goto(to)
  /\ UNCHANGED <<settings, status, latched, history>>

ArmClear == AskStep("armClear", "CLEAR", "armReset")
ArmReset == AskStep("armReset", "RESET", "armRun")
ArmRun   == AskStep("armRun", "RUN", "batch")

(* Mutant of SendBatch: the job is marked live once the write succeeded,   *)
(* the way lines() does it.                                                *)
SendBatchThenLive ==
  /\ pc = "batch"
  /\ \/ /\ WriteOk(BatchOf[call], MarksLive(call))
        /\ live' = (live \/ MarksLive(call))
        /\ Goto(IF call = "axis_move" THEN "axisWrite"
                ELSE IF call = "tick_off" THEN "tickReset" ELSE "idle")
     \/ /\ WriteErr(BatchOf[call], MarksLive(call))
        /\ Goto("idle") /\ UNCHANGED live
  /\ UNCHANGED <<settings, job, closed, gaveUp, engine>>

SendBatch ==
  /\ pc = "batch"
  /\ live' = (live \/ MarksLive(call))
  /\ \/ /\ WriteOk(BatchOf[call], MarksLive(call))
        /\ Goto(IF call = "axis_move" THEN "axisWrite"
                ELSE IF call = "tick_off" THEN "tickReset" ELSE "idle")
     \/ /\ WriteErr(BatchOf[call], MarksLive(call))
        /\ Goto("idle")
  /\ UNCHANGED <<settings, job, closed, gaveUp, engine>>

(* axis_move's second batch: 0x0230 .. 0x0234, no laser output.            *)
AxisWrite ==
  /\ pc = "axisWrite" /\ Goto("idle")
  /\ WriteOk(NoOutputs, FALSE) \/ WriteErr(NoOutputs, FALSE)
  /\ UNCHANGED <<settings, status, engine>>

TickReset == AskStep("tickReset", "RESET", "idle")

-----------------------------------------------------------------------------
(* Geometry and queries.                                                   *)

CallLines == Enter("lines", FALSE, "lines") /\ UNCHANGED settings

(* One chunk of lines(), path(), segments(), dots() or pwm_burst(); a      *)
(* chunk that fails ends the call before it has marked the job live.       *)
LinesChunk ==
  /\ pc = "lines"
  /\ \/ WriteOk(NoOutputs, FALSE) /\ Goto("lines")
     \/ WriteErr(NoOutputs, FALSE) /\ Goto("idle")
  /\ UNCHANGED <<settings, status, engine>>

LinesDone ==
  /\ pc = "lines" /\ Goto("idle")
  /\ live' = TRUE
  /\ UNCHANGED <<settings, job, closed, gaveUp, latched, engine, halted, history>>

(* jump() and out_pulse().                                                 *)
PlainWrite ==
  /\ Ready("plain_write")
  /\ WriteOk(NoOutputs, FALSE) \/ WriteErr(NoOutputs, FALSE)
  /\ UNCHANGED <<settings, status, control, engine>>

(* status(), unlocked(), out(), out_state() and the readers of the status  *)
(* word: one ask that arms nothing (wait_idle(): several).                 *)
Query ==
  /\ Ready("query") /\ Ask("STATUS")
  /\ UNCHANGED <<settings, status, control, latched, history>>

Stop ==
  /\ Ready("stop") /\ Ask("RESET")
  /\ UNCHANGED <<settings, status, control, latched, history>>

-----------------------------------------------------------------------------
(* laser_off(), on its own or inside close() and Drop.                     *)

CallLaserOff == Enter("laser_off", FALSE, "offWrite") /\ UNCHANGED settings

OffWrite ==
  /\ pc = "offWrite"
  /\ \/ WriteOk(OffBatch, FALSE) /\ Goto("offClear") /\ gaveUp' = FALSE
     \/ WriteErr(OffBatch, FALSE) /\ Goto("offRecover") /\ UNCHANGED gaveUp
  /\ UNCHANGED <<settings, job, live, closed, engine>>

(* Board::recover() on all four endpoints.                                 *)
OffRecover ==
  /\ pc = "offRecover" /\ Goto("offRetry")
  /\ halted' = IF Reachable THEN {} ELSE halted
  /\ UNCHANGED <<settings, status, latched, engine, history>>

(* Mutants of OffRetry: keep trying until it works; swallow the error.     *)
OffRetryForever ==
  /\ pc = "offRetry"
  /\ \/ WriteOk(OffBatch, FALSE) /\ gaveUp' = FALSE /\ Goto("offClear")
     \/ WriteErr(OffBatch, FALSE) /\ gaveUp' = TRUE /\ Goto("offRecover")
  /\ UNCHANGED <<settings, job, live, closed, engine>>

OffRetryMute ==
  /\ pc = "offRetry" /\ Goto("offClear")
  /\ \/ WriteOk(OffBatch, FALSE) /\ gaveUp' = FALSE
     \/ WriteErr(OffBatch, FALSE) /\ UNCHANGED gaveUp
  /\ UNCHANGED <<settings, job, live, closed, engine>>

OffRetry ==
  /\ pc = "offRetry" /\ Goto("offClear")
  /\ \/ WriteOk(OffBatch, FALSE) /\ gaveUp' = FALSE
     \/ WriteErr(OffBatch, FALSE) /\ gaveUp' = TRUE
  /\ UNCHANGED <<settings, job, live, closed, engine>>

(* The flags are dropped whether or not a write succeeded.                 *)
OffClear ==
  /\ pc = "offClear" /\ Goto("offReset")
  /\ tickle' = FALSE /\ mo' = FALSE /\ live' = FALSE
  /\ Ask("CLEAR")
  /\ UNCHANGED <<kind, pct, byte, job, closed, gaveUp, latched, history>>

(* Mutant of OffReset: a sequence that ends armed, as arm() does.          *)
OffResetArming ==
  AskStep("offReset", "RUN", IF call = "laser_off" THEN "idle" ELSE "shut")

OffReset ==
  AskStep("offReset", "RESET", IF call = "laser_off" THEN "idle" ELSE "shut")

-----------------------------------------------------------------------------
(* close(quiet) and Drop.                                                  *)

CallClose(quiet) ==
  /\ Enter(IF quiet THEN "close" ELSE "close_loud", quiet,
           IF quiet /\ live THEN "offWrite" ELSE "closeStop")
  /\ UNCHANGED settings

CloseStop == AskStep("closeStop", "RESET", "shut")

(* Mutant of CallDrop: a Drop that only lets the board go.                 *)
CallDropForgets == Enter("drop", FALSE, "shut") /\ UNCHANGED settings

CallDrop ==
  /\ Enter("drop", FALSE, IF ~closed /\ live THEN "offWrite" ELSE "shut")
  /\ UNCHANGED settings

(* Board::close, from close() or from the drop of the Board.               *)
Shut ==
  /\ pc = "shut" /\ Goto("idle")
  /\ halted' = ClearHalts
  /\ IF call = "drop" THEN job' = "dropped" /\ UNCHANGED closed
                      ELSE closed' = TRUE /\ UNCHANGED job
  /\ UNCHANGED <<settings, live, gaveUp, latched, engine, history>>

-----------------------------------------------------------------------------
(* abort() and guard().                                                    *)

CallAbort == Enter("abort", FALSE, "abortGate") /\ UNCHANGED settings
CallGuard == Enter("guard", FALSE, "guard") /\ UNCHANGED settings

(* One poll of SGIN: unknown and OK poll again, a fault aborts.            *)
GuardPoll ==
  /\ pc = "guard" /\ Ask("STATUS")
  /\ \E sgin \in {"ok", "fault", "unknown"} :
       Goto(IF sgin = "fault" THEN "abortGate" ELSE "guard")
  /\ UNCHANGED <<settings, status, latched, history>>

GuardTimeout ==
  /\ pc = "guard" /\ Goto("idle")
  /\ UNCHANGED <<settings, status, latched, engine, halted, history>>

(* The gate command goes out on EP 0x06, where the board ignores it.       *)
AbortGate  == AskStep("abortGate", "GATE", "abortClear")
AbortClear == AskStep("abortClear", "CLEAR", "abortReset")
AbortReset == AskStep("abortReset", "RESET", "abortRun")
AbortRun   == AskStep("abortRun", "RUN", "abortEnd")

AbortEnd ==
  /\ pc = "abortEnd" /\ Ask("RESET") /\ Goto("idle")
  /\ tickle' = FALSE
  /\ UNCHANGED <<kind, pct, byte, mo, status, latched, history>>

-----------------------------------------------------------------------------
Client ==
  \/ \E k \in Kinds : NewJob(k) \/ Select(k)
  \/ \E flag \in BOOLEAN : Tick(flag) \/ Mo(flag) \/ CallClose(flag)
  \/ \E c \in ArmedCalls, flag \in BOOLEAN : CallArmed(c, flag)
  \/ Configure \/ CallLines \/ PlainWrite \/ Query \/ Stop
  \/ CallLaserOff \/ CallDrop \/ CallAbort \/ CallGuard

Method ==
  \/ ArmClear \/ ArmReset \/ ArmRun \/ SendBatch \/ AxisWrite \/ TickReset
  \/ LinesChunk \/ LinesDone
  \/ OffWrite \/ OffRecover \/ OffRetry \/ OffClear \/ OffReset
  \/ CloseStop \/ Shut
  \/ GuardPoll \/ GuardTimeout
  \/ AbortGate \/ AbortClear \/ AbortReset \/ AbortRun \/ AbortEnd

Next == Client \/ Method \/ Kill \/ PowerCycle

(* A method in progress runs on: the host is one thread and every transfer *)
(* has a timeout.  The client, the kill and the power switch owe nothing.  *)
Spec     == Init /\ [][Next]_vars
FairSpec == Spec /\ WF_vars(Method)

-----------------------------------------------------------------------------
(* Properties.                                                             *)

TypeOK ==
  /\ kind \in LaserTypes
  /\ pct \in BOOLEAN /\ byte \in BOOLEAN /\ mo \in BOOLEAN /\ tickle \in BOOLEAN
  /\ job \in {"none", "held", "dropped", "killed"}
  /\ live \in BOOLEAN /\ closed \in BOOLEAN /\ gaveUp \in BOOLEAN
  /\ pc \in Pcs /\ call \in Methods \cup {"none"} /\ arg \in BOOLEAN
  /\ latched \subseteq Lines /\ engine \in BOOLEAN
  /\ halted \subseteq {"data", "ctrl"}
  /\ own \subseteq latched /\ owed \subseteq own

(* What the flag is for: while `live' is clear, nothing this job put on    *)
(* the outputs through a header, power_byte() or dac() is still latched,   *)
(* whatever failed on the way, unless the last laser_off() gave up.        *)
LiveAccounting == job # "killed" /\ ~live /\ ~gaveUp => owed = {}

(* laser_off() silences every register, also those of an earlier process   *)
(* and of methods that do not mark the job live, before it goes on to the  *)
(* queue and the reset.                                                    *)
OffSilences == pc \in {"offClear", "offReset"} /\ ~gaveUp => latched = {}

(* Drop on every path out of the scope: a job that was never closed leaves *)
(* none of its accounted outputs behind unless it said it could not.       *)
DropSilences == job = "dropped" /\ ~closed /\ ~gaveUp => owed = {}

(* The same for every end of a job whose client closes quietly, closed or  *)
(* not: a method called on a closed job drives nothing that stays.         *)
EndsSilent == job = "dropped" /\ ~gaveUp => owed = {}

(* The session implements the promise: `live' is the duty, `gaveUp' the    *)
(* excuse, and every transfer of every method is one of its steps or none. *)
Promise == INSTANCE OutputPromise
             WITH Outputs <- Lines, phase <- job, on <- owed, duty <- live,
                  excused <- gaveUp
PromiseKept == Promise!Spec

(* laser_off() must not arm: starting the engine with a power still loaded *)
(* emits a burst.  Nor does anything that close or Drop do afterwards.     *)
SilencingNeverStarts ==
  [][(pc \in OffPcs \cup {"closeStop", "shut"} /\ engine') => engine]_vars

(* Silencing ends even when every write of it fails: laser_off(), close()  *)
(* and Drop get to the end of their steps or the process dies.             *)
SilencingEnds ==
  pc \in OffPcs ~> pc = "idle"

(* job.rs: abort() is to `kill laser output now'.                          *)
AbortKillsOutput ==
  [][pc = "abortEnd" /\ pc' = "idle" => latched' \cap {"power", "tickle"} = {}]_vars

(* API.md: close runs laser_off() for any job that programmed an output.   *)
CloseSilencesOwn ==
  [][pc = "shut" /\ call = "close" /\ pc' = "idle" /\ ~gaveUp => own' = {}]_vars
=============================================================================
