------------------------------ MODULE Settings ------------------------------
(***************************************************************************)
(* The settings of a Job (job.rs) and the checks that guard them: new,     *)
(* select, configure, tick and mo, the methods that drop a setting on the  *)
(* way (laser_off, tick_off, abort), and the two that send a header.       *)
(*                                                                         *)
(* configure() commits its arguments one by one and returns at the first   *)
(* bad one; tick() and mopa_pulse() set what configure() would refuse.     *)
(*                                                                         *)
(* The code's kHz, percents and microseconds are f64.  Here they are whole *)
(* multiples of 1/Grain: of 10 Hz (the 0.74 kHz of tick_range is then 74   *)
(* of them), of a percent and of a microsecond.                            *)
(***************************************************************************)
EXTENDS Integers, FiniteSets

CONSTANTS
  Kinds,       \* the laser types selected
  FreqArgs, PctArgs, ByteArgs, PulseArgs,  \* arguments of configure()
  TickFreqs, TickWidths,                   \* arguments of tick()
  Grain,       \* how fine those are
  Faulty       \* may the write of a header fail?

ASSUME KindsAssumption == Kinds \subseteq {"co2", "fiber", "uv", "green", "mopa", "yag"}
ASSUME ArgsAssumption ==
  /\ FreqArgs \subseteq Nat /\ PctArgs \subseteq Int /\ ByteArgs \subseteq 0..255
  /\ PulseArgs \subseteq Nat /\ TickFreqs \subseteq Nat /\ TickWidths \subseteq Nat
ASSUME GrainAssumption  == Grain \in Nat \ {0}
ASSUME FaultyAssumption == Faulty \in BOOLEAN

None == -1
Opt(S) == S \cup {None}
Word == 65536            \* a parameter of a command is 16 bits wide
Clock == 4800000         \* 48 MHz, in units of 10 Hz

VARIABLES
  laser,   \* the type selected
  set,     \* the other settings; mo and tickle are 0 or 1
  line,    \* the pulse width last clocked out on P1 and P2, or None
  synced,  \* history: has a header gone out whole since the pulse was set?
  odd      \* history: what tick() and mopa_pulse() set past the checks

vars == <<laser, set, line, synced, odd>>

-----------------------------------------------------------------------------
(* laser.rs.                                                               *)
IsByte(k)      == k \in {"fiber", "mopa"}
HasTickle(k)   == k = "co2"
DefaultFreq(k) == IF k \in {"uv", "green", "mopa"} THEN 3000 ELSE 2000
FreqRange(k)   == 100 * Grain .. 4000 * Grain
TickRange(k)   == 74 * Grain .. 10000 * Grain

(* The settings of a new Job, and of one that select() has reset.          *)
Fresh(k) ==
  [freq |-> DefaultFreq(k) * Grain, pct |-> 50 * Grain, byte |-> 128,
   pulse |-> None, mo |-> 0, tickle |-> IF HasTickle(k) THEN 1 ELSE 0,
   tickFreq |-> 500 * Grain, tickWidth |-> Grain]

Init ==
  /\ laser \in Kinds /\ set = Fresh(laser)
  /\ line = None /\ synced = FALSE /\ odd = {}

-----------------------------------------------------------------------------
(* Settings only.                                                          *)
Select(k) ==
  /\ laser' = k /\ set' = Fresh(k)
  /\ odd' = {} /\ synced' = FALSE
  /\ UNCHANGED line

(* The arguments of configure() in the order in which it takes them.       *)
Order == [freq |-> 1, pct |-> 2, byte |-> 3, pulse |-> 4, mo |-> 5, tickle |-> 6]
Configurable == DOMAIN Order

Refused(f, v) ==
  \/ f = "freq" /\ v \notin FreqRange(laser)
  \/ f = "pct" /\ v \notin 0 .. 100 * Grain
  \/ f \in {"byte", "pulse"} /\ ~IsByte(laser)
  \/ f = "tickle" /\ v = 1 /\ ~HasTickle(laser)

Args ==
  [freq : Opt(FreqArgs), pct : Opt(PctArgs), byte : Opt(ByteArgs),
   pulse : Opt(PulseArgs), mo : Opt({0, 1}), tickle : Opt({0, 1})]

Bad(a) == {f \in Configurable : a[f] # None /\ Refused(f, a[f])}

(* Mutant of Committed: each is set and then checked.                      *)
CommittedUnchecked(a) ==
  {f \in Configurable : a[f] # None /\ \A g \in Bad(a) : Order[f] <= Order[g]}

(* Those given before the first bad one are committed, also when the call  *)
(* goes on to return an error.                                             *)
Committed(a) ==
  LET bad == Bad(a)
  IN {f \in Configurable : a[f] # None /\ \A g \in bad : Order[f] < Order[g]}

Configure(a) ==
  LET kept == Committed(a)
  IN /\ set' = [f \in DOMAIN set |-> IF f \in kept THEN a[f] ELSE set[f]]
     /\ synced' = (synced /\ set'.pulse = set.pulse)
     /\ UNCHANGED <<laser, line, odd>>

(* A frequency times its period.                                           *)
Second == 100000 * Grain * Grain

(* Mutant of TickFits: a width as long as the period is let through, and   *)
(* the frequency is not looked at.                                         *)
TickFitsLoosely(f, w) == f > 0 /\ w \in 1..Second \div f

(* A width above zero and below the period.                                *)
TickFits(f, w) == f \in TickRange(laser) /\ w \in 1..(Second - 1) \div f

(* tick(): new values are checked against those kept; whether the laser    *)
(* has a tickle is not asked.                                              *)
Tick(f, w, enable) ==
  LET freq  == IF f = None THEN set.tickFreq ELSE f
      width == IF w = None THEN set.tickWidth ELSE w
      on    == IF enable = None THEN set.tickle ELSE enable
  IN /\ TickFits(freq, width)
     /\ set' = [set EXCEPT !.tickFreq = freq, !.tickWidth = width, !.tickle = on]
     /\ odd' = odd \cup (IF enable = 1 /\ ~HasTickle(laser) THEN {"tickle"} ELSE {})
     /\ UNCHANGED <<laser, line, synced>>

Mo(on) ==
  /\ set' = [set EXCEPT !.mo = on]
  /\ UNCHANGED <<laser, line, synced, odd>>

(* laser_off(), and tick_off() and abort(), which leave mo alone.          *)
LaserOff ==
  /\ set' = [set EXCEPT !.tickle = 0, !.mo = 0]
  /\ UNCHANGED <<laser, line, synced, odd>>

TickleOff ==
  /\ set' = [set EXCEPT !.tickle = 0]
  /\ UNCHANGED <<laser, line, synced, odd>>

-----------------------------------------------------------------------------
(* Headers.  mopa_pulse_ns keeps the low 16 bits of the width.             *)

(* Mutant of Frame: the width as it was given.                            *)
FrameWhole(ns) == ns

Frame(ns) == ns % Word
Frames(ns) == IF ns = None THEN {} ELSE {Frame(ns)}

(* begin(): the header carries a pulse frame only if a pulse is set.  A    *)
(* write that fails may have sent it all the same.                         *)
Begin ==
  /\ \/ /\ line' = IF set.pulse = None THEN line ELSE Frame(set.pulse)
        /\ synced' = TRUE
     \/ /\ Faulty
        /\ line' \in {line} \cup Frames(set.pulse)
        /\ synced' = FALSE
  /\ UNCHANGED <<laser, set, odd>>

(* Mutant of MopaPulse: the new width goes out ahead of the header.        *)
MopaPulseFirst(ns) ==
  /\ set' = [set EXCEPT !.pulse = ns]
  /\ odd' = odd \cup (IF IsByte(laser) THEN {} ELSE {"pulse"})
  /\ line' = IF set.pulse = None THEN Frame(ns) ELSE Frame(set.pulse)
  /\ synced' = TRUE
  /\ UNCHANGED laser

(* mopa_pulse(ns): the header still carries the old width; the new one     *)
(* follows it, and is kept whether or not the write succeeds.              *)
MopaPulse(ns) ==
  /\ set' = [set EXCEPT !.pulse = ns]
  /\ odd' = odd \cup (IF IsByte(laser) THEN {} ELSE {"pulse"})
  /\ \/ line' = Frame(ns) /\ synced' = TRUE
     \/ /\ Faulty
        /\ line' \in {line, Frame(ns)} \cup Frames(set.pulse)
        /\ synced' = FALSE
  /\ UNCHANGED laser

-----------------------------------------------------------------------------
Next ==
  \/ \E k \in Kinds : Select(k)
  \/ \E a \in Args : Configure(a)
  \/ \E f \in Opt(TickFreqs), w \in Opt(TickWidths), e \in Opt({0, 1}) : Tick(f, w, e)
  \/ \E on \in {0, 1} : Mo(on)
  \/ LaserOff \/ TickleOff
  \/ Begin
  \/ \E ns \in PulseArgs : MopaPulse(ns)

Spec == Init /\ [][Next]_vars

-----------------------------------------------------------------------------
TypeOK ==
  /\ laser \in Kinds
  /\ set \in [freq : Nat, pct : Int, byte : 0..255, pulse : Opt(PulseArgs),
              mo : {0, 1}, tickle : {0, 1}, tickFreq : Nat, tickWidth : Nat]
  /\ line \in Opt(0..Word - 1) /\ synced \in BOOLEAN
  /\ odd \subseteq {"pulse", "tickle"}

(* Whatever calls were made, in whatever order, and however many of them   *)
(* were refused half way: the settings are ones the selected laser has, or *)
(* tick() or mopa_pulse() set them since it was selected.                  *)
SettingsFit ==
  /\ set.freq \in FreqRange(laser) /\ set.pct \in 0 .. 100 * Grain
  /\ set.byte # 128 => IsByte(laser)
  /\ set.pulse # None => IsByte(laser) \/ "pulse" \in odd
  /\ set.tickle = 1 => HasTickle(laser) \/ "tickle" \in odd

(* The words of a header, in ticks of 48 MHz.                              *)
Nearest(n, d) == (2 * n + d) \div (2 * d)
Period(f)     == Nearest(Clock * Grain, f)
Duty(pct, f)  == Nearest(pct * (Clock \div 100), f)
Width(w)      == Nearest(48 * w, Grain)

(* What the checks are for: the periods and widths that a header sends fit *)
(* the 16 bits they have, and neither the duty nor the tickle is longer    *)
(* than its period.  Below there is no bound: tick() lets a width under    *)
(* 1/96 us through, which goes out as zero.                                *)
HeaderWordsFit ==
  /\ Period(set.freq) < Word /\ Period(set.tickFreq) < Word
  /\ Duty(set.pct, set.freq) <= Period(set.freq)
  /\ Width(set.tickWidth) <= Period(set.tickFreq)

(* After a header that went out whole, the pulse width on the wire is the  *)
(* one that is set, whatever frames went before it, as long as it fits the *)
(* frame.  With no pulse set the header has no frame, and the line keeps   *)
(* the width of an earlier laser.                                          *)
PulseFollows ==
  synced /\ set.pulse # None /\ set.pulse < Word => line = set.pulse
=============================================================================
