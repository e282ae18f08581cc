--------------------------- MODULE SettingsProofs ---------------------------
(* The checks of configure(), tick() and mo, for every laser and argument. *)
EXTENDS Settings, TLAPS

SetType == [freq : Nat, pct : Int, byte : 0..255, pulse : Opt(PulseArgs),
            mo : {0, 1}, tickle : {0, 1}, tickFreq : Nat, tickWidth : Nat]

LEMMA FreshTyped == \A k : Fresh(k) \in SetType
<1> SUFFICES ASSUME NEW k PROVE Fresh(k) \in SetType
  OBVIOUS
<1>1. \A n \in Nat : n * Grain \in Nat
  BY GrainAssumption
<1>2. DefaultFreq(k) * Grain \in Nat /\ 50 * Grain \in Nat /\ 500 * Grain \in Nat
  BY <1>1 DEF DefaultFreq
<1> QED BY <1>2, GrainAssumption DEF Fresh, SetType, Opt, None

LEMMA ArgsTyped ==
  ASSUME NEW a \in Args
  PROVE  /\ a.freq \in Opt(FreqArgs) /\ a.pct \in Opt(PctArgs) /\ a.byte \in Opt(ByteArgs)
         /\ a.pulse \in Opt(PulseArgs) /\ a.mo \in Opt({0, 1}) /\ a.tickle \in Opt({0, 1})
  BY DEF Args

LEMMA ConfigureSets ==
  ASSUME TypeOK, NEW a \in Args, Configure(a)
  PROVE  /\ set' \in SetType
         /\ \A f \in Configurable :
              \/ set'[f] = set[f]
              \/ set'[f] = a[f] /\ a[f] # None /\ ~Refused(f, a[f])
         /\ set'.tickFreq = set.tickFreq /\ set'.tickWidth = set.tickWidth
         /\ laser' = laser /\ odd' = odd
<1> DEFINE kept == Committed(a)
<1>1. set \in SetType
  BY DEF TypeOK, SetType
<1>2. Configurable = {"freq", "pct", "byte", "pulse", "mo", "tickle"}
  BY DEF Configurable, Order
<1>3. \A f \in Configurable : Order[f] \in Nat
  BY DEF Configurable, Order
<1>4. \A f \in kept : f \in Configurable /\ a[f] # None /\ ~Refused(f, a[f])
  BY <1>3 DEF Committed, Bad
<1>5. set' = [f \in DOMAIN set |-> IF f \in kept THEN a[f] ELSE set[f]]
  BY DEF Configure
<1>6. DOMAIN set = {"freq", "pct", "byte", "pulse", "mo", "tickle", "tickFreq", "tickWidth"}
  BY <1>1 DEF SetType
<1>7. \A f \in Configurable :
        \/ set'[f] = set[f]
        \/ set'[f] = a[f] /\ a[f] # None /\ ~Refused(f, a[f])
  BY <1>2, <1>4, <1>5, <1>6
<1>8. set'.tickFreq = set.tickFreq /\ set'.tickWidth = set.tickWidth
  BY <1>2, <1>4, <1>5, <1>6
<1>9. /\ set'.freq \in Nat /\ set'.pct \in Int /\ set'.byte \in 0..255
      /\ set'.pulse \in Opt(PulseArgs) /\ set'.mo \in {0, 1} /\ set'.tickle \in {0, 1}
  BY <1>1, <1>2, <1>7, ArgsTyped, ArgsAssumption DEF SetType, Opt, None
<1>10. set' \in SetType
  <2>1. set' = [freq |-> set'.freq, pct |-> set'.pct, byte |-> set'.byte,
                pulse |-> set'.pulse, mo |-> set'.mo, tickle |-> set'.tickle,
                tickFreq |-> set'.tickFreq, tickWidth |-> set'.tickWidth]
    BY <1>5, <1>6
  <2>2. set'.tickFreq \in Nat /\ set'.tickWidth \in Nat
    BY <1>1, <1>8 DEF SetType
  <2> QED BY <2>1, <2>2, <1>9 DEF SetType
<1> QED BY <1>7, <1>8, <1>10 DEF Configure

LEMMA Remainder ==
  ASSUME NEW n \in Nat, NEW w \in Nat \ {0} PROVE n % w \in 0..w - 1
  OBVIOUS

LEMMA FrameFits == ASSUME NEW ns \in Nat PROVE Frame(ns) \in 0..Word - 1
<1>1. Word \in Nat \ {0}
  BY DEF Word
<1> QED BY <1>1, Remainder DEF Frame

LEMMA FramesFit ==
  ASSUME NEW ns \in Opt(PulseArgs)
  PROVE  /\ Frames(ns) \subseteq 0..Word - 1
         /\ ns # None => Frame(ns) \in 0..Word - 1
  BY FrameFits, ArgsAssumption DEF Frames, Opt

-----------------------------------------------------------------------------
LEMMA TypeInit == Init => TypeOK
  BY FreshTyped, ZenonT(60) DEF Init, TypeOK, SetType, Opt

LEMMA TypeStep == TypeOK /\ [Next]_vars => TypeOK'
<1> SUFFICES ASSUME TypeOK, [Next]_vars PROVE TypeOK'
  OBVIOUS
<1> USE DEF SetType
<1>1. ASSUME NEW k \in Kinds, Select(k) PROVE TypeOK'
  BY <1>1, FreshTyped DEF Select, TypeOK
<1>2. ASSUME NEW a \in Args, Configure(a) PROVE TypeOK'
  <2>1. set' \in SetType /\ laser' = laser /\ odd' = odd
    BY <1>2, ConfigureSets
  <2>2. synced' \in BOOLEAN
    BY <1>2 DEF Configure
  <2>3. line' = line
    BY <1>2 DEF Configure
  <2> QED BY <2>1, <2>2, <2>3 DEF TypeOK
<1>3. ASSUME NEW f \in Opt(TickFreqs), NEW w \in Opt(TickWidths), NEW e \in Opt({0, 1}),
             Tick(f, w, e)
      PROVE  TypeOK'
  <2> DEFINE freq  == IF f = None THEN set.tickFreq ELSE f
             width == IF w = None THEN set.tickWidth ELSE w
             on    == IF e = None THEN set.tickle ELSE e
  <2>1. freq \in Nat /\ width \in Nat /\ on \in {0, 1}
    BY ArgsAssumption DEF TypeOK, Opt
  <2>2. set' = [set EXCEPT !.tickFreq = freq, !.tickWidth = width, !.tickle = on]
    BY <1>3 DEF Tick
  <2>3. set' \in SetType
    <3> HIDE DEF freq, width, on
    <3>1. set \in SetType
      BY DEF TypeOK
    <3> QED BY <2>1, <2>2, <3>1
  <2>4. odd' \subseteq {"pulse", "tickle"}
    <3>1. odd \subseteq {"pulse", "tickle"}
      BY DEF TypeOK
    <3>2. odd' = odd \cup {"tickle"} \/ odd' = odd \cup {}
      BY <1>3 DEF Tick
    <3> QED BY <3>1, <3>2
  <2> QED BY <1>3, <2>3, <2>4 DEF Tick, TypeOK
<1>4. ASSUME NEW on \in {0, 1}, Mo(on) PROVE TypeOK'
  BY <1>4, ZenonT(60) DEF Mo, TypeOK
<1>5. CASE LaserOff \/ TickleOff
  BY <1>5, ZenonT(60) DEF LaserOff, TickleOff, TypeOK
<1>6. CASE Begin
  <2>1. line' \in Opt(0..Word - 1)
    BY <1>6, FramesFit DEF Begin, TypeOK, Opt
  <2>2. synced' \in BOOLEAN
    BY <1>6 DEF Begin
  <2> QED BY <1>6, <2>1, <2>2 DEF Begin, TypeOK
<1>7. ASSUME NEW ns \in PulseArgs, MopaPulse(ns) PROVE TypeOK'
  <2>1. ns \in Nat /\ ns \in Opt(PulseArgs)
    BY ArgsAssumption DEF Opt
  <2>2. line' \in Opt(0..Word - 1)
    BY <1>7, <2>1, FramesFit, FrameFits DEF MopaPulse, TypeOK, Opt
  <2>3. synced' \in BOOLEAN
    BY <1>7 DEF MopaPulse
  <2>4. set' \in SetType
    BY <1>7, <2>1 DEF MopaPulse, TypeOK
  <2>5. odd' \subseteq {"pulse", "tickle"}
    BY <1>7 DEF MopaPulse, TypeOK
  <2> QED BY <1>7, <2>2, <2>3, <2>4, <2>5 DEF MopaPulse, TypeOK
<1>8. CASE UNCHANGED vars
  BY <1>8 DEF vars, TypeOK
<1> QED BY <1>1, <1>2, <1>3, <1>4, <1>5, <1>6, <1>7, <1>8 DEF Next

(* The settings, and the history kept beside them, are well formed.        *)
THEOREM TypeCorrect == Spec => []TypeOK
<1> QED BY TypeInit, TypeStep, PTL DEF Spec

-----------------------------------------------------------------------------
(* Invariants of the steps.                                                *)
LEMMA FreshFits ==
  ASSUME NEW k
  PROVE  /\ Fresh(k).freq \in FreqRange(k) /\ Fresh(k).pct \in 0 .. 100 * Grain
         /\ Fresh(k).byte = 128 /\ Fresh(k).pulse = None
         /\ Fresh(k).tickle = 1 => HasTickle(k)
<1>1. /\ Fresh(k).freq = DefaultFreq(k) * Grain /\ Fresh(k).pct = 50 * Grain
      /\ Fresh(k).byte = 128 /\ Fresh(k).pulse = None
      /\ Fresh(k).tickle = 1 => HasTickle(k)
  BY DEF Fresh
<1>2. DefaultFreq(k) \in {2000, 3000}
  BY DEF DefaultFreq
<1>3. \A n \in {2000, 3000} : n * Grain \in 100 * Grain .. 4000 * Grain
  BY GrainAssumption
<1>4. 50 * Grain \in 0 .. 100 * Grain
  BY GrainAssumption
<1> QED BY <1>1, <1>2, <1>3, <1>4 DEF FreqRange

LEMMA FitInit == Init => SettingsFit
<1> SUFFICES ASSUME Init PROVE SettingsFit
  OBVIOUS
<1>1. set = Fresh(laser)
  BY DEF Init
<1> QED BY <1>1, FreshFits DEF SettingsFit

LEMMA FitStep == TypeOK /\ SettingsFit /\ [Next]_vars => SettingsFit'
<1> SUFFICES ASSUME TypeOK, SettingsFit, [Next]_vars PROVE SettingsFit'
  OBVIOUS
<1>1. ASSUME NEW k \in Kinds, Select(k) PROVE SettingsFit'
  <2>1. set' = Fresh(laser')
    BY <1>1 DEF Select
  <2> QED BY <2>1, FreshFits DEF SettingsFit
<1>2. ASSUME NEW a \in Args, Configure(a) PROVE SettingsFit'
  <2>1. /\ laser' = laser /\ odd' = odd
        /\ \A f \in {"freq", "pct", "byte", "pulse", "tickle"} :
             set'[f] = set[f] \/ (set'[f] = a[f] /\ a[f] # None /\ ~Refused(f, a[f]))
    BY <1>2, ConfigureSets DEF Configurable, Order
  <2>2. set'.freq \in FreqRange(laser)
    BY <2>1 DEF SettingsFit, Refused
  <2>3. set'.pct \in 0 .. 100 * Grain
    BY <2>1 DEF SettingsFit, Refused
  <2>4. set'.byte # 128 => IsByte(laser)
    BY <2>1 DEF SettingsFit, Refused
  <2>5. set'.pulse # None => IsByte(laser) \/ "pulse" \in odd
    BY <2>1 DEF SettingsFit, Refused
  <2>6. set'.tickle = 1 => HasTickle(laser) \/ "tickle" \in odd
    BY <2>1, SMTT(30) DEF SettingsFit, Refused
  <2> QED BY <2>1, <2>2, <2>3, <2>4, <2>5, <2>6 DEF SettingsFit, FreqRange
<1>3. ASSUME NEW f \in Opt(TickFreqs), NEW w \in Opt(TickWidths), NEW e \in Opt({0, 1}),
             Tick(f, w, e)
      PROVE  SettingsFit'
  <2>1. /\ set'.freq = set.freq /\ set'.pct = set.pct /\ set'.byte = set.byte
        /\ set'.pulse = set.pulse /\ laser' = laser
        /\ set'.tickle = IF e = None THEN set.tickle ELSE e
    BY <1>3 DEF Tick, TypeOK
  <2>2. odd \subseteq odd' /\ (e = 1 /\ ~HasTickle(laser) => "tickle" \in odd')
    BY <1>3 DEF Tick
  <2>3. set'.tickle = 1 => HasTickle(laser) \/ "tickle" \in odd'
    BY <2>1, <2>2 DEF SettingsFit
  <2> QED BY <2>1, <2>2, <2>3 DEF SettingsFit, FreqRange
<1>4. ASSUME NEW on \in {0, 1}, Mo(on) PROVE SettingsFit'
  BY <1>4 DEF Mo, SettingsFit, TypeOK, FreqRange
<1>5. CASE LaserOff \/ TickleOff
  <2>1. /\ set'.freq = set.freq /\ set'.pct = set.pct /\ set'.byte = set.byte
        /\ set'.pulse = set.pulse /\ set'.tickle = 0
    BY <1>5 DEF LaserOff, TickleOff, TypeOK
  <2>2. laser' = laser /\ odd' = odd
    BY <1>5 DEF LaserOff, TickleOff
  <2> QED BY <2>1, <2>2 DEF SettingsFit, FreqRange
<1>6. CASE Begin
  BY <1>6 DEF Begin, SettingsFit, FreqRange
<1>7. ASSUME NEW ns \in PulseArgs, MopaPulse(ns) PROVE SettingsFit'
  <2>1. /\ set'.freq = set.freq /\ set'.pct = set.pct /\ set'.byte = set.byte
        /\ set'.tickle = set.tickle /\ laser' = laser
    BY <1>7 DEF MopaPulse, TypeOK
  <2>2. odd \subseteq odd' /\ (IsByte(laser) \/ "pulse" \in odd')
    BY <1>7 DEF MopaPulse
  <2> QED BY <2>1, <2>2, SMTT(30) DEF SettingsFit, FreqRange
<1>8. CASE UNCHANGED vars
  BY <1>8 DEF vars, SettingsFit, FreqRange
<1> QED BY <1>1, <1>2, <1>3, <1>4, <1>5, <1>6, <1>7, <1>8 DEF Next

(* However the setting calls are ordered, and wherever configure() gives   *)
(* up, the settings stay ones the selected laser has, apart from what      *)
(* tick() and mopa_pulse() set past the checks.                            *)
THEOREM FitsAlways == Spec => []SettingsFit
<1>1. TypeOK /\ SettingsFit /\ [Next]_vars => (TypeOK /\ SettingsFit)'
  BY TypeStep, FitStep
<1> QED BY TypeInit, FitInit, <1>1, PTL DEF Spec

-----------------------------------------------------------------------------
(* The tickle is within its range, and shorter than its period.            *)
TickKept ==
  /\ 74 * Grain <= set.tickFreq /\ set.tickWidth > 0
  /\ set.tickWidth * set.tickFreq < Second

LEMMA SecondTyped ==
  /\ Second \in Nat \ {0}
  /\ \A k : TickRange(k) \subseteq Nat \ {0} /\ \A f \in TickRange(k) : 74 * Grain <= f
<1>1. Grain * Grain \in Nat \ {0}
  BY GrainAssumption
<1>2. Second = 100000 * (Grain * Grain)
  BY GrainAssumption DEF Second
<1>3. Second \in Nat \ {0}
  <2> DEFINE g == Grain * Grain
  <2> HIDE DEF g
  <2>1. \A n \in Nat \ {0} : 100000 * n \in Nat \ {0}
    OBVIOUS
  <2> QED BY <1>1, <1>2, <2>1 DEF g
<1>4. 74 * Grain \in Nat \ {0} /\ 10000 * Grain \in Nat
  BY GrainAssumption
<1> QED BY <1>3, <1>4 DEF TickRange

(* A width that tick() takes, times the frequency.                         *)
LEMMA Shorter ==
  ASSUME NEW k, NEW f \in TickRange(k), NEW w \in 1..(Second - 1) \div f
  PROVE  74 * Grain <= f /\ w > 0 /\ w * f < Second
<1>1. f \in Nat \ {0} /\ 74 * Grain <= f /\ Second - 1 \in Nat
  BY SecondTyped
<1> DEFINE q == (Second - 1) \div f
<1>2. q \in Nat /\ f * q <= Second - 1
  <2> DEFINE n == Second - 1
  <2> HIDE DEF n
  <2>1. \A i \in Nat, d \in Nat \ {0} : i \div d \in Nat /\ d * (i \div d) <= i
    OBVIOUS
  <2>2. n \in Nat
    BY <1>1 DEF n
  <2> QED BY <1>1, <2>1, <2>2 DEF n
<1> HIDE DEF q
<1>3. w \in Nat /\ w > 0 /\ w <= q
  BY <1>2 DEF q
<1>4. w * f \in Nat /\ w * f <= f * q
  BY <1>1, <1>2, <1>3
<1> DEFINE x == w * f
           y == f * q
           n == Second
<1>5. x \in Nat /\ x <= y /\ y <= n - 1 /\ y \in Nat /\ n \in Nat
  BY <1>1, <1>2, <1>4, SecondTyped
<1> HIDE DEF x, y, n
<1>6. x < n
  BY <1>5
<1> QED BY <1>1, <1>3, <1>6 DEF x, n

LEMMA FreshTick ==
  ASSUME NEW k
  PROVE  /\ 74 * Grain <= Fresh(k).tickFreq /\ Fresh(k).tickWidth > 0
         /\ Fresh(k).tickWidth * Fresh(k).tickFreq < Second
<1>1. Fresh(k).tickFreq = 500 * Grain /\ Fresh(k).tickWidth = Grain
  BY DEF Fresh
<1>2. Grain * (500 * Grain) = 500 * (Grain * Grain) /\ Grain * Grain \in Nat \ {0}
  BY GrainAssumption
<1>3. Second = 100000 * (Grain * Grain)
  BY GrainAssumption DEF Second
<1>4. Grain * (500 * Grain) < Second
  <2> DEFINE g == Grain * Grain
  <2> HIDE DEF g
  <2>1. \A n \in Nat \ {0} : 500 * n < 100000 * n
    OBVIOUS
  <2> QED BY <1>2, <1>3, <2>1 DEF g
<1>5. 74 * Grain <= 500 * Grain /\ Grain > 0
  BY GrainAssumption
<1> QED BY <1>1, <1>4, <1>5

LEMMA TickInit == Init => TickKept
<1> SUFFICES ASSUME Init PROVE TickKept
  OBVIOUS
<1>1. set = Fresh(laser)
  BY DEF Init
<1> QED BY <1>1, FreshTick DEF TickKept

LEMMA TickStep == TypeOK /\ TickKept /\ [Next]_vars => TickKept'
<1> SUFFICES ASSUME TypeOK, TickKept, [Next]_vars PROVE TickKept'
  OBVIOUS
<1>1. CASE set'.tickFreq = set.tickFreq /\ set'.tickWidth = set.tickWidth
  BY <1>1, SMTT(30) DEF TickKept
<1>2. ASSUME NEW k \in Kinds, Select(k) PROVE TickKept'
  <2>1. set' = Fresh(k)
    BY <1>2 DEF Select
  <2> QED BY <2>1, FreshTick DEF TickKept
<1>3. ASSUME NEW a \in Args, Configure(a) PROVE TickKept'
  BY <1>1, <1>3, ConfigureSets
<1>4. ASSUME NEW f \in Opt(TickFreqs), NEW w \in Opt(TickWidths), NEW e \in Opt({0, 1}),
             Tick(f, w, e)
      PROVE  TickKept'
  <2> DEFINE freq  == IF f = None THEN set.tickFreq ELSE f
             width == IF w = None THEN set.tickWidth ELSE w
  <2>1. TickFits(freq, width)
    BY <1>4 DEF Tick
  <2>2. set'.tickFreq = freq /\ set'.tickWidth = width
    BY <1>4 DEF Tick, TypeOK
  <2> HIDE DEF freq, width
  <2>3. freq \in TickRange(laser) /\ width \in 1..(Second - 1) \div freq
    BY <2>1 DEF TickFits
  <2>4. 74 * Grain <= freq /\ width > 0 /\ width * freq < Second
    BY <2>3, Shorter
  <2> QED BY <2>2, <2>4 DEF TickKept
<1>5. ASSUME NEW on \in {0, 1}, Mo(on) PROVE TickKept'
  BY <1>1, <1>5 DEF Mo, TypeOK
<1>6. CASE LaserOff \/ TickleOff
  BY <1>1, <1>6 DEF LaserOff, TickleOff, TypeOK
<1>7. CASE Begin \/ UNCHANGED vars
  BY <1>1, <1>7 DEF Begin, vars
<1>8. ASSUME NEW ns \in PulseArgs, MopaPulse(ns) PROVE TickKept'
  BY <1>1, <1>8 DEF MopaPulse, TypeOK
<1> QED BY <1>2, <1>3, <1>4, <1>5, <1>6, <1>7, <1>8, SMTT(30) DEF Next

LEMMA DivideAtLeast ==
  ASSUME NEW n \in Nat, NEW d \in Nat \ {0}, NEW k \in Nat, d * k <= n
  PROVE  k <= n \div d
  OBVIOUS

LEMMA Divide ==
  ASSUME NEW n \in Nat, NEW d \in Nat \ {0}
  PROVE  n \div d \in Nat /\ d * (n \div d) <= n
  OBVIOUS

(* Rounding to the nearest keeps the order of two fractions.               *)
LEMMA NearestGrows ==
  ASSUME NEW a \in Nat, NEW b \in Nat \ {0}, NEW c \in Nat, NEW d \in Nat \ {0},
         a * d <= c * b
  PROVE  Nearest(a, b) <= Nearest(c, d)
<1> DEFINE q == (2 * a + b) \div (2 * b)
<1>1. q \in Nat /\ (2 * b) * q <= 2 * a + b
  <2> DEFINE n == 2 * a + b
             m == 2 * b
  <2>1. n \in Nat /\ m \in Nat \ {0}
    OBVIOUS
  <2> HIDE DEF n, m
  <2>2. n \div m \in Nat /\ m * (n \div m) <= n
    BY <2>1, Divide
  <2> QED BY <2>2 DEF n, m
<1> HIDE DEF q
<1>2. (2 * d) * q <= 2 * c + d
  <2> SUFFICES ASSUME 2 * c + d + 1 <= (2 * d) * q PROVE FALSE
    BY <1>1
  <2>1. b * (2 * c + d + 1) <= b * ((2 * d) * q)
    BY <1>1
  <2>2. d * ((2 * b) * q) <= d * (2 * a + b)
    BY <1>1
  <2>3. b * (2 * c + d + 1) = 2 * (c * b) + b * d + b
    OBVIOUS
  <2>4. d * (2 * a + b) = 2 * (a * d) + b * d
    OBVIOUS
  <2>5. b * ((2 * d) * q) = d * ((2 * b) * q)
    BY <1>1
  <2> DEFINE x == a * d
             y == c * b
             z == b * d
             u == b * ((2 * d) * q)
  <2>6. x \in Nat /\ y \in Nat /\ z \in Nat /\ u \in Nat
    BY <1>1
  <2>7. 2 * y + z + b <= u /\ u <= 2 * x + z /\ x <= y
    BY <2>1, <2>2, <2>3, <2>4, <2>5
  <2> HIDE DEF x, y, z, u
  <2> QED BY <2>6, <2>7
<1>3. q <= (2 * c + d) \div (2 * d)
  <2> DEFINE n == 2 * c + d
             m == 2 * d
  <2>1. n \in Nat /\ m \in Nat \ {0} /\ m * q <= n
    BY <1>2
  <2> HIDE DEF n, m
  <2>2. q <= n \div m
    BY <1>1, <2>1, DivideAtLeast
  <2> QED BY <2>2 DEF n, m
<1> QED BY <1>3 DEF Nearest, q

LEMMA ClockTyped ==
  Clock * Grain \in Nat /\ Clock \in Nat /\ Clock \div 100 = 48000
  BY GrainAssumption DEF Clock

LEMMA PeriodFits ==
  ASSUME NEW f \in Nat \ {0}, 74 * Grain <= f
  PROVE  Period(f) < Word
<1>1. Nearest(Clock, 74) < Word
  BY DEF Nearest, Clock, Word
<1>2. (Clock * Grain) * 74 <= Clock * f
  BY GrainAssumption DEF Clock
<1>3. Nearest(Clock * Grain, f) <= Nearest(Clock, 74)
  BY <1>2, ClockTyped, NearestGrows
<1>4. Nearest(Clock * Grain, f) \in Int /\ Nearest(Clock, 74) \in Int
  <2>1. \A n \in Nat, d \in Nat \ {0} : (2 * n + d) \div (2 * d) \in Int
    OBVIOUS
  <2> QED BY <2>1, ClockTyped DEF Nearest
<1> QED BY <1>1, <1>3, <1>4 DEF Period, Word

LEMMA DutyInPeriod ==
  ASSUME NEW pct \in 0 .. 100 * Grain, NEW f \in Nat \ {0}
  PROVE  Duty(pct, f) <= Period(f)
<1>1. pct \in Nat /\ pct * 48000 \in Nat /\ pct * 48000 <= Clock * Grain
  BY GrainAssumption DEF Clock
<1> DEFINE n == pct * 48000
           m == Clock * Grain
<1>2. n \in Nat /\ m \in Nat /\ n <= m
  BY <1>1, ClockTyped
<1> HIDE DEF n, m
<1>3. n * f <= m * f
  BY <1>2
<1>4. Nearest(n, f) <= Nearest(m, f)
  BY <1>2, <1>3, NearestGrows
<1> QED BY <1>4, ClockTyped DEF n, m, Duty, Period

LEMMA WidthInPeriod ==
  ASSUME NEW f \in Nat \ {0}, NEW w \in Nat, w * f < Second
  PROVE  Width(w) <= Period(f)
<1> DEFINE x == w * f
           g == Grain * Grain
<1>1. x \in Nat /\ g \in Nat /\ Second = 100000 * g
  BY GrainAssumption DEF Second
<1>2. (48 * w) * f = 48 * x
  OBVIOUS
<1>3. (Clock * Grain) * Grain = 4800000 * g
  BY GrainAssumption DEF Clock
<1>4. 48 * x <= 4800000 * g
  <2> HIDE DEF g
  <2>1. x < 100000 * g
    BY <1>1
  <2> HIDE DEF x
  <2> QED BY <1>1, <2>1
<1>5. (48 * w) * f <= (Clock * Grain) * Grain
  BY <1>2, <1>3, <1>4
<1>6. 48 * w \in Nat
  OBVIOUS
<1>7. Nearest(48 * w, Grain) <= Nearest(Clock * Grain, f)
  BY <1>5, <1>6, ClockTyped, GrainAssumption, NearestGrows
<1> QED BY <1>7 DEF Width, Period

LEMMA WordsFit == TypeOK /\ SettingsFit /\ TickKept => HeaderWordsFit
<1> SUFFICES ASSUME TypeOK, SettingsFit, TickKept PROVE HeaderWordsFit
  OBVIOUS
<1>1. ASSUME NEW f \in Nat, 74 * Grain <= f PROVE f \in Nat \ {0}
  BY <1>1, GrainAssumption
<1>2. set.freq \in Nat \ {0} /\ 74 * Grain <= set.freq /\ set.pct \in 0 .. 100 * Grain
  <2>1. set.freq \in 100 * Grain .. 4000 * Grain /\ set.pct \in 0 .. 100 * Grain
    BY DEF SettingsFit, FreqRange
  <2>2. \A n \in 100 * Grain .. 4000 * Grain : n \in Nat /\ 74 * Grain <= n
    BY GrainAssumption
  <2> QED BY <1>1, <2>1, <2>2
<1>3. /\ set.tickFreq \in Nat /\ set.tickWidth \in Nat
      /\ 74 * Grain <= set.tickFreq /\ set.tickWidth * set.tickFreq < Second
  BY DEF TypeOK, TickKept
<1>4. Period(set.freq) < Word /\ Period(set.tickFreq) < Word
  BY <1>1, <1>2, <1>3, PeriodFits
<1>5. Duty(set.pct, set.freq) <= Period(set.freq)
  BY <1>2, DutyInPeriod
<1>6. Width(set.tickWidth) <= Period(set.tickFreq)
  BY <1>1, <1>3, WidthInPeriod
<1> QED BY <1>4, <1>5, <1>6 DEF HeaderWordsFit

(* However fine the arguments, the periods and widths of a header fit      *)
(* their 16 bits, and duty and tickle their periods.                       *)
THEOREM WordsAlwaysFit == Spec => []HeaderWordsFit
<1>1. TypeOK /\ SettingsFit /\ TickKept /\ [Next]_vars
        => (TypeOK /\ SettingsFit /\ TickKept)'
  BY TypeStep, FitStep, TickStep
<1> QED BY TypeInit, FitInit, TickInit, <1>1, WordsFit, PTL DEF Spec

-----------------------------------------------------------------------------
LEMMA Carried ==
  ASSUME NEW ns \in PulseArgs, ns < Word
  PROVE  Frame(ns) = ns
  BY ArgsAssumption DEF Frame, Word

LEMMA PulseStep == TypeOK /\ PulseFollows /\ [Next]_vars => PulseFollows'
<1> SUFFICES ASSUME TypeOK, PulseFollows, [Next]_vars PROVE PulseFollows'
  OBVIOUS
<1>1. CASE set'.pulse = set.pulse /\ UNCHANGED <<line, synced>>
  BY <1>1 DEF PulseFollows
<1>2. ASSUME NEW k \in Kinds, Select(k) PROVE PulseFollows'
  BY <1>2 DEF Select, PulseFollows
<1>3. ASSUME NEW a \in Args, Configure(a) PROVE PulseFollows'
  BY <1>3 DEF Configure, PulseFollows
<1>4. ASSUME NEW f \in Opt(TickFreqs), NEW w \in Opt(TickWidths), NEW e \in Opt({0, 1}),
             Tick(f, w, e)
      PROVE  PulseFollows'
  <2>1. set'.pulse = set.pulse
    BY <1>4 DEF Tick, TypeOK
  <2> QED BY <1>1, <1>4, <2>1 DEF Tick
<1>5. ASSUME NEW on \in {0, 1}, Mo(on) PROVE PulseFollows'
  BY <1>1, <1>5 DEF Mo, TypeOK
<1>6. CASE LaserOff \/ TickleOff
  BY <1>1, <1>6 DEF LaserOff, TickleOff, TypeOK
<1>7. CASE Begin
  <2>1. /\ set' = set /\ set.pulse \in Opt(PulseArgs)
        /\ synced' /\ set.pulse # None => line' = Frame(set.pulse)
    BY <1>7 DEF Begin, TypeOK
  <2>2. set.pulse # None => set.pulse \in PulseArgs
    BY <2>1 DEF Opt
  <2> QED BY <2>1, <2>2, Carried DEF PulseFollows
<1>8. ASSUME NEW ns \in PulseArgs, MopaPulse(ns) PROVE PulseFollows'
  <2>1. set'.pulse = ns
    BY <1>8 DEF MopaPulse, TypeOK
  <2>2. (line' = Frame(ns)) \/ ~synced'
    BY <1>8 DEF MopaPulse
  <2> QED BY <2>1, <2>2, Carried DEF PulseFollows
<1>9. CASE UNCHANGED vars
  BY <1>1, <1>9 DEF vars
<1> QED BY <1>2, <1>3, <1>4, <1>5, <1>6, <1>7, <1>8, <1>9 DEF Next

(* A width that fits the frame is on the wire as it is set, whatever       *)
(* frames failed or went ahead of it.                                      *)
THEOREM PulseAlwaysFollows == Spec => []PulseFollows
<1>1. Init => PulseFollows
  BY DEF Init, PulseFollows
<1>2. TypeOK /\ PulseFollows /\ [Next]_vars => (TypeOK /\ PulseFollows)'
  BY TypeStep, PulseStep
<1> QED BY TypeInit, <1>1, <1>2, PTL DEF Spec
=============================================================================
