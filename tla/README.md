# A TLA+ model of CtrlBSL

CtrlBSL (`src/rust`) drives a BSL/SeaCAD DBK2JP galvo laser controller over USB.
One host thread talks to one board over four endpoints: control commands on
EP 0x06 with replies on EP 0x88, and batches of 12-byte commands on EP 0x02 that
carry both the laser parameters and the vectors. The hard part is not the
sequential code but what is left behind by it. The outputs a batch programs
**latch on the board**: they survive a reset, the end of the job and the exit of
the process. Replies carry nothing but an echoed opcode and are never drained.
Every transfer may fail, time out after it was delivered, land in part or leave
its endpoint halted, and the process may die between any two of them.

## Inventory

| Part | Source | State | Operations | What makes it correct |
|---|---|---|---|---|
| Job lifecycle and laser outputs | `job.rs` | settings, `live`, `closed`, warnings | `new`, `begin`, `power_byte`, `red_light`, `dac`, `axis_move`, `tick_off`, ..., `laser_off`, `abort`, `guard`, `close`, `Drop` | an output the job programmed is silenced, or the job says it could not; silencing never starts the engine and always ends |
| Framing and replies | `usb.rs` | none on the host; the reply queue on the board | `ask`, `write_cmd`, `write_data`, `recover`, `close` | a reply belongs to the command it is returned for; a command is sent a bounded number of times; every call returns |
| Transports | `backend_libusb.rs`, `backend_win.rs` | device handle | `open`, `xfer`, `abort_pipe`, `reset_pipe`, `close` | no transfer after close; buffers outlive the transfer; no halt is inherited |
| Unlock replay | `unlock.rs`, `ensure_unlocked` | board's authentication latch | frames, `encrypt_state` | TRUE is never wrong; a calm run ends unlocked, and leaves an unlocked board alone |
| Settings | `job.rs`, `laser.rs` | type, frequency, power, MO, tickle | `select`, `configure`, `tick`, `mo`, `settings` | the settings are ones the laser has; what a header sends fits its words; the pulse on the wire is the one that is set |
| Path streaming | `job.rs` | beam position, run, phase | `path`, `segments`, `dots`, `lines`, `emit` | exactly the lit segments are marked, each vector timed for where the beam really is; run-ups stay in the field; the job is live once vectors were sent |
| Closed-loop bursts | `job.rs` | free-cache reading | `pwm_burst`, `wait_idle`, `arm` | never overruns the queue, does not starve it; waits for all of it |
| Field | `field.rs` | factors, `markcfg0` file | `to_counts`, `to_mm`, `save`, `load_or_create` | round trip; foreign keys of the file are kept; a load gives what was saved |
| Protocol, laser table | `protocol.rs`, `laser.rs` | none | packing, lookup | stateless, unit-tested in place |
| Python, CLI, library root | `python.rs`, `bin/dbk2jp.rs`, `lib.rs` | none of their own | delegation | - |

Interaction: `Job` owns a `Board`, which owns a boxed `Transport`. `Job` methods
call `Board::ask` (answer mostly ignored) and `Board::write_data` (error
returned); `laser_off` alone calls `Board::recover` itself. `Drop for Job` runs
before the drop of its `Board`, which closes the transport. There is no other
thread: the concurrency is between the host, the board, the bus and whoever
kills the process or restarts it. The exceptions are the files: a `markcfg0` is
shared by every process of the machine, without a lock.

The behaviours that are hard to test are listed, each at its line, under
`hazards` in `PROJECT.json`.

## Modules

**`LaserSession`** is the core. Host state: the settings as far as they reach an
output (`kind`, `pct`, `byte`, `mo`, `tickle`), `Job::live` and `Job::closed`,
whether the last `laser_off()` warned (`gaveUp`), and the method in progress
(`pc`, `call`, `arg`). Board state: the latched output registers (`latched`, a
subset of MO enable, pilot pointer, power word, tickle generator), the 0x0104
engine and the halted pipes. Two history variables record which latched lines
this job switched on (`own`) and which of those by a method that marks the job
live (`owed`). A method is a sequence of steps with one USB transfer in each, so
that a failure or a kill falls between any two: `ArmClear; ArmReset; ArmRun;
SendBatch` is `begin()` and its relatives, `OffWrite; OffRecover; OffRetry;
OffClear; OffReset` is `laser_off()`, entered on its own, from `close(true)` or
from `Drop`. `BatchOf` says what each method's batch writes and leaves driving,
read off the frames it builds. `Kill` ends the process with no unwinding,
`NewJob` is the next process (or the next job of the same one), and finds the
registers and, on Windows, the halts as they were left.

**`OutputPromise`** is the abstract specification behind `Job::live`: a job that
switches outputs on takes on a duty; it may lay the duty down only when the
outputs are off or it has owned up to failing; it may end unclosed only without
a duty. `LaserSession!PromiseKept` is the refinement, with `live` for the duty
and `gaveUp` for the excuse.

**`AskReply`** is `Board::ask` and the unmatched exchanges of `unlock.rs` against
the reply channel. Each command sent has a number, so that a reply can be told
from the reply to an earlier command with the same opcode, which the code
cannot. `CallAsk` is the call up to its first read; `ReadReply`, `ReadZeros`,
`ReadRecover` and `ReadGiveUp` are the outcomes of one read; `CallRaw` and
`RawRead` are a frame of the unlock replay or `encrypt_state()`. `Answer`,
`Ignore`, `LoseReply` and `Stall` are the board and the bus.

**`MarkPath`** is the control of `Job::path`, with `segments` and `dots`, which
build its arguments or its vectors. `CallPath`, `CallSegments`, `CallDots` are
the calls; `Check` is everything refused before a vector is built; then each
segment is `RunUpCall` and the search, ended by `RunUp`, or `Approach`; a body
(`MarkLine`, `Move`, `Wiggle`); and a `RunOut` where a lit run ends. `at` is
where the code believes the beam to be, `cmds` the vectors so far, `granted` the
run-up it reports, `asked` (history) what the caller wants marked. One axis of
the field stands for both: which vectors are emitted, how they are timed and
whether they stay inside depends on distances and bounds alone, not on
direction. A wiggle is a point on the way and one near the end of the segment,
anywhere within the radius of the line, or exactly on the end point where the
run ends. The jump speed is the duration 0, whatever it really is. `path()` can
also fail on a point outside the field, which the `u16` of its arguments
excludes. How the vectors are written, chunk by chunk, is `LaserSession`'s
`LinesChunk` and `LinesDone`.

**`FitOvershoot`** is `Job::fit_overshoot`, the bisection that `path()` calls at
both ends of a lit run: `FitCall`, then `Grow` or `Shrink` per round. `MarkPath`
extends it, so the search is composed with its caller in one state space.

**`BurstPacing`** is `pwm_burst()` against the board's queue. Host: the step of
the method in progress (`CallBurst`; `arm()` as `ArmClear`, `ArmReset`, `ArmRun`,
whose answers the code ignores; `Header`; the loop `Poll`, `Settle`, then `Nap` or
`SendChunk`), the chunk to write (`want`) and the clock (`expired`). `wait_idle()`
is `CallWait`, `Wait`, `Answer`, `Doze`; `stop()` is `Stop`. Board: the queue, the
engine (0x0104 takes effect after a delay: `StartUp`), the overrun flag (`stuck`)
and the status words that are still on the pipe (`mail`). Time is counted in
vectors executed while the host looks away, so that the count a chunk is sized by
is always an ask old. The retries of an ask are folded into the outcomes it can
have (`Outcomes`): its own word, an older one, or none.

**`Settings`** is the part of a `Job` that no transfer touches, and the checks in
front of it: `Configure` commits its arguments in the order of the code up to the
first bad one, `Tick` checks new values against those kept, `MopaPulse` builds its
header with the old width. `line` is the pulse width the last frame carried.
The code's kilohertz, percents and microseconds are `f64`; here they are whole
multiples of a `Grain`-th of 10 Hz, of a percent and of a microsecond, for any
`Grain`, and the arithmetic on them is exact. The words of a header are rounded to
ticks of 48 MHz as the code rounds them, at the edges too: a width of less than
1/96 us, which `tick()` accepts, goes out as zero.

**`Unlock`** extends `AskReply`: `ensure_unlocked()` is a program (`After` says
which exchange follows the one that has ended) whose exchanges are `AskReply`'s
calls and reads, on a board with a latch that the three frames open in order.
`BoardAnswers` and `BoardFails` are the board's actions with the latch in them.
A slow board is simply one whose answers come after the read has timed out:
`calm` (history) says that no answer was late, lost or refused.

**`FieldGeometry`** is `to_counts()`, `to_mm()` and `validate()` on exact
integers. **`FieldFile`** extends it with the machine's `markcfg0` and the
processes that share it: `Stat` and the save of `load_or_create()`, `Load`, `Set`
(`PyField::set`, or `dbk2jp field k=v`), and `save()` as `Read`, `Open` (which
truncates) and `Put`, each of which may fail or be the last step of the process.
`Stat` takes any error of `metadata()` for a missing file, as the code does; `early`
(history) keeps what a process saw when it looked: had anybody saved factors yet?
A file is what `from_markcfg()` would make of it and whether it still has foreign
lines; the text of two writers may mix.

**`MCLaserSession`**, **`MCAskReply`**, **`MCMarkPath`**, **`MCBurstPacing`**,
**`MCSettings`**, **`MCUnlock`** and **`MCFieldFile`** hold the clients and sets
the runs use. **`LaserSessionProofs`**, **`OutputPromiseProofs`**,
**`MarkPathProofs`**, **`BurstPacingProofs`**, **`SettingsProofs`**,
**`FieldFileProofs`**, **`AskReplyProofs`** and **`UnlockProofs`** hold the
theorems.
The operators whose comment calls them a mutant are plausible bugs in the
definition they precede: each was substituted for it to see that the run
notices.

### What is assumed of the board

The board is not in the repository; these are the assumptions about it, each
taken from a comment or a doc of the code.

* A register written on EP 0x02 latches until a later batch clears it; resets,
  0x0104, the gate on EP 0x06 and a process exit leave it alone
  (`job.rs:3-6`, `job.rs:1107`, `job.rs:1200`, `job.rs:1314`).
* A batch is taken in order, so a failed write leaves a prefix of it in the
  registers (`backend_libusb.rs:122`). A batch that was written has taken effect
  by the end of the call; a batch queued behind vectors when `CLEAR_CACHE`
  comes is a listed hazard that the model does not cover.
* 0x0104 starts the engine and only a reset stops it (`job.rs:323`).
* The board answers commands in order, echoing the opcode (`usb.rs:169`).
* The queue has 256 slots of which 189 are free at idle (`API.md:682`); the header
  and its jump take one of those, a vector takes one. An overrun clears the ready
  bit until the next reset (`API.md:817`); `CLEAR_CACHE` empties the queue. The
  ready bit is clear while the engine executes (`job.rs:340`), and can be set
  still when the engine has not started (`API.md:410`). `API.md:370` says that the
  count reads idle while vectors execute; the model follows `API.md:611`, which
  saw it walk down under streaming, and the comments of `pwm_burst()`.
* A board that has authenticated stays so until it loses power; the digest, MAC and
  token frames work in that order only (`unlock.rs:118`), and the reply to 0x0102
  says what held when the board took the command (`job.rs:260`).
* A rewritten file is truncated when it is opened and then filled from its front,
  so an interrupted save leaves a prefix of the text, sorted by key: what is left
  may parse to any factors, since a missing key reads as its default.
* On libusb a handle goes on taking transfers after `close()`, which only
  releases the interface (true of Linux, where the kernel claims it again); a
  closed CYUSB3 handle takes none.

## Runs

| Run | Question | Result |
|---|---|---|
| `laser_session` | Does the flag account for the outputs, whatever fails or is killed? Does silencing silence, end and never arm? Is the promise kept? | holds, about 480 000 states |
| `laser_settings` | The same end for a client that changes type, power, MO and tickle between headers, on Windows, after close too? | holds, about 520 000 states |
| `laser_abort` | Does `abort()` kill laser output (`job.rs:1352`)? | no: it writes no batch |
| `laser_pointer` | Does a quiet `close` silence any job that programmed an output (`API.md:367`)? | no: `red_light()`, on or off, programs power and tickle and does not mark the job live |
| `ask_reply` | What does matching the opcode guarantee, how often is a command sent, do stale replies drain? | holds, about 829 000 states |
| `ask_stale` | Does `ask` return *its* reply (`usb.rs:167`)? | no: a reply to an earlier command of the same opcode is returned |
| `mark_path` | Is what is marked what was asked for, in the field, timed for where the beam is, with the run-up that is reported, and is every call planned to its end? | holds, about 122 000 states |
| `settings` | Are the settings ones the laser has, do a header's words fit, does the pulse on the wire follow the one set, however many calls are refused half way? | holds, 4 480 states |
| `burst` | When may the closed loop overrun the queue or starve it, when may `wait_idle()` return early, do both end? | holds, about 345 000 states |
| `burst_dry` | Does the closed loop keep the output up (`job.rs:1224`) with the shipped numbers? | no: it waits for 112 free slots of 189, and 90 ms execute more than the rest |
| `field_file` | When do foreign keys survive, what does a load return, who writes the default and is told so, does a point come back? | holds, about 1 801 000 states |
| `unlock` | Is TRUE ever wrong, does a calm run unlock, is an unlocked board left alone, does every call return? | holds, about 587 000 states |

Nine further disagreements between code and docs were met while modelling. They are
described here and no run is spent on them.

* After a `laser_off()` whose two writes failed, `Drop` does not try again, for
  `live` is clear (`job.rs:1347`); `job.rs:1400` promises silence however the scope
  ends. `DropSilences` excuses what the job has warned of.
* A job used after `close()` on libusb is not silenced by `Drop` (`job.rs:1402`),
  since nothing looks at `closed` before; `README.md:242` says otherwise.
  `EndsSilent` is therefore checked for Windows, where the handle is dead.
* The first wiggled vector after a corner is timed from the corner (`job.rs:893`),
  not from where the beam is (`job.rs:891`). `WiggleKeepsTime` leaves it out.
* At a raw speed a run-up has its segment's duration, not its rate
  (`API.md:480`). `TimedAsTravelled` speaks of feed rates.
* `configure()` stores `power_pct` and `power_byte` as they come and derives neither
  from the other (`job.rs:204-215`); `README.md:101` and `API.md:297` say it does.
* `tick()` insists on a width above zero (`job.rs:1115`), and one of less than
  1/96 us is sent as zero (`job.rs:391`). `HeaderWordsFit` states upper bounds only.
* A pulse of more than 65535 ns is accepted (`job.rs:216`, `job.rs:1052`) and loses its
  high bits in the frame (`protocol.rs:69`): 65700 goes out as 164, while
  `settings()`, "what would go on the wire" (`job.rs:1182`), reports 65700.
  `PulseFollows` speaks of widths that fit.
* `load_or_create()` writes a default "if it does not exist" (`field.rs:99`), but looks
  three steps before it writes: a file that another process has created, loaded,
  changed and saved in between is replaced, with no call failing and no two writes
  overlapping. `CreatedOnce` says that, but for a look that fails (next), this is the
  only way: the process that writes the default looked before anybody had saved.
* `load_or_create()` takes any error of `metadata()` for a missing file
  (`field.rs:103`) and writes the default over one it could not look at.
  `CreatedOnce` excuses a process after such a look (`unseen`), `ForeignKept` does
  not: the save that follows carries the other lines over.

Bounds. `laser_session` has one laser type (CO2, the one whose header lights
every register but MO) and every method that touches the board; nothing in it is
counted, so its state space is finite and complete, with any number of jobs,
kills and power cycles. `laser_settings` has a type of each power family, and
only the methods that read settings. `AskReply` bounds the number of commands
sent (`MaxSends = 6`): two exchanges, each of which is sent twice, and a third
that meets what they left; earlier processes leave up to two replies behind
(`OldReplies = 2`).
Two opcodes are enough to tell a match from a mismatch. `Retries = 3` is the
value `Job::ask` passes. `mark_path` has four counts (`Full = 3`) and paths of
up to three segments, every combination of points and of lit and dark: the
shortest on which a gap lies between two lit runs and a corner inside one. A
run-up of 1 to 3 counts fits, is trimmed by the edge of the field or does not
fit at all; wiggles of radius 1 have two segments, a corner inside a run or a run
and a move. `UsNum / UsDen = 3/2` makes a feed rate round, `MaxUs = 4` makes it
clamp; a raw speed is a `u16` as every duration is, so `RawUs` is at most `MaxUs`.
`burst` has seven slots, a margin of one, chunks of two to five: room for a
queue that is nearly full, one that is nearly empty and one that is put off, and
an engine that executes one or two vectors per ask, none or one per nap, up to
four when an ask is late. One old answer may stay on the pipe. `burst_dry` has the
shipped numbers: 189 slots, a margin of 48 (`python.rs:567`), 64 and 1400, 48
vectors per 40 ms and 12 per 10 ms at the 0.83 ms a vector that `SEG_TIME` states.
`settings` has an argument on either side of each bound, a hundredth of a unit apart
(`Grain = 100`), a width that rounds to zero and one that rounds to the whole
period, a laser with a tickle and one with a power word, and a pulse width that
does not fit 16 bits. `unlock`
has one attempt, one fault (a slow answer costs none, and may happen always) and
up to two replies left by earlier processes; `MaxSends = 18` is more than one
attempt sends with every ask repeated. Two attempts were checked once
(3.4 million states). `field_file` has two processes and four sets of factors: the
default, another lens, the same finer than the file prints it, and one that does
not validate; six points, two of them at or beyond the edge. Only the default is ever created. `RoundTrips` turns
each of those into its eight mirrored and swapped forms. Every state of these instances is reached; the theorems below are about
all others.

Fairness. `FairSpec` assumes weak fairness of the method in progress, and
`UnlockSpec` of the host's exchanges, `BurstPacing` of its method: the host is
one thread, every transfer has a timeout (800 ms to 3 s) and returns, so a method
that has begun takes its next step. `BurstPacing` also assumes that time passes
(`Expire`). For the same reason `MarkPath` assumes it of the loops of `path()` (`Plan`),
and not of who calls them. `AskReply`, `Settings` and `FieldFile` state safety
only. Nothing is assumed of the client, the board, a kill or the power switch.
`CHECK_DEADLOCK FALSE`: a board without a job, a client that has stopped
calling, a path that has been planned, or a call that has returned, may rest.

## Theorems

For every set of laser types, every set of methods a client uses, both backends
and with or without failures:

* `TypeCorrect`, `LiveIsAccountable`, `OffIsSilent`, `DropIsSilent`: the safety
  invariants of `laser_session`.
* `SilencingIsQuiet`: silencing never starts the engine.
* `Implementation`: `LaserSession` implements `OutputPromise`, by simulation:
  each action is mapped to one action of the promise or to a stutter.
* `QuietWindowsEndsSilent`: what `laser_settings` checks, for every client that
  never calls `close(quiet = false)`, on Windows.
* `DutyAlwaysCovers`, `EndIsSilent`: what the promise is worth.

For every field, every set of calls, every raw speed, feed rate and cap:

* `PathTypeCorrect`: the types of the plan, and that `path()` works on a segment
  only while there is one (`PlanType`).
* `RunUpsAreLongest`: every bisection ends with the longest run-up that fits.
* `BeamStaysInTravel`: no vector ends outside the travel limits.
* `EveryVectorTimed`: at a feed rate and without a wiggle, every vector is timed
  for the distance the beam covers, from where the vector before it ended.
* `MarksWhatIsAsked`: without a wiggle, what is marked is what was asked for, of
  `path()`, `segments()` and `dots()` alike: each lit segment once and in order.
* `RunsKeepTheirPoints`: wiggled or not, the r-th run of marks begins and ends on
  the end points of the r-th lit run asked for, and there are no others.
* `DwellIsWhereLaserStops`: the laser-off dwell is on the vectors after which the
  laser goes off, and on no other.
* `GrantedIsThere`: the run-up reported is there before and after every lit run,
  however many of them were trimmed.
* `WigglesKeepTime` (an action property): a wiggled segment takes its raw duration
  to within the rounding of each vector; at a feed rate each of its vectors is
  timed for the counts between the rounded points.
* `PathVariablesTyped`: the types of all the variables, `asked` included.

For every queue, margin, chunk size and pace of the engine, faults or none:

* `ChunksFit`: no chunk overruns the queue, unless CLEAR was lost or an older
  status word was read for the newest.
* `WaitWaits`: `wait_idle()` returns TRUE only with the queue done, except on an
  engine that had not started or on an older word.
* `LoopNeverDry`: the loop never starves the queue while its asks are answered,
  *if the margin leaves room* (`Roomy`: what two asks and a nap execute is less than
  what is queued when it would still write). The shipped numbers are not roomy,
  and `burst_dry` shows what follows; `MCBurstPacing` has TLC confirm that the
  instance of `burst` is.

For every laser and every argument: `FitsAlways`, `WordsAlwaysFit`,
`PulseAlwaysFollows`, for every `Grain`, so for arguments as fine as one likes. A width
of 369 us at 2.71 kHz passes `tick()` and rounds to exactly its period, so
`HeaderWordsFit` says "no longer than". `PulseAlwaysFollows` is about widths that fit
the 16 bits of the frame.

For any number of processes, factors and points: `ForeignAlwaysKept`,
`AlwaysCreatedOnce` (of two processes that are told they created the file both
looked before either wrote), `AlwaysLoadsTheSaved`, and `AlwaysRoundTrips`, in which
nothing is bounded: any size, offset, aspect, mirror, swap and point of integers.

For any backlog, number of retries and faults: `TwiceAtMost`, `StaleOnlyThen`,
`AlwaysDrains` (which needs two reads per ask: with one there is nothing to
drain with), and `NeverFalselyUnlocked`. Each of the four modules has its
`TypeCorrect` as well. `UnlockUsesTheChannel`: every run of `ensure_unlocked()` is
one of `AskReply`'s, so what is proved of the channel holds of the unlock.

For any number of attempts, either backend, any latch and at most two replies
left by earlier processes, with three reads an ask or more: `CalmUnlocks` and
`ReplaysOnlyToLocked`. As long as nothing is lost, stalled or late, the answer is
not FALSE, and no frame goes to a board that is authenticated. The hypothesis on
the replies is sharp for the second: with `OldReplies = 3` TLC finds the replies to
RESET, CLEAR_CACHE and RESET on the pipe, the check's three reads do not get to its
own reply, and the frames go to a board that did not need them.

The argument for the session. `LiveAccounting` is not inductive: `OffClear` drops `live` on the
strength of what `OffWrite` or `OffRetry` did one step earlier, and `Drop` skips
silencing on the strength of `live`. `IInv` therefore adds `OffSilences` (the
registers are empty between the successful write and the reset), `Running` (a
method runs only in a held job, and which calls can be at which step) and
`FlagsDropped` (`live` is clear past the flags and at an unclosed end). The
lemmas `LandType`, `WriteType` and `AskType` say what a transfer, failed or not,
can do to the registers; `ClientInv` and `MethodInv` then take the actions one
by one. For Windows `QuietEnd` adds that a quiet `close` past its silencing is
not live, and that a closed job's writes land nowhere. The assumptions used are
`KindsAssumption` and, for the Windows theorem, its two hypotheses.

The argument for the path. Bisection is right because leads are monotone: a
shorter one of the same line fits where a longer one does (`LeadMonotone`), so a
midpoint decides for half of the interval. `SearchInv` says so of every round:
`best` fits, everything up to it is inside, everything above `hi` does not fit.
Zero always fits because the ends of a segment lie in the field, which is why
`PlanInv` ties the arguments of the search to the segment `path()` is at. With
that a lead is inside when the search ends, and a wiggle is inside because it
was checked. `EveryVectorTimed` needs more: `path()` times a vector from where
it *believes* the beam to be, and `BeamInv` says it is right: `at` is where the
last vector ended whenever a segment begins, and the beam is at the first point
of the segment whenever its body does, across run-ups of length zero, trimmed
ones, and gaps.

What is said of a whole path speaks of places: the m-th mark, the r-th run. `Nth`
and `Place` count in a set of numbers, and two members of two sets are `Twins`
when they have the same place in each. An invariant about twins survives a step
that adds to neither set, and a step that adds the last member to both adds one
pair (`TwinsAdd`); `NthTwins` turns it into the statement about the m-th of
both. `Place` being a cardinality, none of this is an induction.

* `ShapeInv` says between which vectors the next one goes: where the beam is at
  each step, that the laser is on when a segment begins exactly at a corner inside
  a run, and that the run-out begins with the laser off at the end of its
  segment. A wiggle may come to a corner off its line; only there may the beam be
  elsewhere than `at` says.
* `DwellInv`: the dwell is where the laser goes off, but for the last vector, of
  which the next one decides. `ShapeInv` says what the last one is.
* `LinesInv`: the marks are twins of the lit segments built so far, each with the
  ends of its segment. `AskedInv` and `DotsInv` tie `asked` to the arguments; that
  `segments()` asks for its segments is a lemma about even and odd places
  (`SegmentsAreLines`).
* `StartsInv` and `EndsInv` pair the first and the last marks of the runs with the
  segments at which runs begin and end. `LedIn` and `LedOut` add the dark legs: a
  run-up granted later can only be shorter, so a leg once long enough stays so.
* `WigglesKeepTime` needs the rounding alone: each share differs from its exact
  value by at most one unit, half of one for the rounding and less than one where
  a share is raised to the least duration, and the exact shares sum to the whole.

The assumptions used are those of the two modules: `Full` is a natural number, the
calls have points in the field, `UsDen` and `MaxUs` are positive, a raw speed fits
the field of a duration.

The argument for the burst. By itself `stuck` says nothing of the count the host
read. `MailCurrent` says that between an ask and its answer a fresh word on the
pipe still describes the queue, `ChunkFits` that the chunk sized by it fits after
the vectors executed meanwhile (the queue only drains while the host waits), and
`HeaderFits` that a CLEAR that was not lost left room for the jump. For
`LoopNeverDry` each step of the loop keeps what the time until the next look can
execute: `PollRoom` an ask, `NapRoom` a nap and an ask, `WantRoom` the same once
the chunk has landed.

The argument for the settings. `SettingsFit` is inductive: what is refused is
exactly what would break it, and what a refused call has committed was checked
first. The words need `TickKept`: width times frequency stays below a second
(`Second`, in the units of the module), since `tick()` checks the pair it is about to
keep, not the argument alone. Rounding keeps the order of what it rounds
(`NearestGrows`), so a width that is shorter than its period is not longer in ticks
(`WidthInPeriod`, `DutyInPeriod`).

The argument for the file. `Guarded`: while nothing has gone wrong, one process at
most is between truncating and writing, and one about to write has read the
foreign lines. `Creating`: a process that is writing the default, or has just
written it, looked before anybody had saved factors, or its look failed; and while
there is no file nobody has, which is what a look that finds none relies on. `Settled`: a file that nobody is writing has the factors
last saved. The round trip is division with remainder (`Rounding`), then the four
ways of mirroring and swapping (`ThereAndBack`).

The argument for the replies. `Order` says that the two queues are one stream in
the order of sending, `Owned` that whatever is on it belongs to the ask in
progress or to an opcode that is known to be troubled: with `Traced` a reply that
matches can only be another's if the opcode is. `Draining` counts what each read
has taken. For the unlock, `LatchInv`: a reply that reads "authenticated" was given
by a board that was, the latch stays set, and so a stale reply can be old but
not wrong. For a calm run, `CalmInv` follows the replies still to be read, those
the board owes included, as one queue. The reply to the command in progress is the
last of it, an ask has a read left for each reply in the queue, and what is in
front of it is known exchange by exchange: at most two old replies before the
first RESET; then nothing, or replies that end in a RESET; after CLEAR_CACHE
nothing or a RESET and a CLEAR_CACHE; after the second RESET nothing or those two
the other way round. None of them answers an 0x0102, so the first check reads its
own reply, and from then on the queue is empty between exchanges. `Told` then says
what the board has made of the frames: a check that reads "locked" is of a locked
board, and three frames later it is not. This needs the opcodes to differ
(`OpcodesDiffer`: 0x0105, 0x0106, 0x0102, 0x0C5D and 0x0C5C do) and three reads an
ask.

The assumptions used are the named ones of each module; `LoopNeverDry`,
`AlwaysDrains`, `CalmUnlocks`, `ReplaysOnlyToLocked` and `QuietWindowsEndsSilent`
state theirs.

Only model-checked: `SilencingEnds`, `PathReturns`, `CallsReturn` and
`EnsureReturns`. Liveness under fairness is out of the prover's reach. Every
invariant and every action property that a passing run checks is also proved, some
of them under the hypotheses just named.

## Plan

1. `LaserSession`, `OutputPromise` and their proofs - done.
2. `AskReply` and its proofs - done.
3. `MarkPath`, `FitOvershoot` and their proofs - done.
4. `BurstPacing` and its proofs - done.
5. `Settings` and its proofs - done.
6. `Unlock` and its proofs - done. Whether `UnlocksIfCalm` holds for every number
   of old replies is open: TLC found no violation with three to five.
7. `FieldFile`, `FieldGeometry` and their proofs - done.

Abstract specifications worth stating: `OutputPromise` (done), a mailbox that
`AskReply` implements when no exchange was abandoned.

## Not modelled

* Floating-point geometry: the shape and exposure of a wiggle, kinematic load,
  and `distort()` with factors other than 1.0 (`to_mm()` does not undo it). It is
  stateless, and the repository tests it offline (`tests/streaming.rs`, the unit
  tests of each module). For the same reason not-a-number arguments, which pass
  `validate()` and the bounds check, are outside the integer models.
* The byte order of a frame, `parse()`, the name and code lookup of lasers, the text
  of warnings and errors, device discovery: parsing, formatting and pure I/O.
* The memory of a transfer that was cancelled on Windows (`backend_win.rs:496`):
  what the kernel still does with it is not described in the repository.
* Where in a queue of vectors a parameter command takes effect, hence what
  `laser_off()` does behind queued vectors (`job.rs:1343`): no doc states it.
* `out_pulse()`'s multiplication (`job.rs:1280`): it overflows past 2 147 483 ms and
  a model of it would say no more than that.
* In `markcfg0`: sections (they are flattened by `read_markcfg()`) and the bytes of a
  foreign line that are not UTF-8 (they are replaced). `ForeignKept` is about
  whether the lines survive.
* The debugging frame sets of `unlock.rs` (`set()`, `full()`), which nothing in the
  library replays.
* PyO3 and command-line glue beyond what `FieldFile` takes from it: the methods
  delegate to `Job`, whose Python handle is bound to one thread.
