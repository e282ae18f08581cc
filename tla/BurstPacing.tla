---------------------------- MODULE BurstPacing ----------------------------
(***************************************************************************)
(* pwm_burst() against the board's vector queue (job.rs): arm() and the    *)
(* header, then a loop that asks for the free-cache count, writes as many  *)
(* vectors as it leaves room for, or sleeps when there is little room; and *)
(* wait_idle(), which asks for the ready bit until the queue is done.      *)
(*                                                                         *)
(* The host sees the queue only through status words, and by the time it   *)
(* acts on one the engine has gone on.  Time is counted in vectors: while  *)
(* an ask settles the engine executes a member of SettleRuns of them, and  *)
(* a member of NapRuns during a nap.                                       *)
(*                                                                         *)
(* The retries of ask() are AskReply's subject.  Here an ask ends with its *)
(* own answer, an older one that was still on the pipe, or none.           *)
(***************************************************************************)
EXTENDS Integers, Sequences

CONSTANTS
  Free,        \* free slots at idle: 189 of 256
  Margin,      \* pwm_burst()'s margin, 48 unless the caller says otherwise
  MinChunk,    \* the least it writes, 64
  MaxSegs,     \* the most it writes at once, 1400
  SettleRuns,  \* vectors executed during the 40 ms an ask settles
  NapRuns,     \* vectors executed during a nap of 10 ms
  LateRuns,    \* the same while an ask times out and recovers
  MaxMail,     \* bound on the answers left on the pipe
  Faulty       \* may transfers fail and answers be late?

ASSUME FreeAssumption ==
  Free \in 1..255 /\ Margin \in Nat /\ MinChunk \in Nat \ {0} /\ MaxSegs \in Nat \ {0}
ASSUME RunsAssumption ==
  /\ SettleRuns \subseteq Nat /\ NapRuns \subseteq Nat /\ LateRuns \subseteq Nat
  /\ SettleRuns # {} /\ NapRuns # {} /\ LateRuns # {}
ASSUME MaxMailAssumption == MaxMail \in Nat \ {0}
ASSUME FaultyAssumption  == Faulty \in BOOLEAN

VARIABLES
  pc,        \* the step of the method in progress
  want,      \* the chunk to write
  expired,   \* has the loop's time run out?
  drained,   \* has wait_idle() just returned TRUE?
  queue,     \* vectors in the board's queue
  engine,    \* "off", "starting" (0x0104 taken, nothing moves yet) or "on"
  stuck,     \* an overrun has cleared the ready bit until the next reset
  mail,      \* status words answered and not read yet
  going,     \* history: is this a burst that has written a chunk?
  dry,       \* history: has the queue run dry under it?
  early,     \* history: did the ready bit answer for an engine not started?
  troubled   \* history: which of CLEAR, RESET and RUN were lost, and whether
             \* an ask was late or read an older word, since the last reset

host    == <<pc, want, expired, drained>>
board   == <<queue, engine, stuck>>
history == <<going, dry, early, troubled>>
vars    == <<host, board, mail, history>>

Pcs == {"idle", "clear", "reset", "run", "header", "poll", "settle", "nap", "chunk",
        "wait", "answer", "doze"}
Troubles == {"clear", "reset", "run", "late", "stale"}

Init ==
  /\ pc = "idle" /\ want = 0 /\ expired = FALSE /\ drained = FALSE
  /\ queue = 0 /\ engine = "off" /\ stuck = FALSE /\ mail = <<>>
  /\ going = FALSE /\ dry = FALSE /\ early = FALSE /\ troubled = {}

-----------------------------------------------------------------------------
(* The board.                                                              *)
Live == engine = "on" /\ ~stuck

(* The time of n vectors passes.                                           *)
Elapse(n) ==
  /\ queue' = IF ~Live THEN queue ELSE IF n < queue THEN queue - n ELSE 0
  /\ dry' = (dry \/ (Live /\ going /\ n > queue))

(* A batch of n vectors arrives; what does not fit is an overrun.          *)
Put(n) ==
  /\ queue' = IF queue + n > Free THEN Free ELSE queue + n
  /\ stuck' = (stuck \/ queue + n > Free)

(* 0x0101: the free count, and the ready bit, which is clear for as long   *)
(* as the queue executes.                                                  *)
Word ==
  [free |-> Free - queue, ready |-> ~stuck /\ (queue = 0 \/ engine # "on"),
   early |-> engine # "on", fresh |-> TRUE]

StartUp ==
  /\ engine = "starting" /\ engine' = "on"
  /\ UNCHANGED <<host, queue, stuck, mail, history>>

(* Between two calls the queue drains.                                     *)
Execute ==
  /\ pc = "idle" /\ Live /\ queue > 0
  /\ queue' = queue - 1
  /\ UNCHANGED <<host, engine, stuck, mail, history>>

-----------------------------------------------------------------------------
(* arm(): three asks whose answers are ignored.  Each reads past the       *)
(* status words it finds on the pipe.                                      *)
CallBurst ==
  /\ pc = "idle" /\ pc' = "clear" /\ drained' = FALSE
  /\ dry' = FALSE /\ early' = FALSE
  /\ UNCHANGED <<want, expired, board, mail, going, troubled>>

ArmStep(from, to) ==
  /\ pc = from /\ pc' = to
  /\ mail' \in {<<>>} \cup (IF Faulty THEN {mail} ELSE {})
  /\ UNCHANGED <<want, expired, drained, going, early>>

ArmLost(from, to) ==
  /\ Faulty /\ ArmStep(from, to)
  /\ troubled' = troubled \cup {from}
  /\ UNCHANGED <<board, dry>>

ArmClear ==
  \/ /\ ArmStep("clear", "reset")
     /\ queue' = 0
     /\ troubled' = IF stuck THEN troubled ELSE troubled \ {"clear"}
     /\ UNCHANGED <<engine, stuck, dry>>
  \/ ArmLost("clear", "reset")

Reset ==
  /\ engine' = "off" /\ stuck' = FALSE /\ dry' = FALSE
  /\ troubled' = troubled \cap {"clear"}

ArmReset ==
  \/ ArmStep("reset", "run") /\ Reset /\ UNCHANGED queue
  \/ ArmLost("reset", "run")

ArmRun ==
  \/ /\ ArmStep("run", "header")
     /\ engine' = IF engine = "off" THEN "starting" ELSE engine
     /\ UNCHANGED <<queue, stuck, dry, troubled>>
  \/ ArmLost("run", "header")

(* The header and its opening jump, which takes a slot of the queue.       *)
Header ==
  /\ pc = "header"
  /\ \/ pc' = "poll" /\ Put(1)
     \/ Faulty /\ pc' = "idle" /\ (Put(1) \/ UNCHANGED <<queue, stuck>>)
  /\ UNCHANGED <<want, expired, drained, engine, mail, history>>

-----------------------------------------------------------------------------
(* One ask for the status word, in two steps.                              *)
Aged == [i \in DOMAIN mail |-> [mail[i] EXCEPT !.fresh = FALSE]]

AskStatus(from, to) ==
  /\ pc = from /\ pc' = to
  /\ \/ mail' = Append(Aged, Word)
     \/ Faulty /\ mail' = Aged
  /\ UNCHANGED <<want, expired, drained, board, history>>

(* What the ask may come to: the word it reads (Nothing when there is      *)
(* none), what is left on the pipe, and whether a read failed on the way.  *)
(* After a failed read ask() recovers and sends again: either the first    *)
(* answer comes after all and the second one stays on the pipe, or only    *)
(* the second comes, or none does before the last read has failed.         *)
Nothing == [free |-> 0, ready |-> FALSE, early |-> FALSE, fresh |-> TRUE]

Outcome(word, rest, late) == [word |-> word, rest |-> rest, late |-> late]

Outcomes ==
  (IF mail # <<>> THEN {Outcome(Head(mail), Tail(mail), FALSE)} ELSE {})
  \cup (IF Faulty /\ mail # <<>> /\ Len(mail) <= MaxMail
          THEN {Outcome(Head(mail), Append(Tail(mail), Word), TRUE),
                Outcome(Nothing, mail, TRUE)}
          ELSE {})
  \cup (IF Faulty /\ mail = <<>> THEN {Outcome(Word, <<>>, TRUE)} ELSE {})
  \cup (IF Faulty \/ mail = <<>> THEN {Outcome(Nothing, <<>>, TRUE)} ELSE {})

(* The ask ends with o, after n vectors.                                   *)
Read(o, n) ==
  /\ n \in (IF o.late THEN LateRuns ELSE SettleRuns)
  /\ Elapse(n)
  /\ mail' = o.rest
  /\ troubled' = troubled \cup (IF o.late THEN {"late"} ELSE {})
                          \cup (IF o.word.fresh THEN {} ELSE {"stale"})

Least(a, b) == IF a < b THEN a ELSE b

(* Mutants of Room: no limit to a transfer; a subtraction that wraps.      *)
RoomUncapped(free) == IF free > Margin THEN free - Margin ELSE 0
RoomWraps(free) == Least((free - Margin) % 65536, MaxSegs)

Room(free) == IF free > Margin THEN Least(free - Margin, MaxSegs) ELSE 0

(* Mutant of Decide: a chunk of the least size is put off as well.         *)
DecideLater(free) ==
  IF Room(free) <= MinChunk THEN pc' = "nap" /\ want' = 0
                            ELSE pc' = "chunk" /\ want' = Room(free)

Decide(free) ==
  IF Room(free) < MinChunk THEN pc' = "nap" /\ want' = 0
                           ELSE pc' = "chunk" /\ want' = Room(free)

(* free_cache(): the low byte of the word, 0 when there is none.           *)
Settle ==
  /\ pc = "settle"
  /\ \E o \in Outcomes, n \in SettleRuns \cup LateRuns :
       Read(o, n) /\ Decide(o.word.free)
  /\ UNCHANGED <<expired, drained, engine, stuck, going, early>>

Nap ==
  /\ pc = "nap" /\ pc' = "poll" /\ \E n \in NapRuns : Elapse(n)
  /\ UNCHANGED <<want, expired, drained, engine, stuck, mail, going, early, troubled>>

(* The write of a chunk; one that fails has sent a part and ends the call. *)
SendChunk ==
  /\ pc = "chunk" /\ want' = 0
  /\ \/ Put(want) /\ pc' = "poll" /\ going' = TRUE /\ UNCHANGED expired
     \/ /\ Faulty /\ \E n \in 0..want : Put(n)
        /\ pc' = "idle" /\ going' = FALSE /\ expired' = FALSE
  /\ UNCHANGED <<drained, engine, mail, dry, early, troubled>>

(* Mutant of Poll: the loop counts its naps instead of looking at a clock. *)
PollNoClock ==
  \/ /\ pc = "poll" /\ expired /\ queue = 0 /\ pc' = "idle" /\ going' = FALSE
     /\ expired' = FALSE
     /\ UNCHANGED <<want, drained, board, mail, dry, early, troubled>>
  \/ (expired => queue > 0) /\ AskStatus("poll", "settle")

Poll ==
  \/ /\ pc = "poll" /\ expired /\ pc' = "idle" /\ going' = FALSE /\ expired' = FALSE
     /\ UNCHANGED <<want, drained, board, mail, dry, early, troubled>>
  \/ ~expired /\ AskStatus("poll", "settle")

-----------------------------------------------------------------------------
(* wait_idle().                                                            *)
CallWait ==
  /\ pc = "idle" /\ pc' = "wait" /\ drained' = FALSE /\ early' = FALSE
  /\ UNCHANGED <<want, expired, board, mail, going, dry, troubled>>

Wait ==
  \/ /\ pc = "wait" /\ expired /\ pc' = "idle" /\ expired' = FALSE
     /\ UNCHANGED <<want, drained, board, mail, history>>
  \/ ~expired /\ AskStatus("wait", "answer")

(* Mutant of Answer: whatever is not busy counts as idle.                  *)
AnswerNotBusy ==
  /\ pc = "answer"
  /\ \E o \in Outcomes, n \in SettleRuns \cup LateRuns :
       /\ Read(o, n)
       /\ early' = o.word.early
       /\ drained' = (o.word.ready \/ o.word = Nothing)
       /\ IF drained' THEN pc' = "idle" /\ expired' = FALSE
                      ELSE pc' = "doze" /\ UNCHANGED expired
  /\ UNCHANGED <<want, engine, stuck, going>>

(* busy() == Some(false) returns; busy and unknown go round again.         *)
Answer ==
  /\ pc = "answer"
  /\ \E o \in Outcomes, n \in SettleRuns \cup LateRuns :
       /\ Read(o, n)
       /\ drained' = o.word.ready /\ early' = o.word.early
       /\ IF o.word.ready THEN pc' = "idle" /\ expired' = FALSE
                          ELSE pc' = "doze" /\ UNCHANGED expired
  /\ UNCHANGED <<want, engine, stuck, going>>

Doze ==
  /\ pc = "doze" /\ pc' = "wait" /\ \E n \in NapRuns : Elapse(n)
  /\ UNCHANGED <<want, expired, drained, engine, stuck, mail, going, early, troubled>>

-----------------------------------------------------------------------------
(* stop(): one ask; the queue is kept.                                     *)
Stop ==
  /\ pc = "idle"
  /\ Reset \/ (Faulty /\ UNCHANGED <<engine, stuck, dry, troubled>>)
  /\ drained' = FALSE
  /\ UNCHANGED <<pc, want, expired, queue, mail, going, early>>

(* The clock of either loop.                                               *)
Expire ==
  /\ pc \in {"poll", "settle", "nap", "chunk", "wait", "answer", "doze"}
  /\ ~expired /\ expired' = TRUE
  /\ UNCHANGED <<pc, want, drained, board, mail, history>>

Method ==
  \/ ArmClear \/ ArmReset \/ ArmRun \/ Header
  \/ Poll \/ Settle \/ Nap \/ SendChunk
  \/ Wait \/ Answer \/ Doze

Next == CallBurst \/ CallWait \/ Stop \/ Method \/ Expire \/ StartUp \/ Execute

(* The method in progress goes on, as every transfer has a timeout, and    *)
(* time passes.                                                            *)
Spec == Init /\ [][Next]_vars /\ WF_vars(Method) /\ WF_vars(Expire)
-----------------------------------------------------------------------------
TypeOK ==
  /\ pc \in Pcs /\ want \in 0..MaxSegs /\ expired \in BOOLEAN /\ drained \in BOOLEAN
  /\ queue \in 0..Free /\ engine \in {"off", "starting", "on"} /\ stuck \in BOOLEAN
  /\ mail \in Seq([free : 0..Free, ready : BOOLEAN, early : BOOLEAN, fresh : BOOLEAN])
  /\ going \in BOOLEAN /\ dry \in BOOLEAN /\ early \in BOOLEAN
  /\ troubled \subseteq Troubles

(* What the closed loop is for (API.md: pace against free_cache()): by the *)
(* time a chunk is written the count it was sized by is an ask old, and    *)
(* still it overruns the queue only if CLEAR was lost before it, or an     *)
(* older word was read for the newest.                                     *)
OverrunsOnlyIfTroubled == stuck => troubled \cap {"clear", "stale"} # {}

(* job.rs: open-loop pacing drains the queue between chunks; the closed    *)
(* loop does not, once it has started and while its asks are answered.     *)
NeverDry == dry => troubled \cap {"late", "stale"} # {}

(* wait_idle() returns TRUE only when the queue is done -- or when the     *)
(* engine had not started, or never will because arm()'s RUN was lost, or  *)
(* the word that was read was an older one.                                *)
WaitsForTheQueue == drained => queue = 0 \/ early \/ "stale" \in troubled

(* Both loops end by the clock, whatever the board answers.                *)
CallsReturn == pc # "idle" ~> pc = "idle"

(* Room for the closed loop: from the fullest queue at which it would      *)
(* still write, an ask, a nap and another ask do not drain the queue.      *)
Roomy ==
  /\ MinChunk <= MaxSegs
  /\ \A s, t \in SettleRuns, n \in NapRuns :
       /\ s + t + n < Free - Margin - MinChunk + 2
       /\ s <= MaxSegs
=============================================================================
