------------------------- MODULE BurstPacingProofs -------------------------
(* The closed loop of pwm_burst(), for every queue, margin and timing.     *)
EXTENDS BurstPacing, SequenceTheorems, TLAPS

WordT == [free : 0..Free, ready : BOOLEAN, early : BOOLEAN, fresh : BOOLEAN]

LEMMA RoomSmall ==
  ASSUME NEW free \in 0..Free
  PROVE  Room(free) \in 0..MaxSegs /\ Room(free) <= free
  BY FreeAssumption DEF Room, Least

LEMMA PutInQueue ==
  ASSUME TypeOK, NEW n \in Nat, Put(n)
  PROVE  queue' \in 0..Free /\ stuck' \in BOOLEAN
  BY FreeAssumption DEF TypeOK, Put

LEMMA ElapseInQueue ==
  ASSUME TypeOK, NEW n \in Nat, Elapse(n)
  PROVE  queue' \in 0..queue /\ queue' \in 0..Free /\ dry' \in BOOLEAN
<1>1. queue \in 0..Free /\ dry \in BOOLEAN
  BY DEF TypeOK
<1>2. queue' \in 0..queue
  BY <1>1 DEF Elapse
<1>3. dry' \in BOOLEAN
  BY DEF Elapse
<1> QED BY <1>1, <1>2, <1>3, FreeAssumption

LEMMA WordTyped == ASSUME TypeOK PROVE Word \in WordT /\ Nothing \in WordT
  BY FreeAssumption DEF TypeOK, Word, WordT, Nothing

LEMMA AgedTyped ==
  ASSUME TypeOK
  PROVE  /\ Aged \in Seq(WordT) /\ Len(Aged) = Len(mail)
         /\ \A i \in 1..Len(mail) : ~Aged[i].fresh
<1>1. mail \in Seq(WordT)
  BY DEF TypeOK, WordT
<1>2. \A i \in 1..Len(mail) : mail[i] \in WordT
  BY <1>1
<1>3. \A i \in 1..Len(mail) : [mail[i] EXCEPT !.fresh = FALSE] \in WordT
  BY <1>2 DEF WordT
<1>4. Aged = [i \in 1..Len(mail) |-> [mail[i] EXCEPT !.fresh = FALSE]]
  BY <1>1 DEF Aged
<1>5. Aged \in Seq(WordT) /\ Len(Aged) = Len(mail)
  BY <1>1, <1>3, <1>4
<1>6. \A i \in 1..Len(mail) : ~Aged[i].fresh
  BY <1>2, <1>4 DEF WordT
<1> QED BY <1>5, <1>6

(* An ask ends with the oldest word on the pipe, or with the newest, or    *)
(* with none; the last two only late.                                      *)
LEMMA OutcomeTyped ==
  ASSUME TypeOK, NEW o \in Outcomes
  PROVE  /\ o.word \in WordT /\ o.rest \in Seq(WordT) /\ o.late \in BOOLEAN
         /\ o.word \in {Word, Nothing} \/ (mail # <<>> /\ o.word = Head(mail))
         /\ ~o.late => mail # <<>> /\ o.word = Head(mail)
<1>1. mail \in Seq(WordT) /\ Word \in WordT /\ Nothing \in WordT
  BY WordTyped DEF TypeOK, WordT
<1>2. mail # <<>> => Head(mail) \in WordT /\ Tail(mail) \in Seq(WordT)
                     /\ Append(Tail(mail), Word) \in Seq(WordT)
  BY <1>1, HeadTailProperties, AppendProperties
<1>3. <<>> \in Seq(WordT)
  OBVIOUS
<1>4. \/ mail # <<>> /\ o = Outcome(Head(mail), Tail(mail), FALSE)
      \/ mail # <<>> /\ o = Outcome(Head(mail), Append(Tail(mail), Word), TRUE)
      \/ o = Outcome(Nothing, mail, TRUE)
      \/ o = Outcome(Word, <<>>, TRUE)
      \/ o = Outcome(Nothing, <<>>, TRUE)
  BY DEF Outcomes
<1>5. CASE mail # <<>> /\ o = Outcome(Head(mail), Tail(mail), FALSE)
  <2>1. o.word = Head(mail) /\ o.rest = Tail(mail) /\ o.late = FALSE
    BY <1>5 DEF Outcome
  <2> QED BY <1>1, <1>2, <1>5, <2>1
<1>6. CASE mail # <<>> /\ o = Outcome(Head(mail), Append(Tail(mail), Word), TRUE)
  <2>1. o.word = Head(mail) /\ o.rest = Append(Tail(mail), Word) /\ o.late = TRUE
    BY <1>6 DEF Outcome
  <2> QED BY <1>1, <1>2, <1>6, <2>1
<1>7. CASE o = Outcome(Nothing, mail, TRUE)
  <2>1. o.word = Nothing /\ o.rest = mail /\ o.late = TRUE
    BY <1>7 DEF Outcome
  <2> QED BY <1>1, <2>1
<1>8. CASE o = Outcome(Word, <<>>, TRUE)
  <2>1. o.word = Word /\ o.rest = <<>> /\ o.late = TRUE
    BY <1>8 DEF Outcome
  <2> QED BY <1>1, <1>3, <2>1
<1>9. CASE o = Outcome(Nothing, <<>>, TRUE)
  <2>1. o.word = Nothing /\ o.rest = <<>> /\ o.late = TRUE
    BY <1>9 DEF Outcome
  <2> QED BY <1>1, <1>3, <2>1
<1> QED BY <1>4, <1>5, <1>6, <1>7, <1>8, <1>9

-----------------------------------------------------------------------------
(* Type correctness, one lemma for each kind of step.                      *)
LEMMA ArmTyped ==
  ASSUME TypeOK, CallBurst \/ ArmClear \/ ArmReset \/ ArmRun
  PROVE  TypeOK'
<1>1. mail' \in Seq(WordT)
  <2>1. mail \in Seq(WordT) /\ <<>> \in Seq(WordT)
    BY DEF TypeOK, WordT
  <2> QED BY <2>1 DEF CallBurst, ArmClear, ArmReset, ArmRun, ArmLost, ArmStep
<1>2. CASE CallBurst
  BY <1>1, <1>2 DEF CallBurst, TypeOK, Pcs, board, WordT
<1>3. CASE ArmClear
  <2>1. queue' \in 0..Free /\ engine' = engine /\ stuck' = stuck /\ dry' = dry
    BY <1>3, FreeAssumption DEF ArmClear, ArmLost, board, TypeOK
  <2>2. troubled' \subseteq Troubles
    BY <1>3 DEF ArmClear, ArmLost, TypeOK, Troubles
  <2>3. pc' \in Pcs /\ UNCHANGED <<want, expired, drained, going, early>>
    BY <1>3 DEF ArmClear, ArmLost, ArmStep, Pcs
  <2> QED BY <1>1, <2>1, <2>2, <2>3 DEF TypeOK, WordT
<1>4. CASE ArmReset
  BY <1>1, <1>4 DEF ArmReset, ArmLost, ArmStep, Reset, TypeOK, Pcs, Troubles, board, WordT
<1>5. CASE ArmRun
  BY <1>1, <1>5 DEF ArmRun, ArmLost, ArmStep, TypeOK, Pcs, Troubles, board, WordT
<1> QED BY <1>2, <1>3, <1>4, <1>5

LEMMA AskTyped ==
  ASSUME TypeOK, NEW from, NEW to \in {"settle", "answer"}, AskStatus(from, to)
  PROVE  TypeOK'
<1>1. mail' \in Seq(WordT)
  BY WordTyped, AgedTyped, AppendProperties DEF AskStatus
<1> QED BY <1>1 DEF AskStatus, TypeOK, Pcs, board, history, WordT

LEMMA ReadTyped ==
  ASSUME TypeOK, NEW o \in Outcomes, NEW n \in SettleRuns \cup LateRuns, Read(o, n)
  PROVE  /\ queue' \in 0..queue /\ queue' \in 0..Free /\ dry' \in BOOLEAN
         /\ mail' \in Seq(WordT) /\ troubled' \subseteq Troubles
         /\ o.word \in WordT
<1>1. n \in Nat
  BY RunsAssumption
<1>2. queue' \in 0..queue /\ queue' \in 0..Free /\ dry' \in BOOLEAN
  BY <1>1, ElapseInQueue DEF Read
<1>3. mail' \in Seq(WordT) /\ o.word \in WordT
  BY OutcomeTyped DEF Read
<1>4. troubled' \subseteq Troubles
  BY DEF Read, TypeOK, Troubles
<1> QED BY <1>2, <1>3, <1>4

LEMMA SettleTyped == ASSUME TypeOK, Settle PROVE TypeOK'
<1>1. PICK o \in Outcomes, n \in SettleRuns \cup LateRuns : Read(o, n) /\ Decide(o.word.free)
  BY DEF Settle
<1>2. /\ queue' \in 0..Free /\ dry' \in BOOLEAN
      /\ mail' \in Seq(WordT) /\ troubled' \subseteq Troubles /\ o.word \in WordT
  BY <1>1, ReadTyped
<1>3. want' \in 0..MaxSegs /\ pc' \in Pcs
  <2>1. o.word.free \in 0..Free
    BY <1>2 DEF WordT
  <2> QED BY <1>1, <2>1, RoomSmall, FreeAssumption DEF Decide, Pcs
<1> QED BY <1>2, <1>3 DEF Settle, TypeOK, WordT

LEMMA AnswerTyped == ASSUME TypeOK, Answer PROVE TypeOK'
<1>1. PICK o \in Outcomes, n \in SettleRuns \cup LateRuns :
        /\ Read(o, n) /\ drained' = o.word.ready /\ early' = o.word.early
        /\ IF o.word.ready THEN pc' = "idle" /\ expired' = FALSE
                           ELSE pc' = "doze" /\ UNCHANGED expired
  BY DEF Answer
<1>2. /\ queue' \in 0..Free /\ dry' \in BOOLEAN
      /\ mail' \in Seq(WordT) /\ troubled' \subseteq Troubles /\ o.word \in WordT
  BY <1>1, ReadTyped
<1>3. o.word.ready \in BOOLEAN /\ o.word.early \in BOOLEAN
  BY <1>2 DEF WordT
<1>4. drained' \in BOOLEAN /\ early' \in BOOLEAN
  BY <1>1, <1>3
<1>5. pc' \in Pcs /\ expired' \in BOOLEAN
  BY <1>1 DEF Pcs, TypeOK
<1> QED BY <1>2, <1>4, <1>5 DEF Answer, TypeOK, WordT

LEMMA NapTyped == ASSUME TypeOK, Nap \/ Doze PROVE TypeOK'
<1>1. queue' \in 0..Free /\ dry' \in BOOLEAN
  BY ElapseInQueue, RunsAssumption DEF Nap, Doze
<1> QED BY <1>1 DEF Nap, Doze, TypeOK, Pcs

LEMMA ChunkTyped == ASSUME TypeOK, SendChunk PROVE TypeOK'
<1>1. queue' \in 0..Free /\ stuck' \in BOOLEAN
  <2>1. want \in Nat /\ 0..want \subseteq Nat
    BY FreeAssumption DEF TypeOK
  <2> QED BY <2>1, PutInQueue DEF SendChunk
<1>2. want' \in 0..MaxSegs
  BY FreeAssumption DEF SendChunk
<1>3. pc' \in Pcs /\ going' \in BOOLEAN /\ expired' \in BOOLEAN
  BY DEF SendChunk, TypeOK, Pcs
<1> QED BY <1>1, <1>2, <1>3 DEF SendChunk, TypeOK

LEMMA HeaderTyped == ASSUME TypeOK, Header PROVE TypeOK'
<1>1. queue' \in 0..Free /\ stuck' \in BOOLEAN
  BY PutInQueue DEF Header, TypeOK
<1> QED BY <1>1 DEF Header, TypeOK, Pcs, history

LEMMA OtherTyped ==
  ASSUME TypeOK, \/ (Poll /\ expired) \/ CallWait \/ (Wait /\ expired) \/ Stop \/ Expire
                 \/ StartUp \/ Execute
  PROVE  TypeOK'
<1>1. CASE Poll /\ expired
  BY <1>1 DEF Poll, TypeOK, Pcs, board
<1>2. CASE CallWait
  BY <1>2 DEF CallWait, TypeOK, Pcs, board
<1>3. CASE Wait /\ expired
  BY <1>3 DEF Wait, TypeOK, Pcs, board, history
<1>4. CASE Stop
  BY <1>4 DEF Stop, Reset, TypeOK, Troubles
<1>5. CASE Expire
  BY <1>5 DEF Expire, TypeOK, board, history
<1>6. CASE StartUp
  BY <1>6 DEF StartUp, TypeOK, host, history
<1>7. CASE Execute
  BY <1>7, FreeAssumption DEF Execute, TypeOK, host, history
<1> QED BY <1>1, <1>2, <1>3, <1>4, <1>5, <1>6, <1>7

(* Every step is of one of these kinds.                                    *)
LEMMA Kinds ==
  ASSUME TypeOK, Next
  PROVE  \/ CallBurst \/ ArmClear \/ ArmReset \/ ArmRun \/ Header
         \/ AskStatus("poll", "settle") \/ AskStatus("wait", "answer")
         \/ Settle \/ Answer \/ Nap \/ Doze \/ SendChunk
         \/ (Poll /\ expired) \/ CallWait \/ (Wait /\ expired) \/ Stop \/ Expire
         \/ StartUp \/ Execute
<1>1. Poll => (Poll /\ expired) \/ AskStatus("poll", "settle")
  BY DEF Poll
<1>2. Wait => (Wait /\ expired) \/ AskStatus("wait", "answer")
  BY DEF Wait
<1> QED BY <1>1, <1>2 DEF Next, Method

LEMMA NextTyped == ASSUME TypeOK, [Next]_vars PROVE TypeOK'
<1>1. CASE Next
  BY <1>1, Kinds, ArmTyped, AskTyped, SettleTyped, AnswerTyped, NapTyped, ChunkTyped,
     HeaderTyped, OtherTyped
<1>2. CASE UNCHANGED vars
  BY <1>2 DEF vars, host, board, history, TypeOK
<1> QED BY <1>1, <1>2

LEMMA InitTyped == ASSUME Init PROVE TypeOK
<1>1. mail \in Seq(WordT)
  BY DEF Init
<1>2. 0 \in 0..MaxSegs /\ 0 \in 0..Free
  BY FreeAssumption
<1> QED BY <1>1, <1>2 DEF Init, TypeOK, Pcs, Troubles, WordT

(* Type correctness: in particular the free count, the chunk and the queue *)
(* stay in their ranges, whatever the board answers.                       *)
THEOREM TypeCorrect == Spec => []TypeOK
<1>1. Init => TypeOK
  BY InitTyped
<1>2. TypeOK /\ [Next]_vars => TypeOK'
  BY NextTyped
<1> QED BY <1>1, <1>2, PTL DEF Spec

-----------------------------------------------------------------------------
(* Of the newest word on the pipe: nothing has been executed or written    *)
(* since the board gave it.                                                *)
Current(w) == w.fresh => w.free = Free - queue /\ (w.ready /\ ~w.early => queue = 0)
MailCurrent == pc \in {"settle", "answer"} => \A i \in 1..Len(mail) : Current(mail[i])

LEMMA MailCurrentInit == ASSUME Init PROVE MailCurrent
  BY DEF Init, MailCurrent

(* Only an ask brings the method to a step that reads, and there nothing   *)
(* else moves the queue.                                                   *)
LEMMA MailCurrentNext ==
  ASSUME TypeOK, MailCurrent, [Next]_vars
  PROVE  MailCurrent'
<1>1. ASSUME NEW from, NEW to \in {"settle", "answer"}, AskStatus(from, to)
      PROVE  MailCurrent'
  <2>1. Aged \in Seq(WordT) /\ Len(Aged) = Len(mail)
        /\ \A i \in 1..Len(mail) : ~Aged[i].fresh
    BY AgedTyped
  <2>2. queue' = queue
    BY <1>1 DEF AskStatus, board
  <2>3. Word.fresh /\ Word.free = Free - queue /\ (Word.ready /\ ~Word.early => queue = 0)
    BY DEF Word
  <2>4. Word \in WordT
    BY WordTyped
  <2>5. \A i \in 1..Len(mail') : Current(mail[i])'
    <3>1. CASE mail' = Append(Aged, Word)
      <4> SUFFICES ASSUME NEW i \in 1..Len(mail') PROVE Current(mail[i])'
        OBVIOUS
      <4>1. i \in 1..Len(mail) \/ i = Len(mail) + 1
        BY <2>1, <2>4, <3>1
      <4>2. CASE i \in 1..Len(mail)
        <5>1. mail'[i] = Aged[i]
          BY <2>1, <2>4, <3>1, <4>2
        <5> QED BY <2>1, <4>2, <5>1 DEF Current
      <4>3. CASE i = Len(mail) + 1
        <5>1. mail'[i] = Word
          BY <2>1, <2>4, <3>1, <4>3
        <5> QED BY <2>2, <2>3, <5>1 DEF Current
      <4> QED BY <4>1, <4>2, <4>3
    <3>2. CASE mail' = Aged
      BY <2>1, <3>2 DEF Current
    <3> QED BY <1>1, <3>1, <3>2 DEF AskStatus
  <2> QED BY <2>5 DEF MailCurrent
<1>2. CASE UNCHANGED <<queue, mail>> /\ pc' = pc
  BY <1>2 DEF MailCurrent, Current
<1>3. CASE pc' \notin {"settle", "answer"}
  BY <1>3 DEF MailCurrent
<1>4. CASE UNCHANGED vars
  BY <1>2, <1>4 DEF vars, host, board
<1>5. CASE Expire \/ StartUp
  BY <1>2, <1>5 DEF Expire, StartUp, board, host
<1>6. CASE Stop \/ Execute
  BY <1>3, <1>6 DEF Stop, Execute, host
<1>7. CASE CallBurst \/ ArmClear \/ ArmReset \/ ArmRun \/ Header \/ Nap \/ Doze \/ SendChunk
  BY <1>3, <1>7
    DEF CallBurst, ArmClear, ArmReset, ArmRun, ArmLost, ArmStep, Header, Nap, Doze, SendChunk
<1>8. CASE Settle \/ Answer
  BY <1>3, <1>8 DEF Settle, Decide, Answer
<1>9. CASE (Poll /\ expired) \/ CallWait \/ (Wait /\ expired)
  BY <1>3, <1>9 DEF Poll, CallWait, Wait
<1> QED BY <1>1, <1>4, <1>5, <1>6, <1>7, <1>8, <1>9, Kinds

(* What a settled ask knows: its word is late, stale, or current.          *)
LEMMA ReadCurrent ==
  ASSUME TypeOK, MailCurrent, pc \in {"settle", "answer"},
         NEW o \in Outcomes, NEW n \in SettleRuns \cup LateRuns, Read(o, n)
  PROVE  /\ o.word = Nothing \/ Current(o.word)
         /\ "late" \notin troubled' => ~o.late /\ n \in SettleRuns /\ Current(o.word)
         /\ "stale" \notin troubled' => o.word.fresh
         /\ o.word.fresh /\ o.word # Nothing => o.word.free = Free - queue
         /\ troubled \subseteq troubled'
<1>1. mail \in Seq(WordT)
  BY DEF TypeOK, WordT
<1>2. mail # <<>> => Current(Head(mail))
  BY <1>1 DEF MailCurrent
<1>3. Current(Word)
  BY DEF Word, Current
<1>4. o.word = Nothing \/ Current(o.word)
  BY <1>2, <1>3, OutcomeTyped
<1>5. "late" \notin troubled' => ~o.late
  BY DEF Read
<1>6. ~o.late => Current(o.word)
  BY <1>2, OutcomeTyped
<1>7. ~o.late => n \in SettleRuns
  BY DEF Read
<1>8. "stale" \notin troubled' => o.word.fresh
  BY DEF Read
<1>9. troubled \subseteq troubled'
  BY DEF Read
<1> QED BY <1>4, <1>5, <1>6, <1>7, <1>8, <1>9 DEF Current

-----------------------------------------------------------------------------
(* A chunk fits what is left of the queue, and so does the opening jump.   *)
ChunkFits  == pc = "chunk" => queue + want <= Free \/ "stale" \in troubled
HeaderFits == pc \in {"reset", "run", "header"} => queue = 0 \/ "clear" \in troubled
RoomInv == ChunkFits /\ HeaderFits /\ OverrunsOnlyIfTroubled

LEMMA SumFits ==
  ASSUME NEW a \in Int, NEW b \in Int, NEW c \in Int, NEW f \in Int, a <= b, c <= f - b
  PROVE  a + c <= f
  OBVIOUS

LEMMA SettleRoom ==
  ASSUME TypeOK, MailCurrent, RoomInv, Settle
  PROVE  RoomInv'
<1>1. PICK o \in Outcomes, n \in SettleRuns \cup LateRuns : Read(o, n) /\ Decide(o.word.free)
  BY DEF Settle
<1>2. pc = "settle" /\ stuck' = stuck
  BY DEF Settle
<1>3. /\ queue' \in 0..queue /\ o.word \in WordT /\ queue \in 0..Free
  BY <1>1, ReadTyped DEF TypeOK
<1>4. /\ "stale" \notin troubled' => o.word.fresh
      /\ o.word.fresh /\ o.word # Nothing => o.word.free = Free - queue
      /\ troubled \subseteq troubled'
  BY <1>1, <1>2, ReadCurrent
<1>5. o.word.free \in 0..Free
  BY <1>3 DEF WordT
<1>6. o.word = Nothing => pc' = "nap"
  <2>1. Nothing.free = 0 /\ Room(0) = 0
    BY FreeAssumption DEF Nothing, Room
  <2> QED BY <1>1, <2>1, FreeAssumption DEF Decide
<1>7. ChunkFits'
  <2> SUFFICES ASSUME pc' = "chunk", "stale" \notin troubled' PROVE queue' + want' <= Free
    BY DEF ChunkFits
  <2>1. want' = Room(o.word.free)
    BY <1>1 DEF Decide
  <2>2. o.word.free = Free - queue
    BY <1>4, <1>6
  <2>3. want' <= Free - queue /\ want' \in Nat
    BY <1>5, <2>1, <2>2, RoomSmall, FreeAssumption
  <2>4. queue' <= queue /\ queue' \in Int /\ queue \in Int /\ Free \in Int /\ want' \in Int
    BY <1>3, <2>3, FreeAssumption
  <2> QED BY <2>3, <2>4, SumFits
<1>8. HeaderFits'
  BY <1>1 DEF Decide, HeaderFits
<1>9. OverrunsOnlyIfTroubled'
  BY <1>2, <1>4 DEF RoomInv, OverrunsOnlyIfTroubled
<1> QED BY <1>7, <1>8, <1>9 DEF RoomInv

LEMMA ChunkRoom == ASSUME TypeOK, RoomInv, SendChunk PROVE RoomInv'
<1>1. PICK n \in 0..want : Put(n)
  <2>1. want \in 0..want
    BY FreeAssumption DEF TypeOK
  <2> QED BY <2>1 DEF SendChunk
<1>2. queue + n <= Free \/ "stale" \in troubled
  <2>1. queue + want <= Free \/ "stale" \in troubled
    BY DEF SendChunk, RoomInv, ChunkFits
  <2>2. queue \in Nat /\ want \in Nat /\ n <= want /\ n \in Nat
    BY FreeAssumption DEF TypeOK
  <2> QED BY <2>1, <2>2, FreeAssumption
<1>3. stuck' => stuck \/ "stale" \in troubled
  BY <1>1, <1>2, FreeAssumption DEF Put, TypeOK
<1>4. troubled' = troubled /\ pc' \in {"poll", "idle"}
  BY DEF SendChunk
<1> QED BY <1>3, <1>4 DEF RoomInv, ChunkFits, HeaderFits, OverrunsOnlyIfTroubled

LEMMA HeaderRoom == ASSUME TypeOK, RoomInv, Header PROVE RoomInv'
<1>1. queue = 0 \/ "clear" \in troubled
  BY DEF Header, RoomInv, HeaderFits
<1>2. stuck' => stuck \/ "clear" \in troubled
  <2>1. CASE Put(1)
    BY <1>1, <2>1, FreeAssumption DEF Put, TypeOK
  <2>2. CASE UNCHANGED <<queue, stuck>>
    BY <2>2
  <2> QED BY <2>1, <2>2 DEF Header
<1>3. troubled' = troubled /\ pc' \in {"poll", "idle"}
  BY DEF Header, history
<1> QED BY <1>2, <1>3 DEF RoomInv, ChunkFits, HeaderFits, OverrunsOnlyIfTroubled

LEMMA ArmRoom ==
  ASSUME TypeOK, RoomInv, ArmClear \/ ArmReset \/ ArmRun \/ Stop
  PROVE  RoomInv'
<1>1. pc' # "chunk"
  BY DEF ArmClear, ArmReset, ArmRun, ArmLost, ArmStep, Stop
<1>2. HeaderFits'
  <2>1. CASE ArmClear
    BY <2>1 DEF ArmClear, ArmLost, ArmStep, HeaderFits
  <2>2. CASE ArmReset
    <3>1. pc = "reset" /\ queue' = queue /\ ("clear" \in troubled => "clear" \in troubled')
      BY <2>2 DEF ArmReset, ArmLost, ArmStep, Reset, board
    <3> QED BY <3>1 DEF RoomInv, HeaderFits
  <2>3. CASE ArmRun
    <3>1. pc = "run" /\ queue' = queue /\ ("clear" \in troubled => "clear" \in troubled')
      BY <2>3 DEF ArmRun, ArmLost, ArmStep, board
    <3> QED BY <3>1 DEF RoomInv, HeaderFits
  <2>4. CASE Stop
    BY <2>4 DEF Stop, HeaderFits
  <2> QED BY <2>1, <2>2, <2>3, <2>4
<1>3. OverrunsOnlyIfTroubled'
  <2>1. CASE stuck' = FALSE
    BY <2>1 DEF OverrunsOnlyIfTroubled
  <2>2. CASE stuck' = stuck /\ (stuck => troubled \subseteq troubled')
    BY <2>2 DEF RoomInv, OverrunsOnlyIfTroubled
  <2>3. ArmClear => stuck' = stuck /\ (stuck => troubled \subseteq troubled')
    BY DEF ArmClear, ArmLost, board
  <2>4. ArmReset => stuck' = FALSE \/ (stuck' = stuck /\ troubled \subseteq troubled')
    BY DEF ArmReset, ArmLost, Reset, board
  <2>5. ArmRun => stuck' = stuck /\ troubled \subseteq troubled'
    BY DEF ArmRun, ArmLost, board
  <2>6. Stop => stuck' = FALSE \/ (stuck' = stuck /\ troubled \subseteq troubled')
    BY DEF Stop, Reset
  <2> QED BY <2>1, <2>2, <2>3, <2>4, <2>5, <2>6
<1> QED BY <1>1, <1>2, <1>3 DEF RoomInv, ChunkFits

LEMMA OtherRoom ==
  ASSUME TypeOK, MailCurrent, RoomInv,
         \/ CallBurst \/ AskStatus("poll", "settle") \/ AskStatus("wait", "answer")
         \/ Answer \/ Nap \/ Doze \/ (Poll /\ expired) \/ CallWait \/ (Wait /\ expired)
         \/ Expire \/ StartUp \/ Execute \/ UNCHANGED vars
  PROVE  RoomInv'
<1>1. stuck' = stuck /\ troubled \subseteq troubled'
  <2>1. CASE Answer
    <3>1. PICK o \in Outcomes, n \in SettleRuns \cup LateRuns : Read(o, n)
      BY <2>1 DEF Answer
    <3>2. troubled \subseteq troubled'
      BY <3>1 DEF Read
    <3> QED BY <2>1, <3>2 DEF Answer
  <2>2. CASE ~Answer
    BY <2>2 DEF CallBurst, AskStatus, Nap, Doze, Poll, CallWait, Wait, Expire, StartUp,
                Execute, vars, board, history
  <2> QED BY <2>1, <2>2
<1>2. \/ pc' \notin {"chunk", "reset", "run", "header"}
      \/ pc' = pc /\ queue' = queue /\ want' = want
  BY DEF CallBurst, AskStatus, Answer, Nap, Doze, Poll, CallWait, Wait, Expire, StartUp,
         Execute, vars, board, host
<1> QED BY <1>1, <1>2 DEF RoomInv, ChunkFits, HeaderFits, OverrunsOnlyIfTroubled

LEMMA RoomNext ==
  ASSUME TypeOK, MailCurrent, RoomInv, [Next]_vars PROVE RoomInv'
  BY Kinds, SettleRoom, ChunkRoom, HeaderRoom, ArmRoom, OtherRoom

(* The closed loop: a chunk sized by a count that is an ask old fits the   *)
(* queue all the same, for every queue, margin and timing, unless arm()'s  *)
(* CLEAR was lost or an older word was read.                               *)
THEOREM ChunksFit == Spec => []OverrunsOnlyIfTroubled
<1>1. Init => RoomInv
  BY DEF Init, RoomInv, ChunkFits, HeaderFits, OverrunsOnlyIfTroubled
<1>2. Init => MailCurrent
  BY MailCurrentInit
<1>3. TypeOK /\ MailCurrent /\ [Next]_vars => MailCurrent'
  BY MailCurrentNext
<1>4. TypeOK /\ MailCurrent /\ RoomInv /\ [Next]_vars => RoomInv'
  BY RoomNext
<1>5. RoomInv => OverrunsOnlyIfTroubled
  BY DEF RoomInv
<1> QED BY <1>1, <1>2, <1>3, <1>4, <1>5, TypeCorrect, PTL DEF Spec

-----------------------------------------------------------------------------
(* wait_idle() returns TRUE on the word of a board that has no queue left. *)
WaitInv == drained => pc = "idle" /\ (queue = 0 \/ early \/ "stale" \in troubled)

LEMMA AnswerWaits == ASSUME TypeOK, MailCurrent, Answer PROVE WaitInv'
<1>1. PICK o \in Outcomes, n \in SettleRuns \cup LateRuns :
        /\ Read(o, n) /\ drained' = o.word.ready /\ early' = o.word.early
        /\ IF o.word.ready THEN pc' = "idle" /\ expired' = FALSE
                           ELSE pc' = "doze" /\ UNCHANGED expired
  BY DEF Answer
<1> SUFFICES ASSUME drained'
             PROVE  pc' = "idle" /\ (queue' = 0 \/ early' \/ "stale" \in troubled')
  BY DEF WaitInv
<1>2. o.word.ready /\ pc' = "idle"
  BY <1>1
<1>3. o.word # Nothing
  BY <1>2 DEF Nothing
<1>4. Current(o.word) /\ ("stale" \in troubled' \/ o.word.fresh)
  BY <1>1, <1>3, ReadCurrent DEF Answer
<1>5. queue = 0 \/ o.word.early \/ "stale" \in troubled'
  BY <1>2, <1>4 DEF Current
<1>6. queue' \in 0..queue
  BY <1>1, ReadTyped
<1>7. queue = 0 => queue' = 0
  BY <1>6
<1> QED BY <1>1, <1>2, <1>5, <1>7

LEMMA WaitNext ==
  ASSUME TypeOK, MailCurrent, WaitInv, [Next]_vars PROVE WaitInv'
<1>1. CASE Answer
  BY <1>1, AnswerWaits
<1>2. CASE CallBurst \/ CallWait \/ Stop
  BY <1>2 DEF CallBurst, CallWait, Stop, WaitInv
<1>3. CASE Execute
  <2>1. queue' \in 0..queue
    BY <1>3, FreeAssumption DEF Execute, TypeOK
  <2>2. queue = 0 => queue' = 0
    BY <2>1
  <2> QED BY <1>3, <2>2 DEF Execute, host, history, WaitInv
<1>4. CASE UNCHANGED vars \/ StartUp
  BY <1>4 DEF vars, host, board, history, StartUp, WaitInv
<1>5. CASE ArmClear \/ ArmReset \/ ArmRun \/ Header \/ Settle \/ Nap \/ Doze \/ SendChunk
           \/ AskStatus("poll", "settle") \/ AskStatus("wait", "answer")
           \/ (Poll /\ expired) \/ (Wait /\ expired) \/ Expire
  <2>1. drained' = drained /\ pc # "idle"
    BY <1>5 DEF ArmClear, ArmReset, ArmRun, ArmLost, ArmStep, Header, Settle, Nap, Doze,
                SendChunk, AskStatus, Poll, Wait, Expire
  <2> QED BY <2>1 DEF WaitInv
<1> QED BY <1>1, <1>2, <1>3, <1>4, <1>5, Kinds

(* wait_idle() waits: TRUE with vectors in the queue takes an engine that  *)
(* has not started, or an older word.                                      *)
THEOREM WaitWaits == Spec => []WaitsForTheQueue
<1>1. Init => WaitInv /\ MailCurrent
  BY MailCurrentInit DEF Init, WaitInv
<1>2. TypeOK /\ MailCurrent /\ [Next]_vars => MailCurrent'
  BY MailCurrentNext
<1>3. TypeOK /\ MailCurrent /\ WaitInv /\ [Next]_vars => WaitInv'
  BY WaitNext
<1>4. WaitInv => WaitsForTheQueue
  BY DEF WaitInv, WaitsForTheQueue
<1> QED BY <1>1, <1>2, <1>3, <1>4, TypeCorrect, PTL DEF Spec

-----------------------------------------------------------------------------
(* While its asks are answered the loop keeps, at each of its steps, what  *)
(* the time until its next look can execute.                               *)
Answered  == troubled \cap {"late", "stale"} = {}
GoingLoop == going => pc \in {"poll", "settle", "nap", "chunk"}
PollRoom  == Answered /\ going /\ ~stuck /\ pc \in {"poll", "settle"}
               => \A s \in SettleRuns : s <= queue
NapRoom   == Answered /\ pc = "nap"
               => \A n \in NapRuns, s \in SettleRuns : n + s <= queue
WantRoom  == Answered /\ pc = "chunk" => \A s \in SettleRuns : s <= queue + want
DryInv    == GoingLoop /\ PollRoom /\ NapRoom /\ WantRoom /\ NeverDry

LEMMA ElapseLeaves ==
  ASSUME TypeOK, NEW n \in Nat, Elapse(n)
  PROVE  /\ queue' \in Nat /\ queue - n <= queue'
         /\ dry' => dry \/ (~stuck /\ going /\ n > queue)
<1>1. queue \in Nat
  BY FreeAssumption DEF TypeOK
<1>2. queue' \in Nat /\ queue - n <= queue'
  BY <1>1 DEF Elapse
<1>3. dry' => dry \/ (~stuck /\ going /\ n > queue)
  BY DEF Elapse, Live
<1> QED BY <1>2, <1>3

(* How much is left when the loop naps, and when it writes.                *)
LEMMA NapArith ==
  ASSUME Roomy, NEW q \in 0..Free, NEW r \in Nat, NEW n \in SettleRuns, q - n <= r,
         Room(Free - q) < MinChunk
  PROVE  \A m \in NapRuns, s \in SettleRuns : m + s <= r
<1> SUFFICES ASSUME NEW m \in NapRuns, NEW s \in SettleRuns PROVE m + s <= r
  OBVIOUS
<1>1. n \in Nat /\ m \in Nat /\ s \in Nat
  BY RunsAssumption
<1>2. MinChunk <= MaxSegs /\ n + s + m < Free - Margin - MinChunk + 2
  BY DEF Roomy
<1>3. Free - q - Margin < MinChunk
  BY <1>2, FreeAssumption DEF Room, Least
<1> QED BY <1>1, <1>2, <1>3, FreeAssumption

LEMMA WantArith ==
  ASSUME Roomy, NEW q \in 0..Free, NEW r \in Nat, NEW n \in SettleRuns, q - n <= r,
         MinChunk <= Room(Free - q)
  PROVE  \A s \in SettleRuns : s <= r + Room(Free - q)
<1> SUFFICES ASSUME NEW s \in SettleRuns PROVE s <= r + Room(Free - q)
  OBVIOUS
<1>1. PICK m \in NapRuns : TRUE
  BY RunsAssumption
<1>2. n \in Nat /\ m \in Nat /\ s \in Nat
  BY RunsAssumption
<1>3. n + s + m < Free - Margin - MinChunk + 2 /\ s <= MaxSegs
  BY DEF Roomy
<1>4. Room(Free - q) = MaxSegs \/ Room(Free - q) = Free - q - Margin
  BY FreeAssumption DEF Room, Least
<1>5. CASE Room(Free - q) = MaxSegs
  BY <1>2, <1>3, <1>5, FreeAssumption
<1>6. CASE Room(Free - q) = Free - q - Margin
  BY <1>2, <1>3, <1>6, FreeAssumption
<1> QED BY <1>4, <1>5, <1>6

LEMMA SettleDry ==
  ASSUME Roomy, TypeOK, MailCurrent, DryInv, Settle
  PROVE  DryInv'
<1>1. PICK o \in Outcomes, n \in SettleRuns \cup LateRuns : Read(o, n) /\ Decide(o.word.free)
  BY DEF Settle
<1>2. pc = "settle" /\ stuck' = stuck /\ going' = going /\ pc' \in {"nap", "chunk"}
  BY <1>1 DEF Settle, Decide
<1>3. n \in Nat /\ queue \in 0..Free
  BY RunsAssumption DEF TypeOK
<1>4. /\ queue' \in Nat /\ queue - n <= queue'
      /\ dry' => dry \/ (~stuck /\ going /\ n > queue)
  BY <1>1, <1>3, ElapseLeaves DEF Read
<1>5. /\ "late" \notin troubled' => ~o.late /\ n \in SettleRuns /\ Current(o.word)
      /\ "stale" \notin troubled' => o.word.fresh
      /\ troubled \subseteq troubled'
  BY <1>1, <1>2, ReadCurrent
<1>6. Answered' => Answered /\ n \in SettleRuns /\ o.word.free = Free - queue
  BY <1>5 DEF Answered, Current
<1>7. NeverDry'
  <2> SUFFICES ASSUME dry', Answered' PROVE FALSE
    BY DEF NeverDry, Answered
  <2>1. ~dry
    BY <1>6 DEF DryInv, NeverDry, Answered
  <2>2. ~stuck /\ going /\ n > queue
    BY <1>4, <2>1
  <2>3. n <= queue
    BY <1>2, <1>6, <2>2 DEF DryInv, PollRoom
  <2> QED BY <1>3, <2>2, <2>3
<1>8. NapRoom'
  <2> SUFFICES ASSUME Answered', pc' = "nap"
               PROVE  \A m \in NapRuns, s \in SettleRuns : m + s <= queue'
    BY DEF NapRoom
  <2>1. Room(Free - queue) < MinChunk
    BY <1>1, <1>6 DEF Decide
  <2> QED BY <1>3, <1>4, <1>6, <2>1, NapArith
<1>9. WantRoom'
  <2> SUFFICES ASSUME Answered', pc' = "chunk"
               PROVE  \A s \in SettleRuns : s <= queue' + want'
    BY DEF WantRoom
  <2>1. ~(Room(Free - queue) < MinChunk) /\ want' = Room(Free - queue)
    BY <1>1, <1>6 DEF Decide
  <2>2. Room(Free - queue) \in Nat
    BY <1>3, RoomSmall, FreeAssumption
  <2>3. MinChunk <= Room(Free - queue)
    BY <2>1, <2>2, FreeAssumption
  <2> QED BY <1>3, <1>4, <1>6, <2>1, <2>3, WantArith
<1>10. GoingLoop' /\ PollRoom'
  BY <1>2 DEF DryInv, GoingLoop, PollRoom
<1> QED BY <1>7, <1>8, <1>9, <1>10 DEF DryInv

LEMMA NapDry == ASSUME TypeOK, DryInv, Nap PROVE DryInv'
<1>1. PICK n \in NapRuns : Elapse(n)
  BY DEF Nap
<1>2. /\ pc = "nap" /\ pc' = "poll" /\ stuck' = stuck /\ going' = going
      /\ troubled' = troubled
  BY DEF Nap
<1>3. n \in Nat /\ queue \in Nat
  BY RunsAssumption, FreeAssumption DEF TypeOK
<1>4. /\ queue' \in Nat /\ queue - n <= queue'
      /\ dry' => dry \/ (~stuck /\ going /\ n > queue)
  BY <1>1, <1>3, ElapseLeaves
<1>5. ASSUME Answered PROVE \A s \in SettleRuns : n + s <= queue
  BY <1>2, <1>5 DEF DryInv, NapRoom
<1>6. PollRoom'
  <2> SUFFICES ASSUME Answered, NEW s \in SettleRuns PROVE s <= queue'
    BY <1>2 DEF PollRoom, Answered
  <2>1. s \in Nat /\ n + s <= queue
    BY <1>5, RunsAssumption
  <2> QED BY <1>3, <1>4, <2>1
<1>7. NeverDry'
  <2> SUFFICES ASSUME dry', Answered PROVE FALSE
    BY <1>2 DEF NeverDry, Answered
  <2>1. n > queue
    BY <1>4 DEF DryInv, NeverDry, Answered
  <2>2. PICK s \in SettleRuns : s \in Nat
    BY RunsAssumption
  <2>3. n + s <= queue
    BY <1>5
  <2> QED BY <1>3, <2>1, <2>2, <2>3
<1> QED BY <1>2, <1>6, <1>7 DEF DryInv, GoingLoop, NapRoom, WantRoom

LEMMA ChunkDry == ASSUME TypeOK, DryInv, SendChunk PROVE DryInv'
<1>1. pc = "chunk" /\ troubled' = troubled /\ dry' = dry
  BY DEF SendChunk
<1>2. CASE Put(want) /\ pc' = "poll" /\ going' = TRUE
  <2>1. PollRoom'
    <3> SUFFICES ASSUME Answered, ~stuck', NEW s \in SettleRuns PROVE s <= queue'
      BY <1>1 DEF PollRoom, Answered
    <3>1. s <= queue + want
      BY <1>1 DEF DryInv, WantRoom
    <3>2. queue' = queue + want
      BY <1>2 DEF Put
    <3> QED BY <3>1, <3>2
  <2> QED BY <1>1, <1>2, <2>1 DEF DryInv, GoingLoop, NapRoom, WantRoom, NeverDry
<1>3. CASE pc' = "idle" /\ going' = FALSE
  BY <1>1, <1>3 DEF DryInv, GoingLoop, PollRoom, NapRoom, WantRoom, NeverDry
<1> QED BY <1>2, <1>3 DEF SendChunk

(* A step that ends the burst, or comes before its first chunk.            *)
LEMMA StillDry ==
  ASSUME DryInv, ~going', pc' \notin {"nap", "chunk"}, dry' => dry,
         ~dry' \/ troubled \subseteq troubled'
  PROVE  DryInv'
  BY DEF DryInv, GoingLoop, PollRoom, NapRoom, WantRoom, NeverDry

LEMMA OtherDry ==
  ASSUME TypeOK, DryInv,
         \/ CallBurst \/ ArmClear \/ ArmReset \/ ArmRun \/ Header
         \/ AskStatus("poll", "settle") \/ AskStatus("wait", "answer")
         \/ (Poll /\ expired) \/ CallWait \/ (Wait /\ expired) \/ Stop \/ Expire
         \/ StartUp \/ Execute \/ UNCHANGED vars
  PROVE  DryInv'
<1>1. CASE Expire \/ StartUp \/ UNCHANGED vars
  <2>1. UNCHANGED <<pc, want, queue, stuck, history>>
    BY <1>1 DEF Expire, StartUp, vars, host, board
  <2> QED BY <2>1 DEF history, DryInv, GoingLoop, PollRoom, NapRoom, WantRoom, NeverDry,
                      Answered
<1>2. CASE AskStatus("poll", "settle")
  <2>1. pc = "poll" /\ pc' = "settle" /\ UNCHANGED <<queue, stuck, going, dry, troubled>>
    BY <1>2 DEF AskStatus, board, history
  <2> QED BY <2>1 DEF DryInv, GoingLoop, PollRoom, NapRoom, WantRoom, NeverDry, Answered
<1>3. CASE ArmClear \/ ArmRun \/ Header \/ AskStatus("wait", "answer") \/ (Poll /\ expired)
           \/ CallWait \/ (Wait /\ expired) \/ Execute
  <2>1. ~going' /\ pc' \notin {"nap", "chunk"}
    BY <1>3 DEF DryInv, GoingLoop, ArmClear, ArmRun, ArmLost, ArmStep, Header, AskStatus,
                Poll, CallWait, Wait, Execute, host, history
  <2>2. dry' = dry /\ (troubled \subseteq troubled' \/ ArmClear)
    BY <1>3 DEF ArmClear, ArmRun, ArmLost, ArmStep, Header, AskStatus, Poll, CallWait, Wait,
                Execute, history
  <2>3. ArmClear => troubled \ {"clear"} \subseteq troubled'
    BY DEF ArmClear, ArmLost
  <2> QED BY <2>1, <2>2, <2>3
      DEF DryInv, GoingLoop, PollRoom, NapRoom, WantRoom, NeverDry
<1>4. CASE CallBurst \/ ArmReset \/ Stop
  <2>1. ~going' /\ pc' \notin {"nap", "chunk"}
    BY <1>4 DEF DryInv, GoingLoop, CallBurst, ArmReset, ArmLost, ArmStep, Stop
  <2>2. ~dry' \/ (dry' = dry /\ troubled \subseteq troubled')
    BY <1>4 DEF CallBurst, ArmReset, ArmLost, Stop, Reset
  <2> QED BY <2>1, <2>2, StillDry
<1> QED BY <1>1, <1>2, <1>3, <1>4

LEMMA WaitDry == ASSUME TypeOK, DryInv, Answer \/ Doze PROVE DryInv'
<1>1. ~going /\ going' = going /\ pc' \notin {"nap", "chunk"}
  BY DEF DryInv, GoingLoop, Answer, Doze
<1>2. PICK n \in Nat : Elapse(n) /\ troubled \subseteq troubled'
  BY RunsAssumption DEF Answer, Read, Doze
<1>3. dry' => dry
  BY <1>1, <1>2, ElapseLeaves
<1> QED BY <1>1, <1>2, <1>3, StillDry

(* job.rs: the closed loop does not drain the queue between chunks -- for  *)
(* every queue and every timing in which an ask, a nap and another ask     *)
(* take less than the margin leaves, and while the asks are answered.      *)
THEOREM LoopNeverDry == ASSUME Roomy PROVE Spec => []NeverDry
<1>1. Init => DryInv /\ MailCurrent
  BY MailCurrentInit DEF Init, DryInv, GoingLoop, PollRoom, NapRoom, WantRoom, NeverDry
<1>2. TypeOK /\ MailCurrent /\ [Next]_vars => MailCurrent'
  BY MailCurrentNext
<1>3. TypeOK /\ MailCurrent /\ DryInv /\ [Next]_vars => DryInv'
  <2> SUFFICES ASSUME TypeOK, MailCurrent, DryInv, [Next]_vars PROVE DryInv'
    OBVIOUS
  <2> QED BY Roomy, Kinds, SettleDry, NapDry, ChunkDry, WaitDry, OtherDry
<1>4. DryInv => NeverDry
  BY DEF DryInv
<1> QED BY <1>1, <1>2, <1>3, <1>4, TypeCorrect, PTL DEF Spec
=============================================================================
