---------------------------- MODULE UnlockProofs ----------------------------
(***************************************************************************)
(* ensure_unlocked() answers TRUE only for a board that is authenticated,  *)
(* for every number of attempts, every backlog of replies and every fault; *)
(* and as long as nothing goes wrong it answers TRUE, and replays nothing  *)
(* to a board that is authenticated, whichever one or two replies earlier  *)
(* processes have left on the pipe.                                        *)
(***************************************************************************)
EXTENDS Unlock, AskReplyProofs

Names == {"start", "reset", "clear", "again", "check", "digest", "mac", "token",
          "state", "last", "yes", "no"}

(* The steps that come with an attempt to spend.                           *)
Early == {"start", "reset", "clear", "again", "check"}

(* A reply that reads "authenticated" was given by a board that was, and   *)
(* the latch stays set; so it is with the answer.                          *)
LatchInv ==
  /\ step \in Names /\ left \in Nat
  /\ step \in Early => left > 0
  /\ auth \in BOOLEAN
  /\ said # {} => auth
  /\ step = "yes" => auth

-----------------------------------------------------------------------------
LEMMA LatchInit == UnlockInit => LatchInv
  BY AttemptsAssumption DEF UnlockInit, LatchInv, Names, Early

(* A command the board takes leaves the latch set if it was, and its reply *)
(* reads what the latch is.                                                *)
LEMMA TakeKeeps ==
  ASSUME LatchInv, NEW m, Take(m), UNCHANGED program
  PROVE  LatchInv'
<1>1. auth' \in BOOLEAN /\ (auth => auth')
  BY DEF LatchInv, Take
<1>2. said' # {} => auth'
  <2>1. CASE m.op = EncryptOp /\ auth
    BY <1>1, <2>1
  <2>2. CASE ~(m.op = EncryptOp /\ auth)
    BY <1>1, <2>2 DEF LatchInv, Take
  <2> QED BY <2>1, <2>2
<1> QED BY <1>1, <1>2 DEF LatchInv, program

LEMMA SameKeeps ==
  ASSUME LatchInv, UNCHANGED latch, UNCHANGED program
  PROVE  LatchInv'
  BY DEF LatchInv, latch, program

-----------------------------------------------------------------------------
(* The exchanges that match their reply, and the frames, that do not.      *)
Asked  == {"reset", "clear", "again", "check", "last"}
Frames == {"digest", "mac", "token"}

(* What comes after each exchange.                                         *)
LEMMA AfterEach ==
  /\ step = "start"  => After = "reset"
  /\ step = "reset"  => After = "clear"
  /\ step = "clear"  => After = "again"
  /\ step = "again"  => After = "check"
  /\ step = "digest" => After = "mac"
  /\ step = "mac"    => After = "token"
  /\ step = "token"  => After = "state"
  /\ step = "state" /\ left = 0 => After = "last"
  /\ step = "state" /\ left > 0 => After = "check"
  /\ step \in {"check", "last"} /\ Unlocked => After = "yes"
  /\ step = "check" /\ ~Unlocked => After = "digest"
  /\ step = "last" /\ ~Unlocked => After = "no"
<1>1. step = "start" => After = "reset"
  BY DEF After
<1>2. step = "reset" => After = "clear"
  BY DEF After
<1>3. step = "clear" => After = "again"
  BY DEF After
<1>4. step = "again" => After = "check"
  BY DEF After
<1>5. step = "digest" => After = "mac"
  BY DEF After
<1>6. step = "mac" => After = "token"
  BY DEF After
<1>7. step = "token" => After = "state"
  BY DEF After
<1>8. step = "state" /\ left = 0 => After = "last"
  BY DEF After
<1>9. step = "state" /\ left > 0 => After = "check"
  BY DEF After
<1>10. step \in {"check", "last"} /\ Unlocked => After = "yes"
  BY DEF After
<1>11. step = "check" /\ ~Unlocked => After = "digest"
  BY DEF After
<1>12. step = "last" /\ ~Unlocked => After = "no"
  BY DEF After
<1> QED BY <1>1, <1>2, <1>3, <1>4, <1>5, <1>6, <1>7, <1>8, <1>9, <1>10, <1>11, <1>12

LEMMA AfterNamed ==
  ASSUME step \in Names, left \in Nat, ~Returned
  PROVE  After \in (Names \ {"start"})
<1>1. CASE step \in {"check", "last"}
  BY <1>1, AfterEach DEF Names
<1>2. CASE step = "state"
  <2>1. left = 0 \/ left > 0
    OBVIOUS
  <2> QED BY <1>2, <2>1, AfterEach DEF Names
<1>3. CASE step \in {"start", "reset", "clear", "again", "digest", "mac", "token"}
  BY <1>3, AfterEach DEF Names
<1> QED BY <1>1, <1>2, <1>3 DEF Names, Returned

(* The opcode each exchange sends.                                         *)
LEMMA OpsOf ==
  /\ OpOf("reset") = ResetOp /\ OpOf("again") = ResetOp /\ OpOf("clear") = ClearOp
  /\ \A s \in {"check", "state", "last"} : OpOf(s) = EncryptOp
  /\ OpOf("digest") = DigestOp /\ OpOf("mac") = MacOp /\ OpOf("token") = MacOp
  BY DEF OpOf

LEMMA OpsOfKnown ==
  ASSUME NEW s \in Names \ {"start", "yes", "no"}
  PROVE  OpOf(s) \in Ops
  BY OpsOf, UnlockOpsAssumption DEF Names

(* What comes next: a step, or an answer that is TRUE for a reason.        *)
LEMMA AfterIsStep ==
  ASSUME LatchInv, ~Returned
  PROVE  /\ After \in Names
         /\ After \in Early \cup {"digest"} => left > 0
         /\ After = "yes" => Unlocked
<1>1. After \in Names
  BY AfterNamed DEF LatchInv
<1>2. left = 0 \/ left > 0
  BY DEF LatchInv
<1>3. After \in Early \cup {"digest"} => left > 0
  BY <1>2, AfterEach DEF LatchInv, Names, Early, Returned
<1>4. After = "yes" => Unlocked
  BY <1>2, AfterEach DEF LatchInv, Names, Returned
<1> QED BY <1>1, <1>3, <1>4

LEMMA LatchNext ==
  ASSUME LatchInv, [UnlockNext]_all
  PROVE  LatchInv'
<1>1. CASE Proceed
  <2>1. step' = After /\ After \notin {"yes", "no"} /\ ~Returned /\ UNCHANGED latch
    BY <1>1 DEF Proceed
  <2>2. left' = IF After = "digest" THEN left - 1 ELSE left
    BY <1>1 DEF Proceed
  <2>3. After \in Names /\ (After \in Early \cup {"digest"} => left > 0)
    BY <2>1, AfterIsStep
  <2>4. left' \in Nat /\ (step' \in Early => left' > 0)
    BY <2>1, <2>2, <2>3 DEF LatchInv, Early
  <2> QED BY <2>1, <2>3, <2>4 DEF LatchInv, latch
<1>2. CASE Finish
  <2>1. step' = After /\ After \in {"yes", "no"} /\ ~Returned
        /\ UNCHANGED <<left, latch>>
    BY <1>2 DEF Finish, latch
  <2>2. step' = "yes" => Unlocked
    BY <2>1, AfterIsStep
  <2>3. step' = "yes" => auth
    BY <2>2 DEF Unlocked, LatchInv
  <2> QED BY <2>1, <2>3 DEF LatchInv, latch, Names, Early
<1>3. CASE ReadOn
  BY <1>3, SameKeeps DEF ReadOn
<1>4. CASE BoardAnswers
  BY <1>4, TakeKeeps DEF BoardAnswers
<1>5. CASE BoardFails
  <2>1. UNCHANGED program /\ (UNCHANGED latch \/ Take(Head(inbox)))
    BY <1>5 DEF BoardFails
  <2> QED BY <2>1, TakeKeeps, SameKeeps
<1>6. CASE UNCHANGED all
  BY <1>6, SameKeeps DEF all, latch, program
<1> QED BY <1>1, <1>2, <1>3, <1>4, <1>5, <1>6 DEF UnlockNext

-----------------------------------------------------------------------------
(* job.rs: ensure_unlocked() is `true once the board is authenticated',    *)
(* however its replies were shifted, lost or left over.                    *)
THEOREM NeverFalselyUnlocked == UnlockSpec => []UnlockedIsTrue
<1>1. LatchInv => UnlockedIsTrue
  BY DEF LatchInv, UnlockedIsTrue
<1> QED BY <1>1, LatchInit, LatchNext, PTL DEF UnlockSpec

-----------------------------------------------------------------------------
(* A step of ensure_unlocked() is one of the reply channel, or none.       *)
LEMMA UnlockStep ==
  ASSUME LatchInv, [UnlockNext]_all
  PROVE  [Next]_vars
<1>1. CASE Proceed
  <2>1. ~Returned /\ After \notin {"yes", "no"} /\ Exchange(After)
    BY <1>1 DEF Proceed
  <2>2. PICK s \in Names \ {"start", "yes", "no"} : s = After /\ Exchange(s)
    BY <2>1, AfterNamed DEF LatchInv
  <2>3. OpOf(s) \in Ops
    BY OpsOfKnown
  <2>4. CASE s \in Frames
    BY <2>2, <2>3, <2>4 DEF Frames, Exchange, Next, Host
  <2>5. CASE s = "state"
    BY <2>2, <2>3, <2>5 DEF Exchange, Next, Host
  <2>6. CASE s \notin Frames \cup {"state"}
    BY <2>2, <2>3, <2>6 DEF Frames, Exchange, Next, Host
  <2> QED BY <2>4, <2>5, <2>6
<1>2. CASE Finish
  BY <1>2 DEF Finish, vars
<1>3. CASE ReadOn
  BY <1>3 DEF ReadOn, Next, Host
<1>4. CASE BoardAnswers
  BY <1>4 DEF BoardAnswers, Next
<1>5. CASE BoardFails
  BY <1>5 DEF BoardFails, Next
<1>6. CASE UNCHANGED all
  BY <1>6 DEF all
<1> QED BY <1>1, <1>2, <1>3, <1>4, <1>5, <1>6 DEF UnlockNext
-----------------------------------------------------------------------------
(* The replies that are still to be read, those the board owes included.   *)
Queue == ep88 \o inbox

LEMMA QueueTyped ==
  ASSUME Typed
  PROVE  /\ ep88 \in Seq(Msg) /\ inbox \in Seq(Msg) /\ Queue \in Seq(Msg)
         /\ Len(Queue) \in Nat /\ Len(Queue) = Len(ep88) + Len(inbox)
<1>1. ep88 \in Seq(Msg) /\ inbox \in Seq(Msg)
  BY DEF Typed, TypeOK
<1>2. Queue \in Seq(Msg) /\ Len(Queue) = Len(ep88) + Len(inbox)
  BY <1>1, ConcatProperties DEF Queue
<1>3. Len(Queue) \in Nat
  BY <1>2
<1> QED BY <1>1, <1>2, <1>3

(* The board answers: the reply moves, and the queue is the same.          *)
LEMMA QueueAnswered ==
  ASSUME Typed, Answer
  PROVE  /\ Queue' = Queue /\ Len(inbox) > 0 /\ Head(inbox) = Queue[Len(ep88) + 1]
         /\ Len(ep88') = Len(ep88) + 1 /\ Len(inbox') = Len(inbox) - 1
         /\ inbox' = Tail(inbox)
<1>1. ep88 \in Seq(Msg) /\ inbox \in Seq(Msg) /\ inbox # <<>>
  BY DEF Typed, TypeOK, Answer
<1>2. /\ Head(inbox) \in Msg /\ Tail(inbox) \in Seq(Msg) /\ Len(Tail(inbox)) = Len(inbox) - 1
      /\ Head(inbox) = inbox[1] /\ Len(inbox) \in Nat \ {0}
      /\ \A k \in 1..Len(Tail(inbox)) : Tail(inbox)[k] = inbox[k + 1]
  BY <1>1, Popped
<1>3. PICK e : e = Append(ep88, Head(inbox))
  OBVIOUS
<1>4. PICK t : t = Tail(inbox)
  OBVIOUS
<1>5. /\ e \in Seq(Msg) /\ Len(e) = Len(ep88) + 1 /\ \A k \in 1..Len(ep88) : e[k] = ep88[k]
      /\ e[Len(ep88) + 1] = Head(inbox)
  BY <1>1, <1>2, <1>3, Pushed
<1>6. /\ t \in Seq(Msg) /\ Len(t) = Len(inbox) - 1
      /\ \A k \in 1..Len(t) : t[k] = inbox[k + 1]
  BY <1>2, <1>4
<1>7. /\ e \o t \in Seq(Msg) /\ Len(e \o t) = Len(e) + Len(t)
      /\ \A k \in 1..Len(e) + Len(t) : (e \o t)[k] = IF k <= Len(e) THEN e[k] ELSE t[k - Len(e)]
  BY <1>5, <1>6, ConcatProperties
<1>8. /\ Queue \in Seq(Msg) /\ Len(Queue) = Len(ep88) + Len(inbox)
      /\ \A k \in 1..Len(ep88) + Len(inbox) :
           Queue[k] = IF k <= Len(ep88) THEN ep88[k] ELSE inbox[k - Len(ep88)]
  BY <1>1, ConcatProperties DEF Queue
<1>9. Len(ep88) \in Nat /\ Len(inbox) \in Nat
  BY <1>1
<1>10. Len(e \o t) = Len(Queue)
  BY <1>5, <1>6, <1>7, <1>8, <1>9
<1>11. \A k \in 1..Len(e \o t) : (e \o t)[k] = Queue[k]
  <2>1. TAKE k \in 1..Len(e \o t)
  <2>2. k \in 1..Len(e) + Len(t) /\ k \in 1..Len(ep88) + Len(inbox)
    BY <1>7, <1>10, <1>8
  <2>3. CASE k <= Len(ep88)
    BY <1>5, <1>7, <1>8, <1>9, <2>2, <2>3, SMTT(30)
  <2>4. CASE k = Len(ep88) + 1
    BY <1>2, <1>5, <1>7, <1>8, <1>9, <2>2, <2>4
  <2>5. CASE k > Len(ep88) + 1
    <3>1. k - Len(e) \in 1..Len(t) /\ k - Len(ep88) = (k - Len(e)) + 1
      BY <1>5, <1>6, <1>9, <2>2, <2>5
    <3>2. (e \o t)[k] = t[k - Len(e)] /\ Queue[k] = inbox[k - Len(ep88)]
      BY <1>5, <1>7, <1>8, <1>9, <2>2, <2>5, SMTT(30)
    <3> QED BY <1>6, <3>1, <3>2
  <2> QED BY <2>2, <2>3, <2>4, <2>5, <1>9, SMTT(30)
<1>12. e \o t = Queue
  BY <1>7, <1>8, <1>10, <1>11, SeqEqual
<1>13. ep88' = e /\ inbox' = t
  BY <1>3, <1>4 DEF Answer
<1>14. Head(inbox) = Queue[Len(ep88) + 1]
  BY <1>2, <1>8, <1>9
<1>15. Queue' = Queue
  BY <1>12, <1>13 DEF Queue
<1> QED BY <1>2, <1>4, <1>5, <1>6, <1>9, <1>13, <1>14, <1>15

(* A read takes the first reply of the queue.                              *)
LEMMA QueueRead ==
  ASSUME Typed, ep88 # <<>>, ep88' = Tail(ep88), inbox' = inbox
  PROVE  /\ Len(Queue) >= 1 /\ Len(Queue') = Len(Queue) - 1 /\ Head(ep88) = Queue[1]
         /\ \A k \in 1..Len(Queue) - 1 : Queue'[k] = Queue[k + 1]
<1>1. ep88 \in Seq(Msg) /\ inbox \in Seq(Msg)
  BY DEF Typed, TypeOK
<1>2. /\ Tail(ep88) \in Seq(Msg) /\ Len(Tail(ep88)) = Len(ep88) - 1
      /\ Head(ep88) = ep88[1] /\ Len(ep88) \in Nat \ {0}
      /\ \A k \in 1..Len(Tail(ep88)) : Tail(ep88)[k] = ep88[k + 1]
  BY <1>1, Popped
<1>3. PICK t : t = Tail(ep88)
  OBVIOUS
<1>4. /\ t \in Seq(Msg) /\ Len(t) = Len(ep88) - 1 /\ \A k \in 1..Len(t) : t[k] = ep88[k + 1]
  BY <1>2, <1>3
<1>5. /\ Len(t \o inbox) = Len(t) + Len(inbox)
      /\ \A k \in 1..Len(t) + Len(inbox) :
           (t \o inbox)[k] = IF k <= Len(t) THEN t[k] ELSE inbox[k - Len(t)]
  BY <1>1, <1>4, ConcatProperties
<1>6. /\ Len(Queue) = Len(ep88) + Len(inbox)
      /\ \A k \in 1..Len(ep88) + Len(inbox) :
           Queue[k] = IF k <= Len(ep88) THEN ep88[k] ELSE inbox[k - Len(ep88)]
  BY <1>1, ConcatProperties DEF Queue
<1>7. Len(inbox) \in Nat /\ Len(t) \in Nat
  BY <1>1, <1>4
<1>8. \A k \in 1..Len(Queue) - 1 : (t \o inbox)[k] = Queue[k + 1]
  <2>1. TAKE k \in 1..Len(Queue) - 1
  <2>2. k \in 1..Len(t) + Len(inbox) /\ k + 1 \in 1..Len(ep88) + Len(inbox)
    BY <1>2, <1>4, <1>6, <1>7
  <2>3. CASE k <= Len(t)
    <3>1. (t \o inbox)[k] = t[k] /\ Queue[k + 1] = ep88[k + 1]
      BY <1>2, <1>4, <1>5, <1>6, <1>7, <2>2, <2>3
    <3> QED BY <1>4, <1>7, <2>2, <2>3, <3>1, SMTT(30)
  <2>4. CASE k > Len(t)
    <3>1. (t \o inbox)[k] = inbox[k - Len(t)]
      BY <1>5, <1>7, <2>2, <2>4
    <3>2. ~(k + 1 <= Len(ep88)) /\ k + 1 - Len(ep88) = k - Len(t)
      BY <1>2, <1>4, <2>2, <2>4
    <3>3. Queue[k + 1] = inbox[k + 1 - Len(ep88)]
      BY <1>6, <2>2, <3>2
    <3> QED BY <3>1, <3>2, <3>3
  <2> QED BY <2>2, <2>3, <2>4, <1>7, SMTT(30)
<1>9. Queue' = t \o inbox
  BY <1>3 DEF Queue
<1>10. Head(ep88) = Queue[1]
  BY <1>2, <1>6, <1>7
<1> QED BY <1>2, <1>4, <1>5, <1>6, <1>7, <1>8, <1>9, <1>10, SMTT(30)

(* A command that goes out puts its reply at the end of the queue.         *)
LEMMA QueueAsked ==
  ASSUME Typed, NEW m \in Msg, inbox' = Append(inbox, m), ep88' = ep88
  PROVE  /\ Len(Queue') = Len(Queue) + 1 /\ Queue'[Len(Queue) + 1] = m
         /\ \A k \in 1..Len(Queue) : Queue'[k] = Queue[k]
         /\ Len(inbox') = Len(inbox) + 1
<1>1. ep88 \in Seq(Msg) /\ inbox \in Seq(Msg)
  BY DEF Typed, TypeOK
<1>2. PICK t : t = Append(inbox, m)
  OBVIOUS
<1>3. /\ t \in Seq(Msg) /\ Len(t) = Len(inbox) + 1 /\ \A k \in 1..Len(inbox) : t[k] = inbox[k]
      /\ t[Len(inbox) + 1] = m
  BY <1>1, <1>2, Pushed
<1>4. /\ Len(ep88 \o t) = Len(ep88) + Len(t)
      /\ \A k \in 1..Len(ep88) + Len(t) :
           (ep88 \o t)[k] = IF k <= Len(ep88) THEN ep88[k] ELSE t[k - Len(ep88)]
  BY <1>1, <1>3, ConcatProperties
<1>5. /\ Len(Queue) = Len(ep88) + Len(inbox)
      /\ \A k \in 1..Len(ep88) + Len(inbox) :
           Queue[k] = IF k <= Len(ep88) THEN ep88[k] ELSE inbox[k - Len(ep88)]
  BY <1>1, ConcatProperties DEF Queue
<1>6. Len(inbox) \in Nat /\ Len(ep88) \in Nat
  BY <1>1
<1>7. \A k \in 1..Len(Queue) : (ep88 \o t)[k] = Queue[k]
  <2>1. TAKE k \in 1..Len(Queue)
  <2>2. k \in 1..Len(ep88) + Len(t) /\ k \in 1..Len(ep88) + Len(inbox)
    BY <1>3, <1>5, <1>6
  <2>3. CASE k <= Len(ep88)
    BY <1>4, <1>5, <2>2, <2>3
  <2>4. CASE k > Len(ep88)
    <3>1. k - Len(ep88) \in 1..Len(inbox)
      BY <1>6, <2>2, <2>4
    <3>2. (ep88 \o t)[k] = t[k - Len(ep88)] /\ Queue[k] = inbox[k - Len(ep88)]
      BY <1>4, <1>5, <1>6, <2>2, <2>4
    <3> QED BY <1>3, <3>1, <3>2
  <2> QED BY <2>2, <2>3, <2>4, <1>6, SMTT(30)
<1>8. (ep88 \o t)[Len(Queue) + 1] = m
  <2>1. Len(Queue) + 1 \in 1..Len(ep88) + Len(t) /\ ~(Len(Queue) + 1 <= Len(ep88))
        /\ Len(Queue) + 1 - Len(ep88) = Len(inbox) + 1
    BY <1>3, <1>5, <1>6
  <2> QED BY <1>3, <1>4, <2>1
<1>9. Queue' = ep88 \o t /\ inbox' = t
  BY <1>2 DEF Queue
<1>10. Len(ep88 \o t) = Len(Queue) + 1
  BY <1>3, <1>4, <1>5, <1>6
<1> QED BY <1>3, <1>7, <1>8, <1>9, <1>10
-----------------------------------------------------------------------------
(* A calm run.  The reply to the command in progress is the last of the    *)
(* queue; what earlier processes have left is in front of it, at most two, *)
(* and the asks of the beginning take that away.                           *)
Opening == {"start", "reset", "clear", "again"}
Own == [op |-> OpOf(step), num |-> next - 1]
Last == Queue[Len(Queue)]

(* The queue between two exchanges.                                        *)
Behind ==
  /\ step = "start" => Len(Queue) <= 2
  /\ step = "reset" => Len(Queue) <= 2 /\ (Len(Queue) > 0 => Last.op = ResetOp)
  /\ step = "clear" /\ Len(Queue) > 0 =>
       Len(Queue) = 2 /\ Queue[1].op = ResetOp /\ Queue[2].op = ClearOp
  /\ step = "again" /\ Len(Queue) > 0 =>
       Len(Queue) = 2 /\ Queue[1].op = ClearOp /\ Queue[2].op = ResetOp
  /\ step \notin Opening => Len(Queue) = 0

(* The queue while a reply is awaited.                                     *)
Ahead ==
  /\ Len(Queue) > 0 /\ Last = Own
  /\ step = "reset" => Len(Queue) <= 3
  /\ step = "clear" => /\ Len(Queue) <= 3
                       /\ Len(Queue) > 1 => Queue[Len(Queue) - 1].op = ResetOp
  /\ step = "again" /\ Len(Queue) > 1 =>
       Len(Queue) = 3 /\ Queue[1].op = ResetOp /\ Queue[2].op = ClearOp
  /\ step = "check" => /\ Len(Queue) <= 3
                       /\ Len(Queue) > 1 => Queue[Len(Queue) - 1].op = ResetOp
                       /\ Len(Queue) > 2 => Queue[1].op = ClearOp
  /\ step \notin {"reset", "clear", "again", "check"} => Len(Queue) = 1

(* The two together; and an ask has a read left for every reply to come.   *)
Lined ==
  /\ pc = "idle" => Behind /\ (step \in {"check", "last"} => result = Own)
  /\ pc # "idle" => Ahead /\ op = OpOf(step)
  /\ pc = "read" => step \in Asked /\ tries >= Len(Queue)
  /\ pc = "raw"  => step \in Frames \cup {"state"}

(* What the board has made of the commands it took: the frames open the    *)
(* latch one after the other, and the reply to the check tells.            *)
Taken == Len(inbox) = 0
Told ==
  /\ step \in {"check", "last"} =>
       IF Taken THEN next - 1 \in said <=> auth ELSE next - 1 \notin said
  /\ step = "digest" => IF Taken THEN stage = 1 ELSE ~auth
  /\ step = "mac"    => stage = IF Taken THEN 2 ELSE 1
  /\ step = "token"  => IF Taken THEN auth ELSE stage = 2
  /\ step \in {"state", "last"} => auth
  /\ step # "no"
  /\ said \subseteq 0..next - 1
  /\ \A k \in 1..Len(inbox) : inbox[k].num \in 0..next - 1
  /\ stage \in 0..3 /\ (stage = 3 => auth)

CalmInv == calm => Lined /\ Told

LEMMA CalmInit ==
  ASSUME OldReplies <= 2
  PROVE  UnlockInit => CalmInv
<1> SUFFICES ASSUME UnlockInit PROVE Lined /\ Told
  BY DEF CalmInv
<1>1. Typed /\ step = "start" /\ pc = "idle" /\ inbox = <<>> /\ next = 1 /\ stage = 0
      /\ said \in {{}, {0}}
  BY TypeInit DEF UnlockInit, Init
<1>2. Len(ep88) <= 2
  <2>1. PICK n \in 0..OldReplies : ep88 \in [1..n -> [op : Leftover, num : {0}]]
    BY DEF UnlockInit, Init
  <2>2. Len(ep88) = n
    BY <2>1, OldTyped
  <2> QED BY <2>2, LeftoverAssumption
<1>3. Len(Queue) <= 2
  BY <1>1, <1>2, QueueTyped
<1>4. Lined
  BY <1>1, <1>3 DEF Lined, Behind, Opening, Asked, Frames
<1>5. Told
  BY <1>1 DEF Told
<1> QED BY <1>4, <1>5

LEMMA NextTyped ==
  ASSUME Typed
  PROVE  next \in Nat \ {0}
  BY DEF Typed, TypeOK

-----------------------------------------------------------------------------
(* The next command goes out.                                              *)
LEMMA CalmProceeds ==
  ASSUME Typed, LatchInv, Proceed, calm'
  PROVE  \E s \in Names \ {"start", "yes", "no"} :
           /\ s = After /\ step' = s /\ pc = "idle" /\ calm
           /\ inbox' = Append(inbox, [op |-> OpOf(s), num |-> next]) /\ ep88' = ep88
           /\ next' = next + 1 /\ op' = OpOf(s)
           /\ s \in Asked => pc' = "read" /\ tries' = Retries
           /\ s \notin Asked => pc' = "raw"
<1>1. ~Returned /\ After \notin {"yes", "no"} /\ Exchange(After) /\ step' = After /\ pc = "idle"
  BY DEF Proceed
<1>2. PICK s \in Names \ {"start", "yes", "no"} : s = After /\ Exchange(s)
  BY <1>1, AfterNamed DEF LatchInv
<1>3. WentThrough /\ calm
  BY DEF Proceed, Faulted
<1>4. inbox' # inbox /\ halted' = halted /\ pc' # "idle"
  BY <1>3 DEF WentThrough
<1>5. ASSUME NEW o, NEW h, WriteOk(o, h) \/ WriteErr(o, h)
      PROVE  inbox' = Append(inbox, [op |-> o, num |-> next])
  BY <1>4, <1>5 DEF WriteOk, WriteErr, Deliver
<1>6. CASE s \in Asked
  <2>1. CallAsk(OpOf(s))
    BY <1>2, <1>6 DEF Exchange, Asked
  <2>2. /\ next' = next + 1 /\ op' = OpOf(s) /\ tries' = Retries /\ ep88' = ep88
        /\ pc' = "read" /\ WriteOk(OpOf(s), halted)
    BY <2>1, <1>4 DEF CallAsk, Return
  <2> QED BY <1>1, <1>2, <1>3, <1>5, <1>6, <2>2
<1>7. CASE s \notin Asked
  <2>1. PICK frame \in BOOLEAN : CallRaw(OpOf(s), frame)
    BY <1>2, <1>7 DEF Exchange, Asked, Names
  <2>2. /\ next' = next + 1 /\ op' = OpOf(s) /\ ep88' = ep88
        /\ pc' = "raw" /\ (WriteOk(OpOf(s), halted) \/ WriteErr(OpOf(s), halted))
    BY <2>1, <1>4 DEF CallRaw
  <2> QED BY <1>1, <1>2, <1>3, <1>5, <1>7, <2>2
<1> QED BY <1>6, <1>7

(* It joins the queue behind what the exchange before it has left there,   *)
(* and its number is one that no reply has had.                            *)
LEMMA ProceedLined ==
  ASSUME Typed, LatchInv, CalmInv, Proceed, calm', Retries >= 3
  PROVE  Lined' /\ Told'
<1>1. PICK s \in Names \ {"start", "yes", "no"} :
           /\ s = After /\ step' = s /\ pc = "idle" /\ calm
           /\ inbox' = Append(inbox, [op |-> OpOf(s), num |-> next]) /\ ep88' = ep88
           /\ next' = next + 1 /\ op' = OpOf(s)
           /\ s \in Asked => pc' = "read" /\ tries' = Retries
           /\ s \notin Asked => pc' = "raw"
  BY CalmProceeds
<1>2. PICK m : m = [op |-> OpOf(s), num |-> next]
  OBVIOUS
<1>3. m \in Msg /\ next \in Nat \ {0}
  BY <1>2, OpsOfKnown, Numbered, NextTyped DEF Typed
<1>4. /\ Len(Queue') = Len(Queue) + 1 /\ Queue'[Len(Queue) + 1] = m
      /\ \A k \in 1..Len(Queue) : Queue'[k] = Queue[k]
      /\ Len(inbox') = Len(inbox) + 1
  BY <1>1, <1>2, <1>3, QueueAsked
<1>5. Lined /\ Told /\ Behind
  BY <1>1 DEF CalmInv, Lined
<1>6. ~Returned /\ step \in Names
  BY DEF Proceed, LatchInv
<1>7. Own' = m
  BY <1>1, <1>2, <1>3 DEF Own
<1>8. PICK L : L = Len(Queue) /\ L \in Nat
  BY QueueTyped
<1>9. PICK q : q = Queue'
  OBVIOUS
<1>10. /\ Len(q) = L + 1 /\ q[L + 1] = m /\ \A k \in 1..L : q[k] = Queue[k]
  BY <1>4, <1>8, <1>9
<1>11. Last' = m
  BY <1>9, <1>10 DEF Last
<1>12. L > 0 => Last = q[L]
  BY <1>8, <1>10 DEF Last
<1>13. Ahead'
  <2>1. CASE step = "start"
    <3>1. s = "reset" /\ L <= 2
      BY <1>1, <1>5, <1>8, <2>1, AfterEach DEF Behind
    <3> QED BY <1>1, <1>7, <1>8, <1>9, <1>10, <1>11, <3>1 DEF Ahead
  <2>2. CASE step = "reset"
    <3>1. s = "clear" /\ L <= 2 /\ (L > 0 => q[L].op = ResetOp)
      BY <1>1, <1>5, <1>8, <1>12, <2>2, AfterEach DEF Behind
    <3> QED BY <1>1, <1>7, <1>8, <1>9, <1>10, <1>11, <3>1 DEF Ahead
  <2>3. CASE step = "clear"
    <3>1. s = "again" /\ (L > 0 => L = 2 /\ q[1].op = ResetOp /\ q[2].op = ClearOp)
      BY <1>1, <1>5, <1>8, <1>10, <2>3, AfterEach DEF Behind
    <3> QED BY <1>1, <1>7, <1>8, <1>9, <1>10, <1>11, <3>1, SMTT(30) DEF Ahead
  <2>4. CASE step = "again"
    <3>1. s = "check" /\ (L > 0 => L = 2 /\ q[1].op = ClearOp /\ q[2].op = ResetOp)
      BY <1>1, <1>5, <1>8, <1>10, <2>4, AfterEach DEF Behind
    <3> QED BY <1>1, <1>7, <1>8, <1>9, <1>10, <1>11, <3>1 DEF Ahead
  <2>5. CASE step \notin Opening
    <3>1. L = 0
      BY <1>5, <1>8, <2>5 DEF Behind
    <3> QED BY <1>1, <1>7, <1>8, <1>9, <1>10, <1>11, <3>1 DEF Ahead
  <2> QED BY <2>1, <2>2, <2>3, <2>4, <2>5 DEF Opening
<1>14. tries' = Retries => tries' >= Len(Queue')
  BY <1>1, <1>5, <1>6, <1>8, <1>9, <1>10, RetriesAssumption DEF Behind, Opening, Names
<1>15. Lined'
  BY <1>1, <1>13, <1>14 DEF Lined, Asked, Frames, Names
<1>16. UNCHANGED latch
  BY DEF Proceed
<1>17. ~Taken'
  BY <1>1, <1>4, QueueTyped DEF Taken
<1>18. next' - 1 \notin said /\ said' \subseteq 0..next' - 1
  BY <1>1, <1>3, <1>5, <1>16 DEF Told, latch
<1>19. \A k \in 1..Len(inbox') : inbox'[k].num \in 0..next' - 1
  <2>1. inbox \in Seq(Msg)
    BY QueueTyped
  <2>2. /\ \A k \in 1..Len(inbox) : inbox'[k] = inbox[k]
        /\ inbox'[Len(inbox) + 1] = m
    BY <1>1, <1>2, <1>3, <2>1, Pushed
  <2>3. m.num = next
    BY <1>2
  <2>4. TAKE k \in 1..Len(inbox')
  <2>5. CASE k <= Len(inbox)
    <3>1. inbox'[k] = inbox[k] /\ inbox[k].num \in 0..next - 1
      BY <1>5, <2>1, <2>2, <2>5 DEF Told
    <3> QED BY <1>1, <1>3, <3>1, SMTT(30)
  <2>6. CASE k = Len(inbox) + 1
    BY <1>1, <1>3, <2>2, <2>3, <2>6
  <2> QED BY <1>4, <2>1, <2>5, <2>6
<1>20. s = "digest" => ~auth
  <2> SUFFICES ASSUME s = "digest" PROVE ~auth
    OBVIOUS
  <2>1. step = "check" /\ ~Unlocked
    <3>1. left = 0 \/ left > 0
      BY DEF LatchInv
    <3>2. step # "last"
      BY <1>1, AfterEach
    <3>3. step = "check" => ~Unlocked
      BY <1>1, AfterEach
    <3>4. step = "check"
      BY <1>1, <1>6, <3>1, <3>2, AfterEach DEF Names, Returned
    <3> QED BY <3>3, <3>4
  <2>2. Taken
    <3>1. Len(Queue) = 0
      BY <1>5, <2>1 DEF Behind, Opening
    <3> QED BY <3>1, QueueTyped DEF Taken
  <2>3. result = Own
    BY <1>1, <1>5, <2>1 DEF Lined
  <2>4. Own.op \in Ops /\ Own.num = next - 1
    BY <2>1, OpsOfKnown DEF Own, Names
  <2>5. next - 1 \notin said
    BY <2>1, <2>3, <2>4, OpsAssumption DEF Unlocked, NoReply
  <2> QED BY <1>5, <2>1, <2>2, <2>5 DEF Told
<1>21. /\ s = "mac" => stage = 1
       /\ s = "token" => stage = 2
       /\ s \in {"state", "last"} => auth
  <2>1. Len(Queue) = 0 => Taken
    BY QueueTyped DEF Taken
  <2>2. s = "mac" => step = "digest"
    BY <1>1, <1>6, AfterEach DEF LatchInv, Names, Returned
  <2>3. s = "token" => step = "mac"
    BY <1>1, <1>6, AfterEach DEF LatchInv, Names, Returned
  <2>4. s \in {"state", "last"} => step \in {"token", "state"}
    BY <1>1, <1>6, AfterEach DEF LatchInv, Names, Returned
  <2> QED BY <1>5, <2>1, <2>2, <2>3, <2>4 DEF Behind, Opening, Told
<1>22. Told'
  BY <1>1, <1>5, <1>16, <1>17, <1>18, <1>19, <1>20, <1>21 DEF Told, latch, Names
<1> QED BY <1>15, <1>22
-----------------------------------------------------------------------------
(* The answer: the check says what the latch is, and the last check comes  *)
(* after a replay, which has set it.                                       *)
LEMMA FinishLined ==
  ASSUME Typed, LatchInv, CalmInv, Finish, calm'
  PROVE  Lined' /\ Told'
<1>1. /\ pc = "idle" /\ ~Returned /\ After \in {"yes", "no"} /\ step' = After /\ calm
      /\ UNCHANGED <<vars, left, latch>>
  BY DEF Finish, latch
<1>2. Lined /\ Told /\ Behind
  BY <1>1 DEF CalmInv, Lined
<1>3. step \in {"check", "last"} /\ left \in Nat
  <2>1. left = 0 \/ left > 0
    BY DEF LatchInv
  <2> QED BY <1>1, <2>1, AfterEach DEF LatchInv, Names, Returned
<1>4. Len(Queue) = 0 /\ Taken
  <2>1. Len(Queue) = 0
    BY <1>2, <1>3 DEF Behind, Opening
  <2> QED BY <2>1, QueueTyped DEF Taken
<1>5. step = "last" => Unlocked
  <2> SUFFICES ASSUME step = "last" PROVE Unlocked
    OBVIOUS
  <2>1. result = Own /\ next - 1 \in said
    BY <1>1, <1>2, <1>4 DEF Lined, Told
  <2>2. Own.op \in Ops /\ Own.num = next - 1
    BY OpsOfKnown DEF Own, Names
  <2> QED BY <2>1, <2>2, OpsAssumption DEF Unlocked, NoReply
<1>6. step' = "yes"
  <2>1. step = "check" => Unlocked
    BY <1>1, AfterEach
  <2> QED BY <1>1, <1>3, <1>5, <2>1, AfterEach
<1>7. Len(Queue') = 0 /\ pc' = "idle"
  BY <1>1, <1>4 DEF vars, board, host, Queue
<1>8. Lined'
  BY <1>6, <1>7 DEF Lined, Behind, Opening
<1>9. /\ said' = said /\ inbox' = inbox /\ next' = next /\ stage' = stage /\ auth' = auth
  BY <1>1 DEF vars, board, host, latch
<1>10. Told'
  BY <1>2, <1>6, <1>9 DEF Told
<1> QED BY <1>8, <1>10

-----------------------------------------------------------------------------
(* In a calm run, a read takes the first reply.                            *)
LEMMA CalmReads ==
  ASSUME ReadOn, calm'
  PROVE  /\ calm /\ (ReadReply \/ RawRead)
         /\ ep88 # <<>> /\ ep88' = Tail(ep88) /\ inbox' = inbox /\ next' = next /\ op' = op
         /\ UNCHANGED <<program, latch>>
<1>1. ~Faulted
  BY DEF Faulted
<1>2. \/ ReadReply /\ UNCHANGED calm
      \/ RawRead /\ ep88' # ep88 /\ UNCHANGED calm
  <2>1. CASE ReadReply /\ UNCHANGED <<faults, calm>>
    BY <2>1
  <2>2. CASE ReadZeros /\ Faulted
    BY <1>1, <2>2
  <2>3. CASE ReadRecover /\ (IF Starved /\ inbox' # inbox /\ halted' = {}
                             THEN calm' = FALSE /\ UNCHANGED faults ELSE Faulted)
    BY <1>1, <2>3
  <2>4. CASE ReadGiveUp /\ (IF Starved THEN calm' = FALSE /\ UNCHANGED faults ELSE Faulted)
    BY <1>1, <2>4
  <2>5. CASE RawRead /\ (IF ep88' # ep88 THEN UNCHANGED <<faults, calm>>
                         ELSE IF Starved THEN calm' = FALSE /\ UNCHANGED faults ELSE Faulted)
    BY <1>1, <2>5
  <2> QED BY <2>1, <2>2, <2>3, <2>4, <2>5 DEF ReadOn
<1>3. ReadReply => ep88 # <<>> /\ ep88' = Tail(ep88) /\ inbox' = inbox /\ next' = next /\ op' = op
  BY DEF ReadReply
<1>4. RawRead /\ ep88' # ep88 =>
        ep88 # <<>> /\ ep88' = Tail(ep88) /\ inbox' = inbox /\ next' = next /\ op' = op
  BY DEF RawRead
<1>5. UNCHANGED <<program, latch>>
  BY DEF ReadOn
<1> QED BY <1>2, <1>3, <1>4, <1>5

(* A reply that matches is the command's own, but for RESETs and the       *)
(* CLEAR_CACHE of the opening, which leave the newer ones for the next;    *)
(* one that does not leaves a read for each reply that is still to come.   *)
LEMMA ReadLined ==
  ASSUME Typed, CalmInv, ReadOn, calm'
  PROVE  Lined' /\ Told'
<1>1. /\ calm /\ (ReadReply \/ RawRead)
      /\ ep88 # <<>> /\ ep88' = Tail(ep88) /\ inbox' = inbox /\ next' = next /\ op' = op
      /\ UNCHANGED <<program, latch>>
  BY CalmReads
<1>2. Lined /\ Told
  BY <1>1 DEF CalmInv
<1>3. step' = step /\ auth' = auth /\ stage' = stage /\ said' = said
  BY <1>1 DEF program, latch
<1>4. Told'
  BY <1>1, <1>2, <1>3 DEF Told, Taken
<1>5. /\ Len(Queue) >= 1 /\ Len(Queue') = Len(Queue) - 1 /\ Head(ep88) = Queue[1]
      /\ \A k \in 1..Len(Queue) - 1 : Queue'[k] = Queue[k + 1]
  BY <1>1, QueueRead
<1>6. PICK L : L = Len(Queue) /\ L \in Nat
  BY QueueTyped
<1>7. PICK p : p = Queue
  OBVIOUS
<1>8. PICK q : q = Queue'
  OBVIOUS
<1>9. /\ L >= 1 /\ Len(p) = L /\ Len(q) = L - 1 /\ Head(ep88) = p[1]
      /\ \A k \in 1..L - 1 : q[k] = p[k + 1]
  BY <1>5, <1>6, <1>7, <1>8
<1>10. pc # "idle" /\ Ahead /\ op = OpOf(step) /\ p[L] = Own
  <2>1. pc # "idle"
    BY <1>1 DEF ReadReply, RawRead
  <2> QED BY <1>2, <1>6, <1>7, <2>1 DEF Lined, Ahead, Last
<1>11. Own' = Own
  BY <1>1, <1>3 DEF Own
<1>12. Own.op = OpOf(step)
  BY DEF Own
<1>13. L > 1 => q[L - 1] = Own
  BY <1>6, <1>9, <1>10
<1>14. CASE RawRead
  <2>1. step \in Frames \cup {"state"} /\ pc' = "idle"
    BY <1>2, <1>14 DEF RawRead, Lined
  <2>2. L = 1
    BY <1>6, <1>10, <2>1 DEF Ahead, Frames
  <2>3. Lined'
    BY <1>3, <1>8, <1>9, <2>1, <2>2 DEF Lined, Behind, Opening, Frames
  <2> QED BY <1>4, <2>3
<1>15. CASE ReadReply
  <2>1. step \in Asked /\ tries >= L /\ tries' = tries - 1 /\ tries \in Nat
    <3>1. pc = "read" /\ tries' = tries - 1
      BY <1>15 DEF ReadReply
    <3> QED BY <1>2, <1>6, <3>1 DEF Lined, Typed, TypeOK
  <2>2. CASE p[1].op = op
    <3>1. pc' = "idle" /\ result' = p[1]
      BY <1>9, <1>15, <2>2 DEF ReadReply, Return
    <3>2. CASE step = "reset"
      <4>1. L <= 3
        BY <1>6, <1>10, <3>2 DEF Ahead
      <4>2. L > 1 => q[L - 1].op = ResetOp
        BY <1>12, <1>13, <3>2, OpsOf
      <4> QED BY <1>3, <1>4, <1>6, <1>8, <1>9, <3>1, <3>2, <4>1, <4>2 DEF Lined, Behind, Opening, Last
    <3>3. CASE step = "clear"
      <4>1. L <= 3 /\ (L > 1 => p[L - 1].op = ResetOp)
        BY <1>6, <1>7, <1>10, <3>3 DEF Ahead
      <4>2. L # 2
        BY <1>10, <2>2, <3>3, <4>1, OpsOf, OpcodesDiffer
      <4>3. L = 3 => q[1].op = ResetOp /\ q[2].op = ClearOp
        BY <1>9, <1>12, <1>13, <3>3, <4>1, OpsOf
      <4> QED BY <1>3, <1>4, <1>6, <1>8, <1>9, <3>1, <3>3, <4>1, <4>2, <4>3 DEF Lined, Behind, Opening
    <3>4. CASE step = "again"
      <4>1. L > 1 => L = 3 /\ p[1].op = ResetOp /\ p[2].op = ClearOp
        BY <1>6, <1>7, <1>10, <3>4 DEF Ahead
      <4>2. L > 1 => q[1].op = ClearOp /\ q[2].op = ResetOp
        BY <1>9, <1>12, <1>13, <3>4, <4>1, OpsOf
      <4> QED BY <1>3, <1>4, <1>6, <1>8, <1>9, <3>1, <3>4, <4>1, <4>2 DEF Lined, Behind, Opening
    <3>5. CASE step = "check"
      <4>1. L <= 3 /\ (L > 1 => p[L - 1].op = ResetOp) /\ (L > 2 => p[1].op = ClearOp)
        BY <1>6, <1>7, <1>10, <3>5 DEF Ahead
      <4>2. L = 1
        BY <1>6, <1>9, <1>10, <2>2, <3>5, <4>1, OpsOf, OpcodesDiffer
      <4> QED BY <1>3, <1>4, <1>8, <1>9, <1>10, <1>11, <3>1, <3>5, <4>2 DEF Lined, Behind, Opening
    <3>6. CASE step = "last"
      <4>1. L = 1
        BY <1>6, <1>10, <3>6 DEF Ahead
      <4> QED BY <1>3, <1>4, <1>8, <1>9, <1>10, <1>11, <3>1, <3>6, <4>1 DEF Lined, Behind, Opening
    <3> QED BY <1>4, <2>1, <3>2, <3>3, <3>4, <3>5, <3>6 DEF Asked
  <2>3. CASE p[1].op # op
    <3>1. L > 1
      BY <1>6, <1>9, <1>10, <1>12, <2>3
    <3>2. pc' = "read"
      <4>1. tries > 1
        BY <1>6, <2>1, <3>1
      <4> QED BY <1>9, <1>15, <2>3, <4>1 DEF ReadReply
    <3>3. Last' = Own /\ Len(Queue') = L - 1
      BY <1>8, <1>9, <1>13, <3>1 DEF Last
    <3>4. step # "again" /\ step # "last"
      BY <1>6, <1>7, <1>10, <2>3, <3>1, OpsOf DEF Ahead
    <3>5. Ahead'
      <4>1. CASE step = "reset"
        <5>1. L <= 3
          BY <1>6, <1>10, <4>1 DEF Ahead
        <5> QED BY <1>3, <1>6, <1>11, <3>1, <3>3, <4>1, <5>1 DEF Ahead
      <4>2. CASE step = "clear"
        <5>1. L <= 3 /\ p[L - 1].op = ResetOp
          BY <1>6, <1>7, <1>10, <3>1, <4>2 DEF Ahead
        <5>2. L > 2 => q[L - 2].op = ResetOp
          BY <1>6, <1>9, <5>1
        <5> QED BY <1>3, <1>6, <1>8, <1>11, <3>1, <3>3, <4>2, <5>1, <5>2 DEF Ahead
      <4>3. CASE step = "check"
        <5>1. L <= 3 /\ p[L - 1].op = ResetOp
          BY <1>6, <1>7, <1>10, <3>1, <4>3 DEF Ahead
        <5>2. L > 2 => q[L - 2].op = ResetOp
          BY <1>6, <1>9, <5>1
        <5> QED BY <1>3, <1>6, <1>8, <1>11, <3>1, <3>3, <4>3, <5>1, <5>2 DEF Ahead
      <4> QED BY <2>1, <3>4, <4>1, <4>2, <4>3 DEF Asked
    <3>6. tries' >= Len(Queue')
      BY <1>6, <2>1, <3>3
    <3> QED BY <1>1, <1>3, <1>4, <1>10, <2>1, <3>2, <3>5, <3>6 DEF Lined
  <2> QED BY <2>2, <2>3
<1> QED BY <1>1, <1>14, <1>15

-----------------------------------------------------------------------------
(* The board answers the first of the commands it owes a reply to.         *)
LEMMA AnswerLined ==
  ASSUME Typed, LatchInv, CalmInv, BoardAnswers, calm'
  PROVE  Lined' /\ Told'
<1>1. Answer /\ Take(Head(inbox)) /\ UNCHANGED <<program, faults, calm>>
  BY DEF BoardAnswers
<1>2. Lined /\ Told /\ step' = step
  BY <1>1 DEF CalmInv, program
<1>3. /\ Queue' = Queue /\ Len(inbox) > 0 /\ Head(inbox) = Queue[Len(ep88) + 1]
      /\ Len(inbox') = Len(inbox) - 1 /\ inbox' = Tail(inbox)
  BY <1>1, QueueAnswered
<1>4. UNCHANGED host /\ next' = next
  BY <1>1 DEF Answer
<1>5. Lined'
  <2>1. pc' = pc /\ op' = op /\ tries' = tries /\ result' = result
    BY <1>4 DEF host
  <2>2. Own' = Own /\ Last' = Last
    BY <1>2, <1>3, <1>4 DEF Own, Last
  <2>3. Behind' <=> Behind
    BY <1>2, <1>3, <2>2 DEF Behind
  <2>4. Ahead' <=> Ahead
    BY <1>2, <1>3, <2>2 DEF Ahead
  <2> QED BY <1>2, <1>3, <2>1, <2>2, <2>3, <2>4 DEF Lined
<1>6. PICK L : L = Len(Queue) /\ L \in Nat
  BY QueueTyped
<1>7. PICK n : n = Len(inbox) /\ n \in Nat \ {0}
  BY <1>3, QueueTyped, SMTT(30)
<1>8. PICK m : m = Head(inbox)
  OBVIOUS
<1>9. m = Queue[L - n + 1] /\ L >= n
  BY <1>3, <1>6, <1>7, <1>8, QueueTyped
<1>10. stage' = Staged(m.op) /\ auth' = (auth \/ Staged(m.op) = 3)
       /\ said' = IF m.op = EncryptOp /\ auth THEN said \cup {m.num} ELSE said
  BY <1>1, <1>8 DEF Take
<1>11. Taken' <=> n = 1
  BY <1>3, <1>7 DEF Taken
<1>12. ~Taken
  BY <1>7 DEF Taken
<1>13. next \in Nat \ {0}
  BY NextTyped
<1>14. stage \in 0..3 /\ (stage = 3 => auth)
  BY <1>2 DEF Told
<1>15. stage' \in 0..3 /\ (stage' = 3 => auth')
  <2>1. Staged(m.op) \in 0..3
    BY <1>14 DEF Staged
  <2> QED BY <1>10, <2>1
<1>16. inbox \in Seq(Msg) /\ inbox # <<>>
  BY <1>3, QueueTyped
<1>17. m.num \in 0..next - 1
  <2>1. m = inbox[1] /\ 1 \in 1..Len(inbox)
    BY <1>7, <1>8, <1>16, Popped
  <2> QED BY <1>2, <2>1 DEF Told
<1>18. \A k \in 1..Len(inbox') : inbox'[k].num \in 0..next' - 1
  <2>1. \A k \in 1..Len(Tail(inbox)) : Tail(inbox)[k] = inbox[k + 1]
    BY <1>16, Popped
  <2>2. TAKE k \in 1..Len(inbox')
  <2>3. k + 1 \in 1..Len(inbox)
    BY <1>3, <1>7
  <2> QED BY <1>2, <1>3, <1>4, <2>1, <2>3 DEF Told
<1>19. said' \subseteq 0..next' - 1
  BY <1>2, <1>4, <1>10, <1>17 DEF Told
<1>20. pc # "idle" /\ step \notin Opening => Ahead
  BY <1>2 DEF Lined
<1>21. step \notin Opening => pc # "idle"
  BY <1>2, <1>6, <1>7, <1>9 DEF Lined, Behind
<1>22. n = 1 /\ step \notin Opening => m = Own
  BY <1>6, <1>9, <1>20, <1>21 DEF Ahead, Last
<1>23. step \notin Opening \cup {"check"} => n = 1
  BY <1>6, <1>7, <1>9, <1>20, <1>21 DEF Ahead, Opening
<1>24. step = "check" /\ n > 1 => m.op # EncryptOp
  <2> SUFFICES ASSUME step = "check", n > 1 PROVE m.op # EncryptOp
    OBVIOUS
  <2>1. /\ L <= 3 /\ Queue[L - 1].op = ResetOp
        /\ L > 2 => Queue[1].op = ClearOp
    BY <1>6, <1>7, <1>9, <1>20, <1>21 DEF Ahead, Opening
  <2>2. n = 2 \/ (n = 3 /\ L = 3)
    BY <1>6, <1>7, <1>9, <2>1, SMTT(30)
  <2>3. CASE n = 2
    <3>1. m = Queue[L - 1]
      BY <1>6, <1>9, <2>3
    <3> QED BY <2>1, <3>1, OpcodesDiffer
  <2>4. CASE n = 3 /\ L = 3
    <3>1. m = Queue[1]
      BY <1>9, <2>4
    <3> QED BY <2>1, <2>4, <3>1, OpcodesDiffer
  <2> QED BY <2>2, <2>3, <2>4
<1>25. Own.op = OpOf(step) /\ Own.num = next - 1
  BY DEF Own
<1>26. CASE step \in Opening \cup {"yes"}
  BY <1>5, <1>2, <1>15, <1>18, <1>19, <1>26 DEF Told, Opening
<1>27. CASE step \in {"check", "last"}
  <2>1. next - 1 \notin said
    BY <1>2, <1>12, <1>27 DEF Told
  <2>2. CASE n = 1
    <3>1. m.op = EncryptOp /\ m.num = next - 1
      BY <1>22, <1>25, <1>27, <2>2, OpsOf DEF Opening
    <3>2. auth' = auth
      BY <1>10, <1>14, <3>1, OpcodesDiffer DEF LatchInv, Staged
    <3>3. next' - 1 \in said' <=> auth'
      BY <1>4, <1>10, <2>1, <3>1, <3>2
    <3> QED BY <1>5, <1>2, <1>4, <1>11, <1>15, <1>18, <1>19, <1>27, <2>2, <3>2, <3>3 DEF Told
  <2>3. CASE n # 1
    <3>1. step = "check" /\ m.op # EncryptOp
      BY <1>7, <1>23, <1>24, <1>27, <2>3 DEF Opening
    <3>2. said' = said
      BY <1>10, <3>1
    <3> QED BY <1>5, <1>2, <1>4, <1>11, <1>15, <1>18, <1>19, <2>1, <2>3, <3>1, <3>2 DEF Told
  <2> QED BY <2>2, <2>3
<1>28. CASE step \in Frames \cup {"state"}
  <2>1. n = 1 /\ m.op = OpOf(step)
    BY <1>22, <1>23, <1>25, <1>28 DEF Frames, Opening
  <2>2. CASE step = "digest"
    <3>1. stage' = 1
      BY <1>10, <2>1, <2>2, OpsOf DEF Staged
    <3> QED BY <1>5, <1>2, <1>11, <1>15, <1>18, <1>19, <2>1, <2>2, <3>1 DEF Told
  <2>3. CASE step = "mac"
    <3>1. stage' = 2
      BY <1>2, <1>10, <1>12, <2>1, <2>3, OpsOf, OpcodesDiffer DEF Staged, Told
    <3> QED BY <1>5, <1>2, <1>11, <1>15, <1>18, <1>19, <2>1, <2>3, <3>1 DEF Told
  <2>4. CASE step = "token"
    <3>1. stage' = 3
      BY <1>2, <1>10, <1>12, <2>1, <2>4, OpsOf, OpcodesDiffer DEF Staged, Told
    <3> QED BY <1>5, <1>2, <1>11, <1>15, <1>18, <1>19, <2>1, <2>4, <3>1 DEF Told
  <2>5. CASE step = "state"
    <3>1. auth'
      BY <1>2, <1>10, <2>5 DEF Told, LatchInv
    <3> QED BY <1>5, <1>2, <1>11, <1>15, <1>18, <1>19, <2>1, <2>5, <3>1 DEF Told
  <2> QED BY <1>28, <2>2, <2>3, <2>4, <2>5 DEF Frames
<1>29. step \in Opening \cup {"check", "last", "yes"} \cup Frames \cup {"state"}
  BY <1>2 DEF Told, LatchInv, Names, Opening, Frames
<1> QED BY <1>5, <1>26, <1>27, <1>28, <1>29

-----------------------------------------------------------------------------
(* Every step of a calm run keeps the queue and the latch in line.         *)
LEMMA CalmNext ==
  ASSUME Typed, LatchInv, CalmInv, Retries >= 3, [UnlockNext]_all
  PROVE  CalmInv'
<1> SUFFICES ASSUME calm' PROVE Lined' /\ Told'
  BY DEF CalmInv
<1>1. CASE Proceed
  BY <1>1, ProceedLined
<1>2. CASE Finish
  BY <1>2, FinishLined
<1>3. CASE ReadOn
  BY <1>3, ReadLined
<1>4. CASE BoardAnswers
  BY <1>4, AnswerLined
<1>5. CASE BoardFails
  BY <1>5 DEF BoardFails, Faulted
<1>6. CASE UNCHANGED all
  <2>1. /\ calm' = calm /\ step' = step /\ pc' = pc /\ op' = op /\ tries' = tries
        /\ result' = result /\ ep88' = ep88 /\ inbox' = inbox /\ next' = next
        /\ auth' = auth /\ stage' = stage /\ said' = said
    BY <1>6 DEF all, vars, host, board, program, latch
  <2>2. Lined /\ Told
    BY <2>1 DEF CalmInv
  <2>3. Queue' = Queue
    BY <2>1 DEF Queue
  <2>4. Last' = Last /\ Own' = Own
    BY <2>1, <2>3 DEF Last, Own
  <2>5. (Behind' <=> Behind) /\ (Ahead' <=> Ahead)
    BY <2>1, <2>3, <2>4 DEF Behind, Ahead
  <2>6. Lined'
    BY <2>1, <2>2, <2>3, <2>4, <2>5 DEF Lined
  <2>7. Told'
    BY <2>1, <2>2 DEF Told, Taken
  <2> QED BY <2>6, <2>7
<1> QED BY <1>1, <1>2, <1>3, <1>4, <1>5, <1>6 DEF UnlockNext

(* All of it is inductive.                                                 *)
Inductive == Typed /\ LatchInv /\ CalmInv

LEMMA CalmInvariant ==
  ASSUME Retries >= 3, OldReplies <= 2
  PROVE  UnlockSpec => []Inductive
<1>1. UnlockInit => Inductive
  BY TypeInit, LatchInit, CalmInit DEF UnlockInit, Inductive
<1>2. Inductive /\ [UnlockNext]_all => Inductive'
  BY UnlockStep, TypeStep, LatchNext, CalmNext DEF Inductive
<1> QED BY <1>1, <1>2, PTL DEF UnlockSpec

(* However many attempts, and whatever latch and whichever one or two      *)
(* replies earlier processes have left, ensure_unlocked() never gives up   *)
(* on a board that answers every command in time: with three reads an ask, *)
(* as job.rs has, no old reply is left when the state is first asked for.  *)
THEOREM CalmUnlocks ==
  ASSUME Retries >= 3, OldReplies <= 2
  PROVE  UnlockSpec => []UnlocksIfCalm
<1>1. Inductive => UnlocksIfCalm
  BY DEF Inductive, CalmInv, Told, UnlocksIfCalm
<1> QED BY <1>1, CalmInvariant, PTL

(* In such a run the frames are never replayed to a board that is          *)
(* authenticated already.  Two is the most: after the replies to a RESET,  *)
(* a CLEAR_CACHE and a RESET the check is not among the three it reads.    *)
THEOREM ReplaysOnlyToLocked ==
  ASSUME Retries >= 3, OldReplies <= 2
  PROVE  UnlockSpec => []ReplaysOnlyLocked
<1>1. Inductive => ReplaysOnlyLocked
  <2> SUFFICES ASSUME Inductive, calm, step = "digest", inbox # <<>> PROVE ~auth
    BY DEF ReplaysOnlyLocked
  <2>1. ~Taken
    BY QueueTyped DEF Inductive, Taken
  <2> QED BY <2>1 DEF Inductive, CalmInv, Told
<1> QED BY <1>1, CalmInvariant, PTL

(* ensure_unlocked() does nothing to the reply channel that an ask or a    *)
(* raw exchange could not do: every run of it is one of AskReply's.        *)
THEOREM UnlockUsesTheChannel == UnlockSpec => Spec
<1>1. UnlockInit => Init
  BY DEF UnlockInit
<1> QED BY <1>1, LatchInit, LatchNext, UnlockStep, PTL DEF UnlockSpec, Spec
=============================================================================
