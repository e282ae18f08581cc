--------------------------- MODULE AskReplyProofs ---------------------------
(* The reply channel, for every set of opcodes, number of retries and      *)
(* length of run.                                                          *)
EXTENDS AskReply, SequenceTheorems, FiniteSetTheorems, TLAPS

-----------------------------------------------------------------------------
(* The two queues.                                                         *)
LEMMA Popped ==
  ASSUME NEW q \in Seq(Msg), q # <<>>
  PROVE  /\ Head(q) \in Msg /\ Tail(q) \in Seq(Msg) /\ Len(Tail(q)) = Len(q) - 1
         /\ Head(q) = q[1] /\ Len(q) \in Nat \ {0}
         /\ \A i \in 1..Len(Tail(q)) : Tail(q)[i] = q[i + 1]
  BY HeadTailProperties

LEMMA Pushed ==
  ASSUME NEW q \in Seq(Msg), NEW m \in Msg
  PROVE  /\ Append(q, m) \in Seq(Msg) /\ Len(Append(q, m)) = Len(q) + 1
         /\ \A i \in 1..Len(q) : Append(q, m)[i] = q[i]
         /\ Append(q, m)[Len(q) + 1] = m
  BY AppendProperties

LEMMA Numbered ==
  ASSUME TypeOK, NEW o \in Ops
  PROVE  [op |-> o, num |-> next] \in Msg
  BY MaxSendsAssumption DEF TypeOK, Msg

(* A write leaves the queue of commands as it was, or one longer.          *)
LEMMA Written ==
  ASSUME TypeOK, NEW o \in Ops, NEW h \in SUBSET {"ctrl", "reply"},
         WriteOk(o, h) \/ WriteErr(o, h)
  PROVE  /\ inbox' \in {inbox, Append(inbox, [op |-> o, num |-> next])}
         /\ inbox' \in Seq(Msg) /\ Len(inbox') \in {Len(inbox), Len(inbox) + 1}
         /\ halted' \subseteq {"ctrl", "reply"}
<1>1. inbox' \in {inbox, Append(inbox, [op |-> o, num |-> next])}
  BY DEF WriteOk, WriteErr, Deliver
<1>2. halted' \subseteq {"ctrl", "reply"}
  BY DEF WriteOk, WriteErr
<1>3. inbox \in Seq(Msg)
  BY DEF TypeOK
<1> QED BY <1>1, <1>2, <1>3, Numbered, Pushed

(* What the counters of an ask in progress have left.                      *)
Counting ==
  pc = "read" => /\ tries >= 1
                 /\ ~recovered => next < MaxSends

Typed == TypeOK /\ Counting

(* Replies of earlier processes.                                           *)
LEMMA OldTyped ==
  ASSUME NEW n \in 0..OldReplies, NEW q \in [1..n -> [op : Leftover, num : {0}]]
  PROVE  q \in Seq(Msg) /\ Len(q) = n /\ \A i \in 1..Len(q) : q[i].num = 0
<1>1. n \in Nat /\ [op : Leftover, num : {0}] \subseteq Msg
  BY LeftoverAssumption, MaxSendsAssumption DEF Msg
<1>2. \A i \in 1..n : q[i] \in Msg /\ q[i].num = 0
  BY <1>1
<1>3. q \in [1..n -> Msg]
  BY <1>1
<1>4. q \in Seq(Msg)
  BY <1>1, <1>3, SeqDef, Zenon
<1>5. DOMAIN q = 1..Len(q) /\ Len(q) \in Nat
  BY <1>4, LenProperties
<1>6. DOMAIN q = 1..n
  BY <1>3
<1>7. Len(q) = n
  <2>1. \A i \in Int : i \in 1..n <=> i \in 1..Len(q)
    BY <1>5, <1>6
  <2>2. n >= 1 => n <= Len(q)
    BY <1>1, <2>1, <1>5
  <2>3. Len(q) >= 1 => Len(q) <= n
    BY <1>1, <2>1, <1>5
  <2> QED BY <1>1, <1>5, <2>2, <2>3
<1> QED BY <1>2, <1>4, <1>7

LEMMA TypeInit == Init => Typed
<1> SUFFICES ASSUME Init PROVE Typed
  OBVIOUS
<1>1. PICK n \in 0..OldReplies : ep88 \in [1..n -> [op : Leftover, num : {0}]]
  BY DEF Init
<1>2. ep88 \in Seq(Msg)
  BY <1>1, OldTyped
<1>3. troubled \subseteq Ops
  <2>1. \A i \in DOMAIN ep88 : ep88[i] \in Msg
    BY <1>2
  <2> QED BY <2>1 DEF Init, Msg
<1>4. inbox \in Seq(Msg) /\ next \in 1..MaxSends /\ tries \in 0..Retries
  BY RetriesAssumption, MaxSendsAssumption DEF Init
<1>5. /\ pc = "idle" /\ op \in Ops /\ sent = {} /\ recovered = FALSE /\ result = NoReply
      /\ halted = {} /\ found = 0 /\ dud = FALSE
  BY DEF Init
<1> QED BY <1>2, <1>3, <1>4, <1>5 DEF Typed, TypeOK, Counting

LEMMA TypeStep == Typed /\ [Next]_vars => Typed'
<1> SUFFICES ASSUME TypeOK, Counting, [Next]_vars PROVE TypeOK' /\ Counting'
  BY DEF Typed
<1> DEFINE HostOK  == /\ pc' \in {"idle", "read", "raw"} /\ op' \in Ops
                      /\ sent' \subseteq 0..MaxSends /\ tries' \in 0..Retries
                      /\ recovered' \in BOOLEAN /\ result' \in Msg \cup {NoReply}
           BoardOK == /\ inbox' \in Seq(Msg) /\ ep88' \in Seq(Msg)
                      /\ halted' \subseteq {"ctrl", "reply"} /\ next' \in 1..MaxSends
           PastOK  == troubled' \subseteq Ops /\ found' \in Nat /\ dud' \in BOOLEAN
<1> SUFFICES HostOK /\ BoardOK /\ PastOK /\ Counting'
  BY DEF TypeOK
<1>0. /\ next \in Nat \ {0} /\ next <= MaxSends /\ MaxSends \in Nat /\ tries \in Nat
      /\ tries <= Retries /\ Retries \in Nat \ {0} /\ halted \subseteq {"ctrl", "reply"}
      /\ inbox \in Seq(Msg) /\ ep88 \in Seq(Msg) /\ op \in Ops /\ troubled \subseteq Ops
      /\ sent \subseteq 0..MaxSends /\ found \in Nat
  BY MaxSendsAssumption, RetriesAssumption DEF TypeOK
<1>1. ASSUME NEW o \in Ops, CallAsk(o) PROVE HostOK /\ BoardOK /\ PastOK /\ Counting'
  <2>1. inbox' \in Seq(Msg) /\ halted' \subseteq {"ctrl", "reply"}
    BY <1>0, <1>1, Written DEF CallAsk
  <2>2. next' = next + 1 /\ next + 1 < MaxSends /\ tries' = Retries /\ sent' = {next}
    BY <1>1 DEF CallAsk
  <2>3. found' \in Nat
    BY <1>0, <1>1 DEF CallAsk, Outstanding
  <2>4. /\ pc' \in {"idle", "read"} /\ op' = o /\ recovered' = FALSE /\ result' = NoReply
        /\ troubled' \subseteq Ops /\ dud' = FALSE /\ ep88' = ep88
    BY <1>0, <1>1 DEF CallAsk, Return
  <2>5. next' \in 1..MaxSends /\ tries' \in 0..Retries /\ sent' \subseteq 0..MaxSends
        /\ tries' >= 1 /\ next' < MaxSends
    BY <1>0, <2>2
  <2> QED BY <1>0, <2>1, <2>3, <2>4, <2>5 DEF Counting
<1>2. ASSUME NEW o \in Ops, NEW frame \in BOOLEAN, CallRaw(o, frame)
      PROVE  HostOK /\ BoardOK /\ PastOK /\ Counting'
  <2>1. inbox' \in Seq(Msg) /\ halted' \subseteq {"ctrl", "reply"}
    BY <1>0, <1>2, Written DEF CallRaw
  <2>2. next' = next + 1 /\ next < MaxSends /\ tries' = 1 /\ sent' = {next}
    BY <1>2 DEF CallRaw
  <2>3. found' \in Nat
    BY <1>0, <1>2 DEF CallRaw, Outstanding
  <2>4. /\ pc' \in {"idle", "raw"} /\ op' = o /\ recovered' = FALSE /\ result' = NoReply
        /\ troubled' \subseteq Ops /\ dud' = FALSE /\ ep88' = ep88
    BY <1>0, <1>2 DEF CallRaw
  <2>5. next' \in 1..MaxSends /\ tries' \in 0..Retries /\ sent' \subseteq 0..MaxSends
    BY <1>0, <2>2
  <2> QED BY <1>0, <2>1, <2>3, <2>4, <2>5 DEF Counting
<1>3. CASE ReadReply
  <2>1. /\ pc = "read" /\ ep88 # <<>> /\ ep88' = Tail(ep88) /\ tries' = tries - 1
        /\ UNCHANGED <<op, sent, recovered, inbox, halted, next, found, dud>>
    BY <1>3 DEF ReadReply
  <2>2. ep88' \in Seq(Msg) /\ Head(ep88) \in Msg
    BY <1>0, <2>1, Popped
  <2>3. /\ pc' \in {"idle", "read"} /\ result' \in {result, NoReply, Head(ep88)}
        /\ pc' = "read" => tries > 1
    BY <1>3, <2>1 DEF ReadReply, Return
  <2>4. troubled' \subseteq Ops
    BY <1>0, <1>3 DEF ReadReply, Abandon
  <2>5. tries >= 1
    BY <2>1 DEF Counting
  <2>6. tries' \in 0..Retries
    BY <1>0, <2>1, <2>5
  <2>7. tries > 1 => tries' >= 1
    BY <1>0, <2>1
  <2>8. HostOK
    BY <2>1, <2>2, <2>3, <2>6 DEF TypeOK
  <2> QED BY <2>1, <2>2, <2>3, <2>4, <2>7, <2>8 DEF TypeOK, Counting
<1>4. CASE ReadZeros
  <2>1. /\ pc = "read" /\ tries' = tries - 1 /\ dud' = TRUE
        /\ UNCHANGED <<op, sent, recovered, board, found>>
        /\ pc' \in {"idle", "read"} /\ result' \in {result, NoReply}
        /\ pc' = "read" => tries > 1
    BY <1>4 DEF ReadZeros, Return
  <2>2. troubled' \subseteq Ops
    BY <1>0, <1>4 DEF ReadZeros, Abandon
  <2>3. tries >= 1
    BY <2>1 DEF Counting
  <2>4. tries' \in 0..Retries /\ (tries > 1 => tries' >= 1)
    BY <1>0, <2>1, <2>3
  <2>5. HostOK
    BY <2>1, <2>4 DEF TypeOK
  <2> QED BY <2>1, <2>2, <2>4, <2>5 DEF TypeOK, Counting, board
<1>5. CASE ReadRecover
  <2>1. /\ pc = "read" /\ ~recovered /\ recovered' = TRUE /\ tries' = tries - 1
        /\ sent' = sent \cup {next} /\ next' = next + 1 /\ dud' = TRUE
        /\ UNCHANGED <<op, ep88, found>>
        /\ pc' \in {"idle", "read"} /\ result' \in {result, NoReply}
        /\ pc' = "read" => tries > 1
    BY <1>5 DEF ReadRecover, Return
  <2>2. troubled' \subseteq Ops
    BY <1>0, <1>5 DEF ReadRecover, Abandon
  <2>3. tries >= 1 /\ next < MaxSends
    BY <2>1 DEF Counting
  <2>4. tries' \in 0..Retries /\ (tries > 1 => tries' >= 1)
    BY <1>0, <2>1, <2>3
  <2>5. next' \in 1..MaxSends /\ sent' \subseteq 0..MaxSends
    BY <1>0, <2>1, <2>3
  <2>6. inbox' \in Seq(Msg) /\ halted' \subseteq {"ctrl", "reply"}
    BY <1>0, <1>5, Written DEF ReadRecover
  <2>7. HostOK
    BY <2>1, <2>4, <2>5 DEF TypeOK
  <2> QED BY <2>1, <2>2, <2>4, <2>5, <2>6, <2>7 DEF TypeOK, Counting
<1>6. CASE ReadGiveUp
  <2>1. troubled' \subseteq Ops
    BY <1>0, <1>6 DEF ReadGiveUp, Abandon
  <2> QED BY <1>6, <2>1 DEF ReadGiveUp, Return, TypeOK, Counting, board
<1>7. CASE RawRead
  <2>1. ep88' \in Seq(Msg)
    BY <1>0, <1>7, Popped DEF RawRead
  <2>2. tries' \in 0..Retries
    BY <1>0, <1>7 DEF RawRead
  <2>3. pc' = "idle" /\ UNCHANGED <<op, sent, recovered, result, inbox, halted, next, history>>
    BY <1>7 DEF RawRead
  <2> QED BY <2>1, <2>2, <2>3 DEF TypeOK, Counting, history
<1>8. CASE Answer \/ Ignore \/ LoseReply \/ Stall
  <2>1. UNCHANGED <<host, next, history>>
    BY <1>8 DEF Answer, Ignore, LoseReply, Stall
  <2>2. /\ inbox' = inbox \/ (inbox # <<>> /\ inbox' = Tail(inbox))
        /\ \/ ep88' = ep88 \/ (ep88 # <<>> /\ ep88' = Tail(ep88))
           \/ (inbox # <<>> /\ ep88' = Append(ep88, Head(inbox)))
        /\ halted' \subseteq halted \cup {"reply"}
    BY <1>8 DEF Answer, Ignore, LoseReply, Stall
  <2>3. inbox' \in Seq(Msg) /\ ep88' \in Seq(Msg) /\ halted' \subseteq {"ctrl", "reply"}
    <3>1. inbox # <<>> => Tail(inbox) \in Seq(Msg) /\ Append(ep88, Head(inbox)) \in Seq(Msg)
      BY <1>0, Popped, Pushed
    <3>2. ep88 # <<>> => Tail(ep88) \in Seq(Msg)
      BY <1>0, Popped
    <3>3. inbox' \in Seq(Msg)
      BY <1>0, <2>2, <3>1
    <3>4. ep88' \in Seq(Msg)
      BY <1>0, <2>2, <3>1, <3>2
    <3>5. halted' \subseteq {"ctrl", "reply"}
      BY <1>0, <2>2
    <3> QED BY <3>3, <3>4, <3>5
  <2> QED BY <2>1, <2>3 DEF TypeOK, Counting, host, history
<1>9. CASE UNCHANGED vars
  BY <1>9 DEF vars, host, board, history, TypeOK, Counting
<1> QED BY <1>1, <1>2, <1>3, <1>4, <1>5, <1>6, <1>7, <1>8, <1>9 DEF Next, Host

(* The exchanges stay within their retries, and what is on the pipes is    *)
(* replies to commands that were sent or left behind.                      *)
THEOREM TypeCorrect == Spec => []TypeOK
<1>1. Typed => TypeOK
  BY DEF Typed
<1> QED BY TypeInit, TypeStep, <1>1, PTL DEF Spec

-----------------------------------------------------------------------------
(* How often a command goes out.                                           *)
SentFew ==
  /\ \E a, b \in Nat : sent \subseteq {a, b}
  /\ pc = "read" /\ ~recovered => \E a \in Nat : sent = {a}

LEMMA AtMostTwo ==
  ASSUME NEW S, NEW a, NEW b, S \subseteq {a, b}
  PROVE  Cardinality(S) <= 2
<1>1. IsFiniteSet({a}) /\ Cardinality({a}) = 1
  BY FS_Singleton
<1>2. {a, b} = {a} \cup {b}
  OBVIOUS
<1>3. IsFiniteSet({a, b}) /\ Cardinality({a, b}) <= 2
  BY <1>1, <1>2, FS_AddElement
<1>4. IsFiniteSet(S) /\ Cardinality(S) <= Cardinality({a, b})
  BY <1>3, FS_Subset
<1> QED BY <1>3, <1>4, FS_CardinalityType

LEMMA SentStep == Typed /\ SentFew /\ [Next]_vars => SentFew'
<1> SUFFICES ASSUME Typed, SentFew, [Next]_vars PROVE SentFew'
  OBVIOUS
<1>1. next \in Nat
  BY MaxSendsAssumption DEF Typed, TypeOK
<1>2. ASSUME sent' = {next} PROVE SentFew'
  BY <1>1, <1>2 DEF SentFew
<1>3. ASSUME sent' = sent, recovered' = recovered, pc' = "read" => pc = "read" PROVE SentFew'
  BY <1>3 DEF SentFew
<1>4. CASE ReadRecover
  <2>1. sent' = sent \cup {next} /\ recovered' = TRUE /\ pc = "read" /\ ~recovered
    BY <1>4 DEF ReadRecover
  <2>2. PICK a \in Nat : sent = {a}
    BY <2>1 DEF SentFew
  <2>3. sent' \subseteq {a, next}
    BY <2>1, <2>2
  <2> QED BY <1>1, <2>1, <2>3 DEF SentFew
<1>5. ASSUME NEW o \in Ops, CallAsk(o) \/ CallRaw(o, TRUE) \/ CallRaw(o, FALSE) PROVE SentFew'
  BY <1>2, <1>5 DEF CallAsk, CallRaw
<1>6. CASE ReadReply \/ ReadZeros \/ ReadGiveUp \/ RawRead
  BY <1>3, <1>6 DEF ReadReply, ReadZeros, ReadGiveUp, RawRead, Return, board, history
<1>7. CASE Answer \/ Ignore \/ LoseReply \/ Stall \/ UNCHANGED vars
  BY <1>3, <1>7 DEF Answer, Ignore, LoseReply, Stall, vars, host
<1> QED BY <1>4, <1>5, <1>6, <1>7 DEF Next, Host

(* A command is delivered twice at most, whatever fails.                   *)
THEOREM TwiceAtMost == Spec => []SentAtMostTwice
<1>1. Init => SentFew
  BY DEF Init, SentFew
<1>2. Typed /\ SentFew /\ [Next]_vars => (Typed /\ SentFew)'
  BY TypeStep, SentStep
<1>3. SentFew => SentAtMostTwice
  BY AtMostTwo DEF SentFew, SentAtMostTwice
<1> QED BY TypeInit, <1>1, <1>2, <1>3, PTL DEF Spec

-----------------------------------------------------------------------------
(* The order of what is outstanding: first the leftovers, then what the    *)
(* board has answered, then what it has not, each numbered as it was sent. *)
InOrder(q) ==
  \A i, j \in 1..Len(q) :
    i < j => q[i].num < q[j].num \/ (q[i].num = 0 /\ q[j].num = 0)

Order ==
  /\ InOrder(ep88) /\ InOrder(inbox)
  /\ \A i \in 1..Len(ep88), j \in 1..Len(inbox) : ep88[i].num < inbox[j].num
  /\ \A i \in 1..Len(ep88) : ep88[i].num < next
  /\ \A i \in 1..Len(inbox) : 0 < inbox[i].num /\ inbox[i].num < next

LEMMA Elements ==
  ASSUME NEW q \in Seq(Msg)
  PROVE  Len(q) \in Nat /\ \A i \in 1..Len(q) : q[i] \in Msg /\ q[i].num \in Nat
<1>1. \A m \in Msg : m.num \in Nat
  BY MaxSendsAssumption DEF Msg
<1>2. Len(q) \in Nat /\ \A i \in 1..Len(q) : q[i] \in Msg
  OBVIOUS
<1> QED BY <1>1, <1>2

LEMMA OrderKept ==
  ASSUME TypeOK, Order, inbox' = inbox, ep88' = ep88, next' \in {next, next + 1}
  PROVE  Order'
<1>1. inbox \in Seq(Msg) /\ ep88 \in Seq(Msg) /\ next \in Nat
  BY MaxSendsAssumption DEF TypeOK
<1> QED BY <1>1, Elements DEF Order, InOrder

LEMMA OrderPushed ==
  ASSUME TypeOK, Order, NEW o \in Ops,
         inbox' = Append(inbox, [op |-> o, num |-> next]), ep88' = ep88, next' = next + 1
  PROVE  Order'
<1> DEFINE m == [op |-> o, num |-> next]
<1>1. inbox \in Seq(Msg) /\ ep88 \in Seq(Msg) /\ next \in Nat \ {0} /\ m \in Msg /\ m.num = next
  BY Numbered, MaxSendsAssumption DEF TypeOK
<1> HIDE DEF m
<1>2. /\ inbox' \in Seq(Msg) /\ Len(inbox') = Len(inbox) + 1
      /\ \A i \in 1..Len(inbox) : inbox'[i] = inbox[i]
      /\ inbox'[Len(inbox) + 1] = m
  BY <1>1, Pushed DEF m
<1>3. \A i \in 1..Len(inbox') : i \in 1..Len(inbox) \/ i = Len(inbox) + 1
  BY <1>1, <1>2, Elements
<1>4. InOrder(inbox)'
  BY <1>1, <1>2, <1>3, Elements DEF Order, InOrder
<1>5. InOrder(ep88)' /\ \A i \in 1..Len(ep88') : ep88'[i].num < next'
  BY <1>1, Elements DEF Order, InOrder
<1>6. \A i \in 1..Len(inbox') : 0 < inbox'[i].num /\ inbox'[i].num < next'
  BY <1>1, <1>2, <1>3, Elements DEF Order
<1>7. \A i \in 1..Len(ep88'), j \in 1..Len(inbox') : ep88'[i].num < inbox'[j].num
  BY <1>1, <1>2, <1>3 DEF Order
<1> QED BY <1>4, <1>5, <1>6, <1>7 DEF Order

LEMMA OrderPopped ==
  ASSUME TypeOK, Order, next' = next,
         \/ ep88 # <<>> /\ ep88' = Tail(ep88) /\ inbox' = inbox
         \/ inbox # <<>> /\ inbox' = Tail(inbox) /\ ep88' = ep88
  PROVE  Order'
<1>1. inbox \in Seq(Msg) /\ ep88 \in Seq(Msg)
  BY DEF TypeOK
<1>2. CASE ep88 # <<>> /\ ep88' = Tail(ep88) /\ inbox' = inbox
  <2>1. /\ \A i \in 1..Len(ep88') : ep88'[i] = ep88[i + 1] /\ i + 1 \in 1..Len(ep88)
    BY <1>1, <1>2, Popped
  <2>2. InOrder(ep88)'
    BY <1>1, <1>2, <2>1, Popped, Elements DEF Order, InOrder
  <2> QED BY <1>2, <2>1, <2>2 DEF Order, InOrder
<1>3. CASE inbox # <<>> /\ inbox' = Tail(inbox) /\ ep88' = ep88
  <2>1. /\ \A i \in 1..Len(inbox') : inbox'[i] = inbox[i + 1] /\ i + 1 \in 1..Len(inbox)
    BY <1>1, <1>3, Popped
  <2>2. InOrder(inbox)'
    BY <1>1, <1>3, <2>1, Popped, Elements DEF Order, InOrder
  <2> QED BY <1>3, <2>1, <2>2 DEF Order, InOrder
<1> QED BY <1>2, <1>3

LEMMA OrderMoved ==
  ASSUME TypeOK, Order, next' = next, inbox # <<>>,
         inbox' = Tail(inbox), ep88' = Append(ep88, Head(inbox))
  PROVE  Order'
<1>1. inbox \in Seq(Msg) /\ ep88 \in Seq(Msg)
  BY DEF TypeOK
<1>2. /\ Head(inbox) \in Msg /\ Head(inbox) = inbox[1] /\ 1 \in 1..Len(inbox)
      /\ \A i \in 1..Len(inbox') : inbox'[i] = inbox[i + 1] /\ i + 1 \in 2..Len(inbox)
  BY <1>1, Popped
<1>3. /\ Len(ep88') = Len(ep88) + 1 /\ ep88'[Len(ep88) + 1] = inbox[1]
      /\ \A i \in 1..Len(ep88) : ep88'[i] = ep88[i]
  BY <1>1, <1>2, Pushed
<1>4. \A i \in 1..Len(ep88') : i \in 1..Len(ep88) \/ i = Len(ep88) + 1
  BY <1>1, <1>3, Elements
<1>5. InOrder(inbox)'
  BY <1>1, <1>2, Popped, Elements DEF Order, InOrder
<1>6. InOrder(ep88)'
  BY <1>1, <1>2, <1>3, <1>4, Elements DEF Order, InOrder
<1>7. ASSUME NEW i \in 1..Len(ep88'), NEW j \in 1..Len(inbox')
      PROVE  ep88'[i].num < inbox'[j].num
  <2>1. CASE i \in 1..Len(ep88)
    BY <1>1, <1>2, <1>3, <2>1, Elements DEF Order
  <2>2. CASE i = Len(ep88) + 1
    <3>1. j + 1 \in 1..Len(inbox) /\ 1 < j + 1 /\ inbox'[j] = inbox[j + 1]
      BY <1>1, <1>2, Elements
    <3>2. inbox[1].num < inbox[j + 1].num
      BY <1>1, <1>2, <3>1, Elements DEF Order, InOrder
    <3> QED BY <1>3, <2>2, <3>1, <3>2
  <2> QED BY <1>4, <2>1, <2>2
<1>8. \A i \in 1..Len(ep88') : ep88'[i].num < next'
  BY <1>2, <1>3, <1>4 DEF Order
<1>9. \A i \in 1..Len(inbox') : 0 < inbox'[i].num /\ inbox'[i].num < next'
  BY <1>1, <1>2, Elements DEF Order
<1> QED BY <1>5, <1>6, <1>7, <1>8, <1>9 DEF Order

(* Whatever is outstanding belongs to the ask in progress, or its opcode   *)
(* is known to be troubled.                                                *)
Out == {ep88[i] : i \in 1..Len(ep88)} \cup {inbox[i] : i \in 1..Len(inbox)}
Owned(m) == m.op \in troubled \/ (pc = "read" /\ m.op = op /\ m.num \in sent)

Traced ==
  /\ Order
  /\ \A m \in Out : Owned(m)
  /\ \A n \in sent : 0 < n

LEMMA OutPopped ==
  ASSUME TypeOK, \/ ep88 # <<>> /\ ep88' = Tail(ep88) /\ inbox' = inbox
                 \/ inbox # <<>> /\ inbox' = Tail(inbox) /\ ep88' = ep88
  PROVE  Out' \subseteq Out
<1>1. inbox \in Seq(Msg) /\ ep88 \in Seq(Msg)
  BY DEF TypeOK
<1>2. CASE ep88 # <<>> /\ ep88' = Tail(ep88) /\ inbox' = inbox
  <2>1. \A i \in 1..Len(ep88') : ep88'[i] = ep88[i + 1] /\ i + 1 \in 1..Len(ep88)
    BY <1>1, <1>2, Popped
  <2> QED BY <1>2, <2>1 DEF Out
<1>3. CASE inbox # <<>> /\ inbox' = Tail(inbox) /\ ep88' = ep88
  <2>1. \A i \in 1..Len(inbox') : inbox'[i] = inbox[i + 1] /\ i + 1 \in 1..Len(inbox)
    BY <1>1, <1>3, Popped
  <2> QED BY <1>3, <2>1 DEF Out
<1> QED BY <1>2, <1>3

LEMMA OutMoved ==
  ASSUME TypeOK, inbox # <<>>, inbox' = Tail(inbox), ep88' = Append(ep88, Head(inbox))
  PROVE  Out' \subseteq Out
<1>1. inbox \in Seq(Msg) /\ ep88 \in Seq(Msg)
  BY DEF TypeOK
<1>2. /\ Head(inbox) \in Msg /\ Head(inbox) = inbox[1] /\ 1 \in 1..Len(inbox)
      /\ \A i \in 1..Len(inbox') : inbox'[i] = inbox[i + 1] /\ i + 1 \in 1..Len(inbox)
  BY <1>1, Popped
<1>3. \A i \in 1..Len(ep88') : (i \in 1..Len(ep88) /\ ep88'[i] = ep88[i]) \/ ep88'[i] = inbox[1]
  BY <1>1, <1>2, Pushed, Elements
<1> QED BY <1>2, <1>3 DEF Out

LEMMA OutPushed ==
  ASSUME TypeOK, NEW o \in Ops,
         inbox' \in {inbox, Append(inbox, [op |-> o, num |-> next])}, ep88' = ep88
  PROVE  Out' \subseteq Out \cup {[op |-> o, num |-> next]}
<1> DEFINE m == [op |-> o, num |-> next]
<1>1. inbox \in Seq(Msg) /\ m \in Msg
  BY Numbered DEF TypeOK
<1> HIDE DEF m
<1>2. \A i \in 1..Len(inbox') : (i \in 1..Len(inbox) /\ inbox'[i] = inbox[i]) \/ inbox'[i] = m
  BY <1>1, Pushed, Elements DEF m
<1>3. Out' \subseteq Out \cup {m}
  BY <1>2 DEF Out
<1> QED BY <1>3 DEF m

(* What is behind a reply was sent after it.                               *)
LEMMA OutLater ==
  ASSUME TypeOK, Order, ep88 # <<>>, ep88' = Tail(ep88), inbox' = inbox,
         0 < Head(ep88).num
  PROVE  \A m \in Out' : Head(ep88).num < m.num
<1>1. inbox \in Seq(Msg) /\ ep88 \in Seq(Msg)
  BY DEF TypeOK
<1>2. /\ Head(ep88) = ep88[1] /\ 1 \in 1..Len(ep88)
      /\ \A i \in 1..Len(ep88') : ep88'[i] = ep88[i + 1] /\ i + 1 \in 1..Len(ep88) /\ 1 < i + 1
  BY <1>1, Popped
<1>3. \A j \in 1..Len(ep88) : 1 < j => ep88[1].num < ep88[j].num
  BY <1>1, <1>2, Elements DEF Order, InOrder
<1>4. \A i \in 1..Len(ep88') : ep88[1].num < ep88'[i].num
  BY <1>2, <1>3
<1>5. \A i \in 1..Len(inbox) : ep88[1].num < inbox[i].num
  BY <1>2 DEF Order
<1> QED BY <1>2, <1>4, <1>5 DEF Out

LEMMA TracedInit == Init => Traced
<1> SUFFICES ASSUME Init PROVE Traced
  OBVIOUS
<1>1. inbox = <<>> /\ sent = {} /\ next = 1
  BY DEF Init
<1>2. ep88 \in Seq(Msg)
  BY TypeInit DEF Typed, TypeOK
<1>3. \A i \in 1..Len(ep88) : ep88[i].num = 0
  BY OldTyped DEF Init
<1>4. DOMAIN ep88 = 1..Len(ep88)
  BY <1>2
<1>5. \A i \in 1..Len(ep88) : ep88[i].op \in troubled
  BY <1>4 DEF Init
<1>6. Order
  BY <1>1, <1>2, <1>3 DEF Order, InOrder
<1>7. \A m \in Out : Owned(m)
  BY <1>1, <1>5 DEF Out, Owned
<1> QED BY <1>1, <1>6, <1>7 DEF Traced

LEMMA TracedStep == Typed /\ Traced /\ [Next]_vars => Traced'
<1> SUFFICES ASSUME TypeOK, Traced, [Next]_vars PROVE Traced'
  BY DEF Typed
<1>0. /\ next \in Nat \ {0} /\ inbox \in Seq(Msg) /\ ep88 \in Seq(Msg) /\ op \in Ops
      /\ halted \in SUBSET {"ctrl", "reply"} /\ {} \in SUBSET {"ctrl", "reply"}
      /\ Order /\ (\A m \in Out : Owned(m)) /\ (\A n \in sent : 0 < n)
  BY MaxSendsAssumption DEF TypeOK, Traced
<1>1. ASSUME NEW o \in Ops, NEW frame \in BOOLEAN, CallAsk(o) \/ CallRaw(o, frame)
      PROVE  Traced'
  <2>1. /\ pc = "idle" /\ next' = next + 1 /\ sent' = {next} /\ op' = o /\ ep88' = ep88
        /\ troubled \subseteq troubled'
    BY <1>1 DEF CallAsk, CallRaw
  <2>2. inbox' \in {inbox, Append(inbox, [op |-> o, num |-> next])}
    BY <1>0, <1>1, Written DEF CallAsk, CallRaw
  <2>3. Order'
    BY <1>0, <2>1, <2>2, OrderKept, OrderPushed
  <2>4. Out' \subseteq Out \cup {[op |-> o, num |-> next]}
    BY <2>1, <2>2, OutPushed
  <2>5. \A m \in Out : m.op \in troubled'
    BY <1>0, <2>1 DEF Owned
  <2>6. o \in troubled' \/ pc' = "read"
    BY <1>1 DEF CallAsk, CallRaw
  <2>7. \A m \in Out' : Owned(m)'
    BY <2>1, <2>4, <2>5, <2>6 DEF Owned
  <2> QED BY <1>0, <2>1, <2>3, <2>7 DEF Traced
<1>2. CASE ReadReply
  <2>1. /\ pc = "read" /\ ep88 # <<>> /\ ep88' = Tail(ep88)
        /\ UNCHANGED <<op, sent, inbox, next>> /\ troubled \subseteq troubled'
    BY <1>2 DEF ReadReply, Abandon
  <2>2. Order' /\ Out' \subseteq Out
    BY <1>0, <2>1, OrderPopped, OutPopped
  <2>3. CASE op \in troubled'
    <3>1. \A m \in Out' : Owned(m)'
      BY <1>0, <2>1, <2>2, <2>3 DEF Owned
    <3> QED BY <1>0, <2>1, <2>2, <3>1 DEF Traced
  <2>4. CASE pc' = "read"
    <3>1. \A m \in Out' : Owned(m)'
      BY <1>0, <2>1, <2>2, <2>4 DEF Owned
    <3> QED BY <1>0, <2>1, <2>2, <3>1 DEF Traced
  <2>5. CASE op \notin troubled' /\ pc' # "read"
    <3>1. Head(ep88).num \in sent /\ Cardinality(sent) = 1
      BY <1>2, <2>5 DEF ReadReply, Abandon
    <3>2. IsFiniteSet(sent)
      <4>1. IsFiniteSet(0..MaxSends)
        BY MaxSendsAssumption, FS_Interval
      <4> QED BY <4>1, FS_Subset DEF TypeOK
    <3>3. sent = {Head(ep88).num}
      BY <3>1, <3>2, FS_Singleton
    <3>4. 0 < Head(ep88).num
      BY <1>0, <3>1
    <3>5. \A m \in Out' : Head(ep88).num < m.num
      BY <1>0, <2>1, <3>4, OutLater
    <3>6. Head(ep88).num \in Nat
      <4>1. Head(ep88) = ep88[1] /\ 1 \in 1..Len(ep88)
        BY <1>0, <2>1, Popped
      <4> QED BY <1>0, <4>1, Elements
    <3>7. \A m \in Out' : m.num \notin sent
      BY <3>3, <3>5, <3>6
    <3>8. \A m \in Out' : Owned(m)'
      BY <1>0, <2>1, <2>2, <3>7 DEF Owned
    <3> QED BY <1>0, <2>1, <2>2, <3>8 DEF Traced
  <2> QED BY <2>3, <2>4, <2>5
<1>3. CASE ReadZeros \/ ReadGiveUp
  <2>1. /\ UNCHANGED <<op, sent, inbox, ep88, next>> /\ troubled \subseteq troubled'
        /\ op \in troubled' \/ (pc = "read" /\ pc' = "read")
    BY <1>3 DEF ReadZeros, ReadGiveUp, Abandon, board
  <2>2. Order' /\ Out' = Out
    BY <1>0, <2>1, OrderKept DEF Out
  <2>3. \A m \in Out' : Owned(m)'
    BY <1>0, <2>1, <2>2 DEF Owned
  <2> QED BY <1>0, <2>1, <2>2, <2>3 DEF Traced
<1>4. CASE ReadRecover
  <2>1. /\ pc = "read" /\ op' = op /\ ep88' = ep88 /\ next' = next + 1
        /\ sent' = sent \cup {next} /\ troubled \subseteq troubled'
        /\ op \in troubled' \/ pc' = "read"
    BY <1>4 DEF ReadRecover, Abandon
  <2>2. inbox' \in {inbox, Append(inbox, [op |-> op, num |-> next])}
    BY <1>0, <1>4, Written DEF ReadRecover
  <2>3. Order'
    BY <1>0, <2>1, <2>2, OrderKept, OrderPushed
  <2>4. Out' \subseteq Out \cup {[op |-> op, num |-> next]}
    BY <1>0, <2>1, <2>2, OutPushed
  <2>5. \A m \in Out' : Owned(m)'
    BY <1>0, <2>1, <2>4 DEF Owned
  <2>6. \A n \in sent' : 0 < n
    BY <1>0, <2>1
  <2> QED BY <2>3, <2>5, <2>6 DEF Traced
<1>5. CASE RawRead
  <2>1. /\ pc = "raw" /\ UNCHANGED <<op, sent, inbox, next, troubled>>
        /\ ep88' = ep88 \/ (ep88 # <<>> /\ ep88' = Tail(ep88))
    BY <1>5 DEF RawRead, history
  <2>2. Order'
    BY <1>0, <2>1, OrderKept, OrderPopped
  <2>3. Out' \subseteq Out
    BY <2>1, OutPopped DEF Out
  <2>4. \A m \in Out' : Owned(m)'
    BY <1>0, <2>1, <2>3 DEF Owned
  <2> QED BY <1>0, <2>1, <2>2, <2>4 DEF Traced
<1>6. CASE Answer \/ Ignore \/ LoseReply \/ Stall \/ UNCHANGED vars
  <2>1. UNCHANGED <<pc, op, sent, next, troubled>>
    BY <1>6 DEF Answer, Ignore, LoseReply, Stall, vars, host, board, history
  <2>2. \/ inbox' = inbox /\ ep88' = ep88
        \/ ep88 # <<>> /\ ep88' = Tail(ep88) /\ inbox' = inbox
        \/ inbox # <<>> /\ inbox' = Tail(inbox) /\ ep88' = ep88
        \/ inbox # <<>> /\ inbox' = Tail(inbox) /\ ep88' = Append(ep88, Head(inbox))
    BY <1>6 DEF Answer, Ignore, LoseReply, Stall, vars, board
  <2>3. Order'
    BY <1>0, <2>1, <2>2, OrderKept, OrderPopped, OrderMoved
  <2>4. Out' \subseteq Out
    BY <2>2, OutPopped, OutMoved DEF Out
  <2>5. \A m \in Out' : Owned(m)'
    BY <1>0, <2>1, <2>4 DEF Owned
  <2> QED BY <1>0, <2>1, <2>3, <2>5 DEF Traced
<1> QED BY <1>1, <1>2, <1>3, <1>4, <1>5, <1>6 DEF Next, Host

(* ask() returns another command's reply only on an opcode that an earlier *)
(* exchange had left a reply to.                                           *)
THEOREM StaleOnlyThen == Spec => StaleOnlyIfTroubled
<1> DEFINE Good == (pc = "read" /\ pc' = "idle" /\ result' # NoReply)
                     => result'.op = op /\ (result'.num \in sent \/ op \in troubled)
<1>1. Typed /\ Traced /\ [Next]_vars => [Good]_vars
  <2> SUFFICES ASSUME TypeOK, Traced, Next, pc = "read", pc' = "idle", result' # NoReply
               PROVE  result'.op = op /\ (result'.num \in sent \/ op \in troubled)
    BY DEF Typed
  <2>1. ReadReply
    BY DEF Next, Host, CallAsk, CallRaw, ReadZeros, ReadRecover, ReadGiveUp, RawRead, Answer,
           Ignore, LoseReply, Stall, Return, host
  <2>2. ep88 # <<>> /\ result' = Head(ep88) /\ Head(ep88).op = op
    BY <2>1 DEF ReadReply, Return
  <2>3. ep88 \in Seq(Msg)
    BY DEF TypeOK
  <2>4. Head(ep88) = ep88[1] /\ 1 \in 1..Len(ep88)
    BY <2>2, <2>3, Popped
  <2>5. Owned(Head(ep88))
    BY <2>4 DEF Traced, Out
  <2> QED BY <2>2, <2>5 DEF Owned
<1>2. Typed /\ Traced /\ [Next]_vars => (Typed /\ Traced)'
  BY TypeStep, TracedStep
<1> QED BY TypeInit, TracedInit, <1>1, <1>2, PTL DEF Spec, StaleOnlyIfTroubled

-----------------------------------------------------------------------------
(* What a run of mismatches has taken off the pipes.                       *)
Draining ==
  pc = "read" => /\ recovered => dud
                 /\ ~dud => Outstanding + Retries - tries <= found + 1

LEMMA OutstandingTyped ==
  ASSUME TypeOK
  PROVE  /\ Outstanding \in Nat /\ found \in Nat /\ tries \in Nat /\ Retries \in Nat
         /\ inbox \in Seq(Msg) /\ ep88 \in Seq(Msg)
  BY RetriesAssumption DEF TypeOK, Outstanding

LEMMA ReadTakes ==
  ASSUME TypeOK, ReadReply
  PROVE  Outstanding' = Outstanding - 1 /\ Outstanding' \in Int
<1>1. inbox' = inbox /\ ep88 # <<>> /\ ep88' = Tail(ep88)
  BY DEF ReadReply
<1>2. Len(ep88') = Len(ep88) - 1 /\ Len(ep88) \in Nat /\ Len(inbox) \in Nat
  BY <1>1, OutstandingTyped, Popped
<1> QED BY <1>1, <1>2 DEF Outstanding

LEMMA BoardKeeps ==
  ASSUME TypeOK, Answer \/ Ignore \/ LoseReply \/ Stall
  PROVE  Outstanding' <= Outstanding /\ Outstanding' \in Int
<1>1. /\ inbox \in Seq(Msg) /\ ep88 \in Seq(Msg) /\ Len(inbox) \in Nat /\ Len(ep88) \in Nat
  BY OutstandingTyped
<1>2. CASE Answer
  <2>1. Len(inbox') = Len(inbox) - 1 /\ Len(ep88') = Len(ep88) + 1
    BY <1>1, <1>2, Popped, Pushed DEF Answer
  <2> QED BY <1>1, <2>1 DEF Outstanding
<1>3. CASE Ignore
  <2>1. Len(inbox') = Len(inbox) - 1 /\ ep88' = ep88
    BY <1>1, <1>3, Popped DEF Ignore
  <2> QED BY <1>1, <2>1 DEF Outstanding
<1>4. CASE LoseReply
  <2>1. Len(ep88') = Len(ep88) - 1 /\ inbox' = inbox
    BY <1>1, <1>4, Popped DEF LoseReply
  <2> QED BY <1>1, <2>1 DEF Outstanding
<1>5. CASE Stall
  BY <1>1, <1>5 DEF Stall, Outstanding
<1> QED BY <1>2, <1>3, <1>4, <1>5

LEMMA SumStarts ==
  ASSUME NEW a \in Int, NEW b \in Int, NEW c \in Nat, a <= b + 1
  PROVE  a + c - c <= b + 1
  OBVIOUS

LEMMA SumShrinks ==
  ASSUME NEW a \in Int, NEW b \in Int, NEW c \in Int, NEW d \in Int, NEW e \in Int,
         a <= b, b + c - d <= e + 1
  PROVE  a + c - d <= e + 1
  OBVIOUS

LEMMA DrainingStep == Typed /\ Draining /\ [Next]_vars => Draining'
<1> SUFFICES ASSUME Typed, Draining, [Next]_vars, pc' = "read"
             PROVE  /\ recovered' => dud'
                    /\ ~dud' => Outstanding' + Retries - tries' <= found' + 1
  BY DEF Draining
<1>1. TypeOK
  BY DEF Typed
<1>2. /\ Outstanding \in Nat /\ found \in Nat /\ tries \in Nat /\ Retries \in Nat
      /\ inbox \in Seq(Msg) /\ ep88 \in Seq(Msg) /\ halted \in SUBSET {"ctrl", "reply"}
  BY <1>1, OutstandingTyped DEF TypeOK
<1>3. ASSUME NEW o \in Ops, CallAsk(o)
      PROVE  /\ recovered' => dud'
             /\ ~dud' => Outstanding' + Retries - tries' <= found' + 1
  <2>1. ep88' = ep88 /\ Len(inbox') \in {Len(inbox), Len(inbox) + 1}
    BY <1>1, <1>2, <1>3, Written DEF CallAsk
  <2>2. Outstanding' <= Outstanding + 1 /\ Outstanding' \in Int
    BY <1>2, <2>1 DEF Outstanding
  <2>3. tries' = Retries /\ found' = Outstanding /\ recovered' = FALSE
    BY <1>3 DEF CallAsk
  <2>4. Outstanding' + Retries - Retries <= Outstanding + 1
    <3> DEFINE a == Outstanding'
               b == Outstanding
    <3>1. a \in Int /\ b \in Int /\ a <= b + 1 /\ Retries \in Nat
      BY <1>2, <2>2
    <3> HIDE DEF a, b
    <3>2. a + Retries - Retries <= b + 1
      BY <3>1, SumStarts
    <3> QED BY <3>2 DEF a, b
  <2> QED BY <2>3, <2>4
<1>4. CASE ReadReply
  <2>1. /\ pc = "read" /\ tries' = tries - 1
        /\ found' = found /\ dud' = dud /\ recovered' = recovered
    BY <1>4 DEF ReadReply
  <2>2. Outstanding' = Outstanding - 1 /\ Outstanding' \in Int
    BY <1>1, <1>4, ReadTakes
  <2> QED BY <1>2, <2>1, <2>2 DEF Draining
<1>5. CASE ReadZeros \/ ReadRecover
  BY <1>5 DEF ReadZeros, ReadRecover
<1>6. CASE Answer \/ Ignore \/ LoseReply \/ Stall
  <2>1. UNCHANGED <<pc, tries, found, dud, recovered>>
    BY <1>6 DEF Answer, Ignore, LoseReply, Stall, host, history
  <2>2. Outstanding' <= Outstanding /\ Outstanding' \in Int
    BY <1>1, <1>6, BoardKeeps
  <2>3. ~dud => Outstanding + Retries - tries <= found + 1
    BY <2>1 DEF Draining
  <2>4. ~dud => Outstanding' + Retries - tries <= found + 1
    <3> DEFINE a == Outstanding'
               b == Outstanding
    <3>1. a \in Int /\ b \in Int /\ a <= b /\ Retries \in Int /\ tries \in Int /\ found \in Int
      BY <1>2, <2>2
    <3>2. ~dud => b + Retries - tries <= found + 1
      BY <2>3
    <3> HIDE DEF a, b
    <3>3. ~dud => a + Retries - tries <= found + 1
      BY <3>1, <3>2, SumShrinks
    <3> QED BY <3>3 DEF a, b
  <2>5. recovered => dud
    BY <2>1 DEF Draining
  <2> QED BY <2>1, <2>4, <2>5
<1>7. CASE UNCHANGED vars
  BY <1>7 DEF vars, host, board, history, Draining, Outstanding
<1>8. CASE ReadGiveUp \/ RawRead \/ \E o \in Ops : CallRaw(o, TRUE) \/ CallRaw(o, FALSE)
  BY <1>8 DEF ReadGiveUp, RawRead, CallRaw, Return
<1> QED BY <1>3, <1>4, <1>5, <1>6, <1>7, <1>8 DEF Next, Host

(* With two reads or more per ask, one that gives up on mismatches alone   *)
(* leaves less on the pipes than it found.  With one it need not.          *)
THEOREM AlwaysDrains == Retries >= 2 => (Spec => MismatchesDrain)
<1> SUFFICES ASSUME Retries >= 2 PROVE Spec => MismatchesDrain
  OBVIOUS
<1> DEFINE Good == (pc = "read" /\ pc' = "idle" /\ result' = NoReply /\ ~dud')
                     => Outstanding' < found
<1>1. Typed /\ Draining /\ [Next]_vars => [Good]_vars
  <2> SUFFICES ASSUME Typed, Draining, Next,
                      pc = "read", pc' = "idle", result' = NoReply, ~dud'
               PROVE  Outstanding' < found
    OBVIOUS
  <2>1. ReadReply \/ ReadGiveUp
    BY DEF Next, Host, CallAsk, CallRaw, ReadZeros, ReadRecover, RawRead, Answer, Ignore,
           LoseReply, Stall, host
  <2>2. ~ReadGiveUp
    BY DEF ReadGiveUp, Draining
  <2>3. dud' = dud
    BY <2>1, <2>2 DEF ReadReply
  <2>4. TypeOK
    BY DEF Typed
  <2>5. Outstanding' = Outstanding - 1
    BY <2>1, <2>2, <2>4, ReadTakes
  <2>6. tries = 1
    <3>1. (tries = 1) \/ (result' = Head(ep88) /\ Head(ep88).op = op)
      BY <2>1, <2>2 DEF ReadReply, Return
    <3>2. op # "none" /\ NoReply.op = "none"
      BY <2>4, OpsAssumption DEF TypeOK, NoReply
    <3> QED BY <3>1, <3>2
  <2>7. Outstanding + Retries - tries <= found + 1
    BY <2>3 DEF Draining
  <2>8. Outstanding \in Nat /\ found \in Nat /\ Retries \in Nat
    BY <2>4, OutstandingTyped
  <2> QED BY <2>5, <2>6, <2>7, <2>8
<1>2. Typed /\ Draining /\ [Next]_vars => (Typed /\ Draining)'
  BY TypeStep, DrainingStep
<1>3. Init => Draining
  BY DEF Init, Draining
<1> QED BY TypeInit, <1>1, <1>2, <1>3, PTL DEF Spec, MismatchesDrain
=============================================================================
