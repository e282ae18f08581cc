------------------------------ MODULE AskReply ------------------------------
(***************************************************************************)
(* The reply channel of the board (usb.rs).  A command goes out on         *)
(* EP 0x06, the board queues its reply on EP 0x88, and the only thing that *)
(* says whose reply it is is the opcode it echoes.  Board::ask discards    *)
(* replies with another opcode; the raw exchanges of unlock.rs take        *)
(* whatever comes.  Nothing ever drains EP 0x88: a reply that its asker    *)
(* did not wait for is there for the next one.                             *)
(*                                                                         *)
(* Every command sent gets a number, so that a reply can be told from the  *)
(* reply to an earlier command with the same opcode.                       *)
(***************************************************************************)
EXTENDS Naturals, FiniteSets, Sequences

CONSTANTS
  Ops,        \* the opcodes asked
  Retries,    \* reads per ask, 3 in Job::ask
  Leftover,   \* opcodes whose replies earlier processes may have left behind
  OldReplies, \* bound on the number of those replies
  MaxSends,   \* bound on the commands sent
  Backend,    \* "libusb" or "windows"
  Faulty      \* may transfers fail and replies be lost?

ASSUME OpsAssumption      == "none" \notin Ops   \* the mark of NoReply
ASSUME RetriesAssumption  == Retries \in Nat \ {0}
ASSUME LeftoverAssumption == Leftover \subseteq Ops /\ OldReplies \in Nat
ASSUME MaxSendsAssumption == MaxSends \in Nat \ {0}
ASSUME FaultyAssumption   == Faulty \in BOOLEAN

VARIABLES
  pc,         \* "idle", "read" in ask(), or "raw" in an unmatched exchange
  op,         \* the opcode in progress
  sent,       \* numbers of the commands this exchange has sent
  tries,      \* reads left
  recovered,  \* ask()'s `recovered'
  result,     \* the reply last returned, or NoReply
  inbox,      \* commands the board has not answered yet
  ep88,       \* replies not read yet
  halted,     \* stalled endpoints, of "ctrl" and "reply"
  next,       \* the number of the next command
  troubled,   \* history: opcodes with a reply nobody waited for
  found,      \* history: replies outstanding when the exchange began
  dud         \* history: has a read of this exchange returned no reply?

host  == <<pc, op, sent, tries, recovered, result>>
board == <<inbox, ep88, halted, next>>
history == <<troubled, found, dud>>
vars  == <<host, board, history>>

Msg == [op : Ops, num : 0..MaxSends]
NoReply == [op |-> "none", num |-> 0]
Outstanding == Len(inbox) + Len(ep88)

Init ==
  /\ pc = "idle" /\ op \in Ops /\ sent = {} /\ tries = 0
  /\ recovered = FALSE /\ result = NoReply
  /\ inbox = <<>> /\ halted = {} /\ next = 1
  /\ \E n \in 0..OldReplies : ep88 \in [1..n -> [op : Leftover, num : {0}]]
  /\ troubled = {ep88[i].op : i \in DOMAIN ep88}
  /\ found = 0 /\ dud = FALSE

-----------------------------------------------------------------------------
(* write_cmd with the pipes in state h: it is delivered, or it returns Err *)
(* with the command lost or, after a timeout, delivered all the same.      *)
Deliver(o, h) ==
  /\ "ctrl" \notin h
  /\ inbox' = Append(inbox, [op |-> o, num |-> next])

WriteOk(o, h) == Deliver(o, h) /\ halted' = h

WriteErr(o, h) ==
  /\ Faulty \/ "ctrl" \in h
  /\ halted' \in {h, h \cup {"ctrl"}}
  /\ UNCHANGED inbox \/ Deliver(o, h)

(* The opcode of an exchange that leaves a reply to come.                  *)
Abandon == troubled' = troubled \cup {op}

Return(r) == pc' = "idle" /\ result' = r

-----------------------------------------------------------------------------
(* Board::ask, up to its first read.                                       *)
CallAsk(o) ==
  /\ pc = "idle" /\ next + 1 < MaxSends
  /\ op' = o /\ sent' = {next} /\ next' = next + 1
  /\ tries' = Retries /\ recovered' = FALSE
  /\ found' = Outstanding /\ dud' = FALSE
  /\ \/ WriteOk(o, halted) /\ pc' = "read" /\ result' = NoReply
        /\ UNCHANGED troubled
     \/ WriteErr(o, halted) /\ Return(NoReply)
        /\ troubled' = troubled \cup {o}
  /\ UNCHANGED ep88

(* Mutants of ReadReply: take the first reply that comes; send the command *)
(* again after each mismatch.                                              *)
ReadReplyUnmatched ==
  /\ pc = "read" /\ ep88 # <<>> /\ "reply" \notin halted
  /\ ep88' = Tail(ep88) /\ tries' = tries - 1
  /\ Return(Head(ep88)) /\ Abandon
  /\ UNCHANGED <<op, sent, recovered, inbox, halted, next, found, dud>>

ReadReplyResend ==
  /\ pc = "read" /\ ep88 # <<>> /\ "reply" \notin halted
  /\ ep88' = Tail(ep88) /\ tries' = tries - 1
  /\ IF Head(ep88).op = op
       THEN Return(Head(ep88)) /\ UNCHANGED inbox
       ELSE /\ inbox' = Append(inbox, [op |-> op, num |-> next - 1])
            /\ IF tries = 1 THEN Return(NoReply) ELSE UNCHANGED <<pc, result>>
  /\ Abandon
  /\ UNCHANGED <<op, sent, recovered, halted, next, found, dud>>

(* A read that completes: the reply is returned if it echoes the opcode,   *)
(* else dropped.                                                           *)
ReadReply ==
  /\ pc = "read" /\ ep88 # <<>> /\ "reply" \notin halted
  /\ ep88' = Tail(ep88)
  /\ tries' = tries - 1
  /\ \/ /\ Head(ep88).op = op
        /\ Return(Head(ep88))
        /\ IF Head(ep88).num \in sent /\ Cardinality(sent) = 1
             THEN UNCHANGED troubled ELSE Abandon
     \/ /\ Head(ep88).op # op /\ tries > 1
        /\ UNCHANGED <<pc, result, troubled>>
     \/ /\ Head(ep88).op # op /\ tries = 1
        /\ Return(NoReply) /\ Abandon
  /\ UNCHANGED <<op, sent, recovered, inbox, halted, next, found, dud>>

(* read_status() does not look at the driver's status word, nor at how     *)
(* many bytes came: on Windows a refused read can hand back a buffer of    *)
(* zeros, which ask() takes for a reply with another opcode.               *)
ReadZeros ==
  /\ pc = "read" /\ Backend = "windows" /\ Faulty
  /\ tries' = tries - 1 /\ dud' = TRUE
  /\ IF tries > 1 THEN UNCHANGED <<pc, result, troubled>>
                  ELSE Return(NoReply) /\ Abandon
  /\ UNCHANGED <<op, sent, recovered, board, found>>

ReadFails == ep88 = <<>> \/ "reply" \in halted \/ Faulty

(* Mutants of ReadRecover: recover every time; go on reading with no       *)
(* attempt left.                                                           *)
ReadRecoverAgain ==
  /\ pc = "read" /\ ReadFails
  /\ recovered' = TRUE /\ tries' = tries - 1
  /\ sent' = sent \cup {next} /\ next' = next + 1 /\ dud' = TRUE
  /\ WriteOk(op, {})
  /\ IF tries > 1 THEN UNCHANGED <<pc, result, troubled>>
                  ELSE Return(NoReply) /\ Abandon
  /\ UNCHANGED <<op, ep88, found>>

ReadRecoverOnceMore ==
  /\ pc = "read" /\ ReadFails /\ ~recovered
  /\ recovered' = TRUE /\ tries' = tries - 1
  /\ sent' = sent \cup {next} /\ next' = next + 1 /\ dud' = TRUE
  /\ WriteOk(op, {})
  /\ UNCHANGED <<pc, op, result, ep88, found, troubled>>

(* The first read that fails: recover(), send again, use the attempts that *)
(* are left -- even when there are none.                                   *)
ReadRecover ==
  /\ pc = "read" /\ ReadFails /\ ~recovered
  /\ recovered' = TRUE /\ tries' = tries - 1
  /\ sent' = sent \cup {next} /\ next' = next + 1 /\ dud' = TRUE
  /\ \/ /\ WriteOk(op, {}) /\ tries > 1
        /\ UNCHANGED <<pc, result, troubled>>
     \/ /\ WriteOk(op, {}) /\ tries = 1
        /\ Return(NoReply) /\ Abandon
     \/ /\ WriteErr(op, {})
        /\ Return(NoReply) /\ Abandon
  /\ UNCHANGED <<op, ep88, found>>

ReadGiveUp ==
  /\ pc = "read" /\ ReadFails /\ recovered
  /\ Return(NoReply) /\ Abandon
  /\ UNCHANGED <<op, sent, tries, recovered, board, found, dud>>

-----------------------------------------------------------------------------
(* The unmatched exchanges of unlock.rs: a frame, or encrypt_state().  The *)
(* frames ignore a write that failed; encrypt_state() returns.             *)
CallRaw(o, frame) ==
  /\ pc = "idle" /\ next < MaxSends
  /\ op' = o /\ sent' = {next} /\ next' = next + 1
  /\ tries' = 1 /\ recovered' = FALSE /\ result' = NoReply
  /\ found' = Outstanding /\ dud' = FALSE
  /\ troubled' = troubled \cup {o}
  /\ \/ WriteOk(o, halted) /\ pc' = "raw"
     \/ WriteErr(o, halted) /\ pc' = IF frame THEN "raw" ELSE "idle"
  /\ UNCHANGED ep88

(* Mutant of RawRead: a read with no timeout.                              *)
RawReadBlocking ==
  /\ pc = "raw" /\ pc' = "idle" /\ tries' = 0
  /\ ep88 # <<>> /\ "reply" \notin halted /\ ep88' = Tail(ep88)
  /\ UNCHANGED <<op, sent, recovered, result, inbox, halted, next, history>>

RawRead ==
  /\ pc = "raw" /\ pc' = "idle" /\ tries' = 0
  /\ \/ /\ ep88 # <<>> /\ "reply" \notin halted
        /\ ep88' = Tail(ep88)
     \/ ReadFails /\ UNCHANGED ep88
  /\ UNCHANGED <<op, sent, recovered, result, inbox, halted, next, history>>

-----------------------------------------------------------------------------
(* The board and the bus.                                                  *)
Answer ==
  /\ inbox # <<>>
  /\ inbox' = Tail(inbox) /\ ep88' = Append(ep88, Head(inbox))
  /\ UNCHANGED <<host, halted, next, history>>

(* A command with no answer, an answer lost to a cancelled read, a stall.  *)
Ignore ==
  /\ Faulty /\ inbox # <<>>
  /\ inbox' = Tail(inbox)
  /\ UNCHANGED <<host, ep88, halted, next, history>>

LoseReply ==
  /\ Faulty /\ ep88 # <<>>
  /\ ep88' = Tail(ep88)
  /\ UNCHANGED <<host, inbox, halted, next, history>>

Stall ==
  /\ Faulty /\ halted' = halted \cup {"reply"}
  /\ UNCHANGED <<host, inbox, ep88, next, history>>

Host == \/ \E o \in Ops : CallAsk(o) \/ CallRaw(o, TRUE) \/ CallRaw(o, FALSE)
        \/ ReadReply \/ ReadZeros \/ ReadRecover \/ ReadGiveUp \/ RawRead

Next == Host \/ Answer \/ Ignore \/ LoseReply \/ Stall

Spec == Init /\ [][Next]_vars

-----------------------------------------------------------------------------
TypeOK ==
  /\ pc \in {"idle", "read", "raw"} /\ op \in Ops
  /\ sent \subseteq 0..MaxSends /\ tries \in 0..Retries
  /\ recovered \in BOOLEAN /\ result \in Msg \cup {NoReply}
  /\ inbox \in Seq(Msg) /\ ep88 \in Seq(Msg)
  /\ halted \subseteq {"ctrl", "reply"}
  /\ next \in 1..MaxSends /\ troubled \subseteq Ops /\ found \in Nat
  /\ dud \in BOOLEAN

(* usb.rs: ask returns ITS reply, not a stale one.                         *)
ItsReply ==
  pc = "idle" /\ result # NoReply => result.num \in sent

(* What matching the opcode does give: the reply returned echoes the       *)
(* opcode asked, and it is another command's only if an earlier exchange   *)
(* with that opcode had left one behind, by giving up, by sending twice,   *)
(* by reading without matching, or in an earlier process.                  *)
StaleOnlyIfTroubled ==
  [][(pc = "read" /\ pc' = "idle" /\ result' # NoReply)
       => result'.op = op /\ (result'.num \in sent \/ op \in troubled)]_vars

(* A command is delivered twice at most, whatever fails: ask() resends     *)
(* once, and RESET, RUN or an output level are safe to repeat, no more.    *)
SentAtMostTwice == Cardinality(sent) <= 2

(* An ask that gives up on mismatches alone leaves the reply pipe less     *)
(* behind than it found it, so that a burst of stale replies drains.       *)
MismatchesDrain ==
  [][(pc = "read" /\ pc' = "idle" /\ result' = NoReply /\ ~dud')
       => Outstanding' < found]_vars
=============================================================================
