------------------------------- MODULE Sockets -------------------------------
(***************************************************************************)
(* Messages through the shim's socket calls (network.cpp 595-753, 782-803, *)
(* network.h 224-265), as compiled on macOS: threads receive from one      *)
(* socket, accept from another and send on the first.  A step is one host  *)
(* call together with what the shim does up to the next one.               *)
(*                                                                         *)
(* A timeout is the time that is left, in half milliseconds, so that its   *)
(* truncation to whole milliseconds shows; -1 is "past the deadline".      *)
(***************************************************************************)
EXTENDS NetConv, FiniteSets

CONSTANTS Threads,      \* the application's threads
          NoTime,       \* no timeout was given
          Kinds,        \* what arrives: records [family, len]
          Rooms,        \* the sizes of the buffers for an address
          Timeouts,     \* timeouts of recvmmsg, in half milliseconds
          Backlog,      \* how much the host's queue holds
          VLen          \* the length of a message vector

ASSUME NoTimeIsNoNumber == NoTime \notin Int
ASSUME SizesArePositive == Backlog \in Nat \ {0} /\ VLen \in Nat \ {0}
ASSUME TimeoutsAreNats == Timeouts \subseteq Nat

NoRoom == 0   \* the address pointer is null

VARIABLES
  queue,      \* the host's queue of messages, or of connections to accept
  pc,         \* where each thread is
  call,       \* the arguments and locals of its call
  got,        \* how many messages the host gave it, or took, in this call
  nosigpipe,  \* SO_NOSIGPIPE of the sending socket
  saved,      \* saved_nosigpipe of each thread's sock_send_flags
  robbed,     \* threads whose message, seen by poll, another thread took
  mixed,      \* two sends with MSG_NOSIGNAL overlapped, or one was refused
  lost        \* a call dropped messages though it could hand over the address

vars == <<queue, pc, call, got, nosigpipe, saved, robbed, mixed, lost>>
sendVars == <<nosigpipe, saved, mixed>>

NoCall == [op |-> "none", room |-> NoRoom, peek |-> FALSE,
           vlen |-> 1, left |-> NoTime, pollLeft |-> 0]

Init ==
  /\ queue = <<>>
  /\ pc = [t \in Threads |-> "idle"]
  /\ call = [t \in Threads |-> NoCall]
  /\ got = [t \in Threads |-> 0]
  /\ nosigpipe = 0 /\ saved = [t \in Threads |-> 0]
  /\ robbed = {} /\ mixed = FALSE /\ lost = FALSE

(* Half a millisecond passes. *)
Later(time, end) == IF time = NoTime \/ time = end THEN time ELSE time - 1

Tick ==
  /\ call' = [t \in Threads |->
       [call[t] EXCEPT !.left = Later(@, -1), !.pollLeft = Later(@, 0)]]
  /\ UNCHANGED <<queue, pc, got, sendVars, lost, robbed>>

Arrive(k) ==
  /\ Len(queue) < Backlog
  /\ queue' = Append(queue, k)
  /\ UNCHANGED <<pc, call, got, sendVars, lost, robbed>>

-----------------------------------------------------------------------------
(* Which address apply is called with, if it is.  recvmsg compares with the *)
(* length the host left in msg_namelen, and not for an empty message.       *)
HostNameLen(item) ==
  IF item.family = 30 THEN HostLen[10]
  ELSE IF item.family \in {1, 2} THEN HostLen[item.family] ELSE 0

AddressOK(c, item) ==
  \/ c.room = NoRoom \/ c.op = "recv"
  \/ c.op = "recvmsg" /\ (item.len = 0 \/ Fits(item.family, HostNameLen(item)))
  \/ c.op # "recvmsg" /\ Fits(item.family, c.room)

(* A call that took messages reports n of them; the application never learns *)
(* of the others (a peeked message is still in the queue).  lost remembers a *)
(* loss that no refused address explains.                                   *)
Report(t, n, taken, addressOK) ==
  lost' = (lost \/ (addressOK /\ taken > 0 /\ n < taken /\ ~call[t].peek))

Return(t, n, taken, addressOK) ==
  /\ pc' = [pc EXCEPT ![t] = "idle"]
  /\ call' = [call EXCEPT ![t] = NoCall]
  /\ got' = [got EXCEPT ![t] = 0]
  /\ Report(t, n, taken, addressOK)

(* Mutant: a failure is reported whatever came before it. *)
PartialCount_Fails(t) == -1

(* `return i == 0 ? -1 : (int)i` of recvmmsg and sendmmsg when a host call   *)
(* fails; -1 for the calls with one message.                                *)
PartialCount(t) == IF got[t] = 0 THEN -1 ELSE got[t]

-----------------------------------------------------------------------------
(* Receiving *)

(* A flag word is a set of "0x4000", "PEEK" (2) and "other" bits.  recv      *)
(* ignores other bits, recvmmsg rejects them, recvmsg takes none, recvfrom   *)
(* only 0x4000, which it hands on as MSG_NOSIGNAL while recv and recvmmsg    *)
(* take it for MSG_DONTWAIT.                                                 *)
FlagsOK(op, flags) ==
  CASE op = "recvmsg"  -> flags = {}
    [] op = "recvmmsg" -> "other" \notin flags
    [] op = "recvfrom" -> flags \in {{}, {"0x4000"}}
    [] OTHER           -> TRUE

(* Up to the first host call.  A rejected flag word is EINVAL: no state     *)
(* changes, the call is over.  The timeout is used without MSG_DONTWAIT only, *)
(* a call that may not wait is one that ReceiveFails.                        *)
StartReceive(t, op, flags, room, timeout) ==
  /\ pc[t] = "idle"
  /\ FlagsOK(op, flags)
  /\ call' = [call EXCEPT ![t] =
       [op |-> op, room |-> IF op = "recv" THEN NoRoom ELSE room,
        peek |-> op \in {"recv", "recvmmsg"} /\ "PEEK" \in flags,
        vlen |-> IF op = "recvmmsg" THEN VLen ELSE 1,
        left |-> IF op = "recvmmsg" /\ "0x4000" \notin flags
                 THEN timeout ELSE NoTime,
        pollLeft |-> 0]]
  /\ pc' = [pc EXCEPT ![t] = "receive"]
  /\ UNCHANGED <<queue, got, sendVars, lost, robbed>>

Timed(t) == call[t].left # NoTime

(* recvmmsg has a message, polled for the next one and now receives it. *)
AfterPoll(t) == pc[t] = "receive" /\ got[t] > 0 /\ Timed(t)

(* Mutant: the deadline is looked at before the first message only. *)
NextMessage_Unchecked(t, taken) ==
  /\ pc' = [pc EXCEPT ![t] = "receive"]
  /\ got' = [got EXCEPT ![t] = taken]
  /\ UNCHANGED <<call, lost>>

(* The head of recvmmsg's loop for i > 0: give up at the deadline, else poll *)
(* for the whole milliseconds that remain.                                  *)
NextMessage(t, taken) ==
  IF ~Timed(t)
  THEN /\ pc' = [pc EXCEPT ![t] = "receive"]
       /\ got' = [got EXCEPT ![t] = taken]
       /\ UNCHANGED <<call, lost>>
  ELSE IF call[t].left <= 0
  THEN Return(t, taken, taken, TRUE)
  ELSE /\ pc' = [pc EXCEPT ![t] = "poll"]
       /\ got' = [got EXCEPT ![t] = taken]
       /\ call' = [call EXCEPT ![t].pollLeft = 2 * (call[t].left \div 2)]
       /\ UNCHANGED lost

(* The host's recvmsg, recvfrom, recv or accept returns a message. *)
Receive(t) ==
  LET c     == call[t]
      item  == Head(queue)
      taken == got[t] + 1
  IN  /\ pc[t] = "receive" /\ queue # <<>>
      /\ queue' = IF c.peek THEN queue ELSE Tail(queue)
      /\ robbed' = (robbed \cup {u \in Threads : ~c.peek /\ AfterPoll(u)}) \ {t}
      /\ IF ~AddressOK(c, item)
         THEN Return(t, -1, taken, FALSE)  \* the exception: EINVAL
         ELSE IF taken = c.vlen
         THEN Return(t, taken, taken, TRUE)
         ELSE NextMessage(t, taken)
      /\ UNCHANGED sendVars

(* It fails: EAGAIN for an empty queue, or a signal interrupts the wait. *)
ReceiveFails(t) ==
  /\ pc[t] = "receive" /\ queue = <<>>
  /\ Return(t, PartialCount(t), got[t], TRUE)
  /\ robbed' = robbed \ {t}
  /\ UNCHANGED <<queue, sendVars>>

(* poll reports a message, and recvmsg is called for it. *)
PollReady(t) ==
  /\ pc[t] = "poll" /\ queue # <<>>
  /\ pc' = [pc EXCEPT ![t] = "receive"]
  /\ UNCHANGED <<queue, call, got, sendVars, lost, robbed>>

(* poll's time is over: what has been received is reported. *)
PollTimesOut(t) ==
  /\ pc[t] = "poll" /\ call[t].pollLeft = 0 /\ queue = <<>>
  /\ Return(t, got[t], got[t], TRUE)
  /\ UNCHANGED <<queue, sendVars, robbed>>

(* poll fails. *)
PollFails(t) ==
  /\ pc[t] = "poll"
  /\ Return(t, PartialCount(t), got[t], TRUE)
  /\ UNCHANGED <<queue, sendVars, robbed>>

-----------------------------------------------------------------------------
(* Sending *)

InNoSignal == {t \in Threads : pc[t] \in {"set", "send_quiet", "restore"}}

(* Up to the first host call.  sendto converts the address and               *)
(* sock_send_flags looks at the flags before it: an address that does not    *)
(* convert, or flags besides 0x4000 without it, are EINVAL and change        *)
(* nothing.  n is the vector's length in sendmmsg and 1 elsewhere.           *)
StartSend(t, n) ==
  /\ pc[t] = "idle"
  /\ call' = [call EXCEPT ![t] = [NoCall EXCEPT !.op = "send", !.vlen = n]]
  /\ pc' = [pc EXCEPT ![t] = "send"]
  /\ UNCHANGED <<queue, got, sendVars, lost, robbed>>

(* With 0x4000 the first host call saves the option. *)
SaveOption(t, n) ==
  /\ pc[t] = "idle"
  /\ call' = [call EXCEPT ![t] = [NoCall EXCEPT !.op = "send", !.vlen = n]]
  /\ saved' = [saved EXCEPT ![t] = nosigpipe]
  /\ mixed' = (mixed \/ InNoSignal # {})
  /\ pc' = [pc EXCEPT ![t] = "set"]
  /\ UNCHANGED <<queue, got, nosigpipe, lost, robbed>>

(* The second sets it.  Flags besides 0x4000 then raise the exception in the *)
(* constructor, so that no destructor restores the option.                   *)
SetOption(t) ==
  /\ pc[t] = "set"
  /\ nosigpipe' = 1
  /\ \/ /\ pc' = [pc EXCEPT ![t] = "send_quiet"]
        /\ UNCHANGED <<call, got, lost, saved, mixed>>
     \/ /\ Return(t, -1, 0, TRUE)
        /\ saved' = [saved EXCEPT ![t] = 0]
        /\ mixed' = TRUE
  /\ UNCHANGED <<queue, robbed>>

(* Leaving the call: with 0x4000 the destructor still has the option to set. *)
AfterSend(t, n, taken) ==
  IF pc[t] = "send" THEN Return(t, n, taken, TRUE)
  ELSE /\ pc' = [pc EXCEPT ![t] = "restore"]
       /\ got' = [got EXCEPT ![t] = 0]
       /\ UNCHANGED call
       /\ Report(t, n, taken, TRUE)

(* Mutant: sendmmsg's loop runs once too often. *)
Send_Past(t) ==
  LET taken == got[t] + 1 IN
  /\ pc[t] \in {"send", "send_quiet"}
  /\ IF taken > call[t].vlen THEN AfterSend(t, taken, taken)
     ELSE /\ got' = [got EXCEPT ![t] = taken]
          /\ UNCHANGED <<pc, call, lost>>
  /\ UNCHANGED <<queue, sendVars, robbed>>

(* One message: the host's send, sendmsg or sendto returns. *)
Send(t) ==
  LET taken == got[t] + 1 IN
  /\ pc[t] \in {"send", "send_quiet"}
  /\ IF taken = call[t].vlen THEN AfterSend(t, taken, taken)
     ELSE /\ got' = [got EXCEPT ![t] = taken]
          /\ UNCHANGED <<pc, call, lost>>
  /\ UNCHANGED <<queue, sendVars, robbed>>

SendFails(t) ==
  /\ pc[t] \in {"send", "send_quiet"}
  /\ AfterSend(t, PartialCount(t), got[t])
  /\ UNCHANGED <<queue, sendVars, robbed>>

(* Mutant: the destructor leaves the option set. *)
RestoreOption_Skip(t) ==
  /\ pc[t] = "restore"
  /\ Return(t, 0, 0, TRUE)
  /\ UNCHANGED <<queue, sendVars, robbed>>

(* ~sock_send_flags *)
RestoreOption(t) ==
  /\ pc[t] = "restore"
  /\ nosigpipe' = saved[t]
  /\ saved' = [saved EXCEPT ![t] = 0]
  /\ Return(t, 0, 0, TRUE)
  /\ UNCHANGED <<queue, mixed, robbed>>

-----------------------------------------------------------------------------
FlagWords == { {}, {"0x4000"}, {"PEEK"}, {"other"} }

(* What the thread does without waiting for anyone. *)
Step(t) ==
  \/ Receive(t) \/ PollReady(t) \/ PollTimesOut(t)
  \/ Send(t) \/ SetOption(t) \/ RestoreOption(t)

Next ==
  \/ Tick
  \/ \E k \in Kinds : Arrive(k)
  \/ \E t \in Threads :
       \/ \E op \in {"recv", "recvmsg", "recvmmsg", "recvfrom", "accept"},
            flags \in FlagWords, room \in Rooms, timeout \in Timeouts \cup {NoTime} :
            StartReceive(t, op, flags, room, timeout)
       \/ \E n \in {1, VLen} : StartSend(t, n) \/ SaveOption(t, n)
       \/ Step(t) \/ ReceiveFails(t) \/ PollFails(t) \/ SendFails(t)

(* Time passes, and a host call that can return does. *)
Spec ==
  /\ Init /\ [][Next]_vars
  /\ WF_vars(Tick) /\ \A t \in Threads : WF_vars(Step(t))

-----------------------------------------------------------------------------
(* The type of every variable; the element of the vector that recvmmsg or   *)
(* sendmmsg hands to the host is one of the application's vlen.             *)
STypeOK ==
  /\ Len(queue) <= Backlog /\ robbed \subseteq Threads /\ lost \in BOOLEAN
  /\ \A t \in Threads :
       /\ pc[t] \in {"idle", "receive", "poll", "send", "set", "send_quiet", "restore"}
       /\ got[t] \in 0 .. call[t].vlen - 1
       /\ saved[t] \in {0, 1}
  /\ nosigpipe \in {0, 1} /\ mixed \in BOOLEAN

(* A call whose host call fails, whose poll fails or whose time is over     *)
(* reports all the messages the host gave it or took from it: an error      *)
(* after the first is a shorter count.  The one exception is the step in    *)
(* which the host hands it a message from an address the application's      *)
(* buffer has no room for, or bionic no family for: the call then fails as  *)
(* a whole (network.cpp 693-694), and the messages it had received before   *)
(* that one are lost with it.                                               *)
NothingLost ==
  ~lost

(* Once recvmmsg has a message it keeps its timeout: past the deadline it   *)
(* waits in recvmsg only if another thread took the message its poll saw,   *)
(* and it gives up less than a millisecond before the deadline.             *)
DeadlineKept ==
  \A t \in Threads :
    /\ pc[t] = "poll" => call[t].left - call[t].pollLeft < 2
    /\ AfterPoll(t) /\ call[t].left < 0 /\ queue = <<>> => t \in robbed

(* A recvmmsg with a timeout that has a message returns, unless another     *)
(* thread takes the message its poll saw: no message needs to arrive.       *)
TimedReceiveReturns ==
  \A t \in Threads :
    (pc[t] = "poll" \/ AfterPoll(t)) ~> (pc[t] = "idle" \/ t \in robbed)

(* As long as sends with MSG_NOSIGNAL on one socket have not overlapped and *)
(* none has been refused for its flags, SO_NOSIGPIPE is set exactly while   *)
(* one is under way: it covers the send and is given back.  After an        *)
(* overlap a thread can restore the value another one had set; nothing is   *)
(* said of the option from then on.                                         *)
OptionRestored ==
  ~mixed => (nosigpipe = 1 <=> \E t \in Threads : pc[t] \in {"send_quiet", "restore"})
=============================================================================
