---------------------------- MODULE Sockets_proof ----------------------------
(***************************************************************************)
(* Messages, deadlines and SO_NOSIGPIPE, for any threads, messages, sizes  *)
(* and timeouts.                                                           *)
(***************************************************************************)
EXTENDS Sockets, TLAPS

Calls == [op : {"none", "send", "recv", "recvmsg", "recvmmsg", "recvfrom", "accept"},
          room : Rooms \cup {NoRoom}, peek : BOOLEAN, vlen : Nat \ {0},
          left : Int \cup {NoTime}, pollLeft : Nat]

PCs == {"idle", "receive", "poll", "send", "set", "send_quiet", "restore"}

Types ==
  /\ queue \in Seq(Kinds) /\ Len(queue) <= Backlog
  /\ pc \in [Threads -> PCs]
  /\ call \in [Threads -> Calls]
  /\ got \in [Threads -> Nat] /\ saved \in [Threads -> {0, 1}]
  /\ nosigpipe \in {0, 1} /\ robbed \in SUBSET Threads
  /\ mixed \in BOOLEAN /\ lost \in BOOLEAN

(* A call that goes on has messages to go; a new one starts at none. *)
Progress ==
  \A t \in Threads : got[t] < call[t].vlen /\ (pc[t] = "idle" => got[t] = 0)

(* A poll has a deadline, and ends less than a millisecond before it at the  *)
(* earliest; the message it reported is there or was taken.                  *)
Polls ==
  \A t \in Threads :
    /\ pc[t] = "poll" => Timed(t) /\ call[t].left - call[t].pollLeft < 2
    /\ AfterPoll(t) /\ queue = <<>> => t \in robbed

(* Without an overlap one send at a time has the option, and its saved value *)
(* is that of a socket nobody sends on.                                      *)
Option ==
  ~mixed =>
    /\ \A t, u \in InNoSignal : t = u
    /\ \A t \in InNoSignal : saved[t] = 0
    /\ nosigpipe = 1 <=> \E t \in Threads : pc[t] \in {"send_quiet", "restore"}

IInv == Types /\ Progress /\ Polls /\ Option /\ ~lost

-----------------------------------------------------------------------------
LEMMA NoCallType == NoCall \in Calls /\ NoCall.vlen = 1
BY DEF NoCall, Calls, NoRoom

LEMMA InitIInv == Init => IInv
<1> SUFFICES ASSUME Init PROVE IInv
  OBVIOUS
<1>1. Types
  <2>1. queue \in Seq(Kinds) /\ Len(queue) <= Backlog
    BY SizesArePositive DEF Init
  <2> QED BY <2>1, NoCallType DEF Init, Types, PCs
<1>2. Progress /\ Polls /\ Option
  BY NoCallType DEF Init, Progress, Polls, Option, AfterPoll, InNoSignal
<1> QED BY <1>1, <1>2 DEF Init, IInv

(* What one thread's step leaves to the others. *)
OthersKeep(t) ==
  \A u \in Threads \ {t} : pc'[u] = pc[u] /\ got'[u] = got[u] /\ call'[u] = call[u]

(* The state after a call of t that lost nothing. *)
Ended(t) ==
  /\ pc' \in [Threads -> PCs] /\ call' \in [Threads -> Calls]
  /\ got' \in [Threads -> Nat]
  /\ pc'[t] = "idle" /\ OthersKeep(t)
  /\ ~lost' /\ lost' \in BOOLEAN /\ Progress'

(* The end of a call whose count is right, or whose address was refused. *)
LEMMA ReturnKeeps ==
  ASSUME IInv, NEW t \in Threads, NEW n \in Int, NEW taken \in Nat, NEW ok \in BOOLEAN,
         Return(t, n, taken, ok), ok => taken = 0 \/ n >= taken
  PROVE  Ended(t)
<1>1. /\ pc' \in [Threads -> PCs] /\ call' \in [Threads -> Calls]
      /\ got' \in [Threads -> Nat]
      /\ pc'[t] = "idle" /\ got'[t] = 0 /\ call'[t] = NoCall /\ OthersKeep(t)
  BY NoCallType DEF IInv, Types, Return, OthersKeep, PCs
<1>2. ~lost' /\ lost' \in BOOLEAN
  BY DEF IInv, Types, Return, Report
<1>3. Progress'
  BY <1>1, NoCallType DEF IInv, Progress, OthersKeep
<1> QED BY <1>1, <1>2, <1>3 DEF Ended

(* A step outside the window of the option. *)
LEMMA OptionKept ==
  ASSUME IInv, NEW t \in Threads, OthersKeep(t), UNCHANGED sendVars,
         pc[t] \notin {"set", "send_quiet", "restore"},
         pc'[t] \notin {"set", "send_quiet", "restore"}
  PROVE  Option'
<1>1. InNoSignal' = InNoSignal
  BY DEF InNoSignal, OthersKeep
<1>2. \A u \in Threads :
        pc'[u] \in {"send_quiet", "restore"} <=> pc[u] \in {"send_quiet", "restore"}
  BY DEF OthersKeep
<1> QED BY <1>1, <1>2 DEF IInv, Option, sendVars

(* A step after which the thread polls for nothing. *)
LEMMA PollsKept ==
  ASSUME IInv, NEW t \in Threads, OthersKeep(t), queue' = queue,
         pc'[t] \notin {"poll", "receive"}, robbed' \in {robbed, robbed \ {t}}
  PROVE  Polls'
BY DEF IInv, Types, Polls, OthersKeep, AfterPoll, Timed

-----------------------------------------------------------------------------
(* Time and the network. *)
LEMMA TickKeeps == ASSUME IInv, Tick PROVE IInv'
<1>1. ASSUME NEW t \in Threads
      PROVE  /\ call'[t] \in Calls /\ call'[t].vlen = call[t].vlen
             /\ call'[t].left = Later(call[t].left, -1)
             /\ call'[t].pollLeft = Later(call[t].pollLeft, 0)
  <2>1. call[t] \in Calls
    BY DEF IInv, Types
  <2>2. Later(call[t].left, -1) \in Int \cup {NoTime} /\ Later(call[t].pollLeft, 0) \in Nat
    BY <2>1, NoTimeIsNoNumber DEF Calls, Later
  <2> QED BY <2>1, <2>2 DEF Tick, Calls
<1>2. call' \in [Threads -> Calls]
  BY <1>1 DEF Tick
<1>3. UNCHANGED <<queue, pc, got, sendVars, lost, robbed>>
  BY DEF Tick
<1>4. Types' /\ Option' /\ ~lost'
  BY <1>2, <1>3 DEF IInv, Types, Option, sendVars, InNoSignal
<1>5. Progress'
  BY <1>1, <1>3 DEF IInv, Progress
<1>6. ASSUME NEW t \in Threads
      PROVE  /\ pc'[t] = "poll" => Timed(t)' /\ call'[t].left - call'[t].pollLeft < 2
             /\ AfterPoll(t)' /\ queue' = <<>> => t \in robbed'
  <2>1. call[t] \in Calls /\ (Timed(t)' <=> Timed(t))
    BY <1>1, NoTimeIsNoNumber DEF IInv, Types, Timed, Later, Calls
  <2>2. ASSUME pc[t] = "poll" PROVE call'[t].left - call'[t].pollLeft < 2
    <3>1. PICK l \in Int, p \in Nat : l = call[t].left /\ p = call[t].pollLeft /\ l - p < 2
      BY <2>1, <2>2 DEF IInv, Polls, Timed, Calls
    <3>2. l # NoTime /\ p # NoTime
      BY NoTimeIsNoNumber
    <3>3. /\ call'[t].left = IF l = -1 THEN l ELSE l - 1
          /\ call'[t].pollLeft = IF p = 0 THEN p ELSE p - 1
      BY <1>1, <3>1, <3>2 DEF Later
    <3> QED BY <3>1, <3>3
  <2> QED BY <2>1, <2>2, <1>3 DEF IInv, Polls, AfterPoll
<1> QED BY <1>4, <1>5, <1>6 DEF IInv, Polls

LEMMA ArriveKeeps == ASSUME IInv, NEW k \in Kinds, Arrive(k) PROVE IInv'
<1>1. queue' \in Seq(Kinds) /\ Len(queue') <= Backlog /\ queue' # <<>>
  BY SizesArePositive DEF IInv, Types, Arrive
<1>2. UNCHANGED <<pc, call, got, sendVars, lost, robbed>>
  BY DEF Arrive
<1>3. Types' /\ Progress' /\ Option' /\ ~lost'
  BY <1>1, <1>2 DEF IInv, Types, Progress, Option, sendVars, InNoSignal
<1>4. Polls'
  BY <1>1, <1>2 DEF IInv, Polls, Timed, AfterPoll
<1> QED BY <1>3, <1>4 DEF IInv

-----------------------------------------------------------------------------
(* Receiving. *)
LEMMA StartReceiveKeeps ==
  ASSUME IInv, NEW t \in Threads,
         NEW op \in {"recv", "recvmsg", "recvmmsg", "recvfrom", "accept"},
         NEW flags \in FlagWords, NEW room \in Rooms, NEW timeout \in Timeouts \cup {NoTime},
         StartReceive(t, op, flags, room, timeout)
  PROVE  IInv'
<1> DEFINE c == [op |-> op, room |-> IF op = "recv" THEN NoRoom ELSE room,
                 peek |-> op \in {"recv", "recvmmsg"} /\ "PEEK" \in flags,
                 vlen |-> IF op = "recvmmsg" THEN VLen ELSE 1,
                 left |-> IF op = "recvmmsg" /\ "0x4000" \notin flags
                          THEN timeout ELSE NoTime,
                 pollLeft |-> 0]
<1>1. c \in Calls
  <2>1. (op \in {"recv", "recvmmsg"} /\ "PEEK" \in flags) \in BOOLEAN
    OBVIOUS
  <2>2. /\ (IF op = "recv" THEN NoRoom ELSE room) \in Rooms \cup {NoRoom}
        /\ (IF op = "recvmmsg" THEN VLen ELSE 1) \in Nat \ {0}
        /\ (IF op = "recvmmsg" /\ "0x4000" \notin flags THEN timeout ELSE NoTime)
             \in Int \cup {NoTime}
    BY SizesArePositive, TimeoutsAreNats
  <2> QED BY <2>1, <2>2 DEF Calls
<1>2. /\ pc[t] = "idle" /\ pc'[t] = "receive" /\ call'[t] = c
      /\ OthersKeep(t) /\ UNCHANGED <<queue, got, sendVars, lost, robbed>>
  BY DEF IInv, Types, StartReceive, OthersKeep
<1>3. Types'
  BY <1>1, <1>2 DEF IInv, Types, StartReceive, sendVars, PCs
<1>4. Progress' /\ ~lost'
  BY <1>1, <1>2 DEF IInv, Progress, OthersKeep, Calls
<1>5. Polls'
  BY <1>2 DEF IInv, Polls, Progress, Timed, AfterPoll, OthersKeep
<1>6. Option'
  BY <1>2, OptionKept
<1> QED BY <1>3, <1>4, <1>5, <1>6 DEF IInv

(* A message was received: the others that were polling for it are robbed.  *)
LEMMA ReceiveKeeps ==
  ASSUME IInv, NEW t \in Threads, Receive(t)
  PROVE  IInv'
<1> DEFINE c == call[t]  item == Head(queue)  taken == got[t] + 1
<1>1. /\ pc[t] = "receive" /\ queue # <<>> /\ UNCHANGED sendVars
      /\ queue' = (IF c.peek THEN queue ELSE Tail(queue))
      /\ robbed' = (robbed \cup {u \in Threads : ~c.peek /\ AfterPoll(u)}) \ {t}
      /\ c \in Calls /\ taken \in Nat /\ taken <= c.vlen
  BY DEF Receive, IInv, Types, Progress, Calls
<1>2. queue' \in Seq(Kinds) /\ Len(queue') <= Backlog /\ robbed' \in SUBSET Threads
  <2>1. /\ queue \in Seq(Kinds) /\ Len(queue) <= Backlog
        /\ robbed \in SUBSET Threads
    BY DEF IInv, Types
  <2>2. robbed' \in SUBSET Threads
    BY <1>1, <2>1
  <2>3. Tail(queue) \in Seq(Kinds) /\ Len(Tail(queue)) = Len(queue) - 1 /\ Len(queue) \in Nat
    BY <1>1, <2>1
  <2>4. queue' \in {queue, Tail(queue)}
    BY <1>1
  <2> HIDE DEF c
  <2> QED BY <2>1, <2>2, <2>3, <2>4, SizesArePositive
<1>3. ASSUME NEW u \in Threads \ {t}, OthersKeep(t)
      PROVE  /\ pc'[u] = "poll" => Timed(u)' /\ call'[u].left - call'[u].pollLeft < 2
             /\ AfterPoll(u)' /\ queue' = <<>> => u \in robbed'
  BY <1>1, <1>3 DEF IInv, Polls, OthersKeep, AfterPoll, Timed
<1>4. CASE \E n \in Int, ok \in BOOLEAN : Return(t, n, taken, ok) /\ (ok => n >= taken)
  <2> PICK n \in Int, ok \in BOOLEAN : Return(t, n, taken, ok) /\ (ok => n >= taken)
    BY <1>4
  <2>1. Ended(t)
    BY <1>1, ReturnKeeps
  <2>2. Types'
    BY <1>1, <1>2, <2>1 DEF IInv, Types, sendVars, Ended
  <2>3. Polls'
    BY <1>3, <2>1 DEF Polls, AfterPoll, Ended
  <2>4. Option'
    BY <1>1, <2>1, OptionKept DEF Ended
  <2> QED BY <2>1, <2>2, <2>3, <2>4 DEF IInv, Ended
<1>5. CASE /\ pc' = [pc EXCEPT ![t] = "receive"] /\ got' = [got EXCEPT ![t] = taken]
           /\ taken # c.vlen /\ ~Timed(t) /\ UNCHANGED <<call, lost>>
  <2>1. pc'[t] = "receive" /\ OthersKeep(t) /\ ~Timed(t)' /\ got'[t] = taken
    BY <1>5 DEF IInv, Types, OthersKeep, Timed
  <2>2. Types' /\ ~lost'
    BY <1>1, <1>2, <1>5 DEF IInv, Types, sendVars, PCs
  <2>3. Progress'
    BY <1>1, <1>5, <2>1 DEF IInv, Progress, OthersKeep, Calls
  <2>4. Polls'
    BY <1>3, <2>1 DEF Polls, AfterPoll
  <2>5. Option'
    BY <1>1, <2>1, OptionKept
  <2> QED BY <2>2, <2>3, <2>4, <2>5 DEF IInv
<1>6. CASE /\ pc' = [pc EXCEPT ![t] = "poll"] /\ got' = [got EXCEPT ![t] = taken]
           /\ call' = [call EXCEPT ![t].pollLeft = 2 * (call[t].left \div 2)]
           /\ taken # c.vlen /\ Timed(t) /\ ~(call[t].left <= 0) /\ UNCHANGED lost
  <2>1. c.left \in Int /\ 2 * (c.left \div 2) \in Nat /\ c.left - 2 * (c.left \div 2) < 2
    BY <1>1, <1>6 DEF Calls, Timed
  <2>2. /\ call' \in [Threads -> Calls]
        /\ call'[t].left = c.left /\ call'[t].vlen = c.vlen
        /\ call'[t].pollLeft = 2 * (c.left \div 2)
    BY <1>1, <1>6, <2>1 DEF IInv, Types, Calls
  <2>3. pc'[t] = "poll" /\ OthersKeep(t) /\ Timed(t)' /\ got'[t] = taken
    BY <1>6, <2>2 DEF IInv, Types, OthersKeep, Timed
  <2>4. Types' /\ ~lost'
    BY <1>1, <1>2, <1>6, <2>2 DEF IInv, Types, sendVars, PCs
  <2>5. Progress'
    BY <1>1, <1>6, <2>2, <2>3 DEF IInv, Progress, OthersKeep, Calls
  <2>6. Polls'
    BY <1>3, <2>1, <2>2, <2>3 DEF Polls, AfterPoll
  <2>7. Option'
    BY <1>1, <2>3, OptionKept
  <2> QED BY <2>4, <2>5, <2>6, <2>7 DEF IInv
<1>7. TRUE \in BOOLEAN /\ FALSE \in BOOLEAN /\ -1 \in Int /\ taken \in Int /\ taken >= taken
  BY <1>1
<1> QED
  <2>1. CASE ~AddressOK(c, item)
    BY <2>1, <1>4, <1>7 DEF Receive
  <2>2. CASE AddressOK(c, item) /\ taken = c.vlen
    BY <2>2, <1>4, <1>7 DEF Receive
  <2>3. CASE AddressOK(c, item) /\ taken # c.vlen
    <3>1. NextMessage(t, taken)
      BY <2>3 DEF Receive
    <3> QED BY <3>1, <2>3, <1>4, <1>5, <1>6, <1>7 DEF NextMessage
  <2> QED BY <2>1, <2>2, <2>3

(* A receiving call ends without a message: the count is what it has got. *)
LEMMA GiveUpKeeps ==
  ASSUME IInv, NEW t \in Threads, ReceiveFails(t) \/ PollTimesOut(t) \/ PollFails(t)
  PROVE  IInv'
<1>1. /\ got[t] \in Nat /\ got[t] \in Int /\ PartialCount(t) \in Int
      /\ (got[t] = 0 \/ got[t] >= got[t]) /\ (got[t] = 0 \/ PartialCount(t) >= got[t])
  BY DEF IInv, Types, PartialCount
<1>2. /\ pc[t] \in {"receive", "poll"} /\ UNCHANGED <<queue, sendVars>>
      /\ robbed' \in {robbed, robbed \ {t}}
      /\ Return(t, got[t], got[t], TRUE) \/ Return(t, PartialCount(t), got[t], TRUE)
  BY DEF ReceiveFails, PollTimesOut, PollFails
<1>3. Ended(t)
  <2> TRUE \in BOOLEAN
    OBVIOUS
  <2>1. CASE Return(t, got[t], got[t], TRUE)
    BY <1>1, <2>1, ReturnKeeps
  <2>2. CASE Return(t, PartialCount(t), got[t], TRUE)
    BY <1>1, <2>2, ReturnKeeps
  <2> QED BY <1>2, <2>1, <2>2
<1>4. Types'
  BY <1>2, <1>3 DEF IInv, Types, sendVars, Ended
<1>5. Polls' /\ Option'
  BY <1>2, <1>3, PollsKept, OptionKept DEF Ended
<1> QED BY <1>3, <1>4, <1>5 DEF IInv, Ended

LEMMA PollReadyKeeps ==
  ASSUME IInv, NEW t \in Threads, PollReady(t)
  PROVE  IInv'
<1>1. /\ pc[t] = "poll" /\ pc'[t] = "receive" /\ queue' # <<>> /\ OthersKeep(t)
      /\ UNCHANGED <<queue, call, got, sendVars, lost, robbed>>
  BY DEF IInv, Types, PollReady, OthersKeep
<1>2. Types' /\ ~lost' /\ Progress'
  BY <1>1 DEF IInv, Types, Progress, PollReady, sendVars, PCs, OthersKeep
<1>3. Polls'
  BY <1>1 DEF IInv, Polls, Timed, AfterPoll, OthersKeep
<1>4. Option'
  BY <1>1, OptionKept
<1> QED BY <1>2, <1>3, <1>4 DEF IInv

-----------------------------------------------------------------------------
(* Sending. *)
LEMMA StartSendKeeps ==
  ASSUME IInv, NEW t \in Threads, NEW n \in {1, VLen}, StartSend(t, n)
  PROVE  IInv'
<1> DEFINE c == [NoCall EXCEPT !.op = "send", !.vlen = n]
<1>1. c \in Calls /\ c.vlen = n /\ n \in Nat \ {0}
  BY NoCallType, SizesArePositive DEF Calls
<1>2. /\ pc[t] = "idle" /\ pc'[t] = "send" /\ OthersKeep(t) /\ call'[t] = c
      /\ UNCHANGED <<queue, got, sendVars, lost, robbed>>
  BY DEF IInv, Types, StartSend, OthersKeep
<1>3. Types' /\ ~lost'
  <2>1. call \in [Threads -> Calls] /\ call' = [call EXCEPT ![t] = c]
    BY DEF IInv, Types, StartSend
  <2>2. pc' \in [Threads -> PCs]
    BY DEF IInv, Types, StartSend, PCs
  <2> HIDE DEF c
  <2>3. call' \in [Threads -> Calls]
    BY <1>1, <2>1
  <2> QED BY <1>2, <2>2, <2>3 DEF IInv, Types, sendVars
<1>4. Progress'
  <2>1. got[t] = 0 /\ got' = got
    BY <1>2 DEF IInv, Progress
  <2>2. got'[t] < call'[t].vlen /\ pc'[t] # "idle"
    <3>1. call'[t].vlen = n /\ 0 < n /\ got'[t] = 0
      BY <1>1, <1>2, <2>1
    <3> QED BY <1>2, <3>1
  <2> HIDE DEF c
  <2> QED BY <1>2, <2>2 DEF IInv, Progress, OthersKeep
<1>5. Polls' /\ Option'
  BY <1>2, PollsKept, OptionKept
<1> QED BY <1>3, <1>4, <1>5 DEF IInv

(* The option is saved: 0, unless another send has it. *)
LEMMA SaveOptionKeeps ==
  ASSUME IInv, NEW t \in Threads, NEW n \in {1, VLen}, SaveOption(t, n)
  PROVE  IInv'
<1> DEFINE c == [NoCall EXCEPT !.op = "send", !.vlen = n]
<1>1. c \in Calls /\ c.vlen = n /\ n \in Nat \ {0}
  BY NoCallType, SizesArePositive DEF Calls
<1>2. /\ pc[t] = "idle" /\ pc'[t] = "set" /\ OthersKeep(t) /\ call'[t] = c
      /\ saved'[t] = nosigpipe /\ (mixed' <=> mixed \/ InNoSignal # {})
      /\ UNCHANGED <<queue, got, nosigpipe, lost, robbed>>
  BY DEF IInv, Types, SaveOption, OthersKeep
<1>3. Types' /\ ~lost'
  <2>1. call \in [Threads -> Calls] /\ call' = [call EXCEPT ![t] = c]
    BY DEF IInv, Types, SaveOption
  <2>2. pc' \in [Threads -> PCs] /\ saved' \in [Threads -> {0, 1}]
    BY DEF IInv, Types, SaveOption, PCs
  <2>3. mixed' \in BOOLEAN
    BY DEF IInv, Types, SaveOption
  <2> HIDE DEF c
  <2>4. call' \in [Threads -> Calls]
    BY <1>1, <2>1
  <2> QED BY <1>2, <2>2, <2>3, <2>4 DEF IInv, Types
<1>4. Progress'
  <2>1. got[t] = 0 /\ got' = got
    BY <1>2 DEF IInv, Progress
  <2>2. got'[t] < call'[t].vlen /\ pc'[t] # "idle"
    <3>1. call'[t].vlen = n /\ 0 < n /\ got'[t] = 0
      BY <1>1, <1>2, <2>1
    <3> QED BY <1>2, <3>1
  <2> HIDE DEF c
  <2> QED BY <1>2, <2>2 DEF IInv, Progress, OthersKeep
<1>5. Polls'
  BY <1>2, PollsKept
<1>6. ASSUME ~mixed'
      PROVE  /\ InNoSignal' = {t} /\ saved'[t] = 0
             /\ nosigpipe' = 0 /\ \A u \in Threads : pc'[u] \notin {"send_quiet", "restore"}
  <2>1. InNoSignal = {} /\ ~mixed
    BY <1>2, <1>6
  <2>2. \A u \in Threads : pc[u] \notin {"set", "send_quiet", "restore"}
    BY <2>1 DEF InNoSignal
  <2>3. nosigpipe = 0
    BY <2>1, <2>2 DEF IInv, Types, Option
  <2> QED BY <1>2, <2>2, <2>3 DEF InNoSignal, OthersKeep
<1>7. Option'
  BY <1>6 DEF Option
<1> QED BY <1>3, <1>4, <1>5, <1>7 DEF IInv

(* It is set, and the send begins, or is refused and the option stays. *)
LEMMA SetOptionKeeps ==
  ASSUME IInv, NEW t \in Threads, SetOption(t)
  PROVE  IInv'
<1>1. pc[t] = "set" /\ nosigpipe' = 1 /\ UNCHANGED <<queue, robbed>>
  BY DEF SetOption
<1>2. CASE /\ pc' = [pc EXCEPT ![t] = "send_quiet"]
           /\ UNCHANGED <<call, got, lost, saved, mixed>>
  <2>1. pc'[t] = "send_quiet" /\ OthersKeep(t)
    BY <1>2 DEF IInv, Types, OthersKeep
  <2>2. Types' /\ ~lost' /\ Progress'
    BY <1>1, <1>2, <2>1 DEF IInv, Types, Progress, PCs, OthersKeep
  <2>3. InNoSignal' = InNoSignal
    BY <1>1, <2>1 DEF InNoSignal, OthersKeep
  <2>4. Option'
    BY <1>1, <1>2, <2>1, <2>3 DEF IInv, Option
  <2> QED BY <1>1, <2>1, <2>2, <2>4, PollsKept DEF IInv
<1>3. CASE /\ Return(t, -1, 0, TRUE) /\ saved' = [saved EXCEPT ![t] = 0]
           /\ mixed' = TRUE
  <2>1. -1 \in Int /\ 0 \in Nat /\ 0 = 0 /\ TRUE \in BOOLEAN
    OBVIOUS
  <2>2. Ended(t)
    BY <1>3, <2>1, ReturnKeeps
  <2>3. Types'
    BY <1>1, <1>3, <2>2 DEF IInv, Types, Ended
  <2>4. Polls' /\ Option'
    BY <1>1, <1>3, <2>2, PollsKept DEF Option, Ended
  <2> QED BY <2>2, <2>3, <2>4 DEF IInv, Ended
<1> QED BY <1>2, <1>3 DEF SetOption

(* Messages are sent until all are or one fails; with the option set, the    *)
(* thread that leaves still has it to restore.                               *)
LEMMA SendKeeps ==
  ASSUME IInv, NEW t \in Threads, Send(t) \/ SendFails(t)
  PROVE  IInv'
<1>1. /\ pc[t] \in {"send", "send_quiet"} /\ UNCHANGED <<queue, sendVars, robbed>>
      /\ call[t] \in Calls /\ got[t] \in Nat /\ got[t] + 1 <= call[t].vlen
  BY DEF IInv, Types, Progress, Calls, Send, SendFails
<1>2. CASE \E n \in Int, taken \in Nat :
             AfterSend(t, n, taken) /\ (taken = 0 \/ n >= taken)
  <2> PICK n \in Int, taken \in Nat : AfterSend(t, n, taken) /\ (taken = 0 \/ n >= taken)
    BY <1>2
  <2>1. CASE pc[t] = "send"
    <3>1. Ended(t)
      BY <2>1, ReturnKeeps DEF AfterSend
    <3>2. Types'
      BY <1>1, <3>1 DEF IInv, Types, sendVars, Ended
    <3>3. Polls' /\ Option'
      BY <1>1, <2>1, <3>1, PollsKept, OptionKept DEF Ended
    <3> QED BY <3>1, <3>2, <3>3 DEF IInv, Ended
  <2>2. CASE pc[t] = "send_quiet"
    <3>1. /\ pc' = [pc EXCEPT ![t] = "restore"] /\ got' = [got EXCEPT ![t] = 0]
          /\ UNCHANGED call /\ ~lost' /\ lost' \in BOOLEAN
      BY <2>2 DEF AfterSend, Report, IInv, Types
    <3>2. pc'[t] = "restore" /\ got'[t] = 0 /\ OthersKeep(t)
      BY <3>1 DEF IInv, Types, OthersKeep
    <3>3. Types'
      BY <1>1, <3>1 DEF IInv, Types, sendVars, PCs
    <3>4. Progress'
      BY <1>1, <3>1, <3>2 DEF IInv, Progress, OthersKeep, Calls
    <3>5. InNoSignal' = InNoSignal
      BY <2>2, <3>2 DEF InNoSignal, OthersKeep
    <3>6. Option'
      BY <1>1, <2>2, <3>2, <3>5 DEF IInv, Option, sendVars, OthersKeep
    <3>7. Polls'
      BY <1>1, <3>2, PollsKept
    <3> QED BY <3>1, <3>3, <3>4, <3>6, <3>7 DEF IInv
  <2> QED BY <1>1, <2>1, <2>2
<1>3. CASE /\ got' = [got EXCEPT ![t] = got[t] + 1] /\ got[t] + 1 # call[t].vlen
           /\ UNCHANGED <<pc, call, lost>>
  <2>1. Types' /\ ~lost'
    BY <1>1, <1>3 DEF IInv, Types, sendVars
  <2>2. Progress'
    BY <1>1, <1>3 DEF IInv, Types, Progress, Calls
  <2>3. Polls'
    BY <1>1, <1>3 DEF IInv, Types, Polls, AfterPoll, Timed
  <2>4. Option'
    BY <1>1, <1>3 DEF IInv, Option, sendVars, InNoSignal
  <2> QED BY <2>1, <2>2, <2>3, <2>4 DEF IInv
<1>4. CASE Send(t)
  BY <1>1, <1>2, <1>3, <1>4 DEF Send
<1>5. CASE SendFails(t)
  <2>1. PartialCount(t) \in Int /\ (got[t] = 0 \/ PartialCount(t) >= got[t])
    BY <1>1 DEF PartialCount
  <2> QED BY <1>1, <1>2, <1>5, <2>1 DEF SendFails
<1> QED BY <1>4, <1>5

(* The option is given back. *)
LEMMA RestoreOptionKeeps ==
  ASSUME IInv, NEW t \in Threads, RestoreOption(t)
  PROVE  IInv'
<1>1. /\ pc[t] = "restore" /\ nosigpipe' = saved[t] /\ UNCHANGED <<queue, mixed, robbed>>
      /\ saved' = [saved EXCEPT ![t] = 0]
  BY DEF RestoreOption
<1>2. Ended(t)
  <2>1. 0 \in Int /\ 0 \in Nat /\ 0 = 0 /\ TRUE \in BOOLEAN
    OBVIOUS
  <2>2. Return(t, 0, 0, TRUE)
    BY DEF RestoreOption
  <2> QED BY <2>1, <2>2, ReturnKeeps
<1>3. Types'
  BY <1>1, <1>2 DEF IInv, Types, Ended
<1>4. ASSUME ~mixed'
      PROVE  InNoSignal' = {} /\ nosigpipe' = 0
  BY <1>1, <1>2, <1>4 DEF IInv, Option, InNoSignal, OthersKeep, Ended
<1>5. Option'
  BY <1>4 DEF Option, InNoSignal
<1>6. Polls'
  BY <1>1, <1>2, PollsKept DEF Ended
<1> QED BY <1>2, <1>3, <1>5, <1>6 DEF IInv, Ended

-----------------------------------------------------------------------------
LEMMA IInvIsInductive == IInv /\ [Next]_vars => IInv'
<1> SUFFICES ASSUME IInv, [Next]_vars PROVE IInv'
  OBVIOUS
<1>1. CASE UNCHANGED vars
  BY <1>1 DEF vars, sendVars, IInv, Types, Progress, Polls, Option, Timed, AfterPoll, InNoSignal
<1>2. CASE Tick \/ \E k \in Kinds : Arrive(k)
  BY <1>2, TickKeeps, ArriveKeeps
<1>3. ASSUME NEW t \in Threads, Step(t) \/ ReceiveFails(t) \/ PollFails(t) \/ SendFails(t)
      PROVE  IInv'
  BY <1>3, ReceiveKeeps, GiveUpKeeps, PollReadyKeeps, SetOptionKeeps, SendKeeps,
     RestoreOptionKeeps DEF Step
<1>4. ASSUME NEW t \in Threads, NEW n \in {1, VLen}, StartSend(t, n) \/ SaveOption(t, n)
      PROVE  IInv'
  BY <1>4, StartSendKeeps, SaveOptionKeeps
<1> QED BY <1>1, <1>2, <1>3, <1>4, StartReceiveKeeps DEF Next

(* Every variable keeps its type, and no call hands the host an element past *)
(* the end of the application's vector.                                      *)
THEOREM TypeCorrect == Spec => []STypeOK
<1>1. IInv => STypeOK
  BY DEF IInv, Types, Progress, STypeOK, PCs, Calls
<1> QED BY InitIInv, IInvIsInductive, <1>1, PTL DEF Spec

(* A call that ends in a failed host call, a failed poll or at its deadline  *)
(* returns the count of all messages it had; a call that ends with an        *)
(* address that cannot be handed over is outside this: it loses them all.    *)
THEOREM NoMessageLost == Spec => []NothingLost
<1>1. IInv => NothingLost
  BY DEF IInv, NothingLost
<1> QED BY InitIInv, IInvIsInductive, <1>1, PTL DEF Spec

(* recvmmsg neither gives up a whole millisecond early nor waits in recvmsg  *)
(* past its deadline, except for a message another thread took.              *)
THEOREM DeadlineIsKept == Spec => []DeadlineKept
<1>1. IInv => DeadlineKept
  BY DEF IInv, Polls, DeadlineKept
<1> QED BY InitIInv, IInvIsInductive, <1>1, PTL DEF Spec

(* Sends with MSG_NOSIGNAL, none of which has overlapped with another or been *)
(* refused, have SO_NOSIGPIPE set all the time and leave it as it was.        *)
THEOREM OptionIsRestored == Spec => []OptionRestored
<1>1. IInv => OptionRestored
  BY DEF IInv, Option, OptionRestored
<1> QED BY InitIInv, IInvIsInductive, <1>1, PTL DEF Spec
=============================================================================
