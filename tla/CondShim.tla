------------------------------ MODULE CondShim ------------------------------
(***************************************************************************)
(* Condition variables (pthreads.cpp 394-412) over the lazily created host *)
(* objects.  pthread_cond_wait resolves two objects, in an order the C++   *)
(* compiler chooses, before the host sees either; a signaller may be the   *)
(* one that creates the host condition variable.  The host's part is       *)
(* modelled from its POSIX description, spurious wakeups included.         *)
(***************************************************************************)
EXTENDS MutexShim

Conds == Objects \ Mutexes

VARIABLE wait  \* each thread inside the host's cond_wait: asleep or awake

condVars == <<allVars, wait>>

WaitOps == {"wait", "timedwait"}
WakeOps == {"signal", "broadcast"}

(* t sleeps in the host, on host condition variable h. *)
SleepsOn(t, h) == wait[t] = "asleep" /\ \E c \in Conds : res[t][c] = h

(* t sleeps in a wait call the application made on c. *)
WaitsOn(t, c) == wait[t] = "asleep" /\ c \in args[t]

CInit == MInit /\ wait = [t \in Threads |-> "no"]

(* The application waits with the mutex locked once. *)
CallWait(t, c, m, f) ==
  /\ has[t][m] = 1
  /\ Call(t, {c, m})
  /\ op' = [op EXCEPT ![t] = f]
  /\ UNCHANGED <<owner, depth, has, ret, wait>>

(* ... and may signal with or without it. *)
CallWake(t, c, f) ==
  /\ Call(t, {c})
  /\ op' = [op EXCEPT ![t] = f]
  /\ UNCHANGED <<owner, depth, has, ret, wait>>

(* Host wait: release the mutex and fall asleep in one step. *)
HostSleep(t, m) ==
  /\ AtHost(t, m, WaitOps)
  /\ wait[t] = "no"
  /\ wait' = [wait EXCEPT ![t] = "asleep"]
  /\ owner' = [owner EXCEPT ![res[t][m]] = NoThread]
  /\ depth' = [depth EXCEPT ![res[t][m]] = 0]
  /\ has' = [has EXCEPT ![t][m] = 0]
  /\ UNCHANGED <<vars, op, ret>>

(* A spurious wakeup, or the timeout of a timed wait. *)
HostWakes(t) ==
  /\ wait[t] = "asleep"
  /\ wait' = [wait EXCEPT ![t] = "awake"]
  /\ ret' = [ret EXCEPT ![t] = IF op[t] = "timedwait" THEN "ETIMEDOUT" ELSE "0"]
  /\ UNCHANGED <<vars, owner, depth, op, has>>

(* Awake, the host takes the mutex again and the call returns. *)
HostReacquires(t, m) ==
  /\ AtHost(t, m, WaitOps)
  /\ wait[t] = "awake"
  /\ owner[res[t][m]] = NoThread
  /\ wait' = [wait EXCEPT ![t] = "no"]
  /\ owner' = [owner EXCEPT ![res[t][m]] = t]
  /\ depth' = [depth EXCEPT ![res[t][m]] = 1]
  /\ has' = [has EXCEPT ![t][m] = 1]
  /\ HostReturns(t, ret[t])

(* Host signal: one sleeper wakes, if there is one. *)
HostSignal(t, c) ==
  /\ AtHost(t, c, {"signal"})
  /\ LET sleepers == {s \in Threads : SleepsOn(s, res[t][c])} IN
       IF sleepers = {} THEN UNCHANGED wait
       ELSE \E s \in sleepers : wait' = [wait EXCEPT ![s] = "awake"]
  /\ HostReturns(t, "0")
  /\ UNCHANGED <<owner, depth, has>>

(* Host broadcast: all sleepers wake. *)
HostBroadcast(t, c) ==
  /\ AtHost(t, c, {"broadcast"})
  /\ wait' = [s \in Threads |->
                IF SleepsOn(s, res[t][c]) THEN "awake" ELSE wait[s]]
  /\ HostReturns(t, "0")
  /\ UNCHANGED <<owner, depth, has>>

CHostStep(t) ==
  \/ \E m \in Mutexes : HostSleep(t, m) \/ HostReacquires(t, m)
  \/ \E c \in Conds : HostSignal(t, c) \/ HostBroadcast(t, c)
  \/ HostStep(t) /\ UNCHANGED wait

(* Any application: it makes and destroys mutexes and condition variables,  *)
(* waits on any condition variable with any mutex, and wakes whom it likes. *)
CNext ==
  \/ MNext /\ UNCHANGED wait
  \/ \E t \in Threads :
       \/ \E c \in Conds, m \in Mutexes, f \in WaitOps : CallWait(t, c, m, f)
       \/ \E c \in Conds, f \in WakeOps : CallWake(t, c, f)
       \/ CHostStep(t)
       \/ HostWakes(t)

CSpec == CInit /\ [][CNext]_condVars

-----------------------------------------------------------------------------
(* A step that ends a signal or broadcast wakes a thread that waits on c (all *)
(* of them, for a broadcast), if there is one.                               *)
WakesWaiters ==
  \A t \in Threads : \A c \in Conds :
    LET waiters == {s \in Threads : WaitsOn(s, c)}
        woken   == {s \in waiters : wait'[s] = "awake"}
    IN  AtHost(t, c, WakeOps) /\ pc'[t] = "idle" /\ waiters # {} =>
          IF op[t] = "broadcast" THEN woken = waiters ELSE woken # {}

(* A signal or broadcast that reaches the host while some thread waits on   *)
(* the same bionic condition variable wakes a thread that waits on it:      *)
(* waiter and signaller never end up on two host objects.                   *)
SignalWakes == [][WakesWaiters]_condVars

(* A thread in pthread_cond_wait holds the mutex exactly when it is not     *)
(* asleep or waiting to get it back, so that a wait that returned holds it  *)
(* and nobody else does.                                                    *)
WaitHoldsMutex ==
  \A t \in Threads : \A m \in Mutexes :
    op[t] \in WaitOps /\ m \in args[t] =>
      /\ wait[t] = "no" <=> has[t][m] = 1
      /\ wait[t] = "no" /\ res[t][m] # NoAddr => owner[res[t][m]] = t
=============================================================================
