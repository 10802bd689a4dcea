----------------------------- MODULE ThreadCalls -----------------------------
(***************************************************************************)
(* Thread attributes and scheduling, keys, attributes of mutexes and       *)
(* condition variables (pthreads.cpp 107-313, 348-367, 414-434, 462-483)   *)
(* and semaphores (semaphore.cpp 31-92), as compiled on macOS.  The        *)
(* pthread functions return bionic's error numbers and leave errno alone;  *)
(* an exception leaves them, and no step follows.                          *)
(***************************************************************************)
EXTENDS Calls

CONSTANTS StackSizes,  \* sizes the application asks for, in pages
          StackMin,    \* PTHREAD_STACK_MIN
          Priorities   \* 0 among them: the default

ASSUME StackAssumption == StackSizes \subseteq Nat /\ StackMin \in Nat

Returns(r) == Own(translate_errno_from_host(r))

-----------------------------------------------------------------------------
(* pthread_attr_t *)
NewAttr == [kind |-> "attr", detached |-> FALSE, stack |-> 0, priority |-> 0]

attr_init == Is("none") /\ obj' = NewAttr /\ Returns(0) /\ UNCHANGED heap

(* A value besides 0 and 1 is EINVAL. *)
attr_setdetachstate(value) ==
  /\ Is("attr")
  /\ IF value \in {0, 1}
     THEN obj' = [obj EXCEPT !.detached = (value = 1)] /\ Returns(0)
     ELSE UNCHANGED obj /\ Own(EINVAL)
  /\ UNCHANGED heap

attr_setschedparam(priority) ==
  /\ Is("attr")
  /\ obj' = [obj EXCEPT !.priority = priority] /\ Returns(0) /\ UNCHANGED heap

(* Mutant: any size is stored. *)
attr_setstacksize_Unchecked(size) ==
  /\ Is("attr")
  /\ obj' = [obj EXCEPT !.stack = size]
  /\ Returns(0) /\ UNCHANGED heap

(* A size that is too small is ignored. *)
attr_setstacksize(size) ==
  /\ Is("attr")
  /\ obj' = (IF size < StackMin THEN obj ELSE [obj EXCEPT !.stack = size])
  /\ Returns(0) /\ UNCHANGED heap

attr_destroy == Is("attr") /\ obj' = Nothing /\ Returns(0) /\ UNCHANGED heap

(* host_pthread_attr: what is not 0 is handed on, the host's default is     *)
(* kept for the rest.  So is the detach state, which no call reads back.    *)
DefaultStack    == StackMin + 1
DefaultPriority == 31
pthread_create(e) ==
  /\ Is("attr")
  /\ Returns(e)
  /\ OnSuccess(TRUE, e,
       [kind |-> "thread",
        stack |-> IF obj.stack = 0 THEN DefaultStack ELSE obj.stack,
        priority |-> IF obj.priority = 0 THEN DefaultPriority ELSE obj.priority,
        policy |-> "OTHER", seen |-> "none", before |-> "OTHER",
        asked |-> "none", read |-> "none"])
  /\ UNCHANGED heap

(* pthread_getattr_np on macOS: not the detach state, nor the policy. *)
getattr_np(e) ==
  /\ Is("thread")
  /\ Returns(e)
  /\ OnSuccess(TRUE, e, [NewAttr EXCEPT !.stack = obj.stack, !.priority = obj.priority])
  /\ UNCHANGED heap

-----------------------------------------------------------------------------
(* Scheduling policies: bionic's OTHER and FIFO; "unknown" is -1. *)

(* Mutant: FIFO is the default. *)
from_host_sched_policy_Fifo(p) == IF p = "OTHER" THEN "OTHER" ELSE "FIFO"

from_host_sched_policy(p) == IF p = "OTHER" THEN "OTHER" ELSE "unknown"

(* The thread's policy changes behind the caller's back. *)
HostSetsPolicy(p) ==
  /\ Is("thread") \/ Is("setting")
  /\ obj' = [obj EXCEPT !.policy = p]
  /\ UNCHANGED <<vars, heap>>

pthread_getschedparam(e) ==
  /\ Is("thread")
  /\ Returns(e)
  /\ OnSuccess(TRUE, e, [obj EXCEPT !.seen = from_host_sched_policy(obj.policy),
                                    !.before = obj.policy])
  /\ UNCHANGED heap

(* The host is asked for the thread's policy, *)
pthread_setschedparam(policy, e) ==
  /\ Is("thread")
  /\ IF e # 0 THEN Returns(e) /\ UNCHANGED obj
     ELSE /\ obj' = [obj EXCEPT !.kind = "setting", !.asked = policy, !.read = obj.policy]
          /\ UNCHANGED vars
  /\ UNCHANGED heap

(* and told the new one, or the one it had then if the new one is -1; a     *)
(* policy the shim does not know throws, and no step follows.               *)
SetsHostPolicy(priority, e) ==
  LET Chosen == IF obj.asked = "unknown" THEN obj.read ELSE obj.asked
      ok     == e = 0
  IN  /\ Is("setting")
      /\ Returns(e)
      /\ obj' = [obj EXCEPT !.kind = "thread",
                            !.policy = IF ok THEN Chosen ELSE @,
                            !.priority = IF ok THEN priority ELSE @,
                            !.asked = "none", !.read = "none"]
      /\ UNCHANGED heap

(* The thread ends, or its id is forgotten. *)
ThreadEnds == Is("thread") /\ obj' = Nothing /\ UNCHANGED <<vars, heap>>

-----------------------------------------------------------------------------
(* Keys.  A failing pthread_key_create stores a value the host has not set. *)
HostKeys == {1, 2}
NewKeys  == [kind |-> "keys", key |-> 0, live |-> {}, set |-> {}]

StartKeys == Is("none") /\ obj' = NewKeys /\ UNCHANGED <<vars, heap>>
StopKeys  == Is("keys") /\ obj.live = {} /\ obj' = Nothing /\ UNCHANGED <<vars, heap>>

pthread_key_create(host_key, e) ==
  /\ Is("keys")
  /\ e = 0 => host_key \in HostKeys \ obj.live
  /\ Returns(e)
  /\ obj' = [obj EXCEPT !.key = host_key,
                        !.live = IF e = 0 THEN @ \cup {host_key} ELSE @]
  /\ UNCHANGED heap

pthread_key_delete(key) ==
  /\ Is("keys")
  /\ Returns(IF key \in obj.live THEN 0 ELSE EINVAL)
  /\ obj' = [obj EXCEPT !.live = @ \ {key}, !.set = @ \ {key}]
  /\ UNCHANGED heap

pthread_setspecific(key) ==
  /\ Is("keys")
  /\ Returns(IF key \in obj.live THEN 0 ELSE EINVAL)
  /\ obj' = [obj EXCEPT !.set = IF key \in obj.live THEN @ \cup {key} ELSE @]
  /\ UNCHANGED heap

-----------------------------------------------------------------------------
(* pthread_mutexattr_t: NORMAL, RECURSIVE and ERRORCHECK are 0, 1 and 2, and *)
(* host_mutexattr hands each on as the host's of that name.                  *)
mutexattr_init ==
  /\ Is("none")
  /\ obj' = [kind |-> "mutexattr", type |-> 0] /\ Returns(0) /\ UNCHANGED heap

mutexattr_settype(type) ==
  /\ Is("mutexattr")
  /\ IF type \in 0 .. 2 THEN obj' = [obj EXCEPT !.type = type] /\ Returns(0)
     ELSE UNCHANGED obj /\ Own(EINVAL)
  /\ UNCHANGED heap

mutexattr_destroy == Is("mutexattr") /\ obj' = Nothing /\ Returns(0) /\ UNCHANGED heap

(* pthread_condattr_t: MONOTONIC unless another clock is set.  On macOS no  *)
(* host condition variable is told of it.                                   *)
condattr_init ==
  /\ Is("none")
  /\ obj' = [kind |-> "condattr", clock |-> 1] /\ Returns(0) /\ UNCHANGED heap

condattr_setclock(clock) ==
  /\ Is("condattr")
  /\ IF clock \in {0, 1} THEN obj' = [obj EXCEPT !.clock = clock] /\ Returns(0)
     ELSE UNCHANGED obj /\ Returns(EINVAL)
  /\ UNCHANGED heap

condattr_destroy == Is("condattr") /\ obj' = Nothing /\ Returns(0) /\ UNCHANGED heap

-----------------------------------------------------------------------------
(* Semaphores: Mach's, which the application's semaphore holds directly.    *)
(* With pshared an exception leaves sem_init.                               *)
ENOMEM == 12
sem_init(value, e) ==
  /\ Is("none") /\ e \in {0, EINVAL, ENOMEM}
  /\ UpdateOnlyCall(e)
  /\ OnSuccess(TRUE, e, [kind |-> "sem", value |-> value])
  /\ UNCHANGED heap

sem_destroy == Is("sem") /\ obj' = Nothing /\ Own(0) /\ UNCHANGED heap

(* sem_post and sem_wait return Mach's result; a wait that a signal breaks   *)
(* off returns KERN_ABORTED, not -1.                                         *)
KERN_ABORTED == 14
sem_post ==
  /\ Is("sem") /\ obj.value < 2
  /\ obj' = [obj EXCEPT !.value = @ + 1] /\ Own(0) /\ UNCHANGED heap

sem_wait ==
  /\ Is("sem")
  /\ \/ obj.value > 0 /\ obj' = [obj EXCEPT !.value = @ - 1] /\ Own(0)
     \/ UNCHANGED obj /\ Own(KERN_ABORTED)
  /\ UNCHANGED heap

(* The time left, in seconds and fractions, field by field: a deadline in a  *)
(* later second may have a smaller fraction than the clock.                  *)
Fraction == 2
TimeLeft(abs, now) ==
  IF abs > now THEN [sec |-> abs \div Fraction - now \div Fraction,
                     frac |-> (abs % Fraction) - (now % Fraction)]
  ELSE [sec |-> 0, frac |-> 0]

(* Mach rejects a negative fraction: sem_timedwait sets no error, updates   *)
(* errno and returns -1.  Otherwise it takes a unit, times out, or a signal *)
(* breaks it off.                                                           *)
ETIMEDOUT == 60
EINTR == 4
sem_timedwait(abs, now, e) ==
  /\ Is("sem")
  /\ IF TimeLeft(abs, now).frac < 0
     THEN UpdateOnlyCall(0) /\ UNCHANGED obj
     ELSE /\ e \in {ETIMEDOUT, EINTR} \/ (e = 0 /\ obj.value > 0)
          /\ UpdateOnlyCall(e)
          /\ OnSuccess(TRUE, e, [obj EXCEPT !.value = @ - 1])
  /\ UNCHANGED heap

ThreadNext ==
  \/ attr_init \/ attr_destroy \/ ThreadEnds \/ StartKeys \/ StopKeys
  \/ condattr_init \/ condattr_destroy \/ mutexattr_init \/ mutexattr_destroy
  \/ \E type \in -1 .. 3 : mutexattr_settype(type)
  \/ sem_destroy \/ sem_post \/ sem_wait
  \/ \E v \in 0 .. 2 : attr_setdetachstate(v) \/ condattr_setclock(v)
  \/ \E p \in Priorities : attr_setschedparam(p)
  \/ \E size \in StackSizes : attr_setstacksize(size)
  \/ \E p \in {"OTHER", "FIFO", "RR"} : HostSetsPolicy(p)
  \/ \E key \in HostKeys : pthread_key_delete(key) \/ pthread_setspecific(key)
  \/ \E e \in Results :
       \/ pthread_create(e) \/ getattr_np(e) \/ pthread_getschedparam(e)
       \/ \E p \in {"OTHER", "FIFO", "unknown"} : pthread_setschedparam(p, e)
       \/ \E n \in Priorities : SetsHostPolicy(n, e)
       \/ \E k \in HostKeys : pthread_key_create(k, e)
  \/ \E e \in {0, EINVAL, ENOMEM} : sem_init(1, e)
  \/ \E abs, now \in 0 .. 3, e \in {0, ETIMEDOUT, EINTR} : sem_timedwait(abs, now, e)
=============================================================================
