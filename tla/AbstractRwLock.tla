--------------------------- MODULE AbstractRwLock ---------------------------
(***************************************************************************)
(* What the rwlock functions of the symbol table promise: a bionic rwlock  *)
(* is one lock, shared by readers or held by one writer, whoever uses it   *)
(* first.  A thread may nest its read locks.  Each call takes effect in    *)
(* one step.                                                               *)
(***************************************************************************)
EXTENDS Integers

CONSTANTS Threads, Objects

VARIABLES live,  \* the rwlocks that exist
          mode,  \* how each thread holds each rwlock: its read locks, or Writing
          busy,  \* the rwlock each thread is in a call on, as a set
          op,    \* that call
          ret    \* the result of each thread's last call

avars == <<live, mode, busy, op, ret>>

ReadOps  == {"rdlock", "tryrdlock"}
WriteOps == {"wrlock", "trywrlock"}
Ops      == ReadOps \cup WriteOps \cup {"unlock"}

Writing    == -1
Written(o) == \E t \in Threads : mode[t][o] = Writing
Free(o)    == \A t \in Threads : mode[t][o] = 0

AInit ==
  /\ live = {}
  /\ mode = [t \in Threads |-> [o \in Objects |-> 0]]
  /\ busy = [t \in Threads |-> {}]
  /\ op = [t \in Threads |-> "none"]
  /\ ret = [t \in Threads |-> "0"]

Make(o) ==
  /\ o \notin live
  /\ live' = live \cup {o}
  /\ UNCHANGED <<mode, busy, op, ret>>

(* Only an rwlock nobody holds or uses is destroyed. *)
Destroy(o) ==
  /\ o \in live /\ Free(o)
  /\ \A t \in Threads : o \notin busy[t]
  /\ live' = live \ {o}
  /\ UNCHANGED <<mode, busy, op, ret>>

Begin(t, o, f) ==
  /\ busy[t] = {}
  /\ o \in live
  /\ busy' = [busy EXCEPT ![t] = {o}]
  /\ op' = [op EXCEPT ![t] = f]
  /\ UNCHANGED <<live, mode, ret>>

End(t, held, r) ==
  /\ mode' = held
  /\ ret' = [ret EXCEPT ![t] = r]
  /\ busy' = [busy EXCEPT ![t] = {}]
  /\ op' = [op EXCEPT ![t] = "none"]
  /\ UNCHANGED live

(* Readers share the lock, *)
Read(t, o) ==
  /\ op[t] \in ReadOps /\ ~Written(o)
  /\ End(t, [mode EXCEPT ![t][o] = @ + 1], "0")

(* a writer has it alone. *)
Write(t, o) ==
  /\ op[t] \in WriteOps /\ Free(o)
  /\ End(t, [mode EXCEPT ![t][o] = Writing], "0")

(* A try does not wait, and fails only if the lock is really taken. *)
Busy(t, o) ==
  /\ \/ op[t] = "tryrdlock" /\ Written(o)
     \/ op[t] = "trywrlock" /\ ~Free(o)
  /\ End(t, mode, "EBUSY")

(* The writer's own lock is refused. *)
Refused(t, o) ==
  /\ op[t] \in {"rdlock", "wrlock"} /\ mode[t][o] = Writing
  /\ End(t, mode, "EAGAIN")

Unlock(t, o) ==
  /\ op[t] = "unlock" /\ mode[t][o] # 0
  /\ End(t, [mode EXCEPT ![t][o] = IF @ > 0 THEN @ - 1 ELSE 0], "0")

(* A call ended by an exception changes nothing. *)
Throws(t) ==
  /\ busy[t] # {}
  /\ End(t, mode, ret[t])

ANext ==
  \/ \E o \in Objects : Make(o) \/ Destroy(o)
  \/ \E t \in Threads :
       \/ \E o \in Objects, f \in Ops : Begin(t, o, f)
       \/ \E o \in busy[t] :
            Read(t, o) \/ Write(t, o) \/ Busy(t, o) \/ Refused(t, o) \/ Unlock(t, o)
       \/ Throws(t)

ASpec == AInit /\ [][ANext]_avars
=============================================================================
