----------------------------- MODULE RwLockShim -----------------------------
(***************************************************************************)
(* The rwlock functions of the symbol table (pthreads.cpp 582-588), host   *)
(* functions behind arg_rewrite, over the lazily created host rwlocks of   *)
(* StaticInit.  The host's part is modelled from its POSIX description.    *)
(***************************************************************************)
EXTENDS StaticInit, Integers

CONSTANT MaxReads  \* how deep the application nests its read locks

ASSUME RwLockAssumption == Mutexes = {} /\ MaxReads \in Nat \ {0}

VARIABLES
  holds,  \* how each thread holds each host rwlock: its read locks, or Writing
  op,     \* the call each thread is in
  mode,   \* how each thread holds each bionic rwlock, by its calls' results
  ret     \* the result of each thread's last call

rwVars  == <<holds, op, mode, ret>>
allVars == <<vars, rwVars>>

ReadOps  == {"rdlock", "tryrdlock"}
WriteOps == {"wrlock", "trywrlock"}
TryOps   == {"tryrdlock", "trywrlock"}
Ops      == ReadOps \cup WriteOps \cup {"unlock"}
Writing  == -1
Modes    == Nat \cup {Writing}

RInit ==
  /\ Init
  /\ holds = [a \in Addrs |-> [t \in Threads |-> 0]]
  /\ op = [t \in Threads |-> "none"]
  /\ mode = [t \in Threads |-> [o \in Objects |-> 0]]
  /\ ret = [t \in Threads |-> "0"]

(* The application does not wait for a write lock where it reads, which ends *)
(* nowhere, and unlocks only what it holds.                                  *)
CallOp(t, o, f) ==
  /\ Call(t, {o})
  /\ f \in ReadOps => mode[t][o] < MaxReads
  /\ f = "wrlock" => mode[t][o] \in {0, Writing}
  /\ f = "unlock" => mode[t][o] # 0
  /\ op' = [op EXCEPT ![t] = f]
  /\ UNCHANGED <<holds, mode, ret>>

(* bionic_ptr_rewriter::before: to_host; an exception ends the call. *)
RToHost(t) ==
  /\ ToHostStep(t)
  /\ op' = [op EXCEPT ![t] = IF pc'[t] = "idle" THEN "none" ELSE @]
  /\ UNCHANGED <<holds, mode, ret>>

AtHost(t, o, fs) == pc[t] = "host" /\ o \in args[t] /\ op[t] \in fs

HostReturns(t, o, k, r) ==
  /\ Return(t)
  /\ holds' = [holds EXCEPT ![res[t][o]][t] = k]
  /\ mode' = [mode EXCEPT ![t][o] = k]
  /\ op' = [op EXCEPT ![t] = "none"]
  /\ ret' = [ret EXCEPT ![t] = r]

NoWriter(a) == \A s \in Threads : holds[a][s] # Writing
NoHolder(a) == \A s \in Threads : holds[a][s] = 0

HostRead(t, o) ==
  /\ AtHost(t, o, ReadOps)
  /\ NoWriter(res[t][o])
  /\ HostReturns(t, o, holds[res[t][o]][t] + 1, "0")

HostWrite(t, o) ==
  /\ AtHost(t, o, WriteOps)
  /\ NoHolder(res[t][o])
  /\ HostReturns(t, o, Writing, "0")

HostBusy(t, o) ==
  /\ AtHost(t, o, TryOps)
  /\ IF op[t] = "tryrdlock" THEN ~NoWriter(res[t][o]) ELSE ~NoHolder(res[t][o])
  /\ HostReturns(t, o, holds[res[t][o]][t], "EBUSY")

(* A lock by the writer is the host's EDEADLK, 11 on macOS.  Nothing         *)
(* translates the results of these functions (the entries of the mutex       *)
(* functions do): bionic's 11 is EAGAIN, and that is what the caller reads.  *)
(* EBUSY is 16 on both systems.                                              *)
HostDeadlock(t, o) ==
  /\ AtHost(t, o, {"rdlock", "wrlock"})
  /\ holds[res[t][o]][t] = Writing
  /\ HostReturns(t, o, Writing, "EAGAIN")

HostUnlock(t, o) ==
  LET k == holds[res[t][o]][t] IN
  /\ AtHost(t, o, {"unlock"})
  /\ HostReturns(t, o, IF k > 0 THEN k - 1 ELSE 0, "0")

HostStep(t) ==
  \E o \in Objects :
    \/ HostRead(t, o) \/ HostWrite(t, o) \/ HostBusy(t, o)
    \/ HostDeadlock(t, o) \/ HostUnlock(t, o)

(* The application destroys an rwlock only when nobody holds it. *)
RLife(t) ==
  /\ LifeStep(t)
  /\ \A o \in Objects :
       live[o] /\ ~live'[o] => \A s \in Threads : mode[s][o] = 0
  /\ UNCHANGED rwVars

RNext ==
  \/ ConstructStep /\ UNCHANGED rwVars
  \/ \E t \in Threads :
       \/ \E o \in Objects, f \in Ops : CallOp(t, o, f)
       \/ RToHost(t)
       \/ HostStep(t)
       \/ RLife(t)

RSpec == RInit /\ [][RNext]_allVars

-----------------------------------------------------------------------------
(* A thread that write-locked a bionic rwlock is alone with it, even when   *)
(* the calls that locked it were the first to use it and raced to create    *)
(* its host rwlock; and what the threads believe is what the host rwlock    *)
(* behind the object says, so that an unlock never reaches another one.     *)
WriterIsAlone ==
  \A o \in Objects :
    /\ \A s, t \in Threads :
         mode[s][o] = Writing /\ s # t => mode[t][o] = 0
    /\ \A t \in Threads :
         mode[t][o] # 0 =>
           word[o] \in Addrs /\ holds[word[o]][t] = mode[t][o]

Abstract == INSTANCE AbstractRwLock WITH
  live <- {o \in Objects : live[o]},
  busy <- [t \in Threads |-> IF op[t] = "none" THEN {} ELSE args[t]]

(* The shim's rwlocks are the rwlocks of AbstractRwLock: each call takes    *)
(* effect once, in its host call, nested read locks need as many unlocks,   *)
(* and a try, or a lock, fails only when the rwlock the application means   *)
(* is taken, or is the caller's own to write.                               *)
IsARwLock == Abstract!ASpec
=============================================================================
