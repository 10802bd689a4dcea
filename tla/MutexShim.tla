----------------------------- MODULE MutexShim -----------------------------
(***************************************************************************)
(* pthread_mutex_lock, trylock and unlock (pthreads.cpp 333-346) over the  *)
(* lazily created host mutexes of StaticInit.  The host mutex is modelled  *)
(* from its POSIX description; the application keeps the POSIX rules that  *)
(* the shim relies on.                                                     *)
(***************************************************************************)
EXTENDS StaticInit

CONSTANTS NoThread,
          MaxDepth   \* the recursion limit of the host mutex

ASSUME MutexShimAssumption ==
  /\ NoThread \notin Threads
  /\ MaxDepth \in Nat \ {0}

VARIABLES
  owner,  \* the owner of each host mutex
  depth,  \* its count
  op,     \* the call each thread is in
  has,    \* how many of its lock calls on an object each thread has not undone
  ret     \* the result of each thread's last call

mutexVars == <<owner, depth, op, has, ret>>
allVars   == <<vars, mutexVars>>

Ops == {"lock", "trylock", "unlock"}

MInit ==
  /\ Init
  /\ owner = [a \in Addrs |-> NoThread]
  /\ depth = [a \in Addrs |-> 0]
  /\ op = [t \in Threads |-> "none"]
  /\ has = [t \in Threads |-> [o \in Mutexes |-> 0]]
  /\ ret = [t \in Threads |-> "0"]

(* The application relocks a normal mutex only with trylock, and unlocks one *)
(* only when it holds it; everything else is defined.                        *)
CallOp(t, o, f) ==
  /\ Call(t, {o})
  /\ asked[o] = "normal" => CASE f = "lock" -> has[t][o] = 0
                              [] f = "unlock" -> has[t][o] > 0
                              [] OTHER -> TRUE
  /\ op' = [op EXCEPT ![t] = f]
  /\ UNCHANGED <<owner, depth, has, ret>>

(* to_host; a creation that throws ends the call. *)
MToHost(t) ==
  /\ ToHostStep(t)
  /\ op' = [op EXCEPT ![t] = IF pc'[t] = "idle" THEN "none" ELSE @]
  /\ UNCHANGED <<owner, depth, has, ret>>

(* The host call has had its effect and the shim returns its result. *)
HostReturns(t, r) ==
  /\ Return(t)
  /\ op' = [op EXCEPT ![t] = "none"]
  /\ ret' = [ret EXCEPT ![t] = r]

(* t is about to make host call f on the host mutex of o. *)
AtHost(t, o, fs) == pc[t] = "host" /\ o \in args[t] /\ op[t] \in fs

Took(t, o) == has' = [has EXCEPT ![t][o] = @ + 1]

(* Host lock and trylock of a free mutex. *)
HostTake(t, o) ==
  LET a == res[t][o] IN
  /\ AtHost(t, o, {"lock", "trylock"})
  /\ owner[a] = NoThread
  /\ owner' = [owner EXCEPT ![a] = t]
  /\ depth' = [depth EXCEPT ![a] = 1]
  /\ Took(t, o)
  /\ HostReturns(t, "0")

(* Host lock and trylock of a recursive mutex by its owner. *)
HostRelock(t, o) ==
  LET a == res[t][o] IN
  /\ AtHost(t, o, {"lock", "trylock"})
  /\ owner[a] = t /\ heap[a] = "recursive"
  /\ \/ /\ depth[a] < MaxDepth
        /\ depth' = [depth EXCEPT ![a] = @ + 1]
        /\ Took(t, o)
        /\ HostReturns(t, "0")
     \/ /\ depth[a] = MaxDepth
        /\ HostReturns(t, "EAGAIN")
        /\ UNCHANGED <<depth, has>>
  /\ UNCHANGED owner

(* Host trylock of a mutex that cannot be taken. *)
HostBusy(t, o) ==
  LET a == res[t][o] IN
  /\ AtHost(t, o, {"trylock"})
  /\ owner[a] # NoThread
  /\ ~(owner[a] = t /\ heap[a] = "recursive")
  /\ HostReturns(t, "EBUSY")
  /\ UNCHANGED <<owner, depth, has>>

(* Host lock of an error-checking mutex by its owner. *)
HostDeadlock(t, o) ==
  LET a == res[t][o] IN
  /\ AtHost(t, o, {"lock"})
  /\ owner[a] = t /\ heap[a] = "errorcheck"
  /\ HostReturns(t, "EDEADLK")
  /\ UNCHANGED <<owner, depth, has>>

(* Host unlock: a normal mutex checks nothing. *)
HostUnlock(t, o) ==
  LET a == res[t][o] IN
  /\ AtHost(t, o, {"unlock"})
  /\ owner[a] = t \/ heap[a] = "normal"
  /\ depth' = [depth EXCEPT ![a] = IF @ > 1 THEN @ - 1 ELSE 0]
  /\ owner' = [owner EXCEPT ![a] = IF depth[a] > 1 THEN @ ELSE NoThread]
  /\ has' = [has EXCEPT ![t][o] = IF @ > 0 THEN @ - 1 ELSE 0]
  /\ HostReturns(t, "0")

(* Host unlock of a checked mutex by a thread that does not own it. *)
HostNotOwner(t, o) ==
  LET a == res[t][o] IN
  /\ AtHost(t, o, {"unlock"})
  /\ owner[a] # t /\ heap[a] # "normal"
  /\ HostReturns(t, "EPERM")
  /\ UNCHANGED <<owner, depth, has>>

HostStep(t) ==
  \E o \in Mutexes :
    \/ HostTake(t, o) \/ HostRelock(t, o) \/ HostBusy(t, o)
    \/ HostDeadlock(t, o) \/ HostUnlock(t, o) \/ HostNotOwner(t, o)

(* The application destroys a mutex only when nobody holds it. *)
MLife(t) ==
  /\ LifeStep(t)
  /\ \A o \in Mutexes : live[o] /\ ~live'[o] => \A s \in Threads : has[s][o] = 0
  /\ UNCHANGED mutexVars

MNext ==
  \/ ConstructStep /\ UNCHANGED mutexVars
  \/ \E t \in Threads :
       \/ \E o \in Mutexes, f \in Ops : CallOp(t, o, f)
       \/ MToHost(t)
       \/ HostStep(t)
       \/ MLife(t)

MSpec == MInit /\ [][MNext]_allVars

-----------------------------------------------------------------------------
(* What the application's calls leave in the host mutexes. *)
HostMutexOK ==
  /\ owner \in [Addrs -> Threads \cup {NoThread}]
  /\ depth \in [Addrs -> 0 .. MaxDepth]
  /\ has \in [Threads -> [Mutexes -> 0 .. MaxDepth]]

(* The type of every variable. *)
MTypeOK ==
  /\ TypeOK /\ HostMutexOK
  /\ op \in [Threads -> Ops \cup {"none"}]
  /\ ret \in [Threads -> {"0", "EBUSY", "EAGAIN", "EDEADLK", "EPERM"}]

(* Two threads never hold one bionic mutex, even when both were the first   *)
(* to use it and both created a host mutex for it.                          *)
MutualExclusion ==
  \A s, t \in Threads : \A o \in Mutexes :
    s # t /\ has[s][o] > 0 => has[t][o] = 0

Abstract == INSTANCE AbstractMutex WITH
  Objects <- Mutexes,
  live <- {o \in Mutexes : live[o]},
  kind <- [o \in Mutexes |-> IF live[o] THEN asked[o] ELSE "normal"],
  busy <- [t \in Threads |-> IF op[t] = "none" THEN {} ELSE args[t]]

(* The shim's mutexes are the mutexes of AbstractMutex: kinds and result     *)
(* codes included, each call takes effect once, in its host call.            *)
IsAMutex == Abstract!ASpec
=============================================================================
