--------------------------- MODULE WaitLoop_proof ---------------------------
(***************************************************************************)
(* Mutexes and condition variables, whose host objects are created by a    *)
(* race of the first calls on them, for any threads, objects and addresses *)
(* and both word layouts.                                                  *)
(*                                                                         *)
(* A bionic mutex is one lock: the shim implements AbstractMutex.  Waiter  *)
(* and signaller meet on one host condition variable, and a wait gives the *)
(* mutex up only while it sleeps.                                          *)
(***************************************************************************)
EXTENDS WaitLoop, StaticInit_proof

(* The calls and results of the mutex functions, and of the functions of    *)
(* condition variables that use a mutex.                                    *)
AllOps  == Ops \cup {"none", "wait", "timedwait", "signal", "broadcast"}
Results == {"0", "EBUSY", "EAGAIN", "EDEADLK", "EPERM", "ETIMEDOUT"}

MTypes ==
  /\ HostMutexOK
  /\ op \in [Threads -> AllOps] /\ ret \in [Threads -> Results]

(* What the application holds is what the host mutex behind the word says,  *)
(* and a host mutex that is not behind a word is held by nobody.            *)
Owners ==
  /\ \A t \in Threads : \A o \in Mutexes :
       has[t][o] > 0 => /\ live[o] /\ word[o] \in Addrs
                        /\ owner[word[o]] = t /\ depth[word[o]] = has[t][o]
  /\ \A a \in Addrs :
       owner[a] # NoThread => \E o \in Mutexes : word[o] = a /\ has[owner[a]][o] > 0

(* A thread between its call and the host's; a normal mutex is unlocked by  *)
(* a thread that has it.                                                    *)
InOp ==
  \A t \in Threads :
    /\ op[t] # "none" => pc[t] \in Calling /\ args[t] # {}
    /\ \A o \in args[t] \cap Mutexes :
         op[t] = "unlock" /\ asked[o] = "normal" => has[t][o] > 0

MInv == IInv /\ MTypes /\ Owners /\ InOp

-----------------------------------------------------------------------------
LEMMA Names ==
  /\ Ops \subseteq AllOps /\ "none" \in AllOps
  /\ {"0", "EBUSY", "EAGAIN", "EDEADLK", "EPERM"} \subseteq Results
BY DEF Ops, AllOps, Results

LEMMA InitMInv == MInit => MInv
<1> SUFFICES ASSUME MInit PROVE MInv
  OBVIOUS
<1>1. IInv /\ TypeOK
  BY InitIInv DEF MInit, IInv
<1>2. MTypes
  BY <1>1, MutexShimAssumption DEF MInit, MTypes, HostMutexOK, AllOps, Results
<1>3. Owners /\ InOp
  BY <1>1 DEF MInit, Init, Owners, InOp, TypeOK
<1> QED BY <1>1, <1>2, <1>3 DEF MInv

(* The invariant of StaticInit is kept by every step of MutexShim. *)
LEMMA MNextIInv ==
  ASSUME IInv, MNext
  PROVE  IInv'
<1>1. ASSUME NEW t \in Threads, NEW o \in Mutexes, NEW f \in Ops, CallOp(t, o, f)
      PROVE  Next
  <2>1. {o} \in SUBSET Objects /\ Call(t, {o})
    BY <1>1, StaticInitAssumption DEF CallOp
  <2> QED BY <2>1 DEF Next
<1>2. ASSUME NEW t \in Threads, HostStep(t)
      PROVE  Return(t)
  BY <1>2 DEF HostStep, HostTake, HostRelock, HostBusy, HostDeadlock, HostUnlock,
     HostNotOwner, HostReturns
<1>3. Next
  BY <1>1, <1>2 DEF MNext, Next, MToHost, MLife
<1> QED BY <1>3, NextIInv

-----------------------------------------------------------------------------
(* Steps that leave the host mutexes alone. *)
LEMMA OwnersKept ==
  ASSUME MInv, Keeps, UNCHANGED <<owner, depth, has>>,
         \A o \in Mutexes : live[o] /\ ~live'[o] => \A s \in Threads : has[s][o] = 0,
         live' \in [Objects -> BOOLEAN]
  PROVE  Owners'
<1>1. ASSUME NEW s \in Threads, NEW o \in Mutexes, has[s][o] > 0
      PROVE  /\ live[o] /\ live'[o] /\ word[o] \in Addrs /\ word'[o] = word[o]
             /\ owner[word[o]] = s /\ depth[word[o]] = has[s][o]
  <2>1. live[o] /\ word[o] \in Addrs /\ owner[word[o]] = s /\ depth[word[o]] = has[s][o]
    BY <1>1 DEF MInv, Owners
  <2>2. live'[o]
    BY <1>1, <2>1
  <2> QED BY <2>1, <2>2, StaticInitAssumption DEF Keeps
<1>2. ASSUME NEW a \in Addrs, owner[a] # NoThread
      PROVE  \E o \in Mutexes : word'[o] = a /\ has[owner[a]][o] > 0
  <2>1. PICK o \in Mutexes : word[o] = a /\ has[owner[a]][o] > 0
    BY <1>2 DEF MInv, Owners
  <2>2. owner[a] \in Threads
    BY <1>2 DEF MInv, MTypes, HostMutexOK
  <2> QED BY <1>1, <2>1, <2>2
<1> QED BY <1>1, <1>2 DEF Owners

LEMMA ConstructMInv ==
  ASSUME MInv, ConstructStep, UNCHANGED mutexVars
  PROVE  MInv'
<1> PICK o \in Objects : \E k \in KindsOf(o) : Construct(o, k)
  BY DEF ConstructStep
<1> PICK k \in KindsOf(o) : Construct(o, k)
  OBVIOUS
<1>1. /\ IInv' /\ ~live[o] /\ live' = [live EXCEPT ![o] = TRUE]
      /\ asked' = [asked EXCEPT ![o] = k]
      /\ UNCHANGED <<pc, args>> /\ Keeps
  BY ConstructEffect, ConstructIInv DEF MInv
<1>2. MTypes'
  BY <1>1 DEF MInv, MTypes, HostMutexOK, mutexVars, IInv
<1>3. Owners'
  <2>1. live' \in [Objects -> BOOLEAN]
    BY <1>1 DEF IInv, TypeOK
  <2>2. \A q \in Mutexes : live[q] => live'[q]
    BY <1>1, StaticInitAssumption DEF MInv, IInv, TypeOK
  <2> QED BY <1>1, <2>1, <2>2, OwnersKept DEF mutexVars
<1>4. InOp'
  <2>1. \A t \in Threads : o \notin args[t]
    BY DEF Construct, InCall
  <2> QED BY <1>1, <2>1 DEF MInv, InOp, mutexVars, IInv, TypeOK
<1> QED BY <1>1, <1>2, <1>3, <1>4 DEF MInv

LEMMA CallOpMInv ==
  ASSUME MInv, NEW t \in Threads, NEW o \in Mutexes, NEW f \in Ops, CallOp(t, o, f)
  PROVE  MInv'
<1>1. /\ pc[t] = "idle" /\ live[o] /\ UNCHANGED <<shared, owner, depth, has, ret>>
      /\ pc' = [pc EXCEPT ![t] = "load"] /\ args' = [args EXCEPT ![t] = {o}]
      /\ op' = [op EXCEPT ![t] = f]
      /\ asked[o] = "normal" /\ f = "unlock" => has[t][o] > 0
  BY DEF CallOp, Call
<1>2. IInv'
  <2>1. {o} \in SUBSET Objects /\ Call(t, {o})
    BY StaticInitAssumption DEF CallOp
  <2> QED BY <2>1, CallIInv DEF MInv
<1>3. MTypes'
  BY <1>1, <1>2, Names DEF MInv, MTypes, HostMutexOK, IInv
<1>4. Owners'
  <2>1. Keeps /\ live' = live /\ live' \in [Objects -> BOOLEAN]
    BY <1>1, <1>2 DEF Keeps, shared, IInv, TypeOK
  <2> QED BY <1>1, <2>1, OwnersKept
<1>5. InOp'
  BY <1>1 DEF MInv, InOp, shared, IInv, TypeOK, MTypes, Calling
<1> QED BY <1>2, <1>3, <1>4, <1>5 DEF MInv

LEMMA MToHostMInv ==
  ASSUME MInv, NEW t \in Threads, MToHost(t)
  PROVE  MInv'
<1>1. /\ UNCHANGED <<live, asked>> /\ Keeps /\ OthersKeep(t) /\ pc[t] \in Calling
      /\ \/ pc'[t] \in Calling /\ args' = args
         \/ pc'[t] = "idle" /\ args' = [args EXCEPT ![t] = {}]
  BY ToHostEffect DEF MToHost, MInv
<1>2. /\ op' = [op EXCEPT ![t] = IF pc'[t] = "idle" THEN "none" ELSE @]
      /\ UNCHANGED <<owner, depth, has, ret>>
  BY DEF MToHost
<1>3. IInv'
  BY MNextIInv DEF MInv, MNext
<1>4. MTypes'
  BY <1>2, <1>3, Names DEF MInv, MTypes, HostMutexOK, IInv
<1>5. Owners'
  <2>1. live' \in [Objects -> BOOLEAN]
    BY <1>3 DEF IInv, TypeOK
  <2> QED BY <1>1, <1>2, <2>1, OwnersKept
<1>6. InOp'
  <2>1. ASSUME NEW s \in Threads, s # t
        PROVE  op'[s] = op[s] /\ pc'[s] = pc[s] /\ args'[s] = args[s]
    BY <1>1, <1>2, <2>1 DEF OthersKeep, MInv, MTypes
  <2>2. CASE pc'[t] = "idle"
    BY <1>1, <1>2, <2>1, <2>2 DEF MInv, InOp, IInv, TypeOK, MTypes
  <2>3. CASE pc'[t] # "idle"
    BY <1>1, <1>2, <2>1, <2>3 DEF MInv, InOp, IInv, TypeOK, MTypes
  <2> QED BY <2>2, <2>3
<1> QED BY <1>3, <1>4, <1>5, <1>6 DEF MInv

LEMMA MLifeMInv ==
  ASSUME MInv, NEW t \in Threads, MLife(t)
  PROVE  MInv'
<1>1. /\ Keeps /\ OthersKeep(t) /\ pc[t] \notin Calling /\ pc'[t] \notin Calling
      /\ UNCHANGED mutexVars
      /\ \A o \in Mutexes : live[o] /\ ~live'[o] => \A s \in Threads : has[s][o] = 0
  BY LifeEffect DEF MLife, MInv
<1>2. IInv'
  BY MNextIInv DEF MInv, MNext
<1>3. MTypes'
  BY <1>1, <1>2 DEF MInv, MTypes, HostMutexOK, mutexVars, IInv
<1>4. Owners'
  <2>1. live' \in [Objects -> BOOLEAN]
    BY <1>2 DEF IInv, TypeOK
  <2> QED BY <1>1, <2>1, OwnersKept DEF mutexVars
<1>5. InOp'
  <2>1. op' = op /\ has' = has /\ op[t] = "none"
    BY <1>1 DEF mutexVars, MInv, InOp
  <2>2. ASSUME NEW s \in Threads, s # t, NEW o \in args[s] \cap Mutexes,
               op[s] = "unlock", asked'[o] = "normal"
        PROVE  has[s][o] > 0
    <3>1. live[o] /\ live'[o]
      <4>1. pc[s] \in Calling /\ pc'[s] = pc[s] /\ args'[s] = args[s] /\ o \in args'[s]
        BY <1>1, <2>2 DEF MInv, InOp, OthersKeep
      <4> QED BY <1>2, <2>2, <4>1 DEF MInv, IInv, Discipline
    <3>2. asked'[o] = asked[o]
      BY <1>1, <3>1, StaticInitAssumption DEF Keeps
    <3> QED BY <2>2, <3>2 DEF MInv, InOp
  <2> QED BY <1>1, <2>1, <2>2 DEF MInv, InOp, OthersKeep
<1> QED BY <1>2, <1>3, <1>4, <1>5 DEF MInv

-----------------------------------------------------------------------------
(* The host mutex a call reaches is the one behind the word, of the kind the *)
(* application asked for.                                                    *)
LEMMA AtHostFinds ==
  ASSUME MInv, NEW t \in Threads, NEW o \in Mutexes, NEW fs, AtHost(t, o, fs)
  PROVE  /\ res[t][o] = word[o] /\ word[o] \in Addrs /\ live[o]
         /\ heap[word[o]] = asked[o] /\ asked[o] \in Kinds
         /\ op[t] \in fs /\ args[t] = args[t] \cup {o}
         /\ op[t] = "unlock" /\ asked[o] = "normal" => has[t][o] > 0
<1>1. pc[t] = "host" /\ o \in args[t] /\ op[t] \in fs /\ o \in Objects
  BY StaticInitAssumption DEF AtHost
<1>2. res[t][o] # NoAddr /\ res[t][o] \in Addrs /\ res[t][o] = word[o]
  BY <1>1 DEF MInv, IInv, Frames, CallersAgree, TypeOK
<1>3. live[o]
  BY <1>1 DEF MInv, IInv, Discipline, Calling
<1>4. heap[word[o]] = asked[o] /\ asked[o] \in Kinds
  BY <1>1, <1>2, <1>3 DEF MInv, IInv, KindHonoured, TypeOK
<1>5. op[t] = "unlock" /\ asked[o] = "normal" => has[t][o] > 0
  BY <1>1 DEF MInv, InOp
<1> QED BY <1>1, <1>2, <1>3, <1>4, <1>5

(* Everything but the host mutexes, after any host call. *)
LEMMA HostReturnsKeeps ==
  ASSUME MInv, NEW t \in Threads,
         NEW r \in Results, HostReturns(t, r),
         \A s \in Threads \ {t} : has'[s] = has[s]
  PROVE  /\ IInv' /\ InOp' /\ UNCHANGED shared
         /\ op' \in [Threads -> AllOps]
         /\ ret' \in [Threads -> Results]
<1>1. IInv'
  BY ReturnIInv DEF HostReturns, MInv
<1>2. /\ UNCHANGED shared /\ OthersKeep(t) /\ pc'[t] = "idle" /\ args'[t] = {}
      /\ op' = [op EXCEPT ![t] = "none"] /\ ret' = [ret EXCEPT ![t] = r]
  BY DEF HostReturns, Return, Leave, OthersKeep, MInv, IInv, TypeOK
<1>3. InOp'
  BY <1>2 DEF MInv, InOp, OthersKeep, MTypes, shared
<1> QED BY <1>1, <1>2, <1>3, Names DEF MInv, MTypes

(* A call by which t comes to hold o as often as the host mutex says. *)
LEMMA HostSetsOwner ==
  ASSUME MInv, NEW t \in Threads, NEW o \in Mutexes,
         NEW w \in {t, NoThread}, NEW n \in 0 .. MaxDepth,
         word[o] \in Addrs, live[o], UNCHANGED <<word, live>>,
         \A s \in Threads \ {t} : has[s][o] = 0,
         w = t <=> n > 0,
         owner' = [owner EXCEPT ![word[o]] = w],
         depth' = [depth EXCEPT ![word[o]] = n],
         has' = [has EXCEPT ![t][o] = n]
  PROVE  HostMutexOK' /\ Owners'
<1>1. /\ owner \in [Addrs -> Threads \cup {NoThread}]
      /\ depth \in [Addrs -> 0 .. MaxDepth]
      /\ has \in [Threads -> [Mutexes -> 0 .. MaxDepth]]
      /\ NoThread \notin Threads
  BY MutexShimAssumption DEF MInv, MTypes, HostMutexOK
<1>2. HostMutexOK'
  <2>1. owner' \in [Addrs -> Threads \cup {NoThread}] /\ depth' \in [Addrs -> 0 .. MaxDepth]
    BY <1>1
  <2>2. has' \in [Threads -> [Mutexes -> 0 .. MaxDepth]]
    BY <1>1
  <2> QED BY <2>1, <2>2 DEF HostMutexOK
<1>3. \A q \in Mutexes : q # o /\ word[q] \in Addrs => word[q] # word[o]
  BY StaticInitAssumption DEF MInv, IInv, NotShared
<1>4. /\ has'[t][o] = n /\ \A s \in Threads \ {t} : has'[s][o] = 0
      /\ \A s \in Threads : \A q \in Mutexes \ {o} : has'[s][q] = has[s][q]
  BY <1>1
<1>5. ASSUME NEW s \in Threads, NEW q \in Mutexes, has'[s][q] > 0
      PROVE  /\ live'[q] /\ word'[q] \in Addrs
             /\ owner'[word'[q]] = s /\ depth'[word'[q]] = has'[s][q]
  <2>1. CASE q = o
    BY <1>1, <1>4, <1>5, <2>1
  <2>2. CASE q # o
    <3>1. /\ live[q] /\ word[q] \in Addrs /\ has[s][q] = has'[s][q]
          /\ owner[word[q]] = s /\ depth[word[q]] = has[s][q]
      BY <1>4, <1>5, <2>2 DEF MInv, Owners
    <3> QED BY <1>1, <1>3, <2>2, <3>1
  <2> QED BY <2>1, <2>2
<1>6. ASSUME NEW a \in Addrs, owner'[a] # NoThread
      PROVE  \E q \in Mutexes : word'[q] = a /\ has'[owner'[a]][q] > 0
  <2>1. CASE a = word[o]
    BY <1>1, <1>4, <1>6, <2>1
  <2>2. CASE a # word[o]
    <3>1. owner'[a] = owner[a] /\ owner[a] \in Threads
      BY <1>1, <1>6, <2>2
    <3>2. PICK q \in Mutexes : word[q] = a /\ has[owner[a]][q] > 0
      BY <1>6, <3>1 DEF MInv, Owners
    <3> QED BY <1>4, <2>2, <3>1, <3>2
  <2> QED BY <2>1, <2>2
<1> QED BY <1>2, <1>5, <1>6 DEF Owners

(* Who owns the host mutex behind a word, in terms of what threads hold. *)
LEMMA OwnerHolds ==
  ASSUME MInv, NEW t \in Threads, NEW o \in Mutexes, word[o] \in Addrs
  PROVE  /\ owner[word[o]] = NoThread => \A s \in Threads : has[s][o] = 0
         /\ owner[word[o]] = t => /\ \A s \in Threads \ {t} : has[s][o] = 0
                                  /\ has[t][o] > 0 /\ has[t][o] = depth[word[o]]
         /\ owner[word[o]] \notin {t, NoThread} => \E s \in Threads \ {t} : has[s][o] > 0
         /\ owner[word[o]] # t => has[t][o] = 0
         /\ \A s \in Threads : has[s][o] \in 0 .. MaxDepth
<1>1. \A s \in Threads : has[s][o] \in 0 .. MaxDepth /\ (has[s][o] = 0 \/ has[s][o] > 0)
  BY DEF MInv, MTypes, HostMutexOK
<1>2. \A s \in Threads : has[s][o] > 0 => owner[word[o]] = s /\ depth[word[o]] = has[s][o]
  BY DEF MInv, Owners
<1>3. ASSUME owner[word[o]] # NoThread
      PROVE  owner[word[o]] \in Threads /\ has[owner[word[o]]][o] > 0
  <2>1. PICK q \in Mutexes : word[q] = word[o] /\ has[owner[word[o]]][q] > 0
    BY <1>3 DEF MInv, Owners
  <2>2. q = o
    BY <2>1, StaticInitAssumption DEF MInv, IInv, NotShared
  <2> QED BY <1>3, <2>1, <2>2 DEF MInv, MTypes, HostMutexOK
<1> QED BY <1>1, <1>2, <1>3, MutexShimAssumption

(* Each call of the host keeps the invariant. *)
LEMMA HostTakeMInv ==
  ASSUME MInv, NEW t \in Threads, NEW o \in Mutexes, HostTake(t, o)
  PROVE  MInv'
<1>1. /\ res[t][o] = word[o] /\ word[o] \in Addrs /\ live[o]
      /\ owner[word[o]] = NoThread /\ HostReturns(t, "0")
      /\ owner' = [owner EXCEPT ![word[o]] = t]
      /\ depth' = [depth EXCEPT ![word[o]] = 1]
      /\ has' = [has EXCEPT ![t][o] = has[t][o] + 1]
  <2>1. AtHost(t, o, {"lock", "trylock"})
    BY DEF HostTake
  <2>2. res[t][o] = word[o] /\ word[o] \in Addrs /\ live[o]
    BY <2>1, AtHostFinds
  <2> QED BY <2>2 DEF HostTake, Took
<1>2. \A s \in Threads : has[s][o] = 0
  BY <1>1, OwnerHolds
<1>3. /\ has' = [has EXCEPT ![t][o] = 1] /\ 1 \in 0 .. MaxDepth
      /\ t \in {t, NoThread} /\ (t = t <=> 1 > 0)
  <2>1. has[t][o] = 0 /\ has[t][o] + 1 = 1
    BY <1>2
  <2>2. has' = [has EXCEPT ![t][o] = 1]
    BY <1>1, <2>1
  <2> QED BY <2>2, MutexShimAssumption
<1>4. /\ IInv' /\ InOp' /\ UNCHANGED shared /\ op' \in [Threads -> AllOps]
      /\ ret' \in [Threads -> Results]
  <2>1. \A s \in Threads \ {t} : has'[s] = has[s]
    BY <1>1 DEF MInv, MTypes, HostMutexOK
  <2> QED BY <1>1, <2>1, HostReturnsKeeps, Names
<1>5. HostMutexOK' /\ Owners'
  <2>1. UNCHANGED <<word, live>> /\ \A s \in Threads \ {t} : has[s][o] = 0
    BY <1>2, <1>4 DEF shared
  <2> QED BY <1>1, <1>3, <2>1, HostSetsOwner
<1> QED BY <1>4, <1>5 DEF MInv, MTypes, IInv

LEMMA HostRelockMInv ==
  ASSUME MInv, NEW t \in Threads, NEW o \in Mutexes,
         AtHost(t, o, {"lock", "trylock"}), owner[res[t][o]] = t,
         depth[res[t][o]] < MaxDepth, UNCHANGED owner,
         depth' = [depth EXCEPT ![res[t][o]] = @ + 1], Took(t, o), HostReturns(t, "0")
  PROVE  MInv'
<1> DEFINE n == depth[word[o]] + 1
<1>1. /\ res[t][o] = word[o] /\ word[o] \in Addrs /\ live[o] /\ owner[word[o]] = t
  BY AtHostFinds
<1>2. /\ \A s \in Threads \ {t} : has[s][o] = 0
      /\ has[t][o] = depth[word[o]]
  BY <1>1, OwnerHolds
<1>3. n \in 0 .. MaxDepth /\ n > 0
  BY <1>1, MutexShimAssumption DEF MInv, MTypes, HostMutexOK
<1>4. /\ has' = [has EXCEPT ![t][o] = n] /\ depth' = [depth EXCEPT ![word[o]] = n]
      /\ owner' = [owner EXCEPT ![word[o]] = t]
  BY <1>1, <1>2 DEF Took, MInv, MTypes, HostMutexOK
<1>5. /\ IInv' /\ InOp' /\ UNCHANGED shared /\ op' \in [Threads -> AllOps]
      /\ ret' \in [Threads -> Results]
  <2>1. \A s \in Threads \ {t} : has'[s] = has[s]
    BY <1>4 DEF MInv, MTypes, HostMutexOK
  <2> QED BY <2>1, HostReturnsKeeps, Names
<1> HIDE DEF n
<1>6. HostMutexOK' /\ Owners'
  BY <1>1, <1>2, <1>3, <1>4, <1>5, HostSetsOwner DEF shared
<1> QED BY <1>5, <1>6 DEF MInv, MTypes, IInv

LEMMA HostUnlockMInv ==
  ASSUME MInv, NEW t \in Threads, NEW o \in Mutexes, HostUnlock(t, o)
  PROVE  MInv' /\ has[t][o] > 0 /\ has' = [has EXCEPT ![t][o] = has[t][o] - 1]
<1> DEFINE n == has[t][o] - 1
<1>1. /\ res[t][o] = word[o] /\ word[o] \in Addrs /\ live[o] /\ HostReturns(t, "0")
      /\ owner[word[o]] = t \/ asked[o] = "normal"
      /\ asked[o] = "normal" => has[t][o] > 0
  <2>1. AtHost(t, o, {"unlock"})
    BY DEF HostUnlock
  <2> QED BY <2>1, AtHostFinds DEF HostUnlock
<1>2. /\ \A s \in Threads \ {t} : has[s][o] = 0
      /\ has[t][o] > 0 /\ has[t][o] = depth[word[o]] /\ owner[word[o]] = t
      /\ has[t][o] \in 0 .. MaxDepth
  <2>1. has[t][o] \in 0 .. MaxDepth /\ (owner[word[o]] # t => has[t][o] = 0)
    BY <1>1, OwnerHolds
  <2>2. owner[word[o]] = t
    BY <1>1, <2>1, MutexShimAssumption
  <2>3. \A s \in Threads \ {t} : has[s][o] = 0
    BY <1>1, <2>2, OwnerHolds
  <2>4. has[t][o] > 0 /\ has[t][o] = depth[word[o]]
    BY <1>1, <2>2, OwnerHolds
  <2> QED BY <2>1, <2>2, <2>3, <2>4
<1>3. n \in 0 .. MaxDepth
  <2>1. has[t][o] \in 0 .. MaxDepth /\ has[t][o] > 0 /\ MaxDepth \in Nat
    BY <1>2, MutexShimAssumption
  <2> QED BY <2>1
<1>4. /\ has' = [has EXCEPT ![t][o] = n] /\ depth' = [depth EXCEPT ![word[o]] = n]
      /\ owner' = [owner EXCEPT ![word[o]] = IF n > 0 THEN t ELSE NoThread]
  <2>1. /\ depth' = [depth EXCEPT ![word[o]] = IF has[t][o] > 1 THEN has[t][o] - 1 ELSE 0]
        /\ owner' = [owner EXCEPT ![word[o]] = IF has[t][o] > 1 THEN t ELSE NoThread]
        /\ has' = [has EXCEPT ![t][o] = IF has[t][o] > 0 THEN has[t][o] - 1 ELSE 0]
    <3>1. /\ depth' = [depth EXCEPT ![res[t][o]] = IF @ > 1 THEN @ - 1 ELSE 0]
          /\ owner' = [owner EXCEPT ![res[t][o]] =
                         IF depth[res[t][o]] > 1 THEN @ ELSE NoThread]
          /\ has' = [has EXCEPT ![t][o] = IF @ > 0 THEN @ - 1 ELSE 0]
      BY DEF HostUnlock
    <3>2. res[t][o] = word[o] /\ depth[word[o]] = has[t][o] /\ owner[word[o]] = t
      BY <1>1, <1>2
    <3> QED BY <3>1, <3>2, Zenon
  <2>2. /\ (IF has[t][o] > 1 THEN has[t][o] - 1 ELSE 0) = n
        /\ (IF has[t][o] > 0 THEN has[t][o] - 1 ELSE 0) = n
        /\ has[t][o] > 1 <=> n > 0
    BY <1>2, MutexShimAssumption
  <2> HIDE DEF n
  <2> QED BY <2>1, <2>2
<1>5. /\ IInv' /\ InOp' /\ UNCHANGED shared /\ op' \in [Threads -> AllOps]
      /\ ret' \in [Threads -> Results]
  <2>1. \A s \in Threads \ {t} : has'[s] = has[s]
    BY <1>4 DEF MInv, MTypes, HostMutexOK
  <2> QED BY <1>1, <2>1, HostReturnsKeeps, Names
<1>6. HostMutexOK' /\ Owners'
  <2> DEFINE w == IF n > 0 THEN t ELSE NoThread
  <2>1. w \in {t, NoThread} /\ (w = t <=> n > 0)
    BY MutexShimAssumption
  <2> HIDE DEF n, w
  <2> QED BY <1>1, <1>2, <1>3, <1>4, <1>5, <2>1, HostSetsOwner DEF shared, w
<1> QED BY <1>2, <1>4, <1>5, <1>6 DEF MInv, MTypes, IInv

(* A call that only reports. *)
LEMMA HostReportsMInv ==
  ASSUME MInv, NEW t \in Threads, UNCHANGED <<owner, depth, has>>,
         NEW r \in {"0", "EBUSY", "EAGAIN", "EDEADLK", "EPERM"}, HostReturns(t, r)
  PROVE  MInv'
<1>1. /\ IInv' /\ InOp' /\ UNCHANGED shared /\ op' \in [Threads -> AllOps]
      /\ ret' \in [Threads -> Results]
  BY HostReturnsKeeps, Names
<1> QED BY <1>1 DEF MInv, MTypes, HostMutexOK, Owners, IInv, shared

LEMMA HostStepMInv ==
  ASSUME MInv, NEW t \in Threads, HostStep(t)
  PROVE  MInv'
<1> PICK o \in Mutexes :
      \/ HostTake(t, o) \/ HostRelock(t, o) \/ HostBusy(t, o)
      \/ HostDeadlock(t, o) \/ HostUnlock(t, o) \/ HostNotOwner(t, o)
  BY DEF HostStep
<1>1. CASE HostRelock(t, o)
  <2>1. CASE /\ depth[res[t][o]] < MaxDepth
             /\ depth' = [depth EXCEPT ![res[t][o]] = @ + 1]
             /\ Took(t, o) /\ HostReturns(t, "0")
    <3>1. AtHost(t, o, {"lock", "trylock"}) /\ owner[res[t][o]] = t /\ UNCHANGED owner
      BY <1>1 DEF HostRelock
    <3> QED BY <2>1, <3>1, HostRelockMInv
  <2>2. CASE HostReturns(t, "EAGAIN") /\ UNCHANGED <<depth, has>>
    BY <1>1, <2>2, HostReportsMInv DEF HostRelock
  <2> QED BY <1>1, <2>1, <2>2 DEF HostRelock
<1>2. CASE HostBusy(t, o)
  BY <1>2, HostReportsMInv DEF HostBusy
<1>3. CASE HostDeadlock(t, o)
  BY <1>3, HostReportsMInv DEF HostDeadlock
<1>4. CASE HostNotOwner(t, o)
  BY <1>4, HostReportsMInv DEF HostNotOwner
<1> QED BY <1>1, <1>2, <1>3, <1>4, HostTakeMInv, HostUnlockMInv

LEMMA NextMInv == MInv /\ [MNext]_allVars => MInv'
<1> SUFFICES ASSUME MInv, [MNext]_allVars PROVE MInv'
  OBVIOUS
<1>1. CASE UNCHANGED allVars
  <2>1. IInv'
    BY <1>1, NextIInv DEF MInv, allVars
  <2> QED BY <1>1, <2>1 DEF allVars, vars, shared, locals, mutexVars, MInv, MTypes,
       HostMutexOK, Owners, InOp, IInv
<1>2. CASE ConstructStep /\ UNCHANGED mutexVars
  BY <1>2, ConstructMInv
<1>3. ASSUME NEW t \in Threads,
             (\E o \in Mutexes, f \in Ops : CallOp(t, o, f)) \/ MToHost(t) \/ HostStep(t)
               \/ MLife(t)
      PROVE  MInv'
  BY <1>3, CallOpMInv, MToHostMInv, HostStepMInv, MLifeMInv
<1> QED BY <1>1, <1>2, <1>3 DEF MNext

THEOREM MutexInvariant == MSpec => []MInv
BY InitMInv, NextMInv, PTL DEF MSpec

(* Every variable of the mutex functions keeps its type: no count passes     *)
(* the host's limit.                                                         *)
THEOREM MutexTypeCorrect == MSpec => []MTypeOK
<1> DEFINE T == /\ op \in [Threads -> Ops \cup {"none"}]
                /\ ret \in [Threads -> {"0", "EBUSY", "EAGAIN", "EDEADLK", "EPERM"}]
<1>1. MInit => T
  BY DEF MInit
<1>2. T /\ [MNext]_allVars => T'
  <2> SUFFICES ASSUME T, [MNext]_allVars PROVE T'
    OBVIOUS
  <2>1. ASSUME NEW t \in Threads, NEW o \in Mutexes, NEW f \in Ops, CallOp(t, o, f)
        PROVE  T'
    BY <2>1 DEF CallOp
  <2>2. ASSUME NEW t \in Threads, MToHost(t) PROVE T'
    BY <2>2 DEF MToHost
  <2>3. ASSUME NEW t \in Threads,
               NEW r \in {"0", "EBUSY", "EAGAIN", "EDEADLK", "EPERM"}, HostReturns(t, r)
        PROVE  T'
    BY <2>3 DEF HostReturns
  <2>4. ASSUME NEW t \in Threads, HostStep(t) PROVE T'
    BY <2>3, <2>4 DEF HostStep, HostTake, HostRelock, HostBusy, HostDeadlock, HostUnlock,
       HostNotOwner
  <2>5. CASE UNCHANGED mutexVars
    BY <2>5 DEF mutexVars
  <2> QED BY <2>1, <2>2, <2>4, <2>5 DEF MNext, MLife, allVars
<1>3. MInv /\ T => MTypeOK
  BY DEF MInv, MTypes, IInv, MTypeOK
<1> QED BY <1>1, <1>2, <1>3, MutexInvariant, PTL DEF MSpec

(* Whatever threads race on the first use of a bionic mutex, at most one     *)
(* holds it at a time.                                                       *)
THEOREM MutexExcludes == MSpec => []MutualExclusion
<1>1. MInv => MutualExclusion
  BY DEF MInv, Owners, MutualExclusion, MTypes, HostMutexOK
<1> QED BY <1>1, MutexInvariant, PTL

-----------------------------------------------------------------------------
(* The refinement of AbstractMutex.  First, the values of its variables.     *)
liveBar == {o \in Mutexes : live[o]}
kindBar == [o \in Mutexes |-> IF live[o] THEN asked[o] ELSE "normal"]
busyBar == [t \in Threads |-> IF op[t] = "none" THEN {} ELSE args[t]]

LEMMA InitMaps == MInit => Abstract!AInit
BY StaticInitAssumption DEF MInit, Init, Abstract!AInit

(* An object that comes into use, or a step that the promise does not see. *)
LEMMA ConstructMaps ==
  ASSUME MInv, ConstructStep, UNCHANGED mutexVars
  PROVE  [Abstract!ANext]_(Abstract!avars)
<1> PICK o \in Objects : \E k \in KindsOf(o) : Construct(o, k)
  BY DEF ConstructStep
<1> PICK k \in KindsOf(o) : Construct(o, k)
  OBVIOUS
<1>1. /\ ~live[o] /\ live' = [live EXCEPT ![o] = TRUE]
      /\ asked' = [asked EXCEPT ![o] = k] /\ k \in Kinds /\ UNCHANGED <<pc, args>>
  BY ConstructEffect DEF MInv
<1>2. live \in [Objects -> BOOLEAN] /\ asked \in [Objects -> Kinds] /\ Mutexes \subseteq Objects
  BY StaticInitAssumption DEF MInv, IInv, TypeOK
<1>3. busyBar' = busyBar /\ UNCHANGED <<has, op, ret>>
  BY <1>1 DEF busyBar, mutexVars
<1>4. CASE o \in Mutexes
  <2>1. o \notin liveBar /\ liveBar' = liveBar \cup {o}
    BY <1>1, <1>2, <1>4 DEF liveBar
  <2>2. kindBar' = [kindBar EXCEPT ![o] = k]
    BY <1>1, <1>2, <1>4 DEF kindBar
  <2>3. Abstract!Make(o, k)
    BY <1>3, <2>1, <2>2 DEF Abstract!Make, liveBar, kindBar, busyBar
  <2> QED BY <1>1, <1>4, <2>3 DEF Abstract!ANext
<1>5. CASE o \notin Mutexes
  <2>1. liveBar' = liveBar /\ kindBar' = kindBar
    BY <1>1, <1>2, <1>5 DEF liveBar, kindBar
  <2> QED BY <1>3, <2>1 DEF Abstract!avars, liveBar, kindBar, busyBar
<1> QED BY <1>4, <1>5

(* An object is destroyed only when nobody is in a call on it. *)
LEMMA LifeMaps ==
  ASSUME MInv, NEW t \in Threads, MLife(t)
  PROVE  [Abstract!ANext]_(Abstract!avars)
<1>1. /\ Keeps /\ OthersKeep(t) /\ pc[t] \notin Calling /\ pc'[t] \notin Calling
      /\ \/ live' = live
         \/ \E o \in Objects : ~live[o] /\ live' = [live EXCEPT ![o] = TRUE]
         \/ \E o \in Objects : live[o] /\ ~InCall(o) /\ live' = [live EXCEPT ![o] = FALSE]
      /\ UNCHANGED mutexVars
      /\ \A o \in Mutexes : live[o] /\ ~live'[o] => \A s \in Threads : has[s][o] = 0
  BY LifeEffect DEF MLife, MInv
<1>2. /\ live \in [Objects -> BOOLEAN] /\ asked \in [Objects -> Kinds]
      /\ asked' \in [Objects -> Kinds] /\ Mutexes \subseteq Objects
  <2>1. IInv'
    BY MNextIInv DEF MInv, MNext
  <2> QED BY <2>1, StaticInitAssumption DEF MInv, IInv, TypeOK
<1>3. busyBar' = busyBar /\ UNCHANGED <<has, op, ret>>
  <2>1. op' = op /\ op[t] = "none"
    BY <1>1 DEF mutexVars, MInv, InOp
  <2> QED BY <1>1, <2>1 DEF busyBar, mutexVars, OthersKeep
<1>4. \A o \in Mutexes : live[o] /\ live'[o] => asked'[o] = asked[o]
  BY <1>1, <1>2 DEF Keeps
<1>5. CASE liveBar' = liveBar
  <2>1. \A o \in Mutexes : live'[o] <=> live[o]
    BY <1>5 DEF liveBar
  <2>2. kindBar' = kindBar
    BY <1>4, <2>1 DEF kindBar
  <2> QED BY <1>3, <1>5, <2>2 DEF Abstract!avars, liveBar, kindBar, busyBar
<1>6. CASE \E o \in Mutexes : ~live[o] /\ live' = [live EXCEPT ![o] = TRUE]
  <2> PICK o \in Mutexes : ~live[o] /\ live' = [live EXCEPT ![o] = TRUE]
    BY <1>6
  <2>1. o \notin liveBar /\ liveBar' = liveBar \cup {o}
    BY <1>2 DEF liveBar
  <2>2. PICK k \in Kinds : kindBar' = [kindBar EXCEPT ![o] = k]
    <3>1. kindBar' = [kindBar EXCEPT ![o] = asked'[o]] /\ asked'[o] \in Kinds
      BY <1>2, <1>4 DEF kindBar
    <3> QED BY <3>1
  <2>3. Abstract!Make(o, k)
    BY <1>3, <2>1, <2>2 DEF Abstract!Make, liveBar, kindBar, busyBar
  <2> QED BY <2>2, <2>3 DEF Abstract!ANext
<1>7. CASE \E o \in Mutexes : live[o] /\ ~InCall(o) /\ live' = [live EXCEPT ![o] = FALSE]
  <2> PICK o \in Mutexes : live[o] /\ ~InCall(o) /\ live' = [live EXCEPT ![o] = FALSE]
    BY <1>7
  <2>1. o \in liveBar /\ liveBar' = liveBar \ {o}
    BY <1>2 DEF liveBar
  <2>2. kindBar' = [kindBar EXCEPT ![o] = "normal"]
    BY <1>2, <1>4 DEF kindBar
  <2>3. \A s \in Threads : has[s][o] = 0 /\ o \notin busyBar[s]
    BY <1>1, <1>2 DEF busyBar, InCall
  <2>4. Abstract!Destroy(o)
    BY <1>3, <2>1, <2>2, <2>3 DEF Abstract!Destroy, liveBar, kindBar, busyBar
  <2> QED BY <2>4 DEF Abstract!ANext
<1>8. CASE \E o \in Objects \ Mutexes : live' = [live EXCEPT ![o] = TRUE]
                                        \/ live' = [live EXCEPT ![o] = FALSE]
  <2>1. \A q \in Mutexes : live'[q] = live[q]
    BY <1>2, <1>8
  <2> QED BY <1>5, <2>1 DEF liveBar
<1> QED BY <1>1, <1>5, <1>6, <1>7, <1>8 DEF liveBar

(* A call begins. *)
LEMMA CallOpMaps ==
  ASSUME MInv, NEW t \in Threads, NEW o \in Mutexes, NEW f \in Ops, CallOp(t, o, f)
  PROVE  Abstract!ANext
<1>1. /\ pc[t] = "idle" /\ live[o] /\ UNCHANGED <<live, asked, has, ret>>
      /\ args' = [args EXCEPT ![t] = {o}] /\ op' = [op EXCEPT ![t] = f]
  BY DEF CallOp, Call, shared
<1>2. args[t] = {} /\ f # "none"
  BY <1>1 DEF MInv, IInv, Frames, Ops
<1>3. o \in liveBar /\ liveBar' = liveBar /\ kindBar' = kindBar
  BY <1>1 DEF liveBar, kindBar
<1>4. busyBar[t] = {} /\ busyBar' = [busyBar EXCEPT ![t] = {o}]
  BY <1>1, <1>2 DEF busyBar, MInv, IInv, TypeOK, MTypes
<1>5. Abstract!Begin(t, o, f)
  BY <1>1, <1>3, <1>4 DEF Abstract!Begin, liveBar, kindBar, busyBar
<1> QED BY <1>5 DEF Abstract!ANext, Abstract!Ops, Ops

(* to_host: nothing happens, or an exception ends the call. *)
LEMMA ToHostMaps ==
  ASSUME MInv, NEW t \in Threads, MToHost(t)
  PROVE  [Abstract!ANext]_(Abstract!avars)
<1>1. /\ UNCHANGED <<live, asked>> /\ pc[t] \in Calling
      /\ \/ pc'[t] \in Calling /\ args' = args
         \/ pc'[t] = "idle" /\ args' = [args EXCEPT ![t] = {}]
  BY ToHostEffect DEF MToHost, MInv
<1>2. /\ op' = [op EXCEPT ![t] = IF pc'[t] = "idle" THEN "none" ELSE @]
      /\ UNCHANGED <<has, ret>>
  BY DEF MToHost
<1>3. liveBar' = liveBar /\ kindBar' = kindBar
  BY <1>1 DEF liveBar, kindBar
<1>4. CASE pc'[t] = "idle"
  <2>1. op' = [op EXCEPT ![t] = "none"] /\ args' = [args EXCEPT ![t] = {}]
    BY <1>1, <1>2, <1>4 DEF Calling, Creating
  <2>2. busyBar' = [busyBar EXCEPT ![t] = {}]
    BY <2>1 DEF busyBar, MInv, IInv, TypeOK, MTypes
  <2>3. ret' = [ret EXCEPT ![t] = ret[t]]
    BY <1>2 DEF MInv, MTypes
  <2>4. CASE busyBar[t] # {}
    <3>1. Abstract!Throws(t)
      BY <1>2, <1>3, <2>1, <2>2, <2>3, <2>4
         DEF Abstract!Throws, Abstract!End, liveBar, kindBar, busyBar
    <3> QED BY <3>1 DEF Abstract!ANext
  <2>5. CASE busyBar[t] = {} /\ op[t] = "none"
    <3>1. op' = op /\ busyBar' = busyBar
      BY <2>1, <2>2, <2>5 DEF busyBar, MInv, MTypes
    <3> QED BY <1>2, <1>3, <3>1 DEF Abstract!avars, liveBar, kindBar, busyBar
  <2>6. op[t] = "none" \/ args[t] # {}
    BY <1>1 DEF MInv, InOp
  <2> QED BY <2>4, <2>5, <2>6 DEF busyBar
<1>5. CASE pc'[t] # "idle"
  <2>1. op' = op /\ args' = args
    BY <1>1, <1>2, <1>5 DEF MInv, MTypes
  <2> QED BY <1>2, <1>3, <2>1 DEF Abstract!avars, liveBar, kindBar, busyBar
<1> QED BY <1>4, <1>5

(* A host call: the call ends with what it did to the counts and a result.  *)
LEMMA HostMaps ==
  ASSUME MInv, NEW t \in Threads, HostStep(t)
  PROVE  Abstract!ANext
<1> PICK o \in Mutexes :
      \/ HostTake(t, o) \/ HostRelock(t, o) \/ HostBusy(t, o)
      \/ HostDeadlock(t, o) \/ HostUnlock(t, o) \/ HostNotOwner(t, o)
  BY DEF HostStep
<1> DEFINE a == word[o]
<1>1. PICK fs \in SUBSET Ops : AtHost(t, o, fs)
  <2>1. {"lock", "trylock"} \in SUBSET Ops /\ {"lock"} \in SUBSET Ops
        /\ {"trylock"} \in SUBSET Ops /\ {"unlock"} \in SUBSET Ops
    BY DEF Ops
  <2> QED BY <2>1 DEF HostTake, HostRelock, HostBusy, HostDeadlock, HostUnlock, HostNotOwner
<1>2. /\ res[t][o] = a /\ a \in Addrs /\ live[o] /\ heap[a] = asked[o] /\ o \in args[t]
      /\ op[t] # "none" /\ pc[t] = "host"
  BY <1>1, AtHostFinds DEF AtHost, Ops
<1>3. kindBar[o] = asked[o] /\ busyBar[t] = args[t] /\ o \in busyBar[t]
  BY <1>2 DEF kindBar, busyBar
<1>4. /\ owner[a] = NoThread => \A s \in Threads : has[s][o] = 0
      /\ owner[a] = t => /\ \A s \in Threads \ {t} : has[s][o] = 0
                         /\ has[t][o] > 0 /\ has[t][o] = depth[a]
      /\ owner[a] \notin {t, NoThread} => \E s \in Threads \ {t} : has[s][o] > 0
      /\ owner[a] # t => has[t][o] = 0
      /\ \A s \in Threads : has[s][o] \in 0 .. MaxDepth
  BY <1>2, OwnerHolds
<1>5. ASSUME NEW h, has' = h, NEW r, HostReturns(t, r)
      PROVE  Abstract!End(t, h, r)
  <2>1. /\ UNCHANGED shared /\ op' = [op EXCEPT ![t] = "none"]
        /\ ret' = [ret EXCEPT ![t] = r] /\ args' = [args EXCEPT ![t] = {}]
    BY <1>5 DEF HostReturns, Return, Leave
  <2>2. liveBar' = liveBar /\ kindBar' = kindBar
    BY <2>1 DEF liveBar, kindBar, shared
  <2>3. busyBar' = [busyBar EXCEPT ![t] = {}]
    BY <2>1 DEF busyBar, MInv, IInv, TypeOK, MTypes
  <2> QED BY <1>5, <2>1, <2>2, <2>3 DEF Abstract!End, liveBar, kindBar, busyBar
<1> HIDE DEF a
<1>6. CASE HostTake(t, o)
  <2>1. /\ owner[a] = NoThread /\ op[t] \in {"lock", "trylock"} /\ HostReturns(t, "0")
        /\ has' = [has EXCEPT ![t][o] = @ + 1]
    BY <1>2, <1>6 DEF HostTake, AtHost, Took
  <2>2. Abstract!End(t, [has EXCEPT ![t][o] = @ + 1], "0")
    BY <1>5, <2>1
  <2>3. Abstract!Take(t, o)
    BY <1>4, <2>1, <2>2 DEF Abstract!Take, Abstract!FreeFor
  <2> QED BY <1>3, <2>3 DEF Abstract!ANext, busyBar
<1>7. CASE HostRelock(t, o)
  <2>1. /\ owner[a] = t /\ op[t] \in {"lock", "trylock"} /\ asked[o] = "recursive"
        /\ \/ /\ depth[a] < MaxDepth /\ HostReturns(t, "0")
              /\ has' = [has EXCEPT ![t][o] = @ + 1]
           \/ depth[a] = MaxDepth /\ HostReturns(t, "EAGAIN") /\ has' = has
    BY <1>2, <1>7 DEF HostRelock, AtHost, Took
  <2>2. CASE /\ depth[a] < MaxDepth /\ HostReturns(t, "0")
             /\ has' = [has EXCEPT ![t][o] = @ + 1]
    <3>1. Abstract!End(t, [has EXCEPT ![t][o] = @ + 1], "0")
      BY <1>5, <2>2
    <3>2. Abstract!Take(t, o)
      BY <1>3, <1>4, <2>1, <2>2, <3>1 DEF Abstract!Take, Abstract!FreeFor, kindBar
    <3> QED BY <1>3, <3>2 DEF Abstract!ANext, busyBar
  <2>3. CASE depth[a] = MaxDepth /\ HostReturns(t, "EAGAIN") /\ has' = has
    <3>1. Abstract!End(t, has, "EAGAIN")
      BY <1>5, <2>3
    <3>2. Abstract!Again(t, o)
      BY <1>3, <1>4, <2>1, <2>3, <3>1 DEF Abstract!Again, kindBar
    <3> QED BY <1>3, <3>2 DEF Abstract!ANext, busyBar
  <2> QED BY <2>1, <2>2, <2>3
<1>8. CASE HostBusy(t, o)
  <2>1. /\ owner[a] # NoThread /\ op[t] = "trylock" /\ HostReturns(t, "EBUSY") /\ has' = has
        /\ owner[a] # t \/ asked[o] # "recursive"
    BY <1>2, <1>8 DEF HostBusy, AtHost
  <2>2. Abstract!End(t, has, "EBUSY")
    BY <1>5, <2>1
  <2>3. (\E s \in Threads \ {t} : has[s][o] > 0) \/ (has[t][o] > 0 /\ asked[o] # "recursive")
    BY <1>4, <2>1
  <2>4. Abstract!Busy(t, o)
    BY <1>3, <2>1, <2>2, <2>3 DEF Abstract!Busy, Abstract!FreeFor, kindBar
  <2> QED BY <1>3, <2>4 DEF Abstract!ANext, busyBar
<1>9. CASE HostDeadlock(t, o)
  <2>1. /\ owner[a] = t /\ op[t] = "lock" /\ HostReturns(t, "EDEADLK") /\ has' = has
        /\ asked[o] = "errorcheck"
    BY <1>2, <1>9 DEF HostDeadlock, AtHost
  <2>2. Abstract!End(t, has, "EDEADLK")
    BY <1>5, <2>1
  <2>3. Abstract!Deadlock(t, o)
    BY <1>3, <1>4, <2>1, <2>2 DEF Abstract!Deadlock, kindBar
  <2> QED BY <1>3, <2>3 DEF Abstract!ANext, busyBar
<1>10. CASE HostUnlock(t, o)
  <2>1. has[t][o] > 0 /\ has' = [has EXCEPT ![t][o] = has[t][o] - 1]
    BY <1>10, HostUnlockMInv
  <2>2. op[t] = "unlock" /\ HostReturns(t, "0")
    BY <1>10 DEF HostUnlock, AtHost
  <2>3. Abstract!End(t, [has EXCEPT ![t][o] = @ - 1], "0")
    BY <1>5, <2>1, <2>2
  <2>4. Abstract!Release(t, o)
    BY <2>1, <2>2, <2>3 DEF Abstract!Release
  <2> QED BY <1>3, <2>4 DEF Abstract!ANext, busyBar
<1>11. CASE HostNotOwner(t, o)
  <2>1. /\ owner[a] # t /\ op[t] = "unlock" /\ HostReturns(t, "EPERM") /\ has' = has
        /\ asked[o] # "normal"
    BY <1>2, <1>11 DEF HostNotOwner, AtHost
  <2>2. Abstract!End(t, has, "EPERM")
    BY <1>5, <2>1
  <2>3. Abstract!NotOwner(t, o)
    BY <1>3, <1>4, <2>1, <2>2 DEF Abstract!NotOwner, kindBar
  <2> QED BY <1>3, <2>3 DEF Abstract!ANext, busyBar
<1> QED BY <1>6, <1>7, <1>8, <1>9, <1>10, <1>11

LEMMA NextMaps == MInv /\ [MNext]_allVars => [Abstract!ANext]_(Abstract!avars)
<1> SUFFICES ASSUME MInv, [MNext]_allVars PROVE [Abstract!ANext]_(Abstract!avars)
  OBVIOUS
<1>1. CASE UNCHANGED allVars
  BY <1>1 DEF allVars, vars, shared, locals, mutexVars, Abstract!avars
<1>2. CASE ConstructStep /\ UNCHANGED mutexVars
  BY <1>2, ConstructMaps
<1>3. ASSUME NEW t \in Threads,
             (\E o \in Mutexes, f \in Ops : CallOp(t, o, f)) \/ MToHost(t) \/ HostStep(t)
               \/ MLife(t)
      PROVE  [Abstract!ANext]_(Abstract!avars)
  BY <1>3, CallOpMaps, ToHostMaps, HostMaps, LifeMaps
<1> QED BY <1>1, <1>2, <1>3 DEF MNext

(* The shim's mutexes are AbstractMutex: every call has one effect, that of  *)
(* a lock of the kind asked for, with its result code.                       *)
THEOREM ShimIsAMutex == MSpec => IsAMutex
BY InitMaps, NextMaps, MutexInvariant, PTL DEF MSpec, IsAMutex, Abstract!ASpec

-----------------------------------------------------------------------------
(* A thread asleep or awakened is in the host's wait, with the mutex given   *)
(* up; a signal is on one condition variable, a wait on a mutex too.         *)
WaitOK(t) ==
  /\ wait[t] # "no" => pc[t] = "host" /\ op[t] \in WaitOps
  /\ op[t] \in WakeOps => \E d \in Conds : args[t] = {d}
  /\ op[t] \in WaitOps =>
       \E d \in Conds : \E q \in Mutexes :
         args[t] = {d, q} /\ has[t][q] = IF wait[t] = "no" THEN 1 ELSE 0

Waits ==
  /\ wait \in [Threads -> {"no", "asleep", "awake"}]
  /\ \A t \in Threads : WaitOK(t)

WInv == MInv /\ Waits

LEMMA TheOps ==
  /\ WaitOps \subseteq AllOps /\ WakeOps \subseteq AllOps
  /\ WaitOps \cap WakeOps = {} /\ Ops \cap (WaitOps \cup WakeOps) = {}
  /\ "unlock" \notin WaitOps \cup WakeOps /\ "none" \notin WaitOps \cup WakeOps
  /\ Mutexes \subseteq Objects /\ Conds \subseteq Objects /\ Conds \cap Mutexes = {}
BY StaticInitAssumption DEF Conds, WaitOps, WakeOps, AllOps, Ops

LEMMA InitWInv == CInit => WInv
<1> SUFFICES ASSUME CInit PROVE WInv
  OBVIOUS
<1>1. MInv
  BY InitMInv DEF CInit
<1>2. op = [t \in Threads |-> "none"] /\ wait = [t \in Threads |-> "no"]
  BY DEF CInit, MInit
<1> QED BY <1>1, <1>2, TheOps DEF WInv, Waits, WaitOK

LEMMA Locals ==
  ASSUME MInv
  PROVE  /\ pc \in [Threads -> PC] /\ args \in [Threads -> SUBSET Objects]
         /\ op \in [Threads -> AllOps]
BY DEF MInv, MTypes, IInv, TypeOK

(* The other threads, in any step of thread t. *)
OthersWait(t) ==
  \A s \in Threads \ {t} :
    /\ pc'[s] = pc[s] /\ args'[s] = args[s] /\ op'[s] = op[s]
    /\ has'[s] = has[s]
    /\ \/ wait'[s] = wait[s]
       \/ wait[s] # "no" /\ wait'[s] # "no"

LEMMA WaitsKept ==
  ASSUME WInv, NEW t \in Threads, OthersWait(t),
         wait' \in [Threads -> {"no", "asleep", "awake"}], WaitOK(t)'
  PROVE  Waits'
<1>1. ASSUME NEW s \in Threads \ {t}
      PROVE  WaitOK(s)'
  <2>1. WaitOK(s)
    BY DEF WInv, Waits
  <2>2. /\ pc'[s] = pc[s] /\ args'[s] = args[s] /\ op'[s] = op[s] /\ has'[s] = has[s]
        /\ wait'[s] = "no" <=> wait[s] = "no"
    BY DEF OthersWait
  <2> QED BY <2>1, <2>2 DEF WaitOK
<1> QED BY <1>1 DEF Waits

-----------------------------------------------------------------------------
(* The application stores an initializer, or initializes or destroys an      *)
(* object; no call is on it.                                                 *)
LEMMA LifeWInv ==
  ASSUME WInv, UNCHANGED wait,
         \/ ConstructStep /\ UNCHANGED mutexVars
         \/ \E t \in Threads : MLife(t)
  PROVE  WInv'
<1>1. MInv'
  BY ConstructMInv, MLifeMInv DEF WInv
<1>2. CASE ConstructStep /\ UNCHANGED mutexVars
  <2>1. UNCHANGED <<pc, args, op, has, wait>>
    BY <1>2 DEF ConstructStep, Construct, locals, mutexVars
  <2> QED BY <1>1, <2>1 DEF WInv, Waits, WaitOK
<1>3. ASSUME NEW t \in Threads, MLife(t)
      PROVE  Waits'
  <2>1. OthersKeep(t) /\ pc[t] \notin Calling /\ UNCHANGED mutexVars
    BY <1>3, LifeEffect DEF MLife, WInv, MInv
  <2>2. op[t] = "none" /\ UNCHANGED <<op, has, wait>>
    BY <2>1 DEF WInv, MInv, InOp, mutexVars
  <2>3. OthersWait(t)
    BY <2>1, <2>2 DEF OthersWait, OthersKeep
  <2>4. wait[t] = "no" /\ wait \in [Threads -> {"no", "asleep", "awake"}]
    BY <2>2, TheOps DEF WInv, Waits, WaitOK
  <2>5. WaitOK(t)'
    BY <2>2, <2>4, TheOps DEF WaitOK
  <2> QED BY <2>2, <2>3, <2>4, <2>5, WaitsKept
<1> QED BY <1>1, <1>2, <1>3 DEF WInv

(* It begins a call on a mutex, *)
LEMMA CallOpWInv ==
  ASSUME WInv, NEW t \in Threads, NEW q \in Mutexes, NEW f \in Ops, CallOp(t, q, f),
         UNCHANGED wait
  PROVE  WInv'
<1>1. MInv'
  BY CallOpMInv DEF WInv
<1>2. /\ pc[t] = "idle" /\ OthersWait(t) /\ op'[t] = f
  <2>1. /\ pc[t] = "idle" /\ pc' = [pc EXCEPT ![t] = "load"]
        /\ args' = [args EXCEPT ![t] = {q}] /\ op' = [op EXCEPT ![t] = f]
        /\ has' = has /\ wait' = wait
    BY DEF CallOp, Call
  <2> QED BY <2>1, Locals DEF OthersWait, WInv
<1>3. wait[t] = "no" /\ wait \in [Threads -> {"no", "asleep", "awake"}]
  BY <1>2 DEF WInv, Waits, WaitOK
<1>4. WaitOK(t)'
  BY <1>2, <1>3, TheOps DEF WaitOK
<1>5. Waits'
  BY <1>2, <1>3, <1>4, WaitsKept
<1> QED BY <1>1, <1>5 DEF WInv

(* or on a condition variable. *)
LEMMA CallMInv ==
  ASSUME MInv, NEW t \in Threads, NEW S \in SUBSET Objects, Call(t, S),
         NEW f \in AllOps \ {"unlock"}, op' = [op EXCEPT ![t] = f],
         UNCHANGED <<owner, depth, has, ret>>
  PROVE  MInv'
<1>1. /\ IInv' /\ pc[t] = "idle" /\ UNCHANGED shared /\ S # {}
      /\ pc' = [pc EXCEPT ![t] = "load"] /\ args' = [args EXCEPT ![t] = S]
  BY CallIInv DEF Call, MInv
<1>2. MTypes'
  BY DEF MInv, MTypes, HostMutexOK
<1>3. Owners'
  BY <1>1 DEF MInv, Owners, shared
<1>4. InOp'
  BY <1>1 DEF MInv, InOp, shared, IInv, TypeOK, MTypes, Calling
<1> QED BY <1>1, <1>2, <1>3, <1>4 DEF MInv

LEMMA CallCondWInv ==
  ASSUME WInv, NEW t \in Threads, NEW f \in WaitOps \cup WakeOps,
         NEW S \in SUBSET Objects, Call(t, S), op' = [op EXCEPT ![t] = f],
         UNCHANGED <<owner, depth, has, ret, wait>>,
         f \in WakeOps => \E d \in Conds : S = {d},
         f \in WaitOps => \E d \in Conds : \E q \in Mutexes : S = {d, q} /\ has[t][q] = 1
  PROVE  WInv'
<1>1. f \in AllOps \ {"unlock"}
  BY TheOps
<1>2. MInv'
  BY <1>1, CallMInv DEF WInv
<1>3. pc[t] = "idle" /\ OthersWait(t) /\ op'[t] = f /\ args'[t] = S /\ has' = has
  <2>1. /\ pc[t] = "idle" /\ pc' = [pc EXCEPT ![t] = "load"]
        /\ args' = [args EXCEPT ![t] = S] /\ has' = has /\ wait' = wait
    BY DEF Call
  <2> QED BY <2>1, Locals DEF OthersWait, WInv
<1>4. wait[t] = "no" /\ wait \in [Threads -> {"no", "asleep", "awake"}]
  BY <1>3 DEF WInv, Waits, WaitOK
<1>5. WaitOK(t)'
  BY <1>3, <1>4, TheOps DEF WaitOK
<1>6. Waits'
  BY <1>3, <1>4, <1>5, WaitsKept
<1> QED BY <1>2, <1>6 DEF WInv

(* to_host: nobody in it waits. *)
LEMMA MToHostWInv ==
  ASSUME WInv, NEW t \in Threads, MToHost(t), UNCHANGED wait
  PROVE  WInv'
<1>1. MInv'
  BY MToHostMInv DEF WInv
<1>2. /\ OthersKeep(t)
      /\ \/ pc'[t] \in Calling /\ args' = args
         \/ pc'[t] = "idle" /\ args' = [args EXCEPT ![t] = {}]
  BY ToHostEffect DEF MToHost, WInv, MInv
<1>3. /\ op' = [op EXCEPT ![t] = IF pc'[t] = "idle" THEN "none" ELSE @]
      /\ UNCHANGED has
  BY DEF MToHost
<1>4. OthersWait(t) /\ op'[t] \in {op[t], "none"} /\ (op'[t] # "none" => args'[t] = args[t])
  <2>1. OthersWait(t)
    BY <1>2, <1>3, Locals DEF OthersWait, OthersKeep, WInv
  <2>2. op'[t] = IF pc'[t] = "idle" THEN "none" ELSE op[t]
    BY <1>3, Locals DEF WInv
  <2>3. "idle" \notin Calling
    BY DEF Calling, Creating
  <2> QED BY <1>2, <2>1, <2>2, <2>3
<1>5. pc[t] # "host"
  BY DEF MToHost, ToHostStep, LoadHit, LoadMiss, ReadInitValue, Create, CreateFails,
     PublishWins, PublishLoses, Discard
<1>6. wait[t] = "no" /\ wait \in [Threads -> {"no", "asleep", "awake"}] /\ WaitOK(t)
  BY <1>5 DEF WInv, Waits, WaitOK
<1>7. Waits'
  <2>1. WaitOK(t)'
    BY <1>3, <1>4, <1>6, TheOps DEF WaitOK
  <2> QED BY <1>4, <1>6, <2>1, WaitsKept
<1> QED BY <1>1, <1>7 DEF WInv
-----------------------------------------------------------------------------
(* In the host: any call that returns without touching a mutex, *)
LEMMA ReturnsWInv ==
  ASSUME WInv, NEW t \in Threads, wait[t] = "no",
         Return(t), op' = [op EXCEPT ![t] = "none"],
         \A s \in Threads \ {t} : has'[s] = has[s],
         wait' \in [Threads -> {"no", "asleep", "awake"}], wait'[t] = "no",
         \A s \in Threads : wait'[s] = wait[s] \/ (wait[s] # "no" /\ wait'[s] # "no")
  PROVE  Waits'
<1>1. /\ pc' = [pc EXCEPT ![t] = "idle"] /\ args' = [args EXCEPT ![t] = {}]
  BY DEF Return, Leave
<1>2. OthersWait(t) /\ op'[t] = "none"
  BY <1>1, Locals DEF OthersWait, WInv
<1>3. WaitOK(t)'
  BY <1>2, TheOps DEF WaitOK
<1> QED BY <1>2, <1>3, WaitsKept

LEMMA HostStepWInv ==
  ASSUME WInv, NEW t \in Threads, HostStep(t), UNCHANGED wait
  PROVE  WInv'
<1>1. MInv'
  BY HostStepMInv DEF WInv
<1>2. PICK o \in Mutexes, r \in Results, fs \in SUBSET Ops :
        /\ AtHost(t, o, fs) /\ HostReturns(t, r)
        /\ has' = [has EXCEPT ![t][o] = has'[t][o]]
  <2> PICK o \in Mutexes :
        \/ HostTake(t, o) \/ HostRelock(t, o) \/ HostBusy(t, o)
        \/ HostDeadlock(t, o) \/ HostUnlock(t, o) \/ HostNotOwner(t, o)
    BY DEF HostStep
  <2>1. has \in [Threads -> [Mutexes -> 0 .. MaxDepth]]
    BY DEF WInv, MInv, MTypes, HostMutexOK
  <2>2. /\ {"lock", "trylock"} \in SUBSET Ops /\ {"lock"} \in SUBSET Ops
        /\ {"trylock"} \in SUBSET Ops /\ {"unlock"} \in SUBSET Ops
    BY DEF Ops
  <2>3. \/ has' = has
        \/ has' = [has EXCEPT ![t][o] = @ + 1]
        \/ has' = [has EXCEPT ![t][o] = IF @ > 0 THEN @ - 1 ELSE 0]
    BY DEF HostTake, HostRelock, HostBusy, HostDeadlock, HostUnlock, HostNotOwner, Took
  <2>4. has' = [has EXCEPT ![t][o] = has'[t][o]]
    BY <2>1, <2>3
  <2>5. \E fs \in SUBSET Ops : AtHost(t, o, fs)
    BY <2>2 DEF HostTake, HostRelock, HostBusy, HostDeadlock, HostUnlock, HostNotOwner
  <2>6. \E r \in Results : HostReturns(t, r)
    BY Names DEF HostTake, HostRelock, HostBusy, HostDeadlock, HostUnlock, HostNotOwner
  <2> QED BY <2>4, <2>5, <2>6
<1>3. wait[t] = "no" /\ wait \in [Threads -> {"no", "asleep", "awake"}]
  BY <1>2, TheOps DEF AtHost, WInv, Waits, WaitOK
<1>4. \A s \in Threads \ {t} : has'[s] = has[s]
  BY <1>2 DEF WInv, MInv, MTypes, HostMutexOK
<1>5. Waits'
  BY <1>2, <1>3, <1>4, ReturnsWInv DEF HostReturns
<1> QED BY <1>1, <1>5 DEF WInv

(* a thread that falls asleep, *)
LEMMA WaitsOnMutex ==
  ASSUME WInv, NEW t \in Threads, NEW q \in Mutexes, AtHost(t, q, WaitOps)
  PROVE  /\ pc[t] = "host" /\ op[t] \in WaitOps
         /\ \E d \in Conds : args[t] = {d, q}
         /\ res[t][q] = word[q] /\ word[q] \in Addrs /\ live[q]
         /\ has[t][q] = IF wait[t] = "no" THEN 1 ELSE 0
<1>1. q \in args[t] /\ op[t] \in WaitOps /\ pc[t] = "host"
  BY DEF AtHost
<1>2. PICK d \in Conds, r \in Mutexes :
        args[t] = {d, r} /\ has[t][r] = IF wait[t] = "no" THEN 1 ELSE 0
  BY <1>1 DEF WInv, Waits, WaitOK
<1>3. r = q
  BY <1>1, <1>2, TheOps
<1>4. res[t][q] = word[q] /\ word[q] \in Addrs /\ live[q]
  BY AtHostFinds DEF WInv
<1> QED BY <1>1, <1>2, <1>3, <1>4

LEMMA HostSleepWInv ==
  ASSUME WInv, NEW t \in Threads, NEW q \in Mutexes, HostSleep(t, q)
  PROVE  WInv'
<1>1. AtHost(t, q, WaitOps) /\ wait[t] = "no"
  BY DEF HostSleep
<1>2. /\ pc[t] = "host" /\ op[t] \in WaitOps /\ \E d \in Conds : args[t] = {d, q}
      /\ res[t][q] = word[q] /\ word[q] \in Addrs /\ live[q] /\ has[t][q] = 1
  BY <1>1, WaitsOnMutex
<1>3. /\ UNCHANGED <<vars, op, ret>>
      /\ owner' = [owner EXCEPT ![word[q]] = NoThread]
      /\ depth' = [depth EXCEPT ![word[q]] = 0]
      /\ has' = [has EXCEPT ![t][q] = 0]
      /\ wait' = [wait EXCEPT ![t] = "asleep"]
  BY <1>2 DEF HostSleep
<1>4. IInv'
  BY <1>3, NextIInv DEF WInv, MInv
<1>5. HostMutexOK' /\ Owners'
  <2>1. \A s \in Threads \ {t} : has[s][q] = 0
    BY <1>2 DEF WInv, MInv, Owners, MTypes, HostMutexOK
  <2>2. UNCHANGED <<word, live>> /\ NoThread # t
    BY <1>3, MutexShimAssumption DEF vars, shared
  <2>3. 0 \in 0 .. MaxDepth /\ ~(0 > 0)
    BY MutexShimAssumption
  <2> QED BY <1>2, <1>3, <2>1, <2>2, <2>3, HostSetsOwner DEF WInv
<1>6. MTypes'
  BY <1>3, <1>5 DEF WInv, MInv, MTypes
<1>7. InOp'
  <2>1. /\ op' = op /\ pc' = pc /\ args' = args /\ asked' = asked
    BY <1>3 DEF vars, shared, locals
  <2>2. \A s \in Threads : op[s] = "unlock" => has'[s] = has[s]
    BY <1>2, <1>3, TheOps DEF WInv, MInv, MTypes, HostMutexOK
  <2> QED BY <2>1, <2>2 DEF WInv, MInv, InOp
<1>8. Waits'
  <2>1. /\ op' = op /\ pc' = pc /\ args' = args
        /\ wait \in [Threads -> {"no", "asleep", "awake"}]
    BY <1>3 DEF vars, locals, WInv, Waits
  <2>2. has'[t][q] = 0 /\ \A s \in Threads \ {t} : has'[s] = has[s]
    BY <1>3 DEF WInv, MInv, MTypes, HostMutexOK
  <2>3. OthersWait(t)
    BY <1>3, <2>1, <2>2 DEF OthersWait
  <2>4. wait'[t] = "asleep" /\ wait' \in [Threads -> {"no", "asleep", "awake"}]
    BY <1>3, <2>1
  <2>5. WaitOK(t)'
    BY <1>2, <2>1, <2>2, <2>4, TheOps DEF WaitOK
  <2> QED BY <2>3, <2>4, <2>5, WaitsKept
<1> QED BY <1>4, <1>5, <1>6, <1>7, <1>8 DEF WInv, MInv

(* gets the mutex back, *)
LEMMA HostReacquiresWInv ==
  ASSUME WInv, NEW t \in Threads, NEW q \in Mutexes, HostReacquires(t, q)
  PROVE  WInv'
<1>1. AtHost(t, q, WaitOps) /\ wait[t] = "awake"
  BY DEF HostReacquires
<1>2. /\ pc[t] = "host" /\ op[t] \in WaitOps
      /\ res[t][q] = word[q] /\ word[q] \in Addrs /\ live[q]
  BY <1>1, WaitsOnMutex
<1>3. /\ HostReturns(t, ret[t]) /\ owner[word[q]] = NoThread
      /\ owner' = [owner EXCEPT ![word[q]] = t]
      /\ depth' = [depth EXCEPT ![word[q]] = 1]
      /\ has' = [has EXCEPT ![t][q] = 1]
      /\ wait' = [wait EXCEPT ![t] = "no"]
  BY <1>2 DEF HostReacquires
<1>4. ret[t] \in Results /\ \A s \in Threads \ {t} : has'[s] = has[s]
  BY <1>3 DEF WInv, MInv, MTypes, HostMutexOK
<1>5. /\ IInv' /\ InOp' /\ UNCHANGED shared
      /\ op' \in [Threads -> AllOps] /\ ret' \in [Threads -> Results]
  BY <1>3, <1>4, HostReturnsKeeps DEF WInv
<1>6. HostMutexOK' /\ Owners'
  <2>1. \A s \in Threads : has[s][q] = 0
    BY <1>2, <1>3, OwnerHolds DEF WInv
  <2>2. UNCHANGED <<word, live>>
    BY <1>5 DEF shared
  <2>3. 1 \in 0 .. MaxDepth /\ 1 > 0
    BY MutexShimAssumption
  <2> QED BY <1>2, <1>3, <2>1, <2>2, <2>3, HostSetsOwner DEF WInv
<1>7. wait \in [Threads -> {"no", "asleep", "awake"}]
  BY DEF WInv, Waits
<1>8. /\ wait' \in [Threads -> {"no", "asleep", "awake"}] /\ wait'[t] = "no"
      /\ \A s \in Threads \ {t} : wait'[s] = wait[s]
  BY <1>3, <1>7
<1>9. Waits'
  <2>1. /\ pc' = [pc EXCEPT ![t] = "idle"] /\ args' = [args EXCEPT ![t] = {}]
        /\ op' = [op EXCEPT ![t] = "none"]
    BY <1>3 DEF HostReturns, Return, Leave
  <2>2. OthersWait(t) /\ op'[t] = "none"
    BY <1>4, <1>8, <2>1, Locals DEF OthersWait, WInv
  <2>3. WaitOK(t)'
    BY <1>8, <2>2, TheOps DEF WaitOK
  <2> QED BY <1>8, <2>2, <2>3, WaitsKept
<1> QED BY <1>5, <1>6, <1>9 DEF WInv, MInv, MTypes

(* signals or broadcasts, *)
LEMMA HostSignalsWInv ==
  ASSUME WInv, NEW t \in Threads, NEW d \in Conds,
         HostSignal(t, d) \/ HostBroadcast(t, d)
  PROVE  WInv'
<1>1. /\ AtHost(t, d, WakeOps) /\ HostReturns(t, "0") /\ UNCHANGED <<owner, depth, has>>
  BY DEF HostSignal, HostBroadcast, AtHost, WakeOps
<1>2. MInv'
  BY <1>1, HostReportsMInv DEF WInv
<1>3. wait[t] = "no" /\ wait \in [Threads -> {"no", "asleep", "awake"}]
  BY <1>1, TheOps DEF AtHost, WInv, Waits, WaitOK
<1>4. /\ wait' \in [Threads -> {"no", "asleep", "awake"}] /\ wait'[t] = "no"
      /\ \A s \in Threads : wait'[s] = wait[s] \/ (wait[s] # "no" /\ wait'[s] # "no")
  <2>1. CASE HostSignal(t, d)
    <3>1. CASE UNCHANGED wait
      BY <1>3, <3>1
    <3>2. CASE \E s \in Threads : SleepsOn(s, res[t][d]) /\ wait' = [wait EXCEPT ![s] = "awake"]
      <4> PICK s \in Threads :
            SleepsOn(s, res[t][d]) /\ wait' = [wait EXCEPT ![s] = "awake"]
        BY <3>2
      <4>1. wait[s] = "asleep"
        BY DEF SleepsOn
      <4> QED BY <1>3, <4>1
    <3> QED BY <2>1, <3>1, <3>2 DEF HostSignal
  <2>2. CASE HostBroadcast(t, d)
    <3>1. \A s \in Threads : SleepsOn(s, res[t][d]) => wait[s] = "asleep"
      BY DEF SleepsOn
    <3>2. wait' = [s \in Threads |-> IF SleepsOn(s, res[t][d]) THEN "awake" ELSE wait[s]]
      BY <2>2 DEF HostBroadcast
    <3> QED BY <1>3, <3>1, <3>2
  <2> QED BY <2>1, <2>2
<1>5. Waits'
  BY <1>1, <1>3, <1>4, ReturnsWInv DEF HostReturns
<1> QED BY <1>2, <1>5 DEF WInv

(* or wakes by itself. *)
LEMMA HostWakesWInv ==
  ASSUME WInv, NEW t \in Threads, HostWakes(t)
  PROVE  WInv'
<1>1. /\ wait[t] = "asleep" /\ UNCHANGED <<vars, owner, depth, op, has>>
      /\ wait' = [wait EXCEPT ![t] = "awake"]
      /\ ret' = [ret EXCEPT ![t] = IF op[t] = "timedwait" THEN "ETIMEDOUT" ELSE "0"]
  BY DEF HostWakes
<1>2. IInv'
  BY <1>1, NextIInv DEF WInv, MInv
<1>3. UNCHANGED <<word, live, asked, pc, args>>
  BY <1>1 DEF vars, shared, locals
<1>4. ret' \in [Threads -> Results]
  BY <1>1 DEF WInv, MInv, MTypes, Results
<1>5. MTypes' /\ Owners' /\ InOp'
  BY <1>1, <1>3, <1>4 DEF WInv, MInv, MTypes, HostMutexOK, Owners, InOp
<1>6. Waits'
  <2>1. /\ wait' \in [Threads -> {"no", "asleep", "awake"}]
        /\ \A s \in Threads : (wait'[s] = "no") <=> (wait[s] = "no")
    BY <1>1 DEF WInv, Waits
  <2>2. ASSUME NEW s \in Threads
        PROVE  WaitOK(s)'
    <3>1. WaitOK(s) /\ (wait'[s] = "no" <=> wait[s] = "no")
      BY <2>1 DEF WInv, Waits
    <3>2. wait'[s] # "no" => wait[s] # "no"
      BY <3>1
    <3> QED BY <1>1, <1>3, <3>1 DEF WaitOK
  <2> QED BY <2>1, <2>2 DEF Waits
<1> QED BY <1>2, <1>5, <1>6 DEF WInv, MInv

LEMMA NextWInv == WInv /\ [CNext]_condVars => WInv'
<1> SUFFICES ASSUME WInv, [CNext]_condVars PROVE WInv'
  OBVIOUS
<1>1. CASE UNCHANGED condVars
  <2>1. MInv' /\ UNCHANGED <<pc, args, op, has, wait>>
    BY <1>1, NextMInv DEF WInv, condVars, allVars, vars, locals, mutexVars
  <2> QED BY <2>1 DEF WInv, Waits, WaitOK
<1>2. CASE MNext /\ UNCHANGED wait
  BY <1>2, LifeWInv, CallOpWInv, MToHostWInv, HostStepWInv DEF MNext
<1>3. ASSUME NEW t \in Threads, NEW d \in Conds, NEW q \in Mutexes, NEW f \in WaitOps,
             CallWait(t, d, q, f)
      PROVE  WInv'
  <2>1. Call(t, {d, q}) /\ op' = [op EXCEPT ![t] = f] /\ has[t][q] = 1
        /\ UNCHANGED <<owner, depth, has, ret, wait>>
    BY <1>3 DEF CallWait
  <2>2. {d, q} \in SUBSET Objects /\ f \notin WakeOps
    BY TheOps
  <2> QED BY <2>1, <2>2, CallCondWInv
<1>4. ASSUME NEW t \in Threads, NEW d \in Conds, NEW f \in WakeOps, CallWake(t, d, f)
      PROVE  WInv'
  <2>1. Call(t, {d}) /\ op' = [op EXCEPT ![t] = f]
        /\ UNCHANGED <<owner, depth, has, ret, wait>>
    BY <1>4 DEF CallWake
  <2>2. {d} \in SUBSET Objects /\ f \notin WaitOps
    BY TheOps
  <2> QED BY <2>1, <2>2, CallCondWInv
<1>5. ASSUME NEW t \in Threads, CHostStep(t)
      PROVE  WInv'
  BY <1>5, HostSleepWInv, HostReacquiresWInv, HostSignalsWInv, HostStepWInv DEF CHostStep
<1> QED BY <1>1, <1>2, <1>3, <1>4, <1>5, HostWakesWInv DEF CNext

LEMMA WaitInvariant == CSpec => []WInv
BY InitWInv, NextWInv, PTL DEF CSpec

-----------------------------------------------------------------------------
(* A thread in pthread_cond_wait has the mutex, in the host too, until it    *)
(* sleeps, and has it back when the call returns: whatever the application   *)
(* does with its mutexes and condition variables.                            *)
THEOREM WaitKeepsMutex == CSpec => []WaitHoldsMutex
<1>1. ASSUME WInv
      PROVE  WaitHoldsMutex
  <2> SUFFICES ASSUME NEW t \in Threads, NEW q \in Mutexes, op[t] \in WaitOps, q \in args[t]
               PROVE  /\ wait[t] = "no" <=> has[t][q] = 1
                      /\ wait[t] = "no" /\ res[t][q] # NoAddr => owner[res[t][q]] = t
    BY DEF WaitHoldsMutex
  <2>1. has[t][q] = IF wait[t] = "no" THEN 1 ELSE 0
    <3>1. PICK d \in Conds, r \in Mutexes :
            args[t] = {d, r} /\ has[t][r] = IF wait[t] = "no" THEN 1 ELSE 0
      BY <1>1 DEF WInv, Waits, WaitOK
    <3> QED BY <3>1, TheOps
  <2>2. ASSUME wait[t] = "no", res[t][q] # NoAddr
        PROVE  owner[res[t][q]] = t
    <3>1. res[t][q] = word[q]
      BY <1>1, <2>2, TheOps DEF WInv, MInv, IInv, CallersAgree
    <3>2. has[t][q] > 0
      BY <2>1, <2>2
    <3> QED BY <1>1, <3>1, <3>2 DEF WInv, MInv, Owners
  <2> QED BY <2>1, <2>2
<1> QED BY <1>1, WaitInvariant, PTL

(* The call of a thread in signal or broadcast ends in the host's signal or  *)
(* broadcast.                                                                *)
LEMMA WakeEndsInHost ==
  ASSUME WInv, CNext, NEW t \in Threads, pc[t] = "host", pc'[t] = "idle", op[t] \in WakeOps
  PROVE  \E d \in Conds : HostSignal(t, d) \/ HostBroadcast(t, d)
<1>1. pc \in [Threads -> PC]
  BY Locals DEF WInv
<1>2. ~ConstructStep
  BY DEF ConstructStep, Construct, locals
<1>3. ASSUME NEW s \in Threads, NEW S, Call(s, S)
      PROVE  FALSE
  <2>1. pc[s] = "idle" /\ pc' = [pc EXCEPT ![s] = "load"]
    BY <1>3 DEF Call
  <2> QED BY <1>1, <2>1
<1>4. ASSUME NEW s \in Threads, MToHost(s) \/ MLife(s)
      PROVE  FALSE
  <2>1. pc[s] # "host"
    <3>1. "host" \in Calling
      BY DEF Calling
    <3>2. MLife(s) => pc[s] \notin Calling
      BY LifeEffect DEF MLife, WInv, MInv
    <3>3. MToHost(s) => pc[s] # "host"
      BY DEF MToHost, ToHostStep, LoadHit, LoadMiss, ReadInitValue, Create,
         CreateFails, PublishWins, PublishLoses, Discard
    <3> QED BY <1>4, <3>1, <3>2, <3>3
  <2>2. OthersKeep(s)
    BY <1>4, ToHostEffect, LifeEffect DEF MToHost, MLife, WInv, MInv
  <2> QED BY <2>1, <2>2 DEF OthersKeep
<1>5. ASSUME NEW s \in Threads, HostWakes(s) \/ \E q \in Mutexes : HostSleep(s, q)
      PROVE  FALSE
  BY <1>5 DEF HostWakes, HostSleep, vars, locals
<1>6. ASSUME NEW s \in Threads, Return(s)
      PROVE  s = t
  <2>1. pc' = [pc EXCEPT ![s] = "idle"]
    BY <1>6 DEF Return, Leave
  <2> QED BY <1>1, <2>1
<1>7. ASSUME NEW s \in Threads, HostStep(s) \/ \E q \in Mutexes : HostReacquires(s, q)
      PROVE  FALSE
  <2>1. Return(s) /\ op[s] \in Ops \cup WaitOps
    BY <1>7 DEF HostStep, HostTake, HostRelock, HostBusy, HostDeadlock, HostUnlock,
       HostNotOwner, HostReacquires, HostReturns, AtHost, Ops
  <2> QED BY <1>6, <2>1, TheOps
<1>8. ASSUME NEW s \in Threads, NEW d \in Conds, HostSignal(s, d) \/ HostBroadcast(s, d)
      PROVE  s = t
  BY <1>6, <1>8 DEF HostSignal, HostBroadcast, HostReturns
<1>9. ASSUME NEW s \in Threads
      PROVE  /\ \A o \in Mutexes, f \in Ops : ~CallOp(s, o, f)
             /\ \A d \in Conds, q \in Mutexes, f \in WaitOps : ~CallWait(s, d, q, f)
             /\ \A d \in Conds, f \in WakeOps : ~CallWake(s, d, f)
  BY <1>3 DEF CallOp, CallWait, CallWake
<1>10. ~MNext
  BY <1>2, <1>4, <1>7, <1>9 DEF MNext
<1> QED BY <1>5, <1>7, <1>8, <1>9, <1>10 DEF CNext, CHostStep

(* Asleep on the host object a signaller of d has resolved is: waiting on d. *)
LEMMA SleepersWait ==
  ASSUME WInv, NEW t \in Threads, NEW d \in Conds, AtHost(t, d, WakeOps), NEW s \in Threads
  PROVE  SleepsOn(s, res[t][d]) <=> WaitsOn(s, d)
<1>1. ASSUME NEW u \in Threads, NEW e \in Conds, res[u][e] # NoAddr
      PROVE  e \in args[u] /\ res[u][e] = word[e] /\ word[e] \in Addrs
  BY <1>1, TheOps DEF WInv, MInv, IInv, Frames, CallersAgree, TypeOK
<1>2. ASSUME NEW u \in Threads, pc[u] = "host", d \in args[u]
      PROVE  res[u][d] # NoAddr
  BY <1>2 DEF WInv, MInv, IInv, Frames
<1>3. res[t][d] = word[d] /\ word[d] \in Addrs /\ word[d] # NoAddr
  BY <1>1, <1>2 DEF AtHost
<1>4. ASSUME WaitsOn(s, d)
      PROVE  SleepsOn(s, res[t][d])
  <2>1. wait[s] = "asleep" /\ d \in args[s] /\ pc[s] = "host"
    BY <1>4 DEF WaitsOn, WInv, Waits, WaitOK
  <2> QED BY <1>1, <1>2, <1>3, <2>1 DEF SleepsOn
<1>5. ASSUME SleepsOn(s, res[t][d])
      PROVE  WaitsOn(s, d)
  <2> PICK e \in Conds : wait[s] = "asleep" /\ res[s][e] = word[d]
    BY <1>3, <1>5 DEF SleepsOn
  <2>1. e \in args[s] /\ word[e] = word[d]
    BY <1>1, <1>3
  <2>2. e = d
    BY <1>3, <2>1, TheOps DEF WInv, MInv, IInv, NotShared
  <2> QED BY <2>1, <2>2 DEF WaitsOn
<1> QED BY <1>4, <1>5

(* A signal or a broadcast wakes whoever waits on the same bionic condition *)
(* variable, and no other: one thread, or all.                              *)
THEOREM SignalsWake == CSpec => SignalWakes
<1>1. ASSUME WInv, CNext, NEW t \in Threads, NEW d \in Conds,
             AtHost(t, d, WakeOps), pc'[t] = "idle",
             NEW w \in Threads, WaitsOn(w, d)
      PROVE  LET woken == {s \in Threads : WaitsOn(s, d) /\ wait'[s] = "awake"} IN
             IF op[t] = "broadcast" THEN \A s \in Threads : WaitsOn(s, d) => s \in woken
             ELSE woken # {}
  <2>1. pc[t] = "host" /\ op[t] \in WakeOps 
    BY <1>1 DEF AtHost
  <2>2. PICK e \in Conds : HostSignal(t, e) \/ HostBroadcast(t, e)
    BY <1>1, <2>1, WakeEndsInHost
  <2>3. e = d
    <3>1. d \in args[t] /\ e \in args[t]
      BY <1>1, <2>2 DEF AtHost, HostSignal, HostBroadcast
    <3>2. \E x \in Conds : args[t] = {x}
      BY <1>1, <2>1 DEF WInv, Waits, WaitOK
    <3> QED BY <3>1, <3>2
  <2>4. \A s \in Threads : SleepsOn(s, res[t][d]) <=> WaitsOn(s, d)
    BY <1>1, <2>1, SleepersWait
  <2>5. wait \in [Threads -> {"no", "asleep", "awake"}]
    BY <1>1 DEF WInv, Waits
  <2>6. CASE HostSignal(t, d)
    <3>1. op[t] = "signal"
      BY <2>6 DEF HostSignal, AtHost
    <3>2. SleepsOn(w, res[t][d])
      BY <1>1, <2>1, <2>4
    <3>3. PICK s \in Threads : SleepsOn(s, res[t][d]) /\ wait' = [wait EXCEPT ![s] = "awake"]
      BY <2>6, <3>2 DEF HostSignal
    <3>4. WaitsOn(s, d) /\ wait'[s] = "awake"
      BY <2>1, <2>4, <2>5, <3>3
    <3> QED BY <3>1, <3>4
  <2>7. CASE HostBroadcast(t, d)
    <3>1. op[t] = "broadcast"
      BY <2>7 DEF HostBroadcast, AtHost
    <3>2. \A s \in Threads : WaitsOn(s, d) => wait'[s] = "awake"
      BY <2>1, <2>4, <2>7 DEF HostBroadcast
    <3> QED BY <3>1, <3>2
  <2> QED BY <2>2, <2>3, <2>6, <2>7
<1>2. WInv /\ [CNext]_condVars => [WakesWaiters]_condVars
  <2> HAVE WInv /\ [CNext]_condVars
  <2>1. CASE UNCHANGED condVars
    BY <2>1
  <2>2. CASE CNext
    <3> SUFFICES ASSUME NEW t \in Threads, NEW d \in Conds,
                        AtHost(t, d, WakeOps), pc'[t] = "idle",
                        NEW w \in {s \in Threads : WaitsOn(s, d)}
                 PROVE  LET waiters == {s \in Threads : WaitsOn(s, d)}
                            woken   == {s \in waiters : wait'[s] = "awake"}
                        IN  IF op[t] = "broadcast" THEN woken = waiters ELSE woken # {}
      BY DEF WakesWaiters
    <3>1. w \in Threads /\ WaitsOn(w, d)
      OBVIOUS
    <3>2. LET woken == {s \in Threads : WaitsOn(s, d) /\ wait'[s] = "awake"} IN
          IF op[t] = "broadcast" THEN \A s \in Threads : WaitsOn(s, d) => s \in woken
          ELSE woken # {}
      BY <1>1, <2>2, <3>1
    <3>3. CASE op[t] = "broadcast"
      <4>1. \A s \in Threads : WaitsOn(s, d) => wait'[s] = "awake"
        BY <3>2, <3>3
      <4> QED BY <3>3, <4>1
    <3>4. CASE op[t] # "broadcast"
      <4>1. \E s \in Threads : WaitsOn(s, d) /\ wait'[s] = "awake"
        BY <3>2, <3>4
      <4> QED BY <3>4, <4>1
    <3> QED BY <3>3, <3>4
  <2> QED BY <2>1, <2>2
<1> QED BY <1>2, WaitInvariant, PTL DEF CSpec, SignalWakes

-----------------------------------------------------------------------------
(* The application of WaitLoop is one of these: an object it makes is one    *)
(* that ConstructStep makes, and the rest are calls.                         *)
THEOREM LoopIsAnApplication == LSpec => CSpec
<1>1. LInit => CInit
  BY DEF LInit
<1>2. [LNext]_loopVars => [CNext]_condVars
  <2> SUFFICES ASSUME [LNext]_loopVars PROVE [CNext]_condVars
    OBVIOUS
  <2>1. CASE UNCHANGED loopVars
    BY <2>1 DEF loopVars
  <2>2. CASE Static
    <3>1. m \in Mutexes /\ m \in Objects /\ c \in Conds /\ c \in Objects
      BY WaitLoopAssumption, TheOps
    <3>2. ConstructStep /\ UNCHANGED mutexVars /\ UNCHANGED wait
      BY <2>2, <3>1 DEF Static, ConstructStep, KindsOf, Kinds
    <3> QED BY <3>2 DEF CNext, MNext
  <2>3. ASSUME NEW t \in Threads, App(t)
        PROVE  CNext
    <3>1. m \in Mutexes /\ c \in Conds
      BY WaitLoopAssumption
    <3>2. \/ \E f \in Ops : CallOp(t, m, f) /\ UNCHANGED wait
          \/ \E f \in WaitOps : CallWait(t, c, m, f)
          \/ \E f \in WakeOps : CallWake(t, c, f)
      BY <2>3 DEF App, Consume, Produce, Ops, WakeOps
    <3> QED BY <3>1, <3>2 DEF CNext, MNext
  <2>4. ASSUME NEW t \in Threads, Shim(t) \/ HostWakes(t)
        PROVE  CNext
    BY <2>4 DEF Shim, CNext, MNext
  <2> QED BY <2>1, <2>2, <2>3, <2>4 DEF LNext
<1> QED BY <1>1, <1>2, PTL DEF LSpec, CSpec
=============================================================================
