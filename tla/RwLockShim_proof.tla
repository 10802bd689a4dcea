--------------------------- MODULE RwLockShim_proof ---------------------------
(***************************************************************************)
(* A bionic rwlock is one lock, for any threads, rwlocks and addresses,    *)
(* although its host rwlock is created by a race of the first calls on it. *)
(* The shim implements AbstractRwLock.                                     *)
(***************************************************************************)
EXTENDS RwLockShim, StaticInit_proof

RTypes ==
  /\ holds \in [Addrs -> [Threads -> Modes]]
  /\ mode \in [Threads -> [Objects -> Modes]]

(* What the threads believe of a bionic rwlock is what the host rwlock      *)
(* behind its word says, and no host rwlock is held but through a word.     *)
Believed ==
  /\ \A t \in Threads : \A o \in Objects :
       mode[t][o] # 0 =>
         live[o] /\ word[o] \in Addrs /\ holds[word[o]][t] = mode[t][o]
  /\ \A a \in Addrs : \A t \in Threads :
       holds[a][t] # 0 => \E o \in Objects : word[o] = a /\ mode[t][o] = holds[a][t]

(* The host's promise: a writer of a host rwlock is alone with it. *)
HostExcludes ==
  \A a \in Addrs : \A s, t \in Threads :
    holds[a][s] = Writing /\ s # t => holds[a][t] = 0

RInv == IInv /\ RTypes /\ Believed /\ HostExcludes

-----------------------------------------------------------------------------
LEMMA InitRInv == RInit => RInv
<1> SUFFICES ASSUME RInit PROVE RInv
  OBVIOUS
<1>1. IInv
  BY InitIInv DEF RInit
<1>2. RTypes /\ Believed /\ HostExcludes
  BY DEF RInit, RTypes, Believed, HostExcludes, Modes
<1> QED BY <1>1, <1>2 DEF RInv

(* Steps that leave the host rwlocks alone, and every held rwlock usable. *)
LEMMA HeldKept ==
  ASSUME RInv, IInv', Keeps, UNCHANGED <<holds, mode>>,
         \A o \in Objects : live[o] /\ ~live'[o] => \A s \in Threads : mode[s][o] = 0
  PROVE  RInv'
<1>1. RTypes' /\ HostExcludes'
  BY DEF RInv, RTypes, HostExcludes
<1>2. ASSUME NEW t \in Threads, NEW o \in Objects, mode[t][o] # 0
      PROVE  /\ live'[o] /\ word[o] \in Addrs /\ word'[o] = word[o]
             /\ holds[word[o]][t] = mode[t][o]
  <2>1. live[o] /\ word[o] \in Addrs /\ holds[word[o]][t] = mode[t][o]
    BY <1>2 DEF RInv, Believed
  <2>2. live'[o]
    BY <1>2, <2>1 DEF IInv, TypeOK
  <2> QED BY <2>1, <2>2 DEF Keeps
<1>3. Believed'
  BY <1>2 DEF RInv, Believed
<1> QED BY <1>1, <1>3 DEF RInv

LEMMA ConstructRInv ==
  ASSUME RInv, ConstructStep, UNCHANGED rwVars
  PROVE  RInv'
<1> PICK o \in Objects : \E k \in KindsOf(o) : Construct(o, k)
  BY DEF ConstructStep
<1> PICK k \in KindsOf(o) : Construct(o, k)
  OBVIOUS
<1>1. IInv' /\ live' = [live EXCEPT ![o] = TRUE] /\ Keeps
  BY ConstructEffect, ConstructIInv DEF RInv
<1>2. \A q \in Objects : live[q] => live'[q]
  BY <1>1 DEF RInv, IInv, TypeOK
<1> QED BY <1>1, <1>2, HeldKept DEF rwVars

LEMMA CallOpRInv ==
  ASSUME RInv, NEW t \in Threads, NEW o \in Objects, NEW f \in Ops, CallOp(t, o, f)
  PROVE  RInv'
<1>1. IInv' /\ UNCHANGED shared /\ UNCHANGED <<holds, mode>>
  BY CallIInv DEF CallOp, Call, RInv
<1> QED BY <1>1, HeldKept DEF Keeps, shared

LEMMA RToHostRInv ==
  ASSUME RInv, NEW t \in Threads, RToHost(t)
  PROVE  RInv'
<1>1. IInv'
  BY NextIInv DEF RToHost, Next, RInv
<1>2. Keeps /\ live' = live /\ UNCHANGED <<holds, mode>>
  BY ToHostEffect DEF RToHost, RInv
<1> QED BY <1>1, <1>2, HeldKept

LEMMA RLifeRInv ==
  ASSUME RInv, NEW t \in Threads, RLife(t)
  PROVE  RInv'
<1>1. IInv'
  BY NextIInv DEF RLife, Next, RInv
<1>2. Keeps /\ UNCHANGED <<holds, mode>>
  BY LifeEffect DEF RLife, RInv, rwVars
<1> QED BY <1>1, <1>2, HeldKept DEF RLife

-----------------------------------------------------------------------------
(* The host rwlock a call reaches is the one behind the word, and the caller *)
(* holds it as it believes.                                                  *)
LEMMA AtHostFinds ==
  ASSUME RInv, NEW t \in Threads, NEW o \in Objects, NEW fs, AtHost(t, o, fs)
  PROVE  /\ res[t][o] = word[o] /\ word[o] \in Addrs /\ live[o]
         /\ \A s \in Threads : mode[s][o] = holds[word[o]][s]
<1>1. pc[t] = "host" /\ o \in args[t]
  BY DEF AtHost
<1>2. res[t][o] = word[o] /\ word[o] \in Addrs
  BY <1>1 DEF RInv, IInv, Frames, CallersAgree, TypeOK
<1>3. live[o]
  BY <1>1 DEF RInv, IInv, Discipline, Calling
<1>4. ASSUME NEW s \in Threads PROVE mode[s][o] = holds[word[o]][s]
  <2>1. CASE mode[s][o] # 0
    BY <2>1 DEF RInv, Believed
  <2>2. CASE holds[word[o]][s] # 0
    <3>1. PICK q \in Objects : word[q] = word[o] /\ mode[s][q] = holds[word[o]][s]
      BY <1>2, <2>2 DEF RInv, Believed
    <3>2. q = o
      BY <1>2, <3>1 DEF RInv, IInv, NotShared
    <3> QED BY <3>1, <3>2
  <2> QED BY <2>1, <2>2
<1> QED BY <1>2, <1>3, <1>4

(* A host call that keeps the host's promise. *)
LEMMA HostReturnsRInv ==
  ASSUME RInv, NEW t \in Threads, NEW o \in Objects, NEW fs, AtHost(t, o, fs),
         NEW k \in Modes, NEW r, HostReturns(t, o, k, r),
         \/ k = holds[res[t][o]][t]
         \/ k = 0
         \/ k # Writing /\ NoWriter(res[t][o])
         \/ NoHolder(res[t][o])
  PROVE  RInv'
<1>1. /\ res[t][o] = word[o] /\ word[o] \in Addrs /\ live[o]
      /\ \A s \in Threads : mode[s][o] = holds[word[o]][s]
  BY AtHostFinds
<1>2. IInv' /\ UNCHANGED shared
  BY ReturnIInv DEF HostReturns, Return, RInv
<1>3. /\ holds \in [Addrs -> [Threads -> Modes]] /\ mode \in [Threads -> [Objects -> Modes]]
      /\ holds' = [holds EXCEPT ![word[o]][t] = k] /\ mode' = [mode EXCEPT ![t][o] = k]
  BY <1>1 DEF HostReturns, RInv, RTypes
<1>4. RTypes'
  BY <1>3 DEF RTypes
<1>5. /\ holds'[word[o]][t] = k /\ mode'[t][o] = k
      /\ \A a \in Addrs, s \in Threads :
           a # word[o] \/ s # t => holds'[a][s] = holds[a][s]
      /\ \A s \in Threads, q \in Objects :
           q # o \/ s # t => mode'[s][q] = mode[s][q]
  BY <1>1, <1>3
<1>6. \A q \in Objects : q # o /\ word[q] \in Addrs => word[q] # word[o]
  BY DEF RInv, IInv, NotShared
<1>7. Believed'
  <2>1. UNCHANGED <<live, word>>
    BY <1>2 DEF shared
  <2>2. ASSUME NEW s \in Threads, NEW q \in Objects, mode'[s][q] # 0
        PROVE  live[q] /\ word[q] \in Addrs /\ holds'[word[q]][s] = mode'[s][q]
    <3>1. CASE q = o
      BY <1>1, <1>5, <3>1
    <3>2. CASE q # o
      BY <1>5, <1>6, <2>2, <3>2 DEF RInv, Believed
    <3> QED BY <3>1, <3>2
  <2>3. ASSUME NEW a \in Addrs, NEW s \in Threads, holds'[a][s] # 0
        PROVE  \E q \in Objects : word[q] = a /\ mode'[s][q] = holds'[a][s]
    <3>1. CASE a = word[o]
      BY <1>1, <1>5, <3>1
    <3>2. CASE a # word[o]
      BY <1>5, <2>3, <3>2 DEF RInv, Believed
    <3> QED BY <3>1, <3>2
  <2> QED BY <2>1, <2>2, <2>3 DEF Believed
<1>8. HostExcludes'
  <2>1. ASSUME NEW a \in Addrs, NEW s \in Threads, NEW u \in Threads,
               holds'[a][s] = Writing, s # u
        PROVE  holds'[a][u] = 0
    <3>1. holds[a][s] = Writing => holds[a][u] = 0
      BY <2>1 DEF RInv, HostExcludes
    <3>2. CASE a # word[o] \/ (s # t /\ u # t)
      BY <1>5, <2>1, <3>1, <3>2
    <3>3. CASE a = word[o] /\ s = t
      BY <1>1, <1>5, <2>1, <3>1, <3>3 DEF NoWriter, NoHolder, Writing
    <3>4. CASE a = word[o] /\ u = t
      BY <1>1, <1>5, <2>1, <3>1, <3>4 DEF NoWriter, NoHolder, Writing
    <3> QED BY <3>2, <3>3, <3>4
  <2> QED BY <2>1 DEF HostExcludes
<1> QED BY <1>2, <1>4, <1>7, <1>8 DEF RInv

LEMMA HostStepRInv ==
  ASSUME RInv, NEW t \in Threads, HostStep(t)
  PROVE  RInv'
<1> PICK o \in Objects :
      \/ HostRead(t, o) \/ HostWrite(t, o) \/ HostBusy(t, o)
      \/ HostDeadlock(t, o) \/ HostUnlock(t, o)
  BY DEF HostStep
<1> DEFINE k == holds[res[t][o]][t]
<1>1. PICK fs : AtHost(t, o, fs)
  BY DEF HostRead, HostWrite, HostBusy, HostDeadlock, HostUnlock
<1>2. res[t][o] \in Addrs /\ k \in Modes
  BY <1>1, AtHostFinds DEF RInv, RTypes
<1>3. CASE HostRead(t, o)
  <2>1. NoWriter(res[t][o]) /\ HostReturns(t, o, k + 1, "0")
    BY <1>3 DEF HostRead
  <2>2. k + 1 \in Modes /\ k + 1 # Writing
    BY <1>2, <2>1 DEF NoWriter, Modes, Writing
  <2> QED BY <1>1, <2>1, <2>2, HostReturnsRInv
<1>4. CASE HostWrite(t, o)
  <2>1. Writing \in Modes
    BY DEF Modes
  <2> QED BY <1>1, <1>4, <2>1, HostReturnsRInv DEF HostWrite
<1>5. CASE HostBusy(t, o) \/ HostDeadlock(t, o)
  <2>1. PICK r : HostReturns(t, o, k, r)
    BY <1>5 DEF HostBusy, HostDeadlock
  <2> QED BY <1>1, <1>2, <2>1, HostReturnsRInv
<1>6. CASE HostUnlock(t, o)
  <2>1. HostReturns(t, o, IF k > 0 THEN k - 1 ELSE 0, "0")
    BY <1>6 DEF HostUnlock
  <2>2. CASE k > 0
    <3>1. NoWriter(res[t][o])
      BY <1>2, <2>2 DEF NoWriter, RInv, HostExcludes, Writing
    <3>2. k - 1 \in Modes /\ k - 1 # Writing
      BY <1>2, <2>2 DEF Modes, Writing
    <3> QED BY <1>1, <2>1, <2>2, <3>1, <3>2, HostReturnsRInv
  <2>3. CASE ~(k > 0)
    <3>1. 0 \in Modes
      BY DEF Modes
    <3> QED BY <1>1, <2>1, <2>3, <3>1, HostReturnsRInv
  <2> QED BY <2>2, <2>3
<1> QED BY <1>3, <1>4, <1>5, <1>6

LEMMA NextRInv == RInv /\ [RNext]_allVars => RInv'
<1> SUFFICES ASSUME RInv, [RNext]_allVars PROVE RInv'
  OBVIOUS
<1>1. CASE UNCHANGED allVars
  <2>1. IInv' /\ UNCHANGED <<live, asked, word, holds, mode>>
    BY <1>1, NextIInv DEF RInv, allVars, vars, shared, rwVars
  <2> QED BY <2>1, HeldKept DEF Keeps
<1>2. CASE ConstructStep /\ UNCHANGED rwVars
  BY <1>2, ConstructRInv
<1>3. ASSUME NEW t \in Threads,
             \/ \E o \in Objects, f \in Ops : CallOp(t, o, f)
             \/ RToHost(t) \/ HostStep(t) \/ RLife(t)
      PROVE  RInv'
  BY <1>3, CallOpRInv, RToHostRInv, HostStepRInv, RLifeRInv
<1> QED BY <1>1, <1>2, <1>3 DEF RNext

(* Whatever threads race on the first use of a bionic rwlock, one of them    *)
(* that has it for writing is alone with it, and an unlock reaches the host  *)
(* rwlock that was locked.                                                   *)
THEOREM WriterExcludes == RSpec => []WriterIsAlone
<1>1. RInv => WriterIsAlone
  BY DEF RInv, RTypes, Believed, HostExcludes, WriterIsAlone, Writing
<1> QED BY <1>1, InitRInv, NextRInv, PTL DEF RSpec

-----------------------------------------------------------------------------
(* The refinement of AbstractRwLock.  A thread between its call and the     *)
(* host's: an unlock is of an rwlock the thread holds.                      *)
InOp ==
  /\ op \in [Threads -> Ops \cup {"none"}] /\ DOMAIN ret = Threads
  /\ ret = [t \in Threads |-> ret[t]]
  /\ \A t \in Threads :
       /\ op[t] # "none" => pc[t] \in Calling /\ args[t] # {}
       /\ op[t] = "unlock" => \A o \in args[t] : mode[t][o] # 0

LInv == RInv /\ InOp

LEMMA Locals ==
  ASSUME RInv
  PROVE  /\ pc \in [Threads -> PC] /\ args \in [Threads -> SUBSET Objects]
         /\ mode \in [Threads -> [Objects -> Modes]]
         /\ live \in [Objects -> BOOLEAN]
BY DEF RInv, IInv, TypeOK, RTypes

(* A step of t that leaves the other threads' calls alone. *)
LEMMA InOpKept ==
  ASSUME LInv, NEW t \in Threads, OthersKeep(t),
         NEW f \in Ops \cup {"none"}, op' = [op EXCEPT ![t] = f],
         NEW r, ret' = [ret EXCEPT ![t] = r],
         f # "none" => pc'[t] \in Calling /\ args'[t] # {},
         f = "unlock" => \A o \in args'[t] : mode'[t][o] # 0,
         \A s \in Threads \ {t} : mode'[s] = mode[s]
  PROVE  InOp'
<1>1. /\ op' \in [Threads -> Ops \cup {"none"}] /\ op'[t] = f
      /\ \A s \in Threads \ {t} : op'[s] = op[s]
  BY DEF LInv, InOp
<1>2. DOMAIN ret' = Threads /\ ret' = [s \in Threads |-> ret'[s]]
  BY DEF LInv, InOp
<1>3. ASSUME NEW s \in Threads
      PROVE  /\ op'[s] # "none" => pc'[s] \in Calling /\ args'[s] # {}
             /\ op'[s] = "unlock" => \A o \in args'[s] : mode'[s][o] # 0
  <2>1. CASE s = t
    BY <1>1, <2>1
  <2>2. CASE s # t
    <3>1. pc'[s] = pc[s] /\ args'[s] = args[s] /\ mode'[s] = mode[s] /\ op'[s] = op[s]
      BY <1>1, <2>2 DEF OthersKeep
    <3> QED BY <3>1 DEF LInv, InOp
  <2> QED BY <2>1, <2>2
<1> QED BY <1>1, <1>2, <1>3 DEF InOp

(* Every step is one of these to the calls: *)
LEMMA CallEffect ==
  ASSUME RInv, NEW t \in Threads, NEW o \in Objects, NEW f \in Ops, CallOp(t, o, f)
  PROVE  /\ pc[t] = "idle" /\ args[t] = {} /\ live[o]
         /\ pc' = [pc EXCEPT ![t] = "load"] /\ args' = [args EXCEPT ![t] = {o}]
         /\ op' = [op EXCEPT ![t] = f] /\ UNCHANGED <<live, mode, ret>>
         /\ f = "unlock" => mode[t][o] # 0
BY DEF CallOp, Call, shared, RInv, IInv, Frames

LEMMA ToHostCall ==
  ASSUME LInv, NEW t \in Threads, RToHost(t)
  PROVE  /\ UNCHANGED <<live, mode, ret>> /\ OthersKeep(t) /\ pc[t] \in Calling
         /\ \/ pc'[t] # "idle" /\ pc'[t] \in Calling /\ args' = args /\ op' = op
            \/ /\ pc'[t] = "idle" /\ args' = [args EXCEPT ![t] = {}]
               /\ op' = [op EXCEPT ![t] = "none"]
<1>1. /\ UNCHANGED live /\ OthersKeep(t) /\ pc[t] \in Calling
      /\ \/ pc'[t] \in Calling /\ args' = args
         \/ pc'[t] = "idle" /\ args' = [args EXCEPT ![t] = {}]
  BY ToHostEffect DEF RToHost, LInv, RInv
<1>2. /\ op' = [op EXCEPT ![t] = IF pc'[t] = "idle" THEN "none" ELSE @]
      /\ UNCHANGED <<mode, ret>>
  BY DEF RToHost
<1>3. "idle" \notin Calling
  BY DEF Calling, Creating
<1>4. pc'[t] # "idle" => op' = op
  BY <1>2 DEF LInv, InOp
<1> QED BY <1>1, <1>2, <1>3, <1>4

LEMMA LifeCall ==
  ASSUME LInv, NEW t \in Threads, RLife(t)
  PROVE  /\ OthersKeep(t) /\ op[t] = "none" /\ UNCHANGED <<mode, op, ret>>
         /\ \/ live' = live
            \/ \E o \in Objects : ~live[o] /\ live' = [live EXCEPT ![o] = TRUE]
            \/ \E o \in Objects :
                 /\ live[o] /\ ~InCall(o) /\ live' = [live EXCEPT ![o] = FALSE]
                 /\ \A s \in Threads : mode[s][o] = 0
<1>1. /\ OthersKeep(t) /\ pc[t] \notin Calling
      /\ \/ live' = live
         \/ \E o \in Objects : ~live[o] /\ live' = [live EXCEPT ![o] = TRUE]
         \/ \E o \in Objects : live[o] /\ ~InCall(o) /\ live' = [live EXCEPT ![o] = FALSE]
  BY LifeEffect DEF RLife, LInv, RInv
<1>2. op[t] = "none" /\ UNCHANGED <<mode, op, ret>>
  BY <1>1 DEF LInv, InOp, RLife, rwVars
<1>3. ASSUME NEW o \in Objects, live[o], live' = [live EXCEPT ![o] = FALSE]
      PROVE  \A s \in Threads : mode[s][o] = 0
  BY <1>3, Locals DEF LInv, RLife
<1> QED BY <1>1, <1>2, <1>3

LEMMA HostCall ==
  ASSUME LInv, NEW t \in Threads, HostStep(t)
  PROVE  /\ pc[t] = "host" /\ UNCHANGED live /\ OthersKeep(t)
         /\ args' = [args EXCEPT ![t] = {}] /\ op' = [op EXCEPT ![t] = "none"]
         /\ \E r : ret' = [ret EXCEPT ![t] = r]
         /\ \A s \in Threads \ {t} : mode'[s] = mode[s]
<1> PICK o \in Objects : \E k, r : HostReturns(t, o, k, r)
  BY DEF HostStep, HostRead, HostWrite, HostBusy, HostDeadlock, HostUnlock
<1> PICK k, r : HostReturns(t, o, k, r)
  OBVIOUS
<1>1. /\ pc[t] = "host" /\ UNCHANGED live /\ args' = [args EXCEPT ![t] = {}]
      /\ pc' = [pc EXCEPT ![t] = "idle"] /\ op' = [op EXCEPT ![t] = "none"]
      /\ mode' = [mode EXCEPT ![t][o] = k] /\ ret' = [ret EXCEPT ![t] = r]
  BY DEF HostReturns, Return, Leave, shared
<1>2. OthersKeep(t) /\ \A s \in Threads \ {t} : mode'[s] = mode[s]
  BY <1>1, Locals DEF OthersKeep, LInv
<1> QED BY <1>1, <1>2

LEMMA InitLInv == RInit => LInv
BY InitRInv DEF RInit, LInv, InOp

LEMMA NextLInv == LInv /\ [RNext]_allVars => LInv'
<1> SUFFICES ASSUME LInv, [RNext]_allVars PROVE InOp'
  BY NextRInv DEF LInv
<1>0. op \in [Threads -> Ops \cup {"none"}] /\ ret = [t \in Threads |-> ret[t]]
  BY DEF LInv, InOp
<1>1. CASE UNCHANGED allVars \/ (ConstructStep /\ UNCHANGED rwVars)
  <2>1. UNCHANGED <<pc, args, op, mode, ret>>
    BY <1>1 DEF allVars, vars, locals, rwVars, ConstructStep, Construct
  <2> QED BY <2>1 DEF LInv, InOp
<1>2. ASSUME NEW t \in Threads, NEW o \in Objects, NEW f \in Ops, CallOp(t, o, f)
      PROVE  InOp'
  <2>1. /\ pc' = [pc EXCEPT ![t] = "load"] /\ args' = [args EXCEPT ![t] = {o}]
        /\ op' = [op EXCEPT ![t] = f] /\ UNCHANGED <<mode, ret>>
        /\ f = "unlock" => mode[t][o] # 0
    BY <1>2, CallEffect DEF LInv
  <2>2. OthersKeep(t) /\ pc'[t] = "load" /\ args'[t] = {o}
    BY <2>1, Locals DEF OthersKeep, LInv
  <2>3. "load" \in Calling
    BY DEF Calling, Creating
  <2>4. ret' = [ret EXCEPT ![t] = ret[t]]
    BY <1>0, <2>1
  <2> QED BY <2>1, <2>2, <2>3, <2>4, InOpKept
<1>3. ASSUME NEW t \in Threads, RToHost(t)
      PROVE  InOp'
  <2>1. /\ UNCHANGED <<live, mode, ret>> /\ OthersKeep(t)
        /\ \/ pc'[t] \in Calling /\ args' = args /\ op' = op
           \/ op' = [op EXCEPT ![t] = "none"]
    BY <1>3, ToHostCall
  <2>2. ret' = [ret EXCEPT ![t] = ret[t]]
    BY <1>0, <2>1
  <2>3. CASE pc'[t] \in Calling /\ args' = args /\ op' = op
    <3>1. op' = [op EXCEPT ![t] = op[t]] /\ op[t] \in Ops \cup {"none"}
      BY <1>0, <2>3
    <3>2. /\ op[t] # "none" => args[t] # {}
          /\ op[t] = "unlock" => \A o \in args[t] : mode[t][o] # 0
      BY DEF LInv, InOp
    <3> QED BY <2>1, <2>2, <2>3, <3>1, <3>2, InOpKept
  <2>4. CASE op' = [op EXCEPT ![t] = "none"]
    <3>1. "none" \in Ops \cup {"none"} /\ "none" # "unlock"
      OBVIOUS
    <3> QED BY <2>1, <2>2, <2>4, <3>1, InOpKept
  <2> QED BY <2>1, <2>3, <2>4
<1>4. ASSUME NEW t \in Threads, RLife(t)
      PROVE  InOp'
  <2>1. OthersKeep(t) /\ op[t] = "none" /\ UNCHANGED <<mode, op, ret>>
    BY <1>4, LifeCall
  <2>2. op' = [op EXCEPT ![t] = "none"] /\ ret' = [ret EXCEPT ![t] = ret[t]]
    BY <1>0, <2>1
  <2>3. "none" \in Ops \cup {"none"} /\ "none" # "unlock"
    OBVIOUS
  <2> QED BY <2>1, <2>2, <2>3, InOpKept
<1>5. ASSUME NEW t \in Threads, HostStep(t)
      PROVE  InOp'
  <2>1. /\ OthersKeep(t) /\ op' = [op EXCEPT ![t] = "none"]
        /\ \A s \in Threads \ {t} : mode'[s] = mode[s]
    BY <1>5, HostCall
  <2>2. PICK r : ret' = [ret EXCEPT ![t] = r]
    BY <1>5, HostCall
  <2>3. "none" \in Ops \cup {"none"} /\ "none" # "unlock"
    OBVIOUS
  <2> QED BY <2>1, <2>2, <2>3, InOpKept
<1> QED BY <1>1, <1>2, <1>3, <1>4, <1>5 DEF RNext

(* Every call ends, holds what it should hold, and tells so. *)
LEMMA CallsInvariant == RSpec => []LInv
BY InitLInv, NextLInv, PTL DEF RSpec

-----------------------------------------------------------------------------
(* The values of AbstractRwLock's variables. *)
liveBar == {o \in Objects : live[o]}
busyBar == [t \in Threads |-> IF op[t] = "none" THEN {} ELSE args[t]]

LEMMA InitMaps == RInit => Abstract!AInit
BY DEF RInit, Init, Abstract!AInit

LEMMA BusyStays ==
  ASSUME LInv, NEW t \in Threads, OthersKeep(t), op' = op, op[t] = "none" \/ args' = args
  PROVE  busyBar' = busyBar
BY DEF busyBar, OthersKeep

LEMMA BusyEnds ==
  ASSUME LInv, NEW t \in Threads, OthersKeep(t), op' = [op EXCEPT ![t] = "none"]
  PROVE  busyBar' = [busyBar EXCEPT ![t] = {}]
<1>1. op'[t] = "none" /\ \A s \in Threads \ {t} : op'[s] = op[s] /\ args'[s] = args[s]
  BY DEF LInv, InOp, OthersKeep
<1> QED BY <1>1 DEF busyBar

LEMMA MakeMaps ==
  ASSUME LInv, NEW o \in Objects, ~live[o], live' = [live EXCEPT ![o] = TRUE],
         busyBar' = busyBar, UNCHANGED <<mode, op, ret>>
  PROVE  Abstract!ANext
<1>1. o \notin liveBar /\ liveBar' = liveBar \cup {o}
  BY Locals DEF liveBar, LInv
<1>2. Abstract!Make(o)
  BY <1>1 DEF Abstract!Make, liveBar, busyBar
<1> QED BY <1>2 DEF Abstract!ANext

LEMMA ConstructMaps ==
  ASSUME LInv, ConstructStep, UNCHANGED rwVars
  PROVE  Abstract!ANext
<1> PICK o \in Objects : \E k \in KindsOf(o) : Construct(o, k)
  BY DEF ConstructStep
<1>1. ~live[o] /\ live' = [live EXCEPT ![o] = TRUE] /\ UNCHANGED <<args, mode, op, ret>>
  BY ConstructEffect DEF LInv, RInv, rwVars
<1>2. busyBar' = busyBar
  BY <1>1 DEF busyBar
<1> QED BY <1>1, <1>2, MakeMaps

(* An rwlock is destroyed only when nobody holds it or is in a call on it. *)
LEMMA LifeMaps ==
  ASSUME LInv, NEW t \in Threads, RLife(t)
  PROVE  [Abstract!ANext]_(Abstract!avars)
<1>1. OthersKeep(t) /\ op[t] = "none" /\ UNCHANGED <<mode, op, ret>>
  BY LifeCall
<1>2. busyBar' = busyBar
  BY <1>1, BusyStays
<1>3. CASE live' = live
  BY <1>1, <1>2, <1>3 DEF Abstract!avars, busyBar
<1>4. CASE \E o \in Objects : ~live[o] /\ live' = [live EXCEPT ![o] = TRUE]
  BY <1>1, <1>2, <1>4, MakeMaps
<1>5. ASSUME NEW o \in Objects, live[o], ~InCall(o), live' = [live EXCEPT ![o] = FALSE],
             \A s \in Threads : mode[s][o] = 0
      PROVE  Abstract!ANext
  <2>1. o \in liveBar /\ liveBar' = liveBar \ {o}
    BY <1>5, Locals DEF liveBar, LInv
  <2>2. \A s \in Threads : o \notin busyBar[s]
    BY <1>5 DEF busyBar, InCall
  <2>3. Abstract!Destroy(o)
    BY <1>1, <1>2, <1>5, <2>1, <2>2 DEF Abstract!Destroy, Abstract!Free, liveBar, busyBar
  <2> QED BY <2>3 DEF Abstract!ANext
<1> QED BY <1>3, <1>4, <1>5, LifeCall

(* A call begins. *)
LEMMA CallOpMaps ==
  ASSUME LInv, NEW t \in Threads, NEW o \in Objects, NEW f \in Ops, CallOp(t, o, f)
  PROVE  Abstract!ANext
<1>1. /\ args[t] = {} /\ live[o] /\ args' = [args EXCEPT ![t] = {o}]
      /\ op' = [op EXCEPT ![t] = f] /\ UNCHANGED <<live, mode, ret>>
  BY CallEffect DEF LInv
<1>2. f # "none" /\ op \in [Threads -> Ops \cup {"none"}]
  BY DEF Ops, ReadOps, WriteOps, LInv, InOp
<1>3. busyBar[t] = {} /\ busyBar' = [busyBar EXCEPT ![t] = {o}]
  BY <1>1, <1>2, Locals DEF busyBar, LInv
<1>4. Abstract!Begin(t, o, f)
  BY <1>1, <1>3 DEF Abstract!Begin, busyBar
<1> QED BY <1>4 DEF Abstract!ANext, Abstract!Ops, Abstract!ReadOps, Abstract!WriteOps,
          Ops, ReadOps, WriteOps

(* to_host: nothing happens, or an exception ends the call. *)
LEMMA ToHostMaps ==
  ASSUME LInv, NEW t \in Threads, RToHost(t)
  PROVE  [Abstract!ANext]_(Abstract!avars)
<1>1. /\ UNCHANGED <<live, mode, ret>> /\ OthersKeep(t)
      /\ \/ args' = args /\ op' = op
         \/ op' = [op EXCEPT ![t] = "none"]
  BY ToHostCall
<1>2. CASE args' = args /\ op' = op
  BY <1>1, <1>2 DEF Abstract!avars
<1>3. CASE op' = [op EXCEPT ![t] = "none"]
  <2>1. busyBar' = [busyBar EXCEPT ![t] = {}]
    BY <1>1, <1>3, BusyEnds
  <2>2. ret' = [ret EXCEPT ![t] = ret[t]]
    BY <1>1 DEF LInv, InOp
  <2>3. CASE busyBar[t] # {}
    <3>1. Abstract!Throws(t)
      BY <1>1, <1>3, <2>1, <2>2, <2>3 DEF Abstract!Throws, Abstract!End, busyBar
    <3> QED BY <3>1 DEF Abstract!ANext
  <2>4. CASE op[t] = "none"
    <3>1. op' = op /\ busyBar' = busyBar
      BY <1>3, <2>1, <2>4 DEF busyBar, LInv, InOp
    <3> QED BY <1>1, <3>1 DEF Abstract!avars, busyBar
  <2> QED BY <2>3, <2>4 DEF busyBar, LInv, InOp
<1> QED BY <1>1, <1>2, <1>3

(* A host call: the call ends with the lock it took or gave up. *)
LEMMA HostMaps ==
  ASSUME LInv, NEW t \in Threads, HostStep(t)
  PROVE  Abstract!ANext
<1> PICK o \in Objects :
      \/ HostRead(t, o) \/ HostWrite(t, o) \/ HostBusy(t, o)
      \/ HostDeadlock(t, o) \/ HostUnlock(t, o)
  BY DEF HostStep
<1>1. PICK fs \in {ReadOps, WriteOps, TryOps, {"rdlock", "wrlock"}, {"unlock"}} : AtHost(t, o, fs)
  BY DEF HostRead, HostWrite, HostBusy, HostDeadlock, HostUnlock
<1>2. /\ res[t][o] = word[o] /\ word[o] \in Addrs
      /\ \A s \in Threads : mode[s][o] = holds[word[o]][s]
  BY <1>1, AtHostFinds DEF LInv
<1>3. op[t] # "none" /\ o \in args[t]
  BY <1>1 DEF AtHost, ReadOps, WriteOps, TryOps
<1>4. busyBar[t] = args[t] /\ o \in busyBar[t]
  BY <1>3 DEF busyBar
<1>5. /\ NoWriter(res[t][o]) <=> ~Abstract!Written(o)
      /\ NoHolder(res[t][o]) <=> Abstract!Free(o)
  BY <1>2 DEF NoWriter, NoHolder, Abstract!Written, Abstract!Free, Writing, Abstract!Writing
<1>6. ASSUME NEW k, NEW r, HostReturns(t, o, k, r)
      PROVE  Abstract!End(t, [mode EXCEPT ![t][o] = k], r)
  <2>1. busyBar' = [busyBar EXCEPT ![t] = {}]
    BY HostCall, BusyEnds
  <2>2. /\ UNCHANGED live /\ op' = [op EXCEPT ![t] = "none"]
        /\ mode' = [mode EXCEPT ![t][o] = k] /\ ret' = [ret EXCEPT ![t] = r]
    BY <1>6 DEF HostReturns, Return, shared
  <2> QED BY <2>1, <2>2 DEF Abstract!End, busyBar
<1>7. CASE HostRead(t, o)
  <2>1. op[t] \in ReadOps /\ NoWriter(res[t][o]) /\ HostReturns(t, o, mode[t][o] + 1, "0")
    BY <1>2, <1>7 DEF HostRead, AtHost
  <2>2. Abstract!Read(t, o)
    BY <1>5, <1>6, <2>1 DEF Abstract!Read, Abstract!ReadOps, ReadOps
  <2> QED BY <1>4, <2>2 DEF Abstract!ANext, busyBar
<1>8. CASE HostWrite(t, o)
  <2>1. op[t] \in WriteOps /\ NoHolder(res[t][o]) /\ HostReturns(t, o, Writing, "0")
    BY <1>8 DEF HostWrite, AtHost
  <2>2. Abstract!Write(t, o)
    BY <1>5, <1>6, <2>1 DEF Abstract!Write, Abstract!WriteOps, WriteOps, Writing, Abstract!Writing
  <2> QED BY <1>4, <2>2 DEF Abstract!ANext, busyBar
<1>9. CASE HostBusy(t, o)
  <2>1. /\ \/ op[t] = "tryrdlock" /\ ~NoWriter(res[t][o])
           \/ op[t] = "trywrlock" /\ ~NoHolder(res[t][o])
        /\ HostReturns(t, o, mode[t][o], "EBUSY")
    BY <1>2, <1>9 DEF HostBusy, AtHost, TryOps
  <2>2. [mode EXCEPT ![t][o] = mode[t][o]] = mode
    BY Locals DEF LInv
  <2>3. Abstract!End(t, mode, "EBUSY")
    BY <1>6, <2>1, <2>2
  <2>4. Abstract!Busy(t, o)
    BY <1>5, <2>1, <2>3 DEF Abstract!Busy
  <2> QED BY <1>4, <2>4 DEF Abstract!ANext, busyBar
<1>10. CASE HostDeadlock(t, o)
  <2>1. /\ op[t] \in {"rdlock", "wrlock"} /\ mode[t][o] = Writing
        /\ HostReturns(t, o, mode[t][o], "EAGAIN")
    BY <1>2, <1>10 DEF HostDeadlock, AtHost
  <2>2. [mode EXCEPT ![t][o] = mode[t][o]] = mode
    BY Locals DEF LInv
  <2>3. Abstract!End(t, mode, "EAGAIN")
    BY <1>6, <2>1, <2>2
  <2>4. Abstract!Refused(t, o)
    BY <2>1, <2>3 DEF Abstract!Refused, Writing, Abstract!Writing
  <2> QED BY <1>4, <2>4 DEF Abstract!ANext, busyBar
<1>11. CASE HostUnlock(t, o)
  <2>1. /\ op[t] = "unlock"
        /\ HostReturns(t, o, IF mode[t][o] > 0 THEN mode[t][o] - 1 ELSE 0, "0")
    BY <1>2, <1>11 DEF HostUnlock, AtHost
  <2>2. mode[t][o] # 0
    BY <1>3, <2>1 DEF LInv, InOp
  <2>3. Abstract!Unlock(t, o)
    BY <1>6, <2>1, <2>2 DEF Abstract!Unlock
  <2> QED BY <1>4, <2>3 DEF Abstract!ANext, busyBar
<1> QED BY <1>7, <1>8, <1>9, <1>10, <1>11

LEMMA NextMaps == LInv /\ [RNext]_allVars => [Abstract!ANext]_(Abstract!avars)
<1> SUFFICES ASSUME LInv, [RNext]_allVars PROVE [Abstract!ANext]_(Abstract!avars)
  OBVIOUS
<1>1. CASE UNCHANGED allVars
  BY <1>1 DEF allVars, vars, shared, locals, rwVars, Abstract!avars
<1>2. CASE ConstructStep /\ UNCHANGED rwVars
  BY <1>2, ConstructMaps
<1>3. ASSUME NEW t \in Threads,
             (\E o \in Objects, f \in Ops : CallOp(t, o, f)) \/ RToHost(t) \/ HostStep(t)
               \/ RLife(t)
      PROVE  [Abstract!ANext]_(Abstract!avars)
  BY <1>3, CallOpMaps, ToHostMaps, HostMaps, LifeMaps
<1> QED BY <1>1, <1>2, <1>3 DEF RNext

(* The shim's rwlocks are AbstractRwLock: every call takes effect once, and  *)
(* readers, writers and tries see the one lock the application means.        *)
THEOREM ShimIsARwLock == RSpec => IsARwLock
BY InitMaps, NextMaps, CallsInvariant, PTL DEF RSpec, IsARwLock, Abstract!ASpec
=============================================================================
