-------------------------- MODULE StaticInit_proof --------------------------
(***************************************************************************)
(* Proofs about StaticInit, for any sets of threads, objects and addresses *)
(* and for both word layouts.                                              *)
(***************************************************************************)
EXTENDS StaticInit, TLAPS

Creating == {"value", "create", "publish", "discard"}
Calling  == Creating \cup {"load", "host"}
Initing  == {"init_host", "init_store"}
Destroying == {"destroy_host", "destroy_store", "destroy_free"}
Owning   == Initing \cup Destroying
Holding  == {"publish", "discard"} \cup Initing

(* Which locals are in use at which program point. *)
Frames ==
  \A t \in Threads :
    /\ pc[t] = "idle" => args[t] = {}
    /\ host_ptr[t] # NoAddr <=> pc[t] \in Holding
    /\ pc[t] \in Creating => cur[t] \in args[t] /\ res[t][cur[t]] = NoAddr
    /\ pc[t] \in Owning => cur[t] \in Objects /\ args[t] = {cur[t]}
    /\ \A o \in Objects : res[t][o] # NoAddr => o \in args[t] /\ pc[t] \in Calling
    /\ pc[t] = "host" => \A o \in args[t] : res[t][o] # NoAddr

(* The application's discipline: calls are on live objects, and a thread   *)
(* that initializes or destroys an object is alone with it.                *)
Discipline ==
  /\ \A t \in Threads : \A o \in args[t] : live[o] <=> pc[t] \in Calling
  /\ \A s, t \in Threads :
       s # t /\ pc[t] \in Owning => cur[t] \notin args[s]

(* What a thread knows of the word it found uninitialized. *)
Pending ==
  \A t \in Threads :
    /\ pc[t] \in {"value", "create", "publish"} =>
         /\ payload[t] \in Kinds
         /\ word[cur[t]] \in Addrs \/ word[cur[t]] = payload[t]
    /\ pc[t] = "discard" => payload[t] = word[cur[t]] /\ payload[t] \in Addrs

(* What a thread that destroys an object knows of its memory. *)
Dying ==
  \A t \in Threads :
    /\ pc[t] \in Destroying => payload[t] \in Addrs /\ heap[payload[t]] # "free"
    /\ pc[t] \in {"destroy_host", "destroy_store"} => word[cur[t]] = payload[t]
    /\ pc[t] = "destroy_free" =>
         /\ \A o \in Objects : word[o] # payload[t]
         /\ \A s \in Threads : host_ptr[s] # payload[t]
         /\ \A s \in Threads : s # t /\ pc[s] = "destroy_free" => payload[s] # payload[t]

(* The kind the next object will have is the kind asked for, unless another *)
(* thread has already published one.                                        *)
KindPending ==
  /\ \A o \in Objects :
       /\ asked[o] \in KindsOf(o)
       /\ live[o] /\ word[o] \notin Addrs =>
            asked[o] = IF o \in Mutexes THEN AttrKind(Data0(o)) ELSE "normal"
  /\ \A t \in Threads :
       /\ pc[t] = "create" => \/ word[cur[t]] \in Addrs
                              \/ AttrKind(init_value[t]) = asked[cur[t]]
       /\ pc[t] = "publish" => \/ word[cur[t]] \in Addrs
                               \/ heap[host_ptr[t]] = asked[cur[t]]
       /\ pc[t] = "init_host" => AttrKind(init_value[t]) = asked[cur[t]]
       /\ pc[t] = "init_store" => heap[host_ptr[t]] = asked[cur[t]]

(* Memory behind a word is allocated. *)
Allocated ==
  \A o \in Objects : word[o] \in Addrs => heap[word[o]] # "free"

(* What Discard does when the thread has found a winner's object. *)
DiscardFinds(t) ==
  /\ pc[t] = "discard"
  /\ payload[t] \in Addrs
  /\ heap' = [heap EXCEPT ![host_ptr[t]] = "free"]
  /\ Resolve(t, cur[t], payload[t])
  /\ UNCHANGED <<word, header, live, asked, lost, args>>

IInv == /\ TypeOK /\ Frames /\ Discipline /\ Pending /\ Dying
        /\ KindPending /\ Allocated /\ KindHonoured /\ NotShared /\ Private
        /\ CallersAgree

-----------------------------------------------------------------------------
(* The inductive invariant holds at the start. *)
LEMMA InitIInv == Init => IInv
BY StaticInitAssumption DEF Init, IInv, TypeOK, Frames, Discipline, Pending, Dying,
   KindPending, Allocated, KindHonoured, NotShared, Private, CallersAgree, Zero,
   Kinds, KindsOf, AttrKind, Data0, PC, Creating, Calling, Initing, Destroying,
   Owning, Holding

(* The invariant is kept when to_host finds a host object. *)
LEMMA LoadHitIInv ==
  ASSUME IInv, NEW t \in Threads, NEW o \in Objects, LoadHit(t, o)
  PROVE  IInv'
<1>1. Allocated' /\ KindHonoured' /\ NotShared'
  BY DEF IInv, Allocated, KindHonoured, NotShared, LoadHit, Resolve,
     is_initialized, Unresolved, shared
<1>2. TypeOK'
  BY DEF IInv, TypeOK, Zero, Kinds, PC, LoadHit, Resolve, is_initialized,
     Unresolved, shared
<1>3. Frames'
  BY StaticInitAssumption DEF IInv, TypeOK, Frames, Creating, Calling,
     Initing, Destroying, Owning, Holding, LoadHit, Resolve, is_initialized,
     Unresolved
<1>4. Discipline'
  BY DEF IInv, Discipline, Calling, Initing, Destroying, Owning, LoadHit,
     Resolve, is_initialized, Unresolved, shared
<1>5. Pending'
  BY DEF IInv, Pending, LoadHit, Resolve, is_initialized, Unresolved, shared
<1>6. Dying'
  BY StaticInitAssumption DEF IInv, Dying, Destroying, LoadHit, Resolve,
     is_initialized, Unresolved, shared
<1>7. KindPending'
  BY DEF IInv, KindPending, Data0, LoadHit, Resolve, is_initialized,
     Unresolved, shared
<1>8. Private'
  BY DEF IInv, Private, LoadHit, Resolve, is_initialized, Unresolved, shared
<1>9. CallersAgree'
  BY DEF IInv, TypeOK, Frames, Discipline, Pending, Dying, KindPending,
     Allocated, KindHonoured, NotShared, Private, CallersAgree, Calling,
     LoadHit, Resolve, is_initialized, Unresolved, shared
<1>. QED  BY <1>1, <1>2, <1>3, <1>4, <1>5, <1>6, <1>7, <1>8, <1>9 DEF IInv

(* The invariant is kept when to_host finds an initializer. *)
LEMMA LoadMissIInv ==
  ASSUME IInv, NEW t \in Threads, NEW o \in Objects, LoadMiss(t, o)
  PROVE  IInv'
<1>1. Allocated' /\ KindHonoured' /\ NotShared' /\ Private' /\ CallersAgree'
  BY DEF IInv, Allocated, KindHonoured, NotShared, Private, CallersAgree,
     LoadMiss, is_initialized, Unresolved, shared
<1>2. TypeOK'
  BY DEF IInv, TypeOK, PC, LoadMiss, is_initialized, Unresolved, shared
<1>3. Frames'
  BY DEF IInv, TypeOK, Frames, Creating, Calling, Initing, Destroying, Owning,
     Holding, LoadMiss, is_initialized, Unresolved
<1>4. Discipline'
  BY DEF IInv, Discipline, Creating, Calling, Initing, Destroying, Owning,
     LoadMiss, is_initialized, Unresolved, shared
<1>5. Pending'
  BY DEF IInv, TypeOK, Pending, LoadMiss, is_initialized, Unresolved, shared
<1>6. Dying'
  BY DEF IInv, Dying, Destroying, LoadMiss, is_initialized, Unresolved, shared
<1>7. KindPending'
  BY DEF IInv, KindPending, Data0, LoadMiss, is_initialized, Unresolved,
     shared
<1>. QED  BY <1>1, <1>2, <1>3, <1>4, <1>5, <1>6, <1>7 DEF IInv

(* The invariant is kept when to_host reads the initializer value. *)
LEMMA ReadInitValueIInv ==
  ASSUME IInv, NEW t \in Threads, ReadInitValue(t)
  PROVE  IInv'
<1>1. Allocated' /\ KindHonoured' /\ NotShared' /\ Private' /\ CallersAgree'
  BY DEF IInv, Allocated, KindHonoured, NotShared, Private, CallersAgree,
     ReadInitValue, shared
<1>2. TypeOK'
  BY StaticInitAssumption DEF IInv, TypeOK, Zero, Kinds, Data0, PC,
     ReadInitValue, shared
<1>3. Frames'
  BY DEF IInv, Frames, Creating, Calling, Initing, Destroying, Owning,
     Holding, ReadInitValue
<1>4. Discipline'
  BY DEF IInv, Discipline, Creating, Calling, Initing, Destroying, Owning,
     ReadInitValue, shared
<1>5. Pending'
  BY DEF IInv, Pending, ReadInitValue, shared
<1>6. Dying'
  BY DEF IInv, Dying, Destroying, ReadInitValue, shared
<1>7. KindPending'
  BY DEF IInv, TypeOK, Frames, Discipline, KindPending, Zero, AttrKind, Data0,
     Creating, Calling, ReadInitValue, shared
<1>. QED  BY <1>1, <1>2, <1>3, <1>4, <1>5, <1>6, <1>7 DEF IInv

(* The invariant is kept when *_static_initializer makes a host object. *)
LEMMA CreateIInv ==
  ASSUME IInv, NEW t \in Threads, NEW a \in Addrs, Create(t, a)
  PROVE  IInv'
<1>1. NotShared'
  BY DEF IInv, NotShared, Create
<1>2. TypeOK'
  BY DEF IInv, TypeOK, Kinds, AttrKind, PC, Create
<1>3. Frames'
  BY StaticInitAssumption DEF IInv, TypeOK, Frames, Creating, Calling,
     Initing, Destroying, Owning, Holding, Create
<1>4. Discipline'
  BY DEF IInv, Discipline, Creating, Calling, Initing, Destroying, Owning,
     Create
<1>5. Pending'
  BY DEF IInv, Pending, Create
<1>6. Dying'
  BY DEF IInv, Dying, Destroying, Create
<1>7. KindPending'
  BY DEF IInv, TypeOK, Frames, KindPending, Kinds, KindsOf, AttrKind, Data0,
     Creating, Initing, Owning, Create
<1>8. Allocated'
  BY DEF IInv, Allocated, Create
<1>9. KindHonoured'
  <2>1. \A o \in Objects : word[o] \in Addrs => word[o] # a
    BY DEF IInv, Allocated, Create
  <2>. QED  BY <2>1 DEF IInv, TypeOK, KindHonoured, Create
<1>10. Private'
  BY DEF IInv, TypeOK, Frames, Discipline, Allocated, NotShared, Private,
     AttrKind, Create
<1>11. CallersAgree'
  BY DEF IInv, CallersAgree, Kinds, Create
<1>. QED  BY <1>1, <1>2, <1>3, <1>4, <1>5, <1>6, <1>7, <1>8, <1>9, <1>10,
             <1>11 DEF IInv

(* The invariant is kept when the host's *_init fails in *_static_initializer. *)
LEMMA CreateFailsIInv ==
  ASSUME IInv, NEW t \in Threads, NEW a \in Addrs, CreateFails(t, a)
  PROVE  IInv'
<1>1. NotShared'
  BY DEF IInv, NotShared, CreateFails, Leave
<1>2. TypeOK'
  BY DEF IInv, TypeOK, Zero, Kinds, PC, CreateFails, Leave
<1>3. Frames'
  BY DEF IInv, TypeOK, Frames, Creating, Initing, Destroying, Owning, Holding,
     CreateFails, Leave
<1>4. Discipline'
  BY DEF IInv, TypeOK, Discipline, Initing, Destroying, Owning, CreateFails,
     Leave
<1>5. Pending'
  BY DEF IInv, TypeOK, Pending, CreateFails, Leave
<1>6. Dying'
  BY StaticInitAssumption DEF IInv, Dying, Destroying, CreateFails, Leave
<1>7. KindPending'
  BY DEF IInv, TypeOK, Frames, Discipline, KindPending, Allocated, NotShared,
     Private, Data0, Initing, Holding, CreateFails, Leave
<1>8. Allocated'
  BY DEF IInv, Allocated, CreateFails, Leave
<1>9. KindHonoured'
  BY DEF IInv, Frames, Discipline, Allocated, KindHonoured, NotShared,
     Private, CreateFails, Leave
<1>10. Private'
  BY DEF IInv, Private, CreateFails, Leave
<1>11. CallersAgree'
  BY DEF IInv, CallersAgree, Kinds, CreateFails, Leave
<1>. QED  BY <1>1, <1>2, <1>3, <1>4, <1>5, <1>6, <1>7, <1>8, <1>9, <1>10,
             <1>11 DEF IInv

(* The invariant is kept when the compare-and-swap publishes. *)
LEMMA PublishWinsIInv ==
  ASSUME IInv, NEW t \in Threads, PublishWins(t)
  PROVE  IInv'
<1>1. TypeOK'
  BY DEF IInv, TypeOK, Frames, Zero, Kinds, PC, Creating, Holding,
     PublishWins, Resolve, Unresolved
<1>2. Frames'
  BY DEF IInv, TypeOK, Frames, Creating, Calling, Initing, Destroying, Owning,
     Holding, PublishWins, Resolve, Unresolved
<1>3. Discipline'
  BY DEF IInv, Discipline, Creating, Calling, Initing, Destroying, Owning,
     PublishWins, Resolve, Unresolved
<1>4. Pending'
  BY StaticInitAssumption DEF IInv, TypeOK, Frames, Pending, Holding,
     PublishWins, Resolve, Unresolved
<1>5. Dying'
  BY StaticInitAssumption DEF IInv, Frames, Discipline, Dying, Creating,
     Destroying, Owning, PublishWins, Resolve, Unresolved
<1>6. KindPending'
  BY DEF IInv, TypeOK, Frames, KindPending, Data0, Holding, PublishWins,
     Resolve, Unresolved
<1>7. Allocated'
  BY DEF IInv, Frames, Discipline, Allocated, NotShared, Private, Holding,
     PublishWins, Resolve, Unresolved
<1>8. KindHonoured'
  BY StaticInitAssumption DEF IInv, Frames, Discipline, Pending, KindPending,
     KindHonoured, PublishWins, Resolve, Unresolved
<1>9. NotShared'
  BY DEF IInv, Frames, Discipline, Allocated, NotShared, Private, Holding,
     PublishWins, Resolve, Unresolved
<1>10. Private'
  BY DEF IInv, TypeOK, Private, PublishWins, Resolve, Unresolved
<1>11. CallersAgree'
  BY StaticInitAssumption DEF IInv, TypeOK, Frames, Discipline, Pending,
     Dying, KindPending, Allocated, KindHonoured, NotShared, Private,
     CallersAgree, PublishWins, Resolve, Unresolved
<1>. QED  BY <1>1, <1>2, <1>3, <1>4, <1>5, <1>6, <1>7, <1>8, <1>9, <1>10,
             <1>11 DEF IInv

(* The invariant is kept when the compare-and-swap fails. *)
LEMMA PublishLosesIInv ==
  ASSUME IInv, NEW t \in Threads, PublishLoses(t)
  PROVE  IInv'
<1>1. Allocated' /\ KindHonoured' /\ NotShared' /\ Private' /\ CallersAgree'
  BY DEF IInv, Allocated, KindHonoured, NotShared, Private, CallersAgree,
     PublishLoses, shared
<1>2. TypeOK'
  BY DEF IInv, TypeOK, Frames, PC, Creating, PublishLoses, shared
<1>3. Frames'
  BY DEF IInv, Frames, Creating, Calling, Initing, Destroying, Owning,
     Holding, PublishLoses
<1>4. Discipline'
  BY DEF IInv, Discipline, Creating, Calling, Initing, Destroying, Owning,
     PublishLoses, shared
<1>5. Pending'
  BY DEF IInv, TypeOK, Pending, PublishLoses, shared
<1>6. Dying'
  BY DEF IInv, Dying, Destroying, PublishLoses, shared
<1>7. KindPending'
  BY DEF IInv, KindPending, Data0, PublishLoses, shared
<1>. QED  BY <1>1, <1>2, <1>3, <1>4, <1>5, <1>6, <1>7 DEF IInv

(* The invariant is kept when the loser frees its object. *)
LEMMA DiscardIInv ==
  ASSUME IInv, NEW t \in Threads, Discard(t)
  PROVE  IInv'
<1>0. DiscardFinds(t)
  BY DEF IInv, Pending, Discard, DiscardFinds, is_initialized
<1>1. NotShared'
  BY <1>0 DEF IInv, NotShared, DiscardFinds, Resolve, Unresolved
<1>2. TypeOK'
  BY <1>0 DEF IInv, TypeOK, Frames, Zero, Kinds, PC, Creating, Holding, DiscardFinds,
     Resolve, Unresolved
<1>3. Frames'
  BY <1>0, StaticInitAssumption DEF IInv, TypeOK, Frames, Creating, Calling,
     Initing, Destroying, Owning, Holding, DiscardFinds, Resolve,
     Unresolved
<1>4. Discipline'
  BY <1>0 DEF IInv, Discipline, Creating, Calling, Initing, Destroying, Owning,
     DiscardFinds, Resolve, Unresolved
<1>5. Pending'
  BY <1>0 DEF IInv, TypeOK, Pending, DiscardFinds, Resolve, Unresolved
<1>6. Dying'
  BY <1>0, StaticInitAssumption DEF IInv, Frames, Discipline, Dying, Allocated,
     NotShared, Private, Destroying, Owning, DiscardFinds, Resolve,
     Unresolved
<1>7. KindPending'
  BY <1>0 DEF IInv, Frames, Discipline, KindPending, Allocated, NotShared, Private,
     Data0, Holding, DiscardFinds, Resolve, Unresolved
<1>8. Allocated'
  BY <1>0 DEF IInv, Frames, Discipline, Allocated, NotShared, Private, Holding,
     DiscardFinds, Resolve, Unresolved
<1>9. KindHonoured'
  BY <1>0 DEF IInv, Frames, Discipline, Allocated, KindHonoured, NotShared,
     Private, Holding, DiscardFinds, Resolve, Unresolved
<1>10. Private'
  BY <1>0 DEF IInv, TypeOK, Private, DiscardFinds, Resolve, Unresolved
<1>11. CallersAgree'
  BY <1>0 DEF IInv, TypeOK, Frames, Discipline, Pending, Dying, KindPending,
     Allocated, KindHonoured, NotShared, Private, CallersAgree, Creating,
     Calling, DiscardFinds, Resolve, Unresolved
<1>. QED  BY <1>1, <1>2, <1>3, <1>4, <1>5, <1>6, <1>7, <1>8, <1>9, <1>10,
             <1>11 DEF IInv

(* The invariant is kept when the host call returns. *)
LEMMA ReturnIInv ==
  ASSUME IInv, NEW t \in Threads, Return(t)
  PROVE  IInv'
<1>1. Allocated' /\ KindHonoured' /\ NotShared'
  BY DEF IInv, Allocated, KindHonoured, NotShared, Return, Leave, shared
<1>2. TypeOK'
  BY DEF IInv, TypeOK, Zero, Kinds, PC, Return, Leave, shared
<1>3. Frames'
  BY DEF IInv, TypeOK, Frames, Creating, Initing, Destroying, Owning, Holding,
     Return, Leave
<1>4. Discipline'
  BY DEF IInv, TypeOK, Discipline, Initing, Destroying, Owning, Return, Leave,
     shared
<1>5. Pending'
  BY DEF IInv, Pending, Return, Leave, shared
<1>6. Dying'
  BY StaticInitAssumption DEF IInv, Dying, Destroying, Return, Leave, shared
<1>7. KindPending'
  BY DEF IInv, KindPending, Data0, Return, Leave, shared
<1>8. Private'
  BY DEF IInv, Private, Return, Leave, shared
<1>9. CallersAgree'
  BY DEF IInv, CallersAgree, Return, Leave, shared
<1>. QED  BY <1>1, <1>2, <1>3, <1>4, <1>5, <1>6, <1>7, <1>8, <1>9 DEF IInv

(* The invariant is kept when a call starts. *)
LEMMA CallIInv ==
  ASSUME IInv, NEW t \in Threads, NEW S \in SUBSET Objects, Call(t, S)
  PROVE  IInv'
<1>1. Allocated' /\ KindHonoured' /\ NotShared' /\ Private' /\ CallersAgree'
  BY DEF IInv, Allocated, KindHonoured, NotShared, Private, CallersAgree,
     Call, shared
<1>2. TypeOK'
  BY DEF IInv, TypeOK, PC, Call, shared
<1>3. Frames'
  BY DEF IInv, TypeOK, Frames, Creating, Initing, Destroying, Owning, Holding,
     Call
<1>4. Pending'
  BY DEF IInv, Pending, Call, shared
<1>5. Dying'
  BY DEF IInv, Dying, Destroying, Call, shared
<1>6. KindPending'
  BY DEF IInv, KindPending, Data0, Call, shared
<1>7. Discipline'
  <2>1. /\ pc' = [pc EXCEPT ![t] = "load"] /\ args' = [args EXCEPT ![t] = S]
        /\ UNCHANGED <<live, cur>> /\ pc[t] = "idle" /\ \A o \in S : live[o]
    BY DEF Call, shared
  <2>2. /\ pc \in [Threads -> PC] /\ args \in [Threads -> SUBSET Objects]
        /\ live \in [Objects -> BOOLEAN]
    BY DEF IInv, TypeOK
  <2>3. \A r \in Threads : \A o \in args'[r] : live'[o] <=> pc'[r] \in Calling
    BY <2>1, <2>2 DEF IInv, Discipline, Calling
  <2>4. ASSUME NEW r \in Threads, pc[r] \in Owning
        PROVE  /\ r # t /\ cur[r] \notin S
               /\ \A s \in Threads : s # r => cur[r] \notin args[s]
    <3>1. cur[r] \in args[r] /\ pc[r] \notin Calling
      BY <2>4 DEF IInv, Frames, Owning, Initing, Destroying, Calling, Creating
    <3>2. ~live[cur[r]]
      BY <3>1 DEF IInv, Discipline
    <3>. QED
      BY <2>1, <2>4, <3>2 DEF IInv, Discipline, Owning, Initing, Destroying
  <2>5. \A r, s \in Threads : s # r /\ pc'[r] \in Owning => cur'[r] \notin args'[s]
    BY <2>1, <2>2, <2>4 DEF Owning, Initing, Destroying
  <2>. QED  BY <2>3, <2>5 DEF Discipline
<1>. QED  BY <1>1, <1>2, <1>3, <1>4, <1>5, <1>6, <1>7 DEF IInv

(* The invariant is kept when a static initializer is stored. *)
LEMMA ConstructIInv ==
  ASSUME IInv, NEW o \in Objects, NEW k \in KindsOf(o), Construct(o, k)
  PROVE  IInv'
<1>1. Frames'
  BY DEF IInv, Frames, Construct, InCall, locals
<1>2. TypeOK'
  BY DEF IInv, TypeOK, Zero, Kinds, KindsOf, Construct, InCall, locals
<1>3. Discipline'
  BY DEF IInv, Discipline, Construct, InCall, locals
<1>4. Pending'
  BY DEF IInv, Frames, Pending, Creating, Construct, InCall, locals
<1>5. Dying'
  BY StaticInitAssumption DEF IInv, Frames, Dying, Zero, Kinds, KindsOf,
     Destroying, Owning, Construct, InCall, locals
<1>6. KindPending'
  BY DEF IInv, TypeOK, Frames, KindPending, Kinds, KindsOf, AttrKind, Data0,
     Creating, Initing, Owning, Construct, InCall, locals
<1>7. Allocated'
  BY StaticInitAssumption DEF IInv, Allocated, Zero, Kinds, KindsOf,
     Construct, InCall, locals
<1>8. KindHonoured'
  BY StaticInitAssumption DEF IInv, TypeOK, KindHonoured, Zero, Kinds,
     KindsOf, Construct, InCall, locals
<1>9. NotShared'
  BY StaticInitAssumption DEF IInv, NotShared, Zero, Kinds, KindsOf,
     Construct, InCall, locals
<1>10. Private'
  BY StaticInitAssumption DEF IInv, TypeOK, Private, Zero, Kinds, KindsOf,
     Construct, InCall, locals
<1>11. CallersAgree'
  BY DEF IInv, Frames, CallersAgree, Construct, InCall, locals
<1>. QED  BY <1>1, <1>2, <1>3, <1>4, <1>5, <1>6, <1>7, <1>8, <1>9, <1>10,
             <1>11 DEF IInv

(* The invariant is kept when pthread_*_init allocates. *)
LEMMA InitAllocIInv ==
  ASSUME IInv, NEW t \in Threads, NEW o \in Objects, NEW a \in Addrs, NEW k
         \in KindsOf(o), InitAlloc(t, o, k, a)
  PROVE  IInv'
<1>1. NotShared'
  BY DEF IInv, NotShared, InitAlloc, InCall
<1>2. TypeOK'
  BY DEF IInv, TypeOK, Kinds, KindsOf, PC, InitAlloc, InCall
<1>3. Frames'
  BY StaticInitAssumption DEF IInv, TypeOK, Frames, Initing, Holding,
     InitAlloc, InCall
<1>4. Discipline'
  BY DEF IInv, TypeOK, Frames, Discipline, Creating, Calling, InitAlloc,
     InCall
<1>5. Pending'
  BY DEF IInv, Pending, InitAlloc, InCall
<1>6. Dying'
  BY DEF IInv, Dying, Destroying, InitAlloc, InCall
<1>7. KindPending'
  BY DEF IInv, TypeOK, Frames, Discipline, KindPending, Allocated, NotShared,
     Private, Kinds, KindsOf, AttrKind, Data0, Creating, Initing, Owning,
     Holding, InitAlloc, InCall
<1>8. Allocated'
  BY DEF IInv, Allocated, InitAlloc, InCall
<1>9. KindHonoured'
  BY StaticInitAssumption DEF IInv, TypeOK, KindHonoured, Kinds, KindsOf, PC,
     InitAlloc, InCall
<1>10. Private'
  BY DEF IInv, TypeOK, Frames, Discipline, Allocated, NotShared, Private,
     InitAlloc, InCall
<1>11. CallersAgree'
  BY DEF IInv, CallersAgree, Kinds, InitAlloc, InCall
<1>. QED  BY <1>1, <1>2, <1>3, <1>4, <1>5, <1>6, <1>7, <1>8, <1>9, <1>10,
             <1>11 DEF IInv

(* The invariant is kept when pthread_*_init calls the host. *)
LEMMA InitHostIInv ==
  ASSUME IInv, NEW t \in Threads, InitHost(t)
  PROVE  IInv'
<1>1. NotShared'
  BY DEF IInv, NotShared, InitHost
<1>2. TypeOK'
  BY DEF IInv, TypeOK, Frames, Kinds, AttrKind, PC, Initing, Holding, InitHost
<1>3. Frames'
  BY DEF IInv, Frames, Calling, Initing, Owning, Holding, InitHost
<1>4. Discipline'
  BY DEF IInv, Discipline, Creating, Calling, Initing, Owning, InitHost
<1>5. Pending'
  BY DEF IInv, Pending, InitHost
<1>6. Dying'
  BY DEF IInv, Dying, AttrKind, Destroying, InitHost
<1>7. KindPending'
  BY DEF IInv, TypeOK, Frames, Discipline, KindPending, Allocated, NotShared,
     Private, Data0, Initing, Holding, InitHost
<1>8. Allocated'
  BY DEF IInv, Allocated, AttrKind, InitHost
<1>9. KindHonoured'
  BY DEF IInv, Frames, Discipline, Allocated, KindHonoured, NotShared,
     Private, Initing, Holding, InitHost
<1>10. Private'
  BY DEF IInv, Private, AttrKind, InitHost
<1>11. CallersAgree'
  BY DEF IInv, CallersAgree, Kinds, AttrKind, InitHost
<1>. QED  BY <1>1, <1>2, <1>3, <1>4, <1>5, <1>6, <1>7, <1>8, <1>9, <1>10,
             <1>11 DEF IInv

(* The invariant is kept when the host's *_init fails in pthread_*_init. *)
LEMMA InitHostFailsIInv ==
  ASSUME IInv, NEW t \in Threads, InitHostFails(t)
  PROVE  IInv'
<1>1. NotShared'
  BY DEF IInv, NotShared, InitHostFails, Leave
<1>2. TypeOK'
  BY DEF IInv, TypeOK, Frames, Zero, Kinds, PC, Initing, Holding,
     InitHostFails, Leave
<1>3. Frames'
  BY DEF IInv, TypeOK, Frames, Creating, Initing, Destroying, Owning, Holding,
     InitHostFails, Leave
<1>4. Discipline'
  BY DEF IInv, TypeOK, Discipline, Initing, Destroying, Owning, InitHostFails,
     Leave
<1>5. Pending'
  BY DEF IInv, Pending, InitHostFails, Leave
<1>6. Dying'
  BY StaticInitAssumption DEF IInv, Frames, Discipline, Dying, Allocated,
     NotShared, Private, Destroying, Owning, InitHostFails, Leave
<1>7. KindPending'
  BY DEF IInv, TypeOK, Frames, Discipline, KindPending, Allocated, NotShared,
     Private, Data0, Initing, Holding, InitHostFails, Leave
<1>8. Allocated'
  BY DEF IInv, Frames, Discipline, Allocated, NotShared, Private, Initing,
     Holding, InitHostFails, Leave
<1>9. KindHonoured'
  BY DEF IInv, Frames, Discipline, Allocated, KindHonoured, NotShared,
     Private, Initing, Holding, InitHostFails, Leave
<1>10. Private'
  BY DEF IInv, TypeOK, Private, InitHostFails, Leave
<1>11. CallersAgree'
  BY DEF IInv, Frames, Discipline, Allocated, NotShared, Private,
     CallersAgree, InitHostFails, Leave
<1>. QED  BY <1>1, <1>2, <1>3, <1>4, <1>5, <1>6, <1>7, <1>8, <1>9, <1>10,
             <1>11 DEF IInv

(* The invariant is kept when pthread_*_init stores the word. *)
LEMMA InitStoreIInv ==
  ASSUME IInv, NEW t \in Threads, InitStore(t)
  PROVE  IInv'
<1>1. TypeOK'
  BY DEF IInv, TypeOK, Frames, Zero, Kinds, PC, Initing, Owning, Holding,
     InitStore, Leave
<1>2. Frames'
  BY DEF IInv, TypeOK, Frames, Creating, Initing, Destroying, Owning, Holding,
     InitStore, Leave
<1>3. Discipline'
  BY DEF IInv, TypeOK, Discipline, Initing, Destroying, Owning, InitStore,
     Leave
<1>4. Pending'
  BY DEF IInv, Frames, Discipline, Pending, Creating, Initing, Owning,
     InitStore, Leave
<1>5. Dying'
  BY StaticInitAssumption DEF IInv, Frames, Discipline, Dying, Initing,
     Destroying, Owning, InitStore, Leave
<1>6. KindPending'
  BY DEF IInv, TypeOK, Frames, KindPending, Data0, Initing, Holding,
     InitStore, Leave
<1>7. Allocated'
  BY DEF IInv, Frames, Discipline, Allocated, NotShared, Private, Initing,
     Holding, InitStore, Leave
<1>8. KindHonoured'
  BY DEF IInv, TypeOK, Frames, Discipline, Pending, KindPending, KindHonoured,
     InitStore, Leave
<1>9. NotShared'
  BY DEF IInv, Frames, Discipline, Allocated, NotShared, Private, Initing,
     Holding, InitStore, Leave
<1>10. Private'
  BY DEF IInv, TypeOK, Private, InitStore, Leave
<1>11. CallersAgree'
  BY DEF IInv, TypeOK, Frames, Discipline, CallersAgree, Initing, Owning,
     InitStore, Leave
<1>. QED  BY <1>1, <1>2, <1>3, <1>4, <1>5, <1>6, <1>7, <1>8, <1>9, <1>10,
             <1>11 DEF IInv

(* The invariant is kept when pthread_*_destroy of an object without host object. *)
LEMMA DestroyNothingIInv ==
  ASSUME IInv, NEW t \in Threads, NEW o \in Objects, DestroyNothing(t, o)
  PROVE  IInv'
<1>1. Frames' /\ Pending' /\ Dying' /\ Allocated' /\ NotShared' /\ Private' /\ CallersAgree'
  BY DEF IInv, Frames, Pending, Dying, Allocated, NotShared, Private,
     CallersAgree, DestroyNothing, InCall, is_initialized, locals
<1>2. TypeOK'
  BY DEF IInv, TypeOK, DestroyNothing, InCall, is_initialized, locals
<1>3. Discipline'
  BY DEF IInv, Discipline, DestroyNothing, InCall, is_initialized, locals
<1>4. KindPending'
  BY DEF IInv, KindPending, Data0, DestroyNothing, InCall, is_initialized,
     locals
<1>5. KindHonoured'
  BY DEF IInv, KindHonoured, DestroyNothing, InCall, is_initialized, locals
<1>. QED  BY <1>1, <1>2, <1>3, <1>4, <1>5 DEF IInv

(* The invariant is kept when pthread_*_destroy loads the word. *)
LEMMA DestroyLoadIInv ==
  ASSUME IInv, NEW t \in Threads, NEW o \in Objects, DestroyLoad(t, o)
  PROVE  IInv'
<1>1. Allocated' /\ NotShared' /\ Private' /\ CallersAgree'
  BY DEF IInv, Allocated, NotShared, Private, CallersAgree, DestroyLoad,
     InCall, is_initialized
<1>2. TypeOK'
  BY DEF IInv, TypeOK, PC, DestroyLoad, InCall, is_initialized
<1>3. Frames'
  BY DEF IInv, TypeOK, Frames, Initing, Holding, DestroyLoad, InCall,
     is_initialized
<1>4. Discipline'
  BY DEF IInv, TypeOK, Frames, Discipline, Creating, Calling, DestroyLoad,
     InCall, is_initialized
<1>5. Pending'
  BY DEF IInv, Pending, DestroyLoad, InCall, is_initialized
<1>6. Dying'
  BY DEF IInv, TypeOK, Frames, Discipline, Dying, Allocated, NotShared,
     Private, DestroyLoad, InCall, is_initialized
<1>7. KindPending'
  BY DEF IInv, KindPending, Data0, DestroyLoad, InCall, is_initialized
<1>8. KindHonoured'
  BY DEF IInv, KindHonoured, DestroyLoad, InCall, is_initialized
<1>. QED  BY <1>1, <1>2, <1>3, <1>4, <1>5, <1>6, <1>7, <1>8 DEF IInv

(* The invariant is kept when pthread_*_destroy calls the host. *)
LEMMA DestroyHostIInv ==
  ASSUME IInv, NEW t \in Threads, DestroyHost(t)
  PROVE  IInv'
<1>1. NotShared'
  BY DEF IInv, NotShared, DestroyHost
<1>2. TypeOK'
  BY DEF IInv, TypeOK, Frames, Discipline, Dying, NotShared, PC, Destroying,
     DestroyHost
<1>3. Frames'
  BY DEF IInv, Frames, Calling, Initing, Destroying, Owning, Holding,
     DestroyHost
<1>4. Discipline'
  BY DEF IInv, Discipline, Creating, Calling, Destroying, Owning, DestroyHost
<1>5. Pending'
  BY DEF IInv, Pending, DestroyHost
<1>6. Dying'
  BY DEF IInv, Dying, Destroying, DestroyHost
<1>7. KindPending'
  BY DEF IInv, Frames, Discipline, Pending, Dying, KindPending, Allocated,
     KindHonoured, NotShared, Private, CallersAgree, Data0, Initing,
     Destroying, Owning, Holding, DestroyHost
<1>8. Allocated'
  BY DEF IInv, Allocated, DestroyHost
<1>9. Private'
  BY DEF IInv, Private, DestroyHost
<1>10. CallersAgree'
  BY DEF IInv, Frames, Discipline, Dying, NotShared, CallersAgree, Creating,
     Calling, Destroying, Owning, DestroyHost
<1>11. KindHonoured'
  <2>1. ~live[cur[t]] /\ word[cur[t]] = payload[t] /\ cur[t] \in Objects
    BY DEF DestroyHost, IInv, Frames, Discipline, Dying, Owning, Destroying, Calling, Creating
  <2>2. \A o \in Objects : live[o] /\ word[o] \in Addrs => word[o] # payload[t]
    BY <2>1 DEF IInv, NotShared
  <2>. QED
    BY <2>2 DEF DestroyHost, IInv, TypeOK, KindHonoured
<1>. QED  BY <1>1, <1>2, <1>3, <1>4, <1>5, <1>6, <1>7, <1>8, <1>9, <1>10,
             <1>11 DEF IInv

(* The invariant is kept when pthread_*_destroy stores 0. *)
LEMMA DestroyStoreIInv ==
  ASSUME IInv, NEW t \in Threads, DestroyStore(t)
  PROVE  IInv'
<1>1. TypeOK'
  BY DEF IInv, TypeOK, Frames, Zero, Kinds, PC, Destroying, Owning,
     DestroyStore
<1>2. Frames'
  BY DEF IInv, Frames, Calling, Initing, Destroying, Owning, Holding,
     DestroyStore
<1>3. Discipline'
  BY DEF IInv, Discipline, Creating, Calling, Destroying, Owning, DestroyStore
<1>4. Pending'
  BY DEF IInv, Frames, Discipline, Pending, Creating, Destroying, Owning,
     DestroyStore
<1>5. Dying'
  BY StaticInitAssumption DEF IInv, TypeOK, Frames, Discipline, Dying,
     Allocated, NotShared, Private, Zero, Kinds, PC, Creating, Calling,
     Initing, Destroying, Owning, DestroyStore
<1>6. Allocated'
  BY StaticInitAssumption DEF IInv, Allocated, Zero, Kinds, DestroyStore
<1>7. KindHonoured'
  BY StaticInitAssumption DEF IInv, KindHonoured, Zero, Kinds, DestroyStore
<1>8. NotShared'
  BY StaticInitAssumption DEF IInv, NotShared, Zero, Kinds, DestroyStore
<1>9. Private'
  BY StaticInitAssumption DEF IInv, TypeOK, Private, Zero, Kinds, DestroyStore
<1>10. CallersAgree'
  BY StaticInitAssumption DEF IInv, Frames, Discipline, CallersAgree, Kinds,
     PC, Creating, Calling, Initing, Destroying, Owning, DestroyStore
<1>11. KindPending'
  <2>1. /\ pc[t] = "destroy_store" /\ pc' = [pc EXCEPT ![t] = "destroy_free"]
        /\ word' = [word EXCEPT ![cur[t]] = Zero]
        /\ UNCHANGED <<header, live, asked, heap, cur, init_value, host_ptr>>
    BY DEF DestroyStore
  <2>2. /\ pc \in [Threads -> PC] /\ word \in [Objects -> Kinds \cup Addrs]
    BY DEF IInv, TypeOK
  <2>3. ~live[cur[t]] /\ cur[t] \in Objects
    BY <2>1 DEF IInv, Frames, Discipline, Owning, Destroying, Calling, Creating
  <2>4. ASSUME NEW s \in Threads, pc[s] \in {"create", "publish"}
        PROVE  s # t /\ cur[s] # cur[t] /\ cur[s] \in Objects
    BY <2>1, <2>4 DEF IInv, TypeOK, Frames, Discipline, Owning, Destroying, Creating
  <2>5. ASSUME NEW o \in Objects PROVE
          /\ asked'[o] \in KindsOf(o)
          /\ live'[o] /\ word'[o] \notin Addrs =>
               asked'[o] = IF o \in Mutexes THEN AttrKind(Data0(o)') ELSE "normal"
    <3>1. CASE o = cur[t]
      BY <2>1, <2>3, <3>1 DEF IInv, KindPending
    <3>2. CASE o # cur[t]
      <4>1. word'[o] = word[o] /\ Data0(o)' = Data0(o)
        BY <2>1, <2>2, <3>2 DEF Data0
      <4>. QED  BY <2>1, <4>1 DEF IInv, KindPending
    <3>. QED  BY <3>1, <3>2
  <2>6. ASSUME NEW s \in Threads PROVE
          /\ pc'[s] = "create" => \/ word'[cur'[s]] \in Addrs
                                  \/ AttrKind(init_value'[s]) = asked'[cur'[s]]
          /\ pc'[s] = "publish" => \/ word'[cur'[s]] \in Addrs
                                   \/ heap'[host_ptr'[s]] = asked'[cur'[s]]
          /\ pc'[s] = "init_host" => AttrKind(init_value'[s]) = asked'[cur'[s]]
          /\ pc'[s] = "init_store" => heap'[host_ptr'[s]] = asked'[cur'[s]]
    BY <2>1, <2>2, <2>4 DEF IInv, KindPending
  <2>. QED  BY <2>5, <2>6 DEF KindPending
<1>. QED  BY <1>1, <1>2, <1>3, <1>4, <1>5, <1>6, <1>7, <1>8, <1>9, <1>10,
             <1>11 DEF IInv

(* The invariant is kept when pthread_*_destroy frees. *)
LEMMA DestroyFreeIInv ==
  ASSUME IInv, NEW t \in Threads, DestroyFree(t)
  PROVE  IInv'
<1>1. NotShared'
  BY DEF IInv, NotShared, DestroyFree, Leave
<1>2. TypeOK'
  BY DEF IInv, TypeOK, Frames, Discipline, Dying, NotShared, Zero, Kinds, PC,
     Destroying, DestroyFree, Leave
<1>3. Frames'
  BY DEF IInv, TypeOK, Frames, Creating, Initing, Destroying, Owning, Holding,
     DestroyFree, Leave
<1>4. Discipline'
  BY DEF IInv, TypeOK, Discipline, Initing, Destroying, Owning, DestroyFree,
     Leave
<1>5. Pending'
  BY DEF IInv, Pending, DestroyFree, Leave
<1>6. Dying'
  BY StaticInitAssumption DEF IInv, TypeOK, Frames, Dying, Destroying, Owning,
     DestroyFree, Leave
<1>7. KindPending'
  BY DEF IInv, Frames, Discipline, Dying, KindPending, NotShared, Data0,
     DestroyFree, Leave
<1>8. Allocated'
  BY DEF IInv, Frames, Discipline, Dying, Allocated, NotShared, DestroyFree,
     Leave
<1>9. KindHonoured'
  BY DEF IInv, Frames, Discipline, Dying, KindHonoured, NotShared,
     DestroyFree, Leave
<1>10. Private'
  BY DEF IInv, Frames, Discipline, Dying, NotShared, Private, DestroyFree,
     Leave
<1>11. CallersAgree'
  BY DEF IInv, Frames, Discipline, Dying, NotShared, CallersAgree,
     DestroyFree, Leave
<1>. QED  BY <1>1, <1>2, <1>3, <1>4, <1>5, <1>6, <1>7, <1>8, <1>9, <1>10,
             <1>11 DEF IInv

(* Every step keeps the invariant. *)
LEMMA NextIInv == IInv /\ [Next]_vars => IInv'
<1> SUFFICES ASSUME IInv, [Next]_vars PROVE IInv'
  OBVIOUS
<1>1. CASE ConstructStep
  BY <1>1, ConstructIInv DEF ConstructStep
<1>2. ASSUME NEW t \in Threads, NEW S \in SUBSET Objects, Call(t, S) PROVE IInv'
  BY <1>2, CallIInv
<1>3. ASSUME NEW t \in Threads, ToHostStep(t) PROVE IInv'
  BY <1>3, LoadHitIInv, LoadMissIInv, ReadInitValueIInv, CreateIInv,
     CreateFailsIInv, PublishWinsIInv, PublishLosesIInv, DiscardIInv DEF ToHostStep
<1>4. ASSUME NEW t \in Threads, Return(t) PROVE IInv'
  BY <1>4, ReturnIInv
<1>5. ASSUME NEW t \in Threads, LifeStep(t) PROVE IInv'
  BY <1>5, InitAllocIInv, InitHostIInv, InitHostFailsIInv, InitStoreIInv,
     DestroyNothingIInv, DestroyLoadIInv, DestroyHostIInv, DestroyStoreIInv,
     DestroyFreeIInv DEF LifeStep
<1>6. CASE UNCHANGED vars
  BY <1>6 DEF vars, shared, locals, IInv, TypeOK, Frames, Discipline, Pending,
     Dying, KindPending, Allocated, KindHonoured, NotShared, Private,
     CallersAgree, Data0
<1>. QED
  BY <1>1, <1>2, <1>3, <1>4, <1>5, <1>6 DEF Next

(* The inductive invariant holds in every behaviour. *)
THEOREM StaticInitInvariant == Spec => []IInv
BY InitIInv, NextIInv, PTL DEF Spec

(* Every variable keeps its type. *)
THEOREM TypeCorrect == Spec => []TypeOK
<1>1. IInv => TypeOK
  BY DEF IInv
<1>. QED  BY <1>1, StaticInitInvariant, PTL

(* However many threads race in *_static_initializer, every call resolves   *)
(* the host object the word holds, and that object is initialized.          *)
THEOREM AllCallersAgree == Spec => []CallersAgree
<1>1. IInv => CallersAgree
  BY DEF IInv
<1>. QED  BY <1>1, StaticInitInvariant, PTL

(* The host mutex has the kind its initializer or its attribute asked for,  *)
(* on 32 bit as well, where the second read in to_host may see an address.  *)
THEOREM KindIsHonoured == Spec => []KindHonoured
<1>1. IInv => KindHonoured
  BY DEF IInv
<1>. QED  BY <1>1, StaticInitInvariant, PTL

(* No host object is behind two bionic objects, and nobody but the call that *)
(* made an unpublished object can reach it, through every destroy and re-use *)
(* of memory.                                                                *)
THEOREM HostObjectHasOneOwner == Spec => []OneOwner
<1>1. IInv => OneOwner
  BY DEF IInv, OneOwner
<1>. QED  BY <1>1, StaticInitInvariant, PTL

(* The handle_runtime_error calls after a lost compare-and-swap are dead. *)
THEOREM LoserAlwaysFindsWinner == Spec => []LoserFindsWinner
<1>1. IInv => LoserFindsWinner
  BY DEF IInv, Pending, LoserFindsWinner, is_initialized
<1>. QED  BY <1>1, StaticInitInvariant, PTL

(* No step of any call replaces a published host object while the            *)
(* application may use its bionic object.                                    *)
THEOREM PublishedWordIsKept == Spec => PublishedIsKept
<1> DEFINE Kept == \A o \in Objects :
                     live[o] /\ word[o] \in Addrs => live'[o] = FALSE \/ word'[o] = word[o]
<1>1. ASSUME IInv, Next PROVE Kept
  <2>1. word \in [Objects -> Kinds \cup Addrs] /\ live \in [Objects -> BOOLEAN]
    BY <1>1 DEF IInv, TypeOK
  <2>2. ASSUME NEW t \in Threads, PublishWins(t) PROVE Kept
    <3>1. word[cur[t]] \notin Addrs
      BY <1>1, <2>2, StaticInitAssumption DEF PublishWins, IInv, Pending
    <3>2. word' = [word EXCEPT ![cur[t]] = host_ptr[t]] /\ live' = live
      BY <2>2 DEF PublishWins
    <3>. QED  BY <2>1, <3>1, <3>2
  <2>3. ASSUME NEW t \in Threads, InitStore(t) \/ DestroyStore(t) PROVE Kept
    <3>1. cur[t] \in Objects /\ ~live[cur[t]]
      BY <1>1, <2>3 DEF IInv, Frames, Discipline, Owning, Initing, Destroying,
         Calling, Creating, InitStore, DestroyStore
    <3>2. \A o \in Objects : o # cur[t] => word'[o] = word[o]
      BY <2>1, <2>3 DEF InitStore, DestroyStore
    <3>. QED  BY <3>1, <3>2
  <2>4. ASSUME NEW p \in Objects, NEW k \in KindsOf(p), Construct(p, k) PROVE Kept
    BY <2>1, <2>4 DEF Construct
  <2>5. ASSUME word' = word PROVE Kept
    BY <2>5
  <2>6. CASE ConstructStep
    BY <2>4, <2>6 DEF ConstructStep
  <2>7. ASSUME NEW t \in Threads, ToHostStep(t) PROVE Kept
    BY <2>2, <2>5, <2>7 DEF ToHostStep, LoadHit, LoadMiss, ReadInitValue, Create,
       CreateFails, PublishLoses, Discard, Leave, Resolve, shared
  <2>8. ASSUME NEW t \in Threads, LifeStep(t) PROVE Kept
    BY <2>3, <2>5, <2>8 DEF LifeStep, InitAlloc, InitHost, InitHostFails,
       DestroyNothing, DestroyLoad, DestroyHost, DestroyFree
  <2>9. ASSUME NEW t \in Threads, Return(t) \/ \E S \in SUBSET Objects : Call(t, S)
        PROVE  Kept
    BY <2>5, <2>9 DEF Return, Call, shared
  <2>. QED  BY <1>1, <2>6, <2>7, <2>8, <2>9 DEF Next
<1>2. IInv /\ [Next]_vars => [Kept]_vars
  BY <1>1
<1>. QED  BY <1>2, StaticInitInvariant, PTL DEF Spec, PublishedIsKept

-----------------------------------------------------------------------------
(* Leaks.  A word that is out of use holds an address only while its object *)
(* is being destroyed, so nothing is lost when it is written again.         *)
Clean ==
  \A o \in Objects :
    ~live[o] /\ word[o] \in Addrs =>
      \E t \in Threads : pc[t] \in {"destroy_host", "destroy_store"} /\ cur[t] = o

Held(a) ==
  \/ \E o \in Objects : word[o] = a
  \/ \E t \in Threads : host_ptr[t] = a
  \/ \E t \in Threads : pc[t] = "destroy_free" /\ payload[t] = a

NoneLost == \A a \in Addrs : heap[a] # "free" => Held(a) \/ a \in lost

LEMMA CleanKept ==
  ASSUME IInv, Clean, Next
  PROVE  Clean'
<1>1. /\ word \in [Objects -> Kinds \cup Addrs] /\ live \in [Objects -> BOOLEAN]
      /\ pc \in [Threads -> PC] /\ cur \in [Threads -> Objects \cup {NoAddr}]
      /\ Addrs \cap Kinds = {} /\ NoAddr \notin Objects /\ Zero \in Kinds
  BY StaticInitAssumption DEF IInv, TypeOK, Zero, Kinds
<1>2. ASSUME NEW o \in Objects, NEW k \in KindsOf(o), Construct(o, k)
      PROVE  Clean'
  <2>1. live' = [live EXCEPT ![o] = TRUE] /\ UNCHANGED <<pc, cur>>
        /\ \A q \in Objects : q # o => word'[q] = word[q]
    BY <1>1, <1>2 DEF Construct, locals
  <2> QED BY <1>1, <2>1 DEF Clean
<1>3. ASSUME NEW t \in Threads, ToHostStep(t)
      PROVE  Clean'
  <2>1. CASE PublishWins(t)
    <3>1. /\ \A q \in Objects : q # cur[t] => word'[q] = word[q]
          /\ live' = live /\ live[cur[t]] /\ cur[t] \in Objects
      BY <1>1, <2>1 DEF PublishWins, IInv, Frames, Discipline, Creating, Calling, TypeOK
    <3>2. /\ pc[t] = "publish"
          /\ \A s \in Threads \ {t} : pc'[s] = pc[s] /\ cur'[s] = cur[s]
      BY <1>1, <2>1 DEF PublishWins, Resolve
    <3> QED BY <1>1, <3>1, <3>2 DEF Clean
  <2>2. CASE ~PublishWins(t)
    <3>1. UNCHANGED <<word, live>> /\ pc[t] \notin {"destroy_host", "destroy_store"}
          /\ \A s \in Threads \ {t} : pc'[s] = pc[s] /\ cur'[s] = cur[s]
      BY <1>1, <1>3, <2>2 DEF ToHostStep, LoadHit, LoadMiss, ReadInitValue, Create,
         CreateFails, PublishLoses, Discard, Resolve, Leave, shared
    <3> QED BY <3>1 DEF Clean
  <2> QED BY <2>1, <2>2
<1>4. ASSUME NEW t \in Threads, Return(t) \/ \E S \in SUBSET Objects : Call(t, S)
      PROVE  Clean'
  <2>1. UNCHANGED <<word, live>> /\ pc[t] \notin {"destroy_host", "destroy_store"}
        /\ \A s \in Threads \ {t} : pc'[s] = pc[s] /\ cur'[s] = cur[s]
    BY <1>1, <1>4 DEF Return, Call, Leave, shared
  <2> QED BY <2>1 DEF Clean
<1>5. ASSUME NEW t \in Threads, LifeStep(t)
      PROVE  Clean'
  <2>1. CASE \/ \E o \in Objects, a \in Addrs : \E k \in KindsOf(o) : InitAlloc(t, o, k, a)
             \/ InitHost(t) \/ InitHostFails(t) \/ DestroyFree(t)
    <3>1. UNCHANGED <<word, live>> /\ pc[t] \notin {"destroy_host", "destroy_store"}
          /\ \A s \in Threads \ {t} : pc'[s] = pc[s] /\ cur'[s] = cur[s]
      BY <1>1, <2>1 DEF InitAlloc, InitHost, InitHostFails, DestroyFree, Leave
    <3> QED BY <3>1 DEF Clean
  <2>2. CASE InitStore(t)
    <3>1. /\ cur[t] \in Objects /\ live' = [live EXCEPT ![cur[t]] = TRUE]
          /\ \A q \in Objects : q # cur[t] => word'[q] = word[q]
          /\ pc[t] = "init_store"
          /\ \A s \in Threads \ {t} : pc'[s] = pc[s] /\ cur'[s] = cur[s]
      BY <1>1, <2>2 DEF InitStore, Leave, IInv, Frames, Owning, Initing
    <3> QED BY <1>1, <3>1 DEF Clean
  <2>3. ASSUME NEW o \in Objects, DestroyNothing(t, o) PROVE Clean'
    <3>1. word[o] \notin Addrs /\ live' = [live EXCEPT ![o] = FALSE]
          /\ UNCHANGED <<word, pc, cur>>
      BY <2>3 DEF DestroyNothing, is_initialized, locals
    <3> QED BY <1>1, <3>1 DEF Clean
  <2>4. ASSUME NEW o \in Objects, DestroyLoad(t, o) PROVE Clean'
    <3>1. live' = [live EXCEPT ![o] = FALSE] /\ UNCHANGED word
          /\ pc'[t] = "destroy_host" /\ cur'[t] = o /\ pc[t] = "idle"
          /\ \A s \in Threads \ {t} : pc'[s] = pc[s] /\ cur'[s] = cur[s]
      BY <1>1, <2>4 DEF DestroyLoad
    <3> QED BY <1>1, <3>1 DEF Clean
  <2>5. CASE DestroyHost(t)
    <3>1. UNCHANGED <<word, live, cur>> /\ pc'[t] = "destroy_store"
          /\ \A s \in Threads \ {t} : pc'[s] = pc[s]
      BY <1>1, <2>5 DEF DestroyHost
    <3> QED BY <3>1 DEF Clean
  <2>6. CASE DestroyStore(t)
    <3>1. /\ UNCHANGED <<live, cur>> /\ cur[t] \in Objects /\ word'[cur[t]] = Zero
          /\ \A q \in Objects : q # cur[t] => word'[q] = word[q]
          /\ \A s \in Threads \ {t} : pc'[s] = pc[s]
      BY <1>1, <2>6 DEF DestroyStore, IInv, Frames, Owning, Destroying
    <3> QED BY <1>1, <3>1 DEF Clean
  <2> QED BY <1>5, <2>1, <2>2, <2>3, <2>4, <2>5, <2>6 DEF LifeStep
<1> QED BY <1>2, <1>3, <1>4, <1>5 DEF Next, ConstructStep

(* A step that leaves the words alone, and of the other locals only those of *)
(* a thread that holds no memory. *)
LEMMA NoneLostKept ==
  ASSUME IInv, NoneLost, NEW t \in Threads, UNCHANGED word, lost \subseteq lost',
         host_ptr[t] = NoAddr, pc[t] # "destroy_free",
         \A s \in Threads \ {t} :
           host_ptr'[s] = host_ptr[s] /\ pc'[s] = pc[s] /\ payload'[s] = payload[s],
         \A a \in Addrs : heap'[a] # "free" =>
           heap[a] # "free" \/ host_ptr'[t] = a \/ a \in lost'
  PROVE  NoneLost'
BY StaticInitAssumption DEF NoneLost, Held

LEMMA NoneLostToHost ==
  ASSUME IInv, NoneLost, NEW t \in Threads, ToHostStep(t)
  PROVE  NoneLost'
<1>1. /\ word \in [Objects -> Kinds \cup Addrs] /\ heap \in [Addrs -> Kinds \cup {"free", "raw"}]
      /\ pc \in [Threads -> PC] /\ payload \in [Threads -> Kinds \cup Addrs]
      /\ host_ptr \in [Threads -> Addrs \cup {NoAddr}]
      /\ Addrs \cap Kinds = {} /\ NoAddr \notin Addrs
      /\ pc[t] \in Calling
      /\ pc[t] \notin {"publish", "discard"} => host_ptr[t] = NoAddr
  BY StaticInitAssumption DEF IInv, TypeOK, Frames, Holding, Initing, ToHostStep, LoadHit,
     LoadMiss, ReadInitValue, Create, CreateFails, PublishWins, PublishLoses, Discard,
     Calling, Creating
<1>2. CASE \E o \in Objects : LoadHit(t, o) \/ LoadMiss(t, o)
  BY <1>1, <1>2, NoneLostKept DEF LoadHit, LoadMiss, Resolve, shared, Calling, Creating
<1>3. CASE ReadInitValue(t)
  BY <1>1, <1>3, NoneLostKept DEF ReadInitValue, shared, Calling, Creating
<1>4. CASE \E a \in Addrs : Create(t, a) \/ CreateFails(t, a)
  BY <1>1, <1>4, NoneLostKept DEF Create, CreateFails, Leave, Calling, Creating
<1>5. CASE PublishWins(t)
  <2>1. /\ cur[t] \in Objects /\ word[cur[t]] \notin Addrs /\ host_ptr[t] \in Addrs
        /\ word' = [word EXCEPT ![cur[t]] = host_ptr[t]] /\ UNCHANGED <<heap, lost>>
        /\ pc[t] # "destroy_free"
        /\ \A s \in Threads \ {t} :
             host_ptr'[s] = host_ptr[s] /\ pc'[s] = pc[s] /\ payload'[s] = payload[s]
    BY <1>1, <1>5 DEF PublishWins, Resolve, IInv, Frames, Pending, Creating, Calling,
       Holding, TypeOK
  <2> QED BY <1>1, <2>1 DEF NoneLost, Held
<1>6. CASE PublishLoses(t)
  BY <1>1, <1>6 DEF NoneLost, Held, PublishLoses, shared
<1>7. CASE Discard(t)
  <2>1. DiscardFinds(t)
    BY <1>7 DEF IInv, Pending, Discard, DiscardFinds, is_initialized
  <2>2. /\ UNCHANGED <<word, lost>> /\ heap' = [heap EXCEPT ![host_ptr[t]] = "free"]
        /\ pc[t] # "destroy_free"
        /\ \A s \in Threads \ {t} :
             host_ptr'[s] = host_ptr[s] /\ pc'[s] = pc[s] /\ payload'[s] = payload[s]
    BY <1>1, <2>1 DEF DiscardFinds, Resolve
  <2> QED BY <1>1, <2>2 DEF NoneLost, Held
<1> QED BY <1>2, <1>3, <1>4, <1>5, <1>6, <1>7 DEF ToHostStep

LEMMA NoneLostLife ==
  ASSUME IInv, Clean, NoneLost, NEW t \in Threads, LifeStep(t)
  PROVE  NoneLost'
<1>1. /\ word \in [Objects -> Kinds \cup Addrs] /\ heap \in [Addrs -> Kinds \cup {"free", "raw"}]
      /\ pc \in [Threads -> PC] /\ payload \in [Threads -> Kinds \cup Addrs]
      /\ host_ptr \in [Threads -> Addrs \cup {NoAddr}]
      /\ Addrs \cap Kinds = {} /\ NoAddr \notin Addrs /\ Zero \in Kinds
      /\ pc[t] \notin Holding => host_ptr[t] = NoAddr
  BY StaticInitAssumption DEF IInv, TypeOK, Frames, Zero, Kinds
<1>2. CASE \E o \in Objects, a \in Addrs : \E k \in KindsOf(o) : InitAlloc(t, o, k, a)
  BY <1>1, <1>2, NoneLostKept DEF InitAlloc, Holding, Initing
<1>3. CASE InitHost(t)
  <2>1. /\ host_ptr[t] \in Addrs /\ UNCHANGED <<word, host_ptr, payload, lost>>
        /\ heap' = [heap EXCEPT ![host_ptr[t]] = AttrKind(init_value[t])]
        /\ pc[t] # "destroy_free" /\ \A s \in Threads \ {t} : pc'[s] = pc[s]
    BY <1>1, <1>3 DEF InitHost, IInv, Frames, Holding, Initing
  <2> QED BY <1>1, <2>1 DEF NoneLost, Held
<1>4. CASE InitHostFails(t)
  <2>1. /\ UNCHANGED <<word, lost>> /\ heap' = [heap EXCEPT ![host_ptr[t]] = "free"]
        /\ pc[t] # "destroy_free"
        /\ \A s \in Threads \ {t} :
             host_ptr'[s] = host_ptr[s] /\ pc'[s] = pc[s] /\ payload'[s] = payload[s]
    BY <1>1, <1>4 DEF InitHostFails, Leave
  <2> QED BY <1>1, <2>1 DEF NoneLost, Held
<1>5. CASE InitStore(t)
  <2>1. cur[t] \in Objects /\ ~live[cur[t]] /\ pc[t] = "init_store"
    BY <1>5 DEF InitStore, IInv, Frames, Discipline, Owning, Initing, Calling, Creating
  <2>2. word[cur[t]] \notin Addrs
    <3>1. \A s \in Threads : pc[s] \in {"destroy_host", "destroy_store"} => cur[s] # cur[t]
      BY <2>1 DEF IInv, Frames, Discipline, Owning, Initing, Destroying
    <3> QED BY <2>1, <3>1 DEF Clean
  <2>3. /\ word' = [word EXCEPT ![cur[t]] = host_ptr[t]] /\ UNCHANGED <<heap, lost>>
        /\ \A s \in Threads \ {t} :
             host_ptr'[s] = host_ptr[s] /\ pc'[s] = pc[s] /\ payload'[s] = payload[s]
    BY <1>1, <1>5 DEF InitStore, Leave
  <2> QED BY <1>1, <2>1, <2>2, <2>3 DEF NoneLost, Held
<1>6. CASE \E o \in Objects : DestroyNothing(t, o) \/ DestroyLoad(t, o)
  BY <1>1, <1>6, NoneLostKept DEF DestroyNothing, DestroyLoad, Holding, Initing, locals
<1>7. CASE DestroyHost(t)
  <2>1. heap[payload[t]] # "free" /\ payload[t] \in Addrs
    BY <1>7 DEF DestroyHost, IInv, Dying, Destroying
  <2> QED BY <1>1, <1>7, <2>1, NoneLostKept DEF DestroyHost, Holding, Initing
<1>8. CASE DestroyStore(t)
  <2>1. /\ cur[t] \in Objects /\ word[cur[t]] = payload[t]
        /\ word' = [word EXCEPT ![cur[t]] = Zero] /\ UNCHANGED <<heap, lost, host_ptr, payload>>
        /\ pc'[t] = "destroy_free" /\ \A s \in Threads \ {t} : pc'[s] = pc[s]
    BY <1>1, <1>8 DEF DestroyStore, IInv, Dying, Frames, Owning, Destroying
  <2> QED BY <1>1, <2>1 DEF NoneLost, Held
<1>9. CASE DestroyFree(t)
  <2>1. /\ UNCHANGED <<word, lost>> /\ heap' = [heap EXCEPT ![payload[t]] = "free"]
        /\ host_ptr[t] = NoAddr
        /\ \A s \in Threads \ {t} :
             host_ptr'[s] = host_ptr[s] /\ pc'[s] = pc[s] /\ payload'[s] = payload[s]
    BY <1>1, <1>9 DEF DestroyFree, Leave, Holding, Initing
  <2> QED BY <1>1, <2>1 DEF NoneLost, Held
<1> QED BY <1>2, <1>3, <1>4, <1>5, <1>6, <1>7, <1>8, <1>9 DEF LifeStep

(* No step of any call loses a host object, but for a failed *_init.        *)
LEMMA NoneLostNext ==
  ASSUME IInv, Clean, NoneLost, Next
  PROVE  NoneLost'
<1>1. ASSUME NEW o \in Objects, NEW k \in KindsOf(o), Construct(o, k)
      PROVE  NoneLost'
  <2>1. word[o] \notin Addrs
    <3>1. \A s \in Threads : pc[s] \in {"destroy_host", "destroy_store"} => cur[s] # o
      BY <1>1 DEF Construct, InCall, IInv, Frames, Owning, Destroying
    <3> QED BY <1>1, <3>1 DEF Clean, Construct
  <2>2. /\ \A q \in Objects \ {o} : word'[q] = word[q]
        /\ UNCHANGED <<heap, lost, host_ptr, pc, payload>>
    BY <1>1 DEF Construct, locals, IInv, TypeOK
  <2> QED BY <2>1, <2>2 DEF NoneLost, Held
<1>2. ASSUME NEW t \in Threads, Return(t) \/ \E S \in SUBSET Objects : Call(t, S)
      PROVE  NoneLost'
  <2>1. /\ UNCHANGED shared /\ host_ptr[t] = NoAddr /\ pc[t] # "destroy_free"
        /\ \A s \in Threads \ {t} :
             host_ptr'[s] = host_ptr[s] /\ pc'[s] = pc[s] /\ payload'[s] = payload[s]
    <3>1. pc[t] \in {"host", "idle"} /\ UNCHANGED shared
      BY <1>2 DEF Return, Call
    <3>2. host_ptr[t] = NoAddr
      BY <3>1 DEF IInv, Frames, Holding, Initing
    <3>3. \A s \in Threads \ {t} :
            host_ptr'[s] = host_ptr[s] /\ pc'[s] = pc[s] /\ payload'[s] = payload[s]
      BY <1>2 DEF Return, Call, Leave, IInv, TypeOK
    <3> QED BY <3>1, <3>2, <3>3
  <2>2. UNCHANGED <<word, heap, lost>>
    BY <2>1 DEF shared
  <2> QED BY <2>1, <2>2, StaticInitAssumption DEF NoneLost, Held
<1> QED BY <1>1, <1>2, NoneLostToHost, NoneLostLife DEF Next, ConstructStep

(* Every host object is behind a word or in the hands of a call until it is  *)
(* freed: racing creators, failed inits and destroys leave nothing behind,  *)
(* except where the exception of a failed creation drops its memory.        *)
THEOREM NothingLeaks == Spec => []NoLeak
<1> DEFINE LInv == IInv /\ Clean /\ NoneLost
<1>1. Init => LInv
  BY InitIInv, StaticInitAssumption DEF Init, Clean, NoneLost, Zero, Kinds
<1>2. LInv /\ [Next]_vars => LInv'
  <2>1. CASE Next
    BY <2>1, NextIInv, CleanKept, NoneLostNext
  <2>2. CASE UNCHANGED vars
    BY <2>2, NextIInv DEF vars, shared, locals, Clean, NoneLost, Held
  <2> QED BY <2>1, <2>2
<1>3. LInv => NoLeak
  BY DEF NoneLost, Held, NoLeak, Reachable
<1> QED BY <1>1, <1>2, <1>3, PTL DEF Spec

-----------------------------------------------------------------------------
(* What the steps of StaticInit leave of the objects that are in use. *)
Keeps ==
  \A o \in Objects :
    live[o] /\ live'[o] =>
      /\ asked'[o] = asked[o]
      /\ word[o] \in Addrs => word'[o] = word[o]

OthersKeep(t) ==
  \A s \in Threads \ {t} : pc'[s] = pc[s] /\ args'[s] = args[s]

(* A static initializer is stored, into an object that is not in use. *)
LEMMA ConstructEffect ==
  ASSUME IInv, NEW o \in Objects, NEW k \in KindsOf(o), Construct(o, k)
  PROVE  /\ ~live[o] /\ live' = [live EXCEPT ![o] = TRUE]
         /\ asked' = [asked EXCEPT ![o] = k] /\ k \in Kinds
         /\ UNCHANGED <<pc, args>> /\ Keeps
BY DEF Construct, IInv, TypeOK, Keeps, KindsOf, Kinds, locals

(* A step of to_host publishes a host object, or only its own thread moves. *)
LEMMA ToHostEffect ==
  ASSUME IInv, NEW t \in Threads, ToHostStep(t)
  PROVE  /\ UNCHANGED <<live, asked>> /\ Keeps /\ OthersKeep(t)
         /\ pc[t] \in Calling
         /\ \/ pc'[t] \in Calling /\ args' = args
            \/ pc'[t] = "idle" /\ args' = [args EXCEPT ![t] = {}]
<1>1. CASE \E o \in Objects : LoadHit(t, o) \/ LoadMiss(t, o)
  BY <1>1 DEF LoadHit, LoadMiss, Resolve, Keeps, OthersKeep, IInv, TypeOK, Calling,
     Creating, shared
<1>2. CASE ReadInitValue(t) \/ PublishLoses(t)
  BY <1>2 DEF ReadInitValue, PublishLoses, Keeps, OthersKeep, IInv, TypeOK, Calling,
     Creating, shared
<1>3. CASE \E a \in Addrs : Create(t, a) \/ CreateFails(t, a)
  BY <1>3 DEF Create, CreateFails, Leave, Keeps, OthersKeep, IInv, TypeOK, Calling,
     Creating
<1>4. CASE PublishWins(t)
  <2>1. cur[t] \in Objects /\ word[cur[t]] \notin Addrs
    BY <1>4, StaticInitAssumption DEF PublishWins, IInv, Pending, Frames, Creating, TypeOK
  <2> QED BY <1>4, <2>1 DEF PublishWins, Resolve, Keeps, OthersKeep, IInv, TypeOK,
       Calling, Creating
<1>5. CASE Discard(t)
  <2>1. DiscardFinds(t)
    BY <1>5 DEF IInv, Pending, Discard, DiscardFinds, is_initialized
  <2> QED BY <2>1 DEF DiscardFinds, Resolve, Keeps, OthersKeep, IInv, TypeOK,
       Calling, Creating
<1> QED BY <1>1, <1>2, <1>3, <1>4, <1>5 DEF ToHostStep

(* A step of init or destroy is made by a thread in no other call; it makes  *)
(* an object usable or takes it out of use, or does neither.                *)
LEMMA LifeEffect ==
  ASSUME IInv, NEW t \in Threads, LifeStep(t)
  PROVE  /\ Keeps /\ OthersKeep(t)
         /\ pc[t] \notin Calling /\ pc'[t] \notin Calling
         /\ \/ live' = live
            \/ \E o \in Objects : ~live[o] /\ live' = [live EXCEPT ![o] = TRUE]
            \/ \E o \in Objects : live[o] /\ ~InCall(o) /\ live' = [live EXCEPT ![o] = FALSE]
<1>1. CASE \E o \in Objects, a \in Addrs : \E k \in KindsOf(o) : InitAlloc(t, o, k, a)
  BY <1>1 DEF InitAlloc, Keeps, OthersKeep, IInv, TypeOK, Calling, Creating
<1>2. CASE InitHost(t) \/ InitHostFails(t)
  BY <1>2 DEF InitHost, InitHostFails, Leave, Keeps, OthersKeep, IInv, TypeOK, Calling,
     Creating
<1>3. CASE InitStore(t)
  <2>1. cur[t] \in Objects /\ ~live[cur[t]]
    BY <1>3 DEF InitStore, IInv, Frames, Discipline, Owning, Initing, Calling, Creating
  <2> QED BY <1>3, <2>1 DEF InitStore, Leave, Keeps, OthersKeep, IInv, TypeOK, Calling,
       Creating
<1>4. CASE \E o \in Objects : DestroyNothing(t, o) \/ DestroyLoad(t, o)
  BY <1>4 DEF DestroyNothing, DestroyLoad, Keeps, OthersKeep, IInv, TypeOK, Calling,
     Creating, locals
<1>5. CASE DestroyHost(t) \/ DestroyFree(t)
  BY <1>5 DEF DestroyHost, DestroyFree, Leave, Keeps, OthersKeep, IInv, TypeOK, Calling,
     Creating
<1>6. CASE DestroyStore(t)
  <2>1. cur[t] \in Objects /\ ~live[cur[t]]
    BY <1>6 DEF DestroyStore, IInv, Frames, Discipline, Owning, Destroying, Calling,
       Creating
  <2> QED BY <1>6, <2>1 DEF DestroyStore, Keeps, OthersKeep, IInv, TypeOK, Calling,
       Creating
<1> QED BY <1>1, <1>2, <1>3, <1>4, <1>5, <1>6 DEF LifeStep
=============================================================================
