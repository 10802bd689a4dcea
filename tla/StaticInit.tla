----------------------------- MODULE StaticInit -----------------------------
(***************************************************************************)
(* The life of the host object behind a bionic mutex, condition variable   *)
(* or rwlock (pthreads.h 19-116, pthreads.cpp 34-105, 307-331, 369-392,    *)
(* 436-460).  The bionic object holds one payload word.  It is either an   *)
(* initializer value or the address of a host object; the first call that  *)
(* finds an initializer creates the host object and publishes its address  *)
(* with a compare-and-swap.  Several threads may be in that race.          *)
(*                                                                         *)
(* A thread that calls a pthread function resolves every bionic argument   *)
(* (to_host), in any order, then makes the host call.  What the host call  *)
(* does is left to the modules that extend this one.                       *)
(***************************************************************************)
EXTENDS Naturals, FiniteSets

CONSTANTS Threads,       \* the application's threads
          Objects,       \* the bionic objects
          Mutexes,       \* those of them that are mutexes
          Addrs,         \* the addresses malloc can return for host objects
          NoAddr,        \* no address
          LP64,          \* TRUE: the payload has a word of its own
          MaxLost        \* how many creations may fail in the host's *_init

Kinds == {"normal", "recursive", "errorcheck"}

\* The initializer value 0; pthread_*_destroy stores it back.
Zero == "normal"

ASSUME StaticInitAssumption ==
  /\ Mutexes \subseteq Objects
  /\ NoAddr \notin Addrs
  /\ NoAddr \notin Objects
  /\ Addrs \cap Kinds = {}
  /\ LP64 \in BOOLEAN
  /\ MaxLost \in Nat

VARIABLES
  word,        \* the payload word of each object
  header,      \* data[0] of each object where it is not the payload word
  live,        \* the application has initialized and not destroyed the object
  asked,       \* the kind the application asked for
  heap,        \* what malloc'ed memory holds: a host object's kind, or less
  lost,        \* host objects leaked by a failed host *_init
  pc,          \* where each thread is
  args,        \* the objects of the call each thread is in
  res,         \* the host pointers the call has resolved so far
  cur,         \* the object being resolved, initialized or destroyed
  payload,     \* the local of that name
  init_value,  \* the local of that name
  host_ptr     \* the locals mutex_ptr, cond_ptr, rwlock_ptr

shared == <<word, header, live, asked, heap, lost>>
locals == <<pc, args, res, cur, payload, init_value, host_ptr>>
vars   == <<shared, locals>>

-----------------------------------------------------------------------------
(* Mutant: the mask test accepts every value. *)
is_initialized_Always(v) == TRUE

(* Mutant: only the default initializer is known as one. *)
is_initialized_NonZero(v) == v # Zero

(* pthreads.h 52-59: the initializer values all lie inside the mask. *)
is_initialized(v) == v \in Addrs

(* What o->data[0] reads: on 32 bit it is the payload word itself. *)
Data0(o) == IF LP64 THEN header[o] ELSE word[o]

(* Mutant: the recursive initializer is forgotten. *)
AttrKind_NoRecursive(v) == IF v = "errorcheck" THEN v ELSE "normal"

(* pthreads.cpp 43-46: anything but the two special values is a default mutex. *)
AttrKind(v) == IF v \in {"recursive", "errorcheck"} THEN v ELSE "normal"

KindsOf(o) == IF o \in Mutexes THEN Kinds ELSE {"normal"}

InCall(o) == \E t \in Threads : o \in args[t]

Unresolved(t) == {o \in args[t] : res[t][o] = NoAddr}

(* The call of t is over, by a return or by an exception. *)
Leave(t) ==
  /\ pc' = [pc EXCEPT ![t] = "idle"]
  /\ args' = [args EXCEPT ![t] = {}]
  /\ res' = [res EXCEPT ![t] = [o \in Objects |-> NoAddr]]
  /\ cur' = [cur EXCEPT ![t] = NoAddr]
  /\ payload' = [payload EXCEPT ![t] = Zero]
  /\ init_value' = [init_value EXCEPT ![t] = Zero]
  /\ host_ptr' = [host_ptr EXCEPT ![t] = NoAddr]

(* to_host returns a for object o; the next argument, or the host call. *)
Resolve(t, o, a) ==
  /\ res' = [res EXCEPT ![t][o] = a]
  /\ pc' = [pc EXCEPT ![t] = IF Unresolved(t) = {o} THEN "host" ELSE "load"]
  /\ cur' = [cur EXCEPT ![t] = NoAddr]
  /\ payload' = [payload EXCEPT ![t] = Zero]
  /\ init_value' = [init_value EXCEPT ![t] = Zero]
  /\ host_ptr' = [host_ptr EXCEPT ![t] = NoAddr]

-----------------------------------------------------------------------------
Init ==
  /\ word = [o \in Objects |-> Zero]
  /\ header = [o \in Objects |-> Zero]
  /\ live = [o \in Objects |-> FALSE]
  /\ asked = [o \in Objects |-> "normal"]
  /\ heap = [a \in Addrs |-> "free"]
  /\ lost = {}
  /\ pc = [t \in Threads |-> "idle"]
  /\ args = [t \in Threads |-> {}]
  /\ res = [t \in Threads |-> [o \in Objects |-> NoAddr]]
  /\ cur = [t \in Threads |-> NoAddr]
  /\ payload = [t \in Threads |-> Zero]
  /\ init_value = [t \in Threads |-> Zero]
  /\ host_ptr = [t \in Threads |-> NoAddr]

(* The application stores a static initializer (PTHREAD_MUTEX_INITIALIZER   *)
(* and the like) into memory that holds no object.                          *)
Construct(o, k) ==
  /\ ~live[o]
  /\ ~InCall(o)
  /\ word' = [word EXCEPT ![o] = IF LP64 THEN Zero ELSE k]
  /\ header' = [header EXCEPT ![o] = k]
  /\ asked' = [asked EXCEPT ![o] = k]
  /\ live' = [live EXCEPT ![o] = TRUE]
  /\ UNCHANGED <<heap, lost, locals>>

(* A call on the objects S that resolves its arguments with to_host. *)
Call(t, S) ==
  /\ pc[t] = "idle"
  /\ S # {}
  /\ \A o \in S : live[o]
  /\ pc' = [pc EXCEPT ![t] = "load"]
  /\ args' = [args EXCEPT ![t] = S]
  /\ UNCHANGED <<shared, res, cur, payload, init_value, host_ptr>>

(* to_host: the relaxed load of the payload word.  It finds a host object, *)
LoadHit(t, o) ==
  /\ pc[t] = "load"
  /\ o \in Unresolved(t)
  /\ is_initialized(word[o])
  /\ Resolve(t, o, word[o])
  /\ UNCHANGED <<shared, args>>

(* or it does not. *)
LoadMiss(t, o) ==
  /\ pc[t] = "load"
  /\ o \in Unresolved(t)
  /\ ~is_initialized(word[o])
  /\ cur' = [cur EXCEPT ![t] = o]
  /\ payload' = [payload EXCEPT ![t] = word[o]]
  /\ pc' = [pc EXCEPT ![t] = "value"]
  /\ UNCHANGED <<shared, args, res, init_value, host_ptr>>

(* Mutant: the kind is taken from the payload word. *)
ReadInitValue_Payload(t) ==
  /\ pc[t] = "value"
  /\ init_value' = [init_value EXCEPT ![t] = payload[t]]
  /\ pc' = [pc EXCEPT ![t] = "create"]
  /\ UNCHANGED <<shared, args, res, cur, payload, host_ptr>>

(* to_host: the second read, of the initializer value, for a mutex. *)
ReadInitValue(t) ==
  /\ pc[t] = "value"
  /\ init_value' = [init_value EXCEPT ![t] =
                      IF cur[t] \in Mutexes THEN Data0(cur[t]) ELSE Zero]
  /\ pc' = [pc EXCEPT ![t] = "create"]
  /\ UNCHANGED <<shared, args, res, cur, payload, host_ptr>>

(* *_static_initializer: malloc, the attribute, the host's *_init. *)
Create(t, a) ==
  /\ pc[t] = "create"
  /\ heap[a] = "free"
  /\ heap' = [heap EXCEPT ![a] = AttrKind(init_value[t])]
  /\ host_ptr' = [host_ptr EXCEPT ![t] = a]
  /\ pc' = [pc EXCEPT ![t] = "publish"]
  /\ UNCHANGED <<word, header, live, asked, lost, args, res, cur, payload, init_value>>

(* The same when the host's *_init fails: handle_runtime_error throws. *)
CreateFails(t, a) ==
  /\ pc[t] = "create"
  /\ Cardinality(lost) < MaxLost
  /\ heap[a] = "free"
  /\ heap' = [heap EXCEPT ![a] = "raw"]
  /\ lost' = lost \cup {a}
  /\ Leave(t)
  /\ UNCHANGED <<word, header, live, asked>>

(* Mutant: a plain store where the compare-and-swap is. *)
PublishWins_Store(t) ==
  /\ pc[t] = "publish"
  /\ word' = [word EXCEPT ![cur[t]] = host_ptr[t]]
  /\ Resolve(t, cur[t], host_ptr[t])
  /\ UNCHANGED <<header, live, asked, heap, lost, args>>

(* The compare-and-swap publishes the new object, *)
PublishWins(t) ==
  LET o == cur[t] IN
  /\ pc[t] = "publish"
  /\ word[o] = payload[t]
  /\ word' = [word EXCEPT ![o] = host_ptr[t]]
  /\ Resolve(t, o, host_ptr[t])
  /\ UNCHANGED <<header, live, asked, heap, lost, args>>

(* Mutant: a failed compare-and-swap does not tell what it found. *)
PublishLoses_Stale(t) ==
  /\ pc[t] = "publish"
  /\ word[cur[t]] # payload[t]
  /\ pc' = [pc EXCEPT ![t] = "discard"]
  /\ UNCHANGED <<shared, args, res, cur, payload, init_value, host_ptr>>

(* or it fails and loads what another thread published. *)
PublishLoses(t) ==
  /\ pc[t] = "publish"
  /\ word[cur[t]] # payload[t]
  /\ payload' = [payload EXCEPT ![t] = word[cur[t]]]
  /\ pc' = [pc EXCEPT ![t] = "discard"]
  /\ UNCHANGED <<shared, args, res, cur, init_value, host_ptr>>

(* Mutant: the loser goes on with its own object. *)
Discard_KeepsOwn(t) ==
  /\ pc[t] = "discard"
  /\ Resolve(t, cur[t], host_ptr[t])
  /\ UNCHANGED <<shared, args>>

(* Mutant: the loser of a condition variable goes on with its own object. *)
Discard_CondKeepsOwn(t) ==
  IF cur[t] \in Mutexes
  THEN /\ pc[t] = "discard"
       /\ heap' = [heap EXCEPT ![host_ptr[t]] = "free"]
       /\ Resolve(t, cur[t], payload[t])
       /\ UNCHANGED <<word, header, live, asked, lost, args>>
  ELSE Discard_KeepsOwn(t)

(* Mutant: the loser's object is not freed. *)
Discard_NoFree(t) ==
  /\ pc[t] = "discard"
  /\ Resolve(t, cur[t], payload[t])
  /\ UNCHANGED <<shared, args>>

(* The loser frees its object and uses the winner's; without one, it throws. *)
Discard(t) ==
  /\ pc[t] = "discard"
  /\ heap' = [heap EXCEPT ![host_ptr[t]] = "free"]
  /\ IF is_initialized(payload[t])
     THEN Resolve(t, cur[t], payload[t]) /\ UNCHANGED args
     ELSE Leave(t)
  /\ UNCHANGED <<word, header, live, asked, lost>>

(* The host function has run and the call returns. *)
Return(t) ==
  /\ pc[t] = "host"
  /\ Leave(t)
  /\ UNCHANGED shared

-----------------------------------------------------------------------------
(* pthread_*_init: malloc. *)
InitAlloc(t, o, k, a) ==
  /\ pc[t] = "idle"
  /\ ~live[o]
  /\ ~InCall(o)
  /\ heap[a] = "free"
  /\ heap' = [heap EXCEPT ![a] = "raw"]
  /\ asked' = [asked EXCEPT ![o] = k]
  /\ init_value' = [init_value EXCEPT ![t] = k]
  /\ host_ptr' = [host_ptr EXCEPT ![t] = a]
  /\ cur' = [cur EXCEPT ![t] = o]
  /\ args' = [args EXCEPT ![t] = {o}]
  /\ pc' = [pc EXCEPT ![t] = "init_host"]
  /\ UNCHANGED <<word, header, live, lost, res, payload>>

(* ... the host's *_init; *)
InitHost(t) ==
  /\ pc[t] = "init_host"
  /\ heap' = [heap EXCEPT ![host_ptr[t]] = AttrKind(init_value[t])]
  /\ pc' = [pc EXCEPT ![t] = "init_store"]
  /\ UNCHANGED <<word, header, live, asked, lost, args, res, cur, payload,
                 init_value, host_ptr>>

(* when that fails, free and return its error; *)
InitHostFails(t) ==
  /\ MaxLost > 0
  /\ pc[t] = "init_host"
  /\ heap' = [heap EXCEPT ![host_ptr[t]] = "free"]
  /\ Leave(t)
  /\ UNCHANGED <<word, header, live, asked, lost>>

(* ... and the store of the payload word. *)
InitStore(t) ==
  /\ pc[t] = "init_store"
  /\ word' = [word EXCEPT ![cur[t]] = host_ptr[t]]
  /\ live' = [live EXCEPT ![cur[t]] = TRUE]
  /\ Leave(t)
  /\ UNCHANGED <<header, asked, heap, lost>>

(* pthread_*_destroy of an object no call ever resolved returns 0. *)
DestroyNothing(t, o) ==
  /\ pc[t] = "idle"
  /\ live[o]
  /\ ~InCall(o)
  /\ ~is_initialized(word[o])
  /\ live' = [live EXCEPT ![o] = FALSE]
  /\ UNCHANGED <<word, header, asked, heap, lost, locals>>

(* pthread_*_destroy of any other: the load of the payload word, *)
DestroyLoad(t, o) ==
  /\ pc[t] = "idle"
  /\ live[o]
  /\ ~InCall(o)
  /\ is_initialized(word[o])
  /\ live' = [live EXCEPT ![o] = FALSE]
  /\ payload' = [payload EXCEPT ![t] = word[o]]
  /\ cur' = [cur EXCEPT ![t] = o]
  /\ args' = [args EXCEPT ![t] = {o}]
  /\ pc' = [pc EXCEPT ![t] = "destroy_host"]
  /\ UNCHANGED <<word, header, asked, heap, lost, res, init_value, host_ptr>>

(* ... the host's *_destroy, whose result does not change what follows. *)
DestroyHost(t) ==
  /\ pc[t] = "destroy_host"
  /\ heap' = [heap EXCEPT ![payload[t]] = "raw"]
  /\ pc' = [pc EXCEPT ![t] = "destroy_store"]
  /\ UNCHANGED <<word, header, live, asked, lost, args, res, cur, payload,
                 init_value, host_ptr>>

(* Mutant: the destroyed object keeps its payload word. *)
DestroyStore_Skipped(t) ==
  /\ pc[t] = "destroy_store"
  /\ pc' = [pc EXCEPT ![t] = "destroy_free"]
  /\ UNCHANGED <<shared, args, res, cur, payload, init_value, host_ptr>>

(* ... the store of 0. *)
DestroyStore(t) ==
  /\ pc[t] = "destroy_store"
  /\ word' = [word EXCEPT ![cur[t]] = Zero]
  /\ pc' = [pc EXCEPT ![t] = "destroy_free"]
  /\ UNCHANGED <<header, live, asked, heap, lost, args, res, cur, payload,
                 init_value, host_ptr>>

(* ... and the free. *)
DestroyFree(t) ==
  /\ pc[t] = "destroy_free"
  /\ heap' = [heap EXCEPT ![payload[t]] = "free"]
  /\ Leave(t)
  /\ UNCHANGED <<word, header, live, asked, lost>>

-----------------------------------------------------------------------------
(* The steps of a thread inside to_host, shared with the extending modules. *)
ToHostStep(t) ==
  \/ \E o \in Objects : LoadHit(t, o) \/ LoadMiss(t, o)
  \/ ReadInitValue(t)
  \/ \E a \in Addrs : Create(t, a) \/ CreateFails(t, a)
  \/ PublishWins(t) \/ PublishLoses(t)
  \/ Discard(t)

(* The steps that bring objects into being and destroy them. *)
LifeStep(t) ==
  \/ \E o \in Objects, a \in Addrs : \E k \in KindsOf(o) : InitAlloc(t, o, k, a)
  \/ InitHost(t) \/ InitHostFails(t) \/ InitStore(t)
  \/ \E o \in Objects : DestroyNothing(t, o) \/ DestroyLoad(t, o)
  \/ DestroyHost(t) \/ DestroyStore(t) \/ DestroyFree(t)

ConstructStep == \E o \in Objects : \E k \in KindsOf(o) : Construct(o, k)

Next ==
  \/ ConstructStep
  \/ \E t \in Threads :
       \/ \E S \in SUBSET Objects : Call(t, S)
       \/ ToHostStep(t)
       \/ Return(t)
       \/ LifeStep(t)

Spec == Init /\ [][Next]_vars

-----------------------------------------------------------------------------
PC == {"idle", "load", "value", "create", "publish", "discard", "host",
       "init_host", "init_store", "destroy_host", "destroy_store", "destroy_free"}

(* The type of every variable. *)
TypeOK ==
  /\ word \in [Objects -> Kinds \cup Addrs]
  /\ header \in [Objects -> Kinds]
  /\ live \in [Objects -> BOOLEAN]
  /\ asked \in [Objects -> Kinds]
  /\ heap \in [Addrs -> Kinds \cup {"free", "raw"}]
  /\ lost \subseteq Addrs
  /\ pc \in [Threads -> PC]
  /\ args \in [Threads -> SUBSET Objects]
  /\ res \in [Threads -> [Objects -> Addrs \cup {NoAddr}]]
  /\ cur \in [Threads -> Objects \cup {NoAddr}]
  /\ payload \in [Threads -> Kinds \cup Addrs]
  /\ init_value \in [Threads -> Kinds \cup Addrs]
  /\ host_ptr \in [Threads -> Addrs \cup {NoAddr}]

(* Whatever host pointer a call has resolved for an object is the one every *)
(* other call resolves, and it points to an initialized host object: nobody *)
(* is handed the loser's object of the race in *_static_initializer, and    *)
(* nobody keeps a pointer that was freed.                                   *)
CallersAgree ==
  \A t \in Threads : \A o \in Objects :
    res[t][o] # NoAddr => /\ res[t][o] = word[o]
                          /\ heap[res[t][o]] \in Kinds

(* The host object behind a usable bionic object has the kind the           *)
(* application asked for, whichever thread created it and although the      *)
(* initializer value is read apart from the payload (pthreads.h 93-97).  On *)
(* 64 bit it is a word of its own; on 32 bit the second read can return     *)
(* another thread's host address.                                           *)
KindHonoured ==
  \A o \in Objects :
    live[o] /\ word[o] \in Addrs => heap[word[o]] = asked[o]

(* Two bionic objects never share a host object. *)
NotShared ==
  \A o, p \in Objects : o # p /\ word[o] = word[p] => word[o] \notin Addrs

(* A thread that still holds a host object it may yet publish or free is the *)
(* only one that can reach it.                                               *)
Private ==
  \A t \in Threads :
    host_ptr[t] # NoAddr =>
      /\ heap[host_ptr[t]] # "free"
      /\ \A o \in Objects : word[o] # host_ptr[t]
      /\ \A s \in Threads : s # t => host_ptr[s] # host_ptr[t]

(* A host object has one owner: the bionic object it is behind, or the call  *)
(* that has made it and not yet published it.                                *)
OneOwner == NotShared /\ Private

(* Memory reachable from a bionic word or from a call in progress. *)
Reachable ==
  {word[o] : o \in Objects} \cup {host_ptr[t] : t \in Threads}
    \cup {payload[t] : t \in {s \in Threads : pc[s] = "destroy_free"}}

(* Every host object that exists is reachable from the word it is behind or *)
(* from the call that is creating, discarding or freeing it; only the       *)
(* exception of a failed *_static_initializer leaks one.                    *)
NoLeak == \A a \in Addrs : heap[a] # "free" => a \in Reachable \cup lost

(* The loser of the compare-and-swap always finds a winner's object: "Failed *)
(* to init mutex by other thread" (pthreads.cpp 60, 81, 102) is unreachable. *)
LoserFindsWinner ==
  \A t \in Threads : pc[t] = "discard" => is_initialized(payload[t])

(* Once a host object is published the word keeps it for as long as the      *)
(* application may use the object: no call swaps it under another.           *)
PublishedIsKept ==
  [][\A o \in Objects :
       live[o] /\ word[o] \in Addrs => live'[o] = FALSE \/ word'[o] = word[o]]_vars
=============================================================================
