--------------------------- MODULE AbstractMutex ---------------------------
(***************************************************************************)
(* What the mutex half of pthreads.h promises the application: a bionic    *)
(* mutex is one lock of the kind it was given, whoever uses it first.  No  *)
(* host objects, no payload words: each call is one step.                  *)
(***************************************************************************)
EXTENDS Naturals

CONSTANTS Threads, Objects, Kinds, MaxDepth

VARIABLES live,  \* the mutexes that exist
          kind,  \* their kinds
          has,   \* how often each thread holds each mutex
          busy,  \* the mutex each thread is in a call on, as a set
          op,    \* that call
          ret    \* the result of each thread's last call

avars == <<live, kind, has, busy, op, ret>>

Ops == {"lock", "trylock", "unlock"}

FreeFor(t, o) == \A s \in Threads : s # t => has[s][o] = 0

AInit ==
  /\ live = {}
  /\ kind = [o \in Objects |-> "normal"]
  /\ has = [t \in Threads |-> [o \in Objects |-> 0]]
  /\ busy = [t \in Threads |-> {}]
  /\ op = [t \in Threads |-> "none"]
  /\ ret = [t \in Threads |-> "0"]

Make(o, k) ==
  /\ o \notin live
  /\ live' = live \cup {o}
  /\ kind' = [kind EXCEPT ![o] = k]
  /\ UNCHANGED <<has, busy, op, ret>>

(* Only a mutex nobody holds or uses is destroyed. *)
Destroy(o) ==
  /\ o \in live
  /\ \A t \in Threads : has[t][o] = 0 /\ o \notin busy[t]
  /\ live' = live \ {o}
  /\ kind' = [kind EXCEPT ![o] = "normal"]
  /\ UNCHANGED <<has, busy, op, ret>>

Begin(t, o, f) ==
  /\ busy[t] = {}
  /\ o \in live
  /\ busy' = [busy EXCEPT ![t] = {o}]
  /\ op' = [op EXCEPT ![t] = f]
  /\ UNCHANGED <<live, kind, has, ret>>

End(t, h, r) ==
  /\ has' = h
  /\ ret' = [ret EXCEPT ![t] = r]
  /\ busy' = [busy EXCEPT ![t] = {}]
  /\ op' = [op EXCEPT ![t] = "none"]
  /\ UNCHANGED <<live, kind>>

(* lock and trylock take a mutex no other thread holds. *)
Take(t, o) ==
  /\ op[t] \in {"lock", "trylock"}
  /\ FreeFor(t, o)
  /\ has[t][o] = 0 \/ (kind[o] = "recursive" /\ has[t][o] < MaxDepth)
  /\ End(t, [has EXCEPT ![t][o] = @ + 1], "0")

(* A recursive mutex's count has a limit. *)
Again(t, o) ==
  /\ op[t] \in {"lock", "trylock"}
  /\ kind[o] = "recursive" /\ has[t][o] = MaxDepth
  /\ End(t, has, "EAGAIN")

Busy(t, o) ==
  /\ op[t] = "trylock"
  /\ \/ ~FreeFor(t, o)
     \/ has[t][o] > 0 /\ kind[o] # "recursive"
  /\ End(t, has, "EBUSY")

Deadlock(t, o) ==
  /\ op[t] = "lock"
  /\ has[t][o] > 0 /\ kind[o] = "errorcheck"
  /\ End(t, has, "EDEADLK")

Release(t, o) ==
  /\ op[t] = "unlock"
  /\ has[t][o] > 0
  /\ End(t, [has EXCEPT ![t][o] = @ - 1], "0")

NotOwner(t, o) ==
  /\ op[t] = "unlock"
  /\ has[t][o] = 0 /\ kind[o] # "normal"
  /\ End(t, has, "EPERM")

(* A call ended by an exception changes nothing. *)
Throws(t) ==
  /\ busy[t] # {}
  /\ End(t, has, ret[t])

ANext ==
  \/ \E o \in Objects : Destroy(o) \/ \E k \in Kinds : Make(o, k)
  \/ \E t \in Threads :
       \/ \E o \in Objects, f \in Ops : Begin(t, o, f)
       \/ \E o \in busy[t] :
            \/ Take(t, o) \/ Again(t, o) \/ Busy(t, o) \/ Deadlock(t, o)
            \/ Release(t, o) \/ NotOwner(t, o)
       \/ Throws(t)

ASpec == AInit /\ [][ANext]_avars
=============================================================================
