------------------------------ MODULE WaitLoop ------------------------------
(***************************************************************************)
(* An application that waits for a flag the usual way, with a mutex and a  *)
(* condition variable that are only statically initialized: every host     *)
(* object is created by whichever thread comes first (CondShim).  The      *)
(* application is external; it is here to ask whether it can hang.         *)
(***************************************************************************)
EXTENDS CondShim

CONSTANTS Consumers,   \* threads that wait for the flag; the others set it
          m, c         \* the mutex and the condition variable

ASSUME WaitLoopAssumption ==
  /\ Consumers \subseteq Threads
  /\ m \in Mutexes /\ c \in Conds

VARIABLES flag, app,
          due   \* how many consumers a signalling producer has still to wake

loopVars == <<condVars, flag, app, due>>

LInit ==
  /\ CInit
  /\ flag = FALSE
  /\ app = [t \in Threads |-> "start"]
  /\ due = Cardinality(Consumers)

(* Both objects hold their static initializers from the start. *)
Static ==
  /\ ~live[m] \/ ~live[c]
  /\ \E o \in {m, c} : Construct(o, "normal")
  /\ UNCHANGED <<mutexVars, wait, flag, app, due>>

(* lock; while (!flag) wait; unlock *)
Consume(t) ==
  \/ /\ app[t] = "start"
     /\ CallOp(t, m, "lock")
     /\ app' = [app EXCEPT ![t] = "locked"]
     /\ UNCHANGED <<wait, flag, due>>
  \/ /\ app[t] = "locked" /\ ~flag
     /\ \E f \in WaitOps : CallWait(t, c, m, f)
     /\ UNCHANGED <<flag, app, due>>
  \/ /\ app[t] = "locked" /\ flag
     /\ CallOp(t, m, "unlock")
     /\ app' = [app EXCEPT ![t] = "done"]
     /\ UNCHANGED <<wait, flag, due>>

(* Perhaps a first signal, before there is a flag and without the mutex, so *)
(* that it races with the first waits; then                                 *)
(* lock; flag = true; unlock; one broadcast, or a signal for each consumer. *)
Produce(t) ==
  \/ /\ app[t] = "start"
     /\ CallWake(t, c, "signal")
     /\ app' = [app EXCEPT ![t] = "nudged"]
     /\ UNCHANGED <<flag, due>>
  \/ /\ app[t] \in {"start", "nudged"}
     /\ CallOp(t, m, "lock")
     /\ app' = [app EXCEPT ![t] = "locked"]
     /\ UNCHANGED <<wait, flag, due>>
  \/ /\ app[t] = "locked"
     /\ flag' = TRUE
     /\ CallOp(t, m, "unlock")
     /\ app' = [app EXCEPT ![t] = "unlocked"]
     /\ UNCHANGED <<wait, due>>
  \/ /\ app[t] = "unlocked" /\ due > 0
     /\ \/ CallWake(t, c, "broadcast") /\ due' = 0
        \/ CallWake(t, c, "signal") /\ due' = due - 1
     /\ UNCHANGED <<flag, app>>

App(t) == IF t \in Consumers THEN Consume(t) ELSE Produce(t)

Shim(t) ==
  /\ (MToHost(t) /\ UNCHANGED wait) \/ CHostStep(t)
  /\ UNCHANGED <<flag, app, due>>

LNext ==
  \/ Static
  \/ \E t \in Threads :
       App(t) \/ Shim(t) \/ (HostWakes(t) /\ UNCHANGED <<flag, app, due>>)

(* Threads run, and a mutex that keeps becoming free is taken at last; *)
(* nothing is assumed of spurious wakeups.                             *)
LSpec ==
  /\ LInit /\ [][LNext]_loopVars
  /\ WF_loopVars(Static)
  /\ \A t \in Threads : WF_loopVars(App(t)) /\ SF_loopVars(Shim(t))

-----------------------------------------------------------------------------
(* Every consumer sees the flag and leaves: no wakeup is lost, although the *)
(* threads race to create the mutex, and a waiter and the first signal race *)
(* to create the condition variable the last wakeup is sent through.        *)
NoLostWakeup == <>(\A t \in Consumers : app[t] = "done")
=============================================================================
