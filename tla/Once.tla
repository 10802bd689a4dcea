-------------------------------- MODULE Once --------------------------------
(***************************************************************************)
(* pthread_once (pthreads.cpp 498-514): a control word that is 0, 1 while  *)
(* the first caller runs the routine, and 2 afterwards.  A routine may     *)
(* itself call pthread_once on other controls.                             *)
(***************************************************************************)
EXTENDS Integers, Sequences

CONSTANTS Threads, Controls,
          Nests    \* <<c, d>>: the routine of c may call pthread_once on d

ASSUME OnceAssumption == Nests \subseteq Controls \X Controls

VARIABLES
  control,   \* the word of each control
  at,        \* where each thread is in its call on each control
  stack,     \* the controls each thread is in calls on, innermost last
  runs,      \* how often each routine was started
  finished,  \* the routines that have returned
  seen       \* the controls each thread knows to be done: a call returned

vars == <<control, at, stack, runs, finished, seen>>

(* t executes its innermost call, which is on c and is at pc p. *)
Runs(t, c, p) ==
  /\ at[t][c] = p
  /\ stack[t] # <<>>
  /\ stack[t][Len(stack[t])] = c

(* The call on c returns to the routine, or the application, that made it. *)
Unwind(t, c) ==
  /\ at' = [at EXCEPT ![t][c] = "out"]
  /\ stack' = [stack EXCEPT ![t] = SubSeq(@, 1, Len(@) - 1)]

Returns(t, c) ==
  /\ Unwind(t, c)
  /\ seen' = [seen EXCEPT ![t] = @ \cup {c}]

Init ==
  /\ control = [c \in Controls |-> 0]
  /\ at = [t \in Threads |-> [c \in Controls |-> "out"]]
  /\ stack = [t \in Threads |-> <<>>]
  /\ runs = [c \in Controls |-> 0]
  /\ finished = {}
  /\ seen = [t \in Threads |-> {}]

(* The application, or a routine it runs, calls pthread_once on c. *)
Call(t, c) ==
  /\ at[t][c] = "out"
  /\ stack[t] # <<>> =>
       LET d == stack[t][Len(stack[t])] IN at[t][d] = "run" /\ <<d, c>> \in Nests
  /\ at' = [at EXCEPT ![t][c] = "cas"]
  /\ stack' = [stack EXCEPT ![t] = Append(@, c)]
  /\ UNCHANGED <<control, runs, finished, seen>>

(* Mutant: an atomic increment where the compare-and-swap is. *)
Win_Increments(t, c) ==
  /\ Runs(t, c, "cas")
  /\ control' = [control EXCEPT ![c] = @ + 1]
  /\ at' = [at EXCEPT ![t][c] = "run"]
  /\ runs' = [runs EXCEPT ![c] = @ + 1]
  /\ UNCHANGED <<stack, finished, seen>>

(* Mutant: only a finished routine is not run again. *)
Win_UnlessDone(t, c) ==
  /\ Runs(t, c, "cas")
  /\ control[c] # 2
  /\ control' = [control EXCEPT ![c] = 1]
  /\ at' = [at EXCEPT ![t][c] = "run"]
  /\ runs' = [runs EXCEPT ![c] = @ + 1]
  /\ UNCHANGED <<stack, finished, seen>>

(* The compare-and-swap of 0 by 1 succeeds: this thread runs the routine. *)
Win(t, c) ==
  /\ Runs(t, c, "cas")
  /\ control[c] = 0
  /\ control' = [control EXCEPT ![c] = 1]
  /\ at' = [at EXCEPT ![t][c] = "run"]
  /\ runs' = [runs EXCEPT ![c] = @ + 1]
  /\ UNCHANGED <<stack, finished, seen>>

(* It fails and loads 2: the routine is done. *)
FindDone(t, c) ==
  /\ Runs(t, c, "cas")
  /\ control[c] = 2
  /\ Returns(t, c)
  /\ UNCHANGED <<control, runs, finished>>

(* Mutant: nobody waits for the thread that runs the routine. *)
FindRunning_NoWait(t, c) ==
  /\ Runs(t, c, "cas")
  /\ control[c] = 1
  /\ Returns(t, c)
  /\ UNCHANGED <<control, runs, finished>>

(* It fails and loads 1: wait for the thread that runs the routine. *)
FindRunning(t, c) ==
  /\ Runs(t, c, "cas")
  /\ control[c] = 1
  /\ at' = [at EXCEPT ![t][c] = "spin"]
  /\ UNCHANGED <<control, stack, runs, finished, seen>>

(* The waiting loop's load no longer reads 1. *)
SpinEnds(t, c) ==
  /\ Runs(t, c, "spin")
  /\ control[c] # 1
  /\ Returns(t, c)
  /\ UNCHANGED <<control, runs, finished>>

(* The routine returns ... *)
RoutineReturns(t, c) ==
  /\ Runs(t, c, "run")
  /\ at' = [at EXCEPT ![t][c] = "store"]
  /\ finished' = finished \cup {c}
  /\ UNCHANGED <<control, stack, runs, seen>>

(* Mutant: the winner forgets the store. *)
Store_Missing(t, c) ==
  /\ Runs(t, c, "store")
  /\ Returns(t, c)
  /\ UNCHANGED <<control, runs, finished>>

(* ... and the winner stores 2 and returns. *)
Store(t, c) ==
  /\ Runs(t, c, "store")
  /\ control' = [control EXCEPT ![c] = 2]
  /\ Returns(t, c)
  /\ UNCHANGED <<runs, finished>>

(* The routine throws: nothing resets the control, which stays 1. *)
RoutineThrows(t, c) ==
  /\ Runs(t, c, "run")
  /\ Unwind(t, c)
  /\ UNCHANGED <<control, runs, finished, seen>>

(* The routine calls pthread_once on its own control and waits for itself. *)
RoutineRecurses(t, c) ==
  /\ Runs(t, c, "run")
  /\ at' = [at EXCEPT ![t][c] = "stuck"]
  /\ UNCHANGED <<control, stack, runs, finished, seen>>

(* The steps of the shim, and of a routine that returns. *)
Step(t) ==
  \E c \in Controls :
    \/ Win(t, c) \/ FindDone(t, c) \/ FindRunning(t, c) \/ SpinEnds(t, c)
    \/ RoutineReturns(t, c) \/ Store(t, c)

Next ==
  \E t \in Threads :
    \/ \E c \in Controls : Call(t, c) \/ RoutineThrows(t, c) \/ RoutineRecurses(t, c)
    \/ Step(t)

Spec == Init /\ [][Next]_vars

(* Every thread is scheduled, and a routine calls pthread_once finitely often *)
(* before it returns.                                                         *)
FairSpec ==
  /\ Spec
  /\ \A t \in Threads : /\ WF_vars(Step(t))
                        /\ \A c \in Controls : SF_vars(RoutineReturns(t, c))

-----------------------------------------------------------------------------
(* The type of every variable. *)
TypeOK ==
  /\ control \in [Controls -> {0, 1, 2}]
  /\ at \in [Threads -> [Controls -> {"out", "cas", "run", "store", "spin", "stuck"}]]
  /\ stack \in [Threads -> Seq(Controls)]
  /\ runs \in [Controls -> Nat]
  /\ finished \in SUBSET Controls
  /\ seen \in [Threads -> SUBSET Controls]

(* A routine is started at most once, whoever calls, also after it threw. *)
RunsOnce == \A c \in Controls : runs[c] <= 1

(* When any call on a control has returned normally, its routine has run to  *)
(* its end: the application may use what the routine made.                   *)
ReturnsAfterRun == \A t \in Threads : seen[t] \subseteq finished

(* A routine was started and will not end: it threw, or waits for itself. *)
Abandoned(c) ==
  c \notin finished /\ control[c] = 1 /\ \A t \in Threads : at[t][c] \notin {"run", "store"}

(* Every call returns unless some routine throws or waits for itself, when  *)
(* routines do not wait for each other in a circle.                         *)
CallsReturn ==
  \A t \in Threads : \A c \in Controls :
    at[t][c] = "cas" ~> at[t][c] = "out" \/ \E d \in Controls : Abandoned(d)
=============================================================================
