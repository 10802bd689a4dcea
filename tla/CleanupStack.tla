---------------------------- MODULE CleanupStack ----------------------------
(***************************************************************************)
(* pthread_cleanup_push and pop and the run of the handlers left when the  *)
(* thread exits (pthreads.cpp 24-32, 485-496).  The list is thread-local   *)
(* and its nodes lie in the application's stack frames, so one thread is   *)
(* modelled.  A handler may push and pop handlers of its own, and one that *)
(* pop runs may exit the thread.  Frames are taken to stay readable until  *)
(* the exit has run.                                                       *)
(***************************************************************************)
EXTENDS Naturals, Sequences, SequencesExt

CONSTANTS Nodes,    \* addresses of pthread_cleanup_t
          Null,
          MaxPush   \* bound on the number of pushes

ASSUME CleanupAssumption == Null \notin Nodes /\ MaxPush \in Nat

VARIABLES
  current,  \* bionic::cleanup.current
  prev,     \* each node's prev
  routine,  \* each node's routine: the number of the push that wrote it
  frames,   \* nodes pushed and not popped, in the application's program order
  running,  \* handlers being run: their number and the frames they found
  p,        \* the destructor's local: the node whose handler is next
  exiting,  \* the destructor ~pthread_cleanup_holder is running
  pushes,   \* pushes so far
  ran,      \* how often each handler ran: 0, 1 or 2 for more often
  skipped   \* the handlers popped without being run

history == <<pushes, ran, skipped>>
stackVars == <<current, prev, routine, frames, running, p, exiting, history>>

Ids == 1 .. MaxPush

(* Mutant: the thread-local list head has no initial value. *)
StackInit_Unset ==
  /\ current = "garbage"
  /\ prev = [n \in Nodes |-> Null]
  /\ routine = [n \in Nodes |-> 0]
  /\ frames = <<>> /\ running = <<>>
  /\ p = Null /\ exiting = FALSE
  /\ pushes = 0 /\ ran = [id \in Ids |-> 0] /\ skipped = {}

StackInit ==
  /\ current = Null
  /\ prev = [n \in Nodes |-> Null]
  /\ routine = [n \in Nodes |-> 0]
  /\ frames = <<>> /\ running = <<>>
  /\ p = Null /\ exiting = FALSE
  /\ pushes = 0 /\ ran = [id \in Ids |-> 0] /\ skipped = {}

(* The application runs: no exit yet, or a handler of the exit runs. *)
AppRuns == exiting => running # <<>>

(* The frames a handler found are not its own to pop. *)
Base == IF running = <<>> THEN 0 ELSE Last(running).base

Run(id) ==
  /\ running' = Append(running, [id |-> id, base |-> Len(frames')])
  /\ ran' = [ran EXCEPT ![id] = IF @ = 0 THEN 1 ELSE 2]

(* pthread_cleanup_push_impl *)
Push(n) ==
  /\ AppRuns /\ pushes < MaxPush
  /\ n \notin ToSet(frames)
  /\ prev' = [prev EXCEPT ![n] = current]
  /\ routine' = [routine EXCEPT ![n] = pushes + 1]
  /\ current' = n
  /\ frames' = Append(frames, n)
  /\ pushes' = pushes + 1
  /\ UNCHANGED <<running, p, exiting, ran, skipped>>

(* Mutant: the node stays linked while its handler runs, and after it. *)
Pop_KeepsNode(execute) ==
  /\ AppRuns /\ Len(frames) > Base
  /\ frames' = Front(frames)
  /\ LET n == Last(frames) IN
       IF execute
       THEN Run(routine[n]) /\ UNCHANGED skipped
       ELSE skipped' = skipped \cup {routine[n]} /\ UNCHANGED <<running, ran>>
  /\ UNCHANGED <<current, prev, routine, p, exiting, pushes>>

(* pthread_cleanup_pop_impl: unlink the node, then run its handler. *)
Pop(execute) ==
  /\ AppRuns /\ Len(frames) > Base
  /\ LET n == Last(frames) IN
       /\ current' = prev[n]
       /\ frames' = Front(frames)
       /\ IF execute
          THEN Run(routine[n]) /\ UNCHANGED skipped
          ELSE skipped' = skipped \cup {routine[n]} /\ UNCHANGED <<running, ran>>
  /\ UNCHANGED <<prev, routine, p, exiting, pushes>>

(* Mutant: the destructor does not go on to the next node. *)
HandlerReturns_Stays ==
  /\ running # <<>> /\ Len(frames) = Base
  /\ running' = Front(running)
  /\ UNCHANGED <<current, prev, routine, frames, p, exiting, history>>

(* The handler pop or the destructor called returns, its frames popped. *)
HandlerReturns ==
  /\ running # <<>> /\ Len(frames) = Base
  /\ running' = Front(running)
  /\ p' = IF exiting /\ Len(running) = 1 THEN prev[p] ELSE p
  /\ UNCHANGED <<current, prev, routine, frames, exiting, history>>

(* Mutant: the destructor starts behind the newest node. *)
Exit_SkipsNewest ==
  /\ ~exiting
  /\ exiting' = TRUE
  /\ p' = IF current = Null THEN Null ELSE prev[current]
  /\ running' = <<>>
  /\ UNCHANGED <<current, prev, routine, frames, history>>

(* The thread exits, perhaps inside a handler: the destructor starts. *)
Exit ==
  /\ ~exiting
  /\ exiting' = TRUE
  /\ p' = current
  /\ running' = <<>>
  /\ UNCHANGED <<current, prev, routine, frames, history>>

(* while (p) { p->routine(p->arg); p = p->prev; } *)
ExitRuns ==
  /\ exiting /\ running = <<>> /\ p # Null
  /\ UNCHANGED frames
  /\ Run(routine[p])
  /\ UNCHANGED <<current, prev, routine, p, exiting, pushes, skipped>>

StackNext ==
  \/ \E n \in Nodes : Push(n)
  \/ \E execute \in BOOLEAN : Pop(execute)
  \/ HandlerReturns
  \/ Exit
  \/ ExitRuns

(* The exit goes on; the handlers it runs pop what they push and return. *)
StackSpec == StackInit /\ [][StackNext]_stackVars
             /\ WF_stackVars(ExitRuns) /\ WF_stackVars(HandlerReturns)
             /\ WF_stackVars(exiting /\ \E execute \in BOOLEAN : Pop(execute))

-----------------------------------------------------------------------------
Exited == exiting /\ running = <<>> /\ p = Null

(* The type of every variable. *)
StackTypeOK ==
  /\ current \in Nodes \cup {Null} /\ p \in Nodes \cup {Null}
  /\ prev \in [Nodes -> Nodes \cup {Null}]
  /\ routine \in [Nodes -> 0 .. MaxPush]
  /\ frames \in Seq(Nodes)
  /\ running \in Seq([id : Ids, base : Nat])
  /\ exiting \in BOOLEAN /\ pushes \in 0 .. MaxPush
  /\ ran \in [Ids -> 0 .. 2] /\ skipped \in SUBSET Ids

(* No handler runs twice, or after it was popped without being run: not     *)
(* when a handler that pop runs exits the thread, nor when a handler of the *)
(* exit pushes and pops.                                                    *)
AtMostOnce == \A id \in Ids : ran[id] < 2 /\ (id \in skipped => ran[id] = 0)

(* When the exit is over every handler has been run or popped. *)
NoneForgotten ==
  Exited => \A id \in 1 .. pushes : ran[id] > 0 \/ id \in skipped

(* Every handler is run or popped, and no handler twice. *)
ExactlyOnce == AtMostOnce /\ NoneForgotten

(* Pushed, not run and not popped. *)
Waiting == {id \in 1 .. pushes : ran[id] = 0 /\ id \notin skipped}

NewestStarts ==
  \A id \in Ids : ran'[id] # ran[id] =>
    id \in Waiting /\ \A other \in Waiting : other <= id

(* Whether pop or the exit starts it, also inside another handler, the      *)
(* handler that starts is the newest of those still waiting: none that was  *)
(* popped or has run, and none before one pushed after it.                  *)
NewestFirst == [][NewestStarts]_stackVars

(* An exit comes to its end: the list the destructor walks is not changed   *)
(* under it by the handlers' own pushes and pops.                           *)
ExitEnds == exiting ~> Exited
=============================================================================
