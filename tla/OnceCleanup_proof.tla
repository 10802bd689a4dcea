-------------------------- MODULE OnceCleanup_proof --------------------------
(***************************************************************************)
(* The two parts of pthreads.cpp that keep their state without a host      *)
(* object.  pthread_once runs a routine at most once, and nobody returns   *)
(* before it has run, for any threads, controls and ways they nest.  Every *)
(* cleanup handler is run once or popped, in the reverse order of the      *)
(* pushes, for any nodes and whatever the handlers do themselves.          *)
(***************************************************************************)
EXTENDS Once, CleanupStack, SequenceTheorems, TLAPS

(* A thread between its successful compare-and-swap and its store. *)
Winner(t, c) == at[t][c] \in {"run", "store"}

(* The word counts the start of the routine, *)
CountsRun == \A c \in Controls : runs[c] = IF control[c] = 0 THEN 0 ELSE 1

(* it is 1 as long as there is a winner, of whom there is one, *)
OneWinner ==
  \A t \in Threads : \A c \in Controls :
    Winner(t, c) => /\ control[c] = 1
                    /\ \A r \in Threads : Winner(r, c) => r = t

(* a thread only waits after the start, *)
SpinsAfterStart ==
  \A t \in Threads : \A c \in Controls : at[t][c] = "spin" => control[c] # 0

(* and a word of 2, or a thread about to store it, means the end. *)
DoneIsFinished ==
  \A c \in Controls :
    /\ control[c] = 2 => c \in finished
    /\ \A t \in Threads : at[t][c] = "store" => c \in finished

OInv == /\ TypeOK /\ CountsRun /\ OneWinner /\ SpinsAfterStart
        /\ DoneIsFinished /\ ReturnsAfterRun

-----------------------------------------------------------------------------
LEMMA InitOInv == Init => OInv
BY DEF Init, OInv, TypeOK, CountsRun, OneWinner, Winner, SpinsAfterStart,
       DoneIsFinished, ReturnsAfterRun

(* Every step of pthread_once keeps the invariant. *)
LEMMA NextOInv == OInv /\ [Next]_vars => OInv'
<1> SUFFICES ASSUME OInv, [Next]_vars PROVE OInv'
  OBVIOUS
<1> USE DEF OInv, TypeOK, CountsRun, OneWinner, Winner, SpinsAfterStart,
            DoneIsFinished, ReturnsAfterRun
<1>1. ASSUME NEW t \in Threads, NEW c \in Controls, Call(t, c) PROVE OInv'
  BY <1>1 DEF Call
<1>2. ASSUME NEW t \in Threads, NEW c \in Controls, Win(t, c) PROVE OInv'
  BY <1>2 DEF Win, Runs
<1>3. ASSUME NEW t \in Threads, NEW c \in Controls, FindDone(t, c) PROVE OInv'
  BY <1>3 DEF FindDone, Runs, Returns, Unwind
<1>4. ASSUME NEW t \in Threads, NEW c \in Controls, FindRunning(t, c) PROVE OInv'
  BY <1>4 DEF FindRunning, Runs
<1>5. ASSUME NEW t \in Threads, NEW c \in Controls, SpinEnds(t, c) PROVE OInv'
  BY <1>5 DEF SpinEnds, Runs, Returns, Unwind
<1>6. ASSUME NEW t \in Threads, NEW c \in Controls, RoutineReturns(t, c) PROVE OInv'
  BY <1>6 DEF RoutineReturns, Runs
<1>7. ASSUME NEW t \in Threads, NEW c \in Controls, Store(t, c) PROVE OInv'
  BY <1>7 DEF Store, Runs, Returns, Unwind
<1>8. ASSUME NEW t \in Threads, NEW c \in Controls, RoutineThrows(t, c) PROVE OInv'
  BY <1>8 DEF RoutineThrows, Runs, Unwind
<1>9. ASSUME NEW t \in Threads, NEW c \in Controls, RoutineRecurses(t, c) PROVE OInv'
  BY <1>9 DEF RoutineRecurses, Runs
<1>10. CASE UNCHANGED vars
  BY <1>10 DEF vars
<1>. QED
  BY <1>1, <1>2, <1>3, <1>4, <1>5, <1>6, <1>7, <1>8, <1>9, <1>10 DEF Next, Step

(* The inductive invariant holds in every behaviour of pthread_once. *)
THEOREM OnceInvariant == Spec => []OInv
BY InitOInv, NextOInv, PTL DEF Spec

(* Every variable keeps its type. *)
THEOREM OnceTypeCorrect == Spec => []TypeOK
<1>1. OInv => TypeOK
  BY DEF OInv
<1>. QED  BY <1>1, OnceInvariant, PTL

(* No interleaving of callers, nesting, exception or recursion starts a     *)
(* routine twice (pthread_once's compare-and-swap).                         *)
THEOREM RoutineRunsOnce == Spec => []RunsOnce
<1>1. OInv => CountsRun
  BY DEF OInv
<1>2. CountsRun => RunsOnce
  BY DEF CountsRun, RunsOnce
<1>. QED  BY <1>1, <1>2, OnceInvariant, PTL

(* No call of pthread_once returns normally before the routine has returned. *)
THEOREM NobodyReturnsEarly == Spec => []ReturnsAfterRun
<1>1. OInv => ReturnsAfterRun
  BY DEF OInv
<1>. QED  BY <1>1, OnceInvariant, PTL

-----------------------------------------------------------------------------
(* Cleanup handlers.  The number of the push that the i-th frame is from. *)
Id(i) == routine[frames[i]]

(* The list the nodes are linked in is the application's frames. *)
Linked ==
  /\ current = IF frames = <<>> THEN Null ELSE frames[Len(frames)]
  /\ \A i \in 1 .. Len(frames) :
       prev[frames[i]] = IF i = 1 THEN Null ELSE frames[i - 1]

(* Newer frames are from later pushes. *)
Ordered ==
  /\ \A i \in 1 .. Len(frames) : Id(i) \in 1 .. pushes
  /\ \A i, j \in 1 .. Len(frames) : i < j => Id(i) < Id(j)

(* A handler that runs has its frames above those of its callers. *)
Bases ==
  /\ \A i \in 1 .. Len(running) : running[i].base <= Len(frames)
  /\ \A i, j \in 1 .. Len(running) : i < j => running[i].base <= running[j].base

Idle(id)    == ran[id] = 0 /\ id \notin skipped
HasRun(id)  == ran[id] = 1 /\ id \notin skipped
Dropped(id) == ran[id] = 0 /\ id \in skipped

(* The frames that were there when the exit started: handlers that the exit *)
(* runs pop no others than their own.                                       *)
Old == IF running = <<>> THEN Len(frames) ELSE running[1].base

(* The destructor's p is frame k: the handlers of the frames above it have   *)
(* run, k's own has when it is being run, and those below it have not.      *)
WalksAt(k) ==
  /\ p = IF k = 0 THEN Null ELSE frames[k]
  /\ running # <<>> => k > 0
  /\ \A i \in 1 .. Len(frames) :
       IF i <= Old /\ (k < i \/ (k = i /\ running # <<>>)) THEN HasRun(Id(i)) ELSE Idle(Id(i))

Walk ==
  IF exiting THEN \E k \in 0 .. Old : WalksAt(k)
  ELSE \A i \in 1 .. Len(frames) : Idle(Id(i))

(* A handler no frame holds has run, was popped, or is still to be pushed. *)
Accounted ==
  /\ \A id \in Ids : id > pushes => Idle(id)
  /\ \A id \in Ids : id <= pushes =>
       (\E i \in 1 .. Len(frames) : Id(i) = id) \/ HasRun(id) \/ Dropped(id)

CInv == StackTypeOK /\ Linked /\ Ordered /\ Bases /\ Walk /\ Accounted

-----------------------------------------------------------------------------
(* A sequence without its last element. *)
LEMMA FrontLast ==
  ASSUME NEW S, NEW s \in Seq(S), s # <<>>
  PROVE  /\ Len(s) \in Nat /\ Len(s) > 0
         /\ Last(s) = s[Len(s)] /\ Last(s) \in S
         /\ Front(s) \in Seq(S) /\ Len(Front(s)) = Len(s) - 1
         /\ \A i \in 1 .. Len(s) - 1 : Front(s)[i] = s[i]
<1>1. Len(s) \in Nat /\ Len(s) > 0
  BY EmptySeq
<1>2. \A i \in 1 .. Len(s) : s[i] \in S
  BY ElementOfSeq
<1>3. /\ Front(s) \in Seq(S)
      /\ Len(Front(s)) = IF 1 <= Len(s) - 1 THEN (Len(s) - 1) - 1 + 1 ELSE 0
      /\ \A i \in 1 .. (Len(s) - 1) - 1 + 1 : Front(s)[i] = s[1 + i - 1]
  BY <1>1, <1>2, SubSeqProperties DEF Front
<1>4. \A i \in 1 .. Len(s) - 1 : 1 + i - 1 = i
  BY <1>1
<1>5. Last(s) = s[Len(s)]
  BY DEF Last
<1>6. s[Len(s)] \in S
  BY <1>1, <1>2
<1>7. Len(Front(s)) = Len(s) - 1
  <2>1. Len(Front(s)) = IF 1 <= Len(s) - 1 THEN (Len(s) - 1) - 1 + 1 ELSE 0
    BY <1>3
  <2>2. PICK n \in Nat : n = Len(s) /\ n > 0
    BY <1>1
  <2>3. 1 <= n - 1 => (n - 1) - 1 + 1 = n - 1
    OBVIOUS
  <2>4. ~(1 <= n - 1) => 0 = n - 1
    BY <2>2
  <2> QED BY <2>1, <2>2, <2>3, <2>4
<1> QED BY <1>1, <1>3, <1>4, <1>5, <1>6, <1>7

LEMMA Types ==
  ASSUME CInv
  PROVE  /\ frames \in Seq(Nodes) /\ Len(frames) \in Nat
         /\ \A i \in 1 .. Len(frames) : frames[i] \in Nodes
         /\ (frames = <<>> <=> Len(frames) = 0)
         /\ running \in Seq([id : Ids, base : Nat]) /\ Len(running) \in Nat
         /\ (running = <<>> <=> Len(running) = 0)
         /\ \A i \in 1 .. Len(running) : running[i].base \in Nat
         /\ Old \in 0 .. Len(frames)
         /\ pushes \in Nat /\ pushes <= MaxPush /\ MaxPush \in Nat /\ Null \notin Nodes
         /\ routine \in [Nodes -> 0 .. MaxPush] /\ prev \in [Nodes -> Nodes \cup {Null}]
         /\ ran \in [Ids -> 0 .. 2] /\ skipped \subseteq Ids
         /\ \A i \in 1 .. Len(frames) : Id(i) \in Ids /\ Id(i) <= pushes
<1>1. /\ frames \in Seq(Nodes) /\ running \in Seq([id : Ids, base : Nat])
      /\ pushes \in 0 .. MaxPush /\ MaxPush \in Nat /\ Null \notin Nodes
      /\ routine \in [Nodes -> 0 .. MaxPush] /\ prev \in [Nodes -> Nodes \cup {Null}]
      /\ ran \in [Ids -> 0 .. 2] /\ skipped \subseteq Ids
  BY CleanupAssumption DEF CInv, StackTypeOK
<1>2. \A i \in 1 .. Len(running) : running[i].base \in Nat
  <2> TAKE i \in 1 .. Len(running)
  <2>1. running[i] \in [id : Ids, base : Nat]
    BY <1>1, ElementOfSeq
  <2> QED BY <2>1
<1>a. /\ Len(frames) \in Nat /\ (frames = <<>> <=> Len(frames) = 0)
      /\ Len(running) \in Nat /\ (running = <<>> <=> Len(running) = 0)
  BY <1>1, EmptySeq, LenProperties
<1>b. \A i \in 1 .. Len(frames) : frames[i] \in Nodes
  BY <1>1, ElementOfSeq
<1>3. Old \in 0 .. Len(frames)
  <2>1. CASE running = <<>>
    BY <1>a, <2>1 DEF Old
  <2>2. CASE running # <<>>
    <3>1. 1 \in 1 .. Len(running)
      BY <1>a, <2>2
    <3> QED BY <1>a, <1>2, <2>2, <3>1 DEF Old, CInv, Bases
  <2> QED BY <2>1, <2>2
<1>4. \A i \in 1 .. Len(frames) : Id(i) \in Ids /\ Id(i) <= pushes
  BY <1>1 DEF CInv, Ordered, Ids
<1> QED BY <1>1, <1>2, <1>3, <1>4, <1>a, <1>b

LEMMA InitCInv == StackInit => CInv
<1> SUFFICES ASSUME StackInit PROVE CInv
  OBVIOUS
<1>1. frames = <<>> /\ Len(frames) = 0 /\ running = <<>> /\ Len(running) = 0
  BY DEF StackInit
<1>2. StackTypeOK
  <2>1. /\ <<>> \in Seq(Nodes) /\ <<>> \in Seq([id : Ids, base : Nat])
    BY EmptySeq
  <2>2. 0 \in 0 .. MaxPush
    BY CleanupAssumption
  <2>3. current \in Nodes \cup {Null} /\ p \in Nodes \cup {Null} /\ exiting \in BOOLEAN
    BY DEF StackInit
  <2>4. /\ prev \in [Nodes -> Nodes \cup {Null}] /\ routine \in [Nodes -> 0 .. MaxPush]
        /\ ran \in [Ids -> 0 .. 2]
    BY <2>2 DEF StackInit
  <2>5. frames \in Seq(Nodes) /\ running \in Seq([id : Ids, base : Nat])
    BY <2>1 DEF StackInit
  <2>6. pushes \in 0 .. MaxPush /\ skipped \in SUBSET Ids
    BY <2>2 DEF StackInit
  <2> QED BY <2>3, <2>4, <2>5, <2>6 DEF StackTypeOK
<1>3. Linked /\ Ordered /\ Bases /\ Walk
  BY <1>1 DEF StackInit, Linked, Ordered, Bases, Walk
<1>4. Accounted
  BY DEF StackInit, Accounted, Idle, Ids
<1> QED BY <1>2, <1>3, <1>4 DEF CInv

(* Two frames are from two pushes. *)
LEMMA FramesDiffer ==
  ASSUME CInv, NEW i \in 1 .. Len(frames), NEW j \in 1 .. Len(frames), i # j
  PROVE  Id(i) # Id(j)
<1>1. i < j \/ j < i
  BY Types
<1>2. Id(i) \in Nat /\ Id(j) \in Nat
  BY Types DEF Ids
<1>3. (i < j => Id(i) < Id(j)) /\ (j < i => Id(j) < Id(i))
  BY DEF CInv, Ordered
<1> QED BY <1>1, <1>2, <1>3

LEMMA PushCInv ==
  ASSUME CInv, NEW n \in Nodes, Push(n)
  PROVE  CInv'
<1>0. PICK N \in Nat : N = Len(frames)
  BY Types
<1>1. /\ pushes < MaxPush /\ AppRuns
      /\ prev' = [prev EXCEPT ![n] = current]
      /\ routine' = [routine EXCEPT ![n] = pushes + 1]
      /\ current' = n /\ frames' = Append(frames, n) /\ pushes' = pushes + 1
      /\ UNCHANGED <<running, p, exiting, ran, skipped>>
  BY DEF Push
<1>2. \A i \in 1 .. N : frames[i] # n
  <2>1. DOMAIN frames = 1 .. N
    BY <1>0, Types, LenProperties
  <2> QED BY <2>1 DEF Push, ToSet
<1>3. /\ Len(frames') = N + 1 /\ frames'[N + 1] = n /\ frames' \in Seq(Nodes)
      /\ \A i \in 1 .. N : frames'[i] = frames[i]
      /\ frames' # <<>>
  BY <1>0, <1>1, Types, AppendProperties
<1>4. /\ Id(N + 1)' = pushes + 1 /\ pushes + 1 \in Ids
      /\ \A i \in 1 .. N : Id(i)' = Id(i)
  <2>1. Id(N + 1)' = pushes + 1
    BY <1>0, <1>1, <1>3, Types DEF Id
  <2>2. \A i \in 1 .. N : Id(i)' = Id(i)
    BY <1>0, <1>1, <1>2, <1>3, Types DEF Id
  <2>3. pushes + 1 \in Ids
    BY <1>1, Types DEF Ids
  <2> QED BY <2>1, <2>2, <2>3
<1>5. /\ \A i \in 1 .. N : i \in 1 .. N + 1 /\ i # N + 1
      /\ \A i \in 1 .. N + 1 : i = N + 1 \/ i \in 1 .. N
      /\ N + 1 \in 1 .. N + 1
  BY <1>0
<1>6. (exiting => running # <<>>) /\ Old' = IF running = <<>> THEN N + 1 ELSE Old
  BY <1>0, <1>1, <1>3 DEF AppRuns, Old
<1>7. StackTypeOK'
  <2>1. pushes' \in 0 .. MaxPush /\ pushes + 1 \in 0 .. MaxPush
    BY <1>1, Types
  <2>2. current \in Nodes \cup {Null}
    BY DEF CInv, StackTypeOK
  <2>3. routine' \in [Nodes -> 0 .. MaxPush] /\ prev' \in [Nodes -> Nodes \cup {Null}]
    BY <1>1, <2>1, <2>2, Types
  <2> QED BY <1>1, <1>3, <2>1, <2>3 DEF CInv, StackTypeOK
<1>8. Linked'
  <2>1. prev'[n] = IF N = 0 THEN Null ELSE frames[N]
    BY <1>0, <1>1, Types DEF CInv, Linked
  <2>2. ASSUME NEW i \in 1 .. N
        PROVE  prev'[frames'[i]] = IF i = 1 THEN Null ELSE frames'[i - 1]
    <3>1. prev'[frames[i]] = prev[frames[i]]
      BY <1>0, <1>1, <1>2, Types
    <3>2. prev[frames[i]] = IF i = 1 THEN Null ELSE frames[i - 1]
      BY <1>0 DEF CInv, Linked
    <3>3. i # 1 => i - 1 \in 1 .. N
      BY <1>0
    <3> QED BY <1>3, <3>1, <3>2, <3>3
  <2>3. prev'[frames'[N + 1]] = IF N + 1 = 1 THEN Null ELSE frames'[(N + 1) - 1]
    <3>1. N # 0 => N \in 1 .. N
      BY <1>0
    <3>2. (N + 1) - 1 = N /\ (N + 1 = 1 <=> N = 0)
      BY <1>0
    <3> QED BY <1>3, <2>1, <3>1, <3>2
  <2>4. \A i \in 1 .. N + 1 : prev'[frames'[i]] = IF i = 1 THEN Null ELSE frames'[i - 1]
    BY <1>5, <2>2, <2>3
  <2>5. current' = frames'[Len(frames')]
    BY <1>1, <1>3
  <2> QED BY <1>3, <2>4, <2>5 DEF Linked
<1>9. Ordered'
  <2>1. \A i \in 1 .. N : Id(i) \in 1 .. pushes
    BY <1>0 DEF CInv, Ordered
  <2>2. \A i, j \in 1 .. N : i < j => Id(i) < Id(j)
    BY <1>0 DEF CInv, Ordered
  <2>3. ASSUME NEW i \in 1 .. N + 1 PROVE Id(i)' \in 1 .. pushes + 1
    <3>1. CASE i = N + 1
      BY <1>4, <3>1, Types
    <3>2. CASE i \in 1 .. N
      <4>1. Id(i)' \in 1 .. pushes
        BY <1>4, <2>1, <3>2
      <4> QED BY <4>1, Types
    <3> QED BY <1>5, <3>1, <3>2
  <2>4. ASSUME NEW i \in 1 .. N + 1, NEW j \in 1 .. N + 1, i < j
        PROVE  Id(i)' < Id(j)'
    <3>1. i \in 1 .. N
      BY <1>0, <2>4
    <3>2. Id(i)' \in 1 .. pushes
      BY <1>4, <2>1, <3>1
    <3>3. CASE j = N + 1
      <4>1. Id(j)' = pushes + 1
        BY <1>4, <3>3
      <4> QED BY <3>2, <4>1, Types
    <3>4. CASE j \in 1 .. N
      BY <1>4, <2>2, <2>4, <3>1, <3>4
    <3> QED BY <1>5, <3>3, <3>4
  <2> QED BY <1>1, <1>3, <2>3, <2>4 DEF Ordered
<1>10. Bases'
  <2>1. \A i \in 1 .. Len(running) : running[i].base <= N + 1
    BY <1>0, Types DEF CInv, Bases
  <2> QED BY <1>1, <1>3, <2>1 DEF CInv, Bases
<1>11. Idle(pushes + 1)
  BY <1>4, Types DEF CInv, Accounted
<1>12. Walk'
  <2>1. CASE ~exiting
    <3>1. \A i \in 1 .. N + 1 : Idle(Id(i)')
      BY <1>0, <1>4, <1>5, <1>11, <2>1 DEF CInv, Walk
    <3>2. \A i \in 1 .. N + 1 : Idle(Id(i))'
      BY <1>1, <3>1 DEF Idle
    <3> QED BY <1>1, <1>3, <2>1, <3>2 DEF Walk
  <2>2. CASE exiting
    <3>1. PICK k \in 0 .. Old : WalksAt(k)
      BY <2>2 DEF CInv, Walk
    <3>2. p = IF k = 0 THEN Null ELSE frames'[k]
      <4>1. k # 0 => k \in 1 .. N
        BY <1>0, <3>1, Types
      <4>2. p = IF k = 0 THEN Null ELSE frames[k]
        BY <3>1 DEF WalksAt
      <4> QED BY <1>3, <4>1, <4>2
    <3>3. ~(N + 1 <= Old)
      BY <1>0, Types
    <3>4. \A i \in 1 .. N + 1 :
            IF i <= Old /\ (k < i \/ (k = i /\ running # <<>>))
            THEN HasRun(Id(i)') ELSE Idle(Id(i)')
      BY <1>0, <1>4, <1>5, <1>11, <3>1, <3>3 DEF WalksAt
    <3>5. \A i \in 1 .. N + 1 :
            IF i <= Old' /\ (k < i \/ (k = i /\ running' # <<>>))
            THEN HasRun(Id(i))' ELSE Idle(Id(i))'
      BY <1>1, <1>6, <2>2, <3>4 DEF HasRun, Idle
    <3>6. WalksAt(k)'
      BY <1>1, <1>3, <3>1, <3>2, <3>5 DEF WalksAt
    <3> QED BY <1>1, <1>6, <2>2, <3>6 DEF Walk
  <2> QED BY <2>1, <2>2
<1>13. Accounted'
  <2>1. ASSUME NEW id \in Ids, id > pushes'
        PROVE  Idle(id)'
    BY <1>1, <2>1, Types DEF CInv, Accounted, Idle, Ids
  <2>2. ASSUME NEW id \in Ids, id <= pushes'
        PROVE  (\E i \in 1 .. N + 1 : Id(i)' = id) \/ HasRun(id)' \/ Dropped(id)'
    <3>1. id = pushes + 1 \/ id <= pushes
      BY <1>1, <2>2, Types DEF Ids
    <3>2. CASE id <= pushes
      <4>1. (\E i \in 1 .. N : Id(i) = id) \/ HasRun(id) \/ Dropped(id)
        BY <1>0, <3>2 DEF CInv, Accounted
      <4> QED BY <1>1, <1>4, <1>5, <4>1 DEF HasRun, Dropped
    <3> QED BY <1>4, <1>5, <3>1, <3>2
  <2> QED BY <1>3, <2>1, <2>2 DEF Accounted
<1> QED BY <1>7, <1>8, <1>9, <1>10, <1>12, <1>13 DEF CInv

(* What Run adds to the handlers that run. *)
LEMMA RunEffect ==
  ASSUME CInv, NEW id \in Ids, Len(frames') \in Nat, Run(id)
  PROVE  /\ running' \in Seq([id : Ids, base : Nat]) /\ running' # <<>>
         /\ Len(running') = Len(running) + 1
         /\ \A i \in 1 .. Len(running) : running'[i] = running[i]
         /\ running'[Len(running) + 1].base = Len(frames')
         /\ ran' \in [Ids -> 0 .. 2]
         /\ ran'[id] = IF ran[id] = 0 THEN 1 ELSE 2
         /\ \A x \in Ids : x # id => ran'[x] = ran[x]
<1> DEFINE top == [id |-> id, base |-> Len(frames')]
<1>1. top \in [id : Ids, base : Nat] /\ top.base = Len(frames')
  OBVIOUS
<1>2. running' = Append(running, top) /\ ran' = [ran EXCEPT ![id] = IF @ = 0 THEN 1 ELSE 2]
  BY DEF Run
<1> HIDE DEF top
<1>3. /\ running' \in Seq([id : Ids, base : Nat]) /\ running' # <<>>
      /\ Len(running') = Len(running) + 1
      /\ \A i \in 1 .. Len(running) : running'[i] = running[i]
      /\ running'[Len(running) + 1] = top
  BY <1>1, <1>2, Types, AppendProperties
<1>4. ran \in [Ids -> 0 .. 2]
  BY Types
<1> QED BY <1>1, <1>2, <1>3, <1>4

(* The frames that pop leaves. *)
LEMMA PopFrames ==
  ASSUME CInv, NEW N \in Nat, N = Len(frames), N > 0, frames' = Front(frames),
         UNCHANGED routine
  PROVE  /\ Last(frames) = frames[N] /\ frames[N] \in Nodes /\ Id(N) \in Ids
         /\ frames' \in Seq(Nodes) /\ Len(frames') = N - 1
         /\ \A i \in 1 .. N - 1 : frames'[i] = frames[i] /\ Id(i)' = Id(i) /\ i \in 1 .. N
<1>1. frames \in Seq(Nodes) /\ (frames = <<>> <=> Len(frames) = 0)
  BY Types
<1>2. /\ Last(frames) = frames[N] /\ Front(frames) \in Seq(Nodes)
      /\ Len(Front(frames)) = N - 1
      /\ \A i \in 1 .. N - 1 : Front(frames)[i] = frames[i]
  BY <1>1, FrontLast
<1>3. N \in 1 .. N /\ \A i \in 1 .. N - 1 : i \in 1 .. N
  OBVIOUS
<1>4. frames[N] \in Nodes /\ Id(N) \in Ids
  BY <1>3, Types
<1> QED BY <1>2, <1>3, <1>4 DEF Id

(* The frames of the handlers that run start below the newest one's. *)
LEMMA Callers ==
  ASSUME CInv, NEW M \in Nat, M = Len(running)
  PROVE  /\ running # <<>> => M > 0 /\ Base = running[M].base /\ Base \in Nat
         /\ running = <<>> => M = 0 /\ Base = 0
         /\ \A i \in 1 .. M : running[i].base <= Base /\ running[i].base \in Nat
<1>1. running # <<>> => M > 0 /\ M \in 1 .. M /\ Base = running[M].base
  BY Types DEF Base, Last
<1>2. running = <<>> => M = 0 /\ Base = 0
  BY Types DEF Base
<1>3. \A i \in 1 .. M : running[i].base \in Nat
  BY Types
<1>4. ASSUME NEW i \in 1 .. M
      PROVE  running[i].base <= Base
  <2>1. running # <<>>
    BY Types
  <2>2. i = M \/ i < M
    OBVIOUS
  <2>3. i < M => running[i].base <= running[M].base
    BY <1>1, <2>1 DEF CInv, Bases
  <2> QED BY <1>1, <1>3, <2>1, <2>2, <2>3
<1> QED BY <1>1, <1>2, <1>3, <1>4

(* The handler of the newest frame, which pop takes, still waits. *)
LEMMA PopsIdle ==
  ASSUME CInv, NEW execute \in BOOLEAN, Pop(execute)
  PROVE  Len(frames) > 0 /\ Idle(Id(Len(frames)))
<1>0. PICK N \in Nat : N = Len(frames)
  BY Types
<1>1. PICK M \in Nat : M = Len(running)
  BY Types
<1>2. AppRuns /\ N > Base
  BY <1>0 DEF Pop
<1>3. /\ running # <<>> => M > 0 /\ Base \in Nat
      /\ running = <<>> => Base = 0
      /\ \A i \in 1 .. M : running[i].base <= Base /\ running[i].base \in Nat
  BY <1>1, Callers
<1>4. N > 0 /\ N \in 1 .. N
  BY <1>2, <1>3
<1>5. CASE ~exiting
  BY <1>0, <1>4, <1>5 DEF CInv, Walk
<1>6. CASE exiting
  <2>1. PICK k \in 0 .. Old : WalksAt(k)
    BY <1>6 DEF CInv, Walk
  <2>2. running # <<>> /\ 1 \in 1 .. M
    BY <1>2, <1>3, <1>6 DEF AppRuns
  <2>3. Old <= Base /\ Old \in Nat
    BY <1>3, <2>2 DEF Old
  <2>4. ~(N <= Old)
    BY <1>2, <1>3, <2>2, <2>3
  <2> QED BY <1>0, <1>4, <2>1, <2>4 DEF WalksAt
<1> QED BY <1>0, <1>4, <1>5, <1>6

LEMMA PopCInv ==
  ASSUME CInv, NEW execute \in BOOLEAN, Pop(execute)
  PROVE  CInv'
<1>0. PICK N \in Nat : N = Len(frames)
  BY Types
<1>1. PICK M \in Nat : M = Len(running)
  BY Types
<1>2. /\ AppRuns /\ N > Base /\ frames' = Front(frames)
      /\ current' = prev[Last(frames)]
      /\ execute => Run(routine[Last(frames)]) /\ UNCHANGED skipped
      /\ ~execute => /\ skipped' = skipped \cup {routine[Last(frames)]}
                     /\ UNCHANGED <<running, ran>>
      /\ UNCHANGED <<prev, routine, p, exiting, pushes>>
  BY <1>0 DEF Pop
<1>3. /\ running # <<>> => M > 0 /\ Base = running[M].base /\ Base \in Nat
      /\ running = <<>> => M = 0 /\ Base = 0
      /\ \A i \in 1 .. M : running[i].base <= Base /\ running[i].base \in Nat
  BY <1>1, Callers
<1>4. N > 0
  BY <1>2, <1>3
<1>5. PICK id \in Ids : id = Id(N)
  <2>1. N \in 1 .. Len(frames)
    BY <1>0, <1>4
  <2> QED BY <2>1, Types
<1>6. /\ Last(frames) = frames[N] /\ frames[N] \in Nodes /\ id \in Ids
      /\ frames' \in Seq(Nodes) /\ Len(frames') = N - 1
      /\ \A i \in 1 .. N - 1 : frames'[i] = frames[i] /\ Id(i)' = Id(i) /\ i \in 1 .. N
  BY <1>0, <1>2, <1>4, <1>5, PopFrames
<1>7. routine[Last(frames)] = id
  BY <1>6, <1>5 DEF Id
<1>8. /\ running' \in Seq([id : Ids, base : Nat]) /\ (running # <<>> => running' # <<>>)
      /\ \A i \in 1 .. M : running'[i] = running[i]
      /\ Len(running') = IF execute THEN M + 1 ELSE M
      /\ execute => running'[M + 1].base = N - 1
      /\ ran' \in [Ids -> 0 .. 2]
      /\ execute => ran'[id] = IF ran[id] = 0 THEN 1 ELSE 2
      /\ \A x \in Ids : x # id => ran'[x] = ran[x]
  <2>1. CASE execute
    <3>1. Len(frames') \in Nat
      BY <1>4, <1>6
    <3>2. Run(id)
      BY <1>2, <1>7, <2>1
    <3> QED BY <1>1, <1>6, <2>1, <3>1, <3>2, RunEffect
  <2>2. CASE ~execute
    BY <1>1, <1>2, <2>2, Types
  <2> QED BY <2>1, <2>2
<1>9. /\ skipped' = IF execute THEN skipped ELSE skipped \cup {id}
      /\ ~execute => ran' = ran
  BY <1>2, <1>7
<1>10. \A i \in 1 .. N - 1 : Id(i) # id /\ Id(i) \in Ids
  <2> TAKE i \in 1 .. N - 1
  <2>1. i \in 1 .. N /\ N \in 1 .. N /\ i # N
    BY <1>4
  <2> QED BY <1>0, <1>5, <2>1, FramesDiffer, Types
<1>11. \A x \in Ids : x # id => /\ Idle(x)' <=> Idle(x)
                                /\ HasRun(x)' <=> HasRun(x)
                                /\ Dropped(x)' <=> Dropped(x)
  BY <1>8, <1>9 DEF Idle, HasRun, Dropped
<1>13. Idle(id)
  BY <1>0, <1>5, PopsIdle
<1>14. HasRun(id)' \/ Dropped(id)'
  <2>1. ran[id] = 0 /\ id \notin skipped
    BY <1>13 DEF Idle
  <2>2. CASE execute
    BY <1>8, <1>9, <2>1, <2>2 DEF HasRun
  <2>3. CASE ~execute
    BY <1>9, <2>1, <2>3 DEF Dropped
  <2> QED BY <2>2, <2>3
<1>15. StackTypeOK'
  <2>1. current' \in Nodes \cup {Null}
    BY <1>2, <1>6, Types
  <2>2. skipped' \in SUBSET Ids
    BY <1>6, <1>9, Types
  <2> QED BY <1>2, <1>6, <1>8, <2>1, <2>2 DEF CInv, StackTypeOK
<1>16. frames' = <<>> <=> N = 1
  BY <1>4, <1>6, EmptySeq
<1>17. Linked'
  <2>1. N \in 1 .. N /\ N - 1 # 0 => N # 1
    BY <1>4
  <2>2. prev[frames[N]] = IF N = 1 THEN Null ELSE frames[N - 1]
    BY <1>0, <1>4, <2>1 DEF CInv, Linked
  <2>3. N # 1 => N - 1 \in 1 .. N - 1
    BY <1>4
  <2>4. current' = IF frames' = <<>> THEN Null ELSE frames'[N - 1]
    BY <1>2, <1>6, <1>16, <2>2, <2>3
  <2>5. ASSUME NEW i \in 1 .. N - 1
        PROVE  prev'[frames'[i]] = IF i = 1 THEN Null ELSE frames'[i - 1]
    <3>1. prev[frames[i]] = IF i = 1 THEN Null ELSE frames[i - 1]
      BY <1>0, <1>6 DEF CInv, Linked
    <3>2. i # 1 => i - 1 \in 1 .. N - 1
      BY <1>4
    <3> QED BY <1>2, <1>6, <3>1, <3>2
  <2> QED BY <1>6, <2>4, <2>5 DEF Linked
<1>18. Ordered'
  <2>1. \A i \in 1 .. N - 1 : Id(i) \in 1 .. pushes
    BY <1>0, <1>6 DEF CInv, Ordered
  <2>2. \A i, j \in 1 .. N - 1 : i < j => Id(i) < Id(j)
    BY <1>0, <1>6 DEF CInv, Ordered
  <2> QED BY <1>2, <1>6, <2>1, <2>2 DEF Ordered
<1>19. Bases'
  <2>1. \A i \in 1 .. M : running[i].base <= N - 1
    BY <1>2, <1>3, <1>4
  <2>2. \A i, j \in 1 .. M : i < j => running[i].base <= running[j].base
    BY <1>1 DEF CInv, Bases
  <2>3. CASE execute
    <3>1. \A i \in 1 .. M + 1 : i = M + 1 \/ i \in 1 .. M
      OBVIOUS
    <3>2. \A i \in 1 .. M + 1 : running'[i].base <= N - 1
      BY <1>4, <1>8, <2>1, <2>3, <3>1
    <3>3. \A i, j \in 1 .. M + 1 : i < j => running'[i].base <= running'[j].base
      <4> TAKE i, j \in 1 .. M + 1
      <4> HAVE i < j
      <4>1. i \in 1 .. M
        OBVIOUS
      <4>2. j = M + 1 => running'[i].base <= running'[j].base
        BY <1>8, <2>1, <2>3, <4>1
      <4>3. j \in 1 .. M => running'[i].base <= running'[j].base
        BY <1>8, <2>2, <4>1
      <4> QED BY <3>1, <4>2, <4>3
    <3> QED BY <1>6, <1>8, <2>3, <3>2, <3>3 DEF Bases
  <2>4. CASE ~execute
    <3>1. running' = running
      BY <1>2, <2>4
    <3> QED BY <1>1, <1>6, <2>1, <2>2, <3>1 DEF Bases
  <2> QED BY <2>3, <2>4
<1>20. exiting => /\ running # <<>> /\ running' # <<>> /\ Old' = Old /\ Old \in 0 .. N - 1
  <2> HAVE exiting
  <2>1. running # <<>> /\ running' # <<>> /\ 1 \in 1 .. M
    BY <1>2, <1>3, <1>8 DEF AppRuns
  <2>2. Old' = running[1].base /\ Old = running[1].base
    BY <1>8, <2>1 DEF Old
  <2>3. running[1].base <= Base /\ running[1].base \in Nat
    BY <1>3, <2>1
  <2> QED BY <1>2, <1>3, <1>4, <2>1, <2>2, <2>3
<1>21. Walk'
  <2>1. CASE ~exiting
    <3>1. \A i \in 1 .. N - 1 : Idle(Id(i))
      BY <1>0, <1>6, <2>1 DEF CInv, Walk
    <3>2. \A i \in 1 .. N - 1 : Idle(Id(i))'
      <4> TAKE i \in 1 .. N - 1
      <4>1. ran'[Id(i)] = 0 /\ Id(i) \notin skipped'
        BY <1>8, <1>9, <1>10, <3>1 DEF Idle
      <4> QED BY <1>6, <4>1 DEF Idle
    <3> QED BY <1>2, <1>6, <2>1, <3>2 DEF Walk
  <2>2. CASE exiting
    <3>1. PICK k \in 0 .. Old : WalksAt(k)
      BY <2>2 DEF CInv, Walk
    <3>2. p' = IF k = 0 THEN Null ELSE frames'[k]
      <4>1. k # 0 => k \in 1 .. N - 1
        BY <1>20, <2>2
      <4> QED BY <1>2, <1>6, <3>1, <4>1 DEF WalksAt
    <3>3. k > 0
      BY <1>20, <2>2, <3>1 DEF WalksAt
    <3>4. ASSUME NEW i \in 1 .. N - 1
          PROVE  IF i <= Old' /\ (k < i \/ (k = i /\ running' # <<>>))
                 THEN HasRun(Id(i))' ELSE Idle(Id(i))'
      <4>1. IF i <= Old /\ (k < i \/ (k = i /\ running # <<>>))
            THEN HasRun(Id(i)) ELSE Idle(Id(i))
        BY <1>0, <1>6, <3>1 DEF WalksAt
      <4>2. Id(i)' = Id(i) /\ Id(i) # id /\ Id(i) \in Ids
        BY <1>6, <1>10
      <4>3. HasRun(Id(i))' <=> HasRun(Id(i))
        BY <1>8, <1>9, <4>2 DEF HasRun
      <4>4. Idle(Id(i))' <=> Idle(Id(i))
        BY <1>8, <1>9, <4>2 DEF Idle
      <4> QED BY <1>20, <2>2, <4>1, <4>3, <4>4
    <3>5. WalksAt(k)'
      BY <1>6, <3>2, <3>3, <3>4 DEF WalksAt
    <3> QED BY <1>2, <1>20, <2>2, <3>5 DEF Walk
  <2> QED BY <2>1, <2>2
<1>22. Accounted'
  <2>1. ASSUME NEW x \in Ids, x > pushes'
        PROVE  Idle(x)'
    <3>1. id <= pushes
      BY <1>0, <1>4, <1>5, Types
    <3>2. x # id /\ Idle(x)
      BY <1>2, <1>6, <2>1, <3>1, Types DEF CInv, Accounted, Ids
    <3> QED BY <1>11, <3>2
  <2>2. ASSUME NEW x \in Ids, x <= pushes'
        PROVE  (\E i \in 1 .. N - 1 : Id(i)' = x) \/ HasRun(x)' \/ Dropped(x)'
    <3>1. (\E i \in 1 .. N : Id(i) = x) \/ HasRun(x) \/ Dropped(x)
      BY <1>0, <1>2, <2>2 DEF CInv, Accounted
    <3>2. CASE x = id
      BY <1>14, <3>2
    <3>3. CASE x # id
      <4>1. \A i \in 1 .. N : i = N \/ i \in 1 .. N - 1
        BY <1>4
      <4>2. (\E i \in 1 .. N - 1 : Id(i) = x) \/ HasRun(x) \/ Dropped(x)
        BY <1>5, <3>1, <3>3, <4>1
      <4> QED BY <1>6, <1>11, <3>3, <4>2
    <3> QED BY <3>2, <3>3
  <2> QED BY <1>6, <2>1, <2>2 DEF Accounted
<1> QED BY <1>15, <1>17, <1>18, <1>19, <1>21, <1>22 DEF CInv

(* The steps that neither push nor pop. *)
LEMMA FramesStay ==
  ASSUME UNCHANGED <<current, prev, routine, frames, pushes>>
  PROVE  /\ \A i \in 1 .. Len(frames) : Id(i)' = Id(i)
         /\ (Linked => Linked') /\ (Ordered => Ordered')
<1>1. \A i : Id(i)' = Id(i)
  BY DEF Id
<1>2. Linked => Linked'
  BY DEF Linked
<1>3. Ordered => Ordered'
  BY <1>1 DEF Ordered
<1> QED BY <1>1, <1>2, <1>3

LEMMA HandlerReturnsCInv ==
  ASSUME CInv, HandlerReturns
  PROVE  CInv'
<1>0. PICK N \in Nat : N = Len(frames)
  BY Types
<1>1. PICK M \in Nat : M = Len(running)
  BY Types
<1>2. /\ running # <<>> /\ N = Base /\ running' = Front(running)
      /\ p' = IF exiting /\ M = 1 THEN prev[p] ELSE p
      /\ UNCHANGED <<current, prev, routine, frames, exiting, pushes, ran, skipped>>
  BY <1>0, <1>1 DEF HandlerReturns, history
<1>3. M > 0 /\ M \in 1 .. M /\ 1 \in 1 .. M /\ Base = running[M].base
  BY <1>1, <1>2, Types DEF Base, Last
<1>4. /\ running' \in Seq([id : Ids, base : Nat]) /\ Len(running') = M - 1
      /\ \A i \in 1 .. M - 1 : running'[i] = running[i] /\ i \in 1 .. M
  <2>1. running \in Seq([id : Ids, base : Nat])
    BY Types
  <2>2. /\ Front(running) \in Seq([id : Ids, base : Nat])
        /\ Len(Front(running)) = M - 1
        /\ \A i \in 1 .. M - 1 : Front(running)[i] = running[i]
    BY <1>1, <1>2, <2>1, FrontLast
  <2> QED BY <1>2, <1>3, <2>2
<1>5. running' = <<>> <=> M = 1
  BY <1>3, <1>4, EmptySeq
<1>6. /\ \A i \in 1 .. N : Id(i)' = Id(i) /\ Id(i) \in Ids
      /\ Linked' /\ Ordered'
  BY <1>0, <1>2, FramesStay, Types DEF CInv
<1>7. \A x : /\ Idle(x)' <=> Idle(x)
             /\ HasRun(x)' <=> HasRun(x)
             /\ Dropped(x)' <=> Dropped(x)
  BY <1>2 DEF Idle, HasRun, Dropped
<1>8. Old' = Old /\ Old \in 0 .. N /\ (M = 1 => Old = N)
  <2>1. Old = running[1].base
    BY <1>2 DEF Old
  <2>2. CASE M = 1
    <3>1. Old' = N
      BY <1>0, <1>2, <1>5, <2>2 DEF Old
    <3> QED BY <1>0, <1>2, <1>3, <2>1, <2>2, <3>1
  <2>3. CASE M # 1
    <3>1. Old' = running'[1].base
      BY <1>5, <2>3 DEF Old
    <3>2. 1 \in 1 .. M - 1
      BY <1>3, <2>3
    <3> QED BY <1>0, <1>4, <2>1, <2>3, <3>1, <3>2, Types
  <2> QED BY <2>2, <2>3
<1>9. Bases'
  <2>1. \A i \in 1 .. M : running[i].base <= N
    BY <1>0, <1>1 DEF CInv, Bases
  <2>2. \A i, j \in 1 .. M : i < j => running[i].base <= running[j].base
    BY <1>1 DEF CInv, Bases
  <2>3. \A i \in 1 .. M - 1 : running'[i].base <= N
    BY <1>4, <2>1
  <2>4. \A i, j \in 1 .. M - 1 : i < j => running'[i].base <= running'[j].base
    BY <1>4, <2>2
  <2> QED BY <1>0, <1>2, <1>4, <2>3, <2>4 DEF Bases
<1>10. Walk' /\ p' \in Nodes \cup {Null}
  <2>1. CASE ~exiting
    <3>1. \A i \in 1 .. N : Idle(Id(i))
      BY <1>0, <2>1 DEF CInv, Walk
    <3>2. \A i \in 1 .. N : Idle(Id(i))'
      BY <1>2, <1>6, <3>1 DEF Idle
    <3> QED BY <1>0, <1>2, <2>1, <3>2 DEF Walk, CInv, StackTypeOK
  <2>2. CASE exiting
    <3>1. PICK k \in 0 .. Old : WalksAt(k)
      BY <2>2 DEF CInv, Walk
    <3>2. k \in Nat /\ k > 0 /\ k \in 1 .. N /\ p = frames[k] /\ p \in Nodes
      <4>1. k > 0
        BY <1>2, <3>1 DEF WalksAt
      <4>2. k \in 1 .. N /\ k # 0
        BY <1>8, <3>1, <4>1
      <4> QED BY <1>0, <3>1, <4>1, <4>2, Types DEF WalksAt
    <3>3. \A i \in 1 .. N : IF i <= Old /\ (k < i \/ k = i)
                            THEN HasRun(Id(i)) ELSE Idle(Id(i))
      BY <1>0, <1>2, <3>1 DEF WalksAt
    <3>4. \A i \in 1 .. N : /\ HasRun(Id(i))' <=> HasRun(Id(i))
                            /\ Idle(Id(i))' <=> Idle(Id(i))
      BY <1>2, <1>6 DEF HasRun, Idle
    <3>5. CASE M = 1
      <4>1. PICK j \in Nat : j = k - 1
        BY <3>2
      <4>2. /\ j \in 0 .. Old /\ (j = 0 <=> k = 1)
            /\ \A i \in 1 .. N : (k < i \/ k = i) <=> j < i
        BY <1>8, <3>1, <3>2, <4>1
      <4>3. prev[frames[k]] = IF k = 1 THEN Null ELSE frames[k - 1]
        BY <1>0, <3>2 DEF CInv, Linked
      <4>4. p' = IF j = 0 THEN Null ELSE frames'[j]
        BY <1>2, <2>2, <3>2, <3>5, <4>1, <4>2, <4>3
      <4>5. \A i \in 1 .. N : IF i <= Old' /\ (j < i \/ (j = i /\ running' # <<>>))
                              THEN HasRun(Id(i))' ELSE Idle(Id(i))'
        BY <1>5, <1>8, <3>3, <3>4, <3>5, <4>2
      <4>6. WalksAt(j)'
        BY <1>0, <1>2, <1>5, <3>5, <4>4, <4>5 DEF WalksAt
      <4>7. p' \in Nodes \cup {Null}
        BY <1>2, <2>2, <3>2, <3>5, Types
      <4> QED BY <1>2, <1>8, <2>2, <4>2, <4>6, <4>7 DEF Walk
    <3>6. CASE M # 1
      <4>1. p' = IF k = 0 THEN Null ELSE frames'[k]
        BY <1>2, <3>2, <3>6
      <4>2. \A i \in 1 .. N : IF i <= Old' /\ (k < i \/ (k = i /\ running' # <<>>))
                              THEN HasRun(Id(i))' ELSE Idle(Id(i))'
        BY <1>5, <1>8, <3>3, <3>4, <3>6
      <4>3. WalksAt(k)'
        BY <1>0, <1>2, <3>2, <4>1, <4>2 DEF WalksAt
      <4>4. p' \in Nodes \cup {Null}
        BY <1>2, <3>2, <3>6
      <4> QED BY <1>2, <1>8, <2>2, <3>1, <4>3, <4>4 DEF Walk
    <3> QED BY <3>5, <3>6
  <2> QED BY <2>1, <2>2
<1>11. StackTypeOK'
  BY <1>2, <1>4, <1>10 DEF CInv, StackTypeOK
<1>12. Accounted'
  BY <1>0, <1>2, <1>6, <1>7 DEF CInv, Accounted
<1> QED BY <1>6, <1>9, <1>10, <1>11, <1>12 DEF CInv

LEMMA ExitCInv ==
  ASSUME CInv, Exit
  PROVE  CInv'
<1>0. PICK N \in Nat : N = Len(frames)
  BY Types
<1>1. /\ ~exiting /\ exiting' = TRUE /\ p' = current /\ running' = <<>>
      /\ UNCHANGED <<current, prev, routine, frames, pushes, ran, skipped>>
  BY DEF Exit, history
<1>2. /\ \A i \in 1 .. N : Id(i)' = Id(i) /\ Id(i) \in Ids
      /\ Linked' /\ Ordered'
  BY <1>0, <1>1, FramesStay, Types DEF CInv
<1>3. Old' = N /\ Len(running') = 0
  BY <1>0, <1>1, EmptySeq DEF Old
<1>5. StackTypeOK'
  <2>1. running' \in Seq([id : Ids, base : Nat])
    BY <1>1, EmptySeq
  <2> QED BY <1>1, <2>1 DEF CInv, StackTypeOK
<1>6. Bases'
  BY <1>3 DEF Bases
<1>7. Walk'
  <2>1. \A i \in 1 .. N : Idle(Id(i))'
    BY <1>0, <1>1, <1>2 DEF CInv, Walk, Idle
  <2>2. p' = IF N = 0 THEN Null ELSE frames'[N]
    BY <1>0, <1>1, Types DEF CInv, Linked
  <2>3. \A i \in 1 .. N : ~(N < i)
    OBVIOUS
  <2>4. WalksAt(N)'
    BY <1>0, <1>1, <1>3, <2>1, <2>2, <2>3 DEF WalksAt
  <2>5. N \in 0 .. N
    OBVIOUS
  <2> QED BY <1>1, <1>3, <2>4, <2>5 DEF Walk
<1>8. Accounted'
  BY <1>0, <1>1, <1>2 DEF CInv, Accounted, Idle, HasRun, Dropped
<1> QED BY <1>2, <1>5, <1>6, <1>7, <1>8 DEF CInv

LEMMA ExitRunsCInv ==
  ASSUME CInv, ExitRuns
  PROVE  CInv'
<1>0. PICK N \in Nat : N = Len(frames)
  BY Types
<1>1. /\ exiting /\ running = <<>> /\ p # Null /\ Run(routine[p])
      /\ UNCHANGED <<current, prev, routine, frames, p, exiting, pushes, skipped>>
  BY DEF ExitRuns
<1>2. /\ \A i \in 1 .. N : Id(i)' = Id(i) /\ Id(i) \in Ids
      /\ Linked' /\ Ordered'
  BY <1>0, <1>1, FramesStay, Types DEF CInv
<1>3. Old = N /\ Len(running) = 0
  BY <1>0, <1>1, Types DEF Old
<1>4. PICK k \in 0 .. N : WalksAt(k)
  BY <1>1, <1>3 DEF CInv, Walk
<1>5. k \in 1 .. N /\ p = frames[k]
  BY <1>1, <1>4 DEF WalksAt
<1>6. PICK id \in Ids : id = Id(k)
  BY <1>2, <1>5
<1>7. /\ running' \in Seq([id : Ids, base : Nat]) /\ running' # <<>>
      /\ Len(running') = 1 /\ running'[1].base = N
      /\ ran' \in [Ids -> 0 .. 2]
      /\ ran'[id] = IF ran[id] = 0 THEN 1 ELSE 2
      /\ \A x \in Ids : x # id => ran'[x] = ran[x]
  <2>1. Run(id) /\ Len(frames') = N
    BY <1>0, <1>1, <1>5, <1>6 DEF Id
  <2>2. Len(running) + 1 = 1
    BY <1>3
  <2> QED BY <1>3, <2>1, <2>2, RunEffect
<1>8. Old' = N
  BY <1>7 DEF Old
<1>9. \A i \in 1 .. N : IF k < i THEN HasRun(Id(i)) ELSE Idle(Id(i))
  BY <1>0, <1>1, <1>3, <1>4 DEF WalksAt
<1>10. HasRun(id)'
  <2>1. Idle(id)
    BY <1>5, <1>6, <1>9
  <2> QED BY <1>1, <1>7, <2>1 DEF Idle, HasRun
<1>11. \A x \in Ids : x # id => /\ Idle(x)' <=> Idle(x)
                                /\ HasRun(x)' <=> HasRun(x)
                                /\ Dropped(x)' <=> Dropped(x)
  BY <1>1, <1>7 DEF Idle, HasRun, Dropped
<1>12. StackTypeOK'
  BY <1>1, <1>7 DEF CInv, StackTypeOK
<1>13. Bases'
  <2>1. \A i, j \in 1 .. 1 : ~(i < j) /\ i = 1
    OBVIOUS
  <2>2. N <= N
    OBVIOUS
  <2> QED BY <1>0, <1>1, <1>7, <2>1, <2>2 DEF Bases
<1>14. Walk'
  <2>1. ASSUME NEW i \in 1 .. N
        PROVE  IF i <= N /\ (k < i \/ (k = i /\ running' # <<>>))
               THEN HasRun(Id(i))' ELSE Idle(Id(i))'
    <3>1. CASE i = k
      <4>1. HasRun(Id(i))'
        BY <1>2, <1>6, <1>10, <3>1 DEF HasRun
      <4> QED BY <1>7, <3>1, <4>1
    <3>2. CASE i # k
      <4>1. Id(i) # id
        BY <1>0, <1>5, <1>6, <3>2, FramesDiffer
      <4>2. /\ HasRun(Id(i))' <=> HasRun(Id(i))
            /\ Idle(Id(i))' <=> Idle(Id(i))
        BY <1>1, <1>2, <1>7, <4>1 DEF HasRun, Idle
      <4> QED BY <1>9, <3>2, <4>2
    <3> QED BY <3>1, <3>2
  <2>2. p' = IF k = 0 THEN Null ELSE frames'[k]
    BY <1>1, <1>5
  <2>3. k > 0 /\ k \in 0 .. N
    BY <1>5
  <2>4. WalksAt(k)'
    BY <1>0, <1>1, <1>8, <2>1, <2>2, <2>3 DEF WalksAt
  <2> QED BY <1>1, <1>8, <2>3, <2>4 DEF Walk
<1>15. Accounted'
  <2>1. id <= pushes
    BY <1>0, <1>5, <1>6, Types
  <2>2. \A x \in Ids : x > pushes => x # id
    BY <2>1, Types DEF Ids
  <2>3. \A x \in Ids : x > pushes => Idle(x)'
    BY <1>11, <2>2 DEF CInv, Accounted
  <2>4. ASSUME NEW x \in Ids, x <= pushes
        PROVE  (\E i \in 1 .. N : Id(i)' = x) \/ HasRun(x)' \/ Dropped(x)'
    <3>1. (\E i \in 1 .. N : Id(i) = x) \/ HasRun(x) \/ Dropped(x)
      BY <1>0, <2>4 DEF CInv, Accounted
    <3>2. CASE x = id
      BY <1>10, <3>2
    <3>3. CASE x # id
      BY <1>2, <1>11, <3>1, <3>3
    <3> QED BY <3>2, <3>3
  <2> QED BY <1>0, <1>1, <2>3, <2>4 DEF Accounted
<1> QED BY <1>2, <1>12, <1>13, <1>14, <1>15 DEF CInv

LEMMA NextCInv == CInv /\ [StackNext]_stackVars => CInv'
<1> SUFFICES ASSUME CInv, [StackNext]_stackVars
             PROVE  CInv'
  OBVIOUS
<1>1. ASSUME NEW n \in Nodes, Push(n)
      PROVE  CInv'
  BY <1>1, PushCInv
<1>2. ASSUME NEW execute \in BOOLEAN, Pop(execute)
      PROVE  CInv'
  BY <1>2, PopCInv
<1>3. CASE HandlerReturns
  BY <1>3, HandlerReturnsCInv
<1>4. CASE Exit
  BY <1>4, ExitCInv
<1>5. CASE ExitRuns
  BY <1>5, ExitRunsCInv
<1>6. CASE UNCHANGED stackVars
  <2>1. UNCHANGED <<current, prev, routine, frames, running, p, exiting,
                    pushes, ran, skipped>>
    BY <1>6 DEF stackVars, history
  <2>2. \A i : Id(i)' = Id(i)
    BY <2>1 DEF Id
  <2>3. \A x : /\ Idle(x)' <=> Idle(x)
               /\ HasRun(x)' <=> HasRun(x)
               /\ Dropped(x)' <=> Dropped(x)
    BY <2>1 DEF Idle, HasRun, Dropped
  <2>4. Old' = Old
    BY <2>1 DEF Old
  <2>5. StackTypeOK' /\ Linked' /\ Bases'
    BY <2>1 DEF CInv, StackTypeOK, Linked, Bases
  <2>6. Ordered'
    BY <2>1, <2>2 DEF CInv, Ordered
  <2>7. Accounted'
    BY <2>1, <2>2, <2>3 DEF CInv, Accounted
  <2>8. \A i \in 1 .. Len(frames) : /\ HasRun(Id(i))' <=> HasRun(Id(i))
                                    /\ Idle(Id(i))' <=> Idle(Id(i))
    BY <2>1, <2>2 DEF HasRun, Idle
  <2>9. \A k : WalksAt(k) => WalksAt(k)'
    BY <2>1, <2>4, <2>8 DEF WalksAt
  <2>10. Walk'
    BY <2>1, <2>4, <2>8, <2>9 DEF CInv, Walk
  <2> QED BY <2>5, <2>6, <2>7, <2>10 DEF CInv
<1> QED BY <1>1, <1>2, <1>3, <1>4, <1>5, <1>6 DEF StackNext

(* The list, the application's frames, the handlers that run and what is    *)
(* recorded of each handler agree at every moment of every execution.       *)
THEOREM StackInvariant == StackSpec => []CInv
BY InitCInv, NextCInv, PTL DEF StackSpec

(* The variables keep their types: no routine is called through a garbage   *)
(* pointer, and the destructor's p is always a node or the end.             *)
THEOREM StackTypeCorrect == StackSpec => []StackTypeOK
<1>1. CInv => StackTypeOK
  BY DEF CInv
<1> QED BY <1>1, StackInvariant, PTL

(* Every handler is run once or popped, for any nodes and pushes: also when *)
(* a handler that pop runs exits the thread, and when a handler of the exit *)
(* pushes and pops handlers of its own.                                     *)
THEOREM HandlersRunOnce == StackSpec => []ExactlyOnce
<1>1. ASSUME CInv PROVE ExactlyOnce
  <2>1. \A i \in 1 .. Len(frames) : Idle(Id(i)) \/ HasRun(Id(i))
    <3>1. CASE ~exiting
      BY <1>1, <3>1 DEF CInv, Walk
    <3>2. CASE exiting
      <4>1. PICK k \in 0 .. Old : WalksAt(k)
        BY <1>1, <3>2 DEF CInv, Walk
      <4> QED BY <4>1 DEF WalksAt
    <3> QED BY <3>1, <3>2
  <2>2. ASSUME NEW id \in Ids
        PROVE  Idle(id) \/ HasRun(id) \/ Dropped(id)
    <3>1. id > pushes \/ id <= pushes
      BY <1>1, Types DEF Ids
    <3>2. CASE id > pushes
      BY <1>1, <3>2 DEF CInv, Accounted
    <3>3. CASE id <= pushes
      <4>1. (\E i \in 1 .. Len(frames) : Id(i) = id) \/ HasRun(id) \/ Dropped(id)
        BY <1>1, <3>3 DEF CInv, Accounted
      <4> QED BY <2>1, <4>1
    <3> QED BY <3>1, <3>2, <3>3
  <2>3. AtMostOnce
    BY <2>2 DEF AtMostOnce, Idle, HasRun, Dropped
  <2>4. ASSUME Exited, NEW id \in 1 .. pushes
        PROVE  ran[id] > 0 \/ id \in skipped
    <3>1. exiting /\ running = <<>> /\ p = Null
      BY <2>4 DEF Exited
    <3>2. PICK k \in 0 .. Old : WalksAt(k)
      BY <1>1, <3>1 DEF CInv, Walk
    <3>3. Old = Len(frames)
      BY <3>1 DEF Old
    <3>4. k = 0
      <4>1. k # 0 => k \in 1 .. Len(frames)
        BY <1>1, <3>2, <3>3, Types
      <4> QED BY <1>1, <3>1, <3>2, <4>1, Types DEF WalksAt
    <3>5. \A i \in 1 .. Len(frames) : i <= Old /\ 0 < i
      BY <1>1, <3>3, Types
    <3>6. \A i \in 1 .. Len(frames) : HasRun(Id(i))
      BY <3>2, <3>4, <3>5 DEF WalksAt
    <3>7. id \in Ids /\ id <= pushes
      BY <1>1, Types DEF Ids
    <3>8. (\E i \in 1 .. Len(frames) : Id(i) = id) \/ HasRun(id) \/ Dropped(id)
      BY <1>1, <3>7 DEF CInv, Accounted
    <3>9. HasRun(id) \/ Dropped(id)
      BY <3>6, <3>8
    <3> QED BY <3>9 DEF HasRun, Dropped
  <2> QED BY <2>3, <2>4 DEF ExactlyOnce, NoneForgotten
<1> QED BY <1>1, StackInvariant, PTL

(* A pushed handler that still waits is the handler of some frame. *)
LEMMA WaitingHasFrame ==
  ASSUME CInv, NEW id \in Waiting
  PROVE  \E i \in 1 .. Len(frames) : Id(i) = id
<1>1. id \in Ids /\ id <= pushes
  BY Types DEF Waiting, Ids
<1>2. ~HasRun(id) /\ ~Dropped(id)
  BY DEF Waiting, HasRun, Dropped
<1> QED BY <1>1, <1>2 DEF CInv, Accounted

(* The frame whose handler a step starts: no waiting handler is newer when  *)
(* none of the frames above it has one.                                     *)
LEMMA NewestFrame ==
  ASSUME CInv, NEW k \in 1 .. Len(frames), Idle(Id(k)),
         \A i \in 1 .. Len(frames) : i > k => ~Idle(Id(i))
  PROVE  Id(k) \in Waiting /\ \A other \in Waiting : other <= Id(k)
<1>1. Id(k) \in Ids /\ Id(k) <= pushes
  BY Types
<1>2. Id(k) \in Waiting
  BY <1>1, Types DEF Waiting, Idle, Ids
<1>3. ASSUME NEW other \in Waiting
      PROVE  other <= Id(k)
  <2>1. PICK i \in 1 .. Len(frames) : Id(i) = other
    BY WaitingHasFrame
  <2>2. Idle(Id(i))
    BY <2>1 DEF Waiting, Idle
  <2>3. i = k \/ i < k
    BY <2>2, Types
  <2>4. i < k => Id(i) < Id(k)
    BY DEF CInv, Ordered
  <2>5. Id(i) \in Nat /\ Id(k) \in Nat
    BY Types DEF Ids
  <2> QED BY <2>1, <2>3, <2>4, <2>5
<1> QED BY <1>2, <1>3

(* Whoever starts a handler, pop or the exit, starts the newest one still   *)
(* waiting, whatever the handlers push, pop or exit themselves.             *)
THEOREM HandlersRunNewestFirst == StackSpec => NewestFirst
<1>1. ASSUME CInv, NEW id \in Ids, NEW k \in 1 .. Len(frames), id = Id(k),
             Idle(id), \A i \in 1 .. Len(frames) : i > k => ~Idle(Id(i)),
             \A x \in Ids : x # id => ran'[x] = ran[x]
      PROVE  NewestStarts
  BY <1>1, NewestFrame DEF NewestStarts
<1>2. ASSUME CInv, [StackNext]_stackVars
      PROVE  NewestStarts
  <2>1. ASSUME NEW execute \in BOOLEAN, Pop(execute)
        PROVE  NewestStarts
    <3>1. PICK N \in Nat : N = Len(frames)
      BY <1>2, Types
    <3>2. N > 0 /\ N \in 1 .. N /\ Idle(Id(N)) /\ Id(N) \in Ids
      BY <1>2, <2>1, <3>1, PopsIdle, Types
    <3>3. routine[Last(frames)] = Id(N) /\ Len(frames') \in Nat
      <4>1. frames' = Front(frames) /\ UNCHANGED routine
        BY <2>1 DEF Pop
      <4>2. Last(frames) = frames[N] /\ Len(frames') = N - 1
        BY <1>2, <3>1, <3>2, <4>1, PopFrames
      <4> QED BY <3>2, <4>2 DEF Id
    <3>4. \A x \in Ids : x # Id(N) => ran'[x] = ran[x]
      <4>1. CASE execute
        <5>1. Run(Id(N))
          BY <2>1, <3>3, <4>1 DEF Pop
        <5> QED BY <1>2, <3>2, <3>3, <5>1, RunEffect
      <4>2. CASE ~execute
        BY <2>1, <4>2 DEF Pop
      <4> QED BY <4>1, <4>2
    <3>5. \A i \in 1 .. N : ~(i > N)
      OBVIOUS
    <3> QED BY <1>1, <1>2, <3>1, <3>2, <3>4, <3>5
  <2>2. CASE ExitRuns
    <3>1. exiting /\ running = <<>> /\ p # Null /\ Run(routine[p]) /\ UNCHANGED frames
      BY <2>2 DEF ExitRuns
    <3>2. PICK N \in Nat : N = Len(frames) /\ Old = N
      BY <1>2, <3>1, Types DEF Old
    <3>3. PICK k \in 0 .. N : WalksAt(k)
      BY <1>2, <3>1, <3>2 DEF CInv, Walk
    <3>4. k \in 1 .. N /\ p = frames[k] /\ Id(k) \in Ids
      BY <1>2, <3>1, <3>2, <3>3, Types DEF WalksAt
    <3>5. \A i \in 1 .. N : IF k < i THEN HasRun(Id(i)) ELSE Idle(Id(i))
      BY <3>1, <3>2, <3>3 DEF WalksAt
    <3>6. Idle(Id(k)) /\ \A i \in 1 .. N : i > k => ~Idle(Id(i))
      BY <3>4, <3>5 DEF Idle, HasRun
    <3>7. \A x \in Ids : x # Id(k) => ran'[x] = ran[x]
      <4>1. Run(Id(k)) /\ Len(frames') \in Nat
        BY <3>1, <3>2, <3>4 DEF Id
      <4> QED BY <1>2, <3>4, <4>1, RunEffect
    <3> QED BY <1>1, <1>2, <3>2, <3>4, <3>6, <3>7
  <2>3. ASSUME UNCHANGED ran
        PROVE  NewestStarts
    BY <2>3 DEF NewestStarts
  <2>4. (\E n \in Nodes : Push(n)) \/ HandlerReturns \/ Exit \/ UNCHANGED stackVars
          => UNCHANGED ran
    BY DEF Push, HandlerReturns, Exit, stackVars, history
  <2> QED BY <1>2, <2>1, <2>2, <2>3, <2>4 DEF StackNext
<1> QED BY <1>2, StackInvariant, PTL DEF StackSpec, NewestFirst
=============================================================================
