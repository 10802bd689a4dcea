---------------------------- MODULE Streams_proof ----------------------------
(***************************************************************************)
(* Ownership of the FILE and DIR wrappers, for any threads, streams and    *)
(* addresses.  HandlesOwned is inductive once the variables' types are     *)
(* known: whoever closes a stream takes all its handles from the           *)
(* application first, and the address of a wrapper is given out again only *)
(* after its deletion.                                                     *)
(***************************************************************************)
EXTENDS Streams, TLAPS

Types ==
  /\ host \in [Files -> [kind : {"closed", "std", "file", "dir"},
                         left : 0 .. Length, eof : BOOLEAN]]
  /\ wrap \in [Handles -> [live : BOOLEAN, wrapped : Files, word : Int]]
  /\ owned \in SUBSET Handles /\ seeks \in 0 .. MaxSeeks
  /\ pc \in [Threads -> {"idle", "loop", "feof", "store", "delete"}]
  /\ arg \in [Threads -> Handles]
  /\ feof \in [Threads -> BOOLEAN] /\ loop \in [Threads -> BOOLEAN]

IInv == Types /\ HandlesOwned

-----------------------------------------------------------------------------
(* What the host does to a stream keeps its type, and reading its kind. *)
LEMMA ConsumeKeeps ==
  ASSUME NEW h \in [kind : {"closed", "std", "file", "dir"},
                    left : 0 .. Length, eof : BOOLEAN]
  PROVE  /\ Consume(h) \in [kind : {"closed", "std", "file", "dir"},
                            left : 0 .. Length, eof : BOOLEAN]
         /\ Consume(h).kind = h.kind
<1>1. CASE h.left > 0
  <2>1. Consume(h) = [h EXCEPT !.left = h.left - 1]
    BY <1>1 DEF Consume
  <2>2. h.left - 1 \in 0 .. Length
    BY <1>1, BoundsAreNats
  <2> QED BY <2>1, <2>2
<1>2. CASE ~(h.left > 0)
  <2>1. Consume(h) = [h EXCEPT !.eof = (h.kind # "dir")]
    BY <1>2 DEF Consume
  <2> QED BY <2>1
<1> QED BY <1>1, <1>2

(* The standard wrappers are there from the start. *)
LEMMA InitIInv == Init => IInv
<1> SUFFICES ASSUME Init PROVE IInv
  OBVIOUS
<1>1. \A w \in Handles : /\ wrap[w].wrapped = Stdin /\ wrap[w].word = 0
                         /\ wrap[w].live = (w = Standard)
  BY DEF Init, Free
<1>2. wrap \in [Handles -> [live : BOOLEAN, wrapped : Files, word : Int]]
  <2>1. Free \in [live : BOOLEAN, wrapped : Files, word : Int]
    BY NamesDiffer DEF Free
  <2>2. \A b \in BOOLEAN :
          [Free EXCEPT !.live = b] \in [live : BOOLEAN, wrapped : Files, word : Int]
    BY <2>1
  <2>3. \A w \in Handles : (w = Standard) \in BOOLEAN
    OBVIOUS
  <2> QED BY <2>2, <2>3, Zenon DEF Init
<1>3. Types
  BY <1>2, NamesDiffer, BoundsAreNats DEF Init, Types, Handles
<1>4. HandlesOwned
  BY <1>1, NamesDiffer DEF Init, HandlesOwned, Handles, Kind, Of
<1> QED BY <1>3, <1>4 DEF IInv

(* fopen and opendir: the new wrapper has an address that nobody deletes. *)
LEMMA OpenKeeps ==
  ASSUME IInv, NEW t \in Threads, NEW w \in Handles, NEW s \in Files,
         NEW kind \in {"file", "dir"}, Open(t, w, s, kind)
  PROVE  IInv'
<1>1. Types'
  BY BoundsAreNats DEF IInv, Types, Open, Wrap, Fresh, Stay
<1>2. /\ \A v \in Handles : v # w => wrap'[v] = wrap[v]
      /\ wrap'[w].live /\ Of(w)' = s /\ host'[s].kind = kind
      /\ \A r \in Files : r # s => host'[r] = host[r]
      /\ ~wrap[w].live
  BY DEF IInv, Types, Open, Wrap, Fresh, Of
<1>3. HandlesOwned'
  BY <1>2, NamesDiffer DEF IInv, Types, HandlesOwned, Open, Wrap, Stay, Kind, Of, Handles
<1> QED BY <1>1, <1>3 DEF IInv

(* freopen: so has the second wrapper, whose stream is open like the first's. *)
LEMMA ReopenKeeps ==
  ASSUME IInv, NEW t \in Threads, NEW w \in Handles, NEW w2 \in Addrs, Reopen(t, w, w2)
  PROVE  IInv'
<1>0. w2 \in Handles /\ Of(w) \in Files
  BY DEF Handles, IInv, Types, Of
<1>1. Types'
  BY <1>0, BoundsAreNats DEF IInv, Types, Reopen, Wrap, Fresh, Stay
<1>2. /\ \A v \in Handles : v # w2 => wrap'[v] = wrap[v]
      /\ wrap'[w2].live /\ Of(w2)' = Of(w) /\ ~wrap[w2].live
      /\ \A r \in Files : host'[r].kind = host[r].kind
  BY <1>0 DEF IInv, Types, Reopen, Wrap, Fresh, Of
<1>3. HandlesOwned'
  BY <1>0, <1>2, NamesDiffer DEF IInv, Types, HandlesOwned, Reopen, Wrap, Stay, Kind, Of, Handles
<1> QED BY <1>1, <1>3 DEF IInv

(* A failing freopen closes a stream that nobody uses. *)
LEMMA ReopenFailsKeeps ==
  ASSUME IInv, NEW t \in Threads, NEW w \in Handles, ReopenFails(t, w)
  PROVE  IInv'
<1>0. Of(w) \in Files
  BY DEF IInv, Types, Of
<1>1. Types'
  BY <1>0 DEF IInv, Types, ReopenFails, Stay
<1>2. \A r \in Files : r # Of(w) => host'[r] = host[r]
  BY <1>0 DEF IInv, Types, ReopenFails
<1>3. HandlesOwned'
  BY <1>0, <1>2 DEF IInv, Types, HandlesOwned, ReopenFails, Stay, Kind, Of, InUse, HandlesOf
<1> QED BY <1>1, <1>3 DEF IInv

(* fclose and closedir, the host's part: the stream's handles are no longer  *)
(* the application's, and no other thread is inside a call on one of them.   *)
LEMMA StartCloseKeeps ==
  ASSUME IInv, NEW t \in Threads, NEW w \in Handles, StartClose(t, w)
  PROVE  IInv'
<1>0. Of(w) \in Files
  BY DEF IInv, Types, Of
<1>1. Types'
  BY <1>0 DEF IInv, Types, StartClose
<1>2. /\ \A r \in Files : r # Of(w) => host'[r] = host[r]
      /\ wrap' = wrap /\ owned' = owned \ HandlesOf(Of(w)) /\ w \in owned /\ w \notin owned'
      /\ pc'[t] = "delete" /\ arg'[t] = w
      /\ \A u \in Threads \ {t} : pc'[u] = pc[u] /\ arg'[u] = arg[u]
  BY <1>0 DEF IInv, Types, StartClose, HandlesOf
<1>3. \A v \in owned' : wrap'[v].live /\ Kind(v)' # "closed"
  BY <1>2 DEF IInv, Types, HandlesOwned, Kind, Of, HandlesOf
<1>4. ASSUME NEW u \in Threads, pc'[u] \in {"loop", "feof", "store"}
      PROVE  arg'[u] \in owned' /\ arg'[u] # w
  BY <1>2, <1>4 DEF IInv, Types, HandlesOwned, StartClose, InUse, HandlesOf, Of
<1>5. ASSUME NEW u \in Threads \ {t}, pc'[u] # "idle"
      PROVE  arg'[u] # w
  <2>1. CASE pc'[u] = "delete"
    BY <1>2, <2>1 DEF IInv, HandlesOwned
  <2>2. CASE pc'[u] # "delete"
    BY <1>1, <1>4, <1>5, <2>2 DEF Types
  <2> QED BY <2>1, <2>2
<1>6. ASSUME NEW u \in Threads, pc'[u] = "delete"
      PROVE  /\ wrap'[arg'[u]].live /\ arg'[u] \notin owned'
             /\ \A v \in Threads \ {u} :
                  pc'[v] # "idle" => arg'[v] # arg'[u] \/ arg'[u] = Standard
  BY <1>2, <1>5, <1>6 DEF IInv, HandlesOwned
<1>7. wrap'[Standard].live
  BY <1>2 DEF IInv, HandlesOwned
<1> QED BY <1>1, <1>3, <1>4, <1>6, <1>7 DEF IInv, HandlesOwned

(* ... and its end: the wrapper that is deleted is nobody else's. *)
LEMMA FinishCloseKeeps ==
  ASSUME IInv, NEW t \in Threads, FinishClose(t)
  PROVE  IInv'
<1>1. Types'
  <2>1. Free \in [live : BOOLEAN, wrapped : Files, word : Int]
    BY NamesDiffer DEF Free
  <2>2. Standard \in Handles
    BY DEF Handles
  <2>3. wrap' \in [Handles -> [live : BOOLEAN, wrapped : Files, word : Int]]
    BY <2>1 DEF IInv, Types, FinishClose
  <2>4. /\ pc' \in [Threads -> {"idle", "loop", "feof", "store", "delete"}]
        /\ arg' \in [Threads -> Handles]
    BY <2>2 DEF IInv, Types, FinishClose
  <2> QED BY <2>3, <2>4 DEF IInv, Types, FinishClose
<1>2. /\ pc'[t] = "idle"
      /\ \A u \in Threads \ {t} : pc'[u] = pc[u] /\ arg'[u] = arg[u]
  BY DEF IInv, Types, FinishClose
<1>3. \A v \in Handles : v # arg[t] \/ v = Standard => wrap'[v] = wrap[v]
  BY DEF IInv, Types, FinishClose
<1>4. HandlesOwned'
  BY <1>2, <1>3 DEF IInv, Types, HandlesOwned, FinishClose, Kind, Of, Handles
<1> QED BY <1>1, <1>4 DEF IInv

(* fread and its like start on a handle the application may use. *)
LEMMA ReadKeeps ==
  ASSUME IInv, NEW t \in Threads, NEW w \in Handles, Read(t, w)
  PROVE  IInv'
<1>0. Of(w) \in Files /\ w \in owned
  BY DEF IInv, Types, Of, HandlesOwned, Read
<1>1. Types'
  BY <1>0, ConsumeKeeps DEF IInv, Types, Read
<1>2. \A r \in Files : host'[r].kind = host[r].kind
  BY <1>0, ConsumeKeeps DEF IInv, Types, Read
<1>3. HandlesOwned'
  BY <1>0, <1>2 DEF IInv, Types, HandlesOwned, Read, Kind, Of
<1> QED BY <1>1, <1>3 DEF IInv

(* The calls that are one host call, and readdir, which fills its buffer. *)
LEMMA CallKeeps ==
  ASSUME IInv, NEW t \in Threads, NEW w \in Handles,
         PlainRead(t, w) \/ Seek(t, w) \/ ReadDir(t, w)
  PROVE  IInv'
<1>0. Of(w) \in Files
  BY DEF IInv, Types, Of
<1>1. Types'
  <2>1. CASE PlainRead(t, w)
    BY <2>1, <1>0, ConsumeKeeps DEF IInv, Types, PlainRead, Stay
  <2>2. CASE Seek(t, w)
    BY <2>2, <1>0, BoundsAreNats DEF IInv, Types, Seek, Stay, Fresh
  <2>3. CASE ReadDir(t, w)
    <3>1. host' \in [Files -> [kind : {"closed", "std", "file", "dir"},
                                left : 0 .. Length, eof : BOOLEAN]]
      BY <2>3, <1>0, ConsumeKeeps DEF IInv, Types, ReadDir
    <3>2. Length - host[Of(w)].left + 1 \in Int
      BY <1>0, BoundsAreNats DEF IInv, Types
    <3>3. wrap' \in [Handles -> [live : BOOLEAN, wrapped : Files, word : Int]]
      BY <2>3, <3>2 DEF IInv, Types, ReadDir
    <3> QED BY <2>3, <3>1, <3>3 DEF IInv, Types, ReadDir, Stay
  <2> QED BY <2>1, <2>2, <2>3
<1>2. /\ \A r \in Files : host'[r].kind = host[r].kind
      /\ \A v \in Handles : wrap'[v].live = wrap[v].live /\ wrap'[v].wrapped = wrap[v].wrapped
      /\ UNCHANGED <<pc, arg, owned>>
  <2>1. CASE PlainRead(t, w)
    BY <2>1, <1>0, ConsumeKeeps DEF IInv, Types, PlainRead, Stay
  <2>2. CASE Seek(t, w)
    BY <2>2, <1>0 DEF IInv, Types, Seek, Stay, Fresh
  <2>3. CASE ReadDir(t, w)
    BY <2>3, <1>0, ConsumeKeeps DEF IInv, Types, ReadDir, Stay
  <2> QED BY <2>1, <2>2, <2>3
<1>3. HandlesOwned'
  BY <1>2 DEF IInv, Types, HandlesOwned, Kind, Of, Handles
<1> QED BY <1>1, <1>3 DEF IInv

(* The flag of the wrapper and the application's loop over it. *)
LEMMA FlagKeeps ==
  ASSUME IInv, NEW t \in Threads,
         \/ LoopEnds(t) \/ LookAtEnd(t) \/ StoreFlag(t)
         \/ \E w \in Handles : StartLoop(t, w)
  PROVE  IInv'
<1>1. Types'
  <2>1. CASE LoopEnds(t)
    BY <2>1 DEF IInv, Types, LoopEnds, Handles
  <2>2. CASE LookAtEnd(t)
    BY <2>2 DEF IInv, Types, LookAtEnd, Of
  <2>3. CASE StoreFlag(t)
    BY <2>3 DEF IInv, Types, StoreFlag, EOF, Handles
  <2>4. CASE \E w \in Handles : StartLoop(t, w)
    BY <2>4 DEF IInv, Types, StartLoop
  <2> QED BY <2>1, <2>2, <2>3, <2>4
<1>2. /\ UNCHANGED <<host, owned>>
      /\ \A v \in Handles : wrap'[v].live = wrap[v].live /\ wrap'[v].wrapped = wrap[v].wrapped
      /\ \A u \in Threads \ {t} : pc'[u] = pc[u] /\ arg'[u] = arg[u]
      /\ pc'[t] # "delete" /\ (pc'[t] # "idle" => arg'[t] \in owned)
  BY DEF IInv, Types, HandlesOwned, LoopEnds, LookAtEnd, StoreFlag, StartLoop
<1>3. HandlesOwned'
  BY <1>2 DEF IInv, Types, HandlesOwned, Kind, Of, Handles
<1> QED BY <1>1, <1>3 DEF IInv

-----------------------------------------------------------------------------
LEMMA IInvIsInductive == IInv /\ [Next]_vars => IInv'
<1> SUFFICES ASSUME IInv, [Next]_vars PROVE IInv'
  OBVIOUS
<1>1. CASE UNCHANGED vars
  BY <1>1 DEF vars, IInv, Types, HandlesOwned, Kind, Of
<1>2. CASE Next
  <2> PICK t \in Threads :
        \/ Step(t)
        \/ \E w \in Handles :
             \/ \E s \in Files, kind \in {"file", "dir"} : Open(t, w, s, kind)
             \/ \E w2 \in Addrs : Reopen(t, w, w2)
             \/ ReopenFails(t, w) \/ StartClose(t, w) \/ StartLoop(t, w)
             \/ pc[t] = "idle" /\ Read(t, w)
             \/ PlainRead(t, w) \/ Seek(t, w) \/ ReadDir(t, w)
    BY <1>2 DEF Next
  <2>1. CASE Step(t)
    BY <2>1, FinishCloseKeeps, FlagKeeps, ReadKeeps DEF Step, IInv, Types
  <2>2. ASSUME NEW w \in Handles,
               \/ \E s \in Files, kind \in {"file", "dir"} : Open(t, w, s, kind)
               \/ \E w2 \in Addrs : Reopen(t, w, w2)
               \/ ReopenFails(t, w) \/ StartClose(t, w) \/ StartLoop(t, w)
               \/ Read(t, w)
               \/ PlainRead(t, w) \/ Seek(t, w) \/ ReadDir(t, w)
        PROVE  IInv'
    BY <2>2, OpenKeeps, ReopenKeeps, ReopenFailsKeeps, StartCloseKeeps, FlagKeeps,
       ReadKeeps, CallKeeps
  <2> QED BY <2>1, <2>2
<1> QED BY <1>1, <1>2

(* Every variable keeps its type. *)
THEOREM TypeCorrect == Spec => []WTypeOK
<1>1. IInv => WTypeOK
  BY DEF IInv, Types, WTypeOK
<1> QED BY InitIInv, IInvIsInductive, <1>1, PTL DEF Spec

(* No interleaving of opens, reopens, reads and closes, and no reuse of an   *)
(* address, leaves the application or a call with a deleted wrapper or one   *)
(* of a closed stream, or deletes a wrapper that another thread is using.    *)
THEOREM HandlesAreOwned == Spec => []HandlesOwned
BY InitIInv, IInvIsInductive, PTL DEF Spec, IInv
=============================================================================
