------------------------------- MODULE Streams -------------------------------
(***************************************************************************)
(* The FILE and DIR wrappers (cstdio.cpp, dirent.cpp): a handle of the     *)
(* application is the address of a wrapper, which holds the host's stream  *)
(* and, for a FILE, a copy of its end-of-file flag that bionic's feof      *)
(* macro reads.  A step is one host call or one access to a wrapper.       *)
(*                                                                         *)
(* The application obeys C: it uses a handle from the call that returned   *)
(* it until it closes the stream, through whichever handle, and does not   *)
(* close a stream that another thread is using.                            *)
(***************************************************************************)
EXTENDS Integers, FiniteSets

CONSTANTS Threads, Addrs,   \* heap addresses for wrappers
          Files,            \* the host's streams
          Standard, Stdin,  \* a standard wrapper and the host's stream for it
          Length,           \* items in a file, entries in a directory
          MaxSeeks          \* how often a stream is repositioned or reopened

ASSUME NamesDiffer == Standard \notin Addrs /\ Stdin \in Files
ASSUME BoundsAreNats == Length \in Nat /\ MaxSeeks \in Nat

Handles == Addrs \cup {Standard}
EOF     == 32   \* 0x0020, bionic's __SEOF

VARIABLES
  host,    \* the host's streams: [kind, left, eof]
  wrap,    \* the wrappers: [live, wrapped, word]; word is the _flags of a
           \* FILE and the number of the entry in a DIR's buffer
  owned,   \* the handles the application may use
  pc, arg, \* where each thread is, and the handle it is called with
  feof,    \* what feof_unlocked told it
  loop,    \* whether it reads until the wrapper's flag is set
  seeks

vars == <<host, wrap, owned, pc, arg, feof, loop, seeks>>

Free == [live |-> FALSE, wrapped |-> Stdin, word |-> 0]

Init ==  \* init_standard_files
  /\ host = [s \in Files |-> [kind |-> IF s = Stdin THEN "std" ELSE "closed",
                              left |-> Length, eof |-> FALSE]]
  /\ wrap = [w \in Handles |-> [Free EXCEPT !.live = (w = Standard)]]
  /\ owned = {Standard}
  /\ pc = [t \in Threads |-> "idle"]
  /\ arg = [t \in Threads |-> Standard]
  /\ feof = [t \in Threads |-> FALSE] /\ loop = [t \in Threads |-> FALSE]
  /\ seeks = 0

Of(w)      == wrap[w].wrapped
InUse(s)   == \E t \in Threads : pc[t] \notin {"idle", "delete"} /\ Of(arg[t]) = s
HandlesOf(s) == {w \in owned : Of(w) = s}
Kind(w)    == host[Of(w)].kind
Stay       == UNCHANGED <<pc, arg, feof, loop>>

Fresh(kind) == [kind |-> kind, left |-> Length, eof |-> FALSE]

-----------------------------------------------------------------------------
(* wrap_file, wrap_dir: null stays null, else a new wrapper w for s. *)
Wrap(w, s) ==
  /\ ~wrap[w].live
  /\ wrap' = [wrap EXCEPT ![w] = [live |-> TRUE, wrapped |-> s, word |-> 0]]
  /\ owned' = owned \cup {w}

(* Mutant: wrap_file does not look for null. *)
Open_NoCheck(t, w, s, kind) ==
  /\ pc[t] = "idle" /\ host[s].kind = "closed"
  /\ host' = [host EXCEPT ![s] = Fresh(kind)] \/ UNCHANGED host
  /\ Wrap(w, s)
  /\ Stay /\ UNCHANGED seeks

(* fopen, fdopen, tmpfile, popen; opendir, fdopendir.  A failing host call  *)
(* changes nothing.                                                         *)
Open(t, w, s, kind) ==
  /\ pc[t] = "idle" /\ host[s].kind = "closed"
  /\ host' = [host EXCEPT ![s] = Fresh(kind)]
  /\ Wrap(w, s)
  /\ Stay /\ UNCHANGED seeks

(* freopen gives the same stream a second wrapper, w2, and keeps the first: *)
(* for C both are the one pointer the application had.                      *)
Reopen(t, w, w2) ==
  /\ pc[t] = "idle" /\ w \in owned /\ ~InUse(Of(w))
  /\ Kind(w) # "dir" /\ seeks < MaxSeeks
  /\ host' = [host EXCEPT ![Of(w)] = Fresh(@.kind)]
  /\ Wrap(w2, Of(w))
  /\ seeks' = seeks + 1 /\ Stay

(* When it fails the host has closed the stream; its wrappers stay behind. *)
ReopenFails(t, w) ==
  /\ pc[t] = "idle" /\ w \in owned /\ ~InUse(Of(w)) /\ Kind(w) # "dir"
  /\ host' = [host EXCEPT ![Of(w)].kind = "closed"]
  /\ owned' = owned \ HandlesOf(Of(w))
  /\ Stay /\ UNCHANGED <<wrap, seeks>>

(* fclose, pclose, closedir: the host's close first, whatever it returns. *)
StartClose(t, w) ==
  /\ pc[t] = "idle" /\ w \in owned /\ ~InUse(Of(w))
  /\ host' = [host EXCEPT ![Of(w)].kind = "closed"]
  /\ owned' = owned \ HandlesOf(Of(w))
  /\ pc' = [pc EXCEPT ![t] = "delete"] /\ arg' = [arg EXCEPT ![t] = w]
  /\ UNCHANGED <<wrap, feof, loop, seeks>>

(* Then the wrapper is deleted, unless it is a standard one.  The table     *)
(* lists pclose a second time as the host's own, which deletes none.        *)
FinishClose(t) ==
  /\ pc[t] = "delete"
  /\ \/ /\ arg[t] # Standard
        /\ wrap' = [wrap EXCEPT ![arg[t]] = Free]
     \/ UNCHANGED wrap
  /\ pc' = [pc EXCEPT ![t] = "idle"] /\ arg' = [arg EXCEPT ![t] = Standard]
  /\ UNCHANGED <<host, owned, feof, loop, seeks>>

-----------------------------------------------------------------------------
(* Mutant: reading goes on past the end. *)
Consume_Past(h) == [h EXCEPT !.left = @ - 1]

(* The next item of a stream, or its end. *)
Consume(h) ==
  IF h.left > 0 THEN [h EXCEPT !.left = @ - 1]
  ELSE [h EXCEPT !.eof = h.kind # "dir"]

(* The application starts to read until the flag is set. *)
StartLoop(t, w) ==
  /\ pc[t] = "idle" /\ w \in owned /\ Kind(w) # "dir"
  /\ pc' = [pc EXCEPT ![t] = "loop"] /\ arg' = [arg EXCEPT ![t] = w]
  /\ loop' = [loop EXCEPT ![t] = TRUE]
  /\ UNCHANGED <<host, wrap, owned, feof, seeks>>

(* while (!(f->_flags & EOF)) *)
LoopEnds(t) ==
  /\ pc[t] = "loop" /\ wrap[arg[t]].word = EOF
  /\ pc' = [pc EXCEPT ![t] = "idle"] /\ arg' = [arg EXCEPT ![t] = Standard]
  /\ loop' = [loop EXCEPT ![t] = FALSE]
  /\ UNCHANGED <<host, wrap, owned, feof, seeks>>

(* fread, __fread_chk, fscanf, vfscanf: the host's call, ... *)
Read(t, w) ==
  /\ \/ pc[t] = "idle" /\ w \in owned /\ Kind(w) # "dir"
     \/ pc[t] = "loop" /\ w = arg[t] /\ wrap[w].word # EOF
  /\ host' = [host EXCEPT ![Of(w)] = Consume(@)]
  /\ pc' = [pc EXCEPT ![t] = "feof"] /\ arg' = [arg EXCEPT ![t] = w]
  /\ UNCHANGED <<wrap, owned, feof, loop, seeks>>

(* ... update_feof: feof_unlocked, ... *)
LookAtEnd(t) ==
  /\ pc[t] = "feof"
  /\ feof' = [feof EXCEPT ![t] = host[Of(arg[t])].eof]
  /\ pc' = [pc EXCEPT ![t] = "store"]
  /\ UNCHANGED <<host, wrap, owned, arg, loop, seeks>>

(* Mutant: the flag is only ever cleared. *)
StoreFlag_Never(t) ==
  /\ pc[t] = "store"
  /\ wrap' = [wrap EXCEPT ![arg[t]].word = 0]
  /\ pc' = [pc EXCEPT ![t] = IF loop[t] THEN "loop" ELSE "idle"]
  /\ arg' = [arg EXCEPT ![t] = IF loop[t] THEN @ ELSE Standard]
  /\ feof' = [feof EXCEPT ![t] = FALSE]
  /\ UNCHANGED <<host, owned, loop, seeks>>

(* ... and the store to _flags, which may undo one of another thread. *)
StoreFlag(t) ==
  /\ pc[t] = "store"
  /\ wrap' = [wrap EXCEPT ![arg[t]].word = IF feof[t] THEN EOF ELSE 0]
  /\ pc' = [pc EXCEPT ![t] = IF loop[t] THEN "loop" ELSE "idle"]
  /\ arg' = [arg EXCEPT ![t] = IF loop[t] THEN @ ELSE Standard]
  /\ feof' = [feof EXCEPT ![t] = FALSE]
  /\ UNCHANGED <<host, owned, loop, seeks>>

(* fgetc, fgets, getc, getline, ..., and fread's overflow path: the host's  *)
(* function on the wrapped stream, and the flag stays as it is.             *)
PlainRead(t, w) ==
  /\ pc[t] = "idle" /\ w \in owned /\ Kind(w) # "dir"
  /\ host' = [host EXCEPT ![Of(w)] = Consume(@)]
  /\ Stay /\ UNCHANGED <<wrap, owned, seeks>>

(* rewind, fseek, fseeko, clearerr, ungetc; rewinddir, seekdir: likewise. *)
Seek(t, w) ==
  /\ pc[t] = "idle" /\ w \in owned /\ seeks < MaxSeeks
  /\ host' = [host EXCEPT ![Of(w)] = Fresh(@.kind)]
  /\ seeks' = seeks + 1
  /\ Stay /\ UNCHANGED <<wrap, owned>>

(* readdir copies the entry to the buffer in the wrapper; at the end it     *)
(* returns null and keeps the buffer.                                       *)
ReadDir(t, w) ==
  /\ pc[t] = "idle" /\ w \in owned /\ Kind(w) = "dir" /\ host[Of(w)].left > 0
  /\ host' = [host EXCEPT ![Of(w)] = Consume(@)]
  /\ wrap' = [wrap EXCEPT ![w].word = Length - host[Of(w)].left + 1]
  /\ Stay /\ UNCHANGED <<owned, seeks>>

-----------------------------------------------------------------------------
(* What a thread does once it is inside a call or its loop. *)
Step(t) ==
  \/ FinishClose(t) \/ LoopEnds(t) \/ LookAtEnd(t) \/ StoreFlag(t)
  \/ pc[t] = "loop" /\ Read(t, arg[t])

Next == \E t \in Threads :
  \/ Step(t)
  \/ \E w \in Handles :
       \/ \E s \in Files, kind \in {"file", "dir"} : Open(t, w, s, kind)
       \/ \E w2 \in Addrs : Reopen(t, w, w2)
       \/ ReopenFails(t, w) \/ StartClose(t, w) \/ StartLoop(t, w)
       \/ pc[t] = "idle" /\ Read(t, w)
       \/ PlainRead(t, w) \/ Seek(t, w) \/ ReadDir(t, w)

(* A thread in a call goes on. *)
Spec == Init /\ [][Next]_vars /\ \A t \in Threads : WF_vars(Step(t))

-----------------------------------------------------------------------------
(* The type of every variable. *)
WTypeOK ==
  /\ \A s \in Files : /\ host[s].kind \in {"closed", "std", "file", "dir"}
                      /\ host[s].left \in 0 .. Length
                      /\ host[s].eof \in BOOLEAN
  /\ \A w \in Handles : wrap[w].live \in BOOLEAN /\ wrap[w].wrapped \in Files
  /\ owned \subseteq Handles /\ seeks \in 0 .. MaxSeeks
  /\ \A t \in Threads :
       /\ pc[t] \in {"idle", "loop", "feof", "store", "delete"}
       /\ arg[t] \in Handles /\ feof[t] \in BOOLEAN /\ loop[t] \in BOOLEAN

(* Every handle the application may use, and every handle a call in         *)
(* progress uses, is a live wrapper of an open host stream, whatever is     *)
(* closed and reopened by other threads and whichever addresses are used    *)
(* again; a wrapper that is about to be deleted is nobody else's; and the   *)
(* standard wrappers outlive the streams they wrap.                         *)
HandlesOwned ==
  /\ wrap[Standard].live
  /\ \A w \in owned : wrap[w].live /\ Kind(w) # "closed"
  /\ \A t \in Threads :
       /\ pc[t] \in {"loop", "feof", "store"} => arg[t] \in owned
       /\ pc[t] = "delete" =>
            /\ wrap[arg[t]].live /\ arg[t] \notin owned
            /\ \A u \in Threads \ {t} :
                 pc[u] # "idle" => arg[u] # arg[t] \/ arg[t] = Standard

(* A thread that reads a stream with fread or fscanf until the wrapper's    *)
(* flag says end of file gets there, although the store of the flag is not  *)
(* synchronised and other threads read the stream at the same time.  (fgetc, *)
(* fgets, getc and getline never store the flag, PlainRead: a loop over     *)
(* them that waits for it would not end.)                                   *)
ReadersFinish ==
  \A t \in Threads : pc[t] = "loop" ~> pc[t] = "idle"
=============================================================================
