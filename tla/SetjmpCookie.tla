---------------------------- MODULE SetjmpCookie ----------------------------
(***************************************************************************)
(* The cookie setjmp puts into every jmp_buf and longjmp compares          *)
(* (bionic/setjmp_cookie.c 33-56, called from setjmp.S 95-109 and          *)
(* 165-203).  It is one plain global for all threads, drawn by the first   *)
(* call that finds it zero.                                                *)
(***************************************************************************)
EXTENDS Integers

CONSTANTS Threads,
          Randoms   \* the values arc4random may return

VARIABLES
  setjmp_cookie,  \* the global
  sigflag,        \* each thread's argument of setjmp
  pc,             \* where each thread is
  buf             \* the cookie word of each thread's jmp_buf, or none

vars == <<setjmp_cookie, sigflag, pc, buf>>

None == -1

(* value & ~1 *)
Masked(v) == v - (v % 2)

Init ==
  /\ setjmp_cookie = 0
  /\ sigflag = [t \in Threads |-> 0]
  /\ pc = [t \in Threads |-> "app"]
  /\ buf = [t \in Threads |-> None]

(* setjmp: __bionic_setjmp_cookie_get tests the cookie. *)
Get(t, f) ==
  /\ pc[t] = "app"
  /\ sigflag' = [sigflag EXCEPT ![t] = f]
  /\ pc' = [pc EXCEPT ![t] = IF setjmp_cookie = 0 THEN "init" ELSE "read"]
  /\ UNCHANGED <<setjmp_cookie, buf>>

(* __bionic_init_setjmp_cookie: draw and store. *)
InitCookie(t, r) ==
  /\ pc[t] = "init"
  /\ setjmp_cookie' = Masked(r)
  /\ pc' = [pc EXCEPT ![t] = "read"]
  /\ UNCHANGED <<sigflag, buf>>

(* return setjmp_cookie | sigflag, which setjmp stores in the buffer. *)
ReadCookie(t) ==
  /\ pc[t] = "read"
  /\ buf' = [buf EXCEPT ![t] = setjmp_cookie + sigflag[t]]
  /\ pc' = [pc EXCEPT ![t] = "app"]
  /\ UNCHANGED <<setjmp_cookie, sigflag>>

(* longjmp to the thread's own buffer: the comparison, then the jump, which *)
(* restores the signal mask if the flag is set, or the abort.               *)
Check(t) ==
  /\ pc[t] = "app" /\ buf[t] # None
  /\ pc' = [pc EXCEPT ![t] = IF setjmp_cookie # Masked(buf[t]) THEN "aborted"
                             ELSE IF buf[t] % 2 = 1 THEN "mask" ELSE "plain"]
  /\ UNCHANGED <<setjmp_cookie, sigflag, buf>>

(* longjmp arrived: the thread goes on after its setjmp. *)
Arrive(t) ==
  /\ pc[t] \in {"mask", "plain"}
  /\ pc' = [pc EXCEPT ![t] = "app"]
  /\ UNCHANGED <<setjmp_cookie, sigflag, buf>>

(* abort() ends the whole process. *)
Next ==
  /\ \A t \in Threads : pc[t] # "aborted"
  /\ \E t \in Threads :
    \/ \E f \in {0, 1} : Get(t, f)
    \/ \E r \in Randoms : InitCookie(t, r)
    \/ ReadCookie(t)
    \/ Check(t)
    \/ Arrive(t)

Spec == Init /\ [][Next]_vars

-----------------------------------------------------------------------------
(* "Aborts if cookie doesn't match, returns the signal flag otherwise."     *)
(* (setjmp_cookie.c 49): a buffer that setjmp filled with the cookie and    *)
(* nobody wrote to since matches, so that longjmp to it works.              *)
OwnBufferMatches == \A t \in Threads : pc[t] # "aborted"
=============================================================================
