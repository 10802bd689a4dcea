-------------------------------- MODULE Calls --------------------------------
(***************************************************************************)
(* What the wrapped calls of every part of the shim have in common: errno  *)
(* (ErrnoShim), the one object the application is working with, and the    *)
(* heap blocks of the lists the shim has made.  FileCalls, NetCalls and    *)
(* ThreadCalls add the operations, AllCalls composes them.                 *)
(***************************************************************************)
EXTENDS ErrnoShim, Sequences, FiniteSets

CONSTANT Failures  \* the host errors the calls on objects fail with

ASSUME FailuresAreHostErrs == Failures \subseteq HostErrs \ {0}

VARIABLES obj,   \* the application's object, with the host's state of it
          heap   \* blocks allocated for address lists and not freed

callVars == <<vars, obj, heap>>

Results == Failures \cup {0}
Nothing == [kind |-> "none"]
Is(kind) == obj.kind = kind

(* WithErrnoUpdate(f): f is called with converted arguments; ok says whether *)
(* they all convert.  An exception is EINVAL, and the host is not called.    *)
Wrapped(ok, e) == WrappedCall(IF ok THEN e ELSE EINVAL)

(* A function that reports through its result leaves errno alone. *)
Own(result) ==
  /\ Done("own", result)
  /\ UNCHANGED <<host, errno_value>>

(* The object after a call that changes it when it succeeds. *)
OnSuccess(ok, e, new) == obj' = IF ok /\ e = 0 THEN new ELSE obj

(* The application goes on to something else. *)
Forget ==
  /\ obj.kind \in {"polled", "rows", "path", "filled"}
  /\ obj' = Nothing /\ UNCHANGED <<vars, heap>>
=============================================================================
