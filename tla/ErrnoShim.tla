------------------------------ MODULE ErrnoShim ------------------------------
(***************************************************************************)
(* errno on macOS, for one thread (errno.cpp 20-51, errno.h 45-68).  The   *)
(* application's errno is the shim's errno_value; the host functions use   *)
(* the host's errno.  WithErrnoUpdate copies errno_value to the host       *)
(* before a call and back after it; open, openat, unlinkat and poll only   *)
(* copy it back; many host functions are exported without either.          *)
(***************************************************************************)
EXTENDS Integers

CONSTANTS HostErrs,  \* host error codes the host functions fail with
          AppErrs    \* values the application writes to errno

EINVAL == 22

(* errno.cpp 53-357 as compiled on macOS: <<host, bionic>> where they differ. *)
Renumbered ==
  { <<11, 35>>, <<35, 11>>, <<36, 115>>, <<37, 114>>, <<62, 40>>, <<63, 36>>,
    <<64, 112>>, <<65, 113>>, <<66, 39>>, <<68, 87>>, <<69, 122>>, <<70, 116>>,
    <<71, 66>>, <<77, 37>>, <<78, 38>>, <<84, 75>>, <<89, 125>>, <<90, 43>>,
    <<91, 42>>, <<92, 84>>, <<94, 74>>, <<95, 72>>, <<96, 61>>, <<97, 67>>,
    <<98, 63>>, <<99, 60>>, <<100, 71>>, <<101, 62>>, <<102, 95>>, <<104, 131>>,
    <<105, 130>> }
  \cup { <<n, n + 50>> : n \in 38 .. 61 \ {45} }

(* The numbers both tables list: 1 .. 34 are the same but for EDEADLK. *)
Table == Renumbered \cup { <<n, n>> : n \in 1 .. 34 \ {11} }

HostCodes == 0 .. 106
AppCodes  == 0 .. 133  \* bionic's numbers go up to EHWPOISON
Mapped    == { p[1] : p \in Table }

(* A number that comes back from the host as it went: one the tables list,  *)
(* or one neither lists.  Others are 41, which bionic does not use, and     *)
(* bionic's numbers whose cases are not compiled on macOS but which are     *)
(* numbers of the host's: 44, 46-57, 59, 64, 65, 68-70, 77 and 78 (EBADFD,  *)
(* 77, comes back as 37).                                                   *)
Survives(v) == (\E p \in Table : p[2] = v) \/ v \notin Mapped

ASSUME ErrnoAssumption == HostErrs \subseteq HostCodes /\ AppErrs \subseteq AppCodes
ASSUME AppErrsSurvive == \A v \in AppErrs : Survives(v)

(* default: return err *)
translate_errno_from_host(e) ==
  IF \E p \in Table : p[1] = e THEN (CHOOSE p \in Table : p[1] = e)[2] ELSE e

translate_errno_to_host(e) ==
  IF \E p \in Table : p[2] = e THEN (CHOOSE p \in Table : p[2] = e)[1] ELSE e

VARIABLES host,         \* the host's errno
          errno_value,  \* the errno the application reads and writes
          last          \* the last call: its kind, result and errno before it

vars == <<host, errno_value, last>>

Done(kind, result) ==
  last' = [kind |-> kind, result |-> result, before |-> errno_value]

Init ==
  /\ host = 0 /\ errno_value = 0
  /\ last = [kind |-> "none", result |-> 0, before |-> 0]

(* errno = v, through the pointer __errno returns. *)
AppWrites(v) ==
  /\ errno_value' = v
  /\ Done("write", v)
  /\ UNCHANGED host

(* __set_errno *)
set_errno(v) ==
  /\ errno_value' = v
  /\ host' = translate_errno_to_host(v)
  /\ Done("write", v)

(* What a host call leaves in errno when its result is e; 0 is a success. *)
HostErrno(e, before) == IF e = 0 THEN before ELSE e

(* Mutant: the wrapper does not copy the application's errno to the host. *)
WrappedCall_NoSync(e) ==
  /\ host' = HostErrno(e, host)
  /\ errno_value' = translate_errno_from_host(host')
  /\ Done("wrapped", e)

(* errno_update_helper: sync, the call, update.  An exception of the call  *)
(* becomes EINVAL (e = EINVAL below).                                      *)
WrappedCall(e) ==
  LET synced == translate_errno_to_host(errno_value) IN
  /\ host' = HostErrno(e, synced)
  /\ errno_value' = translate_errno_from_host(host')
  /\ Done("wrapped", e)

(* Mutant: the update is forgotten. *)
UpdateOnlyCall_NoUpdate(e) ==
  /\ host' = HostErrno(e, host)
  /\ Done("update_only", e)
  /\ UNCHANGED errno_value

(* open, openat, __open_2, open_3, unlinkat, __poll_chk: the call, update. *)
UpdateOnlyCall(e) ==
  /\ host' = HostErrno(e, host)
  /\ errno_value' = translate_errno_from_host(host')
  /\ Done("update_only", e)

(* A host function in the symbol table as it is. *)
RawCall(e) ==
  /\ host' = HostErrno(e, host)
  /\ Done("raw", e)
  /\ UNCHANGED errno_value

Next ==
  \/ \E v \in AppErrs : AppWrites(v) \/ set_errno(v)
  \/ \E e \in HostErrs \cup {0, EINVAL} : WrappedCall(e) \/ RawCall(e)
  \/ \E e \in HostErrs \cup {0} : UpdateOnlyCall(e)

Spec == Init /\ [][Next]_vars

-----------------------------------------------------------------------------
(* The type of every variable. *)
TypeOK ==
  /\ host \in AppCodes /\ errno_value \in AppCodes  \* set_errno may leave the host 133
  /\ last.kind \in {"none", "write", "wrapped", "update_only", "raw", "own"}

(* A successful wrapped call leaves the application's errno as it was,      *)
(* whatever unexported calls left in the host's: a reset to 0 is still 0    *)
(* afterwards, and a value survives its way to the host's numbers and back. *)
SuccessKeepsErrno ==
  last.kind = "wrapped" /\ last.result = 0 => errno_value = last.before

(* The two errnos say different things. *)
Parted == host # translate_errno_to_host(errno_value)

(* The application's errno after a step, in terms of the call it was. *)
ErrnoExplained ==
  CASE last'.kind = "write" -> errno_value' = last'.result
    [] last'.kind \in {"wrapped", "update_only"} /\ last'.result # 0 ->
         errno_value' = translate_errno_from_host(last'.result)
    [] last'.kind = "update_only" /\ last'.result = 0 /\ Parted ->
         errno_value' = translate_errno_from_host(host)
    [] OTHER -> UNCHANGED errno_value

(* The steps that part the two: a write, a failure the application is not   *)
(* told of, and an error the tables do not list.                            *)
PartingExplained ==
  Parted' /\ ~Parted =>
    last'.kind = "write" \/ (last'.result # 0 /\ (last'.kind = "raw" \/ last'.result \notin Mapped))

(* The application sees one errno although there are two.  It changes by a  *)
(* write, by the error of a call that fails, and otherwise only by an       *)
(* update-only call while the two say different things; and these come to   *)
(* differ only by a write, by the failure of a call that is exported as it  *)
(* is, or by an error neither table lists.  The error of an exception is    *)
(* EINVAL, also when it is F_GETFL's of a failing host call; sem_timedwait  *)
(* with a negative fraction is a failure without an error.                  *)
OneErrno == [][ErrnoExplained /\ PartingExplained]_vars

(* What errno.h 53-54 says the reverse update is for: `errno = 0;` works.   *)
(* After the application reset errno, a call that succeeds leaves it reset. *)
ErrnoResetWorks ==
  last.kind \in {"wrapped", "update_only"} /\ last.before = 0 /\ last.result = 0
    => errno_value = 0
=============================================================================
