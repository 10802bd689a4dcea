--------------------------- MODULE AllCalls_proof ---------------------------
(***************************************************************************)
(* The calls of every part of the shim, for any host errors, any values of *)
(* errno that survive the tables, any paths, rules, addresses and lists.   *)
(* Whatever an operation does to its object, what it does to errno is one  *)
(* of a few things (ErrnoStep), and each keeps the invariant about errno   *)
(* (IInv).  What an operation does to its object keeps the invariant of    *)
(* the object's kind (OInv); the calls on lists apart, it leaves the heap  *)
(* alone (Plain).                                                          *)
(***************************************************************************)
EXTENDS AllCalls, SequenceTheorems, WellFoundedInduction, TLAPS

(* Neither table lists a number twice: each direction is a function. *)
LEMMA TablesAgree == \A p, q \in Table : p[1] = q[1] <=> p[2] = q[2]
BY DEF Table, Renumbered

(* A listed host error survives the way to bionic's numbers and back. *)
LEMMA FromIsInverted ==
  ASSUME NEW h \in Mapped
  PROVE  translate_errno_to_host(translate_errno_from_host(h)) = h
<1> PICK p \in Table : p[1] = h
  BY DEF Mapped
<1>1. translate_errno_from_host(h) = p[2]
  BY TablesAgree DEF translate_errno_from_host
<1>2. translate_errno_to_host(p[2]) = p[1]
  BY TablesAgree DEF translate_errno_to_host
<1> QED BY <1>1, <1>2

(* An errno that survives is the same after a call that succeeds. *)
LEMMA ToIsInverted ==
  ASSUME NEW v, Survives(v)
  PROVE  translate_errno_from_host(translate_errno_to_host(v)) = v
<1>1. CASE \E p \in Table : p[2] = v
  <2> PICK p \in Table : p[2] = v
    BY <1>1
  <2>1. translate_errno_to_host(v) = p[1]
    BY TablesAgree DEF translate_errno_to_host
  <2>2. translate_errno_from_host(p[1]) = v
    BY TablesAgree DEF translate_errno_from_host
  <2> QED BY <2>1, <2>2
<1>2. CASE ~\E p \in Table : p[2] = v
  <2>1. translate_errno_to_host(v) = v
    BY <1>2 DEF translate_errno_to_host
  <2>2. translate_errno_from_host(v) = v
    BY <1>2 DEF translate_errno_from_host, Survives, Mapped
  <2> QED BY <2>1, <2>2
<1> QED BY <1>1, <1>2

(* What comes from the host survives: the shim never leaves the application *)
(* with a number it could not carry itself.                                 *)
LEMMA FromSurvives == \A h : Survives(translate_errno_from_host(h))
<1> TAKE h
<1>1. CASE h \in Mapped
  <2> PICK p \in Table : p[1] = h
    BY <1>1 DEF Mapped
  <2>1. translate_errno_from_host(h) = p[2]
    BY TablesAgree DEF translate_errno_from_host
  <2> QED BY <2>1 DEF Survives
<1>2. CASE h \notin Mapped
  BY <1>2 DEF translate_errno_from_host, Survives, Mapped
<1> QED BY <1>1, <1>2

-----------------------------------------------------------------------------
(* The properties are about one call; the invariant adds what the call needs *)
(* to know of the errno before it.                                           *)
IInv == Survives(errno_value) /\ SuccessKeepsErrno

LEMMA InitIInv == Init => IInv
BY DEF Init, IInv, Survives, Mapped, Table, Renumbered, SuccessKeepsErrno

(* What a call of any kind does to errno, *)
ErrnoStep ==
  \/ \E e \in HostCodes : WrappedCall(e) \/ UpdateOnlyCall(e)
  \/ /\ last'.kind \in {"raw", "own"}
     /\ UNCHANGED host \/ (host' \in HostCodes /\ last'.kind = "raw" /\ last'.result # 0)
     /\ UNCHANGED errno_value
  \/ UNCHANGED vars

(* and what the application does. *)
ErrnoWritten == \E v \in AppErrs : AppWrites(v) \/ set_errno(v)

(* A call that ends with update_errno, whatever the host makes of it. *)
LEMMA UpdateKeeps ==
  ASSUME IInv, NEW e, WrappedCall(e) \/ UpdateOnlyCall(e)
  PROVE  IInv'
<1>1. /\ errno_value' = translate_errno_from_host(host')
      /\ last'.result = e /\ last'.before = errno_value
      /\ e # 0 => host' = e
  BY DEF WrappedCall, UpdateOnlyCall, HostErrno, Done
<1>2. Survives(errno_value)'
  BY <1>1, FromSurvives DEF Survives
<1>3. SuccessKeepsErrno'
  <2>1. SUFFICES ASSUME last'.kind = "wrapped", e = 0 PROVE errno_value' = errno_value
    BY <1>1 DEF SuccessKeepsErrno
  <2>2. host' = translate_errno_to_host(errno_value)
    BY <2>1 DEF WrappedCall, UpdateOnlyCall, HostErrno, Done
  <2> QED BY <1>1, <2>2, ToIsInverted DEF IInv
<1> QED BY <1>2, <1>3 DEF IInv

LEMMA IInvIsInductive == IInv /\ (ErrnoStep \/ ErrnoWritten) => IInv'
<1> SUFFICES ASSUME IInv, ErrnoStep \/ ErrnoWritten PROVE IInv'
  OBVIOUS
<1>1. CASE ErrnoWritten
  <2> PICK v \in AppErrs : AppWrites(v) \/ set_errno(v)
    BY <1>1 DEF ErrnoWritten
  <2>1. errno_value' = v /\ last'.kind = "write"
    BY DEF AppWrites, set_errno, Done
  <2> QED BY <2>1, AppErrsSurvive DEF IInv, Survives, SuccessKeepsErrno
<1>2. CASE \E e \in HostCodes : WrappedCall(e) \/ UpdateOnlyCall(e)
  BY <1>2, UpdateKeeps
<1>3. CASE last'.kind \in {"raw", "own"} /\ UNCHANGED errno_value
  BY <1>3 DEF IInv, Survives, SuccessKeepsErrno
<1>4. CASE UNCHANGED vars
  BY <1>4 DEF vars, IInv, Survives, SuccessKeepsErrno
<1> QED BY <1>1, <1>2, <1>3, <1>4 DEF ErrnoStep

-----------------------------------------------------------------------------
(* OneErrno, call by call.  A failing call's error is the application's; a   *)
(* call that succeeds tells the application something new only if the two    *)
(* errnos were parted, since a number that survives is its own round trip.   *)
LEMMA CallIsExplained ==
  ASSUME IInv, NEW e \in HostCodes, WrappedCall(e) \/ UpdateOnlyCall(e)
  PROVE  ErrnoExplained /\ PartingExplained
<1>1. /\ errno_value' = translate_errno_from_host(host')
      /\ last'.kind \in {"wrapped", "update_only"} /\ last'.result = e
      /\ e # 0 => host' = e
  BY DEF WrappedCall, UpdateOnlyCall, HostErrno, Done
<1>2. CASE e # 0
  <2>1. ErrnoExplained
    BY <1>1, <1>2 DEF ErrnoExplained
  <2>2. e \in Mapped => ~Parted'
    BY <1>1, <1>2, FromIsInverted DEF Parted, translate_errno_to_host
  <2> QED BY <1>1, <1>2, <2>1, <2>2 DEF PartingExplained
<1>3. CASE e = 0 /\ host' = translate_errno_to_host(errno_value)
  <2>1. UNCHANGED errno_value
    BY <1>1, <1>3, ToIsInverted DEF IInv
  <2>2. ~Parted'
    BY <1>3, <2>1 DEF Parted, translate_errno_to_host
  <2>3. last'.kind = "update_only" /\ Parted =>
          errno_value' = translate_errno_from_host(host)
    BY <1>1, <1>3 DEF Parted, WrappedCall, UpdateOnlyCall, HostErrno, Done
  <2> QED BY <1>1, <1>3, <2>1, <2>2, <2>3 DEF ErrnoExplained, PartingExplained
<1>4. CASE e = 0 /\ host' # translate_errno_to_host(errno_value)
  <2>1. UpdateOnlyCall(0) /\ host' = host /\ last'.kind = "update_only" /\ Parted
    BY <1>4 DEF WrappedCall, UpdateOnlyCall, HostErrno, Done, Parted
  <2> QED BY <1>1, <1>4, <2>1 DEF ErrnoExplained, PartingExplained
<1> QED BY <1>2, <1>3, <1>4

LEMMA StepIsExplained ==
  IInv /\ (ErrnoStep \/ ErrnoWritten) => [ErrnoExplained /\ PartingExplained]_vars
<1> SUFFICES ASSUME IInv, ErrnoStep \/ ErrnoWritten, ~UNCHANGED vars
             PROVE  ErrnoExplained /\ PartingExplained
  OBVIOUS
<1>1. CASE ErrnoWritten
  <2>1. last'.kind = "write" /\ errno_value' = last'.result
    BY <1>1 DEF ErrnoWritten, AppWrites, set_errno, Done
  <2> QED BY <2>1 DEF ErrnoExplained, PartingExplained
<1>2. CASE \E e \in HostCodes : WrappedCall(e) \/ UpdateOnlyCall(e)
  BY <1>2, CallIsExplained
<1>3. CASE /\ last'.kind \in {"raw", "own"}
           /\ UNCHANGED host \/ (host' \in HostCodes /\ last'.kind = "raw" /\ last'.result # 0)
           /\ UNCHANGED errno_value
  <2>1. UNCHANGED host => Parted' = Parted
    BY <1>3 DEF Parted, translate_errno_to_host
  <2> QED BY <1>3, <2>1 DEF ErrnoExplained, PartingExplained
<1> QED BY <1>1, <1>2, <1>3 DEF ErrnoStep

-----------------------------------------------------------------------------
(* The ways a call of the symbol tables is made. *)
LEMMA WaysToCall ==
  /\ \A e \in HostCodes : /\ UpdateOnlyCall(e) \/ RawCall(e) => ErrnoStep
                         /\ \A ok : Wrapped(ok, e) => ErrnoStep
  /\ \A r : Own(r) \/ Returns(r) => ErrnoStep
  /\ UNCHANGED vars => ErrnoStep
<1>1. EINVAL \in HostCodes
  BY DEF EINVAL, HostCodes
<1>2. ASSUME NEW e \in HostCodes
      PROVE  /\ UpdateOnlyCall(e) \/ RawCall(e) => ErrnoStep
             /\ \A ok : Wrapped(ok, e) => ErrnoStep
  BY <1>1 DEF Wrapped, RawCall, HostErrno, Done, ErrnoStep
<1>3. \A r : Own(r) \/ Returns(r) => ErrnoStep
  BY DEF Own, Returns, Done, ErrnoStep
<1> QED BY <1>2, <1>3 DEF ErrnoStep

LEMMA ResultsAreCodes ==
  /\ Results \subseteq HostCodes
  /\ {0, EINVAL, ENOMEM, ETIMEDOUT, EINTR} \subseteq HostCodes
<1>1. HostErrs \subseteq HostCodes /\ Failures \subseteq HostErrs
  BY ErrnoAssumption, FailuresAreHostErrs
<1> QED BY <1>1 DEF Results, HostCodes, EINVAL, ENOMEM, ETIMEDOUT, EINTR

(* Descriptors and paths. *)
LEMMA FileSteps == FileNext => ErrnoStep
<1>1. ASSUME NEW e \in HostCodes
      PROVE  /\ \A op, rules, p, flags : Open(op, rules, p, flags, e) => ErrnoStep
             /\ \A op, rules, p : PathCall(op, rules, p, e) => ErrnoStep
  BY WaysToCall, ResultsAreCodes
  DEF Open, PathCall
<1>2. ASSUME NEW e \in HostCodes
      PROVE  /\ \A new : SetFlags(new, e) => ErrnoStep
             /\ \A on : SetNonblocking(on, e) => ErrnoStep
             /\ \A cmd : Fcntl(cmd, e) => ErrnoStep
             /\ Close(e) => ErrnoStep
  BY WaysToCall, ResultsAreCodes
  DEF SetFlags, SetNonblocking, Fcntl, Close
<1>3. ASSUME NEW e \in HostCodes
      PROVE  /\ \A op, events, ready, timeout : Poll(op, events, ready, timeout, e) => ErrnoStep
             /\ \A present, count, size : Sendfile(present, count, size, e) => ErrnoStep
             /\ \A op : Fill(op, e) => ErrnoStep
  BY WaysToCall, ResultsAreCodes
  DEF Poll, Sendfile, Fill
<1>4. ASSUME NEW e \in HostCodes
      PROVE  /\ \A flags : Mmap(flags, e) => ErrnoStep
             /\ Munmap(e) => ErrnoStep
             /\ \A clock : Clock(clock, e) => ErrnoStep
             /\ \A id : Sysconf(id, e) => ErrnoStep
  BY WaysToCall, ResultsAreCodes
  DEF Mmap, Munmap, Clock, Sysconf
<1>5. ASSUME NEW e \in HostCodes
      PROVE  /\ \A op, known : Converted(op, known, e) => ErrnoStep
             /\ \A op, len, size : Checked(op, len, size) => ErrnoStep
             /\ \A op : Exported(op, e) => ErrnoStep
  BY WaysToCall, ResultsAreCodes
  DEF Converted, Checked, Exported
<1> QED BY <1>1, <1>2, <1>3, <1>4, <1>5, ResultsAreCodes DEF FileNext

(* Sockets and addresses. *)
LEMMA NetSteps == NetNext => ErrnoStep
<1>1. ASSUME NEW e \in HostCodes
      PROVE  /\ \A domain, type, proto : Socket(domain, type, proto, e) => ErrnoStep
             /\ CloseSocket(e) => ErrnoStep
             /\ \A level, opt, value : setsockopt(level, opt, value, e) => ErrnoStep
  BY WaysToCall, ResultsAreCodes
  DEF Socket, CloseSocket, setsockopt
<1>2. ASSUME NEW e \in HostCodes
      PROVE  /\ \A a : bind(a, e) => ErrnoStep
             /\ \A a : connect(a, e) => ErrnoStep
             /\ \A room : getsockname(room, e) => ErrnoStep
             /\ \A how : shutdown(how, e) => ErrnoStep
  BY WaysToCall, ResultsAreCodes
  DEF bind, connect, getsockname, shutdown
<1>3. ASSUME NEW e \in HostCodes
      PROVE  /\ \A hints, list : getaddrinfo(hints, list, e) => ErrnoStep
             /\ freeaddrinfo => ErrnoStep
             /\ \A ifs : getifaddrs(ifs, e) => ErrnoStep
             /\ freeifaddrs => ErrnoStep
  BY WaysToCall, ResultsAreCodes
  DEF getaddrinfo, freeaddrinfo, getifaddrs, freeifaddrs
<1>4. ASSUME NEW e \in HostCodes
      PROVE  /\ \A ifs, max : ifconf(ifs, max, e) => ErrnoStep
             /\ \A family, hostFamily : ifnetmask(family, hostFamily, e) => ErrnoStep
             /\ \A a : getnameinfo(a, e) => ErrnoStep
             /\ \A family : inet_pton(family, e) => ErrnoStep
  BY WaysToCall, ResultsAreCodes
  DEF ifconf, ifnetmask, getnameinfo, inet_pton
<1> QED BY <1>1, <1>2, <1>3, <1>4, ResultsAreCodes DEF NetNext

(* Threads, keys, attributes and semaphores. *)
LEMMA ThreadSteps == ThreadNext => ErrnoStep
<1>1. /\ attr_init => ErrnoStep
      /\ \A value : attr_setdetachstate(value) => ErrnoStep
      /\ \A priority : attr_setschedparam(priority) => ErrnoStep
      /\ \A size : attr_setstacksize(size) => ErrnoStep
      /\ attr_destroy => ErrnoStep
  BY WaysToCall, ResultsAreCodes
  DEF attr_init, attr_setdetachstate, attr_setschedparam, attr_setstacksize,
      attr_destroy
<1>2. ASSUME NEW e \in HostCodes
      PROVE  /\ pthread_create(e) => ErrnoStep
             /\ getattr_np(e) => ErrnoStep
             /\ \A p : HostSetsPolicy(p) => ErrnoStep
             /\ pthread_getschedparam(e) => ErrnoStep
             /\ \A policy : pthread_setschedparam(policy, e) => ErrnoStep
             /\ \A priority : SetsHostPolicy(priority, e) => ErrnoStep
             /\ ThreadEnds => ErrnoStep
  BY WaysToCall, ResultsAreCodes
  DEF pthread_create, getattr_np, HostSetsPolicy, pthread_getschedparam,
      pthread_setschedparam, SetsHostPolicy, ThreadEnds
<1>3. ASSUME NEW e \in HostCodes
      PROVE  /\ StartKeys => ErrnoStep
             /\ StopKeys => ErrnoStep
             /\ \A host_key : pthread_key_create(host_key, e) => ErrnoStep
             /\ \A key : pthread_key_delete(key) => ErrnoStep
             /\ \A key : pthread_setspecific(key) => ErrnoStep
  BY WaysToCall, ResultsAreCodes
  DEF StartKeys, StopKeys, pthread_key_create, pthread_key_delete,
      pthread_setspecific
<1>4. /\ mutexattr_init => ErrnoStep
      /\ \A type : mutexattr_settype(type) => ErrnoStep
      /\ mutexattr_destroy => ErrnoStep
      /\ condattr_init => ErrnoStep
      /\ \A clock : condattr_setclock(clock) => ErrnoStep
      /\ condattr_destroy => ErrnoStep
  BY WaysToCall, ResultsAreCodes
  DEF mutexattr_init, mutexattr_settype, mutexattr_destroy, condattr_init,
      condattr_setclock, condattr_destroy
<1>5. ASSUME NEW e \in HostCodes
      PROVE  /\ \A value : sem_init(value, e) => ErrnoStep
             /\ sem_destroy => ErrnoStep
             /\ sem_post => ErrnoStep
             /\ sem_wait => ErrnoStep
  BY WaysToCall, ResultsAreCodes
  DEF sem_init, sem_destroy, sem_post, sem_wait
<1>6. ASSUME NEW abs, NEW now, NEW e \in HostCodes, sem_timedwait(abs, now, e)
      PROVE  ErrnoStep
  <2>1. CASE TimeLeft(abs, now).frac < 0
    BY <1>6, <2>1, WaysToCall, ResultsAreCodes DEF sem_timedwait
  <2>2. CASE ~(TimeLeft(abs, now).frac < 0)
    BY <1>6, <2>2, WaysToCall DEF sem_timedwait
  <2> QED BY <2>1, <2>2
<1> QED BY <1>1, <1>2, <1>3, <1>4, <1>5, <1>6, ResultsAreCodes DEF ThreadNext

-----------------------------------------------------------------------------
(* A step of any part is one of these, or the application's. *)
LEMMA CallsAreSteps == [CallsNext]_callVars => ErrnoStep \/ ErrnoWritten
<1> SUFFICES ASSUME [CallsNext]_callVars PROVE ErrnoStep \/ ErrnoWritten
  OBVIOUS
<1>1. CASE Next
  <2>1. CASE ErrnoWritten
    BY <2>1
  <2>2. CASE \E e \in HostErrs \cup {0, EINVAL} :
               WrappedCall(e) \/ RawCall(e) \/ UpdateOnlyCall(e)
    <3>1. \A e \in HostErrs \cup {0, EINVAL} : e \in HostCodes
      BY ErrnoAssumption, ResultsAreCodes
    <3> QED BY <2>2, <3>1, WaysToCall DEF ErrnoStep
  <2> QED BY <1>1, <2>1, <2>2 DEF Next, ErrnoWritten
<1>2. CASE Forget \/ UNCHANGED callVars
  BY <1>2 DEF Forget, callVars, ErrnoStep
<1> QED BY <1>1, <1>2, FileSteps, NetSteps, ThreadSteps DEF CallsNext

LEMMA CallsKeepIInv == IInv /\ [CallsNext]_callVars => IInv'
BY CallsAreSteps, IInvIsInductive

(* No call leaves a number that is no error of bionic's in errno, nor one   *)
(* in the host's that the host does not know: both tables stay among them.  *)
LEMMA TablesAreTyped ==
  \A v \in AppCodes : /\ translate_errno_from_host(v) \in AppCodes
                      /\ translate_errno_to_host(v) \in AppCodes
<1>1. \A p \in Table : p[1] \in AppCodes /\ p[2] \in AppCodes
  BY DEF Table, Renumbered, AppCodes
<1> QED BY <1>1 DEF translate_errno_from_host, translate_errno_to_host

LEMMA CallsKeepTypes == TypeOK /\ [CallsNext]_callVars => TypeOK'
<1> SUFFICES ASSUME TypeOK, [CallsNext]_callVars PROVE TypeOK'
  OBVIOUS
<1>1. HostCodes \subseteq AppCodes /\ AppErrs \subseteq AppCodes /\ HostErrs \subseteq HostCodes
  BY ErrnoAssumption DEF HostCodes, AppCodes
<1>2. ASSUME NEW e \in HostCodes, WrappedCall(e) \/ UpdateOnlyCall(e)
      PROVE  TypeOK'
  <2>1. host' \in AppCodes
    BY <1>1, <1>2, TablesAreTyped DEF WrappedCall, UpdateOnlyCall, HostErrno, TypeOK
  <2>2. errno_value' \in AppCodes
    BY <1>2, <2>1, TablesAreTyped DEF WrappedCall, UpdateOnlyCall
  <2>3. last'.kind \in {"wrapped", "update_only"}
    BY <1>2 DEF WrappedCall, UpdateOnlyCall, Done
  <2> QED BY <2>1, <2>2, <2>3 DEF TypeOK
<1>3. CASE /\ last'.kind \in {"raw", "own"} /\ host' \in {host} \cup HostCodes
           /\ UNCHANGED errno_value
  BY <1>1, <1>3 DEF TypeOK
<1>4. CASE ErrnoWritten
  <2> PICK v \in AppErrs : AppWrites(v) \/ set_errno(v)
    BY <1>4 DEF ErrnoWritten
  <2>1. errno_value' = v /\ host' \in {host, translate_errno_to_host(v)} /\ last'.kind = "write"
    BY DEF AppWrites, set_errno, Done
  <2> QED BY <1>1, <2>1, TablesAreTyped DEF TypeOK
<1>5. CASE UNCHANGED vars
  BY <1>5 DEF TypeOK, vars
<1> QED BY <1>2, <1>3, <1>4, <1>5, CallsAreSteps DEF ErrnoStep

(* In any sequence of the shim's calls, whichever fail, a wrapped call that *)
(* succeeds leaves the application's errno as it was.                       *)
THEOREM CallsLeaveErrno == CallsSpec => []SuccessKeepsErrno
BY InitIInv, CallsKeepIInv, PTL DEF CallsSpec, CallsInit, IInv

(* OneErrno (errno.h 45-68, errno.cpp 20-51): in any such sequence the      *)
(* application's errno changes by its own writes and by the errors of the   *)
(* calls that fail; an older error reaches it only through an update-only   *)
(* call while the two errnos are parted, which a write, a raw call's        *)
(* failure or an error the tables do not list must have done.               *)
THEOREM CallsKeepOneErrno == CallsSpec => OneErrno
<1>1. IInv /\ [CallsNext]_callVars => [ErrnoExplained /\ PartingExplained]_vars
  BY CallsAreSteps, StepIsExplained
<1> QED BY <1>1, InitIInv, CallsKeepIInv, PTL DEF CallsSpec, CallsInit, OneErrno

-----------------------------------------------------------------------------
(* The application's object.  What holds of an object of each kind,         *)
(* whichever calls have made it what it is:                                 *)
Rewritten(o) ==
  /\ o.name \in Names /\ o.rules \in RuleSets
  /\ o.path \in {iorewrite0(o.rules, o.name),
                 iorewrite0(o.rules, iorewrite0(o.rules, o.name))}

(* the host's flags are the application's, *)
GoodFd(o) ==
  /\ DOMAIN o = {"kind", "name", "rules", "path", "flags", "asked"}
  /\ o.flags \subseteq Status /\ o.flags = o.asked /\ Rewritten(o)

(* the host's options are the images of the application's, *)
GoodSock(o) ==
  /\ DOMAIN o = {"kind", "on", "asked", "local", "bound"}
  /\ o.asked \subseteq Options /\ \A x \in o.asked : OptionOK(x[1], x[2])
  /\ o.on = {HostOption(x[1], x[2]) : x \in o.asked}
  /\ o.bound.present /\ ~TooLong(o.bound) => sockaddr_from_host(o.local) = o.bound

GoodAttr(o) ==
  /\ DOMAIN o = {"kind", "detached", "stack", "priority"}
  /\ o.stack \in Nat /\ (o.stack = 0 \/ o.stack >= StackMin)

(* what the application has been told of a policy is what it was told of    *)
(* the policy the thread had then, also while another is being set,         *)
Policies == {"OTHER", "FIFO", "RR"}
Settable == {"OTHER", "FIFO", "unknown"}
ThreadFields == {"kind", "stack", "priority", "policy", "seen", "before", "asked", "read"}
GoodThread(o) ==
  /\ DOMAIN o = ThreadFields
  /\ o.stack \in Nat /\ o.stack >= StackMin
  /\ o.policy \in Policies
  /\ o.seen \in {"none", from_host_sched_policy(o.before)}
  /\ o.kind = "setting" => o.asked \in Settable /\ o.read \in Policies

GoodKeys(o) == DOMAIN o = {"kind", "key", "live", "set"} /\ o.set \subseteq o.live
GoodSem(o)  == DOMAIN o = {"kind", "value"} /\ o.value \in 0 .. 2

Good(o) ==
  /\ "kind" \in DOMAIN o
  /\ o.kind = "fd"     => GoodFd(o)
  /\ o.kind = "path" /\ o.rewrites => Rewritten(o)
  /\ o.kind = "sock"   => GoodSock(o)
  /\ o.kind = "attr"   => GoodAttr(o)
  /\ o.kind \in {"thread", "setting"} => GoodThread(o)
  /\ o.kind = "keys"   => GoodKeys(o)
  /\ o.kind = "sem"    => GoodSem(o)
  /\ o.kind = "mutexattr" => DOMAIN o = {"kind", "type"}
  /\ o.kind = "condattr"  => DOMAIN o = {"kind", "clock"}

(* and the heap holds its blocks. *)
OInv == Good(obj) /\ BlocksOwned

Listed(o) == o.kind \in {"addrinfo", "ifaddrs"}

(* A step that leaves no list, makes none and keeps its object good. *)
Plain ==
  /\ Good(obj') /\ UNCHANGED heap
  /\ UNCHANGED obj \/ (~Listed(obj) /\ ~Listed(obj'))

(* Of most kinds nothing needs to be known. *)
OtherKinds == {"none", "mapping", "polled", "rows", "filled", "addrinfo", "ifaddrs"}
LEMMA OthersAreGood ==
  ASSUME NEW o, "kind" \in DOMAIN o, o.kind \in OtherKinds
  PROVE  Good(o)
BY DEF Good, OtherKinds

LEMMA NothingIsGood == Good(Nothing) /\ ~Listed(Nothing)
BY DEF Good, Nothing, Listed

LEMMA SamePlain == Good(obj) /\ UNCHANGED <<obj, heap>> => Plain
BY DEF Plain

LEMMA NewPlain ==
  ASSUME Good(obj), ~Listed(obj), NEW new, Good(new), ~Listed(new),
         obj' = new, UNCHANGED heap
  PROVE  Plain
BY DEF Plain

LEMMA SuccessPlain ==
  ASSUME Good(obj), ~Listed(obj), NEW new, Good(new), ~Listed(new),
         NEW ok, NEW e, OnSuccess(ok, e, new), UNCHANGED heap
  PROVE  Plain
BY DEF Plain, OnSuccess

(* The fields of an object that a call changes. *)
LEMMA FdFields ==
  ASSUME NEW o, GoodFd(o), o.kind = "fd", NEW flags \in SUBSET Status
  PROVE  /\ Good([o EXCEPT !.flags = flags, !.asked = flags])
         /\ ~Listed([o EXCEPT !.flags = flags, !.asked = flags])
<1> DEFINE n == [o EXCEPT !.flags = flags, !.asked = flags]
<1>1. /\ DOMAIN n = DOMAIN o /\ n.kind = "fd" /\ n.flags = flags /\ n.asked = flags
      /\ n.name = o.name /\ n.rules = o.rules /\ n.path = o.path
  BY DEF GoodFd
<1> HIDE DEF n
<1>2. GoodFd(n)
  BY <1>1 DEF GoodFd, Rewritten
<1>3. Good(n) /\ ~Listed(n)
  BY <1>1, <1>2 DEF Good, GoodFd, Listed
<1> QED BY <1>3 DEF n

(* Every status flag has a host bit: none is dropped. *)
LEMMA StatusSurvives ==
  \A flags : to_host_file_status_flags(flags) \cap Status = flags \cap Status
BY DEF to_host_file_status_flags, HostBit, Status

LEMMA SetStatusSame ==
  ASSUME NEW flags \in SUBSET Status, NEW new
  PROVE  /\ SetStatus(flags, to_host_file_status_flags(new)) = SetStatus(flags, new)
         /\ SetStatus(flags, new) \in SUBSET Status
<1>1. \A flag \in Changable : flag \in DOMAIN HostBit
  BY DEF Changable, HostBit
<1>2. Changable \subseteq Status
  BY DEF Changable, Status
<1> QED BY <1>1, <1>2 DEF SetStatus, to_host_file_status_flags

LEMMA OpenPlain ==
  ASSUME Good(obj), NEW op \in Openers, NEW rules \in RuleSets, NEW p \in Names,
         NEW flags, NEW e, Open(op, rules, p, flags, e)
  PROVE  Plain
<1> DEFINE n == [kind |-> "fd", name |-> p, rules |-> rules,
                 path |-> HostPath(op, rules, p),
                 flags |-> to_host_file_status_flags(flags) \cap Status,
                 asked |-> flags \cap Status]
<1>1. ~Listed(obj) /\ OnSuccess(TRUE, e, n) /\ UNCHANGED heap
  BY DEF Open, Is, Listed
<1>2. HostPath(op, rules, p) \in {iorewrite0(rules, p), iorewrite0(rules, iorewrite0(rules, p))}
  BY DEF HostPath, Openers, Unrewritten
<1>3. GoodFd(n)
  BY <1>2, StatusSurvives DEF GoodFd, Rewritten
<1>4. n.kind = "fd" /\ "kind" \in DOMAIN n
  OBVIOUS
<1> HIDE DEF n
<1>5. Good(n) /\ ~Listed(n)
  BY <1>3, <1>4 DEF Good, Listed
<1> QED BY <1>1, <1>5, SuccessPlain

LEMMA PathPlain ==
  ASSUME Good(obj), NEW op, NEW rules \in RuleSets, NEW p \in Names,
         NEW e, PathCall(op, rules, p, e)
  PROVE  Plain
<1> DEFINE n == [kind |-> "path", rewrites |-> op \notin Unrewritten, name |-> p,
                 rules |-> rules, path |-> HostPath(op, rules, p)]
<1>1. ~Listed(obj) /\ obj' = n /\ UNCHANGED heap
  BY DEF PathCall, Is, Listed
<1>2. op \notin Unrewritten =>
        HostPath(op, rules, p) \in {iorewrite0(rules, p), iorewrite0(rules, iorewrite0(rules, p))}
  BY DEF HostPath
<1>3. n.rewrites => Rewritten(n)
  BY <1>2 DEF Rewritten
<1>4. n.kind = "path" /\ "kind" \in DOMAIN n
  OBVIOUS
<1> HIDE DEF n
<1>5. Good(n) /\ ~Listed(n)
  BY <1>3, <1>4 DEF Good, Listed
<1> QED BY <1>1, <1>5, NewPlain

LEMMA FdPlain ==
  ASSUME Good(obj), NEW e
  PROVE  /\ \A new : SetFlags(new, e) => Plain
         /\ \A on \in BOOLEAN : SetNonblocking(on, e) => Plain
<1>1. ASSUME NEW new, SetFlags(new, e)
      PROVE  Plain
  <2>1. GoodFd(obj) /\ obj.kind = "fd" /\ ~Listed(obj) /\ UNCHANGED heap
    BY <1>1 DEF SetFlags, Is, Good, Listed
  <2>2. PICK flags \in SUBSET Status :
          /\ flags = SetStatus(obj.flags, to_host_file_status_flags(new))
          /\ flags = SetStatus(obj.asked, new)
    BY <2>1, SetStatusSame DEF GoodFd
  <2>3. OnSuccess(TRUE, e, [obj EXCEPT !.flags = flags, !.asked = flags])
    BY <1>1, <2>2 DEF SetFlags
  <2> QED BY <2>1, <2>3, FdFields, SuccessPlain
<1>2. ASSUME NEW on \in BOOLEAN, SetNonblocking(on, e)
      PROVE  Plain
  <2>1. GoodFd(obj) /\ obj.kind = "fd" /\ ~Listed(obj) /\ UNCHANGED heap
    BY <1>2 DEF SetNonblocking, Is, Good, Listed
  <2>2. PICK flags \in SUBSET Status :
          flags = IF on THEN obj.flags \cup {"NONBLOCK"} ELSE obj.flags \ {"NONBLOCK"}
    BY <2>1 DEF GoodFd, Status
  <2>3. OnSuccess(TRUE, e, [obj EXCEPT !.flags = flags, !.asked = flags])
    BY <1>2, <2>1, <2>2 DEF SetNonblocking, GoodFd
  <2> QED BY <2>1, <2>3, FdFields, SuccessPlain
<1> QED BY <1>1, <1>2

(* Every other call on a descriptor or a path. *)
LEMMA FilePlain == Good(obj) /\ FileNext => Plain
<1> SUFFICES ASSUME Good(obj)
             PROVE  FileNext => Plain
  OBVIOUS
<1>1. \A e : /\ \A new : SetFlags(new, e) => Plain
             /\ \A on \in BOOLEAN : SetNonblocking(on, e) => Plain
  BY FdPlain
<1>2. /\ \A cmd, e : Fcntl(cmd, e) => Plain
      /\ \A present, count, size, e : Sendfile(present, count, size, e) => Plain
      /\ \A clock, e : Clock(clock, e) => Plain
      /\ \A id, e : Sysconf(id, e) => Plain
      /\ \A op, known, e : Converted(op, known, e) => Plain
      /\ \A op, len, size : Checked(op, len, size) => Plain
      /\ \A op, e : Exported(op, e) => Plain
  BY SamePlain DEF Fcntl, Sendfile, Clock, Sysconf, Converted, Checked, Exported
<1>3. ASSUME NEW e, Close(e) \/ Munmap(e)
      PROVE  Plain
  <2>1. ~Listed(obj) /\ OnSuccess(TRUE, e, Nothing) /\ UNCHANGED heap
    BY <1>3 DEF Close, Munmap, Is, Listed
  <2> QED BY <2>1, NothingIsGood, SuccessPlain
<1>4. ASSUME NEW op, NEW e, Fill(op, e)
      PROVE  Plain
  <2> DEFINE n == [kind |-> "filled", zero |-> e # 0]
  <2>1. ~Listed(obj) /\ obj' = n /\ UNCHANGED heap
    BY <1>4 DEF Fill, Is, Listed
  <2>2. Good(n) /\ ~Listed(n)
    BY OthersAreGood DEF Listed, OtherKinds
  <2> QED BY <2>1, <2>2, NewPlain
<1>5. ASSUME NEW op, NEW events, NEW ready, NEW timeout, NEW e,
             Poll(op, events, ready, timeout, e)
      PROVE  Plain
  <2>1. PICK r : obj' = [kind |-> "polled", revents |-> r]
    BY <1>5 DEF Poll
  <2> DEFINE n == [kind |-> "polled", revents |-> r]
  <2>2. ~Listed(obj) /\ obj' = n /\ UNCHANGED heap
    BY <1>5, <2>1 DEF Poll, Is, Listed
  <2>3. Good(n) /\ ~Listed(n)
    BY OthersAreGood DEF Listed, OtherKinds
  <2> QED BY <2>2, <2>3, NewPlain
<1>6. ASSUME NEW flags, NEW e, Mmap(flags, e)
      PROVE  Plain
  <2>1. PICK null, kept :
          obj' \in {obj, [kind |-> "mapping", null |-> null, asked |-> flags, flags |-> kept]}
    BY <1>6 DEF Mmap
  <2> DEFINE n == [kind |-> "mapping", null |-> null, asked |-> flags, flags |-> kept]
  <2>2. ~Listed(obj) /\ obj' \in {obj, n} /\ UNCHANGED heap
    BY <1>6, <2>1 DEF Mmap, Is, Listed
  <2>3. Good(n) /\ ~Listed(n)
    BY OthersAreGood DEF Listed, OtherKinds
  <2> HIDE DEF n
  <2> QED BY <2>2, <2>3, NewPlain, SamePlain
<1>7. ASSUME NEW e \in Results
      PROVE  /\ ~\E op \in Openers, rules \in RuleSets, p \in Names, flags \in FlagWords :
                 Open(op, rules, p, flags, e) /\ ~Plain
             /\ ~\E op \in Wrapping \cup UpdateOnly \cup AsItIs, rules \in RuleSets, p \in Names :
                 PathCall(op, rules, p, e) /\ ~Plain
  BY OpenPlain, PathPlain
<1> QED BY <1>1, <1>2, <1>3, <1>4, <1>5, <1>6, <1>7, SMTT(30) DEF FileNext

-----------------------------------------------------------------------------
(* No two options of a level have one name, *)
LEMMA OptionNamesDiffer ==
  \A h : \A p, q \in OptTable(h) : p[1] = q[1] <=> p[2] = q[2]
<1> TAKE h
<1>1. \A p, q \in SoOpt : p[1] = q[1] <=> p[2] = q[2]
  BY DEF SoOpt
<1>2. \A p, q \in IpOpt : p[1] = q[1] <=> p[2] = q[2]
  BY DEF IpOpt
<1>3. \A p, q \in Ipv6Opt : p[1] = q[1] <=> p[2] = q[2]
  BY DEF Ipv6Opt
<1> QED BY <1>1, <1>2, <1>3 DEF OptTable

(* and no two levels are one for the host: two options the shim converts    *)
(* are two options of the host.                                             *)
LEMMA OptionsDiffer ==
  ASSUME NEW l \in Nat, NEW o, NEW m \in Nat, NEW q, OptionOK(l, o), OptionOK(m, q),
         HostOption(l, o) = HostOption(m, q)
  PROVE  l = m /\ o = q
<1> DEFINE h == to_host_sockopt_level(l)
           Names1 == {p[2] : p \in {r \in OptTable(h) : r[1] = o}}
           Names2 == {p[2] : p \in {r \in OptTable(h) : r[1] = q}}
<1>1. h = to_host_sockopt_level(m) /\ h # Throws
  BY DEF HostOption, OptionOK
<1>2. l = m
  BY <1>1 DEF to_host_sockopt_level, to_host_ipproto, Protocols, Throws
<1>3. CASE h = 6
  <2>1. to_host_sockopt(l, o) = "raw" /\ to_host_sockopt(m, q) = "raw"
    BY <1>1, <1>3 DEF to_host_sockopt
  <2> QED BY <1>2, <2>1 DEF HostOption
<1>4. CASE h # 6
  <2>1. Names1 # {} /\ to_host_sockopt(l, o) \in Names1
    BY <1>4 DEF to_host_sockopt, OptionOK
  <2>2. Names2 # {} /\ to_host_sockopt(m, q) \in Names2
    BY <1>1, <1>4 DEF to_host_sockopt, OptionOK
  <2>3. PICK r \in OptTable(h) : r[1] = o /\ r[2] = to_host_sockopt(l, o)
    BY <2>1
  <2>4. PICK s \in OptTable(h) : s[1] = q /\ s[2] = to_host_sockopt(m, q)
    BY <2>2
  <2>5. to_host_sockopt(l, o) = to_host_sockopt(m, q)
    BY DEF HostOption
  <2> QED BY <1>2, <2>3, <2>4, <2>5, OptionNamesDiffer
<1> QED BY <1>2, <1>3, <1>4

(* What setsockopt does to the two sets. *)
LEMMA PutOption ==
  ASSUME NEW o, GoodSock(o), o.kind = "sock", NEW x \in Options, OptionOK(x[1], x[2]),
         NEW value \in BOOLEAN, NEW on, NEW asked,
         on    = IF value THEN o.on \cup {HostOption(x[1], x[2])}
                 ELSE o.on \ {HostOption(x[1], x[2])},
         asked = IF value THEN o.asked \cup {x} ELSE o.asked \ {x}
  PROVE  /\ Good([o EXCEPT !.on = on, !.asked = asked])
         /\ ~Listed([o EXCEPT !.on = on, !.asked = asked])
<1> DEFINE n == [o EXCEPT !.on = on, !.asked = asked]
           Host(y) == HostOption(y[1], y[2])
<1>1. /\ DOMAIN n = DOMAIN o /\ n.kind = "sock" /\ n.on = on /\ n.asked = asked
      /\ n.local = o.local /\ n.bound = o.bound
  BY DEF GoodSock
<1>2. asked \subseteq Options /\ \A y \in asked : OptionOK(y[1], y[2])
  BY DEF GoodSock
<1>3. ASSUME NEW y \in o.asked, Host(y) = Host(x)
      PROVE  y = x
  <2>1. y \in Options /\ OptionOK(y[1], y[2])
    BY DEF GoodSock
  <2>2. y[1] \in Nat /\ x[1] \in Nat /\ y = <<y[1], y[2]>> /\ x = <<x[1], x[2]>>
    BY <2>1, SocketsAssumption
  <2>3. y[1] = x[1] /\ y[2] = x[2]
    BY <1>3, <2>1, <2>2, OptionsDiffer
  <2> QED BY <2>2, <2>3
<1>4. o.on = {Host(y) : y \in o.asked}
  BY DEF GoodSock
<1> HIDE DEF n, Host
<1>5. on = {Host(y) : y \in asked}
  <2>1. on = IF value THEN o.on \cup {Host(x)} ELSE o.on \ {Host(x)}
    BY DEF Host
  <2> QED BY <1>3, <1>4, <2>1
<1>6. GoodSock(n)
  <2>1. on = {HostOption(y[1], y[2]) : y \in asked}
    BY <1>5 DEF Host
  <2> QED BY <1>1, <1>2, <2>1 DEF GoodSock
<1>7. Good(n) /\ ~Listed(n)
  BY <1>1, <1>6 DEF Good, GoodSock, Listed
<1> QED BY <1>7 DEF n

(* An address that bind takes whole comes back from the host as it was. *)
LEMMA AddressSurvives ==
  ASSUME NEW a \in Addresses, ConvertsToHost(a), a.present, ~TooLong(a)
  PROVE  sockaddr_from_host(sockaddr_to_host(a)) = a
<1>1. a = [present |-> a.present, family |-> a.family, rest |-> a.rest]
  BY SocketsAssumption
<1>2. a.family \in {1, 2, 10}
  BY DEF ConvertsToHost, get_host_len, HostLen, Throws
<1>3. /\ to_host_af_family(1) = 1 /\ to_host_af_family(2) = 2 /\ to_host_af_family(10) = 30
      /\ DOMAIN HostLen = {1, 2, 10} /\ DOMAIN BionicLen = {1, 2, 30}
  BY DEF to_host_af_family, Family, HostLen, BionicLen
<1>4. /\ from_host_af_family(1) = 1 /\ from_host_af_family(2) = 2 /\ from_host_af_family(30) = 10
  <2>1. \A f, g \in DOMAIN Family : Family[f] = Family[g] => f = g
    BY DEF Family
  <2>2. /\ 1 \in DOMAIN Family /\ 2 \in DOMAIN Family /\ 10 \in DOMAIN Family
        /\ Family[1] = 1 /\ Family[2] = 2 /\ Family[10] = 30
    BY DEF Family
  <2> QED BY <2>1, <2>2 DEF from_host_af_family
<1> DEFINE h == sockaddr_to_host(a)
<1>5. /\ h.present = a.present /\ h.rest = a.rest
      /\ h.family = to_host_af_family(a.family)
  BY <1>2, <1>3 DEF sockaddr_to_host
<1> HIDE DEF h
<1>6. /\ h.family \in {1, 2, 30}
      /\ from_host_af_family(h.family) = a.family
  BY <1>2, <1>3, <1>4, <1>5
<1>7. sockaddr_from_host(h) = [present |-> a.present, family |-> a.family, rest |-> a.rest]
  BY <1>3, <1>5, <1>6 DEF sockaddr_from_host
<1> QED BY <1>1, <1>7 DEF h

LEMMA SocketPlain ==
  ASSUME Good(obj), NEW domain, NEW type, NEW proto, NEW e, Socket(domain, type, proto, e)
  PROVE  Plain
<1> DEFINE ok == to_host_socktype(type) # Throws /\ to_host_ipproto(proto) # Throws
           n  == [kind |-> "sock", on |-> {}, asked |-> {},
                  local |-> [present |-> TRUE, family |-> to_host_af_family(domain),
                             rest |-> "unset"],
                  bound |-> [present |-> FALSE]]
<1>1. ~Listed(obj) /\ OnSuccess(ok, e, n) /\ UNCHANGED heap
  BY DEF Socket, Is, Listed
<1>2. n.kind = "sock" /\ DOMAIN n = {"kind", "on", "asked", "local", "bound"}
  OBVIOUS
<1>3. n.on = {} /\ n.asked = {} /\ n.bound.present = FALSE
  OBVIOUS
<1> HIDE DEF n, ok
<1>4. GoodSock(n)
  BY <1>2, <1>3 DEF GoodSock
<1>5. Good(n) /\ ~Listed(n)
  BY <1>2, <1>4 DEF Good, Listed
<1> QED BY <1>1, <1>5, SuccessPlain

LEMMA SetsockoptPlain ==
  ASSUME Good(obj), NEW o \in Options, NEW value \in BOOLEAN, NEW e,
         setsockopt(o[1], o[2], value, e)
  PROVE  Plain
<1> DEFINE ok == OptionOK(o[1], o[2])
<1>1. obj.kind = "sock" /\ GoodSock(obj) /\ ~Listed(obj) /\ UNCHANGED heap
  BY DEF setsockopt, Is, Good, Listed
<1>2. o = <<o[1], o[2]>>
  BY SocketsAssumption
<1>3. PICK on, asked :
        /\ on    = IF value THEN obj.on \cup {HostOption(o[1], o[2])}
                   ELSE obj.on \ {HostOption(o[1], o[2])}
        /\ asked = IF value THEN obj.asked \cup {o} ELSE obj.asked \ {o}
  OBVIOUS
<1>4. OnSuccess(ok, e, [obj EXCEPT !.on = on, !.asked = asked])
  BY <1>2, <1>3 DEF setsockopt
<1>5. CASE ~ok
  BY <1>1, <1>4, <1>5 DEF OnSuccess, Plain
<1>6. CASE ok
  <2>1. /\ Good([obj EXCEPT !.on = on, !.asked = asked])
        /\ ~Listed([obj EXCEPT !.on = on, !.asked = asked])
    BY <1>1, <1>3, <1>6, PutOption
  <2> QED BY <1>1, <1>4, <2>1, SuccessPlain
<1> QED BY <1>5, <1>6

LEMMA BindPlain ==
  ASSUME Good(obj), NEW a \in Addresses, NEW e, bind(a, e)
  PROVE  Plain
<1> DEFINE n == [obj EXCEPT !.local = sockaddr_to_host(a), !.bound = a]
<1>1. obj.kind = "sock" /\ GoodSock(obj) /\ ~Listed(obj) /\ UNCHANGED heap
  BY DEF bind, Is, Good, Listed
<1>2. OnSuccess(ConvertsToHost(a) /\ a.present, e, n)
  BY DEF bind
<1>3. CASE ~(ConvertsToHost(a) /\ a.present)
  BY <1>1, <1>2, <1>3 DEF OnSuccess, Plain
<1>4. CASE ConvertsToHost(a) /\ a.present
  <2>1. /\ DOMAIN n = DOMAIN obj /\ n.kind = "sock" /\ n.on = obj.on /\ n.asked = obj.asked
        /\ n.local = sockaddr_to_host(a) /\ n.bound = a
    BY <1>1 DEF GoodSock
  <2>2. ~TooLong(a) => sockaddr_from_host(sockaddr_to_host(a)) = a
    BY <1>4, AddressSurvives
  <2> HIDE DEF n
  <2>3. GoodSock(n)
    BY <1>1, <2>1, <2>2 DEF GoodSock
  <2>4. Good(n) /\ ~Listed(n)
    BY <2>1, <2>3 DEF Good, GoodSock, Listed
  <2> QED BY <1>1, <1>2, <2>4, SuccessPlain
<1> QED BY <1>3, <1>4

(* What the calls on sockets and lists do to the object and the heap. *)
LEMMA NetPlain == OInv /\ NetNext => Plain \/ OInv'
<1> SUFFICES ASSUME OInv
             PROVE  NetNext => Plain \/ OInv'
  OBVIOUS
<1>0. Good(obj) /\ BlocksOwned
  BY DEF OInv
<1>1. /\ \A a, e : connect(a, e) \/ getnameinfo(a, e) => Plain
      /\ \A room, e : getsockname(room, e) => Plain
      /\ \A how, e : shutdown(how, e) => Plain
      /\ \A f, h, e : ifnetmask(f, h, e) => Plain
      /\ \A f, e : inet_pton(f, e) => Plain
  BY <1>0, SamePlain DEF connect, getnameinfo, getsockname, shutdown, ifnetmask, inet_pton
<1>2. ASSUME NEW e, CloseSocket(e)
      PROVE  Plain
  <2>1. ~Listed(obj) /\ OnSuccess(TRUE, e, Nothing) /\ UNCHANGED heap
    BY <1>2 DEF CloseSocket, Is, Listed
  <2> QED BY <1>0, <2>1, NothingIsGood, SuccessPlain
<1>3. ASSUME NEW ifs, NEW max, NEW e, ifconf(ifs, max, e)
      PROVE  Plain
  <2> DEFINE n == [kind |-> "rows", rows |-> Len(IfRows(ifs, max))]
  <2>1. ~Listed(obj) /\ OnSuccess(TRUE, e, n) /\ UNCHANGED heap
    BY <1>3 DEF ifconf, Is, Listed
  <2>2. Good(n) /\ ~Listed(n)
    BY OthersAreGood DEF Listed, OtherKinds
  <2> HIDE DEF n
  <2> QED BY <1>0, <2>1, <2>2, SuccessPlain
<1>4. ASSUME NEW hints, NEW list, NEW e, getaddrinfo(hints, list, e)
      PROVE  Plain \/ OInv'
  <2> DEFINE n == [kind |-> "addrinfo", list |-> from_host_alloc(list)]
  <2>1. CASE e # 0
    BY <1>0, <1>4, <2>1, SamePlain DEF getaddrinfo
  <2>2. CASE e = 0
    <3>1. obj' = n /\ heap' = heap \cup Allocated(list) /\ obj.kind = "none"
      BY <1>4, <2>2 DEF getaddrinfo, Is
    <3>2. heap = {}
      BY <1>0, <3>1 DEF BlocksOwned, Is
    <3>3. Blocks(from_host_alloc(list)) = Allocated(list)
      <4>1. ASSUME NEW i \in DOMAIN from_host_alloc(list)
            PROVE  /\ i \in DOMAIN list /\ EntryFromHostOK(list[i])
                   /\ PartsOf(from_host_alloc(list)[i]) = PartsOf(list[i])
        <5>1. /\ i \in DOMAIN list /\ EntryFromHostOK(list[i])
              /\ from_host_alloc(list)[i] = EntryFromHost(list[i])
          BY DEF from_host_alloc
        <5>2. /\ EntryFromHost(list[i]).name = list[i].name
              /\ EntryFromHost(list[i]).addr.present = list[i].addr.present
          BY DEF EntryFromHost, sockaddr_from_host
        <5> QED BY <5>1, <5>2 DEF PartsOf
      <4>2. DOMAIN from_host_alloc(list) = {j \in DOMAIN list : EntryFromHostOK(list[j])}
        BY DEF from_host_alloc
      <4> QED BY <4>1, <4>2 DEF Blocks, Allocated
    <3>4. obj'.kind = "addrinfo" /\ obj'.list = from_host_alloc(list)
      BY <3>1
    <3>5. Good(n)
      BY OthersAreGood DEF OtherKinds
    <3>6. BlocksOwned'
      BY <3>1, <3>2, <3>3, <3>4 DEF BlocksOwned, Is
    <3> QED BY <3>1, <3>5, <3>6 DEF OInv
  <2> QED BY <2>1, <2>2
<1>5. ASSUME NEW ifs, NEW e, getifaddrs(ifs, e)
      PROVE  Plain \/ OInv'
  <2> DEFINE n == [kind |-> "ifaddrs", list |-> IfList(ifs)]
  <2>1. CASE e # 0
    BY <1>0, <1>5, <2>1, SamePlain DEF getifaddrs
  <2>2. CASE e = 0
    <3>1. obj' = n /\ heap' = heap \cup IfBlocks(IfList(ifs)) /\ obj.kind = "none"
      BY <1>5, <2>2 DEF getifaddrs, Is
    <3>2. heap = {}
      BY <1>0, <3>1 DEF BlocksOwned, Is
    <3>3. obj'.kind = "ifaddrs" /\ obj'.list = IfList(ifs)
      BY <3>1
    <3>4. Good(n)
      BY OthersAreGood DEF OtherKinds
    <3>5. BlocksOwned'
      BY <3>1, <3>2, <3>3 DEF BlocksOwned, Is
    <3> QED BY <3>1, <3>4, <3>5 DEF OInv
  <2> QED BY <2>1, <2>2
<1>6. ASSUME freeaddrinfo \/ freeifaddrs
      PROVE  OInv'
  <2>1. obj' = Nothing /\ heap' = {}
    BY <1>0, <1>6 DEF freeaddrinfo, freeifaddrs, BlocksOwned, Is
  <2>2. BlocksOwned'
    BY <2>1 DEF BlocksOwned, Is, Nothing
  <2> QED BY <2>1, <2>2, NothingIsGood DEF OInv
<1>7. ASSUME NEW e \in Results
      PROVE  /\ \A domain, type, proto : Socket(domain, type, proto, e) => Plain
             /\ ~\E o \in Options, value \in BOOLEAN :
                   setsockopt(o[1], o[2], value, e) /\ ~Plain
             /\ ~\E a \in Addresses : bind(a, e) /\ ~Plain
  BY <1>0, SocketPlain, SetsockoptPlain, BindPlain
<1> QED BY <1>1, <1>2, <1>3, <1>4, <1>5, <1>6, <1>7, SMTT(30) DEF NetNext

-----------------------------------------------------------------------------
(* Attributes and threads. *)
LEMMA AttrPlain ==
  ASSUME Good(obj)
  PROVE  /\ attr_init \/ attr_destroy => Plain
         /\ \A v : attr_setdetachstate(v) => Plain
         /\ \A p : attr_setschedparam(p) => Plain
         /\ \A size \in StackSizes : attr_setstacksize(size) => Plain
<1>1. Good(NewAttr) /\ ~Listed(NewAttr)
  BY DEF Good, GoodAttr, NewAttr, Listed
<1>2. attr_init \/ attr_destroy => Plain
  <2>1. attr_init => ~Listed(obj) /\ obj' = NewAttr /\ UNCHANGED heap
    BY DEF attr_init, Is, Listed
  <2>2. attr_destroy => ~Listed(obj) /\ obj' = Nothing /\ UNCHANGED heap
    BY DEF attr_destroy, Is, Listed
  <2> QED BY <1>1, <2>1, <2>2, NothingIsGood DEF Plain
<1>3. ASSUME Is("attr"), NEW n, DOMAIN n = DOMAIN obj, n.kind = obj.kind,
             n.stack \in {obj.stack} \cup {s \in StackSizes : s >= StackMin}
      PROVE  Good(n) /\ ~Listed(n) /\ ~Listed(obj)
  <2>1. GoodAttr(obj) /\ n.kind = "attr" /\ obj.kind = "attr"
    BY <1>3 DEF Good, Is
  <2>2. GoodAttr(n) /\ "kind" \in DOMAIN n
    BY <1>3, <2>1, StackAssumption DEF GoodAttr
  <2> QED BY <2>1, <2>2 DEF Good, Listed
<1>4. Is("attr") => DOMAIN obj = {"kind", "detached", "stack", "priority"} /\ obj.stack \in Nat
  BY DEF Is, Good, GoodAttr
<1>5. ASSUME NEW v, attr_setdetachstate(v)
      PROVE  Plain
  <2> DEFINE n == [obj EXCEPT !.detached = (v = 1)]
  <2>1. Is("attr") /\ UNCHANGED heap /\ (obj' = n \/ obj' = obj)
    BY <1>5 DEF attr_setdetachstate
  <2>2. DOMAIN n = DOMAIN obj /\ n.kind = obj.kind /\ n.stack = obj.stack
    BY <1>4, <2>1
  <2> HIDE DEF n
  <2>3. Good(n) /\ ~Listed(n) /\ ~Listed(obj)
    BY <1>3, <2>1, <2>2
  <2> QED BY <2>1, <2>3 DEF Plain
<1>6. ASSUME NEW p, attr_setschedparam(p)
      PROVE  Plain
  <2> DEFINE n == [obj EXCEPT !.priority = p]
  <2>1. Is("attr") /\ UNCHANGED heap /\ obj' = n
    BY <1>6 DEF attr_setschedparam
  <2>2. DOMAIN n = DOMAIN obj /\ n.kind = obj.kind /\ n.stack = obj.stack
    BY <1>4, <2>1
  <2> HIDE DEF n
  <2>3. Good(n) /\ ~Listed(n) /\ ~Listed(obj)
    BY <1>3, <2>1, <2>2
  <2> QED BY <2>1, <2>3 DEF Plain
<1>7. ASSUME NEW size \in StackSizes, attr_setstacksize(size)
      PROVE  Plain
  <2> DEFINE n == [obj EXCEPT !.stack = size]
  <2>1. Is("attr") /\ UNCHANGED heap /\ obj' = (IF size < StackMin THEN obj ELSE n)
    BY <1>7 DEF attr_setstacksize
  <2>2. DOMAIN n = DOMAIN obj /\ n.kind = obj.kind /\ n.stack = size
    BY <1>4, <2>1
  <2> HIDE DEF n
  <2>3. CASE size < StackMin
    BY <2>1, <2>3, SamePlain
  <2>4. CASE ~(size < StackMin)
    <3>1. size >= StackMin
      BY <2>4, StackAssumption
    <3>2. Good(n) /\ ~Listed(n) /\ ~Listed(obj)
      BY <1>3, <2>1, <2>2, <3>1
    <3> QED BY <2>1, <2>4, <3>2 DEF Plain
  <2> QED BY <2>3, <2>4
<1> QED BY <1>2, <1>5, <1>6, <1>7

LEMMA CreatePlain ==
  ASSUME Good(obj), NEW e
  PROVE  /\ pthread_create(e) => Plain
         /\ getattr_np(e) => Plain
<1>1. ASSUME pthread_create(e)
      PROVE  Plain
  <2> DEFINE n == [kind |-> "thread",
                   stack |-> IF obj.stack = 0 THEN DefaultStack ELSE obj.stack,
                   priority |-> IF obj.priority = 0 THEN DefaultPriority ELSE obj.priority,
                   policy |-> "OTHER", seen |-> "none", before |-> "OTHER",
                   asked |-> "none", read |-> "none"]
  <2>1. GoodAttr(obj) /\ ~Listed(obj) /\ UNCHANGED heap /\ OnSuccess(TRUE, e, n)
    BY <1>1 DEF pthread_create, Is, Good, Listed
  <2>2. /\ DOMAIN n = ThreadFields
        /\ n.kind = "thread" /\ n.policy = "OTHER" /\ n.seen = "none"
        /\ n.stack = IF obj.stack = 0 THEN DefaultStack ELSE obj.stack
    BY DEF ThreadFields
  <2> HIDE DEF n
  <2>3. n.stack \in Nat /\ n.stack >= StackMin
    BY <2>1, <2>2, StackAssumption DEF GoodAttr, DefaultStack
  <2>4. GoodThread(n)
    BY <2>2, <2>3 DEF GoodThread, Policies
  <2>5. Good(n) /\ ~Listed(n)
    BY <2>2, <2>4 DEF Good, Listed, ThreadFields
  <2> QED BY <2>1, <2>5, SuccessPlain
<1>2. ASSUME getattr_np(e)
      PROVE  Plain
  <2> DEFINE n == [NewAttr EXCEPT !.stack = obj.stack, !.priority = obj.priority]
  <2>1. GoodThread(obj) /\ ~Listed(obj) /\ UNCHANGED heap /\ OnSuccess(TRUE, e, n)
    BY <1>2 DEF getattr_np, Is, Good, Listed
  <2>2. /\ DOMAIN n = {"kind", "detached", "stack", "priority"}
        /\ n.kind = "attr" /\ n.stack = obj.stack
    BY DEF NewAttr
  <2> HIDE DEF n
  <2>3. GoodAttr(n)
    BY <2>1, <2>2 DEF GoodAttr, GoodThread
  <2>4. Good(n) /\ ~Listed(n)
    BY <2>2, <2>3 DEF Good, Listed
  <2> QED BY <2>1, <2>4, SuccessPlain
<1> QED BY <1>1, <1>2

(* The fields of a thread that a call changes. *)
Changed(o, kind, policy, priority, seen, before, asked, read) ==
  [o EXCEPT !.kind = kind, !.policy = policy, !.priority = priority,
            !.seen = seen, !.before = before, !.asked = asked, !.read = read]

LEMMA ThreadChanges ==
  ASSUME NEW o, GoodThread(o), NEW kind \in {"thread", "setting"}, NEW policy \in Policies,
         NEW seen, NEW before, NEW asked, NEW read, NEW priority,
         seen \in {"none", from_host_sched_policy(before)},
         kind = "setting" => asked \in Settable /\ read \in Policies
  PROVE  /\ Good(Changed(o, kind, policy, priority, seen, before, asked, read))
         /\ ~Listed(Changed(o, kind, policy, priority, seen, before, asked, read))
<1> DEFINE n == Changed(o, kind, policy, priority, seen, before, asked, read)
<1>1. DOMAIN o = ThreadFields /\ o.stack \in Nat /\ o.stack >= StackMin
  BY DEF GoodThread
<1>2. /\ DOMAIN n = ThreadFields /\ n.kind = kind /\ n.stack = o.stack
      /\ n.policy = policy /\ n.seen = seen /\ n.before = before
      /\ n.asked = asked /\ n.read = read
  BY <1>1 DEF ThreadFields, Changed
<1> HIDE DEF n
<1>3. GoodThread(n)
  BY <1>1, <1>2 DEF GoodThread
<1>4. Good(n) /\ ~Listed(n)
  BY <1>2, <1>3 DEF Good, Listed, ThreadFields
<1> QED BY <1>4 DEF n

LEMMA SchedulingPlain ==
  ASSUME Good(obj), NEW e
  PROVE  /\ \A p \in Policies : HostSetsPolicy(p) => Plain
         /\ pthread_getschedparam(e) => Plain
         /\ \A p \in Settable : pthread_setschedparam(p, e) => Plain
         /\ \A n : SetsHostPolicy(n, e) => Plain
         /\ ThreadEnds => Plain
<1> DEFINE Thread == Is("thread") \/ Is("setting")
<1>1. Thread => /\ GoodThread(obj) /\ ~Listed(obj) /\ obj.kind \in {"thread", "setting"}
                /\ obj.policy \in Policies
                /\ obj.seen \in {"none", from_host_sched_policy(obj.before)}
                /\ Is("setting") => obj.asked \in Settable /\ obj.read \in Policies
                /\ DOMAIN obj = ThreadFields
  BY DEF Is, Good, GoodThread, Listed
<1>2. ASSUME NEW p \in Policies, HostSetsPolicy(p)
      PROVE  Plain
  <2> DEFINE n == Changed(obj, obj.kind, p, obj.priority, obj.seen, obj.before, obj.asked, obj.read)
  <2>1. Thread /\ UNCHANGED heap /\ obj' = [obj EXCEPT !.policy = p]
    BY <1>2 DEF HostSetsPolicy
  <2>2. obj' = n
    BY <1>1, <2>1 DEF ThreadFields, Changed
  <2>3. Good(n) /\ ~Listed(n)
    BY <1>1, <2>1, ThreadChanges DEF Is
  <2> QED BY <1>1, <2>1, <2>2, <2>3, NewPlain
<1>3. ASSUME pthread_getschedparam(e)
      PROVE  Plain
  <2> DEFINE n == Changed(obj, "thread", obj.policy, obj.priority, from_host_sched_policy(obj.policy),
                          obj.policy, obj.asked, obj.read)
  <2>1. Is("thread") /\ UNCHANGED heap
        /\ OnSuccess(TRUE, e, [obj EXCEPT !.seen = from_host_sched_policy(obj.policy),
                                          !.before = obj.policy])
    BY <1>3 DEF pthread_getschedparam
  <2>2. OnSuccess(TRUE, e, n)
    BY <1>1, <2>1 DEF ThreadFields, Is, Changed
  <2>3. Good(n) /\ ~Listed(n)
    BY <1>1, <2>1, ThreadChanges
  <2> QED BY <1>1, <2>1, <2>2, <2>3, SuccessPlain
<1>4. ASSUME NEW p \in Settable, pthread_setschedparam(p, e)
      PROVE  Plain
  <2> DEFINE n == Changed(obj, "setting", obj.policy, obj.priority, obj.seen, obj.before,
                          p, obj.policy)
  <2>1. Is("thread") /\ UNCHANGED heap
        /\ obj' \in {obj, [obj EXCEPT !.kind = "setting", !.asked = p, !.read = obj.policy]}
    BY <1>4 DEF pthread_setschedparam
  <2>2. obj' \in {obj, n}
    BY <1>1, <2>1 DEF ThreadFields, Changed
  <2>3. Good(n) /\ ~Listed(n)
    BY <1>1, <2>1, ThreadChanges
  <2> QED BY <1>1, <2>1, <2>2, <2>3, NewPlain, SamePlain
<1>5. ASSUME NEW priority, SetsHostPolicy(priority, e)
      PROVE  Plain
  <2>1. Is("setting") /\ UNCHANGED heap
    BY <1>5 DEF SetsHostPolicy
  <2>2. PICK policy \in Policies : \E level :
          obj' = [obj EXCEPT !.kind = "thread", !.policy = policy, !.priority = level,
                             !.asked = "none", !.read = "none"]
    <3> DEFINE Chosen == IF obj.asked = "unknown" THEN obj.read ELSE obj.asked
    <3>1. Chosen \in Policies /\ obj.policy \in Policies
      BY <1>1, <2>1 DEF Settable, Policies
    <3>2. obj' = [obj EXCEPT !.kind = "thread", !.policy = IF e = 0 THEN Chosen ELSE @,
                             !.priority = IF e = 0 THEN priority ELSE @,
                             !.asked = "none", !.read = "none"]
      BY <1>5 DEF SetsHostPolicy
    <3> HIDE DEF Chosen
    <3> QED BY <3>1, <3>2
  <2>3. PICK level :
          obj' = [obj EXCEPT !.kind = "thread", !.policy = policy, !.priority = level,
                             !.asked = "none", !.read = "none"]
    BY <2>2
  <2> DEFINE n == Changed(obj, "thread", policy, level, obj.seen, obj.before, "none", "none")
  <2>4. obj' = n
    BY <1>1, <2>1, <2>3 DEF ThreadFields, Changed
  <2>5. Good(n) /\ ~Listed(n)
    BY <1>1, <2>1, ThreadChanges
  <2> QED BY <1>1, <2>1, <2>4, <2>5, NewPlain
<1>6. ThreadEnds => Plain
  BY <1>1, NothingIsGood DEF ThreadEnds, Plain
<1> QED BY <1>2, <1>3, <1>4, <1>5, <1>6

(* Keys and semaphores. *)
LEMMA KeysPlain ==
  ASSUME Good(obj)
  PROVE  /\ StartKeys \/ StopKeys => Plain
         /\ \A k, e : pthread_key_create(k, e) => Plain
         /\ \A k : pthread_key_delete(k) \/ pthread_setspecific(k) => Plain
<1>1. Is("keys") => /\ DOMAIN obj = {"kind", "key", "live", "set"} /\ obj.set \subseteq obj.live
                    /\ ~Listed(obj) /\ obj.kind = "keys"
  BY DEF Is, Good, GoodKeys, Listed
<1>2. ASSUME NEW n, DOMAIN n = {"kind", "key", "live", "set"}, n.kind = "keys",
             n.set \subseteq n.live
      PROVE  Good(n) /\ ~Listed(n)
  BY <1>2 DEF Good, GoodKeys, Listed
<1>3. StartKeys \/ StopKeys => Plain
  <2>1. NewKeys.kind = "keys" /\ DOMAIN NewKeys = {"kind", "key", "live", "set"}
        /\ NewKeys.set = {} /\ NewKeys.live = {}
    BY DEF NewKeys
  <2>2. Good(NewKeys) /\ ~Listed(NewKeys)
    BY <1>2, <2>1
  <2>3. StartKeys => ~Listed(obj) /\ obj' = NewKeys /\ UNCHANGED heap
    BY DEF StartKeys, Is, Listed
  <2>4. StopKeys => ~Listed(obj) /\ obj' = Nothing /\ UNCHANGED heap
    BY DEF StopKeys, Is, Listed
  <2> QED BY <2>2, <2>3, <2>4, NothingIsGood DEF Plain
<1>4. ASSUME NEW k, NEW e, pthread_key_create(k, e)
      PROVE  Plain
  <2> DEFINE n == [obj EXCEPT !.key = k, !.live = IF e = 0 THEN @ \cup {k} ELSE @]
  <2>1. Is("keys") /\ obj' = n /\ UNCHANGED heap
    BY <1>4 DEF pthread_key_create
  <2>2. /\ DOMAIN n = DOMAIN obj /\ n.kind = obj.kind /\ n.set = obj.set
        /\ n.live = IF e = 0 THEN obj.live \cup {k} ELSE obj.live
    BY <1>1, <2>1
  <2> HIDE DEF n
  <2>3. Good(n) /\ ~Listed(n)
    BY <1>1, <1>2, <2>1, <2>2
  <2> QED BY <1>1, <2>1, <2>3, NewPlain
<1>5. ASSUME NEW k, pthread_key_delete(k)
      PROVE  Plain
  <2> DEFINE n == [obj EXCEPT !.live = @ \ {k}, !.set = @ \ {k}]
  <2>1. Is("keys") /\ obj' = n /\ UNCHANGED heap
    BY <1>5 DEF pthread_key_delete
  <2>2. /\ DOMAIN n = DOMAIN obj /\ n.kind = obj.kind
        /\ n.set = obj.set \ {k} /\ n.live = obj.live \ {k}
    BY <1>1, <2>1
  <2> HIDE DEF n
  <2>3. Good(n) /\ ~Listed(n)
    BY <1>1, <1>2, <2>1, <2>2
  <2> QED BY <1>1, <2>1, <2>3, NewPlain
<1>6. ASSUME NEW k, pthread_setspecific(k)
      PROVE  Plain
  <2> DEFINE n == [obj EXCEPT !.set = IF k \in obj.live THEN @ \cup {k} ELSE @]
  <2>1. Is("keys") /\ obj' = n /\ UNCHANGED heap
    BY <1>6 DEF pthread_setspecific
  <2>2. /\ DOMAIN n = DOMAIN obj /\ n.kind = obj.kind /\ n.live = obj.live
        /\ n.set = IF k \in obj.live THEN obj.set \cup {k} ELSE obj.set
    BY <1>1, <2>1
  <2> HIDE DEF n
  <2>3. n.set \subseteq n.live
    BY <1>1, <2>1, <2>2
  <2>4. Good(n) /\ ~Listed(n)
    BY <1>1, <1>2, <2>1, <2>2, <2>3
  <2> QED BY <1>1, <2>1, <2>4, NewPlain
<1> QED BY <1>3, <1>4, <1>5, <1>6

LEMMA SemPlain ==
  ASSUME Good(obj)
  PROVE  /\ \A e : sem_init(1, e) => Plain
         /\ sem_destroy \/ sem_post \/ sem_wait => Plain
         /\ \A abs, now, e : sem_timedwait(abs, now, e) => Plain
<1>1. Is("sem") => /\ DOMAIN obj = {"kind", "value"} /\ obj.value \in 0 .. 2
                   /\ ~Listed(obj) /\ obj.kind = "sem"
  BY DEF Is, Good, GoodSem, Listed
<1>2. ASSUME NEW n, DOMAIN n = {"kind", "value"}, n.kind = "sem", n.value \in 0 .. 2
      PROVE  Good(n) /\ ~Listed(n)
  BY <1>2 DEF Good, GoodSem, Listed
<1>3. ASSUME NEW v \in 0 .. 2, Is("sem"), UNCHANGED heap, obj' = [obj EXCEPT !.value = v]
      PROVE  Plain
  <2> DEFINE n == [obj EXCEPT !.value = v]
  <2>1. DOMAIN n = DOMAIN obj /\ n.kind = obj.kind /\ n.value = v
    BY <1>1, <1>3
  <2>2. obj' = n
    BY <1>3
  <2> HIDE DEF n
  <2>3. Good(n) /\ ~Listed(n)
    BY <1>1, <1>2, <1>3, <2>1
  <2> QED BY <1>1, <1>3, <2>2, <2>3, NewPlain
<1>4. ASSUME NEW e, sem_init(1, e)
      PROVE  Plain
  <2> DEFINE n == [kind |-> "sem", value |-> 1]
  <2>1. ~Listed(obj) /\ OnSuccess(TRUE, e, n) /\ UNCHANGED heap
    BY <1>4 DEF sem_init, Is, Listed
  <2>2. Good(n) /\ ~Listed(n)
    BY <1>2
  <2> HIDE DEF n
  <2> QED BY <2>1, <2>2, SuccessPlain
<1>5. ASSUME sem_destroy \/ sem_post \/ sem_wait
      PROVE  Plain
  <2>1. Is("sem") /\ UNCHANGED heap
    BY <1>5 DEF sem_destroy, sem_post, sem_wait
  <2>2. CASE sem_destroy
    BY <1>1, <2>1, <2>2, NothingIsGood, NewPlain DEF sem_destroy
  <2>3. CASE sem_post
    <3>1. obj.value + 1 \in 0 .. 2 /\ obj' = [obj EXCEPT !.value = obj.value + 1]
      BY <1>1, <2>1, <2>3 DEF sem_post
    <3> QED BY <1>3, <2>1, <3>1
  <2>4. CASE sem_wait
    <3>1. \/ obj.value - 1 \in 0 .. 2 /\ obj' = [obj EXCEPT !.value = obj.value - 1]
          \/ UNCHANGED obj
      BY <1>1, <2>1, <2>4 DEF sem_wait
    <3> QED BY <1>3, <2>1, <3>1, SamePlain
  <2> QED BY <1>5, <2>2, <2>3, <2>4
<1>6. ASSUME NEW abs, NEW now, NEW e, sem_timedwait(abs, now, e)
      PROVE  Plain
  <2>1. Is("sem") /\ UNCHANGED heap
    BY <1>6 DEF sem_timedwait
  <2>2. CASE TimeLeft(abs, now).frac < 0
    BY <1>6, <2>1, <2>2, SamePlain DEF sem_timedwait
  <2>3. CASE ~(TimeLeft(abs, now).frac < 0)
    <3>1. /\ e \in {ETIMEDOUT, EINTR} \/ (e = 0 /\ obj.value > 0)
          /\ OnSuccess(TRUE, e, [obj EXCEPT !.value = obj.value - 1])
      BY <1>6, <2>3 DEF sem_timedwait
    <3>2. UNCHANGED obj
          \/ (obj.value > 0 /\ obj' = [obj EXCEPT !.value = obj.value - 1])
      BY <3>1 DEF OnSuccess, ETIMEDOUT, EINTR
    <3>3. obj.value > 0 => obj.value - 1 \in 0 .. 2
      BY <1>1, <2>1
    <3> QED BY <1>3, <2>1, <3>2, <3>3, SamePlain
  <2> QED BY <2>2, <2>3
<1> QED BY <1>4, <1>5, <1>6

(* The attributes of mutexes and condition variables. *)
LEMMA AttributePlain ==
  ASSUME Good(obj)
  PROVE  /\ mutexattr_init \/ mutexattr_destroy \/ condattr_init \/ condattr_destroy => Plain
         /\ \A type : mutexattr_settype(type) => Plain
         /\ \A clock : condattr_setclock(clock) => Plain
<1>1. /\ \A v : Good([kind |-> "mutexattr", type |-> v]) /\ ~Listed([kind |-> "mutexattr", type |-> v])
      /\ \A v : Good([kind |-> "condattr", clock |-> v]) /\ ~Listed([kind |-> "condattr", clock |-> v])
  BY DEF Good, Listed
<1>2. /\ mutexattr_init => /\ ~Listed(obj) /\ UNCHANGED heap
                           /\ obj' = [kind |-> "mutexattr", type |-> 0]
      /\ condattr_init => /\ ~Listed(obj) /\ UNCHANGED heap
                          /\ obj' = [kind |-> "condattr", clock |-> 1]
      /\ mutexattr_destroy \/ condattr_destroy =>
           ~Listed(obj) /\ UNCHANGED heap /\ obj' = Nothing
  BY DEF mutexattr_init, condattr_init, mutexattr_destroy, condattr_destroy, Is, Listed
<1>3. ASSUME NEW type, mutexattr_settype(type)
      PROVE  Plain
  <2>1. Is("mutexattr") /\ UNCHANGED heap
        /\ (UNCHANGED obj \/ obj' = [obj EXCEPT !.type = type])
    BY <1>3 DEF mutexattr_settype
  <2>2. DOMAIN obj = {"kind", "type"} /\ ~Listed(obj)
    BY <2>1 DEF Is, Good, Listed
  <2> DEFINE n == [obj EXCEPT !.type = type]
  <2>3. DOMAIN n = {"kind", "type"} /\ n.kind = "mutexattr"
    BY <2>1, <2>2 DEF Is
  <2>4. UNCHANGED obj \/ obj' = n
    BY <2>1
  <2> HIDE DEF n
  <2>5. Good(n) /\ ~Listed(n)
    BY <2>3 DEF Good, Listed
  <2> QED BY <2>1, <2>2, <2>4, <2>5 DEF Plain
<1>4. ASSUME NEW clock, condattr_setclock(clock)
      PROVE  Plain
  <2>1. Is("condattr") /\ UNCHANGED heap
        /\ (UNCHANGED obj \/ obj' = [obj EXCEPT !.clock = clock])
    BY <1>4 DEF condattr_setclock
  <2>2. DOMAIN obj = {"kind", "clock"} /\ ~Listed(obj)
    BY <2>1 DEF Is, Good, Listed
  <2> DEFINE n == [obj EXCEPT !.clock = clock]
  <2>3. DOMAIN n = {"kind", "clock"} /\ n.kind = "condattr"
    BY <2>1, <2>2 DEF Is
  <2>4. UNCHANGED obj \/ obj' = n
    BY <2>1
  <2> HIDE DEF n
  <2>5. Good(n) /\ ~Listed(n)
    BY <2>3 DEF Good, Listed
  <2> QED BY <2>1, <2>2, <2>4, <2>5 DEF Plain
<1>5. mutexattr_init \/ mutexattr_destroy \/ condattr_init \/ condattr_destroy => Plain
  BY <1>1, <1>2, NothingIsGood DEF Plain
<1> QED BY <1>3, <1>4, <1>5

LEMMA ThreadPlain == Good(obj) /\ ThreadNext => Plain
<1> SUFFICES ASSUME Good(obj)
             PROVE  ThreadNext => Plain
  OBVIOUS
<1>1. ASSUME NEW e
      PROVE  /\ pthread_create(e) \/ getattr_np(e) \/ pthread_getschedparam(e) => Plain
             /\ ~\E p \in {"OTHER", "FIFO", "unknown"} : pthread_setschedparam(p, e) /\ ~Plain
             /\ ~\E n \in Priorities : SetsHostPolicy(n, e) /\ ~Plain
             /\ ~\E k \in HostKeys : pthread_key_create(k, e) /\ ~Plain
             /\ sem_init(1, e) => Plain
  BY CreatePlain, SchedulingPlain, KeysPlain, SemPlain DEF Settable
<1>2. /\ ~\E size \in StackSizes : attr_setstacksize(size) /\ ~Plain
      /\ ~\E p \in {"OTHER", "FIFO", "RR"} : HostSetsPolicy(p) /\ ~Plain
      /\ ~\E type \in -1 .. 3 : mutexattr_settype(type) /\ ~Plain
      /\ ~\E v \in 0 .. 2 : (attr_setdetachstate(v) \/ condattr_setclock(v)) /\ ~Plain
      /\ ~\E p \in Priorities : attr_setschedparam(p) /\ ~Plain
      /\ ~\E k \in HostKeys : (pthread_key_delete(k) \/ pthread_setspecific(k)) /\ ~Plain
      /\ ~\E abs, now \in 0 .. 3, e \in {0, ETIMEDOUT, EINTR} :
            sem_timedwait(abs, now, e) /\ ~Plain
  BY AttrPlain, SchedulingPlain, KeysPlain, SemPlain, AttributePlain DEF Policies
<1>3. /\ attr_init \/ attr_destroy => Plain
      /\ ThreadEnds => Plain
      /\ StartKeys \/ StopKeys => Plain
      /\ condattr_init \/ condattr_destroy \/ mutexattr_init \/ mutexattr_destroy => Plain
      /\ sem_destroy \/ sem_post \/ sem_wait => Plain
  BY AttrPlain, SchedulingPlain, KeysPlain, SemPlain, AttributePlain
<1> QED BY <1>1, <1>2, <1>3, SMTT(30) DEF ThreadNext

-----------------------------------------------------------------------------
LEMMA InitOInv == CallsInit => OInv
BY NothingIsGood DEF CallsInit, OInv, BlocksOwned, Is, Nothing

LEMMA PlainKeeps == OInv /\ Plain => OInv'
<1> SUFFICES ASSUME OInv, Plain PROVE OInv'
  OBVIOUS
<1>1. Good(obj)' /\ heap' = heap /\ (obj' = obj \/ (~Listed(obj) /\ ~Listed(obj')))
  BY DEF Plain
<1>2. CASE obj' = obj
  BY <1>1, <1>2 DEF OInv, BlocksOwned, Is, Blocks, IfBlocks
<1>3. CASE ~Listed(obj) /\ ~Listed(obj')
  <2>1. heap = {}
    BY <1>3 DEF OInv, BlocksOwned, Is, Listed
  <2>2. BlocksOwned'
    BY <1>1, <1>3, <2>1 DEF BlocksOwned, Is, Listed
  <2> QED BY <1>1, <2>2 DEF OInv
<1> QED BY <1>1, <1>2, <1>3

LEMMA OInvIsInductive == OInv /\ [CallsNext]_callVars => OInv'
<1> SUFFICES ASSUME OInv, [CallsNext]_callVars PROVE OInv'
  OBVIOUS
<1>1. Good(obj)
  BY DEF OInv
<1>2. CASE UNCHANGED <<obj, heap>>
  BY <1>1, <1>2, SamePlain, PlainKeeps
<1>3. CASE FileNext
  BY <1>1, <1>3, FilePlain, PlainKeeps
<1>4. CASE NetNext
  BY <1>4, NetPlain, PlainKeeps
<1>5. CASE ThreadNext
  BY <1>1, <1>5, ThreadPlain, PlainKeeps
<1>6. CASE Forget
  <2>1. ~Listed(obj) /\ obj' = Nothing /\ UNCHANGED heap
    BY <1>6 DEF Forget, Listed
  <2> QED BY <1>1, <2>1, NothingIsGood, NewPlain, PlainKeeps
<1> QED BY <1>2, <1>3, <1>4, <1>5, <1>6 DEF CallsNext, callVars

(* The object is one its calls have made, and the heap holds its blocks,    *)
(* after any sequence of calls of every part.                               *)
THEOREM ObjectsInvariant == CallsSpec => []OInv
<1> QED BY InitOInv, OInvIsInductive, PTL DEF CallsSpec

(* BlocksOwned (network.cpp 191-252, 413-567): every block of an address    *)
(* list belongs to the list the application has, for any lists of the       *)
(* host's, whichever of their entries do not convert.                       *)
THEOREM NoBlockIsLost == CallsSpec => []BlocksOwned
<1>1. OInv => BlocksOwned
  BY DEF OInv
<1> QED BY <1>1, ObjectsInvariant, PTL

(* AnswersAgree (file_misc.cpp 22-191, network.cpp 119-189, 278-357): the   *)
(* host has the status flags the application has asked for, getsockopt      *)
(* answers what was set, and getsockname the address that was bound, unless *)
(* a Unix path was cut.  The two sets of options are images of each other   *)
(* (GoodSock), so it is enough that two options of the application are      *)
(* never one of the host's (OptionsDiffer).                                 *)
LEMMA GoodAnswers == OInv => AnswersAgree
<1> SUFFICES ASSUME Good(obj) PROVE AnswersAgree
  BY DEF OInv
<1>1. Is("fd") => obj.flags = obj.asked
  BY DEF Is, Good, GoodFd
<1>2. ASSUME Is("sock"), NEW o \in Options, OptionOK(o[1], o[2])
      PROVE  getsockopt(o[1], o[2]) <=> o \in obj.asked
  <2>1. GoodSock(obj)
    BY <1>2 DEF Is, Good
  <2>2. ASSUME NEW x \in obj.asked, HostOption(x[1], x[2]) = HostOption(o[1], o[2])
        PROVE  x = o
    <3>1. x \in Options /\ OptionOK(x[1], x[2])
      BY <2>1 DEF GoodSock
    <3>2. o[1] \in Nat /\ x[1] \in Nat /\ o = <<o[1], o[2]>> /\ x = <<x[1], x[2]>>
      BY <3>1, SocketsAssumption
    <3>3. x[1] = o[1] /\ x[2] = o[2]
      BY <1>2, <2>2, <3>1, <3>2, OptionsDiffer
    <3> QED BY <3>2, <3>3
  <2>3. obj.on = {HostOption(x[1], x[2]) : x \in obj.asked}
    BY <2>1 DEF GoodSock
  <2> QED BY <2>2, <2>3 DEF getsockopt
<1>3. Is("sock") /\ obj.bound.present /\ ~TooLong(obj.bound) => sockaddr_from_host(obj.local) = obj.bound
  BY DEF Is, Good, GoodSock
<1> QED BY <1>1, <1>2, <1>3 DEF AnswersAgree

THEOREM GettersAgree == CallsSpec => []AnswersAgree
BY GoodAnswers, ObjectsInvariant, PTL

(* The type of every variable: no sequence of calls takes an object out of  *)
(* the values its functions are for, nor errno out of bionic's numbers.     *)
THEOREM CallsTypeCorrect == CallsSpec => []CallsTypeOK
<1>1. CallsInit => TypeOK
  BY DEF CallsInit, Init, TypeOK, AppCodes
<1>2. TypeOK /\ OInv => CallsTypeOK
  <2> SUFFICES ASSUME TypeOK, Good(obj) PROVE CallsTypeOK
    BY DEF OInv
  <2> QED BY DEF CallsTypeOK, Is, Good, GoodFd, GoodSock, GoodAttr, GoodKeys, GoodSem
<1> QED BY <1>1, <1>2, CallsKeepTypes, ObjectsInvariant, PTL DEF CallsSpec

(* PolicyRestored (pthreads.cpp 116-206): what pthread_getschedparam tells  *)
(* of a policy, pthread_setschedparam gives the thread again, or what it    *)
(* has read itself.  Between its two host calls the thread makes no other.  *)
LEMMA OnlySetting ==
  ASSUME Is("setting"), CallsNext
  PROVE  \/ \E n, e : SetsHostPolicy(n, e)
         \/ \E p : HostSetsPolicy(p)
<1>1. ~FileNext
  BY DEF FileNext, Open, SetFlags, SetNonblocking, Fcntl, Close, Poll, Sendfile, Mmap, Munmap,
         PathCall, Fill, Is
<1>2. ~NetNext
  BY DEF NetNext, Socket, CloseSocket, setsockopt, bind, connect, getsockname, shutdown,
         getaddrinfo, getifaddrs, ifconf, ifnetmask, freeaddrinfo, freeifaddrs, Is
<1>3. ThreadNext => \/ \E n, e : SetsHostPolicy(n, e)
                    \/ \E p : HostSetsPolicy(p)
  BY DEF ThreadNext, attr_init, attr_destroy, ThreadEnds, StartKeys, StopKeys, condattr_init,
         condattr_destroy, mutexattr_init, mutexattr_destroy, mutexattr_settype, sem_destroy,
         sem_post, sem_wait, attr_setdetachstate, condattr_setclock, attr_setschedparam,
         attr_setstacksize, pthread_key_delete, pthread_setspecific, pthread_create, getattr_np,
         pthread_getschedparam, pthread_setschedparam, pthread_key_create, sem_init,
         sem_timedwait, Is
<1>4. ~Forget
  BY DEF Forget, Is
<1> QED BY <1>1, <1>2, <1>3, <1>4 DEF CallsNext

LEMMA StepKeepsPolicy == OInv /\ [CallsNext]_callVars => PolicyKept
<1> SUFFICES ASSUME OInv, [CallsNext]_callVars, Is("setting"), obj.asked = obj.seen,
                    obj'.kind = "thread"
             PROVE  obj'.policy \in {obj.before, obj.read, obj.policy}
  BY DEF PolicyKept
<1>1. /\ DOMAIN obj = ThreadFields /\ obj.asked \in Settable
      /\ obj.seen \in {"none", from_host_sched_policy(obj.before)}
  BY DEF OInv, Good, GoodThread, Is
<1>2. ASSUME NEW p, HostSetsPolicy(p)
      PROVE  obj'.kind = "setting"
  BY <1>1, <1>2 DEF HostSetsPolicy, Is, ThreadFields
<1>3. PICK n, e : SetsHostPolicy(n, e)
  BY <1>2, OnlySetting DEF callVars, Is
<1>4. obj'.policy \in {obj.policy, IF obj.asked = "unknown" THEN obj.read ELSE obj.asked}
  BY <1>1, <1>3 DEF SetsHostPolicy, ThreadFields
<1>5. obj.asked # "unknown" => obj.asked = obj.before
  BY <1>1 DEF Settable, from_host_sched_policy
<1> QED BY <1>4, <1>5

THEOREM PolicyIsRestored == CallsSpec => PolicyRestored
<1>1. OInv /\ [CallsNext]_callVars => [PolicyKept]_callVars
  BY StepKeepsPolicy
<1> QED BY <1>1, ObjectsInvariant, PTL DEF PolicyRestored, CallsSpec

-----------------------------------------------------------------------------
(* Paths.  The first rule that applies is one. *)
LEMMA LeastElement ==
  ASSUME NEW T, T \subseteq Nat, T # {}
  PROVE  \E m \in T : \A n \in T : m <= n
<1>1. PICK m \in T : \A n \in T : ~(<<n, m>> \in OpToRel(<, Nat))
  BY WFMin, NatLessThanWellFounded
<1>2. \A n \in T : ~(n < m)
  BY <1>1 DEF OpToRel
<1> QED BY <1>2

LEMMA PrefixIsPointwise ==
  ASSUME NEW S, NEW s \in Seq(S), NEW t \in Seq(S)
  PROVE  IsPrefix(s, t) <=> Len(s) <= Len(t) /\ \A i \in 1 .. Len(s) : s[i] = t[i]
<1> SUFFICES ASSUME Len(s) <= Len(t)
             PROVE  SubSeq(s, 1, Len(s)) = SubSeq(t, 1, Len(s))
                      <=> \A i \in 1 .. Len(s) : s[i] = t[i]
  BY DEF IsPrefix
<1> DEFINE a == SubSeq(s, 1, Len(s))
           b == SubSeq(t, 1, Len(s))
<1>1. Len(s) \in Nat /\ Len(t) \in Nat
  OBVIOUS
<1>2. (\A i \in 1 .. Len(s) : s[i] \in S) /\ (\A i \in 1 .. Len(s) : t[i] \in S)
  BY ElementOfSeq
<1>3. a \in Seq(S) /\ Len(a) = Len(s) /\ \A i \in 1 .. Len(s) : a[i] = s[i]
  BY <1>1, <1>2, SubSeqProperties
<1>4. b \in Seq(S) /\ Len(b) = Len(s) /\ \A i \in 1 .. Len(s) : b[i] = t[i]
  BY <1>1, <1>2, SubSeqProperties
<1> HIDE DEF a, b
<1>5. a = b <=> \A i \in 1 .. Len(s) : a[i] = b[i]
  BY <1>3, <1>4, SeqEqual
<1>6. a = b <=> \A i \in 1 .. Len(s) : s[i] = t[i]
  BY <1>3, <1>4, <1>5
<1> QED BY <1>6 DEF a, b

LEMMA EmptyIsPrefix ==
  ASSUME NEW S, NEW t \in Seq(S)
  PROVE  IsPrefix(<<>>, t)
<1>1. Len(<<>>) = 0 /\ Len(t) \in Nat
  BY EmptySeq
<1>2. SubSeq(<<>>, 1, 0) = <<>> /\ SubSeq(t, 1, 0) = <<>>
  BY SubSeqEmpty
<1> QED BY <1>1, <1>2 DEF IsPrefix

(* What is a prefix of a target followed by anything is a prefix of the     *)
(* target, or the target of it.                                             *)
LEMMA PrefixOfConcat ==
  ASSUME NEW S, NEW from \in Seq(S), NEW to \in Seq(S), NEW rest \in Seq(S),
         IsPrefix(from, to \o rest)
  PROVE  IsPrefix(from, to) \/ IsPrefix(to, from)
<1> DEFINE q == to \o rest
<1>1. q \in Seq(S) /\ Len(q) = Len(to) + Len(rest) /\ \A i \in 1 .. Len(to) : q[i] = to[i]
  BY ConcatProperties
<1> HIDE DEF q
<1>2. Len(from) \in Nat /\ Len(to) \in Nat /\ Len(rest) \in Nat
  OBVIOUS
<1>3. Len(from) <= Len(q) /\ \A i \in 1 .. Len(from) : from[i] = q[i]
  <2>1. IsPrefix(from, q)
    BY DEF q
  <2> QED BY <1>1, <2>1, PrefixIsPointwise
<1>4. CASE Len(from) <= Len(to)
  <2>1. \A i \in 1 .. Len(from) : from[i] = to[i]
    BY <1>1, <1>2, <1>3, <1>4
  <2> QED BY <1>4, <2>1, PrefixIsPointwise
<1>5. CASE Len(to) <= Len(from)
  <2>1. \A i \in 1 .. Len(to) : to[i] = from[i]
    BY <1>1, <1>2, <1>3, <1>5
  <2> QED BY <1>5, <2>1, PrefixIsPointwise
<1> QED BY <1>2, <1>4, <1>5

(* When no rule applies to what a rule makes, rewriting twice is rewriting  *)
(* once.                                                                    *)
LEMMA RewrittenOnce ==
  ASSUME NEW rules \in RuleSets, NEW p \in Names, TargetsApart(rules)
  PROVE  iorewrite0(rules, iorewrite0(rules, p)) = iorewrite0(rules, p)
<1> DEFINE Applies(i, path) == Relative(rules[i], path) \/ Inside(rules[i], path)
           hits == {i \in DOMAIN rules : Applies(i, p)}
           q == iorewrite0(rules, p)
<1>1. /\ p \in Seq(Symbols) /\ DOMAIN rules \subseteq Nat
      /\ \A i \in DOMAIN rules : rules[i].from \in Seq(Symbols) /\ rules[i].to \in Seq(Symbols)
  <2> DEFINE Rule == [from : Seq(Symbols), to : Seq(Symbols)]
  <2>1. p \in Seq(Symbols) /\ rules \in Seq(Rule)
    BY PathsAssumption
  <2> HIDE DEF Rule
  <2>2. DOMAIN rules = 1 .. Len(rules) /\ Len(rules) \in Nat
    BY <2>1
  <2>3. \A i \in DOMAIN rules : rules[i] \in Rule
    BY <2>1, <2>2, ElementOfSeq
  <2>4. \A r \in Rule : r.from \in Seq(Symbols) /\ r.to \in Seq(Symbols)
    BY DEF Rule
  <2> QED BY <2>1, <2>2, <2>3, <2>4
<1>2. CASE p = <<>> \/ hits = {}
  BY <1>2 DEF iorewrite0
<1>3. CASE p # <<>> /\ hits # {}
  <2>1. PICK m \in hits : \A j \in hits : m <= j
    BY <1>1, <1>3, LeastElement
  <2>2. PICK k \in hits : k = CHOOSE i \in hits : \A j \in hits : i <= j
    BY <2>1
  <2> DEFINE to   == rules[k].to
             rest == IF Relative(rules[k], p) THEN p
                     ELSE SubSeq(p, Len(rules[k].from) + 1, Len(p))
  <2>3. q = to \o rest
    <3>1. q = ByRule(rules[k], p)
      BY <1>3, <2>2 DEF iorewrite0
    <3> HIDE DEF q, hits
    <3> QED BY <3>1 DEF ByRule
  <2>4. k \in DOMAIN rules /\ to \in Seq(Symbols)
    BY <1>1
  <2>5. rest \in Seq(Symbols)
    <3>1. SubSeq(p, Len(rules[k].from) + 1, Len(p)) \in Seq(Symbols)
      <4>1. \A i \in Len(rules[k].from) + 1 .. Len(p) : p[i] \in Symbols
        BY <1>1, <2>4, ElementOfSeq
      <4> QED BY <1>1, <2>4, <4>1, SubSeqProperties
    <3> QED BY <1>1, <3>1
  <2>6. /\ to[1] = "/"
        /\ \A j \in DOMAIN rules : ~IsPrefix(rules[j].from, to) /\ ~IsPrefix(to, rules[j].from)
    BY <2>4 DEF TargetsApart
  <2> HIDE DEF to, rest, q, hits
  <2>7. to # <<>>
    <3>1. IsPrefix(<<>>, rules[k].from)
      BY <1>1, <2>4, EmptyIsPrefix
    <3> QED BY <2>4, <2>6, <3>1
  <2>8. q[1] = "/"
    BY <2>3, <2>4, <2>5, <2>6, <2>7, ConcatProperties
  <2>9. ASSUME NEW j \in DOMAIN rules
        PROVE  ~Applies(j, q)
    <3>1. ~IsPrefix(rules[j].from, q)
      BY <1>1, <2>3, <2>4, <2>5, <2>6, PrefixOfConcat
    <3> QED BY <2>8, <3>1 DEF Relative, Inside
  <2>10. iorewrite0(rules, q) = q
    BY <2>9 DEF iorewrite0
  <2> QED BY <2>10 DEF q
<1> QED BY <1>2, <1>3

(* SameFile (iorewrite.h 5-19, file_misc.cpp 124-168): the host gets the     *)
(* same file whichever of the shim's functions a name goes through.         *)
THEOREM OneFilePerName == CallsSpec => []SameFile
<1>1. OInv => SameFile
  <2> SUFFICES ASSUME Good(obj), Is("fd") \/ (Is("path") /\ obj.rewrites),
                      TargetsApart(obj.rules)
               PROVE  obj.path = iorewrite0(obj.rules, obj.name)
    BY DEF OInv, SameFile
  <2>1. Rewritten(obj)
    BY DEF Good, GoodFd, Is
  <2> QED BY <2>1, RewrittenOnce DEF Rewritten
<1> QED BY <1>1, ObjectsInvariant, PTL
=============================================================================
