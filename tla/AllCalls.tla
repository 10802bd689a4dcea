------------------------------ MODULE AllCalls ------------------------------
(* The calls of FileCalls, NetCalls and ThreadCalls together with errno's:  *)
(* one thread that works with one object at a time.                         *)
EXTENDS FileCalls, NetCalls, ThreadCalls

CallsInit == Init /\ obj = Nothing /\ heap = {}

CallsNext ==
  \/ ~Is("setting") /\ Next /\ UNCHANGED <<obj, heap>>
  \/ FileNext \/ NetNext \/ ThreadNext \/ Forget

CallsSpec == CallsInit /\ [][CallsNext]_callVars

-----------------------------------------------------------------------------
(* The type of every variable. *)
CallsTypeOK ==
  /\ TypeOK
  /\ Is("fd")   => obj.flags \subseteq Status
  /\ Is("sock") => obj.asked \subseteq Options
  /\ Is("attr") => obj.stack = 0 \/ obj.stack >= StackMin
  /\ Is("keys") => obj.set \subseteq obj.live
  /\ Is("sem")  => obj.value \in 0 .. 2

(* Whichever function a name goes through, of those that rewrite names, the *)
(* host gets the same file: rewriting a path twice, as __libc_shim_open_3   *)
(* does, is rewriting it once, when no rule applies to what another (or the *)
(* same) rule makes of a path: no target and no source is a prefix of the   *)
(* other, and targets are absolute.                                         *)
TargetsApart(rules) ==
  \A i, j \in DOMAIN rules :
    /\ rules[i].to[1] = "/"
    /\ ~IsPrefix(rules[j].from, rules[i].to) /\ ~IsPrefix(rules[i].to, rules[j].from)

SameFile ==
  /\ Is("fd") \/ (Is("path") /\ obj.rewrites)
  /\ TargetsApart(obj.rules)
  => obj.path = iorewrite0(obj.rules, obj.name)

(* Every block the shim allocated for an address list belongs to the list   *)
(* the application has: an entry that does not convert leaves none behind,  *)
(* and freeaddrinfo and freeifaddrs free them all.                          *)
BlocksOwned ==
  heap = CASE Is("addrinfo") -> Blocks(obj.list)
           [] Is("ifaddrs")  -> IfBlocks(obj.list)
           [] OTHER          -> {}

(* What the host has of an object is what the application has set: the      *)
(* status flags of a descriptor after open, F_SETFL and FIONBIO (F_GETFL    *)
(* itself throws when NONBLOCK or APPEND is among them); what getsockopt    *)
(* answers after any sequence of setsockopt, so that no two options are one *)
(* for the host; what getsockname answers after bind, but for a Unix path   *)
(* longer than the host's, which is cut.                                    *)
AnswersAgree ==
  /\ Is("fd") => obj.flags = obj.asked
  /\ Is("sock") =>
       /\ \A o \in Options : OptionOK(o[1], o[2]) =>
            (getsockopt(o[1], o[2]) <=> o \in obj.asked)
       /\ obj.bound.present /\ ~TooLong(obj.bound) =>
            sockaddr_from_host(obj.local) = obj.bound

(* pthread_setschedparam with what pthread_getschedparam has told. *)
PolicyKept ==
  Is("setting") /\ obj.asked = obj.seen /\ obj'.kind = "thread"
    => obj'.policy \in {obj.before, obj.read, obj.policy}

(* Setting the policy pthread_getschedparam has told gives the thread no    *)
(* policy that it has not had: the one it had then, or, told as -1 because  *)
(* bionic does not know it, the one the set itself reads.  The thread's     *)
(* policy may change between any two of the host calls.                     *)
PolicyRestored == [][PolicyKept]_callVars
=============================================================================
