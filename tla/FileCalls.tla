------------------------------ MODULE FileCalls ------------------------------
(***************************************************************************)
(* Descriptors and paths (file_misc.cpp, iorewrite.h, parts of common.cpp  *)
(* and sysconf.cpp), as compiled on macOS.  A path is a sequence of        *)
(* symbols, "/" among them; a flag word is a set of flag names.            *)
(***************************************************************************)
EXTENDS Calls, SequencesExt

CONSTANTS Symbols,   \* what paths are made of
          Names,     \* paths the application opens
          RuleSets,  \* values of rewrite_filesystem_access
          FlagWords, \* flags it opens a file with or sets
          PtrValue   \* the address of sendfile's offset argument

ASSUME PathsAssumption ==
  /\ Names \subseteq Seq(Symbols)
  /\ RuleSets \subseteq Seq([from : Seq(Symbols), to : Seq(Symbols)])

-----------------------------------------------------------------------------
(* rewrite_filesystem_access is a sequence of records [from, to]. *)
Relative(r, p) == r.from = <<".">> /\ p[1] # "/"
Inside(r, p)   == IsPrefix(r.from, p) /\ ~IsPrefix(r.from, r.to)

ByRule(rule, p) ==
  rule.to \o (IF Relative(rule, p) THEN p ELSE SubSeq(p, Len(rule.from) + 1, Len(p)))

(* The first rule that applies, once. *)
iorewrite0(rules, p) ==
  LET hits == {i \in DOMAIN rules : Relative(rules[i], p) \/ Inside(rules[i], p)}
  IN  IF p = <<>> \/ hits = {} THEN p
      ELSE ByRule(rules[CHOOSE i \in hits : \A j \in hits : i <= j], p)

(* What the symbol tables export for a path: with WithErrnoUpdate, with an  *)
(* update only, or as it is; and the functions that rewrite no path.        *)
Wrapping    == {"access", "chown", "lchown", "chdir", "link", "symlink", "unlink", "rmdir",
                "stat", "lstat", "chmod", "mkdir", "readlink", "fchmodat", "utimensat", "execv"}
UpdateOnly  == {"unlinkat"}
AsItIs      == {"fopen", "freopen", "opendir", "remove", "rename", "truncate", "pathconf",
                "realpath", "statvfs", "utime"}
Unrewritten == {"readlink", "fchmodat", "utimensat", "execv", "truncate", "pathconf",
                "realpath", "statvfs", "utime"}

(* Mutant: __open_2 is exported without IOREWRITE1. *)
HostPath_Raw(op, rules, p) ==
  CASE op \in Unrewritten \cup {"__open_2"} -> p
    [] op = "__libc_shim_open_3" -> iorewrite0(rules, iorewrite0(rules, p))
    [] OTHER -> iorewrite0(rules, p)

(* open, openat and unlinkat rewrite the path themselves, other functions   *)
(* are exported with IOREWRITE1 or 2, __libc_shim_open_3 does both.         *)
HostPath(op, rules, p) ==
  CASE op \in Unrewritten -> p
    [] op = "__libc_shim_open_3" -> iorewrite0(rules, iorewrite0(rules, p))
    [] OTHER -> iorewrite0(rules, p)

-----------------------------------------------------------------------------
(* The host's numbers of the flags, and the bits of KNOWN_FLAGS. *)
HostBit == [WRONLY |-> 1, RDWR |-> 2, NONBLOCK |-> 4, APPEND |-> 8, CREAT |-> 512,
            TRUNC |-> 1024, EXCL |-> 2048, NOCTTY |-> 131072, CLOEXEC |-> 16777216]
KnownBits == {1, 2, 64, 128, 256, 512, 1024, 2048, 524288}

(* Flags the conversion does not know (O_DIRECTORY, O_SYNC) are dropped. *)
to_host_file_status_flags(flags) == flags \cap DOMAIN HostBit

(* The bits of the host's word are looked up in bionic's mask. *)
from_host_OK(flags) == \A f \in flags : HostBit[f] \in KnownBits

(* What F_GETFL reports, and what F_SETFL changes. *)
Status    == {"WRONLY", "RDWR", "NONBLOCK", "APPEND"}
Changable == {"NONBLOCK", "APPEND"}

(* open, openat, __open_2, __libc_shim_open_3.  asked is the application's  *)
(* view of the status flags, flags the host's.                              *)
Open(op, rules, p, flags, e) ==
  /\ Is("none")
  /\ UpdateOnlyCall(e)
  /\ OnSuccess(TRUE, e,
       [kind |-> "fd", name |-> p, rules |-> rules,
        path |-> HostPath(op, rules, p),
        flags |-> to_host_file_status_flags(flags) \cap Status,
        asked |-> flags \cap Status])
  /\ UNCHANGED heap

(* Another function is called with a path. *)
PathCall(op, rules, p, e) ==
  /\ Is("none")
  /\ CASE op \in Wrapping   -> Wrapped(TRUE, e)
       [] op \in UpdateOnly -> UpdateOnlyCall(e)
       [] OTHER             -> RawCall(e)
  /\ obj' = [kind |-> "path", rewrites |-> op \notin Unrewritten, name |-> p, rules |-> rules,
             path |-> HostPath(op, rules, p)]
  /\ UNCHANGED heap

(* stat, fstat, lstat, statvfs: the application's buffer is filled from the *)
(* host's, which stays zero when the call fails; getrlimit likewise, for    *)
(* RLIMIT_NOFILE.                                                           *)
Fill(op, e) ==
  /\ Is("none")
  /\ IF op = "statvfs" THEN RawCall(e) ELSE Wrapped(TRUE, e)
  /\ obj' = [kind |-> "filled", zero |-> e # 0]
  /\ UNCHANGED heap

(* close, exported with WithErrnoUpdate. *)
Close(e) ==
  /\ Is("fd")
  /\ Wrapped(TRUE, e) /\ OnSuccess(TRUE, e, Nothing)
  /\ UNCHANGED heap

SetStatus(flags, new) == (flags \ Changable) \cup (new \cap Changable)

(* F_SETFL *)
SetFlags(new, e) ==
  /\ Is("fd")
  /\ Wrapped(TRUE, e)
  /\ OnSuccess(TRUE, e,
       [obj EXCEPT !.flags = SetStatus(@, to_host_file_status_flags(new)),
                   !.asked = SetStatus(@, new)])
  /\ UNCHANGED heap

(* Mutant: a command the switch does not list returns 0, FIONBIO with it. *)
SetNonblocking_Ignored(on, e) ==
  /\ Is("fd")
  /\ Wrapped(TRUE, e)
  /\ OnSuccess(TRUE, e,
       [obj EXCEPT !.asked = SetStatus(@, IF on THEN @ \cup {"NONBLOCK"} ELSE @ \ {"NONBLOCK"})])
  /\ UNCHANGED heap

(* ioctl FIONBIO *)
SetNonblocking(on, e) ==
  LET Set(flags) == IF on THEN flags \cup {"NONBLOCK"} ELSE flags \ {"NONBLOCK"} IN
  /\ Is("fd")
  /\ Wrapped(TRUE, e)
  /\ OnSuccess(TRUE, e, [obj EXCEPT !.flags = Set(@), !.asked = Set(@)])
  /\ UNCHANGED heap

(* F_GETFL throws for a host word with a bit KNOWN_FLAGS has not, and for    *)
(* the -1 of a failure.  Also F_SETFD and F_SETLK; another command throws.   *)
Fcntl(cmd, e) ==
  /\ Is("fd")
  /\ CASE cmd = "GETFL" -> Wrapped(e = 0 /\ from_host_OK(obj.flags), 0)
       [] cmd = "other" -> Wrapped(FALSE, 0)
       [] OTHER         -> Wrapped(TRUE, e)
  /\ UNCHANGED <<obj, heap>>

-----------------------------------------------------------------------------
(* poll_via_select *)
Timeval(timeout) ==  \* C's division rounds towards zero
  LET n == IF timeout < 0 THEN -timeout ELSE timeout
      sign == IF timeout < 0 THEN -1 ELSE 1
  IN  [sec |-> sign * (n \div 1000), usec |-> sign * (n % 1000) * 1000]

(* The sets a descriptor is put in, and what revents is made of; when select *)
(* fails the sets are as they were, and so revents says all that was asked.  *)
Asked(events) == (IF events \cap {"IN", "PRI"} # {} THEN {"IN"} ELSE {})
                 \cup (events \cap {"OUT"}) \cup {"ERR"}
Revents(events, ret, ready) ==
  IF ret < 0 THEN Asked(events) ELSE Asked(events) \cap ready

(* __poll_chk updates errno, poll is exported as it is.  A negative timeout  *)
(* is EINVAL for select: macOS's poll never waits without a limit.           *)
Poll(op, events, ready, timeout, e) ==
  LET t == Timeval(timeout)
      r == IF t.sec < 0 \/ t.usec < 0 THEN EINVAL ELSE e
  IN  /\ Is("none")
      /\ IF op = "__poll_chk" THEN UpdateOnlyCall(r) ELSE RawCall(r)
      /\ obj' = [kind |-> "polled",
                 revents |-> Revents(events, IF r = 0 THEN Cardinality(ready) ELSE -1, ready)]
      /\ UNCHANGED heap

-----------------------------------------------------------------------------
(* sendfile takes the address of the offset for the offset: the part of a   *)
(* file of that size it sends, and what it stores as the new offset.        *)
SendfilePart(present, count, size) ==
  LET c == IF present THEN PtrValue ELSE 0
  IN  [from |-> c, len |-> IF count = -1 \/ count > size - c THEN size - c ELSE count]

(* Exported as it is; a failing fstat ends it. *)
Sendfile(present, count, size, e) ==
  /\ Is("fd")
  /\ RawCall(IF SendfilePart(present, count, size).len < 0 THEN EINVAL ELSE e)
  /\ UNCHANGED <<obj, heap>>

-----------------------------------------------------------------------------
(* Conversions of common.cpp: a value they do not know throws. *)
to_host_clock_type == [c \in {0, 1, 7} |-> IF c = 0 THEN "REALTIME" ELSE "MONOTONIC"]
KnownMmapFlags == {"FIXED", "ANON", "NORESERVE", "PRIVATE", "SHARED", "STACK", "GROWSDOWN"}

(* FIXED becomes MAP_FILE, which is 0; macOS has no STACK, no GROWSDOWN. *)
to_host_mmap_flags(flags) == flags \cap {"PRIVATE", "ANON", "SHARED", "NORESERVE"}

(* A failing host call is MAP_FAILED.  For flags the shim does not know the  *)
(* wrapper returns NULL, which an application that compares with MAP_FAILED *)
(* takes for a mapping.                                                     *)
Mmap(flags, e) ==
  LET ok  == flags \subseteq KnownMmapFlags
      new == [kind |-> "mapping", null |-> ~ok, asked |-> flags,
              flags |-> IF ok THEN to_host_mmap_flags(flags) ELSE {}]
  IN  /\ Is("none")
      /\ Wrapped(ok, e)
      /\ obj' = IF ok /\ e # 0 THEN obj ELSE new
      /\ UNCHANGED heap

(* The host has no mapping at NULL: munmap of it may fail or do nothing. *)
Munmap(e) ==
  /\ Is("mapping")
  /\ Wrapped(TRUE, e) /\ OnSuccess(TRUE, e, Nothing) /\ UNCHANGED heap

(* clock_gettime and clock_getres are exported as they are: the exception   *)
(* for an unknown clock leaves them, and no step follows.  So it is with    *)
(* gettimeofday for a time zone and sysconf for an unknown name.            *)
Clock(clock, e) ==
  /\ clock \in DOMAIN to_host_clock_type
  /\ RawCall(e) /\ UNCHANGED <<obj, heap>>

(* The names sysconf knows; the host's answer is passed on as it is. *)
to_host_sysconf_id(id) ==
  id \in 0 .. 14 \cup 16 .. 32 \cup 34 .. 41 \cup 46 .. 85 \cup 96 .. 100

Sysconf(id, e) ==
  /\ to_host_sysconf_id(id)
  /\ RawCall(e) /\ UNCHANGED <<obj, heap>>

(* getrlimit throws for another resource than RLIMIT_NOFILE.  prctl knows   *)
(* PR_SET_NAME only and returns EINVAL for another option, ioctl returns 0  *)
(* for another command, both without an error and without a host call, and  *)
(* getrusage always returns -1 in the same way.                             *)
Converted(op, known, e) ==
  /\ IF op = "getrlimit" THEN ~known /\ Wrapped(FALSE, 0)
     ELSE Wrapped(TRUE, IF known /\ op # "getrusage" THEN e ELSE 0)
  /\ UNCHANGED <<obj, heap>>

(* The functions with a size of the buffer.  Those in Checks abort, so that *)
(* no step follows, unless it holds len bytes, strlen a string and its NUL; *)
(* the others ignore it.  None copies errno.                                *)
Checks == {"memchr", "memcpy", "memmove", "memset", "strlcpy", "vsnprintf", "snprintf"}
Checked(op, len, size) ==
  /\ op = "strlen" => len < size
  /\ op \in Checks => len <= size
  /\ Own(0) /\ UNCHANGED <<obj, heap>>

(* gettimeofday, memalign, __read_chk, __write_chk, pathconf and nanosleep  *)
(* are exported as they are, and so are the functions that make no host     *)
(* call: mallinfo, getrandom, gettid, fakesyscall, the signal functions,    *)
(* the system properties, sched_setaffinity.  mremap fails without an       *)
(* error.                                                                   *)
Exported(op, e) ==
  /\ IF op = "stub" THEN RawCall(0) ELSE RawCall(e)
  /\ UNCHANGED <<obj, heap>>

Openers == {"open", "openat", "__open_2", "__libc_shim_open_3"}

(* A call that takes no object is made while the application has none. *)
FileNext ==
  \E e \in Results :
       \/ \E op \in Openers, rules \in RuleSets, p \in Names, flags \in FlagWords :
            Open(op, rules, p, flags, e)
       \/ \E flags \in FlagWords : SetFlags(flags, e)
       \/ \E on \in BOOLEAN : SetNonblocking(on, e)
       \/ \E cmd \in {"GETFL", "SETFD", "SETLK", "other"} : Fcntl(cmd, e)
       \/ Close(e)
       \/ \E op \in {"poll", "__poll_chk"}, events \in { {"IN"}, {"PRI", "OUT"} },
            ready \in { {}, {"IN", "ERR"} }, timeout \in {-1, 0, 1500} :
            Poll(op, events, ready, timeout, e)
       \/ \E present \in BOOLEAN, count \in {-1, 4} : Sendfile(present, count, 8, e)
       \/ \E flags \in { {"PRIVATE", "ANON"}, {"SHARED", "FIXED"}, {"LOCKED"} } :
            Mmap(flags, e)
       \/ Munmap(e)
       \/ Is("none") /\ \E clock \in {0, 1, 7, 3} : Clock(clock, e)
       \/ Is("none") /\ \E op \in {"prctl", "ioctl", "getrlimit", "getrusage"}, known \in BOOLEAN :
            Converted(op, known, e)
       \/ Is("none") /\ \E op \in {"stub", "host"} : Exported(op, e)
       \/ Is("none") /\ \E id \in {0, 15, 33, 100} : Sysconf(id, e)
       \/ \E op \in Wrapping \cup UpdateOnly \cup AsItIs, rules \in RuleSets, p \in Names :
            PathCall(op, rules, p, e)
       \/ \E op \in {"stat", "statvfs", "getrlimit"} : Fill(op, e)
       \/ Is("none") /\ \E op \in Checks \cup {"strlen", "strcpy"}, len, size \in 0 .. 2 :
            Checked(op, len, size)
=============================================================================
