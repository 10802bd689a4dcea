# TLA+ models of libc-shim

libc-shim lets Android (bionic) native code run on a desktop libc: it hands the
loader a table of symbols (`get_shimmed_symbols`, `src/src/common.cpp`) whose
functions take bionic's types and constants and call the host's. It has no
threads, no main loop and no tests of its own: every entry point is called by
the application, from any of its threads, at any time. What can go wrong is
therefore what several application threads, or several calls in a row, do to
the state the shim itself keeps.

## 1. Inventory

| component | state it keeps | operations | interaction | what is hard |
|---|---|---|---|---|
| static initializers (`pthreads.cpp` 34-105, `pthreads.h` 13-116) | one payload word inside each bionic mutex/cond/rwlock; one heap-allocated host object per bionic object | `to_host`, `*_static_initializer` | every pthread call on a mutex, cond or rwlock starts here | lock-free lazy creation by several threads at once: relaxed load, second read of the initializer value, allocation, compare-and-swap, discarding the loser |
| mutex (`pthreads.cpp` 307-367) | the host mutex behind the word | init, destroy, lock, trylock, unlock, mutexattr | uses `to_host`; used by cond | kind of the mutex, result codes, destroy and re-init |
| cond (`pthreads.cpp` 369-434) | the host cond behind the word, its clock | init, destroy, wait, timedwait, signal, broadcast, condattr | two `to_host` calls per wait (argument order is unspecified in C++) | a waiter and a signaller that resolve the same cond for the first time |
| rwlock (`pthreads.cpp` 436-460, 584-588) | the host rwlock behind the word | init, destroy, rdlock, wrlock, try*, unlock | via `arg_rewrite` | as mutex |
| once (`pthreads.cpp` 498-514) | one int: 0, 1, 2 | `pthread_once` | calls back into the application's routine | spinning waiters; a routine that never returns or throws; recursion |
| cleanup stack (`pthreads.cpp` 24-32, 485-496) | a thread-local linked list of the application's stack nodes | push, pop, run at thread exit | thread-local destructor of the host | order, exactly-once, handlers that push again |
| keys (`pthreads.cpp` 462-483) | none (host keys) | create, delete, set, get | | uninitialized `host_key` when the host call fails |
| attributes, scheduling (`pthreads.cpp` 107-305) | fields of the bionic structs | init/get/set, `host_*attr` conversions | used by create/init | values that do not survive the round trip |
| semaphores (`semaphore.cpp`, `meta.h` 41-71) | `wrapped` pointer when the host type is larger | init, destroy, wait, timedwait, post | `wrapper_type_resolver` | failed construction leaves a dangling pointer; macOS relative timeout |
| errno (`errno.cpp`, `errno.h`) | thread-local `errno_value` beside the host's `errno` (macOS) | translate both ways, `WithErrnoUpdate`, `update_errno`, `sync_errno` | wraps most syscalls | two copies of one value that must follow each other |
| FILE wrappers (`cstdio.cpp`) | heap `bionic::FILE` around a host `FILE`; cached EOF flag; three static ones | open/close/reopen/read/... | symbol table | two wrappers for one stream, stale flag, delete exactly once |
| DIR wrappers (`dirent.cpp`) | heap `bionic::DIR` with the current entry | open/close/read/seek/dirfd | | one entry buffer per stream |
| addresses and lists (`network.cpp` 33-276, 375-389, 413-567) | heap lists handed to the application | getaddrinfo/freeaddrinfo, getifaddrs/freeifaddrs, sockaddr conversion | exceptions skip an entry | partial failure in the middle of a list |
| sockets (`network.cpp` 585-803) | none; on macOS the socket's SO_NOSIGPIPE option around a send | send*/recv*/accept/... | `sock_send_flags`, `sockaddr_in/out` | save/set/restore by two threads; emulated recvmmsg/sendmmsg: partial results, deadline |
| file flags, ioctl, poll (`file_misc.cpp`) | none | open*, fcntl, ioctl, poll, select | `iorewrite0` | flag round trips, error paths that throw |
| path rewriting (`iorewrite.h`) | `rewrite_filesystem_access` list | `iorewrite0` | open/stat/unlink/... | first match wins; applied twice by one entry point |
| setjmp (`bionic/`) | one global cookie, created on first use | get, check, setjmp/longjmp | macOS 32-bit only | unsynchronised lazy creation |
| strlcpy (`bionic/strlcpy.cpp`) | none | copy with truncation | | boundaries of the size |
| common (`common.cpp`) | none | flag and clock conversion, `*_chk`, sendfile, arc4random_buf | | offsets, limits |
| stat, statvfs, sysconf, sched, system properties, ctype tables, symbol tables | none | field or constant translation | | |

The table's last column is what the properties are aimed at; the full list, line
by line, is `hazards` in `PROJECT.json`.

## 2. Modules

| module | models |
|---|---|
| `StaticInit` | the host object behind a bionic mutex, cond or rwlock: static initializers, `to_host`, `*_static_initializer`, `*_init`, `*_destroy` |
| `MutexShim` (extends `StaticInit`) | `pthread_mutex_lock`, `trylock`, `unlock` on those host objects |
| `AbstractMutex` | what the mutex functions promise: one lock per bionic mutex, each call one step; `MutexShim` implements it |
| `CondShim` (extends `MutexShim`) | `pthread_cond_wait`, `timedwait`, `signal`, `broadcast`, by any application |
| `WaitLoop` (extends `CondShim`) | one application waiting for a flag, the environment of `CondShim`'s run |
| `RwLockShim` (extends `StaticInit`) | the rwlock functions behind `arg_rewrite` |
| `AbstractRwLock` | what they promise: one lock per bionic rwlock, each call one step; `RwLockShim` implements it |
| `Once` | `pthread_once` |
| `CleanupStack` | `pthread_cleanup_push`, `pop`, the destructor at thread exit |
| `ErrnoShim` | the two copies of errno on macOS and the translation tables |
| `Calls` (extends `ErrnoShim`) | what every wrapped call does to errno, and the object the application works with |
| `FileCalls`, `NetCalls`, `ThreadCalls` (extend `Calls`) | files, paths, descriptors, poll, sendfile, memory, clocks; sockets' options, addresses and address lists; attributes, scheduling, keys, semaphores |
| `AllCalls` | the composition of these three with errno's own operations |
| `NetConv` | the conversions of `network.cpp` as operators, used by `NetCalls` and `Sockets` |
| `Sockets` | messages through recv\*, send\* and accept by several threads: the emulated recvmmsg and sendmmsg, SO_NOSIGPIPE around a send |
| `Streams` | the FILE and DIR wrappers used by several threads |
| `SetjmpCookie` | the lazily drawn setjmp cookie |
| `Strlcpy` | `strlcpy`, one loop iteration per step |
| `StaticInit_proof`, `RwLockShim_proof`, `AllCalls_proof`, `Sockets_proof`, `Streams_proof`, `Strlcpy_proof` | theorems about the module each is named after |
| `WaitLoop_proof` | theorems about `MutexShim`, `CondShim` and `WaitLoop` |
| `OnceCleanup_proof` | theorems about `Once` and `CleanupStack` |
| `MC*` | constant definitions and symmetry for TLC |

### How state and actions correspond to the code

**StaticInit.** `word[o]` is the payload word (`get_payload_pointer`), a member
of `Kinds` while it holds an initializer value and of `Addrs` once it holds a
host object. On 64 bit (`LP64`) `data[0]` is a separate word, `header`; on 32
bit it is the payload word itself, and `Data0` reads that. `heap[a]` says what
malloc'ed memory holds: nothing (`"free"`), uninitialized memory (`"raw"`), or
a host object of some kind. `pc` and the remaining functions over `Threads` are
the locals of the call each thread is in. The steps are those that another
thread can see or interfere with: the relaxed load (`LoadHit`, `LoadMiss`), the
second read of the initializer value (`ReadInitValue`), allocation and host
`*_init` (`Create`, `CreateFails`), the compare-and-swap (`PublishWins`,
`PublishLoses`), free and check of the loser (`Discard`); then
`*_init` (`InitAlloc`, `InitHost`, `InitHostFails`, `InitStore`) and `*_destroy`
(`DestroyNothing`, `DestroyLoad`, `DestroyHost`, `DestroyStore`, `DestroyFree`).
A call with two arguments (`pthread_cond_wait`) resolves them in any order, as
C++ allows. Memory is sequentially consistent in the model: a thread that reads
the address with the relaxed load reaches the object only through it, and the
publishing exchange is a release.

**MutexShim, CondShim, RwLockShim.** `owner`, `depth`, `wait` and `holds` are
the state of host objects, modelled from POSIX (the host is not part of the
repository). `has` and `mode` are what the application believes from the
results of its calls; nothing in the shim reads them. A host call is one action,
enabled when it does not block. For mutexes and condition variables it includes
the return through `translate_errno_from_host`. The rwlock functions are the
host's behind `arg_rewrite` (`pthreads.cpp` 584-588), and nothing translates
their results: a lock by the writer is macOS's EDEADLK, which is bionic's
EAGAIN, and `HostDeadlock` returns that. Results are named (`"EBUSY"`), not
numbered. `holds` counts nested read locks; a writer is `Writing`.

**Once.** `at[t][c]` is where thread `t` is in its call on control `c`; `stack`
is the nesting of calls through routines. A routine may throw at any point
(`RoutineThrows`) or call itself (`RoutineRecurses`).

**CleanupStack.** Nodes are addresses that can be pushed again after a pop;
`routine[n]` is the number of the push that wrote the node. `running` is the
stack of handlers being run, by pop or by the destructor.

**ErrnoShim.** Host numbers are macOS's, since `ERRNO_TRANSLATION` is only
defined there. `last` remembers the last call, its result and the errno before.

**SetjmpCookie** treats the unsynchronised global as atomic words. A thread that
aborted ends the process. `sigflag` is 0 or 1, what `setjmp` and `_setjmp` pass.

**Strlcpy** has one action per loop iteration; pointers are indices.

**Calls and AllCalls.** One thread makes calls one after the other; what could
go wrong there is what a sequence of calls leaves behind. `obj` is the one
object the application is working with (a descriptor, a socket, an attribute,
a thread, a set of keys, a semaphore, an address list, ...), a record with the
host's state of it and, where a property compares them, the application's view
(`asked`, `name`). `heap` is the set of blocks of address lists, each named by
its entry's position in the host's list and the part of the entry it holds.
Every operation
names the way it is exported: `Wrapped` (`WithErrnoUpdate`, an exception being
EINVAL), `UpdateOnlyCall`, `RawCall`, or `Own` for functions that report through
their result. Each may fail with any error in `Failures`. An exception that
leaves the shim (an unknown clock, hints that do not convert) ends the
application, and no step follows. `sem_timedwait` with a negative fraction is an
update-only call without an error (`UpdateOnlyCall(0)`) that returns -1.
`pthread_setschedparam` is two host calls and two actions, the second being
`SetsHostPolicy`; the thread's policy may change between them.

**FileCalls.** A path is a sequence of symbols, so that a prefix is `IsPrefix`
and a rule of `rewrite_filesystem_access` is applied as the code does it.
`HostPath` says what reaches the host for each way a function is exported. Flag
words are sets of names; where the code tests the host's word with a bionic mask
(`fcntl` `F_GETFL`), the bits are looked up (`HostBit`, `KnownBits`). `mmap` with
flags the shim does not know returns NULL and not MAP_FAILED, which the
application takes for a mapping (`Mmap`).

**NetConv, NetCalls.** Families, types, protocols and options are the numbers
of the two systems, `Throws` what the code rejects. The host's list is a
sequence, the converted one a function on the positions of the entries that
convert; `Allocated` is the set of blocks `from_host_alloc` leaves behind,
entries that do not convert included, and `Blocks` the set the free functions
release. A Unix path longer than the host's `sun_path` is cut on its way to the
host (`TooLong`). The rows of SIOCGIFCONF are limited before the rows of other
families are left out, as the host's buffer is (`IfRows`).

**Sockets.** A step is one host call with what the shim does up to the next one,
since that is where another thread can come between: recvmmsg's loop is
`Receive`, `NextMessage` (the deadline), `PollReady`, `PollTimesOut`,
`PollFails` and `ReceiveFails`; a send with MSG_NOSIGNAL is `SaveOption`,
`SetOption`, `Send`, `RestoreOption`. `Tick` is half a millisecond, so that the
truncation of the remaining time to whole milliseconds shows. `robbed`, `mixed`
and `lost` remember what happened; no action reads them.

**Streams.** `wrap` is the heap of wrappers, whose addresses are given out again
after a deletion; `owned` are the handles the application may use; `host` are
the host's streams. `word` is the wrapper's `_flags`, which bionic's `feof` macro
reads without a call; `update_feof` is three steps (host call, `feof_unlocked`,
store), as the store is not synchronised.

## 3. Runs

| run | configuration | question |
|---|---|---|
| `static_init` | 3 threads, a mutex and a cond, 5 addresses, 64 bit, one creation may fail | do racing callers agree (`CallersAgree`), does the object have the kind asked for (`KindHonoured`), one owner (`OneOwner`), no leak (`NoLeak`), are the lost-race errors unreachable (`LoserFindsWinner`), is a published word kept (`PublishedIsKept`) |
| `mutex` | 3 threads, 1 mutex of any kind, 3 addresses, 32 bit | `MutualExclusion`, and the refinement of `AbstractMutex` (`IsAMutex`) |
| `wait_loop` | 2 consumers, 1 producer that may signal early and outside the mutex, 3 addresses, 64 bit | `SignalWakes`, `WaitHoldsMutex`, `NoLostWakeup`, while waiter and signaller race to create the host condition variable |
| `rwlock` | 3 threads, 1 rwlock, 4 addresses, read locks nested twice (`MaxReads`), one creation may fail | `WriterIsAlone`, and the refinement of `AbstractRwLock` (`IsARwLock`) |
| `once` | 3 threads, 2 controls, the routine of one may call the other's | `RunsOnce`, `ReturnsAfterRun`, `CallsReturn` |
| `calls` | one host error to fail with, 3 host errors and 3 application values for errno, names and rules that overlap, lists with entries that do not convert, a Unix path that fits and one that does not | what changes errno and what parts the two copies (`SuccessKeepsErrno`, `OneErrno`), the host's file (`SameFile`), nothing left allocated (`BlocksOwned`), the host has the flags asked for, options and addresses come back (`AnswersAgree`), a policy survives being read and set again (`PolicyRestored`) |
| `messages` | 2 threads, vectors of 2 messages, three kinds of message, buffers for none or an IPv4 address, a timeout of 1.5 ms | partial counts (`NothingLost`), `DeadlineKept`, `TimedReceiveReturns`, and SO_NOSIGPIPE as long as sends do not overlap (`OptionRestored`) |
| `streams` | 2 threads, 2 heap addresses, 2 streams, one of them standard | `HandlesOwned`, and a loop of `fread` or `fscanf` ends (`ReadersFinish`) |
| `errno_reset` | 9 host errors that move, stay or exist on one side only, 5 application values; a violation is expected | `ErrnoResetWorks` fails, see section 5 |
| `cleanup` | 3 nodes, 4 pushes | `ExactlyOnce`, `NewestFirst`, `ExitEnds` |
| `setjmp_race` | 2 threads, 2 random values; a violation is expected | `OwnBufferMatches` fails, see section 5 |
| `strlcpy` | all strings of up to 4 of 2 characters, sizes 0 to 6 | `Correct`, `InBounds` |

Most passing runs check the type of the variables too.

Bounds. A race in the lazy creation has a winner, a loser and a bystander: three
threads. The thread that published an object has no second creation of it to
start, so three threads over two objects need four addresses at once (two
published, two held by losers) and one for a failed creation; over one object
three, or four with a failed creation. `Create` therefore never blocks for want
of an address (malloc's failure is not modelled because the code does not check
it), but for one case: `wait_loop` has three addresses for two objects, so the
third thread of a race waits there until the loser has freed its object.
Races of three threads are the business of `static_init` and `mutex`. `MaxLost` bounds how many creations fail; each behaves alike.
`MaxDepth` 2 is the least at which recursion, its limit and the way back differ,
`MaxReads` 2 the least at which an unlock leaves a read lock.
Strings of length 0 to 4 against sizes 0 to 6 lie on both sides of every
boundary. `MaxPush` 4 over 3 nodes lets a node be reused.

In `messages`, `VLen` 2 has a first message, a next one and an end; `Backlog` 1
lets one thread take the message another one's poll saw; a timeout of three half
milliseconds is one whole millisecond and a rest, which is where poll's
truncation matters. In `streams`, two heap addresses for two streams leave one
free for the second wrapper of `freopen` and are used again after each close;
`Length` 1 is an item and an end; `MaxSeeks` 1 lets a stream be read again after
its end was seen (without a bound readers need not finish: another thread may
rewind for ever). In `calls`, host error 35 is one whose number moves (to
bionic's 11); `AppErrs` satisfies `AppErrsSurvive`.

Deadlock is not checked where the system may stop: an application whose threads
are done (`wait_loop`, `cleanup`), routines that never end (`once`), streams of
which every wrapper was leaked by a failed `freopen` (`streams`), the end of
`strlcpy`, and a process that aborted (`setjmp_race`).

Mutants. Each property has an operator named `<action>_<change>` beside the
action it changes; with it in place of the action the property fails. They are
not part of any specification.

## 4. Fairness

Only threads inside the shim and the host are assumed to run; the application
is not obliged to call anything, except in `WaitLoop`, which is an application.

- `Once!FairSpec`: weak fairness of each thread's steps; strong fairness of
  `RoutineReturns`, which says that a routine calls `pthread_once` finitely often
  before it returns. `CallsReturn` excuses a control whose routine threw or waits
  for itself. The waiting loop yields, so the winner is scheduled.
- `WaitLoop!LSpec`: weak fairness of the application's own steps, strong
  fairness of each thread inside the shim, because a host mutex that is released
  again and again is eventually given to each waiter. Nothing is assumed of
  spurious wakeups or timeouts.
- `CleanupStack!StackSpec`: the destructor goes on and handlers pop what they push
  and return.
- `Sockets!Spec`: time passes, and a host call that can return does. Nothing is
  assumed of messages arriving, so `TimedReceiveReturns` is due to the deadline;
  it excuses a thread whose message another thread took between poll and
  recvmsg, which then waits without a limit.
- `Streams!Spec`: a thread inside a call, or in its loop of reads, goes on.

## 5. Disagreements found

- `errno_reset`: `open`, `openat`, `__open_2`, `open_3`, `__poll_chk` and
  `unlinkat` call `update_errno` without the `sync_errno` that `errno.h` 53-54
  says a reset of errno needs on macOS. After a raw host call left an error in
  the host's errno and the application set errno to 0, a successful `open`
  brings the old error back.
- `setjmp_race`: two threads whose first `setjmp` runs at once both draw the
  cookie; the later store invalidates the buffer the other one already filled,
  and its `longjmp` aborts. A draw of 0 or 1 has the same effect in one thread:
  the masked cookie is 0, which reads as not drawn.

The models follow the code in other places where it surprises, and nothing in
the repository says it should be otherwise, so they have no run of their own:
`sendfile` uses the address of its offset argument as the offset
(`SendfilePart`); `sem_timedwait` subtracts a deadline without a borrow and Mach
rejects the negative fraction (`TimeLeft`); `F_GETFL` throws for a descriptor
with a host flag outside bionic's mask, O_NONBLOCK among them (`from_host_OK`);
an address that recvmmsg cannot hand over loses the messages before it
(`AddressOK`); after an overlap of two sends with MSG_NOSIGNAL the option may stay
set (`RestoreOption`); the results of the rwlock functions are not translated
(`HostDeadlock`); a loop over `fgetc` or `fgets` that waits for the wrapper's
end-of-file flag does not end (`PlainRead`);
a negative poll timeout is an error (`Timeval`), after which `revents` reports
everything that was asked; `freopen` leaves two wrappers for one stream, and a
failing one leaks them (`Reopen`, `ReopenFails`); the symbol table lists `pclose`
a second time, without the wrapper's deletion (`FinishClose`); 0x4000 means
MSG_DONTWAIT for one half of the receive functions and MSG_NOSIGNAL for the
other (`FlagsOK`); a send whose flags are refused leaves SO_NOSIGPIPE set
(`SetOption`); the rows of SIOCGIFCONF overwrite one another's names (`ifconf`).

## 6. Proofs

Everything below holds for any sets of threads, objects, addresses, controls,
strings, messages and sizes, under the named assumptions of the modules only
(address and initializer values are different, `Mutexes` are among the
`Objects`, and so on).

**StaticInit_proof.** The invariants of the run are not inductive. `IInv` adds
what a thread knows at each program point: `Frames` (which locals are in use),
`Discipline` (the application's rules: calls are on live objects, and a thread
that initializes or destroys an object is alone with it), `Pending` (the word a
thread found uninitialized is either still that value or an address; this is why
the compare-and-swap cannot suffer from a reused value), `Dying` (a destroyed
object's memory is reachable from its destroyer only), `KindPending` (on 32 bit:
the initializer value read apart from the payload either is the kind asked for,
or the race is already lost) and `Allocated`. `Pending` also shows that
`Discard` never throws (`DiscardFinds`). There is a lemma per action with a
step per conjunct; conjuncts the action cannot touch share a step. From `IInv`
follow `TypeOK`, `CallersAgree`, `KindHonoured`, `OneOwner`, `LoserFindsWinner`
and the action property `PublishedIsKept`. `NoLeak` needs one fact more
(`Clean`: a word that is out of use holds no address, unless its object is being
destroyed), so that no step overwrites the only way to an object.

**WaitLoop_proof, mutexes.** `MInv` is `IInv` with `Owners` (what the
application holds is what the host mutex behind the word says, with the same
count, and a host mutex that has an owner is behind some word) and `InOp` (a
thread with a call in progress has its arguments). `Owners` is where lazy
creation and locking meet: it is kept because the word of an object in use never
changes (`Keeps`, from `PublishedIsKept`'s argument) and because a mutex is
destroyed only when nobody holds it. `HostSetsOwner` is the one lemma about a
host mutex that changes hands; every host call is an instance of it or changes
no mutex. `MutualExclusion` follows, and the refinement: each step of
`MutexShim` is a step of `AbstractMutex` or a stutter (`NextMaps`), the host
call being the one at which a call takes effect.

**WaitLoop_proof, waiting.** The theorems are about `CSpec`, in which any
application makes, uses and destroys any mutexes and condition variables and
waits on any of them together; `LoopIsAnApplication` shows that the one the run
checks is such an application. `WInv` adds `Waits`: a thread that is asleep or
awakened is inside the host's wait with the mutex given up, a signal is on one
condition variable, a wait on a mutex too. That the host object a signaller
resolved is the one its waiters sleep on, and nobody else's, is then
`CallersAgree` and `NotShared` (`SleepersWait`), and the step that ends a signal
is the host's (`WakeEndsInHost`).

**RwLockShim_proof.** `RInv` is `IInv` with `Believed` (whoever thinks it holds
a bionic rwlock holds, in the same mode, the host rwlock behind the word, and no
host rwlock is held but through a word) and `HostExcludes`, which is the host's
promise. A step of the lazy creation keeps `Believed` because of `Keeps`, a
destruction because it is of an rwlock nobody holds (`HeldKept`); the host's
calls change the belief and the lock together (`HostReturnsRInv`, for each way a
call can leave the lock, a counted read lock included). `WriterIsAlone` is the two parts
put together. For the refinement of `AbstractRwLock` (`ShimIsARwLock`), `LInv`
adds `InOp`: who is in an unlock holds the rwlock it unlocks. The host call is the
step at which a call takes effect, and because of `Believed` what the host tests
(`NoWriter`, `NoHolder`) is what the application's threads hold.

**OnceCleanup_proof, once.** `OInv`: the control counts the start of the
routine, a winner exists only while the control is 1 and is alone, waiting
starts after the start, and 2 (or being about to store it) means the routine is
finished.

**OnceCleanup_proof, cleanup.** `CInv` says where everything is:
`Linked` (`current` and the nodes' `prev` are the list of the frames),
`Ordered` (a frame below another was pushed before), `Bases` (each handler being
run has its own part of the frames above the one before), `Walk` (the
destructor's `p` is one of the old frames; the handlers above it have run,
those below it have not: the position is the witness, one less at each step)
and `Accounted` (a handler no frame holds has run, was popped without running, or
is still to come). `HandlersRunOnce` follows. `HandlersRunNewestFirst` is about
every start of a handler, by pop or by the exit: a handler that waits is that of
some frame (`WaitingHasFrame`), frames are ordered, and the frame whose handler
starts is the last one whose handler has not run (`NewestFrame`).

**AllCalls_proof, errno.** Each table is injective (`TablesAgree`), so a listed
number survives both directions (`FromIsInverted`, `ToIsInverted`), and what
comes from the host always survives (`FromSurvives`). Every operation of
`AllCalls` does one of a few things to errno (`ErrnoStep`), whatever it does to
its object; each keeps `IInv` (`SuccessKeepsErrno`, and that errno holds a number
that survives) and the types (`CallsTypeOK`). `OneErrno` is an action property:
a number that survives is its own round trip, so a call that succeeds can only
bring the application something new when the two copies were parted
(`CallIsExplained`), and the steps that part them are named.

**AllCalls_proof, objects.** `OInv` says of each kind of object what every
sequence of calls leaves true of it (`Good`): a file's host flags are the
application's, a socket's host options are the images of the asked ones, its
host address converts back to the bound one, a path was rewritten once or twice,
what the application was told of a thread's policy is the conversion of what the
thread had then; and the heap holds the blocks of the application's list.
Apart from the calls on lists, every operation is `Plain`: it makes a good
object, no list, and leaves the heap alone. There is a lemma per group of
operations. From `OInv` follow

- `BlocksOwned`, for lists of any length: what `from_host_alloc` allocated and
  did not free is what the free functions walk over, because both are sets of
  blocks, entry by entry. That is why the lists are functions on positions.
- `AnswersAgree`: no two options the shim accepts become one for the host
  (`OptionsDiffer`, over every level and number, not the run's few), and an
  address that converts converts back (`AddressSurvives`), unless it is a Unix
  path the host cuts. Of the status flags it says what the host has, not what
  `F_GETFL` tells, which throws for some of them.
- `SameFile`, for any names and rules: the name a rule makes is one no rule
  applies to, so `openat`, which rewrites twice, opens the file `open` does
  (`RewrittenOnce`). That needs `TargetsApart`, a condition on the list within
  the property: with rules whose targets overlap their sources it is false.
- `PolicyRestored`, an action property: `Good` says what was told of which
  policy, and between the two host calls of `pthread_setschedparam` the only
  other step is the host's own change of the policy (`OnlySetting`).

**Sockets_proof.** `IInv` adds `Progress` (a call that goes on has messages to
go), `Polls` (a poll has a deadline, and the message it reported is in the queue
or was taken by another thread) and `Option` (without an overlap one send at a
time has the option, and its saved value is 0). `NothingLost`, `DeadlineKept`
and `OptionRestored` follow. `NothingLost` excuses the call that ends with an
address it cannot hand over, which loses all it has received; `OptionRestored`
says nothing after an overlap.

**Streams_proof.** `HandlesOwned` is inductive with the types of the variables:
who closes a stream takes all its handles from the application first.

**Strlcpy_proof.** `SInv` relates the two pointers, the counter and the copied
prefix at each program point; `TypeOK`, `Correct` and `InBounds` follow.

### Assumptions

Most only say what a constant is (times and sizes are numbers, names are
sequences of symbols, `Null` is not a node). Those that say more:

| assumption | what it says | why the code justifies it |
|---|---|---|
| `StaticInitAssumption` | an address is never an initializer value | the initializers are 0, 0x4000, 0x8000 and the values `pthreads.h` lists; malloc does not return them |
| `MutexShimAssumption` | `MaxDepth` is at least 1 | the host's limit on recursion |
| `RwLockAssumption` | no object is a mutex; `MaxReads` is at least 1 | the module is the composition of the lazy creation with rwlocks alone; how deep an application nests its read locks |
| `ErrnoAssumption` | numbers are below 107 on the host, 134 in bionic | the ranges of the two `errno.h` |
| `AppErrsSurvive` | the application writes to errno only numbers the tables list or neither system's table mentions | the others do not survive the way to the host's numbers and back: 41, which bionic does not use, would come back as 91; and 44, 46-57, 59, 64, 65, 68-70, 77 and 78, which bionic has and whose cases of the tables are not compiled on macOS, as other numbers (EBADFD, 77, as 37). For these `SuccessKeepsErrno` would be false |
| `FailuresAreHostErrs` | a call that fails has an error that is not 0 | the host's convention |
| `SocketsAssumption` | options are pairs, addresses records with the three fields | the parameters of the functions |

### Only model-checked

`CallsReturn`, `NoLostWakeup`, `ExitEnds`, `TimedReceiveReturns` and
`ReadersFinish` are liveness properties; they rest on fairness and hence on
`ENABLED`, which the prover does not handle. `ErrnoResetWorks` and
`OwnBufferMatches` are false. Every other property of the runs has a theorem.

## 7. Not modelled

- The host's libraries, beyond what the shim uses of them: host mutexes,
  condition variables, sockets, streams and semaphores are modelled from their
  documented behaviour. Where the code has an `#ifdef __APPLE__`, the macOS side
  is modelled; it is the one with the conversions.
- Weak memory orders. A word of memory is read and written in one step.
- Uses the application must not make on bionic either: an object while it is
  destroyed, a relock of a normal mutex by its owner, an unlock of a normal
  mutex by another thread, a handle of a closed stream, a stream closed while
  another thread is inside a call on it.
- Clocks of condition variables: a timeout is a step that may happen at any time,
  so which clock a deadline is compared with (`pthreads.cpp` 162, 576) makes no
  difference to the model.
- Payloads, ancillary data (`cmsg`) and the copies of single fields in `stat`,
  `statvfs`, `dirent`, `flock` and the time structures (`common.h` 211-259).
- Random bytes, locales, property values, `mallinfo`'s numbers.
- Constant data (`ctype_data.cpp`), the tables of names that are the host's own
  functions, register saving of `setjmp` (assembly), the floating-point calling
  convention (`armhfrewrite.h`), and `osx10_10_compat.c`, which is LLVM's
  `__isOSVersionAtLeast`.

`PROJECT.json` lists every component with its status, and every hazard at its
line; a hazard that no property covers has a note with the reason.
