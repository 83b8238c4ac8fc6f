# A TLA+ verification of the NSU operating-systems course work

The repository is a collection of C programs written for two semesters of an
operating-systems course.  They share no code; each directory is a system of its
own.  This project models the concurrent ones: the hand-made locks, the bounded
queues, the linked-list storage, the thread programs and the caching HTTP proxy;
and of the first semester the reversing copy of folders and the datagram echo.

## 1. Inventory

| Part of the repository | What it does | State it owns | Concurrency |
| --- | --- | --- | --- |
| `semestr2/Task2/Task2_4/mutex.c` | mutex from compare-and-swap and futex; two counting threads | the lock word, the counter | two threads and main |
| `semestr2/Task2/Task2_4/spinlock.c` | spinlock from compare-and-swap; two counting threads | the lock word, the counter | two threads and main |
| `semestr2/Task2/Task2_2/{mutex,spin-lock,semafor,usleep}` | bounded FIFO queue behind one lock; writer, reader, monitor | linked list, counters, heap | three threads and main |
| `semestr2/Task2/Task2_2/cond-var` | the queue with a condition variable and a turn flag | the same, and `shared_data` | three threads and main |
| `semestr2/Task2/Task2_2/semafor/shared-proc-*.c` | the queue between two processes made with `clone` | the same | two processes |
| `semestr2/Task2/Task2_1` | the queue without synchronisation | the same | three threads |
| `semestr2/Task2/Task2_3` | a list whose nodes carry their own lock; scanners and swappers | the list, global counters | seven threads |
| `semestr2/Task3` | caching HTTP proxy, one thread per client | cache list, semaphore, sockets | acceptor and handlers |
| `semestr2/Task1/Task1_7` | user-level threads on `swapcontext` | thread table, current thread | cooperative, and a checking pthread |
| `semestr2/Task1/Task1_6` | threads made with `clone` | stack and result of a thread | parent and child |
| `semestr2/Task1/Task1_1` to `Task1_5` | creating, joining, detaching and cancelling threads; signal masks | threads, returned blocks | main and a few threads |
| `semestr1/Task3_1` | reversing files and folders | files, name buffers | other users of the files |
| `semestr1/Task3_2` | file commands chosen by program name | files | none |
| `semestr1/Task4`, `Task5_1` | environment, heap, stack and fork demonstrations | none to speak of | parent and child |
| `semestr1/Task6_1` | stream and datagram echo servers and clients | sockets | a process per client |

## 2. Modules

The programs do not talk to each other, so there is one specification per
program.  What they have in common is shared the way the code shares it: the
four locked queues are made of the same steps, and two abstract specifications
say what a lock and what a queue promise.

| Module | Models | State and steps |
| --- | --- | --- |
| `AtomicCounter` | what a lock promises its users | a counter that threads increment atomically |
| `CounterThreads` | what `mutex.c` and `spinlock.c` of `Task2_4` have in common | main and the two counting threads; one step per load, store, creation and join |
| `FutexMutex` | `Task2_4/mutex.c` | the lock word, the sleepers of the futex; one step per compare-and-swap and futex call |
| `CasSpinlock` | `Task2_4/spinlock.c` | the same without the futex |
| `BoundedFifo` | what a queue promises its writer and reader | a bounded sequence, `Put`, `Get`, `Use`, `Close` |
| `QueueSteps` | the queue of `Task2_2` and its threads | list nodes as addresses that `malloc` hands out again, `first`, `last`, `count`; one step per access that another thread can observe |
| `MutexQueue`, `SpinQueue`, `SleepQueue`, `SemQueue` | the four locked variants | each composes the steps in the order of its own file; `SemQueue` adds the semaphore's value, its waiter count and its sleepers |
| `CondvarQueue` | the variant with a condition variable | adds `shared_data` and the threads asleep in `pthread_cond_wait` |
| `RaceQueue` | `Task2_1`, the queue with no lock | one step per load or store of `*q` |
| `Storage` | the three programs of `Task2_3` | which of the three runs, a lock per node; scanners lock two nodes at a time, swappers three |
| `Proxy` | `Task3` | the accept loop, the handlers, the one `ctx` they all point to, descriptors, request buffers, cache list, its mutex, the semaphore |
| `UThread` | `Task1_7` | the table of contexts, the strand that runs, the checker |
| `ThreadDemos` | `Task1_1` to `Task1_4` and `Task1_6` | which program runs, main's next call, the threads and what the system keeps of them, up to `limit` |
| `ReverseTree` | `semestr1/Task3_1` | the file system as a map from paths, the calls of `fill_folder` as a stack, the name buffers, the file being copied; one step per argument, entry and block |
| `UdpEcho` | `udp_server.c`, `udp_client.c` of `semestr1/Task6_1` | the server's socket, its one `client_addr` and buffer, the clients' sockets; one step per `recvfrom` and `sendto` |
| `MCLocks` | the two locks, and the queue with none | chooses one of the three programs in its initial state (`program`) |
| `MCThreads`, `MCSemester1` | the programs of `Task1`; those of the first semester | extend the two modules and choose one of the programs in their initial state (`task`); the state of the other stands still; `MCSemester1` holds the folders and command lines |
| `MCQueues` | the first three locked variants side by side | chooses one of them in its initial state |
| `MCProxy`, `MCStorage` | | symmetry and string lengths for TLC |
| `*Proofs` | | theorems; those about the programs of `MCThreads` extend that module, the others extend the specifications they are about |

Local variables and program counters are variables named after the code's
(`wpc`, `rpc`, `mpc` for writer, reader and monitor).  Definitions that only
exist as wrong versions of a step (`...Blind`, `...KeepsLock`, `...OffByOne` and
the like) stand before the step they distort and are used by no specification;
they serve to show that the properties notice such a slip.

### Reading the code

* Threads are sequentially consistent.  The Makefile of `Task2_1` builds without
  optimisation (`-g -Wall`), so its racing accesses happen in program order; the
  locks elsewhere order theirs.  A store buffer is not modelled.
* Some files do not compile as committed: a stray line in `Task2_1/queue.h`,
  `thread_mutexattr_t` in the mutex queue, `enum { SEM_FAILED = -1; };` in the
  semaphore queue, `bool status_err == false;` in point b of `Task1_1`,
  `COUNT_THREAD` undeclared in point d (taken from b), a missing semicolon in
  point c of `Task1_2`, `retval` for `ret_val` in point a of `Task1_4`, and
  `munmap()` and `if()` without arguments in `Task1_6`.  They are modelled as if
  that slip were mended, and nothing else is changed; what the last two are meant
  to do cannot be told, and they are read as not there, so that no stack of
  `Task1_6` is ever unmapped.
* Texts for the terminal, CPU affinity, `sched_yield` and statistics that are
  only printed are left out, except where a property is about them
  (`PrintedTotal`, `PrintedStatsConsistent`).
* `malloc` may return any free address, the one just freed included.
* In `SemQueue` the semaphore is glibc's: `sem_post` adds the permit and sees the
  count of waiters in one step and wakes a sleeper in another, or nobody when the
  count is zero; `sem_init` sets that count to zero.  The monitor is started
  before `init_sem`, so it may be waiting at that moment (`early`, see 4).
* In `Proxy` a request stands for its own hash, a response is a sequence of
  parts (one per `read`), and `Crash` is everything that kills the process: a
  request without a host, `SIGPIPE`, an uninitialised pointer, a destroyed list.
  `Init` is the state in which `run_proxy` calls `accept_new_client`: the failures
  of its set-up come before, and what follows the call is never reached, because
  nothing ends the accept loop but `exit`.
* In `Storage` no action moves a node, because no call of `swap_nodes` is left
  in the code (see 4).
* In `UThread` the flags `is_running` and `is_finish` are bytes that nothing sets
  before they are compared, so they hold the 0x7f `create_stack` fills the stack
  with.  As a `bool` that is neither true nor false; compilers test `is_finish ==
  true` for not being zero, at every level of optimisation, and `is_running ==
  false` by flipping the lowest bit and testing for not being zero, or by
  comparing with zero (`build`).
* In `ThreadDemos` a call fails where it can as it is used: creating a thread
  beyond `limit`, `malloc`, `clone`, cancelling a thread that has ended.  Joining
  a thread of one's own and detaching oneself do not fail.  `sleep` orders nothing.
  The error returns behind calls that do not fail are left out.
* In `ReverseTree` memory from `malloc` reads as zeros or not (`fresh`), because
  `strncpy` leaves the terminator out.  Paths stay within their buffers, which is
  more than the code sees to: `run` allocates `max_size` bytes for each of its two
  (`main.c:311-312`), the length of an argument, with no room for the `./` or the
  folder in front of the name nor for a terminator, so every command line writes
  past the end of `path_to_folder`; the model reads the buffers as long enough.  Names
  are shorter than what `memset` clears.  What is behind the slash of `run`'s
  `path_to_folder` is all that is kept of it, so the folders the arguments lie in
  have names of one length.  Every path lies in a folder, no name is that of `.` or
  `..`, and `mkdir` refuses those two.  The folder just made may be the one that is
  read: a name that reads the same both ways, of an argument that did not exist.
  stdio may have read ahead, so a block is
  what the file holds or held when its size was taken.  Others append to the file
  being copied, cut it short or overwrite a byte.  A file that was overwritten within
  the measured size, or cut below it and then appended to, no longer holds the bytes
  that were measured (`kept`), and its copy is not recorded in `copied`; nor is an
  earlier copy that others changed.
* `UdpEcho` is on one host: datagrams are dropped, by a full queue or because the
  server is not there, and neither duplicated nor reordered.  A client whose
  `sendto` or `recvfrom` fails exits (`Exit`), and an answer that comes later is
  lost; it is not followed by another on its port.  `Kill` is also the server's own
  exit when one of its calls fails.

## 3. What is checked

| Run | Properties | Instance | Shows |
| --- | --- | --- | --- |
| `locks_and_race` | `MutualExclusion`, `NoLostWakeup`, `PrintedTotal`, `ImplementsAtomicCounter`, `LocksTerminate` | mutex and spinlock programs; 2 threads, 4 iterations | the window between freeing the word and `FUTEX_WAKE` strands nobody, no increment is lost, and main prints the total |
| | `CountInRange`, `NeverGoesBack` | the queue without a lock; capacity 2, 4 values, 4 addresses | the assertions survive lost updates of `count`; values are lost, never reordered |
| `locked_queues` | `AssertionsHold`, `NoLeak`, `NoTouchAfterFree`, `LockHeldInside`, `ImplementsFifo` | mutex, spinlock and usleep programs; capacity 2, 4 values, 4 addresses | a stale `last` and a `tmp` read after the unlock do no harm; every early return gives the lock back |
| `sem_queue` | `PrintedStatsConsistent`, `ImplementsFifo`, `LockReleased` | capacity 2, 3 values, 3 addresses, 3 users | the monitor's three counters belong together, the order is kept and the semaphore given back, also when the monitor waited before `sem_init` |
| `condvar_queue` | `TurnMatchesQueue`, `NeverBothAsleep`, `ImplementsSlot`, `EveryValueArrives` | capacity 2, 3 values, 2 spurious wake-ups | one signal on one condition variable suffices, because the turns make the queue a one-place buffer |
| `proxy` | `OneRecordPerRequest`, `CacheOnlyGrows`, `AtMostSlotsThreads`, `CacheLockInside` | 2 clients, 1 page with a zero byte, 2 slots, every failure | search and append in `push_record` are one critical section; the duplicate's early return unlocks; no slot comes back early or twice |
| `storage` | `WaitsOnlyForward`, `PairsCounted`, `ThreeNodesToSwap`, `SomePassEnds` | mutex, spinlock and read-write lock; 5 nodes, 2 scanners, 2 swappers | locks are taken in list order, so nobody blocks for good, and a walk ends on three nodes |
| `threads` | `EveryStrandInOneSlot`, `FaultsComeFromChecker`, `UThreadEnds` | `Task1_7`: 3 threads of 5 rounds, as in the source | see below |
| | `EveryThreadRuns`, `NothingLeftBehind`, `DetachedAreGivenBack`, `DemoEnds` | the 15 demonstrations; up to 5 threads, every limit from 1 to 5 | threads that are waited for have run; what is joined, detached or freed is given back; what is not runs into the limit; a cancelled loop ends |
| `semester1` | `MirrorsFolder`, `ReversesFile` | 4 command lines, folders two deep, files of 0, 2 and 5 bytes in blocks of 2, every order of `readdir`, one change of a file | a copy reported complete is the mirror image, a finished file is reversed, whatever happens to its source |
| | `AnswerIsEcho`, `EveryRequestAnswered` | 3 clients, a queue of 2, one death of the server | an answer is the client's own, and fails to come only if a datagram was lost or the client gave up |

The properties of `Task1_7` say what is left of it.  `main`'s first `schedule()`
saves `main` over the context of thread 0, so the three functions are called from
the two remaining stacks, and still no context is mixed up
(`EveryStrandInOneSlot`).  The checker finds every function finished at its first
look (see `uthread_finish` in 4) and clears the entries and the count that
`schedule()` follows and divides by.  `FaultsComeFromChecker` says that this is the
only way to a fault: the strands by themselves, with N - 1 stacks for N functions,
never meet a null entry.  And the process ends, by a fault or by its own return
(`UThreadEnds`): a function that has finished sleeps without yielding until the
checker stops, and what saves main from waiting for ever is that the checker does
not wait for anybody.

### Bounds

* Two iterations of a lock are needed for a release to race with the next
  acquisition of the same thread; the run uses four.
* A queue of capacity two is empty, partly filled and full; one or two values
  more than the capacity make the list wrap round through reused addresses.  The
  semaphore queue has three addresses: with four, and the steps of its semaphore,
  the run would take too long.
  `MaxVal` ends the writer's loop, which is endless in the code; `MaxSpurious`
  bounds spurious returns.  Addresses are symmetric in `locked_queues` and
  clients in `proxy`; both runs check safety only, where that is sound.
* The proxy's interesting cases need two handlers at once (duplicates, the
  overwritten `ctx`), or one slot and more clients than slots (`proxy_wedged`).
  `MAX_USERS_COUNT` is 10 in the code; besides the semaphore's start value it
  only sizes the backlog of `listen`, which the model leaves unbounded.  With two
  clients and two slots `proxy` never waits for a slot, so `AtMostSlotsThreads` is
  checked there for slots given back early or twice; that it holds when clients
  wait for slots is left to its proof, for every number of both.
* In the storage the random index is any value the code can draw; five
  nodes let two scanners and two swappers meet, overtake and queue up.
* `limit` is the number of threads the system can keep, thousands in truth; what
  matters is whether the limit is met before, while or after the threads end.
* Blocks of 2 bytes (256 in the code) make files of no block, of one whole block,
  and of two followed by a short one.  Three clients and a queue of two let a datagram be
  dropped while two wait.
* `CHECK_DEADLOCK FALSE` is set for the proxy alone: its clients may stop
  asking, and the process may end.

### Fairness

Weak fairness of each thread's steps, and of `main`'s, stands for a scheduler
that runs every runnable thread.  No lock is assumed to be fair: waiting for one
is a disabled step, and weak fairness promises nothing to a thread that is
overtaken again and again.  `LocksTerminate` holds because the loops of the two
counting threads end; in the queues, where they do not, `LockReleased` speaks of
the holder alone.  `EveryValueArrives` needs no fair lock either, because the turns
alternate.  `Storage` assumes only `WF_vars(Next)`, that the program as a whole
does not stop, and `SomePassEnds` says that somebody gets through, not who.  In
`threads` main and each thread of a demonstration are run (`DemoEnds`), as are, in
Task1_7, the one kernel thread all strands share and the checker (`UThreadEnds`).  In `semester1` the server is run, and a client whose answer
has come (`EveryRequestAnswered`); nobody has to type, and nobody has to die.  The
other runs check safety and assume no fairness.

## 4. Where the code and its documents disagree

These runs end in a counterexample.  Each property states what a sentence or a
message of the repository says.

| Run | Property | What happens |
| --- | --- | --- |
| `proxy_wedged` | `AcceptLoopNotWedged` | an answer from the cache returns without `sem_post`; with the slots used up the accept loop waits for ever |
| `proxy_mixed` | `ClientGetsItsResponse` | all handlers get the address of the same `ctx`, and one serves another's client |
| `storage_swap` | `CountedSwapMovesNodes` | swaps are counted and none is made |
| `uthread_finish` | `AllFunctionsFinish` | the checker prints `finish thread work` for every function and removes it, at its first look, because `is_finish` starts as 0x7f (`uthread_create.c:211`) |

What else the models contain, and a reader of the code should know, although no
run is devoted to it:

* `RaceQueue` includes the loss of a value: the reader loads `first->next` as
  NULL, the writer appends, and the reader's store of `first` drops the new node
  (`Task2_1/queue.c:116`); the reader then prints ERROR.
* The monitor of the semaphore queue may call `sem_wait` before `sem_init`
  (`queue-semafor.c:129`) and then sleep for ever; as the count of waiters is wrong
  from then on, so may the writer or the reader (`StoppedByEarlyWait`).
* When the reader cannot be created, main tears the queue down under the running
  writer, which then touches what was freed (`queue-threads-mutex.c:105`);
  `NoTouchAfterFree` leaves these behaviours out.
* A read error ends the proxy's response loop like the end of the response does,
  and the part that came is cached as the whole (`proxy.c:102`, `ResponseEnds`).
* `strncpy` cuts a cached body at its first zero byte (`cache_list.h:44`,
  `StrnCpy`).
* The accept loop itself reads the request, so that a client that connects and
  says nothing keeps the others waiting (`proxy.c:146`, `ReadRequest`).
* `find_decreasing` of `main.c` and `spinlock.c` compares with `<` (`Counts`);
  with the strings of `main.c`, all of one length, the count comes out right, with
  those of `spinlock.c` it does not, and `PairsCounted` leaves it out.
* Two requests with the same 64-bit hash would share a cache record
  (`cache_list.h:22`); the model's requests are their own hashes.
* A failed `mmap` returns `MAP_FAILED`, not the NULL `uthread_create` tests for, and
  `memset` writes through it (`uthread_create.c:209`).
* A thread of point b of `Task1_2` whose `malloc` failed returns NULL, which main
  reads through (`UseResult`).
* The cleanup handler of point c of `Task1_4` gets `arg`, which is NULL, and frees
  that; the string it is meant for, as the task's README asks, is lost.
* Point d of `Task1_1` keeps the last identifier only, so the other threads may be
  cut off when main returns.
* `udp_client.c:36` offers `'q' to quit`; a q is sent like any line, and at the end
  of the input the client sends the last answer again, for ever (`Request`).
* `Task3_1` reports success for a folder of which a part failed, or which does not
  exist (`FillFails`), and for a copy cut short by a full disk (`ReadBlock`).  Its
  buffers carry the tail of a longer argument over to a shorter one, and what they
  hold before a later argument with a slash (`Argument`).
* The stream server binds its socket twice; the second `bind` fails, and it ends
  (`server.c:69`).

## 5. What is proved

All theorems are checked by TLAPS for every value of the constants.  Every
safety property and action property of the passing runs is proved; what is left
to TLC is liveness.

| Module | Theorems | For every |
| --- | --- | --- |
| `LockRaceProofs` | `LocksExclude`, `NoWakeupIsLost`, `PrintsTheTotal`, `LocksRefineAtomicCounter` | number of iterations, both locks |
| | `AssertionsNeverFail`, `ValuesOnlyRise` | capacity, number of values, set of addresses |
| `QueueProofs` | `QueuesKeepAssertions`, `QueuesLeakNothing`, `QueuesTouchNothingFreed`, `QueuesGiveLockBack`, `QueuesDeliverInOrder`, `QueuesAreFifo` | capacity, number of values, set of addresses; the four locked queues (`AnyQueue`) |
| | `SemPrintsConsistentStats` | the same, the semaphore queue |
| `CondvarEchoProofs` | `FlagMatchesList`, `OneSignalIsEnough`, `CondvarSafe`, `CondvarIsSlot` | the same, and number of spurious wake-ups |
| | `AnswersAreEchoes` | set of clients, lines, queue length, number of deaths |
| `StorageProofs` | `LocksInListOrder`, `WalkEndsOnThreeNodes`, `ScannersCountPairs` | length of the list, lengths of the strings, set of swappers, the three programs |
| `ProxyProofs` | `CacheHasNoDuplicates`, `PushUnlocks`, `SemaphoreBoundsHandlers`, `AppendsLoseNothing` | finite set of clients, set of requests, number of parts and slots, set of faults |
| `ThreadProofs` | `StrandsKeptOnce`, `OnlyCheckerFaults` | number of user-level threads and rounds, both readings of the flags |
| | `JoinedThreadsHaveRun`, `DemosLeaveNothing`, `DetachedThreadsEnd` | number of threads of a demonstration, limit of the system |
| `MirrorProofs` | `CopiesAreReversed`, `FoldersAreMirrored` | file system, command line, size of a block, number of changes by others |

The assumptions are named in the modules that declare the constants.  Sizes and
bounds are naturals, positive where the code's are (`CountAssumption`,
`MaxCountAssumption`, `SizesAssumption`, `DemoSizesAssumption`, ...); `Null` is no
address and `Nobody` no thread (`NullAssumption`, `NobodyAssumption`); the list of
the storage is longer than what `number_random_node` leaves out, and the nodes of
`main.c` all hold strings of one length, as its initialisation makes them
(`StorageAssumption`, `SameStringAssumption`); names are made of characters, paths
of names, and files of numbers, what has a path lies in a folder, and the command
lines are those of section 2 (`TreeAssumption`).

None of these properties is inductive by itself.  The inductive invariants:

* **Locks.**  `Inductive` in `CounterThreads` adds to mutual exclusion that the
  word says locked while somebody is inside, that the counter equals the
  increments done, and that the value loaded by a thread inside is current.
  Every step then preserves it, and maps to an atomic increment, the start of a
  thread, or nothing.
* **Queues.**  `QueueInv` in `QueueSteps` has four parts: `LockInv` (who is
  between lock and unlock holds the lock, and `count` is in range), `ListInv`
  (the pointers spell out the history variable `chain`, whose length differs
  from `count` by one between the two assignments), `HeapInv` (each allocated
  node has one owner) and `ValueInv` (values are consecutive from the reader's
  hand through the list to the writer).  The last three hold until main tears
  the queue down.  The argument is made once, step by step; a variant only has to
  be shown to consist of those steps.  The refinement maps the list to a sequence:
  linking is `Put`, unlinking `Get`, the rest stutters.
* **Semaphore.**  `StatsInv` keeps the monitor's snapshot current while it holds
  the semaphore.
* **Condition variable.**  `CondInv`: a thread sleeps only while it is not its turn
  or the signal is about to be sent, and the flag and the list agree except between the two assignments of the
  holder of the mutex (`CTurnInv`).  So the list has at most one node
  (`CListInv`), the sleeper that the one signal reaches is the one whose turn it
  is, and the program is a one-place buffer whatever `max_count` is.
* **No lock.**  `CountInv` bounds what each thread has loaded and tested: the
  writer alone raises `count`, so what it saw below the capacity stays below it,
  whatever stale value the reader stores; and the other way round.  `RaceInv`
  holds until an access goes to NULL or to freed memory: values rise along `next`
  (`ChainInv`), nobody but the writer knows a node that is not linked
  (`WriterInv`), and the first node is newer than the last value read
  (`ReaderInv`), so a stale pointer loses values and never brings an old one back.
* **Storage.**  `Inductive` says which nodes each thread holds at each of its steps:
  the lock it is about to take is always further down the list than those it has,
  and the walk of a swapper never gets past the third node from the end.
  `Counting` says that a scanner's counter is the number of pairs up to the node it
  is at; it needs the list's order to stay, which it does because nothing swaps.
* **Proxy.**  `ProxyInv`: a handler that found nothing in its search still holds the
  mutex, so the record it appends is new (`CacheInv`); the value of the semaphore,
  the handlers that run and the thread about to be created never exceed the
  slots (`SlotsInv`).  The first is also why an append only extends the list.
* **User-level threads.**  `UInv`: a strand that does not run is about to return
  from `schedule()` or has not started (`StrandInv`), in `schedule()` the running
  strand belongs to the entry it will be saved in (`SlotInv`), and until the checker
  has removed a thread it is in its loop and has not zeroed the count, every entry
  is set once main has created the threads, and so are the pointers `schedule()`
  has taken from the table (`FaultInv`).
* **Thread demonstrations.**  `DemoInv` says at which step main knows which
  identifiers (`JoinInv`), who owns a returned block (`BlockInv`), and that a
  detached thread is given back when it ends (`DetachInv`).
* **Datagram echo.**  The client compares nothing: it takes the next datagram for
  its answer.  `EchoInductive` says why that is right: of a client there is at most one
  datagram anywhere, in the server's queue, in its hands or in the client's socket,
  it is the last request, and the client is waiting for it or has exited.
* **Reversing copy.**  `TreeInv`: what has been read of a file stands reversed at
  the end of its copy, whose length is right from the first block on; the file
  still begins as it did when it was measured, as far as it goes (`CopyInv`); and
  the copy is another file, because no call of `fill_folder` that has anything to
  copy reads the folder it fills (`CallInv`), `mkdir` having failed otherwise.
  `TreeProofs` shows that every step keeps it.
* **Mirrored folders.**  `MirrorsFolder` compares two whole trees when the recursion
  is over; until then the folders above the one being filled are half copied.
  `MirrorInv` says what holds on the way, as long as no
  `fill_folder` has failed and `run` got the names right (`AsMeant`).  Each path
  below a folder or its copy has its mirror image on the disk, or is pending: some
  call on the stack has yet to come to the entry it is below (`PairedInv`).  An
  entry that is taken up either gets its image at once or, as a folder, hands what
  is below it to the call it starts; what is created is the image of what was read
  (`ImageInv`, which needs the buffers to be clear, `BuffersInv`).  When `run`
  returns OK the stack is empty, so nothing is pending.  `ShapeInv`, that every path
  lies in a folder, at every depth, takes the place of an induction over the tree:
  what is below a folder is below one of its entries, and below a path that is free
  there is nothing.  TLC checked `TreeInv`, `ShapeInv` and `MirrorInv` on the
  instance of `semester1` before they were proved (`MirrorProofs`).

## 6. What is only model-checked

* Liveness is out of the prover's reach: `LocksTerminate`, the fairness of
  `ImplementsAtomicCounter` (its safety part is `LocksRefineAtomicCounter`),
  `LockReleased`, `EveryValueArrives`, `SomePassEnds`, `UThreadEnds`, `DemoEnds` and
  `EveryRequestAnswered`.

## 7. Not modelled

* The stream server and client (`semestr1/Task6_1`): the server ends at its second
  `bind`, before it listens, so the rest of it is never reached.
* The queue between processes (`shared-proc-*.c`): its semaphore pointer is never
  set, and `sem_init` through it ends the program.
* `Task1_5`: main joins a thread it has not created (line 109), and nothing
  after that is defined.
* The file commands (`semestr1/Task3_2`): one system call each; what a model would
  show is the kernel's.
* `is_correct_len_folder` of `Task3_1`, which acts on names longer than a file
  system allows, and paths longer than the program's buffers.
* `my_thread_join` of `Task1_6`, which main never reaches.
* The fork demonstration (`Task5_1`), the semaphore try-out (`test.c`), the
  environment, heap and stack demonstrations (`semestr1/Task4`) and the hello-world
  programs (`semestr1/Task1`, `Task2`): no behaviour beyond single calls.
* The files CMake generated (`cmake-build-debug`), by far the larger part of the
  repository's lines: they are no code of the system.
