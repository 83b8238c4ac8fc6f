----------------------------- MODULE QueueSteps ------------------------------
(***************************************************************************)
(* The bounded queue of semestr2/Task2/Task2_2 and the steps its writer,     *)
(* reader, monitor and main are made of.  The variants with a mutex, a       *)
(* spinlock, a semaphore and a mutex with usleep have the same steps in      *)
(* slightly different orders: MutexQueue, SpinQueue, SemQueue and SleepQueue *)
(* compose them, each after its own source file.  The steps here are read    *)
(* from mutex/queue-mutex.c and mutex/queue-threads-mutex.c.                 *)
(*                                                                           *)
(* The list is kept at the level of pointers: nodes are addresses that       *)
(* malloc hands out and free takes back, so that an address can come back    *)
(* while somebody still holds it.  add_attempts and get_attempts are only    *)
(* printed and are left out.                                                 *)
(***************************************************************************)
EXTENDS Integers, Sequences

CONSTANTS Nodes,      \* addresses malloc can return
          Null,
          MaxCount,   \* q->max_count
          MaxVal      \* bound: the writer stops after MaxVal values

ASSUME NullAssumption == Null \notin Nodes
ASSUME MaxCountAssumption == MaxCount \in Nat \ {0}
ASSUME MaxValAssumption == MaxVal \in Nat

VARIABLES
    first, last, count, add_count, get_count,   \* *q
    next, val,                  \* the fields of every node
    used,                       \* addresses allocated and not freed
    holder,                     \* who holds the lock
    wpc, new, i,                \* writer: next step, local new, loop variable
    rpc, tmp, got, expected,    \* reader: next step and locals
    error,                      \* the reader has printed ERROR
    mpc, snap,                  \* monitor: next step, values it loaded
    main, cursor, stop_flag,    \* main: next step, local of queue_destroy
    fault,                      \* freed or NULL memory has been accessed
    chain                       \* history: the nodes linked and not unlinked

queueVars   == <<first, last, count, add_count, get_count>>
heapVars    == <<next, val, used>>
writerVars  == <<wpc, new, i>>
readerVars  == <<rpc, tmp, got, expected, error>>
monitorVars == <<mpc, snap>>
mainVars    == <<main, cursor, stop_flag>>
vars == <<queueVars, heapVars, holder, writerVars, readerVars, monitorVars,
          mainVars, fault, chain>>

NoVal == -1
NoSnap == [count |-> NoVal, add |-> NoVal, get |-> NoVal]

(* queue_init, called first by main; it has started the monitor.             *)
Init ==
    /\ first = Null /\ last = Null
    /\ count = 0 /\ add_count = 0 /\ get_count = 0
    /\ next = [n \in Nodes |-> Null]
    /\ val = [n \in Nodes |-> NoVal]
    /\ used = {}
    /\ holder = "uninit"
    /\ wpc = "unborn" /\ new = Null /\ i = 0
    /\ rpc = "unborn" /\ tmp = Null /\ got = NoVal /\ expected = 0
    /\ error = FALSE
    /\ mpc = "test" /\ snap = NoSnap
    /\ main = "init_lock" /\ cursor = Null /\ stop_flag = FALSE
    /\ fault = FALSE
    /\ chain = <<>>
-----------------------------------------------------------------------------
(* The writer: queue_add and the loop around it.                             *)

\* malloc and the initialisation of the node.
AddMalloc ==
    /\ wpc = "malloc"
    /\ i < MaxVal
    /\ \E n \in Nodes \ used :
          /\ used' = used \cup {n}
          /\ val' = [val EXCEPT ![n] = i]
          /\ next' = [next EXCEPT ![n] = Null]
          /\ new' = n
    /\ wpc' = "lock"
    /\ UNCHANGED <<queueVars, holder, i, readerVars, monitorVars, mainVars,
                   fault, chain>>

\* malloc returns NULL: the process aborts.
AddAbort ==
    /\ wpc = "malloc"
    /\ i < MaxVal
    /\ wpc' = "aborted"
    /\ UNCHANGED <<queueVars, heapVars, holder, new, i, readerVars,
                   monitorVars, mainVars, fault, chain>>

AddLock ==
    /\ wpc = "lock"
    /\ holder = "none"
    /\ holder' = "writer"
    /\ wpc' = "test"
    /\ UNCHANGED <<queueVars, heapVars, new, i, readerVars, monitorVars,
                   mainVars, fault, chain>>

AddTestOffByOne ==
    /\ wpc = "test"
    /\ wpc' = IF count > MaxCount THEN "full" ELSE "link"
    /\ UNCHANGED <<queueVars, heapVars, holder, new, i, readerVars,
                   monitorVars, mainVars, fault, chain>>

\* The assertion of queue_add is the invariant AssertionsHold.
AddTest ==
    /\ wpc = "test"
    /\ wpc' = IF count = MaxCount THEN "full" ELSE "link"
    /\ UNCHANGED <<queueVars, heapVars, holder, new, i, readerVars,
                   monitorVars, mainVars, fault, chain>>

AddLink ==
    /\ wpc = "link"
    /\ IF first = Null
       THEN /\ first' = new
            /\ last' = new
            /\ UNCHANGED <<next, fault>>
       ELSE /\ next' = [next EXCEPT ![last] = new]
            /\ last' = new
            /\ fault' = (fault \/ last \notin used)
            /\ UNCHANGED first
    /\ chain' = Append(chain, new)
    /\ wpc' = "count"
    /\ UNCHANGED <<count, add_count, get_count, val, used, holder, new, i,
                   readerVars, monitorVars, mainVars>>

AddCount ==
    /\ wpc = "count"
    /\ count' = count + 1
    /\ wpc' = "stat"
    /\ UNCHANGED <<first, last, add_count, get_count, heapVars, holder, new, i,
                   readerVars, monitorVars, mainVars, fault, chain>>

AddStat ==
    /\ wpc = "stat"
    /\ add_count' = add_count + 1
    /\ wpc' = "unlock"
    /\ UNCHANGED <<first, last, count, get_count, heapVars, holder, new, i,
                   readerVars, monitorVars, mainVars, fault, chain>>

\* queue_add returns 1 and the writer goes on to the next value.
AddUnlock ==
    /\ wpc = "unlock"
    /\ holder' = "none"
    /\ i' = i + 1
    /\ new' = Null
    /\ wpc' = "malloc"
    /\ UNCHANGED <<queueVars, heapVars, readerVars, monitorVars, mainVars,
                   fault, chain>>

\* The full branch of queue-mutex.c: unlock, then free, then return 0.
FullUnlock ==
    /\ wpc = "full"
    /\ holder' = "none"
    /\ wpc' = "full_free"
    /\ UNCHANGED <<queueVars, heapVars, new, i, readerVars, monitorVars,
                   mainVars, fault, chain>>

FullForget ==
    /\ wpc = "full_free"
    /\ new' = Null
    /\ wpc' = "malloc"
    /\ UNCHANGED <<queueVars, heapVars, holder, i, readerVars, monitorVars,
                   mainVars, fault, chain>>

FullFree ==
    /\ wpc = "full_free"
    /\ used' = used \ {new}
    /\ fault' = (fault \/ new \notin used)
    /\ new' = Null
    /\ wpc' = "malloc"
    /\ UNCHANGED <<queueVars, next, val, holder, i, readerVars, monitorVars,
                   mainVars, chain>>

\* The full branch of the other variants: free, then unlock, then return 0.
FullFreeLocked ==
    /\ wpc = "full"
    /\ used' = used \ {new}
    /\ fault' = (fault \/ new \notin used)
    /\ new' = Null
    /\ wpc' = "full_unlock"
    /\ UNCHANGED <<queueVars, next, val, holder, i, readerVars, monitorVars,
                   mainVars, chain>>

FullUnlockLast ==
    /\ wpc = "full_unlock"
    /\ holder' = "none"
    /\ wpc' = "malloc"
    /\ UNCHANGED <<queueVars, heapVars, new, i, readerVars, monitorVars,
                   mainVars, fault, chain>>
-----------------------------------------------------------------------------
(* The reader: queue_get and the loop around it.                             *)

GetLock ==
    /\ rpc = "lock"
    /\ holder = "none"
    /\ holder' = "reader"
    /\ rpc' = "test"
    /\ UNCHANGED <<queueVars, heapVars, writerVars, tmp, got, expected, error,
                   monitorVars, mainVars, fault, chain>>

\* The assertion of queue_get is the invariant AssertionsHold.
GetTest ==
    /\ rpc = "test"
    /\ rpc' = IF count = 0 THEN "empty" ELSE "unlink"
    /\ UNCHANGED <<queueVars, heapVars, holder, writerVars, tmp, got, expected,
                   error, monitorVars, mainVars, fault, chain>>

GetEmptyKeepsLock ==
    /\ rpc = "empty"
    /\ rpc' = "lock"
    /\ UNCHANGED <<queueVars, heapVars, holder, writerVars, tmp, got, expected,
                   error, monitorVars, mainVars, fault, chain>>

GetEmpty ==
    /\ rpc = "empty"
    /\ holder' = "none"
    /\ rpc' = "lock"
    /\ UNCHANGED <<queueVars, heapVars, writerVars, tmp, got, expected, error,
                   monitorVars, mainVars, fault, chain>>

\* tmp = q->first; q->first = q->first->next, which needs q->first to point
\* to a live node.
GetUnlink ==
    /\ rpc = "unlink"
    /\ tmp' = first
    /\ first' = IF first \in Nodes THEN next[first] ELSE Null
    /\ fault' = (fault \/ first \notin used)
    /\ chain' = IF chain = <<>> THEN chain ELSE Tail(chain)
    /\ rpc' = "count"
    /\ UNCHANGED <<last, count, add_count, get_count, heapVars, holder,
                   writerVars, got, expected, error, monitorVars, mainVars>>

GetCount ==
    /\ rpc = "count"
    /\ count' = count - 1
    /\ rpc' = "stat"
    /\ UNCHANGED <<first, last, add_count, get_count, heapVars, holder,
                   writerVars, tmp, got, expected, error, monitorVars,
                   mainVars, fault, chain>>

GetStat ==
    /\ rpc = "stat"
    /\ get_count' = get_count + 1
    /\ rpc' = "unlock"
    /\ UNCHANGED <<first, last, count, add_count, heapVars, holder, writerVars,
                   tmp, got, expected, error, monitorVars, mainVars, fault,
                   chain>>

GetUnlockFreesEarly ==
    /\ rpc = "unlock"
    /\ holder' = "none"
    /\ used' = used \ {tmp}
    /\ rpc' = "read"
    /\ UNCHANGED <<queueVars, next, val, writerVars, tmp, got, expected, error,
                   monitorVars, mainVars, fault, chain>>

GetUnlock ==
    /\ rpc = "unlock"
    /\ holder' = "none"
    /\ rpc' = "read"
    /\ UNCHANGED <<queueVars, heapVars, writerVars, tmp, got, expected, error,
                   monitorVars, mainVars, fault, chain>>

\* *val = tmp->val, after the lock is released.
GetRead ==
    /\ rpc = "read"
    /\ got' = IF tmp \in Nodes THEN val[tmp] ELSE NoVal
    /\ fault' = (fault \/ tmp \notin used)
    /\ rpc' = "free"
    /\ UNCHANGED <<queueVars, heapVars, holder, writerVars, tmp, expected,
                   error, monitorVars, mainVars, chain>>

GetFree ==
    /\ rpc = "free"
    /\ used' = used \ {tmp}
    /\ fault' = (fault \/ tmp \notin used)
    /\ tmp' = Null
    /\ rpc' = "check"
    /\ UNCHANGED <<queueVars, next, val, holder, writerVars, got, expected,
                   error, monitorVars, mainVars, chain>>

\* The reader compares the value with the one it expects.
ReaderCheck ==
    /\ rpc = "check"
    /\ error' = (error \/ expected # got)
    /\ expected' = got + 1
    /\ got' = NoVal
    /\ rpc' = "lock"
    /\ UNCHANGED <<queueVars, heapVars, holder, writerVars, tmp, monitorVars,
                   mainVars, fault, chain>>
-----------------------------------------------------------------------------
(* The monitor: the loads of queue_print_stats and the loop around it.       *)

MonitorRest == <<queueVars, heapVars, holder, writerVars, readerVars, mainVars,
                 fault, chain>>

\* The loop test of qmonitor; into is the first step of queue_print_stats.
MonitorTest(into) ==
    /\ mpc = "test"
    /\ mpc' = IF stop_flag THEN "exit" ELSE into
    /\ UNCHANGED <<snap, MonitorRest>>

MonitorCount ==
    /\ mpc = "count"
    /\ snap' = [snap EXCEPT !.count = count]
    /\ mpc' = "add"
    /\ UNCHANGED MonitorRest

MonitorAdd ==
    /\ mpc = "add"
    /\ snap' = [snap EXCEPT !.add = add_count]
    /\ mpc' = "get"
    /\ UNCHANGED MonitorRest

MonitorGet ==
    /\ mpc = "get"
    /\ snap' = [snap EXCEPT !.get = get_count]
    /\ mpc' = "print"
    /\ UNCHANGED MonitorRest

\* printf; then is the step after it: sleep(1) and the loop test, or the
\* release of the lock where queue_print_stats takes one.
MonitorPrint(then) ==
    /\ mpc = "print"
    /\ snap' = NoSnap
    /\ mpc' = then
    /\ UNCHANGED MonitorRest
-----------------------------------------------------------------------------
(* main, after queue_init.                                                   *)

MainRest == <<queueVars, next, val, readerVars, monitorVars, new, i, chain>>

InitLock ==
    /\ main = "init_lock"
    /\ holder' = "none"
    /\ main' = "create_writer"
    /\ UNCHANGED <<MainRest, used, wpc, cursor, stop_flag, fault>>

\* A failure of either pthread_create leads to free_resources, the second
\* one while the writer runs.
CreateWriter ==
    /\ main = "create_writer"
    /\ \/ /\ wpc' = "malloc"
          /\ main' = "create_reader"
       \/ /\ main' = "destroy"
          /\ UNCHANGED wpc
    /\ UNCHANGED <<MainRest, used, holder, cursor, stop_flag, fault>>

\* Once both threads exist main joins them; neither returns.
CreateReader ==
    /\ main = "create_reader"
    /\ \/ /\ rpc' = "lock"
          /\ main' = "join"
       \/ /\ main' = "destroy"
          /\ UNCHANGED rpc
    /\ UNCHANGED <<queueVars, heapVars, monitorVars, writerVars, chain, tmp,
                   got, expected, error, holder, cursor, stop_flag, fault>>

\* free_resources: the lock is destroyed and queue_destroy sets stop_flag.  A
\* mutex destroyed while it is free fails every later call, which the callers
\* do not test; only the writer can still be making them, so that with or
\* without the lock it runs the same steps alone.
DestroyBegin ==
    /\ main = "destroy"
    /\ stop_flag' = TRUE
    /\ main' = "join_monitor"
    /\ UNCHANGED <<MainRest, used, wpc, holder, cursor, fault>>

DestroyJoin(then) ==
    /\ main = "join_monitor"
    /\ mpc = "exit"
    /\ cursor' = first
    /\ main' = then
    /\ UNCHANGED <<MainRest, used, wpc, holder, stop_flag, fault>>

\* One turn of the loop that frees the list.
DestroyNode ==
    /\ main = "free_nodes"
    /\ cursor # Null
    /\ used' = used \ {cursor}
    /\ cursor' = next[cursor]
    /\ fault' = (fault \/ cursor \notin used)
    /\ UNCHANGED <<MainRest, main, wpc, holder, stop_flag>>

\* main returns, or joins the writer, which never returns.
DestroyEnd ==
    /\ main = "free_nodes"
    /\ cursor = Null
    /\ main' = IF wpc = "unborn" THEN "exited" ELSE "join_writer"
    /\ UNCHANGED <<MainRest, used, wpc, holder, cursor, stop_flag, fault>>

Alive == wpc # "aborted" /\ main # "exited"

\* The process has ended, or the writer has reached the bound.
Finished ==
    /\ ~Alive \/ (wpc = "malloc" /\ i = MaxVal)
    /\ UNCHANGED vars
-----------------------------------------------------------------------------
(* Properties of every variant.                                              *)

InChain == {chain[k] : k \in 1..Len(chain)}

\* FALSE from the moment main tears the queue down.
Open == main \in {"init_lock", "create_writer", "create_reader", "join"}

(* The two assertions of queue_add and queue_get, evaluated under the lock:  *)
(* count never leaves 0..max_count although link and count are two steps.    *)
AssertionsHold ==
    /\ wpc = "test" => count <= MaxCount
    /\ rpc = "test" => count >= 0

(* The reader never prints ERROR: it sees every value, once and in order,    *)
(* although it reads tmp->val after it has released the lock.                *)
NoReaderError == ~error

(* Every allocated node is in the list, in the writer's hands before it is   *)
(* linked or in the reader's hands before it is freed: no path leaks.        *)
NoLeak ==
    Open => used = InChain \cup ({new, tmp} \ {Null})

(* No freed node and no NULL is dereferenced or freed, the stale q->last of  *)
(* an emptied queue included, unless main tears the queue down under a       *)
(* running writer.                                                           *)
NoTouchAfterFree == fault => ~Open /\ wpc # "unborn"

(* Whoever takes the lock releases it, on every path of queue_add, queue_get *)
(* and queue_print_stats.                                                    *)
LockReleased ==
    \A t \in {"writer", "reader", "monitor"} :
        holder = t ~> holder # t \/ ~Alive

(* The statistics that queue_print_stats prints belong together, although    *)
(* the writer and the reader update count and their own counter in separate  *)
(* steps.  Only the semaphore variant, which prints under the lock, can and  *)
(* does promise this.                                                        *)
PrintedStatsConsistent ==
    mpc = "print" => snap.count = snap.add - snap.get

Linked == wpc \in {"count", "stat", "unlock"}
-----------------------------------------------------------------------------
(* The inductive invariant behind the safety properties.                     *)

WriterLocked == wpc \in {"test", "full", "full_unlock", "link", "count",
                         "stat", "unlock"}
ReaderLocked == rpc \in {"test", "empty", "unlink", "count", "stat", "unlock"}
(* Every path out of queue_add and queue_get gives the lock back: it is held *)
(* only by a thread that is still between its lock and its unlock, until the *)
(* process ends.                                                             *)
LockHeldInside ==
    Alive => /\ holder = "writer" => WriterLocked
             /\ holder = "reader" => ReaderLocked

Unlinked     == wpc \in {"lock", "test", "full", "full_free", "link"}
Holding      == rpc \in {"count", "stat", "unlock", "read", "free"}

(* Types of the variables of the queue, its threads and main. *)
TypeOK ==
    /\ {first, last, new, tmp, cursor} \subseteq Nodes \cup {Null}
    /\ {count, got} \subseteq Int
    /\ {add_count, get_count, i, expected} \subseteq Nat
    /\ next \in [Nodes -> Nodes \cup {Null}]
    /\ val \in [Nodes -> Int]
    /\ used \subseteq Nodes
    /\ chain \in Seq(Nodes)

(* The lock excludes, main creates the threads in order, and count stays in  *)
(* range; all this survives even queue_destroy.                              *)
LockInv ==
    /\ WriterLocked => holder = "writer"
    /\ ReaderLocked => holder = "reader"
    /\ main \in {"init_lock", "create_writer"} => wpc = "unborn"
    /\ main # "join" => rpc = "unborn"
    /\ count \in 0..MaxCount
    /\ wpc \in {"link", "count"} => count < MaxCount
    /\ rpc \in {"unlink", "count"} => count > 0
    /\ wpc = "unborn" => first = Null /\ cursor = Null
    /\ main \in {"create_reader", "join"} => wpc # "unborn"
    /\ Unlinked => new \in Nodes

(* The list: first, last and next spell out chain, which has count nodes     *)
(* except between a link and its count.                                      *)
ListInv ==
    /\ \A j, k \in 1..Len(chain) : chain[j] = chain[k] => j = k
    /\ first = IF chain = <<>> THEN Null ELSE chain[1]
    /\ chain # <<>> => last = chain[Len(chain)]
    /\ \A k \in 1..Len(chain) :
          next[chain[k]] = IF k = Len(chain) THEN Null ELSE chain[k + 1]
    /\ Len(chain) = count + (IF wpc = "count" THEN 1 ELSE 0)
                          - (IF rpc = "count" THEN 1 ELSE 0)
    /\ Linked => chain # <<>> /\ new = chain[Len(chain)]

(* Ownership: who holds which node.                                          *)
HeapInv ==
    /\ used = InChain \cup ({new, tmp} \ {Null})
    /\ Unlinked => new \notin InChain /\ next[new] = Null
    /\ ~Unlinked /\ ~Linked => new = Null
    /\ IF Holding THEN tmp \in Nodes \ InChain /\ tmp # new ELSE tmp = Null

\* Values the reader has unlinked.
Taken == IF Holding \/ rpc = "check" THEN expected + 1 ELSE expected

(* Values: consecutive from the reader's hand through the list to the writer.*)
ValueInv ==
    /\ Unlinked => val[new] = i
    /\ \A k \in 1..Len(chain) : val[chain[k]] = Taken + k - 1
    /\ Taken + Len(chain) = IF Linked THEN i + 1 ELSE i
    /\ rpc \in {"count", "stat", "unlock", "read"} => val[tmp] = expected
    /\ rpc \in {"free", "check"} => got = expected

QueueInv ==
    /\ TypeOK
    /\ LockInv
    /\ Open => ListInv /\ HeapInv /\ ValueInv
    /\ ~error
    /\ NoTouchAfterFree
-----------------------------------------------------------------------------
(* The abstract buffer the queue implements.                                 *)

Fifo == INSTANCE BoundedFifo WITH
    Capacity <- MaxCount,
    fifo <- [k \in 1..Len(chain) |-> val[chain[k]]],
    hand <- IF rpc \in {"count", "stat", "unlock", "read"} THEN val[tmp]
            ELSE IF rpc \in {"free", "check"} THEN got ELSE NoVal,
    sent <- IF Linked THEN i + 1 ELSE i,
    open <- Open

(* Until it is torn down the queue is a bounded first-in first-out buffer:   *)
(* linking a node is the Put, unlinking one the Get, and the value in the    *)
(* reader's hand does not change before the reader has used it.              *)
ImplementsFifo == Fifo!FSpec
=============================================================================
