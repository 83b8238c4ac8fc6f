--------------------------- MODULE CounterThreads ----------------------------
(***************************************************************************)
(* What mutex.c and spinlock.c of semestr2/Task2/Task2_4 have in common: two *)
(* threads that lock, run ++counter and unlock, and main, which creates      *)
(* them, joins them and prints the counter.  FutexMutex and CasSpinlock add  *)
(* the lock.                                                                 *)
(*                                                                           *)
(* Every access to shared memory and every system call is a step of its own. *)
(* printf, set_cpu and sched_yield change no state kept here.                *)
(***************************************************************************)
EXTENDS Integers

CONSTANT COUNT_ITERATION    \* iterations of each thread (1000000, 100000)

ASSUME CountAssumption == COUNT_ITERATION \in Nat \ {0}

STATUS_LOCK   == 0
STATUS_UNLOCK == 1

T1 == "thread_1"
T2 == "thread_2"
Threads == {T1, T2}

VARIABLES lock,       \* the lock word
          counter,    \* the shared counter, a plain int
          pc,         \* pc[t]: the next step of thread t
          iteration,  \* iteration[t]: i, the loop variable of t
          reg,        \* reg[t]: the register ++counter loads the counter into
          main_pc,    \* the next step of main
          printed     \* what main printed, or NotPrinted

mainVars == <<main_pc, printed>>
counterVars == <<lock, counter, pc, iteration, reg, mainVars>>

NotPrinted == -1

Goto(t, label) == pc' = [pc EXCEPT ![t] = label]

(* main runs mutex_init or spinlock_init before it creates a thread.         *)
CounterInit ==
    /\ lock = STATUS_UNLOCK
    /\ counter = 0
    /\ pc = [t \in Threads |-> "unborn"]
    /\ iteration = [t \in Threads |-> 0]
    /\ reg = [t \in Threads |-> 0]
    /\ main_pc = "create_1"
    /\ printed = NotPrinted
-----------------------------------------------------------------------------
(* The body of the loop of thread_1 and thread_2: ++counter.                 *)

Load(t) ==
    /\ pc[t] = "load"
    /\ reg' = [reg EXCEPT ![t] = counter]
    /\ Goto(t, "store")
    /\ UNCHANGED <<lock, counter, iteration, mainVars>>

Store(t) ==
    /\ pc[t] = "store"
    /\ counter' = reg[t] + 1
    /\ Goto(t, "release")
    /\ UNCHANGED <<lock, iteration, reg, mainVars>>

\* The unlock has returned: ++i and the loop test.
AfterIteration(t) == IF iteration[t] + 1 < COUNT_ITERATION THEN "cas" ELSE "done"
EndIteration(t) ==
    /\ iteration' = [iteration EXCEPT ![t] = @ + 1]
    /\ Goto(t, AfterIteration(t))
-----------------------------------------------------------------------------
(* main.                                                                     *)

\* pthread_create for t: a failure of the first returns at once, a failure
\* of the second joins the first before it returns.
Create(t, here, ok, failed) ==
    /\ main_pc = here
    /\ \/ /\ Goto(t, "cas")
          /\ main_pc' = ok
       \/ /\ UNCHANGED pc
          /\ main_pc' = failed
    /\ UNCHANGED <<lock, counter, iteration, reg, printed>>

CreateThreads ==
    \/ Create(T1, "create_1", "create_2", "failed")
    \/ Create(T2, "create_2", "join_1", "join_only_1")

Join(t, here, then) == main_pc = here /\ pc[t] = "done" /\ main_pc' = then

PrintAfterFirstJoin ==
    /\ \/ Join(T1, "join_1", "returned") /\ printed' = counter
       \/ Join(T1, "join_only_1", "failed") /\ UNCHANGED printed
    /\ UNCHANGED <<lock, counter, pc, iteration, reg>>

JoinThreads ==
    /\ \/ Join(T1, "join_1", "join_2") /\ UNCHANGED printed
       \/ Join(T2, "join_2", "returned") /\ printed' = counter
       \/ Join(T1, "join_only_1", "failed") /\ UNCHANGED printed
    /\ UNCHANGED <<lock, counter, pc, iteration, reg>>

MainStep == CreateThreads \/ JoinThreads

\* The process is over; nothing runs any more.
Terminated ==
    /\ main_pc \in {"returned", "failed"}
    /\ UNCHANGED counterVars
-----------------------------------------------------------------------------
(* Properties.                                                               *)

InCriticalSection(t) == pc[t] \in {"load", "store", "release"}
Asleep == {t \in Threads : pc[t] = "asleep"}

(* Types of the variables as the model keeps them. *)
TypeOK ==
    /\ lock \in {STATUS_LOCK, STATUS_UNLOCK}
    /\ counter \in Nat
    /\ pc \in [Threads -> {"unborn", "cas", "wait", "asleep", "load", "store",
                           "release", "wake", "done"}]
    /\ iteration \in [Threads -> 0..COUNT_ITERATION]
    /\ reg \in [Threads -> Nat]
    /\ main_pc \in {"create_1", "create_2", "join_1", "join_2", "join_only_1",
                 "returned", "failed"}
    /\ printed \in Nat \cup {NotPrinted}

(* Between lock and unlock at most one thread runs, whatever the             *)
(* interleaving of the compare-and-swaps.                                    *)
MutualExclusion ==
    \A t, u \in Threads : InCriticalSection(t) /\ InCriticalSection(u) => t = u

(* mutex_unlock frees the word before it wakes: a thread may sleep on a free *)
(* mutex only while its waker is between the two, so no wake-up is lost.     *)
NoLostWakeup ==
    Asleep # {} /\ lock = STATUS_UNLOCK => \E t \in Threads : pc[t] = "wake"

(* The counter main prints after the joins counts every iteration of both    *)
(* threads, although ++counter is a separate load and store.                 *)
PrintedTotal ==
    printed # NotPrinted => printed = 2 * COUNT_ITERATION

(* Iterations whose ++counter has taken effect. *)
Effective(t) == iteration[t] + IF pc[t] \in {"release", "wake"} THEN 1 ELSE 0

(* The inductive strengthening of the invariants above: who holds the word,  *)
(* that the holder's register is fresh, that the counter is the sum of the   *)
(* effective iterations, and what main knows at each of its steps.           *)
Inductive ==
    /\ TypeOK
    /\ MutualExclusion
    /\ NoLostWakeup
    /\ \A t \in Threads : InCriticalSection(t) => lock = STATUS_LOCK
    /\ \A t \in Threads : pc[t] = "store" => reg[t] = counter
    /\ \A t \in Threads : iteration[t] < COUNT_ITERATION \/ pc[t] = "done"
    /\ \A t \in Threads : pc[t] = "done" => iteration[t] = COUNT_ITERATION
    /\ counter = Effective(T1) + Effective(T2)
    /\ main_pc = "create_1" => pc[T1] = "unborn"
    /\ main_pc \in {"create_1", "create_2"} => pc[T2] = "unborn"
    /\ main_pc \in {"join_2", "returned"} => pc[T1] = "done"
    /\ main_pc = "returned" => pc[T2] = "done"
    /\ printed # NotPrinted => main_pc = "returned" /\ printed = counter

Abstract == INSTANCE AtomicCounter WITH
    iter <- [t \in Threads |-> Effective(t)],
    started <- {t \in Threads : pc[t] # "unborn"}

(* The lock gives its users an atomic counter: each ++counter takes effect   *)
(* once, and every thread that was started completes its iterations.         *)
ImplementsAtomicCounter == Abstract!ASpec

(* No thread sleeps on the futex or spins for ever: main gets past its joins.*)
Termination == <>(main_pc \in {"returned", "failed"})
=============================================================================
