---------------------------- MODULE AtomicCounter ----------------------------
(***************************************************************************)
(* What the two hand-made locks of semestr2/Task2/Task2_4 promise to the    *)
(* threads that use them: each ++counter takes effect exactly once and as   *)
(* if it were atomic, and every started thread completes its iterations.    *)
(***************************************************************************)
EXTENDS Naturals

CONSTANTS Threads,          \* the threads that increment the counter
          COUNT_ITERATION   \* increments each of them performs

VARIABLES counter,          \* the shared int
          iter,             \* iter[t]: increments of t that took effect
          started           \* the threads pthread_create has started

avars == <<counter, iter, started>>

AInit ==
    /\ counter = 0
    /\ iter = [t \in Threads |-> 0]
    /\ started = {}

\* pthread_create succeeds for t.
AStart(t) ==
    /\ t \notin started
    /\ started' = started \cup {t}
    /\ UNCHANGED <<counter, iter>>

\* One whole ++counter.
AIncrement(t) ==
    /\ t \in started
    /\ iter[t] < COUNT_ITERATION
    /\ counter' = counter + 1
    /\ iter' = [iter EXCEPT ![t] = @ + 1]
    /\ UNCHANGED started

ANext == \E t \in Threads : AStart(t) \/ AIncrement(t)

ASafeSpec == AInit /\ [][ANext]_avars

ASpec == ASafeSpec /\ \A t \in Threads : WF_avars(AIncrement(t))
=============================================================================
