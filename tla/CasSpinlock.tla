----------------------------- MODULE CasSpinlock -----------------------------
(***************************************************************************)
(* The lock of semestr2/Task2/Task2_4/spinlock.c: a compare-and-swap alone.  *)
(***************************************************************************)
EXTENDS CounterThreads

TestThenSet(t) ==
    /\ \/ /\ pc[t] = "cas"
          /\ lock = STATUS_UNLOCK
          /\ Goto(t, "set")
          /\ UNCHANGED lock
       \/ /\ pc[t] = "set"
          /\ lock' = STATUS_LOCK
          /\ Goto(t, "load")
    /\ UNCHANGED <<counter, iteration, reg, mainVars>>

\* The compare-and-swap of spinlock_lock that succeeds; one that fails only
\* goes round the loop.
CasAcquire(t) ==
    /\ pc[t] = "cas"
    /\ lock = STATUS_UNLOCK
    /\ lock' = STATUS_LOCK
    /\ Goto(t, "load")
    /\ UNCHANGED <<counter, iteration, reg, mainVars>>

CasReleaseExpectingUnlocked(t) ==
    /\ pc[t] = "release"
    /\ EndIteration(t)
    /\ UNCHANGED <<lock, counter, reg, mainVars>>

\* spinlock_unlock, then ++i and the loop test.
CasRelease(t) ==
    /\ pc[t] = "release"
    /\ lock' = IF lock = STATUS_LOCK THEN STATUS_UNLOCK ELSE lock
    /\ EndIteration(t)
    /\ UNCHANGED <<counter, reg, mainVars>>

Step(t) == CasAcquire(t) \/ Load(t) \/ Store(t) \/ CasRelease(t)

Next == MainStep \/ Terminated \/ \E t \in Threads : Step(t)

SafeSpec == CounterInit /\ [][Next]_counterVars
=============================================================================
