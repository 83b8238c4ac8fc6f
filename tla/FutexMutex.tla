----------------------------- MODULE FutexMutex ------------------------------
(***************************************************************************)
(* The lock of semestr2/Task2/Task2_4/mutex.c: a compare-and-swap and a      *)
(* futex.  The kernel performs FUTEX_WAIT atomically with its check of the   *)
(* word.                                                                     *)
(***************************************************************************)
EXTENDS CounterThreads

(* mutex_lock: the loop of compare-and-swap and FUTEX_WAIT.                  *)

CasAcquireBlind(t) ==
    /\ pc[t] = "cas"
    /\ lock' = STATUS_LOCK
    /\ Goto(t, "load")
    /\ UNCHANGED <<counter, iteration, reg, mainVars>>

CasAcquire(t) ==
    /\ pc[t] = "cas"
    /\ \/ /\ lock = STATUS_UNLOCK
          /\ lock' = STATUS_LOCK
          /\ Goto(t, "load")
       \/ /\ lock # STATUS_UNLOCK
          /\ Goto(t, "wait")
          /\ UNCHANGED lock
    /\ UNCHANGED <<counter, iteration, reg, mainVars>>

FutexWaitUnchecked(t) ==
    /\ pc[t] = "wait"
    /\ Goto(t, "asleep")
    /\ UNCHANGED <<lock, counter, iteration, reg, mainVars>>

\* The kernel sleeps only while the word still holds the expected value;
\* otherwise FUTEX_WAIT fails with EAGAIN and the loop tries again.
FutexWait(t) ==
    /\ pc[t] = "wait"
    /\ Goto(t, IF lock = STATUS_LOCK THEN "asleep" ELSE "cas")
    /\ UNCHANGED <<lock, counter, iteration, reg, mainVars>>

\* FUTEX_WAIT may return without a wake-up; the loop tries again.
SpuriousWake(t) ==
    /\ pc[t] = "asleep"
    /\ Goto(t, "cas")
    /\ UNCHANGED <<lock, counter, iteration, reg, mainVars>>

(* mutex_unlock: the compare-and-swap back and FUTEX_WAKE of one sleeper.    *)

CasReleaseNoWake(t) ==
    /\ pc[t] = "release"
    /\ lock' = IF lock = STATUS_LOCK THEN STATUS_UNLOCK ELSE lock
    /\ EndIteration(t)
    /\ UNCHANGED <<counter, reg, mainVars>>

CasRelease(t) ==
    /\ pc[t] = "release"
    /\ IF lock = STATUS_LOCK
       THEN lock' = STATUS_UNLOCK /\ Goto(t, "wake") /\ UNCHANGED iteration
       ELSE EndIteration(t) /\ UNCHANGED lock
    /\ UNCHANGED <<counter, reg, mainVars>>

\* The count passed to FUTEX_WAKE is STATUS_UNLOCK, that is 1: one sleeper,
\* if there is one, returns from FUTEX_WAIT.
FutexWake(t) ==
    /\ pc[t] = "wake"
    /\ iteration' = [iteration EXCEPT ![t] = @ + 1]
    /\ \/ Asleep = {} /\ Goto(t, AfterIteration(t))
       \/ \E w \in Asleep : pc' = [pc EXCEPT ![t] = AfterIteration(t), ![w] = "cas"]
    /\ UNCHANGED <<lock, counter, reg, mainVars>>
-----------------------------------------------------------------------------
Step(t) ==
    \/ CasAcquire(t) \/ FutexWait(t)
    \/ Load(t) \/ Store(t)
    \/ CasRelease(t) \/ FutexWake(t)

Next == MainStep \/ Terminated \/ \E t \in Threads : Step(t) \/ SpuriousWake(t)

SafeSpec == CounterInit /\ [][Next]_counterVars
=============================================================================
