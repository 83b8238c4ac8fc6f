------------------------------- MODULE MCLocks -------------------------------
(***************************************************************************)
(* The two locks of semestr2/Task2/Task2_4 and the queue without one of      *)
(* Task2_1, model-checked together: which of the three programs runs is      *)
(* chosen in the initial state, and the state of the others stands still.    *)
(***************************************************************************)
EXTENDS CounterThreads, RaceQueue

VARIABLE program

allVars == <<counterVars, vars, program>>

Futex == INSTANCE FutexMutex
Cas == INSTANCE CasSpinlock

LInit == CounterInit /\ Init /\ program \in {"mutex", "spinlock", "queue"}

Counter(A) == program # "queue" /\ A /\ UNCHANGED <<program, vars>>
LMain == Counter(MainStep)
LStep(t) ==
    Counter(\/ program = "mutex" /\ Futex!Step(t)
            \/ program = "spinlock" /\ Cas!Step(t))
LSpurious(t) == Counter(program = "mutex" /\ Futex!SpuriousWake(t))
LTerminated == Counter(Terminated)

LRace == program = "queue" /\ Next /\ UNCHANGED <<program, counterVars>>

LNext == LRace \/ LMain \/ LTerminated \/ \E t \in Threads : LStep(t) \/ LSpurious(t)

\* The scheduler runs every thread that can run.  Nothing is assumed about
\* spurious wake-ups, nor about who wins a compare-and-swap.
LSpec ==
    /\ LInit /\ [][LNext]_allVars
    /\ WF_allVars(LMain) /\ \A t \in Threads : WF_allVars(LStep(t))

\* No thread sleeps on the futex or spins for ever: main of mutex.c and of
\* spinlock.c gets past its joins.
LocksTerminate == program # "queue" => Termination
=============================================================================
