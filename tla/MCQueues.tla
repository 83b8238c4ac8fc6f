------------------------------ MODULE MCQueues -------------------------------
(***************************************************************************)
(* The queues of semestr2/Task2/Task2_2 with a mutex, a spinlock and a mutex *)
(* with usleep, model-checked together: which of the three programs runs is  *)
(* chosen in the initial state.                                              *)
(***************************************************************************)
EXTENDS QueueSteps, TLC

VARIABLE program

allVars == <<vars, program>>

Mutex == INSTANCE MutexQueue
Spin == INSTANCE SpinQueue
Sleep == INSTANCE SleepQueue

QInit == Init /\ program \in {"mutex", "spin-lock", "usleep"}

QNext ==
    /\ \/ program = "mutex" /\ Mutex!Next
       \/ program = "spin-lock" /\ Spin!Next
       \/ program = "usleep" /\ Sleep!Next
    /\ UNCHANGED program

QSpec == QInit /\ [][QNext]_allVars

\* malloc has no favourite address.
Addresses == Permutations(Nodes)
=============================================================================
