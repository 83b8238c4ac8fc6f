----------------------------- MODULE SleepQueue ------------------------------
(***************************************************************************)
(* semestr2/Task2/Task2_2/usleep: the bounded queue behind a pthread mutex,  *)
(* with a usleep at the start of queue_add and queue_get.  A sleep is a step *)
(* that may take any time, which the interleaving already allows; what       *)
(* differs is queue_destroy, which frees the queue itself and not the nodes. *)
(***************************************************************************)
EXTENDS QueueSteps

queue_add ==
    \/ AddMalloc \/ AddAbort \/ AddLock \/ AddTest
    \/ FullFreeLocked \/ FullUnlockLast
    \/ AddLink \/ AddCount \/ AddStat \/ AddUnlock

queue_get ==
    \/ GetLock \/ GetTest \/ GetEmpty
    \/ GetUnlink \/ GetCount \/ GetStat \/ GetUnlock
    \/ GetRead \/ GetFree

\* The steps of queue_add that read or write *q.
TouchesQueue == wpc \in {"test", "link", "count", "stat"}

\* An access to the queue after free(q).  Anything may follow: the behaviour
\* is not described any further.
TouchFreedQueue ==
    /\ main = "join_writer"
    /\ TouchesQueue
    /\ fault' = TRUE
    /\ wpc' = "aborted"
    /\ UNCHANGED <<queueVars, heapVars, holder, new, i, readerVars,
                   monitorVars, mainVars, chain>>

writer ==
    \/ ~(main = "join_writer" /\ TouchesQueue) /\ queue_add
    \/ TouchFreedQueue

reader == queue_get \/ ReaderCheck

qmonitor ==
    \/ MonitorTest("count")
    \/ MonitorCount \/ MonitorAdd \/ MonitorGet \/ MonitorPrint("test")

\* pthread_join of the monitor and free(q); main then returns, or joins the
\* writer, which never returns.
DestroyQueue ==
    /\ main = "join_monitor"
    /\ mpc = "exit"
    /\ main' = IF wpc = "unborn" THEN "exited" ELSE "join_writer"
    /\ UNCHANGED <<MainRest, used, wpc, holder, cursor, stop_flag, fault>>

queue_destroy == DestroyBegin \/ DestroyQueue

Main == InitLock \/ CreateWriter \/ CreateReader \/ queue_destroy

Next == Finished \/ (Alive /\ (writer \/ reader \/ qmonitor \/ Main))

Spec == Init /\ [][Next]_vars
=============================================================================
