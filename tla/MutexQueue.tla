----------------------------- MODULE MutexQueue ------------------------------
(***************************************************************************)
(* semestr2/Task2/Task2_2/mutex: the bounded queue behind a pthread mutex.   *)
(* A full queue_add unlocks before it frees; queue_print_stats takes no lock.*)
(***************************************************************************)
EXTENDS QueueSteps

queue_add ==
    \/ AddMalloc \/ AddAbort \/ AddLock \/ AddTest
    \/ FullUnlock \/ FullFree
    \/ AddLink \/ AddCount \/ AddStat \/ AddUnlock

queue_get ==
    \/ GetLock \/ GetTest \/ GetEmpty
    \/ GetUnlink \/ GetCount \/ GetStat \/ GetUnlock
    \/ GetRead \/ GetFree

writer == queue_add

reader == queue_get \/ ReaderCheck

qmonitor ==
    \/ MonitorTest("count")
    \/ MonitorCount \/ MonitorAdd \/ MonitorGet \/ MonitorPrint("test")

queue_destroy ==
    DestroyBegin \/ DestroyJoin("free_nodes") \/ DestroyNode \/ DestroyEnd

Main == InitLock \/ CreateWriter \/ CreateReader \/ queue_destroy

Next == Finished \/ (Alive /\ (writer \/ reader \/ qmonitor \/ Main))

Spec == Init /\ [][Next]_vars
=============================================================================
