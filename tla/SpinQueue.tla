------------------------------ MODULE SpinQueue ------------------------------
(***************************************************************************)
(* semestr2/Task2/Task2_2/spin-lock: the bounded queue behind a pthread      *)
(* spinlock.  A full queue_add frees its node while it holds the lock;       *)
(* queue_print_stats takes no lock.                                          *)
(***************************************************************************)
EXTENDS QueueSteps

FullReturnLocked ==
    /\ wpc = "full"
    /\ used' = used \ {new}
    /\ new' = Null
    /\ wpc' = "malloc"
    /\ UNCHANGED <<queueVars, next, val, holder, i, readerVars, monitorVars,
                   mainVars, fault, chain>>

queue_add_never_unlocks_full ==
    \/ AddMalloc \/ AddAbort \/ AddLock \/ AddTest
    \/ FullReturnLocked
    \/ AddLink \/ AddCount \/ AddStat \/ AddUnlock

queue_add ==
    \/ AddMalloc \/ AddAbort \/ AddLock \/ AddTest
    \/ FullFreeLocked \/ FullUnlockLast
    \/ AddLink \/ AddCount \/ AddStat \/ AddUnlock

queue_get ==
    \/ GetLock \/ GetTest \/ GetEmpty
    \/ GetUnlink \/ GetCount \/ GetStat \/ GetUnlock
    \/ GetRead \/ GetFree

writer == queue_add

reader == queue_get \/ ReaderCheck

qmonitor ==
    \/ MonitorTest("count")
    \/ MonitorCount \/ MonitorAdd \/ MonitorGet \/ MonitorPrint("test")

queue_destroy ==
    DestroyBegin \/ DestroyJoin("free_nodes") \/ DestroyNode \/ DestroyEnd

Main == InitLock \/ CreateWriter \/ CreateReader \/ queue_destroy

Next == Finished \/ (Alive /\ (writer \/ reader \/ qmonitor \/ Main))

Spec == Init /\ [][Next]_vars
=============================================================================
