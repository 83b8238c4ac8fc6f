------------------------------ MODULE SemQueue -------------------------------
(***************************************************************************)
(* semestr2/Task2/Task2_2/semafor: the bounded queue behind a semaphore of   *)
(* one permit.  queue_print_stats takes the semaphore too, and the monitor   *)
(* that calls it is started by queue_init, before main calls init_sem: its   *)
(* sem_wait can run on the zeroed semaphore and be asleep when sem_init      *)
(* resets it.                                                                *)
(*                                                                           *)
(* The semaphore is the C library's: a value, here holder = "none" for 1 and *)
(* anything else for 0, and a count of registered waiters.  sem_post adds    *)
(* the permit, sees the count in the same step, and wakes a sleeper in a     *)
(* later one if the count is not zero.  sem_init overwrites both and wakes   *)
(* nobody; it also shares the semaphore between processes, and a wake-up for *)
(* sleepers of any process does not reach one that went to sleep before.     *)
(***************************************************************************)
EXTENDS QueueSteps

VARIABLES nwaiters,   \* waiters the semaphore knows of
          sem,        \* sem[t]: "out", "registered", "asleep" or "stranded"
                      \* in sem_wait, "posting" between post and wake
          early       \* history: the monitor met the semaphore before sem_init

semVars == <<nwaiters, sem, early>>
allVars == <<vars, semVars>>

Users == {"writer", "reader", "monitor"}

\* t is at a sem_wait of its program.
AtWait(t) ==
    \/ t = "writer" /\ wpc = "lock"
    \/ t = "reader" /\ rpc = "lock"
    \/ t = "monitor" /\ mpc = "lock"

Asleep == {t \in Users : sem[t] = "asleep"}

InitSem ==
    /\ Init
    /\ nwaiters = 0
    /\ sem = [t \in Users |-> "out"]
    /\ early = FALSE
-----------------------------------------------------------------------------
(* sem_wait: take a permit at once, or register, and sleep while there is    *)
(* none.                                                                     *)

SemRegister(t) ==
    /\ AtWait(t)
    /\ sem[t] = "out"
    /\ holder # "none"
    /\ nwaiters' = nwaiters + 1
    /\ sem' = [sem EXCEPT ![t] = "registered"]
    /\ early' = (early \/ holder = "uninit")
    /\ UNCHANGED vars

SemSleep(t) ==
    /\ sem[t] = "registered"
    /\ holder # "none"
    /\ sem' = [sem EXCEPT ![t] = IF holder = "uninit" THEN "stranded" ELSE "asleep"]
    /\ UNCHANGED <<vars, nwaiters, early>>

\* The change to the semaphore when t takes the permit.
SemTaken(t) ==
    /\ sem[t] \in {"out", "registered"}
    /\ nwaiters' = nwaiters - IF sem[t] = "registered" THEN 1 ELSE 0
    /\ sem' = [sem EXCEPT ![t] = "out"]
    /\ UNCHANGED early

\* sem_post: t has added the permit, and will wake somebody if the semaphore
\* knows of a waiter.
SemPost(t) ==
    /\ sem' = [sem EXCEPT ![t] = IF nwaiters # 0 THEN "posting" ELSE "out"]
    /\ UNCHANGED <<nwaiters, early>>

\* sem_post: the wake-up.
SemWake(t) ==
    /\ sem[t] = "posting"
    /\ IF Asleep = {}
       THEN sem' = [sem EXCEPT ![t] = "out"]
       ELSE \E u \in Asleep : sem' = [sem EXCEPT ![t] = "out", ![u] = "registered"]
    /\ UNCHANGED <<vars, nwaiters, early>>

SemIdle == UNCHANGED semVars
-----------------------------------------------------------------------------
MonitorLock ==
    /\ mpc = "lock"
    /\ holder = "none"
    /\ holder' = "monitor"
    /\ mpc' = "count"
    /\ UNCHANGED <<queueVars, heapVars, writerVars, readerVars, snap, mainVars,
                   fault, chain>>

MonitorUnlock ==
    /\ mpc = "unlock"
    /\ holder' = "none"
    /\ mpc' = "test"
    /\ UNCHANGED <<queueVars, heapVars, writerVars, readerVars, snap, mainVars,
                   fault, chain>>

queue_add ==
    \/ SemIdle /\ (\/ AddMalloc \/ AddAbort \/ AddTest \/ FullFreeLocked
                   \/ AddLink \/ AddCount \/ AddStat)
    \/ SemRegister("writer") \/ SemSleep("writer")
    \/ AddLock /\ SemTaken("writer")
    \/ (FullUnlockLast \/ AddUnlock) /\ SemPost("writer")

queue_get ==
    \/ SemIdle /\ (\/ GetTest \/ GetUnlink \/ GetCount \/ GetStat \/ GetRead
                   \/ GetFree)
    \/ SemRegister("reader") \/ SemSleep("reader")
    \/ GetLock /\ SemTaken("reader")
    \/ (GetEmpty \/ GetUnlock) /\ SemPost("reader")

MonitorNoLock ==
    /\ mpc = "lock"
    /\ mpc' = "count"
    /\ UNCHANGED <<snap, MonitorRest>>

queue_print_stats_unlocked ==
    SemIdle /\ (\/ MonitorNoLock \/ MonitorCount \/ MonitorAdd
                \/ MonitorGet \/ MonitorPrint("test"))

queue_print_stats ==
    \/ SemIdle /\ (MonitorCount \/ MonitorAdd \/ MonitorGet \/ MonitorPrint("unlock"))
    \/ SemRegister("monitor") \/ SemSleep("monitor")
    \/ MonitorLock /\ SemTaken("monitor")
    \/ MonitorUnlock /\ SemPost("monitor")

\* t is in a sem_post, which has to end before t goes on.
Posting(t) == sem[t] = "posting"

writer == SemWake("writer") \/ (~Posting("writer") /\ queue_add)

reader ==
    \/ SemWake("reader")
    \/ ~Posting("reader") /\ (queue_get \/ (ReaderCheck /\ SemIdle))

qmonitor ==
    \/ SemWake("monitor")
    \/ ~Posting("monitor") /\ ((MonitorTest("lock") /\ SemIdle) \/ queue_print_stats)

\* sem_init sets the value to 1 and forgets registered waiters.
init_sem == InitLock /\ nwaiters' = 0 /\ UNCHANGED <<sem, early>>

queue_destroy ==
    /\ DestroyBegin \/ DestroyJoin("free_nodes") \/ DestroyNode \/ DestroyEnd
    /\ SemIdle

Main == init_sem \/ ((CreateWriter \/ CreateReader) /\ SemIdle) \/ queue_destroy

\* After an early sem_wait the monitor may sleep for ever, and main with it in
\* the pthread_join of queue_destroy; or the monitor gets through and leaves
\* nwaiters at -1, and a later lone waiter makes it 0 and is never woken.  The
\* program may really stop here.
StoppedByEarlyWait ==
    /\ early
    /\ \E t \in Users : sem[t] \in {"asleep", "stranded"}
    /\ UNCHANGED allVars

Next ==
    \/ Finished /\ SemIdle
    \/ StoppedByEarlyWait
    \/ Alive /\ (writer \/ reader \/ qmonitor \/ Main)

\* Every thread keeps running; nothing is assumed about who gets the permit.
Fairness ==
    /\ WF_allVars(Alive /\ writer)
    /\ WF_allVars(Alive /\ reader)
    /\ WF_allVars(Alive /\ qmonitor)
    /\ WF_allVars(Alive /\ Main)

Spec == InitSem /\ [][Next]_allVars

FairSpec == Spec /\ Fairness
-----------------------------------------------------------------------------
(* The monitor prints under the lock and its snapshot is current, and nobody *)
(* gets the lock before init_sem: the strengthening of                       *)
(* PrintedStatsConsistent.                                                   *)
StatsInv ==
    /\ mpc \in {"count", "add", "get", "print", "unlock"} => holder = "monitor"
    /\ count = add_count - get_count + (IF wpc = "stat" THEN 1 ELSE 0)
                                     - (IF rpc = "stat" THEN 1 ELSE 0)
    /\ snap \in [count : Int, add : Int, get : Int]
    /\ mpc \in {"add", "get", "print"} => snap.count = count
    /\ mpc \in {"get", "print"} => snap.add = add_count
    /\ mpc = "print" => snap.get = get_count
    /\ main = "init_lock" => holder = "uninit"

SemInv == QueueInv /\ StatsInv
=============================================================================
