--------------------------- MODULE LockRaceProofs ---------------------------
(***************************************************************************)
(* Threads that meet in memory.  The theorems about the queue without a    *)
(* lock of semestr2/Task2/Task2_1, for every max_count and every set of    *)
(* addresses, and those about the futex mutex and the spinlock of          *)
(* semestr2/Task2/Task2_4, for every number of iterations.                 *)
(***************************************************************************)
EXTENDS CounterThreads, RaceQueue, TLAPS

(* The queue without a lock. *)

(* Every load and store of the writer keeps the bounds on count and on what  *)
(* the threads have loaded from it.                                          *)
LEMMA WriterStep == CountInv /\ writer => CountInv'
<1> SUFFICES ASSUME CountInv, writer PROVE CountInv'
  OBVIOUS
<1> USE MaxCountAssumption DEF CountInv, readerV
<1>1. CASE AddTest
  BY <1>1 DEF AddTest
<1>2. CASE AddMalloc
  BY <1>2 DEF AddMalloc
<1>3. CASE AddTestFirst \/ AddSetLast \/ AddSetFirst
  BY <1>3 DEF AddTestFirst, AddSetLast, AddSetFirst
<1>4. CASE AddAppend \/ AddLoadNext \/ AddStoreLast
  BY <1>4 DEF AddAppend, AddLoadNext, AddStoreLast
<1>5. CASE AddLoadCount
  BY <1>5 DEF AddLoadCount
<1>6. CASE AddStoreCount
  BY <1>6 DEF AddStoreCount
<1> QED
  BY <1>1, <1>2, <1>3, <1>4, <1>5, <1>6 DEF writer, queue_add

(* So does every load and store of the reader. *)
LEMMA ReaderStep == CountInv /\ reader => CountInv'
<1> SUFFICES ASSUME CountInv, reader PROVE CountInv'
  OBVIOUS
<1> USE MaxCountAssumption DEF CountInv, writerV
<1>1. CASE GetTest
  BY <1>1 DEF GetTest
<1>2. CASE GetTmp \/ GetVal \/ GetLoadNext
  BY <1>2 DEF GetTmp, GetVal, GetLoadNext
<1>3. CASE GetStoreFirst \/ GetFree
  BY <1>3 DEF GetStoreFirst, GetFree
<1>4. CASE GetLoadCount
  BY <1>4 DEF GetLoadCount
<1>5. CASE GetStoreCount
  BY <1>5 DEF GetStoreCount
<1>6. CASE ReaderCheck
  BY <1>6 DEF ReaderCheck
<1> QED
  BY <1>1, <1>2, <1>3, <1>4, <1>5, <1>6 DEF reader, queue_get

(* count stays in 0..max_count: no assertion of queue_add or queue_get ever  *)
(* fails, lost updates of count notwithstanding.                             *)
THEOREM AssertionsNeverFail == Spec => []CountInRange
<1>1. Init => CountInv
  BY MaxCountAssumption DEF Init, CountInv
<1>2. CountInv /\ [Next]_vars => CountInv'
  <2> SUFFICES ASSUME CountInv, [Next]_vars PROVE CountInv'
    OBVIOUS
  <2>1. CASE Main
    BY <2>1 DEF Main, CountInv
  <2>2. CASE Finished \/ UNCHANGED vars
    BY <2>2 DEF Finished, vars, writerV, readerV, CountInv
  <2> QED
    BY <2>1, <2>2, WriterStep, ReaderStep DEF Next
<1>3. CountInv => CountInRange
  BY DEF CountInv, CountInRange
<1> QED
  BY <1>1, <1>2, <1>3, PTL DEF Spec
(* Every load and store of the writer keeps the chains of rising values. *)
LEMMA WriterRace ==
    ASSUME RaceInv, ~fault, ~fault', writer
    PROVE  RaceInv'
<1> USE NullAssumption DEF StartInv, ValueInv, WriterInv, ChainInv, ReaderInv,
        Holding, Linked, EndOfList, readerV, heap
<1>0. StartInv /\ ValueInv /\ WriterInv /\ ChainInv /\ ReaderInv
  BY DEF RaceInv
<1>1. CASE AddTest
  <2>0. StartInv'
    BY <1>0, <1>1 DEF AddTest
  <2>1. ValueInv'
    BY <1>0, <1>1 DEF AddTest
  <2>2. WriterInv'
    BY <1>0, <1>1 DEF AddTest
  <2>3. ChainInv'
    BY <1>0, <1>1 DEF AddTest
  <2>4. ReaderInv'
    BY <1>0, <1>1 DEF AddTest
  <2> QED
    BY <2>0, <2>1, <2>2, <2>3, <2>4 DEF RaceInv
<1>2. CASE AddMalloc
  <2>0. StartInv'
    BY <1>0, <1>2 DEF AddMalloc
  <2>1. ValueInv'
    BY <1>0, <1>2 DEF AddMalloc
  <2>2. WriterInv'
    BY <1>0, <1>2 DEF AddMalloc
  <2>3. ChainInv'
    BY <1>0, <1>2 DEF AddMalloc
  <2>4. ReaderInv'
    BY <1>0, <1>2 DEF AddMalloc
  <2> QED
    BY <2>0, <2>1, <2>2, <2>3, <2>4 DEF RaceInv
<1>3. CASE AddTestFirst
  <2>0. StartInv'
    BY <1>0, <1>3 DEF AddTestFirst
  <2>1. ValueInv'
    BY <1>0, <1>3 DEF AddTestFirst
  <2>2. WriterInv'
    BY <1>0, <1>3 DEF AddTestFirst
  <2>3. ChainInv'
    BY <1>0, <1>3 DEF AddTestFirst
  <2>4. ReaderInv'
    BY <1>0, <1>3 DEF AddTestFirst
  <2> QED
    BY <2>0, <2>1, <2>2, <2>3, <2>4 DEF RaceInv
<1>4. CASE AddSetLast
  <2>0. StartInv'
    BY <1>0, <1>4 DEF AddSetLast
  <2>1. ValueInv'
    BY <1>0, <1>4 DEF AddSetLast
  <2>2. WriterInv'
    BY <1>0, <1>4 DEF AddSetLast
  <2>3. ChainInv'
    BY <1>0, <1>4 DEF AddSetLast
  <2>4. ReaderInv'
    BY <1>0, <1>4 DEF AddSetLast
  <2> QED
    BY <2>0, <2>1, <2>2, <2>3, <2>4 DEF RaceInv
<1>5. CASE AddSetFirst
  <2>0. StartInv'
    BY <1>0, <1>5 DEF AddSetFirst
  <2>1. ValueInv'
    BY <1>0, <1>5 DEF AddSetFirst
  <2>2. WriterInv'
    BY <1>0, <1>5 DEF AddSetFirst
  <2>3. ChainInv'
    BY <1>0, <1>5 DEF AddSetFirst
  <2>4. ReaderInv'
    BY <1>0, <1>5 DEF AddSetFirst
  <2> QED
    BY <2>0, <2>1, <2>2, <2>3, <2>4 DEF RaceInv
<1>6. CASE AddAppend
  <2>0. StartInv'
    BY <1>0, <1>6 DEF AddAppend
  <2>1. ValueInv'
    BY <1>0, <1>6 DEF AddAppend
  <2>2. WriterInv'
    BY <1>0, <1>6 DEF AddAppend
  <2>3. ChainInv'
    BY <1>0, <1>6 DEF AddAppend
  <2>4. ReaderInv'
    <3>1. last \in used /\ next' = [next EXCEPT ![last] = new] /\ UNCHANGED <<val, used>>
      BY <1>6 DEF AddAppend
    <3>2. rpc = "store_first" /\ rp # Null => rp = next'[first]
      BY <1>0, <1>6, <3>1 DEF AddAppend
    <3>3. rpc = "free" => \A n \in used : next'[n] # tmp
      BY <1>0, <1>6, <3>1 DEF AddAppend
    <3>4. rpc = "free" => tmp # new
      BY <1>0, <1>6 DEF AddAppend
    <3> QED
      BY <1>0, <1>6, <3>1, <3>2, <3>3, <3>4 DEF AddAppend
  <2> QED
    BY <2>0, <2>1, <2>2, <2>3, <2>4 DEF RaceInv
<1>7. CASE AddLoadNext
  <2>0. StartInv'
    BY <1>0, <1>7 DEF AddLoadNext
  <2>1. ValueInv'
    BY <1>0, <1>7 DEF AddLoadNext
  <2>2. WriterInv'
    BY <1>0, <1>7 DEF AddLoadNext
  <2>3. ChainInv'
    BY <1>0, <1>7 DEF AddLoadNext
  <2>4. ReaderInv'
    BY <1>0, <1>7 DEF AddLoadNext
  <2> QED
    BY <2>0, <2>1, <2>2, <2>3, <2>4 DEF RaceInv
<1>8. CASE AddStoreLast
  <2>0. StartInv'
    BY <1>0, <1>8 DEF AddStoreLast
  <2>1. ValueInv'
    BY <1>0, <1>8 DEF AddStoreLast
  <2>2. WriterInv'
    BY <1>0, <1>8 DEF AddStoreLast
  <2>3. ChainInv'
    BY <1>0, <1>8 DEF AddStoreLast
  <2>4. ReaderInv'
    BY <1>0, <1>8 DEF AddStoreLast
  <2> QED
    BY <2>0, <2>1, <2>2, <2>3, <2>4 DEF RaceInv
<1>9. CASE AddLoadCount
  <2>0. StartInv'
    BY <1>0, <1>9 DEF AddLoadCount
  <2>1. ValueInv'
    BY <1>0, <1>9 DEF AddLoadCount
  <2>2. WriterInv'
    BY <1>0, <1>9 DEF AddLoadCount
  <2>3. ChainInv'
    BY <1>0, <1>9 DEF AddLoadCount
  <2>4. ReaderInv'
    BY <1>0, <1>9 DEF AddLoadCount
  <2> QED
    BY <2>0, <2>1, <2>2, <2>3, <2>4 DEF RaceInv
<1>10. CASE AddStoreCount
  <2>0. StartInv'
    BY <1>0, <1>10 DEF AddStoreCount
  <2>1. ValueInv'
    BY <1>0, <1>10 DEF AddStoreCount
  <2>2. WriterInv'
    BY <1>0, <1>10 DEF AddStoreCount
  <2>3. ChainInv'
    BY <1>0, <1>10 DEF AddStoreCount
  <2>4. ReaderInv'
    BY <1>0, <1>10 DEF AddStoreCount
  <2> QED
    BY <2>0, <2>1, <2>2, <2>3, <2>4 DEF RaceInv
<1> QED
  BY <1>1, <1>2, <1>3, <1>4, <1>5, <1>6, <1>7, <1>8, <1>9, <1>10 DEF writer, queue_add

(* So does every load and store of the reader. *)
LEMMA ReaderRace ==
    ASSUME RaceInv, ~fault, ~fault', reader
    PROVE  RaceInv'
<1> USE NullAssumption DEF StartInv, ValueInv, WriterInv, ChainInv, ReaderInv,
        Holding, Linked, EndOfList, writerV, heap
<1>0. StartInv /\ ValueInv /\ WriterInv /\ ChainInv /\ ReaderInv
  BY DEF RaceInv
<1>1. CASE GetTest
  <2>0. StartInv'
    BY <1>0, <1>1 DEF GetTest
  <2>1. ValueInv'
    BY <1>0, <1>1 DEF GetTest
  <2>2. WriterInv'
    BY <1>0, <1>1 DEF GetTest
  <2>3. ChainInv'
    BY <1>0, <1>1 DEF GetTest
  <2>4. ReaderInv'
    BY <1>0, <1>1 DEF GetTest
  <2> QED
    BY <2>0, <2>1, <2>2, <2>3, <2>4 DEF RaceInv
<1>2. CASE GetTmp
  <2>0. StartInv'
    BY <1>0, <1>2 DEF GetTmp
  <2>1. ValueInv'
    BY <1>0, <1>2 DEF GetTmp
  <2>2. WriterInv'
    BY <1>0, <1>2 DEF GetTmp
  <2>3. ChainInv'
    BY <1>0, <1>2 DEF GetTmp
  <2>4. ReaderInv'
    BY <1>0, <1>2 DEF GetTmp
  <2> QED
    BY <2>0, <2>1, <2>2, <2>3, <2>4 DEF RaceInv
<1>3. CASE GetVal
  <2>0. StartInv'
    BY <1>0, <1>3 DEF GetVal
  <2>1. ValueInv'
    BY <1>0, <1>3 DEF GetVal
  <2>2. WriterInv'
    BY <1>0, <1>3 DEF GetVal
  <2>3. ChainInv'
    BY <1>0, <1>3 DEF GetVal
  <2>4. ReaderInv'
    BY <1>0, <1>3 DEF GetVal
  <2> QED
    BY <2>0, <2>1, <2>2, <2>3, <2>4 DEF RaceInv
<1>4. CASE GetLoadNext
  <2>0. StartInv'
    BY <1>0, <1>4 DEF GetLoadNext
  <2>1. ValueInv'
    BY <1>0, <1>4 DEF GetLoadNext
  <2>2. WriterInv'
    BY <1>0, <1>4 DEF GetLoadNext
  <2>3. ChainInv'
    BY <1>0, <1>4 DEF GetLoadNext
  <2>4. ReaderInv'
    BY <1>0, <1>4 DEF GetLoadNext
  <2> QED
    BY <2>0, <2>1, <2>2, <2>3, <2>4 DEF RaceInv
<1>5. CASE GetStoreFirst
  <2>0. StartInv'
    BY <1>0, <1>5 DEF GetStoreFirst
  <2>1. ValueInv'
    BY <1>0, <1>5 DEF GetStoreFirst
  <2>2. WriterInv'
    BY <1>0, <1>5 DEF GetStoreFirst
  <2>3. ChainInv'
    BY <1>0, <1>5 DEF GetStoreFirst
  <2>4. ReaderInv'
    BY <1>0, <1>5 DEF GetStoreFirst
  <2> QED
    BY <2>0, <2>1, <2>2, <2>3, <2>4 DEF RaceInv
<1>6. CASE GetFree
  <2>0. StartInv'
    BY <1>0, <1>6 DEF GetFree
  <2>1. ValueInv'
    BY <1>0, <1>6 DEF GetFree
  <2>2. WriterInv'
    BY <1>0, <1>6 DEF GetFree
  <2>3. ChainInv'
    BY <1>0, <1>6 DEF GetFree
  <2>4. ReaderInv'
    BY <1>0, <1>6 DEF GetFree
  <2> QED
    BY <2>0, <2>1, <2>2, <2>3, <2>4 DEF RaceInv
<1>7. CASE GetLoadCount
  <2>0. StartInv'
    BY <1>0, <1>7 DEF GetLoadCount
  <2>1. ValueInv'
    BY <1>0, <1>7 DEF GetLoadCount
  <2>2. WriterInv'
    BY <1>0, <1>7 DEF GetLoadCount
  <2>3. ChainInv'
    BY <1>0, <1>7 DEF GetLoadCount
  <2>4. ReaderInv'
    BY <1>0, <1>7 DEF GetLoadCount
  <2> QED
    BY <2>0, <2>1, <2>2, <2>3, <2>4 DEF RaceInv
<1>8. CASE GetStoreCount
  <2>0. StartInv'
    BY <1>0, <1>8 DEF GetStoreCount
  <2>1. ValueInv'
    BY <1>0, <1>8 DEF GetStoreCount
  <2>2. WriterInv'
    BY <1>0, <1>8 DEF GetStoreCount
  <2>3. ChainInv'
    BY <1>0, <1>8 DEF GetStoreCount
  <2>4. ReaderInv'
    BY <1>0, <1>8 DEF GetStoreCount
  <2> QED
    BY <2>0, <2>1, <2>2, <2>3, <2>4 DEF RaceInv
<1>9. CASE ReaderCheck
  <2>0. StartInv'
    BY <1>0, <1>9 DEF ReaderCheck
  <2>1. ValueInv'
    BY <1>0, <1>9 DEF ReaderCheck
  <2>2. WriterInv'
    BY <1>0, <1>9 DEF ReaderCheck
  <2>3. ChainInv'
    BY <1>0, <1>9 DEF ReaderCheck
  <2>4. ReaderInv'
    BY <1>0, <1>9 DEF ReaderCheck, NoVal
  <2> QED
    BY <2>0, <2>1, <2>2, <2>3, <2>4 DEF RaceInv
<1> QED
  BY <1>1, <1>2, <1>3, <1>4, <1>5, <1>6, <1>7, <1>8, <1>9 DEF reader, queue_get

(* Values can be lost, but as long as no access has gone to NULL or to freed *)
(* memory the reader never gets a value twice or after a later one, however  *)
(* the loads and stores of the two threads interleave, for every number of   *)
(* nodes malloc can return and every max_count.                              *)
THEOREM ValuesOnlyRise == Spec => []NeverGoesBack
<1>1. Init => RaceInv
  BY NullAssumption DEF Init, RaceInv, StartInv, ValueInv, WriterInv, ChainInv, ReaderInv,
     Holding, Linked, EndOfList, NoVal
<1>2. RaceInv /\ [Next]_vars => RaceInv'
  <2> SUFFICES ASSUME RaceInv, [Next]_vars, ~fault' PROVE RaceInv'
    BY DEF RaceInv
  <2>1. CASE Alive /\ (writer \/ reader)
    BY <2>1, WriterRace, ReaderRace DEF Alive
  <2>2. CASE Alive /\ Main
    BY <2>2 DEF Alive, Main, heap, RaceInv, StartInv, ValueInv, WriterInv, ChainInv,
       ReaderInv, Holding, Linked, EndOfList
  <2>3. CASE Finished \/ UNCHANGED vars
    BY <2>3 DEF Finished, vars, heap, writerV, readerV, RaceInv, StartInv,
       ValueInv, WriterInv, ChainInv, ReaderInv, Holding, Linked, EndOfList
  <2> QED
    BY <2>1, <2>2, <2>3 DEF Next
<1>3. RaceInv => NeverGoesBack
  BY DEF RaceInv, ReaderInv, NeverGoesBack
<1> QED
  BY <1>1, <1>2, <1>3, PTL DEF Spec
-----------------------------------------------------------------------------
(* The locks. *)

Futex == INSTANCE FutexMutex
Cas == INSTANCE CasSpinlock

(* The steps both programs have. *)
Common == MainStep \/ UNCHANGED counterVars \/ \E t \in Threads : Load(t) \/ Store(t)

(* The initial state, set up by mutex_init or spinlock_init, satisfies the   *)
(* strengthening.                                                            *)
LEMMA InitInductive == CounterInit => Inductive /\ Asleep = {}
BY CountAssumption
   DEF CounterInit, Inductive, TypeOK, MutualExclusion, NoLostWakeup, Asleep,
       InCriticalSection, Effective, Threads, T1, T2, STATUS_LOCK,
       STATUS_UNLOCK, NotPrinted

(* ++counter, thread creation, the joins and the end of the process preserve *)
(* the strengthening and put nobody to sleep.                                *)
LEMMA CommonInductive ==
    Inductive /\ Common => Inductive' /\ (Asleep = {} => Asleep' = {})
<1> SUFFICES ASSUME Inductive, Common
             PROVE  Inductive' /\ (Asleep = {} => Asleep' = {})
  OBVIOUS
<1> USE CountAssumption
    DEF Inductive, TypeOK, MutualExclusion, NoLostWakeup, Asleep,
        InCriticalSection, Effective, Threads, T1, T2, STATUS_LOCK,
        STATUS_UNLOCK, NotPrinted, Goto, mainVars
<1>1. ASSUME NEW t \in Threads, Load(t)
      PROVE  Inductive' /\ (Asleep = {} => Asleep' = {})
  BY <1>1 DEF Load
<1>2. ASSUME NEW t \in Threads, Store(t)
      PROVE  Inductive' /\ (Asleep = {} => Asleep' = {})
  BY <1>2 DEF Store
<1>3. CASE CreateThreads
  BY <1>3 DEF CreateThreads, Create
<1>4. CASE JoinThreads
  BY <1>4 DEF JoinThreads, Join
<1>5. CASE UNCHANGED counterVars
  BY <1>5 DEF counterVars
<1> QED
  BY <1>1, <1>2, <1>3, <1>4, <1>5 DEF Common, MainStep

(* The steps of mutex.c and of spinlock.c: common ones and those of the lock. *)
LEMMA FutexSteps ==
    [Futex!Next]_counterVars =>
        \/ Common
        \/ \E t \in Threads : \/ Futex!CasAcquire(t) \/ Futex!FutexWait(t)
                              \/ Futex!SpuriousWake(t) \/ Futex!CasRelease(t)
                              \/ Futex!FutexWake(t)
BY DEF Futex!Next, Futex!Step, Futex!MainStep, Futex!Terminated, Futex!CreateThreads,
       Futex!Create, Futex!JoinThreads, Futex!Join, Futex!Load, Futex!Store,
       Futex!Goto, Futex!mainVars, Futex!counterVars, Futex!Threads, Futex!T1, Futex!T2,
       Common, MainStep, CreateThreads, Create, JoinThreads, Join, Load, Store, Goto,
       mainVars, counterVars, Threads, T1, T2

(* A step of spinlock.c is a common step, its compare-and-swap or its        *)
(* release.                                                                  *)
LEMMA CasSteps ==
    [Cas!Next]_counterVars =>
        Common \/ \E t \in Threads : Cas!CasAcquire(t) \/ Cas!CasRelease(t)
BY DEF Cas!Next, Cas!Step, Cas!MainStep, Cas!Terminated, Cas!CreateThreads,
       Cas!Create, Cas!JoinThreads, Cas!Join, Cas!Load, Cas!Store,
       Cas!Goto, Cas!mainVars, Cas!counterVars, Cas!Threads, Cas!T1, Cas!T2,
       Common, MainStep, CreateThreads, Create, JoinThreads, Join, Load, Store, Goto,
       mainVars, counterVars, Threads, T1, T2

(* Every step of mutex.c preserves the strengthening. *)
LEMMA FutexInductive == Inductive /\ [Futex!Next]_counterVars => Inductive'
<1> SUFFICES ASSUME Inductive, [Futex!Next]_counterVars
             PROVE  Inductive'
  OBVIOUS
<1>0. CASE Common
  BY <1>0, CommonInductive
<1> USE CountAssumption
    DEF Inductive, TypeOK, MutualExclusion, NoLostWakeup, Asleep,
        InCriticalSection, Effective, Threads, T1, T2, STATUS_LOCK,
        STATUS_UNLOCK, NotPrinted, mainVars, Futex!mainVars, Futex!Goto,
        Futex!STATUS_LOCK, Futex!STATUS_UNLOCK, Futex!Asleep, Futex!Threads, Futex!T1, Futex!T2
<1>1. ASSUME NEW t \in Threads, Futex!CasAcquire(t) PROVE Inductive'
  BY <1>1 DEF Futex!CasAcquire
<1>2. ASSUME NEW t \in Threads, Futex!FutexWait(t) PROVE Inductive'
  BY <1>2 DEF Futex!FutexWait
<1>3. ASSUME NEW t \in Threads, Futex!SpuriousWake(t) PROVE Inductive'
  BY <1>3 DEF Futex!SpuriousWake
<1>4. ASSUME NEW t \in Threads, Futex!CasRelease(t) PROVE Inductive'
  BY <1>4 DEF Futex!CasRelease, EndIteration, AfterIteration, Futex!EndIteration, Futex!AfterIteration
<1>5. ASSUME NEW t \in Threads, Futex!FutexWake(t) PROVE Inductive'
  BY <1>5 DEF Futex!FutexWake, AfterIteration, Futex!AfterIteration
<1> QED
  BY <1>0, <1>1, <1>2, <1>3, <1>4, <1>5, FutexSteps

(* Every step of spinlock.c preserves the strengthening; nobody sleeps. *)
LEMMA CasInductive ==
    Inductive /\ Asleep = {} /\ [Cas!Next]_counterVars => Inductive' /\ Asleep' = {}
<1> SUFFICES ASSUME Inductive, Asleep = {}, [Cas!Next]_counterVars
             PROVE  Inductive' /\ Asleep' = {}
  OBVIOUS
<1>0. CASE Common
  BY <1>0, CommonInductive
<1> USE CountAssumption
    DEF Inductive, TypeOK, MutualExclusion, NoLostWakeup, Asleep,
        InCriticalSection, Effective, Threads, T1, T2, STATUS_LOCK,
        STATUS_UNLOCK, NotPrinted, mainVars, Cas!mainVars, Cas!Goto,
        Cas!STATUS_LOCK, Cas!STATUS_UNLOCK
<1>1. ASSUME NEW t \in Threads, Cas!CasAcquire(t) PROVE Inductive' /\ Asleep' = {}
  BY <1>1 DEF Cas!CasAcquire
<1>2. ASSUME NEW t \in Threads, Cas!CasRelease(t) PROVE Inductive' /\ Asleep' = {}
  BY <1>2 DEF Cas!CasRelease, EndIteration, AfterIteration, Cas!EndIteration, Cas!AfterIteration
<1> QED
  BY <1>0, <1>1, <1>2, CasSteps

(* The strengthening holds throughout every execution of mutex.c ... *)
THEOREM FutexAlwaysInductive == Futex!SafeSpec => []Inductive
<1>1. Futex!CounterInit => Inductive
  BY InitInductive DEF Futex!CounterInit, CounterInit, Futex!Threads, Threads, Futex!T1, T1,
     Futex!T2, T2, Futex!STATUS_UNLOCK, STATUS_UNLOCK, Futex!NotPrinted, NotPrinted
<1>2. Inductive /\ [Futex!Next]_(Futex!counterVars) => Inductive'
  BY FutexInductive DEF Futex!counterVars, counterVars, Futex!mainVars, mainVars
<1> QED
  BY <1>1, <1>2, PTL DEF Futex!SafeSpec

(* ... and of spinlock.c. *)
THEOREM CasAlwaysInductive == Cas!SafeSpec => []Inductive
<1>1. Cas!CounterInit => Inductive /\ Asleep = {}
  BY InitInductive DEF Cas!CounterInit, CounterInit, Cas!Threads, Threads, Cas!T1, T1,
     Cas!T2, T2, Cas!STATUS_UNLOCK, STATUS_UNLOCK, Cas!NotPrinted, NotPrinted
<1>2. Inductive /\ Asleep = {} /\ [Cas!Next]_(Cas!counterVars)
      => (Inductive /\ Asleep = {})'
  BY CasInductive DEF Cas!counterVars, counterVars, Cas!mainVars, mainVars
<1> QED
  BY <1>1, <1>2, PTL DEF Cas!SafeSpec

(* Neither lock ever lets both threads into the section that holds           *)
(* ++counter.                                                                *)
THEOREM LocksExclude ==
    (Futex!SafeSpec => []MutualExclusion) /\ (Cas!SafeSpec => []MutualExclusion)
BY FutexAlwaysInductive, CasAlwaysInductive, PTL DEF Inductive

(* A thread sleeps in FUTEX_WAIT on a free mutex only while the FUTEX_WAKE   *)
(* of mutex_unlock is still to come.                                         *)
THEOREM NoWakeupIsLost == Futex!SafeSpec => []NoLostWakeup
BY FutexAlwaysInductive, PTL DEF Inductive

(* What main of either program prints is 2 * COUNT_ITERATION. *)
THEOREM PrintsTheTotal ==
    (Futex!SafeSpec => []PrintedTotal) /\ (Cas!SafeSpec => []PrintedTotal)
<1>1. Inductive => PrintedTotal
  BY CountAssumption
     DEF Inductive, TypeOK, PrintedTotal, Effective, Threads, T1, T2
<1> QED
  BY <1>1, FutexAlwaysInductive, CasAlwaysInductive, PTL
-----------------------------------------------------------------------------
(* A step that keeps counter, the set of started threads and the number of   *)
(* effective iterations is invisible.                                        *)
LEMMA Invisible ==
    /\ counter' = counter
    /\ \A t \in Threads : /\ Effective(t)' = Effective(t)
                          /\ pc'[t] = "unborn" <=> pc[t] = "unborn"
    => UNCHANGED Abstract!avars
BY Zenon DEF Abstract!avars

(* A step both programs have is, under the mapping of Abstract, one          *)
(* increment, the start of one thread, or invisible.                         *)
LEMMA CommonRefines ==
    Inductive /\ Common => [Abstract!ANext]_(Abstract!avars)
<1> SUFFICES ASSUME Inductive, Common
             PROVE  [Abstract!ANext]_(Abstract!avars)
  OBVIOUS
<1> DEFINE Iter == [t \in Threads |-> Effective(t)]
           Started == {t \in Threads : pc[t] # "unborn"}
<1> USE DEF Inductive, TypeOK, Goto
<1>1. ASSUME NEW t \in Threads, Load(t) PROVE UNCHANGED Abstract!avars
  BY <1>1, Invisible DEF Load, Effective
<1>2. ASSUME NEW t \in Threads, Store(t) PROVE Abstract!AIncrement(t)
  <2>1. counter' = counter + 1
    BY <1>2 DEF Store
  <2>2. /\ t \in Started
        /\ Started' = Started
    BY <1>2 DEF Store
  <2>3. Iter[t] < COUNT_ITERATION
    BY <1>2 DEF Store, Effective
  <2>4. Iter' = [Iter EXCEPT ![t] = @ + 1]
    <3>1. Effective(t)' = Effective(t) + 1
      BY <1>2 DEF Store, Effective
    <3>2. \A u \in Threads \ {t} : Effective(u)' = Effective(u)
      BY <1>2 DEF Store, Effective
    <3> HIDE DEF Inductive, TypeOK, Goto
    <3> QED
      BY <3>1, <3>2, Zenon
  <2> QED
    BY <2>1, <2>2, <2>3, <2>4 DEF Abstract!AIncrement
<1>3. ASSUME NEW t \in Threads, pc[t] = "unborn", Goto(t, "cas"),
             UNCHANGED <<counter, iteration>>
      PROVE  Abstract!AStart(t)
  <2>1. Iter' = Iter
    BY <1>3 DEF Effective
  <2>2. t \notin Started /\ Started' = Started \cup {t}
    BY <1>3
  <2> QED
    BY <1>3, <2>1, <2>2 DEF Abstract!AStart
<1>4. ASSUME UNCHANGED <<counter, iteration, pc>> PROVE UNCHANGED Abstract!avars
  BY <1>4, Invisible DEF Effective
<1>5. CASE CreateThreads
  <2>1. \/ \E t \in Threads : /\ pc[t] = "unborn"
                             /\ Goto(t, "cas")
                             /\ UNCHANGED <<counter, iteration>>
        \/ UNCHANGED <<counter, iteration, pc>>
    BY <1>5 DEF CreateThreads, Create, Threads, T1, T2
  <2> QED
    BY <2>1, <1>3, <1>4 DEF Abstract!ANext
<1>6. CASE JoinThreads
  BY <1>6, <1>4 DEF JoinThreads
<1>7. CASE UNCHANGED counterVars
  BY <1>7, <1>4 DEF counterVars
<1> QED
  BY <1>1, <1>2, <1>5, <1>6, <1>7 DEF Common, MainStep, Abstract!ANext

(* The steps of mutex_lock and mutex_unlock are invisible. *)
LEMMA FutexRefines ==
    Inductive /\ [Futex!Next]_counterVars => [Abstract!ANext]_(Abstract!avars)
<1> SUFFICES ASSUME Inductive, [Futex!Next]_counterVars
             PROVE  [Abstract!ANext]_(Abstract!avars)
  OBVIOUS
<1>0. CASE Common
  BY <1>0, CommonRefines
<1> USE DEF Inductive, TypeOK, Effective, Futex!Goto
<1>1. ASSUME NEW t \in Threads, Futex!CasAcquire(t) PROVE UNCHANGED Abstract!avars
  BY <1>1, Invisible DEF Futex!CasAcquire
<1>2. ASSUME NEW t \in Threads, Futex!FutexWait(t) PROVE UNCHANGED Abstract!avars
  BY <1>2, Invisible DEF Futex!FutexWait
<1>3. ASSUME NEW t \in Threads, Futex!SpuriousWake(t) PROVE UNCHANGED Abstract!avars
  BY <1>3, Invisible DEF Futex!SpuriousWake
<1>4. ASSUME NEW t \in Threads, Futex!CasRelease(t) PROVE UNCHANGED Abstract!avars
  BY <1>4, Invisible DEF Futex!CasRelease, InCriticalSection, Futex!STATUS_LOCK,
     STATUS_LOCK
<1>5. ASSUME NEW t \in Threads, Futex!FutexWake(t) PROVE UNCHANGED Abstract!avars
  BY <1>5, Invisible DEF Futex!FutexWake, Futex!Asleep, Futex!AfterIteration
<1> QED
  BY <1>0, <1>1, <1>2, <1>3, <1>4, <1>5, FutexSteps

(* The steps of spinlock_lock and spinlock_unlock are invisible. *)
LEMMA CasRefines ==
    Inductive /\ [Cas!Next]_counterVars => [Abstract!ANext]_(Abstract!avars)
<1> SUFFICES ASSUME Inductive, [Cas!Next]_counterVars
             PROVE  [Abstract!ANext]_(Abstract!avars)
  OBVIOUS
<1>0. CASE Common
  BY <1>0, CommonRefines
<1> USE DEF Inductive, TypeOK, Effective, Cas!Goto
<1>1. ASSUME NEW t \in Threads, Cas!CasAcquire(t) PROVE UNCHANGED Abstract!avars
  BY <1>1, Invisible DEF Cas!CasAcquire
<1>2. ASSUME NEW t \in Threads, Cas!CasRelease(t) PROVE UNCHANGED Abstract!avars
  BY <1>2, Invisible DEF Cas!CasRelease, Cas!EndIteration, Cas!AfterIteration
<1> QED
  BY <1>0, <1>1, <1>2, CasSteps

(* The threads of both programs see an atomic counter: the safety part of    *)
(* ImplementsAtomicCounter, for every COUNT_ITERATION.                       *)
THEOREM LocksRefineAtomicCounter ==
    /\ Futex!SafeSpec => Abstract!ASafeSpec
    /\ Cas!SafeSpec => Abstract!ASafeSpec
<1>1. CounterInit => Abstract!AInit
  BY DEF CounterInit, Abstract!AInit, Effective
<1>2. Futex!CounterInit => CounterInit
  BY DEF Futex!CounterInit, CounterInit, Futex!Threads, Threads, Futex!T1, T1,
     Futex!T2, T2, Futex!STATUS_UNLOCK, STATUS_UNLOCK, Futex!NotPrinted, NotPrinted
<1>3. Cas!CounterInit => CounterInit
  BY DEF Cas!CounterInit, CounterInit, Cas!Threads, Threads, Cas!T1, T1,
     Cas!T2, T2, Cas!STATUS_UNLOCK, STATUS_UNLOCK, Cas!NotPrinted, NotPrinted
<1>4. Inductive /\ [Futex!Next]_(Futex!counterVars) => [Abstract!ANext]_(Abstract!avars)
  BY FutexRefines DEF Futex!counterVars, counterVars, Futex!mainVars, mainVars
<1>5. Inductive /\ [Cas!Next]_(Cas!counterVars) => [Abstract!ANext]_(Abstract!avars)
  BY CasRefines DEF Cas!counterVars, counterVars, Cas!mainVars, mainVars
<1> QED
  BY <1>1, <1>2, <1>3, <1>4, <1>5, FutexAlwaysInductive, CasAlwaysInductive, PTL
     DEF Futex!SafeSpec, Cas!SafeSpec, Abstract!ASafeSpec
====
