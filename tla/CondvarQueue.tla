---------------------------- MODULE CondvarQueue -----------------------------
(***************************************************************************)
(* semestr2/Task2/Task2_2/cond-var: the queue behind one mutex and one       *)
(* condition variable that the writer and the reader both wait on and        *)
(* signal.  The flag shared_data makes them alternate.  queue_add allocates  *)
(* under the lock; queue_get reads the value under it.                       *)
(*                                                                           *)
(* The steps between the tests and the flag are those of QueueSteps.         *)
(***************************************************************************)
EXTENDS QueueSteps

CONSTANT MaxSpurious  \* bound: spurious returns of pthread_cond_wait

ASSUME MaxSpuriousAssumption == MaxSpurious \in Nat

VARIABLES shared_data,   \* "OK": the writer's turn, "NOK": the reader's
          waiting,       \* threads asleep in pthread_cond_wait
          spurious       \* spurious returns so far

condVars == <<shared_data, waiting, spurious>>
allVars == <<vars, condVars>>

CInit ==
    /\ Init
    /\ shared_data = "OK"
    /\ waiting = {}
    /\ spurious = 0

CondIdle == UNCHANGED condVars
-----------------------------------------------------------------------------
(* The condition variable.                                                   *)

\* pthread_cond_wait releases the mutex and sleeps, atomically.
Sleep(t) ==
    /\ holder' = "none"
    /\ waiting' = waiting \cup {t}
    /\ UNCHANGED <<shared_data, spurious>>

SignalNobody == CondIdle

\* pthread_cond_signal wakes one sleeper, if there is one.
Signal ==
    IF waiting = {}
    THEN CondIdle
    ELSE /\ \E t \in waiting : waiting' = waiting \ {t}
         /\ UNCHANGED <<shared_data, spurious>>

SpuriousWake ==
    /\ spurious < MaxSpurious
    /\ \E t \in waiting : waiting' = waiting \ {t}
    /\ spurious' = spurious + 1
    /\ UNCHANGED <<vars, shared_data>>
-----------------------------------------------------------------------------
(* The writer.                                                               *)

WriterFrame == UNCHANGED <<readerVars, monitorVars, mainVars, fault>>

CAddLock ==
    /\ wpc = "lock"
    /\ i < MaxVal
    /\ holder = "none"
    /\ holder' = "writer"
    /\ wpc' = "test"
    /\ WriterFrame /\ CondIdle
    /\ UNCHANGED <<queueVars, heapVars, new, i, chain>>

CAddTestIgnoresTurn ==
    /\ wpc = "test"
    /\ IF count = MaxCount
       THEN wpc' = "wait" /\ Sleep("writer")
       ELSE wpc' = "malloc" /\ UNCHANGED holder /\ CondIdle
    /\ WriterFrame
    /\ UNCHANGED <<queueVars, heapVars, new, i, chain>>

\* The loop around pthread_cond_wait.
CAddTest ==
    /\ wpc = "test"
    /\ IF count = MaxCount \/ shared_data = "NOK"
       THEN wpc' = "wait" /\ Sleep("writer")
       ELSE wpc' = "malloc" /\ UNCHANGED holder /\ CondIdle
    /\ WriterFrame
    /\ UNCHANGED <<queueVars, heapVars, new, i, chain>>

\* pthread_cond_wait returns with the mutex.
CAddRelock ==
    /\ wpc = "wait"
    /\ "writer" \notin waiting
    /\ holder = "none"
    /\ holder' = "writer"
    /\ wpc' = "test"
    /\ WriterFrame /\ CondIdle
    /\ UNCHANGED <<queueVars, heapVars, new, i, chain>>

\* A malloc that fails aborts the process.
CAddMalloc ==
    /\ wpc = "malloc"
    /\ \/ /\ \E n \in Nodes \ used :
                /\ used' = used \cup {n}
                /\ val' = [val EXCEPT ![n] = i]
                /\ next' = [next EXCEPT ![n] = Null]
                /\ new' = n
          /\ wpc' = "link"
       \/ /\ wpc' = "aborted"
          /\ UNCHANGED <<heapVars, new>>
    /\ WriterFrame /\ CondIdle
    /\ UNCHANGED <<queueVars, holder, i, chain>>

CAddFlag ==
    /\ wpc = "unlock"
    /\ shared_data' = "NOK"
    /\ wpc' = "signal"
    /\ WriterFrame
    /\ UNCHANGED <<queueVars, heapVars, holder, new, i, chain, waiting, spurious>>

CAddSignal ==
    /\ wpc = "signal"
    /\ Signal
    /\ wpc' = "post"
    /\ WriterFrame
    /\ UNCHANGED <<queueVars, heapVars, holder, new, i, chain>>

\* queue_add returns 1 and the writer goes on to the next value.
CAddUnlock ==
    /\ wpc = "post"
    /\ holder' = "none"
    /\ i' = i + 1
    /\ new' = Null
    /\ wpc' = "lock"
    /\ WriterFrame /\ CondIdle
    /\ UNCHANGED <<queueVars, heapVars, chain>>

queue_add ==
    \/ CAddLock \/ CAddTest \/ CAddRelock \/ CAddMalloc
    \/ CondIdle /\ (AddLink \/ AddCount \/ AddStat)
    \/ CAddFlag \/ CAddSignal \/ CAddUnlock

writer == queue_add
-----------------------------------------------------------------------------
(* The reader.                                                               *)

ReaderFrame == UNCHANGED <<writerVars, monitorVars, mainVars, expected, error>>

CGetLock ==
    /\ rpc = "lock"
    /\ holder = "none"
    /\ holder' = "reader"
    /\ rpc' = "test"
    /\ ReaderFrame /\ CondIdle
    /\ UNCHANGED <<queueVars, heapVars, tmp, got, fault, chain>>

CGetTest ==
    /\ rpc = "test"
    /\ IF count = 0 \/ shared_data = "OK"
       THEN rpc' = "wait" /\ Sleep("reader")
       ELSE rpc' = "unlink" /\ UNCHANGED holder /\ CondIdle
    /\ ReaderFrame
    /\ UNCHANGED <<queueVars, heapVars, tmp, got, fault, chain>>

CGetRelock ==
    /\ rpc = "wait"
    /\ "reader" \notin waiting
    /\ holder = "none"
    /\ holder' = "reader"
    /\ rpc' = "test"
    /\ ReaderFrame /\ CondIdle
    /\ UNCHANGED <<queueVars, heapVars, tmp, got, fault, chain>>

\* tmp = q->first; *val = tmp->val; q->first = q->first->next.
CGetUnlink ==
    /\ rpc = "unlink"
    /\ tmp' = first
    /\ got' = IF first \in Nodes THEN val[first] ELSE NoVal
    /\ first' = IF first \in Nodes THEN next[first] ELSE Null
    /\ fault' = (fault \/ first \notin used)
    /\ chain' = IF chain = <<>> THEN chain ELSE Tail(chain)
    /\ rpc' = "count"
    /\ ReaderFrame /\ CondIdle
    /\ UNCHANGED <<last, count, add_count, get_count, heapVars, holder>>

CGetFlagForgotten ==
    /\ rpc = "unlock"
    /\ rpc' = "signal"
    /\ ReaderFrame /\ CondIdle
    /\ UNCHANGED <<queueVars, heapVars, holder, tmp, got, fault, chain>>

CGetFlag ==
    /\ rpc = "unlock"
    /\ shared_data' = "OK"
    /\ rpc' = "signal"
    /\ ReaderFrame
    /\ UNCHANGED <<queueVars, heapVars, holder, tmp, got, fault, chain, waiting,
                   spurious>>

CGetSignal ==
    /\ rpc = "signal"
    /\ Signal
    /\ rpc' = "post"
    /\ ReaderFrame
    /\ UNCHANGED <<queueVars, heapVars, holder, tmp, got, fault, chain>>

CGetUnlock ==
    /\ rpc = "post"
    /\ holder' = "none"
    /\ rpc' = "free"
    /\ ReaderFrame /\ CondIdle
    /\ UNCHANGED <<queueVars, heapVars, tmp, got, fault, chain>>

queue_get ==
    \/ CGetLock \/ CGetTest \/ CGetRelock \/ CGetUnlink
    \/ CondIdle /\ (GetCount \/ GetStat)
    \/ CGetFlag \/ CGetSignal \/ CGetUnlock
    \/ CondIdle /\ GetFree

reader == queue_get \/ (ReaderCheck /\ CondIdle)
-----------------------------------------------------------------------------
qmonitor ==
    /\ CondIdle
    /\ \/ MonitorTest("count")
       \/ MonitorCount \/ MonitorAdd \/ MonitorGet \/ MonitorPrint("test")

CCreateWriter ==
    /\ main = "create_writer"
    /\ \/ wpc' = "lock" /\ main' = "create_reader"
       \/ UNCHANGED wpc /\ main' = "destroy"
    /\ UNCHANGED <<MainRest, used, holder, cursor, stop_flag, fault>>

queue_destroy ==
    DestroyBegin \/ DestroyJoin("free_nodes") \/ DestroyNode \/ DestroyEnd

Main ==
    /\ CondIdle
    /\ InitLock \/ CCreateWriter \/ CreateReader \/ queue_destroy

\* The process has ended, the writer has reached the bound, or the writer, alone
\* after a failed pthread_create, waits for a reader that does not exist.
CFinished ==
    /\ \/ ~Alive
       \/ wpc = "lock" /\ i = MaxVal
       \/ main = "join_writer" /\ wpc = "wait"
    /\ UNCHANGED allVars

Next ==
    \/ CFinished
    \/ Alive /\ (writer \/ reader \/ SpuriousWake \/ qmonitor \/ Main)

\* Every thread keeps running; nothing is assumed about who gets the mutex.
Fairness ==
    /\ WF_allVars(Alive /\ writer)
    /\ WF_allVars(Alive /\ reader)
    /\ WF_allVars(Alive /\ Main)

Spec == CInit /\ [][Next]_allVars

FairSpec == Spec /\ Fairness
-----------------------------------------------------------------------------
(* The flag and the list tell the same story whenever the mutex is free: one *)
(* node when it is the reader's turn, none when it is the writer's.  The     *)
(* queue never holds more than one value, whatever max_count is.             *)
TurnMatchesQueue ==
    Open /\ holder = "none" =>
        /\ count = (IF shared_data = "NOK" THEN 1 ELSE 0)
        /\ Len(chain) = count

(* The writer and the reader are never asleep together: the one signal on    *)
(* the shared condition variable never goes to the wrong thread.             *)
NeverBothAsleep == waiting # {"writer", "reader"}

(* While both threads run every value the writer adds reaches the reader,    *)
(* with no assumption about the order in which threads get the mutex.        *)
EveryValueArrives ==
    \A v \in 0..(MaxVal - 1) : i > v ~> expected > v \/ main # "join" \/ ~Alive

CPublished == wpc \in {"count", "stat", "unlock", "signal", "post"}

Slot == INSTANCE BoundedFifo WITH
    Capacity <- 1,
    fifo <- [k \in 1..Len(chain) |-> val[chain[k]]],
    hand <- got,
    sent <- IF CPublished THEN i + 1 ELSE i,
    open <- Open

(* Until it is torn down the queue is a one-place first-in first-out buffer. *)
ImplementsSlot == Slot!FSpec
-----------------------------------------------------------------------------
(* The inductive strengthening of the properties.                            *)

WriterInside == wpc \in {"test", "malloc", "link"} \/ CPublished
ReaderInside == rpc \in {"test", "unlink", "count", "stat", "unlock", "signal",
                         "post"}
CHolding == rpc \in {"count", "stat", "unlock", "signal", "post", "free"}

\* The list has its one node: the writer has linked it and not yet turned the
\* flag, or it is the reader's turn and the reader has not yet unlinked it.
HasNode ==
    \/ wpc \in {"count", "stat", "unlock"}
    \/ shared_data = "NOK" /\ rpc \notin {"count", "stat", "unlock"}

\* Values the reader has unlinked.
CTaken == IF CHolding \/ rpc = "check" THEN expected + 1 ELSE expected

(* The mutex excludes, main creates the threads in order, and a thread that  *)
(* pthread_cond_wait has not yet woken is in pthread_cond_wait.              *)
CLockInv ==
    /\ waiting \subseteq {"writer", "reader"}
    /\ shared_data \in {"OK", "NOK"}
    /\ WriterInside => holder = "writer"
    /\ ReaderInside => holder = "reader"
    /\ "writer" \in waiting => wpc = "wait"
    /\ "reader" \in waiting => rpc = "wait"
    /\ main \in {"init_lock", "create_writer"} => wpc = "unborn"
    /\ main # "join" => rpc = "unborn"
    /\ wpc = "unborn" => first = Null /\ cursor = Null
    /\ main \in {"create_reader", "join"} => wpc # "unborn"

(* The flag says whose turn it is, count follows it, and a thread sleeps     *)
(* only when it is the other's turn or the other is about to signal.         *)
CTurnInv ==
    /\ wpc \in {"malloc", "link", "count", "stat", "unlock"} => shared_data = "OK"
    /\ wpc \in {"signal", "post"} => shared_data = "NOK"
    /\ rpc \in {"unlink", "count", "stat", "unlock"} => shared_data = "NOK"
    /\ rpc \in {"signal", "post"} => shared_data = "OK"
    /\ "writer" \in waiting => shared_data = "NOK" \/ rpc = "signal"
    /\ "reader" \in waiting => shared_data = "OK" \/ wpc = "signal"
    /\ count = IF \/ wpc \in {"stat", "unlock"}
                  \/ shared_data = "NOK" /\ rpc \notin {"stat", "unlock"}
               THEN 1 ELSE 0

(* The list and the ownership of the nodes.                       *)
CListInv ==
    /\ IF HasNode
       THEN first \in Nodes /\ chain = <<first>> /\ next[first] = Null
       ELSE first = Null /\ chain = <<>>
    /\ next \in [Nodes -> Nodes \cup {Null}] /\ val \in [Nodes -> Int]
    /\ used \subseteq Nodes
    /\ used = ({first, new, tmp} \ {Null})
    /\ IF wpc = "link" THEN new \in Nodes \ {first} /\ next[new] = Null
       ELSE IF CPublished THEN new = first ELSE new = Null
    /\ IF CHolding THEN tmp \in Nodes \ {first, new} ELSE tmp = Null

(* The values: consecutive from the reader's hand through the list to the    *)
(* writer.                                                                   *)
CValueInv ==
    /\ i \in Nat /\ expected \in Nat
    /\ wpc = "link" => val[new] = i
    /\ HasNode => val[first] = CTaken
    /\ CTaken + (IF HasNode THEN 1 ELSE 0) = IF CPublished THEN i + 1 ELSE i
    /\ got = IF CHolding \/ rpc = "check" THEN expected ELSE NoVal

(* The mutex and the flag survive even queue_destroy. *)
CondInv ==
    /\ CLockInv
    /\ CTurnInv
    /\ Open => CListInv /\ CValueInv
    /\ ~error
    /\ NoTouchAfterFree
=============================================================================
