-------------------------- MODULE CondvarEchoProofs -------------------------
(***************************************************************************)
(* The theorems about the queue of semestr2/Task2/Task2_2/cond-var, for    *)
(* every set of addresses, every max_count, every bound on the writer and  *)
(* any number of spurious wake-ups: the flag and the list agree, one       *)
(* signal is enough, and the queue is a one-place buffer.  After them,     *)
(* those about the datagram echo of semestr1/Task6_1, for any number of    *)
(* clients, any lines, any receive queue and a server that dies as often   *)
(* as it likes.                                                            *)
(***************************************************************************)
EXTENDS CondvarQueue, UdpEcho, TLAPS

(* Every step of queue_add keeps the invariant. *)
LEMMA WriterInv == CondInv /\ writer => CondInv'
<1> SUFFICES ASSUME CondInv, writer PROVE CondInv'
  OBVIOUS
<1> USE NullAssumption, MaxCountAssumption
    DEF CondInv, CLockInv, CTurnInv, CListInv, CValueInv, HasNode, CHolding,
        CTaken, CPublished, WriterInside, ReaderInside, Open, NoTouchAfterFree,
        queueVars, heapVars, writerVars, readerVars, monitorVars, mainVars,
        WriterFrame, CondIdle, condVars
<1>1. CASE CAddLock
  BY <1>1 DEF CAddLock
<1>2. CASE CAddTest
  BY <1>2 DEF CAddTest, Sleep
<1>3. CASE CAddRelock
  BY <1>3 DEF CAddRelock
<1>4. CASE CAddMalloc
  <2>1. CASE wpc' = "aborted"
    BY <1>4, <2>1 DEF CAddMalloc
  <2>2. CASE wpc' = "link"
    <3>1. PICK n \in Nodes \ used :
             /\ used' = used \cup {n}
             /\ val' = [val EXCEPT ![n] = i]
             /\ next' = [next EXCEPT ![n] = Null]
             /\ new' = n
      BY <1>4, <2>2 DEF CAddMalloc
    <3>2. /\ wpc = "malloc" /\ WriterFrame /\ CondIdle
          /\ UNCHANGED <<queueVars, holder, i, chain>>
      BY <1>4 DEF CAddMalloc
    <3> QED
      BY <2>2, <3>1, <3>2
  <2> QED
    BY <1>4, <2>1, <2>2 DEF CAddMalloc
<1>5. CASE CondIdle /\ AddLink
  <2>1. CASE Open
    <3>1. /\ wpc = "link" /\ ~HasNode /\ holder = "writer" /\ shared_data = "OK"
          /\ first = Null /\ chain = <<>> /\ new \in Nodes
      BY <1>5, <2>1 DEF AddLink
    <3>2. chain' = <<new>> /\ first' = new /\ next' = next /\ fault' = fault
      BY <1>5, <3>1 DEF AddLink
    <3>3. /\ wpc' = "count" /\ CondIdle
          /\ UNCHANGED <<count, val, used, holder, new, i, readerVars, mainVars>>
      BY <1>5 DEF AddLink
    <3>4. CLockInv' /\ ~error' /\ NoTouchAfterFree'
      BY <2>1, <3>1, <3>2, <3>3
    <3>5. CTurnInv' /\ CListInv'
      BY <2>1, <3>1, <3>2, <3>3
    <3>6. CValueInv'
      BY <2>1, <3>1, <3>2, <3>3
    <3> QED
      BY <3>4, <3>5, <3>6
  <2>2. CASE ~Open
    BY <1>5, <2>2 DEF AddLink
  <2> QED
    BY <2>1, <2>2
<1>6. CASE CondIdle /\ AddCount
  BY <1>6 DEF AddCount
<1>7. CASE CondIdle /\ AddStat
  BY <1>7 DEF AddStat
<1>8. CASE CAddFlag
  BY <1>8 DEF CAddFlag
<1>9. CASE CAddSignal
  BY <1>9 DEF CAddSignal, Signal
<1>10. CASE CAddUnlock
  BY <1>10 DEF CAddUnlock
<1> QED
  BY <1>1, <1>2, <1>3, <1>4, <1>5, <1>6, <1>7, <1>8, <1>9, <1>10
     DEF writer, queue_add

(* Every step of queue_get and of the reader keeps it. *)
LEMMA ReaderInv == CondInv /\ reader => CondInv'
<1> SUFFICES ASSUME CondInv, reader PROVE CondInv'
  OBVIOUS
<1> USE NullAssumption, MaxCountAssumption
    DEF CondInv, CLockInv, CTurnInv, CListInv, CValueInv, HasNode, CHolding,
        CTaken, CPublished, WriterInside, ReaderInside, Open, NoTouchAfterFree,
        queueVars, heapVars, writerVars, readerVars, monitorVars, mainVars,
        ReaderFrame, CondIdle, condVars
<1>1. CASE CGetLock
  BY <1>1 DEF CGetLock
<1>2. CASE CGetTest
  <2>0. rpc = "test" /\ main = "join" /\ Open /\ holder = "reader" /\ ~WriterInside
    BY <1>2 DEF CGetTest
  <2>1. CASE rpc' = "wait"
    <3>1. /\ holder' = "none" /\ waiting' = waiting \cup {"reader"}
          /\ UNCHANGED <<shared_data, spurious, queueVars, heapVars, tmp, got, fault,
                         chain>>
          /\ ReaderFrame
      BY <1>2, <2>1 DEF CGetTest, Sleep
    <3>2. shared_data = "OK"
      BY <1>2, <2>0, <2>1 DEF CGetTest
    <3>3. CLockInv' /\ CTurnInv'
      BY <2>0, <2>1, <3>1, <3>2
    <3>4. CListInv' /\ ~error' /\ NoTouchAfterFree'
      BY <2>0, <2>1, <3>1, <3>2
    <3>5. CValueInv'
      BY <2>0, <2>1, <3>1, <3>2
    <3> QED
      BY <3>3, <3>4, <3>5
  <2>2. CASE rpc' = "unlink"
    BY <1>2, <2>2 DEF CGetTest
  <2> QED
    BY <1>2, <2>1, <2>2 DEF CGetTest
<1>3. CASE CGetRelock
  BY <1>3 DEF CGetRelock
<1>4. CASE CGetUnlink
  <2>1. main = "join" /\ Open
    BY <1>4 DEF CGetUnlink
  <2>2. /\ rpc = "unlink" /\ HasNode /\ holder = "reader" /\ shared_data = "NOK"
        /\ first \in Nodes /\ first \in used /\ chain = <<first>> /\ next[first] = Null
    BY <1>4, <2>1 DEF CGetUnlink
  <2>3. tmp' = first /\ got' = val[first] /\ first' = Null /\ chain' = <<>>
    BY <1>4, <2>2 DEF CGetUnlink
  <2>8. ~fault'
    BY Zenon, <1>4, <2>1, <2>2 DEF CGetUnlink
  <2>4. /\ rpc' = "count" /\ CondIdle /\ ReaderFrame
        /\ UNCHANGED <<count, heapVars, holder>>
    BY <1>4 DEF CGetUnlink
  <2>5. CLockInv' /\ ~error' /\ NoTouchAfterFree'
    BY <2>1, <2>2, <2>3, <2>4, <2>8
  <2>6. CTurnInv' /\ CListInv'
    BY <2>1, <2>2, <2>3, <2>4
  <2>7. CValueInv'
    BY <2>1, <2>2, <2>3, <2>4
  <2> QED
    BY <2>5, <2>6, <2>7
<1>5. CASE CondIdle /\ GetCount
  BY <1>5 DEF GetCount
<1>6. CASE CondIdle /\ GetStat
  BY <1>6 DEF GetStat
<1>7. CASE CGetFlag
  BY <1>7 DEF CGetFlag
<1>8. CASE CGetSignal
  BY <1>8 DEF CGetSignal, Signal
<1>9. CASE CGetUnlock
  BY <1>9 DEF CGetUnlock
<1>10. CASE CondIdle /\ GetFree
  BY <1>10 DEF GetFree
<1>11. CASE CondIdle /\ ReaderCheck
  <2>1. main = "join" /\ Open /\ rpc = "check" /\ got = expected /\ expected \in Nat
    BY <1>11 DEF ReaderCheck
  <2>2. ~error'
    BY Zenon, <1>11, <2>1 DEF ReaderCheck
  <2>3. /\ rpc' = "lock" /\ CondIdle /\ got' = NoVal /\ expected' = expected + 1
        /\ UNCHANGED <<queueVars, heapVars, holder, writerVars, tmp, mainVars, fault,
                       chain>>
    BY <1>11, <2>1 DEF ReaderCheck
  <2> QED
    BY <2>1, <2>2, <2>3
<1> QED
  BY <1>1, <1>2, <1>3, <1>4, <1>5, <1>6, <1>7, <1>8, <1>9, <1>10, <1>11
     DEF reader, queue_get

(* Every step of main, the monitor's steps and a spurious wake-up keep it.   *)
LEMMA OtherInv ==
    CondInv /\ (Main \/ qmonitor \/ SpuriousWake \/ UNCHANGED allVars) => CondInv'
<1> SUFFICES ASSUME CondInv, Main \/ qmonitor \/ SpuriousWake \/ UNCHANGED allVars
             PROVE  CondInv'
  OBVIOUS
<1> USE NullAssumption, MaxCountAssumption
    DEF CondInv, CLockInv, CTurnInv, CListInv, CValueInv, HasNode, CHolding,
        CTaken, CPublished, WriterInside, ReaderInside, Open, NoTouchAfterFree,
        queueVars, heapVars, writerVars, readerVars, monitorVars, mainVars,
        CondIdle, condVars
<1>1. CASE CondIdle /\ InitLock
  BY <1>1 DEF InitLock, MainRest
<1>2. CASE CondIdle /\ CCreateWriter
  BY <1>2 DEF CCreateWriter, MainRest
<1>3. CASE CondIdle /\ CreateReader
  BY <1>3 DEF CreateReader
<1>4. CASE CondIdle /\ queue_destroy
  <2>1. ~Open /\ ~Open'
    BY <1>4 DEF queue_destroy, DestroyBegin, DestroyJoin, DestroyNode, DestroyEnd
  <2>2. /\ UNCHANGED <<first, count, holder, wpc, rpc, error, waiting, shared_data>>
        /\ main' \notin {"init_lock", "create_writer", "create_reader", "join"}
        /\ cursor' = cursor \/ cursor' = first \/ wpc # "unborn"
        /\ fault' = fault \/ wpc # "unborn"
    BY <1>4 DEF queue_destroy, DestroyBegin, DestroyJoin, DestroyNode, DestroyEnd,
       MainRest
  <2> QED
    BY <2>1, <2>2
<1>5. CASE UNCHANGED <<MonitorRest, condVars>>
  <2>1. CLockInv' /\ ~error' /\ NoTouchAfterFree' /\ Open' = Open
    BY <1>5 DEF MonitorRest
  <2>2. CTurnInv' /\ (Open => CListInv')
    BY <1>5 DEF MonitorRest
  <2>3. Open => CValueInv'
    BY <1>5 DEF MonitorRest
  <2> QED
    BY <2>1, <2>2, <2>3
<1>6. CASE SpuriousWake
  BY <1>6 DEF SpuriousWake, vars
<1>7. qmonitor \/ UNCHANGED allVars => UNCHANGED <<MonitorRest, condVars>>
  BY DEF qmonitor, MonitorTest, MonitorCount, MonitorAdd, MonitorGet, MonitorPrint,
     MonitorRest, allVars, vars
<1> QED
  BY <1>1, <1>2, <1>3, <1>4, <1>5, <1>6, <1>7 DEF Main

(* The inductive invariant of cond-var/queue-cond-var.c. *)
LEMMA CondInductive == Spec => []CondInv
<1>1. CInit => CondInv
  BY NullAssumption
     DEF CInit, Init, CondInv, CLockInv, CTurnInv, CListInv, CValueInv, HasNode,
         CHolding, CTaken, CPublished, WriterInside, ReaderInside, Open,
         NoTouchAfterFree, NoVal
<1>2. CondInv /\ [Next]_allVars => CondInv'
  BY WriterInv, ReaderInv, OtherInv DEF Next, CFinished
<1> QED
  BY <1>1, <1>2, PTL DEF Spec

(* Whenever the mutex is free the flag says what is in the list: one value   *)
(* or none, whatever max_count is.                                           *)
THEOREM FlagMatchesList == Spec => []TurnMatchesQueue
<1>1. CondInv => TurnMatchesQueue
  BY DEF CondInv, CLockInv, CTurnInv, CListInv, HasNode, WriterInside,
     ReaderInside, CPublished, TurnMatchesQueue
<1> QED
  BY <1>1, CondInductive, PTL

(* The writer and the reader never sleep together: the one signal reaches    *)
(* the thread whose turn it is, spurious wake-ups notwithstanding.           *)
THEOREM OneSignalIsEnough == Spec => []NeverBothAsleep
<1>1. CondInv => NeverBothAsleep
  <2> SUFFICES ASSUME CondInv, waiting = {"writer", "reader"} PROVE FALSE
    BY DEF NeverBothAsleep
  <2>1. wpc = "wait" /\ rpc = "wait"
    BY DEF CondInv, CLockInv
  <2>2. Open
    BY <2>1 DEF CondInv, CLockInv, Open
  <2> QED
    BY <2>1, <2>2 DEF CondInv, CTurnInv
<1> QED
  BY <1>1, CondInductive, PTL

(* The assertions on count hold, the reader never prints ERROR, nothing      *)
(* leaks and nothing freed is touched, as in the other variants.             *)
THEOREM CondvarSafe ==
    Spec => [](AssertionsHold /\ NoReaderError /\ NoLeak /\ NoTouchAfterFree)
<1>1. CondInv => AssertionsHold
  BY MaxCountAssumption DEF CondInv, CTurnInv, AssertionsHold
<1>2. CondInv => NoLeak
  <2> SUFFICES ASSUME CondInv, Open PROVE used = InChain \cup ({new, tmp} \ {Null})
    BY DEF NoLeak
  <2>1. InChain = {first} \ {Null}
    BY NullAssumption DEF CondInv, CListInv, InChain
  <2> QED
    BY <2>1 DEF CondInv, CListInv
<1> QED
  BY <1>1, <1>2, CondInductive, PTL DEF CondInv, NoReaderError
-----------------------------------------------------------------------------
(* The queue is a one-place buffer.                                          *)

(* The state of the abstract buffer under the refinement mapping. *)
CVals == [k \in 1..Len(chain) |-> val[chain[k]]]

CSent == IF CPublished THEN i + 1 ELSE i

CStutter == CVals' = CVals /\ got' = got /\ CSent' = CSent /\ Open' = Open

(* The values of a list of one node. *)
LEMMA OneValue ==
    ASSUME NEW v, NEW n
    PROVE  [k \in 1..Len(<<n>>) |-> v[<<n>>[k]]] = <<v[n]>>
OBVIOUS

(* The values of the empty list. *)
LEMMA NoValue ==
    ASSUME NEW v
    PROVE  [k \in 1..Len(<<>>) |-> v[<<>>[k]]] = <<>>
OBVIOUS

(* Linking the node is a Put of the abstract buffer. *)
LEMMA LinkPuts == CondInv /\ Open /\ AddLink => Slot!Put
<1> SUFFICES ASSUME CondInv, Open, AddLink PROVE Slot!Put
  OBVIOUS
<1> USE DEF queueVars, heapVars, writerVars, readerVars, monitorVars, mainVars
<1>1. wpc = "link" /\ holder = "writer" /\ shared_data = "OK" /\ ~HasNode
  BY DEF CondInv, CLockInv, CTurnInv, WriterInside, HasNode, AddLink
<1>2. chain = <<>> /\ chain' = <<new>> /\ val' = val /\ val[new] = i
  BY <1>1 DEF CondInv, CListInv, CValueInv, AddLink
<1>3. CVals = <<>> /\ CVals' = <<i>>
  BY <1>2, OneValue, NoValue DEF CVals
<1>4. CSent = i /\ CSent' = i + 1 /\ Open' = Open /\ got' = got
  BY DEF AddLink, CSent, CPublished, Open
<1>5. /\ Len(CVals) < 1 /\ CVals' = Append(CVals, CSent) /\ CSent' = CSent + 1
  BY <1>3, <1>4
<1> QED
  BY Zenon, <1>4, <1>5 DEF Slot!Put, CVals, CSent

(* Unlinking it is a Get. *)
LEMMA UnlinkGets == CondInv /\ CGetUnlink => Slot!Get
<1> SUFFICES ASSUME CondInv, CGetUnlink PROVE Slot!Get
  OBVIOUS
<1> USE DEF queueVars, heapVars, writerVars, monitorVars, mainVars, ReaderFrame
<1>1. rpc = "unlink" /\ Open /\ Open' = Open
  BY DEF CondInv, CLockInv, Open, CGetUnlink
<1>2. shared_data = "NOK" /\ HasNode /\ got = NoVal
  BY <1>1 DEF CondInv, CTurnInv, CValueInv, HasNode, CHolding
<1>3. first \in Nodes /\ chain = <<first>> /\ chain' = <<>> /\ val' = val /\ got' = val[first]
  <2>1. first \in Nodes /\ chain = <<first>>
    BY Zenon, <1>1, <1>2 DEF CondInv, CListInv
  <2>3. <<first>> # <<>>
    OBVIOUS
  <2>2. Tail(<<first>>) = <<>>
    OBVIOUS
  <2> QED
    BY <2>1, <2>2, <2>3 DEF CGetUnlink
<1>4. CVals = <<val[first]>> /\ CVals' = <<>>
  BY <1>3, OneValue, NoValue DEF CVals
<1>5. CVals # <<>> /\ got' = Head(CVals) /\ CVals' = Tail(CVals)
  BY <1>3, <1>4
<1>6. CSent' = CSent
  BY DEF CGetUnlink, CSent, CPublished
<1> QED
  BY Zenon, <1>1, <1>2, <1>5, <1>6 DEF Slot!Get, CVals, CSent

(* A value the reader has checked leaves its hand. *)
LEMMA CheckUses == CondInv /\ ReaderCheck => Slot!Use
<1> SUFFICES ASSUME CondInv, ReaderCheck PROVE Slot!Use
  OBVIOUS
<1> USE DEF queueVars, heapVars, writerVars, monitorVars, mainVars
<1>1. Open /\ Open' = Open /\ rpc = "check"
  BY DEF ReaderCheck, CondInv, CLockInv, Open
<1>2. got # NoVal /\ got' = NoVal
  BY <1>1 DEF ReaderCheck, CondInv, CValueInv, NoVal
<1>3. CVals' = CVals /\ CSent' = CSent
  BY DEF ReaderCheck, CVals, CSent, CPublished
<1> QED
  BY Zenon, <1>1, <1>2, <1>3 DEF Slot!Use, CVals, CSent

(* Every other step of the writer is invisible: it allocates only when the   *)
(* list is empty.                                                            *)
LEMMA WriterQuiet == CondInv /\ Open /\ writer /\ ~AddLink => CStutter
<1> SUFFICES ASSUME CondInv, Open, writer, ~AddLink PROVE CStutter
  OBVIOUS
<1> USE DEF queueVars, heapVars, readerVars, monitorVars, mainVars, WriterFrame
<1>1. CASE CAddMalloc
  <2>1. chain = <<>> /\ chain' = <<>>
    BY <1>1 DEF CondInv, CLockInv, CTurnInv, CListInv, HasNode, WriterInside, ReaderInside,
       CAddMalloc
  <2>2. CVals' = CVals
    BY <2>1, NoValue DEF CVals
  <2> QED
    BY <1>1, <2>2 DEF CAddMalloc, CStutter, CSent, CPublished, Open
<1>2. CASE \/ CAddLock \/ CAddTest \/ CAddRelock \/ CAddFlag \/ CAddSignal \/ CAddUnlock
           \/ AddCount \/ AddStat
  <2>1. chain' = chain /\ val' = val /\ got' = got /\ main' = main /\ CSent' = CSent
    BY Zenon, <1>2 DEF CAddLock, CAddTest, CAddRelock, CAddFlag, CAddSignal, CAddUnlock,
       AddCount, AddStat, CSent, CPublished
  <2> QED
    BY <2>1 DEF CStutter, CVals, Open
<1> QED
  BY <1>1, <1>2 DEF writer, queue_add

(* So is every other step of the reader. *)
LEMMA ReaderQuiet ==
    CondInv /\ reader => CGetUnlink \/ ReaderCheck \/ CStutter
<1> SUFFICES ASSUME reader, ~CGetUnlink, ~ReaderCheck PROVE CStutter
  OBVIOUS
<1> USE DEF queueVars, heapVars, writerVars, monitorVars, mainVars, ReaderFrame
<1>1. chain' = chain /\ val' = val /\ got' = got /\ main' = main /\ CSent' = CSent
  BY Zenon DEF reader, queue_get, CGetLock, CGetTest, CGetRelock, CGetFlag, CGetSignal,
     CGetUnlock, GetCount, GetStat, GetFree, CSent, CPublished
<1> QED
  BY <1>1 DEF CStutter, CVals, Open

(* A step of main is invisible or closes the buffer. *)
LEMMA MainCloses ==
    ASSUME CondInv, Open, Main
    PROVE  CStutter \/ Slot!Close
<1> USE DEF queueVars, heapVars, readerVars, monitorVars, MainRest
<1>1. InitLock \/ CCreateWriter \/ CreateReader
  BY Zenon DEF Main, queue_destroy, Open, DestroyBegin, DestroyJoin, DestroyNode,
     DestroyEnd
<1>2. CVals' = CVals /\ got' = got
  BY <1>1 DEF InitLock, CCreateWriter, CreateReader, CVals
<1>3. CSent' = CSent
  BY <1>1 DEF InitLock, CCreateWriter, CreateReader, CSent, CPublished, CondInv, CLockInv,
     writerVars
<1>4. CASE Open'
  BY <1>2, <1>3, <1>4 DEF CStutter, Open
<1>5. CASE ~Open'
  <2>1. Open /\ (Open' = FALSE)
    BY <1>5
  <2> QED
    BY Zenon, <2>1, <1>2, <1>3 DEF Slot!Close, CVals, CSent
<1> QED
  BY <1>4, <1>5

(* A queue that is torn down stays so. *)
LEMMA TornDown == ~Open /\ [Next]_allVars => ~Open'
<1> USE DEF Open, WriterFrame, ReaderFrame, mainVars
<1>1. writer => main' = main
  BY Zenon DEF writer, queue_add, CAddLock, CAddTest, CAddRelock, CAddMalloc, CAddFlag,
     CAddSignal, CAddUnlock, AddLink, AddCount, AddStat
<1>2. reader => main' = main
  BY Zenon DEF reader, queue_get, CGetLock, CGetTest, CGetRelock, CGetUnlink, CGetFlag,
     CGetSignal, CGetUnlock, GetCount, GetStat, GetFree, ReaderCheck
<1>3. SpuriousWake \/ qmonitor \/ CFinished \/ UNCHANGED allVars => main' = main
  BY DEF SpuriousWake, qmonitor, CFinished, allVars, vars, MonitorTest, MonitorCount,
     MonitorAdd, MonitorGet, MonitorPrint, MonitorRest
<1>4. ~Open /\ Main => ~Open'
  BY DEF Main, queue_destroy, InitLock, CCreateWriter, CreateReader, DestroyBegin,
     DestroyJoin, DestroyNode, DestroyEnd, MainRest
<1> QED
  BY <1>1, <1>2, <1>3, <1>4 DEF Next

(* cond-var/queue-cond-var.c is a one-place first-in first-out buffer,       *)
(* whatever max_count is.                                                    *)
THEOREM CondvarIsSlot == Spec => ImplementsSlot
<1>1. CInit => Slot!FInit
  BY NoValue DEF CInit, Init, Slot!FInit, CPublished, Open
<1>2. CStutter => UNCHANGED Slot!fvars
  BY DEF CStutter, Slot!fvars, CVals, CSent
<1>3. CondInv /\ [Next]_allVars => [Slot!FNext]_(Slot!fvars)
  <2> SUFFICES ASSUME CondInv, [Next]_allVars PROVE [Slot!FNext]_(Slot!fvars)
    OBVIOUS
  <2>1. CASE ~Open
    BY <2>1, TornDown DEF Slot!FNext, Slot!Closed
  <2>2. CASE Open /\ writer
    BY <1>2, <2>2, LinkPuts, WriterQuiet DEF Slot!FNext
  <2>3. CASE Open /\ reader
    BY <1>2, <2>3, UnlinkGets, CheckUses, ReaderQuiet DEF Slot!FNext
  <2>4. CASE Open /\ Main
    BY <1>2, <2>4, MainCloses DEF Slot!FNext
  <2>5. CASE SpuriousWake \/ qmonitor \/ CFinished \/ UNCHANGED allVars
    <3>1. CStutter
      BY <2>5 DEF SpuriousWake, qmonitor, CFinished, allVars, vars, MonitorTest,
         MonitorCount, MonitorAdd, MonitorGet, MonitorPrint, MonitorRest, CStutter, CVals,
         CSent, CPublished, Open, heapVars, writerVars, readerVars, mainVars
    <3> QED
      BY <1>2, <3>1
  <2> QED
    BY <2>1, <2>2, <2>3, <2>4, <2>5 DEF Next
<1> QED
  BY <1>1, <1>3, CondInductive, PTL DEF Spec, ImplementsSlot, Slot!FSpec
-----------------------------------------------------------------------------
(* The datagram echo. *)

Data == Lines \cup {""}

EchoTypes ==
    /\ queue \in Seq(Clients \X Data)
    /\ client_addr \in Clients /\ buffer \in Data
    /\ client \in [Clients -> {"fgets", "recvfrom", "print", "exited"}]
    /\ line \in [Clients -> Data] /\ sent \in [Clients -> Data]
    /\ socket \in [Clients -> Seq(Data)]

\* The client waits, or has given up waiting and exited.
HasAsked(c) == client[c] \in {"recvfrom", "exited"}
Asks(c) == \E k \in 1 .. Len(queue) : queue[k][1] = c

\* A datagram in the queue is its sender's last request, and the only one.
Queued ==
    /\ \A k \in 1 .. Len(queue) : HasAsked(queue[k][1]) /\ queue[k][2] = sent[queue[k][1]]
    /\ \A j, k \in 1 .. Len(queue) : queue[j][1] = queue[k][1] => j = k

\* So is the one the server is about to send back.
InHand ==
    server = "sendto" =>
        /\ HasAsked(client_addr) /\ buffer = sent[client_addr]
        /\ ~Asks(client_addr) /\ socket[client_addr] = <<>>

\* So is the one that waits in the client's socket.
OnTheWay ==
    \A c \in Clients : socket[c] # <<>> =>
        client[c] = "recvfrom" /\ socket[c] = <<sent[c]>> /\ ~Asks(c)

EchoInductive == EchoTypes /\ Queued /\ InHand /\ OnTheWay /\ AnswerIsEcho
-----------------------------------------------------------------------------
\* No datagram exists before the first request (EchoInit).
LEMMA EchoInitInductive == EchoInit => EchoInductive
<1> SUFFICES ASSUME EchoInit PROVE EchoInductive
  OBVIOUS
<1>1. line \in [Clients -> Data] /\ sent \in [Clients -> Data]
  BY DEF EchoInit, Data
<1>2. <<>> \in Seq(Clients \X Data) /\ <<>> \in Seq(Data) /\ "" \in Data
  BY DEF Data
<1>3. EchoTypes
  BY <1>1, <1>2 DEF EchoInit, EchoTypes
<1>4. Queued
  <2>1. Len(queue) = 0
    BY DEF EchoInit
  <2> QED
    BY <2>1 DEF Queued
<1>5. InHand /\ OnTheWay /\ AnswerIsEcho
  BY DEF EchoInit, InHand, OnTheWay, AnswerIsEcho
<1> QED
  BY <1>3, <1>4, <1>5 DEF EchoInductive

\* recvfrom in the server moves the only datagram of its sender into its hands.
LEMMA ReceiveInductive == EchoInductive /\ Receive => EchoInductive'
<1> SUFFICES ASSUME EchoInductive, Receive PROVE EchoInductive'
  OBVIOUS
<1> USE DEF EchoInductive
<1>1. /\ queue \in Seq(Clients \X Data) /\ queue # <<>>
      /\ Len(queue') = Len(queue) - 1 /\ Len(queue) \in Nat \ {0}
      /\ queue' \in Seq(Clients \X Data)
      /\ \A k \in 1 .. Len(queue') : k + 1 \in 1 .. Len(queue) /\ queue'[k] = queue[k + 1]
  BY DEF Receive, EchoTypes
<1>2. /\ 1 \in 1 .. Len(queue) /\ queue[1] \in Clients \X Data
      /\ client_addr' = queue[1][1] /\ buffer' = queue[1][2]
  BY <1>1 DEF Receive
<1>3. EchoTypes'
  BY <1>1, <1>2 DEF Receive, EchoTypes, clientVars
<1>4. Queued'
  <2>1. ASSUME NEW k \in 1 .. Len(queue')
        PROVE HasAsked(queue[k][1])' /\ queue'[k][2] = sent'[queue'[k][1]]
    BY <1>1 DEF Queued, HasAsked, Receive, clientVars
  <2>2. ASSUME NEW j \in 1 .. Len(queue'), NEW k \in 1 .. Len(queue'), queue'[j][1] = queue'[k][1]
        PROVE j = k
    <3>1. /\ j + 1 \in 1 .. Len(queue) /\ queue'[j] = queue[j + 1]
          /\ k + 1 \in 1 .. Len(queue) /\ queue'[k] = queue[k + 1]
      BY <1>1
    <3>2. queue[j + 1][1] = queue[k + 1][1]
      BY <3>1, <2>2
    <3>3. j + 1 = k + 1
      BY <3>1, <3>2 DEF Queued
    <3> QED
      BY <3>3, <1>1
  <2> QED
    BY <2>1, <2>2 DEF Queued
<1>5. InHand'
  <2>1. HasAsked(client_addr)' /\ buffer' = sent'[client_addr']
    BY <1>2 DEF Queued, HasAsked, Receive, clientVars
  <2>2. ~Asks(client_addr)'
    <3> SUFFICES ASSUME NEW k \in 1 .. Len(queue'), queue'[k][1] = client_addr' PROVE FALSE
      BY DEF Asks
    <3>1. k + 1 = 1
      BY <1>1, <1>2 DEF Queued
    <3> QED
      BY <3>1, <1>1
  <2>3. socket'[client_addr'] = <<>>
    <3>1. Asks(client_addr') /\ client_addr' \in Clients
      BY <1>2 DEF Asks
    <3> QED
      BY <3>1 DEF OnTheWay, Receive
  <2> QED
    BY <2>1, <2>2, <2>3 DEF InHand
<1>6. OnTheWay'
  <2> SUFFICES ASSUME NEW c \in Clients, socket'[c] # <<>>
               PROVE client'[c] = "recvfrom" /\ socket'[c] = <<sent'[c]>> /\ ~Asks(c)'
    BY DEF OnTheWay
  <2>1. client[c] = "recvfrom" /\ socket[c] = <<sent[c]>> /\ ~Asks(c)
    BY DEF OnTheWay, Receive
  <2>2. ~Asks(c)'
    BY <2>1, <1>1 DEF Asks
  <2> QED
    BY <2>1, <2>2 DEF Receive, clientVars
<1>7. AnswerIsEcho'
  BY DEF AnswerIsEcho, Receive, clientVars
<1> QED
  BY <1>3, <1>4, <1>5, <1>6, <1>7

\* The server's other steps: starting, answering and dying.
LEMMA ServerInductive == EchoInductive /\ (Start \/ Answer \/ Kill) => EchoInductive'
<1> SUFFICES ASSUME EchoInductive PROVE Start \/ Answer \/ Kill => EchoInductive'
  OBVIOUS
<1> USE DEF EchoInductive
<1>1. CASE Start
  BY <1>1 DEF Start, EchoTypes, Queued, HasAsked, InHand, OnTheWay, AnswerIsEcho, Asks, clientVars
<1>2. CASE Answer
  <2>1. socket[client_addr] = <<>> /\ client_addr \in Clients /\ buffer \in Data
    BY <1>2 DEF Answer, InHand, EchoTypes
  <2>2. /\ IF client[client_addr] = "exited" THEN socket' = socket
           ELSE socket' = [socket EXCEPT ![client_addr] = <<buffer>>]
        /\ <<buffer>> \in Seq(Data)
    BY <1>2, <2>1 DEF Answer, EchoTypes
  <2>3. EchoTypes' /\ Queued' /\ InHand' /\ AnswerIsEcho'
    <3>1. EchoTypes'
      BY <1>2, <2>1, <2>2 DEF Answer, EchoTypes, clientVars
    <3> QED
      BY <1>2, <3>1 DEF Answer, Queued, HasAsked, InHand, AnswerIsEcho, clientVars
  <2>4. OnTheWay'
    <3> SUFFICES ASSUME NEW c \in Clients, socket'[c] # <<>>
                 PROVE client'[c] = "recvfrom" /\ socket'[c] = <<sent'[c]>> /\ ~Asks(c)'
      BY DEF OnTheWay
    <3>1. UNCHANGED <<client, sent, queue>> /\ (Asks(c)' <=> Asks(c))
      BY <1>2 DEF Answer, clientVars, Asks
    <3>2. CASE c = client_addr
      BY <1>2, <2>1, <2>2, <3>1, <3>2 DEF Answer, InHand, HasAsked, EchoTypes
    <3>3. CASE c # client_addr
      <4>1. socket'[c] = socket[c]
        BY <2>2, <3>3 DEF EchoTypes
      <4> QED
        BY <4>1, <3>1 DEF OnTheWay
    <3> QED
      BY <3>2, <3>3
  <2> QED
    BY <2>3, <2>4
<1>3. CASE Kill
  <2>a. EchoTypes'
    BY <1>3 DEF Kill, EchoTypes, clientVars
  <2>b. Queued'
    BY <1>3 DEF Kill, Queued, HasAsked, clientVars
  <2>c. InHand' /\ AnswerIsEcho'
    BY <1>3 DEF Kill, InHand, AnswerIsEcho, clientVars
  <2>1. EchoTypes' /\ Queued' /\ InHand' /\ AnswerIsEcho'
    BY <2>a, <2>b, <2>c
  <2>2. OnTheWay'
    <3>1. UNCHANGED <<client, sent, socket>> /\ queue' = <<>>
      BY <1>3 DEF Kill, clientVars
    <3>2. \A c \in Clients : ~Asks(c)'
      BY <3>1 DEF Asks
    <3> QED
      BY <3>1, <3>2 DEF OnTheWay
  <2> QED
    BY <2>1, <2>2
<1> QED
  BY <1>1, <1>2, <1>3

\* What Append makes of a sequence.
LEMMA Appended ==
    ASSUME NEW S, NEW s \in Seq(S), NEW e \in S
    PROVE  /\ Append(s, e) \in Seq(S) /\ Len(Append(s, e)) = Len(s) + 1 /\ Len(s) \in Nat
           /\ \A k \in 1 .. Len(s) : Append(s, e)[k] = s[k]
           /\ Append(s, e)[Len(s) + 1] = e
  OBVIOUS

\* The elements of a sequence, and a sequence of one.
LEMMA Elements == ASSUME NEW S, NEW s \in Seq(S), NEW k \in 1 .. Len(s) PROVE s[k] \in S
  OBVIOUS
LEMMA Single ==
    ASSUME NEW S, NEW e \in S PROVE Head(<<e>>) = e /\ Tail(<<e>>) = <<>> /\ <<>> \in Seq(S)
  OBVIOUS

\* A request: the client was not waiting, so no datagram of it is anywhere.
LEMMA RequestInductive == ASSUME NEW c \in Clients, EchoInductive, Request(c) PROVE EchoInductive'
<1> USE DEF EchoInductive
<1>1. PICK data \in Lines \cup {line[c]} :
        /\ sent' = [sent EXCEPT ![c] = data]
        /\ \/ queue' = Append(queue, <<c, data>>)
           \/ queue' = queue
  BY DEF Request
<1>2. data \in Data
  BY <1>1 DEF EchoTypes, Data
<1>3. /\ client[c] = "fgets" /\ client' = [client EXCEPT ![c] = "recvfrom"]
      /\ line' = [line EXCEPT ![c] = ""] /\ "" \in Data
      /\ UNCHANGED <<server, client_addr, buffer, socket>>
  BY DEF Request, serverVars, Data
<1> DEFINE Pairs == Clients \X Data
           datagram == <<c, data>>
<1>a. queue \in Seq(Pairs) /\ datagram \in Pairs
  BY <1>2 DEF EchoTypes
<1>b. queue' = Append(queue, datagram) \/ queue' = queue
  BY <1>1
<1> HIDE DEF Pairs, datagram
<1>c. /\ queue' \in Seq(Pairs) /\ Len(queue) \in Nat
      /\ Len(queue') \in {Len(queue), Len(queue) + 1}
      /\ \A k \in 1 .. Len(queue) : queue'[k] = queue[k]
      /\ Len(queue') = Len(queue) + 1 => queue'[Len(queue) + 1] = datagram
  <2>1. CASE queue' = queue
    <3>1. Len(queue) \in Nat /\ Len(queue') = Len(queue)
      BY <1>a, <2>1
    <3> QED
      BY <1>a, <2>1, <3>1
  <2>2. CASE queue' = Append(queue, datagram)
    BY <1>a, <2>2, Appended
  <2> QED
    BY <1>b, <2>1, <2>2
<1>4. EchoTypes'
  <2>1. queue' \in Seq(Clients \X Data)
    BY <1>c DEF Pairs
  <2> QED
    BY <2>1, <1>1, <1>2, <1>3 DEF EchoTypes
<1>5. ~Asks(c) /\ socket[c] = <<>> /\ ~(server = "sendto" /\ client_addr = c)
  BY <1>3 DEF Asks, Queued, HasAsked, OnTheWay, InHand
<1>6. ASSUME NEW k \in 1 .. Len(queue)
      PROVE /\ queue[k] \in Clients \X Data /\ queue[k][1] # c
            /\ client'[queue[k][1]] \in {"recvfrom", "exited"} /\ queue[k][2] = sent'[queue[k][1]]
  <2>a. queue[k] \in Clients \X Data
    BY <1>a, Elements DEF Pairs
  <2>b. queue[k][1] # c
    BY <1>5 DEF Asks
  <2>1. queue[k] \in Clients \X Data /\ queue[k][1] # c
    BY <2>a, <2>b
  <2> QED
    BY <2>1, <1>1, <1>3 DEF Queued, HasAsked, EchoTypes
<1>7. ASSUME NEW k \in 1 .. Len(queue')
      PROVE \/ k \in 1 .. Len(queue) /\ queue'[k] = queue[k]
            \/ k = Len(queue) + 1 /\ queue'[k] = <<c, data>>
  <2>1. k \in 1 .. Len(queue) \/ (k = Len(queue) + 1 /\ Len(queue') = Len(queue) + 1)
    BY <1>c
  <2> QED
    BY <2>1, <1>c DEF datagram
<1>8. client'[c] = "recvfrom" /\ sent'[c] = data
  BY <1>1, <1>3 DEF EchoTypes
<1>9. Queued'
  <2>1. ASSUME NEW k \in 1 .. Len(queue')
        PROVE HasAsked(queue[k][1])' /\ queue'[k][2] = sent'[queue'[k][1]]
    <3>1. CASE k \in 1 .. Len(queue) /\ queue'[k] = queue[k]
      BY <1>6, <3>1 DEF HasAsked
    <3>2. CASE queue'[k] = <<c, data>>
      BY <1>8, <3>2 DEF HasAsked
    <3> QED
      BY <1>7, <3>1, <3>2
  <2>2. ASSUME NEW j \in 1 .. Len(queue'), NEW k \in 1 .. Len(queue'), queue'[j][1] = queue'[k][1]
        PROVE j = k
    <3>1. CASE j \in 1 .. Len(queue) /\ k \in 1 .. Len(queue)
      <4>1. queue[j][1] = queue[k][1]
        BY <1>c, <2>2, <3>1
      <4> QED
        BY <3>1, <4>1 DEF Queued
    <3>2. CASE j \in 1 .. Len(queue) /\ queue'[k] = <<c, data>>
      BY <1>c, <1>6, <2>2, <3>2
    <3>3. CASE k \in 1 .. Len(queue) /\ queue'[j] = <<c, data>>
      BY <1>c, <1>6, <2>2, <3>3
    <3> QED
      BY <1>7, <3>1, <3>2, <3>3
  <2> QED
    BY <2>1, <2>2 DEF Queued
<1>10. ASSUME NEW d \in Clients, d # c, ~Asks(d) PROVE ~Asks(d)'
  BY <1>7, <1>10 DEF Asks
<1>11. InHand'
  <2> SUFFICES ASSUME server' = "sendto"
               PROVE /\ HasAsked(client_addr)' /\ buffer' = sent'[client_addr']
                     /\ ~Asks(client_addr)' /\ socket'[client_addr'] = <<>>
    BY DEF InHand
  <2>1. client_addr \in Clients /\ client_addr # c /\ client_addr' = client_addr /\ server = "sendto"
    BY <1>3, <1>5 DEF EchoTypes
  <2>2. ~Asks(client_addr)'
    <3>1. ~Asks(client_addr)
      BY <2>1 DEF InHand
    <3> QED
      BY <2>1, <3>1, <1>10
  <2> QED
    BY <2>1, <2>2, <1>1, <1>3 DEF InHand, HasAsked, EchoTypes
<1>12. OnTheWay'
  <2> SUFFICES ASSUME NEW d \in Clients, socket'[d] # <<>>
               PROVE client'[d] = "recvfrom" /\ socket'[d] = <<sent'[d]>> /\ ~Asks(d)'
    BY DEF OnTheWay
  <2>1. d # c /\ socket[d] # <<>>
    BY <1>3, <1>5
  <2>2. ~Asks(d)'
    BY <2>1, <1>10 DEF OnTheWay
  <2> QED
    BY <2>1, <2>2, <1>1, <1>3 DEF OnTheWay, EchoTypes
<1>13. AnswerIsEcho'
  BY <1>1, <1>3 DEF AnswerIsEcho, EchoTypes
<1> QED
  BY <1>4, <1>9, <1>11, <1>12, <1>13

\* An answer taken from the socket is the last request, and was the only one.
LEMMA ResponseInductive == ASSUME NEW c \in Clients, EchoInductive, Response(c) PROVE EchoInductive'
<1> USE DEF EchoInductive
<1>1. /\ client[c] = "recvfrom" /\ socket[c] = <<sent[c]>> /\ ~Asks(c) /\ sent[c] \in Data
      /\ ~(server = "sendto" /\ client_addr = c)
  BY DEF Response, OnTheWay, InHand, EchoTypes
<1>2. Head(socket[c]) = sent[c] /\ Tail(socket[c]) = <<>> /\ <<>> \in Seq(Data)
  BY <1>1, Single
<1>3. /\ line' = [line EXCEPT ![c] = sent[c]] /\ socket' = [socket EXCEPT ![c] = <<>>]
      /\ client' = [client EXCEPT ![c] = "print"]
      /\ UNCHANGED <<server, client_addr, buffer, queue, sent>>
  BY <1>2 DEF Response, serverVars, EchoTypes
<1>4. EchoTypes'
  BY <1>1, <1>2, <1>3 DEF EchoTypes
<1>5. Queued'
  <2>1. ASSUME NEW k \in 1 .. Len(queue) PROVE queue[k][1] \in Clients /\ queue[k][1] # c
    <3>1. queue \in Seq(Clients \X Data)
      BY DEF EchoTypes
    <3>2. queue[k] \in Clients \X Data
      BY <3>1, Elements
    <3> QED
      BY <3>2, <1>1 DEF Asks
  <2> QED
    BY <2>1, <1>3 DEF Queued, HasAsked, EchoTypes
<1>6. InHand' /\ OnTheWay' /\ AnswerIsEcho'
  BY <1>1, <1>3 DEF InHand, HasAsked, OnTheWay, AnswerIsEcho, Asks, EchoTypes
<1> QED
  BY <1>4, <1>5, <1>6

LEMMA PrintedInductive == ASSUME NEW c \in Clients, EchoInductive, Printed(c) PROVE EchoInductive'
<1> USE DEF EchoInductive
<1>1. /\ client[c] = "print" /\ client' = [client EXCEPT ![c] = "fgets"]
      /\ UNCHANGED <<server, client_addr, buffer, queue, line, sent, socket>>
  BY DEF Printed, serverVars
<1>2. EchoTypes' /\ AnswerIsEcho'
  BY <1>1 DEF EchoTypes, AnswerIsEcho
<1>3. Queued'
  <2>1. ASSUME NEW k \in 1 .. Len(queue) PROVE queue[k][1] \in Clients /\ queue[k][1] # c
    <3>1. queue[k] \in Clients \X Data
      BY DEF EchoTypes
    <3>2. client[queue[k][1]] # "print"
      BY DEF Queued, HasAsked
    <3> QED
      BY <1>1, <3>1, <3>2
  <2> QED
    BY <2>1, <1>1 DEF Queued, HasAsked, EchoTypes
<1>4. InHand' /\ OnTheWay'
  BY <1>1 DEF InHand, HasAsked, OnTheWay, Asks, EchoTypes
<1> QED
  BY <1>2, <1>3, <1>4

\* A client that gives up may leave a request behind, and takes no answer with it.
LEMMA ExitInductive == ASSUME NEW c \in Clients, EchoInductive, Exit(c) PROVE EchoInductive'
<1> USE DEF EchoInductive
<1>1. /\ client' = [client EXCEPT ![c] = "exited"] /\ socket' = [socket EXCEPT ![c] = <<>>]
      /\ <<>> \in Seq(Data)
      /\ UNCHANGED <<server, client_addr, buffer, queue, line, sent>>
  BY DEF Exit, serverVars
<1>2. EchoTypes' /\ AnswerIsEcho'
  BY <1>1 DEF EchoTypes, AnswerIsEcho
<1>3. \A d \in Clients : HasAsked(d) => HasAsked(d)'
  BY <1>1 DEF HasAsked, EchoTypes
<1>4. Queued'
  <2>1. ASSUME NEW k \in 1 .. Len(queue) PROVE queue[k][1] \in Clients
    BY DEF EchoTypes
  <2> QED
    BY <2>1, <1>1, <1>3 DEF Queued
<1>5. InHand'
  <2>1. client_addr \in Clients /\ (Asks(client_addr)' <=> Asks(client_addr))
    BY <1>1 DEF EchoTypes, Asks
  <2>2. socket[client_addr] = <<>> => socket'[client_addr] = <<>>
    BY <2>1, <1>1 DEF EchoTypes
  <2> QED
    BY <2>1, <2>2, <1>1, <1>3 DEF InHand
<1>6. OnTheWay'
  BY <1>1 DEF OnTheWay, Asks, EchoTypes
<1> QED
  BY <1>2, <1>4, <1>5, <1>6

\* The invariant holds in every state of udp_server.c and its clients.
THEOREM EchoAlwaysInductive == EchoSpec => []EchoInductive
<1>1. EchoInductive /\ [EchoNext]_echoVars => EchoInductive'
  <2> SUFFICES ASSUME EchoInductive, [EchoNext]_echoVars PROVE EchoInductive'
    OBVIOUS
  <2>1. CASE UNCHANGED echoVars
    BY <2>1 DEF echoVars, serverVars, clientVars, EchoInductive, EchoTypes, Queued, HasAsked,
                InHand, OnTheWay, AnswerIsEcho, Asks
  <2>2. CASE Hung
    BY <2>1, <2>2 DEF Hung
  <2>3. CASE ServerStep \/ Kill
    BY <2>3, ReceiveInductive, ServerInductive DEF ServerStep
  <2>4. CASE \E c \in Clients : ClientStep(c)
    BY <2>4, RequestInductive, ResponseInductive, PrintedInductive, ExitInductive DEF ClientStep
  <2> QED
    BY <2>1, <2>2, <2>3, <2>4 DEF EchoNext
<1> QED
  BY EchoInitInductive, <1>1, PTL DEF EchoSpec

\* What udp_client.c prints is the echo of its own last request, whatever was
\* dropped and however often the server was started again.
THEOREM AnswersAreEchoes == EchoSpec => []AnswerIsEcho
<1>1. EchoInductive => AnswerIsEcho
  BY DEF EchoInductive
<1> QED
  BY EchoAlwaysInductive, <1>1, PTL
====
