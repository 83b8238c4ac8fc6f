----------------------------- MODULE ProxyProofs -----------------------------
(***************************************************************************)
(* The theorems about the proxy of semestr2/Task3, for any number of         *)
(* clients, requests, parts and slots and any set of faults: the cache list  *)
(* holds a request once and only grows, its mutex is held only inside        *)
(* push_record, and the semaphore bounds the handlers.                       *)
(***************************************************************************)
EXTENDS Proxy, FiniteSetTheorems, SequenceTheorems, TLAPS

(* What every step of a handler that is not a crash does to the control of   *)
(* the threads and to the semaphore.                                         *)
Advances(t) ==
    /\ acc' = acc
    /\ DOMAIN th' = Threads
    /\ \A s \in Threads \ {t} : th'[s] = th[s]
    /\ DOMAIN th'[t] = DOMAIN th[t]
    /\ th[t].pc \notin {"none", "done"} /\ th'[t].pc # "none"
    /\ sem' = IF th[t].pc = "post" THEN sem + 1 ELSE sem
    /\ th[t].pc = "post" => th'[t].pc = "done"

OutsidePush(t) ==
    /\ UNCHANGED cacheVars
    /\ th[t].pc \notin {"walk", "link"} /\ th'[t].pc \notin {"walk", "link"}

(* A handler advances, outside push_record or by one of its three steps, or  *)
(* takes the process down.                                                   *)
LEMMA HandlerStep ==
    ASSUME Shape, NEW t \in Threads, execute_client_request(t)
    PROVE  \/ UNCHANGED <<acc, th, sem, cacheVars>>
           \/ Advances(t) /\ (OutsidePush(t) \/ PushLock(t) \/ PushWalk(t) \/ PushLink(t))
<1> USE DEF Shape, Advances, OutsidePush, Move, MoveSet, Keeps
<1>1. CASE LoadSock(t) \/ LoadReq(t)
  BY Zenon, <1>1 DEF LoadSock, LoadReq, KeepsAll
<1>2. CASE CopyRequest(t) \/ AddRequest(t)
  BY Zenon, <1>2 DEF CopyRequest, AddRequest, KeepsAll
<1>3. CASE FindInCache(t)
  <2>1. UNCHANGED <<acc, sem, cacheVars>>
    BY Zenon, <1>3 DEF FindInCache, KeepsAll
  <2>2. \/ \E body : MoveSet(t, "find", [th[t] EXCEPT !.copy = body, !.pc = "hit"])
        \/ Move(t, "find", "key")
    BY Zenon, <1>3 DEF FindInCache
  <2> QED
    BY Zenon, <2>1, <2>2
<1>11. CASE ResponseEnds(t)
  BY <1>11 DEF ResponseEnds, KeepsAll
<1>12. CASE SendCached(t) \/ SendRequest(t)
  BY <1>12 DEF SendCached, SendRequest, KeepsAllButNet
<1>13. CASE Forward(t)
  BY <1>13 DEF Forward, KeepsAllButNet
<1>4. CASE SendCachedFails(t) \/ HitClose(t) \/ HitEnd(t) \/ ConnectFails(t)
  BY <1>4 DEF SendCachedFails, HitClose, HitEnd, ConnectFails, Close, KeepsAllButNet
<1>5. CASE SendRequestFails(t) \/ GiveUp(t) \/ ForwardFails(t) \/ EndClose(t) \/ EndCloseDest(t)
  BY <1>5 DEF SendRequestFails, GiveUp, ForwardFails, EndClose, EndCloseDest, Close,
     KeepsAllButNet
<1>6. CASE HitFree(t) \/ EndFree(t) \/ PostSlot(t)
  BY <1>6 DEF HitFree, EndFree, PostSlot
<1>7. CASE ConnectOrigin(t)
  BY <1>7 DEF ConnectOrigin, KeepsAllButNet
<1>8. CASE ReadResponse(t)
  BY <1>8 DEF ReadResponse
<1>9. CASE PushLock(t) \/ PushWalk(t) \/ PushLink(t)
  BY Zenon, <1>9 DEF PushLock, PushWalk, PushLink, PushKeeps
<1>10. CASE Crash(t)
  BY <1>10 DEF Crash, cacheVars
<1> QED
  BY Zenon, <1>1, <1>2, <1>3, <1>11, <1>12, <1>13, <1>4, <1>5, <1>6, <1>7, <1>8,
     <1>9, <1>10
     DEF execute_client_request

(* What a step of accept_new_client does to its control, the threads and the *)
(* semaphore: it takes a slot, uses the one it has taken, or neither.        *)
LEMMA AcceptStep ==
    ASSUME Shape, accept_new_client
    PROVE  /\ DOMAIN acc' = DOMAIN acc
           /\ DestroyCache \/ UNCHANGED cacheVars
           /\ \/ th' = th /\ sem' = sem /\ Pending' = Pending
              \/ th' = th /\ sem' = sem - 1 /\ sem > 0 /\ Pending = 0 /\ Pending' = 1
              \/ th' = th /\ sem' = sem /\ Pending = 1 /\ Pending' = 0
              \/ /\ sem' = sem /\ Pending = 1 /\ Pending' = 0
                 /\ \E t \in Threads :
                       th[t].pc = "none" /\ th' = [th EXCEPT ![t].pc = "sock"]
<1> USE DEF Shape, Pending, Go, AccKeeps
<1>1. CASE Accept \/ AcceptFails \/ DestroyCache \/ Exit
  BY <1>1 DEF Accept, AcceptFails, DestroyCache, Exit
<1>2. CASE ReadRequest \/ ReadRequestFails \/ DropClient
  BY <1>2 DEF ReadRequest, ReadRequestFails, DropClient
<1>3. CASE WaitSlot
  BY <1>3 DEF WaitSlot
<1>4. CASE SetCtxSock \/ SetCtxReq
  BY <1>4 DEF SetCtxSock, SetCtxReq
<1>5. CASE CreateThread
  BY <1>5 DEF CreateThread
<1> QED
  BY <1>1, <1>2, <1>3, <1>4, <1>5 DEF accept_new_client

(* There are finitely many threads. *)
LEMMA RunningFinite == IsFiniteSet(Running) /\ Cardinality(Running) \in Nat
<1>1. Cardinality(Clients) \in Nat
  BY FS_CardinalityType, ProxyAssumption
<1>2. IsFiniteSet(Threads)
  BY <1>1, FS_Interval DEF Threads
<1>3. Running \in SUBSET Threads
  BY DEF Running
<1>4. IsFiniteSet(Running)
  BY <1>2, <1>3, FS_Subset
<1> QED
  BY <1>4, FS_CardinalityType

(* Every step keeps the locals of the threads and of accept_new_client. *)
LEMMA ShapeStep == Shape /\ [Next]_vars => Shape'
<1> SUFFICES ASSUME Shape, [Next]_vars PROVE Shape'
  OBVIOUS
<1>1. CASE \E c \in Clients : Client(c)
  BY <1>1 DEF Client, Shape
<1>2. CASE accept_new_client
  BY <1>2, AcceptStep DEF Shape
<1>3. ASSUME NEW t \in Threads, execute_client_request(t) PROVE Shape'
  BY <1>3, HandlerStep DEF Advances, Shape
<1>4. CASE UNCHANGED vars
  BY <1>4 DEF vars, Shape
<1> QED
  BY <1>1, <1>2, <1>3, <1>4 DEF Next

(* No step gives a slot back that its thread has not used up. *)
LEMMA SlotsStep == Shape /\ SlotsInv /\ [Next]_vars => SlotsInv'
<1> SUFFICES ASSUME Shape, SlotsInv, [Next]_vars PROVE SlotsInv'
  OBVIOUS
<1>0. Slots \in Nat /\ sem \in Nat /\ Cardinality(Running) \in Nat /\ Pending \in Nat
  BY ProxyAssumption, RunningFinite DEF SlotsInv, Pending
<1>1. CASE UNCHANGED <<acc, th, sem>>
  BY <1>1 DEF SlotsInv, Pending, Running
<1>2. CASE accept_new_client
  <2>1. th' = th => Running' = Running
    BY DEF Running
  <2>2. ASSUME NEW t \in Threads, th[t].pc = "none", th' = [th EXCEPT ![t].pc = "sock"]
        PROVE  Cardinality(Running') = Cardinality(Running) + 1
    <3>1. Running' = Running \cup {t} /\ t \notin Running
      BY <2>2 DEF Running, Shape
    <3> QED
      BY <3>1, RunningFinite, FS_AddElement
  <2> QED
    BY <1>0, <1>2, <2>1, <2>2, AcceptStep DEF SlotsInv
<1>3. ASSUME NEW t \in Threads, Advances(t) PROVE SlotsInv'
  <2>1. Pending' = Pending /\ t \in Running
    BY <1>3 DEF Advances, Pending, Running
  <2>2. CASE th'[t].pc = "done"
    <3>1. Running' = Running \ {t}
      BY <1>3, <2>2 DEF Advances, Running
    <3>2. Cardinality(Running') = Cardinality(Running) - 1
      BY <2>1, <3>1, RunningFinite, FS_RemoveElement
    <3> QED
      BY <1>0, <1>3, <2>1, <3>2 DEF Advances, SlotsInv
  <2>3. CASE th'[t].pc # "done"
    <3>1. Running' = Running /\ sem' = sem
      BY <1>3, <2>3 DEF Advances, Running
    <3> QED
      BY <2>1, <3>1 DEF SlotsInv
  <2> QED
    BY <2>2, <2>3
<1>4. (\E c \in Clients : Client(c)) \/ UNCHANGED vars => UNCHANGED <<acc, th, sem>>
  BY DEF Client, vars
<1> QED
  BY <1>1, <1>2, <1>3, <1>4, HandlerStep DEF Next

(* The append of push_record, at the node its walk has ended at.             *)
LEMMA LinkAppends ==
    ASSUME Shape, CacheInv, NEW t \in Threads, PushLink(t)
    PROVE  /\ cache' = Append(cache, [key |-> th[t].key, body |-> th[t].body])
           /\ cache' \in Seq(Range(cache'))
           /\ Len(cache) \in Nat /\ Len(cache') = Len(cache) + 1
           /\ DOMAIN cache = 1 .. Len(cache) /\ DOMAIN cache' = 1 .. Len(cache')
           /\ \A k \in 1 .. Len(cache) : cache'[k] = cache[k]
           /\ cache'[Len(cache) + 1].key = th[t].key
<1> DEFINE rec == [key |-> th[t].key, body |-> th[t].body]
           S == Range(cache) \cup {rec}
<1>1. cache \in Seq(Range(cache)) /\ th[t].tail = Len(cache)
  BY DEF CacheInv, PushLink, Move
<1>2. cache \in Seq(S) /\ rec \in S
  BY <1>1, SeqMonotonic
<1>3. SubSeq(cache, 1, Len(cache)) = cache
  BY <1>1, SubSeqFull
<1>4. cache' = Append(cache, rec)
  BY <1>1, <1>3 DEF PushLink
<1>5. rec.key = th[t].key
  OBVIOUS
<1> HIDE DEF rec, S
<1>6. /\ cache' \in Seq(S) /\ Len(cache') = Len(cache) + 1
      /\ \A k \in 1 .. Len(cache) : cache'[k] = cache[k]
      /\ cache'[Len(cache) + 1] = rec
  BY <1>2, <1>4, AppendProperties
<1>7. Len(cache) \in Nat /\ DOMAIN cache = 1 .. Len(cache) /\ DOMAIN cache' = 1 .. Len(cache')
  BY <1>2, <1>6, LenProperties
<1>8. cache' \in Seq(Range(cache'))
  BY <1>6, SeqOfRange
<1> QED
  BY <1>4, <1>5, <1>6, <1>7, <1>8 DEF rec

(* The search for a duplicate and the append are one critical section.       *)
LEMMA CacheStep == Shape /\ CacheInv /\ [Next]_vars => CacheInv'
<1> SUFFICES ASSUME Shape, CacheInv, [Next]_vars PROVE CacheInv'
  OBVIOUS
<1> USE NobodyAssumption
<1>1. CASE UNCHANGED <<th, cacheVars>>
  BY <1>1 DEF CacheInv, OneRecordPerRequest, cacheVars, Range
<1>2. CASE accept_new_client
  <2>1. \A t \in Threads :
           /\ th'[t].pc \in {"walk", "link"} <=> th[t].pc \in {"walk", "link"}
           /\ th'[t].pc = "link" <=> th[t].pc = "link"
           /\ th'[t].tail = th[t].tail /\ th'[t].key = th[t].key
    BY <1>2, AcceptStep DEF Shape
  <2>2. CASE UNCHANGED cacheVars
    BY <2>1, <2>2 DEF CacheInv, OneRecordPerRequest, cacheVars, Range
  <2>3. CASE DestroyCache
    <3>1. cache' = <<>> /\ mutex' = mutex /\ mutex = Nobody
      BY <2>3 DEF DestroyCache
    <3>2. \A t \in Threads : th[t].pc \notin {"walk", "link"} /\ mutex # t
      BY <3>1 DEF CacheInv, Threads
    <3>3. cache' \in Seq(Range(cache')) /\ OneRecordPerRequest'
      BY <3>1, EmptySeq DEF OneRecordPerRequest
    <3> QED
      BY <2>1, <3>1, <3>2, <3>3 DEF CacheInv
  <2> QED
    BY <1>2, <2>2, <2>3, AcceptStep
<1>3. ASSUME NEW t \in Threads, Advances(t), OutsidePush(t) PROVE CacheInv'
  BY <1>3 DEF Advances, OutsidePush, CacheInv, OneRecordPerRequest, cacheVars, Range
<1>4. ASSUME NEW t \in Threads, Advances(t), PushLock(t) PROVE CacheInv'
  <2>1. mutex = Nobody /\ mutex' = t /\ cache' = cache /\ th'[t].pc = "walk"
    BY <1>4 DEF PushLock, Move, Shape
  <2>2. \A s \in Threads : th[s].pc \notin {"walk", "link"}
    BY <2>1 DEF CacheInv, Threads
  <2> QED
    BY <1>4, <2>1, <2>2 DEF Advances, CacheInv, OneRecordPerRequest, Range
<1>5. ASSUME NEW t \in Threads, Advances(t), PushWalk(t) PROVE CacheInv'
  <2>1. mutex = t /\ cache' = cache
    BY <1>5 DEF PushWalk, Move, MoveSet, CacheInv
  <2>2. \A s \in Threads \ {t} : th[s].pc \notin {"walk", "link"} /\ th'[s] = th[s]
    BY <1>5, <2>1 DEF CacheInv, Advances
  <2>3. CASE \E k \in DOMAIN cache : cache[k].key = th[t].key
    <3>1. mutex' = Nobody /\ th'[t].pc = "end"
      BY <1>5, <2>3 DEF PushWalk, Move, Shape
    <3> QED
      BY <2>1, <2>2, <3>1 DEF CacheInv, OneRecordPerRequest, Range, Threads
  <2>4. CASE \A k \in DOMAIN cache : cache[k].key # th[t].key
    <3>0. /\ mutex' = mutex
          /\ th' = [th EXCEPT ![t] = [th[t] EXCEPT !.tail = Len(cache), !.pc = "link"]]
      BY Zenon, <1>5, <2>4 DEF PushWalk, MoveSet
    <3>1. /\ mutex' = mutex /\ th'[t].pc = "link" /\ th'[t].tail = Len(cache)
          /\ th'[t].key = th[t].key
      BY <3>0 DEF Shape
    <3> QED
      BY <2>1, <2>2, <2>4, <3>1 DEF CacheInv, OneRecordPerRequest, Range
  <2> QED
    BY <2>3, <2>4
<1>6. ASSUME NEW t \in Threads, Advances(t), PushLink(t) PROVE CacheInv'
  <2>1. mutex = t /\ mutex' = Nobody /\ th'[t].pc = "end"
    BY <1>6 DEF PushLink, Move, CacheInv, Shape
  <2>2. \A s \in Threads : th'[s].pc \notin {"walk", "link"}
    BY <1>6, <2>1 DEF CacheInv, Advances
  <2>3. \A k \in DOMAIN cache : cache[k].key # th[t].key
    BY <1>6 DEF CacheInv, PushLink, Move
  <2>4. OneRecordPerRequest'
    <3> DEFINE n == Len(cache)
    <3>1. /\ n \in Nat /\ DOMAIN cache = 1 .. n /\ DOMAIN cache' = 1 .. n + 1
          /\ \A k \in 1 .. n : cache'[k] = cache[k]
          /\ cache'[n + 1].key = th[t].key
      BY Zenon, <1>6, LinkAppends
    <3>2. \A j, k \in 1 .. n : cache[j].key = cache[k].key => j = k
      BY <3>1 DEF CacheInv, OneRecordPerRequest
    <3> HIDE DEF n
    <3>3. \A j, k \in 1 .. n + 1 : cache'[j].key = cache'[k].key => j = k
      <4> SUFFICES ASSUME NEW j \in 1 .. n + 1, NEW k \in 1 .. n + 1,
                          cache'[j].key = cache'[k].key
                   PROVE  j = k
        OBVIOUS
      <4>1. \A m \in 1 .. n : cache'[m].key = cache[m].key /\ cache[m].key # th[t].key
        BY <2>3, <3>1
      <4>2. CASE j \in 1 .. n /\ k \in 1 .. n
        BY <3>2, <4>1, <4>2
      <4>3. CASE j = n + 1 \/ k = n + 1
        BY <3>1, <4>1, <4>3
      <4> QED
        BY <3>1, <4>2, <4>3
    <3> QED
      BY <3>1, <3>3 DEF OneRecordPerRequest
  <2> QED
    BY Zenon, <1>6, <2>1, <2>2, <2>4, LinkAppends DEF CacheInv, Threads
<1>7. (\E c \in Clients : Client(c)) \/ UNCHANGED vars => UNCHANGED <<th, cacheVars>>
  BY DEF Client, vars
<1> QED
  BY <1>1, <1>2, <1>3, <1>4, <1>5, <1>6, <1>7, HandlerStep DEF Next

(* The inductive invariant of the proxy. *)
LEMMA ProxyInductive == Spec => []ProxyInv
<1>1. Init => ProxyInv
  <2> SUFFICES ASSUME Init PROVE ProxyInv
    OBVIOUS
  <2>1. Shape
    BY DEF Init, Shape
  <2>2. CacheInv
    <3>1. cache = <<>> /\ mutex = Nobody /\ \A t \in Threads : th[t].pc = "none"
      BY DEF Init
    <3> QED
      BY <3>1, EmptySeq, NobodyAssumption DEF CacheInv, OneRecordPerRequest, Threads
  <2>3. SlotsInv
    <3>1. Running = {} /\ sem = Slots /\ Pending = 0
      BY DEF Init, Running, Pending
    <3> QED
      BY <3>1, FS_EmptySet, ProxyAssumption DEF SlotsInv
  <2> QED
    BY <2>1, <2>2, <2>3 DEF ProxyInv
<1>2. ProxyInv /\ [Next]_vars => ProxyInv'
  BY ShapeStep, CacheStep, SlotsStep DEF ProxyInv
<1> QED
  BY <1>1, <1>2, PTL DEF Spec

(* However many threads load the same page at once, the cache has it once.   *)
THEOREM CacheHasNoDuplicates == Spec => []OneRecordPerRequest
<1>1. ProxyInv => OneRecordPerRequest
  BY DEF ProxyInv, CacheInv
<1> QED
  BY <1>1, ProxyInductive, PTL

(* cache_mutex is held only by a handler that is still in push_record: every *)
(* way out of it unlocks.                                                    *)
THEOREM PushUnlocks == Spec => []CacheLockInside
<1>1. ProxyInv => CacheLockInside
  BY DEF ProxyInv, CacheInv, CacheLockInside
<1> QED
  BY <1>1, ProxyInductive, PTL

(* At most MAX_USERS_COUNT handlers run at a time, whichever way each of     *)
(* them leaves and whichever calls fail.                                     *)
THEOREM SemaphoreBoundsHandlers == Spec => []AtMostSlotsThreads
<1>1. ProxyInv => AtMostSlotsThreads
  BY RunningFinite, ProxyAssumption
     DEF ProxyInv, SlotsInv, AtMostSlotsThreads, Pending
<1> QED
  BY <1>1, ProxyInductive, PTL

(* No thread's append loses another's record: until destroy_cache the cache  *)
(* only grows, at its end.                                                   *)
THEOREM AppendsLoseNothing == Spec => CacheOnlyGrows
<1>1. ProxyInv /\ [Next]_vars => [IsPrefix(cache, cache') \/ destroyed']_vars
  <2> SUFFICES ASSUME ProxyInv, Next PROVE IsPrefix(cache, cache') \/ destroyed'
    OBVIOUS
  <2>1. cache \in Seq(Range(cache)) /\ Len(cache) \in Nat
    BY LenProperties DEF ProxyInv, CacheInv
  <2>2. CASE cache' = cache
    BY <2>1, <2>2 DEF IsPrefix
  <2>3. ASSUME NEW t \in Threads, PushLink(t) PROVE IsPrefix(cache, cache')
    <3> DEFINE n == Len(cache)
    <3>1. /\ n \in Nat /\ Len(cache') = n + 1 /\ cache' \in Seq(Range(cache'))
          /\ DOMAIN cache' = 1 .. n + 1
          /\ \A k \in 1 .. n : cache'[k] = cache[k]
      BY Zenon, <2>3, LinkAppends DEF ProxyInv
    <3>2. SubSeq(cache, 1, n) = cache
      BY <2>1, SubSeqFull
    <3>3. \A k \in 1 .. n : cache'[k] \in Range(cache)
      BY <2>1, <3>1, ElementOfSeq
    <3>4. /\ SubSeq(cache', 1, n) \in Seq(Range(cache))
          /\ Len(SubSeq(cache', 1, n)) = n
          /\ \A k \in 1 .. n : SubSeq(cache', 1, n)[k] = cache'[k]
      BY <3>1, <3>3, SubSeqProperties
    <3>5. SubSeq(cache', 1, n) = cache
      BY <2>1, <3>1, <3>4, SeqEqual
    <3> QED
      BY <3>1, <3>2, <3>5 DEF IsPrefix
  <2>4. CASE \E c \in Clients : Client(c)
    BY <2>2, <2>4 DEF Client, cacheVars
  <2>5. CASE accept_new_client
    BY Zenon, <2>2, <2>5, AcceptStep DEF ProxyInv, DestroyCache, cacheVars
  <2>6. ASSUME NEW t \in Threads, execute_client_request(t)
        PROVE  IsPrefix(cache, cache') \/ destroyed'
    <3>1. \/ UNCHANGED cacheVars
          \/ OutsidePush(t) \/ PushLock(t) \/ PushWalk(t) \/ PushLink(t)
      <4>1. UNCHANGED <<acc, th, sem, cacheVars>> => UNCHANGED cacheVars
        BY DEF cacheVars
      <4> QED
        BY <2>6, <4>1, HandlerStep DEF ProxyInv
    <3>2. UNCHANGED cacheVars \/ OutsidePush(t) \/ PushLock(t) \/ PushWalk(t)
             => cache' = cache
      BY DEF OutsidePush, PushLock, PushWalk, cacheVars
    <3> QED
      BY <2>2, <2>3, <3>1, <3>2
  <2> QED
    BY <2>4, <2>5, <2>6 DEF Next
<1> QED
  BY <1>1, ProxyInductive, PTL DEF Spec, CacheOnlyGrows
=============================================================================
