---------------------------- MODULE QueueProofs -----------------------------
(***************************************************************************)
(* The theorems about the queues of semestr2/Task2/Task2_2 with a mutex, a   *)
(* spinlock, a mutex with usleep and a semaphore, for every set of addresses, *)
(* every max_count and every bound on the writer.                            *)
(*                                                                           *)
(* The first part is about the steps of QueueSteps: each keeps the inductive *)
(* invariant QueueInv, and each is a step of the abstract buffer or invisible *)
(* to it.  The second draws the conclusions for the programs made of these   *)
(* steps.  The definitions of the semaphore variant, whose monitor takes the *)
(* semaphore too and may do so before sem_init, come with SemQueue; those of *)
(* the others are instances.                                                 *)
(***************************************************************************)
EXTENDS SemQueue, TLAPS

WriterStep ==
    \/ AddMalloc \/ AddAbort \/ AddLock \/ AddTest \/ AddLink
    \/ AddCount \/ AddStat \/ AddUnlock \/ FullUnlock \/ FullFree
    \/ FullFreeLocked \/ FullUnlockLast

ReaderStep ==
    \/ GetLock \/ GetTest \/ GetEmpty \/ GetUnlink \/ GetCount
    \/ GetStat \/ GetUnlock \/ GetRead \/ GetFree \/ ReaderCheck

MainStep ==
    \/ InitLock \/ CreateWriter \/ CreateReader \/ DestroyBegin
    \/ DestroyJoin("free_nodes") \/ DestroyNode \/ DestroyEnd

(* malloc hands out a node that is neither linked nor in anybody's hands. *)
LEMMA AddMallocInv == QueueInv /\ AddMalloc => QueueInv'
<1> SUFFICES ASSUME QueueInv, AddMalloc PROVE QueueInv'
  OBVIOUS
<1> USE NullAssumption, MaxCountAssumption
    DEF AddMalloc, QueueInv, TypeOK, WriterLocked, ReaderLocked, Unlinked,
        Holding, Linked, Open, queueVars, heapVars, writerVars, readerVars,
        monitorVars, mainVars
<1>5. Open' => ValueInv'
  <2> SUFFICES ASSUME Open PROVE ValueInv'
    OBVIOUS
  <2>1. new' \notin used
    OBVIOUS
  <2>2. \A k \in 1..Len(chain) : chain[k] \in used /\ chain[k] # new'
    BY SMTT(60), <2>1 DEF HeapInv, InChain
  <2>3. Holding => tmp \in used /\ tmp # new'
    BY <2>1 DEF HeapInv
  <2>4. \A k \in 1..Len(chain) : val'[chain[k]] = val[chain[k]]
    BY <2>2
  <2>5. Taken' = Taken
    BY DEF Taken
  <2> QED
    BY SMTT(60), <2>2, <2>3, <2>4, <2>5 DEF ValueInv
<1>1. TypeOK'
  OBVIOUS
<1>2. LockInv'
  BY DEF LockInv, ListInv
<1>3. Open' => ListInv'
  BY SMTT(60) DEF LockInv, ListInv, HeapInv, InChain
<1>4. Open' => HeapInv'
  BY SMTT(60) DEF LockInv, ListInv, HeapInv, InChain
<1>6. ~error' /\ NoTouchAfterFree'
  BY DEF NoTouchAfterFree, LockInv, ListInv, HeapInv, ValueInv, Taken, InChain
<1> QED
  BY SMTT(60), <1>1, <1>2, <1>3, <1>4, <1>5, <1>6

(* Linking keeps the list well formed; last may be stale when it is empty. *)
LEMMA AddLinkInv == QueueInv /\ AddLink => QueueInv'
<1> SUFFICES ASSUME QueueInv, AddLink PROVE QueueInv'
  OBVIOUS
<1> USE NullAssumption, MaxCountAssumption
    DEF QueueInv, WriterLocked, ReaderLocked, Unlinked, Holding, Linked, Open,
        queueVars, heapVars, writerVars, readerVars, monitorVars, mainVars
<1>1. TypeOK'
  <2>1. new \in Nodes
    BY DEF AddLink, LockInv
  <2>2. chain' \in Seq(Nodes)
    BY <2>1 DEF AddLink, TypeOK
  <2>3. next' \in [Nodes -> Nodes \cup {Null}]
    BY ZenonT(60), <2>1 DEF AddLink, TypeOK
  <2> QED
    BY SMTT(60), <2>1, <2>2, <2>3 DEF AddLink, TypeOK
<1>0. ASSUME Open
      PROVE  /\ Len(chain) \in Nat
             /\ Len(chain') = Len(chain) + 1
             /\ \A k \in 1..Len(chain) : chain'[k] = chain[k]
             /\ chain'[Len(chain) + 1] = new
  BY <1>0 DEF AddLink, TypeOK, LockInv
<1>3. Open' => ListInv'
  <2> SUFFICES ASSUME Open PROVE ListInv'
    BY DEF AddLink
  <2>0. new \in Nodes /\ next[new] = Null
    BY DEF AddLink, HeapInv, LockInv
  <2>1. \A k \in 1..Len(chain) : chain[k] # new /\ chain[k] \in Nodes
    BY SMTT(60) DEF AddLink, HeapInv, InChain, TypeOK
  <2>2. rpc # "count" /\ Len(chain) = count
    BY DEF AddLink, LockInv, ListInv
  <2>3. CASE chain = <<>>
    <3>1. first' = new /\ last' = new /\ next' = next
      BY <2>3 DEF AddLink, ListInv
    <3>2. Len(chain) = 0
      BY <2>3
    <3>3. chain' # <<>>
      BY <1>0, <3>2
    <3> QED
      BY <1>0, <2>0, <2>2, <3>1, <3>2, <3>3 DEF ListInv, AddLink
  <2>4. CASE chain # <<>>
    <3>0. Len(chain) > 0 /\ chain' # <<>>
      BY <2>4, <1>0 DEF TypeOK
    <3>1. /\ first' = chain[1]
          /\ last' = new
          /\ last = chain[Len(chain)]
          /\ next' = [next EXCEPT ![last] = new]
      BY <3>0, <2>4, <2>1 DEF AddLink, ListInv
    <3>2. \A j, k \in 1..Len(chain') : chain'[j] = chain'[k] => j = k
      BY <1>0, <2>1 DEF ListInv
    <3>3. \A k \in 1..Len(chain') :
             next'[chain'[k]] = IF k = Len(chain') THEN Null ELSE chain'[k + 1]
      <4> SUFFICES ASSUME NEW k \in 1..Len(chain')
                   PROVE next'[chain'[k]] = IF k = Len(chain') THEN Null ELSE chain'[k + 1]
        OBVIOUS
      <4>1. CASE k = Len(chain) + 1
        BY <4>1, <1>0, <2>0, <2>1, <3>0, <3>1 DEF TypeOK
      <4>2. CASE k = Len(chain)
        BY <4>2, <1>0, <2>1, <3>0, <3>1 DEF TypeOK
      <4>3. CASE k < Len(chain)
        <5>1. chain[k] # last
          BY <4>3, <3>0, <3>1, <1>0 DEF ListInv
        <5>2. next[chain[k]] = chain[k+1]
          BY <4>3, <1>0 DEF ListInv
        <5>3. chain'[k] = chain[k] /\ chain'[k + 1] = chain[k + 1] /\ k # Len(chain')
          BY <4>3, <1>0
        <5>4. next'[chain[k]] = next[chain[k]]
          BY <5>1, <3>1, <2>1, <4>3, <1>0 DEF TypeOK
        <5> QED BY <5>2, <5>3, <5>4
      <4> QED BY <4>1, <4>2, <4>3, <1>0
    <3> QED
      BY <1>0, <2>2, <3>0, <3>1, <3>2, <3>3 DEF ListInv, AddLink
  <2> QED
    BY <2>3, <2>4
<1>4. Open' => HeapInv'
  <2> SUFFICES ASSUME Open PROVE HeapInv'
    BY DEF AddLink
  <2>1. InChain' = InChain \cup {new}
    <3>1. \A n : n \in InChain' <=> \E k \in 1..Len(chain)+1 : n = chain'[k]
      BY <1>0 DEF InChain
    <3>2. \A n : n \in InChain <=> \E k \in 1..Len(chain) : n = chain[k]
      BY DEF InChain
    <3> QED BY <3>1, <3>2, <1>0
  <2> QED
    BY <2>1 DEF HeapInv, AddLink, TypeOK, LockInv
<1>5. Open' => ValueInv'
  <2> SUFFICES ASSUME Open PROVE ValueInv'
    BY DEF AddLink
  <2>1. Taken' = Taken /\ Taken \in Int
    BY DEF Taken, AddLink, TypeOK
  <2>2. val' = val /\ val[new] = Taken + Len(chain)
    BY DEF AddLink, ValueInv, TypeOK
  <2>3. \A k \in 1..Len(chain') : val'[chain'[k]] = Taken' + k - 1
    <3> SUFFICES ASSUME NEW k \in 1..Len(chain')
                 PROVE  val'[chain'[k]] = Taken' + k - 1
      OBVIOUS
    <3>1. CASE k = Len(chain) + 1
      BY <3>1, <1>0, <2>1, <2>2
    <3>2. CASE k \in 1..Len(chain)
      BY ZenonT(60), <3>2, <1>0, <2>1, <2>2 DEF ValueInv
    <3> QED
      BY <3>1, <3>2, <1>0
  <2>4. Taken' + Len(chain') = i' + 1
    BY <1>0, <2>1 DEF ValueInv, AddLink, TypeOK
  <2>5. /\ rpc' \in {"count", "stat", "unlock", "read"} => val'[tmp'] = expected'
        /\ rpc' \in {"free", "check"} => got' = expected'
    BY <2>2 DEF ValueInv, AddLink
  <2>6. ~Unlinked' /\ Linked'
    BY DEF AddLink
  <2> QED
    BY <2>3, <2>4, <2>5, <2>6 DEF ValueInv
<1>2. LockInv'
  BY DEF AddLink, LockInv, TypeOK
<1>6. ~error' /\ NoTouchAfterFree'
  <2>1. CASE Open
    <3>1. first # Null => last \in InChain
      BY SMTT(60), <2>1 DEF TypeOK, ListInv, InChain
    <3>2. ~fault'
      BY ZenonT(60), <2>1, <3>1 DEF AddLink, NoTouchAfterFree, HeapInv
    <3> QED
      BY <3>2 DEF AddLink, NoTouchAfterFree
  <2>2. CASE ~Open
    BY <2>2 DEF AddLink, NoTouchAfterFree
  <2> QED
    BY <2>1, <2>2
<1> QED
  BY <1>1, <1>2, <1>3, <1>4, <1>5, <1>6

(* Unlinking hands the first node, with the next value, to the reader. *)
LEMMA GetUnlinkInv == QueueInv /\ GetUnlink => QueueInv'
<1> SUFFICES ASSUME QueueInv, GetUnlink PROVE QueueInv'
  OBVIOUS
<1> USE NullAssumption, MaxCountAssumption
    DEF QueueInv, WriterLocked, ReaderLocked, Unlinked, Holding, Linked, Open,
        queueVars, heapVars, writerVars, readerVars, monitorVars, mainVars
<1>1. /\ Open
      /\ Len(chain) \in Nat \ {0}
      /\ Len(chain) = count
      /\ chain # <<>>
      /\ ~Linked /\ wpc # "link"
  BY DEF GetUnlink, LockInv, ListInv, TypeOK
<1>2. /\ chain' \in Seq(Nodes)
      /\ Len(chain') = Len(chain) - 1
      /\ \A k \in 1..Len(chain') : chain'[k] = chain[k + 1]
  BY <1>1 DEF GetUnlink, TypeOK
<1>3. /\ first = chain[1]
      /\ first \in Nodes
      /\ first \in used
      /\ tmp' = first
      /\ first' = next[first]
  BY <1>1 DEF GetUnlink, TypeOK, ListInv, HeapInv, InChain
<1>4. TypeOK'
  BY SMTT(60), <1>2, <1>3 DEF GetUnlink, TypeOK
<1>5. LockInv'
  BY <1>1 DEF GetUnlink, LockInv
<1>6. ListInv'
  <2>1. \A j, k \in 1..Len(chain') : chain'[j] = chain'[k] => j = k
    BY <1>1, <1>2 DEF ListInv
  <2>2. first' = IF chain' = <<>> THEN Null ELSE chain'[1]
    <3>1. CASE Len(chain) = 1
      BY <3>1, <1>1, <1>2, <1>3 DEF ListInv
    <3>2. CASE Len(chain) > 1
      <4>1. chain' # <<>> /\ chain'[1] = chain[2]
        BY <3>2, <1>1, <1>2
      <4>2. next[first] = chain[2]
        BY <3>2, <1>1, <1>3 DEF ListInv
      <4> QED
        BY <4>1, <4>2, <1>3
    <3> QED
      BY <3>1, <3>2, <1>1
  <2>3. chain' # <<>> => last' = chain'[Len(chain')]
    BY <1>1, <1>2 DEF ListInv, GetUnlink
  <2>4. \A k \in 1..Len(chain') :
           next'[chain'[k]] = IF k = Len(chain') THEN Null ELSE chain'[k + 1]
    BY <1>1, <1>2 DEF ListInv, GetUnlink
  <2> QED
    BY SMTT(60), <1>1, <1>2, <2>1, <2>2, <2>3, <2>4 DEF ListInv, GetUnlink
<1>7. HeapInv'
  <2>1. first \notin InChain'
    BY <1>1, <1>2, <1>3 DEF ListInv, InChain
  <2>2. InChain = InChain' \cup {first}
    <3>1. ASSUME NEW n \in InChain PROVE n \in InChain' \cup {first}
      <4>1. PICK k \in 1..Len(chain) : n = chain[k]
        BY DEF InChain
      <4>2. CASE k = 1
        BY <4>1, <4>2, <1>3
      <4>3. CASE k # 1
        <5>1. k - 1 \in 1..Len(chain') /\ n = chain'[k - 1]
          BY <4>1, <4>3, <1>1, <1>2
        <5> QED
          BY <5>1 DEF InChain
      <4> QED
        BY <4>2, <4>3
    <3>2. ASSUME NEW n \in InChain' PROVE n \in InChain
      BY <1>1, <1>2 DEF InChain
    <3>3. first \in InChain
      BY <1>1, <1>3 DEF InChain
    <3> QED
      BY <3>1, <3>2, <3>3
  <2>3. tmp = Null /\ new # first
    BY <1>1, <1>3, <2>2 DEF GetUnlink, HeapInv
  <2> QED
    BY <1>1, <1>3, <2>1, <2>2, <2>3 DEF GetUnlink, HeapInv
<1>8. ValueInv'
  <2>1. Taken' = Taken + 1 /\ Taken = expected /\ expected \in Int
    BY DEF Taken, GetUnlink, TypeOK
  <2>2. val[first] = expected
    BY <1>1, <1>3, <2>1 DEF ValueInv
  <2>3. \A k \in 1..Len(chain') : val'[chain'[k]] = Taken' + k - 1
    BY <1>1, <1>2, <2>1 DEF ValueInv, GetUnlink
  <2> QED
    BY SMTT(60), <1>1, <1>2, <1>3, <2>1, <2>2, <2>3 DEF ValueInv, GetUnlink,
       TypeOK
<1>9. ~error' /\ NoTouchAfterFree'
  BY ZenonT(60), <1>1, <1>3 DEF GetUnlink, NoTouchAfterFree
<1> QED
  BY <1>1, <1>4, <1>5, <1>6, <1>7, <1>8, <1>9

(* Every step of the writer preserves the invariant. *)
LEMMA WriterInv == QueueInv /\ WriterStep => QueueInv'
<1> SUFFICES ASSUME QueueInv, WriterStep PROVE QueueInv'
  OBVIOUS
<1> USE NullAssumption, MaxCountAssumption
    DEF QueueInv, TypeOK, WriterLocked, ReaderLocked, Unlinked, Holding,
        Linked, Open, queueVars, heapVars, writerVars, readerVars,
        monitorVars, mainVars, MainRest
<1>1. CASE AddMalloc
  BY ZenonT(60), <1>1, AddMallocInv
<1>2. CASE AddAbort
  <2>1. TypeOK'
    BY SMTT(60), <1>2 DEF AddAbort
  <2>2. LockInv'
    BY SMTT(60), <1>2 DEF AddAbort, LockInv
  <2>3. Open' => ListInv'
    BY SMTT(60), <1>2 DEF AddAbort, LockInv, ListInv
  <2>4. Open' => HeapInv'
    BY SMTT(60), <1>2 DEF AddAbort, LockInv, ListInv, HeapInv, InChain
  <2>5. Open' => ValueInv'
    BY SMTT(60), <1>2 DEF AddAbort, LockInv, ListInv, HeapInv, ValueInv, Taken
  <2>6. ~error' /\ NoTouchAfterFree'
    BY SMTT(60), <1>2 DEF AddAbort, NoTouchAfterFree, LockInv, HeapInv, ValueInv
  <2> QED
    BY ZenonT(60), <2>1, <2>2, <2>3, <2>4, <2>5, <2>6
<1>3. CASE AddLock
  <2>1. TypeOK'
    BY SMTT(60), <1>3 DEF AddLock
  <2>2. LockInv'
    BY SMTT(60), <1>3 DEF AddLock, LockInv
  <2>3. Open' => ListInv'
    BY SMTT(60), <1>3 DEF AddLock, LockInv, ListInv
  <2>4. Open' => HeapInv'
    BY SMTT(60), <1>3 DEF AddLock, LockInv, ListInv, HeapInv, InChain
  <2>5. Open' => ValueInv'
    BY SMTT(60), <1>3 DEF AddLock, LockInv, ListInv, HeapInv, ValueInv, Taken
  <2>6. ~error' /\ NoTouchAfterFree'
    BY SMTT(60), <1>3 DEF AddLock, NoTouchAfterFree, LockInv, HeapInv, ValueInv
  <2> QED
    BY ZenonT(60), <2>1, <2>2, <2>3, <2>4, <2>5, <2>6
<1>4. CASE AddTest
  <2>1. TypeOK'
    BY SMTT(60), <1>4 DEF AddTest
  <2>2. LockInv'
    BY <1>4 DEF AddTest, LockInv
  <2>3. Open' => ListInv'
    BY SMTT(60), <1>4 DEF AddTest, LockInv, ListInv
  <2>4. Open' => HeapInv'
    BY SMTT(60), <1>4 DEF AddTest, LockInv, ListInv, HeapInv, InChain
  <2>5. Open' => ValueInv'
    BY SMTT(60), <1>4 DEF AddTest, LockInv, ListInv, HeapInv, ValueInv, Taken
  <2>6. ~error' /\ NoTouchAfterFree'
    BY <1>4 DEF AddTest, NoTouchAfterFree, LockInv, HeapInv, ValueInv
  <2> QED
    BY ZenonT(60), <2>1, <2>2, <2>3, <2>4, <2>5, <2>6
<1>5. CASE AddLink
  BY ZenonT(60), <1>5, AddLinkInv
<1>6. CASE AddCount
  <2>1. TypeOK'
    BY SMTT(60), <1>6 DEF AddCount
  <2>2. LockInv'
    BY <1>6 DEF AddCount, LockInv
  <2>3. Open' => ListInv'
    BY SMTT(60), <1>6 DEF AddCount, LockInv, ListInv
  <2>4. Open' => HeapInv'
    <3>1. InChain' = InChain /\ UNCHANGED <<main, used, new, tmp, next, rpc>>
      BY <1>6 DEF AddCount, InChain
    <3>2. wpc = "count" /\ wpc' = "stat"
      BY <1>6 DEF AddCount
    <3> QED
      BY SMTT(60), <3>1, <3>2 DEF HeapInv
  <2>5. Open' => ValueInv'
    BY SMTT(60), <1>6 DEF AddCount, LockInv, ListInv, HeapInv, ValueInv, Taken
  <2>6. ~error' /\ NoTouchAfterFree'
    BY <1>6 DEF AddCount, NoTouchAfterFree, LockInv, HeapInv, ValueInv
  <2> QED
    BY ZenonT(60), <2>1, <2>2, <2>3, <2>4, <2>5, <2>6
<1>7. CASE AddStat
  <2>1. TypeOK'
    BY SMTT(60), <1>7 DEF AddStat
  <2>2. LockInv'
    BY <1>7 DEF AddStat, LockInv
  <2>3. Open' => ListInv'
    BY SMTT(60), <1>7 DEF AddStat, LockInv, ListInv
  <2>4. Open' => HeapInv'
    BY SMTT(60), <1>7 DEF AddStat, LockInv, ListInv, HeapInv, InChain
  <2>5. Open' => ValueInv'
    BY SMTT(60), <1>7 DEF AddStat, LockInv, ListInv, HeapInv, ValueInv, Taken
  <2>6. ~error' /\ NoTouchAfterFree'
    BY <1>7 DEF AddStat, NoTouchAfterFree, LockInv, HeapInv, ValueInv
  <2> QED
    BY ZenonT(60), <2>1, <2>2, <2>3, <2>4, <2>5, <2>6
<1>8. CASE AddUnlock
  <2>1. TypeOK'
    BY SMTT(60), <1>8 DEF AddUnlock
  <2>2. LockInv'
    BY <1>8 DEF AddUnlock, LockInv
  <2>3. Open' => ListInv'
    BY SMTT(60), <1>8 DEF AddUnlock, LockInv, ListInv
  <2>4. Open' => HeapInv'
    BY SMTT(60), <1>8 DEF AddUnlock, LockInv, ListInv, HeapInv, InChain
  <2>5. Open' => ValueInv'
    BY SMTT(60), <1>8 DEF AddUnlock, LockInv, ListInv, HeapInv, ValueInv, Taken
  <2>6. ~error' /\ NoTouchAfterFree'
    BY <1>8 DEF AddUnlock, NoTouchAfterFree, LockInv, HeapInv, ValueInv
  <2> QED
    BY ZenonT(60), <2>1, <2>2, <2>3, <2>4, <2>5, <2>6
<1>9. CASE FullUnlock
  <2>1. TypeOK'
    BY SMTT(60), <1>9 DEF FullUnlock
  <2>2. LockInv'
    BY SMTT(60), <1>9 DEF FullUnlock, LockInv
  <2>3. Open' => ListInv'
    BY SMTT(60), <1>9 DEF FullUnlock, LockInv, ListInv
  <2>4. Open' => HeapInv'
    BY SMTT(60), <1>9 DEF FullUnlock, LockInv, ListInv, HeapInv, InChain
  <2>5. Open' => ValueInv'
    BY SMTT(60), <1>9 DEF FullUnlock, LockInv, ListInv, HeapInv, ValueInv, Taken
  <2>6. ~error' /\ NoTouchAfterFree'
    BY SMTT(60), <1>9 DEF FullUnlock, NoTouchAfterFree, LockInv, HeapInv, ValueInv
  <2> QED
    BY ZenonT(60), <2>1, <2>2, <2>3, <2>4, <2>5, <2>6
<1>10. CASE FullFree
  <2>1. TypeOK'
    BY SMTT(60), <1>10 DEF FullFree
  <2>2. LockInv'
    BY <1>10 DEF FullFree, LockInv
  <2>3. Open' => ListInv'
    BY SMTT(60), <1>10 DEF FullFree, LockInv, ListInv
  <2>4. Open' => HeapInv'
    BY SMTT(60), <1>10 DEF FullFree, LockInv, ListInv, HeapInv, InChain
  <2>5. Open' => ValueInv'
    BY SMTT(60), <1>10 DEF FullFree, LockInv, ListInv, HeapInv, ValueInv, Taken
  <2>6. ~error' /\ NoTouchAfterFree'
    BY <1>10 DEF FullFree, NoTouchAfterFree, LockInv, HeapInv, ValueInv
  <2> QED
    BY ZenonT(60), <2>1, <2>2, <2>3, <2>4, <2>5, <2>6
<1>11. CASE FullFreeLocked
  <2>1. TypeOK'
    BY SMTT(60), <1>11 DEF FullFreeLocked
  <2>2. LockInv'
    BY <1>11 DEF FullFreeLocked, LockInv
  <2>3. Open' => ListInv'
    BY SMTT(60), <1>11 DEF FullFreeLocked, LockInv, ListInv
  <2>4. Open' => HeapInv'
    BY SMTT(60), <1>11 DEF FullFreeLocked, LockInv, ListInv, HeapInv, InChain
  <2>5. Open' => ValueInv'
    BY SMTT(60), <1>11 DEF FullFreeLocked, LockInv, ListInv, HeapInv, ValueInv,
       Taken
  <2>6. ~error' /\ NoTouchAfterFree'
    BY <1>11 DEF FullFreeLocked, NoTouchAfterFree, LockInv, HeapInv, ValueInv
  <2> QED
    BY ZenonT(60), <2>1, <2>2, <2>3, <2>4, <2>5, <2>6
<1>12. CASE FullUnlockLast
  <2>1. TypeOK'
    BY SMTT(60), <1>12 DEF FullUnlockLast
  <2>2. LockInv'
    BY SMTT(60), <1>12 DEF FullUnlockLast, LockInv
  <2>3. Open' => ListInv'
    BY SMTT(60), <1>12 DEF FullUnlockLast, LockInv, ListInv
  <2>4. Open' => HeapInv'
    BY SMTT(60), <1>12 DEF FullUnlockLast, LockInv, ListInv, HeapInv, InChain
  <2>5. Open' => ValueInv'
    BY SMTT(60), <1>12 DEF FullUnlockLast, LockInv, ListInv, HeapInv, ValueInv, Taken
  <2>6. ~error' /\ NoTouchAfterFree'
    BY SMTT(60), <1>12 DEF FullUnlockLast, NoTouchAfterFree, LockInv, HeapInv, ValueInv
  <2> QED
    BY ZenonT(60), <2>1, <2>2, <2>3, <2>4, <2>5, <2>6
<1> QED
  BY ZenonT(60), <1>1, <1>2, <1>3, <1>4, <1>5, <1>6, <1>7, <1>8, <1>9, <1>10,
     <1>11, <1>12
     DEF WriterStep

(* Every step of the reader preserves the invariant. *)
LEMMA ReaderInv == QueueInv /\ ReaderStep => QueueInv'
<1> SUFFICES ASSUME QueueInv, ReaderStep PROVE QueueInv'
  OBVIOUS
<1> USE NullAssumption, MaxCountAssumption
    DEF QueueInv, TypeOK, WriterLocked, ReaderLocked, Unlinked, Holding,
        Linked, Open, queueVars, heapVars, writerVars, readerVars,
        monitorVars, mainVars, MainRest
<1>1. CASE GetLock
  <2>1. TypeOK'
    BY SMTT(60), <1>1 DEF GetLock
  <2>2. LockInv'
    BY SMTT(60), <1>1 DEF GetLock, LockInv
  <2>3. Open' => ListInv'
    BY <1>1 DEF GetLock, LockInv, ListInv
  <2>4. Open' => HeapInv'
    BY SMTT(60), <1>1 DEF GetLock, LockInv, ListInv, HeapInv, InChain
  <2>5. Open' => ValueInv'
    BY SMTT(60), <1>1 DEF GetLock, LockInv, ListInv, HeapInv, ValueInv, Taken
  <2>6. ~error' /\ NoTouchAfterFree'
    BY <1>1 DEF GetLock, NoTouchAfterFree, LockInv, HeapInv, ValueInv
  <2> QED
    BY ZenonT(60), <2>1, <2>2, <2>3, <2>4, <2>5, <2>6
<1>2. CASE GetTest
  <2>1. TypeOK'
    BY SMTT(60), <1>2 DEF GetTest
  <2>2. LockInv'
    BY SMTT(60), <1>2 DEF GetTest, LockInv
  <2>3. Open' => ListInv'
    BY SMTT(60), <1>2 DEF GetTest, LockInv, ListInv
  <2>4. Open' => HeapInv'
    BY SMTT(60), <1>2 DEF GetTest, LockInv, ListInv, HeapInv, InChain
  <2>5. Open' => ValueInv'
    BY SMTT(60), <1>2 DEF GetTest, LockInv, ListInv, HeapInv, ValueInv, Taken
  <2>6. ~error' /\ NoTouchAfterFree'
    BY SMTT(60), <1>2 DEF GetTest, NoTouchAfterFree, LockInv, HeapInv, ValueInv
  <2> QED
    BY ZenonT(60), <2>1, <2>2, <2>3, <2>4, <2>5, <2>6
<1>3. CASE GetEmpty
  <2>1. TypeOK'
    BY SMTT(60), <1>3 DEF GetEmpty
  <2>2. LockInv'
    BY SMTT(60), <1>3 DEF GetEmpty, LockInv
  <2>3. Open' => ListInv'
    BY SMTT(60), <1>3 DEF GetEmpty, LockInv, ListInv
  <2>4. Open' => HeapInv'
    BY SMTT(60), <1>3 DEF GetEmpty, LockInv, ListInv, HeapInv, InChain
  <2>5. Open' => ValueInv'
    BY SMTT(60), <1>3 DEF GetEmpty, LockInv, ListInv, HeapInv, ValueInv, Taken
  <2>6. ~error' /\ NoTouchAfterFree'
    BY SMTT(60), <1>3 DEF GetEmpty, NoTouchAfterFree, LockInv, HeapInv, ValueInv
  <2> QED
    BY ZenonT(60), <2>1, <2>2, <2>3, <2>4, <2>5, <2>6
<1>4. CASE GetUnlink
  BY ZenonT(60), <1>4, GetUnlinkInv
<1>5. CASE GetCount
  <2>1. TypeOK'
    BY SMTT(60), <1>5 DEF GetCount
  <2>2. LockInv'
    BY SMTT(60), <1>5 DEF GetCount, LockInv
  <2>3. Open' => ListInv'
    BY SMTT(60), <1>5 DEF GetCount, LockInv, ListInv
  <2>4. Open' => HeapInv'
    BY SMTT(60), <1>5 DEF GetCount, LockInv, ListInv, HeapInv, InChain
  <2>5. Open' => ValueInv'
    BY SMTT(60), <1>5 DEF GetCount, LockInv, ListInv, HeapInv, ValueInv, Taken
  <2>6. ~error' /\ NoTouchAfterFree'
    BY SMTT(60), <1>5 DEF GetCount, NoTouchAfterFree, LockInv, HeapInv, ValueInv
  <2> QED
    BY ZenonT(60), <2>1, <2>2, <2>3, <2>4, <2>5, <2>6
<1>6. CASE GetStat
  <2>1. TypeOK'
    BY SMTT(60), <1>6 DEF GetStat
  <2>2. LockInv'
    BY SMTT(60), <1>6 DEF GetStat, LockInv
  <2>3. Open' => ListInv'
    BY SMTT(60), <1>6 DEF GetStat, LockInv, ListInv
  <2>4. Open' => HeapInv'
    BY SMTT(60), <1>6 DEF GetStat, LockInv, ListInv, HeapInv, InChain
  <2>5. Open' => ValueInv'
    BY SMTT(60), <1>6 DEF GetStat, LockInv, ListInv, HeapInv, ValueInv, Taken
  <2>6. ~error' /\ NoTouchAfterFree'
    BY SMTT(60), <1>6 DEF GetStat, NoTouchAfterFree, LockInv, HeapInv, ValueInv
  <2> QED
    BY ZenonT(60), <2>1, <2>2, <2>3, <2>4, <2>5, <2>6
<1>7. CASE GetUnlock
  <2>1. TypeOK'
    BY SMTT(60), <1>7 DEF GetUnlock
  <2>2. LockInv'
    BY SMTT(60), <1>7 DEF GetUnlock, LockInv
  <2>3. Open' => ListInv'
    BY SMTT(60), <1>7 DEF GetUnlock, LockInv, ListInv
  <2>4. Open' => HeapInv'
    BY SMTT(60), <1>7 DEF GetUnlock, LockInv, ListInv, HeapInv, InChain
  <2>5. Open' => ValueInv'
    BY SMTT(60), <1>7 DEF GetUnlock, LockInv, ListInv, HeapInv, ValueInv, Taken
  <2>6. ~error' /\ NoTouchAfterFree'
    BY SMTT(60), <1>7 DEF GetUnlock, NoTouchAfterFree, LockInv, HeapInv, ValueInv
  <2> QED
    BY ZenonT(60), <2>1, <2>2, <2>3, <2>4, <2>5, <2>6
<1>8. CASE GetRead
  <2>1. TypeOK'
    BY SMTT(60), <1>8 DEF GetRead, NoVal
  <2>2. LockInv'
    BY <1>8 DEF GetRead, LockInv
  <2>3. Open' => ListInv'
    BY SMTT(60), <1>8 DEF GetRead, LockInv, ListInv
  <2>4. Open' => HeapInv'
    BY SMTT(60), <1>8 DEF GetRead, LockInv, ListInv, HeapInv, InChain
  <2>5. Open' => ValueInv'
    BY SMTT(60), <1>8 DEF GetRead, LockInv, ListInv, HeapInv, ValueInv, Taken
  <2>6. ~error' /\ NoTouchAfterFree'
    BY ZenonT(60), <1>8 DEF GetRead, NoTouchAfterFree, LockInv, HeapInv,
       ValueInv
  <2> QED
    BY ZenonT(60), <2>1, <2>2, <2>3, <2>4, <2>5, <2>6
<1>9. CASE GetFree
  <2>1. TypeOK'
    BY SMTT(60), <1>9 DEF GetFree
  <2>2. LockInv'
    BY <1>9 DEF GetFree, LockInv
  <2>3. Open' => ListInv'
    BY <1>9 DEF GetFree, LockInv, ListInv
  <2>4. Open' => HeapInv'
    BY SMTT(60), <1>9 DEF GetFree, LockInv, ListInv, HeapInv, InChain
  <2>5. Open' => ValueInv'
    BY SMTT(60), <1>9 DEF GetFree, LockInv, ListInv, HeapInv, ValueInv, Taken
  <2>6. ~error' /\ NoTouchAfterFree'
    BY <1>9 DEF GetFree, NoTouchAfterFree, LockInv, HeapInv, ValueInv
  <2> QED
    BY ZenonT(60), <2>1, <2>2, <2>3, <2>4, <2>5, <2>6
<1>10. CASE ReaderCheck
  <2>1. TypeOK'
    BY SMTT(60), <1>10 DEF ReaderCheck, NoVal, LockInv, ValueInv
  <2>2. LockInv'
    BY <1>10 DEF ReaderCheck, LockInv
  <2>3. Open' => ListInv'
    BY SMTT(60), <1>10 DEF ReaderCheck, LockInv, ListInv
  <2>4. Open' => HeapInv'
    BY SMTT(60), <1>10 DEF ReaderCheck, LockInv, ListInv, HeapInv, InChain
  <2>5. Open' => ValueInv'
    BY SMTT(60), <1>10 DEF ReaderCheck, LockInv, ListInv, HeapInv, ValueInv,
       Taken
  <2>6. ~error' /\ NoTouchAfterFree'
    BY ZenonT(60), <1>10 DEF ReaderCheck, NoTouchAfterFree, LockInv, HeapInv,
       ValueInv
  <2> QED
    BY ZenonT(60), <2>1, <2>2, <2>3, <2>4, <2>5, <2>6
<1> QED
  BY ZenonT(60), <1>1, <1>2, <1>3, <1>4, <1>5, <1>6, <1>7, <1>8, <1>9, <1>10
     DEF ReaderStep

(* Every step of main preserves the invariant. *)
LEMMA MainInv == QueueInv /\ MainStep => QueueInv'
<1> SUFFICES ASSUME QueueInv, MainStep PROVE QueueInv'
  OBVIOUS
<1> USE NullAssumption, MaxCountAssumption
    DEF QueueInv, TypeOK, WriterLocked, ReaderLocked, Unlinked, Holding,
        Linked, Open, queueVars, heapVars, writerVars, readerVars,
        monitorVars, mainVars, MainRest
<1>1. CASE InitLock
  <2>1. TypeOK'
    BY SMTT(60), <1>1 DEF InitLock
  <2>2. LockInv'
    BY SMTT(60), <1>1 DEF InitLock, LockInv
  <2>3. Open' => ListInv'
    BY SMTT(60), <1>1 DEF InitLock, LockInv, ListInv
  <2>4. Open' => HeapInv'
    BY SMTT(60), <1>1 DEF InitLock, LockInv, ListInv, HeapInv, InChain
  <2>5. Open' => ValueInv'
    BY SMTT(60), <1>1 DEF InitLock, LockInv, ListInv, HeapInv, ValueInv, Taken
  <2>6. ~error' /\ NoTouchAfterFree'
    BY SMTT(60), <1>1 DEF InitLock, NoTouchAfterFree, LockInv, HeapInv, ValueInv
  <2> QED
    BY ZenonT(60), <2>1, <2>2, <2>3, <2>4, <2>5, <2>6
<1>2. CASE CreateWriter
  <2>1. TypeOK'
    BY SMTT(60), <1>2 DEF CreateWriter
  <2>2. LockInv'
    BY SMTT(60), <1>2 DEF CreateWriter, LockInv
  <2>3. Open' => ListInv'
    BY SMTT(60), <1>2 DEF CreateWriter, LockInv, ListInv
  <2>4. Open' => HeapInv'
    BY SMTT(60), <1>2 DEF CreateWriter, LockInv, ListInv, HeapInv, InChain
  <2>5. Open' => ValueInv'
    BY SMTT(60), <1>2 DEF CreateWriter, LockInv, ListInv, HeapInv, ValueInv, Taken
  <2>6. ~error' /\ NoTouchAfterFree'
    BY SMTT(60), <1>2 DEF CreateWriter, NoTouchAfterFree, LockInv, HeapInv, ValueInv
  <2> QED
    BY ZenonT(60), <2>1, <2>2, <2>3, <2>4, <2>5, <2>6
<1>3. CASE CreateReader
  <2>1. TypeOK'
    BY SMTT(60), <1>3 DEF CreateReader
  <2>2. LockInv'
    BY <1>3 DEF CreateReader, LockInv
  <2>3. Open' => ListInv'
    BY SMTT(60), <1>3 DEF CreateReader, LockInv, ListInv
  <2>4. Open' => HeapInv'
    BY SMTT(60), <1>3 DEF CreateReader, LockInv, ListInv, HeapInv, InChain
  <2>5. Open' => ValueInv'
    BY SMTT(60), <1>3 DEF CreateReader, LockInv, ListInv, HeapInv, ValueInv,
       Taken
  <2>6. ~error' /\ NoTouchAfterFree'
    BY SMTT(60), <1>3 DEF CreateReader, NoTouchAfterFree, LockInv, HeapInv,
       ValueInv
  <2> QED
    BY ZenonT(60), <2>1, <2>2, <2>3, <2>4, <2>5, <2>6
<1>4. CASE DestroyBegin
  BY ZenonT(60), <1>4 DEF DestroyBegin, LockInv, ListInv, HeapInv, ValueInv,
     InChain,
     Taken, NoTouchAfterFree
<1>5. CASE DestroyJoin("free_nodes")
  <2>1. TypeOK'
    BY SMTT(60), <1>5 DEF DestroyJoin
  <2>2. LockInv'
    BY SMTT(60), <1>5 DEF DestroyJoin, LockInv
  <2>3. Open' => ListInv'
    BY SMTT(60), <1>5 DEF DestroyJoin, LockInv, ListInv
  <2>4. Open' => HeapInv'
    BY SMTT(60), <1>5 DEF DestroyJoin, LockInv, ListInv, HeapInv, InChain
  <2>5. Open' => ValueInv'
    BY SMTT(60), <1>5 DEF DestroyJoin, LockInv, ListInv, HeapInv, ValueInv, Taken
  <2>6. ~error' /\ NoTouchAfterFree'
    BY SMTT(60), <1>5 DEF DestroyJoin, NoTouchAfterFree, LockInv, HeapInv, ValueInv
  <2> QED
    BY ZenonT(60), <2>1, <2>2, <2>3, <2>4, <2>5, <2>6
<1>6. CASE DestroyNode
  <2>1. TypeOK'
    BY SMTT(60), <1>6 DEF DestroyNode
  <2>2. LockInv'
    BY SMTT(60), <1>6 DEF DestroyNode, LockInv
  <2>3. Open' => ListInv'
    BY SMTT(60), <1>6 DEF DestroyNode, LockInv, ListInv
  <2>4. Open' => HeapInv'
    BY SMTT(60), <1>6 DEF DestroyNode, LockInv, ListInv, HeapInv, InChain
  <2>5. Open' => ValueInv'
    BY SMTT(60), <1>6 DEF DestroyNode, LockInv, ListInv, HeapInv, ValueInv, Taken
  <2>6. ~error' /\ NoTouchAfterFree'
    BY SMTT(60), <1>6 DEF DestroyNode, NoTouchAfterFree, LockInv, HeapInv, ValueInv
  <2> QED
    BY ZenonT(60), <2>1, <2>2, <2>3, <2>4, <2>5, <2>6
<1>7. CASE DestroyEnd
  <2>1. TypeOK'
    BY SMTT(60), <1>7 DEF DestroyEnd
  <2>2. LockInv'
    BY SMTT(60), <1>7 DEF DestroyEnd, LockInv
  <2>3. Open' => ListInv'
    BY SMTT(60), <1>7 DEF DestroyEnd, LockInv, ListInv
  <2>4. Open' => HeapInv'
    BY SMTT(60), <1>7 DEF DestroyEnd, LockInv, ListInv, HeapInv, InChain
  <2>5. Open' => ValueInv'
    BY SMTT(60), <1>7 DEF DestroyEnd, LockInv, ListInv, HeapInv, ValueInv, Taken
  <2>6. ~error' /\ NoTouchAfterFree'
    BY SMTT(60), <1>7 DEF DestroyEnd, NoTouchAfterFree, LockInv, HeapInv, ValueInv
  <2> QED
    BY ZenonT(60), <2>1, <2>2, <2>3, <2>4, <2>5, <2>6
<1> QED
  BY ZenonT(60), <1>1, <1>2, <1>3, <1>4, <1>5, <1>6, <1>7 DEF MainStep

-----------------------------------------------------------------------------
(* The steps are steps of the abstract buffer.                               *)

(* The state of the abstract buffer under the refinement mapping. *)
Vals == [k \in 1..Len(chain) |-> val[chain[k]]]

HandVal == IF rpc \in {"count", "stat", "unlock", "read"} THEN val[tmp]
           ELSE IF rpc \in {"free", "check"} THEN got ELSE NoVal

Sent == IF Linked THEN i + 1 ELSE i

Stutter == Vals' = Vals /\ HandVal' = HandVal /\ Sent' = Sent /\ Open' = Open

(* A sequence is a function on an initial segment of the naturals. *)
LEMMA SeqIsFunction ==
    ASSUME NEW S, NEW s \in Seq(S)
    PROVE  s = [k \in 1..Len(s) |-> s[k]]
OBVIOUS

(* Linking a node is a Put of the abstract buffer. *)
LEMMA LinkPuts == QueueInv /\ Open /\ AddLink => Fifo!Put
<1> SUFFICES ASSUME QueueInv, Open, AddLink PROVE Fifo!Put
  OBVIOUS
<1> USE DEF queueVars, heapVars, writerVars, readerVars, monitorVars, mainVars
<1>1. /\ chain \in Seq(Nodes)
      /\ chain' = Append(chain, new)
      /\ new \in Nodes
      /\ val' = val
      /\ val \in [Nodes -> Int]
  BY DEF QueueInv, TypeOK, AddLink, LockInv, Unlinked
<1>2. /\ Len(Vals) = Len(chain)
      /\ Vals \in Seq(Int)
  BY <1>1 DEF Vals
<1>3. val[new] = i
  BY DEF QueueInv, ValueInv, AddLink, Unlinked
<1>4. Vals' = Append(Vals, i)
  <2>1. /\ Len(chain') = Len(chain) + 1
        /\ \A k \in 1..Len(chain) : chain'[k] = chain[k]
        /\ chain'[Len(chain) + 1] = new
    BY <1>1
  <2>2. /\ Append(Vals, i) \in Seq(Int)
        /\ Len(Append(Vals, i)) = Len(chain) + 1
        /\ \A k \in 1..Len(chain) : Append(Vals, i)[k] = Vals[k]
        /\ Append(Vals, i)[Len(chain) + 1] = i
    <3>1. i \in Int
      BY DEF QueueInv, TypeOK
    <3> QED
      BY <1>2, <3>1
  <2>3. /\ Vals' = [k \in 1..(Len(chain) + 1) |-> val[chain'[k]]]
        /\ \A k \in 1..Len(chain) : Vals[k] = val[chain[k]]
    BY <1>1, <2>1 DEF Vals
  <2>4. \A k \in 1..(Len(chain) + 1) : Append(Vals, i)[k] = val[chain'[k]]
    BY <1>1, <1>3, <2>1, <2>2, <2>3
  <2>5. Append(Vals, i) = [k \in 1..(Len(chain) + 1) |-> Append(Vals, i)[k]]
    BY ZenonT(60), <2>2, SeqIsFunction
  <2> QED
    BY <2>3, <2>4, <2>5
<1>5. Len(Vals) < MaxCount
  BY SMTT(60), <1>2 DEF QueueInv, LockInv, ListInv, AddLink, TypeOK,
     WriterLocked,
              ReaderLocked
<1>6. Sent = i /\ Sent' = i + 1
  BY DEF AddLink, Sent, Linked
<1>7. HandVal' = HandVal /\ Open' = Open
  BY <1>1 DEF AddLink, HandVal, Open
<1> QED
  BY ZenonT(60), <1>4, <1>5, <1>6, <1>7 DEF Fifo!Put, Vals, HandVal, Sent

(* Unlinking a node is a Get of the abstract buffer. *)
LEMMA UnlinkGets == QueueInv /\ GetUnlink => Fifo!Get
<1> SUFFICES ASSUME QueueInv, GetUnlink PROVE Fifo!Get
  OBVIOUS
<1> USE DEF queueVars, heapVars, writerVars, readerVars, monitorVars, mainVars
<1>1. /\ Open /\ Open'
      /\ chain \in Seq(Nodes)
      /\ chain # <<>>
      /\ chain' = Tail(chain)
      /\ first = chain[1]
      /\ tmp' = first
      /\ val' = val
      /\ val \in [Nodes -> Int]
  BY SMTT(60), NullAssumption
     DEF GetUnlink, QueueInv, LockInv, ListInv, TypeOK, Open, WriterLocked,
         ReaderLocked
<1>2. /\ Vals \in Seq(Int)
      /\ Len(Vals) = Len(chain)
      /\ Vals # <<>>
      /\ Head(Vals) = val[first]
  BY <1>1 DEF Vals
<1>3. Vals' = Tail(Vals)
  <2>1. /\ Len(chain') = Len(chain) - 1
        /\ \A k \in 1..(Len(chain) - 1) : chain'[k] = chain[k + 1]
    BY <1>1
  <2>2. /\ Tail(Vals) \in Seq(Int)
        /\ Len(Tail(Vals)) = Len(chain) - 1
        /\ \A k \in 1..(Len(chain) - 1) : Tail(Vals)[k] = Vals[k + 1]
    BY <1>2
  <2>3. Vals' = [k \in 1..(Len(chain) - 1) |-> val[chain'[k]]]
    BY <1>1, <2>1 DEF Vals
  <2>4. \A k \in 1..(Len(chain) - 1) : Tail(Vals)[k] = val[chain'[k]]
    BY <1>1, <2>1, <2>2 DEF Vals
  <2>5. Tail(Vals) = [k \in 1..(Len(chain) - 1) |-> Tail(Vals)[k]]
    BY ZenonT(60), <2>2, SeqIsFunction
  <2> QED
    BY <2>3, <2>4, <2>5
<1>4. HandVal = NoVal /\ HandVal' = val[first]
  BY <1>1 DEF GetUnlink, HandVal
<1>5. Sent' = Sent
  BY DEF GetUnlink, Sent, Linked
<1> QED
  BY SMTT(60), <1>1, <1>2, <1>3, <1>4, <1>5 DEF Fifo!Get, Vals, HandVal, Sent

(* A value the reader has checked leaves its hand. *)
LEMMA CheckUses == QueueInv /\ ReaderCheck => Fifo!Use
<1> SUFFICES ASSUME QueueInv, ReaderCheck PROVE Fifo!Use
  OBVIOUS
<1> USE DEF queueVars, heapVars, writerVars, monitorVars, mainVars
<1>1. Open /\ Open' = Open
  BY DEF ReaderCheck, QueueInv, LockInv, Open
<1>2. Vals' = Vals /\ Sent' = Sent
  BY DEF ReaderCheck, Vals, Sent, Linked
<1>3. HandVal = expected /\ expected \in Nat
  BY <1>1 DEF ReaderCheck, HandVal, QueueInv, ValueInv, TypeOK
<1>4. HandVal' = NoVal /\ HandVal # NoVal
  BY <1>3 DEF ReaderCheck, HandVal, NoVal
<1> QED
  BY <1>1, <1>2, <1>4 DEF Fifo!Use, Vals, HandVal, Sent

(* The node malloc returns is neither in the list nor in the reader's hand,  *)
(* so that its initialisation is invisible.                                  *)
LEMMA MallocStutters == QueueInv /\ Open /\ AddMalloc => Stutter
<1> SUFFICES ASSUME QueueInv, Open, AddMalloc PROVE Stutter
  OBVIOUS
<1> USE DEF queueVars, heapVars, readerVars, monitorVars, mainVars
<1>1. new' \notin used /\ val' = [val EXCEPT ![new'] = i]
  BY DEF AddMalloc
<1>2. /\ \A k \in 1..Len(chain) : chain[k] \in used
      /\ Holding => tmp \in used
  BY NullAssumption DEF QueueInv, HeapInv, InChain, Holding
<1>3. \A n \in used : val'[n] = val[n]
  BY <1>1 DEF QueueInv, TypeOK
<1>4. Vals' = Vals
  BY <1>2, <1>3 DEF Vals, AddMalloc
<1>5. HandVal' = HandVal
  BY <1>2, <1>3 DEF HandVal, Holding, AddMalloc
<1> QED
  BY <1>4, <1>5 DEF Stutter, Sent, Linked, Open, AddMalloc

(* Every other step of the writer and the reader is invisible too. *)
LEMMA QuietSteps ==
    ASSUME QueueInv, Open,
           \/ AddAbort \/ AddLock \/ AddTest \/ AddCount \/ AddStat \/ AddUnlock
           \/ FullUnlock \/ FullFree \/ FullFreeLocked \/ FullUnlockLast
           \/ GetLock \/ GetTest \/ GetEmpty \/ GetCount \/ GetStat
           \/ GetUnlock \/ GetRead \/ GetFree
    PROVE  Stutter
<1> USE DEF queueVars, heapVars, writerVars, readerVars, monitorVars, mainVars
<1>1. chain' = chain /\ val' = val /\ main' = main
  BY ZenonT(60) DEF AddAbort, AddLock, AddTest, AddCount, AddStat, AddUnlock,
     FullUnlock,
     FullFree, FullFreeLocked, FullUnlockLast, GetLock, GetTest, GetEmpty,
     GetCount, GetStat, GetUnlock, GetRead, GetFree
<1>2. Vals' = Vals /\ Open' = Open
  BY <1>1 DEF Vals, Open
<1>3. Sent' = Sent
  BY ZenonT(60) DEF Sent, Linked, AddAbort, AddLock, AddTest, AddCount,
     AddStat,
     AddUnlock, FullUnlock, FullFree, FullFreeLocked, FullUnlockLast, GetLock,
     GetTest, GetEmpty, GetCount, GetStat, GetUnlock, GetRead, GetFree
<1>4. GetRead => val[tmp] = got'
  BY ZenonT(60), NullAssumption DEF GetRead, QueueInv, HeapInv, Holding,
     LockInv, Open
<1>5. HandVal' = HandVal
  BY ZenonT(60), <1>1, <1>4 DEF HandVal, AddAbort, AddLock, AddTest, AddCount,
     AddStat,
     AddUnlock, FullUnlock, FullFree, FullFreeLocked, FullUnlockLast, GetLock,
     GetTest, GetEmpty, GetCount, GetStat, GetUnlock, GetRead, GetFree
<1> QED
  BY <1>2, <1>3, <1>5 DEF Stutter

(* A step of main is invisible or, when it begins to tear the queue down,    *)
(* closes the buffer.                                                        *)
LEMMA MainCloses ==
    ASSUME QueueInv, Open, MainStep
    PROVE  Stutter \/ Fifo!Close
<1> USE DEF queueVars, heapVars, writerVars, readerVars, monitorVars, MainRest
<1>1. InitLock \/ CreateWriter \/ CreateReader
  BY ZenonT(60) DEF MainStep, Open, DestroyBegin, DestroyJoin, DestroyNode,
     DestroyEnd
<1>2. /\ Vals' = Vals
      /\ HandVal' = HandVal
      /\ Sent' = Sent
  BY SMTT(60), <1>1 DEF InitLock, CreateWriter, CreateReader, Vals, HandVal,
     Sent,
     Linked,
              QueueInv, LockInv
<1>3. CASE Open'
  BY <1>2, <1>3 DEF Stutter, Open
<1>4. CASE ~Open'
  <2>1. Open /\ (Open' = FALSE)
    BY <1>4
  <2> QED
    BY ZenonT(60), <2>1, <1>2 DEF Fifo!Close, Vals, HandVal, Sent
<1> QED
  BY <1>3, <1>4

(* A queue that is torn down stays so. *)
LEMMA TornDown ==
    ASSUME ~Open, WriterStep \/ ReaderStep \/ MainStep
    PROVE  ~Open'
BY ZenonT(60) DEF Open, WriterStep, ReaderStep, MainStep, queueVars, heapVars,
   writerVars,
       readerVars, monitorVars, mainVars, MainRest, AddMalloc, AddLink,
       GetUnlink, ReaderCheck, AddAbort, AddLock, AddTest, AddCount, AddStat,
       AddUnlock, FullUnlock, FullFree, FullFreeLocked, FullUnlockLast,
       GetLock, GetTest, GetEmpty, GetCount, GetStat, GetUnlock, GetRead,
       GetFree,
       InitLock, CreateWriter, CreateReader, DestroyBegin, DestroyJoin,
       DestroyNode, DestroyEnd

(* An invisible step leaves the abstract buffer alone. *)
LEMMA StutterIsFifo == Stutter => UNCHANGED Fifo!fvars
BY DEF Stutter, Fifo!fvars, Vals, HandVal, Sent

(* Every step of the writer, the reader and main is a step of the abstract   *)
(* buffer or invisible.                                                      *)
LEMMA FifoStep ==
    ASSUME QueueInv, WriterStep \/ ReaderStep \/ MainStep
    PROVE  [Fifo!FNext]_(Fifo!fvars)
<1>1. CASE ~Open
  BY <1>1, TornDown DEF Fifo!FNext, Fifo!Closed
<1>2. CASE Open /\ MainStep
  BY <1>2, MainCloses, StutterIsFifo DEF Fifo!FNext
<1>3. CASE Open /\ (WriterStep \/ ReaderStep)
  BY <1>3, LinkPuts, UnlinkGets, CheckUses, MallocStutters, QuietSteps,
     StutterIsFifo DEF Fifo!FNext, WriterStep, ReaderStep
<1> QED
  BY <1>1, <1>2, <1>3

-----------------------------------------------------------------------------
(* What every variant needs besides.                                         *)

(* queue_init establishes the invariant. *)
LEMMA InitInv == Init => QueueInv
BY SMTT(60), MaxCountAssumption, NullAssumption
   DEF Init, QueueInv, TypeOK, LockInv, ListInv, HeapInv, ValueInv, InChain,
       NoTouchAfterFree, WriterLocked, ReaderLocked, Unlinked, Holding, Linked,
       Open, Taken, NoVal

(* queue_init establishes an empty buffer. *)
LEMMA InitFifo == Init => Fifo!FInit
BY DEF Init, Fifo!FInit, Linked, Open

(* A step that leaves all but the monitor's variables alone is harmless. *)
LEMMA FrameInv == QueueInv /\ UNCHANGED MonitorRest => QueueInv' /\ Stutter
<1> SUFFICES ASSUME QueueInv, UNCHANGED MonitorRest PROVE QueueInv' /\ Stutter
  OBVIOUS
<1> USE DEF MonitorRest, queueVars, heapVars, writerVars, readerVars, mainVars
<1>1. TypeOK' /\ LockInv' /\ ~error' /\ NoTouchAfterFree'
  BY SMTT(60) DEF QueueInv, TypeOK, LockInv, NoTouchAfterFree, WriterLocked,
         ReaderLocked, Unlinked, Open
<1>2. Open' = Open /\ (Open => ListInv' /\ HeapInv' /\ ValueInv')
  <2>1. Open' = Open /\ (Open => ListInv /\ HeapInv /\ ValueInv)
    BY DEF QueueInv, Open
  <2>2. Linked' = Linked /\ Unlinked' = Unlinked /\ Holding' = Holding
    BY DEF Linked, Unlinked, Holding
  <2>3. InChain' = InChain /\ Taken' = Taken
    BY <2>2 DEF InChain, Taken
  <2>4. ListInv => ListInv'
    BY <2>2 DEF ListInv
  <2>5. HeapInv => HeapInv'
    BY <2>2, <2>3 DEF HeapInv
  <2>6. ValueInv => ValueInv'
    BY <2>2, <2>3 DEF ValueInv
  <2> QED
    BY <2>1, <2>4, <2>5, <2>6
<1>3. Vals' = Vals /\ HandVal' = HandVal /\ Sent' = Sent
  BY DEF Vals, HandVal, Sent, Linked
<1> QED
  BY <1>1, <1>2, <1>3 DEF QueueInv, Stutter

(* The invariant implies the assertions of queue_add and queue_get and that  *)
(* nothing leaks.                                                            *)
LEMMA InvImplies == QueueInv => AssertionsHold /\ NoReaderError /\ NoLeak
BY MaxCountAssumption
   DEF QueueInv, LockInv, HeapInv, AssertionsHold, NoReaderError, NoLeak
-----------------------------------------------------------------------------
(* The programs.                                                             *)

Mutex == INSTANCE MutexQueue
Spin  == INSTANCE SpinQueue
Sleep == INSTANCE SleepQueue

(* No step of the writer, the reader or main leaves the lock with a thread   *)
(* that has left its critical section.                                       *)
LEMMA LockHeldStep ==
    ASSUME QueueInv, LockHeldInside, Alive, WriterStep \/ ReaderStep \/ MainStep
    PROVE  LockHeldInside'
<1> USE DEF LockHeldInside, Alive, WriterLocked, ReaderLocked, queueVars,
        heapVars, writerVars, readerVars, monitorVars, mainVars
<1>1. CASE WriterStep
  BY ZenonT(30), <1>1 DEF WriterStep, AddMalloc, AddAbort, AddLock, AddTest, AddLink,
     AddCount, AddStat, AddUnlock, FullUnlock, FullFree, FullFreeLocked,
     FullUnlockLast
<1>2. CASE ReaderStep
  BY ZenonT(30), <1>2 DEF ReaderStep, GetLock, GetTest, GetEmpty, GetUnlink, GetCount,
     GetStat, GetUnlock, GetRead, GetFree, ReaderCheck
<1>3. CASE MainStep
  BY ZenonT(30), <1>3 DEF MainStep, MainRest, InitLock, CreateWriter, CreateReader,
     DestroyBegin, DestroyJoin, DestroyNode, DestroyEnd, QueueInv, LockInv
<1> QED
  BY <1>1, <1>2, <1>3

(* Neither does a step that leaves all but the monitor's variables alone. *)
LEMMA LockHeldFrame ==
    LockHeldInside /\ UNCHANGED MonitorRest => LockHeldInside'
BY DEF LockHeldInside, Alive, WriterLocked, ReaderLocked, MonitorRest,
   writerVars, readerVars, mainVars

(* The steps of mutex/queue-mutex.c are steps of the queue. *)
LEMMA MutexSteps ==
    [Mutex!Next]_(Mutex!vars) =>
        \/ Alive /\ (WriterStep \/ ReaderStep \/ MainStep)
        \/ UNCHANGED MonitorRest
<1> USE DEF queueVars, heapVars, writerVars, readerVars, monitorVars, mainVars,
        Mutex!queueVars, Mutex!heapVars, Mutex!writerVars, Mutex!readerVars,
        Mutex!monitorVars, Mutex!mainVars
<1>1. Mutex!writer => WriterStep
  BY Zenon DEF Mutex!writer, Mutex!queue_add, WriterStep,
         AddMalloc, AddAbort, AddLock, AddTest, AddLink, AddCount, AddStat,
         AddUnlock, FullUnlock, FullFree,
         Mutex!AddMalloc, Mutex!AddAbort, Mutex!AddLock, Mutex!AddTest,
         Mutex!AddLink, Mutex!AddCount, Mutex!AddStat,
         Mutex!AddUnlock, Mutex!FullUnlock, Mutex!FullFree
<1>2. Mutex!reader => ReaderStep
  BY Zenon DEF Mutex!reader, Mutex!queue_get, ReaderStep, NoVal,
     Mutex!NoVal,
         GetLock, GetTest, GetEmpty, GetUnlink, GetCount, GetStat, GetUnlock,
         GetRead, GetFree, ReaderCheck,
         Mutex!GetLock, Mutex!GetTest, Mutex!GetEmpty, Mutex!GetUnlink,
         Mutex!GetCount, Mutex!GetStat, Mutex!GetUnlock,
         Mutex!GetRead, Mutex!GetFree, Mutex!ReaderCheck
<1>3. Mutex!Main => MainStep
  BY Zenon DEF Mutex!Main, Mutex!queue_destroy, MainStep, MainRest,
     Mutex!MainRest,
         InitLock, CreateWriter, CreateReader, DestroyBegin, DestroyJoin,
         DestroyNode, DestroyEnd,
         Mutex!InitLock, Mutex!CreateWriter, Mutex!CreateReader,
         Mutex!DestroyBegin, Mutex!DestroyJoin, Mutex!DestroyNode,
         Mutex!DestroyEnd
<1>4. Mutex!qmonitor \/ Mutex!Finished => UNCHANGED MonitorRest
  BY Zenon DEF Mutex!qmonitor, Mutex!MonitorTest, Mutex!MonitorCount,
     Mutex!MonitorAdd,
         Mutex!MonitorGet, Mutex!MonitorPrint, Mutex!Finished, Mutex!vars,
         MonitorRest, Mutex!MonitorRest
<1>5. UNCHANGED Mutex!vars => UNCHANGED MonitorRest
  BY Zenon DEF Mutex!vars, MonitorRest
<1> QED
  BY <1>1, <1>2, <1>3, <1>4, <1>5 DEF Mutex!Next, Mutex!Alive, Alive

(* The inductive invariant of mutex/queue-mutex.c. *)
LEMMA MutexInductive == Mutex!Spec => [](QueueInv /\ LockHeldInside)
<1>1. Mutex!Init => QueueInv /\ LockHeldInside
  BY InitInv DEF Mutex!Init, Init, Mutex!NoVal, NoVal, Mutex!NoSnap, NoSnap,
     LockHeldInside
<1>2. QueueInv /\ LockHeldInside /\ [Mutex!Next]_(Mutex!vars)
        => QueueInv' /\ LockHeldInside'
  BY MutexSteps, WriterInv, ReaderInv, MainInv, FrameInv,
     LockHeldStep, LockHeldFrame
<1> QED
  BY <1>1, <1>2, PTL DEF Mutex!Spec

(* mutex/queue-mutex.c is a bounded first-in first-out buffer. *)
LEMMA MutexFifo == Mutex!Spec => ImplementsFifo
<1>1. Mutex!Init => Fifo!FInit
  BY InitFifo DEF Mutex!Init, Init, Mutex!NoVal, NoVal, Mutex!NoSnap, NoSnap
<1>2. QueueInv /\ [Mutex!Next]_(Mutex!vars) => [Fifo!FNext]_(Fifo!fvars)
  BY MutexSteps, FifoStep, FrameInv, StutterIsFifo
<1> QED
  BY <1>1, <1>2, MutexInductive, PTL DEF Mutex!Spec, ImplementsFifo, Fifo!FSpec

(* The steps of spin-lock/queue-spin-lock.c are steps of the queue. *)
LEMMA SpinSteps ==
    [Spin!Next]_(Spin!vars) =>
        \/ Alive /\ (WriterStep \/ ReaderStep \/ MainStep)
        \/ UNCHANGED MonitorRest
<1> USE DEF queueVars, heapVars, writerVars, readerVars, monitorVars, mainVars,
        Spin!queueVars, Spin!heapVars, Spin!writerVars, Spin!readerVars,
        Spin!monitorVars, Spin!mainVars
<1>1. Spin!writer => WriterStep
  BY Zenon DEF Spin!writer, Spin!queue_add, WriterStep,
         AddMalloc, AddAbort, AddLock, AddTest, AddLink, AddCount, AddStat,
         AddUnlock, FullFreeLocked, FullUnlockLast,
         Spin!AddMalloc, Spin!AddAbort, Spin!AddLock, Spin!AddTest,
         Spin!AddLink, Spin!AddCount, Spin!AddStat, Spin!AddUnlock,
         Spin!FullFreeLocked, Spin!FullUnlockLast
<1>2. Spin!reader => ReaderStep
  BY Zenon DEF Spin!reader, Spin!queue_get, ReaderStep, NoVal, Spin!NoVal,
         GetLock, GetTest, GetEmpty, GetUnlink, GetCount, GetStat, GetUnlock,
         GetRead, GetFree, ReaderCheck,
         Spin!GetLock, Spin!GetTest, Spin!GetEmpty, Spin!GetUnlink,
         Spin!GetCount, Spin!GetStat, Spin!GetUnlock, Spin!GetRead,
         Spin!GetFree, Spin!ReaderCheck
<1>3. Spin!Main => MainStep
  BY Zenon DEF Spin!Main, Spin!queue_destroy, MainStep, MainRest, Spin!MainRest,
         InitLock, CreateWriter, CreateReader, DestroyBegin, DestroyJoin,
         DestroyNode, DestroyEnd,
         Spin!InitLock, Spin!CreateWriter, Spin!CreateReader,
         Spin!DestroyBegin, Spin!DestroyJoin, Spin!DestroyNode,
         Spin!DestroyEnd
<1>4. Spin!qmonitor \/ Spin!Finished => UNCHANGED MonitorRest
  BY Zenon DEF Spin!qmonitor, Spin!MonitorTest, Spin!MonitorCount, Spin!MonitorAdd,
         Spin!MonitorGet, Spin!MonitorPrint, Spin!Finished, Spin!vars,
         MonitorRest, Spin!MonitorRest
<1>5. UNCHANGED Spin!vars => UNCHANGED MonitorRest
  BY Zenon DEF Spin!vars, MonitorRest
<1> QED
  BY <1>1, <1>2, <1>3, <1>4, <1>5 DEF Spin!Next, Spin!Alive, Alive

(* The inductive invariant of spin-lock/queue-spin-lock.c. *)
LEMMA SpinInductive == Spin!Spec => [](QueueInv /\ LockHeldInside)
<1>1. Spin!Init => QueueInv /\ LockHeldInside
  BY InitInv DEF Spin!Init, Init, Spin!NoVal, NoVal, Spin!NoSnap, NoSnap,
     LockHeldInside
<1>2. QueueInv /\ LockHeldInside /\ [Spin!Next]_(Spin!vars)
        => QueueInv' /\ LockHeldInside'
  BY SpinSteps, WriterInv, ReaderInv, MainInv, FrameInv,
     LockHeldStep, LockHeldFrame
<1> QED
  BY <1>1, <1>2, PTL DEF Spin!Spec

(* spin-lock/queue-spin-lock.c is a bounded first-in first-out buffer. *)
LEMMA SpinFifo == Spin!Spec => ImplementsFifo
<1>1. Spin!Init => Fifo!FInit
  BY InitFifo DEF Spin!Init, Init, Spin!NoVal, NoVal, Spin!NoSnap, NoSnap
<1>2. QueueInv /\ [Spin!Next]_(Spin!vars) => [Fifo!FNext]_(Fifo!fvars)
  BY SpinSteps, FifoStep, FrameInv, StutterIsFifo
<1> QED
  BY <1>1, <1>2, SpinInductive, PTL DEF Spin!Spec, ImplementsFifo, Fifo!FSpec

SleepTeardown == Sleep!TouchFreedQueue \/ Sleep!DestroyQueue

(* free(q) and the writer's next access to *q keep what the invariant still  *)
(* says of a queue that is torn down.                                        *)
LEMMA SleepTeardownInv ==
    ASSUME QueueInv, SleepTeardown
    PROVE  /\ QueueInv' /\ ~Open /\ ~Open'
           /\ LockHeldInside /\ Alive => LockHeldInside'
<1> USE DEF SleepTeardown, Sleep!TouchFreedQueue, Sleep!DestroyQueue,
        Sleep!TouchesQueue, Sleep!MainRest, Sleep!queueVars, Sleep!heapVars,
        Sleep!readerVars, Sleep!monitorVars, Sleep!mainVars, Open
<1>1. ~Open /\ ~Open'
  OBVIOUS
<1>2. TypeOK'
  BY SMTT(60) DEF QueueInv, TypeOK
<1>3. LockInv'
  BY DEF QueueInv, LockInv, WriterLocked, ReaderLocked, Unlinked
<1>4. ~error' /\ NoTouchAfterFree'
  BY DEF QueueInv, NoTouchAfterFree
<1>5. LockHeldInside /\ Alive => LockHeldInside'
  BY DEF LockHeldInside, Alive, WriterLocked, ReaderLocked
<1> QED
  BY <1>1, <1>2, <1>3, <1>4, <1>5 DEF QueueInv

(* The steps of usleep/queue-usleep.c are steps of the queue. *)
LEMMA SleepSteps ==
    [Sleep!Next]_(Sleep!vars) =>
        \/ Alive /\ (WriterStep \/ ReaderStep \/ MainStep \/ SleepTeardown)
        \/ UNCHANGED MonitorRest
<1> USE DEF queueVars, heapVars, writerVars, readerVars, monitorVars, mainVars,
        Sleep!queueVars, Sleep!heapVars, Sleep!writerVars, Sleep!readerVars,
        Sleep!monitorVars, Sleep!mainVars
<1>1. Sleep!writer => WriterStep \/ SleepTeardown
  BY Zenon DEF Sleep!writer, SleepTeardown, Sleep!queue_add, WriterStep,
         AddMalloc, AddAbort, AddLock, AddTest, AddLink, AddCount, AddStat,
         AddUnlock, FullFreeLocked, FullUnlockLast,
         Sleep!AddMalloc, Sleep!AddAbort, Sleep!AddLock, Sleep!AddTest,
         Sleep!AddLink, Sleep!AddCount, Sleep!AddStat,
         Sleep!AddUnlock, Sleep!FullFreeLocked, Sleep!FullUnlockLast
<1>2. Sleep!reader => ReaderStep
  BY Zenon DEF Sleep!reader, Sleep!queue_get, ReaderStep, NoVal, Sleep!NoVal,
         GetLock, GetTest, GetEmpty, GetUnlink, GetCount, GetStat, GetUnlock,
         GetRead, GetFree, ReaderCheck,
         Sleep!GetLock, Sleep!GetTest, Sleep!GetEmpty, Sleep!GetUnlink,
         Sleep!GetCount, Sleep!GetStat, Sleep!GetUnlock,
         Sleep!GetRead, Sleep!GetFree, Sleep!ReaderCheck
<1>3. Sleep!Main => MainStep \/ SleepTeardown
  BY Zenon DEF Sleep!Main, Sleep!queue_destroy, MainStep, MainRest,
     Sleep!MainRest,
         SleepTeardown,
         InitLock, CreateWriter, CreateReader, DestroyBegin,
         Sleep!InitLock, Sleep!CreateWriter, Sleep!CreateReader,
         Sleep!DestroyBegin
<1>4. Sleep!qmonitor \/ Sleep!Finished => UNCHANGED MonitorRest
  BY Zenon DEF Sleep!qmonitor, Sleep!MonitorTest, Sleep!MonitorCount,
     Sleep!MonitorAdd,
         Sleep!MonitorGet, Sleep!MonitorPrint, Sleep!Finished, Sleep!vars,
         MonitorRest, Sleep!MonitorRest
<1>5. UNCHANGED Sleep!vars => UNCHANGED MonitorRest
  BY Zenon DEF Sleep!vars, MonitorRest
<1> QED
  BY <1>1, <1>2, <1>3, <1>4, <1>5 DEF Sleep!Next, Sleep!Alive, Alive

(* The inductive invariant of usleep/queue-usleep.c. *)
LEMMA SleepInductive == Sleep!Spec => [](QueueInv /\ LockHeldInside)
<1>1. Sleep!Init => QueueInv /\ LockHeldInside
  BY InitInv DEF Sleep!Init, Init, Sleep!NoVal, NoVal, Sleep!NoSnap, NoSnap,
     LockHeldInside
<1>2. QueueInv /\ LockHeldInside /\ [Sleep!Next]_(Sleep!vars)
        => QueueInv' /\ LockHeldInside'
  BY SleepSteps, WriterInv, ReaderInv, MainInv, FrameInv, SleepTeardownInv,
     LockHeldStep, LockHeldFrame
<1> QED
  BY <1>1, <1>2, PTL DEF Sleep!Spec

(* usleep/queue-usleep.c is a bounded first-in first-out buffer. *)
LEMMA SleepFifo == Sleep!Spec => ImplementsFifo
<1>1. Sleep!Init => Fifo!FInit
  BY InitFifo DEF Sleep!Init, Init, Sleep!NoVal, NoVal, Sleep!NoSnap, NoSnap
<1>2. QueueInv /\ [Sleep!Next]_(Sleep!vars) => [Fifo!FNext]_(Fifo!fvars)
  BY SleepSteps, FifoStep, FrameInv, StutterIsFifo,
     SleepTeardownInv DEF Fifo!FNext, Fifo!Closed
<1> QED
  BY <1>1, <1>2, SleepInductive, PTL DEF Sleep!Spec, ImplementsFifo, Fifo!FSpec
-----------------------------------------------------------------------------
(* The semaphore variant.                                                    *)

SemBase == Alive /\ (WriterStep \/ ReaderStep \/ MainStep)

(* What a step of semafor/queue-semafor.c does to the queue. *)
LEMMA SemSteps ==
    [Next]_allVars =>
        \/ SemBase
        \/ UNCHANGED MonitorRest
        \/ MonitorLock \/ MonitorUnlock
<1>0. UNCHANGED vars => UNCHANGED MonitorRest
  BY DEF vars, MonitorRest
<1>1. writer => WriterStep \/ UNCHANGED vars
  BY DEF writer, queue_add, WriterStep, SemRegister, SemSleep, SemWake
<1>2. reader => ReaderStep \/ UNCHANGED vars
  BY DEF reader, queue_get, ReaderStep, SemRegister, SemSleep, SemWake
<1>3. Main => MainStep
  BY DEF Main, init_sem, queue_destroy, MainStep
<1>4. qmonitor => \/ UNCHANGED MonitorRest
                      \/ MonitorLock \/ MonitorUnlock
  BY <1>0 DEF qmonitor, queue_print_stats, MonitorTest, MonitorCount,
     MonitorAdd, MonitorGet, MonitorPrint, SemRegister, SemSleep, SemWake,
     MonitorRest
<1>5. Finished \/ StoppedByEarlyWait \/ UNCHANGED allVars
         => UNCHANGED MonitorRest
  BY <1>0 DEF Finished, StoppedByEarlyWait, allVars
<1> QED
  BY <1>0, <1>1, <1>2, <1>3, <1>4, <1>5 DEF Next, SemBase

(* The monitor's sem_wait and sem_post leave the queue alone. *)
LEMMA MonitorLockInv ==
    ASSUME QueueInv, StatsInv, MonitorLock \/ MonitorUnlock
    PROVE  QueueInv' /\ Stutter
<1>0. /\ UNCHANGED <<first, last, count, add_count, get_count, next, val, used,
                     wpc, new, i, rpc, tmp, got, expected, error, main, cursor,
                     fault, chain>>
      /\ holder \in {"none", "monitor"}
  BY DEF MonitorLock, MonitorUnlock, queueVars, heapVars, writerVars,
     readerVars, mainVars, StatsInv
<1>1. TypeOK' /\ ~error' /\ NoTouchAfterFree'
  BY <1>0 DEF QueueInv, TypeOK, NoTouchAfterFree, Open
<1>2. LockInv'
  BY <1>0 DEF QueueInv, LockInv, WriterLocked, ReaderLocked, Unlinked
<1>3. /\ Open' = Open /\ InChain' = InChain /\ Linked' = Linked
      /\ Unlinked' = Unlinked /\ Holding' = Holding /\ Taken' = Taken
  BY <1>0 DEF Open, InChain, Linked, Unlinked, Holding, Taken
<1>4. ListInv' = ListInv /\ HeapInv' = HeapInv /\ ValueInv' = ValueInv
  BY <1>0, <1>3 DEF ListInv, HeapInv, ValueInv
<1>5. Vals' = Vals /\ HandVal' = HandVal /\ Sent' = Sent
  BY <1>0, <1>3 DEF Vals, HandVal, Sent
<1> QED
  BY <1>0, <1>1, <1>2, <1>3, <1>4, <1>5 DEF QueueInv, Stutter

Printing == mpc \in {"count", "add", "get", "print", "unlock"}

(* The counters move only under the lock, so that a snapshot the monitor     *)
(* takes under the lock stays current until it is printed.                   *)
LEMMA StatsStep ==
    ASSUME QueueInv, StatsInv, [Next]_allVars
    PROVE  StatsInv'
<1> USE DEF queueVars, heapVars, writerVars, readerVars, monitorVars, mainVars
<1>0. /\ {count, add_count, get_count} \subseteq Int
      /\ Printing => ~WriterLocked /\ ~ReaderLocked /\ main # "init_lock"
      /\ main = "init_lock" => ~WriterLocked /\ ~ReaderLocked /\ holder # "none"
  <2>1. {count, add_count, get_count} \subseteq Int
    BY DEF QueueInv, TypeOK
  <2>2. Printing => ~WriterLocked /\ ~ReaderLocked /\ main # "init_lock"
    BY DEF QueueInv, LockInv, StatsInv, Printing
  <2>3. main = "init_lock" => ~WriterLocked /\ ~ReaderLocked /\ holder # "none"
    BY DEF QueueInv, LockInv, StatsInv
  <2> QED
    BY <2>1, <2>2, <2>3
<1>1. CASE AddCount \/ AddStat
  BY <1>0, <1>1 DEF AddCount, AddStat, WriterLocked, Printing, StatsInv,
     queueVars, heapVars, readerVars, monitorVars, mainVars
<1>2. CASE GetCount \/ GetStat
  BY <1>0, <1>2 DEF GetCount, GetStat, ReaderLocked, Printing, StatsInv,
     queueVars, heapVars, writerVars, monitorVars, mainVars
<1>3. CASE /\ UNCHANGED <<count, add_count, get_count, mpc, snap>>
           /\ holder' = holder \/ ~Printing
           /\ main' = "init_lock" => main = "init_lock" /\ holder' = holder
           /\ wpc' = "stat" <=> wpc = "stat"
           /\ rpc' = "stat" <=> rpc = "stat"
  BY <1>3 DEF StatsInv, Printing
<1>4. CASE writer
  <2>1. AddCount \/ AddStat \/
           /\ UNCHANGED <<count, add_count, get_count, mpc, snap, rpc, main>>
           /\ holder' = holder \/ (~Printing /\ main # "init_lock")
           /\ wpc' = "stat" <=> wpc = "stat"
    BY ZenonT(60), <1>0, <1>4 DEF writer, queue_add, WriterLocked, SemRegister,
       SemSleep, SemWake,
       vars, AddMalloc, AddAbort, AddLock, AddTest, AddLink, AddCount, AddStat,
       AddUnlock, FullFreeLocked, FullUnlockLast, queueVars, heapVars,
       readerVars, monitorVars, mainVars, StatsInv, Printing
  <2> QED
    BY <2>1, <1>1, <1>3
<1>5. CASE reader
  <2>1. GetCount \/ GetStat \/
           /\ UNCHANGED <<count, add_count, get_count, mpc, snap, wpc, main>>
           /\ holder' = holder \/ (~Printing /\ main # "init_lock")
           /\ rpc' = "stat" <=> rpc = "stat"
    BY ZenonT(60), <1>0, <1>5 DEF reader, queue_get, ReaderLocked, SemRegister,
       SemSleep, SemWake,
       vars, GetLock, GetTest, GetEmpty, GetUnlink, GetCount, GetStat,
       GetUnlock, GetRead, GetFree, ReaderCheck, queueVars, heapVars,
       writerVars, monitorVars, mainVars, StatsInv, Printing
  <2> QED
    BY <2>1, <1>2, <1>3
<1>6. CASE qmonitor
  <2>0. CASE SemRegister("monitor") \/ SemSleep("monitor") \/ SemWake("monitor")
    BY <2>0, <1>3 DEF SemRegister, SemSleep, SemWake, vars
  <2>1. CASE MonitorTest("lock") \/ MonitorLock \/ MonitorUnlock
    BY <1>0, <2>1 DEF MonitorTest, MonitorLock, MonitorUnlock, MonitorRest, StatsInv
  <2>2. CASE MonitorCount
    BY <1>0, <2>2 DEF MonitorCount, MonitorRest, StatsInv
  <2>3. CASE MonitorAdd
    BY <1>0, <2>3 DEF MonitorAdd, MonitorRest, StatsInv
  <2>4. CASE MonitorGet
    BY <1>0, <2>4 DEF MonitorGet, MonitorRest, StatsInv
  <2>5. CASE MonitorPrint("unlock")
    BY <2>5 DEF MonitorPrint, MonitorRest, StatsInv, NoSnap, NoVal
  <2> QED
    BY <1>6, <2>0, <2>1, <2>2, <2>3, <2>4, <2>5
       DEF qmonitor, queue_print_stats
<1>7. CASE Main
  <2>1. CASE init_sem
    BY <1>0, <1>3, <2>1 DEF init_sem, InitLock, MainRest
  <2>2. CASE CreateWriter
    BY <1>3, <2>2 DEF CreateWriter, MainRest, QueueInv, LockInv
  <2>3. CASE CreateReader
    BY <1>3, <2>3 DEF CreateReader, QueueInv, LockInv
  <2>4. CASE queue_destroy
    BY <1>3, <2>4 DEF queue_destroy, DestroyBegin, DestroyJoin, DestroyNode,
       DestroyEnd, MainRest
  <2> QED
    BY <1>7, <2>1, <2>2, <2>3, <2>4 DEF Main
<1>8. CASE \/ Finished \/ StoppedByEarlyWait \/ UNCHANGED allVars
  BY <1>8, <1>3 DEF Finished, StoppedByEarlyWait, allVars, vars
<1> QED
  BY <1>4, <1>5, <1>6, <1>7, <1>8 DEF Next

(* The inductive invariant of semafor/queue-semafor.c. *)
LEMMA SemInductive == Spec => [](SemInv /\ LockHeldInside)
<1>1. InitSem => SemInv /\ LockHeldInside
  <2> SUFFICES ASSUME InitSem PROVE SemInv /\ LockHeldInside
    OBVIOUS
  <2>1. QueueInv
    BY InitInv DEF InitSem, Init, NoVal, NoSnap
  <2>2. StatsInv
    BY DEF InitSem, Init, NoVal, NoSnap, StatsInv
  <2>3. LockHeldInside
    BY DEF InitSem, Init, LockHeldInside
  <2> QED
    BY <2>1, <2>2, <2>3 DEF SemInv
<1>2. SemInv /\ LockHeldInside /\ [Next]_allVars
        => SemInv' /\ LockHeldInside'
  <2>1. LockHeldInside /\ (MonitorLock \/ MonitorUnlock) => LockHeldInside'
    BY DEF LockHeldInside, Alive, WriterLocked, ReaderLocked, MonitorLock,
       MonitorUnlock, writerVars, readerVars, mainVars
  <2> QED
    BY <2>1, SemSteps, WriterInv, ReaderInv, MainInv, FrameInv, MonitorLockInv,
       StatsStep, LockHeldStep, LockHeldFrame DEF SemBase, SemInv
<1> QED
  BY <1>1, <1>2, PTL DEF Spec

(* semafor/queue-semafor.c is a bounded first-in first-out buffer. *)
LEMMA SemFifo == Spec => ImplementsFifo
<1>1. InitSem => Fifo!FInit
  BY InitFifo DEF InitSem, Init, NoVal, NoSnap
<1>2. QueueInv /\ StatsInv /\ [Next]_allVars =>
         [Fifo!FNext]_(Fifo!fvars)
  BY SemSteps, FifoStep, FrameInv, MonitorLockInv, StutterIsFifo DEF SemBase
<1>3. SemInv => QueueInv /\ StatsInv
  BY DEF SemInv
<1> QED
  BY <1>1, <1>2, <1>3, SemInductive, PTL DEF Spec, ImplementsFifo, Fifo!FSpec

(* What the monitor of semafor/queue-semafor.c prints belongs together: it   *)
(* takes its three values under the semaphore.                               *)
THEOREM SemPrintsConsistentStats == Spec => []PrintedStatsConsistent
<1>1. SemInv => PrintedStatsConsistent
  BY DEF SemInv, StatsInv, PrintedStatsConsistent, QueueInv, LockInv, TypeOK,
     WriterLocked, ReaderLocked
<1> QED
  BY <1>1, SemInductive, PTL

-----------------------------------------------------------------------------
(* The theorems about all four programs.                                     *)

AnyQueue == Mutex!Spec \/ Spin!Spec \/ Sleep!Spec \/ Spec

(* The invariant of all four programs. *)
LEMMA AnyQueueInductive == AnyQueue => [](QueueInv /\ LockHeldInside)
<1>1. SemInv => QueueInv
  BY DEF SemInv
<1> QED
  BY <1>1, MutexInductive, SpinInductive, SleepInductive, SemInductive, PTL
     DEF AnyQueue

(* The assertions on count in queue_add and queue_get never fail: link and   *)
(* count, unlink and count are two steps each, but of one critical section.  *)
THEOREM QueuesKeepAssertions == AnyQueue => []AssertionsHold
BY AnyQueueInductive, InvImplies, PTL

(* Until main tears the queue down, no path of queue_add and queue_get loses *)
(* a node: what malloc has returned is linked, or in somebody's hands.       *)
THEOREM QueuesLeakNothing == AnyQueue => []NoLeak
BY AnyQueueInductive, InvImplies, PTL

(* No freed node and no NULL is touched, whichever addresses malloc returns  *)
(* again, unless main tears the queue down under a running writer.           *)
THEOREM QueuesTouchNothingFreed == AnyQueue => []NoTouchAfterFree
<1>1. QueueInv => NoTouchAfterFree
  BY DEF QueueInv
<1> QED
  BY <1>1, AnyQueueInductive, PTL

(* Every path out of queue_add and queue_get gives the lock back.            *)
THEOREM QueuesGiveLockBack == AnyQueue => []LockHeldInside
BY AnyQueueInductive, PTL

(* The reader never prints ERROR: it gets every value once and in order.     *)
THEOREM QueuesDeliverInOrder == AnyQueue => []NoReaderError
BY AnyQueueInductive, InvImplies, PTL

(* Each of the four programs is a bounded first-in first-out buffer.         *)
THEOREM QueuesAreFifo == AnyQueue => ImplementsFifo
BY MutexFifo, SpinFifo, SleepFifo, SemFifo, PTL DEF AnyQueue
=============================================================================
