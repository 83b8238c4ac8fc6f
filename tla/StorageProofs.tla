---------------------------- MODULE StorageProofs ----------------------------
(***************************************************************************)
(* For every length of the list, every set of swappers and each of the three *)
(* kinds of lock of semestr2/Task2/Task2_3: locks are taken from the head of *)
(* the list on, so that no cycle of waiting threads can arise, random_swap   *)
(* ends its walk on three neighbouring nodes, and a scanner has counted each *)
(* of its pairs once.                                                        *)
(***************************************************************************)
EXTENDS Storage, FiniteSetTheorems, TLAPS

Labels == {"start", "lock", "last", "lockNext", "lockCurrent", "lockFuture",
           "unlockFuture", "unlockCurrent", "unlockNext", "unlock", "count"}

Types ==
    /\ next = [n \in Nodes |-> IF n = SIZE_STORAGE THEN Null ELSE n + 1]
    /\ lock \in [Nodes -> SUBSET Threads]
    /\ pc \in [Threads -> Labels]
    /\ node \in [Threads -> Nodes]
    /\ tmp \in [Threads -> Nodes \cup {Null}]
    /\ current \in [Swappers -> Nodes \cup {Null}]
    /\ future \in [Swappers -> Nodes \cup {Null}]
    /\ index \in [Swappers -> Nat]
    /\ i \in [Swappers -> Nat]

\* Whose lock a scanner holds at each of its steps ...
ScanHolds(t, n) ==
    \/ pc[t] \in {"last", "lockNext", "unlockNext"} /\ n = node[t]
    \/ pc[t] \in {"unlockNext", "unlock"} /\ n = tmp[t]

\* ... and a swapper.
SwapHolds(t, n) ==
    \/ pc[t] \in {"lockCurrent", "lockFuture"} /\ n = node[t]
    \/ pc[t] = "lockFuture" /\ n = node[t] + 1
    \/ pc[t] \in {"unlockFuture", "unlockCurrent", "unlock"} /\ n = tmp[t]
    \/ pc[t] \in {"unlockFuture", "unlockCurrent"} /\ n = tmp[t] + 1
    \/ pc[t] = "unlockFuture" /\ n = tmp[t] + 2

ScanOK(t) ==
    /\ pc[t] \in {"start", "lock", "last", "lockNext", "unlockNext", "unlock",
                  "count"}
    /\ \A n \in Nodes : t \in lock[n] <=> ScanHolds(t, n)
    /\ pc[t] = "lockNext" => node[t] < SIZE_STORAGE
    /\ pc[t] = "lockNext" => tmp[t] = node[t]
    /\ pc[t] \in {"unlockNext", "unlock"} => node[t] = tmp[t] + 1

\* A swapper has walked i nodes from the head and its index leaves it three.
SwapOK(t) ==
    /\ pc[t] \in {"start", "lock", "lockCurrent", "lockFuture", "unlockFuture",
                  "unlockCurrent", "unlock", "count"}
    /\ \A n \in Nodes : t \in lock[n] <=> SwapHolds(t, n)
    /\ pc[t] # "start" =>
          /\ index[t] <= SIZE_STORAGE - 3
          /\ current[t] = node[t] + 1
          /\ future[t] = node[t] + 2
    /\ pc[t] \in {"lock", "count"} => node[t] = i[t] + 1 /\ i[t] <= index[t]
    /\ pc[t] \in {"lockCurrent", "lockFuture"} =>
          node[t] = i[t] + 1 /\ i[t] < index[t]
    /\ pc[t] \in {"unlockFuture", "unlockCurrent", "unlock"} =>
          /\ tmp[t] = i[t] + 1 /\ node[t] = i[t] + 2
          /\ i[t] < index[t]

(* The inductive invariant: where each thread stands tells which locks it    *)
(* holds, and how far it has walked tells that it is still inside the list.  *)
Inductive ==
    /\ Types
    /\ \A t \in Scanners : ScanOK(t)
    /\ \A t \in Swappers : SwapOK(t)

(* init_storage and the start of the threads establish it. *)
LEMMA InitInductive == Init => Inductive
<1> SUFFICES ASSUME Init PROVE Inductive
  OBVIOUS
<1>1. first \in Nodes
  BY StorageAssumption DEF first, Nodes
<1>2. Types
  BY <1>1 DEF Init, Types, Null, Labels
<1>3. ASSUME NEW t \in Scanners PROVE ScanOK(t)
  BY <1>3 DEF Init, ScanOK, ScanHolds, Threads
<1>4. ASSUME NEW t \in Swappers PROVE SwapOK(t)
  BY <1>4 DEF Init, SwapOK, SwapHolds, Threads
<1> QED
  BY <1>2, <1>3, <1>4 DEF Inductive

(* A step of t leaves what another thread knows and holds alone. *)
Others(t) ==
    \A u \in Threads \ {t} :
        /\ pc'[u] = pc[u] /\ node'[u] = node[u] /\ tmp'[u] = tmp[u]
        /\ \A n \in Nodes : u \in lock'[n] <=> u \in lock[n]
        /\ u \in Swappers => /\ current'[u] = current[u] /\ future'[u] = future[u]
                             /\ index'[u] = index[u] /\ i'[u] = i[u]

(* So it is enough to look at the thread that steps. *)
LEMMA OthersStay ==
    ASSUME NEW t \in Threads, Inductive, Types', Others(t),
           t \in Scanners => ScanOK(t)',
           t \in Swappers => SwapOK(t)'
    PROVE  Inductive'
<1>1. ASSUME NEW u \in Scanners \ {t} PROVE ScanOK(u)'
  BY <1>1 DEF Inductive, ScanOK, ScanHolds, Others, Threads
<1>2. ASSUME NEW u \in Swappers \ {t} PROVE SwapOK(u)'
  BY <1>2 DEF Inductive, SwapOK, SwapHolds, Others, Threads
<1> QED
  BY <1>1, <1>2 DEF Inductive

(* What lock and unlock of a node do to the locks. *)
LEMMA LockUnlock ==
    ASSUME Types, NEW t \in Threads, NEW n \in Nodes
    PROVE  /\ Lock(t, n) \/ Unlock(t, n) =>
                /\ lock' \in [Nodes -> SUBSET Threads]
                /\ \A u \in Threads \ {t}, k \in Nodes : u \in lock'[k] <=> u \in lock[k]
           /\ Lock(t, n) =>
                \A k \in Nodes : t \in lock'[k] <=> t \in lock[k] \/ k = n
           /\ Unlock(t, n) =>
                \A k \in Nodes : t \in lock'[k] <=> t \in lock[k] /\ k # n
BY DEF Types, Lock, Unlock

(* The successor of a node. *)
LEMMA Successor ==
    ASSUME Types, NEW n \in Nodes
    PROVE  /\ n < SIZE_STORAGE => next[n] = n + 1 /\ n + 1 \in Nodes
           /\ n = SIZE_STORAGE => next[n] = Null
           /\ n \in Int /\ n >= 1 /\ n <= SIZE_STORAGE
           /\ next[n] # Null => n < SIZE_STORAGE
BY StorageAssumption DEF Types, Nodes, Null

(* The steps of find_increasing, find_decreasing and find_equals. *)
LEMMA ScanInductive ==
    ASSUME Inductive, NEW t \in Scanners, find(t), UNCHANGED <<program, next>>
    PROVE  Inductive'
<1> USE DEF At, Goto, walkVars, swapVars, Null
<1>0. /\ t \in Threads /\ t \notin Swappers /\ Types /\ ScanOK(t)
      /\ node[t] \in Nodes
      /\ first \in Nodes
  BY StorageAssumption DEF Inductive, Types, Threads, first, Nodes
<1> SUFFICES Types' /\ Others(t) /\ ScanOK(t)'
  BY <1>0, OthersStay
<1>1. CASE ScanStart(t)
  BY <1>0, <1>1 DEF ScanStart, Types, Labels, Others, ScanOK, ScanHolds
<1>2. CASE ScanLock(t)
  <2>1. Lock(t, node[t])
    BY <1>2 DEF ScanLock
  <2>2. ~ ScanHolds(t, node[t])
    BY <1>2 DEF ScanLock, ScanHolds
  <2> QED
    BY <1>0, <1>2, <2>1, LockUnlock, Successor
       DEF ScanLock, Types, Labels, Others, ScanOK, ScanHolds
<1>3. CASE ScanLast(t)
  <2>1. Unlock(t, node[t])
    BY <1>3 DEF ScanLast
  <2> QED
    BY <1>0, <1>3, <2>1, LockUnlock
       DEF ScanLast, Types, Labels, Others, ScanOK, ScanHolds
<1>4. CASE ScanLockNext(t)
  <2>1. Lock(t, node[t] + 1) /\ next[node[t]] = node[t] + 1 /\ node[t] + 1 \in Nodes
    BY <1>0, <1>4, Successor DEF ScanLockNext, ScanOK
  <2>2. Types' /\ Others(t)
    BY <1>0, <1>4, <2>1, LockUnlock DEF ScanLockNext, Types, Labels, Others
  <2>3. /\ pc'[t] = "unlockNext" /\ tmp'[t] = node[t] /\ node'[t] = node[t] + 1
        /\ tmp[t] = node[t]
    BY <1>0, <1>4, <2>1 DEF ScanLockNext, ScanOK, Types
  <2>4. \A n \in Nodes : t \in lock'[n] <=> n = node[t] \/ n = node[t] + 1
    BY <1>0, <1>4, <2>1, LockUnlock DEF ScanLockNext, ScanOK, ScanHolds
  <2> QED
    BY <2>2, <2>3, <2>4 DEF ScanOK, ScanHolds
<1>5. CASE ScanUnlockNext(t)
  <2>1. Unlock(t, node[t])
    BY <1>5 DEF ScanUnlockNext
  <2> QED
    BY <1>0, <1>5, <2>1, LockUnlock, Successor
       DEF ScanUnlockNext, Types, Labels, Others, ScanOK, ScanHolds
<1>6. CASE ScanUnlock(t)
  <2>1. Types' /\ Others(t) /\ pc'[t] = "lock"
    BY <1>0, <1>6 DEF ScanUnlock, Unlock, Types, Labels, Others
  <2>2. \A n \in Nodes : t \notin lock'[n]
    BY <1>0, <1>6 DEF ScanUnlock, Unlock, Types, ScanOK, ScanHolds
  <2> QED
    BY <2>1, <2>2 DEF ScanOK, ScanHolds
<1>7. CASE CountPass(t)
  BY <1>0, <1>7 DEF CountPass, Types, Labels, Others, ScanOK, ScanHolds
<1> QED
  BY <1>1, <1>2, <1>3, <1>4, <1>5, <1>6, <1>7 DEF find

(* The steps of random_swap. *)
LEMMA SwapInductive ==
    ASSUME Inductive, NEW t \in Swappers, random_swap(t), UNCHANGED <<program, next>>
    PROVE  Inductive'
<1> USE DEF At, Goto, walkVars, swapVars, Null
<1>0. /\ t \in Threads /\ t \notin Scanners /\ Types /\ SwapOK(t)
      /\ node[t] \in Nodes /\ i[t] \in Nat /\ index[t] \in Nat
      /\ first \in Nodes /\ first + 1 \in Nodes /\ first + 2 \in Nodes
      /\ first = 1 /\ SIZE_STORAGE \in Nat
  BY StorageAssumption DEF Inductive, Types, Threads, first, Nodes
<1> SUFFICES Types' /\ Others(t) /\ SwapOK(t)'
  BY <1>0, OthersStay
<1>1. CASE SwapStart(t)
  <2>1. next[first] = 2 /\ next[next[first]] = 3
    BY <1>0, Successor
  <2>2. PICK k \in number_random_node : index' = [index EXCEPT ![t] = k]
    BY <1>1, <2>1 DEF SwapStart
  <2>3. k \in Nat /\ k <= SIZE_STORAGE - 3
    BY StorageAssumption DEF number_random_node
  <2>4. Types' /\ Others(t)
    BY <1>0, <1>1, <2>1, <2>2, <2>3 DEF SwapStart, Types, Labels, Others
  <2>5. /\ pc'[t] = "lock" /\ pc[t] = "start" /\ node'[t] = 1 /\ i'[t] = 0
        /\ index'[t] = k /\ current'[t] = 2 /\ future'[t] = 3 /\ lock' = lock
    BY <1>0, <1>1, <2>1, <2>2 DEF SwapStart, Types
  <2> QED
    BY <1>0, <2>3, <2>4, <2>5 DEF SwapOK, SwapHolds
<1>2. CASE SwapLock(t)
  <2>0. next[node[t]] # 0 /\ UNCHANGED <<node, tmp, current, future, index, i>>
    BY <1>0, <1>2, Successor DEF SwapLock, SwapOK
  <2>1. CASE i[t] < index[t]
    <3>1. Lock(t, node[t]) /\ pc' = [pc EXCEPT ![t] = "lockCurrent"]
      <4>1. ~(i[t] >= index[t])
        BY <1>0, <2>1
      <4> QED
        BY <1>2, <2>0, <4>1 DEF SwapLock
    <3>4. /\ lock' \in [Nodes -> SUBSET Threads]
          /\ \A u \in Threads \ {t}, n \in Nodes : u \in lock'[n] <=> u \in lock[n]
          /\ \A n \in Nodes : t \in lock'[n] <=> t \in lock[n] \/ n = node[t]
      BY <1>0, <3>1, LockUnlock
    <3>2. Types' /\ Others(t) /\ pc'[t] = "lockCurrent"
      BY <1>0, <2>0, <3>1, <3>4 DEF Types, Labels, Others
    <3>3. \A n \in Nodes : t \in lock'[n] <=> n = node[t]
      BY <1>0, <1>2, <3>4 DEF SwapLock, SwapOK, SwapHolds
    <3> QED
      BY <1>0, <1>2, <2>0, <2>1, <3>2, <3>3 DEF SwapLock, SwapOK, SwapHolds
  <2>2. CASE ~(i[t] < index[t])
    BY <1>0, <1>2, <2>0, <2>2
       DEF SwapLock, Types, Labels, Others, SwapOK, SwapHolds
  <2> QED
    BY <2>1, <2>2
<1>3. CASE SwapLockCurrent(t)
  <2>1. /\ next[node[t]] = node[t] + 1 /\ node[t] + 1 \in Nodes
        /\ next[node[t] + 1] # 0
    BY <1>0, <1>3, Successor DEF SwapLockCurrent, SwapOK
  <2>2. /\ Lock(t, node[t] + 1) /\ pc' = [pc EXCEPT ![t] = "lockFuture"]
        /\ UNCHANGED <<node, tmp, current, future, index, i>>
    BY <1>3, <2>1 DEF SwapLockCurrent
  <2> DEFINE k == node[t] + 1
  <2>5. /\ lock' \in [Nodes -> SUBSET Threads]
        /\ \A u \in Threads \ {t}, n \in Nodes : u \in lock'[n] <=> u \in lock[n]
        /\ \A n \in Nodes : t \in lock'[n] <=> t \in lock[n] \/ n = k
    <3>1. k \in Nodes /\ Lock(t, k)
      BY <2>1, <2>2
    <3> HIDE DEF k
    <3> QED
      BY <1>0, <3>1, LockUnlock
  <2>3. Types' /\ Others(t) /\ pc'[t] = "lockFuture"
    BY <1>0, <2>2, <2>5 DEF Types, Labels, Others
  <2>6. \A n \in Nodes : t \in lock[n] <=> n = node[t]
    BY <1>0, <1>3 DEF SwapLockCurrent, SwapOK, SwapHolds
  <2>4. \A n \in Nodes : t \in lock'[n] <=> n = node[t] \/ n = node[t] + 1
    BY <2>5, <2>6
  <2> QED
    BY <1>0, <1>3, <2>2, <2>3, <2>4 DEF SwapLockCurrent, SwapOK, SwapHolds
<1>4. CASE SwapLockFuture(t)
  <2>0. node[t] + 1 \in Nodes /\ node[t] + 2 \in Nodes /\ node[t] + 3 \in Nodes
    BY <1>0, <1>4 DEF SwapLockFuture, SwapOK, Nodes
  <2>1. /\ next[node[t]] = node[t] + 1 /\ next[node[t] + 1] = node[t] + 2
        /\ next[node[t] + 2] = node[t] + 3
        /\ node[t] + 1 \in Nodes /\ node[t] + 2 \in Nodes /\ node[t] + 3 \in Nodes
        /\ current[t] = node[t] + 1 /\ future[t] = node[t] + 2
    BY <1>0, <1>4, <2>0, Successor DEF SwapLockFuture, SwapOK
  <2>2. Lock(t, node[t] + 2)
    BY <1>4, <2>1 DEF SwapLockFuture
  <2> DEFINE k == node[t] + 2
  <2>6. /\ lock' \in [Nodes -> SUBSET Threads]
        /\ \A u \in Threads \ {t}, n \in Nodes : u \in lock'[n] <=> u \in lock[n]
        /\ \A n \in Nodes : t \in lock'[n] <=> t \in lock[n] \/ n = k
    <3>1. k \in Nodes /\ Lock(t, k)
      BY <2>1, <2>2
    <3> HIDE DEF k
    <3> QED
      BY <1>0, <3>1, LockUnlock
  <2>3. Types' /\ Others(t)
    BY <1>0, <1>4, <2>1, <2>6 DEF SwapLockFuture, Types, Labels, Others
  <2>4. /\ pc'[t] = "unlockFuture" /\ tmp'[t] = node[t] /\ node'[t] = node[t] + 1
        /\ current'[t] = node[t] + 2 /\ future'[t] = node[t] + 3
        /\ UNCHANGED <<index, i>>
    BY <1>0, <1>4, <2>1 DEF SwapLockFuture, Types
  <2>5. \A n \in Nodes : t \in lock'[n] <=>
            n = node[t] \/ n = node[t] + 1 \/ n = node[t] + 2
    BY <1>0, <1>4, <2>1, <2>6 DEF SwapLockFuture, SwapOK, SwapHolds
  <2> QED
    BY <1>0, <1>4, <2>3, <2>4, <2>5 DEF SwapLockFuture, SwapOK, SwapHolds
<1>5. ASSUME pc[t] \in {"unlockFuture", "unlockCurrent", "unlock"}
      PROVE  /\ tmp[t] = i[t] + 1 /\ tmp[t] \in Nodes /\ tmp[t] + 1 \in Nodes
             /\ tmp[t] + 2 \in Nodes /\ next[tmp[t]] = tmp[t] + 1
             /\ next[tmp[t] + 1] = tmp[t] + 2
  <2>1. tmp[t] = i[t] + 1 /\ tmp[t] >= 1 /\ tmp[t] + 2 <= SIZE_STORAGE
    BY <1>0, <1>5 DEF SwapOK
  <2>2. tmp[t] \in Nodes /\ tmp[t] + 1 \in Nodes /\ tmp[t] + 2 \in Nodes
    BY <1>0, <2>1 DEF Nodes
  <2> QED
    BY <1>0, <2>1, <2>2, Successor
<1>6. CASE SwapUnlockFuture(t)
  <2>1. /\ Unlock(t, tmp[t] + 2) /\ pc' = [pc EXCEPT ![t] = "unlockCurrent"]
        /\ UNCHANGED <<node, tmp, current, future, index, i>>
    BY <1>5, <1>6 DEF SwapUnlockFuture
  <2> DEFINE k == tmp[t] + 2
  <2>4. /\ lock' \in [Nodes -> SUBSET Threads]
        /\ \A u \in Threads \ {t}, n \in Nodes : u \in lock'[n] <=> u \in lock[n]
        /\ \A n \in Nodes : t \in lock'[n] <=> t \in lock[n] /\ n # k
    <3>1. k \in Nodes /\ Unlock(t, k)
      BY <1>5, <1>6, <2>1 DEF SwapUnlockFuture, At
    <3> HIDE DEF k
    <3> QED
      BY <1>0, <3>1, LockUnlock
  <2>2. Types' /\ Others(t) /\ pc'[t] = "unlockCurrent"
    BY <1>0, <2>1, <2>4 DEF Types, Labels, Others
  <2>5. \A n \in Nodes : t \in lock[n] <=> n = tmp[t] \/ n = tmp[t] + 1 \/ n = tmp[t] + 2
    BY <1>0, <1>6 DEF SwapUnlockFuture, SwapOK, SwapHolds
  <2>3. \A n \in Nodes : t \in lock'[n] <=> n = tmp[t] \/ n = tmp[t] + 1
    BY <1>0, <1>5, <1>6, <2>4, <2>5 DEF SwapUnlockFuture, Nodes
  <2> QED
    BY <1>0, <1>6, <2>1, <2>2, <2>3 DEF SwapUnlockFuture, SwapOK, SwapHolds
<1>7. CASE SwapUnlockCurrent(t)
  <2>1. /\ Unlock(t, tmp[t] + 1) /\ pc' = [pc EXCEPT ![t] = "unlock"]
        /\ UNCHANGED <<node, tmp, current, future, index, i>>
    BY <1>5, <1>7 DEF SwapUnlockCurrent
  <2> DEFINE k == tmp[t] + 1
  <2>4. /\ lock' \in [Nodes -> SUBSET Threads]
        /\ \A u \in Threads \ {t}, n \in Nodes : u \in lock'[n] <=> u \in lock[n]
        /\ \A n \in Nodes : t \in lock'[n] <=> t \in lock[n] /\ n # k
    <3>1. k \in Nodes /\ Unlock(t, k)
      BY <1>5, <1>7, <2>1 DEF SwapUnlockCurrent, At
    <3> HIDE DEF k
    <3> QED
      BY <1>0, <3>1, LockUnlock
  <2>2. Types' /\ Others(t) /\ pc'[t] = "unlock"
    BY <1>0, <2>1, <2>4 DEF Types, Labels, Others
  <2>5. \A n \in Nodes : t \in lock[n] <=> n = tmp[t] \/ n = tmp[t] + 1
    BY <1>0, <1>7 DEF SwapUnlockCurrent, SwapOK, SwapHolds
  <2>3. \A n \in Nodes : t \in lock'[n] <=> n = tmp[t]
    BY <1>0, <1>5, <1>7, <2>4, <2>5 DEF SwapUnlockCurrent, Nodes
  <2> QED
    BY <1>0, <1>7, <2>1, <2>2, <2>3 DEF SwapUnlockCurrent, SwapOK, SwapHolds
<1>8. CASE SwapUnlock(t)
  <2>1. /\ Unlock(t, tmp[t]) /\ pc' = [pc EXCEPT ![t] = "lock"]
        /\ i' = [i EXCEPT ![t] = @ + 1]
        /\ UNCHANGED <<node, tmp, current, future, index>>
    BY <1>8 DEF SwapUnlock
  <2> DEFINE k == tmp[t]
  <2>4. /\ lock' \in [Nodes -> SUBSET Threads]
        /\ \A u \in Threads \ {t}, n \in Nodes : u \in lock'[n] <=> u \in lock[n]
        /\ \A n \in Nodes : t \in lock'[n] <=> t \in lock[n] /\ n # k
    <3>1. k \in Nodes /\ Unlock(t, k)
      BY <1>5, <1>8, <2>1 DEF SwapUnlock, At
    <3> HIDE DEF k
    <3> QED
      BY <1>0, <3>1, LockUnlock
  <2>2. Types' /\ Others(t) /\ pc'[t] = "lock" /\ i'[t] = i[t] + 1
    BY <1>0, <2>1, <2>4 DEF Types, Labels, Others
  <2>3. \A n \in Nodes : t \notin lock'[n]
    BY <1>0, <1>5, <1>8, <2>4 DEF SwapUnlock, SwapOK, SwapHolds
  <2> QED
    BY <1>0, <1>8, <2>1, <2>2, <2>3 DEF SwapUnlock, SwapOK, SwapHolds
<1>9. CASE CountPass(t)
  BY <1>0, <1>9 DEF CountPass, Types, Labels, Others, SwapOK, SwapHolds
<1> QED
  BY <1>1, <1>2, <1>3, <1>4, <1>6, <1>7, <1>8, <1>9 DEF random_swap

(* The invariant holds throughout every execution of the three programs. *)
THEOREM AlwaysInductive == Spec => []Inductive
<1>1. Inductive /\ [Next]_vars => Inductive'
  <2> SUFFICES ASSUME Inductive, [Next]_vars PROVE Inductive'
    OBVIOUS
  <2>1. CASE Next
    BY <2>1, ScanInductive, SwapInductive DEF Next
  <2>2. CASE UNCHANGED vars
    BY <2>2 DEF vars, walkVars, swapVars, Inductive, Types, ScanOK, SwapOK,
       ScanHolds, SwapHolds
  <2> QED
    BY <2>1, <2>2
<1> QED
  BY <1>1, InitInductive, PTL DEF Spec

(* A thread that waits for a node's lock holds only locks of nodes nearer to *)
(* the head of the list: the order that rules out a deadlock, for every      *)
(* length of the list and every number of swappers.                          *)
THEOREM LocksInListOrder == Spec => []WaitsOnlyForward
<1>1. Inductive => WaitsOnlyForward
  <2> SUFFICES ASSUME Inductive, NEW t \in Threads, NEW n \in Nodes,
                      Wanted(t) # Null, t \in lock[n]
               PROVE  n < Wanted(t)
    BY DEF WaitsOnlyForward
  <2> USE DEF At, Null
  <2>0. Types /\ node[t] \in Nodes /\ n \in Int /\ node[t] \in Int
    BY StorageAssumption DEF Inductive, Types, Nodes
  <2>1. CASE t \in Scanners
    <3>1. t \notin Swappers /\ ScanOK(t) /\ ScanHolds(t, n)
      BY <2>1, StorageAssumption DEF Inductive, ScanOK
    <3>2. pc[t] = "lockNext" /\ n = node[t]
      BY <3>1 DEF ScanOK, ScanHolds, Wanted
    <3>3. next[node[t]] = node[t] + 1
      BY <2>0, <3>1, <3>2, Successor DEF ScanOK
    <3> QED
      BY <2>0, <3>2, <3>3 DEF Wanted
  <2>2. CASE t \in Swappers
    <3>1. SwapOK(t) /\ SwapHolds(t, n)
      BY <2>2 DEF Inductive, SwapOK
    <3>2. \/ pc[t] = "lockCurrent" /\ n = node[t]
          \/ pc[t] = "lockFuture" /\ n \in {node[t], node[t] + 1}
      BY <3>1 DEF SwapOK, SwapHolds, Wanted
    <3>3. /\ node[t] + 1 \in Nodes /\ node[t] + 2 \in Nodes
          /\ node[t] + 1 < SIZE_STORAGE /\ node[t] < SIZE_STORAGE
      <4>1. i[t] \in Nat /\ index[t] \in Nat /\ SIZE_STORAGE \in Nat
        BY <2>0, <2>2, StorageAssumption DEF Types
      <4>2. node[t] = i[t] + 1 /\ i[t] < index[t] /\ index[t] <= SIZE_STORAGE - 3
        BY <3>1, <3>2 DEF SwapOK
      <4> QED
        BY <4>1, <4>2 DEF Nodes
    <3>4. next[node[t]] = node[t] + 1 /\ next[node[t] + 1] = node[t] + 2
      <4>1. next[node[t]] = node[t] + 1
        BY <2>0, <3>3, Successor
      <4>2. next[node[t] + 1] = (node[t] + 1) + 1
        BY <2>0, <3>3, Successor
      <4> QED
        BY <2>0, <4>1, <4>2
    <3> QED
      BY <2>0, <3>2, <3>4 DEF Wanted
  <2> QED
    BY <2>1, <2>2 DEF Threads
<1> QED
  BY <1>1, AlwaysInductive, PTL

(* When random_swap has ended its walk its three pointers are neighbouring   *)
(* nodes of the list, for every index number_random_node can choose.         *)
THEOREM WalkEndsOnThreeNodes == Spec => []ThreeNodesToSwap
<1>1. Inductive => ThreeNodesToSwap
  <2> SUFFICES ASSUME Inductive, NEW t \in Swappers, pc[t] = "count"
               PROVE  /\ node[t] # Null
                      /\ current[t] = next[node[t]] /\ current[t] # Null
                      /\ future[t] = next[current[t]] /\ future[t] # Null
    BY DEF ThreeNodesToSwap, At
  <2>1. /\ Types /\ i[t] \in Nat /\ index[t] \in Nat /\ SIZE_STORAGE \in Nat
        /\ SwapOK(t)
    BY StorageAssumption DEF Inductive, Types
  <2>2. /\ current[t] = node[t] + 1 /\ future[t] = node[t] + 2
        /\ node[t] = i[t] + 1 /\ i[t] <= index[t] /\ index[t] <= SIZE_STORAGE - 3
    BY <2>1 DEF SwapOK
  <2>3. node[t] \in Nodes /\ node[t] + 1 \in Nodes /\ node[t] + 2 \in Nodes
    BY <2>1, <2>2 DEF Nodes
  <2> QED
    BY <2>1, <2>2, <2>3, Successor DEF Null
<1> QED
  BY <1>1, AlwaysInductive, PTL
-----------------------------------------------------------------------------
(* What the scanners count.                                                  *)

\* The pairs before the node the scanner stands on that its comparison counts.
Seen(t, k) == {n \in 1 .. SIZE_STORAGE - 1 : n < k /\ Counts(t, n, n + 1)}

(* The loop invariant of a pass: the counter is the number of pairs behind   *)
(* the scanner, and the pass ends on the last node.                          *)
CountOK(t) ==
    /\ pc[t] # "start" => counter[t] = Cardinality(Seen(t, node[t]))
    /\ pc[t] \in {"last", "count"} => node[t] = SIZE_STORAGE

Counting ==
    /\ program \in Programs
    /\ counter \in [Scanners -> Nat]
    /\ \A t \in Scanners : CountOK(t)

(* One node further on, the pair just compared is seen if it counts. *)
LEMMA SeenGrows ==
    ASSUME NEW t, NEW k \in 1 .. SIZE_STORAGE - 1
    PROVE  /\ Cardinality(Seen(t, k)) \in Nat
           /\ Cardinality(Seen(t, k + 1)) =
                IF Counts(t, k, k + 1) THEN Cardinality(Seen(t, k)) + 1
                ELSE Cardinality(Seen(t, k))
<1>0. SIZE_STORAGE \in Nat
  BY StorageAssumption
<1>1. IsFiniteSet(Seen(t, k))
  <2>1. IsFiniteSet(1 .. SIZE_STORAGE - 1)
    BY <1>0, FS_Interval
  <2>2. Seen(t, k) \in SUBSET (1 .. SIZE_STORAGE - 1)
    BY DEF Seen
  <2> QED
    BY <2>1, <2>2, FS_Subset
<1>2. k \notin Seen(t, k)
  BY <1>0 DEF Seen
<1>3. CASE Counts(t, k, k + 1)
  <2>1. Seen(t, k + 1) = Seen(t, k) \cup {k}
    BY <1>0, <1>3 DEF Seen
  <2> QED
    BY <1>1, <1>2, <1>3, <2>1, FS_AddElement, FS_CardinalityType
<1>4. CASE ~ Counts(t, k, k + 1)
  <2>1. Seen(t, k + 1) = Seen(t, k)
    BY <1>0, <1>4 DEF Seen
  <2> QED
    BY <1>1, <1>4, <2>1, FS_CardinalityType
<1> QED
  BY <1>3, <1>4

(* Nothing lies before the head of the list. *)
LEMMA SeenNothing == ASSUME NEW t PROVE Cardinality(Seen(t, first)) = 0
<1>1. Seen(t, first) = {}
  BY StorageAssumption DEF Seen, first
<1> QED
  BY <1>1, FS_EmptySet

(* A step of a scanner keeps the loop invariant. *)
LEMMA ScanCounts ==
    ASSUME Inductive, Counting, NEW t \in Scanners, find(t),
           UNCHANGED <<program, next>>
    PROVE  Counting'
<1> USE DEF At, Goto, walkVars, Null
<1>0. /\ t \in Threads /\ Types /\ ScanOK(t) /\ CountOK(t)
      /\ node[t] \in Nodes /\ counter[t] \in Nat
      /\ node \in [Threads -> Nodes] /\ pc \in [Threads -> Labels]
      /\ counter \in [Scanners -> Nat] /\ program \in Programs
  BY DEF Inductive, Types, Threads, Counting
<1>2. ASSUME NEW s, NEW k, NEW l, l = k PROVE Seen(s, l)' = Seen(s, k)
  BY <1>2 DEF Seen, Counts, StringLength
<1>3. ASSUME NEW u \in Scanners \ {t}, pc'[u] = pc[u], node'[u] = node[u],
             counter'[u] = counter[u]
      PROVE  CountOK(u)'
  <2>1. CountOK(u)
    BY DEF Counting
  <2> QED
    BY <1>2, <1>3, <2>1 DEF CountOK
<1>4. CASE ScanStart(t)
  <2>1. /\ counter' = [counter EXCEPT ![t] = 0] /\ node' = [node EXCEPT ![t] = first]
        /\ pc' = [pc EXCEPT ![t] = "lock"]
    <3>1. next[first] # 0
      BY <1>0, Successor, StorageAssumption DEF first, Nodes
    <3> QED
      BY <1>4, <3>1 DEF ScanStart
  <2>2. counter'[t] = 0 /\ node'[t] = first /\ pc'[t] = "lock"
    BY <1>0, <2>1
  <2>3. CountOK(t)'
    BY <1>2, <2>2, SeenNothing DEF CountOK
  <2>4. \A u \in Scanners \ {t} : CountOK(u)'
    BY <1>0, <1>3, <2>1 DEF Threads
  <2>5. counter' \in [Scanners -> Nat]
    BY <1>0, <2>1
  <2> QED
    BY <1>0, <2>3, <2>4, <2>5 DEF Counting
<1>5. CASE ScanLockNext(t)
  <2>0. /\ node[t] \in 1 .. SIZE_STORAGE - 1 /\ next[node[t]] = node[t] + 1
        /\ pc[t] = "lockNext"
    BY <1>0, <1>5, Successor, StorageAssumption DEF ScanLockNext, ScanOK, Nodes
  <2>1. /\ counter' = [counter EXCEPT ![t] =
                          IF Counts(t, node[t], node[t] + 1) THEN @ + 1 ELSE @]
        /\ node' = [node EXCEPT ![t] = node[t] + 1]
        /\ pc' = [pc EXCEPT ![t] = "unlockNext"]
    BY <1>5, <2>0 DEF ScanLockNext
  <2>2. /\ counter'[t] = IF Counts(t, node[t], node[t] + 1) THEN counter[t] + 1 ELSE counter[t]
        /\ node'[t] = node[t] + 1 /\ pc'[t] = "unlockNext"
    BY <1>0, <2>1
  <2>3. counter[t] = Cardinality(Seen(t, node[t]))
    BY <1>0, <2>0 DEF CountOK
  <2>4. counter'[t] = Cardinality(Seen(t, node[t] + 1))
    BY <2>0, <2>2, <2>3, SeenGrows
  <2>5. CountOK(t)'
    BY <1>2, <2>2, <2>4 DEF CountOK
  <2>6. \A u \in Scanners \ {t} : CountOK(u)'
    BY <1>0, <1>3, <2>1 DEF Threads
  <2>7. counter' \in [Scanners -> Nat]
    BY <1>0, <2>1
  <2> QED
    BY <1>0, <2>5, <2>6, <2>7 DEF Counting
<1>6. CASE ScanLock(t) \/ ScanLast(t) \/ ScanUnlockNext(t) \/ ScanUnlock(t) \/ CountPass(t)
  <2>1. UNCHANGED <<node, counter>>
    BY <1>6 DEF ScanLock, ScanLast, ScanUnlockNext, ScanUnlock, CountPass
  <2>2. \A u \in Scanners \ {t} : CountOK(u)'
    <3>1. \A u \in Scanners \ {t} : pc'[u] = pc[u]
      BY <1>0, <1>6 DEF ScanLock, ScanLast, ScanUnlockNext, ScanUnlock, CountPass, Threads
    <3> QED
      BY <1>3, <2>1, <3>1
  <2>3. /\ pc'[t] # "start" => pc[t] # "start"
        /\ pc'[t] \in {"last", "count"} => node[t] = SIZE_STORAGE
    <3>1. next[node[t]] = 0 => node[t] = SIZE_STORAGE
      BY <1>0, Successor, StorageAssumption DEF Nodes
    <3> QED
      BY <1>0, <1>6, <3>1
         DEF ScanLock, ScanLast, ScanUnlockNext, ScanUnlock, CountPass, CountOK
  <2>4. CountOK(t)'
    BY <1>0, <1>2, <2>1, <2>3 DEF CountOK
  <2> QED
    BY <1>0, <2>1, <2>2, <2>4 DEF Counting
<1> QED
  BY <1>4, <1>5, <1>6 DEF find

(* A step of a swapper does not touch what the scanners count. *)
LEMMA SwapCounts ==
    ASSUME Inductive, Counting, NEW t \in Swappers, random_swap(t),
           UNCHANGED <<program, next>>
    PROVE  Counting'
<1> USE DEF At, Goto, walkVars
<1>1. Types
  BY DEF Inductive
<1>2. /\ counter' = counter
      /\ \A u \in Scanners : pc'[u] = pc[u] /\ node'[u] = node[u]
  <2>1. \A u \in Scanners : u # t
    BY StorageAssumption
  <2> QED
    BY <1>1, <2>1 DEF random_swap, SwapStart, SwapLock, SwapLockCurrent,
       SwapLockFuture, SwapUnlockFuture, SwapUnlockCurrent, SwapUnlock, CountPass,
       Types, Threads
<1>3. ASSUME NEW s, NEW k, NEW l, l = k PROVE Seen(s, l)' = Seen(s, k)
  BY <1>3 DEF Seen, Counts, StringLength
<1>4. ASSUME NEW u \in Scanners PROVE CountOK(u)'
  <2>1. CountOK(u)
    BY DEF Counting
  <2> QED
    BY <1>2, <1>3, <2>1 DEF CountOK
<1> QED
  BY <1>2, <1>4 DEF Counting

(* A pass of a scanner has counted each of its pairs exactly once, whatever  *)
(* the other threads do between its locks and for every list: in main.c the  *)
(* lengths are equal and find_decreasing's comparison cannot matter, rwlock.c *)
(* compares with >, and spinlock.c is the exception PairsCounted names.      *)
THEOREM ScannersCountPairs == Spec => []PairsCounted
<1>1. Init => Counting
  BY DEF Init, Counting, CountOK, Threads
<1>2. Inductive /\ Counting /\ [Next]_vars => Counting'
  <2> SUFFICES ASSUME Inductive, Counting, [Next]_vars PROVE Counting'
    OBVIOUS
  <2>1. CASE Next
    BY <2>1, ScanCounts, SwapCounts DEF Next
  <2>2. CASE UNCHANGED vars
    BY <2>2 DEF vars, walkVars, Counting, CountOK, Seen, Counts, StringLength
  <2> QED
    BY <2>1, <2>2
<1>3. Counting => PairsCounted
  <2> SUFFICES ASSUME Counting, NEW t \in Scanners, pc[t] = "count",
                      ~(program = "spinlock" /\ t = "decreasing")
               PROVE  counter[t] = Cardinality(PairsOf(t))
    BY DEF PairsCounted, At
  <2>1. counter[t] = Cardinality(Seen(t, SIZE_STORAGE))
    BY DEF Counting, CountOK
  <2>2. ASSUME NEW n \in 1 .. SIZE_STORAGE - 1
        PROVE  /\ n < SIZE_STORAGE
               /\ Counts(t, n, n + 1) <=>
                    CASE t = "increasing" -> StringLength(n) < StringLength(n + 1)
                      [] t = "decreasing" -> StringLength(n) > StringLength(n + 1)
                      [] t = "equals" -> StringLength(n) = StringLength(n + 1)
    <3>1. /\ n < SIZE_STORAGE /\ n \in 1 .. SIZE_STORAGE /\ n + 1 \in 1 .. SIZE_STORAGE
          /\ program \in {"mutex", "spinlock", "rwlock"}
          /\ t \in {"increasing", "decreasing", "equals"}
      BY StorageAssumption DEF Counting
    <3>2. StringLength(n) \in Nat /\ StringLength(n + 1) \in Nat
      BY <3>1, StorageAssumption DEF StringLength, Counting
    <3>3. program = "mutex" => StringLength(n) = StringLength(n + 1)
      BY <3>1, SameStringAssumption DEF StringLength, Counting
    <3>4. CASE t = "decreasing" /\ program = "rwlock"
      BY <3>1, <3>4 DEF Counts
    <3>5. CASE t = "decreasing" /\ program = "mutex"
      BY <3>1, <3>2, <3>3, <3>5 DEF Counts
    <3>6. CASE t # "decreasing"
      BY <3>1, <3>6 DEF Counts
    <3> QED
      BY <3>1, <3>4, <3>5, <3>6
  <2>3. Seen(t, SIZE_STORAGE) = PairsOf(t)
    BY <2>2 DEF Seen, PairsOf
  <2> QED
    BY <2>1, <2>3
<1> QED
  BY <1>1, <1>2, <1>3, AlwaysInductive, PTL DEF Spec
=============================================================================
