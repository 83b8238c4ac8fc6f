------------------------------- MODULE Storage -------------------------------
(***************************************************************************)
(* semestr2/Task2/Task2_3: a linked list whose nodes carry a lock each.      *)
(* Scanners walk it and count pairs of neighbours; swappers walk to a random *)
(* place.  main.c has a mutex per node, spinlock.c a spinlock and rwlock.c a *)
(* read-write lock, which the scanners take for reading: program is the one  *)
(* of the three that runs.                                                   *)
(*                                                                           *)
(* A pass is counted in count_increment, which only the monitor prints: the  *)
(* step at "count" stands for the increment.  No call of swap_nodes is left  *)
(* in the code, so no action writes next.                                    *)
(***************************************************************************)
EXTENDS Integers, FiniteSets

CONSTANTS SIZE_STORAGE, MIN_SIZE_LIST,
          Programs,   \* those of "mutex", "spinlock", "rwlock" that may run
          Length,     \* for each program the lengths of its strings, in list order
          Scanners,   \* those of "increasing", "decreasing", "equals" that run
          Swappers

ASSUME StorageAssumption ==
    /\ SIZE_STORAGE \in Nat /\ MIN_SIZE_LIST \in Nat
    /\ SIZE_STORAGE - 2 > MIN_SIZE_LIST
    /\ Programs \subseteq {"mutex", "spinlock", "rwlock"}
    /\ Length \in [Programs -> [1 .. SIZE_STORAGE -> Nat]]
    /\ Scanners \subseteq {"increasing", "decreasing", "equals"}
    /\ Scanners \cap Swappers = {}

\* init_storage of main.c copies one array into every node.
ASSUME SameStringAssumption ==
    "mutex" \in Programs =>
        \A m, n \in 1 .. SIZE_STORAGE : Length["mutex"][m] = Length["mutex"][n]

Nodes == 1 .. SIZE_STORAGE
Null == 0
Threads == Scanners \cup Swappers

VARIABLES program,
          next,     \* next[n], for each node
          lock,     \* the threads that hold each node's lock
          pc,
          node,     \* scanner: node.  swapper: prev
          tmp,      \* scanner: tmp.   swapper: node, the previous prev
          current, future, index, i,   \* of a swapper
          counter   \* of a scanner

walkVars == <<node, tmp>>
swapVars == <<current, future, index, i>>
vars == <<program, next, lock, pc, walkVars, swapVars, counter>>

first == 1
StringLength(n) == Length[program][n]

\* init_storage appends SIZE_STORAGE nodes; main then starts the threads.
Init ==
    /\ program \in Programs
    /\ next = [n \in Nodes |-> IF n = SIZE_STORAGE THEN Null ELSE n + 1]
    /\ lock = [n \in Nodes |-> {}]
    /\ pc = [t \in Threads |-> "start"]
    /\ node = [t \in Threads |-> first]
    /\ tmp = [t \in Threads |-> Null]
    /\ current = [t \in Swappers |-> Null]
    /\ future = [t \in Swappers |-> Null]
    /\ index = [t \in Swappers |-> 0]
    /\ i = [t \in Swappers |-> 0]
    /\ counter = [t \in Scanners |-> 0]

At(t, label) == pc[t] = label
Goto(t, label) == pc' = [pc EXCEPT ![t] = label]

\* A reader shares a lock with readers; anyone else holds it alone.
Lockable(t, n) ==
    lock[n] \subseteq (IF program = "rwlock" /\ t \in Scanners THEN Scanners ELSE {})

Lock(t, n) ==
    /\ Lockable(t, n)
    /\ lock' = [lock EXCEPT ![n] = @ \cup {t}]

Unlock(t, n) == lock' = [lock EXCEPT ![n] = @ \ {t}]
-----------------------------------------------------------------------------
(* find_increasing, find_decreasing, find_equals.                            *)

Counts(t, a, b) ==
    CASE t = "increasing" -> StringLength(a) < StringLength(b)
      [] t = "decreasing" -> IF program = "rwlock" THEN StringLength(a) > StringLength(b) ELSE StringLength(a) < StringLength(b)
      [] t = "equals" -> StringLength(a) = StringLength(b)

ScanStart(t) ==
    /\ At(t, "start")
    /\ counter' = [counter EXCEPT ![t] = 0]
    /\ node' = [node EXCEPT ![t] = first]
    /\ Goto(t, IF next[first] = Null THEN "start" ELSE "lock")
    /\ UNCHANGED <<lock, tmp, swapVars>>

\* Lock the node and look at its successor.
ScanLock(t) ==
    /\ At(t, "lock")
    /\ Lock(t, node[t])
    /\ tmp' = [tmp EXCEPT ![t] = node[t]]
    /\ Goto(t, IF next[node[t]] = Null THEN "last" ELSE "lockNext")
    /\ UNCHANGED <<node, swapVars, counter>>

ScanLastForgotten(t) ==
    /\ At(t, "last")
    /\ Goto(t, "count")
    /\ UNCHANGED <<lock, walkVars, swapVars, counter>>

ScanLast(t) ==
    /\ At(t, "last")
    /\ Unlock(t, node[t])
    /\ Goto(t, "count")
    /\ UNCHANGED <<walkVars, swapVars, counter>>

ScanLockNextForgets(t) ==
    /\ At(t, "lockNext")
    /\ Lock(t, next[node[t]])
    /\ counter' = [counter EXCEPT ![t] = IF Counts(t, node[t], next[node[t]]) THEN 1 ELSE 0]
    /\ node' = [node EXCEPT ![t] = next[node[t]]]
    /\ Goto(t, "unlockNext")
    /\ UNCHANGED <<tmp, swapVars>>

\* Lock the successor, compare, and step forward.
ScanLockNext(t) ==
    /\ At(t, "lockNext")
    /\ Lock(t, next[node[t]])
    /\ counter' = [counter EXCEPT ![t] = IF Counts(t, node[t], next[node[t]]) THEN @ + 1 ELSE @]
    /\ node' = [node EXCEPT ![t] = next[node[t]]]
    /\ Goto(t, "unlockNext")
    /\ UNCHANGED <<tmp, swapVars>>

ScanUnlockNext(t) ==
    /\ At(t, "unlockNext")
    /\ Unlock(t, node[t])
    /\ Goto(t, "unlock")
    /\ UNCHANGED <<walkVars, swapVars, counter>>

ScanUnlock(t) ==
    /\ At(t, "unlock")
    /\ Unlock(t, tmp[t])
    /\ Goto(t, "lock")
    /\ UNCHANGED <<walkVars, swapVars, counter>>

\* ++count_increment[thread], and the next pass.
CountPass(t) ==
    /\ At(t, "count")
    /\ Goto(t, "start")
    /\ UNCHANGED <<lock, walkVars, swapVars, counter>>

find(t) ==
    \/ ScanStart(t) \/ ScanLock(t) \/ ScanLast(t) \/ ScanLockNext(t)
    \/ ScanUnlockNext(t) \/ ScanUnlock(t) \/ CountPass(t)
-----------------------------------------------------------------------------
(* random_swap.                                                              *)

NumbersUpToSize == MIN_SIZE_LIST .. SIZE_STORAGE - 2

\* number_random_node: rand_r % (SIZE_STORAGE - 2), again while it is too small.
number_random_node == MIN_SIZE_LIST .. SIZE_STORAGE - 3

SwapStart(t) ==
    /\ At(t, "start")
    /\ node' = [node EXCEPT ![t] = first]
    /\ IF next[first] = Null
       THEN UNCHANGED <<pc, swapVars>>
       ELSE /\ \E k \in number_random_node : index' = [index EXCEPT ![t] = k]
            /\ current' = [current EXCEPT ![t] = next[first]]
            /\ future' = [future EXCEPT ![t] = next[next[first]]]
            /\ i' = [i EXCEPT ![t] = 0]
            /\ Goto(t, "lock")
    /\ UNCHANGED <<lock, tmp, counter>>

\* The loop's condition and the first lock.  A locked node without a successor
\* is unlocked again, in the same step, and ends the walk; the same below, with
\* two locks.
SwapLock(t) ==
    /\ At(t, "lock")
    /\ IF i[t] >= index[t]
       THEN Goto(t, "count") /\ UNCHANGED lock
       ELSE IF next[node[t]] # Null
       THEN Lock(t, node[t]) /\ Goto(t, "lockCurrent")
       ELSE Lockable(t, node[t]) /\ Goto(t, "count") /\ UNCHANGED lock
    /\ UNCHANGED <<walkVars, swapVars, counter>>

SwapLockCurrent(t) ==
    /\ At(t, "lockCurrent")
    /\ IF next[next[node[t]]] # Null
       THEN Lock(t, next[node[t]]) /\ Goto(t, "lockFuture")
       ELSE /\ Lockable(t, next[node[t]])
            /\ Unlock(t, node[t])
            /\ Goto(t, "count")
    /\ UNCHANGED <<walkVars, swapVars, counter>>

\* The third lock; the three pointers and the saved one step forward.
SwapLockFuture(t) ==
    /\ At(t, "lockFuture")
    /\ Lock(t, next[next[node[t]]])
    /\ tmp' = [tmp EXCEPT ![t] = node[t]]
    /\ node' = [node EXCEPT ![t] = next[node[t]]]
    /\ current' = [current EXCEPT ![t] = next[current[t]]]
    /\ future' = [future EXCEPT ![t] = next[future[t]]]
    /\ Goto(t, "unlockFuture")
    /\ UNCHANGED <<index, i, counter>>

SwapUnlockFutureForgotten(t) ==
    /\ At(t, "unlockFuture")
    /\ Goto(t, "unlockCurrent")
    /\ UNCHANGED <<lock, walkVars, swapVars, counter>>

SwapUnlockFuture(t) ==
    /\ At(t, "unlockFuture")
    /\ Unlock(t, next[next[tmp[t]]])
    /\ Goto(t, "unlockCurrent")
    /\ UNCHANGED <<walkVars, swapVars, counter>>

SwapUnlockCurrent(t) ==
    /\ At(t, "unlockCurrent")
    /\ Unlock(t, next[tmp[t]])
    /\ Goto(t, "unlock")
    /\ UNCHANGED <<walkVars, swapVars, counter>>

SwapUnlock(t) ==
    /\ At(t, "unlock")
    /\ Unlock(t, tmp[t])
    /\ i' = [i EXCEPT ![t] = @ + 1]
    /\ Goto(t, "lock")
    /\ UNCHANGED <<walkVars, current, future, index, counter>>

random_swap(t) ==
    \/ SwapStart(t) \/ SwapLock(t) \/ SwapLockCurrent(t) \/ SwapLockFuture(t)
    \/ SwapUnlockFuture(t) \/ SwapUnlockCurrent(t) \/ SwapUnlock(t) \/ CountPass(t)
-----------------------------------------------------------------------------
Next ==
    /\ \/ \E t \in Scanners : find(t)
       \/ \E t \in Swappers : random_swap(t)
    /\ UNCHANGED <<program, next>>

Spec == Init /\ [][Next]_vars

\* Somebody who can run runs; nothing is assumed about who gets a lock.
FairSpec == Spec /\ WF_vars(Next)
-----------------------------------------------------------------------------
(* Properties.                                                               *)

\* The lock a thread has asked for, Null when it waits for none.
Wanted(t) ==
    CASE At(t, "lock") /\ (t \in Swappers => i[t] < index[t]) -> node[t]
      [] At(t, "lockNext") \/ At(t, "lockCurrent") -> next[node[t]]
      [] At(t, "lockFuture") -> next[next[node[t]]]
      [] OTHER -> Null

\* README: locks nearer to the head of the list are always taken first.  While a
\* thread waits for a node's lock it holds only locks of nodes before it.
WaitsOnlyForward ==
    \A t \in Threads, n \in Nodes : Wanted(t) # Null /\ t \in lock[n] => n < Wanted(t)

\* The threads never block one another for good: some pass always ends.
SomePassEnds == []<>(\E t \in Threads : At(t, "count"))

\* Whatever the other threads do meanwhile, a pass of find_increasing,
\* find_decreasing or find_equals has counted its pairs of neighbours, each once.
\* find_decreasing of spinlock.c is left out: it compares with < (README.md, 4).
PairsOf(t) ==
    {n \in 1 .. SIZE_STORAGE - 1 :
        CASE t = "increasing" -> StringLength(n) < StringLength(n + 1)
          [] t = "decreasing" -> StringLength(n) > StringLength(n + 1)
          [] t = "equals" -> StringLength(n) = StringLength(n + 1)}
PairsCounted ==
    \A t \in Scanners :
        At(t, "count") /\ ~(program = "spinlock" /\ t = "decreasing")
        => counter[t] = Cardinality(PairsOf(t))

\* When random_swap has walked to its place it has three neighbouring nodes in
\* hand, none of them NULL: what swap_nodes asserts.
ThreeNodesToSwap ==
    \A t \in Swappers : At(t, "count") =>
        /\ node[t] # Null
        /\ current[t] = next[node[t]] /\ current[t] # Null
        /\ future[t] = next[current[t]] /\ future[t] # Null

\* README: random_swap swaps neighbours and counts the swaps that succeeded.
\* Whenever the only swapper counts, nodes are out of their places: refuted at
\* its first count, when one swap must have moved two of them.
CountedSwapMovesNodes ==
    \A t \in Swappers : At(t, "count") => \E n \in 1 .. SIZE_STORAGE - 1 : next[n] # n + 1
=============================================================================
