------------------------------ MODULE RaceQueue ------------------------------
(***************************************************************************)
(* semestr2/Task2/Task2_1: the queue with no lock at all, used by one writer *)
(* and one reader.  The Makefile builds it without optimisation, so that     *)
(* every access to *q is a load or a store of its own, in program order; a   *)
(* step performs one of them.  Loads of q->count for printing, the counters  *)
(* of attempts and additions and the monitor, which only prints, are left    *)
(* out.                                                                      *)
(*                                                                           *)
(* The first access to NULL or to freed memory ends the behaviour: nothing   *)
(* is known of a program that has made one.                                  *)
(***************************************************************************)
EXTENDS Integers

CONSTANTS Nodes,      \* addresses malloc can return
          Null,
          MaxCount,   \* q->max_count
          MaxVal      \* bound: the writer stops after MaxVal values

ASSUME NullAssumption == Null \notin Nodes
ASSUME MaxCountAssumption == MaxCount \in Nat \ {0}
ASSUME MaxValAssumption == MaxVal \in Nat

VARIABLES first, last, count,      \* *q
          next, val, used,         \* the nodes, and those allocated
          wpc, new, i, wp, wc,     \* writer; wp, wc: what it has loaded
          rpc, tmp, rp, rc, got, expected,   \* reader; rp, rc likewise
          error,                   \* the reader has printed ERROR
          main, fault

heap    == <<next, val, used>>
writerV == <<wpc, new, i, wp, wc>>
readerV == <<rpc, tmp, rp, rc, got, expected, error>>
vars == <<first, last, count, heap, writerV, readerV, main, fault>>

NoVal == -1

Init ==
    /\ first = Null /\ last = Null /\ count = 0
    /\ next = [n \in Nodes |-> Null]
    /\ val = [n \in Nodes |-> NoVal]
    /\ used = {}
    /\ wpc = "unborn" /\ new = Null /\ i = 0 /\ wp = Null /\ wc = 0
    /\ rpc = "unborn" /\ tmp = Null /\ rp = Null /\ rc = 0
    /\ got = NoVal /\ expected = 0 /\ error = FALSE
    /\ main = "create_writer" /\ fault = FALSE
-----------------------------------------------------------------------------
(* queue_add and the loop of the writer.                                     *)

AddTestAllowsOverrun ==
    /\ wpc = "test"
    /\ i < MaxVal
    /\ wpc' = IF count > MaxCount THEN "test" ELSE "malloc"
    /\ UNCHANGED <<first, last, count, heap, new, i, wp, wc, readerV, main, fault>>

\* A full queue is tried again with the same value.
AddTest ==
    /\ wpc = "test"
    /\ i < MaxVal
    /\ wpc' = IF count = MaxCount THEN "test" ELSE "malloc"
    /\ UNCHANGED <<first, last, count, heap, new, i, wp, wc, readerV, main, fault>>

\* A malloc that fails aborts the process.
AddMalloc ==
    /\ wpc = "malloc"
    /\ \/ \E n \in Nodes \ used :
             /\ used' = used \cup {n}
             /\ val' = [val EXCEPT ![n] = i]
             /\ next' = [next EXCEPT ![n] = Null]
             /\ new' = n
             /\ wpc' = "first"
       \/ wpc' = "aborted" /\ UNCHANGED <<heap, new>>
    /\ UNCHANGED <<first, last, count, i, wp, wc, readerV, main, fault>>

\* if (!q->first)
AddTestFirst ==
    /\ wpc = "first"
    /\ wpc' = IF first = Null THEN "set_last" ELSE "append"
    /\ UNCHANGED <<first, last, count, heap, new, i, wp, wc, readerV, main, fault>>

AddSetLast ==
    /\ wpc = "set_last"
    /\ last' = new
    /\ wpc' = "set_first"
    /\ UNCHANGED <<first, count, heap, new, i, wp, wc, readerV, main, fault>>

AddSetFirst ==
    /\ wpc = "set_first"
    /\ first' = last
    /\ wpc' = "load"
    /\ UNCHANGED <<last, count, heap, new, i, wp, wc, readerV, main, fault>>

\* q->last->next = new
AddAppend ==
    /\ wpc = "append"
    /\ IF last \in used
       THEN next' = [next EXCEPT ![last] = new] /\ UNCHANGED fault
       ELSE fault' = TRUE /\ UNCHANGED next
    /\ wpc' = "load_next"
    /\ UNCHANGED <<first, last, count, val, used, new, i, wp, wc, readerV, main>>

\* q->last = q->last->next
AddLoadNext ==
    /\ wpc = "load_next"
    /\ IF last \in used
       THEN wp' = next[last] /\ UNCHANGED fault
       ELSE fault' = TRUE /\ UNCHANGED wp
    /\ wpc' = "store_last"
    /\ UNCHANGED <<first, last, count, heap, new, i, wc, readerV, main>>

AddStoreLast ==
    /\ wpc = "store_last"
    /\ last' = wp
    /\ wpc' = "load"
    /\ UNCHANGED <<first, count, heap, new, i, wp, wc, readerV, main, fault>>

\* q->count++
AddLoadCount ==
    /\ wpc = "load"
    /\ wc' = count
    /\ wpc' = "store"
    /\ UNCHANGED <<first, last, count, heap, new, i, wp, readerV, main, fault>>

AddStoreCountKeepsValue ==
    /\ wpc = "store"
    /\ count' = wc + 1
    /\ new' = Null /\ wp' = Null /\ wc' = 0
    /\ wpc' = "test"
    /\ UNCHANGED <<first, last, heap, i, readerV, main, fault>>

AddStoreCount ==
    /\ wpc = "store"
    /\ count' = wc + 1
    /\ i' = i + 1
    /\ new' = Null /\ wp' = Null /\ wc' = 0
    /\ wpc' = "test"
    /\ UNCHANGED <<first, last, heap, readerV, main, fault>>

queue_add ==
    \/ AddTest \/ AddMalloc \/ AddTestFirst \/ AddSetLast \/ AddSetFirst
    \/ AddAppend \/ AddLoadNext \/ AddStoreLast \/ AddLoadCount \/ AddStoreCount

writer == queue_add
-----------------------------------------------------------------------------
(* queue_get and the loop of the reader.                                     *)

GetTest ==
    /\ rpc = "test"
    /\ rpc' = IF count = 0 THEN "test" ELSE "tmp"
    /\ UNCHANGED <<first, last, count, heap, writerV, tmp, rp, rc, got, expected,
                   error, main, fault>>

GetTmp ==
    /\ rpc = "tmp"
    /\ tmp' = first
    /\ rpc' = "val"
    /\ UNCHANGED <<first, last, count, heap, writerV, rp, rc, got, expected,
                   error, main, fault>>

\* *val = tmp->val
GetVal ==
    /\ rpc = "val"
    /\ IF tmp \in used
       THEN got' = val[tmp] /\ UNCHANGED fault
       ELSE fault' = TRUE /\ UNCHANGED got
    /\ rpc' = "load_next"
    /\ UNCHANGED <<first, last, count, heap, writerV, tmp, rp, rc, expected,
                   error, main>>

\* q->first = q->first->next
GetLoadNext ==
    /\ rpc = "load_next"
    /\ IF first \in used
       THEN rp' = next[first] /\ UNCHANGED fault
       ELSE fault' = TRUE /\ UNCHANGED rp
    /\ rpc' = "store_first"
    /\ UNCHANGED <<first, last, count, heap, writerV, tmp, rc, got, expected,
                   error, main>>

GetStoreFirst ==
    /\ rpc = "store_first"
    /\ first' = rp
    /\ rpc' = "free"
    /\ UNCHANGED <<last, count, heap, writerV, tmp, rp, rc, got, expected, error,
                   main, fault>>

GetFree ==
    /\ rpc = "free"
    /\ used' = used \ {tmp}
    /\ fault' = (fault \/ tmp \notin used)
    /\ rpc' = "load"
    /\ UNCHANGED <<first, last, count, next, val, writerV, tmp, rp, rc, got,
                   expected, error, main>>

\* q->count--
GetLoadCount ==
    /\ rpc = "load"
    /\ rc' = count
    /\ rpc' = "store"
    /\ UNCHANGED <<first, last, count, heap, writerV, tmp, rp, got, expected,
                   error, main, fault>>

GetStoreCount ==
    /\ rpc = "store"
    /\ count' = rc - 1
    /\ tmp' = Null /\ rp' = Null /\ rc' = 0
    /\ rpc' = "check"
    /\ UNCHANGED <<first, last, heap, writerV, got, expected, error, main, fault>>

queue_get ==
    \/ GetTest \/ GetTmp \/ GetVal \/ GetLoadNext \/ GetStoreFirst \/ GetFree
    \/ GetLoadCount \/ GetStoreCount

ReaderCheck ==
    /\ rpc = "check"
    /\ error' = (error \/ expected # got)
    /\ expected' = got + 1
    /\ got' = NoVal
    /\ rpc' = "test"
    /\ UNCHANGED <<first, last, count, heap, writerV, tmp, rp, rc, main, fault>>

reader == queue_get \/ ReaderCheck
-----------------------------------------------------------------------------
\* main creates the writer, then the reader, and returns if it cannot.
Main ==
    /\ \/ /\ main = "create_writer"
          /\ wpc' = "test" /\ UNCHANGED rpc
          /\ main' = "create_reader"
       \/ /\ main = "create_reader"
          /\ rpc' = "test" /\ UNCHANGED wpc
          /\ main' = "join"
       \/ /\ main \in {"create_writer", "create_reader"}
          /\ main' = "exited"
          /\ UNCHANGED <<wpc, rpc>>
    /\ UNCHANGED <<first, last, count, heap, new, i, wp, wc, tmp, rp, rc, got,
                   expected, error, fault>>

Alive == ~fault /\ wpc # "aborted" /\ main # "exited"

Finished == (~Alive \/ i = MaxVal) /\ UNCHANGED vars

Next == Finished \/ (Alive /\ (writer \/ reader \/ Main))

Spec == Init /\ [][Next]_vars
-----------------------------------------------------------------------------
(* The assertions of queue_add and queue_get hold although increments and    *)
(* decrements of count are lost: count never leaves 0..max_count.            *)
CountInRange == count \in 0..MaxCount

(* Values can be lost but until memory is misused none is delivered twice or *)
(* after a later one.                                                        *)
NeverGoesBack == ~fault /\ rpc = "check" => got >= expected

(* The inductive strengthening of CountInRange: what the two threads have    *)
(* loaded and tested bounds what they will store.                            *)
CountInv ==
    /\ {count, wc, rc} \subseteq 0..MaxCount
    /\ wpc \in {"malloc", "first", "set_last", "set_first", "append",
                "load_next", "store_last", "load"} => count < MaxCount
    /\ wpc = "store" => wc < MaxCount
    /\ rpc \in {"tmp", "val", "load_next", "store_first", "free", "load"} =>
          count > 0
    /\ rpc = "store" => rc > 0

(* The inductive strengthening of NeverGoesBack.                             *)

Holding == wpc \in {"first", "set_last", "set_first", "append"}
Linked  == wpc \in {"load_next", "store_last", "load", "store"}

\* The node the next append links to, if the reader has not freed it: the one
\* just linked counts as the last before q->last says so.
EndOfList == IF wpc \in {"load_next", "store_last"} THEN new ELSE last

\* Every node carries a smaller value than the writer's new one.
ValueInv ==
    /\ used \subseteq Nodes
    /\ next \in [Nodes -> Nodes \cup {Null}]
    /\ val \in [Nodes -> Int]
    /\ i \in Nat
    /\ ~Holding /\ ~Linked => new = Null
    /\ \A n \in used : val[n] < i \/ (n = new /\ val[n] = i)

\* Until it is linked, nobody but the writer knows the new node.
WriterInv ==
    /\ Holding => /\ new \in used /\ val[new] = i /\ new # first
                  /\ rpc = "store_first" => new # rp
                  /\ rpc = "free" => new # tmp
                  /\ next[new] = Null
                  /\ \A n \in used : next[n] # new
    /\ wpc \in {"set_last", "set_first"} => first = Null
    /\ wpc = "set_first" => last = new
    /\ wpc = "append" => last # new
    /\ wpc = "first" /\ first # Null => last # new
    /\ wpc = "load_next" /\ last \in used => next[last] = new
    /\ wpc = "store_last" => wp = new

\* The allocated nodes form chains of rising values.  The first node has no
\* predecessor but the one the reader is about to free, and the list has a last.
ChainInv ==
    /\ first \in used \cup {Null}
    /\ \A n \in used :
          /\ next[n] # Null => next[n] \in used /\ val[n] < val[next[n]]
          /\ next[n] = first /\ first # Null => rpc = "free" /\ n = tmp
    /\ \A m, n \in used : next[m] = next[n] /\ next[m] # Null => m = n
    /\ first # Null => EndOfList \in used
    /\ EndOfList \in used => next[EndOfList] = Null

\* What the reader has read is still true, and the values to come are larger.
ReaderInv ==
    /\ got \in Int /\ expected \in Int
    /\ rpc = "val" => tmp \in {Null, first}
    /\ rpc \in {"load_next", "store_first"} => tmp = first /\ first # Null /\ got = val[first]
    /\ rpc = "store_first" /\ rp # Null => rp = next[first]
    /\ rpc = "free" => /\ tmp \in used \ {first}
                       /\ \A n \in used : next[n] # tmp
                       /\ tmp = EndOfList => first = Null
    /\ rpc \in {"unborn", "test", "tmp", "val"} =>
          /\ first # Null => val[first] >= expected
          /\ expected <= i + (IF Linked THEN 1 ELSE 0)
    /\ rpc \notin {"unborn", "test", "tmp", "val"} =>
          expected <= got /\ got < i + (IF Linked THEN 1 ELSE 0)
    /\ rpc \in {"free", "load", "store", "check"} =>
          (first # Null => val[first] > got)

\* A thread main has not created yet has done nothing.
StartInv ==
    /\ main = "create_writer" => wpc = "unborn"
    /\ main \in {"create_writer", "create_reader"} => rpc = "unborn"

RaceInv == ~fault => StartInv /\ ValueInv /\ WriterInv /\ ChainInv /\ ReaderInv
=============================================================================
