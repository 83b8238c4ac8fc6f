---------------------------- MODULE ThreadDemos ------------------------------
(***************************************************************************)
(* The programs of semestr2/Task1/Task1_1 to Task1_4 and Task1_6: main       *)
(* creates threads and joins, detaches, cancels or abandons them.  program   *)
(* is the one that runs, named after its task and point.  Task1_6 makes its  *)
(* threads with clone; a thread there lives until it is joined.              *)
(*                                                                           *)
(* limit is the number of threads the system can keep, in stacks and         *)
(* descriptors.  sleep only delays and is left out, as is what is printed.   *)
(* The process ends with main, whatever the threads are doing.  Points b and  *)
(* d of Task1_1, c of Task1_2 and a of Task1_4 have slips that keep them from *)
(* compiling; they are read as they are meant.  So does Task1_6, where what  *)
(* is meant cannot be told: its munmap() and if() without arguments are read *)
(* as not there, and no stack is unmapped.                                   *)
(***************************************************************************)
EXTENDS Integers, FiniteSets, Sequences

CONSTANTS COUNT_THREAD,   \* threads of Task1_1 b (5), and of d, which does not declare it
          MAX_LIMIT       \* bound of limit

\* The loops of Task1_1 create a thread, and the system has room for one.
ASSUME DemoSizesAssumption == COUNT_THREAD \in Nat \ {0} /\ MAX_LIMIT \in Nat \ {0}

Threads == 1 .. MAX_LIMIT
Null == 0

Loops    == {"1_1b", "1_1d"}                \* for (i < COUNT_THREAD) create
Endless  == {"1_2d", "1_2e", "1_2f"}        \* while (1) create
Returns  == {"1_2b", "1_2c"}                \* the thread returns a malloc'ed block
Cancels  == {"1_4a", "1_4b", "1_4c"}
Programs == Loops \cup Endless \cup Returns \cup Cancels
            \cup {"1_1a", "1_1c", "1_3a", "1_3b", "1_6"}

VARIABLES program, limit,
          main,      \* the next step of main, or how the process ended
          i,         \* threads created so far; counted where main does not loop for ever
          tid,       \* the identifiers main has kept
          ret_val,   \* the block main got from pthread_join, or Null
          state,     \* state[t]: the next step of thread t
          kept,      \* the threads whose stack and descriptor exist
          detached,
          canceled,  \* the threads pthread_cancel was called for
          block,     \* the threads whose malloc'ed block exists
          ran        \* the threads whose function has run

mainVars == <<i, tid, ret_val>>
sysVars == <<kept, detached, canceled, block, ran>>
demoVars == <<program, limit, main, mainVars, state, sysVars>>

DemoInit ==
    /\ program \in Programs
    /\ limit \in Threads
    /\ main = IF program = "1_3b" THEN "fill" ELSE "create"
    /\ i = 0 /\ tid = <<>> /\ ret_val = Null
    /\ state = [t \in Threads |-> "none"]
    /\ kept = {} /\ detached = {} /\ canceled = {} /\ block = {} /\ ran = {}

MainAt(label) == main = label /\ UNCHANGED <<program, limit>>
ThreadGoto(t, label) == state' = [state EXCEPT ![t] = label]
Alive == main \notin {"returned", "failed", "crashed", "interrupted"}
-----------------------------------------------------------------------------
(* main.                                                                     *)

\* Task1_3 b writes through a pointer that was never set: it faults, or hits
\* memory the process has.
FillNode ==
    /\ MainAt("fill")
    /\ main' \in {"crashed", "create"}
    /\ UNCHANGED <<mainVars, state, sysVars>>

AfterCreate ==
    CASE program \in Endless -> "create"
      [] program \in Loops /\ i + 1 < COUNT_THREAD -> "create"
      [] program \in Cancels -> "cancel"
      [] program = "1_3b" -> "return"
      [] program = "1_6" -> "wait"
      [] OTHER -> "join"

\* The array of Task1_1 b keeps every identifier, a single tid the last.
Created(t) ==
    /\ main' = AfterCreate
    /\ i' = IF program \in Endless \cup {"1_6"} THEN i ELSE i + 1
    /\ tid' = IF program = "1_1b" THEN Append(tid, t) ELSE <<t>>
    /\ ThreadGoto(t, "ready")
    /\ detached' = IF program \in {"1_2f", "1_3b"} THEN detached \cup {t} ELSE detached
    /\ canceled' = canceled \ {t} /\ ran' = ran \ {t}
    /\ UNCHANGED <<ret_val, block>>

FreshThread(t) == t \notin kept /\ \A u \in Threads \ kept : t <= u

Create ==
    /\ MainAt("create")
    /\ IF Cardinality(kept) < limit
       THEN \E t \in Threads :
            /\ FreshThread(t)
            /\ kept' = kept \cup {t}
            /\ \/ Created(t)
               \/ /\ program = "1_6"      \* clone failed: the stack stays mapped
                  /\ ThreadGoto(t, "unborn")
                  /\ UNCHANGED <<main, mainVars, detached, canceled, block, ran>>
       ELSE /\ main' = IF program = "1_6" THEN "crashed" ELSE "failed"
            /\ UNCHANGED <<mainVars, state, sysVars>>

JoinThread(t) ==
    /\ state[t] = "ended"
    /\ ThreadGoto(t, "none")
    /\ kept' = kept \ {t}
    /\ ret_val' = IF program \in Returns /\ t \in block THEN t ELSE Null
AfterJoin == IF program \in Returns THEN "use" ELSE "returned"

JoinLastThread ==
    /\ MainAt("join")
    /\ JoinThread(tid[Len(tid)])
    /\ tid' = <<>>
    /\ main' = AfterJoin
    /\ UNCHANGED <<i, detached, canceled, block, ran>>

\* pthread_join of every identifier main has.
JoinThreads ==
    /\ MainAt("join")
    /\ JoinThread(Head(tid))
    /\ tid' = Tail(tid)
    /\ main' = IF Len(tid) > 1 THEN "join" ELSE AfterJoin
    /\ UNCHANGED <<i, detached, canceled, block, ran>>

UseResultNoFree ==
    /\ MainAt("use")
    /\ main' \in (IF ret_val # Null THEN {"returned"}
                  ELSE IF program = "1_2b" THEN {"crashed"} ELSE {"crashed", "returned"})
    /\ UNCHANGED <<mainVars, state, sysVars>>

\* Print what the thread returned, and free it.  Nobody looks whether it is
\* NULL: point b reads through it, point c hands it to printf's %s.
UseResult ==
    /\ MainAt("use")
    /\ block' = block \ {ret_val}
    /\ main' \in (IF ret_val # Null THEN {"returned"}
                  ELSE IF program = "1_2b" THEN {"crashed"} ELSE {"crashed", "returned"})
    /\ UNCHANGED <<mainVars, state, kept, detached, canceled, ran>>

\* pthread_cancel may refuse a thread that has already ended.
Cancel ==
    /\ MainAt("cancel")
    /\ \/ canceled' = canceled \cup {Head(tid)} /\ main' = "join"
       \/ state[Head(tid)] = "ended" /\ main' = "failed" /\ UNCHANGED canceled
    /\ UNCHANGED <<mainVars, state, kept, detached, block, ran>>

\* Task1_3 b returns without waiting for its thread.
Return ==
    /\ MainAt("return")
    /\ main' = "returned"
    /\ UNCHANGED <<mainVars, state, sysVars>>

\* my_thread_create of Task1_6 returns when the thread's routine has.
WaitExited ==
    /\ MainAt("wait")
    /\ state[Head(tid)] = "waiting"
    /\ main' = "create"
    /\ UNCHANGED <<mainVars, state, sysVars>>

\* The SIGINT handler of Task1_2 f: it destroys the attributes and exits.
Interrupt ==
    /\ Alive /\ program = "1_2f"
    /\ main' = "interrupted"
    /\ UNCHANGED <<program, limit, mainVars, state, sysVars>>

MainStep ==
    \/ FillNode \/ Create \/ JoinThreads \/ UseResult \/ Cancel \/ Return \/ WaitExited
-----------------------------------------------------------------------------
(* The threads.                                                              *)

ThreadAt(t, label) == Alive /\ state[t] = label /\ UNCHANGED <<program, limit, mainVars>>

\* The thread function up to its end, its loop or its next call.
Run(t) ==
    /\ ThreadAt(t, "ready")
    /\ ran' = ran \cup {t}
    /\ \/ /\ program \in Returns \cup {"1_4c"}     \* malloc
          /\ block' = block \cup {t}
          /\ ThreadGoto(t, IF program = "1_4c" THEN "loop" ELSE "finish")
          /\ UNCHANGED main
       \/ /\ program \in Returns                   \* malloc failed: pthread_exit(NULL)
          /\ ThreadGoto(t, "finish")
          /\ UNCHANGED <<main, block>>
       \/ /\ program = "1_4c"                      \* strcpy to NULL
          /\ main' = "crashed"
          /\ UNCHANGED <<state, block>>
       \/ /\ program \notin Returns \cup {"1_4c"}
          /\ ThreadGoto(t, CASE program = "1_2e" -> "detach"
                             [] program = "1_4a" -> "loop"
                             [] program = "1_4b" -> "settype"
                             [] OTHER -> "finish")
          /\ UNCHANGED <<main, block>>
    /\ UNCHANGED <<kept, detached, canceled>>

DetachNobody(t) ==
    /\ ThreadAt(t, "detach")
    /\ ThreadGoto(t, "finish")
    /\ UNCHANGED <<main, sysVars>>

\* pthread_detach(pthread_self()).
Detach(t) ==
    /\ ThreadAt(t, "detach")
    /\ detached' = detached \cup {t}
    /\ ThreadGoto(t, "finish")
    /\ UNCHANGED <<main, kept, canceled, block, ran>>

SetCancelTypeForgotten(t) ==
    /\ ThreadAt(t, "settype")
    /\ ThreadGoto(t, "spin")
    /\ UNCHANGED <<main, sysVars>>

\* Asynchronous cancellation, or pthread_exit when it cannot be set.
SetCancelType(t) ==
    /\ ThreadAt(t, "settype")
    /\ \E label \in {"loop", "finish"} : ThreadGoto(t, label)
    /\ UNCHANGED <<main, sysVars>>

\* In the endless loop a cancellation takes effect at the printf of points a
\* and c, anywhere in point b.  The handler of point c frees arg, which is NULL.
ActOnCancel(t) ==
    /\ ThreadAt(t, "loop") /\ t \in canceled
    /\ ThreadGoto(t, "ended")
    /\ UNCHANGED <<main, sysVars>>

\* The thread ends: a detached one is given back at once.  my_thread_start_up
\* of Task1_6 sets exited and waits for joined, which nobody sets.
ThreadEnds(t) ==
    /\ ThreadAt(t, "finish")
    /\ ThreadGoto(t, IF program = "1_6" THEN "waiting" ELSE IF t \in detached THEN "none" ELSE "ended")
    /\ kept' = IF t \in detached THEN kept \ {t} ELSE kept
    /\ detached' = detached \ {t}
    /\ UNCHANGED <<main, canceled, block, ran>>

ThreadStep(t) == Run(t) \/ Detach(t) \/ SetCancelType(t) \/ ActOnCancel(t) \/ ThreadEnds(t)

DemoOver == ~Alive /\ UNCHANGED demoVars
DemoNext == MainStep \/ Interrupt \/ DemoOver \/ \E t \in Threads : ThreadStep(t)
-----------------------------------------------------------------------------
(* Properties.                                                               *)

\* Task1_1, a: both threads are guaranteed to run.  When a main that waits for
\* its threads returns, every one of them has run.
EveryThreadRuns ==
    main = "returned" /\ program \in Returns \cup {"1_1a", "1_1b", "1_1c", "1_3a"}
    => Cardinality(ran) = i

\* A program that ends well has given back its threads and its memory.  Not so
\* point d of Task1_1, which joins the last thread only, point b of Task1_3,
\* which waits for nobody, and point c of Task1_4, whose handler frees NULL.
NothingLeftBehind ==
    main = "returned" /\ program \notin {"1_1d", "1_3b", "1_4c"}
    => kept = {} /\ block = {}

\* Detached threads never pile up: in points e and f of Task1_2 creating one can
\* only fail while as many as the system can keep are still on their way.
DetachedAreGivenBack ==
    main = "failed" /\ program \in {"1_2e", "1_2f"}
    => Cardinality({t \in Threads : state[t] \in {"ready", "detach", "finish"}}) = limit

\* Threads that are neither joined nor detached run into the limit (Task1_2 d and
\* Task1_6), and a cancelled thread ends, so that main gets past its join: all
\* programs but the two that give their threads back come to an end.
EndsByItself == program \notin {"1_2e", "1_2f"} => <>~Alive
-----------------------------------------------------------------------------
(* The inductive invariant behind the three safety properties.               *)

JoinsAll == Returns \cup Cancels \cup {"1_1a", "1_1b", "1_1c", "1_3a"}

DemoTypes ==
    /\ program \in Programs /\ limit \in Threads
    /\ i \in Nat /\ tid \in Seq(Threads)
    /\ DOMAIN state = Threads
    /\ kept \subseteq Threads /\ ran \subseteq Threads /\ block \subseteq Threads

\* Which programs main's steps belong to, and what main joins it has created.
MainInv ==
    /\ main \in {"join", "cancel"} => tid # <<>>
    /\ main = "cancel" => program \in Cancels
    /\ main = "join" => program \in JoinsAll \cup {"1_1d"}
    /\ main = "use" => program \in Returns
    /\ main \in {"fill", "return"} => program = "1_3b"
    /\ main = "wait" => program = "1_6"
    /\ main = "returned" => program \notin Endless \cup {"1_6"}

\* A thread is kept from its creation to its end, and has run before it ends.
ThreadInv ==
    /\ \A t \in Threads : t \in kept <=> state[t] # "none"
    /\ \A t \in Threads : state[t] \notin {"none", "unborn", "ready"} => t \in ran
    /\ \A t \in Threads : state[t] = "detach" => program = "1_2e"
    /\ Cardinality(kept) <= limit
    /\ program \notin {"1_2e", "1_2f", "1_3b"} => detached = {}

Ids(q) == {q[k] : k \in 1 .. Len(q)}

\* A main that joins its threads still has the identifier of each, once, and i
\* counts the threads it has created.
JoinInv ==
    program \in JoinsAll =>
        /\ kept = Ids(tid)
        /\ \A j, k \in 1 .. Len(tid) : tid[j] = tid[k] => j = k
        /\ main \in {"use", "returned"} => tid = <<>>
        /\ program # "1_1b" => Len(tid) <= 1 /\ (main = "create" => tid = <<>>)
        /\ Cardinality(kept \cup ran) = i
        /\ main = "create" => ran \subseteq kept

\* A block belongs to a thread or to main.
BlockInv ==
    /\ program \notin Returns \cup {"1_4c"} => block = {}
    /\ program \in Returns =>
          /\ main \notin {"use", "returned", "crashed"} => block \subseteq kept
          /\ main = "use" => block \subseteq {ret_val}
          /\ main = "returned" => block = {}

\* A detached thread is given back when it ends.
DetachInv ==
    program \in {"1_2e", "1_2f"} =>
        /\ \A t \in Threads : state[t] \in {"none", "ready", "detach", "finish"}
        /\ \A t \in Threads : state[t] = "finish" => t \in detached
        /\ program = "1_2f" => kept \subseteq detached
        /\ main = "failed" => Cardinality(kept) = limit

DemoInv == DemoTypes /\ MainInv /\ ThreadInv /\ JoinInv /\ BlockInv /\ DetachInv
=============================================================================
