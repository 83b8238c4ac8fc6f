------------------------------ MODULE UThread ------------------------------
(***************************************************************************)
(* User-level threads on swapcontext (semestr2/Task1/Task1_7).  main makes *)
(* N threads, starts the checker as a pthread and then calls schedule() in *)
(* a loop; the thread functions call schedule() Rounds times each.  Only   *)
(* one strand (the flow of control on main's stack or on the stack of one  *)
(* thread) runs at a time, in parallel with the checker.                   *)
(*                                                                         *)
(* A saved context is the strand it resumes: swapcontext stores where the  *)
(* running strand is, which is that strand's pc.  create_stack fills a     *)
(* thread's memory with 0x7f and nothing sets is_running and is_finish     *)
(* before they are tested, so the flags are bytes that start as FILL.      *)
(***************************************************************************)
EXTENDS Integers

CONSTANTS
    N,          \* threads main creates (3 in the source)
    Rounds      \* calls of schedule() in a thread function (5 in the source)

ASSUME SizesAssumption == N \in Nat \ {0} /\ Rounds \in Nat

Slots == 0 .. N - 1
Main == N                       \* the strand on main's own stack
Strands == 0 .. N
NULL == N + 1                   \* a null entry read out of uthreads

FILL == 127                     \* 0x7f
true == 1
Flags == [Slots -> {FILL, true}]

VARIABLES
    uthreads,       \* [Slots -> Slots or NULL]: the table of threads
    uctx,           \* [Slots -> Strands]: the strand each saved context resumes
    is_running,     \* Flags
    is_finish,      \* Flags
    uthread_count,
    uthread_cur,
    stop_work_checker,
    strand,         \* the strand that runs
    pc,             \* [Strands -> where the strand is]
    frame,          \* [Strands -> its local variables]
    checker,        \* [pc, i, killed]: the checker's pc and local variables
    status,         \* how the process fares
    build           \* how the compiler negates a bool: "xor" or "test"

threads == <<uthreads, uctx, is_running, is_finish>>
globals == <<uthread_count, uthread_cur, stop_work_checker>>
locals == <<strand, pc, frame>>
vars == <<threads, globals, locals, checker, status, build>>

\* start_thread's i, the function it calls and that function's i; then the
\* two pointers of schedule().
Frames == [i : 0 .. N, fn : Slots, k : 0 .. Rounds,
           cur : Slots \cup {NULL}, next : Slots \cup {NULL}]
Frame0 == [i |-> 0, fn |-> 0, k |-> 0, cur |-> NULL, next |-> NULL]

Init ==
    /\ uthreads = [s \in Slots |-> NULL]
    /\ uctx = [s \in Slots |-> s]
    /\ is_running = [s \in Slots |-> FILL]
    /\ is_finish = [s \in Slots |-> FILL]
    /\ uthread_count = 0
    /\ uthread_cur = 0
    /\ stop_work_checker = FALSE
    /\ strand = Main
    /\ pc = [s \in Strands |-> IF s = Main THEN "create" ELSE "start"]
    /\ frame = [s \in Strands |-> Frame0]
    /\ checker = [pc |-> "none", i |-> 0, killed |-> 0]
    /\ status = "run"
    /\ build \in {"xor", "test"}

\* is_running == false of a byte that is neither 0 nor 1: unoptimised code
\* flips its lowest bit and finds the rest non-zero, optimised code compares
\* the byte with 0.
NotRunning(s) ==
    IF build = "xor" THEN is_running[s] # true ELSE is_running[s] = 0

\* is_finish == true: every byte but 0 passes.
Finished(s) == is_finish[s] # 0

\* ------------------------------------------------------------- the strands
At(l) == status = "run" /\ pc[strand] = l
Goto(l) == pc' = [pc EXCEPT ![strand] = l]
Ends(how) == status' = how /\ UNCHANGED <<threads, globals, locals, checker, build>>

\* uthreads[++uthread_count] = new_ut;
uthread_create_shifted ==
    /\ At("create") /\ uthread_count < N
    /\ uthreads' = [s \in Slots |-> IF s = uthread_count + 1 THEN s ELSE uthreads[s]]
    /\ uthread_count' = uthread_count + 1
    /\ UNCHANGED <<uctx, is_running, is_finish, uthread_cur,
                   stop_work_checker, locals, checker, status, build>>

\* uthread_create: a mapped stack becomes the next entry of uthreads.  A
\* failed mmap is not NULL, so the test misses it and memset faults.
uthread_create ==
    /\ At("create") /\ uthread_count < N
    /\ \/ Ends("nostack")
       \/ /\ uthreads' = [uthreads EXCEPT ![uthread_count] = uthread_count]
          /\ uthread_count' = uthread_count + 1
          /\ UNCHANGED <<uctx, is_running, is_finish, uthread_cur,
                         stop_work_checker, locals, checker, status, build>>

\* main starts the checker, or returns when pthread_create fails.
StartChecker ==
    /\ At("create") /\ uthread_count = N
    /\ \/ Ends("exit")
       \/ /\ checker' = [checker EXCEPT !.pc = "while"]
          /\ Goto("loop")
          /\ UNCHANGED <<threads, globals, strand, frame, status, build>>

\* while (uthread_count > 0) schedule();
MainLoop ==
    /\ At("loop")
    /\ Goto(IF uthread_count > 0 THEN "save" ELSE "join")
    /\ UNCHANGED <<threads, globals, strand, frame, checker, status, build>>

\* pthread_join, and the end of main.
Join == At("join") /\ checker.pc = "done" /\ Ends("exit")

\* The context to save looked up after uthread_cur has moved on.
ScheduleSaveLate ==
    /\ At("save")
    /\ frame' = [frame EXCEPT ![strand].cur = uthreads[(uthread_cur + 1) % N]]
    /\ Goto("advance")
    /\ UNCHANGED <<threads, globals, strand, checker, status, build>>

\* schedule(): the entry whose context will be saved.
ScheduleSave ==
    /\ At("save")
    /\ frame' = [frame EXCEPT ![strand].cur = uthreads[uthread_cur]]
    /\ Goto("advance")
    /\ UNCHANGED <<threads, globals, strand, checker, status, build>>

\* schedule(): uthread_cur moves on, and uthread_count = 0 divides by zero.
ScheduleAdvance ==
    /\ At("advance")
    /\ IF uthread_count = 0
       THEN Ends("fault")
       ELSE /\ uthread_cur' = (uthread_cur + 1) % uthread_count
            /\ Goto("pick")
            /\ UNCHANGED <<threads, uthread_count, stop_work_checker, strand,
                           frame, checker, status, build>>

\* schedule(): the entry whose context will be resumed.
SchedulePick ==
    /\ At("pick")
    /\ frame' = [frame EXCEPT ![strand].next = uthreads[uthread_cur]]
    /\ Goto("swap")
    /\ UNCHANGED <<threads, globals, strand, checker, status, build>>

\* schedule(): swapcontext saves the running strand and resumes the other.
\* Both pointers lead into entries of uthreads, and a null one faults.
SwapContext ==
    LET f == frame[strand]
    IN  /\ At("swap")
        /\ IF NULL \in {f.cur, f.next}
           THEN Ends("fault")
           ELSE /\ uctx' = [uctx EXCEPT ![f.cur] = strand]
                /\ strand' = uctx'[f.next]
                /\ Goto(IF strand = Main THEN "loop" ELSE "body")
                /\ UNCHANGED <<uthreads, is_running, is_finish, globals,
                               frame, checker, status, build>>

\* start_thread: the next turn of its loop.  Past the last one it returns,
\* and with no uc_link the process exits.
StartLoop ==
    /\ At("start")
    /\ IF frame[strand].i < uthread_count
       THEN /\ Goto("flag")
            /\ UNCHANGED <<threads, globals, strand, frame, checker, status, build>>
       ELSE Ends("exit")

\* start_thread: is_running of entry i decides whether its function is called.
StartTest ==
    LET i == frame[strand].i
    IN  /\ At("flag")
        /\ IF uthreads[i] = NULL
           THEN Ends("fault")
           ELSE /\ IF NotRunning(i)
                   THEN Goto("call") /\ UNCHANGED frame
                   ELSE /\ Goto("start")
                        /\ frame' = [frame EXCEPT ![strand].i = i + 1]
                /\ UNCHANGED <<threads, globals, strand, checker, status, build>>

\* start_thread: entry i is marked and its function entered.  The entry is
\* read again, and a null one faults whichever of the reads meets it.
StartCall ==
    LET i == frame[strand].i
    IN  /\ At("call")
        /\ IF uthreads[i] = NULL
           THEN Ends("fault")
           ELSE /\ is_running' = [is_running EXCEPT ![i] = true]
                /\ frame' = [frame EXCEPT ![strand].fn = i, ![strand].k = 0]
                /\ Goto("body")
                /\ UNCHANGED <<uthreads, uctx, is_finish, globals, strand,
                               checker, status, build>>

\* my_thread1, 2, 3: one turn of the loop prints and calls schedule().
Body ==
    LET f == frame[strand]
    IN  /\ At("body")
        /\ IF f.k < Rounds
           THEN frame' = [frame EXCEPT ![strand].k = f.k + 1] /\ Goto("save")
           ELSE Goto("finish") /\ UNCHANGED frame
        /\ UNCHANGED <<threads, globals, strand, checker, status, build>>

\* my_thread1, 2, 3: the function reports that it has finished.
Finish ==
    LET fn == frame[strand].fn
    IN  /\ At("finish")
        /\ IF uthreads[fn] = NULL
           THEN Ends("fault")
           ELSE /\ is_finish' = [is_finish EXCEPT ![fn] = true]
                /\ Goto("wait")
                /\ UNCHANGED <<uthreads, uctx, is_running, globals, strand,
                               frame, checker, status, build>>

\* my_thread1, 2, 3: the function sleeps until the checker is done and then
\* returns into start_thread's loop.
WaitForChecker ==
    /\ At("wait") /\ stop_work_checker
    /\ frame' = [frame EXCEPT ![strand].i = frame[strand].i + 1]
    /\ Goto("start")
    /\ UNCHANGED <<threads, globals, strand, checker, status, build>>

\* ------------------------------------------------------------- the checker
CheckerAt(l) == status = "run" /\ checker.pc = l

\* The outer loop's test.
CheckerWhile ==
    /\ CheckerAt("while")
    /\ checker' = IF checker.killed < uthread_count
                  THEN [checker EXCEPT !.pc = "for", !.i = 0]
                  ELSE [checker EXCEPT !.pc = "zero"]
    /\ UNCHANGED <<threads, globals, locals, status, build>>

\* One turn of the inner loop.  It only reads is_finish and is alone in
\* clearing entries, so the test and the removal are one step.
CheckerFor ==
    LET i == checker.i
    IN  /\ CheckerAt("for")
        /\ IF i = uthread_count
           THEN checker' = [checker EXCEPT !.pc = "while"] /\ UNCHANGED uthreads
           ELSE IF uthreads[i] # NULL /\ Finished(i)
           THEN /\ uthreads' = [uthreads EXCEPT ![i] = NULL]
                /\ checker' = [checker EXCEPT !.i = i + 1, !.killed = @ + 1]
           ELSE checker' = [checker EXCEPT !.i = i + 1] /\ UNCHANGED uthreads
        /\ UNCHANGED <<uctx, is_running, is_finish, globals, locals, status, build>>

\* uthread_count = 0;
CheckerZero ==
    /\ CheckerAt("zero")
    /\ uthread_count' = 0
    /\ checker' = [checker EXCEPT !.pc = "stop"]
    /\ UNCHANGED <<threads, uthread_cur, stop_work_checker, locals, status, build>>

\* The waiting functions are not told.
CheckerStopSilent ==
    /\ CheckerAt("stop")
    /\ checker' = [checker EXCEPT !.pc = "done"]
    /\ UNCHANGED <<threads, globals, locals, status, build>>

\* stop_work_checker = true; and the pthread ends.
CheckerStop ==
    /\ CheckerAt("stop")
    /\ stop_work_checker' = TRUE
    /\ checker' = [checker EXCEPT !.pc = "done"]
    /\ UNCHANGED <<threads, uthread_count, uthread_cur, locals, status, build>>

\* The process is gone.
Over == status # "run" /\ UNCHANGED vars

Schedule == ScheduleSave \/ ScheduleAdvance \/ SchedulePick \/ SwapContext
StartThread == StartLoop \/ StartTest \/ StartCall
ThreadFunc == Body \/ Finish \/ WaitForChecker
Checker == CheckerWhile \/ CheckerFor \/ CheckerZero \/ CheckerStop

\* A step of the one kernel thread that all strands share.
StrandStep ==
    \/ uthread_create \/ StartChecker \/ MainLoop \/ Join
    \/ Schedule \/ StartThread \/ ThreadFunc

Next == StrandStep \/ Checker \/ Over

Spec == Init /\ [][Next]_vars

-----------------------------------------------------------------------------
TypeOK ==
    /\ uthreads \in [Slots -> Slots \cup {NULL}]
    /\ uctx \in [Slots -> Strands]
    /\ is_running \in Flags /\ is_finish \in Flags
    /\ uthread_count \in 0 .. N /\ uthread_cur \in Slots
    /\ stop_work_checker \in BOOLEAN
    /\ strand \in Strands
    /\ frame \in [Strands -> Frames]
    /\ checker.i \in 0 .. N /\ checker.killed \in 0 .. N
    /\ status \in {"run", "exit", "fault", "nostack"}

\* No two entries resume the same strand, and until schedule() has moved
\* uthread_cur on, the running strand can only be resumed from the current
\* entry: main, whose first schedule() takes over the context of thread 0, and
\* the threads 1 .. N - 1 are each kept in one place, so that swapcontext never
\* resumes a strand at a point it has already left.
EveryStrandInOneSlot ==
    /\ \A s, t \in Slots : s # t => uctx[s] # uctx[t]
    /\ pc[strand] \notin {"pick", "swap"} =>
          \A s \in Slots : uctx[s] = strand => s = uthread_cur

\* Until the checker has removed a thread, and however long it takes over
\* that, schedule(), start_thread and the thread functions follow no null
\* entry and divide by no zero: the checker, which clears entries and the
\* count without a lock, is the only source of a fault.
FaultsComeFromChecker == status = "fault" => checker.killed > 0

\* The checker leaves its loop, in which it prints "finish thread work" for
\* each thread it removes, when every thread function has finished.
AllFunctionsFinish ==
    checker.pc \in {"zero", "stop", "done"} =>
        \A s \in Slots : is_finish[s] = true

\* No strand sleeps or runs for ever: the process comes to an end.
ProcessEnds == <>(status # "run")
-----------------------------------------------------------------------------
(* The inductive invariant behind the two safety properties.                 *)

MainLabels == {"create", "loop", "save", "advance", "pick", "swap", "join"}
ThreadLabels == {"start", "flag", "call", "body", "save", "advance", "pick", "swap",
                 "finish", "wait"}

ThreadTypes ==
    /\ uthreads \in [Slots -> Slots \cup {NULL}]
    /\ \A s \in Slots : uthreads[s] \in {s, NULL}
    /\ uctx \in [Slots -> Strands]
    /\ uthread_count \in 0 .. N /\ uthread_cur \in Slots
    /\ strand \in Strands
    /\ pc \in [Strands -> MainLabels \cup ThreadLabels]
    /\ frame \in [Strands -> Frames]
    /\ checker \in [pc : {"none", "while", "for", "zero", "stop", "done"},
                    i : 0 .. N, killed : Nat]

\* Where a strand can be: one that does not run is about to return from
\* schedule() or has not been started.
StrandInv ==
    /\ pc[Main] \in MainLabels
    /\ \A s \in Slots : pc[s] \in ThreadLabels
    /\ \A s \in Strands \ {strand} : pc[s] \in {"start", "loop", "body"}
    /\ \A s \in Slots : pc[s] # "start" => frame[s].i < N
    /\ N = 1 => strand = Main

\* What the checker and uthread_count say about each other.
CheckerInv ==
    /\ pc[Main] = "create" =>
          /\ checker.pc = "none" /\ checker.killed = 0 /\ strand = Main
          /\ \A s \in Slots : s < uthread_count => uthreads[s] = s
    /\ pc[Main] # "create" => checker.pc # "none"
    /\ checker.pc \in {"while", "for", "zero"} => uthread_count = N
    /\ checker.pc \in {"stop", "done"} => uthread_count = 0
    /\ stop_work_checker => checker.pc = "done"

\* In schedule() the running strand belongs to the entry it will be saved in.
SlotInv ==
    /\ EveryStrandInOneSlot
    /\ pc[strand] = "advance" => frame[strand].cur \in {uthread_cur, NULL}
    /\ pc[strand] \in {"pick", "swap"} /\ frame[strand].cur # NULL =>
          \A s \in Slots : uctx[s] = strand => s = frame[strand].cur
    /\ pc[strand] = "swap" => frame[strand].next \in {uthread_cur, NULL}

\* As long as the checker has removed nobody it is still in its loop, and no
\* entry and no pointer that schedule() has read is null.
FaultInv ==
    checker.killed = 0 =>
        /\ status # "fault"
        /\ checker.pc \in {"none", "while", "for"}
        /\ pc[Main] # "create" => \A s \in Slots : uthreads[s] = s
        /\ pc[strand] \in {"advance", "pick", "swap"} => frame[strand].cur # NULL
        /\ pc[strand] = "swap" => frame[strand].next # NULL

UInv == ThreadTypes /\ StrandInv /\ CheckerInv /\ SlotInv /\ FaultInv
=============================================================================
