---------------------------- MODULE ThreadProofs ----------------------------
(***************************************************************************)
(* What the runs of MCThreads show on small instances, for any number of     *)
(* user-level threads and of turns, and for any limit on the threads of a    *)
(* demonstration: the invariants UInv of UThread and DemoInv of ThreadDemos  *)
(* are inductive and imply their properties.                                 *)
(***************************************************************************)
EXTENDS MCThreads, FiniteSetTheorems, TLAPS

(* ---------------------------------------------- Task1_7: user-level threads *)

(* Slots, strands and the null entry. *)
LEMMA Sizes ==
    /\ Main \notin Slots /\ NULL \notin Slots /\ Strands = Slots \cup {Main}
    /\ NULL \notin Strands /\ 0 \in Slots
    /\ \A s \in Slots : s \in Nat /\ s < N
    /\ \A n \in 0 .. N : n < N => n \in Slots
    /\ N \in Nat /\ N > 0
BY SizesAssumption DEF Main, NULL, Slots, Strands

(* uthread_create has not run yet: the invariant holds. *)
LEMMA UInit == Init => UInv
<1> SUFFICES ASSUME Init PROVE UInv
  OBVIOUS
<1>0. pc[Main] = "create" /\ strand = Main /\ \A s \in Slots : pc[s] = "start"
  BY Sizes DEF Init
<1> USE SizesAssumption DEF Init, Slots, Strands, Main, NULL
<1>1. ThreadTypes
  BY DEF ThreadTypes, MainLabels, ThreadLabels, Frames, Frame0
<1>2. StrandInv
  BY <1>0 DEF StrandInv, MainLabels, ThreadLabels
<1>3. CheckerInv
  BY DEF CheckerInv
<1>4. SlotInv
  BY DEF SlotInv, EveryStrandInOneSlot
<1>5. FaultInv
  BY DEF FaultInv
<1> QED
  BY <1>1, <1>2, <1>3, <1>4, <1>5 DEF UInv

(* Until the checker has removed a thread, no entry is null once main has    *)
(* made them all, and the count is that of all threads.                      *)
LEMMA Running ==
    ASSUME UInv, pc[strand] # "create"
    PROVE  /\ pc[Main] # "create"
           /\ checker.killed = 0 => /\ uthread_count = N
                                    /\ \A s \in Slots : uthreads[s] = s
BY DEF UInv, CheckerInv, FaultInv

(* The process ends, by a fault only when the checker has removed a thread. *)
LEMMA EndsInv ==
    ASSUME UInv, NEW how, Ends(how), how = "fault" => checker.killed # 0
    PROVE  UInv'
<1>1. UNCHANGED <<uthreads, uctx, uthread_count, uthread_cur,
                  stop_work_checker, strand, pc, frame, checker, build>>
      /\ status' = how
  BY DEF Ends, threads, globals, locals
<1>2. ThreadTypes' /\ StrandInv' /\ CheckerInv'
  BY <1>1 DEF UInv, ThreadTypes, StrandInv, CheckerInv
<1>3. SlotInv'
  BY <1>1 DEF UInv, SlotInv, EveryStrandInOneSlot
<1>4. FaultInv'
  BY <1>1 DEF UInv, FaultInv
<1> QED
  BY <1>2, <1>3, <1>4 DEF UInv

(* The running strand moves on, outside schedule(). *)
LEMMA MoveInv ==
    ASSUME UInv, NEW l \in MainLabels \cup ThreadLabels,
           pc' = [pc EXCEPT ![strand] = l],
           UNCHANGED <<uthreads, uctx, globals, strand, checker, status, build>>,
           frame' \in [Strands -> Frames],
           \A s \in Strands \ {strand} : frame'[s] = frame[s],
           pc[Main] # "create", pc[strand] \notin {"pick", "swap"},
           l \notin {"create", "advance", "pick", "swap"},
           strand = Main => l \in MainLabels,
           strand # Main => l \in ThreadLabels /\ (l # "start" => frame'[strand].i < N)
    PROVE  UInv'
<1>0. ThreadTypes /\ StrandInv /\ CheckerInv /\ SlotInv /\ FaultInv
  BY DEF UInv
<1>1. /\ UNCHANGED <<uthread_count, uthread_cur, stop_work_checker>>
      /\ strand \in Strands /\ pc'[strand] = l
      /\ \A s \in Strands \ {strand} : pc'[s] = pc[s]
      /\ pc' \in [Strands -> MainLabels \cup ThreadLabels]
  BY <1>0 DEF ThreadTypes, globals
<1>2. ThreadTypes'
  BY <1>0, <1>1 DEF ThreadTypes
<1>3. pc'[Main] # "create"
  BY <1>0, <1>1, Sizes
<1>4. StrandInv'
  BY <1>0, <1>1, Sizes DEF StrandInv
<1>5. CheckerInv'
  BY <1>0, <1>1, <1>3 DEF CheckerInv
<1>6. SlotInv'
  BY <1>0, <1>1 DEF SlotInv, EveryStrandInOneSlot
<1>7. FaultInv'
  BY <1>0, <1>1 DEF FaultInv
<1> QED
  BY <1>2, <1>4, <1>5, <1>6, <1>7 DEF UInv

(* main makes the threads and starts the checker. *)
LEMMA CreateInv == ASSUME UInv, uthread_create \/ StartChecker PROVE UInv'
<1>0. ThreadTypes /\ StrandInv /\ CheckerInv /\ SlotInv /\ FaultInv
  BY DEF UInv
<1>1. pc[strand] = "create" /\ strand \in Strands
  BY <1>0 DEF ThreadTypes, uthread_create, StartChecker, At
<1>2. /\ strand = Main /\ checker.pc = "none" /\ checker.killed = 0
      /\ \A s \in Slots : s < uthread_count => uthreads[s] = s
  BY <1>0, <1>1, Sizes DEF StrandInv, CheckerInv, ThreadLabels
<1>3. ASSUME NEW how \in {"nostack", "exit"}, Ends(how) PROVE UInv'
  BY <1>3, EndsInv
<1>4. CASE /\ uthreads' = [uthreads EXCEPT ![uthread_count] = uthread_count]
           /\ uthread_count' = uthread_count + 1 /\ uthread_count < N
           /\ UNCHANGED <<uctx, uthread_cur, stop_work_checker,
                          locals, checker, status, build>>
  <2>0. uthread_count \in Slots /\ uthread_count \in Nat /\ uthread_count + 1 \in 0 .. N
    BY <1>0, <1>4, Sizes DEF ThreadTypes
  <2>1. UNCHANGED <<strand, pc, frame>>
    BY <1>4 DEF locals
  <2>2. ThreadTypes'
    BY <1>0, <1>4, <2>0, <2>1 DEF ThreadTypes
  <2>3. StrandInv'
    BY <1>0, <2>1 DEF StrandInv
  <2>4. CheckerInv'
    <3>1. \A s \in Slots : s < uthread_count' => uthreads'[s] = s
      BY <1>0, <1>2, <1>4, <2>0, Sizes DEF ThreadTypes
    <3> QED
      BY <1>0, <1>1, <1>2, <1>4, <2>1, <3>1 DEF CheckerInv
  <2>5. SlotInv'
    BY <1>0, <1>1, <1>4, <2>1 DEF SlotInv, EveryStrandInOneSlot
  <2>6. FaultInv'
    BY <1>0, <1>1, <1>2, <1>4, <2>1 DEF FaultInv
  <2> QED
    BY <2>2, <2>3, <2>4, <2>5, <2>6 DEF UInv
<1>5. CASE /\ checker' = [checker EXCEPT !.pc = "while"] /\ Goto("loop")
           /\ uthread_count = N
           /\ UNCHANGED <<threads, globals, strand, frame, status, build>>
  <2>1. /\ UNCHANGED <<uthreads, uctx, uthread_count, uthread_cur,
                       stop_work_checker, strand, frame, status, build>>
        /\ pc' = [pc EXCEPT ![Main] = "loop"]
    BY <1>2, <1>5 DEF threads, globals, Goto
  <2>2. /\ checker' \in [pc : {"none", "while", "for", "zero", "stop", "done"},
                         i : 0 .. N, killed : Nat]
        /\ checker'.pc = "while" /\ checker'.killed = 0
    BY <1>0, <1>2, <1>5 DEF ThreadTypes
  <2>3. ThreadTypes' /\ pc'[Main] = "loop" /\ \A s \in Slots : pc'[s] = pc[s]
    BY <1>0, <2>1, <2>2, Sizes DEF ThreadTypes, MainLabels
  <2>4. StrandInv'
    BY <1>0, <1>2, <2>1, <2>3, Sizes DEF StrandInv, MainLabels
  <2>5. CheckerInv'
    BY <1>0, <1>2, <1>5, <2>1, <2>2, <2>3 DEF CheckerInv
  <2>6. SlotInv'
    BY <1>0, <1>1, <1>2, <2>1, <2>3 DEF SlotInv, EveryStrandInOneSlot
  <2>7. FaultInv'
    BY <1>0, <1>2, <1>5, <2>1, <2>2, <2>3, Sizes DEF FaultInv, ThreadTypes
  <2> QED
    BY <2>3, <2>4, <2>5, <2>6, <2>7 DEF UInv
<1> QED
  BY <1>3, <1>4, <1>5 DEF uthread_create, StartChecker

(* The loop of main, start_thread and the thread functions. *)
LEMMA OutsideInv ==
    ASSUME UInv, MainLoop \/ StartThread \/ Body \/ WaitForChecker
    PROVE  UInv'
<1> USE DEF At, Goto, threads
<1>0. /\ ThreadTypes /\ StrandInv /\ CheckerInv /\ strand \in Strands
      /\ frame \in [Strands -> Frames]
  BY DEF UInv, ThreadTypes
<1>1. CASE MainLoop
  <2>1. strand = Main /\ pc[strand] = "loop"
    BY <1>0, <1>1, Sizes DEF MainLoop, StrandInv, ThreadLabels
  <2>2. pc[Main] # "create"
    BY <2>1, Running
  <2>3. CASE uthread_count > 0
    BY <1>0, <1>1, <2>1, <2>2, <2>3, MoveInv DEF MainLoop, MainLabels
  <2>4. CASE ~(uthread_count > 0)
    BY <1>0, <1>1, <2>1, <2>2, <2>4, MoveInv DEF MainLoop, MainLabels
  <2> QED
    BY <2>3, <2>4
<1>2. ASSUME StartThread \/ Body \/ WaitForChecker
      PROVE  /\ strand \in Slots /\ strand # Main
             /\ frame[strand] \in Frames
             /\ pc[strand] # "start" => frame[strand].i < N
             /\ pc[strand] \in {"start", "flag", "call", "body", "wait"}
  <2>1. pc[strand] \in {"start", "flag", "call", "body", "wait"}
    BY <1>2 DEF StartThread, StartLoop, StartTest, StartCall, Body, WaitForChecker
  <2>2. strand \in Slots
    BY <1>0, <2>1, Sizes DEF StrandInv, MainLabels
  <2> QED
    BY <1>0, <2>1, <2>2, Sizes DEF StrandInv
<1>3. CASE StartLoop
  <2>1. strand # Main /\ frame[strand] \in Frames /\ pc[strand] = "start"
    BY <1>2, <1>3 DEF StartThread, StartLoop
  <2>2. CASE frame[strand].i < uthread_count
    <3>1. frame[strand].i < N /\ uthread_count # 0
      BY <1>0, <2>1, <2>2, Sizes DEF ThreadTypes, Frames
    <3>2. pc[Main] # "create"
      BY <2>1, <3>1, Running
    <3>3. /\ pc' = [pc EXCEPT ![strand] = "flag"]
          /\ UNCHANGED <<uthreads, uctx, globals, strand, frame,
                         checker, status, build>>
      BY <1>3, <2>2 DEF StartLoop
    <3> QED
      BY <1>0, <2>1, <3>1, <3>2, <3>3, MoveInv DEF ThreadLabels
  <2>3. CASE ~(frame[strand].i < uthread_count)
    BY <1>3, <2>3, EndsInv DEF StartLoop
  <2> QED
    BY <2>2, <2>3
<1>4. CASE StartTest
  <2> DEFINE j == frame[strand].i
  <2>1. strand # Main /\ pc[strand] = "flag" /\ j \in Slots /\ j + 1 \in 0 .. N
    BY <1>2, <1>4, Sizes DEF StartThread, StartTest, Frames
  <2>2. /\ pc[Main] # "create"
        /\ checker.killed = 0 => uthreads[j] = j
    BY <2>1, Running
  <2>3. CASE uthreads[j] = NULL
    BY <1>4, <2>1, <2>2, <2>3, EndsInv, Sizes DEF StartTest
  <2>4. CASE uthreads[j] # NULL /\ NotRunning(j)
    <3>1. /\ pc' = [pc EXCEPT ![strand] = "call"]
          /\ UNCHANGED <<uthreads, uctx, globals, strand, frame,
                         checker, status, build>>
      BY <1>4, <2>4 DEF StartTest
    <3> QED
      BY <1>0, <1>2, <1>4, <2>1, <2>2, <3>1, MoveInv DEF ThreadLabels, StartThread
  <2>5. CASE uthreads[j] # NULL /\ ~NotRunning(j)
    <3>1. /\ pc' = [pc EXCEPT ![strand] = "start"]
          /\ frame' = [frame EXCEPT ![strand].i = j + 1]
          /\ UNCHANGED <<uthreads, uctx, globals, strand,
                         checker, status, build>>
      BY <1>4, <2>5 DEF StartTest
    <3>2. /\ frame' \in [Strands -> Frames]
          /\ \A s \in Strands \ {strand} : frame'[s] = frame[s]
      <4> HIDE DEF j
      <4> QED
        BY <1>0, <2>1, <3>1 DEF Frames
    <3> QED
      BY <1>0, <2>1, <2>2, <3>1, <3>2, MoveInv DEF ThreadLabels
  <2> QED
    BY <2>3, <2>4, <2>5
<1>5. CASE StartCall
  <2> DEFINE j == frame[strand].i
  <2>1. strand # Main /\ pc[strand] = "call" /\ j \in Slots
    BY <1>2, <1>5, Sizes DEF StartThread, StartCall, Frames
  <2>2. /\ pc[Main] # "create"
        /\ checker.killed = 0 => uthreads[j] = j
    BY <2>1, Running
  <2>3. CASE uthreads[j] = NULL
    BY <1>5, <2>1, <2>2, <2>3, EndsInv, Sizes DEF StartCall
  <2>4. CASE uthreads[j] # NULL
    <3>1. /\ pc' = [pc EXCEPT ![strand] = "body"]
          /\ frame' = [frame EXCEPT ![strand].fn = j, ![strand].k = 0]
          /\ UNCHANGED <<uthreads, uctx, globals, strand,
                         checker, status, build>>
      BY <1>5, <2>4 DEF StartCall
    <3>2. /\ frame' \in [Strands -> Frames] /\ frame'[strand].i = j
          /\ \A s \in Strands \ {strand} : frame'[s] = frame[s]
      <4>1. j \in Slots /\ 0 \in 0 .. Rounds /\ frame[strand].i = j
        BY <2>1, SizesAssumption
      <4> HIDE DEF j
      <4> DEFINE f == [frame[strand] EXCEPT !.fn = j, !.k = 0]
      <4>2. frame' = [frame EXCEPT ![strand] = f]
        BY <1>0, <3>1
      <4>3. f \in Frames /\ f.i = j
        BY <1>0, <4>1 DEF Frames
      <4> HIDE DEF f
      <4> QED
        BY <1>0, <4>2, <4>3
    <3> QED
      BY <1>0, <2>1, <2>2, <3>1, <3>2, MoveInv, Sizes DEF ThreadLabels
  <2> QED
    BY <2>3, <2>4
<1>6. CASE Body
  <2>1. /\ strand # Main /\ pc[strand] = "body" /\ frame[strand].i < N
        /\ frame[strand] \in Frames
    BY <1>2, <1>6 DEF Body
  <2>2. pc[Main] # "create"
    BY <2>1, Running
  <2>3. CASE frame[strand].k < Rounds
    <3>1. /\ pc' = [pc EXCEPT ![strand] = "save"]
          /\ frame' = [frame EXCEPT ![strand].k = frame[strand].k + 1]
          /\ UNCHANGED <<uthreads, uctx, globals, strand,
                         checker, status, build>>
      BY <1>6, <2>3 DEF Body
    <3>2. /\ frame' \in [Strands -> Frames] /\ frame'[strand].i = frame[strand].i
          /\ \A s \in Strands \ {strand} : frame'[s] = frame[s]
      <4>1. frame[strand].k + 1 \in 0 .. Rounds
        BY <2>1, <2>3, SizesAssumption DEF Frames
      <4> QED
        BY <1>0, <3>1, <4>1 DEF Frames
    <3> QED
      BY <1>0, <2>1, <2>2, <3>1, <3>2, MoveInv DEF ThreadLabels
  <2>4. CASE ~(frame[strand].k < Rounds)
    <3>1. /\ pc' = [pc EXCEPT ![strand] = "finish"]
          /\ UNCHANGED <<uthreads, uctx, globals, strand, frame,
                         checker, status, build>>
      BY <1>6, <2>4 DEF Body
    <3> QED
      BY <1>0, <2>1, <2>2, <3>1, MoveInv DEF ThreadLabels
  <2> QED
    BY <2>3, <2>4
<1>7. CASE WaitForChecker
  <2> DEFINE j == frame[strand].i
  <2>1. strand # Main /\ pc[strand] = "wait" /\ j + 1 \in 0 .. N
    BY <1>2, <1>7, Sizes DEF WaitForChecker, Frames
  <2>2. pc[Main] # "create" /\ uthread_count = 0
    BY <1>0, <1>7, <2>1 DEF WaitForChecker, CheckerInv
  <2>3. /\ pc' = [pc EXCEPT ![strand] = "start"]
        /\ frame' = [frame EXCEPT ![strand].i = j + 1]
        /\ UNCHANGED <<uthreads, uctx, globals, strand,
                       checker, status, build>>
    BY <1>7 DEF WaitForChecker
  <2>4. /\ frame' \in [Strands -> Frames]
        /\ \A s \in Strands \ {strand} : frame'[s] = frame[s]
    <3> HIDE DEF j
    <3> QED
      BY <1>0, <2>1, <2>3 DEF Frames
  <2> QED
    BY <1>0, <2>1, <2>2, <2>3, <2>4, MoveInv DEF ThreadLabels
<1> QED
  BY <1>1, <1>3, <1>4, <1>5, <1>6, <1>7 DEF StartThread

(* schedule() up to swapcontext: the running strand belongs to the entry its *)
(* context will be saved in.                                                 *)
LEMMA SelectInv ==
    ASSUME UInv, ScheduleSave \/ ScheduleAdvance \/ SchedulePick
    PROVE  UInv'
<1> USE DEF At, Goto
<1>0. /\ ThreadTypes /\ StrandInv /\ CheckerInv /\ SlotInv /\ FaultInv
      /\ strand \in Strands /\ frame \in [Strands -> Frames] /\ uthread_cur \in Slots
  BY DEF UInv, ThreadTypes
<1>1. /\ pc[strand] \in {"save", "advance", "pick"} /\ pc[Main] # "create"
     
      /\ checker.killed = 0 => uthread_count = N /\ \A s \in Slots : uthreads[s] = s
      /\ uthreads[uthread_cur] \in {uthread_cur, NULL}
  BY <1>0, Running DEF ScheduleSave, ScheduleAdvance, SchedulePick, ThreadTypes
<1>2. CASE ScheduleSave
  <2>1. /\ UNCHANGED <<uthreads, uctx, uthread_count, uthread_cur,
                       stop_work_checker, strand, checker, status, build>>
        /\ pc' = [pc EXCEPT ![strand] = "advance"] /\ pc[strand] = "save"
        /\ frame' = [frame EXCEPT ![strand].cur = uthreads[uthread_cur]]
    BY <1>2 DEF ScheduleSave, threads, globals
  <2>2. /\ frame' \in [Strands -> Frames]
        /\ frame'[strand].cur = uthreads[uthread_cur]
        /\ frame'[strand].i = frame[strand].i
        /\ \A s \in Strands \ {strand} : frame'[s] = frame[s]
    <3>1. uthreads[uthread_cur] \in Slots \cup {NULL}
      BY <1>0, <1>1
    <3> QED
      BY <1>0, <2>1, <3>1 DEF Frames
  <2>3. /\ pc' \in [Strands -> MainLabels \cup ThreadLabels]
        /\ pc'[strand] = "advance" /\ \A s \in Strands \ {strand} : pc'[s] = pc[s]
    BY <1>0, <2>1 DEF ThreadTypes, MainLabels
  <2>4. ThreadTypes'
    BY <1>0, <2>1, <2>2, <2>3 DEF ThreadTypes
  <2>5. StrandInv'
    BY <1>0, <2>1, <2>2, <2>3, Sizes DEF StrandInv, MainLabels, ThreadLabels
  <2>6. CheckerInv'
    BY <1>0, <1>1, <2>1, <2>3, Sizes DEF CheckerInv
  <2>7. SlotInv'
    BY <1>0, <1>1, <2>1, <2>2, <2>3 DEF SlotInv, EveryStrandInOneSlot
  <2>8. FaultInv'
    BY <1>0, <1>1, <2>1, <2>2, <2>3, Sizes DEF FaultInv
  <2> QED
    BY <2>4, <2>5, <2>6, <2>7, <2>8 DEF UInv
<1>3. CASE ScheduleAdvance
  <2>1. CASE uthread_count = 0
    BY <1>1, <1>3, <2>1, EndsInv, Sizes DEF ScheduleAdvance
  <2>2. CASE uthread_count # 0
    <3>1. /\ UNCHANGED <<uthreads, uctx, uthread_count,
                         stop_work_checker, strand, frame, checker, status, build>>
          /\ pc' = [pc EXCEPT ![strand] = "pick"] /\ pc[strand] = "advance"
          /\ uthread_cur' = (uthread_cur + 1) % uthread_count
      BY <1>3, <2>2 DEF ScheduleAdvance, threads
    <3>2. uthread_cur' \in Slots
      BY <1>0, <2>2, <3>1, SizesAssumption DEF ThreadTypes, Slots
    <3>3. /\ pc' \in [Strands -> MainLabels \cup ThreadLabels]
          /\ pc'[strand] = "pick" /\ \A s \in Strands \ {strand} : pc'[s] = pc[s]
      BY <1>0, <3>1 DEF ThreadTypes, MainLabels
    <3>4. ThreadTypes'
      BY <1>0, <3>1, <3>2, <3>3 DEF ThreadTypes
    <3>5. StrandInv'
      BY <1>0, <3>1, <3>3, Sizes DEF StrandInv, MainLabels, ThreadLabels
    <3>6. CheckerInv'
      BY <1>0, <1>1, <3>1, <3>3, Sizes DEF CheckerInv
    <3>7. SlotInv'
      BY <1>0, <1>1, <3>1, <3>3 DEF SlotInv, EveryStrandInOneSlot
    <3>8. FaultInv'
      BY <1>0, <1>1, <3>1, <3>3, Sizes DEF FaultInv
    <3> QED
      BY <3>4, <3>5, <3>6, <3>7, <3>8 DEF UInv
  <2> QED
    BY <2>1, <2>2
<1>4. CASE SchedulePick
  <2>1. /\ UNCHANGED <<uthreads, uctx, uthread_count, uthread_cur,
                       stop_work_checker, strand, checker, status, build>>
        /\ pc' = [pc EXCEPT ![strand] = "swap"] /\ pc[strand] = "pick"
        /\ frame' = [frame EXCEPT ![strand].next = uthreads[uthread_cur]]
    BY <1>4 DEF SchedulePick, threads, globals
  <2>2. /\ frame' \in [Strands -> Frames]
        /\ frame'[strand].next = uthreads[uthread_cur]
        /\ frame'[strand].cur = frame[strand].cur
        /\ frame'[strand].i = frame[strand].i
        /\ \A s \in Strands \ {strand} : frame'[s] = frame[s]
    <3>1. uthreads[uthread_cur] \in Slots \cup {NULL}
      BY <1>0, <1>1
    <3> QED
      BY <1>0, <2>1, <3>1 DEF Frames
  <2>3. /\ pc' \in [Strands -> MainLabels \cup ThreadLabels]
        /\ pc'[strand] = "swap" /\ \A s \in Strands \ {strand} : pc'[s] = pc[s]
    BY <1>0, <2>1 DEF ThreadTypes, MainLabels
  <2>4. ThreadTypes'
    BY <1>0, <2>1, <2>2, <2>3 DEF ThreadTypes
  <2>5. StrandInv'
    BY <1>0, <2>1, <2>2, <2>3, Sizes DEF StrandInv, MainLabels, ThreadLabels
  <2>6. CheckerInv'
    BY <1>0, <1>1, <2>1, <2>3, Sizes DEF CheckerInv
  <2>7. SlotInv'
    BY <1>0, <1>1, <2>1, <2>2, <2>3 DEF SlotInv, EveryStrandInOneSlot
  <2>8. FaultInv'
    BY <1>0, <1>1, <2>1, <2>2, <2>3, Sizes DEF FaultInv
  <2> QED
    BY <2>4, <2>5, <2>6, <2>7, <2>8 DEF UInv
<1> QED
  BY <1>2, <1>3, <1>4

(* swapcontext: the strand resumed is about to return from schedule() or has *)
(* not been started, and the current entry is the only one that held it.     *)
LEMMA SwapInv == ASSUME UInv, SwapContext PROVE UInv'
<1> DEFINE c == frame[strand].cur
           n == frame[strand].next
           l == IF strand = Main THEN "loop" ELSE "body"
<1>0. /\ ThreadTypes /\ StrandInv /\ CheckerInv /\ SlotInv /\ FaultInv
      /\ strand \in Strands /\ uthread_cur \in Slots /\ uctx \in [Slots -> Strands]
      /\ c \in Slots \cup {NULL} /\ n \in Slots \cup {NULL}
  BY DEF UInv, ThreadTypes, Frames
<1>1. /\ pc[strand] = "swap" /\ pc[Main] # "create"
     
      /\ checker.killed = 0 => uthread_count = N /\ \A s \in Slots : uthreads[s] = s
  BY <1>0, Running DEF SwapContext, At
<1>2. CASE NULL \in {c, n}
  BY <1>0, <1>1, <1>2, EndsInv DEF SwapContext, FaultInv
<1>3. CASE NULL \notin {c, n}
  <2>1. /\ uctx' = [uctx EXCEPT ![c] = strand] /\ strand' = uctx'[n]
        /\ pc' = [pc EXCEPT ![strand] = l]
        /\ UNCHANGED <<uthreads, uthread_count, uthread_cur,
                       stop_work_checker, frame, checker, status, build>>
    BY <1>3 DEF SwapContext, Goto, globals
  <2>2. /\ c \in Slots /\ n = uthread_cur /\ n \in Slots
        /\ \A s \in Slots : uctx[s] = strand => s = c
        /\ \A s, t \in Slots : s # t => uctx[s] # uctx[t]
    BY <1>0, <1>1, <1>3 DEF SlotInv, EveryStrandInOneSlot
  <2>3. /\ l \in {"loop", "body"}
        /\ (strand = Main => l = "loop") /\ (strand # Main => l = "body")
    OBVIOUS
  <2> HIDE DEF c, n, l
  <2>4. /\ uctx' \in [Slots -> Strands] /\ strand' \in Strands
        /\ uctx'[c] = strand /\ \A s \in Slots \ {c} : uctx'[s] = uctx[s]
    BY <1>0, <2>1, <2>2
  <2>5. /\ pc' \in [Strands -> MainLabels \cup ThreadLabels]
        /\ pc'[strand] = l /\ \A s \in Strands \ {strand} : pc'[s] = pc[s]
    BY <1>0, <2>1, <2>3 DEF ThreadTypes, MainLabels, ThreadLabels
  <2>6. \A s \in Strands : pc'[s] \in {"start", "loop", "body"}
    BY <1>0, <2>3, <2>5 DEF StrandInv
  <2>7. pc'[Main] # "create" /\ pc'[strand'] \in {"start", "loop", "body"}
    BY <2>4, <2>6, Sizes
  <2>8. ThreadTypes'
    BY <1>0, <2>1, <2>4, <2>5 DEF ThreadTypes
  <2>9. StrandInv'
    <3>1. pc'[Main] \in MainLabels /\ \A s \in Slots : pc'[s] \in ThreadLabels
      BY <1>0, <2>3, <2>5, Sizes DEF StrandInv, MainLabels, ThreadLabels
    <3>2. \A s \in Slots : pc'[s] # "start" => frame'[s].i < N
      BY <1>0, <1>1, <2>1, <2>5, Sizes DEF StrandInv
    <3>3. ASSUME N = 1 PROVE strand' = Main
      <4>1. c = n
        BY <2>2, <3>3 DEF Slots
      <4> QED
        BY <1>0, <2>1, <2>4, <3>3, <4>1 DEF StrandInv
    <3> QED
      BY <2>6, <3>1, <3>2, <3>3 DEF StrandInv
  <2>10. CheckerInv'
    BY <1>0, <1>1, <2>1, <2>7 DEF CheckerInv
  <2>11. SlotInv'
    <3>1. \A s, t \in Slots : s # t => uctx'[s] # uctx'[t]
      BY <2>2, <2>4
    <3>2. \A s \in Slots : uctx'[s] = strand' => s = uthread_cur'
      BY <2>1, <2>2, <3>1
    <3> QED
      BY <2>7, <3>1, <3>2 DEF SlotInv, EveryStrandInOneSlot
  <2>12. FaultInv'
    BY <1>0, <1>1, <2>1, <2>7, Sizes DEF FaultInv
  <2> QED
    BY <2>8, <2>9, <2>10, <2>11, <2>12 DEF UInv
<1> QED
  BY <1>2, <1>3

(* A function reports that it has finished. *)
LEMMA FinishStep == ASSUME UInv, Finish PROVE UInv'
<1> DEFINE fn == frame[strand].fn
<1>0. /\ ThreadTypes /\ StrandInv /\ CheckerInv /\ SlotInv /\ FaultInv
      /\ strand \in Strands /\ fn \in Slots
  BY DEF UInv, ThreadTypes, Frames
<1>1. /\ pc[strand] = "finish" /\ pc[Main] # "create"
     
      /\ checker.killed = 0 => uthread_count = N /\ \A s \in Slots : uthreads[s] = s
  BY <1>0, Running DEF Finish, At
<1>2. CASE uthreads[fn] = NULL
  BY <1>0, <1>1, <1>2, EndsInv, Sizes DEF Finish
<1>3. CASE uthreads[fn] # NULL
  <2>1. /\ pc' = [pc EXCEPT ![strand] = "wait"]
        /\ UNCHANGED <<uthreads, uctx, uthread_count, uthread_cur,
                       stop_work_checker, strand, frame, checker, status, build>>
    BY <1>3 DEF Finish, Goto, globals
  <2> HIDE DEF fn
  <2>3. /\ pc' \in [Strands -> MainLabels \cup ThreadLabels]
        /\ pc'[strand] = "wait" /\ \A s \in Strands \ {strand} : pc'[s] = pc[s]
    BY <1>0, <2>1 DEF ThreadTypes, ThreadLabels
  <2>4. strand # Main
    BY <1>0, <1>1 DEF StrandInv, MainLabels
  <2>5. ThreadTypes'
    BY <1>0, <2>1, <2>3 DEF ThreadTypes
  <2>6. StrandInv'
    BY <1>0, <1>1, <2>1, <2>3, <2>4, Sizes DEF StrandInv, ThreadLabels
  <2>7. CheckerInv'
    BY <1>0, <1>1, <2>1, <2>3, Sizes DEF CheckerInv
  <2>8. SlotInv'
    BY <1>0, <1>1, <2>1, <2>3 DEF SlotInv, EveryStrandInOneSlot
  <2>9. FaultInv'
    BY <1>0, <1>1, <2>1, <2>3, Sizes DEF FaultInv
  <2> QED
    BY <2>5, <2>6, <2>7, <2>8, <2>9 DEF UInv
<1> QED
  BY <1>2, <1>3

(* The checker: it is in its loop until it has removed a thread, and that it *)
(* has removed one is never taken back.                                      *)
LEMMA CheckerStep == ASSUME UInv, Checker PROVE UInv'
<1> USE DEF CheckerAt
<1>0. /\ ThreadTypes /\ StrandInv /\ CheckerInv /\ SlotInv /\ FaultInv
      /\ checker \in [pc : {"none", "while", "for", "zero", "stop", "done"},
                      i : 0 .. N, killed : Nat]
      /\ uthreads \in [Slots -> Slots \cup {NULL}]
  BY DEF UInv, ThreadTypes
<1>1. UNCHANGED <<uctx, uthread_cur, strand, pc, frame, status, build>>
  BY DEF Checker, CheckerWhile, CheckerFor, CheckerZero, CheckerStop, locals, globals,
     threads
<1>2. pc[Main] # "create"
  BY <1>0 DEF CheckerInv, Checker, CheckerWhile, CheckerFor, CheckerZero, CheckerStop
<1>3. StrandInv'
  BY <1>0, <1>1 DEF StrandInv
<1>4. SlotInv'
  BY <1>0, <1>1 DEF SlotInv, EveryStrandInOneSlot
<1>5. CASE CheckerWhile
  <2>1. /\ UNCHANGED <<uthreads, uthread_count, stop_work_checker>>
        /\ checker.pc = "while" /\ uthread_count = N
    BY <1>0, <1>5 DEF CheckerWhile, threads, globals, CheckerInv
  <2>2. /\ checker' \in [pc : {"none", "while", "for", "zero", "stop", "done"},
                         i : 0 .. N, killed : Nat]
        /\ checker'.killed = checker.killed /\ checker'.pc \in {"for", "zero"}
        /\ checker.killed < N => checker'.pc = "for"
    <3>1. CASE checker.killed < uthread_count
      <4>1. checker' = [checker EXCEPT !.pc = "for", !.i = 0] /\ 0 \in 0 .. N
        BY <1>5, <3>1, Sizes DEF CheckerWhile
      <4> QED
        BY <1>0, <4>1
    <3>2. CASE ~(checker.killed < uthread_count)
      <4>1. checker' = [checker EXCEPT !.pc = "zero"]
        BY <1>5, <3>2 DEF CheckerWhile
      <4> QED
        BY <1>0, <2>1, <3>2, <4>1
    <3> QED
      BY <3>1, <3>2
  <2>3. checker.killed = 0 => checker.killed < N
    BY Sizes
  <2>4. ThreadTypes'
    BY <1>0, <1>1, <2>1, <2>2 DEF ThreadTypes
  <2>5. CheckerInv'
    BY <1>0, <1>1, <1>2, <2>1, <2>2 DEF CheckerInv
  <2>6. FaultInv'
    BY <1>0, <1>1, <2>1, <2>2, <2>3 DEF FaultInv
  <2> QED
    BY <1>3, <1>4, <2>4, <2>5, <2>6 DEF UInv
<1>6. CASE CheckerFor
  <2> DEFINE j == checker.i
  <2>1. /\ UNCHANGED <<uthread_count, stop_work_checker>>
        /\ checker.pc = "for" /\ uthread_count = N /\ j \in 0 .. N
    BY <1>0, <1>6 DEF CheckerFor, globals, CheckerInv
  <2>2. CASE \/ j = N \/ (j # N /\ ~(uthreads[j] # NULL /\ Finished(j)))
    <3>1. /\ UNCHANGED uthreads
          /\ \/ checker' = [checker EXCEPT !.pc = "while"]
             \/ j # N /\ checker' = [checker EXCEPT !.i = j + 1]
      BY <1>6, <2>1, <2>2 DEF CheckerFor
    <3>2. /\ checker' \in [pc : {"none", "while", "for", "zero", "stop", "done"},
                           i : 0 .. N, killed : Nat]
          /\ checker'.killed = checker.killed /\ checker'.pc \in {"while", "for"}
      <4>1. j # N => j + 1 \in 0 .. N
        BY <2>1, Sizes
      <4> HIDE DEF j
      <4> QED
        BY <1>0, <2>1, <3>1, <4>1
    <3>3. ThreadTypes'
      BY <1>0, <1>1, <2>1, <3>1, <3>2 DEF ThreadTypes
    <3>4. CheckerInv'
      BY <1>0, <1>1, <1>2, <2>1, <3>1, <3>2 DEF CheckerInv
    <3>5. FaultInv'
      BY <1>0, <1>1, <3>1, <3>2 DEF FaultInv
    <3> QED
      BY <1>3, <1>4, <3>3, <3>4, <3>5 DEF UInv
  <2>3. CASE j # N /\ uthreads[j] # NULL /\ Finished(j)
    <3>1. /\ uthreads' = [uthreads EXCEPT ![j] = NULL]
          /\ checker' = [checker EXCEPT !.i = j + 1, !.killed = @ + 1]
      BY <1>6, <2>1, <2>3 DEF CheckerFor
    <3>2. j \in Slots /\ j + 1 \in 0 .. N
      BY <2>1, <2>3, Sizes
    <3>3. /\ checker' \in [pc : {"none", "while", "for", "zero", "stop", "done"},
                           i : 0 .. N, killed : Nat]
          /\ checker'.killed = checker.killed + 1 /\ checker'.pc = "for"
      <4>1. checker.killed + 1 \in Nat
        BY <1>0
      <4> DEFINE k1 == checker.killed + 1
      <4>2. checker' = [checker EXCEPT !.i = j + 1, !.killed = k1] /\ k1 \in Nat
        BY <1>0, <3>1, <4>1
      <4>3. checker.pc = "for"
        BY <2>1
      <4> HIDE DEF j, k1
      <4>4. checker' \in [pc : {"none", "while", "for", "zero", "stop", "done"},
                          i : 0 .. N, killed : Nat]
            /\ checker'.killed = k1 /\ checker'.pc = checker.pc
        BY <1>0, <3>2, <4>2
      <4> QED
        BY <4>3, <4>4 DEF k1
    <3>4. /\ uthreads' \in [Slots -> Slots \cup {NULL}] /\ uthreads'[j] = NULL
          /\ \A s \in Slots \ {j} : uthreads'[s] = uthreads[s]
      <4> HIDE DEF j
      <4> QED
        BY <1>0, <3>1, <3>2
    <3>5. checker'.killed # 0
      BY <1>0, <3>3
    <3> HIDE DEF j
    <3>6. ThreadTypes'
      BY <1>0, <1>1, <2>1, <3>2, <3>3, <3>4 DEF ThreadTypes
    <3>7. CheckerInv'
      BY <1>0, <1>1, <1>2, <2>1, <3>3 DEF CheckerInv
    <3>8. FaultInv'
      BY <1>0, <1>1, <3>2, <3>3, <3>4, <3>5 DEF FaultInv
    <3> QED
      BY <1>3, <1>4, <3>6, <3>7, <3>8 DEF UInv
  <2> QED
    BY <2>2, <2>3
<1>7. CASE CheckerZero \/ CheckerStop
  <2>1. /\ checker.pc \in {"zero", "stop"} /\ UNCHANGED uthreads
        /\ uthread_count' = 0 /\ uthread_count' \in 0 .. N
        /\ checker'.pc \in {"stop", "done"}
        /\ stop_work_checker' => checker'.pc = "done"
        /\ checker' \in [pc : {"none", "while", "for", "zero", "stop", "done"},
                         i : 0 .. N, killed : Nat]
    BY <1>0, <1>7, Sizes DEF CheckerZero, CheckerStop, threads, CheckerInv
  <2>2. checker.killed # 0 /\ checker'.killed = checker.killed
    BY <1>0, <1>7, <2>1 DEF FaultInv, CheckerZero, CheckerStop
  <2>3. ThreadTypes'
    BY <1>0, <1>1, <2>1 DEF ThreadTypes
  <2>4. CheckerInv' /\ FaultInv'
    BY <1>1, <1>2, <2>1, <2>2 DEF CheckerInv, FaultInv
  <2> QED
    BY <1>3, <1>4, <2>3, <2>4 DEF UInv
<1> QED
  BY <1>5, <1>6, <1>7 DEF Checker

(* Every step of Task1_7 preserves the invariant. *)
LEMMA UInductive == UInv /\ [Next]_vars => UInv'
<1> SUFFICES ASSUME UInv, [Next]_vars PROVE UInv'
  OBVIOUS
<1>1. CASE Join
  BY <1>1, EndsInv DEF Join
<1>2. CASE UNCHANGED vars
  <2>1. UNCHANGED <<uthreads, uctx, uthread_count, uthread_cur,
                    stop_work_checker, strand, pc, frame, checker, status, build>>
    BY <1>2 DEF vars, threads, globals, locals
  <2>2. ThreadTypes' /\ StrandInv' /\ CheckerInv'
    BY <2>1 DEF UInv, ThreadTypes, StrandInv, CheckerInv
  <2>3. SlotInv' /\ FaultInv'
    BY <2>1 DEF UInv, SlotInv, EveryStrandInOneSlot, FaultInv
  <2> QED
    BY <2>2, <2>3 DEF UInv
<1> QED
  BY <1>1, <1>2, CreateInv, OutsideInv, SelectInv, SwapInv, FinishStep, CheckerStep
  DEF Next, StrandStep, Schedule, ThreadFunc, Over

(* The invariant implies the two properties. *)
LEMMA UProperties == UInv => EveryStrandInOneSlot /\ FaultsComeFromChecker
BY DEF UInv, ThreadTypes, SlotInv, FaultInv, FaultsComeFromChecker

(* -------------------------------------------- Task1_1 .. 1_6: demonstrations *)

(* The identifiers of an empty and of an extended sequence. *)
LEMMA IdsOf ==
    /\ Ids(<<>>) = {}
    /\ \A q \in Seq(Threads), t \in Threads : Ids(Append(q, t)) = Ids(q) \cup {t}
<1>1. Ids(<<>>) = {}
  BY DEF Ids
<1>2. ASSUME NEW q \in Seq(Threads), NEW t \in Threads
      PROVE  Ids(Append(q, t)) = Ids(q) \cup {t}
  <2> DEFINE r == Append(q, t)
  <2>1. /\ Len(q) \in Nat /\ Len(r) = Len(q) + 1 /\ r[Len(q) + 1] = t
        /\ \A k \in 1 .. Len(q) : r[k] = q[k]
    OBVIOUS
  <2> HIDE DEF r
  <2>2. ASSUME NEW k \in 1 .. Len(r) PROVE r[k] \in Ids(q) \cup {t}
    BY <2>1 DEF Ids
  <2>3. ASSUME NEW k \in 1 .. Len(q) PROVE q[k] \in Ids(r)
    BY <2>1 DEF Ids
  <2>4. t \in Ids(r)
    BY <2>1 DEF Ids
  <2>5. Ids(r) = Ids(q) \cup {t}
    BY <2>2, <2>3, <2>4 DEF Ids
  <2> QED
    BY <2>5 DEF r
<1> QED
  BY <1>1, <1>2

(* The invariant holds when main starts. *)
LEMMA DemoStarts == DemoInit => DemoInv
<1> SUFFICES ASSUME DemoInit PROVE DemoInv
  OBVIOUS
<1> USE DEF DemoInit
<1>1. DemoTypes
  BY DemoSizesAssumption DEF DemoTypes
<1>2. MainInv /\ BlockInv
  BY DEF MainInv, BlockInv
<1>3. ThreadInv
  BY DemoSizesAssumption, FS_EmptySet DEF ThreadInv, Threads
<1>4. JoinInv
  BY IdsOf, FS_EmptySet DEF JoinInv
<1>5. DetachInv
  BY DEF DetachInv
<1> QED
  BY <1>1, <1>2, <1>3, <1>4, <1>5 DEF DemoInv

(* The threads the system keeps are finitely many. *)
LEMMA KeptFinite ==
    ASSUME DemoTypes
    PROVE  /\ IsFiniteSet(Threads) /\ IsFiniteSet(kept) /\ IsFiniteSet(kept \cup ran)
           /\ Cardinality(kept) \in Nat
<1>1. IsFiniteSet(Threads)
  BY DemoSizesAssumption, FS_Interval DEF Threads
<1> QED
  BY <1>1, FS_Subset, FS_CardinalityType DEF DemoTypes

(* A step of main that does not create or join a thread. *)
LEMMA MainRest ==
    ASSUME DemoInv, FillNode \/ UseResult \/ Cancel \/ Return \/ WaitExited
    PROVE  DemoInv'
<1> USE DEF MainAt, mainVars, sysVars
<1>0. DemoTypes /\ MainInv /\ ThreadInv /\ JoinInv /\ BlockInv /\ DetachInv
  BY DEF DemoInv
<1>1. UNCHANGED <<program, limit, i, tid, ret_val, state, kept, detached, ran>>
  BY DEF FillNode, UseResult, Cancel, Return, WaitExited
<1>2. DemoTypes'
  BY <1>0, <1>1 DEF DemoTypes, FillNode, UseResult, Cancel, Return,
     WaitExited
<1>3. ThreadInv'
  BY <1>0, <1>1 DEF ThreadInv
<1>4. MainInv'
  BY <1>0, <1>1 DEF MainInv, FillNode, UseResult, Cancel, Return,
     WaitExited,
     Endless, Returns, Cancels, JoinsAll
<1>5. JoinInv'
  BY <1>0, <1>1 DEF JoinInv, MainInv, FillNode, UseResult, Cancel, Return,
     WaitExited,
     JoinsAll, Returns, Cancels
<1>6. BlockInv'
  BY <1>0, <1>1 DEF BlockInv, JoinInv, MainInv, FillNode, UseResult, Cancel,
     Return,
     WaitExited, JoinsAll, Returns, Cancels
<1>7. DetachInv'
  BY <1>0, <1>1 DEF DetachInv, MainInv, FillNode, UseResult, Cancel, Return,
     WaitExited,
     Returns, Cancels
<1> QED
  BY <1>2, <1>3, <1>4, <1>5, <1>6, <1>7 DEF DemoInv

(* pthread_create, and clone in Task1_6. *)
LEMMA CreateKeeps == ASSUME DemoInv, Create PROVE DemoInv'
<1> USE DEF MainAt, mainVars, sysVars
<1>0. DemoTypes /\ MainInv /\ ThreadInv /\ JoinInv /\ BlockInv /\ DetachInv
  BY DEF DemoInv
<1>1. CASE ~(Cardinality(kept) < limit)
  <2>1. /\ main' \in {"crashed", "failed"} /\ main = "create"
        /\ UNCHANGED <<program, limit, i, tid, ret_val, state, kept, detached, block, ran>>
    BY <1>1 DEF Create
  <2>2. Cardinality(kept) = limit
    BY <1>0, <1>1, KeptFinite, DemoSizesAssumption DEF DemoTypes, ThreadInv,
       Threads
  <2>3. DemoTypes' /\ ThreadInv'
    BY <1>0, <2>1 DEF DemoTypes, ThreadInv
  <2>4. MainInv' /\ JoinInv'
    BY <1>0, <2>1 DEF MainInv, JoinInv
  <2>5. BlockInv'
    BY <1>0, <2>1 DEF BlockInv
  <2>6. DetachInv'
    BY <1>0, <2>1, <2>2 DEF DetachInv
  <2> QED
    BY <2>3, <2>4, <2>5, <2>6 DEF DemoInv
<1>2. CASE Cardinality(kept) < limit
  <2>1. PICK t \in Threads :
            /\ FreshThread(t) /\ kept' = kept \cup {t}
            /\ \/ Created(t)
               \/ /\ program = "1_6" /\ ThreadGoto(t, "unborn")
                  /\ UNCHANGED <<main, i, tid, ret_val, detached, block, ran>>
    BY <1>2 DEF Create
  <2>2. main = "create" /\ UNCHANGED <<program, limit>> /\ t \notin kept
    BY <2>1 DEF Create, FreshThread
  <2>3. /\ IsFiniteSet(kept) /\ Cardinality(kept) \in Nat
        /\ Cardinality(kept \cup {t}) = Cardinality(kept) + 1
    BY <1>0, <2>2, KeptFinite, FS_AddElement
  <2>4. limit \in Nat
    BY <1>0, DemoSizesAssumption DEF DemoTypes, Threads
  <2>5. CASE Created(t)
    <3>1. /\ UNCHANGED block
          /\ state' = [state EXCEPT ![t] = "ready"] /\ ran' = ran \ {t}
          /\ i' = IF program \in Endless \cup {"1_6"} THEN i ELSE i + 1
          /\ tid' = IF program = "1_1b" THEN Append(tid, t) ELSE <<t>>
          /\ detached' = IF program \in {"1_2f", "1_3b"}
                         THEN detached \cup {t} ELSE detached
          /\ main' = AfterCreate
      BY <2>5 DEF Created, ThreadGoto
    <3>2. DemoTypes'
      BY <1>0, <2>1, <2>2, <3>1 DEF DemoTypes
    <3>3. ThreadInv'
      BY <1>0, <1>2, <2>1, <2>2, <2>3, <2>4, <3>1 DEF ThreadInv, DemoTypes
    <3>4. /\ main' \in {"create", "cancel", "return", "wait", "join"}
          /\ main' = "cancel" => program \in Cancels
          /\ main' = "return" => program = "1_3b"
          /\ main' = "wait" => program = "1_6"
          /\ main' = "join" => program \in JoinsAll \cup {"1_1d"}
          /\ main' = "create" => program \in Endless \cup Loops
      BY <1>0, <3>1 DEF AfterCreate, DemoTypes, Programs, JoinsAll, Returns,
         Loops
    <3>5. MainInv'
      <4>1. tid' # <<>>
        BY <1>0, <3>1 DEF DemoTypes
      <4> QED
        BY <2>2, <3>4, <4>1 DEF MainInv
    <3>6. JoinInv'
      <4> SUFFICES ASSUME program \in JoinsAll PROVE JoinInv'
        BY <2>2 DEF JoinInv
      <4>1. /\ kept = Ids(tid) /\ ran \subseteq kept
            /\ \A j, k \in 1 .. Len(tid) : tid[j] = tid[k] => j = k
            /\ program # "1_1b" => tid = <<>>
            /\ Cardinality(kept \cup ran) = i /\ i \in Nat
        BY <1>0, <2>2 DEF JoinInv, DemoTypes
      <4>2. i' = i + 1 /\ ran' = ran
        BY <2>2, <3>1, <4>1 DEF JoinsAll, Returns, Cancels, Endless
      <4>3. tid' = Append(tid, t)
        BY <3>1, <4>1
      <4>4. tid \in Seq(Threads) /\ Len(tid) \in Nat
        BY <1>0 DEF DemoTypes
      <4>5. /\ Len(tid') = Len(tid) + 1 /\ tid'[Len(tid) + 1] = t
            /\ \A k \in 1 .. Len(tid) : tid'[k] = tid[k]
        BY <4>3, <4>4
      <4>6. kept' = Ids(tid')
        BY <2>1, <4>1, <4>3, <4>4, IdsOf
      <4>7. \A j, k \in 1 .. Len(tid') : tid'[j] = tid'[k] => j = k
        BY <2>2, <4>1, <4>4, <4>5 DEF Ids
      <4>8. Cardinality(kept' \cup ran') = i'
        <5>1. kept \cup ran = kept /\ kept' \cup ran' = kept \cup {t}
          BY <2>1, <4>1, <4>2
        <5> QED
          BY <2>3, <4>1, <4>2, <5>1
      <4>9. program # "1_1b" => Len(tid') <= 1 /\ main' # "create"
        BY <3>4, <4>1, <4>5 DEF JoinsAll, Returns, Cancels, Endless, Loops
      <4> QED
        BY <2>1, <2>2, <3>4, <4>1, <4>2, <4>4, <4>5, <4>6, <4>7, <4>8, <4>9 DEF
           JoinInv
    <3>7. BlockInv'
      BY <1>0, <2>1, <2>2, <3>1, <3>4 DEF BlockInv
    <3>8. DetachInv'
      BY <1>0, <2>1, <2>2, <3>1, <3>4 DEF DetachInv, DemoTypes
    <3> QED
      BY <3>2, <3>3, <3>5, <3>6, <3>7, <3>8 DEF DemoInv
  <2>6. CASE /\ program = "1_6" /\ ThreadGoto(t, "unborn")
             /\ UNCHANGED <<main, i, tid, ret_val, detached, block, ran>>
    <3>1. DemoTypes' /\ MainInv'
      BY <1>0, <2>1, <2>2, <2>6 DEF DemoTypes, MainInv, ThreadGoto
    <3>2. ThreadInv'
      BY <1>0, <1>2, <2>1, <2>2, <2>3, <2>4, <2>6 DEF ThreadInv, DemoTypes, ThreadGoto
    <3>3. JoinInv' /\ BlockInv' /\ DetachInv'
      BY <1>0, <2>2, <2>6 DEF JoinInv, BlockInv, DetachInv, JoinsAll, Returns,
         Cancels
    <3> QED
      BY <3>1, <3>2, <3>3 DEF DemoInv
  <2> QED
    BY <2>1, <2>5, <2>6
<1> QED
  BY <1>1, <1>2

(* pthread_join of the next thread. *)
LEMMA JoinKeeps == ASSUME DemoInv, JoinThreads PROVE DemoInv'
<1> DEFINE t == Head(tid)
<1>0. DemoTypes /\ MainInv /\ ThreadInv /\ JoinInv /\ BlockInv /\ DetachInv
  BY DEF DemoInv
<1>1. /\ main = "join" /\ state[t] = "ended" /\ state' = [state EXCEPT ![t] = "none"]
      /\ kept' = kept \ {t}
      /\ ret_val' = IF program \in Returns /\ t \in block THEN t ELSE Null
      /\ main' = IF Len(tid) > 1 THEN "join" ELSE AfterJoin
      /\ UNCHANGED <<program, limit, i, detached, canceled, block, ran>>
  BY DEF JoinThreads, JoinThread, MainAt, ThreadGoto
<1>2. program \in JoinsAll \cup {"1_1d"}
  BY <1>0, <1>1 DEF MainInv
<1>3. PICK q \in Seq(Threads) : q = tid
  BY <1>0 DEF DemoTypes
<1>4. /\ t = tid[1] /\ t \in Threads /\ Len(tid) \in Nat /\ Len(tid) >= 1
      /\ tid' \in Seq(Threads) /\ Len(tid') = Len(tid) - 1
      /\ \A k \in 1 .. Len(tid) - 1 : tid'[k] = tid[k + 1]
  BY <1>0, <1>1, <1>3 DEF MainInv, JoinThreads
<1> HIDE DEF t
<1>5. t \in kept /\ t \in ran
  BY <1>0, <1>1, <1>4 DEF ThreadInv
<1>6. DemoTypes'
  BY <1>0, <1>1, <1>4 DEF DemoTypes
<1>7. ThreadInv'
  <2>1. Cardinality(kept') <= Cardinality(kept) /\ IsFiniteSet(kept')
    BY <1>0, <1>1, KeptFinite, FS_Subset
  <2>2. Cardinality(kept) \in Nat /\ Cardinality(kept') \in Nat /\ limit \in Nat
    BY <1>0, <2>1, KeptFinite, FS_CardinalityType, DemoSizesAssumption
       DEF DemoTypes, Threads
  <2>3. Cardinality(kept') <= limit
    BY <1>0, <2>1, <2>2 DEF ThreadInv
  <2> QED
    BY <1>0, <1>1, <1>4, <2>3 DEF ThreadInv, DemoTypes
<1>8. /\ main' \in {"join", "use", "returned"}
      /\ main' = "use" => program \in Returns
      /\ main' = "returned" => program \notin Returns
      /\ main' = "join" => Len(tid) > 1
      /\ main' # "join" => Len(tid) = 1
  BY <1>1, <1>4 DEF AfterJoin
<1>9. MainInv'
  <2>1. main' = "join" => tid' # <<>>
    BY <1>1, <1>4, <1>8
  <2> QED
    BY <1>1, <1>2, <1>8, <2>1 DEF MainInv, JoinsAll, Returns, Cancels, Endless
<1>10. JoinInv' /\ BlockInv'
  <2>1. CASE program \in JoinsAll
    <3>1. /\ kept = Ids(tid)
          /\ \A j, k \in 1 .. Len(tid) : tid[j] = tid[k] => j = k
          /\ program # "1_1b" => Len(tid) <= 1
          /\ Cardinality(kept \cup ran) = i
      BY <1>0, <1>1, <2>1 DEF JoinInv
    <3>2. kept' = Ids(tid')
      <4>1. ASSUME NEW x \in kept \ {t} PROVE \E k \in 1 .. Len(tid) - 1 : x = tid[k + 1]
        <5>1. PICK k \in 1 .. Len(tid) : x = tid[k]
          BY <3>1, <4>1 DEF Ids
        <5>2. k # 1
          BY <1>4, <4>1, <5>1
        <5>3. k - 1 \in 1 .. Len(tid) - 1 /\ x = tid[(k - 1) + 1]
          BY <1>4, <5>1, <5>2
        <5> QED
          BY <5>3
      <4>2. ASSUME NEW k \in 1 .. Len(tid) - 1 PROVE tid[k + 1] \in kept \ {t}
        BY <1>4, <3>1 DEF Ids
      <4>3. Ids(tid') = {tid[k + 1] : k \in 1 .. Len(tid) - 1}
        BY <1>4 DEF Ids
      <4>4. kept \ {t} = {tid[k + 1] : k \in 1 .. Len(tid) - 1}
        BY <4>1, <4>2
      <4> QED
        BY <1>1, <4>3, <4>4
    <3>3. \A j, k \in 1 .. Len(tid') : tid'[j] = tid'[k] => j = k
      BY <1>1, <1>4, <3>1
    <3>4. kept' \cup ran' = kept \cup ran
      BY <1>1, <1>5
    <3>5. main' \in {"use", "returned"} => tid' = <<>>
      BY <1>1, <1>4, <1>8
    <3>6. JoinInv'
      <4>1. i' = i /\ program' = program
        BY <1>1
      <4>2. Cardinality(kept' \cup ran') = i'
        BY <3>1, <3>4, <4>1
      <4>3. main' # "create" /\ (program # "1_1b" => Len(tid') <= 1)
        BY <1>4, <1>8, <3>1
      <4> QED
        BY <3>2, <3>3, <3>5, <4>1, <4>2, <4>3 DEF JoinInv
    <3>7. program \in Returns => kept = {t} /\ main' = "use"
      <4> SUFFICES ASSUME program \in Returns PROVE kept = {t} /\ main' = "use"
        OBVIOUS
      <4>1. Len(tid) = 1
        BY <1>4, <3>1 DEF Returns
      <4> QED
        BY <1>4, <1>8, <3>1, <4>1 DEF Ids
    <3>8. BlockInv'
      BY <1>0, <1>1, <1>8, <3>7 DEF BlockInv
    <3> QED
      BY <3>6, <3>8
  <2>2. CASE program = "1_1d"
    BY <1>0, <1>1, <2>2 DEF JoinInv, BlockInv, JoinsAll, Returns, Cancels
  <2> QED
    BY <1>2, <2>1, <2>2
<1>11. DetachInv'
  BY <1>1, <1>2 DEF DetachInv, JoinsAll, Returns, Cancels
<1> QED
  BY <1>6, <1>7, <1>9, <1>10, <1>11 DEF DemoInv

(* A step of a thread. *)
LEMMA ThreadKeeps == ASSUME DemoInv, NEW t \in Threads, ThreadStep(t) PROVE DemoInv'
<1> USE DEF ThreadAt, ThreadGoto, mainVars, sysVars
<1>0. DemoTypes /\ MainInv /\ ThreadInv /\ JoinInv /\ BlockInv /\ DetachInv
  BY DEF DemoInv
<1>1. UNCHANGED <<program, limit, i, tid, ret_val>> /\ Alive
  BY DEF ThreadStep, Run, Detach, SetCancelType, ActOnCancel, ThreadEnds
<1>2. CASE Run(t)
  <2>1. /\ ran' = ran \cup {t} /\ UNCHANGED <<kept, detached>> /\ state[t] = "ready"
        /\ t \in kept
    BY <1>0, <1>2 DEF Run, ThreadInv
  <2>2. /\ block' \in {block, block \cup {t}}
        /\ block' # block => program \in Returns \cup {"1_4c"}
        /\ main' = main \/ (program = "1_4c" /\ main' = "crashed")
        /\ \/ state' = state
           \/ \E l \in {"loop", "finish", "detach", "settype"} :
                /\ state' = [state EXCEPT ![t] = l]
                /\ program = "1_2e" => l = "detach"
                /\ program = "1_2f" => l = "finish"
    BY <1>2 DEF Run, Returns
  <2>3. DemoTypes'
    BY <1>0, <1>1, <2>1, <2>2 DEF DemoTypes
  <2>4. ThreadInv'
    <3>1. CASE state' = state
      BY <1>0, <1>1, <2>1, <3>1 DEF ThreadInv
    <3>2. CASE state' # state
      <4>1. PICK l \in {"loop", "finish", "detach", "settype"} :
                state' = [state EXCEPT ![t] = l] /\ (l = "detach" => program = "1_2e")
        BY <1>2, <3>2 DEF Run
      <4> QED
        BY <1>0, <1>1, <2>1, <4>1 DEF ThreadInv, DemoTypes
    <3> QED
      BY <3>1, <3>2
  <2>5. MainInv'
    BY <1>0, <1>1, <2>2 DEF MainInv
  <2>6. JoinInv'
    <3>1. kept' \cup ran' = kept \cup ran /\ (ran \subseteq kept => ran' \subseteq kept')
      BY <2>1
    <3>2. main' \in {main, "crashed"}
      BY <2>2
    <3> QED
      BY <1>0, <1>1, <2>1, <3>1, <3>2 DEF JoinInv
  <2>7. BlockInv'
    <3>1. program \in Returns => main \notin {"use", "returned", "crashed"}
      BY <1>0, <1>1, <2>1, IdsOf DEF JoinInv, JoinsAll, Alive
    <3> QED
      BY <1>0, <1>1, <2>1, <2>2, <3>1 DEF BlockInv, Returns
  <2>8. DetachInv'
    BY <1>0, <1>1, <2>1, <2>2 DEF DetachInv, DemoTypes
  <2> QED
    BY <2>3, <2>4, <2>5, <2>6, <2>7, <2>8 DEF DemoInv
<1>3. CASE Detach(t) \/ SetCancelType(t) \/ ActOnCancel(t)
  <2>1. UNCHANGED <<main, kept, block, ran>> /\ state[t] \in {"detach", "settype", "loop"}
    BY <1>3 DEF Detach, SetCancelType, ActOnCancel
  <2>2. PICK l \in {"loop", "finish", "ended"} : state' = [state EXCEPT ![t] = l]
    BY <1>3 DEF Detach, SetCancelType, ActOnCancel
  <2>3. /\ detached \subseteq detached'
        /\ detached' # detached => state[t] = "detach"
        /\ state[t] = "detach" => t \in detached' /\ l = "finish"
    <3>1. CASE Detach(t)
      BY <1>0, <2>2, <3>1 DEF Detach, DemoTypes
    <3>2. CASE SetCancelType(t) \/ ActOnCancel(t)
      BY <3>2 DEF SetCancelType, ActOnCancel
    <3> QED
      BY <1>3, <3>1, <3>2
  <2>4. DemoTypes' /\ MainInv' /\ JoinInv' /\ BlockInv'
    BY <1>0, <1>1, <2>1, <2>2 DEF DemoTypes, MainInv, JoinInv, BlockInv
  <2>5. ThreadInv'
    BY <1>0, <1>1, <2>1, <2>2, <2>3 DEF ThreadInv, DemoTypes
  <2>6. DetachInv'
    BY <1>0, <1>1, <2>1, <2>2, <2>3 DEF DetachInv, DemoTypes
  <2> QED
    BY <2>4, <2>5, <2>6 DEF DemoInv
<1>4. CASE ThreadEnds(t)
  <2>1. /\ UNCHANGED <<main, block, ran>> /\ state[t] = "finish"
        /\ kept' = (IF t \in detached THEN kept \ {t} ELSE kept)
        /\ detached' = detached \ {t}
    BY <1>4 DEF ThreadEnds
  <2>2. PICK l \in {"waiting", "none", "ended"} :
            /\ state' = [state EXCEPT ![t] = l]
            /\ program = "1_6" => l = "waiting"
            /\ program # "1_6" => (l = "none" <=> t \in detached)
            /\ program # "1_6" => l # "waiting"
    BY <1>4 DEF ThreadEnds
  <2>3. program = "1_6" => detached = {}
    BY <1>0 DEF ThreadInv
  <2>4. DemoTypes' /\ MainInv'
    BY <1>0, <1>1, <2>1, <2>2 DEF DemoTypes, MainInv
  <2>5. ThreadInv'
    <3>1. Cardinality(kept') <= Cardinality(kept) /\ IsFiniteSet(kept')
      BY <1>0, <2>1, KeptFinite, FS_Subset
    <3>2. Cardinality(kept) \in Nat /\ Cardinality(kept') \in Nat /\ limit \in Nat
      BY <1>0, <3>1, KeptFinite, FS_CardinalityType, DemoSizesAssumption
         DEF DemoTypes, Threads
    <3>3. Cardinality(kept') <= limit'
      BY <1>0, <1>1, <3>1, <3>2 DEF ThreadInv
    <3> QED
      BY <1>0, <1>1, <2>1, <2>2, <2>3, <3>3 DEF ThreadInv, DemoTypes
  <2>6. program \in JoinsAll => UNCHANGED kept
    BY <1>0, <2>1 DEF ThreadInv, JoinsAll, Returns, Cancels
  <2>7. JoinInv'
    BY <1>0, <1>1, <2>1, <2>6 DEF JoinInv
  <2>8. BlockInv'
    BY <1>0, <1>1, <2>1, <2>6 DEF BlockInv, JoinsAll
  <2>9. DetachInv'
    <3>1. Alive => main # "failed"
      BY DEF Alive
    <3> QED
      BY <1>0, <1>1, <2>1, <2>2, <3>1 DEF DetachInv, DemoTypes
  <2> QED
    BY <2>4, <2>5, <2>7, <2>8, <2>9 DEF DemoInv
<1> QED
  BY <1>2, <1>3, <1>4 DEF ThreadStep

(* Every step of a demonstration keeps the invariant. *)
LEMMA DemoInductive == DemoInv /\ [DemoNext]_demoVars => DemoInv'
<1> SUFFICES ASSUME DemoInv, [DemoNext]_demoVars PROVE DemoInv'
  OBVIOUS
<1>1. CASE MainStep
  BY <1>1, MainRest, CreateKeeps, JoinKeeps DEF MainStep
<1>2. CASE \E t \in Threads : ThreadStep(t)
  BY <1>2, ThreadKeeps
<1>3. CASE Interrupt
  <2>1. main' = "interrupted" /\ UNCHANGED <<program, limit, i, tid, ret_val, state,
            kept, detached, canceled, block, ran>> /\ Alive /\ program = "1_2f"
    BY <1>3 DEF Interrupt, mainVars, sysVars
  <2> QED
    BY <2>1 DEF DemoInv, DemoTypes, MainInv, ThreadInv, JoinInv, BlockInv,
       DetachInv,
       Alive, Returns, Cancels, JoinsAll
<1>4. CASE DemoOver \/ UNCHANGED demoVars
  <2>1. UNCHANGED <<program, limit, main, i, tid, ret_val, state, kept, detached,
                    block, ran>>
    BY <1>4 DEF DemoOver, demoVars, mainVars, sysVars
  <2>2. DemoTypes' /\ MainInv' /\ ThreadInv'
    BY <2>1 DEF DemoInv, DemoTypes, MainInv, ThreadInv
  <2>3. JoinInv'
    BY <2>1 DEF DemoInv, JoinInv
  <2>4. BlockInv' /\ DetachInv'
    BY <2>1 DEF DemoInv, BlockInv, DetachInv
  <2> QED
    BY <2>2, <2>3, <2>4 DEF DemoInv
<1> QED
  BY <1>1, <1>2, <1>3, <1>4 DEF DemoNext

(* The invariant implies the three properties. *)
LEMMA DemoProperties ==
    DemoInv => EveryThreadRuns /\ NothingLeftBehind /\ DetachedAreGivenBack
<1> SUFFICES ASSUME DemoInv
             PROVE  EveryThreadRuns /\ NothingLeftBehind /\ DetachedAreGivenBack
  OBVIOUS
<1>0. DemoTypes /\ MainInv /\ ThreadInv /\ JoinInv /\ BlockInv /\ DetachInv
  BY DEF DemoInv
<1>1. main = "returned" /\ program \notin {"1_1d", "1_3b"} => program \in JoinsAll
  BY <1>0 DEF DemoTypes, MainInv, Programs, JoinsAll, Loops
<1>2. main = "returned" /\ program \in JoinsAll => kept = {}
  <2> SUFFICES ASSUME main = "returned", program \in JoinsAll PROVE kept = {}
    OBVIOUS
  <2>1. tid = <<>> /\ kept = Ids(tid)
    BY <1>0 DEF JoinInv
  <2> QED
    BY <2>1, IdsOf
<1>3. EveryThreadRuns
  <2> SUFFICES ASSUME main = "returned",
                      program \in Returns \cup {"1_1a", "1_1b", "1_1c", "1_3a"}
               PROVE  Cardinality(ran) = i
    BY DEF EveryThreadRuns
  <2>1. program \in JoinsAll
    BY DEF JoinsAll
  <2>2. kept \cup ran = ran
    BY <1>2, <2>1
  <2> QED
    BY <1>0, <2>1, <2>2 DEF JoinInv
<1>4. NothingLeftBehind
  <2>1. main = "returned" /\ program # "1_4c" => block = {}
    BY <1>0 DEF BlockInv
  <2> QED
    BY <1>1, <1>2, <2>1 DEF NothingLeftBehind
<1>5. DetachedAreGivenBack
  <2> SUFFICES ASSUME main = "failed", program \in {"1_2e", "1_2f"}
               PROVE  Cardinality({t \in Threads :
                          state[t] \in {"ready", "detach", "finish"}}) = limit
    BY DEF DetachedAreGivenBack
  <2>1. {t \in Threads : state[t] \in {"ready", "detach", "finish"}} = kept
    BY <1>0 DEF DemoTypes, ThreadInv, DetachInv
  <2> QED
    BY <1>0, <2>1 DEF DetachInv
<1> QED
  BY <1>3, <1>4, <1>5

(* ------------------------------------------------------- the runs' programs *)

(* A step of the composition is a step of one part and leaves the other alone. *)
LEMMA StepOfOne == [TNext]_allVars => [Next]_vars /\ [DemoNext]_demoVars
<1> SUFFICES ASSUME [TNext]_allVars PROVE [Next]_vars /\ [DemoNext]_demoVars
  OBVIOUS
<1>1. CASE UThreadStrand \/ UThreadChecker \/ UThreadOver
  BY <1>1 DEF UThreadStrand, UThreadChecker, UThreadOver, UThread, Next
<1>2. CASE DemoMain \/ DemoRest \/ \E t \in Threads : DemoThread(t)
  BY <1>2 DEF DemoMain, DemoRest, DemoThread, DemoStep, DemoNext
<1>3. CASE UNCHANGED allVars
  BY <1>3 DEF allVars
<1> QED
  BY <1>1, <1>2, <1>3 DEF TNext

(* Both invariants hold in every state of the composition. *)
LEMMA ThreadsInv == TSpec => [](UInv /\ DemoInv)
<1>1. TInit => UInv /\ DemoInv
  BY UInit, DemoStarts DEF TInit
<1>2. UInv /\ DemoInv /\ [TNext]_allVars => (UInv /\ DemoInv)'
  BY StepOfOne, UInductive, DemoInductive
<1> QED
  BY <1>1, <1>2, PTL DEF TSpec

(* swapcontext never resumes a strand at a point it has left: no two entries *)
(* of uthreads hold the same strand, and outside schedule() the running one   *)
(* can only be resumed from the current entry, for any number of threads.     *)
THEOREM StrandsKeptOnce == TSpec => []EveryStrandInOneSlot
<1>1. UInv => EveryStrandInOneSlot
  BY UProperties
<1> QED
  BY <1>1, ThreadsInv, PTL

(* However the checker and the strands interleave, no null entry is followed *)
(* and schedule() does not divide by zero before the checker has removed a    *)
(* thread, for any number of threads and of rounds.                           *)
THEOREM OnlyCheckerFaults == TSpec => []FaultsComeFromChecker
<1>1. UInv => FaultsComeFromChecker
  BY UProperties
<1> QED
  BY <1>1, ThreadsInv, PTL

(* A main that joins its threads returns only when each it created has run.  *)
THEOREM JoinedThreadsHaveRun == TSpec => []EveryThreadRuns
<1>1. DemoInv => EveryThreadRuns
  BY DemoProperties DEF EveryThreadRuns
<1> QED
  BY <1>1, ThreadsInv, PTL

(* A demonstration that returns has given back its threads and blocks, but    *)
(* for the three that do not try to.                                          *)
THEOREM DemosLeaveNothing == TSpec => []NothingLeftBehind
<1>1. DemoInv => NothingLeftBehind
  BY DemoProperties DEF NothingLeftBehind
<1> QED
  BY <1>1, ThreadsInv, PTL

(* Tasks 1_2 e and f fail to create a thread only while as many as the limit  *)
(* are alive: no detached thread is kept after its end.                       *)
THEOREM DetachedThreadsEnd == TSpec => []DetachedAreGivenBack
<1>1. DemoInv => DetachedAreGivenBack
  BY DemoProperties DEF DetachedAreGivenBack
<1> QED
  BY <1>1, ThreadsInv, PTL
=============================================================================
