------------------------------ MODULE MCThreads ------------------------------
(***************************************************************************)
(* The programs of semestr2/Task1, model-checked together: task says whether *)
(* it is the user-level threads of Task1_7 or one of the demonstrations.     *)
(* The state of the other one stands still.                                  *)
(***************************************************************************)
EXTENDS UThread, ThreadDemos

VARIABLE task

allVars == <<task, vars, demoVars>>

TInit ==
    /\ Init /\ DemoInit
    /\ \/ task = "uthread" /\ program = "1_1a" /\ limit = 1
       \/ task = "demo" /\ build = "xor"

UThread(A) == task = "uthread" /\ A /\ UNCHANGED <<task, demoVars>>
DemoStep(A) == task = "demo" /\ A /\ UNCHANGED <<task, vars>>

UThreadStrand == UThread(StrandStep)
UThreadChecker == UThread(Checker)
UThreadOver == UThread(Over)

DemoMain == DemoStep(MainStep)
DemoThread(t) == DemoStep(ThreadStep(t))
DemoRest == DemoStep(Interrupt \/ DemoOver)

TNext ==
    \/ UThreadStrand \/ UThreadChecker \/ UThreadOver
    \/ DemoMain \/ DemoRest \/ \E t \in Threads : DemoThread(t)

\* The scheduler runs the two threads of Task1_7, that of main and the checker,
\* and main and every thread of a demonstration.
TSpec ==
    /\ TInit /\ [][TNext]_allVars
    /\ WF_allVars(UThreadStrand) /\ WF_allVars(UThreadChecker)
    /\ WF_allVars(DemoMain) /\ \A t \in 1 .. MAX_LIMIT : WF_allVars(DemoThread(t))

\* Every demonstration ends but the two that give their threads back.
DemoEnds == task = "demo" => EndsByItself

\* The process of Task1_7 comes to an end, by whatever way.
UThreadEnds == task = "uthread" => ProcessEnds
=============================================================================
