----------------------------- MODULE BoundedFifo -----------------------------
(***************************************************************************)
(* What the queues of semestr2/Task2/Task2_2 promise their writer and their  *)
(* reader until the queue is torn down: a first-in first-out buffer of       *)
(* bounded capacity that hands each value over exactly once and unaltered.   *)
(***************************************************************************)
EXTENDS Integers, Sequences

CONSTANTS Capacity,   \* q->max_count
          NoVal       \* the reader holds no value

VARIABLES fifo,       \* the values queued, oldest first
          hand,       \* the value taken and not yet used by the reader
          sent,       \* the next value the writer adds
          open        \* FALSE once queue_destroy has begun

fvars == <<fifo, hand, sent, open>>

FInit ==
    /\ fifo = <<>>
    /\ hand = NoVal
    /\ sent = 0
    /\ open = TRUE

Put ==
    /\ open
    /\ Len(fifo) < Capacity
    /\ fifo' = Append(fifo, sent)
    /\ sent' = sent + 1
    /\ UNCHANGED <<hand, open>>

Get ==
    /\ open
    /\ hand = NoVal
    /\ fifo # <<>>
    /\ hand' = Head(fifo)
    /\ fifo' = Tail(fifo)
    /\ UNCHANGED <<sent, open>>

Use ==
    /\ open
    /\ hand # NoVal
    /\ hand' = NoVal
    /\ UNCHANGED <<fifo, sent, open>>

Close ==
    /\ open
    /\ open' = FALSE
    /\ UNCHANGED <<fifo, hand, sent>>

\* Nothing is promised about a queue that is torn down.
Closed == ~open /\ ~open'

FNext == Put \/ Get \/ Use \/ Close \/ Closed

FSpec == FInit /\ [][FNext]_fvars
=============================================================================
