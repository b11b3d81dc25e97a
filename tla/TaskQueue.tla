----------------------------- MODULE TaskQueue -----------------------------
(***************************************************************************)
(* What the task queue of the event bus promises (spec 4.3, 8): a bounded *)
(* first-in first-out queue of delivery tasks.  A producer adds a task at *)
(* the end only while there is room; a consumer takes the oldest task.    *)
(* Nothing else changes the queue: no task is overwritten, skipped,       *)
(* duplicated or reordered.  The ring buffer of event_bus.c is shown to   *)
(* implement it in EventBus (TaskFifo).                                    *)
(***************************************************************************)
EXTENDS Naturals, Sequences

CONSTANTS
    Items,      \* the tasks that may be queued
    Capacity    \* the number of tasks the queue holds

VARIABLE queue  \* the queued tasks, oldest first

TypeOK == queue \in Seq(Items) /\ Len(queue) <= Capacity

Init == queue = <<>>

\* enqueue_task: store a task when the queue is not full.
Put(x) ==
    /\ Len(queue) < Capacity
    /\ queue' = Append(queue, x)

\* the dequeue of bus_worker_thread: take the oldest task.
Get ==
    /\ queue # <<>>
    /\ queue' = Tail(queue)

Next == (\E x \in Items : Put(x)) \/ Get

Spec == Init /\ [][Next]_queue

=============================================================================
