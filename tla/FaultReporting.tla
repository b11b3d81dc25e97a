--------------------------- MODULE FaultReporting ---------------------------
(***************************************************************************)
(* A bus worker's crash isolation (CrashRecovery) composed with the        *)
(* critical-error queue (CriticalErrorQueue) it reports into.  The error   *)
(* branch of bus_worker_thread calls add_event_bus_critical_error          *)
(* (event_bus.c lines 242-247), whose whole body runs under               *)
(* g_critical_error_mtx: the worker's Report step and the queue's          *)
(* AddCriticalError are one step, taken when the consumer thread does not *)
(* hold the mutex.  Every other step of either component leaves the       *)
(* other's variables alone.  The worker reports at most one record per    *)
(* task, so the queue's bound on records is the worker's bound on tasks.  *)
(***************************************************************************)
EXTENDS Naturals, Sequences

CONSTANTS Signals, Depths, RawBufferSize, CtxSize, MaxTasks, Width, Size, NULL

VARIABLES
    wpc, localCtx, tlsCtx, done, raised, recorded, exitedIn,
    queues, bitmap, owner, waiting, cpc, ci, msg, reported, stored, dropped, written

W == INSTANCE CrashRecovery
Q == INSTANCE CriticalErrorQueue WITH MaxErrors <- MaxTasks

wvars == <<wpc, localCtx, tlsCtx, done, raised, recorded, exitedIn>>
qvars == <<queues, bitmap, owner, waiting, cpc, ci, msg, reported, stored, dropped, written>>
vars  == <<wvars, qvars>>

TypeOK == W!TypeOK /\ Q!TypeOK

\* The worker's steps that do not touch the queue.
WorkerLocal ==
    /\ \/ W!Dequeue \/ W!CallbackReturn \/ W!Free
       \/ \E sig \in Signals, d \in Depths : W!CallbackFault(sig, d)
    /\ UNCHANGED qvars

\* The error branch: add_event_bus_critical_error(..., event_bus_error_ctx).
WorkerReport == W!Report /\ Q!AddCriticalError

ConsumerStep == Q!Consumer /\ UNCHANGED wvars

Init == W!Init /\ Q!Init

Next == WorkerLocal \/ WorkerReport \/ ConsumerStep

\* The worker and the consumer are threads the OS keeps running; a task
\* need not arrive, so only the report and the consumer are fair.
Spec == Init /\ [][Next]_vars /\ WF_vars(WorkerReport) /\ WF_vars(ConsumerStep)

-----------------------------------------------------------------------------
(* Properties *)

\* CrashRecovery: one critical-error record per contained fault.
OneRecordPerContainedFault == W!OneRecordPerContainedFault

\* CriticalErrorQueue: a set bit always stands for a stored record.
BitsMatchSlots == Q!BitsMatchSlots

\* CriticalErrorQueue: a producer's signal is never lost.
QueueDrains == Q!QueueDrains

\* A worker that contained a fault gets past add_event_bus_critical_error
\* and goes on to free the task: the consumer thread, which takes the same
\* mutex and writes outside it, never keeps the worker (and so the bus
\* tasks behind it) waiting for ever.
ReportCompletes == wpc = "report" ~> wpc = "free"

=============================================================================
