---------------------------- MODULE CrashRecovery ----------------------------
(***************************************************************************)
(* The crash-isolation protocol of src/src/core/crash_recovery.c as one    *)
(* worker thread uses it: bus_worker_thread (event_bus.c) or sched_thread  *)
(* (scheduler.c), which follow the same pattern.                           *)
(*                                                                         *)
(* The worker copies its thread-local marker record (event_bus_error_ctx, *)
(* scheduler_error_ctx) into local_ctx in its own frame, and before each  *)
(* callback saves a resume point with sigsetjmp.  On SIGSEGV, SIGBUS,      *)
(* SIGILL or SIGFPE crash_handler scans the bytes from the faulting stack *)
(* pointer for RAW_BUFFER_SIZE - sizeof(error_context_t) offsets; at the   *)
(* first marker it fills that record with the fault and siglongjmps to the *)
(* resume point; with no marker it calls _exit(1).  Back at the resume     *)
(* point the worker reports the thread-local record to the critical-error *)
(* queue and frees the task's payload.                                     *)
(*                                                                         *)
(* The queue itself is CriticalErrorQueue; the task queue and the timer   *)
(* list are EventBus and Scheduler.  Here a task is just the next one, and *)
(* a fault is raised by the callback at some stack depth: the distance in *)
(* bytes from the stack pointer at the fault to local_ctx.                 *)
(***************************************************************************)
EXTENDS Naturals, Sequences

CONSTANTS
    Signals,        \* SIGSEGV, SIGBUS, SIGILL, SIGFPE
    Depths,         \* stack depths a callback may fault at, in bytes
    RawBufferSize,  \* RAW_BUFFER_SIZE (512)
    CtxSize,        \* sizeof(error_context_t) (24)
    MaxTasks        \* bound: tasks the worker runs

\* No signal: the empty fault fields of the marker record.
NoSignal == 0

VARIABLES
    wpc,        \* worker program counter
    localCtx,   \* signal field of local_ctx, the copy on the worker's stack
    tlsCtx,     \* signal field of the thread-local marker record
    done,       \* tasks finished
    \* history, read only by the properties
    raised,     \* signals raised by callbacks and contained, in order
    recorded,   \* signal fields of the critical-error records, in order
    exitedIn    \* the pc at which the process was ended by _exit(1), or "none"

vars == <<wpc, localCtx, tlsCtx, done, raised, recorded, exitedIn>>

Pcs == {"idle", "callback", "free", "report", "exited"}

TypeOK ==
    /\ wpc \in Pcs
    /\ localCtx \in Signals \cup {NoSignal}
    /\ tlsCtx \in Signals \cup {NoSignal}
    /\ done \in 0..MaxTasks
    /\ raised \in Seq(Signals)
    /\ recorded \in Seq(Signals \cup {NoSignal})
    /\ exitedIn \in Pcs \cup {"none"}

-----------------------------------------------------------------------------

\* Offsets the scan reads: i < RAW_BUFFER_SIZE - sizeof(error_context_t).
ScanWindow == 0..(RawBufferSize - CtxSize - 1)

\* The marker at distance d is found by the scan.
MarkerInReach(d) == d \in ScanWindow

\* The record the error branch hands to add_*_critical_error.
ReportedCtx == tlsCtx

\* Dequeue the next task (the queue is modelled in EventBus), then
\* sigsetjmp(event_thread_jmp_env, 1) returns 0 and the callback runs.
Dequeue ==
    /\ wpc = "idle" /\ done < MaxTasks
    /\ wpc' = "callback"
    /\ UNCHANGED <<localCtx, tlsCtx, done, raised, recorded, exitedIn>>

\* The callback returns normally; free(task.data) follows.
CallbackReturn ==
    /\ wpc = "callback"
    /\ wpc' = "free"
    /\ UNCHANGED <<localCtx, tlsCtx, done, raised, recorded, exitedIn>>

\* The callback faults with sig at depth d and crash_handler runs: the
\* marker found is local_ctx, whose fields it fills before jumping back to
\* the resume point; beyond the window the process ends.
CallbackFault(sig, d) ==
    /\ wpc = "callback"
    /\ IF MarkerInReach(d)
       THEN /\ localCtx' = sig
            /\ raised' = Append(raised, sig)
            /\ wpc' = "report"
            /\ UNCHANGED exitedIn
       ELSE /\ wpc' = "exited" /\ exitedIn' = "callback"
            /\ UNCHANGED <<localCtx, raised>>
    /\ UNCHANGED <<tlsCtx, done, recorded>>

\* An error branch that forgets to report.
ReportSkipped ==
    /\ wpc = "report"
    /\ wpc' = "free"
    /\ UNCHANGED <<localCtx, tlsCtx, done, raised, recorded, exitedIn>>

\* The error branch: add_*_critical_error(..., *_error_ctx), then free.
Report ==
    /\ wpc = "report"
    /\ recorded' = Append(recorded, ReportedCtx)
    /\ wpc' = "free"
    /\ UNCHANGED <<localCtx, tlsCtx, done, raised, exitedIn>>

\* free(task.data) and the next iteration of the loop.
Free ==
    /\ wpc = "free"
    /\ wpc' = "idle" /\ done' = done + 1
    /\ UNCHANGED <<localCtx, tlsCtx, raised, recorded, exitedIn>>

\* local_ctx = *_error_ctx at the top of the worker: a copy of the marker
\* record with empty fault fields.
Init ==
    /\ wpc = "idle"
    /\ localCtx = NoSignal /\ tlsCtx = NoSignal
    /\ done = 0
    /\ raised = << >> /\ recorded = << >> /\ exitedIn = "none"

Next ==
    \/ Dequeue \/ CallbackReturn \/ Report \/ Free
    \/ \E sig \in Signals, d \in Depths : CallbackFault(sig, d)

Spec == Init /\ [][Next]_vars

-----------------------------------------------------------------------------
(* Properties *)

\* Spec 8: a contained fault appends one critical-error record, so each
\* time the worker is back in its loop the records and the contained
\* faults are in one-to-one correspondence.
OneRecordPerContainedFault ==
    wpc \in {"idle", "callback"} => Len(recorded) = Len(raised)

\* Spec 4.5 step 4: the record carries the fault's signal, code and
\* address, which crash_handler wrote into the marker record it found.
FaultDetailRecorded ==
    \A k \in 1..Len(recorded) : k <= Len(raised) => recorded[k] = raised[k]

\* Spec 4.5 goal: a fault raised while executing a plugin callback ends
\* only that callback, never the process.
CallbackFaultContained ==
    exitedIn # "callback"

=============================================================================
