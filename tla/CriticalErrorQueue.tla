------------------------- MODULE CriticalErrorQueue -------------------------
(***************************************************************************)
(* The critical-error queue of src/src/core/log.c.                         *)
(*                                                                         *)
(* Producers (the bus workers and the scheduler thread, after a contained *)
(* fault) call add_event_bus_critical_error / add_scheduler_critical_error:*)
(* under g_critical_error_mtx they take the first slot whose bit in        *)
(* g_critical_error_bitmap is clear, store a strdup of the record there,  *)
(* set the bit and signal.  The detached consumer thread waits for a      *)
(* non-zero bitmap, then walks every slot: a slot whose bit is set is     *)
(* taken (pointer read, slot NULLed, bit cleared), the mutex is released  *)
(* while the record is written to the file, and retaken.                   *)
(*                                                                         *)
(* The queue has MAX_CRITICAL_ERROR_QUEUE_SIZE = 63 slots, the bitmap is a *)
(* uint32_t and the bit of slot i is 1U << i.  A shift by 32 or more is    *)
(* undefined in C; the shl instruction of x86-64 and the lsl of AArch64   *)
(* that the build emits for a variable count shift by i % 32, so that is *)
(* the outcome modelled.  The model keeps the proportions: a bitmap of     *)
(* Width bits and Size = 2 * Width - 1 slots.                              *)
(*                                                                         *)
(* A record is a model value: its text (time stamp, plugin name, fault    *)
(* detail) and the gateway copy are left out.                              *)
(***************************************************************************)
EXTENDS Naturals, FiniteSets

CONSTANTS
    Width,      \* bits of g_critical_error_bitmap (32 in the code)
    Size,       \* MAX_CRITICAL_ERROR_QUEUE_SIZE (63 in the code)
    MaxErrors,  \* bound: critical errors reported
    NULL

Slots   == 0..(Size - 1)
Errors  == 1..MaxErrors

VARIABLES
    queues,     \* g_critical_error_queues
    bitmap,     \* g_critical_error_bitmap
    owner,      \* holder of g_critical_error_mtx: "producer", "consumer" or NULL
    waiting,    \* the consumer waits on g_critical_error_cond
    cpc,        \* consumer program counter
    ci,         \* the consumer's loop index i
    msg,        \* the consumer's local msg
    reported,   \* errors reported so far (the next one is reported + 1)
    \* history, read only by the properties
    stored,     \* errors placed in a slot
    dropped,    \* errors refused with "no slot"
    written     \* errors written to the critical error file

vars == <<queues, bitmap, owner, waiting, cpc, ci, msg, reported, stored, dropped, written>>

TypeOK ==
    /\ queues \in [Slots -> Errors \cup {NULL}]
    /\ bitmap \in 0..(2^Width - 1)
    /\ owner \in {"producer", "consumer", NULL}
    /\ waiting \in BOOLEAN
    /\ cpc \in {"lock", "check", "wait", "scan", "write", "relock"}
    /\ ci \in 0..Size
    /\ msg \in Errors \cup {NULL}
    /\ reported \in 0..MaxErrors
    /\ stored \subseteq Errors /\ dropped \subseteq Errors /\ written \subseteq Errors

-----------------------------------------------------------------------------
(* Bits of a uint32_t scaled to Width *)

\* A bit computed in a type wider than the bitmap's.
BitNoWrap(i) == 2^i

\* 1U << i as the build computes it: the count is taken modulo the width.
Bit(i) == 2^(i % Width)

\* x & b # 0 for a single bit b.
IsSet(x, b) == (x \div b) % 2 = 1

\* x | b and x & ~b for a single bit b.
SetBit(x, b) == IF IsSet(x, b) THEN x ELSE x + b
ClearBit(x, b) == IF IsSet(x, b) THEN x - b ELSE x

\* The slot search of the add functions: the first i with its bit clear,
\* or -1 (here Size) when there is none.
FreeSlot ==
    LET free == {i \in Slots : ~IsSet(bitmap, Bit(i))}
    IN  IF free = {} THEN Size ELSE CHOOSE i \in free : \A j \in free : i <= j

\* pthread_cond_signal: wakes the consumer if it waits.
SignalNone == waiting' = waiting

SignalConsumer == waiting' = FALSE

\* A consumer that takes slot i but leaves its bit set.
TakeKeepBit(i) ==
    /\ queues' = [queues EXCEPT ![i] = NULL]
    /\ bitmap' = bitmap

\* Lines 75-77: take slot i and clear its bit.
Take(i) ==
    /\ queues' = [queues EXCEPT ![i] = NULL]
    /\ bitmap' = ClearBit(bitmap, Bit(i))

\* A walk that ends without giving the mutex back.
ScanDoneKeepLock == owner' = owner /\ cpc' = "lock"

\* Line 89: the walk is over; unlock and wait for the next record.
ScanDone == owner' = NULL /\ cpc' = "lock"

-----------------------------------------------------------------------------
(* Producers *)

\* add_event_bus_critical_error and add_scheduler_critical_error (they
\* differ only in the text of the record).  The whole body runs under the
\* mutex, so it is one step taken when the mutex is free.
AddCriticalError ==
    LET e == reported + 1 IN
    /\ owner = NULL /\ reported < MaxErrors
    /\ reported' = e
    /\ IF FreeSlot = Size
       THEN /\ dropped' = dropped \cup {e}
            /\ UNCHANGED <<queues, bitmap, waiting, stored>>
       ELSE /\ queues' = [queues EXCEPT ![FreeSlot] = e]
            /\ bitmap' = SetBit(bitmap, Bit(FreeSlot))
            /\ SignalConsumer
            /\ stored' = stored \cup {e}
            /\ UNCHANGED dropped
    /\ UNCHANGED <<owner, cpc, ci, msg, written>>

-----------------------------------------------------------------------------
(* critical_error_consumer_thread *)

ConsumerLock ==
    /\ cpc = "lock" /\ owner = NULL
    /\ owner' = "consumer" /\ cpc' = "check"
    /\ UNCHANGED <<queues, bitmap, waiting, ci, msg, reported, stored, dropped, written>>

\* while (bitmap == 0) pthread_cond_wait(...); then the walk from i = 0.
ConsumerCheck ==
    /\ cpc = "check"
    /\ IF bitmap = 0
       THEN /\ owner' = NULL /\ waiting' = TRUE /\ cpc' = "wait"
            /\ UNCHANGED ci
       ELSE /\ cpc' = "scan" /\ ci' = 0
            /\ UNCHANGED <<owner, waiting>>
    /\ UNCHANGED <<queues, bitmap, msg, reported, stored, dropped, written>>

\* Woken by a signal, pthread_cond_wait retakes the mutex.
ConsumerWake ==
    /\ cpc = "wait" /\ ~waiting /\ owner = NULL
    /\ owner' = "consumer" /\ cpc' = "check"
    /\ UNCHANGED <<queues, bitmap, waiting, ci, msg, reported, stored, dropped, written>>

\* One iteration of the for loop, holding the mutex.
ConsumerScan ==
    /\ cpc = "scan"
    /\ \/ /\ ci = Size
          /\ ScanDone
          /\ UNCHANGED <<queues, bitmap, ci, msg>>
       \/ /\ ci < Size /\ ~IsSet(bitmap, Bit(ci))
          /\ ci' = ci + 1
          /\ UNCHANGED <<queues, bitmap, owner, cpc, msg>>
       \/ /\ ci < Size /\ IsSet(bitmap, Bit(ci))
          /\ msg' = queues[ci]
          /\ Take(ci)
          /\ owner' = NULL /\ cpc' = "write"
          /\ UNCHANGED ci
    /\ UNCHANGED <<waiting, reported, stored, dropped, written>>

\* if (msg) write_critical_error_to_file(msg), outside the mutex.
ConsumerWrite ==
    /\ cpc = "write"
    /\ written' = IF msg = NULL THEN written ELSE written \cup {msg}
    /\ msg' = NULL /\ cpc' = "relock"
    /\ UNCHANGED <<queues, bitmap, owner, waiting, ci, reported, stored, dropped>>

ConsumerRelock ==
    /\ cpc = "relock" /\ owner = NULL
    /\ owner' = "consumer" /\ cpc' = "scan" /\ ci' = ci + 1
    /\ UNCHANGED <<queues, bitmap, waiting, msg, reported, stored, dropped, written>>

Consumer == ConsumerLock \/ ConsumerCheck \/ ConsumerWake \/ ConsumerScan
            \/ ConsumerWrite \/ ConsumerRelock

-----------------------------------------------------------------------------

\* Zero-initialised statics; core_log_init has started the consumer.
Init ==
    /\ queues = [i \in Slots |-> NULL]
    /\ bitmap = 0
    /\ owner = NULL /\ waiting = FALSE
    /\ cpc = "lock" /\ ci = 0 /\ msg = NULL
    /\ reported = 0
    /\ stored = {} /\ dropped = {} /\ written = {}

Next == AddCriticalError \/ Consumer

\* The consumer is a thread of its own that the scheduler keeps running.
Spec == Init /\ [][Next]_vars /\ WF_vars(Consumer)

-----------------------------------------------------------------------------
(* Properties *)

\* Slots whose record is still queued: the bit of the slot is set.
Pending == {e \in Errors : \E s \in Slots : queues[s] = e /\ IsSet(bitmap, Bit(s))}

\* A set bit always stands for a stored record: the consumer never finds a
\* set bit over an emptied slot (then the record it stands for was lost or
\* is read twice).
BitsMatchSlots ==
    \A b \in 0..(Width - 1) : IsSet(bitmap, 2^b) => queues[b] # NULL

\* Whatever is queued is eventually consumed: a producer's signal is never
\* lost, so the consumer never sleeps on a non-empty bitmap.
QueueDrains == bitmap # 0 ~> bitmap = 0

\* Spec 7: every contained fault appends a critical-error record.  A stored
\* record is queued, in the consumer's hand, or written.
ErrorNeverLost ==
    stored \ written \subseteq Pending \cup {msg}

\* The queue has MAX_CRITICAL_ERROR_QUEUE_SIZE slots: a record is refused
\* with "no slot" only when every slot is taken.
NoDropWhileRoom ==
    [][dropped' # dropped => \A s \in Slots : queues[s] # NULL]_vars

=============================================================================
