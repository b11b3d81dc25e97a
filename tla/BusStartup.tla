----------------------------- MODULE BusStartup -----------------------------
(***************************************************************************)
(* Start-up of the event bus as core_init (src/src/core/runtime.c) runs   *)
(* it: plugin_init first, so the plugins' initialize and start entry      *)
(* points may already publish into the statically allocated task queue;   *)
(* then bus_init (src/src/core/event_bus.c lines 38-71), which creates     *)
(* the worker threads and only afterwards sets head, tail and count to 0   *)
(* and calls pthread_mutex_init and pthread_cond_init on the queue, while *)
(* the workers already use them.                                           *)
(*                                                                         *)
(* A task is its payload, a number; 0 is the zeroed bus_task_t of the      *)
(* static array (sub_ptr NULL, so the worker skips the callback and frees  *)
(* NULL).  count is a size_t, scaled to SizeMod.  pthread_mutex_init on a *)
(* locked mutex makes it unlocked (glibc writes a zero lock word).         *)
(* pthread_cond_init on a condition variable with waiters is undefined;   *)
(* the model takes the most benign outcome, that the waiters stay         *)
(* wakeable, so what it finds does not depend on it.                       *)
(***************************************************************************)
EXTENDS Naturals, FiniteSets

CONSTANTS
    NW,         \* MAX_INIT_EVENT_BUS_THREADS
    MaxTasks,   \* MAX_TASKS, the ring size
    SizeMod,    \* 2^width of size_t, scaled
    PreTasks,   \* bound: tasks the plugins publish before bus_init
    MaxPub,     \* bound: tasks published in all
    NULL

Workers  == 1..NW
Payloads == 1..MaxPub
Slots    == 0..(MaxTasks - 1)

VARIABLES
    tasks,      \* g_task_event_bus_queue_t.tasks: payload or 0
    head, tail, count,
    owner,      \* holder of the queue mutex, or NULL
    notEmpty,   \* workers waiting on cond_not_empty
    mainPc,     \* where core_init is
    created,    \* workers pthread_create has started
    wpc,        \* worker -> program counter
    wtask,      \* worker -> the task it dequeued
    published,  \* payloads published so far
    \* history, read only by the properties
    delivered   \* payload -> callback invocations with it, counted up to 2

vars == <<tasks, head, tail, count, owner, notEmpty, mainPc, created, wpc, wtask,
          published, delivered>>

MainPcs == {"plugins", "create", "reset_head", "reset_tail", "reset_count",
            "reset_mutex", "running"}

TypeOK ==
    /\ tasks \in [Slots -> Payloads \cup {0}]
    /\ head \in Slots /\ tail \in Slots /\ count \in 0..(SizeMod - 1)
    /\ owner \in Workers \cup {NULL}
    /\ notEmpty \subseteq Workers
    /\ mainPc \in MainPcs
    /\ created \in 0..NW
    /\ wpc \in [Workers -> {"init", "lock", "check", "wait", "take", "deliver"}]
    /\ wtask \in [Workers -> Payloads \cup {0}]
    /\ published \in 0..MaxPub
    /\ delivered \in [Payloads -> 0..2]

-----------------------------------------------------------------------------

\* count-- on a signed int.
DecrementSigned(c) == c - 1

\* A dequeue that forgets count--.
DecrementNone(c) == c

\* count-- on a size_t.
Decrement(c) == (c + SizeMod - 1) % SizeMod

\* An enqueue that forgets to signal.
SignalNone == UNCHANGED <<notEmpty, wpc>>

\* pthread_cond_signal(&cond_not_empty): one waiter, if any, wakes and
\* goes back to take the mutex.
SignalNotEmpty ==
    \/ notEmpty = {} /\ UNCHANGED <<notEmpty, wpc>>
    \/ \E w \in notEmpty : /\ notEmpty' = notEmpty \ {w}
                           /\ wpc' = [wpc EXCEPT ![w] = "lock"]

\* enqueue_task with the mutex taken and the queue not full: store at tail,
\* advance it, count++ and signal cond_not_empty (one waiter wakes).
Enqueue(p) ==
    /\ count # MaxTasks
    /\ tasks' = [tasks EXCEPT ![tail] = p]
    /\ tail' = (tail + 1) % MaxTasks
    /\ count' = (count + 1) % SizeMod
    /\ SignalNotEmpty
    /\ published' = published + 1

\* A plugin's initialize or start calls bus_publish from plugin_init: no
\* worker exists, so nobody contends for the mutex.
PluginPublish ==
    /\ mainPc = "plugins" /\ published < PreTasks /\ owner = NULL
    /\ Enqueue(published + 1)
    /\ UNCHANGED <<head, owner, mainPc, created, wtask, delivered>>

\* plugin_init returns; core_init calls bus_init.
BusInit ==
    /\ mainPc = "plugins"
    /\ mainPc' = "create"
    /\ UNCHANGED <<tasks, head, tail, count, owner, notEmpty, created, wpc, wtask,
                   published, delivered>>

\* The pthread_create loop of bus_init.
CreateWorker ==
    /\ mainPc = "create"
    /\ created' = created + 1
    /\ wpc' = [wpc EXCEPT ![created + 1] = "lock"]
    /\ mainPc' = IF created + 1 = NW THEN "reset_head" ELSE "create"
    /\ UNCHANGED <<tasks, head, tail, count, owner, notEmpty, wtask, published, delivered>>

\* head = 0; tail = 0; count = 0; pthread_mutex_init; without the mutex.
ResetHead ==
    /\ mainPc = "reset_head"
    /\ head' = 0 /\ mainPc' = "reset_tail"
    /\ UNCHANGED <<tasks, tail, count, owner, notEmpty, created, wpc, wtask, published, delivered>>

ResetTail ==
    /\ mainPc = "reset_tail"
    /\ tail' = 0 /\ mainPc' = "reset_count"
    /\ UNCHANGED <<tasks, head, count, owner, notEmpty, created, wpc, wtask, published, delivered>>

ResetCount ==
    /\ mainPc = "reset_count"
    /\ count' = 0 /\ mainPc' = "reset_mutex"
    /\ UNCHANGED <<tasks, head, tail, owner, notEmpty, created, wpc, wtask, published, delivered>>

ResetMutex ==
    /\ mainPc = "reset_mutex"
    /\ owner' = NULL /\ mainPc' = "running"
    /\ UNCHANGED <<tasks, head, tail, count, notEmpty, created, wpc, wtask, published, delivered>>

\* After core_init, plugins publish from their own threads and callbacks.
Publish ==
    /\ mainPc = "running" /\ published < MaxPub /\ owner = NULL
    /\ Enqueue(published + 1)
    /\ UNCHANGED <<head, owner, mainPc, created, wtask, delivered>>

-----------------------------------------------------------------------------
(* bus_worker_thread (event_bus.c lines 213-256), without shutdown.        *)

WorkerLock(w) ==
    /\ wpc[w] = "lock" /\ owner = NULL
    /\ owner' = w /\ wpc' = [wpc EXCEPT ![w] = "check"]
    /\ UNCHANGED <<tasks, head, tail, count, notEmpty, mainPc, created, wtask, published, delivered>>

\* while (count == 0) pthread_cond_wait(&cond_not_empty, &mutex);
WorkerCheck(w) ==
    /\ wpc[w] = "check"
    /\ IF count = 0
       THEN /\ owner' = NULL /\ notEmpty' = notEmpty \cup {w}
            /\ wpc' = [wpc EXCEPT ![w] = "wait"]
       ELSE /\ wpc' = [wpc EXCEPT ![w] = "take"]
            /\ UNCHANGED <<owner, notEmpty>>
    /\ UNCHANGED <<tasks, head, tail, count, mainPc, created, wtask, published, delivered>>

\* task = tasks[head]; head = (head + 1) % MAX_TASKS; count--; signal
\* cond_not_full; unlock (a glibc unlock frees the mutex whoever holds it).
WorkerTake(w) ==
    /\ wpc[w] = "take"
    /\ wtask' = [wtask EXCEPT ![w] = tasks[head]]
    /\ head' = (head + 1) % MaxTasks
    /\ count' = Decrement(count)
    /\ owner' = NULL
    /\ wpc' = [wpc EXCEPT ![w] = "deliver"]
    /\ UNCHANGED <<tasks, tail, notEmpty, mainPc, created, published, delivered>>

\* The callback (skipped for a zeroed task) and free(task.data).
WorkerDeliver(w) ==
    /\ wpc[w] = "deliver"
    /\ delivered' = IF wtask[w] = 0 THEN delivered
                    ELSE [delivered EXCEPT ![wtask[w]] = IF @ < 2 THEN @ + 1 ELSE 2]
    /\ wtask' = [wtask EXCEPT ![w] = 0]
    /\ wpc' = [wpc EXCEPT ![w] = "lock"]
    /\ UNCHANGED <<tasks, head, tail, count, owner, notEmpty, mainPc, created, published>>

Worker(w) == WorkerLock(w) \/ WorkerCheck(w) \/ WorkerTake(w) \/ WorkerDeliver(w)

-----------------------------------------------------------------------------

\* Zero-initialised statics; the queue mutex and condition variables are
\* never initialised before bus_init.
Init ==
    /\ tasks = [i \in Slots |-> 0]
    /\ head = 0 /\ tail = 0 /\ count = 0
    /\ owner = NULL /\ notEmpty = {}
    /\ mainPc = "plugins" /\ created = 0
    /\ wpc = [w \in Workers |-> "init"]
    /\ wtask = [w \in Workers |-> 0]
    /\ published = 0
    /\ delivered = [p \in Payloads |-> 0]

Main == PluginPublish \/ BusInit \/ CreateWorker \/ ResetHead \/ ResetTail
        \/ ResetCount \/ ResetMutex

Next == Main \/ Publish \/ \E w \in Workers : Worker(w)

\* core_init runs to its end and the worker threads keep running.
Fairness == WF_vars(Main) /\ \A w \in Workers : WF_vars(Worker(w))

Spec == Init /\ [][Next]_vars

FairSpec == Spec /\ Fairness

-----------------------------------------------------------------------------
(* Properties *)

\* Spec 8: a matching publish enqueues exactly one delivery task, and the
\* callback is invoked once with its payload (a second invocation reads a
\* payload the first one's free released).
DeliveredAtMostOnce ==
    \A p \in Payloads : delivered[p] <= 1

\* Spec 8: the subscribed callback is eventually invoked with the payload
\* of every publish that returned success.
PublishedDelivered ==
    \A p \in Payloads : p <= published ~> delivered[p] >= 1

=============================================================================
