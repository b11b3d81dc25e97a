------------------------------ MODULE EventBus ------------------------------
(***************************************************************************)
(* The event bus of src/src/core/event_bus.c.                              *)
(*                                                                         *)
(* State: the subscription list g_head (prepended, guarded by sub_mutex),  *)
(* the circular task queue g_task_event_bus_queue_t (tasks, head, tail,    *)
(* count, guarded by its own mutex with the condition variables            *)
(* cond_not_empty and cond_not_full) and the shutdown flag                 *)
(* g_bus_shut_down.  Actors: the worker threads of the pool, plugin        *)
(* threads ("clients") that call bus_publish and bus_subscribe, and the    *)
(* host thread that calls bus_shutdown.  A worker runs the subscriber's    *)
(* callback under the crash protocol: the callback returns, faults (the    *)
(* handler longjmps back to the worker's sigsetjmp), or calls back into    *)
(* the bus itself, as plugin code may.                                     *)
(*                                                                         *)
(* A payload is a number 1..MaxPayloads: the malloc'd copy made by         *)
(* bus_publish.  Event names, callbacks and user data are model values.    *)
(***************************************************************************)
EXTENDS Naturals, Sequences, FiniteSets

CONSTANTS
    Workers,        \* the bus worker threads (MAX_INIT_EVENT_BUS_THREADS)
    Clients,        \* plugin threads calling into the bus
    Main,           \* the host thread that runs bus_shutdown
    Plugins,        \* plugin ids (never PLUGIN_ID_INVALID)
    Events,         \* event names
    MaxTasks,       \* MAX_TASKS, the queue capacity
    MaxPayloads,    \* bound: payload copies bus_publish may allocate
    MaxSubs,        \* bound: subscriptions bus_subscribe may create
    CallbackActs,   \* what a subscriber callback may do, a subset of
                    \* {"return", "fault", "publish", "subscribe"}
    NoThread        \* the owner of a free mutex

ASSUME /\ Workers # {} /\ Workers \cap Clients = {}
       /\ Main \notin Workers \cup Clients
       /\ MaxTasks \in Nat \ {0}
       /\ CallbackActs \subseteq {"return", "fault", "publish", "subscribe"}

Threads  == Workers \cup Clients
Payloads == 1..MaxPayloads
Slots    == 0..(MaxTasks - 1)
NoTask   == [payload |-> 0, sub |-> 0]
Sub      == [id : 1..MaxSubs, pid : Plugins, ev : Events]
Task     == [payload : Payloads, sub : 1..MaxSubs]

VARIABLES
    subs,           \* g_head as a sequence, head first
    eventCount,     \* event_count, the next subscription id
    subOwner,       \* holder of sub_mutex
    tasks, head, tail, count,   \* the circular task queue
    qOwner,         \* holder of the queue mutex
    notEmptyWait,   \* threads blocked in pthread_cond_wait(cond_not_empty)
    notFullWait,    \* threads blocked in pthread_cond_wait(cond_not_full)
    shutDown,       \* g_bus_shut_down
    pc,             \* program counter of each worker and client
    frame,          \* arguments and locals of the bus call a thread is in
    task,           \* the task a worker dequeued
    mainPc,         \* progress of bus_shutdown on the host thread
    nextPayload,    \* the next payload copy to allocate
    \* history, read only by the properties
    enqLog,         \* tasks in the order enqueue_task stored them
    deqLog,         \* payloads in the order workers took them
    accepted,       \* payloads whose bus_publish returned 0
    matched,        \* payload -> ids of all subscriptions matching at publish
    freed,          \* payload -> times it was freed
    critical        \* critical-error records [pid, sub, payload]

qVars    == <<tasks, head, tail, count, qOwner, notEmptyWait, notFullWait>>
histVars == <<enqLog, deqLog, accepted, matched, freed, critical>>
vars == <<subs, eventCount, subOwner, qVars, shutDown, pc, frame, task,
          mainPc, nextPayload, histVars>>

WorkerPcs == {"w_lock", "w_check", "w_wait", "w_cb", "w_exit"}
CallPcs   == {"p_scan", "e_lock", "e_check", "e_wait", "s_lock"}
\* the states in which a thread is inside bus_publish holding sub_mutex
PublishHoldsSub == {"e_lock", "e_check", "e_wait"}

TypeOK ==
    /\ subs \in Seq(Sub)
    /\ eventCount \in 1..(MaxSubs + 1)
    /\ subOwner \in Threads \cup {NoThread}
    /\ tasks \in [Slots -> Task \cup {NoTask}]
    /\ head \in Slots /\ tail \in Slots /\ count \in 0..MaxTasks
    /\ qOwner \in Threads \cup {Main, NoThread}
    /\ notEmptyWait \subseteq Workers /\ notFullWait \subseteq Threads
    /\ shutDown \in BOOLEAN
    /\ pc \in [Threads -> WorkerPcs \cup CallPcs \cup {"idle"}]
    /\ task \in [Workers -> Task \cup {NoTask}]
    /\ mainPc \in {"m_run", "m_join", "m_done"}
    /\ nextPayload \in 1..(MaxPayloads + 1)
    /\ freed \in [Payloads -> Nat]

-----------------------------------------------------------------------------
(* Helpers *)

\* Where a bus call returns to: a worker goes back into the callback that
\* made the call, a client back to its own code.
Caller(t) == IF t \in Workers THEN "w_cb" ELSE "idle"

\* The locals of a finished call are gone.
NoFrame == [pid |-> NoThread, ev |-> NoThread, payload |-> 0, sub |-> 0]

Return(t) ==
    /\ pc' = [pc EXCEPT ![t] = Caller(t)]
    /\ frame' = [frame EXCEPT ![t] = NoFrame]

\* pthread_cond_signal: wake one waiter, if any.  A woken thread is no
\* longer in the wait set and has to reacquire the mutex.
Signal(waitSet) ==
    IF waitSet = {} THEN {waitSet}
    ELSE {waitSet \ {x} : x \in waitSet}

\* The first subscription of the list matching plugin and event, as the
\* scan loop of bus_publish finds it (0 when none).
FirstMatch(pid, ev) ==
    LET hits == {i \in 1..Len(subs) : subs[i].pid = pid /\ subs[i].ev = ev}
    IN  IF hits = {} THEN 0
        ELSE subs[CHOOSE i \in hits : \A j \in hits : i <= j].id

AllMatches(pid, ev) ==
    {subs[i].id : i \in {j \in 1..Len(subs) : subs[j].pid = pid /\ subs[j].ev = ev}}

SubById(id) == subs[CHOOSE i \in 1..Len(subs) : subs[i].id = id]

\* Faulty variants of the helpers below, each the bug a property must catch:
\* a double free, a tail that is not wrapped, a store that forgets count++,
\* and a worker that leaves on shutdown with tasks still queued.
FreeTwice(p) == freed' = [freed EXCEPT ![p] = @ + 2]

PushNoWrap(tk) ==
    /\ tasks' = [tasks EXCEPT ![tail] = tk]
    /\ tail' = tail + 1
    /\ count' = count + 1

PushNoCount(tk) ==
    /\ tasks' = [tasks EXCEPT ![tail] = tk]
    /\ tail' = (tail + 1) % MaxTasks
    /\ count' = count

MayExitOnFlag == shutDown

\* A take that forgets to advance head.
PopNoAdvance(w) ==
    /\ task' = [task EXCEPT ![w] = tasks[head]]
    /\ head' = head
    /\ count' = count - 1

Free(p) == freed' = [freed EXCEPT ![p] = @ + 1]

\* The full test of enqueue_task's wait loop.
QueueFull == count = MaxTasks

\* Store a task at tail and advance tail around the ring.
Push(tk) ==
    /\ tasks' = [tasks EXCEPT ![tail] = tk]
    /\ tail' = (tail + 1) % MaxTasks
    /\ count' = count + 1

\* Take the task at head into worker w and advance head around the ring.
Pop(w) ==
    /\ task' = [task EXCEPT ![w] = tasks[head]]
    /\ head' = (head + 1) % MaxTasks
    /\ count' = count - 1

\* The break test of bus_worker_thread after its wait loop.
MayExit == shutDown /\ count = 0

-----------------------------------------------------------------------------
(* bus_subscribe (lines 116-147): allocate the record, number it with     *)
(* event_count++, then take sub_mutex, prepend, release.                   *)

\* Allocation and numbering happen before the lock; a failed allocation
\* returns an error and changes nothing, so only the successful call is a
\* step.  event_count++ is unsynchronised, so two threads may draw the same
\* event_id; event_id is never read, and the model numbers subscriptions
\* uniquely to tell them apart.
SubscribeCall(t, pid, ev) ==
    /\ eventCount <= MaxSubs
    /\ frame' = [frame EXCEPT ![t] = [pid |-> pid, ev |-> ev, payload |-> 0, sub |-> eventCount]]
    /\ eventCount' = eventCount + 1
    /\ pc' = [pc EXCEPT ![t] = "s_lock"]

Subscribe(t) ==
    /\ pc[t] = "s_lock"
    /\ subOwner = NoThread
    /\ subs' = <<[id |-> frame[t].sub, pid |-> frame[t].pid, ev |-> frame[t].ev]>> \o subs
    /\ Return(t)
    /\ UNCHANGED <<eventCount, subOwner, qVars, shutDown, task, mainPc, nextPayload, histVars>>

-----------------------------------------------------------------------------
(* bus_publish (lines 173-210) and enqueue_task (lines 150-171).          *)

PublishCall(t, pid, ev) ==
    /\ frame' = [frame EXCEPT ![t] = [pid |-> pid, ev |-> ev, payload |-> 0, sub |-> 0]]
    /\ pc' = [pc EXCEPT ![t] = "p_scan"]
    /\ UNCHANGED eventCount

\* Take sub_mutex and scan for the first matching subscription.  No match:
\* release and return EVENT_NOT_FOUND.  Match: copy the payload and go on
\* to enqueue_task still holding sub_mutex; the copy may fail (MALLOC_FAILED).
PublishScan(t) ==
    /\ pc[t] = "p_scan"
    /\ subOwner = NoThread
    /\ LET s == FirstMatch(frame[t].pid, frame[t].ev) IN
       IF s = 0
       THEN /\ Return(t)
            /\ UNCHANGED <<subOwner, nextPayload, matched>>
       ELSE \/ \* the payload copy failed: MALLOC_FAILED
               /\ Return(t)
               /\ UNCHANGED <<subOwner, nextPayload, matched>>
            \/ /\ nextPayload <= MaxPayloads
               /\ subOwner' = t
               /\ frame' = [frame EXCEPT ![t].payload = nextPayload, ![t].sub = s]
               /\ matched' = [matched EXCEPT ![nextPayload] =
                                 AllMatches(frame[t].pid, frame[t].ev)]
               /\ nextPayload' = nextPayload + 1
               /\ pc' = [pc EXCEPT ![t] = "e_lock"]
    /\ UNCHANGED <<subs, eventCount, qVars, shutDown, task, mainPc,
                   enqLog, deqLog, accepted, freed, critical>>

\* A callback that hands bus_publish a bad data pointer faults in memcpy
\* while sub_mutex is held.  The crash handler finds the worker's marker
\* and longjmps to the worker's sigsetjmp: the worker records the fault,
\* frees its own task and loops.  Nothing releases sub_mutex.
PublishFault(w) ==
    /\ w \in Workers
    /\ "fault" \in CallbackActs
    /\ pc[w] = "p_scan"
    /\ subOwner = NoThread
    /\ FirstMatch(frame[w].pid, frame[w].ev) # 0
    /\ subOwner' = w
    /\ critical' = critical \cup
         {[pid |-> SubById(task[w].sub).pid, sub |-> task[w].sub, payload |-> task[w].payload]}
    /\ Free(task[w].payload)
    /\ task' = [task EXCEPT ![w] = NoTask]
    /\ pc' = [pc EXCEPT ![w] = "w_lock"]
    /\ frame' = [frame EXCEPT ![w] = NoFrame]
    /\ UNCHANGED <<subs, eventCount, qVars, shutDown, mainPc, nextPayload,
                   enqLog, deqLog, accepted, matched>>

EnqueueLock(t) ==
    /\ pc[t] = "e_lock"
    /\ qOwner = NoThread
    /\ qOwner' = t
    /\ pc' = [pc EXCEPT ![t] = "e_check"]
    /\ UNCHANGED <<subs, eventCount, subOwner, tasks, head, tail, count,
                   notEmptyWait, notFullWait, shutDown, frame, task, mainPc,
                   nextPayload, histVars>>

\* The body of enqueue_task after the lock, then the rest of bus_publish:
\* wait while full; on shutdown return -1, which bus_publish ignores (it
\* releases sub_mutex and returns 0 without freeing the copy); otherwise
\* store at tail, signal cond_not_empty, release both mutexes, return 0.
EnqueueCheck(t) ==
    /\ pc[t] = "e_check"
    /\ LET p == frame[t].payload IN
       \/ /\ QueueFull /\ ~shutDown
          /\ notFullWait' = notFullWait \cup {t}
          /\ qOwner' = NoThread
          /\ pc' = [pc EXCEPT ![t] = "e_wait"]
          /\ UNCHANGED <<frame, subOwner, tasks, head, tail, count, notEmptyWait, enqLog, accepted>>
       \/ /\ shutDown
          /\ qOwner' = NoThread /\ subOwner' = NoThread
          /\ accepted' = accepted \cup {p}
          /\ Return(t)
          /\ UNCHANGED <<tasks, head, tail, count, notEmptyWait, notFullWait, enqLog>>
       \/ /\ ~QueueFull /\ ~shutDown
          /\ Push([payload |-> p, sub |-> frame[t].sub])
          /\ notEmptyWait' \in Signal(notEmptyWait)
          /\ qOwner' = NoThread /\ subOwner' = NoThread
          /\ enqLog' = Append(enqLog, [payload |-> p, sub |-> frame[t].sub])
          /\ accepted' = accepted \cup {p}
          /\ Return(t)
          /\ UNCHANGED <<head, notFullWait>>
    /\ UNCHANGED <<subs, eventCount, shutDown, task, mainPc, nextPayload,
                   deqLog, matched, freed, critical>>

\* Woken from cond_not_full: reacquire the queue mutex and re-test.
EnqueueWake(t) ==
    /\ pc[t] = "e_wait" /\ t \notin notFullWait
    /\ qOwner = NoThread
    /\ qOwner' = t
    /\ pc' = [pc EXCEPT ![t] = "e_check"]
    /\ UNCHANGED <<subs, eventCount, subOwner, tasks, head, tail, count,
                   notEmptyWait, notFullWait, shutDown, frame, task, mainPc,
                   nextPayload, histVars>>

-----------------------------------------------------------------------------
(* bus_worker_thread (lines 213-258).                                      *)

WorkerLock(w) ==
    /\ pc[w] = "w_lock"
    /\ qOwner = NoThread
    /\ qOwner' = w
    /\ pc' = [pc EXCEPT ![w] = "w_check"]
    /\ UNCHANGED <<subs, eventCount, subOwner, tasks, head, tail, count,
                   notEmptyWait, notFullWait, shutDown, frame, task, mainPc,
                   nextPayload, histVars>>

\* Wait while empty and running; leave when shut down and empty; otherwise
\* take the head task, signal cond_not_full and release the mutex.  The
\* callback is invoked right after, so the dequeue is the invocation.
WorkerCheck(w) ==
    /\ pc[w] = "w_check"
    /\ \/ /\ count = 0 /\ ~shutDown
          /\ notEmptyWait' = notEmptyWait \cup {w}
          /\ qOwner' = NoThread
          /\ pc' = [pc EXCEPT ![w] = "w_wait"]
          /\ UNCHANGED <<head, count, notFullWait, task, deqLog>>
       \/ /\ MayExit
          /\ qOwner' = NoThread
          /\ pc' = [pc EXCEPT ![w] = "w_exit"]
          /\ UNCHANGED <<head, count, notEmptyWait, notFullWait, task, deqLog>>
       \/ /\ count > 0 /\ ~MayExit
          /\ Pop(w)
          /\ notFullWait' \in Signal(notFullWait)
          /\ qOwner' = NoThread
          /\ deqLog' = Append(deqLog, tasks[head].payload)
          /\ pc' = [pc EXCEPT ![w] = "w_cb"]
          /\ UNCHANGED notEmptyWait
    /\ UNCHANGED <<subs, eventCount, subOwner, tasks, tail, shutDown, frame,
                   mainPc, nextPayload, enqLog, accepted, matched, freed, critical>>

\* Woken from cond_not_empty: reacquire the queue mutex and re-test.
WorkerWake(w) ==
    /\ pc[w] = "w_wait" /\ w \notin notEmptyWait
    /\ qOwner = NoThread
    /\ qOwner' = w
    /\ pc' = [pc EXCEPT ![w] = "w_check"]
    /\ UNCHANGED <<subs, eventCount, subOwner, tasks, head, tail, count,
                   notEmptyWait, notFullWait, shutDown, frame, task, mainPc,
                   nextPayload, histVars>>

\* The callback returns normally: free the payload and loop.
CallbackReturn(w) ==
    /\ pc[w] = "w_cb"
    /\ Free(task[w].payload)
    /\ task' = [task EXCEPT ![w] = NoTask]
    /\ pc' = [pc EXCEPT ![w] = "w_lock"]
    /\ UNCHANGED <<subs, eventCount, subOwner, qVars, shutDown, frame, mainPc,
                   nextPayload, enqLog, deqLog, accepted, matched, critical>>

\* The callback faults: the handler longjmps to the sigsetjmp, the worker
\* adds a critical-error record for the subscription's plugin, frees the
\* payload and loops.
CallbackFault(w) ==
    /\ "fault" \in CallbackActs
    /\ pc[w] = "w_cb"
    /\ critical' = critical \cup
         {[pid |-> SubById(task[w].sub).pid, sub |-> task[w].sub, payload |-> task[w].payload]}
    /\ Free(task[w].payload)
    /\ task' = [task EXCEPT ![w] = NoTask]
    /\ pc' = [pc EXCEPT ![w] = "w_lock"]
    /\ UNCHANGED <<subs, eventCount, subOwner, qVars, shutDown, frame, mainPc,
                   nextPayload, enqLog, deqLog, accepted, matched>>

\* The callback calls back into the bus through its plugin's handle: the
\* plugin publishes with its own id, or subscribes through its bound stub.
CallbackCallsBus(w) ==
    /\ pc[w] = "w_cb"
    /\ LET pid == SubById(task[w].sub).pid IN
       \E ev \in Events :
          \/ "publish" \in CallbackActs /\ PublishCall(w, pid, ev)
          \/ "subscribe" \in CallbackActs /\ SubscribeCall(w, pid, ev)
    /\ UNCHANGED <<subs, subOwner, qVars, shutDown, task, mainPc,
                   nextPayload, histVars>>

-----------------------------------------------------------------------------
(* Plugin threads outside the bus.                                         *)

\* After bus_shutdown has destroyed the mutexes a call is undefined; the
\* model stops there.
ClientCall(c) ==
    /\ pc[c] = "idle"
    /\ mainPc # "m_done"
    /\ \E pid \in Plugins, ev \in Events :
          PublishCall(c, pid, ev) \/ SubscribeCall(c, pid, ev)
    /\ UNCHANGED <<subs, subOwner, qVars, shutDown, task, mainPc,
                   nextPayload, histVars>>

-----------------------------------------------------------------------------
(* bus_shutdown (lines 75-114) on the host thread.                         *)

\* Set the flag and broadcast cond_not_empty under the queue mutex.
ShutdownSignal ==
    /\ mainPc = "m_run"
    /\ qOwner = NoThread
    /\ shutDown' = TRUE
    /\ notEmptyWait' = {}
    /\ mainPc' = "m_join"
    /\ UNCHANGED <<subs, eventCount, subOwner, tasks, head, tail, count, qOwner,
                   notFullWait, pc, frame, task, nextPayload, histVars>>

\* Join every worker, free the payloads still counted in the queue, then
\* take sub_mutex and free every subscription; event_count goes back to 1.
ShutdownJoin ==
    /\ mainPc = "m_join"
    /\ \A w \in Workers : pc[w] = "w_exit"
    /\ subOwner = NoThread
    /\ LET queued == {tasks[(head + i) % MaxTasks].payload : i \in 0..(count - 1)}
       IN  freed' = [p \in Payloads |-> IF p \in queued THEN freed[p] + 1 ELSE freed[p]]
    /\ subs' = <<>>
    /\ eventCount' = 1
    /\ mainPc' = "m_done"
    /\ UNCHANGED <<subOwner, qVars, shutDown, pc, frame, task, nextPayload,
                   enqLog, deqLog, accepted, matched, critical>>

-----------------------------------------------------------------------------

\* After bus_init: empty queue and list, every worker at the top of its loop.
Init ==
    /\ subs = <<>>
    /\ eventCount = 1
    /\ subOwner = NoThread
    /\ tasks = [i \in Slots |-> NoTask]
    /\ head = 0 /\ tail = 0 /\ count = 0
    /\ qOwner = NoThread
    /\ notEmptyWait = {} /\ notFullWait = {}
    /\ shutDown = FALSE
    /\ pc = [t \in Threads |-> IF t \in Workers THEN "w_lock" ELSE "idle"]
    /\ frame = [t \in Threads |-> NoFrame]
    /\ task = [w \in Workers |-> NoTask]
    /\ mainPc = "m_run"
    /\ nextPayload = 1
    /\ enqLog = <<>> /\ deqLog = <<>>
    /\ accepted = {}
    /\ matched = [p \in Payloads |-> {}]
    /\ freed = [p \in Payloads |-> 0]
    /\ critical = {}

\* A bus call in progress: the steps a thread takes inside the bus.
InCall(t) ==
    \/ Subscribe(t) \/ PublishScan(t) \/ PublishFault(t)
    \/ EnqueueLock(t) \/ EnqueueCheck(t) \/ EnqueueWake(t)

WorkerStep(w) ==
    \/ WorkerLock(w) \/ WorkerCheck(w) \/ WorkerWake(w)
    \/ CallbackReturn(w) \/ CallbackFault(w) \/ CallbackCallsBus(w)

Next ==
    \/ \E t \in Threads : InCall(t)
    \/ \E w \in Workers : WorkerStep(w)
    \/ \E c \in Clients : ClientCall(c)
    \/ ShutdownSignal \/ ShutdownJoin

\* Worker threads and a thread inside a bus call are scheduled by the OS:
\* each keeps taking its enabled steps.  Plugin threads need not make
\* calls and the host need not shut the bus down.
Fairness ==
    /\ \A w \in Workers : WF_vars(WorkerStep(w))
    /\ \A t \in Threads : WF_vars(InCall(t))
    /\ WF_vars(ShutdownJoin)

Spec == Init /\ [][Next]_vars
FairSpec == Spec /\ Fairness

-----------------------------------------------------------------------------
(* Properties *)

Enqueued(p) == \E i \in DOMAIN enqLog : enqLog[i].payload = p
Dequeued(p) == \E i \in DOMAIN deqLog : deqLog[i] = p
QueuedAt(i) == tasks[(head + i) % MaxTasks]

\* The ring buffer of enqueue_task and bus_worker_thread is a FIFO queue:
\* count is the number of stored but not yet taken tasks, workers take
\* tasks in the order they were stored, and the count slots from head hold
\* exactly the stored tasks not yet taken, oldest first (no slot is
\* overwritten while full, none skipped when tail or head wraps).
QueueMatchesLog ==
    /\ Len(deqLog) <= Len(enqLog)
    /\ count = Len(enqLog) - Len(deqLog)
    /\ \A i \in 1..Len(deqLog) : deqLog[i] = enqLog[i].payload
    /\ \A i \in 0..(count - 1) : QueuedAt(i) = enqLog[Len(deqLog) + 1 + i]

\* Every payload copy made by bus_publish has at most one owner at a time:
\* the publisher between malloc and enqueue, one queue slot, one worker
\* running its callback, or the allocator once freed.  A payload taken by
\* two workers, freed twice, or freed while still queued or in use breaks it.
OwnerCount(p) ==
    freed[p]
    + Cardinality({i \in 0..(count - 1) : QueuedAt(i).payload = p})
    + Cardinality({w \in Workers : task[w].payload = p})
    + Cardinality({t \in Threads : pc[t] \in PublishHoldsSub /\ frame[t].payload = p})

PayloadOwnership == \A p \in 1..(nextPayload - 1) : OwnerCount(p) <= 1

\* The ring read as a queue: the count slots from head, oldest first.
RingContents == [i \in 1..count |-> QueuedAt(i - 1)]

TQ == INSTANCE TaskQueue WITH queue <- RingContents, Items <- Task, Capacity <- MaxTasks

\* Refinement: the ring buffer of enqueue_task and bus_worker_thread, with
\* its head, tail and count updated by several workers and publishers
\* under the queue mutex, implements the bounded FIFO queue of TaskQueue:
\* every step either appends one task while there is room, takes the oldest
\* one, or leaves the queued tasks as they are.
TaskFifo == TQ!Spec

\* Every task that enqueue_task stored is eventually handed to its callback
\* by a worker and its payload freed, also when bus_shutdown runs: workers
\* drain the queue before they exit, and a faulting callback does not cost
\* any other task its delivery (spec section 8).
EveryTaskDelivered ==
    \A p \in Payloads : Enqueued(p) ~> (Dequeued(p) /\ freed[p] > 0)

\* bus_publish returns 0 only for a payload it stored in the queue (spec
\* 4.3: on a match it "enqueues a delivery task ... and returns success").
AcceptedIsEnqueued == \A p \in accepted : Enqueued(p)

\* Spec 4.3 on subscribe: duplicate (plugin, event) subscriptions "are both
\* kept and both invoked".  Every subscription matching a publish gets the
\* task, so a stored task matches only the subscription it targets.
DuplicateSubscribersInvoked ==
    \A i \in DOMAIN enqLog : matched[enqLog[i].payload] = {enqLog[i].sub}

\* sub_mutex is only ever held by a thread inside bus_publish between the
\* scan and the return: a fault contained by the crash protocol (spec 4.5,
\* 7(e)) leaves no lock behind.
SubMutexHeldOnlyByPublisher ==
    subOwner # NoThread => pc[subOwner] \in PublishHoldsSub

\* The bus can always deliver again: it is never the case that the holder
\* of sub_mutex sleeps on cond_not_full while every other worker sleeps on
\* sub_mutex inside a callback, so that nobody is left to make room.
BusWedged ==
    /\ subOwner \in notFullWait
    /\ \A w \in Workers \ {subOwner} : pc[w] \in {"p_scan", "s_lock"}

NoDeliveryDeadlock == ~BusWedged

=============================================================================
