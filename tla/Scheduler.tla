------------------------------ MODULE Scheduler ------------------------------
(***************************************************************************)
(* The timer scheduler of src/src/core/scheduler.c.                        *)
(*                                                                         *)
(* State: the due-ordered list g_timers and the flag g_running, guarded by *)
(* g_mtx with the condition variable g_cv; the id counter g_next_id, which *)
(* is read and incremented outside the mutex.  Actors: the scheduler       *)
(* thread sched_thread, plugin threads ("clients") calling                 *)
(* scheduler_after_ms, scheduler_every_ms and scheduler_cancel through     *)
(* their bound stubs, timer callbacks that make the same calls from the    *)
(* scheduler thread, and the host thread running scheduler_shutdown.       *)
(*                                                                         *)
(* Time is the millisecond clock now_ms(), advanced by Tick up to MaxTime. *)
(* A due time is a uint64_t; the model scales that width down to TimeMod,  *)
(* so now_ms() + ms wraps modulo TimeMod as the C sum wraps modulo 2^64.   *)
(* A timer is a record; its key is the model's name for the allocation,    *)
(* its id the value g_next_id gave it.                                     *)
(***************************************************************************)
EXTENDS Naturals, Sequences, FiniteSets, SequencesExt

CONSTANTS
    Clients,        \* plugin threads calling the scheduler API
    Sched,          \* the scheduler thread g_thr
    Main,           \* the host thread that runs scheduler_shutdown
    Plugins,        \* plugin ids the stubs bind
    Delays,         \* the ms arguments callers pass
    TimeMod,        \* 2^64 scaled down: due times are taken modulo TimeMod
    MaxTime,        \* bound: the clock stops at MaxTime
    MaxTimers,      \* bound: timers that after_ms and every_ms may allocate
    CallbackActs,   \* what a timer callback may do, a subset of
                    \* {"return", "fault", "after", "every", "cancel"}
    NoThread        \* the owner of a free mutex

ASSUME /\ Sched \notin Clients /\ Main \notin Clients \cup {Sched}
       /\ Delays \subseteq 0..(TimeMod - 1)
       /\ MaxTime < TimeMod
       /\ CallbackActs \subseteq {"return", "fault", "after", "every", "cancel"}

Threads  == Clients \cup {Sched}
Keys     == 1..MaxTimers
Ids      == 1..(MaxTimers + 1)
TimeVals == 0..(TimeMod - 1)
\* A timer as scheduler_timer_t holds it.  want is history: the due time
\* registration asked for, now_ms() + ms without the wrap.
Timer    == [key : Keys, id : Ids, due : TimeVals, want : Nat,
             interval : TimeVals, pid : Plugins, rep : BOOLEAN]
NoTimer  == [key |-> 0]
NoFrame  == [kind |-> "none", ms |-> 0, pid |-> NoThread, id |-> 0, key |-> 0,
             due |-> 0, want |-> 0]
NoDeadline == TimeMod

VARIABLES
    timers,         \* g_timers, head first
    nextId,         \* g_next_id
    now,            \* now_ms()
    mtx,            \* holder of g_mtx
    cvWait,         \* threads blocked on g_cv (only the scheduler thread)
    deadline,       \* absolute deadline of the scheduler's timed wait
    running,        \* g_running
    pc,             \* program counter of the scheduler thread and clients
    frame,          \* arguments and locals of the API call a thread is in
    cur,            \* the timer t the scheduler thread popped and is firing
    mainPc,         \* progress of scheduler_shutdown on the host thread
    nextKey,        \* the next allocation
    \* history, read only by the properties
    handles,        \* [key, id, pid] returned by after_ms / every_ms
    freed,          \* key -> times its allocation was freed
    critical,       \* critical-error records [pid, id]
    cancelledOk     \* keys whose owner got 0 from scheduler_cancel

vars == <<timers, nextId, now, mtx, cvWait, deadline, running, pc, frame, cur,
          mainPc, nextKey, handles, freed, critical, cancelledOk>>

SchedPcs == {"s_lock", "s_loop", "s_wait", "s_cb", "s_post", "s_exit"}
ApiPcs   == {"a_inc", "a_lock", "a_ret", "c_lock"}

TypeOK ==
    /\ timers \in Seq(Timer)
    /\ \A i \in DOMAIN timers : timers[i].rep = (timers[i].interval > 0)
    /\ nextId \in Ids
    /\ now \in 0..MaxTime
    /\ mtx \in Threads \cup {Main, NoThread}
    /\ cvWait \subseteq {Sched}
    /\ deadline \in TimeVals \cup {NoDeadline}
    /\ running \in BOOLEAN
    /\ pc \in [Threads -> SchedPcs \cup ApiPcs \cup {"idle"}]
    /\ cur \in Timer \cup {NoTimer}
    /\ mainPc \in {"m_run", "m_join", "m_done"}
    /\ nextKey \in 1..(MaxTimers + 1)
    /\ freed \in [Keys -> Nat]

-----------------------------------------------------------------------------
(* Helpers *)

\* Where an API call returns to: the scheduler thread back into the timer
\* callback that made it, a client back to its own code.
Caller(t) == IF t = Sched THEN "s_cb" ELSE "idle"

Return(t) ==
    /\ pc' = [pc EXCEPT ![t] = Caller(t)]
    /\ frame' = [frame EXCEPT ![t] = NoFrame]

\* Faulty variants of the helpers below, each the bug a property must
\* catch: a due test one millisecond early, every_ms without its zero
\* check, a wake-up that is never sent, an insert that misreads the head
\* comparison, and a free that is forgotten.
DueReachedEarly(d) == d <= now + 1

EveryAcceptsAll(ms) == TRUE

WakeNone == cvWait' = cvWait

InsertPosHeadInverted(s, d) ==
    IF s = <<>> \/ d > s[1].due THEN 1
    ELSE 1 + CHOOSE i \in 1..Len(s) :
                 /\ \A j \in 2..i : s[j].due <= d
                 /\ (i = Len(s) \/ s[i + 1].due > d)

FreeForgotten(k) == freed' = freed

\* now_ms() + ms in uint64_t arithmetic.
DueAt(ms) == (now + ms) % TimeMod

\* The test of sched_thread that the head timer is due.
DueReached(d) == d <= now

\* scheduler_every_ms rejects a zero period.
EveryAccepts(ms) == ms # 0

\* pthread_cond_broadcast(&g_cv).
WakeScheduler == cvWait' = {}

\* insert_timer: in front of the head when the list is empty or the timer
\* is due strictly earlier; otherwise walk while the next timer is due no
\* later, and link it after the node reached.
InsertPos(s, d) ==
    IF s = <<>> \/ d < s[1].due THEN 1
    ELSE 1 + CHOOSE i \in 1..Len(s) :
                 /\ \A j \in 2..i : s[j].due <= d
                 /\ (i = Len(s) \/ s[i + 1].due > d)

InsertTimer(s, t) == InsertAt(s, InsertPos(s, t.due), t)

Free(k) == freed' = [freed EXCEPT ![k] = @ + 1]

\* An allocation whose memory is still the timer's.
Live(k) == k \in 1..(nextKey - 1) /\ freed[k] = 0

-----------------------------------------------------------------------------
(* scheduler_after_ms (lines 179-212) and scheduler_every_ms (214-247).    *)

\* The argument checks and malloc come first (a failure returns -1 and
\* changes nothing, so only success is a step), then t->id = g_next_id++,
\* whose read and write are separate steps: the counter has no lock.
TimerCall(t, kind, pid, ms) ==
    /\ kind = "every" => EveryAccepts(ms)
    /\ nextKey <= MaxTimers
    /\ frame' = [frame EXCEPT ![t] = [NoFrame EXCEPT !.kind = kind, !.ms = ms,
                                      !.pid = pid, !.id = nextId, !.key = nextKey]]
    /\ nextKey' = nextKey + 1
    /\ pc' = [pc EXCEPT ![t] = "a_inc"]
    /\ UNCHANGED <<nextId, freed, cancelledOk>>

\* The write of g_next_id++, then the fields: due_ms = now_ms() + ms.
TimerInit(t) ==
    /\ pc[t] = "a_inc"
    /\ nextId' = frame[t].id + 1
    /\ frame' = [frame EXCEPT ![t].due = DueAt(frame[t].ms),
                              ![t].want = now + frame[t].ms]
    /\ pc' = [pc EXCEPT ![t] = "a_lock"]
    /\ UNCHANGED <<timers, now, mtx, cvWait, deadline, running, cur, mainPc,
                   nextKey, handles, freed, critical, cancelledOk>>

\* Under g_mtx: insert_timer, broadcast g_cv, unlock.
TimerInsert(t) ==
    /\ pc[t] = "a_lock"
    /\ mtx = NoThread
    /\ LET f == frame[t] IN
       timers' = InsertTimer(timers,
                   [key |-> f.key, id |-> f.id, due |-> f.due, want |-> f.want,
                    interval |-> IF f.kind = "every" THEN f.ms ELSE 0,
                    pid |-> f.pid, rep |-> f.kind = "every"])
    /\ WakeScheduler
    /\ pc' = [pc EXCEPT ![t] = "a_ret"]
    /\ UNCHANGED <<nextId, now, mtx, deadline, running, frame, cur, mainPc,
                   nextKey, handles, freed, critical, cancelledOk>>

\* return t->id, read after the unlock.  If the scheduler thread has fired
\* and freed the timer meanwhile, the read is of freed memory, which the
\* allocator may already have reused: any int may come back.
TimerReturn(t) ==
    /\ pc[t] = "a_ret"
    /\ LET f == frame[t] IN
       \E ret \in IF Live(f.key) THEN {f.id} ELSE 0..(MaxTimers + 1) :
          handles' = handles \cup {[key |-> f.key, id |-> ret, pid |-> f.pid, given |-> f.id]}
    /\ Return(t)
    /\ UNCHANGED <<timers, nextId, now, mtx, cvWait, deadline, running, cur,
                   mainPc, nextKey, freed, critical, cancelledOk>>

-----------------------------------------------------------------------------
(* scheduler_cancel (lines 249-282).                                       *)

\* A plugin cancels a timer by an id after_ms or every_ms returned to it;
\* the stub passes the plugin's own id.  An id <= 0 is refused with no
\* other effect, so only a positive id makes a step.
CancelCall(t, pid) ==
    \E h \in handles :
       /\ h.pid = pid /\ h.id > 0
       /\ frame' = [frame EXCEPT ![t] = [NoFrame EXCEPT !.kind = "cancel", !.pid = pid,
                                         !.id = h.id, !.key = h.key]]
       /\ pc' = [pc EXCEPT ![t] = "c_lock"]
       /\ UNCHANGED <<nextId, nextKey, freed, cancelledOk>>

\* Under g_mtx: unlink and free the first timer with that id and owner and
\* return 0, else return -1.
Cancel(t) ==
    /\ pc[t] = "c_lock"
    /\ mtx = NoThread
    /\ LET i == SelectInSeq(timers, LAMBDA x : x.id = frame[t].id /\ x.pid = frame[t].pid)
       IN  IF i > 0
           THEN /\ timers' = RemoveAt(timers, i)
                /\ Free(timers[i].key)
                /\ cancelledOk' = cancelledOk \cup {frame[t].key}
           ELSE UNCHANGED <<timers, freed, cancelledOk>>
    /\ Return(t)
    /\ UNCHANGED <<nextId, now, mtx, cvWait, deadline, running, cur, mainPc,
                   nextKey, handles, critical>>

-----------------------------------------------------------------------------
(* sched_thread (lines 71-141).                                            *)

SchedLock ==
    /\ pc[Sched] = "s_lock"
    /\ mtx = NoThread
    /\ mtx' = Sched
    /\ pc' = [pc EXCEPT ![Sched] = "s_loop"]
    /\ UNCHANGED <<timers, nextId, now, cvWait, deadline, running, frame, cur,
                   mainPc, nextKey, handles, freed, critical, cancelledOk>>

\* One pass of the while (g_running) loop with g_mtx held: leave; wait on
\* g_cv when the list is empty; pop the head and unlock when it is due;
\* otherwise wait on g_cv until the head's due time.
SchedLoop ==
    /\ pc[Sched] = "s_loop"
    /\ \/ /\ ~running
          /\ mtx' = NoThread
          /\ pc' = [pc EXCEPT ![Sched] = "s_exit"]
          /\ UNCHANGED <<timers, cvWait, deadline, cur>>
       \/ /\ running /\ timers = <<>>
          /\ cvWait' = cvWait \cup {Sched}
          /\ deadline' = NoDeadline
          /\ mtx' = NoThread
          /\ pc' = [pc EXCEPT ![Sched] = "s_wait"]
          /\ UNCHANGED <<timers, cur>>
       \/ /\ running /\ timers # <<>> /\ DueReached(Head(timers).due)
          /\ cur' = Head(timers)
          /\ timers' = Tail(timers)
          /\ mtx' = NoThread
          /\ pc' = [pc EXCEPT ![Sched] = "s_cb"]
          /\ UNCHANGED <<cvWait, deadline>>
       \/ /\ running /\ timers # <<>> /\ ~DueReached(Head(timers).due)
          /\ cvWait' = cvWait \cup {Sched}
          /\ deadline' = Head(timers).due
          /\ mtx' = NoThread
          /\ pc' = [pc EXCEPT ![Sched] = "s_wait"]
          /\ UNCHANGED <<timers, cur>>
    /\ UNCHANGED <<nextId, now, running, frame, mainPc, nextKey, handles, freed,
                   critical, cancelledOk>>

\* pthread_cond_wait / pthread_cond_timedwait return after a broadcast or
\* once the deadline has passed, with g_mtx reacquired.
SchedWake ==
    /\ pc[Sched] = "s_wait"
    /\ Sched \notin cvWait \/ deadline <= now
    /\ mtx = NoThread
    /\ mtx' = Sched
    /\ cvWait' = cvWait \ {Sched}
    /\ pc' = [pc EXCEPT ![Sched] = "s_loop"]
    /\ UNCHANGED <<timers, nextId, now, deadline, running, frame, cur, mainPc,
                   nextKey, handles, freed, critical, cancelledOk>>

\* The callback returns.
CallbackReturn ==
    /\ pc[Sched] = "s_cb"
    /\ pc' = [pc EXCEPT ![Sched] = "s_post"]
    /\ UNCHANGED <<timers, nextId, now, mtx, cvWait, deadline, running, frame,
                   cur, mainPc, nextKey, handles, freed, critical, cancelledOk>>

\* The callback faults; the crash handler longjmps to the sigsetjmp and the
\* thread records a critical error for the timer's plugin and id.
CallbackFault ==
    /\ "fault" \in CallbackActs
    /\ pc[Sched] = "s_cb"
    /\ critical' = critical \cup {[pid |-> cur.pid, id |-> cur.id]}
    /\ pc' = [pc EXCEPT ![Sched] = "s_post"]
    /\ UNCHANGED <<timers, nextId, now, mtx, cvWait, deadline, running, frame,
                   cur, mainPc, nextKey, handles, freed, cancelledOk>>

\* After the callback, under g_mtx: a repeating timer is re-armed from the
\* current time and reinserted while g_running holds; otherwise freed.
SchedPost ==
    /\ pc[Sched] = "s_post"
    /\ mtx = NoThread
    /\ mtx' = Sched
    /\ IF cur.rep /\ running
       THEN /\ timers' = InsertTimer(timers, [cur EXCEPT !.due = DueAt(cur.interval),
                                                          !.want = now + cur.interval])
            /\ UNCHANGED freed
       ELSE /\ Free(cur.key)
            /\ UNCHANGED timers
    /\ cur' = NoTimer
    /\ pc' = [pc EXCEPT ![Sched] = "s_loop"]
    /\ UNCHANGED <<nextId, now, cvWait, deadline, running, frame, mainPc, nextKey,
                   handles, critical, cancelledOk>>

\* A call into the scheduler API made by thread t for plugin pid.
ApiCall(t, pid, acts) ==
    /\ \/ \E ms \in Delays : "after" \in acts /\ TimerCall(t, "after", pid, ms)
       \/ \E ms \in Delays : "every" \in acts /\ TimerCall(t, "every", pid, ms)
       \/ "cancel" \in acts /\ CancelCall(t, pid)
    /\ UNCHANGED <<timers, now, mtx, cvWait, deadline, running, cur, mainPc,
                   handles, critical>>

\* The callback calls the scheduler through its plugin's bound stubs.
CallbackCalls ==
    /\ pc[Sched] = "s_cb"
    /\ ApiCall(Sched, cur.pid, CallbackActs)

ClientCall(c) ==
    /\ pc[c] = "idle"
    /\ \E pid \in Plugins : ApiCall(c, pid, {"after", "every", "cancel"})

-----------------------------------------------------------------------------
(* scheduler_shutdown (lines 154-177) on the host thread.                  *)

\* Under g_mtx: clear g_running and broadcast g_cv.
ShutdownSignal ==
    /\ mainPc = "m_run"
    /\ mtx = NoThread
    /\ running' = FALSE
    /\ WakeScheduler
    /\ mainPc' = "m_join"
    /\ UNCHANGED <<timers, nextId, now, mtx, deadline, pc, frame, cur, nextKey,
                   handles, freed, critical, cancelledOk>>

\* Join the scheduler thread, then under g_mtx free every listed timer.
ShutdownJoin ==
    /\ mainPc = "m_join"
    /\ pc[Sched] = "s_exit"
    /\ mtx = NoThread
    /\ freed' = [k \in Keys |-> IF \E i \in DOMAIN timers : timers[i].key = k
                                THEN freed[k] + 1 ELSE freed[k]]
    /\ timers' = <<>>
    /\ mainPc' = "m_done"
    /\ UNCHANGED <<nextId, now, mtx, cvWait, deadline, running, pc, frame, cur,
                   nextKey, handles, critical, cancelledOk>>

\* The clock advances.
Tick ==
    /\ now < MaxTime
    /\ now' = now + 1
    /\ UNCHANGED <<timers, nextId, mtx, cvWait, deadline, running, pc, frame, cur,
                   mainPc, nextKey, handles, freed, critical, cancelledOk>>

-----------------------------------------------------------------------------

\* After scheduler_init: g_running set, the thread created and about to
\* take g_mtx, no timers.
Init ==
    /\ timers = <<>>
    /\ nextId = 1
    /\ now = 0
    /\ mtx = NoThread
    /\ cvWait = {}
    /\ deadline = NoDeadline
    /\ running = TRUE
    /\ pc = [t \in Threads |-> IF t = Sched THEN "s_lock" ELSE "idle"]
    /\ frame = [t \in Threads |-> NoFrame]
    /\ cur = NoTimer
    /\ mainPc = "m_run"
    /\ nextKey = 1
    /\ handles = {}
    /\ freed = [k \in Keys |-> 0]
    /\ critical = {}
    /\ cancelledOk = {}

\* The steps of an API call in progress.
InCall(t) == TimerInit(t) \/ TimerInsert(t) \/ TimerReturn(t) \/ Cancel(t)

SchedStep ==
    \/ SchedLock \/ SchedLoop \/ SchedWake \/ SchedPost
    \/ CallbackReturn \/ CallbackFault \/ CallbackCalls

Next ==
    \/ \E t \in Threads : InCall(t)
    \/ SchedStep
    \/ \E c \in Clients : ClientCall(c)
    \/ ShutdownSignal \/ ShutdownJoin
    \/ Tick

\* The scheduler thread and a thread inside an API call keep running; a
\* plugin need not call, the host need not shut down, and the clock need
\* not advance (a due timer needs no further tick to fire).  A callback is
\* plugin code that finishes: it may call the API any number of times,
\* but it returns or faults in the end (strong fairness, as the nested
\* calls disable the finish step while they run).
Fairness ==
    /\ WF_vars(SchedStep)
    /\ SF_vars(CallbackReturn \/ CallbackFault)
    /\ \A t \in Threads : WF_vars(InCall(t))
    /\ WF_vars(ShutdownJoin)

Spec == Init /\ [][Next]_vars
FairSpec == Spec /\ Fairness

-----------------------------------------------------------------------------
(* Properties *)

Pending(k) == \E i \in DOMAIN timers : timers[i].key = k
Firing(k)  == cur.key = k
\* The thread inside scheduler_after_ms / every_ms that still holds the
\* allocation it has not yet linked into the list.
Building(k) == \E t \in Threads : pc[t] \in {"a_inc", "a_lock"} /\ frame[t].key = k

\* Every timer allocation is in exactly one place at a time: being built by
\* the thread that allocated it, in g_timers once, being fired by
\* sched_thread, or freed once (by the fire of a one-shot, by cancel, or by
\* shutdown).  Catches a timer lost, listed twice, freed twice, or freed
\* while still listed or firing.
TimerOwnership ==
    \A k \in 1..(nextKey - 1) :
        Cardinality({i \in DOMAIN timers : timers[i].key = k})
        + (IF Firing(k) THEN 1 ELSE 0) + (IF Building(k) THEN 1 ELSE 0)
        + freed[k] = 1

\* sched_thread fires timers in due-time order (spec 5): when it pops a
\* timer, no timer left in the list was due earlier.
FiresInDueOrder ==
    [][pc[Sched] = "s_loop" /\ pc'[Sched] = "s_cb"
         => \A i \in DOMAIN timers' : cur'.want <= timers'[i].want]_vars

\* A timer's callback never runs before its delay has elapsed (spec 8:
\* after_ms(ms) fires no earlier than ms after registration; every_ms
\* re-arms from the fire time).
NoEarlyFire == pc[Sched] = "s_cb" => cur.want <= now

\* A listed timer whose due time has come is eventually fired or cancelled,
\* unless the scheduler is shut down: after_ms, every_ms and shutdown wake
\* the thread, and its timed wait ends at the head's due time.
DueTimerFires ==
    \A k \in Keys :
        (\E i \in DOMAIN timers : timers[i].key = k /\ timers[i].due <= now)
            ~> (~Pending(k) \/ ~running)

\* The id that scheduler_after_ms / every_ms returns is the id of the timer
\* it created (scheduler.h: "returns timer id >= 1 on success").
ReturnedIdNamesTimer == \A h \in handles : h.id = h.given

\* A cancel that returned 0 for an id the plugin was given stops that timer:
\* its callback never runs afterwards (spec 8: "cancel(1, id) immediately
\* after returns 0; cb is never invoked").
CancelStopsTimer == pc[Sched] = "s_cb" => cur.key \notin cancelledOk

=============================================================================
