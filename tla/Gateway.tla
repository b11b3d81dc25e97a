------------------------------ MODULE Gateway ------------------------------
(***************************************************************************)
(* The gateway of src/src/gateway/ and its control front end.              *)
(*                                                                         *)
(* The control thread (core_loop of cored.c) waits for SIGUSR1, then runs *)
(* unix_sock_ctl_run: a listening socket, one CLI connection at a time,   *)
(* both with a select timeout, and handle_ctl_command for each command    *)
(* read.  "start" loads a gateway library (gateway_init_lib), which starts *)
(* the dispatcher, and starts it (gateway_start_lib).  handle_ctl_command *)
(* tests its own file-static gateway_is_alive (core_ctl.c line 32), which *)
(* nothing assigns, not the global of gateway.c.                          *)
(*                                                                         *)
(* Producers (bus workers, the scheduler, the critical-error path) test   *)
(* g_gateway_connected_flag and call gateway_msg_send, which appends a    *)
(* line to the dispatcher's arena under gateway_d_flush_mutex, or drops   *)
(* it when the arena is full.  The dispatcher thread polls every          *)
(* FLUSH_INTERVAL_MS and hands the arena to the library's on_data.        *)
(*                                                                         *)
(* A line is a message id and a length; the arena holds chunks: a line's *)
(* text, then its '\n'.  File names, symbol lookup and the response text *)
(* are outcomes and reply kinds.                                           *)
(***************************************************************************)
EXTENDS Naturals, Sequences, SequencesExt

CONSTANTS
    Producers,      \* threads that call gateway_msg_send
    Lens,           \* lengths of a formatted line (strlen(safe_buf))
    Cap,            \* MAX_TOTAL_SIZE, the arena's bytes
    MaxMsgs,        \* bound: lines sent
    LoadFailures,   \* how gateway_init_lib may fail on a file it is given
    Dispatcher,     \* the dispatcher thread, as a mutex owner
    NULL

Cmds == {"start", "stop", "restart", "status", "unknown", "invalid"}
Chunk == [m : 1..MaxMsgs, part : {"text", "nl"}]

VARIABLES
    connected,      \* g_gateway_connected_flag
    alive,          \* gateway_is_alive of gateway.c
    ctlRun,         \* g_ctl_run of cored.c
    cpc,            \* the control thread
    reply,          \* the kind of response written for the last command
    arena,          \* arena_d_instance: NULL or the chunks below current_offset
    offset,         \* current_offset
    running,        \* dispatcher_running
    fOwner,         \* holder of gateway_d_flush_mutex
    dpc,            \* the dispatcher thread
    ppc, pmsg,      \* each producer's place in gateway_msg_send, and its line
    nextMsg,        \* the next line id
    \* history, read only by the properties
    handed,         \* the buffers passed to on_data, in order
    written,        \* chunks producers wrote into the arena, in order
    dropped         \* lines refused as "Buffer full"

libVars  == <<connected, alive>>
ctlVars  == <<ctlRun, cpc, reply>>
dVars    == <<arena, offset, running, fOwner, dpc>>
pVars    == <<ppc, pmsg, nextMsg>>
histVars == <<handed, written, dropped>>
vars == <<libVars, ctlVars, dVars, pVars, histVars>>

TypeOK ==
    /\ connected \in {0, 1} /\ alive \in {0, 1}
    /\ ctlRun \in BOOLEAN
    /\ cpc \in {"wait", "serve", "listen", "client"}
    /\ arena \in Seq(Chunk) \cup {NULL}
    /\ offset \in 0..Cap
    /\ running \in BOOLEAN
    /\ fOwner \in Producers \cup {Dispatcher, NULL}
    /\ dpc \in {"none", "sleep", "flush", "hand", "unlock", "exit"}
    /\ ppc \in [Producers -> {"idle", "check", "lock", "text", "nl", "unlock"}]
    /\ nextMsg \in 1..(MaxMsgs + 1)
    /\ handed \in Seq(Seq(Chunk)) /\ written \in Seq(Chunk)

-----------------------------------------------------------------------------
(* Helpers *)

\* core_ctl.c line 32: a second gateway_is_alive, file-static, never set.
CtlGatewayIsAlive == 0

\* gateway_dispatcher_init (lines 43-52): a fresh arena, running, thread.
StartDispatcherNotRunning ==
    /\ arena' = <<>> /\ offset' = 0 /\ running' = FALSE /\ dpc' = "sleep"

StartDispatcher ==
    /\ arena' = <<>> /\ offset' = 0 /\ running' = TRUE /\ dpc' = "sleep"

\* gateway_init_lib (lines 117-170): refuse when alive; otherwise the file
\* may be missing, fail to load or lack a symbol; on success init_fn, the
\* dispatcher, and the connected flag.  res is its result.
InitLib(res) ==
    IF alive = 1
    THEN res = "already" /\ UNCHANGED <<connected, arena, offset, running, dpc>>
    ELSE \/ res \in LoadFailures /\ UNCHANGED <<connected, arena, offset, running, dpc>>
         \/ res = "ok" /\ StartDispatcher /\ connected' = 1

\* gateway_start_lib (lines 172-178), after a successful init.
StartLib(res) ==
    alive' = IF res = "ok" /\ connected' = 1 /\ alive = 0 THEN 1 ELSE alive

\* The release of gateway_d_flush_mutex at the end of gateway_d_flush.
ReleaseFlushKeep == fOwner' = fOwner

ReleaseFlush == fOwner' = NULL

\* The lock of gateway_d_flush (line 94).
AcquireFlushUnlocked == fOwner' = fOwner

AcquireFlush == fOwner = NULL /\ fOwner' = Dispatcher

\* Line 76: the line and its '\n' do not fit below MAX_TOTAL_SIZE.
FullOffByOne(p) == offset + pmsg[p].len > Cap

Full(p) == offset + pmsg[p].len + 1 >= Cap

\* Lines 96-101: copy the arena, hand it to on_data, reset the offset.
HandKeep ==
    /\ handed' = Append(handed, arena)
    /\ UNCHANGED <<arena, offset>>

Hand ==
    /\ handed' = Append(handed, arena)
    /\ arena' = <<>> /\ offset' = 0

-----------------------------------------------------------------------------
(* The control thread: core_loop and unix_sock_ctl_run *)

\* signal_cli_handle: SIGUSR1 sets g_ctl_run and signals g_cond.
Sigusr1 ==
    /\ ~ctlRun /\ ctlRun' = TRUE
    /\ UNCHANGED <<libVars, cpc, reply, dVars, pVars, histVars>>

\* core_loop (lines 40-55): wait for g_ctl_run, then unix_sock_ctl_run;
\* g_ctl_run is never cleared, so the server is run again when it returns.
CoreLoop ==
    /\ cpc = "wait" /\ ctlRun /\ cpc' = "serve"
    /\ UNCHANGED <<libVars, ctlRun, reply, dVars, pVars, histVars>>

\* create_and_bind_socket (lines 34-66) succeeds or fails (return -1).
CreateSocket ==
    /\ cpc = "serve" /\ cpc' \in {"listen", "wait"}
    /\ UNCHANGED <<libVars, ctlRun, reply, dVars, pVars, histVars>>

\* Lines 152-171: select on the listening socket; a timeout, a select or
\* accept error ends unix_sock_ctl_run; a connection is served.
Accept ==
    /\ cpc = "listen" /\ cpc' \in {"client", "wait"}
    /\ UNCHANGED <<libVars, ctlRun, reply, dVars, pVars, histVars>>

\* Lines 176-193 and 208-209: a select timeout, an error or end of file
\* closes the connection and the server listens again.
CloseClient ==
    /\ cpc = "client" /\ cpc' = "listen"
    /\ UNCHANGED <<libVars, ctlRun, reply, dVars, pVars, histVars>>

\* The flag as gateway_stop_lib (lines 180-186) leaves it: cleared when
\* the gateway is connected and alive (stop_fn is the library's).
StopLibFlag == IF connected = 1 /\ alive = 1 THEN 0 ELSE connected

\* gateway_dispatcher_close (lines 55-65): clear dispatcher_running, join
\* the thread (it leaves at its loop test), free the arena.
DispatcherClose ==
    /\ dpc = "sleep" /\ dpc' = "exit" /\ running' = FALSE
    /\ arena' = NULL /\ offset' = 0

\* gateway_close_lib (lines 198-210) with gateway_clear (212-224), run on
\* the flag c that gateway_stop_lib left.
CloseLib(c) ==
    IF c = 1
    THEN connected' = 0 /\ alive' = 0 /\ DispatcherClose
    ELSE connected' = c /\ UNCHANGED <<alive, arena, offset, running, dpc>>

\* gateway_restart_lib (lines 188-196): stop_fn and start_fn, with the
\* flag cleared between them; it ends as it was.
RestartLib == UNCHANGED <<connected, alive, arena, offset, running, dpc>>

\* Lines 88-98 and 111-122: load and start a library, and the reply.
Load(cmd, res) ==
    /\ InitLib(res) /\ StartLib(res)
    /\ reply' = IF res = "ok" THEN cmd ELSE cmd \o "_failed"

\* A reply that changes nothing else.
Answer(r) == reply' = r /\ UNCHANGED <<connected, alive, arena, offset, running, dpc>>

\* handle_ctl_command (lines 68-134) for a command read from the CLI (line
\* 200), every branch on its own CtlGatewayIsAlive.  That is always 0: the
\* start and restart of a running gateway, the stop and the close are
\* never reached.
Command ==
    /\ cpc = "client"
    /\ \E cmd \in Cmds, res \in LoadFailures \cup {"ok", "already"} :
        CASE cmd = "start" ->
               IF CtlGatewayIsAlive = 0 THEN Load(cmd, res)
               ELSE res = "ok" /\ Answer("start")
          [] cmd = "restart" ->
               IF CtlGatewayIsAlive = 0 THEN Load(cmd, res)
               ELSE res = "ok" /\ RestartLib /\ reply' = "restart"
          [] cmd = "stop" ->
               IF CtlGatewayIsAlive # 0
               THEN res = "ok" /\ CloseLib(StopLibFlag) /\ reply' = "stop"
               ELSE res = "ok" /\ Answer("stop_failed")
          [] cmd = "status" ->
               res = "ok" /\ Answer(IF CtlGatewayIsAlive # 0 THEN "running" ELSE "stopped")
          [] OTHER -> res = "ok" /\ Answer(cmd)
    /\ UNCHANGED <<ctlRun, cpc, fOwner, pVars, histVars>>

-----------------------------------------------------------------------------
(* Producers: gateway_msg_send and gateway_d_msg_add *)

\* A caller that finds g_gateway_connected_flag set formats a line and
\* calls gateway_msg_send (e.g. event_bus.c lines 140-143).
Send(p) ==
    /\ ppc[p] = "idle" /\ connected = 1 /\ nextMsg <= MaxMsgs
    /\ \E len \in Lens : pmsg' = [pmsg EXCEPT ![p] = [m |-> nextMsg, len |-> len]]
    /\ nextMsg' = nextMsg + 1 /\ ppc' = [ppc EXCEPT ![p] = "check"]
    /\ UNCHANGED <<libVars, ctlVars, dVars, histVars>>

\* Line 69: the arena test, made without the mutex.
CheckArena(p) ==
    /\ ppc[p] = "check"
    /\ ppc' = [ppc EXCEPT ![p] = IF arena = NULL THEN "idle" ELSE "lock"]
    /\ UNCHANGED <<libVars, ctlVars, dVars, pmsg, nextMsg, histVars>>

\* Lines 74-80: take the mutex; a line that does not fit is dropped and
\* the mutex given back.
LockArena(p) ==
    /\ ppc[p] = "lock" /\ fOwner = NULL
    /\ IF Full(p)
       THEN /\ dropped' = dropped \cup {pmsg[p].m}
            /\ ppc' = [ppc EXCEPT ![p] = "idle"]
            /\ UNCHANGED fOwner
       ELSE /\ fOwner' = p /\ ppc' = [ppc EXCEPT ![p] = "text"]
            /\ UNCHANGED dropped
    /\ UNCHANGED <<libVars, ctlVars, arena, offset, running, dpc, pmsg, nextMsg, handed, written>>

\* Lines 82-83 (memcpy, offset += len) and line 85 (the '\n').
Append1(p, part, n, next) ==
    /\ ppc[p] = part
    /\ LET c == [m |-> pmsg[p].m, part |-> part] IN
         /\ arena' = Append(arena, c) /\ written' = Append(written, c)
    /\ offset' = offset + n
    /\ ppc' = [ppc EXCEPT ![p] = next]
    /\ UNCHANGED <<libVars, ctlVars, running, fOwner, dpc, pmsg, nextMsg, handed, dropped>>

CopyText(p) == Append1(p, "text", pmsg[p].len, "nl")

CopyNewline(p) == Append1(p, "nl", 1, "unlock")

\* Line 87.
UnlockArena(p) ==
    /\ ppc[p] = "unlock"
    /\ fOwner' = NULL /\ ppc' = [ppc EXCEPT ![p] = "idle"]
    /\ UNCHANGED <<libVars, ctlVars, arena, offset, running, dpc, pmsg, nextMsg, histVars>>

-----------------------------------------------------------------------------
(* The dispatcher thread: dispatcher_loop and gateway_d_flush *)

\* Lines 29-37: while running, sleep, then read current_offset under the
\* mutex; when there is data, flush.  Lock, read and unlock are one step.
Poll ==
    /\ dpc = "sleep"
    /\ IF running
       THEN /\ fOwner = NULL
            /\ dpc' = IF offset > 0 THEN "flush" ELSE "sleep"
       ELSE dpc' = "exit"
    /\ UNCHANGED <<libVars, ctlVars, arena, offset, running, fOwner, pVars, histVars>>

\* gateway_d_flush line 92, without the mutex, then line 94.
FlushLock ==
    /\ dpc = "flush"
    /\ IF arena = NULL \/ offset = 0
       THEN dpc' = "sleep" /\ UNCHANGED fOwner
       ELSE AcquireFlush /\ dpc' = "hand"
    /\ UNCHANGED <<libVars, ctlVars, arena, offset, running, pVars, histVars>>

FlushHand ==
    /\ dpc = "hand" /\ Hand /\ dpc' = "unlock"
    /\ UNCHANGED <<libVars, ctlVars, running, fOwner, pVars, written, dropped>>

FlushUnlock ==
    /\ dpc = "unlock" /\ ReleaseFlush /\ dpc' = "sleep"
    /\ UNCHANGED <<libVars, ctlVars, arena, offset, running, pVars, histVars>>

Dispatch == Poll \/ FlushLock \/ FlushHand \/ FlushUnlock

-----------------------------------------------------------------------------

\* Zero-initialised statics; core_loop waits for SIGUSR1.
Init ==
    /\ connected = 0 /\ alive = 0
    /\ ctlRun = FALSE /\ cpc = "wait" /\ reply = "none"
    /\ arena = NULL /\ offset = 0 /\ running = FALSE /\ fOwner = NULL /\ dpc = "none"
    /\ ppc = [p \in Producers |-> "idle"]
    /\ pmsg = [p \in Producers |-> [m |-> 1, len |-> 0]]
    /\ nextMsg = 1
    /\ handed = <<>> /\ written = <<>> /\ dropped = {}

InSend(p) == CheckArena(p) \/ LockArena(p) \/ CopyText(p) \/ CopyNewline(p) \/ UnlockArena(p)

Next ==
    \/ Sigusr1 \/ CoreLoop \/ CreateSocket \/ Accept \/ CloseClient \/ Command
    \/ \E p \in Producers : Send(p) \/ InSend(p)
    \/ Dispatch

\* The dispatcher and a producer inside gateway_msg_send are threads the
\* OS keeps running.  Signals, connections, commands and sends need not come.
Fairness ==
    /\ WF_vars(Dispatch)
    /\ \A p \in Producers : WF_vars(InSend(p))

Spec == Init /\ [][Next]_vars
FairSpec == Spec /\ Fairness

-----------------------------------------------------------------------------
(* Properties *)

ArenaChunks == IF arena = NULL THEN <<>> ELSE arena

\* The feed seen by the gateway library is the feed the core wrote: the
\* buffers handed to on_data, in order, followed by what is still in the
\* arena, are exactly the chunks producers wrote, in the order they wrote
\* them.  A flush that hands the arena but does not reset current_offset,
\* or resets it over lines added after the copy, breaks it.
FeedIntact == FlattenSeq(handed) \o ArenaChunks = written

\* A buffer holds whole lines: each line's text followed by its '\n'.
IsLines(b) ==
    /\ Len(b) % 2 = 0
    /\ \A i \in 1..Len(b) :
         IF i % 2 = 1 THEN b[i].part = "text"
         ELSE b[i].part = "nl" /\ b[i].m = b[i - 1].m

\* gateway_d_flush takes gateway_d_flush_mutex, so on_data never sees a
\* line that gateway_d_msg_add has copied but not yet terminated, nor two
\* producers' lines interleaved.
WholeLines == \A k \in DOMAIN handed : IsLines(handed[k])

Written(m) == \E i \in DOMAIN written : written[i] = [m |-> m, part |-> "nl"]
Handed(m)  == \E k \in DOMAIN handed : \E i \in DOMAIN handed[k] : handed[k][i].m = m

\* Every line gateway_d_msg_add accepted is eventually handed to on_data:
\* the dispatcher thread keeps polling and nothing stops it.
SentLineHanded == \A m \in 1..MaxMsgs : Written(m) ~> Handed(m)

\* A thread that called gateway_msg_send eventually returns from it: the
\* flush, which calls on_data holding the mutex, always gives it back.
SendReturns == \A p \in Producers : ppc[p] # "idle" ~> ppc[p] = "idle"

\* The status command reports the gateway as running exactly when a
\* gateway library is started (gateway_is_alive of gateway.c).
StatusTellsTruth ==
    reply \in {"running", "stopped"} => ((reply = "running") = (alive = 1))

=============================================================================
