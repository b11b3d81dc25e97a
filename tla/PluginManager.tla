---------------------------- MODULE PluginManager ----------------------------
(***************************************************************************)
(* The plugin lifecycle manager of src/src/plugin/plugin_manager.c with    *)
(* the id numbering of plugin_load in src/src/plugin/plugin_loader.c.      *)
(*                                                                         *)
(* plugin_init walks the plugin directory: plugin_load gives every         *)
(* candidate whose manifest it reads the next id (current_id++), may still *)
(* fail after that, and on success the handle is appended to the plugins   *)
(* array.  Then initialize and start run on every record in order; a      *)
(* record that fails is wiped in place by FREE_PLUGIN_HANDLE.  After that  *)
(* the lifecycle operations plugin_shutdown, plugin_initialize,            *)
(* plugin_start, plugin_stop and the gateway's pm_action_reboot act on the *)
(* record get_plugin_by_id finds at index id - 1.  The host serialises     *)
(* them (spec 5), so the model runs them one at a time.                    *)
(*                                                                         *)
(* A record keeps its id, its directory, its state and which entry points  *)
(* dlsym found.  life is the plugin module's own view: which of its entry  *)
(* points have been called, with what result.                              *)
(***************************************************************************)
EXTENDS Naturals, Sequences, FiniteSets

CONSTANTS
    Dirs,       \* plugin directories in readdir order: 1..N
    MaxOps      \* bound: lifecycle operations after plugin_init

\* plugin_state_t
ALIVE   == 0
STOPPED == 1
KILLED  == 2

\* What plugin_load does with a candidate: fail before the manifest is
\* read (no id), fail after it (id consumed: plugin_data_set, the stubs,
\* dlopen, or no initialize symbol), or return a handle.
LoadOutcomes == {"early_fail", "late_fail", "ok"}

Rec == [id : 0..(Cardinality(Dirs) + 1), dir : Dirs \cup {0}, state : {ALIVE, STOPPED, KILLED},
        hasInit : BOOLEAN, hasStart : BOOLEAN, hasStop : BOOLEAN, hasShutdown : BOOLEAN]

\* The record after FREE_PLUGIN_HANDLE: memset to 0, so state is ALIVE.
ZeroRec == [id |-> 0, dir |-> 0, state |-> ALIVE, hasInit |-> FALSE,
            hasStart |-> FALSE, hasStop |-> FALSE, hasShutdown |-> FALSE]

Lives == {"none", "loaded", "init_failed", "inited", "started", "stopped", "shut"}

VARIABLES
    phase,      \* "discover", "init" (the loops of plugin_init) or "run"
    next,       \* the loop index of plugin_init
    currentId,  \* current_id of plugin_loader.c
    recs,       \* plugins[0 .. plugins_count - 1]
    ops,        \* lifecycle operations done
    \* history, read only by the properties
    life,       \* directory -> what its plugin module has been told
    shutCalls,  \* directory -> calls of its shutdown entry point
    everInited, \* directories whose initialize has succeeded once
    tornDown    \* directories with a shutdown symbol whose record was wiped

vars == <<phase, next, currentId, recs, ops, life, shutCalls, everInited, tornDown>>

TypeOK ==
    /\ phase \in {"discover", "init", "run"}
    /\ currentId \in 1..(Cardinality(Dirs) + 1)
    /\ recs \in Seq(Rec)
    /\ ops \in 0..MaxOps
    /\ life \in [Dirs -> Lives]
    /\ shutCalls \in [Dirs -> Nat]
    /\ everInited \subseteq Dirs /\ tornDown \subseteq Dirs

-----------------------------------------------------------------------------
(* Helpers *)

N == Cardinality(Dirs)

\* What the plugin module has been told, per directory (the wiped record
\* has directory 0 and no entry points, so it tells nobody anything).
SetLife(d, v) == IF d \in Dirs THEN [life EXCEPT ![d] = v] ELSE life

\* FREE_PLUGIN_HANDLE when it forgets the memset: the entry points stay.
WipeKeepFuncs(r) == r

\* FREE_PLUGIN_HANDLE: free the strings, dlclose, memset the record to 0.
Wipe(r) == ZeroRec

\* A current_id that starts at PLUGIN_ID_INVALID.
FirstIdZero == 0

\* The initial value of current_id.
FirstId == 1

\* current_id++ of a loader that reuses the id of a failed candidate.
NextIdSame(c) == c

\* current_id++ in plugin_manifest_set.
NextId(c) == c + 1

\* get_plugin_by_id: index id - 1 when 0 < id <= plugins_count, else NULL
\* (0 here; the model's sequences are 1-based, so the index is id).
ById(id) == IF id \in 1..Len(recs) THEN id ELSE 0

\* The KILLED test of plugin_shutdown.
ShutdownAllowed(r) == r.state # KILLED

\* The plugin's start entry point: it reports success or failure.
StartLife(d, ok) == IF ok THEN SetLife(d, "started") ELSE life

-----------------------------------------------------------------------------
(* plugin_init (plugin_manager.c lines 34-110) and plugin_load.            *)

\* One directory entry: plugin_load with outcome o, then append to plugins.
\* The id is taken in plugin_manifest_set (plugin_loader.c line 178),
\* before the steps that may still fail.
LoadAs(o) ==
    /\ phase = "discover" /\ next \in Dirs
    /\ \/ /\ o = "early_fail"
          /\ UNCHANGED <<currentId, recs, life>>
       \/ /\ o = "late_fail"
          /\ currentId' = NextId(currentId)
          /\ UNCHANGED <<recs, life>>
       \/ /\ o = "ok"
          /\ \E hs, hp, hd \in BOOLEAN :
                recs' = Append(recs, [id |-> currentId, dir |-> next, state |-> ALIVE,
                                      hasInit |-> TRUE, hasStart |-> hs,
                                      hasStop |-> hp, hasShutdown |-> hd])
          /\ currentId' = NextId(currentId)
          /\ life' = SetLife(next, "loaded")
    /\ next' = next + 1
    /\ UNCHANGED <<phase, ops, shutCalls, everInited, tornDown>>

LoadCandidate == \E o \in LoadOutcomes : LoadAs(o)

EndDiscover ==
    /\ phase = "discover" /\ next = N + 1
    /\ phase' = "init" /\ next' = 1
    /\ UNCHANGED <<currentId, recs, ops, life, shutCalls, everInited, tornDown>>

\* initialize, then start, on record next.  A failed initialize wipes the
\* record; a failed start calls shutdown if present and wipes it.
InitRecord ==
    /\ phase = "init" /\ next \in 1..Len(recs)
    /\ LET r == recs[next] IN
       \/ /\ recs' = [recs EXCEPT ![next] = Wipe(r)]
          /\ life' = SetLife(r.dir, "init_failed")
          /\ tornDown' = IF r.hasShutdown THEN tornDown \cup {r.dir} ELSE tornDown
          /\ UNCHANGED <<shutCalls, everInited>>
       \/ /\ everInited' = everInited \cup {r.dir}
          /\ \/ /\ r.hasStart
                /\ life' = SetLife(r.dir, "started")
                /\ UNCHANGED <<recs, shutCalls, tornDown>>
             \/ /\ r.hasStart
                /\ recs' = [recs EXCEPT ![next] = Wipe(r)]
                /\ life' = SetLife(r.dir, IF r.hasShutdown THEN "shut" ELSE "inited")
                /\ shutCalls' = IF r.hasShutdown
                                THEN [shutCalls EXCEPT ![r.dir] = @ + 1] ELSE shutCalls
                /\ tornDown' = IF r.hasShutdown THEN tornDown \cup {r.dir} ELSE tornDown
             \/ /\ ~r.hasStart
                /\ life' = SetLife(r.dir, "inited")
                /\ UNCHANGED <<recs, shutCalls, tornDown>>
    /\ next' = next + 1
    /\ UNCHANGED <<phase, currentId, ops>>

EndInit ==
    /\ phase = "init" /\ next = Len(recs) + 1
    /\ phase' = "run"
    /\ UNCHANGED <<next, currentId, recs, ops, life, shutCalls, everInited, tornDown>>

-----------------------------------------------------------------------------
(* Lifecycle operations, one at a time, on the record an id resolves to.  *)
(* Their early returns (invalid id, not found, already in state, no entry *)
(* point) change nothing and are left out.                                *)

ResolveId(id) ==
    /\ phase = "run" /\ ops < MaxOps
    /\ ById(id) # 0
    /\ ops' = ops + 1
    /\ UNCHANGED <<phase, next, currentId>>

\* plugin_shutdown: stop() unless already stopped, shutdown(), KILLED.
PluginShutdown(i) ==
    LET r == recs[i]
        stopCalled == r.hasStop /\ r.state # STOPPED
    IN  /\ ShutdownAllowed(r)
        /\ life' = SetLife(r.dir, IF r.hasShutdown THEN "shut"
                                  ELSE IF stopCalled THEN "stopped" ELSE life[r.dir])
        /\ shutCalls' = IF r.hasShutdown
                        THEN [shutCalls EXCEPT ![r.dir] = @ + 1] ELSE shutCalls
        /\ recs' = [recs EXCEPT ![i].state = KILLED]
        /\ UNCHANGED <<everInited, tornDown>>

\* plugin_initialize: initialize(); on success start() with its result
\* ignored, and ALIVE.
PluginInitialize(i) ==
    LET r == recs[i] IN
    /\ r.state < KILLED /\ r.hasInit
    /\ \/ /\ life' = SetLife(r.dir, "init_failed")
          /\ UNCHANGED <<recs, everInited>>
       \/ /\ everInited' = everInited \cup {r.dir}
          /\ \E ok \in BOOLEAN :
                life' = SetLife(r.dir, IF r.hasStart /\ ok THEN "started" ELSE "inited")
          /\ recs' = [recs EXCEPT ![i].state = ALIVE]
    /\ UNCHANGED <<shutCalls, tornDown>>

\* plugin_start: refused only when ALIVE; start() and ALIVE if it succeeds.
PluginStart(i) ==
    LET r == recs[i] IN
    /\ r.state # ALIVE /\ r.hasStart
    /\ \E ok \in BOOLEAN :
          /\ life' = StartLife(r.dir, ok)
          /\ recs' = IF ok THEN [recs EXCEPT ![i].state = ALIVE] ELSE recs
    /\ UNCHANGED <<shutCalls, everInited, tornDown>>

\* plugin_stop: from ALIVE only, stop() and STOPPED.
PluginStop(i) ==
    LET r == recs[i] IN
    /\ r.state = ALIVE /\ r.hasStop
    /\ life' = SetLife(r.dir, "stopped")
    /\ recs' = [recs EXCEPT ![i].state = STOPPED]
    /\ UNCHANGED <<shutCalls, everInited, tornDown>>

\* pm_action_reboot (the gateway's "reboot" command): action 1 starts
\* anything not ALIVE, ignoring start()'s result; action 0 stops anything
\* not STOPPED.
Reboot(i, action) ==
    LET r == recs[i] IN
    /\ r.hasStart /\ r.hasStop
    /\ \/ /\ action = 1 /\ r.state # ALIVE
          /\ \E ok \in BOOLEAN : life' = StartLife(r.dir, ok)
          /\ recs' = [recs EXCEPT ![i].state = ALIVE]
       \/ /\ action = 0 /\ r.state # STOPPED
          /\ life' = SetLife(r.dir, "stopped")
          /\ recs' = [recs EXCEPT ![i].state = STOPPED]
    /\ UNCHANGED <<shutCalls, everInited, tornDown>>

-----------------------------------------------------------------------------

\* Ids a caller may name: every id the loader has handed out.
Ids == 1..(N + 1)

Init ==
    /\ phase = "discover" /\ next = 1
    /\ currentId = FirstId
    /\ recs = << >>
    /\ ops = 0
    /\ life = [d \in Dirs |-> "none"]
    /\ shutCalls = [d \in Dirs |-> 0]
    /\ everInited = {} /\ tornDown = {}

Next ==
    \/ LoadCandidate \/ EndDiscover \/ InitRecord \/ EndInit
    \/ \E id \in Ids :
          /\ ResolveId(id)
          /\ \/ PluginShutdown(ById(id))
             \/ PluginInitialize(ById(id))
             \/ PluginStart(ById(id))
             \/ PluginStop(ById(id))
             \/ \E a \in {0, 1} : Reboot(ById(id), a)

Spec == Init /\ [][Next]_vars

-----------------------------------------------------------------------------
(* Properties *)

Listed(i) == recs[i].dir # 0

\* No entry point but initialize reaches a plugin whose initialize never
\* succeeded: plugin_init wipes a record whose initialize fails, so neither
\* the start/stop operations nor the gateway's reboot can reach it later.
StartedOnlyIfInitialized ==
    \A d \in Dirs : life[d] \in {"started", "stopped", "shut"} => d \in everInited

\* Two records of loaded plugins never carry the same id: plugin_get_p_id
\* and every caller that names a plugin by id rely on it.
IdsUnique ==
    \A i, j \in DOMAIN recs :
        i # j /\ Listed(i) /\ Listed(j) => recs[i].id # recs[j].id

\* Spec 4.1: no transition is permitted out of Killed.  plugin_start and
\* pm_action_reboot test only for ALIVE/STOPPED.
KilledIsTerminal ==
    [][\A i \in DOMAIN recs : recs[i].state = KILLED => recs'[i].state = KILLED]_vars

\* An id handed out by the loader resolves, through get_plugin_by_id, to the
\* record of the plugin it was given to.
IdResolvesToOwnRecord ==
    \A i \in DOMAIN recs :
        Listed(i) => /\ ById(recs[i].id) # 0
                     /\ recs[ById(recs[i].id)].dir = recs[i].dir

\* Spec 7: a plugin whose initialize fails never appears in the plugin
\* list; pm_list_serialize prints every one of plugins_count records.
FailedPluginNotListed ==
    phase = "run" => \A i \in DOMAIN recs : Listed(i)

\* Spec 4.1: a plugin torn down by plugin_init has had its shutdown entry
\* point called, if it has one (initialize failure as well as start failure).
TornDownPluginsShutDown ==
    \A d \in tornDown : shutCalls[d] >= 1

=============================================================================
