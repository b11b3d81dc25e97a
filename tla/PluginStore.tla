----------------------------- MODULE PluginStore -----------------------------
(***************************************************************************)
(* The plugin manager (PluginManager) composed with the property store it  *)
(* fills (HeapKit).  plugin_load reads the manifest, which takes the next *)
(* id, then plugin_data_set (plugin_loader.c lines 183-263) registers the  *)
(* schema's structs one by one under that id and gives up at the first    *)
(* hk_type_register that fails, leaving the structs before it registered. *)
(* The stubs, dlopen or a missing initialize symbol may still fail the    *)
(* load after that.  The loader's step and the store's registrations are  *)
(* one step: plugin_init runs on the main thread before anything else     *)
(* touches the store.                                                     *)
(*                                                                         *)
(* Afterwards a started plugin writes fields of its own structs, and the  *)
(* gateway library, which the control socket can load only once core_init *)
(* has returned (cored.c), reads and writes instances as text.           *)
(***************************************************************************)
EXTENDS Naturals, Sequences, SequencesExt, FiniteSets

CONSTANTS
    Dirs, MaxOps,
    Schema,     \* directory -> its schema file: struct names in file order
    TypeNames, Layout, Kind, MaxTypes, Ints, Chars, Strs, NUL, NULL, MaxHkOps

VARIABLES
    phase, next, currentId, recs, ops, life, shutCalls, everInited, tornDown,
    reg, gw, hkOps

PM == INSTANCE PluginManager
HK == INSTANCE HeapKit WITH Pids <- PM!Ids

pmvars == <<phase, next, currentId, recs, ops, life, shutCalls, everInited, tornDown>>
hkvars == <<reg, gw, hkOps>>
vars   == <<pmvars, hkvars>>

TypeOK == PM!TypeOK /\ HK!TypeOK

-----------------------------------------------------------------------------
(* plugin_data_set *)

\* plugin_data_set when it ignores hk_type_register's result.
RECURSIVE RegisterAllIgnoreFail(_, _, _)
RegisterAllIgnoreFail(r, p, s) ==
    IF s = <<>> THEN {[ok |-> TRUE, reg |-> r]}
    ELSE RegisterAllIgnoreFail(IF HK!RegisterCode(r, p, Head(s)) = 0
                           THEN Append(r, HK!Fresh(p, Head(s))) ELSE r, p, Tail(s))

\* The outcomes of registering the structs s under id p: [ok, reg].  Each
\* struct is either registered or its hk_type_register fails (a duplicate,
\* a full registry, or calloc), and the loop returns 1 at the first failure.
RECURSIVE RegisterAll(_, _, _)
RegisterAll(r, p, s) ==
    IF s = <<>> THEN {[ok |-> TRUE, reg |-> r]}
    ELSE {[ok |-> FALSE, reg |-> r]}
         \cup (IF HK!RegisterCode(r, p, Head(s)) = 0
               THEN RegisterAll(Append(r, HK!Fresh(p, Head(s))), p, Tail(s))
               ELSE {})

\* plugin_data_set: fopen may fail before anything is registered.
DataSet(r, p, s) == {[ok |-> FALSE, reg |-> r]} \cup RegisterAll(r, p, s)

\* One candidate of plugin_init: the manager's step, with the store as
\* plugin_data_set leaves it.  A candidate that fails before its id is
\* taken registers nothing; one that becomes a record passed
\* plugin_data_set; one that fails after taking its id may have failed in
\* plugin_data_set or after it.
Load ==
    /\ \E o \in PM!LoadOutcomes :
          /\ PM!LoadAs(o)
          /\ \E d \in DataSet(reg, currentId, Schema[next]) :
                CASE o = "early_fail" -> reg' = reg
                  [] o = "ok"         -> d.ok /\ reg' = d.reg
                  [] o = "late_fail"  -> reg' = d.reg
    /\ UNCHANGED <<gw, hkOps>>

\* The manager's other steps leave the store alone.
Manage ==
    /\ \/ PM!EndDiscover \/ PM!InitRecord \/ PM!EndInit
       \/ \E id \in PM!Ids :
             /\ PM!ResolveId(id)
             /\ \/ PM!PluginShutdown(PM!ById(id))
                \/ PM!PluginInitialize(PM!ById(id))
                \/ PM!PluginStart(PM!ById(id))
                \/ PM!PluginStop(PM!ById(id))
                \/ \E a \in {0, 1} : PM!Reboot(PM!ById(id), a)
    /\ UNCHANGED hkvars

\* A started plugin's hk_set_field on one of its structs, through its stub.
PluginSet ==
    /\ phase # "discover"
    /\ \E i \in DOMAIN recs, t \in TypeNames, f \in HK!Fields :
          /\ PM!Listed(i) /\ life[recs[i].dir] = "started"
          /\ \E v \in HK!Written(f) : HK!SetField(recs[i].id, t, f, v)
    /\ UNCHANGED pmvars

\* The gateway library's requests, once core_init has returned.
Gateway ==
    /\ phase = "run"
    /\ \/ \E p \in PM!Ids, t \in TypeNames : HK!GetType(p, t)
       \/ HK!SetType
    /\ UNCHANGED pmvars

Init == PM!Init /\ HK!Init

Next == Load \/ Manage \/ PluginSet \/ Gateway

Spec == Init /\ [][Next]_vars

-----------------------------------------------------------------------------
(* Properties *)

StartedOnlyIfInitialized == PM!StartedOnlyIfInitialized
IdsUnique == PM!IdsUnique

\* Every plugin that plugin_init keeps finds each struct of its schema in
\* the store under its own id: a schema that does not fit (a duplicate
\* struct, a registry already holding MAX_REGISTERED_TYPES structs, some of
\* them left by candidates that failed later) fails the load instead of
\* leaving the plugin with hk_set_field/hk_get_field returning -1.
LoadedTypesResolvable ==
    \A i \in DOMAIN recs :
        PM!Listed(i) =>
            \A t \in Range(Schema[recs[i].dir]) : HK!Find(reg, recs[i].id, t) # 0

=============================================================================
