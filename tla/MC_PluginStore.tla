---------------------------- MODULE MC_PluginStore ----------------------------
(* PluginStore for TLC: three plugin directories whose schemas need three *)
(* registry entries in a registry of two, the third with a struct declared *)
(* twice.                                                                  *)
EXTENDS PluginStore

MCDirs == 1..3
MCSchema == [d \in MCDirs |-> CASE d = 1 -> <<"cfg">>
                                [] d = 2 -> <<"state">>
                                [] OTHER -> <<"cfg", "cfg">>]
MCLayout == [t \in TypeNames |-> IF t = "cfg" THEN <<"mode", "count">> ELSE <<"on">>]
MCKind == [f \in {"mode", "count", "on"} |->
             CASE f = "mode" -> "char" [] f = "count" -> "int" [] OTHER -> "bool"]
MCStrs == {}
=============================================================================
