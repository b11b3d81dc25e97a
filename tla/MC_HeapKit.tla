------------------------------ MODULE MC_HeapKit ------------------------------
(* HeapKit for TLC: one plugin's struct with a char field before a string  *)
(* and an int, and a second struct with a bool and a ptr.                  *)
EXTENDS HeapKit

MCLayout == [t \in TypeNames |-> IF t = "cfg" THEN <<"mode", "label", "count">>
                                 ELSE <<"on", "handle">>]
MCKind == [f \in {"mode", "label", "count", "on", "handle"} |->
             CASE f = "mode" -> "char" [] f = "label" -> "string"
               [] f = "count" -> "int" [] f = "on" -> "bool" [] OTHER -> "ptr"]
MCStrs == {<<"a">>, <<"a", ";">>}
=============================================================================
