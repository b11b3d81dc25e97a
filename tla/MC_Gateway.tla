----------------------------- MODULE MC_Gateway -----------------------------
(* Instantiates Gateway for TLC: two producers, lines of one or two bytes  *)
(* and an arena of six, so that the arena fills and a line is dropped.     *)
EXTENDS Gateway

\* gateway_init_lib's failures, grouped: a missing file, a failed dlopen,
\* and a missing symbol (the five symbol errors differ only in the text).
MCLoadFailures == {"not_found", "dlopen_failed", "no_symbol"}
=============================================================================
