------------------------- MODULE MC_FaultReporting -------------------------
(* FaultReporting for TLC: a callback may fault 96 bytes below the worker's *)
(* frame (inside the crash handler's scan window) or 1100 bytes below it   *)
(* (outside); a bitmap of 2 bits over 3 slots keeps the code's 32 bits over *)
(* 63 slots, so the last slot aliases the first bit.                       *)
EXTENDS FaultReporting

MCDepths == {96, 1100}
=============================================================================
