---------------------------- MODULE MC_Scheduler ----------------------------
(* Instantiates Scheduler for TLC: one plugin thread beside the scheduler  *)
(* thread; the cfg gives the delays, the clock's bound MaxTime and the     *)
(* modulus TimeMod that stands for uint64_t (a delay of TimeMod - 1 plays  *)
(* the part of a delay near 2^64).                                         *)
EXTENDS Scheduler, TLC

\* callbacks that return or fault
SafeCallbacks == {"return", "fault"}
\* callbacks that also arm and cancel timers
ReentrantCallbacks == {"return", "fault", "after", "every", "cancel"}
====
