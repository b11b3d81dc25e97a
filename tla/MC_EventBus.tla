---------------------------- MODULE MC_EventBus ----------------------------
(* Instantiates EventBus for TLC: two workers (the pool has five; two are  *)
(* enough for two callbacks to run at once), one plugin thread, a queue   *)
(* of capacity 2 so that it fills and both indices wrap.                  *)
EXTENDS EventBus, TLC

\* callbacks that return or fault only
SafeCallbacks == {"return", "fault"}
\* callbacks that fault or publish
PublishingCallbacks == {"return", "fault", "publish"}
\* callbacks that also call back into the bus
ReentrantCallbacks == {"return", "fault", "publish", "subscribe"}

WorkerSymmetry == Permutations(Workers)
=============================================================================
