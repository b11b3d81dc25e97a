-------------------------- MODULE MC_CrashRecovery --------------------------
EXTENDS CrashRecovery, TLC

\* A callback faulting in a shallow frame, and one with a 1 KiB local
\* buffer between the stack pointer and the worker's frame.
MCDepths == {96, 1100}
=============================================================================
