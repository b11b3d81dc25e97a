----------------------- MODULE MC_CriticalErrorQueue ------------------------
EXTENDS CriticalErrorQueue, TLC
=============================================================================
