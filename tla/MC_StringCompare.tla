--------------------------- MODULE MC_StringCompare ---------------------------
EXTENDS StringCompare

\* Every build of optimized_strcmp that links.
MCTargets == {"generic", "neon", "sve", "riscv"}
=============================================================================
