\* Names of up to three bytes in four bytes of memory, 16 scaled to 2, so a
\* name reaches the vector loop, on every build that links.  The shortest
\* counterexample is the RISC-V branch; with Targets = {"neon"} or {"sve"}
\* alone TLC finds names that differ only after the NUL.
CONSTANTS
    Bytes = {1, 2}
    Mem = 4
    W = 2
    VL = 4
    VLMax = 2
    Targets <- MCTargets
SPECIFICATION Spec
INVARIANT MatchIsExact
CHECK_DEADLOCK FALSE
