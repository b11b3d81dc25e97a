---------------------------- MODULE StringCompare ----------------------------
(***************************************************************************)
(* optimized_strcmp of src/src/utils/utils_string.c, which bus_publish     *)
(* (event_bus.c:183) and the plugin lookup by name (plugin_manager.c:118)  *)
(* use as an equality test (== 0).                                        *)
(*                                                                         *)
(* A string is the memory it starts: Mem bytes, a 0 somewhere among them,  *)
(* and whatever bytes follow that 0.  Names shorter than W bytes go to     *)
(* strcmp; longer ones to the vector loop the build selects (Target).  W   *)
(* stands for 16, both the length threshold and NEON's vector width; VL is *)
(* svcntb(), the SVE vector length (a multiple of 16); VLMax is the        *)
(* largest vl that __riscv_vsetvl_e8m8 grants.  The AVX2 branch calls      *)
(* simd_strcmp_x86, which is never defined, so such a build does not link  *)
(* and is not a target here.                                               *)
(*                                                                         *)
(* One loop iteration is one step; offsets are 0-based as in the C code.   *)
(***************************************************************************)
EXTENDS Integers, Sequences, SequencesExt, FiniteSetsExt

CONSTANTS
    Bytes,      \* non-zero byte values
    Mem,        \* bytes of memory from the start of a string
    W,          \* 16
    VL,         \* svcntb()
    VLMax,      \* the largest vl of vsetvl_e8m8
    Targets     \* builds: "generic", "neon", "sve", "riscv"

ASSUME Mem % W = 0 /\ VL <= Mem /\ VL % W = 0

VARIABLES
    a, b,       \* the memory at the two arguments
    target,     \* the branch the build compiled
    pc,         \* "call", "loop" (inside the vector function), "done"
    i,          \* the byte offset of the loop (a_ptr - a, or i for SVE)
    res         \* the returned value

vars == <<a, b, target, pc, i, res>>

\* The memory a string can start: at least one 0 within Mem bytes.
Buffers == {m \in [1..Mem -> Bytes \cup {0}] : \E k \in 1..Mem : m[k] = 0}

Byte(m, k) == m[k + 1]

\* strlen(m + off)
Strlen(m, off) == SelectInSeq(SubSeq(m, off + 1, Mem), LAMBDA x : x = 0) - 1

Str(m) == SubSeq(m, 1, Strlen(m, 0))

\* strcmp on unsigned chars, by its sign.
RECURSIVE Cmp(_, _)
Cmp(x, y) ==
    CASE x = <<>> /\ y = <<>> -> 0
      [] x = <<>>             -> -1
      [] y = <<>>             -> 1
      [] Head(x) # Head(y)    -> IF Head(x) < Head(y) THEN -1 ELSE 1
      [] OTHER                -> Cmp(Tail(x), Tail(y))

TypeOK ==
    /\ a \in Buffers /\ b \in Buffers /\ target \in Targets
    /\ pc \in {"call", "loop", "done"}
    /\ i \in 0..Mem /\ res \in {-1, 0, 1}

Init ==
    /\ a \in Buffers /\ b \in Buffers /\ target \in Targets
    /\ pc = "call" /\ i = 0 /\ res = 0

Return(r) == res' = r /\ pc' = "done" /\ UNCHANGED <<a, b, target, i>>

Continue(off) == i' = off /\ UNCHANGED <<a, b, target, pc, res>>

\* optimized_strcmp: strcmp for a name shorter than 16, else the vector loop.
Call ==
    /\ pc = "call"
    /\ IF Strlen(a, 0) < W \/ Strlen(b, 0) < W \/ target = "generic"
       THEN Return(Cmp(Str(a), Str(b)))
       ELSE pc' = "loop" /\ UNCHANGED <<a, b, target, i, res>>

\* simd_strcmp_arm: all 16 lanes must be equal, then stop at a chunk of a
\* holding a 0.
NeonStep ==
    LET ca == SubSeq(a, i + 1, i + W)
        cb == SubSeq(b, i + 1, i + W)
    IN  /\ pc = "loop" /\ target = "neon"
        /\ CASE ca # cb            -> Return(1)
             [] 0 \in Range(ca)    -> Return(0)
             [] OTHER              -> Continue(i + W)

\* simd_strcmp_arm_sve: the lanes svwhilelt_b8(i, svcntb()) makes active;
\* svptest_last tests the last active lane of the equality only.
SveStep ==
    LET act == {k \in 0..VL - 1 : i + k < VL}
    IN  /\ pc = "loop" /\ target = "sve"
        /\ CASE act = {}                                     -> Return(1)
             [] Byte(a, i + Max(act)) # Byte(b, i + Max(act)) -> Return(1)
             [] \E k \in act : Byte(a, i + k) = 0             -> Return(0)
             [] OTHER                                         -> Continue(i + VL)

\* simd_strcmp_riscv: vl = vsetvl(strlen(a_ptr)); all_equal holds when
\* vfirst of the equality mask is -1, i.e. when no lane is equal.
RiscvStep ==
    LET vl       == Min({Strlen(a, i), VLMax})
        allEqual == \A k \in 0..vl - 1 : Byte(a, i + k) # Byte(b, i + k)
        hasNull  == \E k \in 0..vl - 1 : Byte(a, i + k) = 0
    IN  /\ pc = "loop" /\ target = "riscv"
        /\ CASE ~allEqual -> Return(1)
             [] hasNull   -> Return(0)
             [] OTHER     -> Continue(i + vl)

Next == Call \/ NeonStep \/ SveStep \/ RiscvStep

Spec == Init /\ [][Next]_vars

FairSpec == Spec /\ WF_vars(Next)

-----------------------------------------------------------------------------
(* Properties *)

\* The callers need an exact string match (spec.md, publish): once it
\* returns, optimized_strcmp gives 0 exactly when the two NUL-terminated
\* strings are equal, whatever bytes follow the NUL and whichever branch
\* the build compiled.
MatchIsExact == pc = "done" => (res = 0 <=> Str(a) = Str(b))

\* optimized_strcmp returns for every pair of strings.
CompareReturns == <>(pc = "done")

=============================================================================
