------------------------------ MODULE MCCpuRun -------------------------------
(* Small instances of CpuRun for TLC.                                      *)
EXTENDS CpuRefinement, TLC

CONSTANTS x64, aarch64, c1, c2, c3, c4, i1, i2

OneCpu == [c \in Ctxs |-> x64]
TwoCpus == [c \in Ctxs |-> IF c \in {c1, c2} THEN x64 ELSE aarch64]
ImageOneCpu == [i \in Images |-> x64]
ImageTwoCpus == [i \in Images |-> IF i = i1 THEN x64 ELSE aarch64]

Symmetric == Permutations(Ctxs)
SymmetricX64 == Permutations({c1, c2})

=============================================================================
