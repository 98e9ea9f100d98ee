---------------------------- MODULE CpuRefinement ----------------------------
(***************************************************************************)
(* CpuRun implements Activations: the one register file per engine, with   *)
(* its saved copies, gives every activation under way registers of its own.*)
(***************************************************************************)
EXTENDS CpuRun

\* The stack positions of the activations that own registers.
OwnedFrames == {n \in 1..Depth : Owned(n)}

\* The k-th smallest of a set of positions.
Nth(S, k) == CHOOSE n \in S : Cardinality({m \in S : m <= n}) = k

\* The activation of frame n, and all of them, oldest first.
ActivationOf(n) == [owner |-> stk[n].ctx, regs |-> RegistersOf(n)]
acts == [k \in 1..Cardinality(OwnedFrames) |-> ActivationOf(Nth(OwnedFrames, k))]

\* Emulated code, or the thunk that exchanges values with it, executes.
running == Top.kind = "run" /\ Top.pc \in {"jit", "result", "thunkpost"}

Abstract == INSTANCE Activations WITH Owners <- Ctxs

\* Every step of the emulator is a step of the abstract specification or
\* leaves all activations and their registers alone.
Implements == Abstract!Spec

=============================================================================
