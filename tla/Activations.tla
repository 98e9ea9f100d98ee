----------------------------- MODULE Activations -----------------------------
(***************************************************************************)
(* What the emulator promises to emulated code: every activation has a     *)
(* register file of its own.  Activations form a stack; only the innermost *)
(* one's registers change, and only while it is running; and an unwinding  *)
(* (a return, a LongJump, an Exit) takes the innermost ones away without   *)
(* touching the registers of those that remain.                            *)
(***************************************************************************)
EXTENDS Integers, Sequences

CONSTANTS Regs, Owners

VARIABLES
  acts,     \* records [owner, regs], oldest activation first
  running   \* the innermost activation is executing

vars == <<acts, running>>

Activation == [owner : Owners, regs : Regs]

Last == acts[Len(acts)]
Outer == SubSeq(acts, 1, Len(acts) - 1)   \* all but the innermost

Init == acts = <<>> /\ running = FALSE

\* Native code activates an emulated function.
Start ==
  /\ ~running
  /\ Len(acts') = Len(acts) + 1
  /\ Last' \in Activation
  /\ Outer' = acts

\* Emulated code executes.
Run ==
  /\ running /\ acts # <<>>
  /\ Len(acts') = Len(acts)
  /\ Last' \in Activation /\ Last'.owner = Last.owner
  /\ Outer' = Outer

Unwind ==
  /\ Len(acts') < Len(acts)
  /\ acts' = SubSeq(acts, 1, Len(acts'))

\* Control passes between emulated and native code.
Switch == UNCHANGED acts

Next == (Switch \/ Run \/ Start \/ Unwind) /\ running' \in BOOLEAN

Spec == Init /\ [][Next]_vars

=============================================================================
