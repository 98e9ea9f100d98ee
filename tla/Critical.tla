------------------------------- MODULE Critical -------------------------------
(***************************************************************************)
(* Interrupt masking (Drivers/Emulator/Emulator.h, EfiHooks.c).            *)
(*                                                                         *)
(* The JIT engine is not reentrant, so the emulator owns the processor's   *)
(* interrupt enable bit while it is in a critical section.  Everything     *)
(* else in the system (the DXE core's TPL code, drivers, emulated code)    *)
(* manipulates interrupts through the EFI_CPU_ARCH_PROTOCOL hooks, which   *)
(* inside a critical section only record what was asked for.               *)
(***************************************************************************)
EXTENDS Integers

VARIABLES
  realInt,   \* the processor's interrupt enable bit
  apparent,  \* gApparentInterruptState
  ignore,    \* gIgnoreInterruptManipulation: depth of critical sections
  wanted     \* history: the interrupt state the emulator's clients believe in

critVars == <<realInt, apparent, ignore, wanted>>

CritTypeOK ==
  /\ realInt \in BOOLEAN
  /\ apparent \in BOOLEAN
  /\ ignore \in Nat
  /\ wanted \in BOOLEAN

(* Clients run with interrupts enabled when the driver starts.             *)
CritInit ==
  /\ realInt = TRUE
  /\ apparent = TRUE
  /\ ignore = 0
  /\ wanted = TRUE

-----------------------------------------------------------------------------
(* Plausible mistakes, used to show that the properties can fail.          *)

\* Leaving always enables, whatever was asked for in between.
CriticalEndAlwaysOn ==
  /\ ignore' = ignore - 1
  /\ realInt' = IF ignore = 1 THEN TRUE ELSE realInt
  /\ UNCHANGED <<apparent, wanted>>

\* Entering forgets to mask.
CriticalBeginUnmasked ==
  /\ ignore' = ignore + 1
  /\ apparent' = realInt
  /\ UNCHANGED <<realInt, wanted>>

\* Leaving is counted twice.
CriticalEndTwice ==
  /\ ignore' = ignore - 2
  /\ realInt' = apparent
  /\ UNCHANGED <<apparent, wanted>>

-----------------------------------------------------------------------------
(* SaveAndDisableInterrupts; ++gIgnore... > 0 holds at every depth, so the *)
(* apparent state is always taken over from the processor.                 *)
CriticalBegin ==
  /\ ignore' = ignore + 1
  /\ apparent' = realInt
  /\ realInt' = FALSE
  /\ UNCHANGED wanted

CriticalEnd ==
  /\ ignore' = ignore - 1
  /\ realInt' = IF ignore = 1 THEN apparent ELSE realInt
  /\ UNCHANGED <<apparent, wanted>>

(* EfiHooksCpuEnableInterrupt and EfiHooksCpuDisableInterrupt.             *)
HookSetInterrupt(state) ==
  /\ apparent' = state
  /\ realInt' = IF ignore = 0 THEN state ELSE realInt
  /\ wanted' = state
  /\ UNCHANGED ignore

(* The value EfiHooksCpuGetInterruptState hands out.                       *)
HookGetInterruptState == IF ignore = 0 THEN realInt ELSE apparent

(* External: the processor takes an interrupt, masking further ones, and   *)
(* the return from the handler sets the enable bit again.                  *)
TakeInterrupt ==
  /\ realInt
  /\ realInt' = FALSE
  /\ wanted' = FALSE
  /\ UNCHANGED <<apparent, ignore>>

ReturnFromInterrupt ==
  /\ realInt' = TRUE
  /\ wanted' = TRUE
  /\ UNCHANGED <<apparent, ignore>>

=============================================================================
