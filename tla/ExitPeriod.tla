------------------------------ MODULE ExitPeriod ------------------------------
(***************************************************************************)
(* Timeouts (CpuTimeoutCb and the loop of CpuRunCtxInternal, Cpu.c).       *)
(*                                                                         *)
(* Interrupts are masked while the JIT runs, so emulated code that loops   *)
(* would hold off every timer event.  A hook on translation blocks stops   *)
(* the engine whenever the block counter is a multiple of ExitPeriodTbs,   *)
(* which is doubled or halved afterwards to come close to a time budget.   *)
(* The hook masks the counter with ExitPeriodTbs - 1: that is a remainder  *)
(* only for powers of two, and the counter is modelled by what any mask    *)
(* can see of it, TbCount % MaxTbs.                                        *)
(***************************************************************************)
EXTENDS Critical

CONSTANTS
  MinTbs,      \* UC_EMU_EXIT_PERIOD_TB_MIN
  MaxTbs,      \* UC_EMU_EXIT_PERIOD_TB_MAX
  InitialTbs,  \* UC_EMU_EXIT_PERIOD_TB_INITIAL
  Periods      \* the doublings of MinTbs up to MaxTbs

ASSUME PeriodAssumption ==
  /\ MinTbs \in Nat \ {0} /\ MaxTbs \in Nat /\ InitialTbs \in Nat
  /\ Periods \subseteq MinTbs..MaxTbs
  /\ {MinTbs, MaxTbs, InitialTbs} \subseteq Periods
  /\ \A p \in Periods :
       /\ p < MaxTbs => 2 * p \in Periods
       /\ p > MinTbs => p % 2 = 0 /\ p \div 2 \in Periods
       /\ MaxTbs % p = 0

VARIABLES
  phase,    \* "between" runs of the engine, in the "jit", in an "event"
  tb,       \* Cpu->TbCount, modulo MaxTbs
  period,   \* Cpu->ExitPeriodTbs
  stopped,  \* Cpu->StoppedOnTimeout
  blocks,   \* history: blocks started by this run of the engine
  pending   \* a timer interrupt waits to be taken

periodVars == <<tb, period, stopped, blocks>>
vars == <<critVars, phase, periodVars, pending>>

Init ==
  /\ CritInit
  /\ phase = "between"
  /\ tb = 0
  /\ period = InitialTbs
  /\ stopped = FALSE
  /\ blocks = 0
  /\ pending = FALSE

TypeOK ==
  /\ CritTypeOK
  /\ phase \in {"between", "jit", "event"}
  /\ tb \in 0..(MaxTbs - 1)
  /\ period \in MinTbs..MaxTbs
  /\ stopped \in BOOLEAN
  /\ blocks \in Nat
  /\ pending \in BOOLEAN

-----------------------------------------------------------------------------
EmuStart ==
  /\ phase = "between"
  /\ phase' = "jit"
  /\ CriticalBegin
  /\ blocks' = 0
  /\ UNCHANGED <<tb, period, stopped, pending>>

\* Mutant: the mask is one bit too wide.
BlockWideMask ==
  /\ phase = "jit" /\ ~stopped
  /\ tb' = (tb + 1) % MaxTbs
  /\ blocks' = blocks + 1
  /\ stopped' = (tb' % (2 * period) = 0)
  /\ UNCHANGED <<critVars, phase, period, pending>>

\* Mutant: the block counter advances but nothing is stopped.
BlockNeverStops ==
  /\ phase = "jit" /\ ~stopped
  /\ tb' = (tb + 1) % MaxTbs
  /\ UNCHANGED <<critVars, phase, period, stopped, blocks, pending>>

\* CpuTimeoutCb.  Emulated code that never calls out takes only this step.
Block ==
  /\ phase = "jit" /\ ~stopped
  /\ tb' = (tb + 1) % MaxTbs
  /\ blocks' = blocks + 1
  /\ stopped' = (tb' % period = 0)
  /\ UNCHANGED <<critVars, phase, period, pending>>

\* Emulated code, through the TPL services, asks for another interrupt state.
SetInterrupt ==
  /\ phase = "jit"
  /\ \E state \in BOOLEAN : HookSetInterrupt(state)
  /\ UNCHANGED <<phase, periodVars, pending>>

\* Mutant: the period is not doubled or halved but stepped.
RecalibratedSteps ==
  (IF period > MinTbs THEN {period - MinTbs} ELSE {period}) \cup {period}
    \cup (IF period < MaxTbs THEN {period + MinTbs} ELSE {period})

\* The time was overrun, met exactly, or not used up.
Recalibrated ==
  (IF period > MinTbs THEN {period \div 2} ELSE {period}) \cup {period}
    \cup (IF period < MaxTbs THEN {2 * period} ELSE {period})

\* Mutant: the flag survives the run it was set in.
EmuStopKeepsFlag ==
  /\ phase = "jit"
  /\ phase' = "between"
  /\ CriticalEnd
  /\ period' \in IF stopped THEN Recalibrated ELSE {period}
  /\ UNCHANGED <<tb, stopped, blocks, pending>>

\* uc_emu_start returns: on the timeout, or at a call or a return to native
\* code, which also may coincide with the timeout.
EmuStop ==
  /\ phase = "jit"
  /\ phase' = "between"
  /\ CriticalEnd
  /\ stopped' = FALSE
  /\ period' \in IF stopped THEN Recalibrated ELSE {period}
  /\ UNCHANGED <<tb, blocks, pending>>

\* External: the timer, and the handler of its interrupt.
Tick ==
  /\ pending' = TRUE
  /\ UNCHANGED <<critVars, phase, periodVars>>

Deliver ==
  /\ phase = "between" /\ pending
  /\ TakeInterrupt
  /\ phase' = "event"
  /\ pending' = FALSE
  /\ UNCHANGED periodVars

EventReturn ==
  /\ phase = "event"
  /\ ReturnFromInterrupt
  /\ phase' = "between"
  /\ UNCHANGED <<periodVars, pending>>

-----------------------------------------------------------------------------
Next ==
  \/ EmuStart \/ Block \/ SetInterrupt \/ EmuStop
  \/ Tick \/ Deliver \/ EventReturn

Safety == Init /\ [][Next]_vars

(* Emulated code runs on: blocks follow each other, and a stop that was    *)
(* asked for is carried out.  Nothing obliges it to stop by itself.  A     *)
(* pending interrupt is taken as soon as the processor allows, so the      *)
(* repeated moments between two runs of the engine are enough (strong      *)
(* fairness), and handlers return.                                         *)
Fairness ==
  /\ WF_vars(EmuStart)
  /\ WF_vars(Block)
  /\ WF_vars(stopped /\ EmuStop)
  /\ SF_vars(Deliver)
  /\ WF_vars(EventReturn)

Spec == Safety /\ Fairness

-----------------------------------------------------------------------------
\* The period stays a power-of-two multiple of its minimum within its bounds
\* (Cpu.c:1098-1112), whatever the clock says; the mask depends on it.
PeriodValid == period \in Periods

\* One run of the engine keeps interrupts masked for at most ExitPeriodTbs
\* blocks, although the block counter is never reset (Cpu.c:93).
BoundedMasking == blocks <= period \/ phase # "jit"

\* A timeout is accounted for by the run it stopped, not by a later one.
TimeoutIsCurrent == stopped => phase = "jit" /\ blocks > 0

\* As long as its clients leave interrupts enabled, emulated code that loops
\* forever cannot hold off a timer interrupt (EmulatorTest's TestTimer).
EventsDelivered == <>[](wanted \/ phase = "event") => (pending ~> phase = "event")

=============================================================================
