-------------------------- MODULE ExitPeriodProofs --------------------------
(***************************************************************************)
(* Proofs about ExitPeriod, for any bounds and any doublings between them: *)
(* the values of Emulator.h among them.                                    *)
(***************************************************************************)
EXTENDS ExitPeriod, TLAPS

-----------------------------------------------------------------------------
(* Counting modulo a period.                                               *)

\* Quotient and remainder are the only ones.
LEMMA Remainder ==
  ASSUME NEW p \in Nat \ {0}, NEW q \in Nat, NEW r \in 0..(p - 1)
  PROVE  (p * q + r) % p = r
<1> DEFINE n == p * q + r
           d == n \div p
           e == n % p
<1>1. p * q \in Nat
  OBVIOUS
<1>2. n \in Nat
  BY <1>1
<1>3. d \in Nat /\ e \in 0..(p - 1) /\ n = p * d + e
  BY <1>2
<1>4. CASE d = q
  BY <1>3, <1>4, <1>1
<1>5. CASE d >= q + 1
  <2>1. p * d >= p * q + p
    BY <1>3, <1>5
  <2> QED
    BY <1>1, <1>3, <2>1
<1>6. CASE q >= d + 1
  <2>1. p * q >= p * d + p
    BY <1>3, <1>6
  <2>2. p * d \in Nat
    BY <1>3
  <2> QED
    BY <1>1, <1>3, <2>1, <2>2
<1> QED
  BY <1>3, <1>4, <1>5, <1>6

\* The remainder goes up by one or back to zero.
LEMMA NextRemainder ==
  ASSUME NEW t \in Nat, NEW p \in Nat \ {0}
  PROVE  (t + 1) % p = IF t % p = p - 1 THEN 0 ELSE (t % p) + 1
<1> DEFINE q == t \div p
           r == t % p
<1>1. q \in Nat /\ r \in 0..(p - 1) /\ t = p * q + r
  OBVIOUS
<1>2. p * q \in Nat
  BY <1>1
<1>3. CASE r = p - 1
  <2>1. t + 1 = p * (q + 1) + 0
    BY <1>1, <1>3
  <2>2. (p * (q + 1) + 0) % p = 0
    BY <1>1, Remainder
  <2> QED
    BY <1>3, <2>1, <2>2
<1>4. CASE r # p - 1
  <2>1. t + 1 = p * q + (r + 1) /\ r + 1 \in 0..(p - 1)
    BY <1>1, <1>2, <1>4
  <2>2. (p * q + (r + 1)) % p = r + 1
    BY <1>1, <2>1, Remainder
  <2> QED
    BY <1>4, <2>1, <2>2
<1> QED
  BY <1>3, <1>4

\* TbCount is known modulo MaxTbs only, which every period divides: the hook
\* sees the remainder it would see of the whole counter.
LEMMA MaskedCount ==
  ASSUME NEW t \in 0..(MaxTbs - 1), NEW p \in Periods
  PROVE  ((t + 1) % MaxTbs) % p = IF t % p = p - 1 THEN 0 ELSE (t % p) + 1
<1>1. MaxTbs \in Nat /\ p \in Nat \ {0} /\ MaxTbs % p = 0 /\ t \in Nat
  BY PeriodAssumption
<1>2. (t + 1) % p = IF t % p = p - 1 THEN 0 ELSE (t % p) + 1
  BY <1>1, NextRemainder
<1>3. CASE t + 1 < MaxTbs
  <2>1. (MaxTbs * 0 + (t + 1)) % MaxTbs = t + 1
    BY <1>1, <1>3, Remainder
  <2>2. MaxTbs * 0 + (t + 1) = t + 1
    BY <1>1
  <2> QED
    BY <1>2, <2>1, <2>2
<1>4. CASE t + 1 = MaxTbs
  <2>1. (MaxTbs * 1 + 0) % MaxTbs = 0 /\ (p * 0 + 0) % p = 0
    BY <1>1, <1>4, Remainder
  <2>2. MaxTbs * 1 + 0 = MaxTbs /\ p * 0 + 0 = 0
    BY <1>1
  <2>3. ((t + 1) % MaxTbs) % p = 0
    BY <1>4, <2>1, <2>2
  <2> QED
    BY <1>1, <1>2, <1>4, <2>3
<1> QED
  BY <1>1, <1>3, <1>4

-----------------------------------------------------------------------------
(* The inductive invariant.                                                *)

\* Blocks since the engine was started, against what the counter shows since
\* it was a multiple of the period.
Counted == phase = "jit" => blocks <= IF stopped THEN period ELSE tb % period

\* The engine runs in one critical section, and nothing else does.
Masked == ignore = IF phase = "jit" THEN 1 ELSE 0

Inv == TypeOK /\ PeriodValid /\ TimeoutIsCurrent /\ Counted /\ Masked

\* Whatever the clock says, the next period is valid (Cpu.c:1100-1112).
LEMMA RecalibratedValid ==
  ASSUME PeriodValid
  PROVE  Recalibrated \subseteq Periods
  BY PeriodAssumption DEF PeriodValid, Recalibrated

\* The engine starts stopped, its counter at zero.
LEMMA InitInv == Init => Inv
<1> SUFFICES ASSUME Init PROVE Inv
  OBVIOUS
<1>1. MaxTbs \in Nat \ {0} /\ InitialTbs \in Periods /\ InitialTbs \in MinTbs..MaxTbs
  BY PeriodAssumption
<1>2. TypeOK
  <2>1. CritTypeOK
    BY DEF Init, CritInit, CritTypeOK
  <2>2. period \in MinTbs..MaxTbs /\ tb \in 0..(MaxTbs - 1) /\ blocks \in Nat
    BY <1>1 DEF Init
  <2> QED
    BY <2>1, <2>2 DEF Init, TypeOK
<1> QED
  BY <1>1, <1>2 DEF Init, CritInit, Inv, PeriodValid, TimeoutIsCurrent, Counted, Masked

\* A block is executed: the counter goes up by one and CpuTimeoutCb stops the
\* engine, in time, when it reaches a multiple of the period.
LEMMA BlockInv ==
  ASSUME Inv, Block
  PROVE  Inv'
<1> USE DEF Inv
<1>1. period \in Nat \ {0} /\ period \in Periods /\ MaxTbs \in Nat \ {0}
  BY PeriodAssumption DEF PeriodValid
<1>2. tb' \in 0..(MaxTbs - 1)
  BY <1>1 DEF TypeOK, Block
<1>3. TypeOK'
  BY <1>2 DEF TypeOK, CritTypeOK, critVars, Block
<1>4. PeriodValid' /\ TimeoutIsCurrent'
  BY <1>3 DEF TypeOK, PeriodValid, TimeoutIsCurrent, Block
<1>5. tb' % period = IF tb % period = period - 1 THEN 0 ELSE (tb % period) + 1
  BY <1>1, MaskedCount DEF TypeOK, Block
<1>6. blocks <= tb % period /\ tb % period \in 0..(period - 1)
  BY <1>1 DEF TypeOK, Block, Counted
<1>7. blocks' = blocks + 1 /\ period' = period /\ (stopped' <=> tb' % period = 0)
  BY DEF Block
<1>8. blocks' <= IF stopped' THEN period ELSE tb' % period
  <2>1. CASE tb % period = period - 1
    BY <1>1, <1>5, <1>6, <1>7, <2>1 DEF TypeOK
  <2>2. CASE tb % period # period - 1
    BY <1>1, <1>5, <1>6, <1>7, <2>2 DEF TypeOK
  <2> QED
    BY <2>1, <2>2
<1>9. Counted' /\ Masked'
  BY <1>7, <1>8 DEF Block, Counted, Masked, critVars
<1> QED
  BY <1>3, <1>4, <1>9

\* Every other step leaves the counter alone, or the engine.
LEMMA NextInv == Inv /\ [Next]_vars => Inv'
<1> SUFFICES ASSUME Inv, [Next]_vars PROVE Inv'
  OBVIOUS
<1> USE DEF Inv
<1>1. CASE EmuStart
  <2>1. tb % period \in Nat
    BY PeriodAssumption DEF TypeOK, PeriodValid
  <2>2. ignore' = 1 /\ phase' = "jit" /\ ~stopped'
    BY <1>1 DEF EmuStart, CriticalBegin, TimeoutIsCurrent, Masked
  <2>3. TypeOK'
    <3>1. ignore' \in Nat /\ blocks' \in Nat
      BY <1>1, <2>2 DEF EmuStart
    <3> QED
      BY <1>1, <3>1, Zenon DEF EmuStart, CriticalBegin, TypeOK, CritTypeOK
  <2> QED
    BY <1>1, <2>1, <2>2, <2>3 DEF EmuStart, PeriodValid, TimeoutIsCurrent, Counted, Masked
<1>2. CASE Block
  BY <1>2, BlockInv
<1>3. CASE SetInterrupt
  BY <1>3 DEF SetInterrupt, HookSetInterrupt, periodVars, TypeOK, CritTypeOK, PeriodValid,
              TimeoutIsCurrent, Counted, Masked
<1>4. CASE EmuStop
  <2>1. period' \in Periods /\ period' \in MinTbs..MaxTbs
    BY <1>4, RecalibratedValid, PeriodAssumption DEF EmuStop, PeriodValid
  <2>2. ignore' = 0 /\ realInt' = apparent
    BY <1>4 DEF EmuStop, CriticalEnd, Masked
  <2>3. TypeOK'
    <3>1. ignore' \in Nat
      BY <2>2
    <3>2. CritTypeOK'
      BY <1>4, <2>2, <3>1, Zenon DEF EmuStop, CriticalEnd, TypeOK, CritTypeOK
    <3> QED
      BY <1>4, <2>1, <3>2, Zenon DEF EmuStop, TypeOK
  <2> QED
    BY <1>4, <2>1, <2>2, <2>3 DEF EmuStop, PeriodValid, TimeoutIsCurrent, Counted, Masked
<1>5. CASE Tick
  BY <1>5 DEF Tick, critVars, periodVars, TypeOK, CritTypeOK, PeriodValid, TimeoutIsCurrent,
              Counted, Masked
<1>6. CASE Deliver
  BY <1>6 DEF Deliver, TakeInterrupt, periodVars, TypeOK, CritTypeOK, PeriodValid,
              TimeoutIsCurrent, Counted, Masked
<1>7. CASE EventReturn
  BY <1>7 DEF EventReturn, ReturnFromInterrupt, periodVars, TypeOK, CritTypeOK, PeriodValid,
              TimeoutIsCurrent, Counted, Masked
<1>8. CASE UNCHANGED vars
  BY <1>8 DEF vars, critVars, periodVars, TypeOK, CritTypeOK, PeriodValid, TimeoutIsCurrent,
              Counted, Masked
<1> QED
  BY <1>1, <1>2, <1>3, <1>4, <1>5, <1>6, <1>7, <1>8 DEF Next

\* The invariant holds with the fairness of Spec or without.
THEOREM Invariance == Safety => []Inv
  BY InitInv, NextInv, PTL DEF Safety

-----------------------------------------------------------------------------
(* The properties of the run ExitPeriod.                                   *)

\* The period stays a doubling of its minimum within bounds (Cpu.c:1098-1112),
\* and so a mask of the block counter, however the clock behaves.
THEOREM PeriodStaysValid == Spec => []PeriodValid
<1>1. Inv => PeriodValid
  BY DEF Inv
<1> QED
  BY <1>1, Invariance, PTL DEF Spec

\* Interrupts stay masked for ExitPeriodTbs blocks at most in one run of the
\* engine, although CpuTimeoutCb's counter is shared by all runs (Cpu.c:93).
THEOREM MaskingIsBounded == Spec => []BoundedMasking
<1>1. Inv => BoundedMasking
  <2> SUFFICES ASSUME Inv, phase = "jit" PROVE blocks <= period
    BY DEF BoundedMasking
  <2>1. period \in Nat \ {0} /\ tb % period < period /\ tb % period \in Nat
    BY PeriodAssumption DEF Inv, TypeOK, PeriodValid
  <2> QED
    BY <2>1 DEF Inv, Counted, TypeOK
<1> QED
  BY <1>1, Invariance, PTL DEF Spec

\* A timeout belongs to the run of the engine it stopped (Cpu.c:1099).
THEOREM TimeoutStaysCurrent == Spec => []TimeoutIsCurrent
<1>1. Inv => TimeoutIsCurrent
  BY DEF Inv
<1> QED
  BY <1>1, Invariance, PTL DEF Spec

=============================================================================
