----------------------------- MODULE CpuRunProofs -----------------------------
(***************************************************************************)
(* Proofs about CpuRun, for any number of Cpus, contexts, images and host  *)
(* frames.  For any kind of build and any of the LongJumps considered:     *)
(* the shape of the host stack, and what holds with interrupts masked.     *)
(* For release builds whose LongJumps come back through emulated code:     *)
(* each context is in its pool or in use, never both and never neither, no *)
(* ASSERT fails, an activation under way has its own registers to come     *)
(* back to, in the engine or where they were saved, and every step of the  *)
(* emulator is a step of the abstract specification of Activations, or a   *)
(* stutter of it.  For DEBUG builds and any LongJump: what is no longer on *)
(* the host stack is reclaimed, and nothing else is.                       *)
(***************************************************************************)
EXTENDS CpuRefinement, WellFoundedInduction, FiniteSetTheorems, SequenceTheorems, TLAPS

-----------------------------------------------------------------------------
(* The shape of the host stack: only the running frame can be inside a     *)
(* critical section, since nothing is called or interrupted in one.        *)

StackOK(s) ==
  /\ s \in Seq(Frame)
  /\ Len(s) \in 1..MaxFrames
  /\ s[1].kind = "native"
  /\ \A n \in 1..Len(s) : (s[n].pc = "code") <=> (s[n].kind # "run")
  /\ \A n \in 1..Len(s) : s[n].kind = "run" => s[n].ctx \in Ctxs
  /\ \A n \in 1..(Len(s) - 1) : s[n].pc \notin CriticalPcs

TopPc(s) == s[Len(s)].pc

(* A frame may be put on a stack whose top is in no critical section.      *)
LEMMA PushOK ==
  ASSUME NEW s, StackOK(s), Len(s) < MaxFrames, TopPc(s) \notin CriticalPcs, NEW f \in Frame,
         (f.pc = "code") <=> (f.kind # "run"), f.kind = "run" => f.ctx \in Ctxs
  PROVE  StackOK(Append(s, f)) /\ TopPc(Append(s, f)) = f.pc
<1>1. MaxFrames \in Nat
  BY CpuRunAssumption
<1> QED
  BY <1>1 DEF StackOK, TopPc

(* Returning to an older frame, or staying where one is.                   *)
LEMMA CutOK ==
  ASSUME NEW s, StackOK(s), NEW k \in 1..Len(s)
  PROVE  /\ StackOK(SubSeq(s, 1, k))
         /\ Len(SubSeq(s, 1, k)) = k
         /\ SubSeq(s, 1, k)[k] = s[k]
         /\ k < Len(s) => TopPc(SubSeq(s, 1, k)) \notin CriticalPcs
<1>0. MaxFrames \in Nat
  BY CpuRunAssumption
<1>1. SubSeq(s, 1, k) \in Seq(Frame) /\ Len(SubSeq(s, 1, k)) = k
  BY DEF StackOK
<1>2. \A n \in 1..k : SubSeq(s, 1, k)[n] = s[n]
  BY DEF StackOK
<1> QED
  BY <1>0, <1>1, <1>2 DEF StackOK, TopPc

(* The running activation gets on: its frame is replaced by another one.   *)
LEMMA ReplaceOK ==
  ASSUME NEW s, StackOK(s), NEW f \in Frame, f.pc # "code",
         f.kind = "run", f.ctx = s[Len(s)].ctx, s[Len(s)].kind = "run"
  PROVE  /\ StackOK([s EXCEPT ![Len(s)] = f])
         /\ TopPc([s EXCEPT ![Len(s)] = f]) = f.pc
  BY CpuRunAssumption DEF StackOK, TopPc

(* The frame a Goto leaves behind; with new pending contexts; on exit.     *)
LEMMA FrameGoto ==
  ASSUME NEW f \in Frame, NEW p \in RunPcs
  PROVE  LET g == [f EXCEPT !.pc = p] IN g \in Frame /\ g.pc = p /\ g.kind = f.kind /\ g.ctx = f.ctx
  BY Zenon DEF Frame

\* The frame of an activation that goes on with contexts to free (CpuFreeOrphanContexts).
LEMMA FrameGotoPend ==
  ASSUME NEW f \in Frame, NEW p \in RunPcs, NEW q \in Seq(Ctxs)
  PROVE  LET g == [f EXCEPT !.pend = q, !.pc = p] IN
         g \in Frame /\ g.pc = p /\ g.kind = f.kind /\ g.ctx = f.ctx
  BY Zenon DEF Frame

\* The frame of an image whose CpuExitImage jumps back into it.
LEMMA FrameGotoExiting ==
  ASSUME NEW f \in Frame, NEW p \in RunPcs
  PROVE  LET g == [f EXCEPT !.pc = p, !.exiting = TRUE] IN
         g \in Frame /\ g.pc = p /\ g.kind = f.kind /\ g.ctx = f.ctx
  BY Zenon DEF Frame

(* RunPcs are the pcs of activations, so that a Goto keeps the shape.      *)
LEMMA NextFrameOK ==
  ASSUME NEW s, StackOK(s), s[Len(s)].kind = "run",
         NEW g \in Frame, g.pc \in RunPcs, g.kind = s[Len(s)].kind, g.ctx = s[Len(s)].ctx
  PROVE  /\ StackOK([s EXCEPT ![Len(s)] = g])
         /\ TopPc([s EXCEPT ![Len(s)] = g]) = g.pc
<1>1. g.pc # "code"
  BY DEF RunPcs
<1> QED
  BY <1>1, ReplaceOK

\* An activation moves on: the shape of the host stack stays, and pc is the next one.
LEMMA GotoOK ==
  ASSUME NEW s, StackOK(s), s[Len(s)].kind = "run", NEW p \in RunPcs,
         NEW t, t = [s EXCEPT ![Len(s)].pc = p]
  PROVE  StackOK(t) /\ TopPc(t) = p
<1> DEFINE f == s[Len(s)]
           g == [f EXCEPT !.pc = p]
<1>1. f \in Frame /\ Len(s) \in DOMAIN s
  BY DEF StackOK
<1>2. t = [s EXCEPT ![Len(s)] = g]
  BY <1>1, Zenon
<1>3. g \in Frame /\ g.pc = p /\ g.kind = f.kind /\ g.ctx = f.ctx
  BY <1>1, FrameGoto, Zenon
<1> HIDE DEF g
<1>4. StackOK([s EXCEPT ![Len(s)] = g]) /\ TopPc([s EXCEPT ![Len(s)] = g]) = g.pc
  BY <1>3, NextFrameOK, Zenon
<1> QED
  BY <1>2, <1>3, <1>4, Zenon

\* The same when the activation also notes contexts to free.
LEMMA GotoPendOK ==
  ASSUME NEW s, StackOK(s), s[Len(s)].kind = "run", NEW p \in RunPcs, NEW q \in Seq(Ctxs),
         NEW t, t = [s EXCEPT ![Len(s)].pend = q, ![Len(s)].pc = p]
  PROVE  StackOK(t) /\ TopPc(t) = p
<1> DEFINE f == s[Len(s)]
           g == [f EXCEPT !.pend = q, !.pc = p]
<1>1. f \in Frame /\ Len(s) \in DOMAIN s
  BY DEF StackOK
<1>2. t = [s EXCEPT ![Len(s)] = g]
  BY <1>1, Zenon
<1>3. g \in Frame /\ g.pc = p /\ g.kind = f.kind /\ g.ctx = f.ctx
  BY <1>1, FrameGotoPend, Zenon
<1> HIDE DEF g
<1>4. StackOK([s EXCEPT ![Len(s)] = g]) /\ TopPc([s EXCEPT ![Len(s)] = g]) = g.pc
  BY <1>3, NextFrameOK, Zenon
<1> QED
  BY <1>2, <1>3, <1>4, Zenon

\* The same when the activation's image exits.
LEMMA GotoExitingOK ==
  ASSUME NEW s, StackOK(s), s[Len(s)].kind = "run", NEW p \in RunPcs,
         NEW t, t = [s EXCEPT ![Len(s)].pc = p, ![Len(s)].exiting = TRUE]
  PROVE  StackOK(t) /\ TopPc(t) = p
<1> DEFINE f == s[Len(s)]
           g == [f EXCEPT !.pc = p, !.exiting = TRUE]
<1>1. f \in Frame /\ Len(s) \in DOMAIN s
  BY DEF StackOK
<1>2. t = [s EXCEPT ![Len(s)] = g]
  BY <1>1, Zenon
<1>3. g \in Frame /\ g.pc = p /\ g.kind = f.kind /\ g.ctx = f.ctx
  BY <1>1, FrameGotoExiting, Zenon
<1> HIDE DEF g
<1>4. StackOK([s EXCEPT ![Len(s)] = g]) /\ TopPc([s EXCEPT ![Len(s)] = g]) = g.pc
  BY <1>3, NextFrameOK, Zenon
<1> QED
  BY <1>2, <1>3, <1>4, Zenon

-----------------------------------------------------------------------------
(* The inductive invariant: outside a critical section nothing is ignored  *)
(* and the processor's state is the one asked for; inside, the processor   *)
(* is masked, once, and the apparent state is the one asked for.           *)

CritInv ==
  /\ StackOK(stk)
  /\ realInt \in BOOLEAN /\ apparent \in BOOLEAN /\ wanted \in BOOLEAN
  /\ ignore \in {0, 1}
  /\ ignore = 0 => realInt = wanted
  /\ ignore = 1 => ~realInt /\ apparent = wanted
  /\ TopPc(stk) \in CriticalPcs => ignore = 1
  /\ fault = "none" /\ ignore = 1 => TopPc(stk) \in CriticalPcs

(* The types of everything else.                                           *)
DataOK ==
  /\ list \in Seq(Ctxs)
  /\ count \in [Cpus -> Int]
  /\ saved \in [Ctxs -> Regs \cup {NotSaved}]
  /\ cookie \in [Ctxs -> Nat]
  /\ image \in [Ctxs -> Images \cup {NoImage}]
  /\ uc \in [Cpus -> Regs]
  /\ free \subseteq Ctxs
  /\ ran \subseteq Images
  /\ fault \in Faults

(* What CritInv says of the masking, for a stack s that follows.           *)
LEMMA Outside ==
  ASSUME CritInv, fault = "none", TopPc(stk) \notin CriticalPcs, UNCHANGED critVars,
         StackOK(stk'), TopPc(stk') \notin CriticalPcs
  PROVE  CritInv'
  BY DEF CritInv, critVars

\* A step that enters a critical section by CriticalBegin keeps the invariant.
LEMMA Enter ==
  ASSUME CritInv, fault = "none", TopPc(stk) \notin CriticalPcs, CriticalBegin,
         StackOK(stk'), TopPc(stk') \in CriticalPcs \/ fault' # "none"
  PROVE  CritInv'
<1>1. ignore = 0 /\ realInt = wanted /\ realInt \in BOOLEAN /\ wanted \in BOOLEAN
  BY DEF CritInv
<1>2. ignore' = 1
  BY <1>1 DEF CriticalBegin
<1>3. realInt' = FALSE /\ apparent' = wanted' /\ wanted' \in BOOLEAN
  BY <1>1, Zenon DEF CriticalBegin
<1> QED
  BY <1>2, <1>3 DEF CritInv

\* A step that leaves a critical section by CriticalEnd keeps the invariant.
LEMMA Leave ==
  ASSUME CritInv, fault = "none", TopPc(stk) \in CriticalPcs, CriticalEnd,
         StackOK(stk'), TopPc(stk') \notin CriticalPcs
  PROVE  CritInv'
  BY DEF CritInv, CriticalEnd

\* EfiHooksInit leaves the masking state as the invariant has it.
LEMMA InitCritInv == Init => CritInv
<1> SUFFICES ASSUME Init PROVE CritInv
  OBVIOUS
<1>1. MaxFrames \in Nat \ {0}
  BY CpuRunAssumption
<1>2. HostFrame("native") \in Frame
  BY DEF HostFrame, Frame
<1>3. StackOK(stk) /\ TopPc(stk) = "code"
  BY <1>1, <1>2 DEF Init, StackOK, TopPc, HostFrame, CriticalPcs
<1> QED
  BY <1>3 DEF Init, CritInit, CritInv, CriticalPcs

-----------------------------------------------------------------------------
(* What the running frame is.                                              *)
LEMMA TopFacts ==
  ASSUME CritInv
  PROVE  /\ Depth \in 1..MaxFrames /\ Depth = Len(stk) /\ Depth \in Nat
         /\ StackOK(stk) /\ stk \in Seq(Frame)
         /\ Top \in Frame /\ Top = stk[Depth] /\ TopPc(stk) = Top.pc
         /\ Top.kind # "native" => Depth > 1
         /\ Top.kind = "run" => Top.ctx \in Ctxs /\ Top.pc # "code"
         /\ Top.kind # "run" => Top.pc = "code"
         /\ \A p : At(p) => Top.kind = "run" /\ Top.pc = p
  BY CpuRunAssumption DEF CritInv, StackOK, Depth, Top, TopPc, At

(* New frames.                                                             *)
LEMMA NewFrames ==
  /\ \A k \in {"native", "event"} :
       HostFrame(k) \in Frame /\ HostFrame(k).pc = "code" /\ HostFrame(k).kind = k
  /\ \A c \in Ctxs, i \in Images \cup {NoImage} :
       /\ RunFrame(c, i) \in Frame /\ RunFrame(c, i).pc = "start"
       /\ RunFrame(c, i).kind = "run" /\ RunFrame(c, i).ctx = c
<1>1. ASSUME NEW k \in {"native", "event"}
      PROVE  HostFrame(k) \in Frame /\ HostFrame(k).pc = "code" /\ HostFrame(k).kind = k
  BY DEF HostFrame, Frame
<1>2. ASSUME NEW c \in Ctxs, NEW i \in Images \cup {NoImage}
      PROVE  /\ RunFrame(c, i) \in Frame /\ RunFrame(c, i).pc = "start"
             /\ RunFrame(c, i).kind = "run" /\ RunFrame(c, i).ctx = c
  BY DEF RunFrame, Frame, RunPcs
<1> QED
  BY <1>1, <1>2

(* What a Goto of the running activation makes of the stack.               *)
LEMMA GotoStack ==
  ASSUME CritInv, Top.kind = "run", NEW p \in RunPcs, Goto(p)
  PROVE  StackOK(stk') /\ TopPc(stk') = p
<1>1. StackOK(stk) /\ stk[Len(stk)].kind = "run" /\ Depth = Len(stk)
  BY TopFacts
<1>2. stk' = [stk EXCEPT ![Len(stk)].pc = p]
  BY <1>1, Zenon DEF Goto
<1> QED
  BY <1>1, <1>2, GotoOK, Zenon

\* GotoPendOK for the host stack itself.
LEMMA GotoPendStack ==
  ASSUME CritInv, Top.kind = "run", NEW p \in RunPcs, NEW q \in Seq(Ctxs),
         stk' = [stk EXCEPT ![Depth].pend = q, ![Depth].pc = p]
  PROVE  StackOK(stk') /\ TopPc(stk') = p
<1>1. StackOK(stk) /\ stk[Len(stk)].kind = "run" /\ Depth = Len(stk)
  BY TopFacts
<1>2. stk' = [stk EXCEPT ![Len(stk)].pend = q, ![Len(stk)].pc = p]
  BY <1>1, Zenon
<1> QED
  BY <1>1, <1>2, GotoPendOK, Zenon

(* An activation outside critical sections goes from one pc to another.    *)
LEMMA GotoOutside ==
  ASSUME CritInv, fault = "none", Top.kind = "run", Top.pc \notin CriticalPcs,
         NEW p \in RunPcs, p \notin CriticalPcs, Goto(p), UNCHANGED critVars
  PROVE  CritInv'
  BY GotoStack, TopFacts, Outside

(* Every step of native code and of the interrupt logic.                   *)
LEMMA HostStepKeeps ==
  ASSUME CritInv, DataOK, fault = "none", HostStep
  PROVE  CritInv'
<1> USE TopFacts
<1>0. "code" \notin CriticalPcs /\ "start" \notin CriticalPcs /\ "check" \notin CriticalPcs
  BY DEF CriticalPcs
<1>1. ASSUME NEW c \in free, NEW i \in Images \cup {NoImage}, AllocContext(c, i), InHost, Room
      PROVE  StackOK(stk') /\ TopPc(stk') \notin CriticalPcs
  <2>1. c \in Ctxs /\ RunFrame(c, i) \in Frame /\ RunFrame(c, i).pc = "start"
    BY NewFrames DEF DataOK
  <2>2. RunFrame(c, i).kind = "run" /\ RunFrame(c, i).ctx = c
    BY NewFrames DEF DataOK
  <2>3. Len(stk) < MaxFrames /\ TopPc(stk) \notin CriticalPcs
    BY <1>0, <1>1 DEF InHost, Room
  <2>4. stk' = Append(stk, RunFrame(c, i))
    BY <1>1 DEF AllocContext
  <2> HIDE DEF RunFrame
  <2> QED
    BY <1>0, <2>1, <2>2, <2>3, <2>4, PushOK
<1>2. CASE RunFunc
  BY <1>0, <1>1, <1>2, Outside DEF RunFunc, InHost
<1>3. CASE RunImage
  BY <1>0, <1>1, <1>3, Outside DEF RunImage, MayStartImage, InHost
<1>4. CASE RunImageExhausted
  BY <1>0, <1>4, Outside DEF RunImageExhausted, MayStartImage, InHost
<1>5. CASE CallHost
  BY <1>0, <1>5, Outside, PushOK, NewFrames DEF CallHost, InHost, Room
<1>6. CASE ReturnHost
  <2> DEFINE rest == SubSeq(stk, 1, Depth - 1)
  <2>1. Top.pc = "code" /\ Depth - 1 \in 1..Len(stk) /\ Depth - 1 < Len(stk)
    BY <1>6 DEF ReturnHost
  <2>2. /\ StackOK(rest) /\ Len(rest) = Depth - 1
        /\ rest[Depth - 1] = stk[Depth - 1] /\ TopPc(rest) \notin CriticalPcs
    BY <2>1, CutOK
  <2>3. CASE stk[Depth - 1].kind = "run" /\ stk[Depth - 1].pc = "native"
    <3>1. stk' = [rest EXCEPT ![Len(rest)].pc = "check"]
      BY <1>6, <2>2, <2>3, Zenon DEF ReturnHost
    <3>2. StackOK(stk') /\ TopPc(stk') = "check"
      <4> HIDE DEF rest
      <4>1. "check" \in RunPcs /\ rest[Len(rest)].kind = "run"
        BY <2>2, <2>3 DEF RunPcs
      <4> QED
        BY <2>2, <3>1, <4>1, GotoOK, Zenon
    <3> QED
      BY <1>0, <1>6, <2>1, <3>2, Outside DEF ReturnHost
  <2>4. CASE ~(stk[Depth - 1].kind = "run" /\ stk[Depth - 1].pc = "native")
    BY <1>0, <1>6, <2>1, <2>2, <2>4, Outside DEF ReturnHost
  <2> QED
    BY <2>3, <2>4
<1>7. CASE SetInterrupt
  <2>1. PICK state \in BOOLEAN : HookSetInterrupt(state)
    BY <1>7 DEF SetInterrupt
  <2>2. apparent' = state /\ wanted' = state /\ UNCHANGED <<ignore, stk, fault>>
    BY <1>7, <2>1 DEF SetInterrupt, HookSetInterrupt
  <2>3. CASE ignore = 0
    BY <2>1, <2>2, <2>3 DEF CritInv, HookSetInterrupt
  <2>4. CASE ignore = 1
    BY <2>1, <2>2, <2>4 DEF CritInv, HookSetInterrupt
  <2> QED
    BY <2>3, <2>4 DEF CritInv
<1>8. CASE Event
  <2>1. ignore = 0 /\ Top.pc \notin CriticalPcs
    BY <1>8 DEF Event, TakeInterrupt, CritInv
  <2>2. StackOK(stk') /\ TopPc(stk') \notin CriticalPcs
    BY <1>0, <1>8, <2>1, PushOK, NewFrames DEF Event, Room
  <2> QED
    BY <1>8, <2>1, <2>2 DEF Event, TakeInterrupt, CritInv
<1>9. CASE EventReturn
  <2>1. Top.pc = "code" /\ Depth - 1 \in 1..Len(stk) /\ Depth - 1 < Len(stk)
    BY <1>9 DEF EventReturn
  <2>2. StackOK(stk') /\ TopPc(stk') \notin CriticalPcs /\ ignore = 0
    BY <1>0, <1>9, <2>1, CutOK DEF EventReturn, CritInv
  <2> QED
    BY <1>9, <2>2 DEF EventReturn, ReturnFromInterrupt, CritInv
<1>10. CASE LongJump
  <2>1. Top.pc = "code"
    BY <1>10 DEF LongJump
  <2>2. StackOK(stk') /\ TopPc(stk') \notin CriticalPcs
    BY <1>10, CutOK DEF LongJump
  <2> QED
    BY <1>0, <1>10, <2>1, <2>2, Outside DEF LongJump
<1> QED
  BY <1>2, <1>3, <1>4, <1>5, <1>6, <1>7, <1>8, <1>9, <1>10 DEF HostStep

-----------------------------------------------------------------------------
(* Least and greatest elements, for the CHOOSEs of CpuRun.                 *)

\* FirstOrphan chooses a least position of the context list.
LEMMA LeastElement ==
  ASSUME NEW S \in SUBSET Nat, S # {}
  PROVE  \E n \in S : \A m \in S : n <= m
<1>1. \E x \in S : \A y \in S : ~(<<y, x>> \in OpToRel(<, Nat))
  BY NatLessThanWellFounded, WFMin
<1>2. PICK x \in S : \A y \in S : ~(<<y, x>> \in OpToRel(<, Nat))
  BY <1>1
<1>3. \A y \in S : ~(y < x)
  BY <1>2 DEF OpToRel
<1> QED
  BY <1>3

\* The most recent image context is at the greatest such position.
LEMMA GreatestElement ==
  ASSUME NEW N \in Nat, NEW S \in SUBSET (1..N), S # {}
  PROVE  \E n \in S : \A m \in S : m <= n
<1> DEFINE T == {N - n : n \in S}
<1>0. \A n \in S : n \in Int /\ N - n \in Nat
  OBVIOUS
<1>1. T \in SUBSET Nat /\ T # {}
  BY <1>0
<1>2. PICK x \in T : \A y \in T : x <= y
  BY <1>1, LeastElement
<1>3. PICK n \in S : x = N - n
  OBVIOUS
<1>4. \A m \in S : N - n <= N - m
  BY <1>2, <1>3
<1> QED
  BY <1>4

-----------------------------------------------------------------------------
(* The orphans are what lies between the first of them and the top.        *)
LEMMA OrphansOK ==
  ASSUME DataOK
  PROVE  /\ FirstOrphan \in Nat \ {0}
         /\ FirstOrphan - 1 <= Len(list)
         /\ Orphans \in Seq(Ctxs)
         /\ Orphans # <<>> => Len(list) > 1
<1> DEFINE n == Len(list)
           older == {j \in 1..(n - 1) : cookie[list[j]] < Depth}
<1>1. list \in Seq(Ctxs) /\ n \in Nat
  BY DEF DataOK
<1>2. CASE older = {}
  <2>1. FirstOrphan = 1
    BY <1>2 DEF FirstOrphan
  <2> QED
    BY <1>1, <2>1 DEF Orphans
<1>3. CASE older # {}
  <2>1. older \in SUBSET (1..n)
    BY <1>1
  <2>2. \E j \in older : \A k \in older : k <= j
    BY <1>1, <1>3, <2>1, GreatestElement
  <2>3. PICK j \in older : FirstOrphan = 1 + j
    BY <1>3, <2>2 DEF FirstOrphan
  <2>4. j \in 1..(n - 1)
    OBVIOUS
  <2> QED
    BY <1>1, <2>3, <2>4 DEF Orphans
<1> QED
  BY <1>2, <1>3

(* One pending context is freed.                                           *)
LEMMA FreePendingKeeps ==
  ASSUME CritInv, fault = "none", NEW from \in RunPcs, NEW to \in RunPcs,
         from \notin CriticalPcs, to \notin CriticalPcs, FreePending(from, to)
  PROVE  CritInv'
<1> DEFINE n == Len(Top.pend)
           q == SubSeq(Top.pend, 1, n - 1)
           p == IF n <= 1 THEN to ELSE from
<1>1. Top.kind = "run" /\ Top.pc = from
  BY DEF FreePending, At
<1>2. q \in Seq(Ctxs) /\ p \in RunPcs /\ p \notin CriticalPcs
  BY TopFacts DEF Frame, FreePending
<1>3. StackOK(stk) /\ stk[Len(stk)].kind = "run" /\ Depth = Len(stk)
  BY <1>1, TopFacts
<1>4. stk' = [stk EXCEPT ![Len(stk)].pend = q, ![Len(stk)].pc = p] /\ UNCHANGED critVars
  BY <1>3, Zenon DEF FreePending
<1> HIDE DEF p, q
<1>5. StackOK(stk') /\ TopPc(stk') = p
  BY <1>2, <1>3, <1>4, GotoPendOK, Zenon
<1>6. TopPc(stk) \notin CriticalPcs
  BY <1>1, TopFacts
<1> QED
  BY <1>2, <1>4, <1>5, <1>6, Outside

(* What is cut off the host stack was called by something.                 *)
LEMMA PopKeeps ==
  ASSUME CritInv, fault = "none", Top.kind = "run", Top.pc \notin CriticalPcs,
         UNCHANGED critVars, stk' = SubSeq(stk, 1, Depth - 1)
  PROVE  CritInv'
<1>1. Depth - 1 \in 1..Len(stk) /\ Depth - 1 < Len(stk)
  BY TopFacts
<1>2. StackOK(stk') /\ TopPc(stk') \notin CriticalPcs
  BY <1>1, CutOK, TopFacts
<1> QED
  BY <1>2, TopFacts, Outside

(* CpuExitImage jumps to an older frame, or returns to its caller.         *)
LEMMA ExitImageKeeps ==
  ASSUME CritInv, fault = "none", ExitImage
  PROVE  CritInv'
<1>0. /\ "check" \in RunPcs \ CriticalPcs /\ "compress" \in RunPcs \ CriticalPcs
      /\ "call" \notin CriticalPcs
  BY DEF RunPcs, CriticalPcs
<1>1. Top.kind = "run" /\ Top.pc = "call" /\ UNCHANGED critVars
  BY DEF ExitImage, At
<1>2. CASE Goto("check")
  BY <1>0, <1>1, <1>2, GotoOutside
<1>3. CASE UNCHANGED stk
  BY <1>0, <1>1, <1>3, TopFacts, Outside
<1>4. ASSUME NEW t \in 1..Depth, stk[t].kind = "run",
             stk' = [SubSeq(stk, 1, t) EXCEPT ![t].pc = "compress", ![t].exiting = TRUE]
      PROVE  CritInv'
  <2> DEFINE s == SubSeq(stk, 1, t)
  <2>1. StackOK(s) /\ Len(s) = t /\ s[Len(s)].kind = "run"
    BY <1>4, CutOK, TopFacts
  <2>2. stk' = [s EXCEPT ![Len(s)].pc = "compress", ![Len(s)].exiting = TRUE]
    BY <1>4, <2>1, Zenon
  <2> HIDE DEF s
  <2>3. "compress" \in RunPcs
    BY <1>0
  <2>4. StackOK(stk') /\ TopPc(stk') = "compress"
    BY <2>1, <2>2, <2>3, GotoExitingOK, Zenon
  <2>5. TopPc(stk) \notin CriticalPcs
    BY <1>0, <1>1, TopFacts
  <2> QED
    BY <1>0, <1>1, <2>4, <2>5, Outside, Zenon
<1>5. \/ Goto("check")
      \/ UNCHANGED stk
      \/ \E t \in 1..Depth :
           /\ stk[t].kind = "run"
           /\ stk' = [SubSeq(stk, 1, t) EXCEPT ![t].pc = "compress", ![t].exiting = TRUE]
  BY Zenon DEF ExitImage, ImageFrames
<1> QED
  BY <1>2, <1>3, <1>4, <1>5, Zenon

(* The steps that take the list of contexts apart.                         *)
LEMMA CompressBeginOK ==
  ASSUME CritInv, DataOK, fault = "none", CompressBegin
  PROVE  CritInv'
<1>1. Top.kind = "run" /\ Top.pc = "compress" /\ CriticalBegin
  BY DEF CompressBegin, At
<1>2. TopPc(stk) \notin CriticalPcs
  BY <1>1, TopFacts DEF CriticalPcs
<1>3. CASE fault' = "walk" /\ UNCHANGED stk
  BY <1>1, <1>2, <1>3, TopFacts, Enter
<1> DEFINE cut(keep) == SubSeq(list, keep + 1, Len(list))
<1>4. ASSUME NEW keep \in 0..Len(list), NEW p, p = "unwind",
             stk' = [stk EXCEPT ![Depth].pend = cut(keep), ![Depth].pc = p]
      PROVE  CritInv'
  <2>1. cut(keep) \in Seq(Ctxs)
    BY <1>4 DEF DataOK
  <2>2. p \in RunPcs /\ p \in CriticalPcs
    BY <1>4 DEF RunPcs, CriticalPcs
  <2> HIDE DEF cut
  <2>3. StackOK(stk') /\ TopPc(stk') = p
    BY <1>1, <1>4, <2>1, <2>2, GotoPendStack, Zenon
  <2> QED
    BY <1>1, <1>2, <2>2, <2>3, Enter, Zenon
<1>5. \A n \in DOMAIN list : n \in 0..Len(list) /\ n - 1 \in 0..Len(list)
  BY DEF DataOK
<1>6. \/ fault' = "walk" /\ UNCHANGED stk
      \/ \E n \in DOMAIN list : \E keep \in {n, n - 1} :
           stk' = [stk EXCEPT ![Depth].pend = cut(keep), ![Depth].pc = "unwind"]
  BY Zenon DEF CompressBegin
<1> HIDE DEF cut
<1> QED
  BY <1>3, <1>4, <1>5, <1>6, Zenon

\* CpuDetectOrphanContexts leaves its critical section and keeps the invariant.
LEMMA DetectOrphansKeeps ==
  ASSUME CritInv, DataOK, fault = "none", DetectOrphans
  PROVE  CritInv'
<1> DEFINE p == IF Orphans = <<>> THEN "prepare" ELSE "orphans"
<1>1. Top.kind = "run" /\ Top.pc = "entered" /\ CriticalEnd
  BY DEF DetectOrphans, At
<1>2. StackOK(stk) /\ stk[Len(stk)].kind = "run" /\ Depth = Len(stk)
  BY <1>1, TopFacts
<1>3. TopPc(stk) \in CriticalPcs
  BY <1>1, TopFacts DEF CriticalPcs
<1>4. stk' = [stk EXCEPT ![Len(stk)].pend = Orphans, ![Len(stk)].pc = p]
  BY <1>2, Zenon DEF DetectOrphans
<1>5. p \in RunPcs /\ p \notin CriticalPcs
  BY DEF RunPcs, CriticalPcs
<1> HIDE DEF p
<1>6. StackOK(stk') /\ TopPc(stk') = p
  BY <1>2, <1>4, <1>5, OrphansOK, GotoPendOK, Zenon
<1> QED
  BY <1>1, <1>3, <1>5, <1>6, Leave, Zenon

(* The end of CpuRunCtx, with or without a switch of stacks.               *)
LEMMA LeaveEndKeeps ==
  ASSUME CritInv, fault = "none", LeaveEnd
  PROVE  CritInv'
<1> DEFINE to == IF PrivateStack THEN Oldest ELSE Depth
           s == SubSeq(stk, 1, to)
<1>1. Top.kind = "run" /\ Top.pc = "left" /\ CriticalEnd
  BY DEF LeaveEnd, At
<1>2. TopPc(stk) \in CriticalPcs
  BY <1>1, TopFacts DEF CriticalPcs
<1>3. Oldest \in 1..Depth /\ stk[Oldest].kind = "run"
  <2> DEFINE runs == {n \in 1..Depth : stk[n].kind = "run"}
  <2>1. runs \in SUBSET Nat /\ Depth \in runs
    BY <1>1, TopFacts
  <2>2. PICK n \in runs : \A m \in runs : n <= m
    BY <2>1, LeastElement
  <2>3. \A m \in 1..(n - 1) : m \in 1..Depth /\ ~(n <= m)
    BY TopFacts
  <2>4. \A m \in 1..(n - 1) : stk[m].kind # "run"
    BY <2>2, <2>3
  <2> QED
    BY <2>4 DEF Oldest
<1>4. to \in 1..Len(stk) /\ stk[to].kind = "run"
  BY <1>1, <1>3, TopFacts
<1>5. stk' = [s EXCEPT ![to].pc = "done"]
  BY Zenon DEF LeaveEnd
<1> HIDE DEF to
<1>6. StackOK(s) /\ Len(s) = to /\ s[Len(s)].kind = "run"
  BY <1>4, CutOK, TopFacts
<1>7. stk' = [s EXCEPT ![Len(s)].pc = "done"]
  BY <1>5, <1>6, Zenon
<1>8. "done" \in RunPcs /\ "done" \notin CriticalPcs
  BY DEF RunPcs, CriticalPcs
<1> HIDE DEF s
<1>9. StackOK(stk') /\ TopPc(stk') = "done"
  BY <1>6, <1>7, <1>8, GotoOK, Zenon
<1> QED
  BY <1>1, <1>2, <1>8, <1>9, Leave, Zenon

(* Every step of an activation.                                            *)
LEMMA EmuStepKeeps ==
  ASSUME CritInv, DataOK, fault = "none", EmuStep
  PROVE  CritInv'
<1> DEFINE Outer == {"start", "orphans", "prepare", "thunkpre", "loop", "decode", "call",
                     "native", "check", "compress", "free", "result", "exit", "thunkpost",
                     "restore", "leave", "done"}
<1>1. Outer = RunPcs \ CriticalPcs /\ CriticalPcs \subseteq RunPcs
  BY DEF RunPcs, CriticalPcs
<1>2. ASSUME NEW p \in Outer, At(p), NEW q \in Outer, Goto(q), UNCHANGED critVars
      PROVE  CritInv'
  BY <1>1, <1>2, TopFacts, GotoOutside
<1>3. ASSUME NEW p \in Outer, At(p), NEW q \in CriticalPcs, Goto(q), CriticalBegin
      PROVE  CritInv'
  BY <1>1, <1>3, TopFacts, GotoStack, Enter
<1>4. ASSUME NEW p \in CriticalPcs, At(p), NEW q \in Outer, Goto(q), CriticalEnd
      PROVE  CritInv'
  BY <1>1, <1>4, TopFacts, GotoStack, Leave
<1>5. ASSUME NEW p \in Outer, At(p), UNCHANGED critVars, stk' = SubSeq(stk, 1, Depth - 1)
      PROVE  CritInv'
  BY <1>1, <1>5, TopFacts, PopKeeps
<1>6. "entered" \in CriticalPcs /\ "jit" \in CriticalPcs
      /\ "unwind" \in CriticalPcs /\ "left" \in CriticalPcs
  BY DEF CriticalPcs
<1>10. CASE EnterCritical
  BY <1>3, <1>6, <1>10 DEF EnterCritical
<1>11. CASE DetectOrphans
  BY <1>11, DetectOrphansKeeps
<1>12. CASE FreeOrphan
  BY <1>1, <1>12, FreePendingKeeps DEF FreeOrphan
<1>13. CASE SaveOrReset
  BY <1>2, <1>13 DEF SaveOrReset
<1>14. CASE ThunkPre
  BY <1>2, <1>14 DEF ThunkPre
<1>15. CASE EmuStart
  BY <1>3, <1>6, <1>15 DEF EmuStart
<1>16. CASE EmuStop
  BY <1>4, <1>6, <1>16 DEF EmuStop
<1>17. CASE Decode
  <2>1. PICK q \in {"loop", "call", "thunkpost", "restore"} : Goto(q)
    BY <1>17 DEF Decode
  <2> QED
    BY <1>2, <1>17, <2>1 DEF Decode
<1>18. CASE CallNative
  <2> DEFINE s == [stk EXCEPT ![Len(stk)].pc = "native"]
  <2>0. "native" \in RunPcs
    BY <1>1
  <2>1. StackOK(stk) /\ stk[Len(stk)].kind = "run" /\ Depth = Len(stk) /\ Top.pc = "call"
    BY <1>18, TopFacts DEF CallNative
  <2>2. stk' = Append(s, HostFrame("native")) /\ UNCHANGED critVars
    BY <1>18, <2>1, Zenon DEF CallNative
  <2>3. s = [stk EXCEPT ![Len(stk)].pc = "native"] /\ Len(s) = Len(stk)
    BY <2>1 DEF StackOK
  <2> HIDE DEF s
  <2>4. StackOK(s) /\ TopPc(s) = "native"
    BY <2>0, <2>1, <2>3, GotoOK, Zenon
  <2>5. Len(s) < MaxFrames /\ TopPc(s) \notin CriticalPcs
    BY <1>1, <1>18, <2>1, <2>3, <2>4 DEF CallNative, Room
  <2>6. StackOK(stk') /\ TopPc(stk') = "code"
    BY <2>2, <2>4, <2>5, PushOK, NewFrames
  <2>7. "code" \notin CriticalPcs /\ "call" \notin CriticalPcs
    BY DEF CriticalPcs
  <2> QED
    BY <2>1, <2>2, <2>6, <2>7, TopFacts, Outside
<1>19. CASE ExitImage
  BY <1>19, ExitImageKeeps
<1>20. CASE CheckLeaked
  BY <1>2, <1>20 DEF CheckLeaked
<1>21. CASE CompressBegin
  BY <1>21, CompressBeginOK
<1>22. CASE CompressUnwind
  BY <1>4, <1>6, <1>22 DEF CompressUnwind
<1>23. CASE FreeLeaked
  <2> DEFINE q == IF Top.exiting THEN "exit" ELSE "result"
  <2>1. q \in RunPcs /\ q \notin CriticalPcs /\ "free" \in RunPcs \ CriticalPcs
    BY <1>1
  <2> QED
    BY <1>23, <2>1, FreePendingKeeps DEF FreeLeaked
<1>24. CASE WriteResult
  BY <1>2, <1>24 DEF WriteResult
<1>25. CASE NativeExit
  BY <1>5, <1>25 DEF NativeExit, critVars
<1>26. CASE ThunkPost
  BY <1>2, <1>26 DEF ThunkPost
<1>27. CASE Restore
  BY <1>2, <1>27 DEF Restore
<1>28. CASE LeaveCritical
  <2>1. TopPc(stk) \notin CriticalPcs /\ CriticalBegin
    BY <1>1, <1>28, TopFacts DEF LeaveCritical
  <2>2. CASE Goto("left")
    BY <1>3, <1>6, <1>28, <2>2 DEF LeaveCritical
  <2>3. CASE fault' = "top" /\ UNCHANGED stk
    BY <2>1, <2>3, TopFacts, Enter
  <2> QED
    BY <1>28, <2>2, <2>3 DEF LeaveCritical
<1>29. CASE LeaveEnd
  BY <1>29, LeaveEndKeeps
<1>30. CASE Return
  BY <1>5, <1>30 DEF Return
<1> QED
  BY <1>10, <1>11, <1>12, <1>13, <1>14, <1>15, <1>16, <1>17, <1>18, <1>19, <1>20, <1>21,
     <1>22, <1>23, <1>24, <1>25, <1>26, <1>27, <1>28, <1>29, <1>30 DEF EmuStep

-----------------------------------------------------------------------------
(* The types of the context list, the counters and the registers.          *)

\* Counting positions of a list gives a number.
LEMMA SubsetCounted ==
  ASSUME NEW N \in Nat, NEW S \in SUBSET (1..N)
  PROVE  Cardinality(S) \in Nat
<1>1. IsFiniteSet(1..N)
  BY FS_Interval
<1>2. IsFiniteSet(S)
  BY <1>1, FS_Subset
<1> QED
  BY <1>2, FS_CardinalityType

\* The contexts that orphan detection and compression count off are numbers.
LEMMA CountsAreNumbers ==
  /\ \A s \in Seq(Ctxs) : \A p : Cardinality(OnCpu(s, p)) \in Nat
  /\ DataOK => \A p : Lost(p) \in Nat
<1>1. ASSUME NEW s \in Seq(Ctxs), NEW p PROVE Cardinality(OnCpu(s, p)) \in Nat
  <2>1. OnCpu(s, p) \in SUBSET (1..Len(s)) /\ Len(s) \in Nat
    BY DEF OnCpu
  <2> QED
    BY <2>1, SubsetCounted
<1>2. ASSUME DataOK, NEW p PROVE Lost(p) \in Nat
  <2> DEFINE S == {n \in DOMAIN Orphans : OrphanCpu(Orphans[n]) = p}
  <2>1. S \in SUBSET (1..Len(Orphans)) /\ Len(Orphans) \in Nat
    BY <1>2, OrphansOK
  <2> QED
    BY <2>1, SubsetCounted DEF Lost
<1> QED
  BY <1>1, <1>2

(* The registers an unwinding leaves in an engine are registers.           *)
LEMMA UnwoundOK ==
  ASSUME DataOK, NEW s \in Seq(Ctxs), NEW p \in Cpus
  PROVE  UnwoundUc(s, p) \in Regs
<1> DEFINE kept == {n \in OnCpu(s, p) : HasSaved(s[n])}
<1>1. kept \in SUBSET Nat /\ kept \subseteq DOMAIN s
  BY DEF OnCpu
<1>2. CASE kept = {}
  BY <1>2 DEF UnwoundUc, DataOK
<1>3. CASE kept # {}
  <2>1. PICK n \in kept : UnwoundUc(s, p) = saved[s[n]]
    BY <1>1, <1>3, LeastElement DEF UnwoundUc
  <2>2. s[n] \in Ctxs /\ saved[s[n]] # NotSaved
    BY <1>1 DEF HasSaved
  <2> QED
    BY <2>1, <2>2 DEF DataOK
<1> QED
  BY <1>2, <1>3

\* Emulated code leaves the registers of an engine in their set.
LEMMA TouchOK ==
  ASSUME DataOK, NEW p \in Cpus
  PROVE  Touch(p) \in [Cpus -> Regs]
<1>1. uc \in [Cpus -> Regs] /\ uc[p] \in Regs
  BY DEF DataOK
<1>2. uc[p][1] \in Ctxs \cup {NoCtx} /\ uc[p][2] \in {0, 1}
  BY <1>1 DEF Regs
<1>3. <<uc[p][1], 1 - uc[p][2]>> \in Regs
  BY <1>2 DEF Regs
<1> QED
  BY <1>1, <1>3 DEF Touch

\* Steps of native code keep the types of contexts, counters and registers.
LEMMA HostStepData ==
  ASSUME CritInv, DataOK, fault = "none", HostStep
  PROVE  DataOK'
<1>0. "null" \in Faults
  BY DEF Faults
<1>1. ASSUME NEW c \in free, NEW i \in Images \cup {NoImage}, AllocContext(c, i),
             UNCHANGED <<list, count, uc, fault>>, ran' \subseteq Images
      PROVE  DataOK'
  BY <1>1 DEF AllocContext, DataOK
<1>2. CASE RunFunc
  BY <1>1, <1>2 DEF RunFunc, DataOK
<1>3. CASE RunImage
  BY <1>1, <1>3 DEF RunImage, DataOK
<1>4. CASE UNCHANGED cpuVars /\ fault' \in {"none", "null", fault}
  BY <1>0, <1>4 DEF cpuVars, DataOK, Faults
<1> QED
  BY <1>2, <1>3, <1>4 DEF HostStep, RunImageExhausted, CallHost, ReturnHost, SetInterrupt,
     Event, EventReturn, LongJump

\* Steps of the emulator keep the types of contexts, counters and registers.
LEMMA EmuStepData ==
  ASSUME CritInv, DataOK, fault = "none", EmuStep
  PROVE  DataOK'
<1>0. /\ Depth \in Nat
      /\ Top.kind = "run" => /\ Top.ctx \in Ctxs /\ Top.pend \in Seq(Ctxs)
                             /\ CpuOf[Top.ctx] \in Cpus
      /\ \A p : At(p) => Top.kind = "run"
  BY TopFacts, CpuRunAssumption DEF Frame
<1>1. {"none", "flags", "contexts", "top", "exit", "walk", "jump"} \subseteq Faults
  BY DEF Faults
<1>2. CASE UNCHANGED <<cpuVars, fault>>
  BY <1>2 DEF cpuVars, DataOK
<1>3. ASSUME NEW c \in Ctxs, FreeContext(c), UNCHANGED <<list, count, saved, cookie, image, uc, ran>>
      PROVE  DataOK'
  BY <1>1, <1>3 DEF FreeContext, DataOK
<1>4. ASSUME NEW from, NEW to, FreePending(from, to)
      PROVE  DataOK'
  <2>1. CASE Len(Top.pend) = 0
    BY <1>2, <1>4, <2>1 DEF FreePending, cpuVars
  <2>2. CASE Len(Top.pend) # 0
    BY <1>0, <1>3, <1>4, <2>2 DEF FreePending
  <2> QED
    BY <2>1, <2>2
<1>5. ASSUME NEW p, At(p), uc' = Touch(CpuOf[Top.ctx]),
             UNCHANGED <<list, count, saved, cookie, image, free, ran, fault>>
      PROVE  DataOK'
  BY <1>0, <1>5, TouchOK DEF DataOK
<1>10. CASE EnterCritical
  BY <1>0, <1>10 DEF EnterCritical, DataOK
<1>11. CASE DetectOrphans
  <2>1. Top.ctx \in Ctxs
    BY <1>0, <1>11 DEF DetectOrphans
  <2>2. list' \in Seq(Ctxs)
    <3>1. CASE Orphans = <<>>
      BY <1>11, <3>1 DEF DetectOrphans, DataOK
    <3>2. CASE Orphans # <<>>
      <4>1. Newest \in Ctxs /\ SubSeq(list, 1, FirstOrphan - 1) \in Seq(Ctxs)
        BY <3>2, OrphansOK DEF DataOK, Newest
      <4> QED
        BY <1>11, <3>2, <4>1 DEF DetectOrphans
    <3> QED
      BY <3>1, <3>2
  <2>3. cookie' \in [Ctxs -> Nat]
    BY <1>0, <1>11, <2>1 DEF DetectOrphans, DataOK
  <2>4. count' \in [Cpus -> Int]
    <3>1. \A p \in Cpus : count[p] - Lost(p) \in Int
      BY CountsAreNumbers DEF DataOK
    <3> QED
      BY <1>11, <3>1 DEF DetectOrphans
  <2>5. fault' \in Faults
    BY <1>1, <1>11 DEF DetectOrphans
  <2> QED
    BY <1>11, <2>2, <2>3, <2>4, <2>5 DEF DetectOrphans, DataOK
<1>12. CASE FreeOrphan \/ FreeLeaked
  BY <1>4, <1>12 DEF FreeOrphan, FreeLeaked
<1>13. CASE SaveOrReset
  <2>1. Top.ctx \in Ctxs /\ CpuOf[Top.ctx] \in Cpus /\ InitialState \in Regs
    BY <1>0, <1>13 DEF SaveOrReset, InitialState, Regs
  <2>2. uc' \in [Cpus -> Regs] /\ saved' \in [Ctxs -> Regs \cup {NotSaved}]
    BY <1>13, <2>1 DEF SaveOrReset, DataOK
  <2> QED
    BY <1>13, <2>2 DEF SaveOrReset, DataOK
<1>14. CASE ThunkPre
  BY <1>0, <1>14 DEF ThunkPre, DataOK, Regs
<1>15. CASE EmuStop
  BY <1>5, <1>15 DEF EmuStop
<1>16. CASE WriteResult
  BY <1>5, <1>16 DEF WriteResult
<1>17. CASE ThunkPost
  BY <1>5, <1>17 DEF ThunkPost
<1>18. CASE ExitImage
  <2>1. fault' \in {fault, "exit", "jump"} /\ UNCHANGED cpuVars
    BY <1>18, Zenon DEF ExitImage
  <2> QED
    BY <1>1, <2>1 DEF cpuVars, DataOK
<1>19. CASE CompressBegin
  <2>1. \A n \in DOMAIN list : /\ SubSeq(list, 1, n) \in Seq(Ctxs)
                               /\ SubSeq(list, 1, n - 1) \in Seq(Ctxs)
    BY DEF DataOK
  <2>2. /\ \/ UNCHANGED list
           \/ \E n \in DOMAIN list : list' \in {SubSeq(list, 1, n), SubSeq(list, 1, n - 1)}
        /\ fault' \in {fault, "walk"}
    BY <1>19, Zenon DEF CompressBegin
  <2>3. list' \in Seq(Ctxs) /\ fault' \in Faults
    BY <1>1, <2>1, <2>2 DEF DataOK
  <2> QED
    BY <1>19, <2>3 DEF CompressBegin, DataOK
<1>20. CASE CompressUnwind
  <2>1. Top.pend \in Seq(Ctxs)
    BY <1>0, <1>20 DEF CompressUnwind
  <2>2. uc' \in [Cpus -> Regs]
    BY <1>20, <2>1, UnwoundOK DEF CompressUnwind
  <2>3. saved' \in [Ctxs -> Regs \cup {NotSaved}]
    BY <1>20 DEF CompressUnwind, DataOK
  <2>4. count' \in [Cpus -> Int]
    <3>1. \A p \in Cpus : count[p] - Unlisted(p) \in Int
      BY <2>1, CountsAreNumbers DEF DataOK, Unlisted
    <3> QED
      BY <1>20, <3>1 DEF CompressUnwind
  <2>5. fault' \in Faults
    BY <1>1, <1>20 DEF CompressUnwind
  <2> QED
    BY <1>20, <2>2, <2>3, <2>4, <2>5 DEF CompressUnwind, DataOK
<1>21. CASE Restore
  BY <1>0, <1>21 DEF Restore, DataOK, HasSaved
<1>22. CASE LeaveCritical
  <2>1. CpuOf[Top.ctx] \in Cpus
    BY <1>0, <1>22 DEF LeaveCritical
  <2>2. CASE fault' = "top" /\ UNCHANGED <<list, count>>
    BY <1>1, <1>22, <2>2 DEF LeaveCritical, DataOK
  <2>3. CASE /\ list # <<>>
             /\ list' = SubSeq(list, 1, Len(list) - 1)
             /\ count' = [count EXCEPT ![CpuOf[Top.ctx]] = @ - 1]
             /\ fault' \in {"contexts", "none"}
    <3>1. SubSeq(list, 1, Len(list) - 1) \in Seq(Ctxs)
      BY <2>3 DEF DataOK
    <3>2. count' \in [Cpus -> Int]
      BY <2>1, <2>3 DEF DataOK
    <3> QED
      BY <1>1, <1>22, <2>3, <3>1, <3>2 DEF LeaveCritical, DataOK
  <2>4. \/ fault' = "top" /\ UNCHANGED <<list, count>>
        \/ /\ list # <<>>
           /\ list' = SubSeq(list, 1, Len(list) - 1)
           /\ count' = [count EXCEPT ![CpuOf[Top.ctx]] = @ - 1]
           /\ fault' \in {"contexts", "none"}
    BY <1>22, Zenon DEF LeaveCritical
  <2> QED
    BY <2>2, <2>3, <2>4
<1>23. CASE Return
  BY <1>0, <1>3, <1>23 DEF Return
<1> QED
  BY <1>2, <1>10, <1>11, <1>12, <1>13, <1>14, <1>15, <1>16, <1>17, <1>18, <1>19, <1>20, <1>21,
     <1>22, <1>23 DEF EmuStep, EmuStart, Decode, CallNative, CheckLeaked, NativeExit, LeaveEnd

-----------------------------------------------------------------------------
(* The invariant, and what it gives.                                       *)
Inv == CritInv /\ DataOK

\* The invariant holds when the driver has started.
LEMMA InitInv == Init => Inv
<1>1. Init => DataOK
  BY DEF Init, DataOK, Faults, NotSaved, InitialState, Regs
<1> QED
  BY <1>1, InitCritInv DEF Inv

\* Every step keeps the invariant.
LEMMA NextInv == Inv /\ [Next]_vars => Inv'
<1> SUFFICES ASSUME Inv, [Next]_vars PROVE Inv'
  OBVIOUS
<1>1. CASE Next
  BY <1>1, HostStepKeeps, EmuStepKeeps, HostStepData, EmuStepData DEF Inv, Next
<1>2. CASE UNCHANGED vars
  BY <1>2 DEF Inv, CritInv, DataOK, vars, critVars, cpuVars
<1> QED
  BY <1>1, <1>2

(* Inv holds in every reachable state, for every value of the constants.   *)
THEOREM Invariance == Spec => []Inv
  BY InitInv, NextInv, PTL DEF Spec

(* Every variable keeps its type: the list, the stack and the pending      *)
(* sequences hold contexts, the engines hold registers, and the depth of   *)
(* critical sections never goes below zero.                                *)
THEOREM TypeCorrect == Spec => []TypeOK
<1>1. Inv => TypeOK
  BY DEF Inv, CritInv, StackOK, DataOK, TypeOK, CritTypeOK, Depth
<1> QED
  BY <1>1, Invariance, PTL

(* The JIT is never reentered: a frame inside a critical section is the    *)
(* running one, masked, once, however activations, events, jumps, exits and*)
(* requests to enable interrupts follow one another.                       *)
THEOREM Uninterrupted == Spec => []JitUninterrupted
<1>1. Inv => JitUninterrupted
  <2> SUFFICES ASSUME Inv, NEW n \in 1..Depth, stk[n].pc \in CriticalPcs
               PROVE  n = Depth /\ ~realInt /\ ignore = 1
    BY DEF JitUninterrupted
  <2>1. CritInv /\ Depth = Len(stk) /\ Depth \in Nat
    BY TopFacts DEF Inv
  <2>2. n = Depth
    BY <2>1 DEF CritInv, StackOK
  <2> QED
    BY <2>1, <2>2 DEF CritInv, TopPc
<1> QED
  BY <1>1, Invariance, PTL

(* Clients of the interrupt hooks read back what they last asked for, in   *)
(* and out of critical sections.                                           *)
THEOREM ClientsUndisturbed == Spec => []ClientView
<1>1. Inv => ClientView
  BY DEF Inv, CritInv, ClientView, HookGetInterruptState
<1> QED
  BY <1>1, Invariance, PTL

-----------------------------------------------------------------------------
(* The counters: Cpu->Contexts, which decides between saving an engine's   *)
(* registers and resetting it, is exact when orphans are not looked for,   *)
(* or belong to the only engine there is.                                  *)

\* The builds in which CpuDetectOrphanContexts counts off the right Cpu: it
\* is not there, or there is one Cpu (Cpu.c:1325-1330).
OrphansOfOneCpu == ~Debug \/ \A p, q \in Cpus : p = q

CountInv == CountsExact /\ CountersNonNegative

-----------------------------------------------------------------------------
(* Counting the contexts of a Cpu on a list.                               *)

\* Positions of a list are finitely many.
LEMMA OnCpuFinite ==
  ASSUME NEW s \in Seq(Ctxs), NEW p
  PROVE  IsFiniteSet(OnCpu(s, p)) /\ Cardinality(OnCpu(s, p)) \in Nat
<1>1. OnCpu(s, p) \in SUBSET (1..Len(s)) /\ Len(s) \in Nat
  BY DEF OnCpu
<1>2. IsFiniteSet(1..Len(s))
  BY <1>1, FS_Interval
<1>3. IsFiniteSet(OnCpu(s, p))
  BY <1>1, <1>2, FS_Subset
<1> QED
  BY <1>3, FS_CardinalityType

\* All the positions of a list.
LEMMA IntervalCount ==
  ASSUME NEW n \in Nat
  PROVE  Cardinality(1..n) = n
  BY FS_Interval

\* CpuEnterCritical puts one context on the list.
LEMMA CountAppend ==
  ASSUME NEW s \in Seq(Ctxs), NEW c \in Ctxs, NEW p
  PROVE  Cardinality(OnCpu(Append(s, c), p))
           = Cardinality(OnCpu(s, p)) + (IF CpuOf[c] = p THEN 1 ELSE 0)
<1>1. CASE CpuOf[c] = p
  <2>1. OnCpu(Append(s, c), p) = OnCpu(s, p) \cup {Len(s) + 1}
    BY <1>1 DEF OnCpu
  <2>2. Len(s) + 1 \notin OnCpu(s, p)
    BY DEF OnCpu
  <2> QED
    BY <1>1, <2>1, <2>2, OnCpuFinite, FS_AddElement
<1>2. CASE CpuOf[c] # p
  <2>1. OnCpu(Append(s, c), p) = OnCpu(s, p)
    BY <1>2 DEF OnCpu
  <2> QED
    BY <1>2, <2>1, OnCpuFinite
<1> QED
  BY <1>1, <1>2

\* CpuCompressLeakedContexts cuts the list in two.
LEMMA CountConcat ==
  ASSUME NEW s \in Seq(Ctxs), NEW t \in Seq(Ctxs), NEW p
  PROVE  Cardinality(OnCpu(s \o t, p)) = Cardinality(OnCpu(s, p)) + Cardinality(OnCpu(t, p))
<1> DEFINE U == OnCpu(t, p)
           V == {n + Len(s) : n \in U}
           f == [n \in U |-> n + Len(s)]
<1>1. Len(s) \in Nat /\ U \subseteq Nat /\ IsFiniteSet(U)
  <2>1. U \subseteq Nat
    BY DEF OnCpu
  <2> QED
    BY <2>1, OnCpuFinite
<1>2. f \in Bijection(U, V)
  <2>1. f \in Surjection(U, V)
    BY DEF Surjection
  <2>2. f \in Injection(U, V)
    <3>1. \A n, m \in U : f[n] = f[m] => n = m
      BY <1>1
    <3>2. f \in [U -> V]
      OBVIOUS
    <3> HIDE DEF f
    <3> QED
      BY <3>1, <3>2 DEF Injection, IsInjective
  <2> QED
    BY <2>1, <2>2 DEF Bijection
<1>3. IsFiniteSet(V) /\ Cardinality(V) = Cardinality(U)
  <2>1. ExistsBijection(U, V)
    BY <1>2 DEF ExistsBijection
  <2> QED
    BY <1>1, <2>1, FS_Bijection
<1>4. OnCpu(s \o t, p) = OnCpu(s, p) \cup V
  <2>1. s \o t \in Seq(Ctxs) /\ Len(s \o t) = Len(s) + Len(t)
    OBVIOUS
  <2>2. ASSUME NEW n \in OnCpu(s \o t, p) PROVE n \in OnCpu(s, p) \cup V
    <3>1. n \in 1..(Len(s) + Len(t)) /\ CpuOf[(s \o t)[n]] = p
      BY <2>1, <2>2 DEF OnCpu
    <3>2. CASE n <= Len(s)
      BY <3>1, <3>2 DEF OnCpu
    <3>3. CASE n > Len(s)
      <4>1. n - Len(s) \in 1..Len(t) /\ (s \o t)[n] = t[n - Len(s)]
        BY <3>1, <3>3
      <4>2. n - Len(s) \in U /\ n = (n - Len(s)) + Len(s)
        BY <3>1, <4>1 DEF OnCpu
      <4> QED
        BY <4>2
    <3> QED
      BY <3>1, <3>2, <3>3
  <2>3. ASSUME NEW n \in OnCpu(s, p) PROVE n \in OnCpu(s \o t, p)
    BY <2>1, <2>3 DEF OnCpu
  <2>4. ASSUME NEW n \in U PROVE n + Len(s) \in OnCpu(s \o t, p)
    <3>1. n \in 1..Len(t) /\ CpuOf[t[n]] = p
      BY <2>4 DEF OnCpu
    <3>2. n + Len(s) \in 1..Len(s \o t) /\ (s \o t)[n + Len(s)] = t[n]
      BY <2>1, <3>1
    <3> QED
      BY <2>1, <3>1, <3>2 DEF OnCpu
  <2> QED
    BY <2>2, <2>3, <2>4
<1>5. OnCpu(s, p) \cap V = {}
  BY <1>1 DEF OnCpu
<1>6. Cardinality(OnCpu(s, p) \cup V)
        = Cardinality(OnCpu(s, p)) + Cardinality(V) - Cardinality(OnCpu(s, p) \cap V)
  BY <1>3, OnCpuFinite, FS_Union
<1>7. Cardinality(OnCpu(s, p) \cap V) = 0
  BY <1>5, FS_EmptySet
<1>8. Cardinality(OnCpu(s, p)) \in Nat /\ Cardinality(U) \in Nat
  BY OnCpuFinite
<1> HIDE DEF U, V, f
<1>9. Cardinality(OnCpu(s \o t, p)) = Cardinality(OnCpu(s, p)) + Cardinality(U)
  BY <1>3, <1>4, <1>6, <1>7, <1>8
<1> QED
  BY <1>9 DEF U


-----------------------------------------------------------------------------
(* Steps that leave list and counters alone.                               *)

\* The counters follow the chain of contexts, whatever that has become.
LEMMA CountsFollow ==
  ASSUME NEW s, Chain' = s, \A p \in Cpus : count'[p] = Cardinality(OnCpu(s, p))
  PROVE  CountsExact'
  BY DEF CountsExact, OnCpu

\* Outside of CpuCompressLeakedContexts the chain is the list.
LEMMA ChainIsList ==
  /\ TopPc(stk) # "unwind" => Chain = list
  /\ TopPc(stk') # "unwind" => Chain' = list'
  /\ TopPc(stk) = "unwind" => Chain = list \o Top.pend
  BY DEF Chain, Top, Depth, TopPc

\* A step that ends outside of critical sections, or at another of them.
LEMMA Quiet ==
  ASSUME CountsExact, TopPc(stk) # "unwind", TopPc(stk') # "unwind", UNCHANGED <<list, count>>
  PROVE  CountsExact'
<1>1. Chain' = list /\ Chain = list
  BY ChainIsList
<1>2. \A p \in Cpus : count'[p] = Cardinality(OnCpu(list, p))
  BY <1>1 DEF CountsExact
<1> QED
  BY <1>1, <1>2, CountsFollow

\* Where nothing is ignored no activation is in a critical section.
LEMMA NotUnwinding ==
  ASSUME CritInv', ignore' = 0
  PROVE  TopPc(stk') # "unwind"
<1>1. "unwind" \in CriticalPcs
  BY DEF CriticalPcs
<1> QED
  BY <1>1 DEF CritInv

\* Nothing is ignored while the running frame is in no critical section.
LEMMA NothingIgnored ==
  ASSUME CritInv, fault = "none", Top.pc \notin CriticalPcs
  PROVE  ignore = 0 /\ TopPc(stk) # "unwind"
<1>1. "unwind" \in CriticalPcs /\ TopPc(stk) = Top.pc
  BY TopFacts DEF CriticalPcs
<1> QED
  BY <1>1 DEF CritInv

\* Native code and interrupts find and leave the counters exact.
LEMMA HostStepCounts ==
  ASSUME Inv, Inv', CountInv, fault = "none", HostStep
  PROVE  CountInv'
<1> USE DEF Inv, CountInv, CountersNonNegative
<1>1. "code" \notin CriticalPcs /\ "jit" # "unwind"
  BY DEF CriticalPcs
<1>2. UNCHANGED <<list, count>> /\ fault' \in {"none", "null"}
  BY DEF HostStep, RunFunc, RunImage, RunImageExhausted, CallHost, ReturnHost, SetInterrupt, Event,
         EventReturn, LongJump, AllocContext, cpuVars
<1>3. CASE SetInterrupt
  <2>1. UNCHANGED stk /\ (Top.pc = "code" \/ Top.pc = "jit")
    BY <1>3, TopFacts DEF SetInterrupt, InHost, At
  <2>2. TopPc(stk) # "unwind" /\ TopPc(stk') # "unwind"
    BY <2>1, TopFacts DEF TopPc
  <2> QED
    BY <1>2, <2>2, Quiet
<1>4. CASE ~SetInterrupt
  <2>1. UNCHANGED ignore
    BY <1>4 DEF HostStep, RunFunc, RunImage, RunImageExhausted, CallHost, ReturnHost, Event,
                EventReturn, LongJump, AllocContext, critVars, TakeInterrupt, ReturnFromInterrupt
  <2>2. ignore = 0 /\ TopPc(stk) # "unwind"
    <3>1. CASE Event
      <4>1. ignore = 0
        BY <3>1 DEF Event, TakeInterrupt, CritInv
      <4>2. TopPc(stk) \notin CriticalPcs
        BY <4>1 DEF CritInv
      <4> QED
        BY <4>1, <4>2 DEF CriticalPcs
    <3>2. CASE ~Event
      <4>1. Top.kind # "run"
        BY <1>4, <3>2 DEF HostStep, RunFunc, RunImage, RunImageExhausted, MayStartImage, CallHost,
                          ReturnHost, EventReturn, LongJump, InHost
      <4> QED
        BY <1>1, <4>1, TopFacts, NothingIgnored
    <3> QED
      BY <3>1, <3>2
  <2> QED
    BY <1>2, <2>1, <2>2, NotUnwinding, Quiet
<1> QED
  BY <1>3, <1>4

-----------------------------------------------------------------------------
(* Steps that change them.                                                 *)

\* CpuEnterCritical counts the context it puts on the list (Cpu.c:985-987).
LEMMA EnterCounts ==
  ASSUME Inv, CountsExact, EnterCritical
  PROVE  CountsExact'
<1>1. Top.kind = "run" /\ Top.pc = "start" /\ Top.ctx \in Ctxs /\ list \in Seq(Ctxs)
  BY TopFacts DEF Inv, EnterCritical, At, DataOK
<1>2. TopPc(stk) # "unwind" /\ TopPc(stk') # "unwind"
  <2>1. TopPc(stk') = "entered"
    BY <1>1, GotoStack DEF Inv, EnterCritical, RunPcs
  <2> QED
    BY <1>1, <2>1, TopFacts DEF Inv
<1>3. Chain = list /\ Chain' = Append(list, Top.ctx)
  BY <1>2, ChainIsList DEF EnterCritical
<1>4. ASSUME NEW p \in Cpus PROVE count'[p] = Cardinality(OnCpu(Append(list, Top.ctx), p))
  <2>1. count[p] = Cardinality(OnCpu(list, p)) /\ count[p] \in Int
    BY <1>3 DEF CountsExact, Inv, DataOK
  <2>2. count'[p] = count[p] + (IF CpuOf[Top.ctx] = p THEN 1 ELSE 0)
    BY <2>1 DEF EnterCritical, Inv, DataOK
  <2> QED
    BY <1>1, <2>1, <2>2, CountAppend
<1> QED
  BY <1>3, <1>4, CountsFollow

\* CpuLeaveCritical takes the newest context off the list (Cpu.c:1014-1027).
LEMMA LeaveCounts ==
  ASSUME Inv, CountInv, fault = "none", LeaveCritical
  PROVE  CountInv'
<1> USE DEF Inv, CountInv, CountersNonNegative
<1> DEFINE front == SubSeq(list, 1, Len(list) - 1)
<1>1. Top.kind = "run" /\ Top.pc = "leave" /\ Top.ctx \in Ctxs /\ list \in Seq(Ctxs)
  BY TopFacts DEF LeaveCritical, At, DataOK
<1>2. TopPc(stk) # "unwind" /\ Chain = list
  BY <1>1, TopFacts, ChainIsList
<1>3. CASE list = <<>> \/ Newest # Top.ctx
  <2>1. fault' = "top" /\ UNCHANGED <<list, count, stk>>
    BY <1>3 DEF LeaveCritical
  <2> QED
    BY <1>2, <2>1, Quiet DEF TopPc
<1>4. CASE list # <<>> /\ Newest = Top.ctx
  <2>1. /\ Goto("left") /\ list' = front /\ count' = [count EXCEPT ![CpuOf[Top.ctx]] = @ - 1]
        /\ fault' = IF count[CpuOf[Top.ctx]] < 1 THEN "contexts" ELSE "none"
    BY <1>4, Zenon DEF LeaveCritical
  <2>2. front \in Seq(Ctxs) /\ list = Append(front, Top.ctx)
    BY <1>1, <1>4 DEF Newest
  <2>3. TopPc(stk') = "left"
    BY <1>1, <2>1, GotoStack DEF RunPcs
  <2>4. Chain' = front
    BY <2>1, <2>3, ChainIsList
  <2> HIDE DEF front
  <2>5. ASSUME NEW p \in Cpus
        PROVE  /\ count'[p] = Cardinality(OnCpu(front, p))
               /\ p = CpuOf[Top.ctx] => count[p] >= 1
    <3>1. count[p] = Cardinality(OnCpu(front, p)) + (IF CpuOf[Top.ctx] = p THEN 1 ELSE 0)
      BY <1>1, <1>2, <2>2, CountAppend DEF CountsExact
    <3>2. count'[p] = count[p] - (IF CpuOf[Top.ctx] = p THEN 1 ELSE 0)
      BY <2>1 DEF DataOK
    <3> QED
      BY <2>2, <3>1, <3>2, OnCpuFinite
  <2>6. CpuOf[Top.ctx] \in Cpus
    BY <1>1, CpuRunAssumption
  <2>7. count \in [Cpus -> Int]
    BY DEF DataOK
  <2>8. fault' = "none"
    BY <2>1, <2>5, <2>6, <2>7
  <2> QED
    BY <2>4, <2>5, <2>8, CountsFollow
<1> QED
  BY <1>3, <1>4


\* CpuCompressLeakedContexts cuts the list (Cpu.c:1187-1231): what is still to
\* be counted off is pending.
LEMMA CompressBeginCounts ==
  ASSUME Inv, Inv', CountInv, fault = "none", CompressBegin
  PROVE  CountInv'
<1> USE DEF Inv, CountInv, CountersNonNegative
<1>1. Top.kind = "run" /\ Top.pc = "compress" /\ list \in Seq(Ctxs)
  BY TopFacts DEF CompressBegin, At, DataOK
<1>2. TopPc(stk) # "unwind" /\ Chain = list
  BY <1>1, TopFacts, ChainIsList
<1>3. UNCHANGED count /\ fault' # "contexts"
  BY Zenon DEF CompressBegin
<1>4. CASE UNCHANGED <<list, stk>>
  BY <1>2, <1>3, <1>4, Quiet DEF TopPc
<1>5. ASSUME NEW keep \in 0..Len(list), list' = SubSeq(list, 1, keep),
             stk' = [stk EXCEPT ![Depth].pend = SubSeq(list, keep + 1, Len(list)),
                                ![Depth].pc = "unwind"]
      PROVE  CountInv'
  <2> DEFINE rest == SubSeq(list, keep + 1, Len(list))
  <2>1. rest \in Seq(Ctxs) /\ list = SubSeq(list, 1, keep) \o rest
    <3>1. /\ 1 \in 1..(Len(list) + 1) /\ keep \in (1 - 1)..Len(list)
          /\ Len(list) \in keep..Len(list) /\ rest \in Seq(Ctxs)
      BY <1>1, <1>5
    <3>2. SubSeq(list, 1, keep) \o rest = SubSeq(list, 1, Len(list))
      BY <1>1, <3>1, ConcatAdjacentSubSeq
    <3>3. SubSeq(list, 1, Len(list)) = list
      BY <1>1, SubSeqFull
    <3> HIDE DEF rest
    <3> QED
      BY <3>1, <3>2, <3>3
  <2>2. stk' = [stk EXCEPT ![Depth].pend = rest, ![Depth].pc = "unwind"]
    BY <1>5
  <2> HIDE DEF rest
  <2> DEFINE g == [stk[Depth] EXCEPT !.pend = rest, !.pc = "unwind"]
  <2>3. stk' = [stk EXCEPT ![Depth] = g] /\ g.pend = rest /\ g.pc = "unwind"
    <3>1. Depth \in DOMAIN stk /\ stk[Depth] \in Frame
      BY TopFacts
    <3>2. stk' = [stk EXCEPT ![Depth] = g]
      BY <2>2, <3>1, Zenon
    <3> QED
      BY <3>1, <3>2, Zenon DEF Frame
  <2> HIDE DEF g
  <2>4. Top'.pc = "unwind" /\ Top'.pend = rest
    <3>1. Len(stk') = Depth /\ stk'[Depth] = g
      BY <2>3, TopFacts
    <3> QED
      BY <2>3, <3>1 DEF Top, Depth
  <2>5. Chain' = list
    BY <1>5, <2>1, <2>4 DEF Chain
  <2> QED
    BY <1>2, <1>3, <2>5, CountsFollow DEF CountsExact
<1>6. ASSUME NEW n \in DOMAIN list PROVE n \in 0..Len(list) /\ n - 1 \in 0..Len(list)
  BY <1>1
<1>7. \/ UNCHANGED <<list, stk>>
      \/ \E n \in DOMAIN list : \E keep \in {n, n - 1} :
           /\ list' = SubSeq(list, 1, keep)
           /\ stk' = [stk EXCEPT ![Depth].pend = SubSeq(list, keep + 1, Len(list)),
                                 ![Depth].pc = "unwind"]
  BY Zenon DEF CompressBegin
<1> QED
  BY <1>4, <1>5, <1>6, <1>7, Zenon

\* It counts each leaked context off the Cpu it ran on (Cpu.c:1259).
LEMMA CompressUnwindCounts ==
  ASSUME Inv, Inv', CountInv, fault = "none", CompressUnwind
  PROVE  CountInv'
<1> USE DEF Inv, CountInv, CountersNonNegative
<1>1. Top.kind = "run" /\ Top.pc = "unwind" /\ list \in Seq(Ctxs) /\ Top.pend \in Seq(Ctxs)
  BY TopFacts DEF CompressUnwind, At, DataOK, Frame
<1>2. Chain = list \o Top.pend
  BY <1>1, TopFacts, ChainIsList
<1>3. UNCHANGED list /\ TopPc(stk') = "free"
  BY <1>1, GotoStack DEF CompressUnwind, RunPcs
<1>4. Chain' = list
  BY <1>3, ChainIsList
<1>5. ASSUME NEW p \in Cpus
      PROVE  count'[p] = Cardinality(OnCpu(list, p)) /\ count'[p] >= 0
  <2>1. count[p] = Cardinality(OnCpu(list, p)) + Cardinality(OnCpu(Top.pend, p))
    BY <1>1, <1>2, CountConcat DEF CountsExact
  <2>2. count'[p] = count[p] - Cardinality(OnCpu(Top.pend, p))
    BY Zenon DEF CompressUnwind, Unlisted
  <2>3. Cardinality(OnCpu(list, p)) \in Nat /\ Cardinality(OnCpu(Top.pend, p)) \in Nat
    BY <1>1, OnCpuFinite
  <2> QED
    BY <2>1, <2>2, <2>3
<1>6. fault' = IF \E p \in Cpus : count'[p] < 0 THEN "contexts" ELSE "none"
  BY DEF CompressUnwind
<1>7. ASSUME NEW p \in Cpus PROVE ~(count'[p] < 0)
  BY <1>1, <1>5, OnCpuFinite
<1>8. fault' = "none"
  BY <1>6, <1>7
<1> QED
  BY <1>4, <1>5, <1>8, CountsFollow

\* With one Cpu every context on a list is its.
LEMMA OneCpuCount ==
  ASSUME NEW s \in Seq(Ctxs), NEW p \in Cpus, \A q \in Cpus : q = p
  PROVE  Cardinality(OnCpu(s, p)) = Len(s)
<1>1. OnCpu(s, p) = 1..Len(s)
  BY CpuRunAssumption DEF OnCpu
<1>2. Len(s) \in Nat
  OBVIOUS
<1> QED
  BY <1>1, <1>2, IntervalCount

\* CpuDetectOrphanContexts takes orphans off the list and counts them off the
\* new context's Cpu (Cpu.c:1306-1333), the only one.
LEMMA DetectOrphansCounts ==
  ASSUME Inv, CountInv, fault = "none", DetectOrphans, Inv', OrphansOfOneCpu
  PROVE  CountInv'
<1> USE DEF Inv, CountInv, CountersNonNegative
<1>1. Top.kind = "run" /\ Top.pc = "entered" /\ list \in Seq(Ctxs) /\ count \in [Cpus -> Int]
  BY TopFacts DEF DetectOrphans, At, DataOK
<1>2. Chain = list
  BY <1>1, TopFacts, ChainIsList
<1>3. ignore' = 0
  <2>1. ignore = 1
    BY <1>1, TopFacts DEF CritInv, CriticalPcs
  <2> QED
    BY <2>1 DEF DetectOrphans, CriticalEnd
<1>4. Chain' = list'
  BY <1>3, NotUnwinding, ChainIsList
<1>5. SUFFICES ASSUME NEW p \in Cpus
               PROVE  count[p] - Lost(p) = Cardinality(OnCpu(list', p))
  <2>1. list' \in Seq(Ctxs)
    BY DEF DataOK
  <2>2. ASSUME NEW p \in Cpus
        PROVE  count'[p] = Cardinality(OnCpu(list', p)) /\ ~(count'[p] < 0)
    <3>1. count'[p] = count[p] - Lost(p)
      BY Zenon DEF DetectOrphans
    <3> QED
      BY <1>5, <2>1, <3>1, OnCpuFinite
  <2>3. fault' = "none"
    BY <2>2 DEF DetectOrphans
  <2> QED
    BY <1>4, <2>2, <2>3, CountsFollow
<1>6. CASE Orphans = <<>>
  <2>1. list' = list
    BY <1>6 DEF DetectOrphans
  <2>2. Lost(p) = 0
    BY <1>6, FS_EmptySet DEF Lost
  <2> QED
    BY <1>1, <1>2, <2>1, <2>2, OnCpuFinite DEF CountsExact
<1>7. CASE Orphans # <<>>
  <2>1. Debug /\ \A q \in Cpus : q = p
    BY <1>7 DEF OrphansOfOneCpu, Orphans
  <2>2. /\ FirstOrphan \in Nat \ {0} /\ Len(list) > 1 /\ Orphans \in Seq(Ctxs)
        /\ Orphans = SubSeq(list, FirstOrphan, Len(list) - 1)
        /\ Newest \in Ctxs
    <3>1. FirstOrphan \in Nat \ {0} /\ Len(list) > 1 /\ Orphans \in Seq(Ctxs)
      BY <1>7, OrphansOK
    <3>2. Orphans = SubSeq(list, FirstOrphan, Len(list) - 1)
      BY <2>1 DEF Orphans
    <3>3. Newest \in Ctxs
      BY <1>1, <3>1 DEF Newest
    <3> QED
      BY <3>1, <3>2, <3>3
  <2>3. Len(Orphans) = Len(list) - FirstOrphan /\ FirstOrphan < Len(list)
    BY <1>1, <1>7, <2>2
  <2>4. Lost(p) = Len(Orphans)
    <3>1. \A n \in DOMAIN Orphans : OrphanCpu(Orphans[n]) = p
      BY <2>1, <2>2, CpuRunAssumption DEF OrphanCpu
    <3>2. {n \in DOMAIN Orphans : OrphanCpu(Orphans[n]) = p} = 1..Len(Orphans)
      BY <2>2, <3>1
    <3>3. Len(Orphans) \in Nat
      BY <2>2
    <3>4. Cardinality(1..Len(Orphans)) = Len(Orphans)
      BY <3>3, IntervalCount
    <3> QED
      BY <3>2, <3>4 DEF Lost
  <2>5. list' = Append(SubSeq(list, 1, FirstOrphan - 1), Newest)
    BY <1>7 DEF DetectOrphans
  <2>6. list' \in Seq(Ctxs) /\ Len(list') = FirstOrphan
    BY <1>1, <2>2, <2>3, <2>5
  <2>7. count[p] = Len(list) /\ Cardinality(OnCpu(list', p)) = Len(list')
    BY <1>1, <1>2, <2>1, <2>6, OneCpuCount DEF CountsExact
  <2> QED
    BY <1>1, <2>2, <2>3, <2>4, <2>6, <2>7
<1> QED
  BY <1>6, <1>7

-----------------------------------------------------------------------------
(* Every step of an activation.                                            *)
LEMMA EmuStepCounts ==
  ASSUME Inv, Inv', CountInv, fault = "none", EmuStep, OrphansOfOneCpu
  PROVE  CountInv'
<1> USE DEF Inv, CountInv, CountersNonNegative
<1> DEFINE Quiets == {"start", "orphans", "prepare", "thunkpre", "loop", "decode", "call",
                      "native", "check", "compress", "free", "result", "exit", "thunkpost",
                      "restore", "leave", "done"}
<1>1. Quiets \cap CriticalPcs = {}
  BY DEF CriticalPcs
<1>2. ASSUME NEW p \in Quiets, At(p), UNCHANGED <<list, count, ignore>>, fault' # "contexts"
      PROVE  CountInv'
  <2>1. ignore = 0 /\ TopPc(stk) # "unwind"
    BY <1>1, <1>2, TopFacts, NothingIgnored
  <2> QED
    BY <1>2, <2>1, NotUnwinding, Quiet
<1>3. ASSUME NEW p \in {"jit", "left"}, At(p), UNCHANGED <<list, count, fault>>, CriticalEnd
      PROVE  CountInv'
  <2>1. ignore = 1 /\ TopPc(stk) # "unwind"
    BY <1>3, TopFacts DEF CritInv, CriticalPcs
  <2>2. ignore' = 0
    BY <1>3, <2>1 DEF CriticalEnd
  <2> QED
    BY <1>3, <2>1, <2>2, NotUnwinding, Quiet
<1>4. ASSUME NEW p \in Quiets, NEW q \in RunPcs, FreePending(p, q) PROVE CountInv'
  BY <1>2, <1>4 DEF FreePending, FreeContext, critVars
<1>10. CASE EnterCritical
  BY <1>10, EnterCounts DEF EnterCritical
<1>11. CASE DetectOrphans
  BY <1>11, DetectOrphansCounts
<1>12. CASE FreeOrphan
  BY <1>4, <1>12 DEF FreeOrphan, RunPcs
<1>13. CASE SaveOrReset
  BY <1>2, <1>13 DEF SaveOrReset, critVars
<1>14. CASE ThunkPre
  BY <1>2, <1>14 DEF ThunkPre, critVars
<1>15. CASE EmuStart
  <2>1. TopPc(stk) = "loop" /\ TopPc(stk') = "jit"
    BY <1>15, TopFacts, GotoStack DEF EmuStart, RunPcs
  <2> QED
    BY <1>15, <2>1, Quiet DEF EmuStart, cpuVars
<1>16. CASE EmuStop
  BY <1>3, <1>16 DEF EmuStop
<1>17. CASE Decode
  BY <1>2, <1>17 DEF Decode, critVars, cpuVars
<1>18. CASE CallNative
  BY <1>2, <1>18 DEF CallNative, critVars, cpuVars
<1>19. CASE ExitImage
  <2>1. UNCHANGED <<list, count, ignore>> /\ At("call")
    BY <1>19 DEF ExitImage, critVars, cpuVars
  <2>2. fault' # "contexts"
    BY <1>19 DEF ExitImage
  <2> QED
    BY <1>2, <2>1, <2>2
<1>20. CASE CheckLeaked
  BY <1>2, <1>20 DEF CheckLeaked, critVars, cpuVars
<1>21. CASE CompressBegin
  BY <1>21, CompressBeginCounts
<1>22. CASE CompressUnwind
  BY <1>22, CompressUnwindCounts
<1>23. CASE FreeLeaked
  <2>1. (IF Top.exiting THEN "exit" ELSE "result") \in RunPcs
    BY DEF RunPcs
  <2> QED
    BY <1>4, <1>23, <2>1 DEF FreeLeaked
<1>24. CASE WriteResult
  BY <1>2, <1>24 DEF WriteResult, critVars
<1>25. CASE NativeExit
  BY <1>2, <1>25 DEF NativeExit, critVars, cpuVars
<1>26. CASE ThunkPost
  BY <1>2, <1>26 DEF ThunkPost, critVars
<1>27. CASE Restore
  BY <1>2, <1>27 DEF Restore, critVars
<1>28. CASE LeaveCritical
  BY <1>28, LeaveCounts
<1>29. CASE LeaveEnd
  BY <1>3, <1>29 DEF LeaveEnd, cpuVars
<1>30. CASE Return
  BY <1>2, <1>30 DEF Return, FreeContext, critVars
<1> QED
  BY <1>10, <1>11, <1>12, <1>13, <1>14, <1>15, <1>16, <1>17, <1>18, <1>19, <1>20, <1>21,
     <1>22, <1>23, <1>24, <1>25, <1>26, <1>27, <1>28, <1>29, <1>30 DEF EmuStep

\* At first no engine runs anything.
LEMMA InitCounts == Init => CountInv
<1> SUFFICES ASSUME Init PROVE CountInv
  OBVIOUS
<1>1. Chain = <<>>
  BY DEF Init, Chain, Top, Depth, HostFrame
<1>2. \A p : OnCpu(<<>>, p) = {}
  BY DEF OnCpu
<1>3. \A p \in Cpus : count[p] = 0
  BY DEF Init
<1>4. Cardinality({}) = 0
  BY FS_EmptySet
<1>5. fault # "contexts"
  BY DEF Init
<1> QED
  BY <1>1, <1>2, <1>3, <1>4, <1>5 DEF CountInv, CountsExact, CountersNonNegative

\* Every step keeps the counters exact.
LEMMA NextCounts ==
  ASSUME OrphansOfOneCpu
  PROVE  Inv /\ Inv' /\ CountInv /\ [Next]_vars => CountInv'
<1> SUFFICES ASSUME Inv, Inv', CountInv, [Next]_vars PROVE CountInv'
  OBVIOUS
<1>1. CASE Next
  BY <1>1, HostStepCounts, EmuStepCounts DEF Next
<1>2. CASE UNCHANGED vars
  BY <1>2 DEF CountInv, CountsExact, CountersNonNegative, Chain, Top, Depth, OnCpu, vars, cpuVars
<1> QED
  BY <1>1, <1>2

-----------------------------------------------------------------------------
(* What follows for every value of the constants.                          *)

\* Cpu->Contexts counts exactly the contexts of that Cpu on the list, also
\* across events, LongJumps, exits of images and the compression of leaked
\* contexts of several engines; and no ASSERT on a counter fails.
THEOREM CountersExact ==
  ASSUME OrphansOfOneCpu
  PROVE  Spec => [](CountsExact /\ CountersNonNegative)
<1>1. Init => CountInv
  BY InitCounts
<1>2. Inv /\ Inv' /\ CountInv /\ [Next]_vars => CountInv'
  BY NextCounts
<1>3. CountInv => CountsExact /\ CountersNonNegative
  BY DEF CountInv
<1> QED
  BY <1>1, <1>2, <1>3, Invariance, PTL DEF Spec

-----------------------------------------------------------------------------
\* Builds without orphan detection and private stack; the jumps are those
\* that NativeThunkCheckLeakedContexts is there for.
Release == ~Debug /\ ~PrivateStack /\ Jumps # "clean"

-----------------------------------------------------------------------------
(* The inductive invariant.                                                *)

\* Frames whose context is on the list, and frames that hold one which is not
\* there yet or no longer (CpuEnterCritical, CpuLeaveCritical).
Listed(f) ==
  /\ f.kind = "run" /\ f.pc \notin {"start", "left", "done"}
  /\ ~(f.exiting /\ f.pc \in {"unwind", "free", "exit"})
Held(f) == f.kind = "run" /\ f.pc \in {"start", "left", "done"}

\* No context is leaked above those of a tidy frame.
Tidy(f) == Listed(f) /\ f.pc \notin {"native", "check", "compress"}

OnList(l) == {l[k] : k \in DOMAIN l}
Pending(f) == {f.pend[k] : k \in DOMAIN f.pend}
Owns(f) == Pending(f) \cup {c \in Ctxs : Held(f) /\ c = f.ctx}

\* The frames: contexts are pending while leaked ones are unwound and freed,
\* and native code runs on top of emulated code by a call or an event.
FrameOK(f) ==
  /\ f.kind = "run" => f.ctx \in Ctxs
  /\ f.pend # <<>> => f.pc \in {"unwind", "free"}
  /\ f.exiting => f.pc \in {"compress", "unwind", "free", "exit"}
  /\ f.pc = "exit" => f.exiting
  /\ f.exiting /\ f.pc = "unwind" => f.ctx \in Pending(f)
  /\ \A j, k \in DOMAIN f.pend : f.pend[j] = f.pend[k] => j = k
NextOK(f, up) == f.kind = "run" /\ up.kind # "event" => up.kind = "native" /\ f.pc = "native"
ShapeOK(s) ==
  /\ \A n \in 1..Len(s) : FrameOK(s[n])
  /\ \A n \in 1..(Len(s) - 1) : NextOK(s[n], s[n + 1])

\* The list: contexts of live frames in the order of the frames, the oldest
\* of them first, and leaked ones only above a frame that will look for them.
Once(l) == \A j, k \in DOMAIN l : l[j] = l[k] => j = k
LiveOnList(s, l) == \A n \in 1..Len(s) : Listed(s[n]) => \E k \in DOMAIN l : l[k] = s[n].ctx
InOrder(s, l) ==
  \A n, m \in 1..Len(s), j, k \in DOMAIN l :
    n < m /\ Listed(s[n]) /\ Listed(s[m]) /\ l[j] = s[n].ctx /\ l[k] = s[m].ctx => j < k
OldestLive(s, l) == l # <<>> => \E n \in 1..Len(s) : Listed(s[n]) /\ s[n].ctx = l[1]
LeaksAbove(s, l) ==
  \A n \in 1..Len(s), k \in DOMAIN l :
    Tidy(s[n]) /\ l[k] = s[n].ctx /\ k < Len(l) =>
      \E m \in 1..Len(s) : Listed(s[m]) /\ s[m].ctx = l[k + 1]
ListOK(s, l) ==
  Once(l) /\ LiveOnList(s, l) /\ InOrder(s, l) /\ OldestLive(s, l) /\ LeaksAbove(s, l)

\* Every context is in one place: pool, list or a frame.
Apart(s, l, f) ==
  /\ OnList(l) \cap f = {}
  /\ \A n \in 1..Len(s) : Owns(s[n]) \cap (OnList(l) \cup f) = {}
  /\ \A n, m \in 1..Len(s) : n # m => Owns(s[n]) \cap Owns(s[m]) = {}
Covered(s, l, f) ==
  \A c \in Ctxs : c \in OnList(l) \cup f \/ \E n \in 1..Len(s) : c \in Owns(s[n])

\* Images are not jumped over: those on the list have their frames.
ImagesOK(s, l, im) ==
  /\ \A k \in DOMAIN l : im[l[k]] # NoImage =>
       \E n \in 1..Len(s) : Listed(s[n]) /\ s[n].ctx = l[k] /\ s[n].img = im[l[k]]
  /\ \A n \in 1..Len(s) : s[n].kind = "run" /\ s[n].pc = "start" => s[n].img = im[s[n].ctx]

\* Contexts about to be freed hold no registers.
Clear(f, sv) ==
  /\ f.pc = "free" => \A k \in DOMAIN f.pend : sv[f.pend[k]] = NotSaved
  /\ f.kind = "run" /\ f.pc \in {"leave", "left", "done"} => sv[f.ctx] = NotSaved
SavedOK(s, sv) == \A n \in 1..Len(s) : Clear(s[n], sv)

PoolOK(s, l, f, im, sv) ==
  /\ ShapeOK(s) /\ ListOK(s, l) /\ Apart(s, l, f) /\ Covered(s, l, f)
  /\ ImagesOK(s, l, im) /\ SavedOK(s, sv)
PoolInv == PoolOK(stk, list, free, image, saved) /\ fault = "none"

-----------------------------------------------------------------------------
(* Stacks that a step leaves behind.                                       *)

\* Frame t becomes g and is the last one; one more frame.
Cut(s, s2, t, g) ==
  /\ s \in Seq(Frame) /\ s2 \in Seq(Frame) /\ g \in Frame
  /\ t \in 1..Len(s) /\ Len(s2) = t
  /\ \A n \in 1..(t - 1) : s2[n] = s[n]
  /\ s2[t] = g
Pushed(s, s2, f) ==
  /\ s \in Seq(Frame) /\ s2 \in Seq(Frame) /\ f \in Frame
  /\ Len(s2) = Len(s) + 1
  /\ \A n \in 1..Len(s) : s2[n] = s[n]
  /\ s2[Len(s) + 1] = f

\* The shape of the frames.
LEMMA ShapeCut ==
  ASSUME NEW s, NEW s2, NEW t, NEW g, Cut(s, s2, t, g), ShapeOK(s), FrameOK(g), g.kind = s[t].kind
  PROVE  ShapeOK(s2)
<1>1. t \in Nat /\ Len(s) \in Nat /\ t <= Len(s) /\ Len(s2) = t
  BY DEF Cut
<1>2. ASSUME NEW n \in 1..Len(s2) PROVE FrameOK(s2[n])
  BY <1>1 DEF Cut, ShapeOK
<1>3. ASSUME NEW n \in 1..(Len(s2) - 1) PROVE NextOK(s2[n], s2[n + 1])
  <2>1. n \in 1..(Len(s) - 1) /\ s2[n] = s[n] /\ NextOK(s[n], s[n + 1])
    BY <1>1 DEF Cut, ShapeOK
  <2>2. s2[n + 1].kind = s[n + 1].kind
    BY <1>1 DEF Cut
  <2> QED
    BY <2>1, <2>2 DEF NextOK
<1> QED
  BY <1>2, <1>3 DEF ShapeOK

\* A well-formed frame put on top keeps the stack well-formed.
LEMMA ShapePushed ==
  ASSUME NEW s, NEW s2, NEW f, Pushed(s, s2, f), ShapeOK(s), Len(s) > 0, FrameOK(f),
         NextOK(s[Len(s)], f)
  PROVE  ShapeOK(s2)
<1>1. Len(s) \in Nat
  BY DEF Pushed
<1>2. ASSUME NEW n \in 1..Len(s2) PROVE FrameOK(s2[n])
  BY <1>1 DEF Pushed, ShapeOK
<1>3. ASSUME NEW n \in 1..(Len(s2) - 1) PROVE NextOK(s2[n], s2[n + 1])
  BY <1>1 DEF Pushed, ShapeOK
<1> QED
  BY <1>2, <1>3 DEF ShapeOK

\* Where the contexts are.
LEMMA PlacesCut ==
  ASSUME NEW s, NEW s2, NEW t, NEW g, Cut(s, s2, t, g),
         NEW l, NEW l2, NEW f, NEW f2, Apart(s, l, f), Covered(s, l, f),
         Owns(g) \cap (OnList(l2) \cup f2) = {}, OnList(l2) \cap f2 = {},
         \A c : c \in Owns(g) \cup OnList(l2) \cup f2 <=>
                  c \in OnList(l) \cup f \/ \E n \in t..Len(s) : c \in Owns(s[n])
  PROVE  Apart(s2, l2, f2) /\ Covered(s2, l2, f2)
<1>1. t \in Nat /\ Len(s) \in Nat /\ 1 <= t /\ t <= Len(s) /\ Len(s2) = t
  BY DEF Cut
<1>2. ASSUME NEW n \in 1..(t - 1)
      PROVE  /\ Owns(s2[n]) = Owns(s[n])
             /\ Owns(s2[n]) \cap (OnList(l2) \cup f2) = {}
             /\ Owns(s2[n]) \cap Owns(g) = {}
  <2>1. n \in 1..Len(s) /\ s2[n] = s[n]
    BY <1>1 DEF Cut
  <2>2. Owns(s[n]) \cap (OnList(l) \cup f) = {}
    BY <2>1 DEF Apart
  <2>3. \A m \in t..Len(s) : m \in 1..Len(s) /\ m # n
    BY <1>1
  <2>4. \A m \in t..Len(s) : Owns(s[n]) \cap Owns(s[m]) = {}
    BY <2>1, <2>3 DEF Apart
  <2> QED
    BY <2>1, <2>2, <2>4
<1>3. s2[t] = g
  BY DEF Cut
<1>4. ASSUME NEW n \in 1..t, NEW m \in 1..t, n # m PROVE Owns(s2[n]) \cap Owns(s2[m]) = {}
  <2>1. CASE n = t
    BY <1>1, <1>2, <1>3, <1>4, <2>1
  <2>2. CASE m = t
    BY <1>1, <1>2, <1>3, <1>4, <2>2
  <2>3. CASE n # t /\ m # t
    <3>1. n \in 1..(t - 1) /\ m \in 1..(t - 1) /\ n \in 1..Len(s) /\ m \in 1..Len(s)
      BY <1>1, <2>3
    <3>2. Owns(s[n]) \cap Owns(s[m]) = {}
      BY <1>4, <3>1 DEF Apart
    <3> QED
      BY <1>2, <3>1, <3>2
  <2> QED
    BY <2>1, <2>2, <2>3
<1>5. ASSUME NEW n \in 1..t PROVE Owns(s2[n]) \cap (OnList(l2) \cup f2) = {}
  <2>1. CASE n = t
    BY <1>3, <2>1
  <2>2. CASE n # t
    BY <1>1, <1>2, <2>2
  <2> QED
    BY <2>1, <2>2
<1>6. ASSUME NEW c \in Ctxs PROVE c \in OnList(l2) \cup f2 \/ \E n \in 1..t : c \in Owns(s2[n])
  <2>1. CASE \E n \in 1..(t - 1) : c \in Owns(s[n])
    <3>1. PICK n \in 1..(t - 1) : c \in Owns(s[n])
      BY <2>1
    <3> QED
      BY <1>1, <1>2, <3>1
  <2>2. CASE ~\E n \in 1..(t - 1) : c \in Owns(s[n])
    <3>1. c \in OnList(l) \cup f \/ \E n \in 1..Len(s) : c \in Owns(s[n])
      BY DEF Covered
    <3>2. \A n \in 1..Len(s) : n \in 1..(t - 1) \/ n \in t..Len(s)
      BY <1>1
    <3>3. c \in OnList(l) \cup f \/ \E n \in t..Len(s) : c \in Owns(s[n])
      BY <2>2, <3>1, <3>2
    <3>4. c \in Owns(g) \cup OnList(l2) \cup f2
      BY <3>3
    <3>5. t \in 1..t
      BY <1>1
    <3> QED
      BY <1>3, <3>4, <3>5
  <2> QED
    BY <2>1, <2>2
<1> QED
  BY <1>1, <1>4, <1>5, <1>6 DEF Apart, Covered

\* A frame put on top takes what it owns from the free contexts.
LEMMA PlacesPushed ==
  ASSUME NEW s, NEW s2, NEW g, Pushed(s, s2, g),
         NEW l, NEW f, NEW f2, Apart(s, l, f), Covered(s, l, f),
         Owns(g) \cap f2 = {}, Owns(g) \cup f2 = f
  PROVE  Apart(s2, l, f2) /\ Covered(s2, l, f2)
<1> DEFINE t == Len(s) + 1
<1>1. Len(s) \in Nat /\ Len(s2) = t /\ s2[t] = g
  BY DEF Pushed
<1>2. ASSUME NEW n \in 1..Len(s)
      PROVE  /\ Owns(s2[n]) = Owns(s[n])
             /\ Owns(s2[n]) \cap (OnList(l) \cup f2) = {}
             /\ Owns(s2[n]) \cap Owns(g) = {}
  <2>1. s2[n] = s[n] /\ Owns(s[n]) \cap (OnList(l) \cup f) = {}
    BY DEF Pushed, Apart
  <2> QED
    BY <2>1
<1>3. Owns(g) \cap OnList(l) = {} /\ OnList(l) \cap f2 = {}
  BY DEF Apart
<1>4. \A n \in 1..t : n = t \/ n \in 1..Len(s)
  BY <1>1
<1>5. ASSUME NEW n \in 1..t PROVE Owns(s2[n]) \cap (OnList(l) \cup f2) = {}
  BY <1>1, <1>2, <1>3, <1>4
<1>6. ASSUME NEW n \in 1..t, NEW m \in 1..t, n # m PROVE Owns(s2[n]) \cap Owns(s2[m]) = {}
  <2>1. CASE n = t
    BY <1>1, <1>2, <1>4, <1>6, <2>1
  <2>2. CASE m = t
    BY <1>1, <1>2, <1>4, <1>6, <2>2
  <2>3. CASE n # t /\ m # t
    <3>1. n \in 1..Len(s) /\ m \in 1..Len(s)
      BY <1>4, <2>3
    <3>2. Owns(s[n]) \cap Owns(s[m]) = {}
      BY <1>6, <3>1 DEF Apart
    <3> QED
      BY <1>2, <3>1, <3>2
  <2> QED
    BY <2>1, <2>2, <2>3
<1>7. ASSUME NEW c \in Ctxs PROVE c \in OnList(l) \cup f2 \/ \E n \in 1..t : c \in Owns(s2[n])
  <2>1. c \in OnList(l) \cup f \/ \E n \in 1..Len(s) : c \in Owns(s[n])
    BY DEF Covered
  <2>2. CASE c \in OnList(l)
    BY <2>2
  <2>3. CASE c \in f
    <3>1. t \in 1..t
      BY <1>1
    <3> QED
      BY <1>1, <2>3, <3>1
  <2>4. CASE \E n \in 1..Len(s) : c \in Owns(s[n])
    <3>1. PICK n \in 1..Len(s) : c \in Owns(s[n])
      BY <2>4
    <3>2. n \in 1..t
      BY <1>1
    <3> QED
      BY <1>2, <3>1, <3>2
  <2> QED
    BY <2>1, <2>2, <2>3, <2>4
<1> QED
  BY <1>1, <1>3, <1>5, <1>6, <1>7 DEF Apart, Covered

-----------------------------------------------------------------------------
(* The list, when frames come and go.                                      *)

\* The same frames are listed.
Keeps(s, s2) ==
  /\ \A n \in 1..Len(s2) : Listed(s2[n]) =>
       n \in 1..Len(s) /\ Listed(s[n]) /\ s2[n].ctx = s[n].ctx /\ s2[n].img = s[n].img
  /\ \A n \in 1..Len(s) : Listed(s[n]) =>
       n \in 1..Len(s2) /\ Listed(s2[n]) /\ s2[n].ctx = s[n].ctx /\ s2[n].img = s[n].img

\* The list stays, and the listed frames with it.
LEMMA ListKeeps ==
  ASSUME NEW s, NEW s2, NEW l \in Seq(Ctxs), Keeps(s, s2), ListOK(s, l),
         \A n \in 1..Len(s2) : Tidy(s2[n]) =>
           (n \in 1..Len(s) /\ Tidy(s[n])) \/ (l # <<>> => l[Len(l)] = s2[n].ctx)
  PROVE  ListOK(s2, l)
<1>1. Once(l) /\ LiveOnList(s2, l)
  BY DEF ListOK, LiveOnList, Keeps
<1>2. InOrder(s2, l)
  <2> SUFFICES ASSUME NEW n \in 1..Len(s2), NEW m \in 1..Len(s2), NEW j \in DOMAIN l, NEW k \in DOMAIN l,
                      n < m, Listed(s2[n]), Listed(s2[m]), l[j] = s2[n].ctx, l[k] = s2[m].ctx
               PROVE  j < k
    BY DEF InOrder
  <2>1. /\ n \in 1..Len(s) /\ Listed(s[n]) /\ s2[n].ctx = s[n].ctx
        /\ m \in 1..Len(s) /\ Listed(s[m]) /\ s2[m].ctx = s[m].ctx
    BY DEF Keeps
  <2>2. InOrder(s, l)
    BY DEF ListOK
  <2> QED
    BY <2>1, <2>2 DEF InOrder
<1>3. OldestLive(s2, l)
  BY DEF ListOK, OldestLive, Keeps
<1>4. LeaksAbove(s2, l)
  <2> SUFFICES ASSUME NEW n \in 1..Len(s2), NEW k \in DOMAIN l,
                      Tidy(s2[n]), l[k] = s2[n].ctx, k < Len(l)
               PROVE  \E m \in 1..Len(s2) : Listed(s2[m]) /\ s2[m].ctx = l[k + 1]
    BY DEF LeaksAbove
  <2>1. l # <<>> /\ Len(l) \in DOMAIN l /\ l[Len(l)] # s2[n].ctx
    BY DEF ListOK, Once
  <2>2. n \in 1..Len(s) /\ Tidy(s[n]) /\ s2[n].ctx = s[n].ctx
    BY <2>1 DEF Keeps, Tidy
  <2>3. PICK m \in 1..Len(s) : Listed(s[m]) /\ s[m].ctx = l[k + 1]
    BY <2>2 DEF ListOK, LeaksAbove
  <2> QED
    BY <2>3 DEF Keeps
<1> QED
  BY <1>1, <1>2, <1>3, <1>4 DEF ListOK

\* A LongJump, or the exit of an image: of the listed frames p is now the last
\* one, and it will look for leaked contexts.
LEMMA ListCut ==
  ASSUME NEW s, NEW s2, NEW l \in Seq(Ctxs), NEW p \in 1..Len(s), Len(s) \in Nat, ListOK(s, l),
         p \in 1..Len(s2), Listed(s[p]), Listed(s2[p]), ~Tidy(s2[p]), s2[p].ctx = s[p].ctx,
         \A n \in 1..Len(s2) : n < p => s2[n] = s[n],
         \A n \in 1..Len(s2) : n > p => ~Listed(s2[n]),
         Len(s2) \in Nat
  PROVE  ListOK(s2, l)
<1>0. /\ Once(l) /\ LiveOnList(s, l) /\ InOrder(s, l) /\ OldestLive(s, l) /\ LeaksAbove(s, l)
      /\ p \in Nat
  BY DEF ListOK
<1>1. ASSUME NEW n \in 1..Len(s2), Listed(s2[n])
      PROVE  n \in 1..Len(s) /\ n <= p /\ Listed(s[n]) /\ s2[n].ctx = s[n].ctx
  BY <1>1
<1>2. ASSUME NEW n \in 1..Len(s), Listed(s[n]), n <= p
      PROVE  n \in 1..Len(s2) /\ Listed(s2[n]) /\ s2[n].ctx = s[n].ctx
  BY <1>2
<1>3. PICK q \in DOMAIN l : l[q] = s[p].ctx
  BY <1>0 DEF LiveOnList
<1>4. LiveOnList(s2, l)
  BY <1>0, <1>1 DEF LiveOnList
<1>5. InOrder(s2, l)
  <2> SUFFICES ASSUME NEW n \in 1..Len(s2), NEW m \in 1..Len(s2), NEW j \in DOMAIN l, NEW k \in DOMAIN l,
                      n < m, Listed(s2[n]), Listed(s2[m]), l[j] = s2[n].ctx, l[k] = s2[m].ctx
               PROVE  j < k
    BY DEF InOrder
  <2> QED
    BY <1>0, <1>1 DEF InOrder
<1>6. OldestLive(s2, l)
  <2> SUFFICES ASSUME l # <<>> PROVE \E n \in 1..Len(s2) : Listed(s2[n]) /\ s2[n].ctx = l[1]
    BY DEF OldestLive
  <2>1. PICK n \in 1..Len(s) : Listed(s[n]) /\ s[n].ctx = l[1]
    BY <1>0 DEF OldestLive
  <2>2. CASE n <= p
    BY <1>2, <2>1, <2>2
  <2>3. CASE p < n
    <3>1. 1 \in DOMAIN l /\ q >= 1
      BY <1>3
    <3>2. q < 1
      BY <1>0, <1>3, <2>1, <2>3, <3>1 DEF InOrder
    <3> QED
      BY <1>3, <3>1, <3>2
  <2> QED
    BY <2>2, <2>3
<1>7. LeaksAbove(s2, l)
  <2> SUFFICES ASSUME NEW n \in 1..Len(s2), NEW k \in DOMAIN l,
                      Tidy(s2[n]), l[k] = s2[n].ctx, k < Len(l)
               PROVE  \E m \in 1..Len(s2) : Listed(s2[m]) /\ s2[m].ctx = l[k + 1]
    BY DEF LeaksAbove
  <2>1. Listed(s2[n]) /\ n # p
    BY DEF Tidy
  <2>2. n < p /\ n \in 1..Len(s) /\ s2[n] = s[n] /\ Tidy(s[n]) /\ Listed(s[n])
    BY <1>0, <1>1, <2>1
  <2>3. PICK m \in 1..Len(s) : Listed(s[m]) /\ s[m].ctx = l[k + 1]
    BY <1>0, <2>2 DEF LeaksAbove
  <2>4. CASE m <= p
    BY <1>2, <2>3, <2>4
  <2>5. CASE p < m
    <3>1. k + 1 \in DOMAIN l /\ k \in Nat /\ q \in Nat
      OBVIOUS
    <3>2. k < q
      BY <1>0, <1>3, <2>2 DEF InOrder
    <3>3. q < k + 1
      BY <1>0, <1>3, <2>3, <2>5, <3>1 DEF InOrder
    <3> QED
      BY <3>1, <3>2, <3>3
  <2> QED
    BY <2>4, <2>5
<1> QED
  BY <1>0, <1>4, <1>5, <1>6, <1>7 DEF ListOK

\* CpuEnterCritical: the last frame g puts its context on the list.
LEMMA ListAppend ==
  ASSUME NEW s, NEW s2, NEW t, NEW g, Cut(s, s2, t, g), t = Len(s), ~Listed(s[t]), Listed(g),
         NEW l \in Seq(Ctxs), g.ctx \in Ctxs, g.ctx \notin OnList(l), ListOK(s, l)
  PROVE  ListOK(s2, Append(l, g.ctx))
<1> DEFINE c == g.ctx
           l2 == Append(l, c)
           e == Len(l) + 1
<1>0. /\ Once(l) /\ LiveOnList(s, l) /\ InOrder(s, l) /\ OldestLive(s, l) /\ LeaksAbove(s, l)
      /\ t \in Nat /\ t \in 1..t /\ Len(s2) = t /\ s2[t] = g
  BY DEF ListOK, Cut
<1>1. ASSUME NEW n \in 1..t, n # t PROVE n \in 1..Len(s) /\ s2[n] = s[n] /\ n < t
  BY <1>0, <1>1 DEF Cut
<1>2. /\ l2 \in Seq(Ctxs) /\ Len(l2) = e /\ e \in DOMAIN l2 /\ l2[e] = c /\ Len(l) \in Nat
      /\ \A k \in DOMAIN l2 : k = e \/ (k \in DOMAIN l /\ k < e)
      /\ \A k \in DOMAIN l : k \in DOMAIN l2 /\ l2[k] = l[k] /\ l[k] # c /\ k < e /\ k \in Nat
  BY DEF OnList
<1> HIDE DEF l2, e
<1>3. \A n \in 1..Len(s) : Listed(s[n]) => n # t /\ n \in 1..t /\ s2[n] = s[n] /\ s[n].ctx # c
  <2> SUFFICES ASSUME NEW n \in 1..Len(s), Listed(s[n])
               PROVE  n # t /\ n \in 1..t /\ s2[n] = s[n] /\ s[n].ctx # c
    OBVIOUS
  <2>1. n # t /\ n \in 1..t
    OBVIOUS
  <2>2. \E k \in DOMAIN l : l[k] = s[n].ctx
    BY <1>0 DEF LiveOnList
  <2> QED
    BY <1>1, <1>2, <2>1, <2>2
<1>4. Once(l2)
  BY <1>0, <1>2 DEF Once
<1>5. LiveOnList(s2, l2)
  <2> SUFFICES ASSUME NEW n \in 1..t, Listed(s2[n]) PROVE \E k \in DOMAIN l2 : l2[k] = s2[n].ctx
    BY <1>0 DEF LiveOnList
  <2>1. CASE n = t
    BY <1>0, <1>2, <2>1
  <2>2. CASE n # t
    <3>1. PICK k \in DOMAIN l : l[k] = s[n].ctx
      BY <1>0, <1>1, <2>2 DEF LiveOnList
    <3> QED
      BY <1>1, <1>2, <2>2, <3>1
  <2> QED
    BY <2>1, <2>2
<1>6. InOrder(s2, l2)
  <2> SUFFICES ASSUME NEW n \in 1..t, NEW m \in 1..t, NEW j \in DOMAIN l2, NEW k \in DOMAIN l2,
                      n < m, Listed(s2[n]), Listed(s2[m]), l2[j] = s2[n].ctx, l2[k] = s2[m].ctx
               PROVE  j < k
    BY <1>0 DEF InOrder
  <2>1. n # t /\ n \in 1..Len(s) /\ s2[n] = s[n] /\ s[n].ctx # c
    BY <1>0, <1>1, <1>3
  <2>2. j \in DOMAIN l /\ l[j] = s[n].ctx /\ j < e
    BY <1>2, <2>1
  <2>3. CASE k = e
    BY <2>2, <2>3
  <2>4. CASE k # e
    <3>1. k \in DOMAIN l /\ l2[k] = l[k] /\ l[k] # c
      BY <1>2, <2>4
    <3>2. m # t /\ m \in 1..Len(s) /\ s2[m] = s[m]
      BY <1>0, <1>1, <3>1
    <3> QED
      BY <1>0, <2>1, <2>2, <3>1, <3>2 DEF InOrder
  <2> QED
    BY <2>3, <2>4
<1>7. OldestLive(s2, l2)
  <2>1. CASE l = <<>>
    <3>1. e = 1
      BY <2>1 DEF e
    <3> QED
      BY <1>0, <1>2, <3>1 DEF OldestLive
  <2>2. CASE l # <<>>
    <3>1. 1 \in DOMAIN l
      BY <2>2
    <3>2. PICK n \in 1..Len(s) : Listed(s[n]) /\ s[n].ctx = l[1]
      BY <1>0, <2>2 DEF OldestLive
    <3>3. n \in 1..t /\ Listed(s2[n]) /\ s2[n].ctx = l2[1]
      BY <1>2, <1>3, <3>1, <3>2
    <3> QED
      BY <1>0, <3>3 DEF OldestLive
  <2> QED
    BY <2>1, <2>2
<1>8. LeaksAbove(s2, l2)
  <2> SUFFICES ASSUME NEW n \in 1..t, NEW k \in DOMAIN l2,
                      Tidy(s2[n]), l2[k] = s2[n].ctx, k < e
               PROVE  \E m \in 1..t : Listed(s2[m]) /\ s2[m].ctx = l2[k + 1]
    BY <1>0, <1>2 DEF LeaksAbove
  <2>1. k \in DOMAIN l /\ l2[k] = l[k] /\ l[k] # c /\ k \in Nat
    BY <1>2
  <2>2. n # t /\ n \in 1..Len(s) /\ s2[n] = s[n]
    BY <1>0, <1>1, <2>1
  <2>3. CASE k = Len(l)
    <3>1. k + 1 = e
      BY <2>3 DEF e
    <3> QED
      BY <1>0, <1>2, <3>1
  <2>4. CASE k # Len(l)
    <3>1. k < Len(l) /\ k + 1 \in DOMAIN l
      BY <2>1, <2>4
    <3>2. PICK m \in 1..Len(s) : Listed(s[m]) /\ s[m].ctx = l[k + 1]
      BY <1>0, <2>1, <2>2, <3>1 DEF LeaksAbove
    <3> QED
      BY <1>2, <1>3, <3>1, <3>2
  <2> QED
    BY <2>3, <2>4
<1> QED
  BY <1>4, <1>5, <1>6, <1>7, <1>8 DEF ListOK, l2

\* CpuLeaveCritical and CpuCompressLeakedContexts: what lies above the context
\* of the last frame is taken off, and that context too unless g keeps it.
LEMMA ListPrefix ==
  ASSUME NEW s, NEW s2, NEW t, NEW g, Cut(s, s2, t, g), t = Len(s), Listed(s[t]),
         g.ctx = s[t].ctx, NEW l \in Seq(Ctxs), ListOK(s, l),
         NEW i \in DOMAIN l, l[i] = g.ctx, NEW keep,
         (keep = i /\ Listed(g)) \/ (keep = i - 1 /\ ~Listed(g))
  PROVE  ListOK(s2, SubSeq(l, 1, keep))
<1> DEFINE l2 == SubSeq(l, 1, keep)
<1>0. /\ Once(l) /\ LiveOnList(s, l) /\ InOrder(s, l) /\ OldestLive(s, l) /\ LeaksAbove(s, l)
      /\ t \in Nat /\ t \in 1..Len(s) /\ Len(s2) = t /\ s2[t] = g
  BY DEF ListOK, Cut
<1>1. ASSUME NEW n \in 1..t, n # t PROVE n \in 1..Len(s) /\ s2[n] = s[n] /\ n < t
  BY <1>0, <1>1 DEF Cut
<1>2. /\ Len(l2) = keep /\ DOMAIN l2 = 1..keep /\ keep \in Nat /\ keep <= i /\ i \in Nat
      /\ \A k \in 1..keep : k \in DOMAIN l /\ l2[k] = l[k]
      /\ \A k \in DOMAIN l : k \in Nat /\ k >= 1 /\ (k < i => k \in 1..keep)
  <2>1. keep \in Nat /\ keep <= i /\ keep <= Len(l) /\ i \in Nat /\ i - 1 <= keep
    OBVIOUS
  <2>2. Len(l2) = keep /\ DOMAIN l2 = 1..keep /\ \A k \in 1..keep : k \in DOMAIN l /\ l2[k] = l[k]
    BY <2>1
  <2>3. \A k \in DOMAIN l : k \in Nat /\ k >= 1 /\ (k < i => k \in 1..keep)
    BY <2>1
  <2> QED
    BY <2>1, <2>2, <2>3
<1>3. \A k \in DOMAIN l : l[k] = s[t].ctx => k = i
  BY <1>0 DEF Once
<1> HIDE DEF l2
<1>4. Once(l2)
  BY <1>0, <1>2 DEF Once
<1>5. LiveOnList(s2, l2)
  <2> SUFFICES ASSUME NEW n \in 1..t, Listed(s2[n]) PROVE \E k \in DOMAIN l2 : l2[k] = s2[n].ctx
    BY <1>0 DEF LiveOnList
  <2>1. CASE n = t
    <3>1. keep = i /\ i \in 1..keep
      BY <1>0, <1>2, <2>1
    <3> QED
      BY <1>0, <1>2, <2>1, <3>1
  <2>2. CASE n # t
    <3>1. PICK k \in DOMAIN l : l[k] = s[n].ctx
      BY <1>0, <1>1, <2>2 DEF LiveOnList
    <3>2. k < i
      BY <1>0, <1>1, <2>2, <3>1 DEF InOrder
    <3> QED
      BY <1>1, <1>2, <2>2, <3>1, <3>2
  <2> QED
    BY <2>1, <2>2
<1>6. \A n \in 1..t : Listed(s2[n]) => n \in 1..Len(s) /\ Listed(s[n]) /\ s2[n].ctx = s[n].ctx
  BY <1>0, <1>1
<1>7. InOrder(s2, l2)
  <2> SUFFICES ASSUME NEW n \in 1..t, NEW m \in 1..t, NEW j \in DOMAIN l2, NEW k \in DOMAIN l2,
                      n < m, Listed(s2[n]), Listed(s2[m]), l2[j] = s2[n].ctx, l2[k] = s2[m].ctx
               PROVE  j < k
    BY <1>0 DEF InOrder
  <2> QED
    BY <1>0, <1>2, <1>6 DEF InOrder
<1>8. \A m \in 1..Len(s), k \in 1..keep : Listed(s[m]) /\ s[m].ctx = l[k] =>
        m \in 1..t /\ Listed(s2[m]) /\ s2[m].ctx = l2[k]
  <2> SUFFICES ASSUME NEW m \in 1..Len(s), NEW k \in 1..keep, Listed(s[m]), s[m].ctx = l[k]
               PROVE  m \in 1..t /\ Listed(s2[m]) /\ s2[m].ctx = l2[k]
    OBVIOUS
  <2>1. CASE m = t
    <3>1. k = i /\ keep = i
      BY <1>2, <1>3, <2>1
    <3> QED
      BY <1>0, <1>2, <2>1, <3>1
  <2>2. CASE m # t
    BY <1>1, <1>2, <2>2
  <2> QED
    BY <2>1, <2>2
<1>9. OldestLive(s2, l2)
  <2> SUFFICES ASSUME l2 # <<>> PROVE \E n \in 1..t : Listed(s2[n]) /\ s2[n].ctx = l2[1]
    BY <1>0 DEF OldestLive
  <2>1. 1 \in 1..keep
    <3>1. keep # 0
      BY <1>2 DEF l2
    <3> QED
      BY <1>2, <3>1
  <2>2. l # <<>>
    BY <1>2, <2>1
  <2>3. PICK n \in 1..Len(s) : Listed(s[n]) /\ s[n].ctx = l[1]
    BY <1>0, <2>2 DEF OldestLive
  <2> QED
    BY <1>8, <2>1, <2>3
<1>10. LeaksAbove(s2, l2)
  <2> SUFFICES ASSUME NEW n \in 1..t, NEW k \in 1..keep,
                      Tidy(s2[n]), l2[k] = s2[n].ctx, k < keep
               PROVE  \E m \in 1..t : Listed(s2[m]) /\ s2[m].ctx = l2[k + 1]
    BY <1>0, <1>2 DEF LeaksAbove
  <2>1. k \in DOMAIN l /\ k + 1 \in 1..keep /\ k < Len(l)
    BY <1>2
  <2>2. n # t
    BY <1>0, <1>2, <1>3
  <2>3. n \in 1..Len(s) /\ Tidy(s[n]) /\ l[k] = s[n].ctx
    BY <1>1, <1>2, <2>2
  <2>4. PICK m \in 1..Len(s) : Listed(s[m]) /\ s[m].ctx = l[k + 1]
    BY <1>0, <2>1, <2>3 DEF LeaksAbove
  <2> QED
    BY <1>8, <2>1, <2>4
<1> QED
  BY <1>4, <1>5, <1>7, <1>9, <1>10 DEF ListOK, l2

-----------------------------------------------------------------------------
(* All of the invariant, for the stacks that steps leave behind.           *)

\* A frame of kind f goes on as g.
GoesOn(f, g) ==
  /\ g.kind = f.kind /\ g.ctx = f.ctx /\ g.img = f.img
  /\ Listed(g) <=> Listed(f)
  /\ g.pc = "start" => f.pc = "start"

\* No registers are saved where none were.
Fewer(sv, sv2) == \A c \in Ctxs : sv[c] = NotSaved => sv2[c] = NotSaved

\* Frames that own nothing.
LEMMA OwnsNone ==
  ASSUME NEW f, FrameOK(f), f.pc \notin {"unwind", "free", "start", "left", "done"}
  PROVE  Owns(f) = {} /\ f.pend = <<>>
<1>1. f.pend = <<>> /\ ~Held(f)
  BY DEF FrameOK, Held
<1> QED
  BY <1>1 DEF Owns, Pending

\* The frames that stay have their images.
LEMMA ImagesKeeps ==
  ASSUME NEW s, NEW s2, NEW l, NEW im, Keeps(s, s2), ImagesOK(s, l, im),
         \A n \in 1..Len(s2) : s2[n].kind = "run" /\ s2[n].pc = "start" =>
           /\ n \in 1..Len(s) /\ s[n].kind = "run" /\ s[n].pc = "start"
           /\ s2[n].ctx = s[n].ctx /\ s2[n].img = s[n].img
  PROVE  ImagesOK(s2, l, im)
<1>1. ASSUME NEW k \in DOMAIN l, im[l[k]] # NoImage
      PROVE  \E n \in 1..Len(s2) : Listed(s2[n]) /\ s2[n].ctx = l[k] /\ s2[n].img = im[l[k]]
  <2>1. PICK n \in 1..Len(s) : Listed(s[n]) /\ s[n].ctx = l[k] /\ s[n].img = im[l[k]]
    BY <1>1 DEF ImagesOK
  <2> QED
    BY <2>1 DEF Keeps
<1>2. ASSUME NEW n \in 1..Len(s2), s2[n].kind = "run", s2[n].pc = "start"
      PROVE  s2[n].img = im[s2[n].ctx]
  BY <1>2 DEF ImagesOK
<1> QED
  BY <1>1, <1>2 DEF ImagesOK

\* What a frame needs saved or unsaved survives that fewer contexts are saved.
LEMMA ClearFewer ==
  ASSUME NEW f \in Frame, FrameOK(f), NEW sv, NEW sv2, Clear(f, sv), Fewer(sv, sv2)
  PROVE  Clear(f, sv2)
<1>1. \A k \in DOMAIN f.pend : f.pend[k] \in Ctxs
  BY DEF Frame
<1>2. f.kind = "run" => f.ctx \in Ctxs
  BY DEF FrameOK
<1> QED
  BY <1>1, <1>2 DEF Clear, Fewer

\* The frames that stay have what they had of saved registers, or less.
LEMMA SavedCut ==
  ASSUME NEW s, NEW s2, NEW t, NEW g, Cut(s, s2, t, g), NEW sv, NEW sv2,
         ShapeOK(s), SavedOK(s, sv), Fewer(sv, sv2), Clear(g, sv2)
  PROVE  SavedOK(s2, sv2)
<1> SUFFICES ASSUME NEW n \in 1..Len(s2) PROVE Clear(s2[n], sv2)
  BY DEF SavedOK
<1>1. n \in 1..t /\ t \in 1..Len(s) /\ Len(s) \in Nat
  BY DEF Cut
<1>2. CASE n = t
  BY <1>2 DEF Cut
<1>3. CASE n # t
  <2>1. n \in 1..(t - 1) /\ n \in 1..Len(s)
    BY <1>1, <1>3
  <2>2. s2[n] = s[n] /\ Clear(s[n], sv)
    BY <2>1 DEF Cut, SavedOK
  <2> QED
    BY <2>1, <2>2, ClearFewer DEF Cut, ShapeOK
<1> QED
  BY <1>2, <1>3

\* Frame t goes on as g, and none above it was listed.
LEMMA PoolCut ==
  ASSUME NEW s, NEW s2, NEW t, NEW g, Cut(s, s2, t, g),
         NEW l \in Seq(Ctxs), NEW f, NEW f2, NEW im, NEW sv, NEW sv2, PoolOK(s, l, f, im, sv),
         GoesOn(s[t], g), FrameOK(g), \A n \in (t + 1)..Len(s) : ~Listed(s[n]),
         Tidy(g) => Tidy(s[t]) \/ (l # <<>> => l[Len(l)] = g.ctx),
         Owns(g) \cap (OnList(l) \cup f2) = {}, OnList(l) \cap f2 = {},
         \A c : c \in Owns(g) \cup OnList(l) \cup f2 <=>
                  c \in OnList(l) \cup f \/ \E n \in t..Len(s) : c \in Owns(s[n]),
         Fewer(sv, sv2), Clear(g, sv2)
  PROVE  PoolOK(s2, l, f2, im, sv2)
<1>1. t \in Nat /\ Len(s) \in Nat /\ 1 <= t /\ t <= Len(s) /\ Len(s2) = t /\ s2[t] = g
  BY DEF Cut
<1>2. ASSUME NEW n \in 1..t, n # t PROVE s2[n] = s[n] /\ n \in 1..Len(s)
  BY <1>1, <1>2 DEF Cut
<1>3. ShapeOK(s2)
  BY ShapeCut DEF PoolOK, GoesOn
<1>4. Apart(s2, l, f2) /\ Covered(s2, l, f2)
  BY PlacesCut DEF PoolOK
<1>5. Keeps(s, s2)
  <2>1. \A n \in 1..t : Listed(s2[n]) <=> Listed(s[n])
    BY <1>1, <1>2 DEF GoesOn
  <2>2. \A n \in 1..t : s2[n].ctx = s[n].ctx /\ s2[n].img = s[n].img
    BY <1>1, <1>2 DEF GoesOn
  <2>3. \A n \in 1..t : n \in 1..Len(s)
    BY <1>1
  <2>4. \A n \in 1..Len(s) : Listed(s[n]) => n \in 1..t
    BY <1>1
  <2> QED
    BY <1>1, <2>1, <2>2, <2>3, <2>4 DEF Keeps
<1>6. ListOK(s2, l)
  <2>1. \A n \in 1..Len(s2) : Tidy(s2[n]) =>
           (n \in 1..Len(s) /\ Tidy(s[n])) \/ (l # <<>> => l[Len(l)] = s2[n].ctx)
    BY <1>1, <1>2
  <2> QED
    BY <1>5, <2>1, ListKeeps DEF PoolOK
<1>7. ImagesOK(s2, l, im)
  <2>1. \A n \in 1..Len(s2) : s2[n].kind = "run" /\ s2[n].pc = "start" =>
           /\ n \in 1..Len(s) /\ s[n].kind = "run" /\ s[n].pc = "start"
           /\ s2[n].ctx = s[n].ctx /\ s2[n].img = s[n].img
    BY <1>1, <1>2 DEF GoesOn
  <2> QED
    BY <1>5, <2>1, ImagesKeeps DEF PoolOK
<1>8. SavedOK(s2, sv2)
  BY SavedCut DEF PoolOK
<1> QED
  BY <1>3, <1>4, <1>6, <1>7, <1>8 DEF PoolOK

\* The same when nothing changes hands.
LEMMA PoolSame ==
  ASSUME NEW s, NEW s2, NEW t, NEW g, Cut(s, s2, t, g),
         NEW l \in Seq(Ctxs), NEW f, NEW im, NEW sv, NEW sv2, PoolOK(s, l, f, im, sv),
         GoesOn(s[t], g), FrameOK(g), Owns(g) = Owns(s[t]),
         \A n \in (t + 1)..Len(s) : ~Listed(s[n]) /\ Owns(s[n]) = {},
         Tidy(g) => Tidy(s[t]) \/ (l # <<>> => l[Len(l)] = g.ctx),
         Fewer(sv, sv2), Clear(g, sv2)
  PROVE  PoolOK(s2, l, f, im, sv2)
<1>1. t \in 1..Len(s) /\ Len(s) \in Nat
  BY DEF Cut
<1>2. /\ Owns(s[t]) \cap (OnList(l) \cup f) = {} /\ OnList(l) \cap f = {}
  BY <1>1 DEF PoolOK, Apart
<1>3. ASSUME NEW c
      PROVE  c \in Owns(g) \cup OnList(l) \cup f <=>
               c \in OnList(l) \cup f \/ \E n \in t..Len(s) : c \in Owns(s[n])
  <2>1. (\E n \in t..Len(s) : c \in Owns(s[n])) <=> c \in Owns(s[t])
    <3>1. \A n \in t..Len(s) : n = t \/ n \in (t + 1)..Len(s)
      BY <1>1
    <3>2. t \in t..Len(s)
      BY <1>1
    <3> QED
      BY <3>1, <3>2
  <2> QED
    BY <2>1
<1> QED
  BY <1>2, <1>3, PoolCut

\* A frame that is not listed comes on top.
LEMMA PoolPush ==
  ASSUME NEW s, NEW s2, NEW h, Pushed(s, s2, h), Len(s) > 0,
         NEW l \in Seq(Ctxs), NEW f, NEW f2, NEW im, NEW im2, NEW sv, NEW sv2,
         PoolOK(s, l, f, im, sv), FrameOK(h), NextOK(s[Len(s)], h), ~Listed(h),
         Owns(h) \cap f2 = {}, Owns(h) \cup f2 = f,
         \A c \in Ctxs : c \notin Owns(h) => im2[c] = im[c],
         h.kind = "run" /\ h.pc = "start" => h.img = im2[h.ctx],
         Fewer(sv, sv2), Clear(h, sv2)
  PROVE  PoolOK(s2, l, f2, im2, sv2)
<1> DEFINE t == Len(s) + 1
<1>1. Len(s) \in Nat /\ Len(s2) = t /\ s2[t] = h
  BY DEF Pushed
<1>2. \A n \in 1..Len(s) : s2[n] = s[n] /\ n \in 1..t
  BY <1>1 DEF Pushed
<1>3. \A n \in 1..t : n = t \/ n \in 1..Len(s)
  BY <1>1
<1> HIDE DEF t
<1>4. ShapeOK(s2)
  BY ShapePushed DEF PoolOK
<1>5. Apart(s2, l, f2) /\ Covered(s2, l, f2)
  BY PlacesPushed DEF PoolOK
<1>6. Keeps(s, s2)
  BY <1>1, <1>2, <1>3 DEF Keeps
<1>7. ListOK(s2, l)
  <2>1. \A n \in 1..Len(s2) : Tidy(s2[n]) =>
           (n \in 1..Len(s) /\ Tidy(s[n])) \/ (l # <<>> => l[Len(l)] = s2[n].ctx)
    BY <1>1, <1>2, <1>3 DEF Tidy
  <2> QED
    BY <1>6, <2>1, ListKeeps DEF PoolOK
<1>8. ImagesOK(s2, l, im2)
  <2>1. \A k \in DOMAIN l : im2[l[k]] = im[l[k]]
    <3>1. OnList(l) \cap f = {}
      BY DEF PoolOK, Apart
    <3>2. \A k \in DOMAIN l : l[k] \in OnList(l) /\ l[k] \in Ctxs
      BY DEF OnList
    <3> QED
      BY <3>1, <3>2
  <2>2. ASSUME NEW k \in DOMAIN l, im2[l[k]] # NoImage
        PROVE  \E n \in 1..Len(s2) : Listed(s2[n]) /\ s2[n].ctx = l[k] /\ s2[n].img = im2[l[k]]
    <3>1. PICK n \in 1..Len(s) : Listed(s[n]) /\ s[n].ctx = l[k] /\ s[n].img = im[l[k]]
      BY <2>1, <2>2 DEF PoolOK, ImagesOK
    <3> QED
      BY <1>1, <1>2, <2>1, <3>1
  <2>3. ASSUME NEW n \in 1..Len(s2), s2[n].kind = "run", s2[n].pc = "start"
        PROVE  s2[n].img = im2[s2[n].ctx]
    <3>1. CASE n = t
      BY <1>1, <2>3, <3>1
    <3>2. CASE n # t
      <4>1. n \in 1..Len(s) /\ s2[n] = s[n]
        BY <1>1, <1>2, <1>3, <3>2
      <4>2. s[n].ctx \in Owns(s[n]) /\ s[n].ctx \in Ctxs
        BY <2>3, <4>1 DEF Owns, Held, PoolOK, ShapeOK, FrameOK
      <4>3. Owns(s[n]) \cap f = {}
        BY <4>1 DEF PoolOK, Apart
      <4>4. im2[s[n].ctx] = im[s[n].ctx]
        BY <4>2, <4>3
      <4> QED
        BY <2>3, <4>1, <4>4 DEF PoolOK, ImagesOK
    <3> QED
      BY <3>1, <3>2
  <2> QED
    BY <2>2, <2>3 DEF ImagesOK
<1>9. SavedOK(s2, sv2)
  <2> SUFFICES ASSUME NEW n \in 1..Len(s2) PROVE Clear(s2[n], sv2)
    BY DEF SavedOK
  <2>1. CASE n = t
    BY <1>1, <2>1
  <2>2. CASE n # t
    <3>1. n \in 1..Len(s) /\ s2[n] = s[n]
      BY <1>1, <1>2, <1>3, <2>2
    <3>2. Clear(s[n], sv) /\ FrameOK(s[n]) /\ s[n] \in Frame
      BY <3>1 DEF PoolOK, SavedOK, ShapeOK, Pushed
    <3> QED
      BY <3>1, <3>2, ClearFewer
  <2> QED
    BY <2>1, <2>2
<1> QED
  BY <1>4, <1>5, <1>7, <1>8, <1>9 DEF PoolOK

\* A LongJump, or the exit of an image: p is the last listed frame now.
LEMMA PoolJump ==
  ASSUME NEW s, NEW s2, NEW t, NEW g, Cut(s, s2, t, g),
         NEW l \in Seq(Ctxs), NEW f, NEW im, NEW sv, PoolOK(s, l, f, im, sv),
         g.kind = s[t].kind, FrameOK(g), Owns(g) = {}, Clear(g, sv),
         g.kind = "run" => g.pc # "start",
         NEW p \in 1..t, Listed(s[p]), Listed(s2[p]), ~Tidy(s2[p]), s2[p].ctx = s[p].ctx,
         s2[p].img = s[p].img, \A n \in (p + 1)..t : ~Listed(s2[n]),
         \A n \in t..Len(s) : Owns(s[n]) = {},
         \A n \in (p + 1)..Len(s), k \in DOMAIN l :
            Listed(s[n]) /\ s[n].ctx = l[k] /\ s[n].img = im[l[k]] => im[l[k]] = NoImage
  PROVE  PoolOK(s2, l, f, im, sv)
<1>1. /\ t \in Nat /\ Len(s) \in Nat /\ 1 <= t /\ t <= Len(s) /\ Len(s2) = t /\ s2[t] = g
      /\ p \in Nat
  BY DEF Cut
<1>2. ASSUME NEW n \in 1..t, n # t PROVE s2[n] = s[n] /\ n \in 1..Len(s)
  BY <1>1, <1>2 DEF Cut
<1>3. ShapeOK(s2)
  BY ShapeCut DEF PoolOK
<1>4. Apart(s2, l, f) /\ Covered(s2, l, f)
  <2>1. OnList(l) \cap f = {}
    BY DEF PoolOK, Apart
  <2>2. \A c : c \in Owns(g) \cup OnList(l) \cup f <=>
                  c \in OnList(l) \cup f \/ \E n \in t..Len(s) : c \in Owns(s[n])
    OBVIOUS
  <2> QED
    BY <2>1, <2>2, PlacesCut DEF PoolOK
<1>5. ListOK(s2, l)
  <2>1. \A n \in 1..Len(s2) : n < p => s2[n] = s[n]
    BY <1>1, <1>2
  <2>2. \A n \in 1..Len(s2) : n > p => ~Listed(s2[n])
    BY <1>1
  <2>3. p \in 1..Len(s) /\ p \in 1..Len(s2)
    BY <1>1
  <2> QED
    BY <1>1, <2>1, <2>2, <2>3, ListCut DEF PoolOK
<1>6. ImagesOK(s2, l, im)
  <2>1. ASSUME NEW k \in DOMAIN l, im[l[k]] # NoImage
        PROVE  \E n \in 1..Len(s2) : Listed(s2[n]) /\ s2[n].ctx = l[k] /\ s2[n].img = im[l[k]]
    <3>1. PICK n \in 1..Len(s) : Listed(s[n]) /\ s[n].ctx = l[k] /\ s[n].img = im[l[k]]
      BY <2>1 DEF PoolOK, ImagesOK
    <3>2. ~(n \in (p + 1)..Len(s))
      BY <2>1, <3>1
    <3>3. CASE n = p
      BY <1>1, <3>1, <3>3
    <3>4. CASE n # p
      <4>1. n \in 1..t /\ n # t
        BY <1>1, <3>2, <3>4
      <4> QED
        BY <1>1, <1>2, <3>1, <4>1
    <3> QED
      BY <3>3, <3>4
  <2>2. ASSUME NEW n \in 1..Len(s2), s2[n].kind = "run", s2[n].pc = "start"
        PROVE  s2[n].img = im[s2[n].ctx]
    <3>1. n # t
      BY <1>1, <2>2
    <3>2. s2[n] = s[n] /\ n \in 1..Len(s)
      BY <1>1, <1>2, <3>1
    <3> QED
      BY <2>2, <3>2 DEF PoolOK, ImagesOK
  <2> QED
    BY <2>1, <2>2 DEF ImagesOK
<1>7. SavedOK(s2, sv)
  <2>1. Fewer(sv, sv)
    BY DEF Fewer
  <2> QED
    BY <2>1, SavedCut DEF PoolOK
<1> QED
  BY <1>3, <1>4, <1>5, <1>6, <1>7 DEF PoolOK

\* CpuEnterCritical: the context of the last frame goes from it to the list.
LEMMA PoolAppend ==
  ASSUME NEW s, NEW s2, NEW t, NEW g, Cut(s, s2, t, g), t = Len(s),
         NEW l \in Seq(Ctxs), NEW f, NEW im, NEW sv, PoolOK(s, l, f, im, sv),
         s[t].kind = "run", s[t].pc = "start", g.kind = "run", g.pc = "entered",
         g.ctx = s[t].ctx, g.ctx \in Ctxs, g.img = s[t].img, FrameOK(g)
  PROVE  PoolOK(s2, Append(l, g.ctx), f, im, sv)
<1> DEFINE c == g.ctx
           l2 == Append(l, c)
<1>1. t \in 1..Len(s) /\ Len(s) \in Nat /\ Len(s2) = t /\ s2[t] = g /\ t \in 1..t
  BY DEF Cut
<1>2. \A n \in 1..t : n # t => s2[n] = s[n] /\ n \in 1..Len(s)
  BY <1>1 DEF Cut
<1>3. FrameOK(s[t]) /\ ~Listed(s[t]) /\ ~g.exiting /\ Listed(g)
  BY <1>1 DEF PoolOK, ShapeOK, Listed, FrameOK
<1>4. Owns(s[t]) = {c} /\ Owns(g) = {}
  <2>1. s[t].pend = <<>> /\ Held(s[t])
    BY <1>3 DEF FrameOK, Held
  <2> QED
    BY <1>3, <2>1, OwnsNone DEF Owns, Pending
<1>5. c \notin OnList(l) \cup f /\ OnList(l) \cap f = {}
  BY <1>1, <1>4 DEF PoolOK, Apart
<1>6. OnList(l2) = OnList(l) \cup {c}
  <2>1. Len(l2) = Len(l) + 1 /\ l2[Len(l) + 1] = c /\ Len(l) \in Nat
        /\ \A k \in 1..Len(l) : l2[k] = l[k]
    OBVIOUS
  <2>2. DOMAIN l2 = 1..(Len(l) + 1) /\ DOMAIN l = 1..Len(l)
    OBVIOUS
  <2> HIDE DEF l2
  <2>3. \A k \in 1..(Len(l) + 1) : k \in 1..Len(l) \/ k = Len(l) + 1
    BY <2>1
  <2>4. 1..Len(l) \subseteq 1..(Len(l) + 1) /\ Len(l) + 1 \in 1..(Len(l) + 1)
    BY <2>1
  <2> QED
    BY <2>1, <2>2, <2>3, <2>4 DEF OnList
<1>7. ShapeOK(s2)
  BY ShapeCut DEF PoolOK
<1>8. ListOK(s2, l2)
  BY <1>3, <1>5, ListAppend DEF PoolOK
<1>9. Apart(s2, l2, f) /\ Covered(s2, l2, f)
  <2>1. \A x : (\E n \in t..Len(s) : x \in Owns(s[n])) <=> x \in Owns(s[t])
    BY <1>1
  <2>2. \A x : x \in Owns(g) \cup OnList(l2) \cup f <=>
                  x \in OnList(l) \cup f \/ \E n \in t..Len(s) : x \in Owns(s[n])
    BY <1>4, <1>6, <2>1
  <2>3. Owns(g) \cap (OnList(l2) \cup f) = {} /\ OnList(l2) \cap f = {}
    BY <1>4, <1>5, <1>6
  <2> HIDE DEF l2
  <2> QED
    BY <2>2, <2>3, PlacesCut DEF PoolOK
<1>10. ImagesOK(s2, l2, im)
  <2>1. ASSUME NEW k \in DOMAIN l2, im[l2[k]] # NoImage
        PROVE  \E n \in 1..Len(s2) : Listed(s2[n]) /\ s2[n].ctx = l2[k] /\ s2[n].img = im[l2[k]]
    <3>1. CASE l2[k] = c
      <4>1. g.img = im[c]
        BY <1>1 DEF PoolOK, ImagesOK
      <4> QED
        BY <1>1, <1>3, <3>1, <4>1
    <3>2. CASE l2[k] # c
      <4>1. PICK j \in DOMAIN l : l[j] = l2[k]
        BY <1>6, <3>2 DEF OnList
      <4>2. PICK n \in 1..Len(s) : Listed(s[n]) /\ s[n].ctx = l[j] /\ s[n].img = im[l[j]]
        BY <2>1, <4>1 DEF PoolOK, ImagesOK
      <4>3. n \in 1..t /\ n # t
        BY <1>3, <4>2
      <4> QED
        BY <1>1, <1>2, <4>1, <4>2, <4>3
    <3> QED
      BY <3>1, <3>2
  <2>2. ASSUME NEW n \in 1..Len(s2), s2[n].kind = "run", s2[n].pc = "start"
        PROVE  s2[n].img = im[s2[n].ctx]
    <3>1. s2[n] = s[n] /\ n \in 1..Len(s)
      BY <1>1, <1>2, <2>2
    <3> QED
      BY <2>2, <3>1 DEF PoolOK, ImagesOK
  <2> QED
    BY <2>1, <2>2 DEF ImagesOK
<1>11. SavedOK(s2, sv)
  <2>1. Fewer(sv, sv) /\ Clear(g, sv)
    BY DEF Fewer, Clear
  <2> QED
    BY <2>1, SavedCut DEF PoolOK
<1> QED
  BY <1>7, <1>8, <1>9, <1>10, <1>11 DEF PoolOK

\* CpuLeaveCritical and CpuCompressLeakedContexts: what is taken off the list
\* goes to the last frame.
LEMMA PoolPrefix ==
  ASSUME NEW s, NEW s2, NEW t, NEW g, Cut(s, s2, t, g), t = Len(s),
         NEW l \in Seq(Ctxs), NEW f, NEW im, NEW sv, PoolOK(s, l, f, im, sv),
         Listed(s[t]), Owns(s[t]) = {}, g.kind = "run", g.pc # "start",
         g.ctx = s[t].ctx, g.img = s[t].img, FrameOK(g), Clear(g, sv),
         NEW i \in DOMAIN l, l[i] = g.ctx, NEW keep,
         (keep = i /\ Listed(g)) \/ (keep = i - 1 /\ ~Listed(g)),
         Owns(g) = {l[k] : k \in (keep + 1)..Len(l)}
  PROVE  PoolOK(s2, SubSeq(l, 1, keep), f, im, sv)
<1> DEFINE l2 == SubSeq(l, 1, keep)
<1>1. t \in 1..Len(s) /\ Len(s) \in Nat /\ Len(s2) = t /\ s2[t] = g /\ t \in 1..t
  BY DEF Cut
<1>2. \A n \in 1..t : n # t => s2[n] = s[n] /\ n \in 1..Len(s)
  BY <1>1 DEF Cut
<1>3. keep \in Nat /\ keep <= Len(l) /\ i \in Nat /\ i <= Len(l) /\ Len(l) \in Nat
      /\ DOMAIN l = 1..Len(l)
  OBVIOUS
<1>4. Len(l2) = keep /\ DOMAIN l2 = 1..keep /\ \A k \in 1..keep : l2[k] = l[k] /\ k \in 1..Len(l)
  BY <1>3
<1> HIDE DEF l2
<1>5. Once(l) /\ OnList(l) \cap f = {}
  BY DEF PoolOK, ListOK, Apart
<1>6. OnList(l2) \cup Owns(g) = OnList(l) /\ OnList(l2) \cap Owns(g) = {}
  <2>1. OnList(l2) = {l[k] : k \in 1..keep}
    BY <1>4 DEF OnList
  <2>2. \A k \in 1..Len(l) : k \in 1..keep \/ k \in (keep + 1)..Len(l)
    BY <1>3
  <2>3. \A k \in (keep + 1)..Len(l) : k \in 1..Len(l) /\ k \notin 1..keep
    BY <1>3
  <2>4. OnList(l2) \cup Owns(g) = OnList(l)
    BY <1>3, <1>4, <2>1, <2>2, <2>3 DEF OnList
  <2>5. ASSUME NEW j \in 1..keep, NEW k \in (keep + 1)..Len(l), l[j] = l[k] PROVE FALSE
    <3>1. j \in DOMAIN l /\ k \in DOMAIN l
      BY <1>3, <1>4, <2>3
    <3>2. j = k
      BY <1>5, <2>5, <3>1 DEF Once
    <3> QED
      BY <2>3, <3>2
  <2> QED
    BY <2>1, <2>4, <2>5
<1>7. ShapeOK(s2)
  <2>1. s[t].kind = "run"
    BY DEF Listed
  <2> QED
    BY <2>1, ShapeCut DEF PoolOK
<1>8. ListOK(s2, l2)
  BY ListPrefix DEF PoolOK, l2
<1>9. Apart(s2, l2, f) /\ Covered(s2, l2, f)
  <2>1. \A x : (\E n \in t..Len(s) : x \in Owns(s[n])) <=> x \in Owns(s[t])
    BY <1>1
  <2>2. \A x : x \in Owns(g) \cup OnList(l2) \cup f <=>
                  x \in OnList(l) \cup f \/ \E n \in t..Len(s) : x \in Owns(s[n])
    BY <1>6, <2>1
  <2>3. Owns(g) \cap (OnList(l2) \cup f) = {} /\ OnList(l2) \cap f = {}
    BY <1>5, <1>6
  <2> QED
    BY <2>2, <2>3, PlacesCut DEF PoolOK
<1>10. ImagesOK(s2, l2, im)
  <2>1. ASSUME NEW k \in DOMAIN l2, im[l2[k]] # NoImage
        PROVE  \E n \in 1..Len(s2) : Listed(s2[n]) /\ s2[n].ctx = l2[k] /\ s2[n].img = im[l2[k]]
    <3>1. k \in DOMAIN l /\ l2[k] = l[k] /\ k \in 1..keep
      BY <1>3, <1>4
    <3>2. PICK n \in 1..Len(s) : Listed(s[n]) /\ s[n].ctx = l[k] /\ s[n].img = im[l[k]]
      BY <2>1, <3>1 DEF PoolOK, ImagesOK
    <3>3. CASE n = t
      <4>1. k = i
        BY <1>5, <3>1, <3>2, <3>3 DEF Once
      <4>2. Listed(g)
        BY <1>3, <3>1, <4>1
      <4> QED
        BY <1>1, <3>1, <3>2, <3>3, <4>2
    <3>4. CASE n # t
      BY <1>1, <1>2, <3>1, <3>2, <3>4
    <3> QED
      BY <3>3, <3>4
  <2>2. ASSUME NEW n \in 1..Len(s2), s2[n].kind = "run", s2[n].pc = "start"
        PROVE  s2[n].img = im[s2[n].ctx]
    <3>1. s2[n] = s[n] /\ n \in 1..Len(s)
      BY <1>1, <1>2, <2>2
    <3> QED
      BY <2>2, <3>1 DEF PoolOK, ImagesOK
  <2> QED
    BY <2>1, <2>2 DEF ImagesOK
<1>11. SavedOK(s2, sv)
  <2>1. Fewer(sv, sv)
    BY DEF Fewer
  <2> QED
    BY <2>1, SavedCut DEF PoolOK
<1> QED
  BY <1>7, <1>8, <1>9, <1>10, <1>11 DEF PoolOK, l2

\* The registers of the engine are saved in the context of the last frame.
LEMMA PoolSave ==
  ASSUME NEW s \in Seq(Frame), Len(s) # 0, NEW l \in Seq(Ctxs), NEW f, NEW im, NEW sv, NEW sv2,
         PoolOK(s, l, f, im, sv),
         Listed(s[Len(s)]), s[Len(s)].pc = "prepare",
         \A c \in Ctxs : c # s[Len(s)].ctx => sv2[c] = sv[c]
  PROVE  PoolOK(s, l, f, im, sv2)
<1> DEFINE t == Len(s)
           c == s[t].ctx
<1>0. t \in 1..Len(s) /\ Len(s) \in Nat
  OBVIOUS
<1>1. PICK q \in DOMAIN l : l[q] = c
  BY <1>0 DEF PoolOK, ListOK, LiveOnList
<1>2. c \in OnList(l) /\ q \in Nat
  BY <1>1 DEF OnList
<1>3. ASSUME NEW n \in 1..Len(s) PROVE Clear(s[n], sv2)
  <2>1. Clear(s[n], sv) /\ Owns(s[n]) \cap OnList(l) = {}
    BY DEF PoolOK, SavedOK, Apart
  <2>2. ASSUME s[n].pc = "free", NEW k \in DOMAIN s[n].pend PROVE sv2[s[n].pend[k]] = NotSaved
    <3>1. s[n].pend[k] \in Owns(s[n])
      BY <2>2 DEF Owns, Pending
    <3>2. s[n].pend[k] # c /\ s[n].pend[k] \in Ctxs
      <4>1. s[n] \in Frame
        OBVIOUS
      <4>2. s[n].pend \in Seq(Ctxs)
        BY <4>1 DEF Frame
      <4> QED
        BY <1>2, <2>1, <3>1, <4>2
    <3> QED
      BY <2>1, <2>2, <3>2 DEF Clear
  <2>3. ASSUME s[n].kind = "run", s[n].pc \in {"leave", "left", "done"} PROVE sv2[s[n].ctx] = NotSaved
    <3>1. CASE s[n].pc = "leave"
      <4>1. Listed(s[n]) /\ n # t /\ n < t /\ s[n].ctx \in Ctxs
        BY <2>3, <3>1 DEF Listed, PoolOK, ShapeOK, FrameOK
      <4>2. s[n].ctx # c
        BY <1>0, <1>1, <1>2, <4>1 DEF PoolOK, ListOK, InOrder
      <4> QED
        BY <2>1, <2>3, <4>1, <4>2 DEF Clear
    <3>2. CASE s[n].pc \in {"left", "done"}
      <4>1. s[n].ctx \in Owns(s[n]) /\ s[n].ctx \in Ctxs
        BY <2>3, <3>2 DEF Owns, Held, PoolOK, ShapeOK, FrameOK
      <4>2. s[n].ctx # c
        BY <1>2, <2>1, <4>1
      <4> QED
        BY <2>1, <2>3, <4>1, <4>2 DEF Clear
    <3> QED
      BY <2>3, <3>1, <3>2
  <2> QED
    BY <2>2, <2>3 DEF Clear
<1> QED
  BY <1>3 DEF PoolOK, SavedOK

-----------------------------------------------------------------------------
(* The stacks that steps leave behind.                                     *)

\* An activation goes to pc q, with contexts d to free; e: its image exits.
GoesTo(f, g, q, d, e) ==
  /\ g \in Frame /\ g.kind = f.kind /\ g.ctx = f.ctx /\ g.img = f.img
  /\ g.pc = q /\ g.pend = d /\ g.exiting = e

\* The frame that a Goto makes of one.
LEMMA GoesToFrames ==
  ASSUME NEW f \in Frame, NEW q \in RunPcs
  PROVE  /\ GoesTo(f, [f EXCEPT !.pc = q], q, f.pend, f.exiting)
         /\ GoesTo(f, [f EXCEPT !.pc = q, !.exiting = TRUE], q, f.pend, TRUE)
         /\ \A d \in Seq(Ctxs) : GoesTo(f, [f EXCEPT !.pend = d, !.pc = q], q, d, f.exiting)
<1>1. GoesTo(f, [f EXCEPT !.pc = q], q, f.pend, f.exiting)
  BY Zenon DEF GoesTo, Frame
<1>2. GoesTo(f, [f EXCEPT !.pc = q, !.exiting = TRUE], q, f.pend, TRUE)
  BY Zenon DEF GoesTo, Frame
<1>3. ASSUME NEW d \in Seq(Ctxs)
      PROVE  GoesTo(f, [f EXCEPT !.pend = d, !.pc = q], q, d, f.exiting)
  BY Zenon DEF GoesTo, Frame
<1> QED
  BY <1>1, <1>2, <1>3

\* Part of a stack, with another last frame.
LEMMA CutTo ==
  ASSUME NEW s \in Seq(Frame), NEW k \in 1..Len(s), NEW g \in Frame, NEW r \in Seq(Frame),
         Len(r) = k, \A n \in 1..k : r[n] = s[n]
  PROVE  Cut(s, [r EXCEPT ![k] = g], k, g)
<1> DEFINE s2 == [r EXCEPT ![k] = g]
<1>1. s2 \in Seq(Frame) /\ Len(s2) = k /\ s2[k] = g
  OBVIOUS
<1>2. ASSUME NEW n \in 1..(k - 1) PROVE s2[n] = s[n]
  BY <1>2
<1> QED
  BY <1>1, <1>2 DEF Cut

\* The running activation goes on.
LEMMA GotoCut ==
  ASSUME CritInv, Top.kind = "run", NEW q \in RunPcs, Goto(q)
  PROVE  \E g : GoesTo(Top, g, q, Top.pend, Top.exiting) /\ Cut(stk, stk', Depth, g)
<1> DEFINE g == [Top EXCEPT !.pc = q]
<1>1. /\ stk \in Seq(Frame) /\ Depth \in 1..Len(stk) /\ Len(stk) = Depth /\ Top \in Frame
      /\ Top = stk[Depth] /\ Depth \in DOMAIN stk
  BY TopFacts
<1>2. GoesTo(Top, g, q, Top.pend, Top.exiting)
  BY <1>1, GoesToFrames
<1>3. stk' = [stk EXCEPT ![Depth] = g]
  BY <1>1, Zenon DEF Goto, Top
<1>4. g \in Frame
  BY <1>2 DEF GoesTo
<1> HIDE DEF g
<1>5. Cut(stk, [stk EXCEPT ![Depth] = g], Depth, g)
  <2>1. \A n \in 1..Depth : stk[n] = stk[n]
    OBVIOUS
  <2> QED
    BY <1>1, <1>4, <2>1, CutTo
<1> QED
  BY <1>2, <1>3, <1>5, Zenon

\* The running activation goes on with other contexts to free.
LEMMA GotoPendCut ==
  ASSUME CritInv, Top.kind = "run", NEW q \in RunPcs, NEW d \in Seq(Ctxs),
         stk' = [stk EXCEPT ![Depth].pend = d, ![Depth].pc = q]
  PROVE  \E g : GoesTo(Top, g, q, d, Top.exiting) /\ Cut(stk, stk', Depth, g)
<1> DEFINE g == [Top EXCEPT !.pend = d, !.pc = q]
<1>1. /\ stk \in Seq(Frame) /\ Depth \in 1..Len(stk) /\ Len(stk) = Depth /\ Top \in Frame
      /\ Top = stk[Depth] /\ Depth \in DOMAIN stk
  BY TopFacts
<1>2. GoesTo(Top, g, q, d, Top.exiting)
  BY <1>1, GoesToFrames
<1>3. stk' = [stk EXCEPT ![Depth] = g]
  BY <1>1, Zenon DEF Top
<1>4. g \in Frame
  BY <1>2 DEF GoesTo
<1> HIDE DEF g
<1>5. Cut(stk, [stk EXCEPT ![Depth] = g], Depth, g)
  <2>1. \A n \in 1..Depth : stk[n] = stk[n]
    OBVIOUS
  <2> QED
    BY <1>1, <1>4, <2>1, CutTo
<1> QED
  BY <1>2, <1>3, <1>5, Zenon

\* Frames are left behind, and the one below goes on or stays as it is.
LEMMA BackCut ==
  ASSUME CritInv, NEW k \in 1..Len(stk), NEW q \in RunPcs
  PROVE  LET r == SubSeq(stk, 1, k) IN
         /\ Cut(stk, r, k, stk[k]) /\ stk[k] \in Frame
         /\ \E g : GoesTo(stk[k], g, q, stk[k].pend, stk[k].exiting)
                     /\ Cut(stk, [r EXCEPT ![k].pc = q], k, g)
         /\ \E g : GoesTo(stk[k], g, q, stk[k].pend, TRUE)
                     /\ Cut(stk, [r EXCEPT ![k].pc = q, ![k].exiting = TRUE], k, g)
<1> DEFINE r == SubSeq(stk, 1, k)
           f == stk[k]
           g1 == [f EXCEPT !.pc = q]
           g2 == [f EXCEPT !.pc = q, !.exiting = TRUE]
<1>1. /\ stk \in Seq(Frame) /\ f \in Frame /\ r \in Seq(Frame) /\ Len(r) = k
      /\ \A n \in 1..k : r[n] = stk[n]
  BY TopFacts
<1>2. k \in DOMAIN r /\ r[k] = f
  BY <1>1
<1> HIDE DEF r
<1>3. Cut(stk, r, k, f)
  <2>1. \A n \in 1..(k - 1) : n \in 1..k
    OBVIOUS
  <2> QED
    BY <1>1, <1>2, <2>1 DEF Cut
<1>4. [r EXCEPT ![k].pc = q] = [r EXCEPT ![k] = g1]
  BY <1>2, Zenon
<1>5. [r EXCEPT ![k].pc = q, ![k].exiting = TRUE] = [r EXCEPT ![k] = g2]
  BY <1>2, Zenon
<1>6. GoesTo(f, g1, q, f.pend, f.exiting) /\ GoesTo(f, g2, q, f.pend, TRUE)
  BY <1>1, GoesToFrames
<1>7. g1 \in Frame /\ g2 \in Frame
  BY <1>6 DEF GoesTo
<1> HIDE DEF f, g1, g2
<1>8. Cut(stk, [r EXCEPT ![k] = g1], k, g1) /\ Cut(stk, [r EXCEPT ![k] = g2], k, g2)
  BY <1>1, <1>7, CutTo
<1> QED
  BY <1>1, <1>3, <1>4, <1>5, <1>6, <1>8, Zenon DEF f, r

\* A frame is put on top of a stack.
LEMMA AppendPushed ==
  ASSUME NEW s \in Seq(Frame), NEW h \in Frame
  PROVE  Pushed(s, Append(s, h), h)
  BY DEF Pushed

\* Activations and native code below native code, no event above them, are in
\* a call to it: they hold nothing but their context on the list.
LEMMA CallersBelow ==
  ASSUME NEW s, NEW n \in 1..(Len(s) - 1), Len(s) \in Nat, ShapeOK(s),
         s[n].kind \in {"native", "run"}, s[n].kind = "native" => s[n].pc = "code",
         s[n + 1].kind # "event"
  PROVE  /\ Owns(s[n]) = {}
         /\ s[n].kind = "run" => s[n].pc = "native" /\ Listed(s[n]) /\ ~Tidy(s[n]) /\ ~s[n].exiting
                                 /\ s[n + 1].kind = "native"
<1>1. FrameOK(s[n]) /\ NextOK(s[n], s[n + 1]) /\ n \in 1..Len(s)
  BY DEF ShapeOK
<1>2. s[n].kind = "run" => s[n].pc = "native" /\ s[n + 1].kind = "native"
  BY <1>1 DEF NextOK
<1>3. Owns(s[n]) = {}
  BY <1>1, <1>2, OwnsNone
<1>4. s[n].kind = "run" => Listed(s[n]) /\ ~Tidy(s[n]) /\ ~s[n].exiting
  BY <1>1, <1>2 DEF FrameOK, Listed, Tidy
<1> QED
  BY <1>2, <1>3, <1>4

-----------------------------------------------------------------------------
(* Steps that leave every context where it is.                             *)

\* Activations on the list that have nothing to free.
Steady == {"entered", "orphans", "prepare", "thunkpre", "loop", "jit", "decode", "call",
           "native", "check", "result", "thunkpost", "restore", "leave"}

\* What the invariant says of the running frame.
LEMMA TopPool ==
  ASSUME Inv, PoolOK(stk, list, free, image, saved)
  PROVE  /\ Len(stk) = Depth /\ Depth \in Nat \ {0} /\ Depth \in 1..Len(stk) /\ Top = stk[Depth]
         /\ FrameOK(Top) /\ Clear(Top, saved) /\ Top \in Frame
         /\ Top.kind = "run" => Top.ctx \in Ctxs
         /\ Top.pend \in Seq(Ctxs) /\ list \in Seq(Ctxs)
         /\ \A n \in 1..Len(stk) : /\ stk[n] \in Frame
                                   /\ stk[n].kind = "run" => stk[n].ctx \in Ctxs
                                   /\ stk[n].kind # "run" => stk[n].pc = "code"
<1>1. /\ Len(stk) = Depth /\ Depth \in Nat \ {0} /\ Depth \in 1..Len(stk) /\ Top = stk[Depth]
      /\ Top \in Frame /\ StackOK(stk) /\ stk \in Seq(Frame)
  BY TopFacts DEF Inv
<1>2. FrameOK(Top) /\ Clear(Top, saved)
  BY <1>1 DEF PoolOK, ShapeOK, SavedOK
<1>3. \A n \in 1..Len(stk) : /\ stk[n] \in Frame
                             /\ stk[n].kind = "run" => stk[n].ctx \in Ctxs
                             /\ stk[n].kind # "run" => stk[n].pc = "code"
  BY <1>1 DEF StackOK
<1>4. Top.pend \in Seq(Ctxs) /\ list \in Seq(Ctxs)
  BY <1>1 DEF Frame, Inv, DataOK
<1> QED
  BY <1>1, <1>2, <1>3, <1>4

\* The steady frames.
LEMMA SteadyFrames ==
  ASSUME NEW f, f.kind = "run", f.pc \in Steady, FrameOK(f)
  PROVE  Listed(f) /\ ~f.exiting /\ f.pend = <<>> /\ Owns(f) = {}
<1>1. ~f.exiting /\ f.pend = <<>>
  BY DEF FrameOK, Steady
<1>2. Listed(f)
  BY <1>1 DEF Listed, Steady
<1>3. Owns(f) = {}
  BY OwnsNone DEF Steady
<1> QED
  BY <1>1, <1>2, <1>3

\* An activation goes on.
LEMMA Onward ==
  ASSUME Inv, NEW sv, PoolOK(stk, list, free, image, sv), Top.kind = "run", Top.pc \in Steady,
         NEW q \in Steady \cup {"compress"}, NEW g, GoesTo(Top, g, q, <<>>, Top.exiting),
         NEW s2, Cut(stk, s2, Depth, g), NEW sv2, Fewer(sv, sv2),
         q = "leave" => sv2[Top.ctx] = NotSaved,
         Top.pc \in {"native", "check"} =>
           q \in {"check", "compress"} \/ (list # <<>> => list[Len(list)] = Top.ctx)
  PROVE  PoolOK(s2, list, free, image, sv2)
<1>1. /\ Len(stk) = Depth /\ Depth \in Nat \ {0} /\ Depth \in 1..Len(stk) /\ Top = stk[Depth]
      /\ list \in Seq(Ctxs)
  BY TopFacts DEF Inv, DataOK
<1>2. FrameOK(Top)
  BY <1>1 DEF PoolOK, ShapeOK
<1>3. Listed(Top) /\ ~Top.exiting /\ Owns(Top) = {}
  BY <1>2, SteadyFrames
<1>4. /\ g.kind = "run" /\ g.ctx = Top.ctx /\ g.img = Top.img /\ g.pc = q
      /\ g.pend = <<>> /\ ~g.exiting
  BY <1>3 DEF GoesTo
<1>5. FrameOK(g)
  BY <1>2, <1>4 DEF FrameOK, Steady
<1>6. Listed(g)
  BY <1>4 DEF Listed, Steady
<1>7. Owns(g) = {}
  BY <1>4, <1>5, OwnsNone DEF Steady
<1>8. GoesOn(stk[Depth], g)
  BY <1>1, <1>3, <1>4, <1>6 DEF GoesOn, Steady
<1>9. Tidy(g) => Tidy(stk[Depth]) \/ (list # <<>> => list[Len(list)] = g.ctx)
  BY <1>1, <1>3, <1>4 DEF Tidy, Steady
<1>10. Clear(g, sv2)
  BY <1>4 DEF Clear, Steady
<1>11. \A n \in (Depth + 1)..Len(stk) : ~Listed(stk[n]) /\ Owns(stk[n]) = {}
  BY <1>1
<1> QED
  BY <1>1, <1>3, <1>5, <1>7, <1>8, <1>9, <1>10, <1>11, PoolSame

\* The same by a Goto.
LEMMA OnwardGoto ==
  ASSUME Inv, NEW sv, PoolOK(stk, list, free, image, sv), NEW p \in Steady, At(p),
         NEW q \in Steady \cup {"compress"}, Goto(q),
         UNCHANGED <<list, free, image>>, Fewer(sv, saved'),
         q = "leave" => saved'[Top.ctx] = NotSaved,
         p \in {"native", "check"} =>
           q \in {"check", "compress"} \/ (list # <<>> => list[Len(list)] = Top.ctx)
  PROVE  PoolOK(stk', list', free', image', saved')
<1>1. Top.kind = "run" /\ Top.pc = p /\ q \in RunPcs
  BY DEF At, Steady, RunPcs
<1>2. PICK g : GoesTo(Top, g, q, Top.pend, Top.exiting) /\ Cut(stk, stk', Depth, g)
  BY <1>1, GotoCut DEF Inv
<1>3. Top.pend = <<>>
  <2>1. Depth \in 1..Len(stk) /\ Top = stk[Depth]
    BY TopFacts DEF Inv
  <2>2. FrameOK(Top)
    BY <2>1 DEF PoolOK, ShapeOK
  <2> QED
    BY <1>1, <2>2, SteadyFrames
<1>4. GoesTo(Top, g, q, <<>>, Top.exiting)
  BY <1>2, <1>3
<1>5. PoolOK(stk', list, free, image, saved')
  BY <1>1, <1>2, <1>4, Onward
<1> QED
  BY <1>5

\* CpuDetectOrphanContexts does not look for orphans in release builds.
LEMMA DetectOrphansPool ==
  ASSUME Inv, PoolInv, CountInv', ~Debug, DetectOrphans
  PROVE  PoolInv'
<1>1. Top.kind = "run" /\ Top.pc = "entered" /\ Orphans = <<>>
  BY DEF DetectOrphans, At, Orphans
<1>2. stk' = [stk EXCEPT ![Depth].pend = <<>>, ![Depth].pc = "prepare"]
  BY <1>1 DEF DetectOrphans
<1>3. "prepare" \in RunPcs /\ <<>> \in Seq(Ctxs) /\ "prepare" \in Steady /\ "entered" \in Steady
  BY DEF RunPcs, Steady
<1>4. PICK g : GoesTo(Top, g, "prepare", <<>>, Top.exiting) /\ Cut(stk, stk', Depth, g)
  BY <1>1, <1>2, <1>3, GotoPendCut DEF Inv
<1>5. UNCHANGED <<list, free, image, saved>>
  BY <1>1 DEF DetectOrphans
<1>6. Fewer(saved, saved')
  BY <1>5 DEF Fewer
<1>7. PoolOK(stk', list, free, image, saved')
  BY <1>1, <1>3, <1>4, <1>6, Onward DEF PoolInv
<1>8. fault' = "none"
  BY DEF DetectOrphans, CountInv, CountersNonNegative
<1> QED
  BY <1>5, <1>7, <1>8 DEF PoolInv

\* Saving the engine's registers, or resetting the engine.
LEMMA SaveOrResetPool ==
  ASSUME Inv, PoolInv, SaveOrReset
  PROVE  PoolInv'
<1>1. Top.kind = "run" /\ Top.pc = "prepare" /\ "prepare" \in Steady /\ "thunkpre" \in Steady
  BY DEF SaveOrReset, At, Steady
<1>2. Goto("thunkpre") /\ UNCHANGED <<list, free, image, fault>>
  BY DEF SaveOrReset
<1>3. \A c \in Ctxs : c # Top.ctx => saved'[c] = saved[c]
  BY DEF SaveOrReset, Inv, DataOK
<1>4. /\ Len(stk) # 0 /\ Top = stk[Len(stk)] /\ FrameOK(Top) /\ list \in Seq(Ctxs)
      /\ stk \in Seq(Frame)
  BY TopPool, TopFacts DEF PoolInv, Inv
<1>5. Listed(Top)
  BY <1>1, <1>4, SteadyFrames
<1>6. PoolOK(stk, list, free, image, saved')
  BY <1>1, <1>3, <1>4, <1>5, PoolSave DEF PoolInv
<1>7. Fewer(saved', saved')
  BY DEF Fewer
<1>8. PoolOK(stk', list', free', image', saved')
  BY <1>1, <1>2, <1>6, <1>7, OnwardGoto DEF SaveOrReset
<1> QED
  BY <1>2, <1>8 DEF PoolInv

\* The leaked contexts are unwound and hold no registers any more.
LEMMA CompressUnwindPool ==
  ASSUME Inv, PoolInv, CountInv', CompressUnwind
  PROVE  PoolInv'
<1>1. Top.kind = "run" /\ Top.pc = "unwind" /\ "free" \in RunPcs
  BY DEF CompressUnwind, At, RunPcs
<1>2. Goto("free") /\ UNCHANGED <<list, free, image>>
  BY DEF CompressUnwind
<1>3. PICK g : GoesTo(Top, g, "free", Top.pend, Top.exiting) /\ Cut(stk, stk', Depth, g)
  BY <1>1, <1>2, GotoCut DEF Inv
<1>4. /\ Depth \in 1..Len(stk) /\ Len(stk) = Depth /\ Depth \in Nat /\ Top = stk[Depth]
      /\ FrameOK(Top) /\ Top.pend \in Seq(Ctxs) /\ list \in Seq(Ctxs)
  BY TopPool DEF PoolInv
<1>5. /\ g.kind = "run" /\ g.ctx = Top.ctx /\ g.img = Top.img /\ g.pc = "free"
      /\ g.pend = Top.pend /\ g.exiting = Top.exiting
  BY <1>1, <1>3 DEF GoesTo
<1>6. FrameOK(g) /\ GoesOn(stk[Depth], g)
  BY <1>1, <1>4, <1>5 DEF FrameOK, GoesOn, Listed
<1>7. Owns(g) = Owns(stk[Depth])
  BY <1>1, <1>4, <1>5 DEF Owns, Pending, Held
<1>8. Tidy(g) => Tidy(stk[Depth])
  BY <1>1, <1>4, <1>6 DEF Tidy, GoesOn
<1>9. saved' = [c \in Ctxs |-> IF \E n \in DOMAIN Top.pend : Top.pend[n] = c
                                 THEN NotSaved ELSE saved[c]]
  BY DEF CompressUnwind
<1>10. Clear(g, saved')
  <2>1. \A k \in DOMAIN Top.pend : Top.pend[k] \in Ctxs
    BY <1>4
  <2> QED
    BY <1>5, <1>9, <2>1 DEF Clear
<1>11. fault' = "none"
  BY DEF CompressUnwind, CountInv, CountersNonNegative
<1>12. \A n \in (Depth + 1)..Len(stk) : ~Listed(stk[n]) /\ Owns(stk[n]) = {}
  BY <1>4
<1>13. Fewer(saved, saved')
  BY <1>9 DEF Fewer
<1>14. PoolOK(stk', list, free, image, saved')
  BY <1>2, <1>3, <1>4, <1>6, <1>7, <1>8, <1>10, <1>12, <1>13, PoolSame DEF PoolInv
<1> QED
  BY <1>2, <1>11, <1>14 DEF PoolInv

-----------------------------------------------------------------------------
(* Steps that move contexts.                                               *)

\* CpuEnterCritical.
LEMMA EnterPool ==
  ASSUME Inv, PoolInv, EnterCritical
  PROVE  PoolInv'
<1>1. Top.kind = "run" /\ Top.pc = "start" /\ "entered" \in RunPcs /\ Goto("entered")
  BY DEF EnterCritical, At, RunPcs
<1>2. PICK g : GoesTo(Top, g, "entered", Top.pend, Top.exiting) /\ Cut(stk, stk', Depth, g)
  BY <1>1, GotoCut DEF Inv
<1>3. /\ Depth = Len(stk) /\ Top = stk[Depth] /\ FrameOK(Top) /\ list \in Seq(Ctxs)
      /\ Top.ctx \in Ctxs
  BY <1>1, TopPool DEF PoolInv
<1>4. /\ g.kind = "run" /\ g.ctx = Top.ctx /\ g.img = Top.img /\ g.pc = "entered"
      /\ g.pend = <<>> /\ ~g.exiting
  BY <1>1, <1>2, <1>3 DEF GoesTo, FrameOK
<1>5. FrameOK(g)
  BY <1>3, <1>4 DEF FrameOK
<1>6. PoolOK(stk', Append(list, g.ctx), free, image, saved)
  BY <1>1, <1>2, <1>3, <1>4, <1>5, PoolAppend DEF PoolInv
<1>7. list' = Append(list, g.ctx) /\ UNCHANGED <<free, image, saved, fault>>
  BY <1>4 DEF EnterCritical
<1> QED
  BY <1>6, <1>7 DEF PoolInv

\* The context of a tidy running frame is the newest.
LEMMA NewestTidy ==
  ASSUME Inv, PoolInv, Tidy(Top)
  PROVE  list # <<>> /\ Newest = Top.ctx
<1>1. /\ Depth = Len(stk) /\ Top = stk[Depth] /\ Depth \in 1..Len(stk) /\ Depth \in Nat
      /\ list \in Seq(Ctxs) /\ Listed(Top)
  BY TopPool DEF PoolInv, Tidy
<1>2. /\ Once(list) /\ LiveOnList(stk, list) /\ InOrder(stk, list) /\ LeaksAbove(stk, list)
  BY DEF PoolInv, PoolOK, ListOK
<1>3. PICK k \in DOMAIN list : list[k] = Top.ctx
  BY <1>1, <1>2 DEF LiveOnList
<1>4. k \in 1..Len(list) /\ Len(list) \in Nat
  BY <1>1
<1>5. ASSUME k < Len(list) PROVE FALSE
  <2>1. PICK m \in 1..Len(stk) : Listed(stk[m]) /\ stk[m].ctx = list[k + 1]
    BY <1>1, <1>2, <1>3, <1>5 DEF LeaksAbove
  <2>2. k + 1 \in DOMAIN list /\ k # k + 1
    BY <1>1, <1>4, <1>5
  <2>3. CASE m = Depth
    BY <1>1, <1>2, <1>3, <2>1, <2>2, <2>3 DEF Once
  <2>4. CASE m < Depth
    <3>1. k + 1 < k
      BY <1>1, <1>2, <1>3, <2>1, <2>2, <2>4 DEF InOrder
    <3> QED
      BY <1>4, <3>1
  <2> QED
    BY <1>1, <2>3, <2>4
<1> QED
  BY <1>1, <1>3, <1>4, <1>5 DEF Newest

\* CpuLeaveCritical: the context is mTopContext.
LEMMA LeavePool ==
  ASSUME Inv, PoolInv, CountInv', LeaveCritical
  PROVE  PoolInv'
<1>1. Top.kind = "run" /\ Top.pc = "leave" /\ "left" \in RunPcs /\ "leave" \in Steady
  BY DEF LeaveCritical, At, RunPcs, Steady
<1>2. /\ Depth = Len(stk) /\ Top = stk[Depth] /\ FrameOK(Top) /\ list \in Seq(Ctxs)
      /\ Top.ctx \in Ctxs /\ Clear(Top, saved)
  BY <1>1, TopPool DEF PoolInv
<1>3. Listed(Top) /\ ~Top.exiting /\ Top.pend = <<>> /\ Owns(Top) = {} /\ Tidy(Top)
  BY <1>1, <1>2, SteadyFrames DEF Tidy
<1>4. list # <<>> /\ Newest = Top.ctx
  BY <1>3, NewestTidy
<1>5. /\ list' = SubSeq(list, 1, Len(list) - 1) /\ Goto("left")
      /\ fault' \in {"contexts", "none"} /\ UNCHANGED <<saved, image, free>>
  BY <1>4, Zenon DEF LeaveCritical
<1>6. fault' = "none"
  BY <1>5 DEF CountInv, CountersNonNegative
<1>7. PICK g : GoesTo(Top, g, "left", Top.pend, Top.exiting) /\ Cut(stk, stk', Depth, g)
  BY <1>1, <1>5, GotoCut DEF Inv
<1>8. /\ g.kind = "run" /\ g.ctx = Top.ctx /\ g.img = Top.img /\ g.pc = "left"
      /\ g.pend = <<>> /\ ~g.exiting
  BY <1>1, <1>3, <1>7 DEF GoesTo
<1>9. FrameOK(g) /\ ~Listed(g) /\ Clear(g, saved)
  BY <1>1, <1>2, <1>8 DEF FrameOK, Listed, Clear
<1>10. Owns(g) = {Top.ctx}
  BY <1>2, <1>8 DEF Owns, Pending, Held
<1> DEFINE i == Len(list)
           keep == i - 1
<1>11. i \in DOMAIN list /\ list[i] = g.ctx /\ (keep + 1)..Len(list) = {i}
  BY <1>2, <1>4, <1>8 DEF Newest
<1>12. Owns(g) = {list[k] : k \in (keep + 1)..Len(list)}
  BY <1>8, <1>10, <1>11
<1> HIDE DEF i
<1>13. PoolOK(stk', SubSeq(list, 1, keep), free, image, saved)
  BY <1>2, <1>3, <1>7, <1>8, <1>9, <1>11, <1>12, PoolPrefix DEF PoolInv
<1> QED
  BY <1>5, <1>6, <1>13 DEF PoolInv, i

\* CpuCompressLeakedContexts finds the context on the list and takes what lies
\* above it.
LEMMA CompressBeginPool ==
  ASSUME Inv, PoolInv, CompressBegin
  PROVE  PoolInv'
<1> DEFINE at == {n \in DOMAIN list : list[n] = Top.ctx}
<1>1. Top.kind = "run" /\ Top.pc = "compress" /\ "unwind" \in RunPcs
  BY DEF CompressBegin, At, RunPcs
<1>2. /\ Depth = Len(stk) /\ Top = stk[Depth] /\ FrameOK(Top) /\ list \in Seq(Ctxs)
      /\ Top.ctx \in Ctxs /\ Depth \in 1..Len(stk)
  BY <1>1, TopPool DEF PoolInv
<1>3. Listed(Top) /\ Owns(Top) = {}
  BY <1>1, <1>2, OwnsNone DEF Listed
<1>4. at # {}
  BY <1>2, <1>3 DEF PoolInv, PoolOK, ListOK, LiveOnList
<1>5. UNCHANGED <<saved, image, free>>
  BY DEF CompressBegin
<1>6. PICK n \in at :
        LET keep == IF Top.exiting THEN n - 1 ELSE n IN
        /\ list' = SubSeq(list, 1, keep)
        /\ stk' = [stk EXCEPT ![Depth].pend = SubSeq(list, keep + 1, Len(list)),
                              ![Depth].pc = "unwind"]
        /\ UNCHANGED fault
  BY <1>4, Zenon DEF CompressBegin
<1> DEFINE keep == IF Top.exiting THEN n - 1 ELSE n
           rest == SubSeq(list, keep + 1, Len(list))
<1>7. /\ n \in 1..Len(list) /\ n \in DOMAIN list /\ list[n] = Top.ctx
      /\ keep \in 0..Len(list) /\ Len(list) \in Nat
      /\ keep = n \/ keep = n - 1
  BY <1>2
<1>8. /\ rest \in Seq(Ctxs) /\ Len(rest) = Len(list) - keep
      /\ \A k \in 1..(Len(list) - keep) : rest[k] = list[keep + k]
  BY <1>2, <1>7
<1>9. stk' = [stk EXCEPT ![Depth].pend = rest, ![Depth].pc = "unwind"]
      /\ list' = SubSeq(list, 1, keep)
  BY <1>6
<1>10. Top.exiting => keep = n - 1
  OBVIOUS
<1>11. ~Top.exiting => keep = n
  OBVIOUS
<1> HIDE DEF keep, rest
<1>12. PICK g : GoesTo(Top, g, "unwind", rest, Top.exiting) /\ Cut(stk, stk', Depth, g)
  BY <1>1, <1>8, <1>9, GotoPendCut DEF Inv
<1>13. /\ g.kind = "run" /\ g.ctx = Top.ctx /\ g.img = Top.img /\ g.pc = "unwind"
       /\ g.pend = rest /\ g.exiting = Top.exiting
  BY <1>1, <1>12 DEF GoesTo
<1>14. DOMAIN rest = 1..(Len(list) - keep)
  BY <1>8
<1>15. Pending(g) = {list[k] : k \in (keep + 1)..Len(list)}
  <2>1. Pending(g) = {list[keep + k] : k \in 1..(Len(list) - keep)}
    BY <1>8, <1>13, <1>14 DEF Pending
  <2>2. \A k \in 1..(Len(list) - keep) : keep + k \in (keep + 1)..Len(list)
    BY <1>7
  <2>3. \A k \in (keep + 1)..Len(list) : k - keep \in 1..(Len(list) - keep) /\ keep + (k - keep) = k
    BY <1>7
  <2> QED
    BY <2>1, <2>2, <2>3
<1>16. Owns(g) = {list[k] : k \in (keep + 1)..Len(list)}
  BY <1>13, <1>15 DEF Owns, Held
<1>17. FrameOK(g)
  <2>1. g.exiting => g.ctx \in Pending(g)
    <3>1. g.exiting => n \in (keep + 1)..Len(list)
      BY <1>7, <1>10, <1>13
    <3> QED
      BY <1>7, <1>13, <1>15, <3>1
  <2>2. ASSUME NEW j \in DOMAIN rest, NEW k \in DOMAIN rest, rest[j] = rest[k] PROVE j = k
    <3>0. j \in 1..(Len(list) - keep) /\ k \in 1..(Len(list) - keep)
      BY <1>14, <2>2
    <3>1. list[keep + j] = list[keep + k] /\ keep + j \in DOMAIN list /\ keep + k \in DOMAIN list
      <4>1. list[keep + j] = list[keep + k]
        BY <1>8, <2>2, <3>0
      <4>2. keep + j \in 1..Len(list) /\ keep + k \in 1..Len(list)
        BY <1>7, <3>0
      <4> QED
        BY <1>2, <4>1, <4>2
    <3>2. keep + j = keep + k
      BY <3>1 DEF PoolInv, PoolOK, ListOK, Once
    <3> QED
      BY <1>7, <1>14, <3>2
  <2> QED
    BY <1>2, <1>13, <2>1, <2>2 DEF FrameOK
<1>18. (keep = n /\ Listed(g)) \/ (keep = n - 1 /\ ~Listed(g))
  BY <1>10, <1>11, <1>13 DEF Listed
<1>19. Clear(g, saved)
  BY <1>13 DEF Clear
<1>20. PoolOK(stk', SubSeq(list, 1, keep), free, image, saved)
  BY <1>2, <1>3, <1>7, <1>12, <1>13, <1>16, <1>17, <1>18, <1>19, PoolPrefix DEF PoolInv
<1> QED
  BY <1>5, <1>6, <1>9, <1>20 DEF PoolInv

\* The freeing loop: the newest of the pending contexts goes to the pool.
LEMMA FreePool ==
  ASSUME Inv, PoolInv, FreeLeaked
  PROVE  PoolInv'
<1> DEFINE n == Len(Top.pend)
           d == SubSeq(Top.pend, 1, n - 1)
           q == IF n <= 1 THEN (IF Top.exiting THEN "exit" ELSE "result") ELSE "free"
           C == IF n = 0 THEN {} ELSE {Top.pend[n]}
<1>1. /\ Top.kind = "run" /\ Top.pc = "free"
      /\ IF n = 0 THEN UNCHANGED <<free, fault>> ELSE FreeContext(Top.pend[n])
  BY DEF FreeLeaked, FreePending, At
<1>2. stk' = [stk EXCEPT ![Depth].pend = d, ![Depth].pc = q] /\ UNCHANGED <<list, image, saved>>
  BY Zenon DEF FreeLeaked, FreePending
<1>3. /\ Depth = Len(stk) /\ Top = stk[Depth] /\ FrameOK(Top) /\ list \in Seq(Ctxs)
      /\ Top.ctx \in Ctxs /\ Clear(Top, saved) /\ Top.pend \in Seq(Ctxs) /\ Depth \in 1..Len(stk)
      /\ Depth \in Nat
  BY <1>1, TopPool DEF PoolInv
<1>4. /\ n # 0 => n \in DOMAIN Top.pend
      /\ d \in Seq(Ctxs) /\ n \in Nat
      /\ DOMAIN d = 1..(n - 1) /\ DOMAIN Top.pend = 1..n
      /\ \A k \in 1..(n - 1) : d[k] = Top.pend[k] /\ k \in 1..n /\ k # n
      /\ \A k \in 1..n : k = n \/ k \in 1..(n - 1)
  BY <1>1, <1>3
<1>5. n <= 1 => d = <<>>
  BY <1>3
<1>6. q \in RunPcs /\ q \in {"free", "result", "exit"} /\ (~(n <= 1) => q = "free")
      /\ (n <= 1 => q = IF Top.exiting THEN "exit" ELSE "result")
  BY DEF RunPcs
<1>7. free' = free \cup C /\ fault' = "none"
  <2>1. CASE n = 0
    BY <1>1, <2>1 DEF PoolInv
  <2>2. CASE n # 0
    BY <1>1, <1>3, <1>4, <2>2 DEF Clear, FreeContext, HasSaved
  <2> QED
    BY <2>1, <2>2
<1> HIDE DEF d, q
<1>8. PICK g : GoesTo(Top, g, q, d, Top.exiting) /\ Cut(stk, stk', Depth, g)
  BY <1>1, <1>2, <1>4, <1>6, GotoPendCut DEF Inv
<1>9. /\ g.kind = "run" /\ g.ctx = Top.ctx /\ g.img = Top.img /\ g.pc = q
      /\ g.pend = d /\ g.exiting = Top.exiting
  BY <1>1, <1>8 DEF GoesTo
<1>10. \A j, k \in 1..n : Top.pend[j] = Top.pend[k] => j = k
  BY <1>3, <1>4 DEF FrameOK
<1>11. FrameOK(g)
  <2>1. \A j, k \in DOMAIN g.pend : g.pend[j] = g.pend[k] => j = k
    BY <1>4, <1>9, <1>10
  <2>2. g.pend # <<>> => g.pc = "free"
    BY <1>5, <1>6, <1>9
  <2>3. g.exiting => g.pc \in {"free", "exit"}
    BY <1>6, <1>9
  <2>4. g.pc = "exit" => g.exiting
    BY <1>6, <1>9
  <2> QED
    BY <1>3, <1>6, <1>9, <2>1, <2>2, <2>3, <2>4 DEF FrameOK
<1>12. Listed(g) <=> Listed(Top)
  <2>1. Listed(Top) <=> ~Top.exiting
    BY <1>1 DEF Listed
  <2>2. Listed(g) <=> ~g.exiting
    BY <1>6, <1>9, <1>11 DEF Listed, FrameOK
  <2> QED
    BY <1>9, <2>1, <2>2
<1>13. Owns(Top) = Pending(Top) /\ Owns(g) = Pending(g)
  BY <1>1, <1>6, <1>9 DEF Owns, Held
<1>14. Pending(Top) = Pending(g) \cup C /\ C \cap Pending(g) = {}
  <2>1. Pending(g) = {Top.pend[k] : k \in 1..(n - 1)}
    BY <1>4, <1>9 DEF Pending
  <2>2. Pending(Top) = {Top.pend[k] : k \in 1..n}
    BY <1>4 DEF Pending
  <2>3. \A k \in 1..(n - 1) : n # 0 /\ Top.pend[k] # Top.pend[n]
    BY <1>4, <1>10
  <2>4. CASE n = 0
    <3>1. 1..n = {} /\ 1..(n - 1) = {}
      BY <2>4
    <3> QED
      BY <2>1, <2>2, <2>4, <3>1
  <2>5. CASE n # 0
    <3>1. C = {Top.pend[n]} /\ n \in 1..n
      BY <1>4, <2>5
    <3>2. \A k \in 1..(n - 1) : k \in 1..n
      BY <1>4
    <3>3. \A k \in 1..n : k = n \/ k \in 1..(n - 1)
      BY <1>4
    <3> HIDE DEF C
    <3> QED
      BY <2>1, <2>2, <2>3, <3>1, <3>2, <3>3
  <2> QED
    BY <2>4, <2>5
<1>15. Owns(Top) \cap (OnList(list) \cup free) = {} /\ OnList(list) \cap free = {}
  BY <1>3 DEF PoolInv, PoolOK, Apart
<1>16. /\ Owns(g) \cap (OnList(list) \cup free') = {} /\ OnList(list) \cap free' = {}
       /\ \A x : x \in Owns(g) \cup OnList(list) \cup free' <=>
                   x \in OnList(list) \cup free \/ \E k \in Depth..Len(stk) : x \in Owns(stk[k])
  <2>1. \A k \in Depth..Len(stk) : k = Depth
    BY <1>3
  <2>2. Depth \in Depth..Len(stk)
    BY <1>3
  <2>3. \A x : (\E k \in Depth..Len(stk) : x \in Owns(stk[k])) <=> x \in Owns(Top)
    BY <1>3, <2>1, <2>2
  <2> QED
    BY <1>7, <1>13, <1>14, <1>15, <2>3
<1>17. GoesOn(stk[Depth], g)
  BY <1>1, <1>3, <1>6, <1>9, <1>12 DEF GoesOn
<1>18. Tidy(g) => Tidy(stk[Depth])
  BY <1>1, <1>3, <1>12 DEF Tidy
<1>19. Clear(g, saved) /\ Fewer(saved, saved)
  <2>1. \A k \in DOMAIN g.pend : g.pend[k] = Top.pend[k] /\ k \in DOMAIN Top.pend
    BY <1>4, <1>9
  <2>2. \A k \in DOMAIN Top.pend : saved[Top.pend[k]] = NotSaved
    BY <1>1, <1>3 DEF Clear
  <2> QED
    BY <1>6, <1>9, <2>1, <2>2 DEF Clear, Fewer
<1>20. \A k \in (Depth + 1)..Len(stk) : ~Listed(stk[k])
  BY <1>3
<1>21. PoolOK(stk', list, free', image, saved)
  BY <1>3, <1>8, <1>11, <1>16, <1>17, <1>18, <1>19, <1>20, PoolCut DEF PoolInv
<1> QED
  BY <1>2, <1>7, <1>21 DEF PoolInv

\* The end of CpuRunCtx.
LEMMA LeaveEndPool ==
  ASSUME Inv, PoolInv, ~PrivateStack, LeaveEnd
  PROVE  PoolInv'
<1>1. Top.kind = "run" /\ Top.pc = "left" /\ "done" \in RunPcs
      /\ UNCHANGED <<list, image, saved, free, fault>>
  BY DEF LeaveEnd, At, RunPcs, cpuVars
<1>2. stk' = [SubSeq(stk, 1, Depth) EXCEPT ![Depth].pc = "done"]
  BY Zenon DEF LeaveEnd
<1>3. /\ Depth = Len(stk) /\ Top = stk[Depth] /\ FrameOK(Top) /\ list \in Seq(Ctxs)
      /\ Clear(Top, saved) /\ Depth \in 1..Len(stk)
  BY <1>1, TopPool DEF PoolInv
<1>4. PICK g : GoesTo(Top, g, "done", Top.pend, Top.exiting) /\ Cut(stk, stk', Depth, g)
  BY <1>1, <1>2, <1>3, BackCut DEF Inv
<1>5. /\ g.kind = "run" /\ g.ctx = Top.ctx /\ g.img = Top.img /\ g.pc = "done"
      /\ g.pend = Top.pend /\ g.exiting = Top.exiting
  BY <1>1, <1>4 DEF GoesTo
<1>6. FrameOK(g) /\ GoesOn(stk[Depth], g)
  BY <1>1, <1>3, <1>5 DEF FrameOK, GoesOn, Listed
<1>7. Owns(g) = Owns(stk[Depth])
  BY <1>1, <1>3, <1>5 DEF Owns, Pending, Held
<1>8. ~Tidy(g)
  BY <1>5 DEF Tidy, Listed
<1>9. Clear(g, saved) /\ Fewer(saved, saved)
  BY <1>1, <1>3, <1>5 DEF Clear, Fewer
<1>10. \A n \in (Depth + 1)..Len(stk) : ~Listed(stk[n]) /\ Owns(stk[n]) = {}
  BY <1>3
<1>11. PoolOK(stk', list, free, image, saved)
  BY <1>3, <1>4, <1>6, <1>7, <1>8, <1>9, <1>10, PoolSame DEF PoolInv
<1> QED
  BY <1>1, <1>11 DEF PoolInv

\* The running frame, which is not listed, is left; what it owns is freed.
LEMMA PopPool ==
  ASSUME Inv, PoolOK(stk, list, free, image, saved), Depth > 1, ~Listed(Top),
         NEW g, Cut(stk, stk', Depth - 1, g), GoesOn(stk[Depth - 1], g), FrameOK(g),
         Owns(g) = Owns(stk[Depth - 1]), Tidy(g) => Tidy(stk[Depth - 1]), Clear(g, saved),
         free' = free \cup Owns(Top), UNCHANGED <<list, image, saved>>
  PROVE  PoolOK(stk', list', free', image', saved')
<1> DEFINE t == Depth - 1
<1>1. /\ Depth = Len(stk) /\ Top = stk[Depth] /\ list \in Seq(Ctxs) /\ Depth \in Nat
      /\ t \in 1..Len(stk) /\ t \in Nat /\ Depth \in 1..Len(stk) /\ t # Depth
      /\ \A n \in (t + 1)..Len(stk) : n = Depth
      /\ \A n \in t..Len(stk) : n = t \/ n = Depth
      /\ t \in t..Len(stk) /\ Depth \in t..Len(stk)
  BY TopPool
<1> HIDE DEF t
<1>2. /\ Owns(stk[t]) \cap (OnList(list) \cup free) = {}
      /\ Owns(Top) \cap (OnList(list) \cup free) = {}
      /\ OnList(list) \cap free = {} /\ Owns(stk[t]) \cap Owns(Top) = {}
  BY <1>1 DEF PoolOK, Apart
<1>3. \A x : (\E n \in t..Len(stk) : x \in Owns(stk[n])) <=> x \in Owns(stk[t]) \cup Owns(Top)
  BY <1>1
<1>4. /\ Owns(g) \cap (OnList(list) \cup free') = {} /\ OnList(list) \cap free' = {}
      /\ \A x : x \in Owns(g) \cup OnList(list) \cup free' <=>
                  x \in OnList(list) \cup free \/ \E n \in t..Len(stk) : x \in Owns(stk[n])
  BY <1>2, <1>3 DEF t
<1>5. Cut(stk, stk', t, g) /\ GoesOn(stk[t], g) /\ (Tidy(g) => Tidy(stk[t]))
  BY DEF t
<1>6. \A n \in (t + 1)..Len(stk) : ~Listed(stk[n])
  BY <1>1
<1>7. Fewer(saved, saved)
  BY DEF Fewer
<1>8. PoolOK(stk', list, free', image, saved)
  BY <1>1, <1>4, <1>5, <1>6, <1>7, PoolCut
<1> QED
  BY <1>8

\* The frame below goes on as it is.
LEMMA ReturnPool ==
  ASSUME Inv, PoolOK(stk, list, free, image, saved), Depth > 1, ~Listed(Top),
         stk' = SubSeq(stk, 1, Depth - 1),
         free' = free \cup Owns(Top), UNCHANGED <<list, image, saved>>
  PROVE  PoolOK(stk', list', free', image', saved')
<1> DEFINE g == stk[Depth - 1]
<1>1. Depth - 1 \in 1..Len(stk) /\ "done" \in RunPcs
  BY TopPool DEF RunPcs
<1>2. Cut(stk, stk', Depth - 1, g)
  BY <1>1, BackCut DEF Inv
<1>3. FrameOK(g) /\ Clear(g, saved) /\ GoesOn(g, g)
  BY <1>1 DEF PoolOK, ShapeOK, SavedOK, GoesOn
<1> HIDE DEF g
<1>4. g = stk[Depth - 1]
  BY DEF g
<1> QED
  BY <1>2, <1>3, <1>4, PopPool

\* CpuExitImage finds the frame of the image and jumps into it.
LEMMA ExitImagePool ==
  ASSUME Inv, PoolInv, ~Debug, ExitImage
  PROVE  PoolInv'
<1>1. Top.kind = "run" /\ Top.pc = "call" /\ At("call") /\ "call" \in Steady /\ "check" \in Steady
      /\ UNCHANGED <<list, image, saved, free>>
  BY DEF ExitImage, At, Steady, cpuVars
<1>2. Fewer(saved, saved')
  BY <1>1 DEF Fewer
<1>3. CASE Goto("check") /\ UNCHANGED fault
  <2>1. PoolOK(stk', list', free', image', saved')
    BY <1>1, <1>2, <1>3, OnwardGoto DEF PoolInv
  <2> QED
    BY <1>3, <2>1 DEF PoolInv
<1>4. ASSUME ~(Goto("check") /\ UNCHANGED fault) PROVE PoolInv'
  <2>1. PICK n \in LastImageCtx :
          IF ImageFrames(list[n]) = {}
            THEN fault' = "jump" /\ UNCHANGED stk
            ELSE \E t \in ImageFrames(list[n]) :
                   /\ \A k \in (t + 1)..Depth : stk[k].kind # "event"
                   /\ stk' = [SubSeq(stk, 1, t) EXCEPT ![t].pc = "compress",
                                                       ![t].exiting = TRUE]
                   /\ UNCHANGED fault
    BY <1>4, Zenon DEF ExitImage
  <2>2. /\ n \in DOMAIN list /\ image[list[n]] # NoImage
        /\ \A m \in (n + 1)..Len(list) : image[list[m]] = NoImage
    BY DEF LastImageCtx
  <2>3. /\ Depth = Len(stk) /\ Top = stk[Depth] /\ Depth \in 1..Len(stk) /\ Depth \in Nat
        /\ list \in Seq(Ctxs) /\ Len(stk) \in Nat /\ FrameOK(Top) /\ ShapeOK(stk)
        /\ \A k \in 1..Len(stk) : /\ stk[k].kind \in {"native", "event", "run"}
                                  /\ stk[k].kind # "run" => stk[k].pc = "code"
    BY TopPool DEF PoolInv, PoolOK, Frame
  <2>4. ImageFrames(list[n]) # {}
    <3>1. PICK m \in 1..Len(stk) : Listed(stk[m]) /\ stk[m].ctx = list[n] /\ stk[m].img = image[list[n]]
      BY <2>2 DEF PoolInv, PoolOK, ImagesOK
    <3>2. m \in ImageFrames(list[n])
      BY <2>3, <3>1 DEF ImageFrames, Listed
    <3> QED
      BY <3>2
  <2>5. PICK t \in ImageFrames(list[n]) :
          /\ \A k \in (t + 1)..Depth : stk[k].kind # "event"
          /\ stk' = [SubSeq(stk, 1, t) EXCEPT ![t].pc = "compress", ![t].exiting = TRUE]
          /\ UNCHANGED fault
    BY <2>1, <2>4
  <2>6. /\ t \in 1..Len(stk) /\ t \in Nat /\ stk[t].kind = "run" /\ stk[t].ctx = list[n]
        /\ stk[t].img = image[list[n]]
    BY <2>3 DEF ImageFrames
  <2>7. Listed(Top) /\ Owns(Top) = {} /\ ~Top.exiting
    BY <1>1, <2>3, SteadyFrames
  <2>8. ASSUME NEW k \in t..Len(stk)
        PROVE  /\ Owns(stk[k]) = {}
               /\ stk[k].kind = "run" => Listed(stk[k]) /\ stk[k].pc \in {"native", "call"}
    <3>1. CASE k = Depth
      BY <1>1, <2>3, <2>7, <3>1
    <3>2. CASE k # Depth
      <4>1. k \in 1..(Len(stk) - 1) /\ k \in 1..Len(stk) /\ k + 1 \in (t + 1)..Depth
        BY <2>3, <2>6, <3>2
      <4>2. stk[k].kind # "event"
        <5>1. CASE k = t
          BY <2>6, <5>1
        <5>2. CASE k # t
          <6>1. k \in (t + 1)..Depth
            BY <2>3, <2>6, <4>1, <5>2
          <6> QED
            BY <2>5, <6>1
        <5> QED
          BY <5>1, <5>2
      <4>3. /\ stk[k].kind \in {"native", "run"} /\ (stk[k].kind = "native" => stk[k].pc = "code")
            /\ stk[k + 1].kind # "event"
        BY <2>3, <2>5, <4>1, <4>2
      <4> QED
        BY <2>3, <4>1, <4>3, CallersBelow
    <3> QED
      BY <3>1, <3>2
  <2>9. /\ Listed(stk[t]) /\ Owns(stk[t]) = {} /\ FrameOK(stk[t])
        /\ stk[t].pc \in {"native", "call"}
    <3>1. t \in t..Len(stk)
      BY <2>3, <2>6
    <3> QED
      BY <2>3, <2>6, <2>8, <3>1 DEF ShapeOK
  <2>10. "compress" \in RunPcs
    BY DEF RunPcs
  <2>11. PICK g : GoesTo(stk[t], g, "compress", stk[t].pend, TRUE) /\ Cut(stk, stk', t, g)
    BY <2>5, <2>6, <2>10, BackCut DEF Inv
  <2>12. stk[t].pend = <<>>
    BY <2>9 DEF FrameOK
  <2>13. /\ g.kind = "run" /\ g.ctx = stk[t].ctx /\ g.img = stk[t].img /\ g.pc = "compress"
         /\ g.pend = <<>> /\ g.exiting
    BY <2>6, <2>11, <2>12 DEF GoesTo
  <2>14. FrameOK(g) /\ Listed(g) /\ ~Tidy(g) /\ Clear(g, saved)
    BY <2>9, <2>13 DEF FrameOK, Listed, Tidy, Clear
  <2>15. Owns(g) = {}
    BY <2>13, <2>14, OwnsNone
  <2>16. \A k \in (t + 1)..Len(stk), m \in DOMAIN list :
           Listed(stk[k]) /\ stk[k].ctx = list[m] /\ stk[k].img = image[list[m]] => image[list[m]] = NoImage
    <3> SUFFICES ASSUME NEW k \in (t + 1)..Len(stk), NEW m \in DOMAIN list,
                        Listed(stk[k]), stk[k].ctx = list[m]
                 PROVE  image[list[m]] = NoImage
      OBVIOUS
    <3>1. k \in 1..Len(stk) /\ t < k
      BY <2>3, <2>6
    <3>2. n < m
      BY <2>2, <2>6, <2>9, <3>1 DEF PoolInv, PoolOK, ListOK, InOrder
    <3>3. m \in (n + 1)..Len(list)
      BY <2>2, <2>3, <3>2
    <3> QED
      BY <2>2, <3>3
  <2>17. stk'[t] = g /\ t \in 1..t /\ \A k \in (t + 1)..t : ~Listed(stk'[k])
    BY <2>6, <2>11 DEF Cut
  <2>18. \A k \in t..Len(stk) : Owns(stk[k]) = {}
    BY <2>8
  <2>19. PoolOK(stk', list, free, image, saved)
    BY <2>3, <2>6, <2>9, <2>11, <2>13, <2>14, <2>15, <2>16, <2>17, <2>18, PoolJump DEF PoolInv
  <2> QED
    BY <1>1, <2>5, <2>19 DEF PoolInv
<1> QED
  BY <1>3, <1>4

\* NativeThunk calls native code.
LEMMA CallNativePool ==
  ASSUME Inv, PoolInv, CallNative
  PROVE  PoolInv'
<1> DEFINE s == [stk EXCEPT ![Depth].pc = "native"]
           h == HostFrame("native")
<1>1. Top.kind = "run" /\ Top.pc = "call" /\ "call" \in Steady /\ "native" \in Steady
      /\ "native" \in RunPcs /\ UNCHANGED <<list, image, saved, free, fault>>
  BY DEF CallNative, At, Steady, RunPcs, cpuVars
<1>2. stk' = Append(s, h)
  BY DEF CallNative
<1>3. /\ Depth = Len(stk) /\ Top = stk[Depth] /\ list \in Seq(Ctxs) /\ Depth \in Nat \ {0}
      /\ Depth \in 1..Len(stk) /\ stk \in Seq(Frame) /\ FrameOK(Top)
  BY TopPool, TopFacts DEF PoolInv, Inv
<1>4. SubSeq(stk, 1, Depth) = stk
  BY <1>3, SubSeqFull
<1>5. PICK g : GoesTo(Top, g, "native", Top.pend, Top.exiting) /\ Cut(stk, s, Depth, g)
  BY <1>1, <1>3, <1>4, BackCut DEF Inv
<1>6. Top.pend = <<>>
  BY <1>1, <1>3, SteadyFrames
<1>7. Fewer(saved, saved)
  BY DEF Fewer
<1> HIDE DEF s, h
<1>8. PoolOK(s, list, free, image, saved)
  BY <1>1, <1>5, <1>6, <1>7, Onward DEF PoolInv
<1>9. /\ h \in Frame /\ h.kind = "native" /\ h.pc = "code" /\ h.pend = <<>> /\ ~h.exiting
  BY NewFrames DEF h, HostFrame
<1>10. FrameOK(h) /\ ~Listed(h) /\ Clear(h, saved) /\ Owns(h) = {}
  <2>1. FrameOK(h)
    BY <1>9 DEF FrameOK
  <2> QED
    BY <1>9, <2>1, OwnsNone DEF Listed, Clear
<1>11. s \in Seq(Frame) /\ Len(s) > 0 /\ s[Len(s)] = g /\ NextOK(g, h)
  BY <1>3, <1>5, <1>9 DEF Cut, GoesTo, NextOK
<1>12. Pushed(s, stk', h)
  BY <1>2, <1>9, <1>11, AppendPushed
<1>13. PoolOK(stk', list, free, image, saved)
  BY <1>3, <1>7, <1>8, <1>9, <1>10, <1>11, <1>12, PoolPush
<1> QED
  BY <1>1, <1>13 DEF PoolInv

-----------------------------------------------------------------------------
(* Native code and interrupts.                                             *)

\* Frames of native code and of interrupts.
LEMMA HostFrames ==
  ASSUME NEW k \in {"native", "event"}, NEW sv
  PROVE  LET h == HostFrame(k) IN
         /\ h \in Frame /\ h.kind = k /\ FrameOK(h) /\ ~Listed(h) /\ Clear(h, sv) /\ Owns(h) = {}
<1> DEFINE h == HostFrame(k)
<1>1. h \in Frame /\ h.kind = k /\ h.pc = "code" /\ h.pend = <<>> /\ ~h.exiting
  BY NewFrames DEF HostFrame
<1> HIDE DEF h
<1>2. FrameOK(h)
  BY <1>1 DEF FrameOK
<1>3. Owns(h) = {} /\ ~Listed(h) /\ Clear(h, sv)
  BY <1>1, <1>2, OwnsNone DEF Listed, Clear
<1> QED
  BY <1>1, <1>2, <1>3 DEF h

\* Native code activates emulated code with a context of the pool.
LEMMA AllocPool ==
  ASSUME Inv, PoolInv, InHost, NEW c \in free, NEW i \in Images \cup {NoImage}, AllocContext(c, i),
         UNCHANGED <<list, fault>>
  PROVE  PoolInv'
<1> DEFINE h == RunFrame(c, i)
<1>1. /\ Depth = Len(stk) /\ Top = stk[Depth] /\ list \in Seq(Ctxs) /\ Depth \in Nat \ {0}
      /\ stk \in Seq(Frame) /\ c \in Ctxs /\ saved \in [Ctxs -> Regs \cup {NotSaved}]
      /\ image \in [Ctxs -> Images \cup {NoImage}]
  BY TopPool, TopFacts DEF PoolInv, Inv, DataOK
<1>2. /\ free' = free \ {c} /\ saved' = [saved EXCEPT ![c] = NotSaved]
      /\ image' = [image EXCEPT ![c] = i] /\ stk' = Append(stk, h)
  BY DEF AllocContext
<1>3. /\ h \in Frame /\ h.kind = "run" /\ h.pc = "start" /\ h.ctx = c /\ h.img = i
      /\ h.pend = <<>> /\ ~h.exiting
  BY <1>1, NewFrames DEF RunFrame
<1> HIDE DEF h
<1>4. FrameOK(h) /\ ~Listed(h) /\ Owns(h) = {c}
  BY <1>1, <1>3 DEF FrameOK, Listed, Owns, Pending, Held
<1>5. Clear(h, saved')
  BY <1>3 DEF Clear
<1>6. NextOK(stk[Len(stk)], h)
  BY <1>1 DEF NextOK, InHost
<1>7. Pushed(stk, stk', h)
  BY <1>1, <1>2, <1>3, AppendPushed
<1>8. Fewer(saved, saved')
  BY <1>1, <1>2 DEF Fewer
<1>9. \A x \in Ctxs : x \notin Owns(h) => image'[x] = image[x]
  BY <1>1, <1>2, <1>4
<1>10. h.img = image'[h.ctx]
  BY <1>1, <1>2, <1>3
<1>11. Owns(h) \cap free' = {} /\ Owns(h) \cup free' = free
  BY <1>2, <1>4
<1>12. PoolOK(stk', list, free', image', saved')
  BY <1>1, <1>4, <1>5, <1>6, <1>7, <1>8, <1>9, <1>10, <1>11, PoolPush DEF PoolInv
<1> QED
  BY <1>12 DEF PoolInv

\* A timer interrupt.
LEMMA EventPool ==
  ASSUME Inv, PoolInv, Event
  PROVE  PoolInv'
<1> DEFINE h == HostFrame("event")
<1>1. /\ Depth = Len(stk) /\ list \in Seq(Ctxs) /\ Depth \in Nat \ {0} /\ stk \in Seq(Frame)
  BY TopPool, TopFacts DEF PoolInv, Inv
<1>2. stk' = Append(stk, h) /\ UNCHANGED <<list, image, saved, free, fault>>
  BY DEF Event, cpuVars
<1>3. /\ h \in Frame /\ h.kind = "event" /\ FrameOK(h) /\ ~Listed(h) /\ Clear(h, saved)
      /\ Owns(h) = {}
  BY HostFrames
<1> HIDE DEF h
<1>4. NextOK(stk[Len(stk)], h) /\ Fewer(saved, saved)
  BY <1>3 DEF NextOK, Fewer
<1>5. Pushed(stk, stk', h)
  BY <1>1, <1>2, <1>3, AppendPushed
<1>6. PoolOK(stk', list, free, image, saved)
  BY <1>1, <1>3, <1>4, <1>5, PoolPush DEF PoolInv
<1> QED
  BY <1>2, <1>6 DEF PoolInv

\* Native frames are not listed and own nothing.
LEMMA HostTop ==
  ASSUME Inv, PoolOK(stk, list, free, image, saved), NEW n \in 1..Len(stk), stk[n].kind # "run"
  PROVE  ~Listed(stk[n]) /\ Owns(stk[n]) = {} /\ Clear(stk[n], saved) /\ FrameOK(stk[n])
<1>1. stk[n].pc = "code" /\ FrameOK(stk[n]) /\ Clear(stk[n], saved)
  BY TopPool DEF PoolOK, ShapeOK, SavedOK
<1> QED
  BY <1>1, OwnsNone DEF Listed

\* A native function returns.
LEMMA ReturnHostPool ==
  ASSUME Inv, PoolInv, ReturnHost
  PROVE  PoolInv'
<1> DEFINE t == Depth - 1
           rest == SubSeq(stk, 1, t)
<1>1. /\ Top.kind = "native" /\ Depth > 1
      /\ stk' = IF stk[t].kind = "run" /\ stk[t].pc = "native"
                  THEN [rest EXCEPT ![t].pc = "check"] ELSE rest
      /\ UNCHANGED <<list, image, saved, free, fault>>
  BY DEF ReturnHost, cpuVars
<1>2. Depth = Len(stk) /\ Top = stk[Depth] /\ Depth \in 1..Len(stk) /\ Depth \in Nat
  BY TopPool DEF PoolInv
<1>3. ~Listed(Top) /\ Owns(Top) = {}
  BY <1>1, <1>2, HostTop DEF PoolInv
<1>4. free' = free \cup Owns(Top)
  BY <1>1, <1>3
<1>5. CASE ~(stk[t].kind = "run" /\ stk[t].pc = "native")
  <2>1. stk' = rest
    BY <1>1, <1>5
  <2>2. PoolOK(stk', list', free', image', saved')
    BY <1>1, <1>3, <1>4, <2>1, ReturnPool DEF PoolInv
  <2> QED
    BY <1>1, <2>2 DEF PoolInv
<1>6. CASE stk[t].kind = "run" /\ stk[t].pc = "native"
  <2>1. stk' = [rest EXCEPT ![t].pc = "check"] /\ "check" \in RunPcs /\ t \in 1..Len(stk)
    BY <1>1, <1>2, <1>6 DEF RunPcs
  <2>2. FrameOK(stk[t]) /\ "native" \in Steady /\ "check" \in Steady
    BY <2>1 DEF PoolInv, PoolOK, ShapeOK, Steady
  <2> HIDE DEF t
  <2>3. PICK g : GoesTo(stk[t], g, "check", stk[t].pend, stk[t].exiting) /\ Cut(stk, stk', t, g)
    BY <2>1, BackCut DEF Inv
  <2>4. Listed(stk[t]) /\ ~stk[t].exiting /\ stk[t].pend = <<>> /\ Owns(stk[t]) = {}
    BY <1>6, <2>2, SteadyFrames
  <2>5. /\ g.kind = "run" /\ g.ctx = stk[t].ctx /\ g.img = stk[t].img /\ g.pc = "check"
        /\ g.pend = <<>> /\ ~g.exiting
    BY <1>6, <2>3, <2>4 DEF GoesTo
  <2>6. FrameOK(g)
    BY <1>6, <2>2, <2>5 DEF FrameOK
  <2>7. Listed(g) /\ Owns(g) = {}
    BY <2>2, <2>5, <2>6, SteadyFrames
  <2>8. GoesOn(stk[t], g) /\ ~Tidy(g) /\ Clear(g, saved)
    BY <1>6, <2>4, <2>5, <2>7 DEF GoesOn, Tidy, Clear
  <2>9. PoolOK(stk', list', free', image', saved')
    BY <1>1, <1>3, <1>4, <2>3, <2>4, <2>6, <2>7, <2>8, PopPool DEF PoolInv, t
  <2> QED
    BY <1>1, <2>9 DEF PoolInv
<1> QED
  BY <1>5, <1>6

\* A LongJump of native code that emulated code has called.
LEMMA LongJumpPool ==
  ASSUME Inv, PoolInv, Jumps # "clean", LongJump
  PROVE  PoolInv'
<1>1. /\ Depth = Len(stk) /\ Top = stk[Depth] /\ Depth \in 1..Len(stk) /\ Depth \in Nat
      /\ list \in Seq(Ctxs) /\ Len(stk) \in Nat /\ ShapeOK(stk) /\ "done" \in RunPcs
      /\ \A k \in 1..Len(stk) : /\ stk[k].kind \in {"native", "event", "run"}
                                /\ stk[k].kind # "run" => stk[k].pc = "code"
  BY TopPool DEF PoolInv, PoolOK, Frame, RunPcs
<1>2. Top.kind = "native" /\ UNCHANGED <<list, image, saved, free, fault>>
  BY DEF LongJump, cpuVars
<1>3. PICK t \in 1..(Depth - 1) : stk[t].kind # "run" /\ JumpAllowed(t) /\ stk' = SubSeq(stk, 1, t)
  BY DEF LongJump
<1>4. \A n \in (t + 1)..Depth : stk[n].kind # "event" /\ stk[n].img = NoImage
  BY <1>3 DEF JumpAllowed
<1>5. PICK j \in 1..(t - 1) : stk[j].kind = "run" /\ \A n \in (j + 1)..t : stk[n].kind = "native"
  BY <1>3 DEF JumpAllowed
<1>6. /\ t \in 1..Len(stk) /\ t \in Nat /\ j \in Nat /\ j < t /\ t < Depth
      /\ j \in 1..Len(stk) /\ j \in 1..t /\ j # t /\ j \in 1..(Len(stk) - 1) /\ j + 1 \in (j + 1)..t
      /\ t \in (j + 1)..t
  BY <1>1, <1>3, <1>5
<1>7. stk[j].pc = "native" /\ Listed(stk[j]) /\ ~Tidy(stk[j])
  <2>1. stk[j + 1].kind = "native"
    BY <1>5, <1>6
  <2> QED
    BY <1>1, <1>5, <1>6, <2>1, CallersBelow
<1>8. ASSUME NEW k \in t..Len(stk) PROVE Owns(stk[k]) = {}
  <2>1. CASE k = Depth
    BY <1>1, <1>2, <2>1, HostTop DEF PoolInv
  <2>2. CASE k = t
    BY <1>3, <1>6, <2>2, HostTop DEF PoolInv
  <2>3. CASE k # Depth /\ k # t
    <3>1. k \in 1..(Len(stk) - 1) /\ k \in 1..Len(stk) /\ k \in (t + 1)..Depth /\ k + 1 \in (t + 1)..Depth
      BY <1>1, <1>6, <2>3
    <3>2. /\ stk[k].kind \in {"native", "run"} /\ (stk[k].kind = "native" => stk[k].pc = "code")
          /\ stk[k + 1].kind # "event"
      BY <1>1, <1>4, <3>1
    <3> QED
      BY <1>1, <3>1, <3>2, CallersBelow
  <2> QED
    BY <2>1, <2>2, <2>3
<1> DEFINE g == stk[t]
<1>9. Cut(stk, stk', t, g)
  BY <1>1, <1>3, <1>6, BackCut DEF Inv
<1>10. ~Listed(g) /\ Owns(g) = {} /\ Clear(g, saved) /\ FrameOK(g) /\ g.kind # "run"
  BY <1>3, <1>6, HostTop DEF PoolInv
<1> HIDE DEF g
<1>11. stk'[j] = stk[j] /\ \A k \in 1..(t - 1) : stk'[k] = stk[k]
  BY <1>5, <1>9 DEF Cut
<1>12. \A k \in (j + 1)..t : ~Listed(stk'[k])
  <2> SUFFICES ASSUME NEW k \in (j + 1)..t PROVE ~Listed(stk'[k])
    OBVIOUS
  <2>1. CASE k = t
    BY <1>9, <1>10, <2>1 DEF Cut
  <2>2. CASE k # t
    <3>1. k \in 1..(t - 1)
      BY <1>6, <2>2
    <3>2. stk'[k].kind = "native"
      BY <1>5, <1>11, <3>1
    <3> QED
      BY <3>2 DEF Listed
  <2> QED
    BY <2>1, <2>2
<1>13. ASSUME NEW n \in (j + 1)..Len(stk), NEW k \in DOMAIN list,
              Listed(stk[n]), stk[n].ctx = list[k], stk[n].img = image[list[k]]
       PROVE  image[list[k]] = NoImage
  <2>1. ~(n \in (j + 1)..t)
    BY <1>5, <1>13 DEF Listed
  <2>2. n \in (t + 1)..Depth
    BY <1>1, <1>6, <2>1
  <2> QED
    BY <1>4, <1>13, <2>2
<1>14. PoolOK(stk', list, free, image, saved)
  <2>1. g.kind = stk[t].kind
    BY DEF g
  <2> QED
    BY <1>1, <1>6, <1>7, <1>8, <1>9, <1>10, <1>11, <1>12, <1>13, <2>1, PoolJump DEF PoolInv
<1> QED
  BY <1>2, <1>14 DEF PoolInv

-----------------------------------------------------------------------------
(* Every step.                                                             *)

\* Every step of native code and of the interrupt logic.
LEMMA HostStepPool ==
  ASSUME Release, Inv, PoolInv, HostStep
  PROVE  PoolInv'
<1> USE DEF Release
<1>1. CASE RunFunc
  <2>1. PICK c \in free : AllocContext(c, NoImage)
    BY <1>1 DEF RunFunc
  <2> QED
    BY <1>1, <2>1, AllocPool DEF RunFunc
<1>2. CASE RunImage
  <2>1. PICK i \in Images, c \in free : AllocContext(c, i)
    BY <1>2 DEF RunImage
  <2> QED
    BY <1>2, <2>1, AllocPool DEF RunImage, MayStartImage
<1>3. ASSUME UNCHANGED <<stk, list, free, image, saved>>, fault' = "none" PROVE PoolInv'
  BY <1>3 DEF PoolInv
<1>4. CASE RunImageExhausted
  BY <1>3, <1>4 DEF RunImageExhausted, cpuVars
<1>5. CASE SetInterrupt
  BY <1>3, <1>5 DEF SetInterrupt, cpuVars, PoolInv
<1>6. CASE EventReturn
  <2>1. /\ Top.kind = "event" /\ stk' = SubSeq(stk, 1, Depth - 1)
        /\ UNCHANGED <<list, image, saved, free, fault>>
    BY <1>6 DEF EventReturn, cpuVars
  <2>2. Depth > 1 /\ Depth \in 1..Len(stk) /\ Top = stk[Depth]
    BY <2>1, TopFacts DEF Inv
  <2>3. ~Listed(Top) /\ Owns(Top) = {}
    BY <2>1, <2>2, HostTop DEF PoolInv
  <2>4. free' = free \cup Owns(Top)
    BY <2>1, <2>3
  <2>5. PoolOK(stk', list', free', image', saved')
    BY <2>1, <2>2, <2>3, <2>4, ReturnPool DEF PoolInv
  <2> QED
    BY <2>1, <2>5 DEF PoolInv
<1> QED
  BY <1>1, <1>2, <1>4, <1>5, <1>6, ReturnHostPool, EventPool, LongJumpPool DEF HostStep, CallHost

\* In a release build no orphans are pending.
LEMMA NoOrphans ==
  ASSUME Inv, PoolInv, FreeOrphan
  PROVE  Goto("prepare") /\ UNCHANGED <<list, free, image, saved, uc, fault>>
<1>1. Top.kind = "run" /\ Top.pc = "orphans" /\ "orphans" \in Steady
  BY DEF FreeOrphan, FreePending, At, Steady
<1>2. Top.pend = <<>> /\ Top = stk[Depth] /\ Depth \in 1..Len(stk) /\ stk \in Seq(Frame)
  BY <1>1, TopPool, TopFacts, SteadyFrames DEF PoolInv, Inv
<1> DEFINE n == Len(Top.pend)
           d == SubSeq(Top.pend, 1, n - 1)
<1>3. d = <<>> /\ n = 0 /\ (n <= 1) = TRUE
  BY <1>2
<1>4. /\ stk' = [stk EXCEPT ![Depth].pend = <<>>, ![Depth].pc = "prepare"]
      /\ UNCHANGED <<list, free, image, saved, uc, fault>>
  <2>1. /\ IF n = 0 THEN UNCHANGED <<free, fault>> ELSE FreeContext(Top.pend[n])
        /\ stk' = [stk EXCEPT ![Depth].pend = d, ![Depth].pc = IF n <= 1 THEN "prepare" ELSE "orphans"]
        /\ UNCHANGED <<list, image, saved, uc>>
    BY Zenon DEF FreeOrphan, FreePending
  <2>2. (IF n <= 1 THEN "prepare" ELSE "orphans") = "prepare"
    BY <1>3
  <2> HIDE DEF d, n
  <2> QED
    BY <1>3, <2>1, <2>2
<1>5. [stk EXCEPT ![Depth].pend = <<>>, ![Depth].pc = "prepare"] = [stk EXCEPT ![Depth].pc = "prepare"]
  BY <1>2 DEF Frame
<1> QED
  BY <1>4, <1>5 DEF Goto

\* Every step of an activation.
LEMMA EmuStepPool ==
  ASSUME Release, Inv, PoolInv, CountInv', EmuStep
  PROVE  PoolInv'
<1> USE DEF Release
<1>1. ASSUME NEW p \in Steady, At(p), NEW q \in Steady \cup {"compress"}, Goto(q),
             UNCHANGED <<list, free, image, fault>>, Fewer(saved, saved'),
             q = "leave" => saved'[Top.ctx] = NotSaved,
             p \in {"native", "check"} =>
               q = "compress" \/ (list # <<>> => list[Len(list)] = Top.ctx)
      PROVE  PoolInv'
  <2>1. PoolOK(stk', list', free', image', saved')
    BY <1>1, OnwardGoto DEF PoolInv
  <2> QED
    BY <1>1, <2>1 DEF PoolInv
<1>2. {"thunkpre", "loop", "jit", "decode", "call", "check", "result", "thunkpost", "restore",
       "leave"} \subseteq Steady
  BY DEF Steady
<1>3. UNCHANGED saved => Fewer(saved, saved')
  BY DEF Fewer
<1>4. CASE FreeOrphan
  <2>1. At("orphans") /\ {"orphans", "prepare"} \subseteq Steady
    BY <1>4 DEF FreeOrphan, FreePending, Steady
  <2>2. Goto("prepare") /\ UNCHANGED <<list, free, image, saved, fault>>
    BY <1>4, NoOrphans
  <2> QED
    BY <1>1, <1>3, <2>1, <2>2
<1>5. CASE ThunkPre
  BY <1>1, <1>2, <1>3, <1>5 DEF ThunkPre
<1>6. CASE EmuStart
  BY <1>1, <1>2, <1>3, <1>6 DEF EmuStart, cpuVars
<1>7. CASE EmuStop
  BY <1>1, <1>2, <1>3, <1>7 DEF EmuStop
<1>8. CASE Decode
  <2>1. PICK q \in {"loop", "call", "thunkpost", "restore"} : Goto(q)
    BY <1>8 DEF Decode
  <2> QED
    BY <1>1, <1>2, <1>3, <1>8, <2>1 DEF Decode, cpuVars
<1>9. CASE CheckLeaked
  <2>1. CASE list # <<>> /\ Newest = Top.ctx
    BY <1>1, <1>2, <1>3, <1>9, <2>1 DEF CheckLeaked, cpuVars, Newest
  <2>2. CASE ~(list # <<>> /\ Newest = Top.ctx)
    BY <1>1, <1>2, <1>3, <1>9, <2>2 DEF CheckLeaked, cpuVars
  <2> QED
    BY <2>1, <2>2
<1>10. CASE WriteResult
  BY <1>1, <1>2, <1>3, <1>10 DEF WriteResult
<1>11. CASE ThunkPost
  BY <1>1, <1>2, <1>3, <1>11 DEF ThunkPost
<1>12. CASE Restore
  <2>1. Top.ctx \in Ctxs /\ saved \in [Ctxs -> Regs \cup {NotSaved}]
    BY <1>12, TopPool DEF Restore, At, PoolInv, Inv, DataOK
  <2>2. Fewer(saved, saved') /\ saved'[Top.ctx] = NotSaved
    BY <1>12, <2>1 DEF Restore, Fewer
  <2> QED
    BY <1>1, <1>2, <1>12, <2>2 DEF Restore
<1>13. ASSUME NEW p \in {"exit", "done"}, At(p), stk' = SubSeq(stk, 1, Depth - 1),
              free' = free \cup Owns(Top), UNCHANGED <<list, image, saved>>
       PROVE  PoolOK(stk', list', free', image', saved')
  <2>1. Top.kind = "run" /\ Top.pc = p /\ Depth > 1 /\ FrameOK(Top)
    BY <1>13, TopFacts, TopPool DEF Inv, PoolInv, At
  <2>2. ~Listed(Top)
    BY <1>13, <2>1 DEF Listed, FrameOK
  <2> QED
    BY <1>13, <2>1, <2>2, ReturnPool DEF PoolInv
<1>14. CASE NativeExit
  <2>1. /\ At("exit") /\ stk' = SubSeq(stk, 1, Depth - 1)
        /\ UNCHANGED <<list, image, saved, free, fault>>
    BY <1>14 DEF NativeExit, cpuVars
  <2>2. Owns(Top) = {}
    BY <2>1, OwnsNone, TopPool DEF At, PoolInv
  <2>3. PoolOK(stk', list', free', image', saved')
    BY <1>13, <2>1, <2>2
  <2> QED
    BY <2>1, <2>3 DEF PoolInv
<1>15. CASE Return
  <2>1. /\ At("done") /\ stk' = SubSeq(stk, 1, Depth - 1)
        /\ UNCHANGED <<list, image, saved>> /\ FreeContext(Top.ctx)
    BY <1>15 DEF Return
  <2>2. Top.kind = "run" /\ Top.pc = "done" /\ FrameOK(Top) /\ Clear(Top, saved) /\ Top.ctx \in Ctxs
    BY <2>1, TopPool DEF At, PoolInv
  <2>3. Owns(Top) = {Top.ctx}
    BY <2>2 DEF FrameOK, Owns, Pending, Held
  <2>4. free' = free \cup {Top.ctx} /\ fault' = "none"
    BY <2>1, <2>2 DEF FreeContext, HasSaved, Clear
  <2>5. PoolOK(stk', list', free', image', saved')
    BY <1>13, <2>1, <2>3, <2>4
  <2> QED
    BY <2>4, <2>5 DEF PoolInv
<1> QED
  BY <1>4, <1>5, <1>6, <1>7, <1>8, <1>9, <1>10, <1>11, <1>12, <1>14, <1>15, EnterPool,
     DetectOrphansPool, SaveOrResetPool, CallNativePool, ExitImagePool, CompressBeginPool,
     CompressUnwindPool, FreePool, LeavePool, LeaveEndPool DEF EmuStep

\* At first every context is in its pool.
LEMMA InitPool == Init => PoolInv
<1> SUFFICES ASSUME Init PROVE PoolInv
  OBVIOUS
<1>1. Len(stk) = 1 /\ stk[1] = HostFrame("native") /\ list = <<>> /\ free = Ctxs /\ fault = "none"
  BY DEF Init
<1> DEFINE h == HostFrame("native")
<1>2. h.kind = "native" /\ FrameOK(h) /\ ~Listed(h) /\ Clear(h, saved) /\ Owns(h) = {}
  BY HostFrames
<1> HIDE DEF h
<1>3. \A n \in 1..Len(stk) : stk[n] = h
  BY <1>1 DEF h
<1>4. ShapeOK(stk) /\ SavedOK(stk, saved)
  BY <1>1, <1>2, <1>3 DEF ShapeOK, SavedOK
<1>5. ListOK(stk, list)
  BY <1>1, <1>2, <1>3 DEF ListOK, Once, LiveOnList, InOrder, OldestLive, LeaksAbove, Tidy
<1>6. Apart(stk, list, free) /\ Covered(stk, list, free)
  <2>1. OnList(list) = {}
    BY <1>1 DEF OnList
  <2>2. \A n, m \in 1..Len(stk) : n = m
    BY <1>1
  <2> QED
    BY <1>1, <1>2, <1>3, <2>1, <2>2 DEF Apart, Covered
<1>7. ImagesOK(stk, list, image)
  BY <1>1, <1>2, <1>3 DEF ImagesOK
<1> QED
  BY <1>1, <1>4, <1>5, <1>6, <1>7 DEF PoolInv, PoolOK

\* Every step keeps the invariant.
LEMMA NextPool ==
  ASSUME Release
  PROVE  Inv /\ PoolInv /\ CountInv' /\ [Next]_vars => PoolInv'
<1> SUFFICES ASSUME Inv, PoolInv, CountInv', [Next]_vars PROVE PoolInv'
  OBVIOUS
<1>1. CASE Next
  BY <1>1, HostStepPool, EmuStepPool DEF Next
<1>2. CASE UNCHANGED vars
  BY <1>2 DEF PoolInv, vars, cpuVars
<1> QED
  BY <1>1, <1>2

\* What a frame refers to is on the list, pending or held.
LEMMA InUsePlaces ==
  ASSUME Inv, PoolInv
  PROVE  \A c : c \in InUse <=> c \in OnList(list) \/ \E n \in 1..Len(stk) : c \in Owns(stk[n])
<1>0. /\ Depth = Len(stk)
      /\ \A n \in 1..Len(stk) : FrameOK(stk[n])
      /\ LiveOnList(stk, list)
  BY TopPool DEF PoolInv, PoolOK, ShapeOK, ListOK
<1> DEFINE Referred(n) == stk[n].kind = "run" /\ ~(stk[n].exiting /\ stk[n].pc \in {"free", "exit"})
<1>1. ASSUME NEW n \in 1..Len(stk), Referred(n)
      PROVE  stk[n].ctx \in OnList(list) \cup Owns(stk[n])
  <2>1. CASE Listed(stk[n])
    BY <1>0, <2>1 DEF LiveOnList, OnList
  <2>2. CASE Held(stk[n])
    BY <1>0, <2>2 DEF Held, Owns, FrameOK
  <2>3. CASE ~Listed(stk[n]) /\ ~Held(stk[n])
    <3>1. stk[n].exiting /\ stk[n].pc = "unwind"
      BY <1>1, <2>3 DEF Listed, Held
    <3> QED
      BY <1>0, <3>1 DEF FrameOK, Owns
  <2> QED
    BY <2>1, <2>2, <2>3
<1>2. ASSUME NEW n \in 1..Len(stk), NEW c \in Owns(stk[n])
      PROVE  c \in Pending(stk[n]) \/ (Referred(n) /\ c = stk[n].ctx)
  <2>1. CASE c \in Pending(stk[n])
    BY <2>1
  <2>2. CASE c \notin Pending(stk[n])
    BY <2>2 DEF Owns, Held
  <2> QED
    BY <2>1, <2>2
<1>3. \A n \in 1..Len(stk) : Pending(stk[n]) \subseteq Owns(stk[n])
  BY DEF Owns
<1>4. InUse = OnList(list) \cup {stk[n].ctx : n \in {m \in 1..Len(stk) : Referred(m)}}
                \cup UNION {Pending(stk[n]) : n \in 1..Len(stk)}
  BY <1>0 DEF InUse, OnList, Pending
<1> HIDE DEF Referred
<1>5. ASSUME NEW c \in InUse PROVE c \in OnList(list) \/ \E n \in 1..Len(stk) : c \in Owns(stk[n])
  <2>1. CASE \E n \in 1..Len(stk) : Referred(n) /\ c = stk[n].ctx
    BY <1>1, <2>1
  <2>2. CASE \E n \in 1..Len(stk) : c \in Pending(stk[n])
    BY <1>3, <2>2
  <2> QED
    BY <1>4, <2>1, <2>2
<1>6. ASSUME NEW n \in 1..Len(stk), NEW c \in Owns(stk[n]) PROVE c \in InUse
  <2>1. CASE c \in Pending(stk[n])
    BY <1>4, <2>1
  <2>2. CASE Referred(n) /\ c = stk[n].ctx
    BY <1>4, <2>2
  <2> QED
    BY <1>2, <1>6, <2>1, <2>2
<1>7. OnList(list) \subseteq InUse
  BY <1>4
<1> QED
  BY <1>5, <1>6, <1>7

-----------------------------------------------------------------------------
(* What follows for every value of the constants.                          *)

\* Inv and PoolInv hold in every reachable state of a release build.
THEOREM PoolInvariance ==
  ASSUME Release
  PROVE  Spec => [](Inv /\ PoolInv)
<1>1. Init => PoolInv /\ CountInv
  BY InitPool, InitCounts
<1>2. OrphansOfOneCpu
  BY DEF Release, OrphansOfOneCpu
<1>3. Inv /\ Inv' /\ CountInv /\ [Next]_vars => CountInv'
  BY <1>2, NextCounts
<1>4. Inv /\ PoolInv /\ CountInv' /\ [Next]_vars => PoolInv'
  BY NextPool
<1> QED
  BY <1>1, <1>3, <1>4, Invariance, PTL DEF Spec

\* In release builds a context is in its pool or in use, never both and never
\* neither, across nested activations, events, LongJumps and exits of images;
\* and once the last activation has gone every context is back in its pool.
THEOREM NoContextLost ==
  ASSUME Release
  PROVE  Spec => []PoolPartition
<1>1. Inv /\ PoolInv => PoolPartition
  <2> SUFFICES ASSUME Inv, PoolInv PROVE PoolPartition
    OBVIOUS
  <2>1. Apart(stk, list, free) /\ Covered(stk, list, free) /\ OldestLive(stk, list)
    BY DEF PoolInv, PoolOK, ListOK
  <2>2. list \in Seq(Ctxs) /\ free \subseteq Ctxs /\ Depth = Len(stk)
    BY TopFacts DEF Inv, DataOK
  <2>3. InUse \cap free = {}
    <3>1. \A n \in 1..Len(stk) : Owns(stk[n]) \cap free = {}
      BY <2>1 DEF Apart
    <3>2. OnList(list) \cap free = {}
      BY <2>1 DEF Apart
    <3> QED
      BY <3>1, <3>2, InUsePlaces
  <2>4. OnList(list) \subseteq Ctxs /\ \A n \in 1..Len(stk) : Owns(stk[n]) \subseteq Ctxs
    <3>1. OnList(list) \subseteq Ctxs
      BY <2>2 DEF OnList
    <3>2. ASSUME NEW n \in 1..Len(stk) PROVE Owns(stk[n]) \subseteq Ctxs
      <4>1. stk[n].pend \in Seq(Ctxs)
        BY TopPool DEF PoolInv, Frame
      <4> QED
        BY <4>1 DEF Owns, Pending
    <3> QED
      BY <3>1, <3>2
  <2>5. InUse \cup free = Ctxs
    <3>1. \A c \in Ctxs : c \in OnList(list) \/ c \in free \/ \E n \in 1..Len(stk) : c \in Owns(stk[n])
      BY <2>1 DEF Covered
    <3> QED
      BY <2>2, <2>4, <3>1, InUsePlaces
  <2>6. ASSUME Depth = 1 PROVE list = <<>> /\ free = Ctxs
    <3>1. stk[1].kind = "native" /\ 1 \in 1..Len(stk) /\ \A n \in 1..Len(stk) : n = 1
      BY <2>2, <2>6 DEF Inv, CritInv, StackOK
    <3>2. ~Listed(stk[1]) /\ Owns(stk[1]) = {}
      BY <3>1, HostTop DEF PoolInv
    <3>3. list = <<>>
      BY <2>1, <3>1, <3>2 DEF OldestLive
    <3>4. OnList(list) = {}
      BY <3>3 DEF OnList
    <3> QED
      BY <2>1, <2>2, <3>1, <3>2, <3>3, <3>4 DEF Covered
  <2> QED
    BY <2>3, <2>5, <2>6 DEF PoolPartition
<1> QED
  BY <1>1, PoolInvariance, PTL

\* In release builds the context of an activation under way stays on the list,
\* whatever is compressed away above it.
THEOREM LiveStayListed ==
  ASSUME Release
  PROVE  Spec => []LiveListed
<1>1. Inv /\ PoolInv => LiveListed
  <2> SUFFICES ASSUME Inv, PoolInv, NEW n \in 1..Len(stk), stk[n].kind = "run", ~stk[n].exiting,
                      stk[n].pc \notin {"start", "left", "done"}
               PROVE  \E k \in DOMAIN list : list[k] = stk[n].ctx
    BY DEF LiveListed, Depth
  <2>1. Listed(stk[n])
    BY DEF Listed
  <2> QED
    BY <2>1 DEF PoolInv, PoolOK, ListOK, LiveOnList
<1> QED
  BY <1>1, PoolInvariance, PTL

\* In release builds none of the ASSERTs fails: the context that is left is
\* mTopContext, the context that looks for leaked ones finds itself on the
\* list, no context is freed with registers nobody put back, the counters
\* stay above zero, and the jump buffer of an image that exits is alive.
THEOREM NoAssertFails ==
  ASSUME Release
  PROVE  Spec => []AssertsHold
<1>1. PoolInv => AssertsHold
  BY DEF PoolInv, AssertsHold
<1> QED
  BY <1>1, PoolInvariance, PTL

-----------------------------------------------------------------------------
(* Registers: the inductive invariant.                                     *)

\* Frames whose registers are in the engine or saved, and those whose context
\* has not saved anything yet.
Owning(f) == f.kind = "run" /\ f.pc \in OwnedPcs /\ ~f.exiting
Unsaving(f) == f.kind = "run" /\ f.pc \in {"start", "entered", "orphans", "prepare"}

\* The places of a chain of contexts above place k where the engine that runs
\* the activation of place k has been saved.
SavedAbove(ch, sv, k) ==
  {m \in DOMAIN ch : k < m /\ CpuOf[ch[m]] = CpuOf[ch[k]] /\ sv[ch[m]] # NotSaved}

\* The registers of the activation of place k are in the engine, or the first
\* of those places has them.
FindsOwn(ch, sv, u, k) ==
  /\ SavedAbove(ch, sv, k) = {} => u[CpuOf[ch[k]]][1] = ch[k]
  /\ \A m \in SavedAbove(ch, sv, k) :
       (\A j \in SavedAbove(ch, sv, k) : m <= j) => sv[ch[m]][1] = ch[k]
FindOwn(s, ch, sv, u) ==
  \A n \in 1..Len(s), k \in DOMAIN ch :
    Owning(s[n]) /\ ch[k] = s[n].ctx => FindsOwn(ch, sv, u, k)

\* A context saves the engine once; one that is about to load its arguments
\* has done so, unless there is nobody of its Cpu below it.
HasTaken(l, sv, c) ==
  \A k \in DOMAIN l : l[k] = c /\ sv[c] = NotSaved =>
    \A j \in 1..(k - 1) : CpuOf[l[j]] # CpuOf[c]
Prepared(s, l, sv) ==
  \A n \in 1..Len(s) :
    /\ Unsaving(s[n]) => sv[s[n].ctx] = NotSaved
    /\ s[n].kind = "run" /\ s[n].pc = "thunkpre" => HasTaken(l, sv, s[n].ctx)

RegInv == FindOwn(stk, Chain, saved, uc) /\ Prepared(stk, list, saved)

-----------------------------------------------------------------------------
(* Steps that leave the contexts and what they saved alone.                *)

RegsOK(s, l, sv, u) == FindOwn(s, l, sv, u) /\ Prepared(s, l, sv)

\* Frame f becomes g without coming to own registers.
GetsNoMore(f, g) ==
  /\ g.kind = f.kind /\ g.ctx = f.ctx
  /\ Owning(g) => Owning(f)
  /\ Unsaving(g) => Unsaving(f)
  /\ g.pc = "thunkpre" => f.pc = "thunkpre"

\* Engines that ran may hold other values, but of the same activations.
SameOwners(l, u, u2) == \A k \in DOMAIN l : u2[CpuOf[l[k]]][1] = u[CpuOf[l[k]]][1]

\* What an activation finds depends on what is above its context.
LEMMA FindsSame ==
  ASSUME NEW ch, NEW ch2, NEW sv, NEW sv2, NEW u, NEW u2, NEW k, FindsOwn(ch, sv, u, k),
         ch2[k] = ch[k], u2[CpuOf[ch[k]]][1] = u[CpuOf[ch[k]]][1],
         SavedAbove(ch2, sv2, k) = SavedAbove(ch, sv, k),
         \A m \in SavedAbove(ch, sv, k) : sv2[ch2[m]] = sv[ch[m]]
  PROVE  FindsOwn(ch2, sv2, u2, k)
BY DEF FindsOwn

\* The engine and the contexts above one are the same.
LEMMA FindsKept ==
  ASSUME NEW l, NEW sv, NEW sv2, NEW u, NEW u2, NEW k \in DOMAIN l, FindsOwn(l, sv, u, k),
         \A m \in DOMAIN l : sv2[l[m]] = sv[l[m]], u2[CpuOf[l[k]]][1] = u[CpuOf[l[k]]][1]
  PROVE  FindsOwn(l, sv2, u2, k)
<1>1. SavedAbove(l, sv2, k) = SavedAbove(l, sv, k) /\ SavedAbove(l, sv, k) \subseteq DOMAIN l
  BY DEF SavedAbove
<1> QED
  BY <1>1, FindsSame

\* A frame goes on, and those above it are left.
LEMMA FindCut ==
  ASSUME NEW s, NEW s2, NEW t, NEW g, Cut(s, s2, t, g), GetsNoMore(s[t], g),
         NEW l, NEW sv, NEW u, NEW u2, FindOwn(s, l, sv, u), SameOwners(l, u, u2)
  PROVE  FindOwn(s2, l, sv, u2)
<1>1. t \in Nat /\ Len(s) \in Nat /\ 1 <= t /\ t <= Len(s) /\ Len(s2) = t /\ s2[t] = g
  BY DEF Cut
<1> SUFFICES ASSUME NEW n \in 1..Len(s2), NEW k \in DOMAIN l, Owning(s2[n]), l[k] = s2[n].ctx
             PROVE  FindsOwn(l, sv, u2, k)
  BY DEF FindOwn
<1>2. n \in 1..Len(s) /\ Owning(s[n]) /\ s[n].ctx = l[k]
  <2>1. CASE n = t
    BY <1>1, <2>1 DEF GetsNoMore
  <2>2. CASE n # t
    BY <1>1, <2>2 DEF Cut
  <2> QED
    BY <2>1, <2>2
<1>3. FindsOwn(l, sv, u, k)
  BY <1>2 DEF FindOwn
<1> QED
  BY <1>3, FindsKept DEF SameOwners

\* The stack is cut back to frame t, which becomes g: who puts back or takes
\* registers stays prepared.
LEMMA PreparedCut ==
  ASSUME NEW s, NEW s2, NEW t, NEW g, Cut(s, s2, t, g), GetsNoMore(s[t], g),
         NEW l, NEW sv, Prepared(s, l, sv)
  PROVE  Prepared(s2, l, sv)
<1>1. t \in Nat /\ Len(s) \in Nat /\ 1 <= t /\ t <= Len(s) /\ Len(s2) = t /\ s2[t] = g
  BY DEF Cut
<1> SUFFICES ASSUME NEW n \in 1..Len(s2)
             PROVE  /\ Unsaving(s2[n]) => sv[s2[n].ctx] = NotSaved
                    /\ s2[n].kind = "run" /\ s2[n].pc = "thunkpre" => HasTaken(l, sv, s2[n].ctx)
  BY DEF Prepared
<1>2. CASE n = t
  BY <1>1, <1>2 DEF GetsNoMore, Prepared
<1>3. CASE n # t
  <2>1. n \in 1..Len(s) /\ s2[n] = s[n]
    BY <1>1, <1>3 DEF Cut
  <2> QED
    BY <2>1 DEF Prepared
<1> QED
  BY <1>2, <1>3

\* The same for all that is known of the registers.
LEMMA RegsCut ==
  ASSUME NEW s, NEW s2, NEW t, NEW g, Cut(s, s2, t, g), GetsNoMore(s[t], g),
         NEW l, NEW sv, NEW u, NEW u2, RegsOK(s, l, sv, u), SameOwners(l, u, u2)
  PROVE  RegsOK(s2, l, sv, u2)
BY FindCut, PreparedCut DEF RegsOK

\* A frame is put on top; contexts that frames hold keep what they saved.
LEMMA RegsPush ==
  ASSUME NEW s, NEW s2, NEW h, Pushed(s, s2, h), NEW l, NEW sv, NEW sv2, NEW u,
         RegsOK(s, l, sv, u), ~Owning(h), h.pc # "thunkpre",
         Unsaving(h) => sv2[h.ctx] = NotSaved, \A k \in DOMAIN l : sv2[l[k]] = sv[l[k]],
         \A n \in 1..Len(s) : Unsaving(s[n]) \/ (s[n].kind = "run" /\ s[n].pc = "thunkpre") =>
           sv2[s[n].ctx] = sv[s[n].ctx]
  PROVE  RegsOK(s2, l, sv2, u)
<1>1. /\ Len(s) \in Nat /\ Len(s2) = Len(s) + 1 /\ s2[Len(s) + 1] = h
      /\ \A n \in 1..Len(s) : s2[n] = s[n]
      /\ \A n \in 1..Len(s2) : n = Len(s) + 1 \/ n \in 1..Len(s)
  BY DEF Pushed
<1>2. ASSUME NEW n \in 1..Len(s2), NEW k \in DOMAIN l, Owning(s2[n]), l[k] = s2[n].ctx
      PROVE  FindsOwn(l, sv2, u, k)
  <2>1. n \in 1..Len(s) /\ s2[n] = s[n]
    BY <1>1, <1>2
  <2>2. FindsOwn(l, sv, u, k)
    BY <1>2, <2>1 DEF RegsOK, FindOwn
  <2> QED
    BY <2>2, FindsKept
<1>3. ASSUME NEW n \in 1..Len(s2)
      PROVE  /\ Unsaving(s2[n]) => sv2[s2[n].ctx] = NotSaved
             /\ s2[n].kind = "run" /\ s2[n].pc = "thunkpre" => HasTaken(l, sv2, s2[n].ctx)
  <2>1. CASE n = Len(s) + 1
    BY <1>1, <2>1
  <2>2. CASE n # Len(s) + 1
    <3>1. n \in 1..Len(s) /\ s2[n] = s[n]
      BY <1>1, <2>2
    <3> QED
      BY <3>1 DEF RegsOK, Prepared, HasTaken, Unsaving
  <2> QED
    BY <2>1, <2>2
<1> QED
  BY <1>2, <1>3 DEF RegsOK, FindOwn, Prepared

\* While nothing is being unwound the chain is the list.
LEMMA FromRegInv ==
  ASSUME Inv, RegInv, Top.pc # "unwind"
  PROVE  RegsOK(stk, list, saved, uc) /\ Chain = list
BY DEF RegInv, RegsOK, Chain

\* Unless leaked contexts are being unwound, the chain is the list.
LEMMA ToRegInv ==
  ASSUME RegsOK(stk', list', saved', uc'), stk'[Len(stk')].pc # "unwind"
  PROVE  RegInv'
<1>1. Chain' = list'
  BY DEF Chain, Top, Depth
<1> QED
  BY <1>1 DEF RegInv, RegsOK

-----------------------------------------------------------------------------
(* Contexts of frames and places on the list.                              *)

\* Activations on the list have contexts of their own, and one that is not
\* on the list yet has one that is not there.
LEMMA OwnContexts ==
  ASSUME Inv, PoolInv, NEW n \in 1..Len(stk), NEW m \in 1..Len(stk), n # m,
         Listed(stk[n]), stk[m].kind = "run", Listed(stk[m]) \/ stk[m].pc = "start"
  PROVE  stk[n].ctx # stk[m].ctx
<1>1. /\ LiveOnList(stk, list) /\ InOrder(stk, list) /\ Apart(stk, list, free)
      /\ stk[m].ctx \in Ctxs /\ list \in Seq(Ctxs) /\ Len(stk) \in Nat
  BY TopPool DEF PoolInv, PoolOK, ListOK
<1>2. PICK j \in DOMAIN list : list[j] = stk[n].ctx
  BY <1>1 DEF LiveOnList
<1>3. CASE Listed(stk[m])
  <2> SUFFICES ASSUME stk[n].ctx = stk[m].ctx PROVE FALSE
    OBVIOUS
  <2>1. j \in Nat /\ n \in Nat /\ m \in Nat
    BY <1>1
  <2>2. CASE n < m
    <3>1. j < j
      BY <1>1, <1>2, <1>3, <2>2 DEF InOrder
    <3> QED
      BY <2>1, <3>1
  <2>3. CASE m < n
    <3>1. j < j
      BY <1>1, <1>2, <1>3, <2>3 DEF InOrder
    <3> QED
      BY <2>1, <3>1
  <2> QED
    BY <2>1, <2>2, <2>3
<1>4. CASE stk[m].pc = "start"
  <2>1. stk[m].ctx \in Owns(stk[m])
    BY <1>1, <1>4 DEF Owns, Held
  <2>2. stk[n].ctx \in OnList(list)
    BY <1>2 DEF OnList
  <2> QED
    BY <1>1, <2>1, <2>2 DEF Apart
<1> QED
  BY <1>3, <1>4

\* Frames that own registers, or are about to, are on the list or not yet.
LEMMA FramesListed ==
  ASSUME Inv, PoolInv, NEW n \in 1..Len(stk), stk[n].kind = "run"
  PROVE  /\ Owning(stk[n]) => Listed(stk[n])
         /\ Unsaving(stk[n]) => Listed(stk[n]) \/ stk[n].pc = "start"
         /\ stk[n].pc = "thunkpre" => Listed(stk[n])
<1>1. FrameOK(stk[n])
  BY DEF PoolInv, PoolOK, ShapeOK
<1> QED
  BY <1>1 DEF Owning, OwnedPcs, Unsaving, Listed, FrameOK

\* What is known when the running activation has its context on top.
TopPlace(c, K) ==
  /\ K = Len(list) /\ K \in Nat \ {0} /\ DOMAIN list = 1..K /\ list \in Seq(Ctxs)
  /\ c = Top.ctx /\ c \in Ctxs /\ list[K] = c
  /\ \A k \in 1..K : list[k] = c => k = K
  /\ \A n \in 1..(Depth - 1) :
       /\ Owning(stk[n]) => stk[n].ctx # c
       /\ Unsaving(stk[n]) => stk[n].ctx # c
       /\ stk[n].kind = "run" /\ stk[n].pc = "thunkpre" => stk[n].ctx # c

\* A tidy frame on top has the newest context.
LEMMA TopPlaced ==
  ASSUME Inv, PoolInv, Tidy(Top)
  PROVE  TopPlace(Top.ctx, Len(list))
<1>1. /\ Depth = Len(stk) /\ Top = stk[Depth] /\ Depth \in 1..Len(stk) /\ Depth \in Nat
      /\ list \in Seq(Ctxs) /\ Listed(Top) /\ Top.kind = "run" /\ Top.ctx \in Ctxs
  BY TopPool DEF PoolInv, Tidy, Listed
<1>2. list # <<>> /\ list[Len(list)] = Top.ctx
  BY NewestTidy DEF Newest
<1>3. Len(list) \in Nat \ {0} /\ DOMAIN list = 1..Len(list)
  BY <1>1, <1>2
<1>4. \A k \in 1..Len(list) : list[k] = Top.ctx => k = Len(list)
  <2>1. Once(list) /\ Len(list) \in DOMAIN list
    BY <1>3 DEF PoolInv, PoolOK, ListOK
  <2> QED
    BY <1>2, <1>3, <2>1 DEF Once
<1>5. ASSUME NEW n \in 1..(Depth - 1), stk[n].kind = "run", Listed(stk[n]) \/ stk[n].pc = "start"
      PROVE  stk[n].ctx # Top.ctx
  <2>1. n \in 1..Len(stk) /\ n # Depth
    BY <1>1
  <2> QED
    BY <1>1, <1>5, <2>1, OwnContexts
<1>6. ASSUME NEW n \in 1..(Depth - 1)
      PROVE  /\ Owning(stk[n]) => stk[n].ctx # Top.ctx
             /\ Unsaving(stk[n]) => stk[n].ctx # Top.ctx
             /\ stk[n].kind = "run" /\ stk[n].pc = "thunkpre" => stk[n].ctx # Top.ctx
  <2>1. n \in 1..Len(stk)
    BY <1>1
  <2> QED
    BY <1>5, <2>1, FramesListed DEF Owning, Unsaving
<1> QED
  BY <1>1, <1>2, <1>3, <1>4, <1>6 DEF TopPlace

\* The frames of a stack whose running activation went on.
LEMMA TopWentOn ==
  ASSUME Inv, NEW g, Cut(stk, stk', Depth, g)
  PROVE  /\ Len(stk') = Depth /\ stk'[Depth] = g
         /\ \A n \in 1..Len(stk') : n = Depth \/ n \in 1..(Depth - 1)
         /\ \A n \in 1..(Depth - 1) : stk'[n] = stk[n] /\ n \in 1..Len(stk)
<1>1. Depth = Len(stk) /\ Depth \in Nat
  BY TopFacts DEF Inv
<1> QED
  BY <1>1 DEF Cut

-----------------------------------------------------------------------------
(* Steps that save registers and put them back.                            *)

\* EmuThunkPre: the engine now has the new activation's registers.
LEMMA ThunkPreRegs ==
  ASSUME Inv, PoolInv, RegInv, ThunkPre
  PROVE  RegInv'
<1> DEFINE c == Top.ctx
           p == CpuOf[c]
           K == Len(list)
<1>1. /\ Top.kind = "run" /\ Top.pc = "thunkpre" /\ Goto("loop") /\ "loop" \in RunPcs
      /\ "thunkpre" \in Steady /\ uc' = [uc EXCEPT ![p] = <<c, 0>>] /\ UNCHANGED <<list, saved>>
  BY DEF ThunkPre, At, RunPcs, Steady
<1>2. PICK g : GoesTo(Top, g, "loop", Top.pend, Top.exiting) /\ Cut(stk, stk', Depth, g)
  BY <1>1, GotoCut DEF Inv
<1>3. FrameOK(Top) /\ Depth \in 1..Len(stk) /\ Top = stk[Depth]
  BY TopPool DEF PoolInv
<1>4. Tidy(Top)
  BY <1>1, <1>3, SteadyFrames DEF Tidy
<1>5. TopPlace(c, K)
  BY <1>4, TopPlaced
<1>6. RegsOK(stk, list, saved, uc)
  BY <1>1, FromRegInv
<1>7. HasTaken(list, saved, c)
  BY <1>1, <1>3, <1>6 DEF RegsOK, Prepared
<1>8. uc \in [Cpus -> Regs] /\ CpuOf \in [Ctxs -> Cpus]
  BY CpuRunAssumption DEF Inv, DataOK
<1>9. g.kind = "run" /\ g.pc = "loop" /\ g.ctx = c
  BY <1>1, <1>2 DEF GoesTo
<1> HIDE DEF c, p, K
<1>10. p = CpuOf[c] /\ p \in Cpus
  BY <1>5, <1>8 DEF p, TopPlace
<1>11. FindsOwn(list, saved, uc', K)
  <2>1. SavedAbove(list, saved, K) = {}
    BY <1>5 DEF SavedAbove, TopPlace
  <2> QED
    BY <1>1, <1>5, <1>8, <1>10, <2>1 DEF FindsOwn, TopPlace
<1>12. ASSUME NEW n \in 1..(Depth - 1), NEW k \in DOMAIN list, Owning(stk[n]), list[k] = stk[n].ctx
       PROVE  FindsOwn(list, saved, uc', k)
  <2>1. n \in 1..Len(stk)
    BY <1>3
  <2>2. FindsOwn(list, saved, uc, k)
    BY <1>6, <1>12, <2>1 DEF RegsOK, FindOwn
  <2>3. k \in 1..K /\ k < K /\ list[k] \in Ctxs /\ CpuOf[list[k]] \in Cpus /\ K \in DOMAIN list
    <3>1. k \in 1..K /\ k # K /\ K \in Nat
      BY <1>5, <1>12 DEF TopPlace
    <3> QED
      BY <1>5, <1>8, <3>1 DEF TopPlace
  <2>4. CASE CpuOf[list[k]] # p
    <3>1. uc'[CpuOf[list[k]]] = uc[CpuOf[list[k]]]
      BY <1>1, <1>8, <2>3, <2>4
    <3> QED
      BY <2>2, <3>1, FindsKept
  <2>5. CASE CpuOf[list[k]] = p
    <3>1. saved[c] # NotSaved
      <4>1. k \in 1..(K - 1)
        BY <1>5, <2>3 DEF TopPlace
      <4> QED
        BY <1>5, <1>7, <1>10, <2>3, <2>5, <4>1 DEF HasTaken, TopPlace
    <3>2. K \in SavedAbove(list, saved, k)
      BY <1>5, <1>10, <2>3, <2>5, <3>1 DEF SavedAbove, TopPlace
    <3> QED
      BY <2>2, <3>2 DEF FindsOwn
  <2> QED
    BY <2>4, <2>5
<1>13. FindOwn(stk', list, saved, uc')
  <2> SUFFICES ASSUME NEW n \in 1..Len(stk'), NEW k \in DOMAIN list, Owning(stk'[n]),
                      list[k] = stk'[n].ctx
               PROVE  FindsOwn(list, saved, uc', k)
    BY DEF FindOwn
  <2>1. CASE n = Depth
    <3>1. list[k] = c
      BY <1>2, <1>9, <2>1, TopWentOn
    <3>2. k = K
      BY <1>5, <3>1 DEF TopPlace
    <3> QED
      BY <1>11, <3>2
  <2>2. CASE n \in 1..(Depth - 1)
    BY <1>2, <1>12, <2>2, TopWentOn
  <2> QED
    BY <1>2, <2>1, <2>2, TopWentOn
<1>14. Prepared(stk', list, saved)
  <2>1. ~Unsaving(g)
    BY <1>9 DEF Unsaving
  <2> QED
    BY <1>2, <1>6, <1>9, <2>1, TopWentOn DEF RegsOK, Prepared
<1> QED
  BY <1>1, <1>2, <1>9, <1>13, <1>14, TopWentOn, ToRegInv DEF RegsOK

\* With no other activation counted on its Cpu, none is on the list.
LEMMA AloneOnCpu ==
  ASSUME Inv, CountInv, Chain = list, NEW c, NEW K, TopPlace(c, K), ~(count[CpuOf[c]] > 1),
         NEW k \in 1..(K - 1)
  PROVE  CpuOf[list[k]] # CpuOf[c]
<1> DEFINE p == CpuOf[c]
<1> SUFFICES ASSUME CpuOf[list[k]] = p PROVE FALSE
  OBVIOUS
<1>1. p \in Cpus
  BY CpuRunAssumption DEF TopPlace
<1>2. k \in OnCpu(list, p) /\ K \in OnCpu(list, p) /\ k # K
  BY DEF OnCpu, TopPlace
<1> HIDE DEF p
<1>3. IsFiniteSet(OnCpu(list, p)) /\ Cardinality(OnCpu(list, p)) \in Nat
  BY OnCpuFinite DEF TopPlace
<1>4. count[p] = Cardinality(OnCpu(list, p))
  BY <1>1 DEF CountInv, CountsExact
<1>5. Cardinality({k, K}) = 2 /\ {k, K} \subseteq OnCpu(list, p)
  <2>1. IsFiniteSet({k}) /\ Cardinality({k}) = 1
    BY FS_Singleton
  <2>2. Cardinality({k} \cup {K}) = Cardinality({k}) + 1
    <3>1. K \notin {k}
      BY <1>2
    <3> QED
      BY <2>1, <3>1, FS_AddElement
  <2>3. {k} \cup {K} = {k, K}
    OBVIOUS
  <2> QED
    BY <1>2, <2>1, <2>2, <2>3
<1>6. 2 <= Cardinality(OnCpu(list, p))
  BY <1>3, <1>5, FS_Subset
<1> QED
  BY <1>3, <1>4, <1>6 DEF p

\* Saving the engine for whoever is below on its Cpu, or resetting it.
LEMMA SaveOrResetRegs ==
  ASSUME Inv, PoolInv, CountInv, RegInv, SaveOrReset
  PROVE  RegInv'
<1> DEFINE c == Top.ctx
           p == CpuOf[c]
           K == Len(list)
<1>1. /\ Top.kind = "run" /\ Top.pc = "prepare" /\ Goto("thunkpre") /\ "thunkpre" \in RunPcs
      /\ "prepare" \in Steady /\ UNCHANGED list
      /\ \/ count[p] > 1 /\ saved' = [saved EXCEPT ![c] = uc[p]] /\ UNCHANGED uc
         \/ ~(count[p] > 1) /\ uc' = [uc EXCEPT ![p] = InitialState] /\ UNCHANGED saved
  BY DEF SaveOrReset, At, RunPcs, Steady
<1>2. PICK g : GoesTo(Top, g, "thunkpre", Top.pend, Top.exiting) /\ Cut(stk, stk', Depth, g)
  BY <1>1, GotoCut DEF Inv
<1>3. FrameOK(Top) /\ Depth \in 1..Len(stk) /\ Top = stk[Depth] /\ Depth = Len(stk)
  BY TopPool DEF PoolInv
<1>4. Tidy(Top)
  BY <1>1, <1>3, SteadyFrames DEF Tidy
<1>5. TopPlace(c, K)
  BY <1>4, TopPlaced
<1>6. RegsOK(stk, list, saved, uc) /\ Chain = list
  BY <1>1, FromRegInv
<1>7. saved[c] = NotSaved
  BY <1>1, <1>3, <1>6 DEF RegsOK, Prepared, Unsaving
<1>8. /\ uc \in [Cpus -> Regs] /\ CpuOf \in [Ctxs -> Cpus]
      /\ saved \in [Ctxs -> Regs \cup {NotSaved}] /\ \A r \in Regs : r # NotSaved
  <2>1. ASSUME NEW r \in Regs PROVE r # NotSaved
    <3>1. PICK x \in Ctxs \cup {NoCtx}, y \in {0, 1} : r = <<x, y>>
      BY DEF Regs
    <3>2. Len(<<x, y>>) = 2 /\ Len(<<>>) = 0
      OBVIOUS
    <3> QED
      BY <3>1, <3>2 DEF NotSaved
  <2> QED
    BY <2>1, CpuRunAssumption DEF Inv, DataOK
<1>9. g.kind = "run" /\ g.pc = "thunkpre" /\ g.ctx = c
  BY <1>1, <1>2 DEF GoesTo
<1>10. p \in Cpus /\ uc[p] \in Regs
  BY <1>5, <1>8 DEF TopPlace
<1>11. ASSUME ~(count[p] > 1), NEW k \in 1..(K - 1) PROVE CpuOf[list[k]] # p
  BY <1>5, <1>6, <1>11, AloneOnCpu
<1> HIDE DEF c, p, K
<1>12. p = CpuOf[c]
  BY DEF p
<1>13. ASSUME NEW n \in 1..(Depth - 1), NEW k \in DOMAIN list, Owning(stk[n]), list[k] = stk[n].ctx
       PROVE  FindsOwn(list, saved', uc', k)
  <2>1. n \in 1..Len(stk)
    BY <1>3
  <2>2. FindsOwn(list, saved, uc, k)
    BY <1>6, <1>13, <2>1 DEF RegsOK, FindOwn
  <2>3. k \in 1..(K - 1) /\ list[k] \in Ctxs /\ CpuOf[list[k]] \in Cpus /\ K \in DOMAIN list
    <3>1. k \in 1..K /\ k # K /\ K \in Nat
      BY <1>5, <1>13 DEF TopPlace
    <3> QED
      BY <1>5, <1>8, <3>1 DEF TopPlace
  <2>4. CASE ~(count[p] > 1)
    <3>1. uc' = [uc EXCEPT ![p] = InitialState] /\ UNCHANGED saved
      BY <1>1, <2>4
    <3>2. uc'[CpuOf[list[k]]] = uc[CpuOf[list[k]]]
      BY <1>8, <1>11, <2>3, <2>4, <3>1
    <3> QED
      BY <2>2, <3>1, <3>2, FindsKept
  <2>5. CASE count[p] > 1
    <3>1. saved' = [saved EXCEPT ![c] = uc[p]] /\ UNCHANGED uc
      BY <1>1, <2>5
    <3>2. /\ saved'[list[K]] = uc[p] /\ saved'[list[K]] # NotSaved /\ saved[list[K]] = NotSaved
          /\ \A m \in DOMAIN list : m # K => saved'[list[m]] = saved[list[m]]
      BY <1>5, <1>7, <1>8, <1>10, <3>1 DEF TopPlace
    <3>3. CASE CpuOf[list[k]] # p
      <4>1. SavedAbove(list, saved', k) = SavedAbove(list, saved, k) /\ K \notin SavedAbove(list, saved, k)
        BY <1>5, <1>12, <2>3, <3>2, <3>3 DEF SavedAbove, TopPlace
      <4>2. \A m \in SavedAbove(list, saved, k) : saved'[list[m]] = saved[list[m]]
        BY <3>2, <4>1 DEF SavedAbove
      <4> QED
        BY <2>2, <3>1, <4>1, <4>2, FindsSame
    <3>4. CASE CpuOf[list[k]] = p
      <4>1. SavedAbove(list, saved', k) = SavedAbove(list, saved, k) \cup {K}
        BY <1>5, <1>12, <2>3, <3>2, <3>4 DEF SavedAbove, TopPlace
      <4>2. \A m \in SavedAbove(list, saved, k) : m \in DOMAIN list /\ m # K /\ m < K /\ ~(K <= m)
        BY <1>5, <3>2 DEF SavedAbove, TopPlace
      <4>3. ASSUME NEW m \in SavedAbove(list, saved', k), \A j \in SavedAbove(list, saved', k) : m <= j
            PROVE  saved'[list[m]][1] = list[k]
        <5>1. CASE m = K
          <6>1. SavedAbove(list, saved, k) = {}
            BY <4>1, <4>2, <4>3, <5>1
          <6> QED
            BY <2>2, <3>2, <3>4, <5>1, <6>1 DEF FindsOwn
        <5>2. CASE m # K
          <6>1. m \in SavedAbove(list, saved, k) /\ \A j \in SavedAbove(list, saved, k) : m <= j
            BY <4>1, <4>3, <5>2
          <6> QED
            BY <2>2, <3>2, <4>2, <6>1 DEF FindsOwn
        <5> QED
          BY <5>1, <5>2
      <4> QED
        BY <4>1, <4>3 DEF FindsOwn
    <3> QED
      BY <3>3, <3>4
  <2> QED
    BY <2>4, <2>5
<1>14. FindOwn(stk', list, saved', uc')
  <2>1. ~Owning(g)
    BY <1>9 DEF Owning, OwnedPcs
  <2> QED
    BY <1>2, <1>13, <2>1, TopWentOn DEF FindOwn
<1>15. HasTaken(list, saved', c)
  <2> SUFFICES ASSUME NEW k \in DOMAIN list, list[k] = c, saved'[c] = NotSaved,
                      NEW j \in 1..(k - 1)
               PROVE  CpuOf[list[j]] # CpuOf[c]
    BY DEF HasTaken
  <2>1. k = K
    BY <1>5 DEF TopPlace
  <2>2. ~(count[p] > 1)
    BY <1>1, <1>5, <1>8, <1>10 DEF TopPlace
  <2> QED
    BY <1>11, <1>12, <2>1, <2>2
<1>16. Prepared(stk', list, saved')
  <2>1. ~Unsaving(g)
    BY <1>9 DEF Unsaving
  <2>2. ASSUME NEW n \in 1..(Depth - 1)
        PROVE  /\ Unsaving(stk[n]) => saved'[stk[n].ctx] = NotSaved
               /\ stk[n].kind = "run" /\ stk[n].pc = "thunkpre" => HasTaken(list, saved', stk[n].ctx)
    <3>0. n \in 1..Len(stk)
      BY <1>3
    <3>1. stk[n].kind = "run" => stk[n].ctx \in Ctxs
      BY <3>0, TopPool DEF PoolInv
    <3>2. /\ Unsaving(stk[n]) => saved[stk[n].ctx] = NotSaved
          /\ stk[n].kind = "run" /\ stk[n].pc = "thunkpre" => HasTaken(list, saved, stk[n].ctx)
      BY <1>6, <3>0 DEF RegsOK, Prepared
    <3>3. stk[n].kind = "run" /\ stk[n].ctx # c => saved'[stk[n].ctx] = saved[stk[n].ctx]
      BY <1>1, <1>8, <3>1
    <3> QED
      BY <1>5, <3>2, <3>3 DEF TopPlace, HasTaken, Unsaving
  <2> QED
    BY <1>2, <1>9, <1>15, <2>1, <2>2, TopWentOn DEF Prepared
<1> QED
  BY <1>1, <1>2, <1>9, <1>14, <1>16, TopWentOn, ToRegInv DEF RegsOK

\* The epilogue: what the context saved goes back to the engine.
LEMMA RestoreRegs ==
  ASSUME Inv, PoolInv, RegInv, Restore
  PROVE  RegInv'
<1> DEFINE c == Top.ctx
           p == CpuOf[c]
           K == Len(list)
<1>1. /\ Top.kind = "run" /\ Top.pc = "restore" /\ Goto("leave") /\ "leave" \in RunPcs
      /\ "restore" \in Steady /\ UNCHANGED list
      /\ uc' = IF saved[c] # NotSaved THEN [uc EXCEPT ![p] = saved[c]] ELSE uc
      /\ saved' = [saved EXCEPT ![c] = NotSaved]
  BY DEF Restore, At, RunPcs, Steady, HasSaved
<1>2. PICK g : GoesTo(Top, g, "leave", Top.pend, Top.exiting) /\ Cut(stk, stk', Depth, g)
  BY <1>1, GotoCut DEF Inv
<1>3. FrameOK(Top) /\ Depth \in 1..Len(stk) /\ Top = stk[Depth] /\ Depth = Len(stk)
  BY TopPool DEF PoolInv
<1>4. Tidy(Top)
  BY <1>1, <1>3, SteadyFrames DEF Tidy
<1>5. TopPlace(c, K)
  BY <1>4, TopPlaced
<1>6. RegsOK(stk, list, saved, uc)
  BY <1>1, FromRegInv
<1>7. /\ uc \in [Cpus -> Regs] /\ CpuOf \in [Ctxs -> Cpus]
      /\ saved \in [Ctxs -> Regs \cup {NotSaved}]
  BY CpuRunAssumption DEF Inv, DataOK
<1>8. g.kind = "run" /\ g.pc = "leave" /\ g.ctx = c
  BY <1>1, <1>2 DEF GoesTo
<1>9. p \in Cpus
  BY <1>5, <1>7 DEF TopPlace
<1> HIDE DEF c, p, K
<1>10. p = CpuOf[c]
  BY DEF p
<1>11. /\ saved'[list[K]] = NotSaved
       /\ \A m \in DOMAIN list : m # K => saved'[list[m]] = saved[list[m]]
  BY <1>1, <1>5, <1>7 DEF TopPlace
<1>12. ASSUME NEW n \in 1..(Depth - 1), NEW k \in DOMAIN list, Owning(stk[n]), list[k] = stk[n].ctx
       PROVE  FindsOwn(list, saved', uc', k)
  <2>1. n \in 1..Len(stk)
    BY <1>3
  <2>2. FindsOwn(list, saved, uc, k)
    BY <1>6, <1>12, <2>1 DEF RegsOK, FindOwn
  <2>3. k \in 1..(K - 1) /\ list[k] \in Ctxs /\ CpuOf[list[k]] \in Cpus /\ K \in DOMAIN list
    <3>1. k \in 1..K /\ k # K /\ K \in Nat
      BY <1>5, <1>12 DEF TopPlace
    <3> QED
      BY <1>5, <1>7, <3>1 DEF TopPlace
  <2>4. SavedAbove(list, saved', k) = SavedAbove(list, saved, k) \ {K}
    BY <1>11 DEF SavedAbove
  <2>5. \A m \in SavedAbove(list, saved, k) : m \in DOMAIN list /\ m <= K
    BY <1>5 DEF SavedAbove, TopPlace
  <2>6. CASE K \notin SavedAbove(list, saved, k)
    <3>1. SavedAbove(list, saved', k) = SavedAbove(list, saved, k)
      BY <2>4, <2>6
    <3>2. \A m \in SavedAbove(list, saved, k) : saved'[list[m]] = saved[list[m]]
      BY <1>11, <2>5, <2>6
    <3>3. CpuOf[list[k]] # p \/ saved[c] = NotSaved
      BY <1>5, <1>10, <2>3, <2>6 DEF SavedAbove, TopPlace
    <3>4. uc'[CpuOf[list[k]]] = uc[CpuOf[list[k]]]
      BY <1>1, <1>7, <2>3, <3>3
    <3> QED
      BY <2>2, <3>1, <3>2, <3>4, FindsSame
  <2>7. CASE K \in SavedAbove(list, saved, k)
    <3>1. CpuOf[list[k]] = p /\ saved[c] # NotSaved
      BY <1>5, <1>10, <2>7 DEF SavedAbove, TopPlace
    <3>2. uc'[p] = saved[c]
      BY <1>1, <1>7, <1>9, <3>1
    <3>3. ASSUME SavedAbove(list, saved', k) = {} PROVE uc'[CpuOf[list[k]]][1] = list[k]
      <4>1. SavedAbove(list, saved, k) = {K}
        BY <2>4, <2>7, <3>3
      <4>2. \A j \in SavedAbove(list, saved, k) : K <= j
        BY <1>5, <4>1 DEF TopPlace
      <4> QED
        BY <1>5, <2>2, <2>7, <3>1, <3>2, <4>2 DEF FindsOwn, TopPlace
    <3>4. ASSUME NEW m \in SavedAbove(list, saved', k), \A j \in SavedAbove(list, saved', k) : m <= j
          PROVE  saved'[list[m]][1] = list[k]
      <4>1. m \in SavedAbove(list, saved, k) /\ m # K /\ m \in DOMAIN list /\ m <= K
        BY <2>4, <2>5, <3>4
      <4>2. \A j \in SavedAbove(list, saved, k) : m <= j
        BY <2>4, <3>4, <4>1
      <4> QED
        BY <1>11, <2>2, <4>1, <4>2 DEF FindsOwn
    <3> QED
      BY <3>3, <3>4 DEF FindsOwn
  <2> QED
    BY <2>6, <2>7
<1>13. FindOwn(stk', list, saved', uc')
  <2>1. ~Owning(g)
    BY <1>8 DEF Owning, OwnedPcs
  <2> QED
    BY <1>2, <1>12, <2>1, TopWentOn DEF FindOwn
<1>14. Prepared(stk', list, saved')
  <2>1. ~Unsaving(g)
    BY <1>8 DEF Unsaving
  <2>2. ASSUME NEW n \in 1..(Depth - 1)
        PROVE  /\ Unsaving(stk[n]) => saved'[stk[n].ctx] = NotSaved
               /\ stk[n].kind = "run" /\ stk[n].pc = "thunkpre" => HasTaken(list, saved', stk[n].ctx)
    <3>0. n \in 1..Len(stk)
      BY <1>3
    <3>1. stk[n].kind = "run" => stk[n].ctx \in Ctxs
      BY <3>0, TopPool DEF PoolInv
    <3>2. /\ Unsaving(stk[n]) => saved[stk[n].ctx] = NotSaved
          /\ stk[n].kind = "run" /\ stk[n].pc = "thunkpre" => HasTaken(list, saved, stk[n].ctx)
      BY <1>6, <3>0 DEF RegsOK, Prepared
    <3>3. stk[n].kind = "run" /\ stk[n].ctx # c => saved'[stk[n].ctx] = saved[stk[n].ctx]
      BY <1>1, <1>7, <3>1
    <3> QED
      BY <1>5, <3>2, <3>3 DEF TopPlace, HasTaken, Unsaving
  <2> QED
    BY <1>2, <1>8, <2>1, <2>2, TopWentOn DEF Prepared
<1> QED
  BY <1>1, <1>2, <1>8, <1>13, <1>14, TopWentOn, ToRegInv DEF RegsOK

-----------------------------------------------------------------------------
(* Steps that move contexts.                                               *)

\* CpuEnterCritical: the newest context has saved nothing yet.
LEMMA EnterRegs ==
  ASSUME Inv, PoolInv, RegInv, EnterCritical
  PROVE  RegInv'
<1> DEFINE c == Top.ctx
           N == Len(list)
           l2 == Append(list, c)
<1>1. Top.kind = "run" /\ Top.pc = "start" /\ "entered" \in RunPcs /\ Goto("entered")
      /\ list' = l2 /\ UNCHANGED <<saved, uc>>
  BY DEF EnterCritical, At, RunPcs
<1>2. PICK g : GoesTo(Top, g, "entered", Top.pend, Top.exiting) /\ Cut(stk, stk', Depth, g)
  BY <1>1, GotoCut DEF Inv
<1>3. /\ Depth = Len(stk) /\ Top = stk[Depth] /\ list \in Seq(Ctxs) /\ c \in Ctxs
      /\ Depth \in 1..Len(stk)
  BY <1>1, TopPool DEF PoolInv
<1>4. g.kind = "run" /\ g.ctx = c /\ g.pc = "entered"
  BY <1>1, <1>2 DEF GoesTo
<1>5. RegsOK(stk, list, saved, uc)
  BY <1>1, FromRegInv
<1>6. saved[c] = NotSaved
  BY <1>1, <1>3, <1>5 DEF RegsOK, Prepared, Unsaving
<1>7. N \in Nat /\ DOMAIN list = 1..N /\ DOMAIN l2 = 1..(N + 1) /\ l2[N + 1] = c
      /\ \A k \in 1..N : l2[k] = list[k]
  BY <1>3
<1> HIDE DEF N, l2
<1>8. \A n \in 1..(Depth - 1) :
        stk[n].kind = "run" /\ (Owning(stk[n]) \/ stk[n].pc = "thunkpre") => stk[n].ctx # c
  <2> SUFFICES ASSUME NEW n \in 1..(Depth - 1), stk[n].kind = "run",
                      Owning(stk[n]) \/ stk[n].pc = "thunkpre"
               PROVE  stk[n].ctx # c
    OBVIOUS
  <2>1. n \in 1..Len(stk) /\ n # Depth
    BY <1>3
  <2>2. Listed(stk[n])
    BY <2>1, FramesListed
  <2> QED
    BY <1>1, <1>3, <2>1, <2>2, OwnContexts
<1> HIDE DEF c
<1>9. ASSUME NEW k \in 1..N PROVE SavedAbove(l2, saved, k) = SavedAbove(list, saved, k)
  <2>1. \A m \in DOMAIN l2 : m = N + 1 \/ m \in DOMAIN list
    BY <1>7
  <2>2. \A m \in DOMAIN list : m \in DOMAIN l2 /\ l2[m] = list[m]
    BY <1>7
  <2> QED
    BY <1>6, <1>7, <2>1, <2>2 DEF SavedAbove
<1>10. ASSUME NEW n \in 1..(Depth - 1), NEW k \in DOMAIN l2, Owning(stk[n]), l2[k] = stk[n].ctx
       PROVE  FindsOwn(l2, saved, uc, k)
  <2>1. k \in 1..N /\ n \in 1..Len(stk)
    BY <1>3, <1>7, <1>8, <1>10 DEF Owning
  <2>2. k \in DOMAIN list /\ l2[k] = list[k]
    BY <1>7, <2>1
  <2>3. FindsOwn(list, saved, uc, k)
    BY <1>5, <1>10, <2>1, <2>2 DEF RegsOK, FindOwn
  <2>4. \A m \in SavedAbove(list, saved, k) : l2[m] = list[m]
    BY <1>7 DEF SavedAbove
  <2> QED
    BY <1>9, <2>1, <2>2, <2>3, <2>4, FindsSame
<1>11. FindOwn(stk', l2, saved, uc)
  <2>1. ~Owning(g)
    BY <1>4 DEF Owning, OwnedPcs
  <2> QED
    BY <1>2, <1>10, <2>1, TopWentOn DEF FindOwn
<1>12. ASSUME NEW n \in 1..(Depth - 1), stk[n].kind = "run", stk[n].pc = "thunkpre"
       PROVE  HasTaken(l2, saved, stk[n].ctx)
  <2>1. HasTaken(list, saved, stk[n].ctx)
    BY <1>3, <1>5, <1>12 DEF RegsOK, Prepared
  <2> SUFFICES ASSUME NEW k \in DOMAIN l2, l2[k] = stk[n].ctx, saved[stk[n].ctx] = NotSaved,
                      NEW j \in 1..(k - 1)
               PROVE  CpuOf[l2[j]] # CpuOf[stk[n].ctx]
    BY DEF HasTaken
  <2>2. k \in 1..N
    BY <1>7, <1>8, <1>12
  <2>3. k \in DOMAIN list /\ l2[k] = list[k] /\ l2[j] = list[j]
    BY <1>7, <2>2
  <2> QED
    BY <2>1, <2>3 DEF HasTaken
<1>13. Prepared(stk', l2, saved)
  <2>1. ASSUME NEW n \in 1..(Depth - 1) PROVE Unsaving(stk[n]) => saved[stk[n].ctx] = NotSaved
    BY <1>3, <1>5 DEF RegsOK, Prepared
  <2> QED
    BY <1>2, <1>4, <1>6, <1>12, <2>1, TopWentOn DEF Prepared
<1> QED
  BY <1>1, <1>2, <1>4, <1>11, <1>13, TopWentOn, ToRegInv DEF RegsOK

\* Part of the list: what the remaining contexts of live frames had taken.
LEMMA PreparedPrefix ==
  ASSUME NEW s, NEW l \in Seq(Ctxs), NEW keep \in 0..Len(l), NEW sv, Prepared(s, l, sv)
  PROVE  Prepared(s, SubSeq(l, 1, keep), sv)
<1> DEFINE l2 == SubSeq(l, 1, keep)
<1>1. /\ DOMAIN l2 = 1..keep /\ keep \in Nat /\ DOMAIN l = 1..Len(l)
      /\ \A k \in 1..keep : l2[k] = l[k] /\ k \in 1..Len(l)
  OBVIOUS
<1> HIDE DEF l2
<1> SUFFICES ASSUME NEW c, HasTaken(l, sv, c) PROVE HasTaken(l2, sv, c)
  BY DEF Prepared, l2
<1> SUFFICES ASSUME NEW k \in DOMAIN l2, l2[k] = c, sv[c] = NotSaved, NEW j \in 1..(k - 1)
             PROVE  CpuOf[l2[j]] # CpuOf[c]
  BY DEF HasTaken
<1>2. k \in 1..keep /\ j \in 1..keep
  BY <1>1
<1> QED
  BY <1>1, <1>2 DEF HasTaken

\* CpuLeaveCritical: the newest context has put back what it saved.
LEMMA LeaveRegs ==
  ASSUME Inv, PoolInv, RegInv, LeaveCritical
  PROVE  RegInv'
<1> DEFINE c == Top.ctx
           K == Len(list)
           l2 == SubSeq(list, 1, K - 1)
<1>1. Top.kind = "run" /\ Top.pc = "leave" /\ "left" \in RunPcs /\ "leave" \in Steady
      /\ UNCHANGED <<saved, uc>>
  BY DEF LeaveCritical, At, RunPcs, Steady
<1>2. /\ Depth = Len(stk) /\ Top = stk[Depth] /\ FrameOK(Top) /\ Depth \in 1..Len(stk)
      /\ Clear(Top, saved)
  BY TopPool DEF PoolInv
<1>3. Tidy(Top) /\ saved[c] = NotSaved
  BY <1>1, <1>2, SteadyFrames DEF Tidy, Clear
<1>4. TopPlace(c, K)
  BY <1>3, TopPlaced
<1>5. list' = l2 /\ Goto("left")
  BY <1>3, NewestTidy, Zenon DEF LeaveCritical
<1>6. PICK g : GoesTo(Top, g, "left", Top.pend, Top.exiting) /\ Cut(stk, stk', Depth, g)
  BY <1>1, <1>5, GotoCut DEF Inv
<1>7. g.kind = "run" /\ g.ctx = c /\ g.pc = "left"
  BY <1>1, <1>6 DEF GoesTo
<1>8. RegsOK(stk, list, saved, uc)
  BY <1>1, FromRegInv
<1>9. DOMAIN l2 = 1..(K - 1) /\ \A k \in 1..(K - 1) : l2[k] = list[k] /\ k \in 1..K
  <2>1. list \in Seq(Ctxs) /\ Len(list) \in Nat \ {0}
    BY <1>4 DEF TopPlace
  <2> QED
    BY <2>1
<1>10. Prepared(stk, l2, saved)
  <2>1. list \in Seq(Ctxs) /\ K - 1 \in 0..Len(list)
    <3>1. list \in Seq(Ctxs) /\ Len(list) \in Nat \ {0}
      BY <1>4 DEF TopPlace
    <3> QED
      BY <3>1
  <2>2. Prepared(stk, list, saved)
    BY <1>8 DEF RegsOK
  <2> HIDE DEF K
  <2> QED
    BY <2>1, <2>2, PreparedPrefix
<1> HIDE DEF c, K, l2
<1>11. ASSUME NEW k \in 1..(K - 1) PROVE SavedAbove(l2, saved, k) = SavedAbove(list, saved, k)
  <2>1. \A m \in DOMAIN list : m = K \/ m \in DOMAIN l2
    BY <1>4, <1>9 DEF TopPlace
  <2>2. \A m \in DOMAIN l2 : m \in DOMAIN list /\ l2[m] = list[m]
    BY <1>4, <1>9 DEF TopPlace
  <2>3. saved[list[K]] = NotSaved
    BY <1>3, <1>4 DEF TopPlace
  <2> QED
    BY <1>9, <2>1, <2>2, <2>3 DEF SavedAbove
<1>12. FindOwn(stk, l2, saved, uc)
  <2> SUFFICES ASSUME NEW n \in 1..Len(stk), NEW k \in DOMAIN l2, Owning(stk[n]), l2[k] = stk[n].ctx
               PROVE  FindsOwn(l2, saved, uc, k)
    BY DEF FindOwn
  <2>1. k \in 1..(K - 1) /\ k \in DOMAIN list /\ l2[k] = list[k]
    BY <1>4, <1>9 DEF TopPlace
  <2>2. FindsOwn(list, saved, uc, k)
    BY <1>8, <2>1 DEF RegsOK, FindOwn
  <2>3. \A m \in SavedAbove(list, saved, k) : l2[m] = list[m]
    <3>1. SavedAbove(l2, saved, k) \subseteq DOMAIN l2
      BY DEF SavedAbove
    <3> QED
      BY <1>9, <1>11, <2>1, <3>1
  <2> QED
    BY <1>11, <2>1, <2>2, <2>3, FindsSame
<1>13. GetsNoMore(stk[Depth], g)
  BY <1>1, <1>2, <1>7 DEF GetsNoMore, Owning, Unsaving, OwnedPcs, c
<1>14. SameOwners(l2, uc, uc) /\ RegsOK(stk, l2, saved, uc)
  BY <1>10, <1>12 DEF SameOwners, RegsOK
<1>15. RegsOK(stk', l2, saved, uc)
  BY <1>6, <1>13, <1>14, RegsCut
<1> QED
  BY <1>1, <1>5, <1>6, <1>7, <1>15, TopWentOn, ToRegInv

\* CpuCompressLeakedContexts takes contexts off the list, not off the chain.
LEMMA CompressBeginRegs ==
  ASSUME Inv, PoolInv, PoolInv', RegInv, CompressBegin
  PROVE  RegInv'
<1> DEFINE at == {n \in DOMAIN list : list[n] = Top.ctx}
<1>1. Top.kind = "run" /\ Top.pc = "compress" /\ "unwind" \in RunPcs /\ UNCHANGED <<saved, uc>>
  BY DEF CompressBegin, At, RunPcs
<1>2. /\ Depth = Len(stk) /\ Top = stk[Depth] /\ list \in Seq(Ctxs) /\ Depth \in 1..Len(stk)
  BY TopPool DEF PoolInv
<1>3. PICK n \in at :
        LET keep == IF Top.exiting THEN n - 1 ELSE n IN
        /\ list' = SubSeq(list, 1, keep)
        /\ stk' = [stk EXCEPT ![Depth].pend = SubSeq(list, keep + 1, Len(list)),
                              ![Depth].pc = "unwind"]
  <2>1. fault' # "walk"
    BY DEF PoolInv
  <2> QED
    BY <2>1, Zenon DEF CompressBegin
<1> DEFINE keep == IF Top.exiting THEN n - 1 ELSE n
           rest == SubSeq(list, keep + 1, Len(list))
<1>4. keep \in 0..Len(list) /\ Len(list) \in Nat
  BY <1>2
<1>5. /\ stk' = [stk EXCEPT ![Depth].pend = rest, ![Depth].pc = "unwind"]
      /\ list' = SubSeq(list, 1, keep)
  BY <1>3
<1> HIDE DEF keep
<1>6. rest \in Seq(Ctxs) /\ SubSeq(list, 1, keep) \o rest = list
  <2>1. /\ 1 \in 1..(Len(list) + 1) /\ keep \in (1 - 1)..Len(list)
        /\ Len(list) \in keep..Len(list) /\ rest \in Seq(Ctxs)
    BY <1>2, <1>4
  <2>2. SubSeq(list, 1, keep) \o rest = SubSeq(list, 1, Len(list))
    BY <1>2, <2>1, ConcatAdjacentSubSeq
  <2>3. SubSeq(list, 1, Len(list)) = list
    BY <1>2, SubSeqFull
  <2> HIDE DEF rest
  <2> QED
    BY <2>1, <2>2, <2>3
<1> HIDE DEF rest
<1>7. PICK g : GoesTo(Top, g, "unwind", rest, Top.exiting) /\ Cut(stk, stk', Depth, g)
  BY <1>1, <1>5, <1>6, GotoPendCut DEF Inv
<1>8. g.kind = "run" /\ g.ctx = Top.ctx /\ g.pc = "unwind" /\ g.pend = rest
      /\ g.exiting = Top.exiting
  BY <1>1, <1>7 DEF GoesTo
<1>9. Chain' = list
  <2>1. Top' = g
    BY <1>7, TopWentOn DEF Top, Depth
  <2> QED
    BY <1>5, <1>6, <1>8, <2>1 DEF Chain
<1>10. RegsOK(stk, list, saved, uc)
  BY <1>1, FromRegInv
<1>11. GetsNoMore(stk[Depth], g)
  BY <1>1, <1>2, <1>8 DEF GetsNoMore, Owning, Unsaving, OwnedPcs
<1>12. SameOwners(list, uc, uc)
  BY DEF SameOwners
<1>13. RegsOK(stk', list, saved, uc)
  BY <1>7, <1>10, <1>11, <1>12, RegsCut
<1>14. Prepared(stk', list', saved)
  BY <1>2, <1>4, <1>5, <1>13, PreparedPrefix DEF RegsOK
<1> QED
  BY <1>1, <1>9, <1>13, <1>14 DEF RegInv, RegsOK

\* The registers that the oldest leaked context saved are put back.
LEMMA UnwoundRegisters ==
  ASSUME Inv, NEW d \in Seq(Ctxs), NEW p
  PROVE  LET kept == {n \in OnCpu(d, p) : saved[d[n]] # NotSaved} IN
         /\ kept = {} => UnwoundUc(d, p) = uc[p]
         /\ kept # {} => \E n \in kept : (\A m \in kept : n <= m) /\ UnwoundUc(d, p) = saved[d[n]]
<1> DEFINE kept == {n \in OnCpu(d, p) : saved[d[n]] # NotSaved}
           Least(n) == \A m \in kept : n <= m
<1>1. UnwoundUc(d, p) = IF kept = {} THEN uc[p] ELSE saved[d[CHOOSE n \in kept : Least(n)]]
  BY DEF UnwoundUc, HasSaved
<1>2. kept \in SUBSET Nat
  BY DEF OnCpu
<1> HIDE DEF kept
<1>3. ASSUME kept # {} PROVE \E n \in kept : Least(n)
  BY <1>2, <1>3, LeastElement
<1>4. ASSUME kept # {}
      PROVE  \E n \in kept : Least(n) /\ UnwoundUc(d, p) = saved[d[n]]
  BY <1>1, <1>3, <1>4
<1> QED
  BY <1>1, <1>4 DEF kept

\* Unwinding the leaked contexts.
LEMMA CompressUnwindRegs ==
  ASSUME Inv, PoolInv, RegInv, CompressUnwind
  PROVE  RegInv'
<1> DEFINE d == Top.pend
           ch == list \o d
           N == Len(list)
<1>1. Top.kind = "run" /\ Top.pc = "unwind" /\ "free" \in RunPcs /\ Goto("free") /\ UNCHANGED list
      /\ uc' = [p \in Cpus |-> UnwoundUc(d, p)]
      /\ saved' = [c \in Ctxs |-> IF \E n \in DOMAIN d : d[n] = c THEN NotSaved ELSE saved[c]]
  BY DEF CompressUnwind, At, RunPcs
<1>2. PICK g : GoesTo(Top, g, "free", Top.pend, Top.exiting) /\ Cut(stk, stk', Depth, g)
  BY <1>1, GotoCut DEF Inv
<1>3. /\ Depth \in 1..Len(stk) /\ Len(stk) = Depth /\ Top = stk[Depth]
      /\ d \in Seq(Ctxs) /\ list \in Seq(Ctxs)
  BY TopPool DEF PoolInv
<1>4. g.kind = "run" /\ g.ctx = Top.ctx /\ g.pc = "free" /\ g.exiting = Top.exiting
  BY <1>1, <1>2 DEF GoesTo
<1>5. Chain = ch /\ FindOwn(stk, ch, saved, uc) /\ Prepared(stk, list, saved)
  BY <1>1 DEF Chain, RegInv
<1>6. \A k \in DOMAIN list, n \in DOMAIN d : list[k] # d[n]
  <2>1. Owns(Top) \cap OnList(list) = {}
    BY <1>3 DEF PoolInv, PoolOK, Apart
  <2> QED
    BY <2>1 DEF Owns, Pending, OnList
<1>7. CpuOf \in [Ctxs -> Cpus] /\ \A k \in DOMAIN list : list[k] \in Ctxs
  BY <1>3, CpuRunAssumption
<1>8. /\ N \in Nat /\ DOMAIN list = 1..N /\ DOMAIN d = 1..Len(d) /\ Len(d) \in Nat
      /\ DOMAIN ch = 1..(N + Len(d))
      /\ \A k \in 1..N : ch[k] = list[k] /\ k \in DOMAIN ch
      /\ \A n \in 1..Len(d) : ch[N + n] = d[n] /\ N + n \in DOMAIN ch
      /\ \A m \in DOMAIN ch : m \in 1..N \/ (m - N \in 1..Len(d) /\ N + (m - N) = m)
  BY <1>3
<1>9. \A k \in DOMAIN list : saved'[list[k]] = saved[list[k]]
  BY <1>1, <1>6, <1>7
<1> HIDE DEF d, ch, N
<1>10. ASSUME NEW k \in DOMAIN list, FindsOwn(ch, saved, uc, k) PROVE FindsOwn(list, saved', uc', k)
  <2> DEFINE p == CpuOf[list[k]]
             kept == {n \in OnCpu(d, p) : saved[d[n]] # NotSaved}
  <2>1. p \in Cpus /\ ch[k] = list[k] /\ uc'[p] = UnwoundUc(d, p) /\ k \in 1..N
    BY <1>1, <1>7, <1>8
  <2>2. \A m \in SavedAbove(list, saved', k) :
          m \in SavedAbove(ch, saved, k) /\ saved'[list[m]] = saved[ch[m]] /\ m \in 1..N
    BY <1>8, <1>9, <2>1 DEF SavedAbove
  <2>3. \A m \in SavedAbove(ch, saved, k) :
          m \in SavedAbove(list, saved', k) \/ (m - N \in kept /\ N + (m - N) = m)
    <3> SUFFICES ASSUME NEW m \in SavedAbove(ch, saved, k)
                 PROVE  m \in SavedAbove(list, saved', k) \/ (m - N \in kept /\ N + (m - N) = m)
      OBVIOUS
    <3>1. m \in DOMAIN ch /\ k < m /\ CpuOf[ch[m]] = p /\ saved[ch[m]] # NotSaved
      BY <2>1 DEF SavedAbove
    <3>2. CASE m \in 1..N
      BY <1>8, <1>9, <3>1, <3>2 DEF SavedAbove
    <3>3. CASE m - N \in 1..Len(d) /\ N + (m - N) = m
      <4>1. ch[m] = d[m - N]
        BY <1>8, <3>3
      <4> QED
        BY <1>8, <3>1, <3>3, <4>1 DEF OnCpu
    <3> QED
      BY <1>8, <3>1, <3>2, <3>3
  <2>4. \A n \in kept : N + n \in SavedAbove(ch, saved, k) /\ ch[N + n] = d[n] /\ n \in Nat
    <3> SUFFICES ASSUME NEW n \in kept
                 PROVE  N + n \in SavedAbove(ch, saved, k) /\ ch[N + n] = d[n] /\ n \in Nat
      OBVIOUS
    <3>1. n \in 1..Len(d) /\ CpuOf[d[n]] = p /\ saved[d[n]] # NotSaved
      BY <1>8 DEF OnCpu
    <3>2. ch[N + n] = d[n] /\ N + n \in DOMAIN ch /\ k < N + n
      BY <1>8, <2>1, <3>1
    <3> QED
      BY <2>1, <3>1, <3>2 DEF SavedAbove
  <2>5. /\ kept = {} => UnwoundUc(d, p) = uc[p]
        /\ kept # {} => \E n \in kept : (\A m \in kept : n <= m) /\ UnwoundUc(d, p) = saved[d[n]]
    BY <1>3, UnwoundRegisters
  <2> HIDE DEF kept
  <2>6. ASSUME SavedAbove(list, saved', k) = {} PROVE uc'[p][1] = list[k]
    <3>1. CASE kept = {}
      <4>1. SavedAbove(ch, saved, k) = {}
        BY <2>3, <2>6, <3>1
      <4> QED
        BY <1>10, <2>1, <2>5, <3>1, <4>1 DEF FindsOwn
    <3>2. CASE kept # {}
      <4>1. PICK n \in kept : (\A m \in kept : n <= m) /\ UnwoundUc(d, p) = saved[d[n]]
        BY <2>5, <3>2
      <4>2. N + n \in SavedAbove(ch, saved, k) /\ ch[N + n] = d[n] /\ n \in Nat
        BY <2>4
      <4>3. ASSUME NEW j \in SavedAbove(ch, saved, k) PROVE N + n <= j
        <5>1. j - N \in kept /\ N + (j - N) = j
          BY <2>3, <2>6
        <5>2. n <= j - N /\ j - N \in Nat
          BY <2>4, <4>1, <5>1
        <5> QED
          BY <1>8, <4>2, <5>1, <5>2
      <4>4. saved[ch[N + n]][1] = ch[k]
        BY <1>10, <4>2, <4>3 DEF FindsOwn
      <4> QED
        BY <2>1, <4>1, <4>2, <4>4
    <3> QED
      BY <3>1, <3>2
  <2>7. ASSUME NEW m \in SavedAbove(list, saved', k), \A j \in SavedAbove(list, saved', k) : m <= j
        PROVE  saved'[list[m]][1] = list[k]
    <3>1. m \in SavedAbove(ch, saved, k) /\ saved'[list[m]] = saved[ch[m]] /\ m \in 1..N
      BY <2>2
    <3>2. ASSUME NEW j \in SavedAbove(ch, saved, k) PROVE m <= j
      <4>1. CASE j \in SavedAbove(list, saved', k)
        BY <2>7, <4>1
      <4>2. CASE j - N \in kept /\ N + (j - N) = j
        <5>1. j - N \in Nat
          BY <2>4, <4>2
        <5> QED
          BY <1>8, <3>1, <4>2, <5>1
      <4> QED
        BY <2>3, <4>1, <4>2
    <3> QED
      BY <1>10, <2>1, <3>1, <3>2 DEF FindsOwn
  <2> QED
    BY <2>6, <2>7 DEF FindsOwn
<1>11. GetsNoMore(stk[Depth], g)
  BY <1>1, <1>3, <1>4 DEF GetsNoMore, Owning, Unsaving, OwnedPcs
<1>12. FindOwn(stk, list, saved', uc')
  <2> SUFFICES ASSUME NEW n \in 1..Len(stk), NEW k \in DOMAIN list, Owning(stk[n]), list[k] = stk[n].ctx
               PROVE  FindsOwn(list, saved', uc', k)
    BY DEF FindOwn
  <2>1. k \in DOMAIN ch /\ ch[k] = list[k]
    BY <1>8
  <2> QED
    BY <1>5, <1>10, <2>1 DEF FindOwn
<1>13. Prepared(stk, list, saved')
  <2> SUFFICES ASSUME NEW n \in 1..Len(stk)
               PROVE  /\ Unsaving(stk[n]) => saved'[stk[n].ctx] = NotSaved
                      /\ stk[n].kind = "run" /\ stk[n].pc = "thunkpre" =>
                           HasTaken(list, saved', stk[n].ctx)
    BY DEF Prepared
  <2>1. /\ Unsaving(stk[n]) => saved[stk[n].ctx] = NotSaved
        /\ stk[n].kind = "run" /\ stk[n].pc = "thunkpre" => HasTaken(list, saved, stk[n].ctx)
    BY <1>5 DEF Prepared
  <2>2. stk[n].kind = "run" => stk[n].ctx \in Ctxs
    BY TopPool DEF PoolInv
  <2>3. Unsaving(stk[n]) => saved'[stk[n].ctx] = NotSaved
    BY <1>1, <2>1, <2>2 DEF Unsaving
  <2>4. ASSUME NEW c, HasTaken(list, saved, c) PROVE HasTaken(list, saved', c)
    BY <1>9, <2>4 DEF HasTaken
  <2> QED
    BY <2>1, <2>3, <2>4
<1>14. SameOwners(list, uc', uc') /\ RegsOK(stk, list, saved', uc')
  BY <1>12, <1>13 DEF SameOwners, RegsOK
<1>15. RegsOK(stk', list, saved', uc')
  BY <1>2, <1>11, <1>14, RegsCut
<1> QED
  BY <1>1, <1>2, <1>4, <1>15, TopWentOn, ToRegInv

-----------------------------------------------------------------------------
(* Steps that keep contexts and registers.                                 *)

\* A frame goes on in a step outside any unwinding.
LEMMA StepCut ==
  ASSUME Inv, RegInv, Top.pc # "unwind", NEW t, NEW g, Cut(stk, stk', t, g),
         GetsNoMore(stk[t], g), g.pc # "unwind", UNCHANGED <<list, saved>>, SameOwners(list, uc, uc')
  PROVE  RegInv'
<1>1. RegsOK(stk, list, saved, uc)
  BY FromRegInv
<1>2. RegsOK(stk', list, saved, uc')
  BY <1>1, RegsCut
<1>3. stk'[Len(stk')] = g
  BY DEF Cut
<1> QED
  BY <1>2, <1>3, ToRegInv

\* Moves that give an activation no registers it had not before.
Moves == [from : {"native", "jit", "decode", "call", "check", "result", "thunkpost", "free", "loop"},
          to : {"loop", "jit", "decode", "call", "check", "compress", "result", "thunkpost",
                "restore", "exit", "native", "free"}]
           \cup [from : {"entered", "orphans"}, to : {"prepare"}] \cup [from : {"left"}, to : {"done"}]

\* A frame that goes on as the code does claims no registers it had not.
LEMMA MoveGetsNoMore ==
  ASSUME NEW f, NEW g, NEW m \in Moves, NEW d, NEW e \in {f.exiting, TRUE}, f.kind = "run",
         f.pc = m.from, f.exiting \in BOOLEAN, GoesTo(f, g, m.to, d, e)
  PROVE  GetsNoMore(f, g) /\ g.pc # "unwind"
<1>1. g.kind = f.kind /\ g.ctx = f.ctx /\ g.pc = m.to /\ (g.exiting = f.exiting \/ g.exiting)
  BY DEF GoesTo
<1>2. CASE m \in [from : {"entered", "orphans"}, to : {"prepare"}]
  BY <1>1, <1>2 DEF GetsNoMore, Owning, Unsaving, OwnedPcs
<1>3. CASE m \in [from : {"left"}, to : {"done"}]
  BY <1>1, <1>3 DEF GetsNoMore, Owning, Unsaving, OwnedPcs
<1>4. CASE m \notin [from : {"entered", "orphans"}, to : {"prepare"}] /\ m \notin [from : {"left"}, to : {"done"}]
  <2>1. /\ f.pc \in {"native", "jit", "decode", "call", "check", "result", "thunkpost", "free", "loop"}
        /\ g.pc \in {"loop", "jit", "decode", "call", "check", "compress", "result", "thunkpost",
                     "restore", "exit", "native", "free"}
    BY <1>1, <1>4 DEF Moves
  <2>2. Owning(g) => Owning(f)
    BY <1>1, <2>1 DEF Owning, OwnedPcs
  <2>3. ~Unsaving(g) /\ g.pc # "thunkpre" /\ g.pc # "unwind"
    BY <2>1 DEF Unsaving
  <2> QED
    BY <1>1, <2>2, <2>3 DEF GetsNoMore
<1> QED
  BY <1>2, <1>3, <1>4

\* The running activation moves on.
LEMMA StepGoto ==
  ASSUME Inv, RegInv, NEW p, NEW q, [from |-> p, to |-> q] \in Moves, At(p), Goto(q),
         UNCHANGED <<list, saved>>, SameOwners(list, uc, uc')
  PROVE  RegInv'
<1>1. Top.kind = "run" /\ Top.pc = p /\ q \in RunPcs /\ p # "unwind"
  BY DEF At, Moves, RunPcs
<1>2. PICK g : GoesTo(Top, g, q, Top.pend, Top.exiting) /\ Cut(stk, stk', Depth, g)
  BY <1>1, GotoCut DEF Inv
<1>3. Top = stk[Depth] /\ Top.exiting \in BOOLEAN
  BY TopFacts DEF Inv, Frame
<1>4. GetsNoMore(Top, g) /\ g.pc # "unwind"
  BY <1>1, <1>2, <1>3, MoveGetsNoMore
<1> QED
  BY <1>1, <1>2, <1>3, <1>4, StepCut

\* The running frame is left, and those above frame t with it.
LEMMA StepBack ==
  ASSUME Inv, RegInv, Top.pc # "unwind", NEW t \in 1..(Depth - 1), stk' = SubSeq(stk, 1, t),
         UNCHANGED <<list, saved, uc>>
  PROVE  RegInv'
<1>1. t \in 1..Len(stk) /\ t \in 1..(Len(stk) - 1) /\ "done" \in RunPcs
  BY TopFacts DEF Inv, RunPcs
<1>2. Cut(stk, stk', t, stk[t])
  BY <1>1, BackCut DEF Inv
<1>3. stk[t].pc # "unwind"
  BY <1>1 DEF Inv, CritInv, StackOK, CriticalPcs
<1>4. GetsNoMore(stk[t], stk[t]) /\ SameOwners(list, uc, uc')
  BY DEF GetsNoMore, SameOwners
<1> QED
  BY <1>2, <1>3, <1>4, StepCut

\* The engine of the running activation has run some of its code.
LEMMA TouchedOwners ==
  ASSUME Inv, NEW p \in Cpus, uc' = Touch(p)
  PROVE  SameOwners(list, uc, uc')
<1>1. uc \in [Cpus -> Regs] /\ list \in Seq(Ctxs) /\ CpuOf \in [Ctxs -> Cpus]
  BY CpuRunAssumption DEF Inv, DataOK
<1>2. ASSUME NEW q \in Cpus PROVE uc'[q][1] = uc[q][1]
  <2>1. uc'[q] = IF q = p THEN <<uc[p][1], 1 - uc[p][2]>> ELSE uc[q]
    BY <1>1 DEF Touch
  <2> QED
    BY <2>1
<1> QED
  BY <1>1, <1>2 DEF SameOwners

\* A frame without registers is put on the stack.
LEMMA StepPush ==
  ASSUME Inv, RegInv, Top.pc # "unwind", NEW h, Pushed(stk, stk', h), ~Owning(h),
         h.pc \notin {"thunkpre", "unwind"}, Unsaving(h) => saved'[h.ctx] = NotSaved,
         \A k \in DOMAIN list : saved'[list[k]] = saved[list[k]],
         \A n \in 1..Len(stk) :
           Unsaving(stk[n]) \/ (stk[n].kind = "run" /\ stk[n].pc = "thunkpre") =>
             saved'[stk[n].ctx] = saved[stk[n].ctx],
         UNCHANGED <<list, uc>>
  PROVE  RegInv'
<1>1. RegsOK(stk, list, saved, uc)
  BY FromRegInv
<1>2. RegsOK(stk', list, saved', uc)
  BY <1>1, RegsPush
<1>3. stk'[Len(stk')] = h
  BY DEF Pushed
<1> QED
  BY <1>2, <1>3, ToRegInv

-----------------------------------------------------------------------------
(* Every step.                                                             *)

\* A new activation gets a context that no other has.
LEMMA AllocRegs ==
  ASSUME Inv, PoolInv, RegInv, InHost, NEW c \in free, NEW i \in Images \cup {NoImage},
         AllocContext(c, i), UNCHANGED <<list, uc>>
  PROVE  RegInv'
<1> DEFINE h == RunFrame(c, i)
<1>1. /\ Depth = Len(stk) /\ stk \in Seq(Frame) /\ c \in Ctxs /\ Top.pc = "code"
      /\ saved \in [Ctxs -> Regs \cup {NotSaved}]
  BY TopFacts DEF Inv, DataOK, InHost
<1>2. saved' = [saved EXCEPT ![c] = NotSaved] /\ stk' = Append(stk, h)
  BY DEF AllocContext
<1>3. h \in Frame /\ h.kind = "run" /\ h.pc = "start" /\ h.ctx = c
  BY <1>1, NewFrames
<1> HIDE DEF h
<1>4. Pushed(stk, stk', h)
  BY <1>1, <1>2, <1>3, AppendPushed
<1>5. ~Owning(h)
  BY <1>3 DEF Owning, OwnedPcs
<1>6. saved'[c] = NotSaved /\ \A x \in Ctxs : x # c => saved'[x] = saved[x]
  BY <1>1, <1>2
<1>7. \A k \in DOMAIN list : list[k] # c /\ list[k] \in Ctxs
  <2>1. OnList(list) \cap free = {} /\ list \in Seq(Ctxs)
    BY TopPool DEF PoolInv, PoolOK, Apart
  <2> QED
    BY <2>1 DEF OnList
<1>8. ASSUME NEW n \in 1..Len(stk), Unsaving(stk[n]) \/ (stk[n].kind = "run" /\ stk[n].pc = "thunkpre")
      PROVE  stk[n].ctx # c /\ stk[n].ctx \in Ctxs
  <2>1. stk[n].kind = "run" /\ stk[n].ctx \in Ctxs
    BY <1>8, TopPool DEF PoolInv, Unsaving
  <2>2. CASE Listed(stk[n])
    <3>1. PICK k \in DOMAIN list : list[k] = stk[n].ctx
      BY <2>2 DEF PoolInv, PoolOK, ListOK, LiveOnList
    <3> QED
      BY <1>7, <2>1, <3>1
  <2>3. CASE stk[n].pc = "start"
    <3>1. stk[n].ctx \in Owns(stk[n])
      BY <2>1, <2>3 DEF Owns, Held
    <3>2. Owns(stk[n]) \cap free = {}
      BY DEF PoolInv, PoolOK, Apart
    <3> QED
      BY <2>1, <3>1, <3>2
  <2> QED
    BY <1>8, <2>1, <2>2, <2>3, FramesListed
<1> QED
  BY <1>1, <1>3, <1>4, <1>5, <1>6, <1>7, <1>8, StepPush

\* Every step of native code and of the interrupt logic.
LEMMA HostStepRegs ==
  ASSUME Release, Inv, PoolInv, RegInv, HostStep
  PROVE  RegInv'
<1>1. CASE RunFunc
  <2>1. PICK c \in free : AllocContext(c, NoImage)
    BY <1>1 DEF RunFunc
  <2> QED
    BY <1>1, <2>1, AllocRegs DEF RunFunc
<1>2. CASE RunImage
  <2>1. PICK i \in Images, c \in free : AllocContext(c, i)
    BY <1>2 DEF RunImage
  <2> QED
    BY <1>2, <2>1, AllocRegs DEF RunImage, MayStartImage
<1>3. ASSUME UNCHANGED <<stk, list, saved, uc>> PROVE RegInv'
  BY <1>3 DEF RegInv, Chain, Top, Depth
<1>4. CASE RunImageExhausted
  BY <1>3, <1>4 DEF RunImageExhausted, cpuVars
<1>5. CASE SetInterrupt
  BY <1>3, <1>5 DEF SetInterrupt, cpuVars
<1>6. Top.kind # "run" => Top.pc # "unwind"
  BY TopFacts DEF Inv
<1>7. CASE EventReturn
  <2>1. /\ Top.kind = "event" /\ stk' = SubSeq(stk, 1, Depth - 1)
        /\ UNCHANGED <<list, saved, uc>>
    BY <1>7 DEF EventReturn, cpuVars
  <2>2. Depth - 1 \in 1..(Depth - 1)
    BY <2>1, TopFacts DEF Inv
  <2> QED
    BY <1>6, <2>1, <2>2, StepBack
<1>8. CASE LongJump
  <2>1. PICK t \in 1..(Depth - 1) : stk' = SubSeq(stk, 1, t)
    BY <1>8 DEF LongJump
  <2>2. Top.kind = "native" /\ UNCHANGED <<list, saved, uc>>
    BY <1>8 DEF LongJump, cpuVars
  <2> QED
    BY <1>6, <2>1, <2>2, StepBack
<1>9. CASE ReturnHost
  <2> DEFINE t == Depth - 1
             rest == SubSeq(stk, 1, t)
  <2>1. /\ Top.kind = "native" /\ Depth > 1
        /\ stk' = IF stk[t].kind = "run" /\ stk[t].pc = "native"
                    THEN [rest EXCEPT ![t].pc = "check"] ELSE rest
        /\ UNCHANGED <<list, saved, uc>>
    BY <1>9 DEF ReturnHost, cpuVars
  <2>2. t \in 1..Len(stk) /\ t \in 1..(Depth - 1) /\ "check" \in RunPcs
    BY <2>1, TopFacts DEF Inv, RunPcs
  <2>3. CASE ~(stk[t].kind = "run" /\ stk[t].pc = "native")
    BY <1>6, <2>1, <2>2, <2>3, StepBack
  <2>4. CASE stk[t].kind = "run" /\ stk[t].pc = "native"
    <3>1. stk' = [rest EXCEPT ![t].pc = "check"]
      BY <2>1, <2>4
    <3>2. stk[t].exiting \in BOOLEAN
      <4>1. stk[t] \in Frame
        BY <2>2, TopPool DEF PoolInv
      <4> QED
        BY <4>1 DEF Frame
    <3> HIDE DEF t
    <3>3. PICK g : GoesTo(stk[t], g, "check", stk[t].pend, stk[t].exiting) /\ Cut(stk, stk', t, g)
      BY <2>2, <3>1, BackCut DEF Inv
    <3>4. [from |-> "native", to |-> "check"] \in Moves
      BY DEF Moves
    <3>5. GetsNoMore(stk[t], g) /\ g.pc # "unwind"
      BY <2>4, <3>2, <3>3, <3>4, MoveGetsNoMore
    <3>6. SameOwners(list, uc, uc')
      BY <2>1 DEF SameOwners
    <3> QED
      BY <1>6, <2>1, <3>3, <3>5, <3>6, StepCut
  <2> QED
    BY <2>3, <2>4
<1>10. CASE Event
  <2> DEFINE h == HostFrame("event")
  <2>1. stk' = Append(stk, h) /\ UNCHANGED <<list, saved, uc>>
    BY <1>10 DEF Event, cpuVars
  <2>2. Top.pc # "unwind"
    <3>1. ignore = 0
      BY <1>10 DEF Event, TakeInterrupt, Inv, CritInv
    <3>2. TopPc(stk) \notin CriticalPcs /\ TopPc(stk) = Top.pc
      BY <3>1, TopFacts DEF Inv, CritInv
    <3> QED
      BY <3>2 DEF CriticalPcs
  <2>3. h \in Frame /\ h.kind = "event" /\ h.pc = "code"
    BY NewFrames
  <2> HIDE DEF h
  <2>4. Pushed(stk, stk', h)
    BY <2>1, <2>3, AppendPushed, TopFacts DEF Inv
  <2>5. ~Owning(h) /\ ~Unsaving(h)
    BY <2>3 DEF Owning, Unsaving
  <2> QED
    BY <2>1, <2>2, <2>3, <2>4, <2>5, StepPush
<1> QED
  BY <1>1, <1>2, <1>4, <1>5, <1>7, <1>8, <1>9, <1>10 DEF HostStep, CallHost, Release

\* NativeThunk calls native code.
LEMMA CallNativeRegs ==
  ASSUME Inv, PoolInv, RegInv, CallNative
  PROVE  RegInv'
<1> DEFINE s == [stk EXCEPT ![Depth].pc = "native"]
           h == HostFrame("native")
<1>1. Top.kind = "run" /\ Top.pc = "call" /\ "native" \in RunPcs /\ stk' = Append(s, h)
      /\ UNCHANGED <<list, saved, uc>>
  BY DEF CallNative, At, RunPcs, cpuVars
<1>2. /\ Depth = Len(stk) /\ Top = stk[Depth] /\ Depth \in 1..Len(stk) /\ stk \in Seq(Frame)
      /\ Top.exiting \in BOOLEAN
  BY TopFacts DEF Inv, Frame
<1>3. SubSeq(stk, 1, Depth) = stk
  BY <1>2, SubSeqFull
<1>4. PICK g : GoesTo(Top, g, "native", Top.pend, Top.exiting) /\ Cut(stk, s, Depth, g)
  BY <1>1, <1>2, <1>3, BackCut DEF Inv
<1> HIDE DEF s
<1>5. [from |-> "call", to |-> "native"] \in Moves
  BY DEF Moves
<1>6. GetsNoMore(stk[Depth], g)
  BY <1>1, <1>2, <1>4, <1>5, MoveGetsNoMore
<1>7. RegsOK(stk, list, saved, uc) /\ SameOwners(list, uc, uc)
  BY <1>1, FromRegInv DEF SameOwners
<1>8. RegsOK(s, list, saved, uc)
  BY <1>4, <1>6, <1>7, RegsCut
<1>9. h \in Frame /\ h.kind = "native" /\ h.pc = "code"
  BY NewFrames
<1> HIDE DEF h
<1>10. s \in Seq(Frame)
  BY <1>4 DEF Cut
<1>11. Pushed(s, stk', h)
  BY <1>1, <1>9, <1>10, AppendPushed
<1>12. ~Owning(h) /\ ~Unsaving(h)
  BY <1>9 DEF Owning, Unsaving
<1>13. RegsOK(stk', list, saved, uc)
  BY <1>8, <1>9, <1>11, <1>12, RegsPush
<1>14. stk'[Len(stk')] = h
  BY <1>11 DEF Pushed
<1> QED
  BY <1>1, <1>9, <1>13, <1>14, ToRegInv

\* CpuExitImage leaves everything above the activation of the image.
LEMMA ExitImageRegs ==
  ASSUME Inv, PoolInv, PoolInv', RegInv, ExitImage
  PROVE  RegInv'
<1>1. Top.kind = "run" /\ Top.pc = "call" /\ At("call") /\ UNCHANGED <<list, saved, uc>>
  BY DEF ExitImage, At, cpuVars
<1>2. SameOwners(list, uc, uc')
  BY <1>1 DEF SameOwners
<1>3. CASE Goto("check")
  <2>1. [from |-> "call", to |-> "check"] \in Moves
    BY DEF Moves
  <2> QED
    BY <1>1, <1>2, <1>3, <2>1, StepGoto
<1>4. ASSUME NEW n, NEW t \in ImageFrames(list[n]),
             stk' = [SubSeq(stk, 1, t) EXCEPT ![t].pc = "compress", ![t].exiting = TRUE]
      PROVE  RegInv'
  <2>1. t \in 1..Len(stk) /\ stk[t].kind = "run" /\ "compress" \in RunPcs
    BY TopFacts DEF ImageFrames, RunPcs, Inv
  <2>2. PICK g : GoesTo(stk[t], g, "compress", stk[t].pend, TRUE) /\ Cut(stk, stk', t, g)
    BY <1>4, <2>1, BackCut DEF Inv
  <2>3. GetsNoMore(stk[t], g) /\ g.pc # "unwind"
    BY <2>2 DEF GoesTo, GetsNoMore, Owning, Unsaving
  <2> QED
    BY <1>1, <1>2, <2>2, <2>3, StepCut
<1>5. fault' = "none"
  BY DEF PoolInv
<1> QED
  BY <1>3, <1>4, <1>5, Zenon DEF ExitImage

\* Every step of an activation.
LEMMA EmuStepRegs ==
  ASSUME Release, Inv, PoolInv, PoolInv', CountInv, RegInv, EmuStep
  PROVE  RegInv'
<1>1. UNCHANGED uc => SameOwners(list, uc, uc')
  BY DEF SameOwners
<1>2. At("jit") \/ At("result") \/ At("thunkpost") => Top.ctx \in Ctxs /\ CpuOf[Top.ctx] \in Cpus
  BY TopFacts, CpuRunAssumption DEF Inv, At
<1>3. ASSUME NEW p \in {"jit", "result", "thunkpost"}, At(p), uc' = Touch(CpuOf[Top.ctx])
      PROVE  SameOwners(list, uc, uc')
  BY <1>2, <1>3, TouchedOwners
<1>4. /\ [from |-> "loop", to |-> "jit"] \in Moves /\ [from |-> "jit", to |-> "decode"] \in Moves
      /\ \A q \in {"loop", "call", "thunkpost", "restore"} : [from |-> "decode", to |-> q] \in Moves
      /\ \A q \in {"result", "compress"} : [from |-> "check", to |-> q] \in Moves
      /\ [from |-> "result", to |-> "loop"] \in Moves
      /\ [from |-> "thunkpost", to |-> "restore"] \in Moves
      /\ \A q \in {"free", "result", "exit"} : [from |-> "free", to |-> q] \in Moves
      /\ [from |-> "entered", to |-> "prepare"] \in Moves
      /\ [from |-> "orphans", to |-> "prepare"] \in Moves
      /\ [from |-> "left", to |-> "done"] \in Moves
  BY DEF Moves
<1>5. CASE DetectOrphans
  <2>1. Top.kind = "run" /\ Top.pc = "entered" /\ Orphans = <<>> /\ UNCHANGED <<list, saved, uc>>
    BY <1>5 DEF DetectOrphans, At, Orphans, Release
  <2>2. stk' = [stk EXCEPT ![Depth].pend = <<>>, ![Depth].pc = "prepare"]
    BY <1>5, <2>1 DEF DetectOrphans
  <2>3. "prepare" \in RunPcs /\ <<>> \in Seq(Ctxs) /\ Top = stk[Depth] /\ Top.exiting \in BOOLEAN
    BY TopFacts DEF RunPcs, Inv, Frame
  <2>4. PICK g : GoesTo(Top, g, "prepare", <<>>, Top.exiting) /\ Cut(stk, stk', Depth, g)
    BY <2>1, <2>2, <2>3, GotoPendCut DEF Inv
  <2>5. GetsNoMore(Top, g) /\ g.pc # "unwind"
    BY <1>4, <2>1, <2>3, <2>4, MoveGetsNoMore
  <2> QED
    BY <1>1, <2>1, <2>3, <2>4, <2>5, StepCut
<1>6. CASE FreeOrphan
  <2>1. At("orphans")
    BY <1>6 DEF FreeOrphan, FreePending
  <2>2. Goto("prepare") /\ UNCHANGED <<list, saved, uc>>
    BY <1>6, NoOrphans
  <2> QED
    BY <1>1, <1>4, <2>1, <2>2, StepGoto
<1>7. CASE EmuStart
  BY <1>1, <1>4, <1>7, StepGoto DEF EmuStart, cpuVars
<1>8. CASE EmuStop
  BY <1>3, <1>4, <1>8, StepGoto DEF EmuStop
<1>9. CASE Decode
  <2>1. PICK q \in {"loop", "call", "thunkpost", "restore"} : Goto(q)
    BY <1>9 DEF Decode
  <2> QED
    BY <1>1, <1>4, <1>9, <2>1, StepGoto DEF Decode, cpuVars
<1>10. CASE CheckLeaked
  <2>1. PICK q \in {"result", "compress"} : Goto(q)
    BY <1>10 DEF CheckLeaked
  <2> QED
    BY <1>1, <1>4, <1>10, <2>1, StepGoto DEF CheckLeaked, cpuVars
<1>11. CASE FreeLeaked
  <2> DEFINE n == Len(Top.pend)
             d == SubSeq(Top.pend, 1, n - 1)
             q == IF n <= 1 THEN (IF Top.exiting THEN "exit" ELSE "result") ELSE "free"
  <2>1. Top.kind = "run" /\ Top.pc = "free"
        /\ stk' = [stk EXCEPT ![Depth].pend = d, ![Depth].pc = q] /\ UNCHANGED <<list, saved, uc>>
    BY <1>11, Zenon DEF FreeLeaked, FreePending, At
  <2>2. q \in {"free", "result", "exit"} /\ q \in RunPcs
    BY DEF RunPcs
  <2>3. Top = stk[Depth] /\ Top.exiting \in BOOLEAN /\ d \in Seq(Ctxs)
    <3>1. Top \in Frame /\ Top = stk[Depth]
      BY TopFacts DEF Inv
    <3>2. Top.pend \in Seq(Ctxs) /\ n \in Nat
      BY <3>1 DEF Frame
    <3> QED
      BY <3>1, <3>2, <2>1 DEF Frame
  <2> HIDE DEF q, d, n
  <2>4. PICK g : GoesTo(Top, g, q, d, Top.exiting) /\ Cut(stk, stk', Depth, g)
    BY <2>1, <2>2, <2>3, GotoPendCut DEF Inv
  <2>5. GetsNoMore(Top, g) /\ g.pc # "unwind"
    BY <1>4, <2>1, <2>2, <2>3, <2>4, MoveGetsNoMore
  <2> QED
    BY <1>1, <2>1, <2>3, <2>4, <2>5, StepCut
<1>12. CASE WriteResult
  BY <1>3, <1>4, <1>12, StepGoto DEF WriteResult
<1>13. CASE ThunkPost
  BY <1>3, <1>4, <1>13, StepGoto DEF ThunkPost
<1>14. ASSUME NEW p \in {"exit", "done"}, At(p), stk' = SubSeq(stk, 1, Depth - 1),
              UNCHANGED <<list, saved, uc>>
       PROVE  RegInv'
  <2>1. Top.pc # "unwind" /\ Depth - 1 \in 1..(Depth - 1)
    BY <1>14, TopFacts DEF Inv, At
  <2> QED
    BY <1>14, <2>1, StepBack
<1>15. CASE NativeExit
  BY <1>14, <1>15 DEF NativeExit, cpuVars
<1>16. CASE Return
  BY <1>14, <1>16 DEF Return
<1>17. CASE LeaveEnd
  <2>1. Top.kind = "run" /\ Top.pc = "left" /\ "done" \in RunPcs /\ UNCHANGED <<list, saved, uc>>
    BY <1>17 DEF LeaveEnd, At, RunPcs, cpuVars
  <2>2. stk' = [SubSeq(stk, 1, Depth) EXCEPT ![Depth].pc = "done"]
    BY <1>17, Zenon DEF LeaveEnd, Release
  <2>3. Depth \in 1..Len(stk) /\ Top = stk[Depth] /\ Top.exiting \in BOOLEAN
    BY TopFacts DEF Inv, Frame
  <2>4. PICK g : GoesTo(Top, g, "done", Top.pend, Top.exiting) /\ Cut(stk, stk', Depth, g)
    BY <2>1, <2>2, <2>3, BackCut DEF Inv
  <2>5. GetsNoMore(Top, g) /\ g.pc # "unwind"
    BY <1>4, <2>1, <2>3, <2>4, MoveGetsNoMore
  <2> QED
    BY <1>1, <2>1, <2>3, <2>4, <2>5, StepCut
<1> QED
  BY <1>5, <1>6, <1>7, <1>8, <1>9, <1>10, <1>11, <1>12, <1>13, <1>15, <1>16, <1>17, EnterRegs,
     SaveOrResetRegs, ThunkPreRegs, CallNativeRegs, ExitImageRegs, CompressBeginRegs,
     CompressUnwindRegs, RestoreRegs, LeaveRegs DEF EmuStep

\* At first there are no activations.
LEMMA InitRegs == Init => RegInv
<1> SUFFICES ASSUME Init PROVE RegInv
  OBVIOUS
<1>1. Len(stk) = 1 /\ stk[1] = HostFrame("native")
  BY DEF Init
<1>2. \A n \in 1..Len(stk) : stk[n].kind = "native"
  BY <1>1 DEF HostFrame
<1> QED
  BY <1>2 DEF RegInv, FindOwn, Prepared, Owning, Unsaving

\* Every step keeps the invariant.
LEMMA NextRegs ==
  ASSUME Release
  PROVE  Inv /\ PoolInv /\ PoolInv' /\ CountInv /\ RegInv /\ [Next]_vars => RegInv'
<1> SUFFICES ASSUME Inv, PoolInv, PoolInv', CountInv, RegInv, [Next]_vars PROVE RegInv'
  OBVIOUS
<1>1. CASE Next
  BY <1>1, HostStepRegs, EmuStepRegs DEF Next
<1>2. CASE UNCHANGED vars
  BY <1>2 DEF RegInv, Chain, Top, Depth, vars, cpuVars
<1> QED
  BY <1>1, <1>2

-----------------------------------------------------------------------------
(* What follows for every value of the constants.                          *)

\* Inv, PoolInv and RegInv hold in every reachable state of a release build.
THEOREM RegisterInvariance ==
  ASSUME Release
  PROVE  Spec => [](Inv /\ PoolInv /\ RegInv)
<1>1. Init => RegInv /\ CountInv
  BY InitRegs, InitCounts
<1>2. OrphansOfOneCpu
  BY DEF Release, OrphansOfOneCpu
<1>3. Inv /\ Inv' /\ CountInv /\ [Next]_vars => CountInv'
  BY <1>2, NextCounts
<1>4. Inv /\ PoolInv /\ PoolInv' /\ CountInv /\ RegInv /\ [Next]_vars => RegInv'
  BY NextRegs
<1> QED
  BY <1>1, <1>3, <1>4, Invariance, PoolInvariance, PTL DEF Spec

\* No context is twice on the chain.
LEMMA ChainOnce ==
  ASSUME Inv, PoolInv
  PROVE  Chain \in Seq(Ctxs) /\ \A j, k \in DOMAIN Chain : Chain[j] = Chain[k] => j = k
<1>1. list \in Seq(Ctxs) /\ Top.pend \in Seq(Ctxs) /\ FrameOK(Top) /\ Top = stk[Depth]
      /\ Depth \in 1..Len(stk)
  BY TopPool DEF PoolInv
<1>2. Once(list) /\ Once(Top.pend)
  BY <1>1 DEF PoolInv, PoolOK, ListOK, Once, FrameOK
<1>3. CASE Top.pc # "unwind"
  BY <1>1, <1>2, <1>3 DEF Chain, Once
<1>4. CASE Top.pc = "unwind"
  <2> DEFINE d == Top.pend
             N == Len(list)
             ch == list \o d
  <2>1. Owns(Top) \cap OnList(list) = {}
    BY <1>1 DEF PoolInv, PoolOK, Apart
  <2>2. \A k \in DOMAIN list, n \in DOMAIN d : list[k] # d[n]
    BY <2>1 DEF Owns, Pending, OnList
  <2>3. /\ N \in Nat /\ DOMAIN list = 1..N /\ DOMAIN d = 1..Len(d) /\ Len(d) \in Nat
        /\ ch \in Seq(Ctxs) /\ \A k \in 1..N : ch[k] = list[k]
        /\ \A n \in 1..Len(d) : ch[N + n] = d[n]
        /\ \A m \in DOMAIN ch : m \in 1..N \/ (m - N \in 1..Len(d) /\ N + (m - N) = m)
    BY <1>1
  <2> HIDE DEF d, N, ch
  <2>4. ASSUME NEW j \in DOMAIN ch, NEW k \in DOMAIN ch, ch[j] = ch[k] PROVE j = k
    <3>1. \A m \in DOMAIN ch : \/ m \in DOMAIN list /\ ch[m] = list[m]
                               \/ m - N \in DOMAIN d /\ ch[m] = d[m - N] /\ N + (m - N) = m
      BY <2>3
    <3>2. CASE j \in DOMAIN list /\ ch[j] = list[j]
      BY <1>2, <2>2, <2>4, <3>1, <3>2 DEF Once
    <3>3. CASE j - N \in DOMAIN d /\ ch[j] = d[j - N] /\ N + (j - N) = j
      <4>1. k - N \in DOMAIN d /\ ch[k] = d[k - N] /\ N + (k - N) = k
        BY <2>2, <2>4, <3>1, <3>3
      <4>2. j - N = k - N
        BY <1>2, <2>4, <3>3, <4>1 DEF Once, d
      <4> QED
        BY <3>3, <4>1, <4>2
    <3> QED
      BY <3>1, <3>2, <3>3
  <2> QED
    BY <1>4, <2>3, <2>4 DEF Chain, ch, d
<1> QED
  BY <1>3, <1>4

\* The registers RegistersOf looks up are those FindsOwn is about.
LEMMA RegistersFound ==
  ASSUME Inv, PoolInv, NEW n \in 1..Len(stk), Owned(n), NEW k \in DOMAIN Chain,
         Chain[k] = stk[n].ctx, FindsOwn(Chain, saved, uc, k)
  PROVE  RegistersOf(n)[1] = stk[n].ctx
<1> DEFINE c == stk[n].ctx
           above == {m \in OnCpu(Chain, CpuOf[c]) :
                       HasSaved(Chain[m]) /\ \E j \in 1..(m - 1) : Chain[j] = c}
           Least(m) == \A j \in above : m <= j
<1>1. RegistersOf(n) = IF above = {} THEN uc[CpuOf[c]]
                       ELSE saved[Chain[CHOOSE m \in above : Least(m)]]
  BY DEF RegistersOf
<1>2. DOMAIN Chain = 1..Len(Chain) /\ Len(Chain) \in Nat
      /\ \A i, j \in DOMAIN Chain : Chain[i] = Chain[j] => i = j
  BY ChainOnce
<1>3. above = SavedAbove(Chain, saved, k)
  <2>1. \A m \in DOMAIN Chain : (\E j \in 1..(m - 1) : Chain[j] = c) <=> k < m
    <3> SUFFICES ASSUME NEW m \in DOMAIN Chain
                 PROVE  (\E j \in 1..(m - 1) : Chain[j] = c) <=> k < m
      OBVIOUS
    <3>1. \A j \in 1..(m - 1) : j \in DOMAIN Chain /\ (Chain[j] = c => j = k)
      BY <1>2
    <3>2. k < m => k \in 1..(m - 1)
      BY <1>2
    <3> QED
      BY <1>2, <3>1, <3>2
  <2> QED
    BY <2>1 DEF OnCpu, SavedAbove, HasSaved
<1>4. above \in SUBSET Nat
  BY <1>2 DEF OnCpu
<1> HIDE DEF above
<1>5. CASE above = {}
  BY <1>1, <1>3, <1>5 DEF FindsOwn
<1>6. CASE above # {}
  <2>1. \E m \in above : Least(m)
    BY <1>4, <1>6, LeastElement
  <2>2. PICK m \in above : Least(m) /\ RegistersOf(n) = saved[Chain[m]]
    BY <1>1, <1>6, <2>1
  <2> QED
    BY <1>3, <2>2 DEF FindsOwn
<1> QED
  BY <1>5, <1>6

\* In release builds an activation under way finds its own registers, in the
\* engine or in the context that will put them back, whatever nested calls,
\* events, LongJumps and exits of images happen above it.
THEOREM RegistersStayOwn ==
  ASSUME Release
  PROVE  Spec => []OwnRegisters
<1>1. Inv /\ PoolInv /\ RegInv => OwnRegisters
  <2> SUFFICES ASSUME Inv, PoolInv, RegInv, NEW n \in 1..Len(stk), Owned(n)
               PROVE  RegistersOf(n)[1] = stk[n].ctx
    BY DEF OwnRegisters, Depth
  <2>1. Owning(stk[n]) /\ stk[n].kind = "run"
    BY DEF Owned, Owning
  <2>2. PICK k \in DOMAIN list : list[k] = stk[n].ctx
    BY <2>1, FramesListed DEF PoolInv, PoolOK, ListOK, LiveOnList
  <2>3. k \in DOMAIN Chain /\ Chain[k] = list[k]
    <3>1. list \in Seq(Ctxs) /\ Top.pend \in Seq(Ctxs)
      BY TopPool DEF PoolInv
    <3> QED
      BY <3>1 DEF Chain
  <2>4. FindsOwn(Chain, saved, uc, k)
    BY <2>1, <2>2, <2>3 DEF RegInv, FindOwn
  <2> QED
    BY <2>2, <2>3, <2>4, RegistersFound
<1> QED
  BY <1>1, RegisterInvariance, PTL

\* In release builds whoever enters the JIT has the newest context and finds
\* its own registers in the engine.
THEOREM JitRunsOnTop ==
  ASSUME Release
  PROVE  Spec => []RunsOnTop
<1>1. Inv /\ PoolInv /\ RegInv => RunsOnTop
  <2> SUFFICES ASSUME Inv, PoolInv, RegInv, At("jit")
               PROVE  list # <<>> /\ Newest = Top.ctx /\ uc[CpuOf[Top.ctx]][1] = Top.ctx
    BY DEF RunsOnTop
  <2>1. /\ Top.kind = "run" /\ Top.pc = "jit" /\ FrameOK(Top) /\ Top = stk[Depth]
        /\ Depth \in 1..Len(stk) /\ "jit" \in Steady
    BY TopPool DEF At, PoolInv, Steady
  <2>2. Tidy(Top) /\ Owning(Top)
    BY <2>1, SteadyFrames DEF Tidy, Owning, OwnedPcs
  <2> DEFINE K == Len(list)
  <2>3. TopPlace(Top.ctx, K) /\ list # <<>> /\ Newest = Top.ctx
    BY <2>2, TopPlaced, NewestTidy
  <2> HIDE DEF K
  <2>4. Chain = list
    BY <2>1, FromRegInv
  <2>5. K \in DOMAIN list /\ list[K] = Top.ctx
    BY <2>3 DEF TopPlace
  <2>6. FindsOwn(list, saved, uc, K)
    BY <2>1, <2>2, <2>4, <2>5 DEF RegInv, FindOwn
  <2>7. SavedAbove(list, saved, K) = {}
    BY <2>3 DEF SavedAbove, TopPlace
  <2> QED
    BY <2>3, <2>5, <2>6, <2>7 DEF FindsOwn
<1> QED
  BY <1>1, RegisterInvariance, PTL

-----------------------------------------------------------------------------
(* The n-th smallest of a set of positions.                                *)

Positions(S, D) == D \in Nat /\ \A m \in S : m \in Nat /\ 1 <= m /\ m <= D
UpTo(S, n) == {m \in S : m <= n}

\* How many they are.
LEMMA PositionsFinite ==
  ASSUME NEW S, NEW D, Positions(S, D), NEW T \in SUBSET S
  PROVE  IsFiniteSet(T) /\ Cardinality(T) \in Nat /\ Cardinality(T) <= Cardinality(S)
<1>1. IsFiniteSet(1..D)
  BY FS_Interval DEF Positions
<1>2. S \subseteq 1..D
  BY DEF Positions
<1>3. IsFiniteSet(S)
  BY <1>1, <1>2, FS_Subset
<1> QED
  BY <1>3, FS_Subset, FS_CardinalityType

\* How many are at most n.
LEMMA UpToFinite ==
  ASSUME NEW S, NEW D, Positions(S, D), NEW n
  PROVE  /\ IsFiniteSet(UpTo(S, n)) /\ Cardinality(UpTo(S, n)) \in Nat
         /\ Cardinality(UpTo(S, n)) <= Cardinality(S) /\ Cardinality(S) \in Nat
<1>1. UpTo(S, n) \in SUBSET S /\ S \in SUBSET S
  BY DEF UpTo
<1> QED
  BY <1>1, PositionsFinite

\* One more position, one more element at most.
LEMMA UpToNext ==
  ASSUME NEW S, NEW D, Positions(S, D), NEW n \in Nat
  PROVE  /\ n \in S => Cardinality(UpTo(S, n)) = Cardinality(UpTo(S, n - 1)) + 1
         /\ n \notin S => UpTo(S, n) = UpTo(S, n - 1)
<1>1. \A m \in S : m <= n <=> m <= n - 1 \/ m = n
  BY DEF Positions
<1>2. ~(n <= n - 1)
  OBVIOUS
<1>3. n \in S => UpTo(S, n) = UpTo(S, n - 1) \cup {n} /\ n \notin UpTo(S, n - 1)
  BY <1>1, <1>2, Zenon DEF UpTo
<1>4. n \notin S => UpTo(S, n) = UpTo(S, n - 1)
  BY <1>1, Zenon DEF UpTo
<1>5. IsFiniteSet(UpTo(S, n - 1))
  BY UpToFinite
<1>6. n \in S => Cardinality(UpTo(S, n)) = Cardinality(UpTo(S, n - 1)) + 1
  BY <1>3, <1>5, FS_AddElement
<1> QED
  BY <1>4, <1>6

\* Positions are counted apart.
LEMMA UpToApart ==
  ASSUME NEW S, NEW D, Positions(S, D), NEW m \in S, NEW n \in S, m < n
  PROVE  Cardinality(UpTo(S, m)) < Cardinality(UpTo(S, n))
<1>1. n \in Nat /\ m \in Nat /\ n <= n /\ ~(n <= m) /\ \A i \in S : i <= m => i <= n
  BY DEF Positions
<1>2. UpTo(S, m) \in SUBSET UpTo(S, n) /\ n \in UpTo(S, n) /\ n \notin UpTo(S, m)
  BY <1>1, Zenon DEF UpTo
<1>3. /\ IsFiniteSet(UpTo(S, n)) /\ Cardinality(UpTo(S, n)) \in Nat
      /\ Cardinality(UpTo(S, m)) \in Nat
  BY UpToFinite
<1>4. /\ Cardinality(UpTo(S, m)) <= Cardinality(UpTo(S, n))
      /\ Cardinality(UpTo(S, n)) = Cardinality(UpTo(S, m)) => UpTo(S, n) = UpTo(S, m)
  BY <1>2, <1>3, FS_Subset
<1> QED
  BY <1>2, <1>3, <1>4

\* There is a k-th smallest for each k up to their number.
LEMMA NthIs ==
  ASSUME NEW S, NEW D, Positions(S, D), NEW k \in 1..Cardinality(S)
  PROVE  Nth(S, k) \in S /\ Cardinality(UpTo(S, Nth(S, k))) = k
<1>1. Nth(S, k) = CHOOSE n \in S : Cardinality(UpTo(S, n)) = k
  BY DEF Nth, UpTo
<1>2. \A n : Cardinality(UpTo(S, n)) \in Nat
  BY UpToFinite
<1>3. Cardinality(S) \in Nat /\ k \in Nat /\ k >= 1 /\ k <= Cardinality(S)
  BY UpToFinite
<1> DEFINE Enough(n) == Cardinality(UpTo(S, n)) >= k
           T == {n \in Nat : Enough(n)}
<1>4. D \in T
  <2>1. UpTo(S, D) = S /\ D \in Nat
    BY DEF UpTo, Positions
  <2> QED
    BY <1>3, <2>1
<1>5. T \in SUBSET Nat /\ \A n \in Nat : n \in T <=> Enough(n)
  OBVIOUS
<1> HIDE DEF T
<1>6. PICK n \in T : \A m \in T : n <= m
  BY <1>4, <1>5, LeastElement
<1>7. n # 0
  <2>1. \A m \in S : ~(m <= 0)
    BY DEF Positions
  <2>2. UpTo(S, 0) = {}
    BY <2>1 DEF UpTo
  <2>3. ~Enough(0)
    BY <1>3, <2>2, FS_EmptySet
  <2> QED
    BY <1>5, <1>6, <2>3
<1>8. n \in Nat /\ n - 1 \in Nat /\ Enough(n)
  BY <1>5, <1>6, <1>7
<1>9. ~Enough(n - 1)
  BY <1>5, <1>6, <1>8
<1>10. n \in S /\ Cardinality(UpTo(S, n)) = Cardinality(UpTo(S, n - 1)) + 1
  BY <1>8, <1>9, UpToNext
<1>11. Cardinality(UpTo(S, n)) = k
  <2>1. Cardinality(UpTo(S, n)) \in Nat /\ Cardinality(UpTo(S, n - 1)) \in Nat
    BY <1>2
  <2> QED
    BY <1>3, <1>8, <1>9, <1>10, <2>1
<1> QED
  BY <1>1, <1>10, <1>11

\* And it is the only one.
LEMMA NthUnique ==
  ASSUME NEW S, NEW D, Positions(S, D), NEW n \in S
  PROVE  /\ Cardinality(UpTo(S, n)) \in 1..Cardinality(S)
         /\ Nth(S, Cardinality(UpTo(S, n))) = n
<1> DEFINE k == Cardinality(UpTo(S, n))
<1>1. n \in Nat
  BY DEF Positions
<1>2. k \in Nat /\ k <= Cardinality(S) /\ Cardinality(S) \in Nat
  BY UpToFinite
<1>3. k >= 1
  <2>1. Cardinality(UpTo(S, n)) = Cardinality(UpTo(S, n - 1)) + 1
    BY <1>1, UpToNext
  <2>2. Cardinality(UpTo(S, n - 1)) \in Nat
    BY UpToFinite
  <2> QED
    BY <2>1, <2>2
<1>4. k \in 1..Cardinality(S)
  BY <1>2, <1>3
<1>5. k \in Nat /\ k = Cardinality(UpTo(S, n))
  BY <1>2
<1> HIDE DEF k
<1>6. Nth(S, k) \in S /\ Cardinality(UpTo(S, Nth(S, k))) = k
  BY <1>4, NthIs
<1> DEFINE m == Nth(S, k)
<1>7. m \in S /\ Cardinality(UpTo(S, m)) = k
  BY <1>6
<1> HIDE DEF m
<1>8. ~(m < n)
  <2> SUFFICES ASSUME m < n PROVE FALSE
    OBVIOUS
  <2>1. Cardinality(UpTo(S, m)) < Cardinality(UpTo(S, n))
    BY <1>7, UpToApart
  <2> QED
    BY <1>5, <1>7, <2>1
<1>9. ~(n < m)
  <2> SUFFICES ASSUME n < m PROVE FALSE
    OBVIOUS
  <2>1. Cardinality(UpTo(S, n)) < Cardinality(UpTo(S, m))
    BY <1>7, UpToApart
  <2> QED
    BY <1>5, <1>7, <2>1
<1>10. m = n
  <2>1. m \in Nat
    BY <1>7 DEF Positions
  <2> QED
    BY <1>1, <1>8, <1>9, <2>1
<1> QED
  BY <1>4, <1>10 DEF k, m

\* Cutting a set leaves the smaller positions their numbers.
LEMMA NthCut ==
  ASSUME NEW S, NEW D, Positions(S, D), NEW T \in SUBSET S,
         \A n \in S : \A m \in T : n < m => n \in T
  PROVE  \A k \in 1..Cardinality(T) : Nth(S, k) = Nth(T, k) /\ Nth(T, k) \in T
<1>1. Positions(T, D)
  BY DEF Positions
<1> SUFFICES ASSUME NEW k \in 1..Cardinality(T) PROVE Nth(S, k) = Nth(T, k) /\ Nth(T, k) \in T
  OBVIOUS
<1> DEFINE n == Nth(T, k)
<1>2. n \in T /\ Cardinality(UpTo(T, n)) = k
  BY <1>1, NthIs
<1> HIDE DEF n
<1>3. n \in S
  BY <1>2
<1>4. \A m \in S : m <= n => m \in T
  BY <1>2, <1>3 DEF Positions
<1>5. UpTo(S, n) = UpTo(T, n)
  BY <1>4 DEF UpTo
<1>6. Nth(S, Cardinality(UpTo(S, n))) = n
  BY <1>3, NthUnique
<1> QED
  BY <1>2, <1>5, <1>6 DEF n

\* A position above all others comes last, and without it there is one less.
LEMMA NthLast ==
  ASSUME NEW S, NEW D, Positions(S, D), NEW n \in S, \A m \in S : m <= n
  PROVE  /\ Cardinality(S) \in Nat \ {0} /\ Nth(S, Cardinality(S)) = n
         /\ Cardinality(S \ {n}) = Cardinality(S) - 1
         /\ \A k \in 1..(Cardinality(S) - 1) : Nth(S, k) = Nth(S \ {n}, k) /\ Nth(S, k) \in S \ {n}
<1>1. UpTo(S, n) = S
  BY DEF UpTo
<1>2. Cardinality(S) \in 1..Cardinality(S) /\ Nth(S, Cardinality(S)) = n
  BY <1>1, NthUnique
<1>3. IsFiniteSet(S) /\ Cardinality(S) \in Nat
  BY PositionsFinite
<1>4. Cardinality(S \ {n}) = Cardinality(S) - 1
  BY <1>3, FS_RemoveElement
<1>5. \A i \in S : \A m \in S \ {n} : i < m => i \in S \ {n}
  BY DEF Positions
<1>6. \A k \in 1..Cardinality(S \ {n}) : Nth(S, k) = Nth(S \ {n}, k) /\ Nth(S \ {n}, k) \in S \ {n}
  BY <1>5, NthCut
<1> QED
  BY <1>2, <1>3, <1>4, <1>6

-----------------------------------------------------------------------------
(* Sequences of activations.                                               *)

\* The values of a at the positions of S, in order.
Row(S, a) == [k \in 1..Cardinality(S) |-> a[Nth(S, k)]]

\* The beginning of a sequence.
LEMMA Beginning ==
  ASSUME NEW X, NEW r \in Seq(X), NEW q \in Seq(X), Len(q) <= Len(r),
         \A k \in 1..Len(q) : q[k] = r[k]
  PROVE  q = SubSeq(r, 1, Len(q))
<1>1. Len(q) \in Nat /\ Len(r) \in Nat
  OBVIOUS
<1>2. CASE Len(q) = Len(r)
  BY <1>1, <1>2
<1>3. CASE Len(q) < Len(r)
  BY <1>1, <1>3
<1> QED
  BY <1>1, <1>2, <1>3

\* The same values; all of S below the positions of T are in T.
Agree(T, a, b) == \A n \in T : b[n] = a[n]
Values(S, a, X) == a \in [S -> X]
Initial(S, T) == T \in SUBSET S /\ \A n \in S : \A m \in T : n < m => n \in T
Longer(r, q, v) ==
  r # <<>> /\ Len(r) = Len(q) + 1 /\ r[Len(r)] = v /\ SubSeq(r, 1, Len(r) - 1) = q
Greatest(S, n) == n \in S /\ \A m \in S : m <= n

\* The row of S is a sequence, as long as S is large.
LEMMA RowIs ==
  ASSUME NEW S, NEW D, Positions(S, D), NEW X, NEW a \in [S -> X]
  PROVE  /\ Row(S, a) \in Seq(X) /\ Len(Row(S, a)) = Cardinality(S) /\ Cardinality(S) \in Nat
         /\ \A k \in 1..Cardinality(S) : Row(S, a)[k] = a[Nth(S, k)]
<1>1. IsFiniteSet(S) /\ Cardinality(S) \in Nat
  BY PositionsFinite
<1>2. \A k \in 1..Cardinality(S) : Nth(S, k) \in S
  BY NthIs
<1>3. Row(S, a) \in [1..Cardinality(S) -> X]
  BY <1>2 DEF Row
<1>4. Row(S, a) \in Seq(X) /\ Len(Row(S, a)) = Cardinality(S)
  BY <1>1, <1>3
<1> QED
  BY <1>1, <1>4 DEF Row

\* Positions go, the last ones.
LEMMA RowLess ==
  ASSUME NEW S, NEW D, Positions(S, D), NEW T, Initial(S, T),
         NEW X, NEW a, NEW b, Values(S, a, X), Values(T, b, X), Agree(T, a, b)
  PROVE  \/ Row(T, b) = Row(S, a)
         \/ /\ Len(Row(T, b)) < Len(Row(S, a))
            /\ Row(T, b) = SubSeq(Row(S, a), 1, Len(Row(T, b)))
<1> DEFINE r == Row(S, a)
           q == Row(T, b)
           M == Cardinality(S)
           N == Cardinality(T)
<1>1. Positions(T, D) /\ T \in SUBSET S
  BY DEF Positions, Initial
<1>2. r \in Seq(X) /\ Len(r) = M /\ M \in Nat /\ \A k \in 1..M : r[k] = a[Nth(S, k)]
  BY RowIs DEF Values
<1>3. q \in Seq(X) /\ Len(q) = N /\ N \in Nat /\ \A k \in 1..N : q[k] = b[Nth(T, k)]
  BY <1>1, RowIs DEF Values
<1>4. N <= M
  BY <1>1, PositionsFinite
<1>5. \A k \in 1..N : Nth(S, k) = Nth(T, k) /\ Nth(T, k) \in T
  BY <1>1, NthCut DEF Initial
<1> HIDE DEF r, q, M, N
<1>6. \A k \in 1..N : q[k] = r[k]
  BY <1>2, <1>3, <1>4, <1>5 DEF Agree
<1>7. CASE N = M
  BY <1>2, <1>3, <1>6, <1>7 DEF r, q
<1>8. CASE N # M
  <2>1. N < M
    BY <1>2, <1>3, <1>4, <1>8
  <2>2. q = SubSeq(r, 1, N)
    BY <1>2, <1>3, <1>6, <2>1
  <2> QED
    BY <1>2, <1>3, <2>1, <2>2 DEF r, q
<1> QED
  BY <1>7, <1>8

\* The last position's value, and those below it.
LEMMA RowLast ==
  ASSUME NEW S, NEW D, Positions(S, D), NEW n, Greatest(S, n),
         NEW X, NEW a, NEW b, Values(S, a, X), Values(S \ {n}, b, X), Agree(S \ {n}, a, b)
  PROVE  Longer(Row(S, a), Row(S \ {n}, b), a[n])
<1> DEFINE r == Row(S, a)
           q == Row(S \ {n}, b)
           M == Cardinality(S)
<1>1. Positions(S \ {n}, D) /\ n \in S /\ \A m \in S : m <= n
  BY DEF Positions, Greatest
<1>2. r \in Seq(X) /\ Len(r) = M /\ M \in Nat /\ \A k \in 1..M : r[k] = a[Nth(S, k)]
  BY RowIs DEF Values
<1>3. /\ M \in Nat \ {0} /\ Nth(S, M) = n /\ Cardinality(S \ {n}) = M - 1
      /\ \A k \in 1..(M - 1) : Nth(S, k) = Nth(S \ {n}, k) /\ Nth(S, k) \in S \ {n}
  BY <1>1, NthLast
<1>4. /\ q \in Seq(X) /\ Len(q) = Cardinality(S \ {n})
      /\ \A k \in 1..Cardinality(S \ {n}) : q[k] = b[Nth(S \ {n}, k)]
  BY <1>1, RowIs DEF Values
<1>5. ASSUME NEW k \in 1..Cardinality(S \ {n}) PROVE q[k] = r[k]
  <2>1. k \in 1..M /\ k \in 1..(M - 1)
    BY <1>3
  <2>2. Nth(S, k) = Nth(S \ {n}, k) /\ Nth(S, k) \in S \ {n}
    BY <1>3, <2>1
  <2> QED
    BY <1>2, <1>4, <2>1, <2>2 DEF Agree
<1> HIDE DEF r, q, M
<1>6. Len(q) = M - 1 /\ \A k \in 1..(M - 1) : q[k] = r[k]
  BY <1>3, <1>4, <1>5
<1>7. SubSeq(r, 1, M - 1) = q
  <2>1. Len(q) <= Len(r) /\ \A k \in 1..Len(q) : q[k] = r[k]
    BY <1>2, <1>3, <1>6
  <2>2. q = SubSeq(r, 1, Len(q))
    BY <1>2, <1>4, <2>1, Beginning
  <2> QED
    BY <1>6, <2>2
<1>8. r[M] = a[n] /\ r # <<>>
  BY <1>2, <1>3
<1>9. M = (M - 1) + 1
  BY <1>3
<1>10. r[Len(r)] = a[n] /\ r # <<>> /\ Len(r) = Len(q) + 1 /\ SubSeq(r, 1, Len(r) - 1) = q
  BY <1>2, <1>6, <1>7, <1>8, <1>9
<1> QED
  BY <1>10 DEF r, q, Longer

-----------------------------------------------------------------------------
(* The registers of an activation.                                         *)

\* Where those of context c are looked up: RegistersOf, of any chain.
Above(ch, sv, c) ==
  {m \in DOMAIN ch : /\ CpuOf[ch[m]] = CpuOf[c] /\ sv[ch[m]] # NotSaved
                     /\ \E j \in 1..(m - 1) : ch[j] = c}
Lowest(S) == CHOOSE m \in S : \A j \in S : m <= j
RegIn(ch, sv, u, c) ==
  IF Above(ch, sv, c) = {} THEN u[CpuOf[c]] ELSE sv[ch[Lowest(Above(ch, sv, c))]]

OwningIn(s) == {n \in 1..Len(s) : Owning(s[n])}
ActIn(s, ch, sv, u, n) == [owner |-> s[n].ctx, regs |-> RegIn(ch, sv, u, s[n].ctx)]
ActsIn(s, ch, sv, u) ==
  Row(OwningIn(s), [n \in OwningIn(s) |-> ActIn(s, ch, sv, u, n)])

\* A set of numbers that is not empty has a lowest one.
LEMMA LowestIs ==
  ASSUME NEW S \in SUBSET Nat, S # {}
  PROVE  Lowest(S) \in S /\ \A j \in S : Lowest(S) <= j
<1>1. \E m \in S : \A j \in S : m <= j
  BY LeastElement
<1> QED
  BY <1>1 DEF Lowest

\* It is the only one that is below all others.
LEMMA LowestOf ==
  ASSUME NEW S \in SUBSET Nat, NEW m \in S, \A j \in S : m <= j
  PROVE  Lowest(S) = m
<1> DEFINE k == Lowest(S)
<1>1. k \in S /\ \A j \in S : k <= j
  BY LowestIs
<1>2. k \in Nat /\ m \in Nat /\ k <= m /\ m <= k
  BY <1>1
<1> HIDE DEF k
<1>3. k = m
  BY <1>2
<1> QED
  BY <1>3 DEF k

\* The places above a context are places of the chain.
LEMMA AboveOnChain ==
  ASSUME NEW ch \in Seq(Ctxs), NEW sv, NEW c
  PROVE  Above(ch, sv, c) \in SUBSET Nat /\ Above(ch, sv, c) \subseteq DOMAIN ch
<1>1. DOMAIN ch \subseteq Nat
  OBVIOUS
<1> QED
  BY <1>1 DEF Above

\* They are the same when the places above are, and what they saved.
LEMMA RegSame ==
  ASSUME NEW ch \in Seq(Ctxs), NEW ch2, NEW sv, NEW sv2, NEW u, NEW u2, NEW c,
         Above(ch2, sv2, c) = Above(ch, sv, c),
         \A m \in Above(ch, sv, c) : sv2[ch2[m]] = sv[ch[m]],
         Above(ch, sv, c) = {} => u2[CpuOf[c]] = u[CpuOf[c]]
  PROVE  RegIn(ch2, sv2, u2, c) = RegIn(ch, sv, u, c)
<1>1. CASE Above(ch, sv, c) = {}
  BY <1>1 DEF RegIn
<1>2. CASE Above(ch, sv, c) # {}
  <2>1. Lowest(Above(ch, sv, c)) \in Above(ch, sv, c)
    BY <1>2, AboveOnChain, LowestIs
  <2> QED
    BY <1>2, <2>1 DEF RegIn
<1> QED
  BY <1>1, <1>2

\* The activations of a state.
LEMMA RegistersAre ==
  ASSUME NEW n
  PROVE  RegistersOf(n) = RegIn(Chain, saved, uc, stk[n].ctx)
<1> DEFINE c == stk[n].ctx
           above == {m \in OnCpu(Chain, CpuOf[c]) :
                       HasSaved(Chain[m]) /\ \E j \in 1..(m - 1) : Chain[j] = c}
           Least(m) == \A j \in above : m <= j
<1>1. RegistersOf(n) = IF above = {} THEN uc[CpuOf[c]]
                       ELSE saved[Chain[CHOOSE m \in above : Least(m)]]
  BY DEF RegistersOf
<1>2. above = Above(Chain, saved, c)
  BY DEF OnCpu, HasSaved, Above
<1> HIDE DEF above
<1>3. (CHOOSE m \in above : Least(m)) = Lowest(above)
  BY DEF Lowest
<1> QED
  BY <1>1, <1>2, <1>3 DEF RegIn

\* The sequence acts depends on the stack, the chain and the registers alone.
LEMMA ActsAre ==
  ASSUME Inv
  PROVE  OwnedFrames = OwningIn(stk) /\ acts = ActsIn(stk, Chain, saved, uc)
<1>1. OwnedFrames = OwningIn(stk)
  BY DEF OwnedFrames, OwningIn, Owned, Owning, Depth
<1>2. Len(stk) \in Nat
  BY TopFacts DEF Inv
<1>3. Positions(OwningIn(stk), Len(stk))
  BY <1>2 DEF Positions, OwningIn
<1> DEFINE a == [n \in OwningIn(stk) |-> ActIn(stk, Chain, saved, uc, n)]
<1>4. \A n : ActivationOf(n) = ActIn(stk, Chain, saved, uc, n)
  BY RegistersAre DEF ActivationOf, ActIn
<1>5. \A k \in 1..Cardinality(OwningIn(stk)) : Nth(OwningIn(stk), k) \in OwningIn(stk)
  BY <1>3, NthIs
<1>6. \A k \in 1..Cardinality(OwningIn(stk)) :
        ActivationOf(Nth(OwningIn(stk), k)) = a[Nth(OwningIn(stk), k)]
  BY <1>4, <1>5
<1>7. acts = Row(OwningIn(stk), a)
  BY <1>1, <1>6 DEF acts, Row
<1> QED
  BY <1>1, <1>7 DEF ActsIn

\* They are what the abstract specification takes them for.
LEMMA ActsTyped ==
  ASSUME Inv, PoolInv
  PROVE  /\ Positions(OwningIn(stk), Depth) /\ Depth \in Nat
         /\ \A n \in OwningIn(stk) : ActIn(stk, Chain, saved, uc, n) \in Abstract!Activation
<1>1. Depth = Len(stk) /\ Len(stk) \in Nat
  BY TopFacts DEF Inv
<1>2. Positions(OwningIn(stk), Depth)
  BY <1>1 DEF Positions, OwningIn
<1>3. /\ uc \in [Cpus -> Regs] /\ CpuOf \in [Ctxs -> Cpus]
      /\ saved \in [Ctxs -> Regs \cup {NotSaved}] /\ Chain \in Seq(Ctxs)
  BY CpuRunAssumption, ChainOnce DEF Inv, DataOK
<1>4. ASSUME NEW n \in OwningIn(stk) PROVE ActIn(stk, Chain, saved, uc, n) \in Abstract!Activation
  <2> DEFINE c == stk[n].ctx
             S == Above(Chain, saved, c)
  <2>1. c \in Ctxs
    <3>1. n \in 1..Len(stk) /\ stk[n].kind = "run"
      BY DEF OwningIn, Owning
    <3> QED
      BY <3>1, TopPool DEF PoolInv
  <2>2. S \in SUBSET Nat /\ \A m \in S : m \in DOMAIN Chain /\ saved[Chain[m]] # NotSaved
    BY <1>3, AboveOnChain DEF Above
  <2> HIDE DEF c, S
  <2>3. RegIn(Chain, saved, uc, c) \in Regs
    <3>1. CASE S = {}
      BY <1>3, <2>1, <3>1 DEF RegIn, S
    <3>2. CASE S # {}
      <4>1. Lowest(S) \in S
        BY <2>2, <3>2, LowestIs
      <4>2. saved[Chain[Lowest(S)]] \in Regs
        <5>1. Lowest(S) \in DOMAIN Chain /\ saved[Chain[Lowest(S)]] # NotSaved
          BY <2>2, <4>1
        <5>2. Chain[Lowest(S)] \in Ctxs
          BY <1>3, <5>1
        <5> QED
          BY <1>3, <5>1, <5>2
      <4> QED
        BY <3>2, <4>2 DEF RegIn, S
    <3> QED
      BY <3>1, <3>2
  <2> QED
    BY <2>1, <2>3 DEF ActIn, Abstract!Activation, c
<1> QED
  BY <1>1, <1>2, <1>4

-----------------------------------------------------------------------------
(* What a step may do to the activations.                                  *)

\* The sequence acts, and what kind of values it has.
Mapped ==
  /\ OwnedFrames = OwningIn(stk) /\ acts = ActsIn(stk, Chain, saved, uc)
  /\ Positions(OwningIn(stk), Depth)
  /\ \A n \in OwningIn(stk) : ActIn(stk, Chain, saved, uc, n) \in Abstract!Activation

\* It does in every state of the invariant.
LEMMA IsMapped == Inv /\ PoolInv => Mapped
BY ActsAre, ActsTyped DEF Mapped

\* The registers of context c stay as they are.
Kept(c) == RegIn(Chain', saved', uc', c) = RegIn(Chain, saved, uc, c)
SameAct(n) == stk'[n].ctx = stk[n].ctx /\ Kept(stk[n].ctx)

\* Activations end, the innermost ones, or none does; the innermost runs; one
\* more is started.
Less ==
  /\ \A n \in OwningIn(stk') : n \in OwningIn(stk) /\ SameAct(n)
  /\ \A n \in OwningIn(stk) : \A m \in OwningIn(stk') : n < m => n \in OwningIn(stk')
Runs ==
  /\ running
  /\ OwningIn(stk') = OwningIn(stk) /\ Depth \in OwningIn(stk)
  /\ stk'[Depth].ctx = stk[Depth].ctx
  /\ \A n \in OwningIn(stk) \ {Depth} : SameAct(n)
Starts ==
  /\ ~running
  /\ Depth \notin OwningIn(stk) /\ OwningIn(stk') = OwningIn(stk) \cup {Depth}
  /\ \A n \in OwningIn(stk) : SameAct(n)

\* The activation of such a frame stays as it is.
LEMMA SameActs ==
  ASSUME NEW n, SameAct(n)
  PROVE  ActIn(stk', Chain', saved', uc', n) = ActIn(stk, Chain, saved, uc, n)
BY DEF SameAct, Kept, ActIn

\* Each of the three is a step of the abstract specification: this one ends
\* activations, or leaves all of them alone.
LEMMA LessIsAbstract ==
  ASSUME Mapped, Mapped', Less
  PROVE  Abstract!Unwind \/ Abstract!Switch
<1> DEFINE X == Abstract!Activation
           S == OwningIn(stk)
           T == OwningIn(stk')
           a == [n \in S |-> ActIn(stk, Chain, saved, uc, n)]
           b == [n \in T |-> ActIn(stk', Chain', saved', uc', n)]
<1>1. acts = Row(S, a) /\ acts' = Row(T, b) /\ Positions(S, Depth)
  BY DEF Mapped, ActsIn
<1>2. Initial(S, T)
  BY DEF Less, Initial
<1>3. Values(S, a, X) /\ Values(T, b, X)
  BY DEF Mapped, Values
<1>4. Agree(T, a, b)
  BY SameActs DEF Less, Agree
<1> HIDE DEF X, S, T, a, b
<1>5. \/ Row(T, b) = Row(S, a)
      \/ /\ Len(Row(T, b)) < Len(Row(S, a))
         /\ Row(T, b) = SubSeq(Row(S, a), 1, Len(Row(T, b)))
  BY <1>1, <1>2, <1>3, <1>4, RowLess
<1> QED
  BY <1>1, <1>5 DEF Abstract!Unwind, Abstract!Switch

\* This one changes the registers of the last activation only.
LEMMA RunsIsAbstract ==
  ASSUME Mapped, Mapped', Runs
  PROVE  Abstract!Run
<1> DEFINE X == Abstract!Activation
           S == OwningIn(stk)
           n == Depth
           a == [i \in S |-> ActIn(stk, Chain, saved, uc, i)]
           b == [i \in S |-> ActIn(stk', Chain', saved', uc', i)]
           d == [i \in S \ {n} |-> ActIn(stk, Chain, saved, uc, i)]
<1>1. acts = Row(S, a) /\ acts' = Row(S, b) /\ Positions(S, n) /\ n \in S
  BY DEF Mapped, ActsIn, Runs
<1>2. Values(S, a, X) /\ Values(S, b, X) /\ Values(S \ {n}, d, X)
  BY DEF Mapped, Runs, Values
<1>3. Agree(S \ {n}, a, d) /\ Agree(S \ {n}, b, d)
  BY SameActs DEF Runs, Agree
<1>4. b[n].owner = a[n].owner
  BY <1>1 DEF Runs, ActIn
<1> HIDE DEF X, S, n, a, b, d
<1>5. Greatest(S, n)
  BY <1>1 DEF Positions, Greatest
<1>6. Longer(Row(S, a), Row(S \ {n}, d), a[n])
  BY <1>1, <1>2, <1>3, <1>5, RowLast
<1>7. Longer(Row(S, b), Row(S \ {n}, d), b[n])
  BY <1>1, <1>2, <1>3, <1>5, RowLast
<1>8. b[n] \in X
  BY <1>1, <1>2 DEF Values
<1>9. running
  BY DEF Runs
<1> QED
  BY <1>1, <1>4, <1>6, <1>7, <1>8, <1>9
  DEF X, Longer, Abstract!Run, Abstract!Last, Abstract!Outer

\* This one adds an activation after all others.
LEMMA StartsIsAbstract ==
  ASSUME Mapped, Mapped', Starts, Depth' = Depth
  PROVE  Abstract!Start
<1> DEFINE X == Abstract!Activation
           S == OwningIn(stk)
           T == OwningIn(stk')
           n == Depth
           a == [i \in S |-> ActIn(stk, Chain, saved, uc, i)]
           b == [i \in T |-> ActIn(stk', Chain', saved', uc', i)]
<1>1. /\ acts = Row(S, a) /\ acts' = Row(T, b) /\ Positions(T, n)
      /\ n \in T /\ T \ {n} = S
  BY DEF Mapped, ActsIn, Starts
<1>2. Values(S, a, X) /\ Values(T, b, X)
  BY DEF Mapped, Values
<1>3. Agree(S, b, a)
  BY <1>1, SameActs DEF Starts, Agree
<1> HIDE DEF X, S, T, n, a, b
<1>4. Greatest(T, n)
  BY <1>1 DEF Positions, Greatest
<1>5. Longer(Row(T, b), Row(S, a), b[n])
  <2>1. Values(T \ {n}, a, X) /\ Agree(T \ {n}, b, a)
    BY <1>1, <1>2, <1>3
  <2>2. Longer(Row(T, b), Row(T \ {n}, a), b[n])
    BY <1>1, <1>2, <1>4, <2>1, RowLast
  <2> QED
    BY <1>1, <2>2
<1>6. b[n] \in X
  BY <1>1, <1>2 DEF Values
<1>7. ~running
  BY DEF Starts
<1> QED
  BY <1>1, <1>5, <1>6, <1>7 DEF X, Longer, Abstract!Start, Abstract!Last, Abstract!Outer

-----------------------------------------------------------------------------
(* Steps that leave the registers alone.                                   *)

\* A frame goes on, and those above it are left.
LEMMA LessCut ==
  ASSUME NEW t, NEW g, Cut(stk, stk', t, g), g.ctx = stk[t].ctx, Owning(g) => Owning(stk[t]),
         \A n \in OwningIn(stk) : n \in OwningIn(stk') => Kept(stk[n].ctx)
  PROVE  Less
<1>1. t \in Nat /\ Len(stk) \in Nat /\ 1 <= t /\ t <= Len(stk) /\ Len(stk') = t /\ stk'[t] = g
  BY DEF Cut
<1>2. \A n \in 1..(t - 1) : stk'[n] = stk[n]
  BY DEF Cut
<1>3. ASSUME NEW n \in OwningIn(stk') PROVE n \in OwningIn(stk) /\ SameAct(n)
  <2>1. n \in 1..t /\ Owning(stk'[n])
    BY <1>1, <1>3 DEF OwningIn
  <2>2. n \in 1..Len(stk) /\ Owning(stk[n]) /\ stk'[n].ctx = stk[n].ctx
    <3>1. CASE n = t
      BY <1>1, <2>1, <3>1
    <3>2. CASE n # t
      BY <1>1, <1>2, <2>1, <3>2
    <3> QED
      BY <3>1, <3>2
  <2>3. n \in OwningIn(stk)
    BY <2>2 DEF OwningIn
  <2> QED
    BY <1>3, <2>2, <2>3 DEF SameAct
<1>4. ASSUME NEW n \in OwningIn(stk), NEW m \in OwningIn(stk'), n < m PROVE n \in OwningIn(stk')
  <2>1. n \in 1..Len(stk) /\ Owning(stk[n]) /\ m \in 1..t
    BY <1>1 DEF OwningIn
  <2>2. n \in 1..(t - 1) /\ n \in 1..Len(stk')
    BY <1>1, <1>4, <2>1
  <2> QED
    BY <1>2, <2>1, <2>2 DEF OwningIn
<1> QED
  BY <1>3, <1>4 DEF Less

\* A frame is put on the stack.
LEMMA LessPush ==
  ASSUME NEW h, Pushed(stk, stk', h), ~Owning(h), \A n \in OwningIn(stk) : Kept(stk[n].ctx)
  PROVE  Less
<1>1. /\ Len(stk) \in Nat /\ Len(stk') = Len(stk) + 1 /\ stk'[Len(stk) + 1] = h
      /\ \A n \in 1..Len(stk) : stk'[n] = stk[n]
  BY DEF Pushed
<1>2. \A n \in 1..Len(stk') : n = Len(stk) + 1 \/ n \in 1..Len(stk)
  BY <1>1
<1>3. \A n \in OwningIn(stk') : n \in OwningIn(stk) /\ stk'[n] = stk[n]
  BY <1>1, <1>2 DEF OwningIn
<1>4. \A n \in OwningIn(stk) : n \in OwningIn(stk')
  BY <1>1 DEF OwningIn
<1> QED
  BY <1>3, <1>4 DEF Less, SameAct

\* Nothing changes where registers are looked up.
LEMMA KeptAll ==
  ASSUME Top.pc # "unwind", Top'.pc # "unwind", UNCHANGED <<list, saved, uc>>, NEW c
  PROVE  Kept(c)
<1>1. Chain = list /\ Chain' = list'
  BY DEF Chain
<1> QED
  BY <1>1 DEF Kept

\* A step that cuts the stack and leaves the registers alone.
LEMMA LessStepCut ==
  ASSUME Inv, Top.pc # "unwind", NEW t, NEW g, Cut(stk, stk', t, g), GetsNoMore(stk[t], g),
         g.pc # "unwind", UNCHANGED <<list, saved, uc>>
  PROVE  Less
<1>1. Top' = g
  BY DEF Cut, Top, Depth
<1> QED
  BY <1>1, KeptAll, LessCut DEF GetsNoMore

\* A step of the frame on top from one place of the code to the next.
LEMMA LessStepGoto ==
  ASSUME Inv, NEW p, NEW q, [from |-> p, to |-> q] \in Moves, At(p), Goto(q),
         UNCHANGED <<list, saved, uc>>
  PROVE  Less
<1>1. Top.kind = "run" /\ Top.pc = p /\ q \in RunPcs /\ p # "unwind"
  BY DEF At, Moves, RunPcs
<1>2. PICK g : GoesTo(Top, g, q, Top.pend, Top.exiting) /\ Cut(stk, stk', Depth, g)
  BY <1>1, GotoCut DEF Inv
<1>3. Top = stk[Depth] /\ Top.exiting \in BOOLEAN
  BY TopFacts DEF Inv, Frame
<1>4. GetsNoMore(Top, g) /\ g.pc # "unwind"
  BY <1>1, <1>2, <1>3, MoveGetsNoMore
<1> QED
  BY <1>1, <1>2, <1>3, <1>4, LessStepCut

\* A return to a frame further down.
LEMMA LessStepBack ==
  ASSUME Inv, Top.pc # "unwind", NEW t \in 1..(Depth - 1), stk' = SubSeq(stk, 1, t),
         UNCHANGED <<list, saved, uc>>
  PROVE  Less
<1>1. t \in 1..Len(stk) /\ t \in 1..(Len(stk) - 1) /\ "done" \in RunPcs
  BY TopFacts DEF Inv, RunPcs
<1>2. Cut(stk, stk', t, stk[t])
  BY <1>1, BackCut DEF Inv
<1>3. stk[t].pc # "unwind"
  BY <1>1 DEF Inv, CritInv, StackOK, CriticalPcs
<1>4. GetsNoMore(stk[t], stk[t])
  BY DEF GetsNoMore
<1> QED
  BY <1>2, <1>3, <1>4, LessStepCut

\* A frame without registers of its own is put on top.
LEMMA LessStepPush ==
  ASSUME Inv, Top.pc # "unwind", NEW h, Pushed(stk, stk', h), ~Owning(h), h.pc # "unwind",
         UNCHANGED <<list, saved, uc>>
  PROVE  Less
<1>1. Top' = h
  BY DEF Pushed, Top, Depth
<1> QED
  BY <1>1, KeptAll, LessPush

-----------------------------------------------------------------------------
(* Steps on the registers, with the running activation's context on top.   *)

\* The other activations with registers are below it on the list.
Below(c, K) ==
  /\ TopPlace(c, K)
  /\ \A n \in OwningIn(stk) : n # Depth =>
       /\ stk[n].ctx \in Ctxs /\ stk[n].ctx # c
       /\ \E k \in 1..(K - 1) : list[k] = stk[n].ctx

\* With a tidy frame on top the contexts of all other activations are below its own.
LEMMA OthersBelow ==
  ASSUME Inv, PoolInv, Tidy(Top)
  PROVE  Below(Top.ctx, Len(list))
<1> DEFINE c == Top.ctx
           K == Len(list)
<1>1. TopPlace(c, K)
  BY TopPlaced
<1>2. ASSUME NEW n \in OwningIn(stk), n # Depth
      PROVE  /\ stk[n].ctx \in Ctxs /\ stk[n].ctx # c
             /\ \E k \in 1..(K - 1) : list[k] = stk[n].ctx
  <2>1. /\ n \in 1..Len(stk) /\ Owning(stk[n]) /\ stk[n].kind = "run"
        /\ Depth = Len(stk) /\ Len(stk) \in Nat
    BY TopFacts DEF OwningIn, Owning, Inv
  <2>2. stk[n].ctx \in Ctxs
    BY <2>1, TopPool DEF PoolInv
  <2>3. n \in 1..(Depth - 1)
    BY <1>2, <2>1
  <2>4. stk[n].ctx # c
    BY <1>1, <2>1, <2>3 DEF TopPlace
  <2>5. PICK k \in DOMAIN list : list[k] = stk[n].ctx
    BY <2>1, FramesListed DEF PoolInv, PoolOK, ListOK, LiveOnList
  <2>6. k \in 1..K /\ k # K /\ K \in Nat
    BY <1>1, <2>4, <2>5 DEF TopPlace
  <2>7. k \in 1..(K - 1)
    BY <2>6
  <2> QED
    BY <2>2, <2>4, <2>5, <2>7
<1> QED
  BY <1>1, <1>2 DEF Below

\* The top place is above that of another activation of the same Cpu, if it
\* saved the engine.
LEMMA TopAbove ==
  ASSUME NEW c, NEW K, TopPlace(c, K), NEW x, NEW k \in 1..(K - 1), list[k] = x, NEW sv
  PROVE  /\ K \in Above(list, sv, x) <=> CpuOf[c] = CpuOf[x] /\ sv[c] # NotSaved
         /\ \A m \in Above(list, sv, x) : m \in 1..K
<1>1. DOMAIN list = 1..K /\ K \in 1..K /\ list[K] = c /\ K \in Nat
  BY DEF TopPlace
<1> QED
  BY <1>1 DEF Above

\* While activations of other contexts own registers, the engine only changes
\* under those that saved it.
LEMMA EngineKept ==
  ASSUME NEW c, NEW K, Below(c, K), NEW n \in OwningIn(stk), n # Depth,
         Chain = list, Chain' = list, UNCHANGED saved,
         CpuOf[stk[n].ctx] = CpuOf[c] => Above(list, saved, stk[n].ctx) # {},
         CpuOf[stk[n].ctx] # CpuOf[c] => uc'[CpuOf[stk[n].ctx]] = uc[CpuOf[stk[n].ctx]]
  PROVE  Kept(stk[n].ctx)
<1>1. list \in Seq(Ctxs)
  BY DEF Below, TopPlace
<1> QED
  BY <1>1, RegSame DEF Kept

\* EmuThunkPre: a new activation gets registers.
LEMMA ThunkPreStarts ==
  ASSUME Inv, PoolInv, RegInv, ThunkPre
  PROVE  Starts /\ Depth' = Depth
<1> DEFINE c == Top.ctx
           p == CpuOf[c]
           K == Len(list)
<1>1. /\ Top.kind = "run" /\ Top.pc = "thunkpre" /\ Goto("loop") /\ "loop" \in RunPcs
      /\ "thunkpre" \in Steady /\ uc' = [uc EXCEPT ![p] = <<c, 0>>] /\ UNCHANGED <<list, saved>>
  BY DEF ThunkPre, At, RunPcs, Steady
<1>2. PICK g : GoesTo(Top, g, "loop", Top.pend, Top.exiting) /\ Cut(stk, stk', Depth, g)
  BY <1>1, GotoCut DEF Inv
<1>3. FrameOK(Top) /\ Depth \in 1..Len(stk) /\ Top = stk[Depth] /\ Depth = Len(stk)
  BY TopPool DEF PoolInv
<1>4. Tidy(Top) /\ ~Top.exiting
  BY <1>1, <1>3, SteadyFrames DEF Tidy, FrameOK
<1>5. Below(c, K)
  BY <1>4, OthersBelow
<1>6. HasTaken(list, saved, c)
  BY <1>1, <1>3, FromRegInv DEF RegsOK, Prepared
<1>7. uc \in [Cpus -> Regs] /\ CpuOf \in [Ctxs -> Cpus]
  BY CpuRunAssumption DEF Inv, DataOK
<1>8. g.kind = "run" /\ g.pc = "loop" /\ g.ctx = c /\ g.exiting = Top.exiting
  BY <1>1, <1>2 DEF GoesTo
<1>9. Owning(g) /\ ~Owning(Top) /\ g.pc # "unwind"
  BY <1>1, <1>4, <1>8 DEF Owning, OwnedPcs
<1>10. Len(stk') = Depth /\ stk'[Depth] = g /\ \A n \in 1..(Depth - 1) : stk'[n] = stk[n]
  BY <1>2, TopWentOn
<1>11. Depth' = Depth /\ Chain = list /\ Chain' = list
  BY <1>1, <1>9, <1>10 DEF Depth, Chain, Top
<1>12. /\ Depth \notin OwningIn(stk) /\ OwningIn(stk') = OwningIn(stk) \cup {Depth}
       /\ \A n \in OwningIn(stk) : n \in 1..(Depth - 1) /\ n # Depth
  <2>1. Depth \in Nat /\ \A n \in 1..Depth : n = Depth \/ n \in 1..(Depth - 1)
    BY <1>3
  <2>2. \A n \in 1..(Depth - 1) : n \in 1..Depth /\ n # Depth
    BY <2>1
  <2> QED
    BY <1>3, <1>9, <1>10, <2>1, <2>2 DEF OwningIn
<1>13. ASSUME NEW n \in OwningIn(stk) PROVE SameAct(n)
  <2>1. n # Depth /\ stk'[n] = stk[n]
    BY <1>10, <1>12
  <2> DEFINE x == stk[n].ctx
  <2>2. PICK k \in 1..(K - 1) : list[k] = x
    BY <1>5, <2>1 DEF Below
  <2>3. x \in Ctxs
    BY <1>5, <2>1 DEF Below
  <2>4. ASSUME CpuOf[x] = p PROVE Above(list, saved, x) # {}
    <3>1. TopPlace(c, K)
      BY <1>5 DEF Below
    <3> HIDE DEF c, K, x
    <3>2. saved[c] # NotSaved
      <4>1. K \in DOMAIN list /\ list[K] = c
        BY <3>1 DEF TopPlace
      <4> QED
        BY <1>6, <2>2, <2>4, <4>1 DEF HasTaken, p
    <3>3. K \in Above(list, saved, x)
      BY <2>2, <2>4, <3>1, <3>2, TopAbove DEF p
    <3> QED
      BY <3>3
  <2>5. CpuOf[x] # p => uc'[CpuOf[x]] = uc[CpuOf[x]]
    BY <1>1, <1>7, <2>3
  <2>6. Kept(x)
    BY <1>1, <1>5, <1>11, <2>1, <2>4, <2>5, EngineKept
  <2> QED
    BY <2>1, <2>6 DEF SameAct
<1>14. ~running
  BY <1>1 DEF running
<1> QED
  BY <1>11, <1>12, <1>13, <1>14 DEF Starts

\* Emulated code, or the thunk, ran on the engine: the activations below it
\* have saved registers, or the engine would hold theirs.
LEMMA TouchKeeps ==
  ASSUME Inv, PoolInv, RegInv, NEW q \in {"jit", "result", "thunkpost"}, At(q),
         uc' = Touch(CpuOf[Top.ctx]), UNCHANGED <<list, saved>>, Top'.pc # "unwind"
  PROVE  \A n \in OwningIn(stk) \ {Depth} : Kept(stk[n].ctx)
<1> DEFINE c == Top.ctx
           p == CpuOf[c]
           K == Len(list)
<1>1. /\ Top.kind = "run" /\ Top.pc \in {"jit", "result", "thunkpost"} /\ Top.pc \in Steady
      /\ Top.pc \in OwnedPcs
  BY DEF At, Steady, OwnedPcs
<1>2. FrameOK(Top) /\ Depth \in 1..Len(stk) /\ Top = stk[Depth]
  BY TopPool DEF PoolInv
<1>3. Tidy(Top) /\ Owning(Top)
  BY <1>1, <1>2, SteadyFrames DEF Tidy, Owning, FrameOK
<1>4. Below(c, K)
  BY <1>3, OthersBelow
<1>5. uc \in [Cpus -> Regs] /\ CpuOf \in [Ctxs -> Cpus]
  BY CpuRunAssumption DEF Inv, DataOK
<1>6. Chain = list /\ Chain' = list /\ FindOwn(stk, list, saved, uc)
  <2>1. RegsOK(stk, list, saved, uc) /\ Chain = list
    BY <1>1, FromRegInv
  <2> QED
    BY <2>1 DEF RegsOK, Chain
<1> SUFFICES ASSUME NEW n \in OwningIn(stk), n # Depth PROVE Kept(stk[n].ctx)
  OBVIOUS
<1> DEFINE x == stk[n].ctx
<1>7. n \in 1..Len(stk) /\ Owning(stk[n])
  BY DEF OwningIn
<1>8. TopPlace(c, K) /\ x \in Ctxs /\ x # c /\ \E k \in 1..(K - 1) : list[k] = x
  BY <1>4 DEF Below
<1>9. p = CpuOf[c]
  OBVIOUS
<1> HIDE DEF c, p, K, x
<1>10. PICK k \in 1..(K - 1) : list[k] = x
  BY <1>8
<1>11. K \in DOMAIN list /\ k \in DOMAIN list /\ k \in 1..K /\ DOMAIN list = 1..K /\ K \in Nat
       /\ list[K] = c
  BY <1>8, <1>10 DEF TopPlace
<1>12. FindsOwn(list, saved, uc, K) /\ FindsOwn(list, saved, uc, k)
  BY <1>2, <1>3, <1>6, <1>7, <1>10, <1>11 DEF FindOwn, c, x
<1>13. uc[p][1] = c
  <2>1. SavedAbove(list, saved, K) = {}
    BY <1>11 DEF SavedAbove
  <2> QED
    BY <1>9, <1>11, <1>12, <2>1 DEF FindsOwn
<1>14. ASSUME CpuOf[x] = p PROVE Above(list, saved, x) # {}
  <2>1. SavedAbove(list, saved, k) # {}
    BY <1>8, <1>10, <1>12, <1>13, <1>14 DEF FindsOwn
  <2>2. PICK m \in SavedAbove(list, saved, k) : TRUE
    BY <2>1
  <2>3. m \in DOMAIN list /\ k < m /\ CpuOf[list[m]] = CpuOf[x] /\ saved[list[m]] # NotSaved
    BY <1>10, <2>2 DEF SavedAbove
  <2>4. k \in 1..(m - 1)
    BY <1>11, <2>3
  <2>5. m \in Above(list, saved, x)
    BY <1>10, <2>3, <2>4 DEF Above
  <2> QED
    BY <2>5
<1>15. CpuOf[x] # p => uc'[CpuOf[x]] = uc[CpuOf[x]]
  <2>1. uc' = [uc EXCEPT ![p] = <<@[1], 1 - @[2]>>]
    BY DEF Touch, p, c
  <2> QED
    BY <1>5, <1>8, <2>1
<1>16. CpuOf[x] = CpuOf[c] => Above(list, saved, x) # {}
  BY <1>9, <1>14
<1>17. CpuOf[x] # CpuOf[c] => uc'[CpuOf[x]] = uc[CpuOf[x]]
  BY <1>9, <1>15
<1>18. Below(c, K)
  BY <1>4 DEF c, K
<1> QED
  BY <1>6, <1>16, <1>17, <1>18, EngineKept DEF x

\* uc_emu_start, and the end of NativeThunk.
LEMMA TouchRuns ==
  ASSUME Inv, PoolInv, RegInv, NEW p \in {"jit", "result"}, NEW q \in {"decode", "loop"},
         At(p), Goto(q), uc' = Touch(CpuOf[Top.ctx]), UNCHANGED <<list, saved>>
  PROVE  Runs
<1>1. /\ Top.kind = "run" /\ Top.pc = p /\ q \in RunPcs /\ q # "unwind" /\ p \in Steady
      /\ p \in OwnedPcs /\ q \in OwnedPcs
  BY DEF At, RunPcs, Steady, OwnedPcs
<1>2. PICK g : GoesTo(Top, g, q, Top.pend, Top.exiting) /\ Cut(stk, stk', Depth, g)
  BY <1>1, GotoCut DEF Inv
<1>3. FrameOK(Top) /\ Depth \in 1..Len(stk) /\ Top = stk[Depth] /\ Depth = Len(stk)
  BY TopPool DEF PoolInv
<1>4. g.kind = "run" /\ g.pc = q /\ g.ctx = Top.ctx /\ g.exiting = Top.exiting
  BY <1>1, <1>2 DEF GoesTo
<1>5. Owning(Top) /\ Owning(g)
  BY <1>1, <1>3, <1>4 DEF Owning, FrameOK
<1>6. Len(stk') = Depth /\ stk'[Depth] = g /\ \A n \in 1..(Depth - 1) : stk'[n] = stk[n]
  BY <1>2, TopWentOn
<1>7. \A n \in 1..Depth : n = Depth \/ n \in 1..(Depth - 1)
  BY <1>3
<1>8. OwningIn(stk') = OwningIn(stk) /\ Depth \in OwningIn(stk)
  BY <1>3, <1>5, <1>6, <1>7 DEF OwningIn
<1>9. \A n \in OwningIn(stk) \ {Depth} : stk'[n] = stk[n]
  BY <1>3, <1>6, <1>7 DEF OwningIn
<1>10. Top'.pc # "unwind"
  BY <1>1, <1>4, <1>6 DEF Top, Depth
<1>11. \A n \in OwningIn(stk) \ {Depth} : Kept(stk[n].ctx)
  BY <1>10, TouchKeeps
<1>12. running
  BY <1>1 DEF running
<1> QED
  BY <1>3, <1>4, <1>6, <1>8, <1>9, <1>11, <1>12 DEF Runs, SameAct

\* EmuThunkPost: the activation has run, and will be left.
LEMMA ThunkPostLess ==
  ASSUME Inv, PoolInv, RegInv, ThunkPost
  PROVE  Less
<1>1. /\ Top.kind = "run" /\ Top.pc = "thunkpost" /\ "restore" \in RunPcs /\ At("thunkpost")
      /\ Goto("restore") /\ uc' = Touch(CpuOf[Top.ctx]) /\ UNCHANGED <<list, saved>>
  BY DEF ThunkPost, At, RunPcs
<1>2. PICK g : GoesTo(Top, g, "restore", Top.pend, Top.exiting) /\ Cut(stk, stk', Depth, g)
  BY <1>1, GotoCut DEF Inv
<1>3. g.pc = "restore" /\ g.ctx = Top.ctx /\ Top = stk[Depth]
  BY <1>2 DEF GoesTo, Top
<1>4. ~Owning(g) /\ Top'.pc # "unwind" /\ Depth \notin OwningIn(stk')
  <2>1. Len(stk') = Depth /\ stk'[Depth] = g
    BY <1>2, TopWentOn
  <2> QED
    BY <1>3, <2>1 DEF Top, Depth, Owning, OwnedPcs, OwningIn
<1>5. \A n \in OwningIn(stk) \ {Depth} : Kept(stk[n].ctx)
  BY <1>1, <1>4, TouchKeeps
<1> QED
  BY <1>2, <1>3, <1>4, <1>5, LessCut

-----------------------------------------------------------------------------
(* Steps that save registers, put them back, or move contexts.             *)

\* A new activation gets a context that no other has.
LEMMA AllocLess ==
  ASSUME Inv, PoolInv, InHost, NEW c \in free, NEW i \in Images \cup {NoImage},
         AllocContext(c, i), UNCHANGED <<list, uc>>
  PROVE  Less
<1> DEFINE h == RunFrame(c, i)
<1>1. /\ Depth = Len(stk) /\ stk \in Seq(Frame) /\ c \in Ctxs /\ Top.pc = "code"
      /\ saved \in [Ctxs -> Regs \cup {NotSaved}]
  BY TopFacts DEF Inv, DataOK, InHost
<1>2. saved' = [saved EXCEPT ![c] = NotSaved] /\ stk' = Append(stk, h)
  BY DEF AllocContext
<1>3. h \in Frame /\ h.kind = "run" /\ h.pc = "start" /\ h.ctx = c
  BY <1>1, NewFrames
<1> HIDE DEF h
<1>4. Pushed(stk, stk', h)
  BY <1>1, <1>2, <1>3, AppendPushed
<1>5. ~Owning(h)
  BY <1>3 DEF Owning, OwnedPcs
<1>6. Top' = h
  BY <1>4 DEF Pushed, Top, Depth
<1>7. Chain = list /\ Chain' = list
  BY <1>1, <1>3, <1>6 DEF Chain
<1>8. \A k \in DOMAIN list : saved'[list[k]] = saved[list[k]]
  <2>1. OnList(list) \cap free = {} /\ list \in Seq(Ctxs)
    BY TopPool DEF PoolInv, PoolOK, Apart
  <2>2. \A k \in DOMAIN list : list[k] # c /\ list[k] \in Ctxs
    BY <2>1 DEF OnList
  <2> QED
    BY <1>1, <1>2, <2>2
<1>9. ASSUME NEW x PROVE Kept(x)
  <2>1. list \in Seq(Ctxs)
    BY TopPool DEF PoolInv
  <2>2. Above(list, saved', x) = Above(list, saved, x)
    BY <1>8 DEF Above
  <2>3. \A m \in Above(list, saved, x) : saved'[list[m]] = saved[list[m]]
    BY <1>8 DEF Above
  <2> QED
    BY <1>7, <2>1, <2>2, <2>3, RegSame DEF Kept
<1> QED
  BY <1>4, <1>5, <1>9, LessPush

\* CpuEnterCritical: the newest context has saved nothing yet.
LEMMA EnterLess ==
  ASSUME Inv, PoolInv, RegInv, EnterCritical
  PROVE  Less
<1> DEFINE c == Top.ctx
           N == Len(list)
           l2 == Append(list, c)
<1>1. Top.kind = "run" /\ Top.pc = "start" /\ "entered" \in RunPcs /\ Goto("entered")
      /\ list' = l2 /\ UNCHANGED <<saved, uc>>
  BY DEF EnterCritical, At, RunPcs
<1>2. PICK g : GoesTo(Top, g, "entered", Top.pend, Top.exiting) /\ Cut(stk, stk', Depth, g)
  BY <1>1, GotoCut DEF Inv
<1>3. /\ Depth = Len(stk) /\ Top = stk[Depth] /\ list \in Seq(Ctxs) /\ c \in Ctxs
      /\ Depth \in 1..Len(stk)
  BY <1>1, TopPool DEF PoolInv
<1>4. g.kind = "run" /\ g.ctx = c /\ g.pc = "entered"
  BY <1>1, <1>2 DEF GoesTo
<1>5. RegsOK(stk, list, saved, uc)
  BY <1>1, FromRegInv
<1>6. saved[c] = NotSaved
  BY <1>1, <1>3, <1>5 DEF RegsOK, Prepared, Unsaving
<1>7. N \in Nat /\ DOMAIN list = 1..N /\ DOMAIN l2 = 1..(N + 1) /\ l2[N + 1] = c
      /\ \A k \in 1..N : l2[k] = list[k]
  BY <1>3
<1>8. Top' = g
  BY <1>2, TopWentOn DEF Top, Depth
<1>9. Chain = list /\ Chain' = l2
  BY <1>1, <1>4, <1>8 DEF Chain
<1>10. ~Owning(g)
  BY <1>4 DEF Owning, OwnedPcs
<1> HIDE DEF N, l2
<1>11. ASSUME NEW x PROVE Kept(x)
  <2>1. \A m \in Above(l2, saved, x) : m \in 1..N
    BY <1>6, <1>7 DEF Above
  <2>2. ASSUME NEW m \in 1..N PROVE m \in Above(l2, saved, x) <=> m \in Above(list, saved, x)
    <3>1. m \in DOMAIN list /\ m \in DOMAIN l2 /\ l2[m] = list[m]
      BY <1>7
    <3>2. \A j \in 1..(m - 1) : l2[j] = list[j]
      BY <1>7
    <3> QED
      BY <3>1, <3>2 DEF Above
  <2>3. \A m \in Above(list, saved, x) : m \in 1..N
    BY <1>7 DEF Above
  <2>4. Above(l2, saved, x) = Above(list, saved, x)
    BY <2>1, <2>2, <2>3
  <2>5. \A m \in Above(list, saved, x) : saved[l2[m]] = saved[list[m]]
    BY <1>7, <2>3
  <2> QED
    BY <1>1, <1>3, <1>9, <2>4, <2>5, RegSame DEF Kept
<1> QED
  BY <1>2, <1>3, <1>4, <1>10, <1>11, LessCut

\* CpuLeaveCritical: the newest context has put back what it saved.
LEMMA LeaveLess ==
  ASSUME Inv, PoolInv, RegInv, LeaveCritical
  PROVE  Less
<1> DEFINE c == Top.ctx
           K == Len(list)
           l2 == SubSeq(list, 1, K - 1)
<1>1. Top.kind = "run" /\ Top.pc = "leave" /\ "left" \in RunPcs /\ "leave" \in Steady
      /\ UNCHANGED <<saved, uc>>
  BY DEF LeaveCritical, At, RunPcs, Steady
<1>2. /\ Depth = Len(stk) /\ Top = stk[Depth] /\ FrameOK(Top) /\ Depth \in 1..Len(stk)
      /\ Clear(Top, saved)
  BY TopPool DEF PoolInv
<1>3. Tidy(Top) /\ saved[c] = NotSaved
  BY <1>1, <1>2, SteadyFrames DEF Tidy, Clear
<1>4. TopPlace(c, K)
  BY <1>3, TopPlaced
<1>5. list' = l2 /\ Goto("left")
  BY <1>3, NewestTidy, Zenon DEF LeaveCritical
<1>6. PICK g : GoesTo(Top, g, "left", Top.pend, Top.exiting) /\ Cut(stk, stk', Depth, g)
  BY <1>1, <1>5, GotoCut DEF Inv
<1>7. g.kind = "run" /\ g.ctx = c /\ g.pc = "left"
  BY <1>1, <1>6 DEF GoesTo
<1>8. DOMAIN l2 = 1..(K - 1) /\ \A k \in 1..(K - 1) : l2[k] = list[k] /\ k \in 1..K
  <2>1. list \in Seq(Ctxs) /\ Len(list) \in Nat \ {0}
    BY <1>4 DEF TopPlace
  <2> QED
    BY <2>1
<1>9. ~Owning(g)
  BY <1>7 DEF Owning, OwnedPcs
<1>10. Chain = list /\ Chain' = l2
  <2>1. Top' = g
    BY <1>6, TopWentOn DEF Top, Depth
  <2> QED
    BY <1>1, <1>5, <1>7, <2>1 DEF Chain
<1> HIDE DEF c, K, l2
<1>11. list \in Seq(Ctxs) /\ K \in Nat /\ DOMAIN list = 1..K /\ saved[list[K]] = NotSaved
  BY <1>3, <1>4 DEF TopPlace
<1>12. ASSUME NEW x PROVE Kept(x)
  <2>1. \A m \in Above(list, saved, x) : m \in 1..(K - 1)
    <3>1. \A m \in DOMAIN list : m = K \/ m \in 1..(K - 1)
      BY <1>11
    <3> QED
      BY <1>11, <3>1 DEF Above
  <2>2. ASSUME NEW m \in 1..(K - 1) PROVE m \in Above(l2, saved, x) <=> m \in Above(list, saved, x)
    <3>1. m \in DOMAIN list /\ m \in DOMAIN l2 /\ l2[m] = list[m]
      BY <1>8, <1>11
    <3>2. \A j \in 1..(m - 1) : l2[j] = list[j]
      BY <1>8, <1>11
    <3> QED
      BY <3>1, <3>2 DEF Above
  <2>3. \A m \in Above(l2, saved, x) : m \in 1..(K - 1)
    BY <1>8 DEF Above
  <2>4. Above(l2, saved, x) = Above(list, saved, x)
    BY <2>1, <2>2, <2>3
  <2>5. \A m \in Above(list, saved, x) : saved[l2[m]] = saved[list[m]]
    BY <1>8, <2>1
  <2> QED
    BY <1>1, <1>10, <1>11, <2>4, <2>5, RegSame DEF Kept
<1> QED
  BY <1>2, <1>6, <1>7, <1>9, <1>12, LessCut DEF c

\* CpuCompressLeakedContexts takes contexts off the list, not off the chain.
LEMMA CompressBeginLess ==
  ASSUME Inv, PoolInv, PoolInv', RegInv, CompressBegin
  PROVE  Less
<1> DEFINE at == {n \in DOMAIN list : list[n] = Top.ctx}
<1>1. Top.kind = "run" /\ Top.pc = "compress" /\ "unwind" \in RunPcs /\ UNCHANGED <<saved, uc>>
  BY DEF CompressBegin, At, RunPcs
<1>2. /\ Depth = Len(stk) /\ Top = stk[Depth] /\ list \in Seq(Ctxs) /\ Depth \in 1..Len(stk)
  BY TopPool DEF PoolInv
<1>3. PICK n \in at :
        LET keep == IF Top.exiting THEN n - 1 ELSE n IN
        /\ list' = SubSeq(list, 1, keep)
        /\ stk' = [stk EXCEPT ![Depth].pend = SubSeq(list, keep + 1, Len(list)),
                              ![Depth].pc = "unwind"]
  <2>1. fault' # "walk"
    BY DEF PoolInv
  <2> QED
    BY <2>1, Zenon DEF CompressBegin
<1> DEFINE keep == IF Top.exiting THEN n - 1 ELSE n
           rest == SubSeq(list, keep + 1, Len(list))
<1>4. keep \in 0..Len(list) /\ Len(list) \in Nat
  BY <1>2
<1>5. /\ stk' = [stk EXCEPT ![Depth].pend = rest, ![Depth].pc = "unwind"]
      /\ list' = SubSeq(list, 1, keep)
  BY <1>3
<1> HIDE DEF keep
<1>6. rest \in Seq(Ctxs) /\ SubSeq(list, 1, keep) \o rest = list
  <2>1. /\ 1 \in 1..(Len(list) + 1) /\ keep \in (1 - 1)..Len(list)
        /\ Len(list) \in keep..Len(list) /\ rest \in Seq(Ctxs)
    BY <1>2, <1>4
  <2>2. SubSeq(list, 1, keep) \o rest = SubSeq(list, 1, Len(list))
    BY <1>2, <2>1, ConcatAdjacentSubSeq
  <2>3. SubSeq(list, 1, Len(list)) = list
    BY <1>2, SubSeqFull
  <2> HIDE DEF rest
  <2> QED
    BY <2>1, <2>2, <2>3
<1> HIDE DEF rest
<1>7. PICK g : GoesTo(Top, g, "unwind", rest, Top.exiting) /\ Cut(stk, stk', Depth, g)
  BY <1>1, <1>5, <1>6, GotoPendCut DEF Inv
<1>8. g.kind = "run" /\ g.ctx = Top.ctx /\ g.pc = "unwind" /\ g.pend = rest
      /\ g.exiting = Top.exiting
  BY <1>1, <1>7 DEF GoesTo
<1>9. Chain' = list /\ Chain = list
  <2>1. Top' = g
    BY <1>7, TopWentOn DEF Top, Depth
  <2> QED
    BY <1>1, <1>5, <1>6, <1>8, <2>1 DEF Chain
<1>10. \A c : Kept(c)
  BY <1>1, <1>9 DEF Kept
<1>11. Owning(g) => Owning(stk[Depth])
  BY <1>1, <1>2, <1>8 DEF Owning, OwnedPcs
<1> QED
  BY <1>2, <1>7, <1>8, <1>10, <1>11, LessCut

\* Place K saves what the engine has, above all places of x that did before.
SavesLast(l, sv, sv2, u, x, K) ==
  /\ Above(l, sv2, x) = Above(l, sv, x) \cup {K}
  /\ \A m \in Above(l, sv, x) : m < K /\ sv2[l[m]] = sv[l[m]]
  /\ sv2[l[K]] = u[CpuOf[x]]

\* The top context saves what the activations below it find in the engine.
LEMMA RegSaved ==
  ASSUME NEW l \in Seq(Ctxs), NEW sv, NEW sv2, NEW u, NEW u2, NEW x, NEW K \in Nat,
         SavesLast(l, sv, sv2, u, x, K)
  PROVE  RegIn(l, sv2, u2, x) = RegIn(l, sv, u, x)
<1> DEFINE A == Above(l, sv, x)
<1>1. A \in SUBSET Nat
  BY AboveOnChain
<1> HIDE DEF A
<1>2. /\ Above(l, sv2, x) = A \cup {K} /\ \A m \in A : m < K /\ sv2[l[m]] = sv[l[m]]
      /\ sv2[l[K]] = u[CpuOf[x]]
  BY DEF A, SavesLast
<1>3. RegIn(l, sv2, u2, x) = sv2[l[Lowest(A \cup {K})]]
  BY <1>2 DEF RegIn
<1>4. CASE A = {}
  <2>1. {K} \in SUBSET Nat /\ \A j \in {K} : K <= j
    OBVIOUS
  <2>2. Lowest({K}) = K
    BY <2>1, LowestOf
  <2>3. A \cup {K} = {K}
    BY <1>4
  <2>4. RegIn(l, sv, u, x) = u[CpuOf[x]]
    BY <1>4 DEF RegIn, A
  <2> QED
    BY <1>2, <1>3, <2>2, <2>3, <2>4
<1>5. CASE A # {}
  <2> DEFINE m == Lowest(A)
             B == A \cup {K}
  <2>1. m \in A /\ \A j \in A : m <= j
    BY <1>1, <1>5, LowestIs
  <2>2. RegIn(l, sv, u, x) = sv[l[m]]
    BY <1>5 DEF RegIn, A
  <2> HIDE DEF m
  <2>3. m \in B /\ B \in SUBSET Nat /\ \A j \in B : m <= j
    <3>1. m \in Nat /\ m < K
      BY <1>1, <1>2, <2>1
    <3>2. m <= K
      BY <3>1
    <3> QED
      BY <1>1, <2>1, <3>2
  <2> HIDE DEF B
  <2>4. Lowest(B) = m
    BY <2>3, LowestOf
  <2> QED
    BY <1>2, <1>3, <2>1, <2>2, <2>4 DEF B
<1> QED
  BY <1>4, <1>5

\* Saving the engine for whoever is below on its Cpu, or resetting it.
LEMMA SaveOrResetLess ==
  ASSUME Inv, PoolInv, CountInv, RegInv, SaveOrReset
  PROVE  Less
<1> DEFINE c == Top.ctx
           p == CpuOf[c]
           K == Len(list)
<1>1. /\ Top.kind = "run" /\ Top.pc = "prepare" /\ Goto("thunkpre") /\ "thunkpre" \in RunPcs
      /\ "prepare" \in Steady /\ UNCHANGED list
      /\ \/ count[p] > 1 /\ saved' = [saved EXCEPT ![c] = uc[p]] /\ UNCHANGED uc
         \/ ~(count[p] > 1) /\ uc' = [uc EXCEPT ![p] = InitialState] /\ UNCHANGED saved
  BY DEF SaveOrReset, At, RunPcs, Steady
<1>2. PICK g : GoesTo(Top, g, "thunkpre", Top.pend, Top.exiting) /\ Cut(stk, stk', Depth, g)
  BY <1>1, GotoCut DEF Inv
<1>3. FrameOK(Top) /\ Depth \in 1..Len(stk) /\ Top = stk[Depth] /\ Depth = Len(stk)
  BY TopPool DEF PoolInv
<1>4. Tidy(Top)
  BY <1>1, <1>3, SteadyFrames DEF Tidy
<1>5. Below(c, K)
  BY <1>4, OthersBelow
<1>6. RegsOK(stk, list, saved, uc) /\ Chain = list
  BY <1>1, FromRegInv
<1>7. saved[c] = NotSaved
  BY <1>1, <1>3, <1>6 DEF RegsOK, Prepared, Unsaving
<1>8. /\ uc \in [Cpus -> Regs] /\ CpuOf \in [Ctxs -> Cpus]
      /\ saved \in [Ctxs -> Regs \cup {NotSaved}]
  BY CpuRunAssumption DEF Inv, DataOK
<1>9. g.kind = "run" /\ g.pc = "thunkpre" /\ g.ctx = c
  BY <1>1, <1>2 DEF GoesTo
<1>10. ~Owning(g) /\ ~Owning(Top) /\ Depth \notin OwningIn(stk)
  BY <1>1, <1>3, <1>9 DEF Owning, OwnedPcs, OwningIn
<1>11. Chain' = list
  <2>1. Top' = g
    BY <1>2, TopWentOn DEF Top, Depth
  <2> QED
    BY <1>1, <1>9, <2>1 DEF Chain
<1>12. ASSUME NEW n \in OwningIn(stk) PROVE Kept(stk[n].ctx)
  <2> DEFINE x == stk[n].ctx
  <2>1. n # Depth /\ TopPlace(c, K) /\ x \in Ctxs /\ x # c
    BY <1>5, <1>10 DEF Below
  <2>2. PICK k \in 1..(K - 1) : list[k] = x
    BY <1>5, <1>10 DEF Below
  <2>3. CASE ~(count[p] > 1)
    <3>1. uc' = [uc EXCEPT ![p] = InitialState] /\ UNCHANGED saved
      BY <1>1, <2>3
    <3>2. CpuOf[x] # CpuOf[c]
      BY <1>6, <2>1, <2>2, <2>3, AloneOnCpu
    <3>3. uc'[CpuOf[x]] = uc[CpuOf[x]]
      BY <1>8, <2>1, <3>1, <3>2
    <3> QED
      BY <1>5, <1>6, <1>11, <2>1, <3>1, <3>2, <3>3, EngineKept
  <2>4. CASE count[p] > 1
    <3>1. saved' = [saved EXCEPT ![c] = uc[p]] /\ UNCHANGED uc /\ p = CpuOf[c]
      BY <1>1, <2>4
    <3> HIDE DEF c, p, K, x
    <3>2. /\ K \in Nat /\ DOMAIN list = 1..K /\ list \in Seq(Ctxs) /\ list[K] = c /\ c \in Ctxs
          /\ \A m \in 1..K : list[m] = c => m = K
      BY <2>1 DEF TopPlace
    <3>3. p \in Cpus /\ uc[p] \in Regs /\ uc[p] # NotSaved
      <4>1. p \in Cpus /\ uc[p] \in Regs
        BY <1>8, <3>1, <3>2
      <4>2. PICK y \in Ctxs \cup {NoCtx}, z \in {0, 1} : uc[p] = <<y, z>>
        BY <4>1 DEF Regs
      <4>3. Len(<<y, z>>) = 2 /\ Len(<<>>) = 0
        OBVIOUS
      <4> QED
        BY <4>1, <4>2, <4>3 DEF NotSaved
    <3>4. saved'[c] = uc[p] /\ \A m \in 1..K : m # K => saved'[list[m]] = saved[list[m]]
      BY <1>8, <3>1, <3>2
    <3>5. \A m \in Above(list, saved, x) : m \in 1..K /\ m # K /\ m < K
      <4>1. K \notin Above(list, saved, x) /\ \A m \in Above(list, saved, x) : m \in 1..K
        BY <1>7, <2>1, <2>2, TopAbove
      <4> QED
        BY <3>2, <4>1
    <3>6. \A m \in 1..K : m # K => (m \in Above(list, saved', x) <=> m \in Above(list, saved, x))
      BY <3>2, <3>4 DEF Above
    <3>7. /\ K \in Above(list, saved', x) <=> CpuOf[x] = p
          /\ \A m \in Above(list, saved', x) : m \in 1..K
      <4>1. saved'[c] # NotSaved
        BY <3>3, <3>4
      <4>2. TopPlace(c, K)
        BY <2>1
      <4>3. /\ K \in Above(list, saved', x) <=> CpuOf[c] = CpuOf[x] /\ saved'[c] # NotSaved
            /\ \A m \in Above(list, saved', x) : m \in 1..K
        BY <2>2, <4>2, TopAbove
      <4> QED
        BY <3>1, <4>1, <4>3
    <3>8. CASE CpuOf[x] # p
      <4>1. Above(list, saved', x) = Above(list, saved, x)
        BY <3>5, <3>6, <3>7, <3>8
      <4>2. \A m \in Above(list, saved, x) : saved'[list[m]] = saved[list[m]]
        BY <3>4, <3>5
      <4>3. RegIn(list, saved', uc', x) = RegIn(list, saved, uc, x)
        <5>1. list \in Seq(Ctxs) /\ uc' = uc
          BY <3>1, <3>2
        <5> QED
          BY <4>1, <4>2, <5>1, RegSame
      <4> QED
        BY <1>6, <1>11, <4>3 DEF Kept, x
    <3>9. CASE CpuOf[x] = p
      <4>1. Above(list, saved', x) = Above(list, saved, x) \cup {K}
        <5>1. K \in Above(list, saved', x)
          BY <3>7, <3>9
        <5> QED
          BY <3>5, <3>6, <3>7, <5>1
      <4>2. \A m \in Above(list, saved, x) : m < K /\ saved'[list[m]] = saved[list[m]]
        BY <3>4, <3>5
      <4>3. saved'[list[K]] = uc[CpuOf[x]]
        BY <3>2, <3>4, <3>9
      <4>4. RegIn(list, saved', uc', x) = RegIn(list, saved, uc, x)
        <5>1. list \in Seq(Ctxs) /\ K \in Nat
          BY <3>2
        <5>2. SavesLast(list, saved, saved', uc, x, K)
          BY <4>1, <4>2, <4>3 DEF SavesLast
        <5> QED
          BY <5>1, <5>2, RegSaved
      <4> QED
        BY <1>6, <1>11, <4>4 DEF Kept, x
    <3> QED
      BY <3>8, <3>9
  <2> QED
    BY <2>3, <2>4
<1> QED
  BY <1>2, <1>3, <1>9, <1>10, <1>12, LessCut

\* The epilogue: what the context saved goes back to the engine.
LEMMA RestoreLess ==
  ASSUME Inv, PoolInv, RegInv, Restore
  PROVE  Less
<1> DEFINE c == Top.ctx
           p == CpuOf[c]
           K == Len(list)
<1>1. /\ Top.kind = "run" /\ Top.pc = "restore" /\ Goto("leave") /\ "leave" \in RunPcs
      /\ "restore" \in Steady /\ UNCHANGED list
      /\ uc' = IF saved[c] # NotSaved THEN [uc EXCEPT ![p] = saved[c]] ELSE uc
      /\ saved' = [saved EXCEPT ![c] = NotSaved]
  BY DEF Restore, At, RunPcs, Steady, HasSaved
<1>2. PICK g : GoesTo(Top, g, "leave", Top.pend, Top.exiting) /\ Cut(stk, stk', Depth, g)
  BY <1>1, GotoCut DEF Inv
<1>3. FrameOK(Top) /\ Depth \in 1..Len(stk) /\ Top = stk[Depth] /\ Depth = Len(stk)
  BY TopPool DEF PoolInv
<1>4. Tidy(Top)
  BY <1>1, <1>3, SteadyFrames DEF Tidy
<1>5. Below(c, K)
  BY <1>4, OthersBelow
<1>6. /\ uc \in [Cpus -> Regs] /\ CpuOf \in [Ctxs -> Cpus]
      /\ saved \in [Ctxs -> Regs \cup {NotSaved}]
  BY CpuRunAssumption DEF Inv, DataOK
<1>7. g.kind = "run" /\ g.pc = "leave" /\ g.ctx = c
  BY <1>1, <1>2 DEF GoesTo
<1>8. ~Owning(g) /\ ~Owning(Top) /\ Depth \notin OwningIn(stk)
  BY <1>1, <1>3, <1>7 DEF Owning, OwnedPcs, OwningIn
<1>9. Chain = list /\ Chain' = list
  <2>1. Top' = g
    BY <1>2, TopWentOn DEF Top, Depth
  <2> QED
    BY <1>1, <1>7, <2>1 DEF Chain
<1>10. ASSUME NEW n \in OwningIn(stk) PROVE Kept(stk[n].ctx)
  <2> DEFINE x == stk[n].ctx
             A == Above(list, saved, x)
             B == Above(list, saved', x)
  <2>1. n # Depth /\ TopPlace(c, K) /\ x \in Ctxs /\ x # c
    BY <1>5, <1>8 DEF Below
  <2>2. PICK k \in 1..(K - 1) : list[k] = x
    BY <1>5, <1>8 DEF Below
  <2>3. p = CpuOf[c]
    OBVIOUS
  <2> HIDE DEF c, p, K, x
  <2>4. /\ K \in Nat /\ DOMAIN list = 1..K /\ list \in Seq(Ctxs) /\ list[K] = c /\ c \in Ctxs
        /\ \A m \in 1..K : list[m] = c => m = K
    BY <2>1 DEF TopPlace
  <2>5. saved'[c] = NotSaved /\ \A m \in 1..K : m # K => saved'[list[m]] = saved[list[m]]
    BY <1>1, <1>6, <2>4
  <2>6. TopPlace(c, K)
    BY <2>1
  <2>7. /\ K \in A <=> CpuOf[c] = CpuOf[x] /\ saved[c] # NotSaved
        /\ \A m \in A : m \in 1..K
    BY <2>2, <2>6, TopAbove
  <2>8. /\ K \in B <=> CpuOf[c] = CpuOf[x] /\ saved'[c] # NotSaved
        /\ \A m \in B : m \in 1..K
    BY <2>2, <2>6, TopAbove
  <2>9. \A m \in 1..K : m # K => (m \in B <=> m \in A)
    BY <2>4, <2>5 DEF Above
  <2>10. K \notin B
    BY <2>5, <2>8
  <2> HIDE DEF A, B
  <2>11. CASE K \notin A
    <3>1. B = A
      BY <2>7, <2>8, <2>9, <2>10, <2>11
    <3>2. \A m \in A : saved'[list[m]] = saved[list[m]]
      BY <2>5, <2>7, <2>11
    <3>3. uc'[CpuOf[x]] = uc[CpuOf[x]]
      <4>1. CpuOf[x] # p \/ saved[c] = NotSaved
        BY <2>3, <2>7, <2>11
      <4> QED
        BY <1>1, <1>6, <2>1, <4>1
    <3>4. Above(list, saved', x) = Above(list, saved, x)
          /\ \A m \in Above(list, saved, x) : saved'[list[m]] = saved[list[m]]
      BY <3>1, <3>2 DEF A, B
    <3>5. list \in Seq(Ctxs)
      BY <2>4
    <3>6. RegIn(list, saved', uc', x) = RegIn(list, saved, uc, x)
      BY <3>3, <3>4, <3>5, RegSame
    <3> QED
      BY <1>9, <3>6 DEF Kept, x
  <2>12. CASE K \in A
    <3>1. A = B \cup {K}
      BY <2>7, <2>8, <2>9, <2>12
    <3>2. \A m \in B : m < K /\ saved[list[m]] = saved'[list[m]]
      <4>1. \A m \in B : m \in 1..K /\ m # K
        BY <2>8, <2>10
      <4> QED
        BY <2>4, <2>5, <4>1
    <3>3. CpuOf[x] = p /\ saved[c] # NotSaved /\ p \in Cpus
      BY <1>6, <2>3, <2>4, <2>7, <2>12
    <3>4. uc'[p] = saved[c]
      BY <1>1, <1>6, <3>3
    <3>5. Above(list, saved, x) = Above(list, saved', x) \cup {K}
      BY <3>1 DEF A, B
    <3>6. \A m \in Above(list, saved', x) : m < K /\ saved[list[m]] = saved'[list[m]]
      BY <3>2 DEF B
    <3>7. saved[list[K]] = uc'[CpuOf[x]]
      BY <2>4, <3>3, <3>4
    <3>8. list \in Seq(Ctxs) /\ K \in Nat
      BY <2>4
    <3>9. SavesLast(list, saved', saved, uc', x, K)
      BY <3>5, <3>6, <3>7 DEF SavesLast
    <3>10. RegIn(list, saved, uc, x) = RegIn(list, saved', uc', x)
      BY <3>8, <3>9, RegSaved
    <3> QED
      BY <1>9, <3>10 DEF Kept, x
  <2> QED
    BY <2>11, <2>12
<1> QED
  BY <1>2, <1>3, <1>7, <1>8, <1>10, LessCut

\* Unwinding the leaked contexts.
LEMMA CompressUnwindLess ==
  ASSUME Inv, PoolInv, RegInv, CompressUnwind
  PROVE  Less
<1> DEFINE d == Top.pend
           ch == list \o d
           N == Len(list)
<1>1. Top.kind = "run" /\ Top.pc = "unwind" /\ "free" \in RunPcs /\ Goto("free") /\ UNCHANGED list
      /\ uc' = [p \in Cpus |-> UnwoundUc(d, p)]
      /\ saved' = [c \in Ctxs |-> IF \E n \in DOMAIN d : d[n] = c THEN NotSaved ELSE saved[c]]
  BY DEF CompressUnwind, At, RunPcs
<1>2. PICK g : GoesTo(Top, g, "free", Top.pend, Top.exiting) /\ Cut(stk, stk', Depth, g)
  BY <1>1, GotoCut DEF Inv
<1>3. /\ Depth \in 1..Len(stk) /\ Len(stk) = Depth /\ Top = stk[Depth]
      /\ d \in Seq(Ctxs) /\ list \in Seq(Ctxs)
  BY TopPool DEF PoolInv
<1>4. g.kind = "run" /\ g.ctx = Top.ctx /\ g.pc = "free" /\ g.exiting = Top.exiting
  BY <1>1, <1>2 DEF GoesTo
<1>5. Chain = ch /\ Chain' = list
  <2>1. Top' = g
    BY <1>2, TopWentOn DEF Top, Depth
  <2> QED
    BY <1>1, <1>4, <2>1 DEF Chain
<1>6. \A k \in DOMAIN list, n \in DOMAIN d : list[k] # d[n]
  <2>1. Owns(Top) \cap OnList(list) = {}
    BY <1>3 DEF PoolInv, PoolOK, Apart
  <2> QED
    BY <2>1 DEF Owns, Pending, OnList
<1>7. CpuOf \in [Ctxs -> Cpus] /\ \A k \in DOMAIN list : list[k] \in Ctxs
  BY <1>3, CpuRunAssumption
<1>8. /\ N \in Nat /\ DOMAIN list = 1..N /\ DOMAIN d = 1..Len(d) /\ Len(d) \in Nat
      /\ DOMAIN ch = 1..(N + Len(d)) /\ ch \in Seq(Ctxs)
      /\ \A k \in 1..N : ch[k] = list[k] /\ k \in DOMAIN ch
      /\ \A n \in 1..Len(d) : ch[N + n] = d[n] /\ N + n \in DOMAIN ch
      /\ \A m \in DOMAIN ch : m \in 1..N \/ (m - N \in 1..Len(d) /\ N + (m - N) = m)
  BY <1>3
<1>9. \A k \in DOMAIN list : saved'[list[k]] = saved[list[k]]
  BY <1>1, <1>6, <1>7
<1> HIDE DEF d, ch, N
<1>10. ASSUME NEW k \in DOMAIN list PROVE Kept(list[k])
  <2> DEFINE x == list[k]
             p == CpuOf[x]
             A == Above(ch, saved, x)
             B == Above(list, saved', x)
             kept == {n \in OnCpu(d, p) : saved[d[n]] # NotSaved}
  <2>1. p \in Cpus /\ uc'[p] = UnwoundUc(d, p) /\ k \in 1..N /\ x \in Ctxs
    BY <1>1, <1>7, <1>8
  <2>2. /\ kept = {} => UnwoundUc(d, p) = uc[p]
        /\ kept # {} => \E n \in kept : (\A m \in kept : n <= m) /\ UnwoundUc(d, p) = saved[d[n]]
    BY <1>3, UnwoundRegisters
  <2>3. p = CpuOf[x] /\ list[k] = x
    OBVIOUS
  <2> HIDE DEF x, p
  <2>4. ASSUME NEW m \in 1..N PROVE m \in A <=> m \in B
    <3>1. m \in DOMAIN ch /\ m \in DOMAIN list /\ ch[m] = list[m] /\ saved'[list[m]] = saved[list[m]]
      BY <1>8, <1>9
    <3>2. \A j \in 1..(m - 1) : ch[j] = list[j]
      BY <1>8
    <3> QED
      BY <3>1, <3>2 DEF Above
  <2>5. \A m \in B : m \in 1..N
    BY <1>8 DEF Above
  <2>6. ASSUME NEW n \in kept PROVE N + n \in A /\ ch[N + n] = d[n] /\ n \in Nat /\ n >= 1
    <3>1. n \in 1..Len(d) /\ CpuOf[d[n]] = p /\ saved[d[n]] # NotSaved
      BY <1>8 DEF OnCpu
    <3> DEFINE m == N + n
    <3>2. ch[m] = d[n] /\ m \in DOMAIN ch
      BY <1>8, <3>1
    <3>3. m = N + n /\ n \in Nat /\ n >= 1 /\ m \in Nat
      BY <1>8, <3>1
    <3> HIDE DEF m
    <3>4. k \in 1..(m - 1) /\ ch[k] = x
      BY <1>8, <2>1, <2>3, <3>3
    <3>5. m \in A
      BY <2>3, <3>1, <3>2, <3>4 DEF Above
    <3> QED
      BY <3>2, <3>3, <3>5
  <2>7. ASSUME NEW m \in A PROVE m \in B \/ (m - N \in kept /\ N + (m - N) = m)
    <3>1. m \in DOMAIN ch /\ CpuOf[ch[m]] = p /\ saved[ch[m]] # NotSaved
      BY <2>3 DEF Above
    <3>2. CASE m \in 1..N
      BY <2>4, <2>7, <3>2
    <3>3. CASE m - N \in 1..Len(d) /\ N + (m - N) = m
      <4>1. ch[m] = d[m - N]
        BY <1>8, <3>3
      <4> QED
        BY <1>8, <3>1, <3>3, <4>1 DEF OnCpu
    <3> QED
      BY <1>8, <3>1, <3>2, <3>3
  <2>8. A \in SUBSET Nat /\ B \in SUBSET Nat
    BY <1>3, <1>8, AboveOnChain
  <2>9. RegIn(ch, saved, uc, x) = IF A = {} THEN uc[p] ELSE saved[ch[Lowest(A)]]
    BY <2>3 DEF RegIn
  <2>10. RegIn(list, saved', uc', x) = IF B = {} THEN uc'[p] ELSE saved'[list[Lowest(B)]]
    BY <2>3 DEF RegIn
  <2> HIDE DEF A, B, kept
  <2>11. CASE B # {}
    <3> DEFINE m == Lowest(B)
    <3>1. m \in B /\ \A j \in B : m <= j
      BY <2>8, <2>11, LowestIs
    <3> HIDE DEF m
    <3>2. m \in 1..N /\ m \in A
      BY <2>4, <2>5, <3>1
    <3>3. ASSUME NEW j \in A PROVE m <= j
      <4>1. CASE j \in B
        BY <3>1, <4>1
      <4>2. CASE j - N \in kept /\ N + (j - N) = j
        <5>1. j - N \in Nat
          BY <2>6, <4>2
        <5> QED
          BY <1>8, <3>2, <4>2, <5>1
      <4> QED
        BY <2>7, <4>1, <4>2
    <3>4. Lowest(A) = m
      BY <2>8, <3>2, <3>3, LowestOf
    <3>5. saved'[list[m]] = saved[ch[m]]
      BY <1>8, <1>9, <3>2
    <3> QED
      BY <1>5, <2>3, <2>9, <2>10, <2>11, <3>2, <3>4, <3>5 DEF Kept, m
  <2>12. CASE B = {} /\ kept = {}
    <3>1. A = {}
      BY <2>7, <2>12
    <3> QED
      BY <1>5, <2>1, <2>2, <2>3, <2>9, <2>10, <2>12, <3>1 DEF Kept
  <2>13. CASE B = {} /\ kept # {}
    <3>1. PICK n \in kept : (\A m \in kept : n <= m) /\ UnwoundUc(d, p) = saved[d[n]]
      BY <2>2, <2>13
    <3>2. N + n \in A /\ ch[N + n] = d[n] /\ n \in Nat
      BY <2>6
    <3>3. ASSUME NEW j \in A PROVE N + n <= j
      <4>1. j - N \in kept /\ N + (j - N) = j
        BY <2>7, <2>13
      <4>2. n <= j - N /\ j - N \in Nat
        BY <2>6, <3>1, <4>1
      <4> QED
        BY <1>8, <3>2, <4>1, <4>2
    <3>4. Lowest(A) = N + n
      BY <2>8, <3>2, <3>3, LowestOf
    <3>5. A # {}
      BY <3>2
    <3> QED
      BY <1>5, <2>1, <2>3, <2>9, <2>10, <2>13, <3>1, <3>2, <3>4, <3>5 DEF Kept
  <2> QED
    BY <2>11, <2>12, <2>13
<1>11. ASSUME NEW n \in OwningIn(stk) PROVE Kept(stk[n].ctx)
  <2>1. n \in 1..Len(stk) /\ Owning(stk[n]) /\ stk[n].kind = "run"
    BY DEF OwningIn, Owning
  <2>2. PICK k \in DOMAIN list : list[k] = stk[n].ctx
    BY <2>1, FramesListed DEF PoolInv, PoolOK, ListOK, LiveOnList
  <2> QED
    BY <1>10, <2>2
<1>12. Owning(g) => Owning(stk[Depth])
  BY <1>1, <1>3, <1>4 DEF Owning, OwnedPcs
<1> QED
  BY <1>2, <1>3, <1>4, <1>11, <1>12, LessCut

-----------------------------------------------------------------------------
(* Every step.                                                             *)

LEMMA HostStepLess ==
  ASSUME Release, Inv, PoolInv, HostStep
  PROVE  Less
<1>1. CASE RunFunc
  <2>1. PICK c \in free : AllocContext(c, NoImage)
    BY <1>1 DEF RunFunc
  <2> QED
    BY <1>1, <2>1, AllocLess DEF RunFunc
<1>2. CASE RunImage
  <2>1. PICK i \in Images, c \in free : AllocContext(c, i)
    BY <1>2 DEF RunImage
  <2> QED
    BY <1>2, <2>1, AllocLess DEF RunImage, MayStartImage
<1>3. ASSUME UNCHANGED <<stk, list, saved, uc>> PROVE Less
  <2>1. \A c : Kept(c)
    BY <1>3 DEF Kept, Chain, Top, Depth
  <2> QED
    BY <1>3, <2>1 DEF Less, SameAct, OwningIn
<1>4. CASE RunImageExhausted
  BY <1>3, <1>4 DEF RunImageExhausted, cpuVars
<1>5. CASE SetInterrupt
  BY <1>3, <1>5 DEF SetInterrupt, cpuVars
<1>6. Top.kind # "run" => Top.pc # "unwind"
  BY TopFacts DEF Inv
<1>7. CASE EventReturn
  <2>1. /\ Top.kind = "event" /\ stk' = SubSeq(stk, 1, Depth - 1)
        /\ UNCHANGED <<list, saved, uc>>
    BY <1>7 DEF EventReturn, cpuVars
  <2>2. Depth - 1 \in 1..(Depth - 1)
    BY <2>1, TopFacts DEF Inv
  <2> QED
    BY <1>6, <2>1, <2>2, LessStepBack
<1>8. CASE LongJump
  <2>1. PICK t \in 1..(Depth - 1) : stk' = SubSeq(stk, 1, t)
    BY <1>8 DEF LongJump
  <2>2. Top.kind = "native" /\ UNCHANGED <<list, saved, uc>>
    BY <1>8 DEF LongJump, cpuVars
  <2> QED
    BY <1>6, <2>1, <2>2, LessStepBack
<1>9. CASE ReturnHost
  <2> DEFINE t == Depth - 1
             rest == SubSeq(stk, 1, t)
  <2>1. /\ Top.kind = "native" /\ Depth > 1
        /\ stk' = IF stk[t].kind = "run" /\ stk[t].pc = "native"
                    THEN [rest EXCEPT ![t].pc = "check"] ELSE rest
        /\ UNCHANGED <<list, saved, uc>>
    BY <1>9 DEF ReturnHost, cpuVars
  <2>2. t \in 1..Len(stk) /\ t \in 1..(Depth - 1) /\ "check" \in RunPcs
    BY <2>1, TopFacts DEF Inv, RunPcs
  <2>3. CASE ~(stk[t].kind = "run" /\ stk[t].pc = "native")
    BY <1>6, <2>1, <2>2, <2>3, LessStepBack
  <2>4. CASE stk[t].kind = "run" /\ stk[t].pc = "native"
    <3>1. stk' = [rest EXCEPT ![t].pc = "check"]
      BY <2>1, <2>4
    <3>2. stk[t].exiting \in BOOLEAN
      <4>1. stk[t] \in Frame
        BY <2>2, TopPool DEF PoolInv
      <4> QED
        BY <4>1 DEF Frame
    <3> HIDE DEF t
    <3>3. PICK g : GoesTo(stk[t], g, "check", stk[t].pend, stk[t].exiting) /\ Cut(stk, stk', t, g)
      BY <2>2, <3>1, BackCut DEF Inv
    <3>4. [from |-> "native", to |-> "check"] \in Moves
      BY DEF Moves
    <3>5. GetsNoMore(stk[t], g) /\ g.pc # "unwind"
      BY <2>4, <3>2, <3>3, <3>4, MoveGetsNoMore
    <3> QED
      BY <1>6, <2>1, <3>3, <3>5, LessStepCut
  <2> QED
    BY <2>3, <2>4
<1>10. CASE Event
  <2> DEFINE h == HostFrame("event")
  <2>1. stk' = Append(stk, h) /\ UNCHANGED <<list, saved, uc>>
    BY <1>10 DEF Event, cpuVars
  <2>2. Top.pc # "unwind"
    <3>1. ignore = 0
      BY <1>10 DEF Event, TakeInterrupt, Inv, CritInv
    <3>2. TopPc(stk) \notin CriticalPcs /\ TopPc(stk) = Top.pc
      BY <3>1, TopFacts DEF Inv, CritInv
    <3> QED
      BY <3>2 DEF CriticalPcs
  <2>3. h \in Frame /\ h.kind = "event" /\ h.pc = "code"
    BY NewFrames
  <2> HIDE DEF h
  <2>4. Pushed(stk, stk', h)
    BY <2>1, <2>3, AppendPushed, TopFacts DEF Inv
  <2>5. ~Owning(h)
    BY <2>3 DEF Owning
  <2> QED
    BY <2>1, <2>2, <2>3, <2>4, <2>5, LessStepPush
<1> QED
  BY <1>1, <1>2, <1>4, <1>5, <1>7, <1>8, <1>9, <1>10 DEF HostStep, CallHost, Release

\* NativeThunk calls native code.
LEMMA CallNativeLess ==
  ASSUME Inv, PoolInv, CallNative
  PROVE  Less
<1> DEFINE s == [stk EXCEPT ![Depth].pc = "native"]
           h == HostFrame("native")
<1>1. Top.kind = "run" /\ Top.pc = "call" /\ "native" \in RunPcs /\ stk' = Append(s, h)
      /\ UNCHANGED <<list, saved, uc>>
  BY DEF CallNative, At, RunPcs, cpuVars
<1>2. /\ Depth = Len(stk) /\ Top = stk[Depth] /\ Depth \in 1..Len(stk) /\ stk \in Seq(Frame)
      /\ Top.exiting \in BOOLEAN
  BY TopFacts DEF Inv, Frame
<1>3. SubSeq(stk, 1, Depth) = stk
  BY <1>2, SubSeqFull
<1>4. PICK g : GoesTo(Top, g, "native", Top.pend, Top.exiting) /\ Cut(stk, s, Depth, g)
  BY <1>1, <1>2, <1>3, BackCut DEF Inv
<1> HIDE DEF s
<1>5. g.kind = "run" /\ g.pc = "native" /\ g.ctx = Top.ctx /\ g.exiting = Top.exiting
  BY <1>1, <1>4 DEF GoesTo
<1>6. Owning(g) <=> Owning(Top)
  BY <1>1, <1>5 DEF Owning, OwnedPcs
<1>7. h \in Frame /\ h.kind = "native" /\ h.pc = "code"
  BY NewFrames
<1> HIDE DEF h
<1>8. s \in Seq(Frame) /\ Len(s) = Depth /\ s[Depth] = g /\ \A n \in 1..(Depth - 1) : s[n] = stk[n]
  BY <1>4 DEF Cut
<1>9. Len(stk') = Depth + 1 /\ stk'[Depth + 1] = h /\ \A n \in 1..Depth : stk'[n] = s[n]
  BY <1>1, <1>2, <1>7, <1>8
<1>10. \A c : Kept(c)
  <2>1. Top' = h
    BY <1>9 DEF Top, Depth
  <2> QED
    BY <1>1, <1>7, <2>1, KeptAll
<1>11. \A n \in 1..Depth : (Owning(stk'[n]) <=> Owning(stk[n])) /\ stk'[n].ctx = stk[n].ctx
  <2>1. \A n \in 1..Depth : n = Depth \/ n \in 1..(Depth - 1)
    BY <1>2
  <2> QED
    BY <1>2, <1>5, <1>6, <1>8, <1>9, <2>1
<1>12. OwningIn(stk') = OwningIn(stk)
  <2>1. ~Owning(h)
    BY <1>7 DEF Owning
  <2>2. \A n \in 1..(Depth + 1) : n = Depth + 1 \/ n \in 1..Depth
    BY <1>2
  <2>3. \A n \in 1..Depth : n \in 1..(Depth + 1)
    BY <1>2
  <2> QED
    BY <1>2, <1>9, <1>11, <2>1, <2>2, <2>3 DEF OwningIn
<1> QED
  BY <1>2, <1>10, <1>11, <1>12 DEF Less, SameAct, OwningIn

\* CpuExitImage leaves everything above the activation of the image.
LEMMA ExitImageLess ==
  ASSUME Inv, PoolInv, PoolInv', ExitImage
  PROVE  Less
<1>1. Top.kind = "run" /\ Top.pc = "call" /\ At("call") /\ UNCHANGED <<list, saved, uc>>
  BY DEF ExitImage, At, cpuVars
<1>2. CASE Goto("check")
  <2>1. [from |-> "call", to |-> "check"] \in Moves
    BY DEF Moves
  <2> QED
    BY <1>1, <1>2, <2>1, LessStepGoto
<1>3. ASSUME NEW n, NEW t \in ImageFrames(list[n]),
             stk' = [SubSeq(stk, 1, t) EXCEPT ![t].pc = "compress", ![t].exiting = TRUE]
      PROVE  Less
  <2>1. t \in 1..Len(stk) /\ stk[t].kind = "run" /\ "compress" \in RunPcs
    BY TopFacts DEF ImageFrames, RunPcs, Inv
  <2>2. PICK g : GoesTo(stk[t], g, "compress", stk[t].pend, TRUE) /\ Cut(stk, stk', t, g)
    BY <1>3, <2>1, BackCut DEF Inv
  <2>3. GetsNoMore(stk[t], g) /\ g.pc # "unwind"
    BY <2>2 DEF GoesTo, GetsNoMore, Owning, Unsaving
  <2> QED
    BY <1>1, <2>2, <2>3, LessStepCut
<1>4. fault' = "none"
  BY DEF PoolInv
<1> QED
  BY <1>2, <1>3, <1>4, Zenon DEF ExitImage

\* Every step of CpuRunCtxInternal and the functions it calls is one of the three.
LEMMA EmuStepActs ==
  ASSUME Release, Inv, PoolInv, PoolInv', CountInv, RegInv, EmuStep
  PROVE  Less \/ Runs \/ (Starts /\ Depth' = Depth)
<1>1. /\ [from |-> "loop", to |-> "jit"] \in Moves
      /\ \A q \in {"loop", "call", "thunkpost", "restore"} : [from |-> "decode", to |-> q] \in Moves
      /\ \A q \in {"result", "compress"} : [from |-> "check", to |-> q] \in Moves
      /\ \A q \in {"free", "result", "exit"} : [from |-> "free", to |-> q] \in Moves
      /\ [from |-> "entered", to |-> "prepare"] \in Moves
      /\ [from |-> "orphans", to |-> "prepare"] \in Moves
      /\ [from |-> "left", to |-> "done"] \in Moves
  BY DEF Moves
<1>2. CASE DetectOrphans
  <2>1. Top.kind = "run" /\ Top.pc = "entered" /\ Orphans = <<>> /\ UNCHANGED <<list, saved, uc>>
    BY <1>2 DEF DetectOrphans, At, Orphans, Release
  <2>2. stk' = [stk EXCEPT ![Depth].pend = <<>>, ![Depth].pc = "prepare"]
    BY <1>2, <2>1 DEF DetectOrphans
  <2>3. "prepare" \in RunPcs /\ <<>> \in Seq(Ctxs) /\ Top = stk[Depth] /\ Top.exiting \in BOOLEAN
    BY TopFacts DEF RunPcs, Inv, Frame
  <2>4. PICK g : GoesTo(Top, g, "prepare", <<>>, Top.exiting) /\ Cut(stk, stk', Depth, g)
    BY <2>1, <2>2, <2>3, GotoPendCut DEF Inv
  <2>5. GetsNoMore(Top, g) /\ g.pc # "unwind"
    BY <1>1, <2>1, <2>3, <2>4, MoveGetsNoMore
  <2> QED
    BY <2>1, <2>3, <2>4, <2>5, LessStepCut
<1>3. CASE FreeOrphan
  <2>1. At("orphans")
    BY <1>3 DEF FreeOrphan, FreePending
  <2>2. Goto("prepare") /\ UNCHANGED <<list, saved, uc>>
    BY <1>3, NoOrphans
  <2> QED
    BY <1>1, <2>1, <2>2, LessStepGoto
<1>4. CASE EmuStart
  BY <1>1, <1>4, LessStepGoto DEF EmuStart, cpuVars
<1>5. CASE EmuStop
  BY <1>5, TouchRuns DEF EmuStop
<1>6. CASE Decode
  <2>1. PICK q \in {"loop", "call", "thunkpost", "restore"} : Goto(q)
    BY <1>6 DEF Decode
  <2> QED
    BY <1>1, <1>6, <2>1, LessStepGoto DEF Decode, cpuVars
<1>7. CASE CheckLeaked
  <2>1. PICK q \in {"result", "compress"} : Goto(q)
    BY <1>7 DEF CheckLeaked
  <2> QED
    BY <1>1, <1>7, <2>1, LessStepGoto DEF CheckLeaked, cpuVars
<1>8. CASE FreeLeaked
  <2> DEFINE n == Len(Top.pend)
             d == SubSeq(Top.pend, 1, n - 1)
             q == IF n <= 1 THEN (IF Top.exiting THEN "exit" ELSE "result") ELSE "free"
  <2>1. Top.kind = "run" /\ Top.pc = "free"
        /\ stk' = [stk EXCEPT ![Depth].pend = d, ![Depth].pc = q] /\ UNCHANGED <<list, saved, uc>>
    BY <1>8, Zenon DEF FreeLeaked, FreePending, At
  <2>2. q \in {"free", "result", "exit"} /\ q \in RunPcs
    BY DEF RunPcs
  <2>3. Top = stk[Depth] /\ Top.exiting \in BOOLEAN /\ d \in Seq(Ctxs)
    <3>1. Top \in Frame /\ Top = stk[Depth]
      BY TopFacts DEF Inv
    <3>2. Top.pend \in Seq(Ctxs) /\ n \in Nat
      BY <3>1 DEF Frame
    <3> QED
      BY <3>1, <3>2, <2>1 DEF Frame
  <2> HIDE DEF q, d, n
  <2>4. PICK g : GoesTo(Top, g, q, d, Top.exiting) /\ Cut(stk, stk', Depth, g)
    BY <2>1, <2>2, <2>3, GotoPendCut DEF Inv
  <2>5. GetsNoMore(Top, g) /\ g.pc # "unwind"
    BY <1>1, <2>1, <2>2, <2>3, <2>4, MoveGetsNoMore
  <2> QED
    BY <2>1, <2>3, <2>4, <2>5, LessStepCut
<1>9. CASE WriteResult
  BY <1>9, TouchRuns DEF WriteResult
<1>10. ASSUME NEW p \in {"exit", "done"}, At(p), stk' = SubSeq(stk, 1, Depth - 1),
              UNCHANGED <<list, saved, uc>>
       PROVE  Less
  <2>1. Top.pc # "unwind" /\ Depth - 1 \in 1..(Depth - 1)
    BY <1>10, TopFacts DEF Inv, At
  <2> QED
    BY <1>10, <2>1, LessStepBack
<1>11. CASE NativeExit
  BY <1>10, <1>11 DEF NativeExit, cpuVars
<1>12. CASE Return
  BY <1>10, <1>12 DEF Return
<1>13. CASE LeaveEnd
  <2>1. Top.kind = "run" /\ Top.pc = "left" /\ "done" \in RunPcs /\ UNCHANGED <<list, saved, uc>>
    BY <1>13 DEF LeaveEnd, At, RunPcs, cpuVars
  <2>2. stk' = [SubSeq(stk, 1, Depth) EXCEPT ![Depth].pc = "done"]
    BY <1>13, Zenon DEF LeaveEnd, Release
  <2>3. Depth \in 1..Len(stk) /\ Top = stk[Depth] /\ Top.exiting \in BOOLEAN
    BY TopFacts DEF Inv, Frame
  <2>4. PICK g : GoesTo(Top, g, "done", Top.pend, Top.exiting) /\ Cut(stk, stk', Depth, g)
    BY <2>1, <2>2, <2>3, BackCut DEF Inv
  <2>5. GetsNoMore(Top, g) /\ g.pc # "unwind"
    BY <1>1, <2>1, <2>3, <2>4, MoveGetsNoMore
  <2> QED
    BY <2>1, <2>3, <2>4, <2>5, LessStepCut
<1> QED
  BY <1>2, <1>3, <1>4, <1>5, <1>6, <1>7, <1>8, <1>9, <1>11, <1>12, <1>13, EnterLess,
     SaveOrResetLess, ThunkPreStarts, CallNativeLess, ExitImageLess, CompressBeginLess,
     CompressUnwindLess, ThunkPostLess, RestoreLess, LeaveLess DEF EmuStep

\* Every step is one of the abstract specification, or stutters.
LEMMA NextActs ==
  ASSUME Release
  PROVE  Inv /\ PoolInv /\ PoolInv' /\ CountInv /\ RegInv /\ Mapped /\ Mapped' /\ [Next]_vars
         => [Abstract!Next]_(Abstract!vars)
<1> SUFFICES ASSUME Inv, PoolInv, PoolInv', CountInv, RegInv, Mapped, Mapped', [Next]_vars
             PROVE  [Abstract!Next]_(Abstract!vars)
  OBVIOUS
<1>1. running' \in BOOLEAN
  BY Zenon DEF running
<1>2. CASE Next
  <2>1. Less \/ Runs \/ (Starts /\ Depth' = Depth)
    BY <1>2, HostStepLess, EmuStepActs DEF Next
  <2> QED
    BY <1>1, <2>1, LessIsAbstract, RunsIsAbstract, StartsIsAbstract DEF Abstract!Next
<1>3. CASE UNCHANGED vars
  <2>1. running' = running
    BY <1>3, Zenon DEF running, Top, Depth, vars
  <2>2. ActsIn(stk', Chain', saved', uc') = ActsIn(stk, Chain, saved, uc)
    BY <1>3, Zenon DEF Chain, Top, Depth, vars, cpuVars
  <2> QED
    BY <2>1, <2>2 DEF Mapped, Abstract!vars
<1> QED
  BY <1>2, <1>3

\* At first there are no activations.
LEMMA InitActs == Init /\ Mapped => Abstract!Init
<1> SUFFICES ASSUME Init, Mapped PROVE Abstract!Init
  OBVIOUS
<1>1. Len(stk) = 1 /\ stk[1] = HostFrame("native")
  BY DEF Init
<1>2. OwningIn(stk) = {} /\ Top.kind = "native"
  BY <1>1 DEF HostFrame, OwningIn, Owning, Top, Depth
<1>3. Cardinality(OwningIn(stk)) = 0
  BY <1>2, FS_EmptySet
<1>4. acts = <<>>
  BY <1>3 DEF Mapped, ActsIn, Row
<1> QED
  BY <1>2, <1>4 DEF Abstract!Init, running

\* In release builds the emulator gives every activation registers of its own:
\* each step starts an activation, runs the innermost one, ends innermost ones
\* or leaves all of them and their registers alone.
THEOREM ImplementsActivations ==
  ASSUME Release
  PROVE  Spec => Implements
<1>1. Init => CountInv
  BY InitCounts
<1>2. OrphansOfOneCpu
  BY DEF Release, OrphansOfOneCpu
<1>3. Inv /\ Inv' /\ CountInv /\ [Next]_vars => CountInv'
  BY <1>2, NextCounts
<1>4. Inv /\ PoolInv /\ PoolInv' /\ CountInv /\ RegInv /\ Mapped /\ Mapped' /\ [Next]_vars
        => [Abstract!Next]_(Abstract!vars)
  BY NextActs
<1> QED
  BY <1>1, <1>3, <1>4, IsMapped, InitActs, RegisterInvariance, PTL DEF Spec, Implements, Abstract!Spec

-----------------------------------------------------------------------------
(* DEBUG builds.  There a context's cookie tells the depth of its frame, so *)
(* the order of the list can be read from the cookies, and it is that of the *)
(* frames however contexts were leaked.                                     *)

\* The frames; those whose prologue found orphans hold them until they are freed.
DebugFrameOK(f) ==
  /\ f.kind = "run" => f.ctx \in Ctxs
  /\ f.pend # <<>> => f.pc \in {"orphans", "unwind", "free"}
  /\ f.exiting => f.pc \in {"compress", "unwind", "free", "exit"}
  /\ f.pc = "exit" => f.exiting
  /\ f.exiting /\ f.pc = "unwind" => f.ctx \in Pending(f)
  /\ \A j, k \in DOMAIN f.pend : f.pend[j] = f.pend[k] => j = k
DebugShape(s) ==
  /\ \A n \in 1..Len(s) : DebugFrameOK(s[n])
  /\ \A n \in 1..(Len(s) - 1) : NextOK(s[n], s[n + 1])

\* The contexts of activations under way are on the list, recorded at their depth.
LivePlaced(s, l, ck) ==
  \A n \in 1..Len(s) : Listed(s[n]) =>
    s[n].ctx \in OnList(l) /\ (s[n].pc # "entered" => ck[s[n].ctx] = n)

\* Cookies rise along the list, but for a context that has none yet.
CookiesRise(s, l, ck) ==
  \A j, k \in DOMAIN l :
    j < k => ck[l[j]] < ck[l[k]] \/ (k = Len(l) /\ s[Len(s)].pc = "entered")
NewestEntered(s, l) ==
  s[Len(s)].pc = "entered" =>
    /\ l # <<>> /\ l[Len(l)] = s[Len(s)].ctx
    /\ \A n \in 1..(Len(s) - 1) : Listed(s[n]) => s[n].ctx # s[Len(s)].ctx

DebugOK(s, l, f, ck) ==
  /\ DebugShape(s) /\ Once(l) /\ Apart(s, l, f) /\ Covered(s, l, f)
  /\ LivePlaced(s, l, ck) /\ CookiesRise(s, l, ck) /\ NewestEntered(s, l)
DebugInv == DebugOK(stk, list, free, cookie)

\* A stack that is cut back, or grows, keeps its shape.
LEMMA DebugShapeCut ==
  ASSUME NEW s, NEW s2, NEW t, NEW g, Cut(s, s2, t, g), DebugShape(s), DebugFrameOK(g),
         g.kind = s[t].kind
  PROVE  DebugShape(s2)
<1>1. t \in Nat /\ Len(s) \in Nat /\ t <= Len(s) /\ Len(s2) = t
  BY DEF Cut
<1>2. ASSUME NEW n \in 1..Len(s2) PROVE DebugFrameOK(s2[n])
  BY <1>1 DEF Cut, DebugShape
<1>3. ASSUME NEW n \in 1..(Len(s2) - 1) PROVE NextOK(s2[n], s2[n + 1])
  <2>1. n \in 1..(Len(s) - 1) /\ s2[n] = s[n] /\ NextOK(s[n], s[n + 1])
    BY <1>1 DEF Cut, DebugShape
  <2>2. s2[n + 1].kind = s[n + 1].kind
    BY <1>1 DEF Cut
  <2> QED
    BY <2>1, <2>2 DEF NextOK
<1> QED
  BY <1>2, <1>3 DEF DebugShape

LEMMA DebugShapePushed ==
  ASSUME NEW s, NEW s2, NEW f, Pushed(s, s2, f), DebugShape(s), Len(s) > 0, DebugFrameOK(f),
         NextOK(s[Len(s)], f)
  PROVE  DebugShape(s2)
<1>1. Len(s) \in Nat
  BY DEF Pushed
<1>2. ASSUME NEW n \in 1..Len(s2) PROVE DebugFrameOK(s2[n])
  BY <1>1 DEF Pushed, DebugShape
<1>3. ASSUME NEW n \in 1..(Len(s2) - 1) PROVE NextOK(s2[n], s2[n + 1])
  BY <1>1 DEF Pushed, DebugShape
<1> QED
  BY <1>2, <1>3 DEF DebugShape

\* What g is to the frame it replaces: no step but CpuEnterCritical lists a context.
StaysPlaced(f, g) ==
  /\ g.kind = f.kind /\ g.pc # "entered"
  /\ Listed(g) => Listed(f) /\ g.ctx = f.ctx

\* Frames are left behind, and what they held goes where f2 says.
LEMMA DebugCut ==
  ASSUME NEW s, NEW s2, NEW t, NEW g, Cut(s, s2, t, g),
         NEW l \in Seq(Ctxs), NEW f, NEW f2, NEW ck, DebugOK(s, l, f, ck),
         s[t].pc # "entered", s[Len(s)].pc # "entered", DebugFrameOK(g), StaysPlaced(s[t], g),
         Owns(g) \cap (OnList(l) \cup f2) = {}, OnList(l) \cap f2 = {},
         \A c : c \in Owns(g) \cup OnList(l) \cup f2 <=>
                  c \in OnList(l) \cup f \/ \E n \in t..Len(s) : c \in Owns(s[n])
  PROVE  DebugOK(s2, l, f2, ck)
<1>1. t \in Nat /\ Len(s) \in Nat /\ 1 <= t /\ t <= Len(s) /\ Len(s2) = t /\ s2[t] = g
      /\ t \in 1..Len(s)
  BY DEF Cut
<1>2. DebugShape(s2)
  BY DebugShapeCut DEF DebugOK, StaysPlaced
<1>3. Apart(s2, l, f2) /\ Covered(s2, l, f2)
  BY PlacesCut DEF DebugOK
<1>4. ASSUME NEW n \in 1..Len(s2), Listed(s2[n])
      PROVE  s2[n].ctx \in OnList(l) /\ (s2[n].pc # "entered" => ck[s2[n].ctx] = n)
  <2>1. n \in 1..Len(s) /\ (n = t \/ n \in 1..(t - 1))
    BY <1>1
  <2>2. CASE n = t
    <3>1. Listed(s[t]) /\ g.ctx = s[t].ctx
      BY <1>1, <1>4, <2>2 DEF StaysPlaced
    <3> QED
      BY <1>1, <2>1, <2>2, <3>1 DEF DebugOK, LivePlaced
  <2>3. CASE n \in 1..(t - 1)
    <3>1. s2[n] = s[n]
      BY <2>3 DEF Cut
    <3> QED
      BY <1>4, <2>1, <3>1 DEF DebugOK, LivePlaced
  <2> QED
    BY <2>1, <2>2, <2>3
<1>5. CookiesRise(s2, l, ck)
  BY DEF DebugOK, CookiesRise
<1>6. NewestEntered(s2, l)
  BY <1>1 DEF NewestEntered, StaysPlaced
<1> QED
  BY <1>2, <1>3, <1>4, <1>5, <1>6 DEF DebugOK, LivePlaced

\* The same when nothing changes hands.
LEMMA DebugSame ==
  ASSUME NEW s, NEW s2, NEW t, NEW g, Cut(s, s2, t, g),
         NEW l \in Seq(Ctxs), NEW f, NEW ck, DebugOK(s, l, f, ck),
         s[t].pc # "entered", s[Len(s)].pc # "entered", DebugFrameOK(g), StaysPlaced(s[t], g),
         Owns(g) = Owns(s[t]), \A n \in (t + 1)..Len(s) : Owns(s[n]) = {}
  PROVE  DebugOK(s2, l, f, ck)
<1>1. t \in Nat /\ Len(s) \in Nat /\ 1 <= t /\ t <= Len(s) /\ t \in 1..Len(s) /\ t \in t..Len(s)
      /\ \A n \in t..Len(s) : n = t \/ n \in (t + 1)..Len(s)
  BY DEF Cut
<1>2. Owns(g) \cap (OnList(l) \cup f) = {} /\ OnList(l) \cap f = {}
  BY <1>1 DEF DebugOK, Apart
<1>3. \A c : c \in Owns(g) <=> \E n \in t..Len(s) : c \in Owns(s[n])
  BY <1>1
<1>4. \A c : c \in Owns(g) \cup OnList(l) \cup f <=>
               c \in OnList(l) \cup f \/ \E n \in t..Len(s) : c \in Owns(s[n])
  BY <1>3
<1> QED
  BY <1>2, <1>4, DebugCut

\* A frame that is not listed comes on top.
LEMMA DebugPush ==
  ASSUME NEW s, NEW s2, NEW h, Pushed(s, s2, h), Len(s) > 0,
         NEW l \in Seq(Ctxs), NEW f, NEW f2, NEW ck, NEW ck2, DebugOK(s, l, f, ck),
         s[Len(s)].pc # "entered", DebugFrameOK(h), NextOK(s[Len(s)], h), ~Listed(h),
         h.pc # "entered", Owns(h) \cap f2 = {}, Owns(h) \cup f2 = f,
         \A c \in OnList(l) : ck2[c] = ck[c]
  PROVE  DebugOK(s2, l, f2, ck2)
<1>1. Len(s) \in Nat /\ Len(s2) = Len(s) + 1 /\ s2[Len(s) + 1] = h
  BY DEF Pushed
<1>2. DebugShape(s2)
  BY DebugShapePushed DEF DebugOK
<1>3. Apart(s2, l, f2) /\ Covered(s2, l, f2)
  BY PlacesPushed DEF DebugOK
<1>4. ASSUME NEW n \in 1..Len(s2), Listed(s2[n])
      PROVE  s2[n].ctx \in OnList(l) /\ (s2[n].pc # "entered" => ck2[s2[n].ctx] = n)
  <2>1. n \in 1..Len(s) /\ s2[n] = s[n]
    BY <1>1, <1>4 DEF Pushed
  <2>2. s[n].ctx \in OnList(l) /\ (s[n].pc # "entered" => ck[s[n].ctx] = n)
    BY <1>4, <2>1 DEF DebugOK, LivePlaced
  <2> QED
    BY <2>1, <2>2
<1>5. CookiesRise(s2, l, ck2)
  <2>1. \A k \in DOMAIN l : l[k] \in OnList(l)
    BY DEF OnList
  <2> QED
    BY <2>1 DEF DebugOK, CookiesRise
<1>6. NewestEntered(s2, l)
  BY <1>1 DEF NewestEntered
<1> QED
  BY <1>2, <1>3, <1>4, <1>5, <1>6 DEF DebugOK, LivePlaced

\* Frames that neither hold a context of their own nor have some to free.
LEMMA DebugOwnsNone ==
  ASSUME NEW f, DebugFrameOK(f), f.pc \notin {"orphans", "unwind", "free", "start", "left", "done"}
  PROVE  Owns(f) = {} /\ f.pend = <<>>
<1>1. f.pend = <<>> /\ ~Held(f)
  BY DEF DebugFrameOK, Held
<1> QED
  BY <1>1 DEF Owns, Pending

\* The last frame, the list and the pools change hands.
LEMMA PlacesTop ==
  ASSUME NEW s, NEW s2, NEW t, NEW g, Cut(s, s2, t, g), t = Len(s),
         NEW l, NEW l2, NEW f, NEW f2, Apart(s, l, f), Covered(s, l, f),
         Owns(g) \cap (OnList(l2) \cup f2) = {}, OnList(l2) \cap f2 = {},
         Owns(g) \cup OnList(l2) \cup f2 = Owns(s[t]) \cup OnList(l) \cup f
  PROVE  Apart(s2, l2, f2) /\ Covered(s2, l2, f2)
<1>1. t \in t..Len(s) /\ \A n \in t..Len(s) : n = t
  BY DEF Cut
<1>2. \A x : (\E n \in t..Len(s) : x \in Owns(s[n])) <=> x \in Owns(s[t])
  BY ONLY <1>1
<1>3. \A x : x \in Owns(g) \cup OnList(l2) \cup f2 <=>
                x \in OnList(l) \cup f \/ \E n \in t..Len(s) : x \in Owns(s[n])
  BY <1>2
<1> QED
  BY <1>3, PlacesCut

\* One more context at the end of a list.
LEMMA OnListAppend ==
  ASSUME NEW l \in Seq(Ctxs), NEW c \in Ctxs
  PROVE  /\ OnList(Append(l, c)) = OnList(l) \cup {c}
         /\ Once(l) /\ c \notin OnList(l) => Once(Append(l, c))
         /\ Append(l, c) \in Seq(Ctxs) /\ Append(l, c) # <<>>
         /\ Append(l, c)[Len(Append(l, c))] = c /\ Len(Append(l, c)) = Len(l) + 1
         /\ \A k \in DOMAIN Append(l, c) : k = Len(l) + 1 \/ (k \in DOMAIN l /\ Append(l, c)[k] = l[k])
<1> DEFINE l2 == Append(l, c)
<1>1. Len(l2) = Len(l) + 1 /\ l2[Len(l) + 1] = c /\ Len(l) \in Nat /\ l2 \in Seq(Ctxs)
      /\ \A k \in 1..Len(l) : l2[k] = l[k]
  OBVIOUS
<1>2. DOMAIN l2 = 1..(Len(l) + 1) /\ DOMAIN l = 1..Len(l)
  OBVIOUS
<1> HIDE DEF l2
<1>3. \A k \in 1..(Len(l) + 1) : k \in 1..Len(l) \/ k = Len(l) + 1
  BY <1>1
<1>4. 1..Len(l) \subseteq 1..(Len(l) + 1) /\ Len(l) + 1 \in 1..(Len(l) + 1)
  BY <1>1
<1>5. OnList(l2) = OnList(l) \cup {c}
  BY <1>1, <1>2, <1>3, <1>4 DEF OnList
<1>6. ASSUME Once(l), c \notin OnList(l) PROVE Once(l2)
  <2>1. \A k \in 1..Len(l) : l2[k] # c
    BY <1>1, <1>2, <1>6 DEF OnList
  <2> QED
    BY <1>1, <1>2, <1>3, <1>6, <2>1 DEF Once
<1>7. l2 # <<>>
  BY <1>1
<1> QED
  BY <1>1, <1>2, <1>3, <1>5, <1>6, <1>7 DEF l2

\* CpuEnterCritical: the context has no cookie yet.
LEMMA DebugAppend ==
  ASSUME NEW s, NEW s2, NEW t, NEW g, Cut(s, s2, t, g), t = Len(s),
         NEW l \in Seq(Ctxs), NEW f, NEW ck, DebugOK(s, l, f, ck),
         s[t].kind = "run", s[t].pc = "start", g.kind = "run", g.pc = "entered",
         g.ctx = s[t].ctx, g.ctx \in Ctxs, DebugFrameOK(g)
  PROVE  DebugOK(s2, Append(l, g.ctx), f, ck)
<1> DEFINE c == g.ctx
           l2 == Append(l, c)
<1>1. t \in 1..Len(s) /\ Len(s) \in Nat /\ Len(s2) = t /\ s2[t] = g /\ t \in 1..t
  BY DEF Cut
<1>2. \A n \in 1..t : n # t => s2[n] = s[n] /\ n \in 1..Len(s)
  BY <1>1 DEF Cut
<1>3. DebugFrameOK(s[t]) /\ ~Listed(s[t])
  BY <1>1 DEF DebugOK, DebugShape, Listed
<1>4. Owns(s[t]) = {c} /\ Owns(g) = {}
  <2>1. s[t].pend = <<>> /\ Held(s[t])
    BY <1>3 DEF DebugFrameOK, Held
  <2> QED
    BY <1>3, <2>1, DebugOwnsNone DEF Owns, Pending
<1>5. c \notin OnList(l) \cup f /\ OnList(l) \cap f = {}
  BY <1>1, <1>4 DEF DebugOK, Apart
<1>6. /\ OnList(l2) = OnList(l) \cup {c} /\ Once(l2) /\ l2 # <<>> /\ l2[Len(l2)] = c
      /\ Len(l2) = Len(l) + 1
      /\ \A k \in DOMAIN l2 : k = Len(l) + 1 \/ (k \in DOMAIN l /\ l2[k] = l[k])
  BY <1>5, OnListAppend DEF DebugOK
<1> HIDE DEF l2
<1>7. DebugShape(s2)
  BY DebugShapeCut DEF DebugOK
<1>8. Apart(s2, l2, f) /\ Covered(s2, l2, f)
  <2>1. Apart(s, l, f) /\ Covered(s, l, f)
    BY DEF DebugOK
  <2>2. Owns(g) \cap (OnList(l2) \cup f) = {} /\ OnList(l2) \cap f = {}
    BY <1>4, <1>5, <1>6
  <2>3. Owns(g) \cup OnList(l2) \cup f = Owns(s[t]) \cup OnList(l) \cup f
    BY <1>4, <1>6
  <2> QED
    BY <2>1, <2>2, <2>3, PlacesTop
<1>9. ASSUME NEW n \in 1..Len(s2), Listed(s2[n])
      PROVE  s2[n].ctx \in OnList(l2) /\ (s2[n].pc # "entered" => ck[s2[n].ctx] = n)
  <2>1. CASE n = t
    BY <1>1, <1>6, <2>1
  <2>2. CASE n # t
    <3>1. s2[n] = s[n] /\ n \in 1..Len(s)
      BY <1>1, <1>2, <2>2
    <3> QED
      BY <1>6, <1>9, <3>1 DEF DebugOK, LivePlaced
  <2> QED
    BY <2>1, <2>2
<1>10. ASSUME NEW j \in DOMAIN l2, NEW k \in DOMAIN l2, j < k
       PROVE  ck[l2[j]] < ck[l2[k]] \/ (k = Len(l2) /\ s2[Len(s2)].pc = "entered")
  <2>1. CASE k = Len(l) + 1
    BY <1>1, <1>6, <2>1
  <2>2. CASE k # Len(l) + 1
    <3>1. k \in DOMAIN l /\ l2[k] = l[k] /\ k <= Len(l) /\ k # Len(s) + Len(l) + 1
      BY <1>1, <1>6, <2>2
    <3>2. j \in DOMAIN l /\ l2[j] = l[j]
      BY <1>6, <1>10, <3>1
    <3>3. s[Len(s)].pc # "entered"
      OBVIOUS
    <3> QED
      BY <1>10, <3>1, <3>2, <3>3 DEF DebugOK, CookiesRise
  <2> QED
    BY <2>1, <2>2
<1>11. NewestEntered(s2, l2)
  <2>1. ASSUME NEW n \in 1..(Len(s2) - 1), Listed(s2[n]) PROVE s2[n].ctx # c
    <3>1. s2[n] = s[n] /\ n \in 1..Len(s)
      BY <1>1, <1>2
    <3> QED
      BY <1>5, <2>1, <3>1 DEF DebugOK, LivePlaced
  <2> QED
    BY <1>1, <1>6, <2>1 DEF NewestEntered
<1> QED
  BY <1>6, <1>7, <1>8, <1>9, <1>10, <1>11 DEF DebugOK, LivePlaced, CookiesRise, l2

\* A frame below t whose context has no cookie yet.
OthersEntered(s, t) == \E n \in 1..(t - 1) : s[n].pc = "entered"

\* CpuLeaveCritical and CpuCompressLeakedContexts: what is taken off the list
\* goes to the last frame; older frames are recorded before it.
LEMMA DebugPrefix ==
  ASSUME NEW s, NEW s2, NEW t, NEW g, Cut(s, s2, t, g), t = Len(s),
         NEW l \in Seq(Ctxs), NEW f, NEW ck \in [Ctxs -> Nat], DebugOK(s, l, f, ck),
         Listed(s[t]), s[t].pc # "entered", Owns(s[t]) = {}, g.kind = "run", g.pc # "entered",
         g.ctx = s[t].ctx, DebugFrameOK(g),
         ~OthersEntered(s, t),
         NEW i \in DOMAIN l, l[i] = g.ctx, NEW keep,
         (keep = i /\ Listed(g)) \/ (keep = i - 1 /\ ~Listed(g)),
         Owns(g) = {l[k] : k \in (keep + 1)..Len(l)}
  PROVE  DebugOK(s2, SubSeq(l, 1, keep), f, ck)
<1> DEFINE l2 == SubSeq(l, 1, keep)
<1>1. t \in 1..Len(s) /\ Len(s) \in Nat /\ Len(s2) = t /\ s2[t] = g /\ t \in 1..t
  BY DEF Cut
<1>2. \A n \in 1..t : n # t => s2[n] = s[n] /\ n \in 1..Len(s) /\ n \in 1..(t - 1)
  BY <1>1 DEF Cut
<1>3. keep \in Nat /\ keep <= Len(l) /\ i \in Nat /\ i <= Len(l) /\ Len(l) \in Nat
      /\ DOMAIN l = 1..Len(l)
  OBVIOUS
<1>4. Len(l2) = keep /\ DOMAIN l2 = 1..keep /\ \A k \in 1..keep : l2[k] = l[k] /\ k \in 1..Len(l)
  BY <1>3
<1> HIDE DEF l2
<1>5. Once(l) /\ OnList(l) \cap f = {}
  BY DEF DebugOK, Apart
<1>6. OnList(l2) \cup Owns(g) = OnList(l) /\ OnList(l2) \cap Owns(g) = {}
  <2>1. OnList(l2) = {l[k] : k \in 1..keep}
    <3>1. OnList(l2) = {l2[k] : k \in 1..keep}
      BY <1>4 DEF OnList
    <3> QED
      BY <1>4, <3>1
  <2>2. \A k \in 1..Len(l) : k \in 1..keep \/ k \in (keep + 1)..Len(l)
    BY <1>3
  <2>3. \A k \in (keep + 1)..Len(l) : k \in 1..Len(l) /\ k \notin 1..keep
    BY <1>3
  <2>4. OnList(l2) \cup Owns(g) = OnList(l)
    BY <1>3, <1>4, <2>1, <2>2, <2>3 DEF OnList
  <2>5. ASSUME NEW j \in 1..keep, NEW k \in (keep + 1)..Len(l), l[j] = l[k] PROVE FALSE
    <3>1. j \in DOMAIN l /\ k \in DOMAIN l
      BY <1>3, <1>4, <2>3
    <3>2. j = k
      BY <1>5, <2>5, <3>1 DEF Once
    <3> QED
      BY <2>3, <3>2
  <2> QED
    BY <2>1, <2>4, <2>5
<1>7. DebugShape(s2)
  <2>1. s[t].kind = "run"
    BY DEF Listed
  <2> QED
    BY <2>1, DebugShapeCut DEF DebugOK
<1>8. Apart(s2, l2, f) /\ Covered(s2, l2, f)
  <2>1. Apart(s, l, f) /\ Covered(s, l, f)
    BY DEF DebugOK
  <2>2. Owns(g) \cap (OnList(l2) \cup f) = {} /\ OnList(l2) \cap f = {}
    BY <1>5, <1>6
  <2>3. Owns(g) \cup OnList(l2) \cup f = Owns(s[t]) \cup OnList(l) \cup f
    BY <1>6
  <2> QED
    BY <2>1, <2>2, <2>3, PlacesTop
<1>9. ck[l[i]] = t
  BY <1>1 DEF DebugOK, LivePlaced
<1>10. ASSUME NEW n \in 1..Len(s2), Listed(s2[n])
      PROVE  s2[n].ctx \in OnList(l2) /\ (s2[n].pc # "entered" => ck[s2[n].ctx] = n)
  <2>1. CASE n = t
    <3>1. keep = i /\ i \in 1..keep
      BY <1>1, <1>3, <1>10, <2>1
    <3>2. l2[i] = l[i] /\ l[i] = s2[n].ctx
      BY <1>1, <1>4, <2>1, <3>1
    <3>3. s2[n].ctx \in OnList(l2)
      BY <1>4, <3>1, <3>2 DEF OnList
    <3> QED
      BY <1>9, <2>1, <3>2, <3>3
  <2>2. CASE n # t
    <3>1. s2[n] = s[n] /\ n \in 1..Len(s) /\ n < t /\ s[n].pc # "entered"
      BY <1>1, <1>2, <2>2 DEF OthersEntered
    <3>2. s[n].ctx \in OnList(l) /\ ck[s[n].ctx] = n
      BY <1>10, <3>1 DEF DebugOK, LivePlaced
    <3>3. PICK j \in DOMAIN l : l[j] = s[n].ctx
      BY <3>2 DEF OnList
    <3>4. j < i
      <4>1. j # i
        BY <1>1, <1>9, <3>1, <3>2, <3>3
      <4>2. ASSUME i < j PROVE FALSE
        <5>1. s[Len(s)].pc # "entered"
          OBVIOUS
        <5>2. ck[l[i]] < ck[l[j]]
          BY <4>2, <5>1 DEF DebugOK, CookiesRise
        <5> QED
          BY <1>1, <1>9, <3>1, <3>2, <3>3, <5>2
      <4> QED
        BY <1>3, <4>1, <4>2
    <3>5. j \in 1..keep
      BY <1>3, <3>4
    <3>6. s[n].ctx \in OnList(l2)
      BY <1>4, <3>3, <3>5 DEF OnList
    <3> QED
      BY <3>1, <3>2, <3>6
  <2> QED
    BY <2>1, <2>2
<1>11. ASSUME NEW j \in DOMAIN l2, NEW k \in DOMAIN l2, j < k
       PROVE  ck[l2[j]] < ck[l2[k]]
  <2>1. j \in DOMAIN l /\ k \in DOMAIN l /\ l2[j] = l[j] /\ l2[k] = l[k] /\ s[Len(s)].pc # "entered"
    BY <1>3, <1>4
  <2> QED
    BY <1>11, <2>1 DEF DebugOK, CookiesRise
<1>12. Once(l2)
  BY <1>3, <1>4, <1>5 DEF Once
<1>13. NewestEntered(s2, l2)
  BY <1>1 DEF NewestEntered
<1> QED
  BY <1>7, <1>8, <1>10, <1>11, <1>12, <1>13 DEF DebugOK, LivePlaced, CookiesRise, l2

\* Positions of a list around a.
LEMMA PositionsAround ==
  ASSUME NEW m \in Nat, NEW a \in 1..m
  PROVE  /\ a \in Nat /\ a - 1 \in Nat /\ m \in 1..m
         /\ \A k \in 1..(a - 1) : k # m /\ k \in 1..m /\ k < a /\ k # a
         /\ \A k \in a..(m - 1) : k # m /\ k \in 1..m
         /\ \A k \in 1..m : k \in 1..(a - 1) \/ k \in a..(m - 1) \/ k = m
         /\ \A k \in 1..a : k = a \/ k \in 1..(a - 1)
         /\ \A j, k \in 1..a : j < k => j \in 1..(a - 1)
  OBVIOUS

\* From position a on, but for the last, the cookies are not below depth t.
OrphansFrom(l, ck, a, t) ==
  /\ \A j \in 1..(a - 1) : ck[l[j]] < t
  /\ \A j \in a..(Len(l) - 1) : ~(ck[l[j]] < t)

\* CpuDetectOrphanContexts: the contexts recorded at the depth of the new one
\* or deeper go, and none of them belongs to an activation under way.
LEMMA DebugOrphans ==
  ASSUME NEW s, NEW s2, NEW t, NEW g, Cut(s, s2, t, g), t = Len(s),
         NEW l \in Seq(Ctxs), NEW f, NEW ck \in [Ctxs -> Nat], DebugOK(s, l, f, ck),
         s[t].kind = "run", s[t].pc = "entered", g.kind = "run", g.pc # "entered",
         g.ctx = s[t].ctx, g.ctx \in Ctxs, DebugFrameOK(g),
         ~OthersEntered(s, t),
         NEW a \in 1..Len(l), OrphansFrom(l, ck, a, t),
         Owns(g) = {l[k] : k \in a..(Len(l) - 1)}
  PROVE  DebugOK(s2, Append(SubSeq(l, 1, a - 1), g.ctx), f, [ck EXCEPT ![g.ctx] = t])
<1> DEFINE c == g.ctx
           r == SubSeq(l, 1, a - 1)
           l2 == Append(r, c)
           ck2 == [ck EXCEPT ![c] = t]
<1>1. t \in 1..Len(s) /\ Len(s) \in Nat /\ Len(s2) = t /\ s2[t] = g /\ t \in 1..t
  BY DEF Cut
<1>2. \A n \in 1..t : n # t => s2[n] = s[n] /\ n \in 1..Len(s) /\ n \in 1..(t - 1)
  BY <1>1 DEF Cut
<1> DEFINE m == Len(l)
<1>0. m \in Nat /\ DOMAIN l = 1..m /\ a \in 1..m /\ Owns(g) = {l[k] : k \in a..(m - 1)}
  OBVIOUS
<1> HIDE DEF m
<1>3. /\ a \in Nat /\ a - 1 \in Nat /\ m \in 1..m
      /\ \A k \in 1..(a - 1) : k # m /\ k \in 1..m /\ k < a /\ k # a
      /\ \A k \in a..(m - 1) : k # m /\ k \in 1..m
      /\ \A k \in 1..m : k \in 1..(a - 1) \/ k \in a..(m - 1) \/ k = m
      /\ \A k \in 1..a : k = a \/ k \in 1..(a - 1)
      /\ \A j, k \in 1..a : j < k => j \in 1..(a - 1)
  BY ONLY <1>0, PositionsAround
<1>4. /\ r \in Seq(Ctxs) /\ Len(r) = a - 1 /\ DOMAIN r = 1..(a - 1)
      /\ \A k \in 1..(a - 1) : r[k] = l[k]
  <2>1. a - 1 \in Nat /\ a - 1 <= m /\ 1 \in Nat
    BY <1>0
  <2>2. \A k \in 1..(a - 1) : 1 + k - 1 = k
    BY <1>0
  <2> QED
    BY <2>1, <2>2 DEF m
<1>5. /\ Once(l) /\ OnList(l) \cap f = {} /\ l # <<>> /\ l[m] = c
      /\ \A n \in 1..(Len(s) - 1) : Listed(s[n]) => s[n].ctx # c
  BY <1>1 DEF DebugOK, Apart, NewestEntered, m
<1>6. \A j \in 1..m : j # m => l[j] # c
  BY <1>0, <1>3, <1>5 DEF Once
<1> HIDE DEF r
<1>7. OnList(r) = {l[k] : k \in 1..(a - 1)}
  <2>1. OnList(r) = {r[k] : k \in 1..(a - 1)}
    BY <1>4 DEF OnList
  <2> QED
    BY <1>4, <2>1
<1>8. Once(r) /\ c \notin OnList(r)
  <2>1. \A k \in 1..(a - 1) : k # m /\ k \in 1..m
    BY <1>3
  <2>2. c \notin OnList(r)
    BY <1>6, <1>7, <2>1
  <2>3. Once(r)
    BY <1>0, <1>4, <1>5, <2>1 DEF Once
  <2> QED
    BY <2>2, <2>3
<1>9. /\ OnList(l2) = OnList(r) \cup {c} /\ Once(l2)
      /\ l2[Len(l2)] = c /\ Len(l2) = a
      /\ \A k \in DOMAIN l2 : k = a \/ (k \in DOMAIN r /\ l2[k] = r[k])
  <2>1. /\ OnList(l2) = OnList(r) \cup {c} /\ Once(l2)
        /\ l2[Len(l2)] = c /\ Len(l2) = Len(r) + 1
        /\ \A k \in DOMAIN l2 : k = Len(r) + 1 \/ (k \in DOMAIN r /\ l2[k] = r[k])
    BY <1>4, <1>8, OnListAppend
  <2>2. Len(r) + 1 = a
    BY <1>0, <1>4
  <2> QED
    BY <2>1, <2>2
<1> HIDE DEF l2
<1>10. OnList(l2) \cup Owns(g) = OnList(l) /\ OnList(l2) \cap Owns(g) = {}
  <2>1. OnList(l) = {l[k] : k \in 1..m}
    BY <1>0 DEF OnList
  <2>2. \A k \in 1..m : k \in 1..(a - 1) \/ k \in a..(m - 1) \/ k = m
    BY <1>3
  <2>3. OnList(l2) \cup Owns(g) = OnList(l)
    BY <1>0, <1>3, <1>5, <1>7, <1>9, <2>1, <2>2
  <2>4. ASSUME NEW j \in 1..(a - 1), NEW k \in a..(m - 1), l[j] = l[k] PROVE FALSE
    <3>1. j \in DOMAIN l /\ k \in DOMAIN l
      BY <1>0, <1>3
    <3>2. j = k
      BY <1>5, <2>4, <3>1 DEF Once
    <3> QED
      BY <1>3, <3>2
  <2>5. \A k \in a..(m - 1) : k # m /\ k \in 1..m
    BY <1>3
  <2>6. c \notin Owns(g)
    BY <1>0, <1>6, <2>5
  <2> QED
    BY <1>0, <1>7, <1>9, <2>3, <2>4, <2>6
<1>11. Owns(s[t]) = {}
  <2>1. DebugFrameOK(s[t])
    BY <1>1 DEF DebugOK, DebugShape
  <2> QED
    BY <2>1, DebugOwnsNone
<1>12. DebugShape(s2)
  BY DebugShapeCut DEF DebugOK
<1>13. Apart(s2, l2, f) /\ Covered(s2, l2, f)
  <2>1. Apart(s, l, f) /\ Covered(s, l, f)
    BY DEF DebugOK
  <2>2. Owns(g) \cap (OnList(l2) \cup f) = {} /\ OnList(l2) \cap f = {}
    BY <1>5, <1>10
  <2>3. Owns(g) \cup OnList(l2) \cup f = Owns(s[t]) \cup OnList(l) \cup f
    BY <1>10, <1>11
  <2> QED
    BY <2>1, <2>2, <2>3, PlacesTop
<1>14. ck2[c] = t /\ \A x \in Ctxs : x # c => ck2[x] = ck[x]
  BY DEF ck2
<1>15. \A k \in 1..m : l[k] \in Ctxs
  BY <1>0
<1> HIDE DEF ck2
<1>16. ASSUME NEW n \in 1..Len(s2), Listed(s2[n])
       PROVE  s2[n].ctx \in OnList(l2) /\ (s2[n].pc # "entered" => ck2[s2[n].ctx] = n)
  <2>1. CASE n = t
    BY <1>1, <1>9, <1>14, <2>1
  <2>2. CASE n # t
    <3>1. s2[n] = s[n] /\ n \in 1..Len(s) /\ n < t /\ s[n].pc # "entered" /\ s[n].ctx # c
      BY <1>1, <1>2, <1>5, <1>16, <2>2 DEF OthersEntered
    <3>2. s[n].ctx \in OnList(l) /\ ck[s[n].ctx] = n
      BY <1>16, <3>1 DEF DebugOK, LivePlaced
    <3>3. PICK j \in 1..m : l[j] = s[n].ctx
      BY <1>0, <3>2 DEF OnList
    <3>4. j \notin a..(m - 1) /\ j # m
      BY <1>5, <3>1, <3>2, <3>3 DEF OrphansFrom, m
    <3>5. j \in 1..(a - 1)
      BY <1>3, <3>4
    <3>6. s[n].ctx \in OnList(l2)
      BY <1>7, <1>9, <3>3, <3>5
    <3> QED
      BY <1>14, <1>15, <3>1, <3>2, <3>3, <3>6
  <2> QED
    BY <2>1, <2>2
<1>17. ASSUME NEW j \in DOMAIN l2, NEW k \in DOMAIN l2, j < k
       PROVE  ck2[l2[j]] < ck2[l2[k]]
  <2>1. DOMAIN l2 = 1..a
    BY <1>4, <1>9 DEF l2
  <2>2. j \in 1..(a - 1) /\ l2[j] = l[j]
    BY <1>3, <1>4, <1>9, <1>17, <2>1
  <2>3. j # m /\ j \in 1..m /\ l[j] # c /\ l[j] \in Ctxs
    BY <1>3, <1>6, <1>15, <2>2
  <2>4. ck2[l2[j]] = ck[l[j]] /\ ck[l[j]] < t
    BY <1>14, <2>2, <2>3 DEF OrphansFrom, m
  <2>5. CASE k = a
    BY <1>9, <1>14, <2>4, <2>5
  <2>6. CASE k # a
    <3>1. k \in 1..(a - 1) /\ l2[k] = l[k]
      BY <1>4, <1>9, <2>1, <2>6
    <3>2. k # m /\ k \in 1..m /\ l[k] # c /\ l[k] \in Ctxs
      BY <1>3, <1>6, <1>15, <3>1
    <3>3. ck2[l2[k]] = ck[l[k]]
      BY <1>14, <3>1, <3>2
    <3>4. ck[l[j]] < ck[l[k]]
      BY <1>0, <1>17, <2>3, <3>2 DEF m, DebugOK, CookiesRise
    <3> QED
      BY <2>4, <3>3, <3>4
  <2> QED
    BY <2>5, <2>6
<1>18. NewestEntered(s2, l2)
  BY <1>1 DEF NewestEntered
<1> QED
  BY <1>9, <1>12, <1>13, <1>16, <1>17, <1>18 DEF DebugOK, LivePlaced, CookiesRise, l2, ck2, r

-----------------------------------------------------------------------------
(* DEBUG builds: what the steps do to the frames.                          *)

\* The running frame, and the data.
LEMMA DebugTopFacts ==
  ASSUME Inv, DebugInv
  PROVE  /\ Len(stk) = Depth /\ Depth \in Nat \ {0} /\ Depth \in 1..Len(stk) /\ Top = stk[Depth]
         /\ DebugFrameOK(Top) /\ Top \in Frame /\ stk \in Seq(Frame)
         /\ Top.kind = "run" => Top.ctx \in Ctxs
         /\ Top.pend \in Seq(Ctxs) /\ list \in Seq(Ctxs)
         /\ cookie \in [Ctxs -> Nat] /\ free \subseteq Ctxs
         /\ ~OthersEntered(stk, Depth)
         /\ \A n \in 1..Len(stk) : /\ stk[n] \in Frame /\ DebugFrameOK(stk[n])
                                   /\ stk[n].kind = "run" => stk[n].ctx \in Ctxs
                                   /\ stk[n].kind # "run" => stk[n].pc = "code"
<1>1. /\ Len(stk) = Depth /\ Depth \in Nat \ {0} /\ Depth \in 1..Len(stk) /\ Top = stk[Depth]
      /\ Top \in Frame /\ StackOK(stk) /\ stk \in Seq(Frame)
  BY TopFacts DEF Inv
<1>2. \A n \in 1..Len(stk) : DebugFrameOK(stk[n])
  BY DEF DebugInv, DebugOK, DebugShape
<1>3. \A n \in 1..Len(stk) : /\ stk[n] \in Frame
                             /\ stk[n].kind = "run" => stk[n].ctx \in Ctxs
                             /\ stk[n].kind # "run" => stk[n].pc = "code"
  BY <1>1 DEF StackOK
<1>4. /\ Top.pend \in Seq(Ctxs) /\ list \in Seq(Ctxs) /\ cookie \in [Ctxs -> Nat]
      /\ free \subseteq Ctxs
  BY <1>1 DEF Frame, Inv, DataOK
<1>5. ~OthersEntered(stk, Depth)
  BY <1>1 DEF OthersEntered, StackOK, CriticalPcs
<1> QED
  BY <1>1, <1>2, <1>3, <1>4, <1>5

\* The running frame goes on, with what it owns.
LEMMA DebugStay ==
  ASSUME Inv, DebugInv, NEW g, Cut(stk, stk', Depth, g), DebugFrameOK(g), Top.pc # "entered",
         StaysPlaced(Top, g), Owns(g) = Owns(Top), UNCHANGED <<list, free, cookie>>
  PROVE  DebugInv'
<1>1. Len(stk) = Depth /\ Top = stk[Depth] /\ list \in Seq(Ctxs) /\ Depth \in Nat
  BY DebugTopFacts
<1>2. \A n \in (Depth + 1)..Len(stk) : Owns(stk[n]) = {}
  BY <1>1
<1>3. DebugOK(stk', list, free, cookie)
  BY <1>1, <1>2, DebugSame DEF DebugInv
<1> QED
  BY <1>3 DEF DebugInv

\* Activations on the list that have nothing to free.
Calm == {"prepare", "thunkpre", "loop", "jit", "decode", "call", "native", "check",
         "result", "thunkpost", "restore", "leave"}
\* They own nothing, and their context is on the list.
LEMMA CalmFrames ==
  ASSUME NEW f, f.kind = "run", f.pc \in Calm \cup {"compress"}, DebugFrameOK(f)
  PROVE  Owns(f) = {} /\ f.pend = <<>> /\ Listed(f) /\ (f.pc \in Calm => ~f.exiting)
<1>1. f.pc \notin {"orphans", "unwind", "free", "start", "left", "done", "exit"}
  BY DEF Calm
<1>2. Owns(f) = {} /\ f.pend = <<>>
  BY <1>1, DebugOwnsNone
<1>3. f.pc \in Calm => ~f.exiting
  BY DEF DebugFrameOK, Calm
<1> QED
  BY <1>1, <1>2, <1>3 DEF Listed

\* A calm activation goes from one pc to another.
LEMMA DebugGoto ==
  ASSUME Inv, DebugInv, NEW p \in Calm, At(p), NEW q \in Calm \cup {"compress"}, Goto(q),
         UNCHANGED <<list, free, cookie>>
  PROVE  DebugInv'
<1>1. Top.kind = "run" /\ Top.pc = p /\ Top.pc # "entered" /\ q # "entered" /\ q \in RunPcs
  BY DEF At, Calm, RunPcs
<1>2. DebugFrameOK(Top)
  BY DebugTopFacts
<1>3. Owns(Top) = {} /\ Top.pend = <<>> /\ Listed(Top) /\ ~Top.exiting
  BY <1>1, <1>2, CalmFrames
<1>4. PICK g : GoesTo(Top, g, q, Top.pend, Top.exiting) /\ Cut(stk, stk', Depth, g)
  BY <1>1, GotoCut DEF Inv
<1>5. /\ g.kind = "run" /\ g.ctx = Top.ctx /\ g.pc = q /\ g.pend = <<>> /\ ~g.exiting
  BY <1>1, <1>3, <1>4 DEF GoesTo
<1>6. DebugFrameOK(g)
  <2>1. q # "exit"
    BY DEF Calm
  <2> QED
    BY <1>1, <1>2, <1>5, <2>1 DEF DebugFrameOK
<1>7. Owns(g) = {}
  BY <1>5, <1>6, CalmFrames
<1>8. StaysPlaced(Top, g)
  BY <1>1, <1>3, <1>5 DEF StaysPlaced
<1> QED
  BY <1>1, <1>3, <1>4, <1>6, <1>7, <1>8, DebugStay

\* Frames of the host own nothing.
LEMMA DebugHost ==
  ASSUME NEW f, f.kind # "run", f.pc = "code", DebugFrameOK(f)
  PROVE  Owns(f) = {} /\ ~Listed(f)
  BY DebugOwnsNone DEF Listed

\* What calls on without interrupts in between owns nothing.
LEMMA DebugCallers ==
  ASSUME Inv, DebugInv, NEW t \in 1..Depth, \A n \in (t + 1)..Depth : stk[n].kind # "event",
         NEW k \in t..Depth, k # Depth
  PROVE  Owns(stk[k]) = {} /\ (stk[k].kind = "run" => stk[k].pc = "native" /\ Listed(stk[k]))
<1>1. /\ Len(stk) = Depth /\ Depth \in Nat /\ k \in 1..Len(stk) /\ k \in 1..(Len(stk) - 1)
      /\ k + 1 \in (t + 1)..Depth
  BY DebugTopFacts
<1>2. DebugFrameOK(stk[k]) /\ (stk[k].kind # "run" => stk[k].pc = "code")
  BY <1>1, DebugTopFacts
<1>3. CASE stk[k].kind # "run"
  BY <1>2, <1>3, DebugHost
<1>4. CASE stk[k].kind = "run"
  <2>1. NextOK(stk[k], stk[k + 1])
    BY <1>1 DEF DebugInv, DebugOK, DebugShape
  <2>2. stk[k].pc = "native"
    BY <1>1, <1>4, <2>1 DEF NextOK
  <2> QED
    BY <1>2, <1>4, <2>2, CalmFrames DEF Calm
<1> QED
  BY <1>3, <1>4

-----------------------------------------------------------------------------
(* DEBUG builds: native code and interrupts.                               *)

\* Frames of native code and of interrupts.
LEMMA DebugHostFrames ==
  ASSUME NEW k \in {"native", "event"}
  PROVE  LET h == HostFrame(k) IN
         /\ h \in Frame /\ h.kind = k /\ DebugFrameOK(h) /\ ~Listed(h) /\ Owns(h) = {}
         /\ h.pc # "entered"
<1> DEFINE h == HostFrame(k)
<1>1. h \in Frame /\ h.kind = k /\ h.pc = "code" /\ h.pend = <<>> /\ ~h.exiting
  BY NewFrames DEF HostFrame
<1> HIDE DEF h
<1>2. DebugFrameOK(h)
  BY <1>1 DEF DebugFrameOK
<1>3. Owns(h) = {} /\ ~Listed(h)
  BY <1>1, <1>2, DebugHost
<1> QED
  BY <1>1, <1>2, <1>3 DEF h

\* Native code activates emulated code with a context of the pool.
LEMMA AllocDebug ==
  ASSUME Inv, DebugInv, InHost, NEW c \in free, NEW i \in Images \cup {NoImage},
         AllocContext(c, i), UNCHANGED list
  PROVE  DebugInv'
<1> DEFINE h == RunFrame(c, i)
<1>1. /\ Depth = Len(stk) /\ Top = stk[Depth] /\ list \in Seq(Ctxs) /\ Depth \in Nat \ {0}
      /\ stk \in Seq(Frame) /\ c \in Ctxs /\ cookie \in [Ctxs -> Nat] /\ Depth \in 1..Len(stk)
  BY DebugTopFacts
<1>2. free' = free \ {c} /\ cookie' = [cookie EXCEPT ![c] = 0] /\ stk' = Append(stk, h)
  BY DEF AllocContext
<1>3. /\ h \in Frame /\ h.kind = "run" /\ h.pc = "start" /\ h.ctx = c
      /\ h.pend = <<>> /\ ~h.exiting
  BY <1>1, NewFrames DEF RunFrame
<1> HIDE DEF h
<1>4. DebugFrameOK(h) /\ ~Listed(h) /\ Owns(h) = {c}
  BY <1>1, <1>3 DEF DebugFrameOK, Listed, Owns, Pending, Held
<1>5. NextOK(stk[Len(stk)], h) /\ stk[Len(stk)].pc # "entered"
  <2>1. Top.kind # "run" /\ Top.pc = "code"
    BY <1>1, DebugTopFacts DEF InHost
  <2> QED
    BY <1>1, <2>1 DEF NextOK
<1>6. Pushed(stk, stk', h)
  BY <1>1, <1>2, <1>3, AppendPushed
<1>7. \A x \in OnList(list) : cookie'[x] = cookie[x]
  <2>1. OnList(list) \cap free = {} /\ OnList(list) \subseteq Ctxs
    BY <1>1 DEF DebugInv, DebugOK, Apart, OnList
  <2> QED
    BY <1>1, <1>2, <2>1
<1>8. Owns(h) \cap free' = {} /\ Owns(h) \cup free' = free
  BY <1>2, <1>4
<1>9. DebugOK(stk', list, free', cookie')
  <2>1. h.pc # "entered" /\ Len(stk) > 0
    BY <1>1, <1>3
  <2>2. DebugOK(stk, list, free, cookie) /\ list \in Seq(Ctxs)
    BY <1>1 DEF DebugInv
  <2> QED
    BY ONLY <1>4, <1>5, <1>6, <1>7, <1>8, <2>1, <2>2, DebugPush
<1> QED
  BY <1>9 DEF DebugInv

\* A call of native code or a timer interrupt.
LEMMA HostPushDebug ==
  ASSUME Inv, DebugInv, NEW k \in {"native", "event"}, stk' = Append(stk, HostFrame(k)),
         k = "native" => InHost, Top.pc # "entered", UNCHANGED <<list, free, cookie>>
  PROVE  DebugInv'
<1> DEFINE h == HostFrame(k)
<1>1. /\ Depth = Len(stk) /\ Top = stk[Depth] /\ list \in Seq(Ctxs) /\ Depth \in Nat \ {0}
      /\ stk \in Seq(Frame)
  BY DebugTopFacts
<1>2. /\ h \in Frame /\ h.kind = k /\ DebugFrameOK(h) /\ ~Listed(h) /\ Owns(h) = {}
      /\ h.pc # "entered" /\ stk' = Append(stk, h)
  BY DebugHostFrames
<1> HIDE DEF h
<1>3. NextOK(stk[Len(stk)], h)
  BY <1>1, <1>2 DEF NextOK, InHost
<1>4. Pushed(stk, stk', h)
  BY <1>1, <1>2, AppendPushed
<1>5. Owns(h) \cap free = {} /\ Owns(h) \cup free = free /\ \A c \in OnList(list) : cookie[c] = cookie[c]
  BY <1>2
<1>6. DebugOK(stk', list, free, cookie)
  BY <1>1, <1>2, <1>3, <1>4, <1>5, DebugPush DEF DebugInv
<1> QED
  BY <1>6 DEF DebugInv

\* The frames above t, which own nothing, are left behind.
LEMMA BackDebug ==
  ASSUME Inv, DebugInv, NEW t \in 1..Depth, NEW g, Cut(stk, stk', t, g), DebugFrameOK(g),
         Top.pc # "entered", StaysPlaced(stk[t], g), Owns(g) = Owns(stk[t]),
         \A k \in (t + 1)..Depth : Owns(stk[k]) = {}, UNCHANGED <<list, free, cookie>>
  PROVE  DebugInv'
<1>1. /\ Len(stk) = Depth /\ Top = stk[Depth] /\ list \in Seq(Ctxs) /\ Depth \in Nat
      /\ ~OthersEntered(stk, Depth)
  BY DebugTopFacts
<1>2. stk[t].pc # "entered"
  <2>1. t = Depth \/ t \in 1..(Depth - 1)
    BY <1>1
  <2> QED
    BY <1>1, <2>1 DEF OthersEntered
<1>3. DebugOK(stk', list, free, cookie)
  BY <1>1, <1>2, DebugSame DEF DebugInv
<1> QED
  BY <1>3 DEF DebugInv

\* The last frame, which owns nothing, is left.
LEMMA PopDebug ==
  ASSUME Inv, DebugInv, Depth > 1, Owns(Top) = {}, Top.pc # "entered",
         stk' = SubSeq(stk, 1, Depth - 1), UNCHANGED <<list, free, cookie>>
  PROVE  DebugInv'
<1> DEFINE t == Depth - 1
           g == stk[t]
<1>1. /\ t \in 1..Depth /\ t \in 1..Len(stk) /\ Depth \in Nat /\ "done" \in RunPcs
      /\ \A k \in (t + 1)..Depth : k = Depth /\ stk[k] = Top
  BY DebugTopFacts DEF RunPcs
<1>2. Cut(stk, stk', t, g)
  BY <1>1, BackCut DEF Inv
<1>3. DebugFrameOK(g) /\ g.pc # "entered" /\ StaysPlaced(g, g)
  <2>1. DebugFrameOK(g) /\ ~OthersEntered(stk, Depth)
    BY <1>1, DebugTopFacts
  <2> QED
    BY <1>1, <2>1 DEF OthersEntered, StaysPlaced
<1> HIDE DEF t
<1> QED
  BY <1>1, <1>2, <1>3, BackDebug

\* A native function returns.
LEMMA ReturnHostDebug ==
  ASSUME Inv, DebugInv, ReturnHost
  PROVE  DebugInv'
<1> DEFINE t == Depth - 1
           rest == SubSeq(stk, 1, t)
<1>1. /\ Top.kind = "native" /\ Depth > 1
      /\ stk' = IF stk[t].kind = "run" /\ stk[t].pc = "native"
                  THEN [rest EXCEPT ![t].pc = "check"] ELSE rest
      /\ UNCHANGED <<list, free, cookie>>
  BY DEF ReturnHost, cpuVars
<1>2. /\ Depth = Len(stk) /\ Top = stk[Depth] /\ Depth \in 1..Len(stk) /\ Depth \in Nat
      /\ Top.pc = "code" /\ DebugFrameOK(Top)
  BY <1>1, DebugTopFacts
<1>3. Owns(Top) = {}
  BY <1>1, <1>2, DebugHost
<1>4. CASE ~(stk[t].kind = "run" /\ stk[t].pc = "native")
  BY <1>1, <1>2, <1>3, <1>4, PopDebug
<1>5. CASE stk[t].kind = "run" /\ stk[t].pc = "native"
  <2>1. /\ stk' = [rest EXCEPT ![t].pc = "check"] /\ "check" \in RunPcs /\ t \in 1..Len(stk)
        /\ t \in 1..Depth /\ \A k \in (t + 1)..Depth : k = Depth
    BY <1>1, <1>2, <1>5 DEF RunPcs
  <2>2. DebugFrameOK(stk[t]) /\ "native" \in Calm /\ "check" \in Calm
    BY <2>1, DebugTopFacts DEF Calm
  <2> HIDE DEF t
  <2>3. PICK g : GoesTo(stk[t], g, "check", stk[t].pend, stk[t].exiting) /\ Cut(stk, stk', t, g)
    BY <2>1, BackCut DEF Inv
  <2>4. Listed(stk[t]) /\ ~stk[t].exiting /\ stk[t].pend = <<>> /\ Owns(stk[t]) = {}
    BY <1>5, <2>2, CalmFrames
  <2>5. g.kind = "run" /\ g.ctx = stk[t].ctx /\ g.pc = "check" /\ g.pend = <<>> /\ ~g.exiting
    BY <1>5, <2>3, <2>4 DEF GoesTo
  <2>6. DebugFrameOK(g)
    BY <1>5, <2>2, <2>5 DEF DebugFrameOK
  <2>7. Owns(g) = {}
    BY <2>2, <2>5, <2>6, CalmFrames
  <2>8. StaysPlaced(stk[t], g)
    BY <1>5, <2>4, <2>5 DEF StaysPlaced
  <2>9. \A k \in (t + 1)..Depth : Owns(stk[k]) = {}
    BY <1>2, <1>3, <2>1
  <2> QED
    BY <1>1, <1>2, <2>1, <2>3, <2>4, <2>6, <2>7, <2>8, <2>9, BackDebug
<1> QED
  BY <1>4, <1>5

\* A LongJump: what is left behind owns nothing, its contexts stay listed.
LEMMA LongJumpDebug ==
  ASSUME Inv, DebugInv, LongJump
  PROVE  DebugInv'
<1>1. Top.kind = "native" /\ UNCHANGED <<list, free, cookie>>
  BY DEF LongJump, cpuVars
<1>2. /\ Depth = Len(stk) /\ Top = stk[Depth] /\ Depth \in 1..Len(stk) /\ Depth \in Nat
      /\ Top.pc = "code" /\ DebugFrameOK(Top) /\ "done" \in RunPcs
  BY <1>1, DebugTopFacts DEF RunPcs
<1>3. Owns(Top) = {}
  BY <1>1, <1>2, DebugHost
<1>4. PICK t \in 1..(Depth - 1) : stk[t].kind # "run" /\ JumpAllowed(t) /\ stk' = SubSeq(stk, 1, t)
  BY DEF LongJump
<1>5. t \in 1..Depth /\ t \in 1..Len(stk) /\ \A n \in (t + 1)..Depth : stk[n].kind # "event"
  BY <1>2, <1>4 DEF JumpAllowed
<1>6. ASSUME NEW k \in (t + 1)..Depth PROVE Owns(stk[k]) = {}
  <2>1. k \in t..Depth
    BY <1>2, <1>5
  <2> QED
    BY <1>2, <1>3, <1>5, <2>1, DebugCallers
<1> DEFINE g == stk[t]
<1>7. Cut(stk, stk', t, g)
  BY <1>2, <1>4, <1>5, BackCut DEF Inv
<1>8. DebugFrameOK(g) /\ g.pc # "entered" /\ StaysPlaced(g, g)
  <2>1. DebugFrameOK(g) /\ g.pc = "code"
    BY <1>4, <1>5, DebugTopFacts
  <2> QED
    BY <2>1 DEF StaysPlaced
<1> QED
  BY <1>1, <1>2, <1>5, <1>6, <1>7, <1>8, BackDebug

-----------------------------------------------------------------------------
(* DEBUG builds: the steps of an activation.                               *)

\* CpuEnterCritical lists the context.
LEMMA EnterDebug ==
  ASSUME Inv, DebugInv, EnterCritical
  PROVE  DebugInv'
<1>1. Top.kind = "run" /\ Top.pc = "start" /\ "entered" \in RunPcs /\ Goto("entered")
  BY DEF EnterCritical, At, RunPcs
<1>2. PICK g : GoesTo(Top, g, "entered", Top.pend, Top.exiting) /\ Cut(stk, stk', Depth, g)
  BY <1>1, GotoCut DEF Inv
<1>3. /\ Depth = Len(stk) /\ Top = stk[Depth] /\ DebugFrameOK(Top) /\ list \in Seq(Ctxs)
      /\ Top.ctx \in Ctxs
  BY <1>1, DebugTopFacts
<1>4. /\ g.kind = "run" /\ g.ctx = Top.ctx /\ g.pc = "entered" /\ g.pend = <<>> /\ ~g.exiting
  BY <1>1, <1>2, <1>3 DEF GoesTo, DebugFrameOK
<1>5. DebugFrameOK(g)
  BY <1>3, <1>4 DEF DebugFrameOK
<1>6. DebugOK(stk', Append(list, g.ctx), free, cookie)
  BY <1>1, <1>2, <1>3, <1>4, <1>5, DebugAppend DEF DebugInv
<1>7. list' = Append(list, g.ctx) /\ UNCHANGED <<free, cookie>>
  BY <1>4 DEF EnterCritical
<1> QED
  BY <1>6, <1>7 DEF DebugInv

\* The contexts before the first orphan are recorded below the running frame,
\* the others are not; the orphans are what lies between it and the newest.
LEMMA FirstOrphanIs ==
  ASSUME Inv, DebugInv, Top.pc = "entered", Top.kind = "run"
  PROVE  /\ FirstOrphan \in 1..Len(list) /\ OrphansFrom(list, cookie, FirstOrphan, Depth)
         /\ list # <<>> /\ Newest = Top.ctx
<1> DEFINE n == Len(list)
           older == {j \in 1..(n - 1) : cookie[list[j]] < Depth}
<1>1. /\ Depth = Len(stk) /\ Top = stk[Depth] /\ list \in Seq(Ctxs) /\ cookie \in [Ctxs -> Nat]
      /\ Depth \in Nat
  BY DebugTopFacts
<1>2. list # <<>> /\ list[Len(list)] = Top.ctx
  BY <1>1 DEF DebugInv, DebugOK, NewestEntered
<1>3. n \in Nat \ {0} /\ DOMAIN list = 1..n
  BY <1>1, <1>2
<1>4. \A k \in 1..n : list[k] \in Ctxs /\ cookie[list[k]] \in Nat
  BY <1>1, <1>3
<1>5. CASE older = {}
  <2>1. FirstOrphan = 1
    BY <1>5 DEF FirstOrphan
  <2>2. 1 \in 1..n /\ \A j \in 1..(1 - 1) : FALSE
    BY <1>3
  <2>3. \A j \in 1..(n - 1) : ~(cookie[list[j]] < Depth)
    BY <1>5
  <2> QED
    BY <1>2, <2>1, <2>2, <2>3 DEF OrphansFrom, Newest
<1>6. CASE older # {}
  <2>1. n - 1 \in Nat /\ older \in SUBSET (1..(n - 1))
    BY <1>3
  <2>2. \E j \in older : \A k \in older : k <= j
    BY <1>6, <2>1, GreatestElement
  <2>3. PICK a \in older : FirstOrphan = 1 + a /\ \A k \in older : k <= a
    BY <1>6, <2>2 DEF FirstOrphan
  <2>4. a \in 1..(n - 1) /\ cookie[list[a]] < Depth /\ a \in Nat
    OBVIOUS
  <2>5. ASSUME NEW j \in 1..a PROVE cookie[list[j]] < Depth
    <3>1. CASE j = a
      BY <2>4, <3>1
    <3>2. CASE j # a
      <4>1. j < a /\ j \in DOMAIN list /\ a \in DOMAIN list /\ a # Len(list) /\ j \in 1..n /\ a \in 1..n
        <5>1. j \in Nat /\ j <= a /\ 1 <= j
          BY <2>4
        <5>2. n \in Nat /\ a \in 1..(n - 1)
          BY <1>3, <2>4
        <5>3. j < a /\ j \in 1..n /\ a \in 1..n /\ a # n
          <6> HIDE DEF n
          <6> QED
            BY ONLY <3>2, <5>1, <5>2
        <5> QED
 BY <1>3, <5>3
      <4>2. cookie[list[j]] < cookie[list[a]]
        BY <4>1 DEF DebugInv, DebugOK, CookiesRise
      <4> QED
        BY <1>1, <1>4, <2>4, <4>1, <4>2
    <3> QED
      BY <3>1, <3>2
  <2>6. ASSUME NEW j \in (1 + a)..(n - 1) PROVE ~(cookie[list[j]] < Depth)
    <3>1. j \in 1..(n - 1) /\ ~(j <= a)
      BY <1>3, <2>4
    <3> QED
      BY <2>3, <3>1
  <2>7. FirstOrphan \in 1..n /\ FirstOrphan - 1 = a
    BY <1>3, <2>3, <2>4
  <2> QED
    BY <1>2, <2>3, <2>5, <2>6, <2>7 DEF OrphansFrom, Newest
<1> QED
  BY <1>5, <1>6

\* What lies between a position of a list and its end.
LEMMA BeforeLast ==
  ASSUME NEW l \in Seq(Ctxs), NEW a \in 1..Len(l)
  PROVE  LET r == SubSeq(l, a, Len(l) - 1) IN
         /\ r \in Seq(Ctxs) /\ Len(r) = Len(l) - a /\ DOMAIN r = 1..(Len(l) - a)
         /\ \A k \in 1..(Len(l) - a) : r[k] = l[a + k - 1]
<1> DEFINE m == Len(l)
           r == SubSeq(l, a, m - 1)
<1>1. m \in Nat /\ a \in 1..m /\ \A k \in 1..m : l[k] \in Ctxs
  OBVIOUS
<1> HIDE DEF m
<1>2. /\ a \in Int /\ m - 1 \in Int /\ m - 1 - a + 1 = m - a /\ m - a \in Nat
      /\ a..(m - 1) \subseteq 1..m /\ (a <= m - 1 \/ m - a = 0)
  BY <1>1
<1>3. \A k \in a..(m - 1) : l[k] \in Ctxs
  BY <1>1, <1>2
<1>4. /\ r \in Seq(Ctxs) /\ Len(r) = IF a <= m - 1 THEN m - 1 - a + 1 ELSE 0
      /\ \A k \in 1..(m - 1 - a + 1) : r[k] = l[a + k - 1]
  BY <1>2, <1>3, SubSeqProperties
<1> HIDE DEF r
<1>5. Len(r) = m - a /\ \A k \in 1..(m - a) : r[k] = l[a + k - 1]
  BY <1>2, <1>4
<1>6. DOMAIN r = 1..Len(r)
  BY <1>4
<1> QED
  BY <1>4, <1>5, <1>6 DEF r, m

\* CpuDetectOrphanContexts.
LEMMA DetectOrphansDebug ==
  ASSUME Debug, Inv, DebugInv, DetectOrphans
  PROVE  DebugInv'
<1> DEFINE a == FirstOrphan
           m == Len(list)
           q == IF Orphans = <<>> THEN "prepare" ELSE "orphans"
<1>1. Top.kind = "run" /\ Top.pc = "entered" /\ q \in RunPcs /\ q \in {"prepare", "orphans"}
      /\ (q # "orphans" => Orphans = <<>>)
  BY DEF DetectOrphans, At, RunPcs
<1>2. /\ cookie' = [cookie EXCEPT ![Top.ctx] = Depth] /\ UNCHANGED free
      /\ list' = IF Orphans = <<>> THEN list ELSE Append(SubSeq(list, 1, a - 1), Newest)
      /\ stk' = [stk EXCEPT ![Depth].pend = Orphans, ![Depth].pc = q]
  BY Zenon DEF DetectOrphans
<1>3. /\ Depth = Len(stk) /\ Top = stk[Depth] /\ DebugFrameOK(Top) /\ list \in Seq(Ctxs)
      /\ Top.ctx \in Ctxs /\ cookie \in [Ctxs -> Nat] /\ ~OthersEntered(stk, Depth)
  BY <1>1, DebugTopFacts
<1>4. /\ a \in 1..m /\ OrphansFrom(list, cookie, a, Depth) /\ list # <<>> /\ Newest = Top.ctx
  BY <1>1, FirstOrphanIs
<1>5. Orphans = SubSeq(list, a, m - 1)
  BY DEF Orphans
<1> HIDE DEF a, q
<1>6. m \in Nat /\ a \in Nat /\ 1 <= a /\ a <= m /\ DOMAIN list = 1..m
  BY <1>3, <1>4
<1>7. Orphans \in Seq(Ctxs) /\ Len(Orphans) = m - a /\ DOMAIN Orphans = 1..(m - a)
      /\ \A k \in 1..(m - a) : Orphans[k] = list[a + k - 1]
  BY <1>3, <1>4, <1>5, BeforeLast
<1>8. list' = Append(SubSeq(list, 1, a - 1), Top.ctx)
  <2>1. CASE Orphans # <<>>
    BY <1>2, <1>4, <2>1
  <2>2. CASE Orphans = <<>>
    <3>1. a = m
      <4>1. Len(Orphans) = 0
        BY <2>2
      <4>2. m - a = 0 /\ m \in Nat /\ a \in Nat
        BY <1>6, <1>7, <4>1
      <4> HIDE DEF m
      <4> QED
        BY ONLY <4>2
    <3>2. list = Append(SubSeq(list, 1, Len(list) - 1), list[Len(list)])
      BY <1>3, <1>4
    <3> QED
      BY <1>2, <1>4, <2>2, <3>1, <3>2 DEF Newest
  <2> QED
    BY <2>1, <2>2
<1>9. PICK g : GoesTo(Top, g, q, Orphans, Top.exiting) /\ Cut(stk, stk', Depth, g)
  BY <1>1, <1>2, <1>7, GotoPendCut DEF Inv
<1>10. /\ g.kind = "run" /\ g.ctx = Top.ctx /\ g.pc = q /\ g.pend = Orphans /\ ~g.exiting
       /\ g.pc # "entered" /\ g.pc # "exit"
  BY <1>1, <1>3, <1>9 DEF GoesTo, DebugFrameOK
<1>11. Pending(g) = {list[k] : k \in a..(m - 1)}
  <2>1. Pending(g) = {list[a + k - 1] : k \in 1..(m - a)}
    BY <1>7, <1>10 DEF Pending
  <2>2. \A k \in 1..(m - a) : a + k - 1 \in a..(m - 1)
    BY <1>6
  <2>3. \A k \in a..(m - 1) : k - a + 1 \in 1..(m - a) /\ a + (k - a + 1) - 1 = k
    BY <1>6
  <2> QED
    BY <2>1, <2>2, <2>3
<1>12. Owns(g) = {list[k] : k \in a..(m - 1)}
  BY <1>1, <1>10, <1>11 DEF Owns, Held
<1>13. DebugFrameOK(g)
  <2>1. ASSUME NEW j \in DOMAIN Orphans, NEW k \in DOMAIN Orphans, Orphans[j] = Orphans[k]
        PROVE  j = k
    <3>1. j \in 1..(m - a) /\ k \in 1..(m - a)
      BY <1>7
    <3>2. a + j - 1 \in 1..m /\ a + k - 1 \in 1..m
      BY <1>6, <3>1
    <3>3. list[a + j - 1] = list[a + k - 1]
      BY <1>7, <2>1, <3>1
    <3>4. a + j - 1 = a + k - 1
      BY <1>6, <3>2, <3>3 DEF DebugInv, DebugOK, Once
    <3> QED
      BY <1>6, <3>1, <3>4
  <2>2. g.pend # <<>> => g.pc = "orphans"
    BY <1>1, <1>10
  <2> QED
    BY <1>3, <1>10, <2>1, <2>2 DEF DebugFrameOK
<1>14. DebugOK(stk', Append(SubSeq(list, 1, a - 1), g.ctx), free, [cookie EXCEPT ![g.ctx] = Depth])
  <2>1. DebugOK(stk, list, free, cookie) /\ Owns(g) = {list[k] : k \in a..(Len(list) - 1)}
    BY <1>12 DEF DebugInv
  <2>2. g.ctx \in Ctxs /\ g.ctx = stk[Depth].ctx /\ stk[Depth].kind = "run" /\ stk[Depth].pc = "entered"
    BY <1>1, <1>3, <1>10
  <2>3. a \in 1..Len(list)
    BY <1>4
  <2> QED
    BY ONLY <1>3, <1>4, <1>9, <1>10, <1>13, <2>1, <2>2, <2>3, DebugOrphans
<1> QED
  BY <1>2, <1>8, <1>10, <1>14 DEF DebugInv

\* What lies behind a position of a list.
LEMMA AfterPosition ==
  ASSUME NEW l \in Seq(Ctxs), NEW a \in 0..Len(l)
  PROVE  LET r == SubSeq(l, a + 1, Len(l)) IN
         /\ r \in Seq(Ctxs) /\ Len(r) = Len(l) - a
         /\ \A k \in 1..(Len(l) - a) : r[k] = l[a + k]
<1> DEFINE m == Len(l)
           r == SubSeq(l, a + 1, m)
<1>1. m \in Nat /\ a \in 0..m /\ \A k \in 1..m : l[k] \in Ctxs
  OBVIOUS
<1> HIDE DEF m
<1>2. /\ a + 1 \in Int /\ m \in Int /\ m - (a + 1) + 1 = m - a /\ m - a \in Nat
      /\ (a + 1)..m \subseteq 1..m /\ (a + 1 <= m \/ m - a = 0)
      /\ \A k \in 1..(m - a) : (a + 1) + k - 1 = a + k
  BY <1>1
<1>3. \A k \in (a + 1)..m : l[k] \in Ctxs
  BY <1>1, <1>2
<1>4. /\ r \in Seq(Ctxs) /\ Len(r) = IF a + 1 <= m THEN m - (a + 1) + 1 ELSE 0
      /\ \A k \in 1..(m - (a + 1) + 1) : r[k] = l[(a + 1) + k - 1]
  BY <1>2, <1>3, SubSeqProperties
<1> HIDE DEF r
<1> QED
  BY <1>2, <1>4 DEF r, m

\* CpuFreeOrphanContexts and the freeing loop of CpuCompressLeakedContexts.
LEMMA FreeDebug ==
  ASSUME Inv, DebugInv, NEW from \in {"orphans", "free"},
         NEW to \in {"prepare", "result", "exit"}, FreePending(from, to),
         from = "orphans" => to = "prepare",
         from = "free" => to = IF Top.exiting THEN "exit" ELSE "result"
  PROVE  DebugInv'
<1> DEFINE n == Len(Top.pend)
           d == SubSeq(Top.pend, 1, n - 1)
           q == IF n <= 1 THEN to ELSE from
           C == IF n = 0 THEN {} ELSE {Top.pend[n]}
<1>1. Top.kind = "run" /\ Top.pc = from /\ free' = free \cup C
  BY DEF FreePending, At, FreeContext
<1>2. stk' = [stk EXCEPT ![Depth].pend = d, ![Depth].pc = q] /\ UNCHANGED <<list, cookie>>
  BY Zenon DEF FreePending
<1>3. /\ Depth = Len(stk) /\ Top = stk[Depth] /\ DebugFrameOK(Top) /\ list \in Seq(Ctxs)
      /\ Top.ctx \in Ctxs /\ Top.pend \in Seq(Ctxs) /\ Depth \in 1..Len(stk) /\ Depth \in Nat
  BY <1>1, DebugTopFacts
<1>4. /\ n # 0 => n \in DOMAIN Top.pend
      /\ d \in Seq(Ctxs) /\ n \in Nat
      /\ DOMAIN d = 1..(n - 1) /\ DOMAIN Top.pend = 1..n
      /\ \A k \in 1..(n - 1) : d[k] = Top.pend[k] /\ k \in 1..n /\ k # n
      /\ \A k \in 1..n : k = n \/ k \in 1..(n - 1)
  BY <1>1, <1>3
<1>5. n <= 1 => d = <<>>
  BY <1>3
<1>6. q \in RunPcs /\ (~(n <= 1) => q = from) /\ (n <= 1 => q = to) /\ q # "entered"
  BY DEF RunPcs
<1> HIDE DEF d, q
<1>7. PICK g : GoesTo(Top, g, q, d, Top.exiting) /\ Cut(stk, stk', Depth, g)
  BY <1>1, <1>2, <1>4, <1>6, GotoPendCut DEF Inv
<1>8. g.kind = "run" /\ g.ctx = Top.ctx /\ g.pc = q /\ g.pend = d /\ g.exiting = Top.exiting
  BY <1>1, <1>7 DEF GoesTo
<1>9. \A j, k \in 1..n : Top.pend[j] = Top.pend[k] => j = k
  BY <1>3, <1>4 DEF DebugFrameOK
<1>10. from = "orphans" => ~Top.exiting
  BY <1>1, <1>3 DEF DebugFrameOK
<1>11. DebugFrameOK(g)
  <2>1. \A j, k \in DOMAIN g.pend : g.pend[j] = g.pend[k] => j = k
    BY <1>4, <1>8, <1>9
  <2>2. g.pend # <<>> => g.pc \in {"orphans", "free"}
    BY <1>5, <1>6, <1>8
  <2>3. g.exiting => g.pc \in {"free", "exit"}
    BY <1>6, <1>8, <1>10
  <2>4. g.pc = "exit" => g.exiting
    BY <1>6, <1>8, <1>10
  <2> QED
    BY <1>3, <1>6, <1>8, <2>1, <2>2, <2>3, <2>4 DEF DebugFrameOK
<1>12. StaysPlaced(Top, g)
  <2>1. Listed(g) => ~g.exiting
    BY <1>6, <1>8, <1>10, <1>11 DEF Listed, DebugFrameOK
  <2>2. ~Top.exiting => Listed(Top)
    BY <1>1 DEF Listed
  <2> QED
    BY <1>1, <1>6, <1>8, <2>1, <2>2 DEF StaysPlaced
<1>13. Owns(Top) = Pending(Top) /\ Owns(g) = Pending(g)
  <2>1. ~Held(Top)
    BY <1>1 DEF Held
  <2>2. ~Held(g)
    BY <1>6, <1>8 DEF Held
  <2> QED
    BY <2>1, <2>2 DEF Owns
<1>14. Pending(Top) = Pending(g) \cup C /\ C \cap Pending(g) = {}
  <2>1. Pending(g) = {Top.pend[k] : k \in 1..(n - 1)}
    <3>1. Pending(g) = {d[k] : k \in 1..(n - 1)}
      BY <1>4, <1>8 DEF Pending
    <3> QED
      BY <1>4, <3>1
  <2>2. Pending(Top) = {Top.pend[k] : k \in 1..n}
    BY <1>4 DEF Pending
  <2>3. \A k \in 1..(n - 1) : n # 0 /\ Top.pend[k] # Top.pend[n]
    BY <1>4, <1>9
  <2>4. CASE n = 0
    <3>1. 1..n = {} /\ 1..(n - 1) = {}
      BY <2>4
    <3> QED
      BY <2>1, <2>2, <2>4, <3>1
  <2>5. CASE n # 0
    <3>1. C = {Top.pend[n]} /\ n \in 1..n
      BY <1>4, <2>5
    <3>2. \A k \in 1..(n - 1) : k \in 1..n
      BY <1>4
    <3>3. \A k \in 1..n : k = n \/ k \in 1..(n - 1)
      BY <1>4
    <3> HIDE DEF C
    <3> QED
      BY <2>1, <2>2, <2>3, <3>1, <3>2, <3>3
  <2> QED
    BY <2>4, <2>5
<1>15. Owns(Top) \cap (OnList(list) \cup free) = {} /\ OnList(list) \cap free = {}
  BY <1>3 DEF DebugInv, DebugOK, Apart
<1>16. /\ Owns(g) \cap (OnList(list) \cup free') = {} /\ OnList(list) \cap free' = {}
       /\ \A x : x \in Owns(g) \cup OnList(list) \cup free' <=>
                   x \in OnList(list) \cup free \/ \E k \in Depth..Len(stk) : x \in Owns(stk[k])
  <2>1. \A k \in Depth..Len(stk) : k = Depth
    BY <1>3
  <2>2. Depth \in Depth..Len(stk)
    BY <1>3
  <2>3. \A x : (\E k \in Depth..Len(stk) : x \in Owns(stk[k])) <=> x \in Owns(Top)
    BY <1>3, <2>1, <2>2
  <2> QED
    BY <1>1, <1>13, <1>14, <1>15, <2>3
<1>17. DebugOK(stk', list, free', cookie)
  <2>1. stk[Depth].pc # "entered" /\ stk[Len(stk)].pc # "entered"
    BY <1>1, <1>3
  <2>2. StaysPlaced(stk[Depth], g)
    BY <1>3, <1>12
  <2>3. DebugOK(stk, list, free, cookie)
    BY DEF DebugInv
  <2> QED
    BY ONLY <1>3, <1>7, <1>11, <1>16, <2>1, <2>2, <2>3, DebugCut
<1> QED
  BY <1>2, <1>17 DEF DebugInv

\* CpuCompressLeakedContexts takes what lies above the context off the list.
LEMMA CompressBeginDebug ==
  ASSUME Inv, DebugInv, CompressBegin
  PROVE  DebugInv'
<1> DEFINE at == {n \in DOMAIN list : list[n] = Top.ctx}
<1>1. Top.kind = "run" /\ Top.pc = "compress" /\ "unwind" \in RunPcs
  BY DEF CompressBegin, At, RunPcs
<1>2. /\ Depth = Len(stk) /\ Top = stk[Depth] /\ DebugFrameOK(Top) /\ list \in Seq(Ctxs)
      /\ Top.ctx \in Ctxs /\ Depth \in 1..Len(stk) /\ cookie \in [Ctxs -> Nat]
      /\ ~OthersEntered(stk, Depth)
  BY <1>1, DebugTopFacts
<1>3. Listed(Top) /\ Owns(Top) = {}
  BY <1>1, <1>2, CalmFrames
<1>4. UNCHANGED <<cookie, free>>
  BY DEF CompressBegin
<1>5. at # {}
  BY <1>2, <1>3 DEF DebugInv, DebugOK, LivePlaced, OnList
<1>6. PICK n \in at :
        LET keep == IF Top.exiting THEN n - 1 ELSE n IN
        /\ list' = SubSeq(list, 1, keep)
        /\ stk' = [stk EXCEPT ![Depth].pend = SubSeq(list, keep + 1, Len(list)),
                              ![Depth].pc = "unwind"]
        /\ UNCHANGED fault
  BY <1>5, Zenon DEF CompressBegin
<1> DEFINE keep == IF Top.exiting THEN n - 1 ELSE n
           rest == SubSeq(list, keep + 1, Len(list))
<1>7. /\ n \in 1..Len(list) /\ n \in DOMAIN list /\ list[n] = Top.ctx
      /\ keep \in 0..Len(list) /\ Len(list) \in Nat
      /\ keep = n \/ keep = n - 1
  BY <1>2
<1>8. /\ rest \in Seq(Ctxs) /\ Len(rest) = Len(list) - keep
      /\ \A k \in 1..(Len(list) - keep) : rest[k] = list[keep + k]
  BY <1>2, <1>7, AfterPosition
<1>9. stk' = [stk EXCEPT ![Depth].pend = rest, ![Depth].pc = "unwind"]
      /\ list' = SubSeq(list, 1, keep)
  BY <1>6
<1>10. Top.exiting => keep = n - 1
  OBVIOUS
<1>11. ~Top.exiting => keep = n
  OBVIOUS
<1> HIDE DEF keep, rest
<1>12. PICK g : GoesTo(Top, g, "unwind", rest, Top.exiting) /\ Cut(stk, stk', Depth, g)
  BY <1>1, <1>8, <1>9, GotoPendCut DEF Inv
<1>13. /\ g.kind = "run" /\ g.ctx = Top.ctx /\ g.pc = "unwind"
       /\ g.pend = rest /\ g.exiting = Top.exiting
  BY <1>1, <1>12 DEF GoesTo
<1>14. DOMAIN rest = 1..(Len(list) - keep)
  BY <1>8
<1>15. Pending(g) = {list[k] : k \in (keep + 1)..Len(list)}
  <2>1. Pending(g) = {list[keep + k] : k \in 1..(Len(list) - keep)}
    BY <1>8, <1>13, <1>14 DEF Pending
  <2>2. \A k \in 1..(Len(list) - keep) : keep + k \in (keep + 1)..Len(list)
    BY <1>7
  <2>3. \A k \in (keep + 1)..Len(list) : k - keep \in 1..(Len(list) - keep) /\ keep + (k - keep) = k
    BY <1>7
  <2> QED
    BY <2>1, <2>2, <2>3
<1>16. Owns(g) = {list[k] : k \in (keep + 1)..Len(list)}
  BY <1>13, <1>15 DEF Owns, Held
<1>17. DebugFrameOK(g)
  <2>1. g.exiting => g.ctx \in Pending(g)
    <3>1. g.exiting => n \in (keep + 1)..Len(list)
      BY <1>7, <1>10, <1>13
    <3> QED
      BY <1>7, <1>13, <1>15, <3>1
  <2>2. ASSUME NEW j \in DOMAIN rest, NEW k \in DOMAIN rest, rest[j] = rest[k] PROVE j = k
    <3>0. j \in 1..(Len(list) - keep) /\ k \in 1..(Len(list) - keep)
      BY <1>14, <2>2
    <3>1. list[keep + j] = list[keep + k] /\ keep + j \in DOMAIN list /\ keep + k \in DOMAIN list
      <4>1. list[keep + j] = list[keep + k]
        BY <1>8, <2>2, <3>0
      <4>2. keep + j \in 1..Len(list) /\ keep + k \in 1..Len(list)
        BY <1>7, <3>0
      <4> QED
        BY <1>2, <4>1, <4>2
    <3>2. keep + j = keep + k
      BY <3>1 DEF DebugInv, DebugOK, Once
    <3> QED
      BY <1>7, <1>14, <3>2
  <2> QED
    BY <1>2, <1>13, <2>1, <2>2 DEF DebugFrameOK
<1>18. (keep = n /\ Listed(g)) \/ (keep = n - 1 /\ ~Listed(g))
  BY <1>10, <1>11, <1>13 DEF Listed
<1>19. DebugOK(stk', SubSeq(list, 1, keep), free, cookie)
  <2>1. /\ DebugOK(stk, list, free, cookie) /\ Listed(stk[Depth]) /\ Owns(stk[Depth]) = {}
        /\ stk[Depth].pc # "entered" /\ g.ctx = stk[Depth].ctx /\ g.pc # "entered"
        /\ list[n] = g.ctx
    BY <1>1, <1>2, <1>3, <1>7, <1>13 DEF DebugInv
  <2> QED
    BY ONLY <1>2, <1>7, <1>12, <1>13, <1>16, <1>17, <1>18, <2>1, DebugPrefix
<1> QED
  BY <1>4, <1>9, <1>19 DEF DebugInv

\* CpuLeaveCritical: nothing changes when the context is not mTopContext.
LEMMA LeaveDebug ==
  ASSUME Inv, DebugInv, LeaveCritical
  PROVE  DebugInv'
<1>1. Top.kind = "run" /\ Top.pc = "leave" /\ "left" \in RunPcs /\ UNCHANGED <<cookie, free>>
  BY DEF LeaveCritical, At, RunPcs
<1>2. /\ Depth = Len(stk) /\ Top = stk[Depth] /\ DebugFrameOK(Top) /\ list \in Seq(Ctxs)
      /\ Top.ctx \in Ctxs /\ cookie \in [Ctxs -> Nat] /\ ~OthersEntered(stk, Depth)
  BY <1>1, DebugTopFacts
<1>3. Listed(Top) /\ ~Top.exiting /\ Top.pend = <<>> /\ Owns(Top) = {}
  BY <1>1, <1>2, CalmFrames DEF Calm
<1>4. CASE list = <<>> \/ Newest # Top.ctx
  <2>1. UNCHANGED <<list, stk>>
    BY <1>4, Zenon DEF LeaveCritical
  <2> QED
    BY <1>1, <2>1 DEF DebugInv
<1>5. CASE ~(list = <<>> \/ Newest # Top.ctx)
  <2>1. list' = SubSeq(list, 1, Len(list) - 1) /\ Goto("left")
    BY <1>5, Zenon DEF LeaveCritical
  <2>2. PICK g : GoesTo(Top, g, "left", Top.pend, Top.exiting) /\ Cut(stk, stk', Depth, g)
    BY <1>1, <2>1, GotoCut DEF Inv
  <2>3. g.kind = "run" /\ g.ctx = Top.ctx /\ g.pc = "left" /\ g.pend = <<>> /\ ~g.exiting
    BY <1>1, <1>3, <2>2 DEF GoesTo
  <2>4. DebugFrameOK(g) /\ ~Listed(g)
    BY <1>1, <1>2, <2>3 DEF DebugFrameOK, Listed
  <2>5. Owns(g) = {Top.ctx}
    BY <1>2, <2>3 DEF Owns, Pending, Held
  <2> DEFINE i == Len(list)
             keep == i - 1
  <2>6. i \in DOMAIN list /\ list[i] = g.ctx /\ (keep + 1)..Len(list) = {i}
    BY <1>2, <1>5, <2>3 DEF Newest
  <2>7. Owns(g) = {list[k] : k \in (keep + 1)..Len(list)}
    BY <2>3, <2>5, <2>6
  <2> HIDE DEF i
  <2>8. DebugOK(stk', SubSeq(list, 1, keep), free, cookie)
    <3>1. /\ DebugOK(stk, list, free, cookie) /\ Listed(stk[Depth]) /\ Owns(stk[Depth]) = {}
          /\ stk[Depth].pc # "entered" /\ g.ctx = stk[Depth].ctx /\ g.pc # "entered"
          /\ keep = i - 1
      BY <1>1, <1>2, <1>3, <2>3 DEF DebugInv
    <3> HIDE DEF keep
    <3> QED
      BY ONLY <1>2, <2>2, <2>3, <2>4, <2>6, <2>7, <3>1, DebugPrefix
  <2> QED
    BY <1>1, <2>1, <2>8 DEF DebugInv, i
<1> QED
  BY <1>4, <1>5

\* The unwinding applies what the pending contexts saved.
LEMMA CompressUnwindDebug ==
  ASSUME Inv, DebugInv, CompressUnwind
  PROVE  DebugInv'
<1>1. Top.kind = "run" /\ Top.pc = "unwind" /\ "free" \in RunPcs /\ Goto("free")
      /\ UNCHANGED <<list, cookie, free>>
  BY DEF CompressUnwind, At, RunPcs
<1>2. DebugFrameOK(Top)
  BY DebugTopFacts
<1>3. PICK g : GoesTo(Top, g, "free", Top.pend, Top.exiting) /\ Cut(stk, stk', Depth, g)
  BY <1>1, GotoCut DEF Inv
<1>4. /\ g.kind = "run" /\ g.ctx = Top.ctx /\ g.pc = "free" /\ g.pend = Top.pend
      /\ g.exiting = Top.exiting
  BY <1>1, <1>3 DEF GoesTo
<1>5. DebugFrameOK(g)
  BY <1>1, <1>2, <1>4 DEF DebugFrameOK
<1>6. StaysPlaced(Top, g)
  BY <1>1, <1>4 DEF StaysPlaced, Listed
<1>7. Owns(g) = Owns(Top)
  BY <1>1, <1>4 DEF Owns, Pending, Held
<1> QED
  BY <1>1, <1>3, <1>5, <1>6, <1>7, DebugStay

\* The end of CpuRunCtx.
LEMMA LeaveEndDebug ==
  ASSUME Inv, DebugInv, ~PrivateStack, LeaveEnd
  PROVE  DebugInv'
<1>1. Top.kind = "run" /\ Top.pc = "left" /\ "done" \in RunPcs /\ UNCHANGED <<list, cookie, free>>
  BY DEF LeaveEnd, At, RunPcs, cpuVars
<1>2. stk' = [SubSeq(stk, 1, Depth) EXCEPT ![Depth].pc = "done"]
  BY Zenon DEF LeaveEnd
<1>3. Depth = Len(stk) /\ Top = stk[Depth] /\ DebugFrameOK(Top) /\ Depth \in 1..Len(stk)
  BY <1>1, DebugTopFacts
<1>4. PICK g : GoesTo(Top, g, "done", Top.pend, Top.exiting) /\ Cut(stk, stk', Depth, g)
  BY <1>1, <1>2, <1>3, BackCut DEF Inv
<1>5. /\ g.kind = "run" /\ g.ctx = Top.ctx /\ g.pc = "done" /\ g.pend = Top.pend
      /\ g.exiting = Top.exiting
  BY <1>1, <1>4 DEF GoesTo
<1>6. DebugFrameOK(g) /\ StaysPlaced(Top, g)
  BY <1>1, <1>3, <1>5 DEF DebugFrameOK, StaysPlaced, Listed
<1>7. Owns(g) = Owns(Top)
  BY <1>1, <1>3, <1>5 DEF Owns, Pending, Held
<1> QED
  BY <1>1, <1>4, <1>6, <1>7, DebugStay

\* The activation returns; its context goes to the pool.
LEMMA ReturnDebug ==
  ASSUME Inv, DebugInv, Return
  PROVE  DebugInv'
<1> DEFINE t == Depth - 1
           g == stk[t]
           c == Top.ctx
<1>1. /\ Top.kind = "run" /\ Top.pc = "done" /\ stk' = SubSeq(stk, 1, t)
      /\ UNCHANGED <<list, cookie>> /\ free' = free \cup {c}
  BY DEF Return, At, FreeContext
<1>2. Depth > 1
  BY <1>1, TopFacts DEF Inv
<1>3. /\ Depth = Len(stk) /\ Top = stk[Depth] /\ list \in Seq(Ctxs) /\ Depth \in Nat
      /\ t \in 1..Len(stk) /\ t \in Nat /\ Depth \in 1..Len(stk) /\ t # Depth
      /\ \A n \in t..Len(stk) : n = t \/ n = Depth
      /\ t \in t..Len(stk) /\ Depth \in t..Len(stk) /\ t \in 1..(Depth - 1)
      /\ DebugFrameOK(Top) /\ c \in Ctxs /\ "done" \in RunPcs
  BY <1>1, <1>2, DebugTopFacts DEF RunPcs
<1>4. Owns(Top) = {c}
  BY <1>1, <1>3 DEF DebugFrameOK, Owns, Pending, Held
<1>5. Cut(stk, stk', t, g)
  BY <1>1, <1>3, BackCut DEF Inv
<1>6. DebugFrameOK(g) /\ g.pc # "entered" /\ StaysPlaced(g, g)
  <2>1. DebugFrameOK(g) /\ ~OthersEntered(stk, Depth)
    BY <1>3, DebugTopFacts
  <2> QED
    BY <1>3, <2>1 DEF OthersEntered, StaysPlaced
<1> HIDE DEF t, g, c
<1>7. g = stk[t]
  BY DEF g
<1>8. /\ Owns(g) \cap (OnList(list) \cup free) = {}
      /\ Owns(Top) \cap (OnList(list) \cup free) = {}
      /\ OnList(list) \cap free = {} /\ Owns(g) \cap Owns(Top) = {}
  BY <1>3, <1>7 DEF DebugInv, DebugOK, Apart
<1>9. \A x : (\E n \in t..Len(stk) : x \in Owns(stk[n])) <=> x \in Owns(g) \cup Owns(Top)
  BY <1>3, <1>7
<1>10. /\ Owns(g) \cap (OnList(list) \cup free') = {} /\ OnList(list) \cap free' = {}
       /\ \A x : x \in Owns(g) \cup OnList(list) \cup free' <=>
                   x \in OnList(list) \cup free \/ \E n \in t..Len(stk) : x \in Owns(stk[n])
  BY <1>1, <1>4, <1>8, <1>9
<1>11. DebugOK(stk', list, free', cookie)
  <2>1. /\ stk[t].pc # "entered" /\ stk[Len(stk)].pc # "entered" /\ StaysPlaced(stk[t], g)
        /\ DebugOK(stk, list, free, cookie)
    BY <1>1, <1>3, <1>6, <1>7 DEF DebugInv
  <2> QED
    BY ONLY <1>3, <1>5, <1>6, <1>10, <2>1, DebugCut
<1> QED
  BY <1>1, <1>11 DEF DebugInv

\* External: the DXE core's Exit leaves the frame of the image.
LEMMA NativeExitDebug ==
  ASSUME Inv, DebugInv, NativeExit
  PROVE  DebugInv'
<1>1. /\ Top.kind = "run" /\ Top.pc = "exit" /\ stk' = SubSeq(stk, 1, Depth - 1)
      /\ UNCHANGED <<list, cookie, free>>
  BY DEF NativeExit, At, cpuVars
<1>2. Depth > 1 /\ DebugFrameOK(Top)
  BY <1>1, TopFacts, DebugTopFacts DEF Inv
<1>3. Owns(Top) = {}
  BY <1>1, <1>2, DebugOwnsNone
<1> QED
  BY <1>1, <1>2, <1>3, PopDebug

\* CpuExitImage jumps into the frame of the image, if it finds one.
LEMMA ExitImageDebug ==
  ASSUME Inv, DebugInv, ExitImage
  PROVE  DebugInv'
<1>1. Top.kind = "run" /\ Top.pc = "call" /\ At("call") /\ "call" \in Calm /\ "check" \in Calm
      /\ UNCHANGED <<list, cookie, free>>
  BY DEF ExitImage, At, Calm, cpuVars
<1>2. CASE Goto("check")
  BY <1>1, <1>2, DebugGoto
<1>3. CASE UNCHANGED stk
  BY <1>1, <1>3 DEF DebugInv
<1>4. ASSUME ~Goto("check"), ~UNCHANGED stk PROVE DebugInv'
  <2>1. PICK n \in LastImageCtx :
          IF ImageFrames(list[n]) = {}
            THEN fault' = "jump" /\ UNCHANGED stk
            ELSE \E t \in ImageFrames(list[n]) :
                   /\ \A k \in (t + 1)..Depth : stk[k].kind # "event"
                   /\ stk' = [SubSeq(stk, 1, t) EXCEPT ![t].pc = "compress",
                                                       ![t].exiting = TRUE]
                   /\ UNCHANGED fault
    BY <1>4, Zenon DEF ExitImage
  <2>2. PICK t \in ImageFrames(list[n]) :
          /\ \A k \in (t + 1)..Depth : stk[k].kind # "event"
          /\ stk' = [SubSeq(stk, 1, t) EXCEPT ![t].pc = "compress", ![t].exiting = TRUE]
    BY <1>4, <2>1
  <2>3. /\ Depth = Len(stk) /\ Top = stk[Depth] /\ Depth \in 1..Len(stk) /\ Depth \in Nat
        /\ DebugFrameOK(Top) /\ "compress" \in RunPcs
    BY DebugTopFacts DEF RunPcs
  <2>4. t \in 1..Len(stk) /\ t \in 1..Depth /\ t \in Nat /\ stk[t].kind = "run"
    BY <2>3 DEF ImageFrames
  <2>5. Listed(Top) /\ Owns(Top) = {} /\ ~Top.exiting
    BY <1>1, <2>3, CalmFrames
  <2>6. ASSUME NEW k \in t..Depth
        PROVE  Owns(stk[k]) = {} /\ (stk[k].kind = "run" => Listed(stk[k]) /\ stk[k].pc \in Calm)
    <3>1. CASE k = Depth
      BY <1>1, <2>3, <2>5, <3>1
    <3>2. CASE k # Depth
      BY <2>2, <2>4, <3>2, DebugCallers DEF Calm
    <3> QED
      BY <3>1, <3>2
  <2>7. t \in t..Depth /\ \A k \in (t + 1)..Depth : k \in t..Depth
    BY <2>3, <2>4
  <2>8. Listed(stk[t]) /\ Owns(stk[t]) = {} /\ DebugFrameOK(stk[t]) /\ stk[t].pc \in Calm
    BY <2>4, <2>6, <2>7, DebugTopFacts
  <2>9. PICK g : GoesTo(stk[t], g, "compress", stk[t].pend, TRUE) /\ Cut(stk, stk', t, g)
    BY <2>2, <2>3, <2>4, BackCut DEF Inv
  <2>10. stk[t].pend = <<>>
    BY <2>4, <2>8, CalmFrames
  <2>11. g.kind = "run" /\ g.ctx = stk[t].ctx /\ g.pc = "compress" /\ g.pend = <<>> /\ g.exiting
    BY <2>4, <2>9, <2>10 DEF GoesTo
  <2>12. DebugFrameOK(g)
    <3>1. g.ctx \in Ctxs
      BY <2>4, <2>8, <2>11 DEF DebugFrameOK
    <3>2. DOMAIN g.pend = {}
      BY <2>11
    <3> QED
      BY <2>11, <3>1, <3>2 DEF DebugFrameOK
  <2>13. Owns(g) = {}
    BY <2>11, <2>12, CalmFrames
  <2>14. StaysPlaced(stk[t], g)
    BY <2>4, <2>8, <2>11 DEF StaysPlaced
  <2>15. \A k \in (t + 1)..Depth : Owns(stk[k]) = {}
    BY <2>6, <2>7
  <2>16. Owns(g) = Owns(stk[t]) /\ Top.pc # "entered"
    BY <1>1, <2>8, <2>13
  <2> QED
    BY ONLY Inv, DebugInv, <1>1, <2>4, <2>9, <2>12, <2>14, <2>15, <2>16, BackDebug
<1> QED
  BY <1>2, <1>3, <1>4

\* NativeThunk calls native code.
LEMMA CallNativeDebug ==
  ASSUME Inv, DebugInv, CallNative
  PROVE  DebugInv'
<1> DEFINE s == [stk EXCEPT ![Depth].pc = "native"]
           h == HostFrame("native")
<1>1. Top.kind = "run" /\ Top.pc = "call" /\ "call" \in Calm /\ "native" \in Calm
      /\ "native" \in RunPcs /\ UNCHANGED <<list, cookie, free>>
  BY DEF CallNative, At, Calm, RunPcs, cpuVars
<1>2. stk' = Append(s, h)
  BY DEF CallNative
<1>3. /\ Depth = Len(stk) /\ Top = stk[Depth] /\ list \in Seq(Ctxs) /\ Depth \in Nat \ {0}
      /\ Depth \in 1..Len(stk) /\ stk \in Seq(Frame) /\ DebugFrameOK(Top)
  BY DebugTopFacts
<1>4. SubSeq(stk, 1, Depth) = stk
  BY <1>3, SubSeqFull
<1>5. PICK g : GoesTo(Top, g, "native", Top.pend, Top.exiting) /\ Cut(stk, s, Depth, g)
  BY <1>1, <1>3, <1>4, BackCut DEF Inv
<1>6. Top.pend = <<>> /\ Owns(Top) = {} /\ Listed(Top) /\ ~Top.exiting
  BY <1>1, <1>3, CalmFrames
<1> HIDE DEF s, h
<1>7. g.kind = "run" /\ g.ctx = Top.ctx /\ g.pc = "native" /\ g.pend = <<>> /\ ~g.exiting
  BY <1>1, <1>5, <1>6 DEF GoesTo
<1>8. DebugFrameOK(g)
  BY <1>1, <1>3, <1>7 DEF DebugFrameOK
<1>9. Owns(g) = {} /\ StaysPlaced(Top, g)
  BY <1>1, <1>6, <1>7, <1>8, CalmFrames DEF StaysPlaced
<1>10. DebugOK(s, list, free, cookie)
  <2>1. /\ stk[Depth].pc # "entered" /\ stk[Len(stk)].pc # "entered" /\ StaysPlaced(stk[Depth], g)
        /\ Owns(g) = Owns(stk[Depth]) /\ DebugOK(stk, list, free, cookie)
    BY <1>1, <1>3, <1>6, <1>9 DEF DebugInv
  <2>2. \A n \in (Depth + 1)..Len(stk) : Owns(stk[n]) = {}
    BY <1>3
  <2> QED
    BY ONLY <1>3, <1>5, <1>8, <2>1, <2>2, DebugSame
<1>11. /\ h \in Frame /\ h.kind = "native" /\ DebugFrameOK(h) /\ ~Listed(h) /\ Owns(h) = {}
       /\ h.pc # "entered"
  BY DebugHostFrames DEF h
<1>12. s \in Seq(Frame) /\ Len(s) > 0 /\ s[Len(s)] = g /\ NextOK(g, h)
  BY <1>3, <1>5, <1>7, <1>11 DEF Cut, NextOK
<1>13. Pushed(s, stk', h)
  BY <1>2, <1>11, <1>12, AppendPushed
<1>14. /\ Owns(h) \cap free = {} /\ Owns(h) \cup free = free
       /\ \A c \in OnList(list) : cookie[c] = cookie[c]
  BY <1>11
<1>15. s[Len(s)].pc # "entered" /\ NextOK(s[Len(s)], h)
  BY <1>7, <1>12
<1>16. DebugOK(stk', list, free, cookie)
  BY ONLY <1>3, <1>10, <1>11, <1>12, <1>13, <1>14, <1>15, DebugPush
<1> QED
  BY <1>1, <1>16 DEF DebugInv

-----------------------------------------------------------------------------
(* DEBUG builds: every step.                                               *)

\* Steps of native code and of the interrupt logic.
LEMMA HostStepDebug ==
  ASSUME Inv, DebugInv, HostStep
  PROVE  DebugInv'
<1>0. InHost => Top.pc # "entered"
  BY TopFacts DEF InHost, Inv
<1>1. CASE RunFunc
  <2>1. PICK c \in free : AllocContext(c, NoImage)
    BY <1>1 DEF RunFunc
  <2> QED
    BY <1>1, <2>1, AllocDebug DEF RunFunc
<1>2. CASE RunImage
  <2>1. PICK i \in Images, c \in free : AllocContext(c, i)
    BY <1>2 DEF RunImage
  <2> QED
    BY <1>2, <2>1, AllocDebug DEF RunImage, MayStartImage
<1>3. ASSUME UNCHANGED <<stk, list, free, cookie>> PROVE DebugInv'
  BY <1>3 DEF DebugInv
<1>4. CASE RunImageExhausted
  BY <1>3, <1>4 DEF RunImageExhausted, cpuVars
<1>5. CASE SetInterrupt
  BY <1>3, <1>5 DEF SetInterrupt, cpuVars
<1>6. CASE CallHost
  BY <1>0, <1>6, HostPushDebug DEF CallHost, cpuVars
<1>7. CASE Event
  <2>1. Top.pc # "entered"
    <3>1. realInt
      BY <1>7 DEF Event, TakeInterrupt
    <3>2. TopPc(stk) \notin CriticalPcs
      BY <3>1 DEF Inv, CritInv
    <3> QED
      BY <3>2, TopFacts DEF CriticalPcs, Inv
  <2> QED
    BY <1>7, <2>1, HostPushDebug DEF Event, cpuVars
<1>8. CASE EventReturn
  <2>1. /\ Top.kind = "event" /\ stk' = SubSeq(stk, 1, Depth - 1)
        /\ UNCHANGED <<list, free, cookie>>
    BY <1>8 DEF EventReturn, cpuVars
  <2>2. Depth > 1 /\ Top.pc = "code" /\ DebugFrameOK(Top)
    BY <2>1, TopFacts, DebugTopFacts DEF Inv
  <2>3. Owns(Top) = {}
    BY <2>1, <2>2, DebugHost
  <2> QED
    BY <2>1, <2>2, <2>3, PopDebug
<1> QED
  BY <1>1, <1>2, <1>4, <1>5, <1>6, <1>7, <1>8, ReturnHostDebug, LongJumpDebug DEF HostStep

\* Steps of an activation.
LEMMA EmuStepDebug ==
  ASSUME Debug, ~PrivateStack, Inv, DebugInv, EmuStep
  PROVE  DebugInv'
<1>1. ASSUME NEW p \in Calm, At(p), NEW q \in Calm \cup {"compress"}, Goto(q),
             UNCHANGED <<list, free, cookie>>
      PROVE  DebugInv'
  BY <1>1, DebugGoto
<1>2. {"prepare", "thunkpre", "loop", "jit", "decode", "call", "check", "result", "thunkpost",
       "restore", "leave"} \subseteq Calm
  BY DEF Calm
<1>3. CASE FreeOrphan
  BY <1>3, FreeDebug DEF FreeOrphan
<1>4. CASE FreeLeaked
  <2>1. PICK to \in {"result", "exit"} : to = IF Top.exiting THEN "exit" ELSE "result"
    OBVIOUS
  <2>2. FreePending("free", to)
    BY <1>4, <2>1 DEF FreeLeaked
  <2> QED
    BY <2>1, <2>2, FreeDebug
<1>5. CASE SaveOrReset
  BY <1>1, <1>2, <1>5 DEF SaveOrReset
<1>6. CASE ThunkPre
  BY <1>1, <1>2, <1>6 DEF ThunkPre
<1>7. CASE EmuStart
  BY <1>1, <1>2, <1>7 DEF EmuStart, cpuVars
<1>8. CASE EmuStop
  BY <1>1, <1>2, <1>8 DEF EmuStop
<1>9. CASE Decode
  <2>1. PICK q \in {"loop", "call", "thunkpost", "restore"} : Goto(q)
    BY <1>9 DEF Decode
  <2> QED
    BY <1>1, <1>2, <1>9, <2>1 DEF Decode, cpuVars
<1>10. CASE CheckLeaked
  <2>1. Goto("result") \/ Goto("compress")
    BY <1>10 DEF CheckLeaked
  <2> QED
    BY <1>1, <1>2, <1>10, <2>1 DEF CheckLeaked, cpuVars
<1>11. CASE WriteResult
  BY <1>1, <1>2, <1>11 DEF WriteResult
<1>12. CASE ThunkPost
  BY <1>1, <1>2, <1>12 DEF ThunkPost
<1>13. CASE Restore
  BY <1>1, <1>2, <1>13 DEF Restore
<1> QED
  BY <1>3, <1>4, <1>5, <1>6, <1>7, <1>8, <1>9, <1>10, <1>11, <1>12, <1>13, EnterDebug,
     DetectOrphansDebug, CallNativeDebug, ExitImageDebug, CompressBeginDebug,
     CompressUnwindDebug, NativeExitDebug, LeaveDebug, LeaveEndDebug, ReturnDebug DEF EmuStep

\* At first every context is in its pool.
LEMMA InitDebug == Init => DebugInv
<1> SUFFICES ASSUME Init PROVE DebugInv
  OBVIOUS
<1>1. Len(stk) = 1 /\ stk[1] = HostFrame("native") /\ list = <<>> /\ free = Ctxs
  BY DEF Init
<1> DEFINE h == HostFrame("native")
<1>2. DebugFrameOK(h) /\ ~Listed(h) /\ Owns(h) = {} /\ h.pc # "entered"
  BY DebugHostFrames
<1> HIDE DEF h
<1>3. \A n \in 1..Len(stk) : stk[n] = h
  BY <1>1 DEF h
<1>4. DebugShape(stk)
  BY <1>1, <1>2, <1>3 DEF DebugShape
<1>5. Once(list) /\ CookiesRise(stk, list, cookie)
  BY <1>1 DEF Once, CookiesRise
<1>6. Apart(stk, list, free) /\ Covered(stk, list, free)
  <2>1. OnList(list) = {}
    BY <1>1 DEF OnList
  <2>2. \A n, m \in 1..Len(stk) : n = m
    BY <1>1
  <2> QED
    BY <1>1, <1>2, <1>3, <2>1, <2>2 DEF Apart, Covered
<1>7. LivePlaced(stk, list, cookie) /\ NewestEntered(stk, list)
  <2>1. stk[Len(stk)].pc # "entered"
    BY <1>1, <1>2, <1>3
  <2> QED
    BY <1>2, <1>3, <2>1 DEF LivePlaced, NewestEntered
<1> QED
  BY <1>4, <1>5, <1>6, <1>7 DEF DebugInv, DebugOK

\* Every step keeps the invariant.
LEMMA NextDebug ==
  ASSUME Debug, ~PrivateStack
  PROVE  Inv /\ DebugInv /\ [Next]_vars => DebugInv'
<1> SUFFICES ASSUME Inv, DebugInv, [Next]_vars PROVE DebugInv'
  OBVIOUS
<1>1. CASE Next
  BY <1>1, HostStepDebug, EmuStepDebug DEF Next
<1>2. CASE UNCHANGED vars
  BY <1>2 DEF DebugInv, vars, cpuVars
<1> QED
  BY <1>1, <1>2

\* Inv and DebugInv hold in every reachable state of a DEBUG build.
THEOREM DebugInvariance ==
  ASSUME Debug, ~PrivateStack
  PROVE  Spec => [](Inv /\ DebugInv)
<1>1. Init => DebugInv
  BY InitDebug
<1>2. Inv /\ DebugInv /\ [Next]_vars => DebugInv'
  BY NextDebug
<1> QED
  BY <1>1, <1>2, Invariance, PTL DEF Spec

\* In DEBUG builds on the caller's stack, whatever LongJumps native code makes:
\* when an activation enters the JIT, CpuDetectOrphanContexts has taken every
\* context off the list whose frame cannot be below the one about to run.
THEOREM OrphansGone ==
  ASSUME Debug, ~PrivateStack
  PROVE  Spec => []OrphansReclaimed
<1>1. Inv /\ DebugInv => OrphansReclaimed
  <2> SUFFICES ASSUME Inv, DebugInv, At("jit"), NEW k \in DOMAIN list, k < Len(list)
               PROVE  cookie[list[k]] < cookie[Newest]
    BY DEF OrphansReclaimed
  <2>1. Top.pc = "jit" /\ Top = stk[Len(stk)] /\ list \in Seq(Ctxs)
    BY DebugTopFacts DEF At
  <2>2. k \in 1..Len(list) /\ Len(list) \in DOMAIN list
    BY <2>1
  <2>3. cookie[list[k]] < cookie[list[Len(list)]]
    BY <2>1, <2>2 DEF DebugInv, DebugOK, CookiesRise
  <2> QED
    BY <2>3 DEF Newest
<1> QED
  BY <1>1, DebugInvariance, PTL

\* And it takes no context of an activation that is still under way.
THEOREM DebugLiveStayListed ==
  ASSUME Debug, ~PrivateStack
  PROVE  Spec => []LiveListed
<1>1. Inv /\ DebugInv => LiveListed
  <2> SUFFICES ASSUME Inv, DebugInv, NEW n \in 1..Len(stk), stk[n].kind = "run", ~stk[n].exiting,
                      stk[n].pc \notin {"start", "left", "done"}
               PROVE  \E k \in DOMAIN list : list[k] = stk[n].ctx
    BY DEF LiveListed, Depth
  <2>1. Listed(stk[n])
    BY DEF Listed
  <2> QED
    BY <2>1 DEF DebugInv, DebugOK, LivePlaced, OnList
<1> QED
  BY <1>1, DebugInvariance, PTL

\* What a frame refers to is on the list, pending or held.
LEMMA InUseDebug ==
  ASSUME Inv, DebugInv
  PROVE  \A c : c \in InUse <=> c \in OnList(list) \/ \E n \in 1..Len(stk) : c \in Owns(stk[n])
<1>0. /\ Depth = Len(stk)
      /\ \A n \in 1..Len(stk) : DebugFrameOK(stk[n])
      /\ LivePlaced(stk, list, cookie)
  BY DebugTopFacts DEF DebugInv, DebugOK
<1> DEFINE Referred(n) == stk[n].kind = "run" /\ ~(stk[n].exiting /\ stk[n].pc \in {"free", "exit"})
<1>1. ASSUME NEW n \in 1..Len(stk), Referred(n)
      PROVE  stk[n].ctx \in OnList(list) \cup Owns(stk[n])
  <2>1. CASE Listed(stk[n])
    BY <1>0, <2>1 DEF LivePlaced
  <2>2. CASE Held(stk[n])
    BY <1>0, <2>2 DEF Held, Owns, DebugFrameOK
  <2>3. CASE ~Listed(stk[n]) /\ ~Held(stk[n])
    <3>1. stk[n].exiting /\ stk[n].pc = "unwind"
      BY <1>1, <2>3 DEF Listed, Held
    <3> QED
      BY <1>0, <3>1 DEF DebugFrameOK, Owns
  <2> QED
    BY <2>1, <2>2, <2>3
<1>2. ASSUME NEW n \in 1..Len(stk), NEW c \in Owns(stk[n])
      PROVE  c \in Pending(stk[n]) \/ (Referred(n) /\ c = stk[n].ctx)
  <2>1. CASE c \in Pending(stk[n])
    BY <2>1
  <2>2. CASE c \notin Pending(stk[n])
    BY <2>2 DEF Owns, Held
  <2> QED
    BY <2>1, <2>2
<1>3. \A n \in 1..Len(stk) : Pending(stk[n]) \subseteq Owns(stk[n])
  BY DEF Owns
<1>4. InUse = OnList(list) \cup {stk[n].ctx : n \in {m \in 1..Len(stk) : Referred(m)}}
                \cup UNION {Pending(stk[n]) : n \in 1..Len(stk)}
  BY <1>0 DEF InUse, OnList, Pending
<1> HIDE DEF Referred
<1>5. ASSUME NEW c \in InUse PROVE c \in OnList(list) \/ \E n \in 1..Len(stk) : c \in Owns(stk[n])
  <2>1. CASE \E n \in 1..Len(stk) : Referred(n) /\ c = stk[n].ctx
    BY <1>1, <2>1
  <2>2. CASE \E n \in 1..Len(stk) : c \in Pending(stk[n])
    BY <1>3, <2>2
  <2> QED
    BY <1>4, <2>1, <2>2
<1>6. ASSUME NEW n \in 1..Len(stk), NEW c \in Owns(stk[n]) PROVE c \in InUse
  <2>1. CASE c \in Pending(stk[n])
    BY <1>4, <2>1
  <2>2. CASE Referred(n) /\ c = stk[n].ctx
    BY <1>4, <2>2
  <2> QED
    BY <1>2, <1>6, <2>1, <2>2
<1>7. OnList(list) \subseteq InUse
  BY <1>4
<1> QED
  BY <1>5, <1>6, <1>7

\* A context is in its pool or in use, never both and never neither.
InPoolOrInUse == InUse \cap free = {} /\ InUse \cup free = Ctxs

\* So it is in DEBUG builds too, whatever LongJumps native code makes; what was
\* jumped over stays in use until the orphans are looked for.
THEOREM DebugContextsKept ==
  ASSUME Debug, ~PrivateStack
  PROVE  Spec => []InPoolOrInUse
<1>1. Inv /\ DebugInv => InPoolOrInUse
  <2> SUFFICES ASSUME Inv, DebugInv PROVE InPoolOrInUse
    OBVIOUS
  <2>1. Apart(stk, list, free) /\ Covered(stk, list, free)
    BY DEF DebugInv, DebugOK
  <2>2. list \in Seq(Ctxs) /\ free \subseteq Ctxs
    BY DebugTopFacts
  <2>3. InUse \cap free = {}
    <3>1. \A n \in 1..Len(stk) : Owns(stk[n]) \cap free = {}
      BY <2>1 DEF Apart
    <3>2. OnList(list) \cap free = {}
      BY <2>1 DEF Apart
    <3> QED
      BY <3>1, <3>2, InUseDebug
  <2>4. OnList(list) \subseteq Ctxs /\ \A n \in 1..Len(stk) : Owns(stk[n]) \subseteq Ctxs
    <3>1. OnList(list) \subseteq Ctxs
      BY <2>2 DEF OnList
    <3>2. ASSUME NEW n \in 1..Len(stk) PROVE Owns(stk[n]) \subseteq Ctxs
      <4>1. stk[n].pend \in Seq(Ctxs)
        BY DebugTopFacts DEF Frame
      <4> QED
        BY <4>1 DEF Owns, Pending
    <3> QED
      BY <3>1, <3>2
  <2>5. InUse \cup free = Ctxs
    <3>1. \A c \in Ctxs : c \in OnList(list) \/ c \in free \/ \E n \in 1..Len(stk) : c \in Owns(stk[n])
      BY <2>1 DEF Covered
    <3> QED
      BY <2>2, <2>4, <3>1, InUseDebug
  <2> QED
    BY <2>3, <2>5 DEF InPoolOrInUse
<1> QED
  BY <1>1, DebugInvariance, PTL
=============================================================================
