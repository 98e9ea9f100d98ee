-------------------------------- MODULE CpuRun --------------------------------
(***************************************************************************)
(* Running emulated code (Drivers/Emulator/Cpu.c, Native.c).               *)
(*                                                                         *)
(* The host is one processor.  Emulated functions and images are activated *)
(* by native code, call native code, and are interrupted by timer events   *)
(* whose notification functions may activate emulated code again.  Every   *)
(* activation borrows the one register file of its Cpu's engine: it saves  *)
(* what it finds there, runs, and puts it back.  Native code may also      *)
(* LongJump over activations, and an emulated image may leave through      *)
(* gBS->Exit, in which case nobody runs their epilogue.                    *)
(*                                                                         *)
(* stk is the host call stack.  A frame is native code ("native"), an      *)
(* interrupt handler with the notifications it dispatches ("event") or an  *)
(* activation of CpuRunFunc or CpuRunImage ("run"), whose pc says how far  *)
(* it is.  Only the last frame takes steps.  A register file is abstracted *)
(* to <<c, k>>: the registers of context c's activation after its k-th     *)
(* change, modulo 2; <<NoCtx, 0>> is the engine's InitialState.            *)
(***************************************************************************)
EXTENDS Critical, Sequences, FiniteSets

CONSTANTS
  Cpus,       \* CpuContexts: CpuX64, CpuAArch64
  Ctxs,       \* CpuRunContexts, of all pools
  CpuOf,      \* the Cpu a CpuRunContext was created for
  Images,     \* emulated images
  ImageCpu,   \* ImageRecord->Cpu
  NoCtx,      \* NULL
  NoImage,    \* NULL
  MaxFrames,  \* bound: frames on the host stack
  Debug,      \* DEBUG build: MAU_CHECK_ORPHAN_CONTEXTS, arguments of DEBUG
  PrivateStack, \* MAU_ON_PRIVATE_STACK build
  Jumps       \* which LongJumps native code makes: see JumpAllowed

ASSUME CpuRunAssumption ==
  /\ CpuOf \in [Ctxs -> Cpus]
  /\ ImageCpu \in [Images -> Cpus]
  /\ NoCtx \notin Ctxs
  /\ NoImage \notin Images
  /\ MaxFrames \in Nat \ {0}
  /\ Debug \in BOOLEAN
  /\ PrivateStack \in BOOLEAN
  /\ Jumps \in {"none", "thunked", "clean"}

VARIABLES
  stk,      \* the host call stack, oldest frame first
  list,     \* contexts reachable from mTopContext by PrevContext, top last
  count,    \* Cpu->Contexts
  saved,    \* Context->PrevUcContext while Flags has CRC_HAVE_SAVED_UC_CONTEXT
  cookie,   \* Context->LeakCookie, as the depth of the frame it points to
  image,    \* Context->ImageRecord
  uc,       \* registers in the engine of each Cpu
  free,     \* contexts in the pools
  ran,      \* images that were started: their records carry a handle
  fault     \* the ASSERT or NULL dereference that stopped the machine

cpuVars == <<list, count, saved, cookie, image, uc, free, ran>>
vars == <<critVars, stk, cpuVars, fault>>

RunPcs == {"start", "entered", "orphans", "prepare", "thunkpre", "loop", "jit",
           "decode", "call", "native", "check", "compress", "unwind", "free",
           "result", "exit", "thunkpost", "restore", "leave", "left", "done"}
Faults == {"none", "flags", "contexts", "top", "exit", "walk", "jump", "null"}

\* Frames that hold a critical section, and frames whose activation has
\* registers of its own in the engine.
CriticalPcs == {"entered", "jit", "unwind", "left"}
OwnedPcs == {"loop", "jit", "decode", "call", "native", "check", "compress",
             "unwind", "free", "result", "thunkpost"}

Regs == (Ctxs \cup {NoCtx}) \X {0, 1}
InitialState == <<NoCtx, 0>>
NotSaved == <<>>    \* CRC_HAVE_SAVED_UC_CONTEXT is clear
HasSaved(c) == saved[c] # NotSaved

Frame == [kind : {"native", "event", "run"}, pc : RunPcs \cup {"code"},
          ctx : Ctxs \cup {NoCtx}, img : Images \cup {NoImage},
          pend : Seq(Ctxs), exiting : BOOLEAN]

HostFrame(kind) == [kind |-> kind, pc |-> "code", ctx |-> NoCtx,
                    img |-> NoImage, pend |-> <<>>, exiting |-> FALSE]
RunFrame(c, i) == [kind |-> "run", pc |-> "start", ctx |-> c,
                   img |-> i, pend |-> <<>>, exiting |-> FALSE]

\* The running frame, and what most steps do to it.
Depth == Len(stk)
Top == stk[Depth]
At(pc) == Top.kind = "run" /\ Top.pc = pc
Goto(pc) == stk' = [stk EXCEPT ![Depth].pc = pc]
InHost == Top.kind # "run"
Room == Depth < MaxFrames

Newest == list[Len(list)]
OnCpu(s, p) == {n \in DOMAIN s : CpuOf[s[n]] = p}
Touch(p) == [uc EXCEPT ![p] = <<@[1], 1 - @[2]>>]

TypeOK ==
  /\ CritTypeOK
  /\ stk \in Seq(Frame) /\ Depth \in 1..MaxFrames
  /\ list \in Seq(Ctxs)
  /\ count \in [Cpus -> Int]
  /\ saved \in [Ctxs -> Regs \cup {NotSaved}]
  /\ cookie \in [Ctxs -> Nat]
  /\ image \in [Ctxs -> Images \cup {NoImage}]
  /\ uc \in [Cpus -> Regs]
  /\ free \subseteq Ctxs
  /\ ran \subseteq Images
  /\ fault \in Faults

Init ==
  /\ CritInit
  /\ stk = <<HostFrame("native")>>
  /\ list = <<>>
  /\ count = [p \in Cpus |-> 0]
  /\ saved = [c \in Ctxs |-> NotSaved]
  /\ cookie = [c \in Ctxs |-> 0]
  /\ image = [c \in Ctxs |-> NoImage]
  /\ uc = [p \in Cpus |-> InitialState]
  /\ free = Ctxs
  /\ ran = {}
  /\ fault = "none"

-----------------------------------------------------------------------------
(* Native code and interrupts.                                             *)

\* ObjectAlloc from the Cpu's pool; CpuRunContextOnAlloc scrubs the context.
AllocContext(c, i) ==
  /\ c \in free
  /\ free' = free \ {c}
  /\ saved' = [saved EXCEPT ![c] = NotSaved]
  /\ cookie' = [cookie EXCEPT ![c] = 0]
  /\ image' = [image EXCEPT ![c] = i]
  /\ stk' = Append(stk, RunFrame(c, i))

\* Native code calls an emulated function: CpuRunFunc up to CpuRunCtx.
RunFunc ==
  /\ InHost /\ Room
  /\ \E c \in free : AllocContext(c, NoImage)
  /\ UNCHANGED <<critVars, list, count, uc, ran, fault>>

\* StartImage, which notification functions may not call.
MayStartImage == InHost /\ Room /\ \A n \in 1..Depth : stk[n].kind # "event"

\* StartImage calls CpuRunImage, which records the image's handle.
RunImage ==
  /\ MayStartImage
  /\ \E i \in Images \ ran :
       /\ \E c \in free : CpuOf[c] = ImageCpu[i] /\ AllocContext(c, i)
       /\ ran' = ran \cup {i}
  /\ UNCHANGED <<critVars, list, count, uc, fault>>

\* CpuRunImage with an exhausted pool: a DEBUG build prints Context->Cpu
\* before it looks whether Context is NULL; otherwise it returns
\* EFI_OUT_OF_RESOURCES and nothing changes.
RunImageExhausted ==
  /\ MayStartImage
  /\ \E i \in Images \ ran : \A c \in free : CpuOf[c] # ImageCpu[i]
  /\ fault' = IF Debug THEN "null" ELSE "none"
  /\ UNCHANGED <<critVars, stk, cpuVars>>

\* A native function calls another one.  Only LeakCookies tell the depth.
CallHost ==
  /\ Debug
  /\ InHost /\ Room
  /\ stk' = Append(stk, HostFrame("native"))
  /\ UNCHANGED <<critVars, cpuVars, fault>>

\* A native function returns, to emulated code through the NativeThunk.
ReturnHost ==
  /\ Top.kind = "native" /\ Depth > 1
  /\ LET below == stk[Depth - 1]
         rest == SubSeq(stk, 1, Depth - 1) IN
     stk' = IF below.kind = "run" /\ below.pc = "native"
              THEN [rest EXCEPT ![Depth - 1].pc = "check"]
              ELSE rest
  /\ UNCHANGED <<critVars, cpuVars, fault>>

\* RaiseTPL, RestoreTPL and drivers set the interrupt state.  Inside the
\* JIT the engine's own allocations do the same.
SetInterrupt ==
  /\ InHost \/ At("jit")
  /\ \E state \in BOOLEAN : HookSetInterrupt(state)
  /\ UNCHANGED <<stk, cpuVars, fault>>

\* A timer interrupt is taken wherever the processor allows it.
Event ==
  /\ Room
  /\ TakeInterrupt
  /\ stk' = Append(stk, HostFrame("event"))
  /\ UNCHANGED <<cpuVars, fault>>

EventReturn ==
  /\ Top.kind = "event"
  /\ ReturnFromInterrupt
  /\ stk' = SubSeq(stk, 1, Depth - 1)
  /\ UNCHANGED <<cpuVars, fault>>

\* The LongJumps considered.  None leaves an interrupt handler or crosses
\* StartImage, which have jump buffers of their own.
\*   thunked: the SetJump caller was itself called by emulated code, the case
\*            NativeThunkCheckLeakedContexts is there for
\*   clean:   no activation jumped over holds saved registers, the case
\*            CpuDetectOrphanContexts is there for
JumpAllowed(t) ==
  LET over == {n \in (t + 1)..Depth : stk[n].kind = "run"} IN
  /\ \A n \in (t + 1)..Depth : stk[n].kind # "event" /\ stk[n].img = NoImage
  /\ \/ /\ Jumps = "thunked"
        /\ \E j \in 1..(t - 1) :
             /\ stk[j].kind = "run"
             /\ \A n \in (j + 1)..t : stk[n].kind = "native"
     \/ /\ Jumps = "clean"
        /\ \A n \in over : ~HasSaved(stk[n].ctx)

LongJump ==
  /\ Top.kind = "native"
  /\ \E t \in 1..(Depth - 1) :
       /\ stk[t].kind # "run"
       /\ JumpAllowed(t)
       /\ stk' = SubSeq(stk, 1, t)
  /\ UNCHANGED <<critVars, cpuVars, fault>>

-----------------------------------------------------------------------------
(* The prologue of an activation.                                          *)

\* CpuEnterCritical.
EnterCritical ==
  /\ At("start")
  /\ CriticalBegin
  /\ list' = Append(list, Top.ctx)
  /\ count' = [count EXCEPT ![CpuOf[Top.ctx]] = @ + 1]
  /\ Goto("entered")
  /\ UNCHANGED <<saved, cookie, image, uc, free, ran, fault>>

\* Mutants: the stack taken to grow upward, and an equal cookie let through.
FirstOrphanUpward ==
  LET n == Len(list)
      older == {j \in 1..(n - 1) : cookie[list[j]] > Depth} IN
  IF older = {} THEN 1 ELSE 1 + CHOOSE j \in older : \A k \in older : k <= j
FirstOrphanEqual ==
  LET n == Len(list)
      older == {j \in 1..(n - 1) : cookie[list[j]] <= Depth} IN
  IF older = {} THEN 1 ELSE 1 + CHOOSE j \in older : \A k \in older : k <= j

\* CpuDetectOrphanContexts: the contexts just below the new one that were
\* recorded at its depth of the host stack or deeper belong to code that is
\* gone.
FirstOrphan ==
  LET n == Len(list)
      older == {j \in 1..(n - 1) : cookie[list[j]] < Depth} IN
  IF older = {} THEN 1 ELSE 1 + CHOOSE j \in older : \A k \in older : k <= j

Orphans == IF Debug THEN SubSeq(list, FirstOrphan, Len(list) - 1) ELSE <<>>

\* The counter is the new context's Cpu's, whoever the orphan belonged to.
OrphanCpu(o) == CpuOf[Newest]

Lost(p) == Cardinality({n \in DOMAIN Orphans : OrphanCpu(Orphans[n]) = p})

DetectOrphans ==
  /\ At("entered")
  /\ cookie' = IF Debug THEN [cookie EXCEPT ![Top.ctx] = Depth] ELSE cookie
  /\ count' = [p \in Cpus |-> count[p] - Lost(p)]
  /\ fault' = IF \E p \in Cpus : count'[p] < 0 THEN "contexts" ELSE "none"
  /\ list' = IF Orphans = <<>> THEN list
             ELSE Append(SubSeq(list, 1, FirstOrphan - 1), Newest)
  /\ stk' = [stk EXCEPT ![Depth].pend = Orphans,
                        ![Depth].pc = IF Orphans = <<>> THEN "prepare" ELSE "orphans"]
  /\ CriticalEnd
  /\ UNCHANGED <<saved, image, uc, free, ran>>

\* CpuFreeContext.  A context must not carry registers nobody put back.
FreeContext(c) ==
  /\ free' = free \cup {c}
  /\ fault' = IF HasSaved(c) THEN "flags" ELSE "none"

\* CpuFreeOrphanContexts and the loop at the end of
\* CpuCompressLeakedContexts: one context, newest first, or none if none is
\* pending.
FreePending(from, to) ==
  LET n == Len(Top.pend) IN
  /\ At(from)
  /\ IF n = 0 THEN UNCHANGED <<free, fault>> ELSE FreeContext(Top.pend[n])
  /\ stk' = [stk EXCEPT ![Depth].pend = SubSeq(Top.pend, 1, n - 1),
                        ![Depth].pc = IF n <= 1 THEN to ELSE from]
  /\ UNCHANGED <<critVars, list, count, saved, cookie, image, uc, ran>>

FreeOrphan == FreePending("orphans", "prepare")

\* Mutant: the comparison with the number of activations is off by one.
SaveOrResetOffByOne ==
  LET c == Top.ctx
      p == CpuOf[c] IN
  /\ At("prepare")
  /\ IF count[p] > 2
       THEN saved' = [saved EXCEPT ![c] = uc[p]] /\ UNCHANGED uc
       ELSE uc' = [uc EXCEPT ![p] = InitialState] /\ UNCHANGED saved
  /\ Goto("thunkpre")
  /\ UNCHANGED <<critVars, list, count, cookie, image, free, ran, fault>>

\* Other activations on this Cpu: save their registers and step over their
\* red zone.  None: start from the initial state.
SaveOrReset ==
  LET c == Top.ctx
      p == CpuOf[c] IN
  /\ At("prepare")
  /\ IF count[p] > 1
       THEN saved' = [saved EXCEPT ![c] = uc[p]] /\ UNCHANGED uc
       ELSE uc' = [uc EXCEPT ![p] = InitialState] /\ UNCHANGED saved
  /\ Goto("thunkpre")
  /\ UNCHANGED <<critVars, list, count, cookie, image, free, ran, fault>>

\* EmuThunkPre loads the arguments: the registers are now this activation's.
ThunkPre ==
  /\ At("thunkpre")
  /\ uc' = [uc EXCEPT ![CpuOf[Top.ctx]] = <<Top.ctx, 0>>]
  /\ Goto("loop")
  /\ UNCHANGED <<critVars, list, count, saved, cookie, image, free, ran, fault>>

-----------------------------------------------------------------------------
(* The loop of CpuRunCtxInternal.                                          *)

EmuStart ==
  /\ At("loop")
  /\ CriticalBegin
  /\ Goto("jit")
  /\ UNCHANGED <<cpuVars, fault>>

\* uc_emu_start ran some code and stopped; leave the critical section.
EmuStop ==
  /\ At("jit")
  /\ uc' = Touch(CpuOf[Top.ctx])
  /\ CriticalEnd
  /\ Goto("decode")
  /\ UNCHANGED <<list, count, saved, cookie, image, free, ran, fault>>

\* Timeout or hlt, call to native, return to native, failed emulation.
Decode ==
  /\ At("decode")
  /\ \E next \in {"loop", "call", "thunkpost", "restore"} :
       (next = "call" => Room) /\ Goto(next)
  /\ UNCHANGED <<critVars, cpuVars, fault>>

\* NativeThunk calls the native function ...
CallNative ==
  /\ At("call") /\ Room
  /\ stk' = Append([stk EXCEPT ![Depth].pc = "native"], HostFrame("native"))
  /\ UNCHANGED <<critVars, cpuVars, fault>>

\* ... or, for gBS->Exit, CpuExitImage: it finds the newest activation of an
\* image and, if that is the image named, jumps into its CpuRunImage frame.
LastImageCtx == {n \in DOMAIN list : /\ image[list[n]] # NoImage
                                     /\ \A m \in (n + 1)..Len(list) : image[list[m]] = NoImage}
ImageFrames(c) == {n \in 1..Depth : stk[n].kind = "run" /\ stk[n].ctx = c
                                      /\ stk[n].img = image[c]}

ExitImage ==
  /\ At("call")
  /\ \E i \in Images :
     \/ /\ i \notin ran \/ \E n \in LastImageCtx : image[list[n]] # i
        /\ Goto("check")
        /\ UNCHANGED fault
     \/ /\ i \in ran /\ LastImageCtx = {}
        /\ IF Debug THEN fault' = "exit" /\ UNCHANGED stk
                    ELSE Goto("check") /\ UNCHANGED fault
     \/ \E n \in LastImageCtx :
        /\ image[list[n]] = i
        /\ IF ImageFrames(list[n]) = {}
             THEN fault' = "jump" /\ UNCHANGED stk
             ELSE \E t \in ImageFrames(list[n]) :
                    /\ \A k \in (t + 1)..Depth : stk[k].kind # "event"
                    /\ stk' = [SubSeq(stk, 1, t) EXCEPT ![t].pc = "compress",
                                                        ![t].exiting = TRUE]
                    /\ UNCHANGED fault
  /\ UNCHANGED <<critVars, cpuVars>>

\* Mutant: leaked contexts are not looked for.
CheckLeakedNever ==
  /\ At("check")
  /\ Goto("result")
  /\ UNCHANGED <<critVars, cpuVars, fault>>

\* NativeThunkCheckLeakedContexts, when the native function has returned.
CheckLeaked ==
  /\ At("check")
  /\ Goto(IF list # <<>> /\ Newest = Top.ctx THEN "result" ELSE "compress")
  /\ UNCHANGED <<critVars, cpuVars, fault>>

\* CpuCompressLeakedContexts: what lies above the current context, and on
\* exit the current context too, is taken off the list ...
CompressBegin ==
  LET at == {n \in DOMAIN list : list[n] = Top.ctx} IN
  /\ At("compress")
  /\ CriticalBegin
  /\ \/ /\ at = {}
        /\ fault' = "walk"
        /\ UNCHANGED <<list, stk>>
     \/ \E n \in at :
        LET keep == IF Top.exiting THEN n - 1 ELSE n IN
        /\ list' = SubSeq(list, 1, keep)
        /\ stk' = [stk EXCEPT ![Depth].pend = SubSeq(list, keep + 1, Len(list)),
                              ![Depth].pc = "unwind"]
        /\ UNCHANGED fault
  /\ UNCHANGED <<count, saved, cookie, image, uc, free, ran>>

\* Mutant: the leaked contexts are applied oldest first.
UnwoundUcOldestFirst(s, p) ==
  LET kept == {n \in OnCpu(s, p) : HasSaved(s[n])} IN
  IF kept = {} THEN uc[p]
  ELSE saved[s[CHOOSE n \in kept : \A m \in kept : m <= n]]

\* ... newest first, the registers each of them saved are put back, so that
\* the oldest saved ones remain.
UnwoundUc(s, p) ==
  LET kept == {n \in OnCpu(s, p) : HasSaved(s[n])} IN
  IF kept = {} THEN uc[p]
  ELSE saved[s[CHOOSE n \in kept : \A m \in kept : n <= m]]

\* Mutant: all of them are counted off the current context's Cpu.
UnlistedHere(p) == IF p = CpuOf[Top.ctx] THEN Len(Top.pend) ELSE 0

Unlisted(p) == Cardinality(OnCpu(Top.pend, p))

CompressUnwind ==
  /\ At("unwind")
  /\ uc' = [p \in Cpus |-> UnwoundUc(Top.pend, p)]
  /\ saved' = [c \in Ctxs |-> IF \E n \in DOMAIN Top.pend : Top.pend[n] = c
                               THEN NotSaved ELSE saved[c]]
  /\ count' = [p \in Cpus |-> count[p] - Unlisted(p)]
  /\ fault' = IF \E p \in Cpus : count'[p] < 0 THEN "contexts" ELSE "none"
  /\ CriticalEnd
  /\ Goto("free")
  /\ UNCHANGED <<list, cookie, image, free, ran>>

\* The freeing loop; then the emulated caller or the image's exit goes on.
FreeLeaked == FreePending("free", IF Top.exiting THEN "exit" ELSE "result")

\* The end of NativeThunk: return value and return address.
WriteResult ==
  /\ At("result")
  /\ uc' = Touch(CpuOf[Top.ctx])
  /\ Goto("loop")
  /\ UNCHANGED <<critVars, list, count, saved, cookie, image, free, ran, fault>>

\* External: the DXE core's Exit unwinds StartImage into its caller.
NativeExit ==
  /\ At("exit")
  /\ stk' = SubSeq(stk, 1, Depth - 1)
  /\ UNCHANGED <<critVars, cpuVars, fault>>

-----------------------------------------------------------------------------
(* The epilogue.                                                           *)

ThunkPost ==
  /\ At("thunkpost")
  /\ uc' = Touch(CpuOf[Top.ctx])
  /\ Goto("restore")
  /\ UNCHANGED <<critVars, list, count, saved, cookie, image, free, ran, fault>>

\* Mutants: the flag stays set, and the registers are not put back.
RestoreKeepsFlag ==
  LET c == Top.ctx IN
  /\ At("restore")
  /\ uc' = IF HasSaved(c) THEN [uc EXCEPT ![CpuOf[c]] = saved[c]] ELSE uc
  /\ Goto("leave")
  /\ UNCHANGED <<critVars, list, count, saved, cookie, image, free, ran, fault>>
RestoreNothing ==
  /\ At("restore")
  /\ saved' = [saved EXCEPT ![Top.ctx] = NotSaved]
  /\ Goto("leave")
  /\ UNCHANGED <<critVars, list, count, uc, cookie, image, free, ran, fault>>

Restore ==
  LET c == Top.ctx IN
  /\ At("restore")
  /\ uc' = IF HasSaved(c) THEN [uc EXCEPT ![CpuOf[c]] = saved[c]] ELSE uc
  /\ saved' = [saved EXCEPT ![c] = NotSaved]
  /\ Goto("leave")
  /\ UNCHANGED <<critVars, list, count, cookie, image, free, ran, fault>>

\* CpuLeaveCritical.
LeaveCritical ==
  LET p == CpuOf[Top.ctx] IN
  /\ At("leave")
  /\ CriticalBegin
  /\ IF list = <<>> \/ Newest # Top.ctx
       THEN fault' = "top" /\ UNCHANGED <<list, count, stk>>
       ELSE /\ list' = SubSeq(list, 1, Len(list) - 1)
            /\ count' = [count EXCEPT ![p] = @ - 1]
            /\ fault' = IF count[p] < 1 THEN "contexts" ELSE "none"
            /\ Goto("left")
  /\ UNCHANGED <<saved, cookie, image, uc, free, ran>>

\* The end of CpuRunCtx.  With a private stack it is reached by a LongJump to
\* mOriginalStack, set by the activation that switched stacks: the oldest.
Oldest == CHOOSE n \in 1..Depth : /\ stk[n].kind = "run"
                                  /\ \A m \in 1..(n - 1) : stk[m].kind # "run"

LeaveEnd ==
  /\ At("left")
  /\ CriticalEnd
  /\ LET to == IF PrivateStack THEN Oldest ELSE Depth IN
     stk' = [SubSeq(stk, 1, to) EXCEPT ![to].pc = "done"]
  /\ UNCHANGED <<cpuVars, fault>>

\* Mutant: the context is not freed.
ReturnLeaks ==
  /\ At("done")
  /\ stk' = SubSeq(stk, 1, Depth - 1)
  /\ UNCHANGED <<critVars, cpuVars, fault>>

\* The activation frees its context and returns to its native caller.
Return ==
  /\ At("done")
  /\ FreeContext(Top.ctx)
  /\ stk' = SubSeq(stk, 1, Depth - 1)
  /\ UNCHANGED <<critVars, list, count, saved, cookie, image, uc, ran>>

-----------------------------------------------------------------------------
(* Next-state relation.                                                    *)
HostStep ==
  \/ RunFunc \/ RunImage \/ RunImageExhausted \/ CallHost \/ ReturnHost
  \/ SetInterrupt \/ Event \/ EventReturn \/ LongJump

EmuStep ==
  \/ EnterCritical \/ DetectOrphans \/ FreeOrphan \/ SaveOrReset \/ ThunkPre
  \/ EmuStart \/ EmuStop \/ Decode \/ CallNative \/ ExitImage
  \/ CheckLeaked \/ CompressBegin \/ CompressUnwind \/ FreeLeaked \/ WriteResult \/ NativeExit
  \/ ThunkPost \/ Restore \/ LeaveCritical \/ LeaveEnd \/ Return

\* A failed ASSERT ends in CpuDeadLoop: nothing moves any more.
Next == fault = "none" /\ (HostStep \/ EmuStep)

Spec == Init /\ [][Next]_vars

-----------------------------------------------------------------------------
(* Properties.                                                             *)

\* The JIT engine is not reentrant (EfiHooks.c:86-95): a frame inside a
\* critical section is the running one, with interrupts masked and no
\* second critical section inside it, whatever its clients ask of the hooks.
JitUninterrupted ==
  \A n \in 1..Depth :
    stk[n].pc \in CriticalPcs => n = Depth /\ ~realInt /\ ignore = 1

\* The interrupt state read through EfiHooksCpuGetInterruptState is the one
\* that was last asked for, although critical sections come and go beneath.
ClientView == HookGetInterruptState = wanted

\* The contexts that still have registers to put back: the list, and during
\* the unwinding what was just taken off it.
Chain == IF Top.pc = "unwind" THEN list \o Top.pend ELSE list

\* Where the registers of frame n's activation are: in the engine, or in the
\* oldest context above it that saved the engine of the same Cpu.
RegistersOf(n) ==
  LET c == stk[n].ctx
      above == {k \in OnCpu(Chain, CpuOf[c]) :
                  /\ HasSaved(Chain[k])
                  /\ \E j \in 1..(k - 1) : Chain[j] = c} IN
  IF above = {} THEN uc[CpuOf[c]]
  ELSE saved[Chain[CHOOSE k \in above : \A m \in above : k <= m]]

Owned(n) == stk[n].kind = "run" /\ stk[n].pc \in OwnedPcs /\ ~stk[n].exiting

\* An activation under way has its own registers to come back to, in the
\* engine or in the context that will restore it, across nested calls,
\* events, LongJumps and exits of images.
OwnRegisters == \A n \in 1..Depth : Owned(n) => RegistersOf(n)[1] = stk[n].ctx

\* When an activation enters the JIT its context is mTopContext and the engine
\* holds its registers: leaked contexts were compressed away before.
RunsOnTop ==
  At("jit") => list # <<>> /\ Newest = Top.ctx /\ uc[CpuOf[Top.ctx]][1] = Top.ctx

\* Cpu->Contexts, which decides between saving the engine and resetting it,
\* counts the contexts of that Cpu on the list.
CountsExact ==
  \A p \in Cpus : count[p] = Cardinality(OnCpu(Chain, p))

\* Contexts some code still refers to.
InUse == {list[n] : n \in DOMAIN list}
           \cup {stk[n].ctx : n \in {m \in 1..Depth : stk[m].kind = "run" /\
                                           ~(stk[m].exiting /\ stk[m].pc \in {"free", "exit"})}}
           \cup UNION {{stk[n].pend[k] : k \in DOMAIN stk[n].pend} : n \in 1..Depth}

\* A context is in its pool or in use, never both (an activation would run in
\* a context handed out twice) and never neither (it would be lost for good);
\* when no emulated code is active every context is back in its pool, also
\* after LongJumps out of emulated code and exits of images.
PoolPartition ==
  /\ InUse \cap free = {} /\ InUse \cup free = Ctxs
  /\ Depth = 1 => list = <<>> /\ free = Ctxs

\* None of the ASSERTs on the context list, the counters, the saved-state
\* flags and the exit jump buffer fails.
AssertsHold == fault = "none"

\* The parts of it the source's comments insist on: a context is not freed
\* with registers it never put back, and the counters never drop below zero.
NoUnappliedState == fault # "flags"
CountersNonNegative == fault # "contexts"

\* DEBUG builds: CpuDetectOrphanContexts takes no context of an activation
\* that is still under way off the list ...
LiveListed ==
  \A n \in 1..Depth :
    stk[n].kind = "run" /\ ~stk[n].exiting /\ stk[n].pc \notin {"start", "left", "done"}
      => \E k \in DOMAIN list : list[k] = stk[n].ctx

\* ... and leaves none whose frame cannot be below the one about to run.
OrphansReclaimed ==
  At("jit") => \A k \in DOMAIN list :
                 k < Len(list) => cookie[list[k]] < cookie[Newest]

=============================================================================
