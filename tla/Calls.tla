------------------------------- MODULE Calls -------------------------------
(***************************************************************************)
(* Arguments, results and stacks of calls between native and emulated code *)
(* (Cpu.c: thunks and stack helpers, CpuRunCtxOnPrivateStack; Native.c).   *)
(*                                                                         *)
(* A native caller of emulated code supplies an array of MAX_ARGS words,   *)
(* of which it has set those it passes.  The pre-thunk lays them out as    *)
(* the engine's calling convention has them, the post-thunk takes them off *)
(* again.  In the other direction NativeThunk picks up MAX_ARGS words      *)
(* where the convention puts arguments, however many were passed.          *)
(*                                                                         *)
(* Memory is one emulated stack per engine, of 64-bit words; word 1 is the *)
(* lowest.  What emulated functions do follows the calling conventions:    *)
(* they keep words below their entry, some in the red zone, and a register *)
(* their callers count on.  Every call has a number, which marks the words *)
(* that belong to it.                                                      *)
(***************************************************************************)
EXTENDS HostTrap, SequencesExt

CONSTANTS
  x64, aarch64,  \* the engines, CpuX64 and CpuAArch64
  Hosts,         \* host architectures
  Functions,     \* addresses of emulated functions
  Sites,         \* instructions native code calls them with
  ArgCounts,     \* how many arguments calls pass
  LocalWords,    \* words an emulated function keeps on its stack
  StackWords,    \* words of an emulated stack
  MaxCalls       \* bound: calls made

Engines == {x64, aarch64}
MAX_ARGS == 16
RedZone == 128 \div 8   \* SYSV_X64_ABI_REDZONE

\* jalr, c.jalr and tail jumps, and what is in front of them.
Instructions ==
  [insn : {"jalr", "tail", "c.jalr"}, rs : 1..31, imm : -2048..2047,
   before : Nat, kind : {"fetch", "illegal"}]

ASSUME CallsAssumption ==
  /\ x64 # aarch64
  /\ Hosts \subseteq {"AARCH64", "LOONGARCH64", "RISCV64"}
  /\ Functions \subseteq ImageStart..(ImageEnd - 1)
  /\ ImageStart >= 4096 \* above what the registers of Registers hold
  /\ Sites \subseteq Instructions
  /\ \A site \in Sites : site.insn = "c.jalr" => site.imm = 0
  /\ ArgCounts \subseteq 0..MAX_ARGS
  /\ {LocalWords, StackWords, MaxCalls} \subseteq Nat

\* Words.  Junk is what nobody may rely on.
Junk == <<"junk">>
Zero == <<"zero">>
Magic == <<"magic">>              \* RETURN_TO_NATIVE_MAGIC
Unsupported == <<"unsupported">>  \* EFI_UNSUPPORTED
Arg(c, k) == <<"arg", c, k>>      \* argument k of call c
Result(c) == <<"result", c>>
Site(c) == <<"site", c>>          \* where call c returns to
Kept(c, k) == <<"kept", c, k>>    \* what the function of call c stores

NoRegisters == <<>>

VARIABLES
  stack,  \* the calls under way, of all kinds
  regs,   \* the registers of each engine
  mem,    \* the emulated stack of each engine
  calls   \* calls made

vars == <<stack, regs, mem, calls>>

EmuStackTop == StackWords + 1
ArgRegs(e) == IF e = x64 THEN 4 ELSE 8
InitialState(e) == [pc |-> Zero, sp |-> EmuStackTop, lr |-> Zero, keep |-> Zero,
                    ret |-> Zero, a |-> [k \in 1..ArgRegs(e) |-> Zero]]

Top == Last(stack)
Under == stack[Len(stack) - 1]
Pushed(f) == Append(stack, f)
With(f) == Append(Front(stack), f)        \* the top frame becomes f
Popped(f) == Append(Front(Front(stack)), f) \* and so does the one under it
Is(kind, st) == Top.kind = kind /\ Top.st = st

\* A native function with the arguments it received; st is "run".
Native(kind, c, n, args) ==
  [kind |-> kind, st |-> "run", call |-> c, n |-> n, args |-> args, got |-> <<>>]

Init ==
  /\ stack = <<Native("native", 0, 0, <<>>)>>
  /\ regs = [e \in Engines |-> InitialState(e)]
  /\ mem = [e \in Engines |-> [w \in 1..StackWords |-> Junk]]
  /\ calls = 0

\* The words of s stored from address a on.
Put(m, a, s) == [w \in DOMAIN m |-> IF w \in a..(a + Len(s) - 1) THEN s[w - a + 1] ELSE m[w]]

Contexts(e) ==
  Cardinality({i \in DOMAIN stack : /\ stack[i].kind = "act" /\ stack[i].cpu = e
                                    /\ stack[i].st \notin {"trap", "dead"}})

-----------------------------------------------------------------------------
(* Native code calls emulated code.                                        *)
NoSite == [insn |-> "none"]
Activation(c, e, n, f, st) ==
  [kind |-> "act", st |-> st, call |-> c, n |-> n, cpu |-> e, function |-> f, pc |-> f,
   host |-> "none", site |-> NoSite, args |-> [k \in 1..MAX_ARGS |-> IF k <= n THEN Arg(c, k) ELSE Junk],
   saved |-> NoRegisters, base |-> 0, ret |-> Junk]

\* The call instruction traps; EmulatorThunk lays out eight registers below
\* the caller's stack arguments.
CallEmulated ==
  /\ Top.kind = "native" /\ calls < MaxCalls
  /\ calls' = calls + 1
  /\ \E e \in Engines, n \in ArgCounts, f \in Functions :
       stack' = Append(With([Top EXCEPT !.got = <<>>]), Activation(calls', e, n, f, "trap"))
  /\ UNCHANGED <<regs, mem>>

\* CpuRunFunc without a trap, of code known to be emulated.
TestWrappedCb ==
  /\ Top.kind = "native" /\ calls < MaxCalls
  /\ calls' = calls + 1
  /\ \E e \in Engines, f \in Functions :
       stack' = Append(With([Top EXCEPT !.got = <<>>]), Activation(calls', e, MAX_ARGS, f, "enter"))
  /\ UNCHANGED <<regs, mem>>

\* An event, between any two steps and one at a time, whose notification
\* function is emulated: EfiWrappersEventNotify passes an array of two words.
EventNotify ==
  /\ ~Is("act", "dead") /\ calls < MaxCalls
  /\ \A i \in DOMAIN stack : stack[i].kind # "event"
  /\ calls' = calls + 1
  /\ \E e \in Engines, f \in Functions :
       stack' = stack \o <<Native("event", 0, 0, <<>>), Activation(calls', e, 2, f, "enter")>>
  /\ UNCHANGED <<regs, mem>>

\* Which host this is matters here and nowhere else.
Trap ==
  /\ Is("act", "trap")
  /\ \E host \in Hosts, site \in Sites, cleared \in {2, 4} :
       /\ site.insn = "c.jalr" => cleared = 2
       /\ LET pc == EmulatorSyncExceptionCallback(host, TrapOf(host, Top.function, site, cleared))
          IN stack' = With(IF pc = NotFound
                           THEN [Top EXCEPT !.st = "dead", !.host = host, !.site = site]
                           ELSE [Top EXCEPT !.st = "enter", !.pc = pc])
  /\ UNCHANGED <<regs, mem, calls>>

\* Mutant: the words below the stack pointer are taken to be free.
SaveOrResetNoRedZone ==
  /\ Is("act", "enter")
  /\ LET e == Top.cpu
         nested == Contexts(e) > 1
         r == IF nested THEN regs[e] ELSE InitialState(e) IN
     /\ regs' = [regs EXCEPT ![e] = r]
     /\ stack' = With([Top EXCEPT !.st = "pre", !.base = r.sp,
                                  !.saved = IF nested THEN regs[e] ELSE NoRegisters])
  /\ UNCHANGED <<mem, calls>>

SaveOrReset ==
  /\ Is("act", "enter")
  /\ LET e == Top.cpu
         nested == Contexts(e) > 1
         r == IF nested THEN [regs[e] EXCEPT !.sp = @ - RedZone] ELSE InitialState(e) IN
     /\ regs' = [regs EXCEPT ![e] = r]
     /\ stack' = With([Top EXCEPT !.st = "pre", !.base = r.sp,
                                  !.saved = IF nested THEN regs[e] ELSE NoRegisters])
  /\ UNCHANGED <<mem, calls>>

\* Mutant: the stack arguments are pushed first to last.
X64BlockForward(args) == <<Magic>> \o [k \in 1..4 |-> Zero] \o Reverse(SubSeq(args, 5, MAX_ARGS))

\* The blocks the pre-thunks push, lowest word first.
X64Block(args) == <<Magic>> \o [k \in 1..4 |-> Zero] \o SubSeq(args, 5, MAX_ARGS)
AArch64Block(args) == SubSeq(args, 9, MAX_ARGS)

EmuThunkPre ==
  /\ Is("act", "pre")
  /\ LET e == Top.cpu
         block == IF e = x64 THEN X64Block(Top.args) ELSE AArch64Block(Top.args)
         sp == regs[e].sp - Len(block) IN
     /\ mem' = [mem EXCEPT ![e] = Put(@, sp, block)]
     /\ regs' = [regs EXCEPT ![e].sp = sp, ![e].pc = <<"in", Top.call>>,
                             ![e].a = SubSeq(Top.args, 1, ArgRegs(e)),
                             ![e].lr = IF e = x64 THEN @ ELSE Magic]
     /\ stack' = Append(With([Top EXCEPT !.st = "run"]),
                        [kind |-> "emu", st |-> "new", call |-> Top.call, n |-> Top.n,
                         cpu |-> e, entry |-> sp, out |-> 0, callee |-> 0, sent |-> 0])
  /\ UNCHANGED calls

-----------------------------------------------------------------------------
(* Emulated functions, as their calling conventions have them.             *)
\* Where the function with stack pointer sp at its entry finds argument k.
StackArg(e, sp, k) == IF e = x64 THEN sp + k ELSE sp + k - 9
ArgOnEntry(e, k) ==
  IF k <= ArgRegs(e) THEN regs[e].a[k] ELSE mem[e][StackArg(e, regs[e].sp, k)]

Locals(c, keep, lr) == [k \in 1..LocalWords |-> Kept(c, k)] \o <<lr, keep>>
BodySp(f) == f.entry - LocalWords - 2
Zone(c) == [k \in 1..RedZone |-> Kept(c, LocalWords + k)]
WriteZone(e, m, sp, c) == IF e = x64 THEN Put(m, sp - RedZone, Zone(c)) ELSE m
Forget(r, e) == [r EXCEPT !.a = [k \in 1..ArgRegs(e) |-> Junk], !.ret = Junk]

EmuEnter ==
  /\ Is("emu", "new")
  /\ LET e == Top.cpu
         r == regs[e]
         sp == r.sp - LocalWords - 2
         home == IF e = x64 THEN Put(mem[e], r.sp + 1, [k \in 1..4 |-> Junk]) ELSE mem[e] IN
     /\ mem' = [mem EXCEPT ![e] = WriteZone(e, Put(home, sp, Locals(Top.call, r.keep, r.lr)), sp, Top.call)]
     /\ regs' = [regs EXCEPT ![e] = [Forget(r, e) EXCEPT !.sp = sp, !.keep = Kept(Top.call, 0)]]
     /\ stack' = With([Top EXCEPT !.st = "run"])
  /\ UNCHANGED calls

\* A call of native code, or of a NULL pointer.
EmuCall ==
  /\ Is("emu", "run") /\ calls < MaxCalls
  /\ calls' = calls + 1
  /\ \E n \in ArgCounts, target \in {"native", "null"} :
       LET e == Top.cpu
           r == regs[e]
           args == [k \in 1..n |-> Arg(calls', k)]
           rest == SubSeq(args, ArgRegs(e) + 1, n)
           block == IF e = x64 THEN <<Site(calls')>> \o [k \in 1..4 |-> Junk] \o rest ELSE rest IN
       /\ mem' = [mem EXCEPT ![e] = Put(@, r.sp - Len(block), block)]
       /\ regs' = [regs EXCEPT ![e].sp = r.sp - Len(block), ![e].pc = <<target, calls'>>,
                               ![e].lr = IF e = x64 THEN @ ELSE Site(calls'),
                               ![e].a = [k \in 1..ArgRegs(e) |-> IF k <= n THEN args[k] ELSE Junk]]
       /\ stack' = With([Top EXCEPT !.st = "calls", !.out = Len(block), !.callee = calls', !.sent = n])

EmuResume ==
  /\ Is("emu", "back")
  /\ LET e == Top.cpu
         sp == regs[e].sp + Top.out - (IF e = x64 THEN 1 ELSE 0) IN
     /\ mem' = [mem EXCEPT ![e] = WriteZone(e, @, sp, Top.call)]
     /\ regs' = [regs EXCEPT ![e] = [Forget(@, e) EXCEPT !.sp = sp, !.pc = <<"in", Top.call>>]]
     /\ stack' = With([Top EXCEPT !.st = "run", !.out = 0])
  /\ UNCHANGED calls

EmuReturn ==
  /\ Is("emu", "run")
  /\ LET e == Top.cpu
         r == regs[e]
         entry == r.sp + LocalWords + 2
         to == IF e = x64 THEN mem[e][entry] ELSE mem[e][entry - 2] IN
     regs' = [regs EXCEPT ![e] = [r EXCEPT !.sp = IF e = x64 THEN entry + 1 ELSE entry,
                                           !.keep = mem[e][entry - 1], !.ret = Result(Top.call),
                                           !.lr = mem[e][entry - 2], !.pc = to]]
  /\ stack' = With([Top EXCEPT !.st = "leaves"])
  /\ UNCHANGED <<mem, calls>>

-----------------------------------------------------------------------------
(* NativeThunkX64 and NativeThunkAArch64.                                  *)
\* StackArgs[k] of the thunks is mem[e][sp + k].
X64Args(r, m) == [k \in 1..MAX_ARGS |-> IF k <= 4 THEN r.a[k] ELSE m[r.sp + k]]
AArch64Args(r, m) == [k \in 1..MAX_ARGS |-> IF k <= 8 THEN r.a[k] ELSE m[r.sp + k - 9]]

\* A wrapper is called with the return address and a pointer to the
\* arguments: on x64 to the home zone, filled in, on AArch64 to a copy.
Wrapped(e, m) == IF e = x64 THEN Put(m, regs[e].sp + 1, regs[e].a) ELSE m

CallNative ==
  /\ Is("emu", "calls") /\ regs[Top.cpu].pc[1] = "native"
  /\ \E wrapper \in BOOLEAN :
       LET e == Top.cpu
           m == IF wrapper THEN Wrapped(e, mem[e]) ELSE mem[e]
           args == IF e # x64 THEN AArch64Args(regs[e], m)
                   ELSE IF wrapper THEN [k \in 1..MAX_ARGS |-> m[regs[e].sp + k]]
                   ELSE X64Args(regs[e], m) IN
       /\ mem' = [mem EXCEPT ![e] = m]
       /\ stack' = Pushed(Native("native", Top.callee, Top.sent, args))
  /\ UNCHANGED <<regs, calls>>

\* Mutant: the return address stays on the stack.
BackPeek(e, value) ==
  [regs[e] EXCEPT !.ret = value, !.pc = IF e = x64 THEN mem[e][regs[e].sp] ELSE regs[e].lr]

\* The thunk's last lines: the result, and where the emulated code goes on.
Back(e, value) ==
  IF e = x64
  THEN [regs[e] EXCEPT !.ret = value, !.pc = mem[e][regs[e].sp], !.sp = @ + 1]
  ELSE [regs[e] EXCEPT !.ret = value, !.pc = regs[e].lr]

NativeReturn ==
  /\ Is("native", "run") /\ Len(stack) > 1
  /\ regs' = [regs EXCEPT ![Under.cpu] = Back(Under.cpu, Result(Top.call))]
  /\ stack' = Popped([Under EXCEPT !.st = "back"])
  /\ UNCHANGED <<mem, calls>>

\* NativeValidateSupportedCall: NativeUnsupported is called in place of NULL.
NullCall ==
  /\ Is("emu", "calls") /\ regs[Top.cpu].pc[1] = "null"
  /\ regs' = [regs EXCEPT ![Top.cpu] = Back(Top.cpu, Unsupported)]
  /\ stack' = With([Top EXCEPT !.st = "back"])
  /\ UNCHANGED <<mem, calls>>

-----------------------------------------------------------------------------
(* The end of an activation.                                               *)
ReturnToNative ==
  /\ Is("emu", "leaves") /\ regs[Top.cpu].pc = Magic
  /\ stack' = Popped([Under EXCEPT !.st = "post"])
  /\ UNCHANGED <<regs, mem, calls>>

\* CPU_REASON_FAILED_EMU: no post-thunk.
FailedEmu ==
  /\ Is("emu", "run")
  /\ stack' = Popped([Under EXCEPT !.st = "restore", !.ret = Unsupported])
  /\ UNCHANGED <<regs, mem, calls>>

\* Words the post-thunks pop: the home zone and the stack arguments.
PostWords(e) == IF e = x64 THEN 4 + (MAX_ARGS - 4) ELSE MAX_ARGS - 8

EmuThunkPost ==
  /\ Is("act", "post")
  /\ LET e == Top.cpu IN
     /\ regs' = [regs EXCEPT ![e].sp = @ + PostWords(e)]
     /\ stack' = With([Top EXCEPT !.st = "restore", !.ret = regs[e].ret])
  /\ UNCHANGED <<mem, calls>>

Restore ==
  /\ Is("act", "restore")
  /\ regs' = IF Top.saved = NoRegisters THEN regs ELSE [regs EXCEPT ![Top.cpu] = Top.saved]
  /\ stack' = Popped([Under EXCEPT !.got = <<Top.call, Top.ret>>])
  /\ UNCHANGED <<mem, calls>>

EventReturn ==
  /\ Is("event", "run")
  /\ stack' = Front(stack)
  /\ UNCHANGED <<regs, mem, calls>>

Next ==
  \/ CallEmulated \/ TestWrappedCb \/ EventNotify \/ Trap \/ SaveOrReset \/ EmuThunkPre
  \/ EmuEnter \/ EmuCall \/ EmuResume \/ EmuReturn
  \/ CallNative \/ NativeReturn \/ NullCall
  \/ ReturnToNative \/ FailedEmu \/ EmuThunkPost \/ Restore
  \/ EventReturn

Spec == Init /\ [][Next]_vars

-----------------------------------------------------------------------------
Frames(kind) == {stack[i] : i \in {j \in DOMAIN stack : stack[j].kind = kind}}

\* A function entered by either kind of thunk, wrapper or array finds every
\* argument its caller passed where its own calling convention has it, also
\* when events ran emulated code in between.
ArgumentsArrive ==
  /\ \A f \in Frames("native") : \A k \in 1..f.n : f.args[k] = Arg(f.call, k)
  /\ Is("emu", "new") => \A k \in 1..Top.n : ArgOnEntry(Top.cpu, k) = Arg(Top.call, k)

\* While an emulated function waits for calls, or is interrupted in its red
\* zone, nothing of what it keeps on the stack is written over: its words,
\* the arguments it was passed there, and on x64 the zone below its stack
\* pointer unless it has made a call itself.
FramesIntact ==
  \A f \in Frames("emu") : f.st \in {"run", "calls", "back"} =>
    /\ \A k \in 1..LocalWords : mem[f.cpu][BodySp(f) + k - 1] = Kept(f.call, k)
    /\ \A k \in (ArgRegs(f.cpu) + 1)..f.n :
         mem[f.cpu][StackArg(f.cpu, f.entry, k)] = Arg(f.call, k)
    /\ f.cpu = x64 /\ f.st = "run" =>
         SubSeq(mem[x64], BodySp(f) - RedZone, BodySp(f) - 1) = Zone(f.call)

\* Whoever called goes on where it called from with the result of that call:
\* emulated code with its stack pointer and its register as they were, native
\* code with the emulated stack as the activation found it.
CallersResume ==
  /\ Top.kind = "emu" =>
       LET r == regs[Top.cpu] IN
       CASE Top.st = "back" ->
              /\ r.ret \in {Result(Top.callee), Unsupported} /\ r.pc = Site(Top.callee)
              /\ r.sp = BodySp(Top) - Top.out + (IF Top.cpu = x64 THEN 1 ELSE 0)
              /\ r.keep = Kept(Top.call, 0)
         [] Top.st = "run" -> r.sp = BodySp(Top) /\ r.keep = Kept(Top.call, 0)
         [] Top.st = "leaves" -> r.pc = Magic
         [] OTHER -> TRUE
  /\ Top.kind = "native" /\ Top.got # <<>> => Top.got[2] \in {Result(Top.got[1]), Unsupported}
  /\ Is("act", "restore") /\ Top.ret # Unsupported => regs[Top.cpu].sp = Top.base

\* Emulated code is entered at the very address that was called, at any byte
\* and from any host; and a call is only given up when the host's registers
\* no longer tell the address: after a tail jump, when the call overwrote the
\* register with the address, and when a 16-bit call follows a halfword that
\* looks like half of a 32-bit instruction.
TargetRecovered ==
  \A f \in Frames("act") :
    /\ f.st \notin {"trap", "dead"} => f.pc = f.function
    /\ f.st = "dead" => /\ f.host = "RISCV64"
                        /\ \/ f.site.insn = "tail" \/ f.site.rs = 1
                           \/ f.site.kind = "illegal" /\ ~WithoutMmu
                           \/ f.site.insn = "c.jalr" /\ IsWide(f.site.before)

\* RISCV64/Emulator.c:34-38: the instruction may be a compressed or a regular
\* jalr, decoded at RA - 2 or RA - 4.  Every call of a function that does not
\* overwrite the register it calls through is recovered.
EveryCallRecovered ==
  \A f \in Frames("act") : f.st = "dead" => f.site.insn = "tail" \/ f.site.rs = 1
=============================================================================
