# MultiArchUefiPkg: specifications

MultiArchUefiPkg runs UEFI binaries of foreign machines (x64, AArch64) on a
UEFI host (AArch64, RISC-V, LoongArch). Its driver hooks image loading, catches
the host's jumps into foreign code, and executes that code with Unicorn, a JIT
library. This directory models the driver in TLA+, model-checks the models with
TLC and proves theorems about each of its eight components with TLAPS. File names below are
relative to `src/Drivers/Emulator/` unless they say otherwise.

## 1. The system

UEFI boot services are single-processor. There are no threads, but there are
*events*: the timer interrupt runs notification functions on top of whatever was
running, ordered by priority (TPL), and notification functions may be emulated
code. Concurrency here is therefore nesting on one host stack, at any point at
which interrupts are enabled.

| Component | State | Operations | Talks to |
|---|---|---|---|
| Running emulated code (`Cpu.c`, `Native.c`) | `mTopContext` list of `CpuRunContext`s, `Cpu->Contexts`, the engine's registers, saved registers and flags of a context | `CpuRunFunc`, `CpuRunImage`, `CpuRunCtx*`, `CpuExitImage`, `CpuDetectOrphanContexts`, `CpuCompressLeakedContexts`, the native thunks | engine, masking, pool, registry, wrappers |
| Interrupt masking (`Emulator.h`, `EfiHooks.c`) | real and apparent interrupt state, nesting depth | `CriticalBegin/End`, the three hooks of `EFI_CPU_ARCH_PROTOCOL` | everything |
| JIT timeouts (`Cpu.c`) | `TbCount`, `ExitPeriodTbs`, `StoppedOnTimeout` | `CpuTimeoutCb`, recalibration in `CpuRunCtxInternal` | engine, masking |
| Context pool (`ObjectAlloc.c`) | a linked list of free objects | create, destroy, alloc, free | running code |
| Boot service wrappers (`EfiWrappers.c`) | `mEventList` of `WRAPPED_EVENT_RECORD`s | `CreateEvent(Ex)`, `CloseEvent`, notification, `Exit` | DXE core, running code |
| Image registry (`Image.c`, `Cpu.c`, `Emulator.c`) | `mImageList`, executable ranges and translated code per engine, host protection | register, unregister, find by address or handle, run, exit | loader, engine |
| Driver life cycle (`Entry.c`, `DriverBinding.c`, `Emulator.c`, `*Init`) | what is installed, hooked, opened | entry, start, failure at each part, stop | DXE core |
| Host back ends (`AARCH64/`, `LOONGARCH64/`, `RISCV64/`) | exception handlers | registration, the fault handler, recovery of the call target on RISC-V | registry |
| Argument marshalling (`Cpu.c`, `Native.c`) | argument registers, stack pointer and stack slots of each engine, the caller's arguments | pre- and post-thunk, native thunk, wrappers, red zone | running code, back ends |
| Cached tables (`src/Library/CachedSTDriverEntryPoint`) | private copies of the system, boot and runtime tables | copy at the entry, free on failure | driver life cycle |
| Option ROM loader (`src/Application/LoadOpRom`) | position in a ROM, image and path buffers | options, walk over devices and images, load, start, connect | PCI, boot services |
| Console selection (`src/Application/SetCon`) | one UEFI variable | show, set, append, build from the consoles connected | variable services |
| Option parsing (`src/Library/MauUtilsLib`) | position among the arguments | `GetOpt`, `GetShellArgcArgv` | the two applications |
| Serial port library, component names, test protocol and application | | | see section 6 |

What is hard in it:

* an event can run emulated code between any two critical sections of another
  activation, on the same engine;
* native code may `LongJump` over emulated activations, and `gBS->Exit` leaves an
  image from any depth: nobody runs the skipped epilogues, and the registers the
  skipped activations had saved must still be put back, newest first;
* clients (TPL code, drivers, emulated code) change the interrupt state while the
  emulator owns it;
* the wrappers and the pool touch shared lists in code that events can preempt;
* memory, handles and address ranges are used again;
* arguments change place between three calling conventions, on stacks that events
  use too, below functions that keep words under their stack pointer;
* a host that reports the address of a fault with its low bits cleared, while x64
  functions begin at any byte;
* a start can fail at each of its parts and is tried again; a tool can fail at each
  of its allocations and services.

What makes each component correct is stated by the properties of section 4.

## 2. Modules

| Module | Role |
|---|---|
| `Critical` | interrupt masking: `CriticalBegin`, `CriticalEnd`, the hooks, taking and leaving interrupts. Used by `CpuRun` and `ExitPeriod` |
| `CpuRun` | the core: every step of an activation, native calls, events, LongJumps, Exit |
| `Activations` | abstract specification: a stack of activations, each with its own registers |
| `CpuRefinement` | the refinement mapping from `CpuRun` to `Activations` |
| `CpuRunProofs` | theorems about `CpuRun`: masking, counters, contexts, registers, the refinement, DEBUG builds |
| `ExitPeriod` | the block hook, its recalibration, delivery of timer events |
| `ObjectAlloc` | the context pool, one link write per step |
| `FifoPool` | abstract specification of the pool |
| `EfiWrappers` | wrapped events |
| `Images` | image registry, code ranges, handles |
| `CachedTables` | the driver's own copies of the system tables |
| `Driver` | life cycle of the driver and its failures; EXTENDS `CachedTables` |
| `HostTrap` | from a host's exception to the address that was called: operators only |
| `Calls` | arguments, results and stacks of calls in both directions; EXTENDS `HostTrap` |
| `ShellTool` | option parsing, memory and failing services, for both applications |
| `SetCon`, `LoadOpRom` | the two applications, each EXTENDS `ShellTool` |
| `Shell` | composes the two under a user who asks for something and spells it |
| `ObjectAllocProofs`, `EfiWrappersProofs`, `ExitPeriodProofs`, `ImagesProofs`, `DriverProofs`, `CallsProofs`, `ShellProofs` | theorems about the module they are named for (`CallsProofs` about `HostTrap` too) |
| `MC*` | constants and symmetry sets for TLC |

### State and actions against the code

**Critical.** `realInt` is the processor's enable bit, `apparent` and `ignore` are
the two globals of `EfiHooks.c`. `wanted` is a history variable: what clients last
asked for. An action of `CpuRun` that enters a critical section conjoins
`CriticalBegin`; one critical section of the code is two or more actions when
something observable happens inside (`EmuStart`, `EmuStop`) or one pair of
`EnterCritical`/`DetectOrphans` when it does not.

**CpuRun.** `stk` is the host call stack. A frame of kind `run` is a C activation of
`CpuRunFunc` or `CpuRunImage`; its `pc` names how far it is in `CpuRunFunc` →
`CpuRunCtx` → `CpuRunCtxOnPrivateStack` → `CpuRunCtxInternal` → native thunk:

    start  RunFunc, RunImage        context taken from the pool
    entered EnterCritical           on mTopContext, Contexts counted
    orphans, prepare DetectOrphans, FreeOrphan      (DEBUG) orphans dropped and freed
    thunkpre SaveOrReset            registers saved, or engine reset
    loop, jit, decode ThunkPre, EmuStart, EmuStop, Decode   the JIT loop
    call, native CallNative, ReturnHost, ExitImage  a call out
    check  CheckLeaked              NativeThunkCheckLeakedContexts
    compress, unwind, free CompressBegin, CompressUnwind, FreeLeaked
    result WriteResult              the callee's result, back to loop
    exit   NativeExit               the image leaves StartImage
    thunkpost, restore ThunkPost, Restore
    leave, left LeaveCritical, LeaveEnd
    done   Return                   context back to the pool

Only the last frame moves; interrupts push `event` frames, which may start
activations themselves. `list` is the chain from `mTopContext`, `saved[c]` is
`PrevUcContext` together with the flag `CRC_HAVE_SAVED_UC_CONTEXT`, `cookie` is the
leak cookie as a stack depth. A register file is abstracted to `<<c, k>>`: it belongs
to the activation with context `c`, and `k` is a parity that changes whenever
emulated code runs or a thunk writes a register. That is enough to tell the right
registers from anyone else's and from an older copy of one's own. `fault` names the
`ASSERT` or NULL dereference that stopped the program; nothing happens after it.

**ExitPeriod.** One engine executing code that may loop forever. `tb` is `TbCount`
modulo the largest period, all that a mask of a power of two can see; the clock is
abstracted to "overrun, met, not used up", chosen freely at each timeout.

**ObjectAlloc.** `fwd` and `bck` are the two links of each list entry. `GetFirstNode`,
`RemoveEntryList`, `InitializeListHead` and `InsertTailList` are their single
writes. `users` nest on the host stack, and a new one may come at any step of the others,
for the code runs with interrupts enabled. A user is `Halfway` from the choice of its object or
place to its last link write; `crossed` is history: a user has come while another was.

**EfiWrappers.** `stk` holds the emulated program and, above it, notifications of
rising priority, each with its place in the wrapper it is in. `heap` says which
records are allocated, `event` is `Record->Event` and survives `FreePool`, `core` is
the DXE core's side (priority and context of each event). Notifications create and close
events wherever they interrupt. `crossed` is history: one has closed the event that a
wrapper it interrupted deals with, by its argument or its record (`DealsWith`).

**Images.** `imageList` and `record` are the list and its records, `exec` the engines'
executable ranges, `noexec` the host's protection, `tbs` which ranges each engine has
translated. Both lookups return the first record that matches, as the loops of
`Image.c:43-87` do. `loaded` is the loader's view against which the registry is judged;
`started` the running images. `ImageHandle` of a fresh record is any handle or none, for
`AllocatePool` does not clear it; `unset` is history, the records of which that is still so, and
`failed` the ranges where a registration failed. `EmulatorIsNativeCall` takes an address: a range or the
page at 0, aligned for the host's instructions or not.

**Driver.** `pc` walks through `DriverEntry` and `EmulatorStart`; each part succeeds or,
if `MayFail` lists it, fails. The undoing follows the code's error paths. `cpuFailed` is history: in
which starts `CpuInit` failed. `CachedTables`
names each table by where it is and holds what its services lead to; emulated images may
replace services in the tables they are given while the driver is up.

**HostTrap.** A trap is a record of what the exception leaves. Instructions are the two
halfwords in front of the return address, taken apart with `\div` and `%` as the masks
and shifts of `RecoverPcFromCall` do; `imm12` is sign-extended. `Encoded` and `TrapOf`
are the instruction set's side: what a processor leaves when an instruction calls an
address (external to the repository).

**Calls.** `stack` holds native functions, activations (`kind = "act"`, whose `st` walks
through trap, enter, pre, run, post, restore) and emulated functions (new, run, calls,
back, leaves). `mem` is one stack of 64-bit words per engine, `regs` the registers.
A word is a value that says what it is: argument `k` of call `c`, the return address of
call `c`, word `k` that the function of call `c` keeps, or junk. `SaveOrReset` leaves out
a red zone, `EmuThunkPre` pushes the block of the convention, `CallNative` picks `MAX_ARGS`
words up, directly or through a wrapper, `Back` is the end of a native thunk.

**ShellTool, SetCon, LoadOpRom, Shell.** `pc` names the place in `main`; `argv` is the command
line as words of letters and `opt` the state of `GetOpt`; `heap` names what is allocated;
`Fails(s)` is enabled when service `s` may fail in this behaviour. `SetCon` works on
`variable`, a function from names to device paths; `LoadOpRom` walks ROMs of 512-byte
blocks in which a header begins or none does. `Shell` chooses a request and one of its
spellings and compares the outcome with the request.

## 3. Environment assumptions

* Notification functions do not call `StartImage`, and `LongJump`s do not leave an
  interrupt handler or cross `StartImage`, which has a jump buffer of its own.
* `Jumps = "thunked"`: the function that called `SetJump` was itself called by
  emulated code (the case `NativeThunkCheckLeakedContexts` describes).
  `Jumps = "clean"`: no activation jumped over holds saved registers (the case
  `CpuDetectOrphanContexts` describes, `Docs/Building.md:150-198`).
* The pool is atomic in `CpuRun`; `ObjectAlloc` looks inside, and says which interruptions
  that needs to be without.
* A pool that is exhausted makes `CpuRunFunc` return `EFI_OUT_OF_RESOURCES` and change
  nothing; this is a stutter.
* In `EfiWrappers` the core creates and closes an event in one step; programs close
  events they were given, or the one they are notified of.
* In `Images` the loader does not unregister a range whose registration failed,
  gives each loaded image a handle no other loaded image has, and unloads no image
  that runs.
* In `Calls` emulated functions keep to their calling conventions: they leave the
  stack as they found it, write their home zone and red zone only, and expect other
  registers to be lost. A stack has `StackWords` words, enough for `MaxCalls` calls
  (`(LocalWords + 35) * MaxCalls` and a red zone); running out of stack is not modelled.
  Call sites are jalr, c.jalr without an offset, or tail jumps; what other registers hold after
  earlier code is below the first image, which is not in the lowest 4096 bytes. One event is taken at a time. `LongJump`s and
  `Exit` are `CpuRun`'s.
* In `Driver` images replace services only in the tables handed to them, and a host of
  `Undoes` unregisters its first exception handlers when a later one fails.
* In `Shell` nothing fails, one service may fail at every call, or any may;
  `AllDevsJunk = {FALSE, TRUE}`: `AllDevs`, which `LoadOpRom.c:438` leaves unassigned when a
  location is given, may hold either value. A command line says what its user wants, by the tool's
  usage (`ShellRequests`), and no two devices have the same location. An image whose length is zero is the last
  of its ROM.

## 4. What the runs check

Every property has a mutant: an operator next to the code's own that changes it the
way a plausible bug would, and that violates the property in the same run. In the
models they are marked `Mutant`.

**ReleaseOneCpu** (one engine, 3 contexts, one image, 7 host frames). Seven frames are
what three nested activations with native code between them and an event need;
that is the shortest stack with two leaked contexts above one that survives, where
the order of restoring matters.
* `TypeOK`: `CpuRun`'s types, with `ignore` never below zero.
* `JitUninterrupted`: only the running frame is in a critical section, once, masked.
* `ClientView`: clients read back the interrupt state they last asked for.
* `OwnRegisters`: the registers of every activation under way are in the engine or in
  the context that will put them back.
* `RunsOnTop`: an activation enters the JIT only as the top context with its registers
  loaded, so leaked contexts are gone by then.
* `PoolPartition`: each context is in the pool or in use, never both, never neither;
  after the last activation all are back.
* `AssertsHold`: none of the `ASSERT`s modelled fails.

**ReleaseTwoCpus** (x64 with 2 contexts and AArch64 with 1, 6 frames). `CountsExact`: each
engine's `Contexts`, which decides between saving and resetting registers, counts
exactly its own contexts on the list, also across compression of leaked contexts of
both. `Implements`: `CpuRun` implements `Activations`, that is, sharing one register
file per engine looks like every activation having its own.

**DebugOneCpu** (orphan detection, 3 contexts, 6 frames, native calls counted as depth).
`LiveListed` and `OrphansReclaimed`: comparing cookies reclaims exactly the contexts of
code that is gone. `OwnRegisters` again.

**ExitPeriod** (periods 2, 4, 8 instead of 2^8 to 2^20). `PeriodValid`: the period stays a
doubling of the minimum within bounds, whatever the clock says. `BoundedMasking`: one
run of the engine executes at most `ExitPeriodTbs` blocks, though the counter is
never reset. `TimeoutIsCurrent`: a timeout is accounted for by the run it stopped.
`EventsDelivered`: code that loops forever cannot hold off a timer interrupt if
its clients leave interrupts enabled. Fairness: the engine keeps executing
blocks, a requested stop is carried out, and `CpuRunCtxInternal` restarts the engine, all
weakly fair since nothing can disable them; the processor takes a pending interrupt
strongly fairly, because it is possible again and again between two runs of the
engine and the hardware does not pass it over. A voluntary stop of the code is not fair.

**ObjectAlloc** (4 objects, 5 users that come at any step of one another). `ListConsistent`,
`LinksTellAllocated` (the `ASSERT`s on self-links), `NothingLeftBehind` (a failing `OnCreate`
undoes what was created), and `IsFifo`: the pool implements `FifoPool`. The three about the
links claim nothing once a user has come while another was halfway (`crossed`), which is where
the code breaks: `PoolInterrupted.cfg`, below. So the run ends there (`UntilCrossed`), and shows that
coming anywhere else does no harm: before `GetFirstNode`, between taking an object off and using
it, before a freed one goes back on. More users than objects, so that the pool runs empty; four
objects, so that the list has inner links. `CHECK_DEADLOCK FALSE`: a failed or destroyed pool
ends.

**Events** (3 records, 3 handles, 2 priorities, at most one failure of the core). `TypeOK`.
`RecordOfEvent`: each event the core can notify has its record, allocated, listed once, with its
handle. `NoUseAfterFree`, `RecordsAccounted`: no record is used after it was freed, none is
lost. `KnownLive`: emulated code only holds handles of events, also after a failed
`CreateEvent`. Three frames (program and two priorities) let a wrapper be preempted in the
middle of another one. Notifications close any event at any place: closing one that no wrapper
below deals with does no harm, even next to the record a walk is at; after any other (`crossed`)
the invariants claim nothing, and the run ends (`UntilCrossed`). `CHECK_DEADLOCK FALSE`: after a
failure of the core the list leads through a freed record, and the model stops when that is
touched.

**Images** (2 machines, 2 ranges, 3 records, 2 handles). `CodeIsKnown`: an address is taken for
emulated exactly where an image is loaded, and its machine's engine alone may execute it.
`NoStaleCode`: no engine keeps translated code of an image that is gone. `ExitAccepted`: the
running image's `Exit` is refused only where the junk in an earlier record, of an image never
started, is its handle. Two ranges and one record more than needed make records and handles come
back in other combinations, and let one lie in front of a running image's. `CHECK_DEADLOCK
FALSE`: records of failed registrations are never given back.

**Driver** (three hosts, two engines, 4 starts, every part may fail). `AllOrNothing`: a failed
start leaves nothing, a successful one everything once, but for what a failed `CpuInit` leaves:
the hooks, and each engine open once more at most. `ServedOnlyWhenUp`: images are handed over
only while everything is up. `HooksReachProcessor`: the saved services are the hooks themselves
only after such a failure in an earlier start. `TablesServeDriver`: the driver's services stay
the firmware's though emulated images replace them. Four starts, since what one start leaves
behind shows in the next, and each has two engines to leave open. `CHECK_DEADLOCK FALSE`:
`MaxStarts` bounds the attempts.

**Calls** (two engines, three hosts, 4 calls of 9 or 16 arguments or of an event's two). 9 is
one more than the registers AArch64 has for arguments, five more than x64 has; 16 is all.
Four calls are what an emulated function, its native callee, the emulated function that one
calls, and an event between any two of their steps need. Call sites cover both sizes of
instruction, both ends of the offset, registers on either side of 16, and the sites that
cannot be recovered.
* `ArgumentsArrive`: every function finds every argument it was passed.
* `FramesIntact`: nobody writes over what a waiting or interrupted function keeps on its
  stack or under it.
* `CallersResume`: callers go on where they called from, with the result of that call and
  the stack and registers as they were.
* `TargetRecovered`: emulated code is entered at the very address that was called, and which
  calls are given up.

`CHECK_DEADLOCK FALSE`: a program whose call could not be recovered is dead.

**Shell** (both applications; six devices whose ROMs mix kinds of images, gaps and corrupt
headers; every request in every spelling, names that only begin like a console's among them; every
single service failing, none, or all).
* `VariableAsAsked`: `SetCon` ends with the variable as the command line asks or, after a
  failure, as it was, or deleted after `-p` with a text that is no path; no other variable is touched.
* `RightImages`: `LoadOpRom` starts the first image of each ROM the host can run, for the
  devices asked for alone, and connects those devices and no others.
* `NothingLeft`: a tool that ends has freed what it allocated.
* `Terminates`: both end. Weak fairness of the sequential program: it does what it can do next.

`CHECK_DEADLOCK FALSE`: the tools end.

### Where the code departs from its own words

Two runs end in a violation, each of a statement of the source:

| Run | Source says | The code |
|---|---|---|
| EventsClosedInCreate | "the event could be signalled (and closed from notification fn)" (`EfiWrappers.c:163-164`) | then `*Event = Record->Event` (195) reads a freed record |
| CallAfterWide | "it could have been either a compressed or a regular jalr, so we look at RA - 4 and RA - 2" (`RISCV64/Emulator.c:36-39`) | a word at RA - 4 whose low bits are `0b11` is taken for a 32-bit instruction (50), though it may be the upper half of one with the c.jalr behind it: the call is not recovered |

Five more configurations, not among the runs of `PROJECT.json`, end in a violation as well. Each takes
seconds with `tlc -config X.cfg M`. The first three show that the exceptions which properties of the passing runs
make are needed (`crossed`, `Shadowed`, `cpuFailed`); the last two are why DEBUG builds are run without images and
with one engine:

| Configuration | Violated | Source says | The code |
|---|---|---|---|
| `PoolInterrupted.cfg` of `ObjectAlloc` | `LinksAlwaysTell` | "IsListEmpty is true only for allocated objects" (`ObjectAlloc.c:116-117`) | an event between the link writes allocates or frees itself; the links that come of it tell that a free object is allocated, and the `ASSERT` of `ObjectAllocDestroy` fails |
| `StaleHandle.cfg` of `Images` | `ExitNeverRefused` | `Exit` is among what is fully supported (`Docs/EmulatedEnvironment.md:55`, 82) | `Image.c:118` leaves `ImageHandle` as the memory held it: the record of an image that was never started is taken for the running image's, and its `Exit` is refused |
| `HooksHooked.cfg` of `MCDriver` | `RealOwned` | "real interrupt state (now owned by us)" (`EfiHooks.c:92-94`) | `Emulator.c:108` returns without `EfiHooksCleanup` when `CpuInit` fails; the next start's `EfiHooksInit` saves the hooks as the processor's services |
| `DebugTwoCpus.cfg` of `MCCpuRun` | `CountersNonNegative` | "Important to do the following operations in the context of the right CpuContext" (`Cpu.c:1326-1328`) | orphans are counted off the new context's Cpu (1330), whose counter falls below zero (the `ASSERT` of 1337). `DebugOneCpu` with both engines, contexts `c1` to `c4` |
| `DebugImages.cfg` of `MCCpuRun` | `NoUnappliedState` | "Should not be leaking some unapplied state" (`Cpu.c:1243`) | between `CpuExitImage`'s LongJump (1616) and `CpuCompressLeakedContexts` an event runs orphan detection, which frees contexts with saved registers. `DebugOneCpu` with an image and one frame more |

Other departures are steps of the models that the runs keep away from, by a constant
or by an exception stated at the property:

* `LOONGARCH64/Emulator.c:98` overwrites the status of the first handler
  (`ServedOnlyWhenUp` asks less of that host).
* `Image.c:164` leaves the record listed and the range executable (`Clean`).
* `EfiWrappers.c:191` frees a record that is on the list (`Intact`), and 113 reads through a
  NULL record for an event of native code (`NativeEvents # {}`, fault `"null"`).
* `Cpu.c:1654` asserts a context before 1666 handles its absence (fault `"exit"`, DEBUG).
* `Cpu.c:1591` prints `Context->Cpu` of a NULL context (fault `"null"`, DEBUG).
* `Cpu.c:1425` tests a flag that 1415 has cleared, so that with a private stack every nested
  activation takes the LongJump that 1457-1461 describe for the last one
  (`PrivateStack = TRUE`).
* `SetCon.c:261` reports a text `-p` cannot make a path of, then writes no bytes: the variable is
  deleted (`VariableAsAsked` excepts it). Usage after `-p`, `-h` or `-i` keeps the path
  (`NothingLeft`).
* `SetCon.c:75` and `LoadOpRom.c:115` free NULL when an allocation fails, the latter instead of
  the buffer it did get (`badFree`).
* `LoadOpRom.c:438` assigns `AllDevs` only when no location is given, and 495 reads it: junk that
  is TRUE takes all devices, against "the OpRom for that SBDF alone"
  (`Docs/Running.md:133-135`; `RightImages` excepts it).
* `LoadOpRom.c:342` adds an image's length without asking for more than zero: an image of
  length zero that is not the last is looked at for ever (excluded from the ROMs).
* `LoadOpRom.c:167` unloads an image whose `StartImage` failed; for an image that started and
  returned an error the boot services have already unloaded it.

## 5. What is proved

Theorems hold for every value of the constants that satisfies the assumption of the
module they are about. TLC evaluates those assumptions in the runs.

**CpuRunProofs** (any number of engines, contexts, images and frames, DEBUG or
not, private stack or not, any kind of `Jumps`): `TypeCorrect` (`[]TypeOK`),
`Uninterrupted` (`[]JitUninterrupted`), `ClientsUndisturbed` (`[]ClientView`), and
`Invariance` (`[]Inv`), from which the three follow.

`Inv` is `CritInv /\ DataOK`. `CritInv` is needed because neither `JitUninterrupted` nor
`ClientView` is inductive. Leaving a critical section restores `apparent`, so
`ClientView` depends on what was recorded inside; and that `ignore` is zero at each
`CriticalBegin` depends on the whole stack: an outer frame never stays inside a
critical section when something is pushed above it. `StackOK` says that (only the last frame
can have a critical pc), and the two conjuncts on `TopPc(stk)` tie `ignore` to
the top frame. A fault may end the program in the middle of a section, hence
`fault = "none"` in the last one. `DataOK` holds the types of the rest, where the work is
in the slices of `list` taken by orphan detection and compression: `LeastElement` and
`GreatestElement` justify the choices of `FirstOrphan` and of the image context.
The argument has one lemma per shape of step (a frame pushed, replaced, cut off; a
section entered, left) and one step per action in `HostStepKeeps`, `EmuStepKeeps`,
`HostStepData` and `EmuStepData`.

The counters: `CountersExact`, `[](CountsExact /\ CountersNonNegative)`, provided
`OrphansOfOneCpu`: the build is not DEBUG, or there is one engine. That condition is
exactly what `DebugTwoCpus.cfg` does without, so it cannot be dropped. The
invariant is inductive relative to `Inv`; the work is in counting: the positions of one
engine's contexts on a list that is appended to, cut in the middle by compression, or
loses its front to orphan detection (`CountAppend` and the lemmas after it, from the
cardinality theorems of the library).

Contexts, in `CpuRunProofs` too and provided `Release` (no orphan detection, no private stack, and LongJumps
that come back through emulated code): `NoContextLost` (`[]PoolPartition`), `NoAssertFails`
(`[]AssertsHold`), `LiveStayListed` (`[]LiveListed`), all from `PoolInvariance`. After a LongJump the list holds contexts of
activations that no longer exist, until the emulated caller is back and looks for them; so
where a context is cannot be read from the list or from the stack alone. `PoolInv` relates
the two: contexts of live frames are on the list in the order of the frames
(`LiveOnList`, `InOrder`), leaked ones stand only above the context of a frame that will
look for them before it runs anything (`LeaksAbove`, `OldestLive`), a context is
on the list, in the pool or with one frame that is about to list or to free it (`Apart`,
`Covered`), images on the list have their frames (`ImagesOK`), and a context about to be freed holds
no registers (`SavedOK`). From `LeaksAbove` follows `NewestTidy`: whoever runs has the
newest context. The steps have one lemma per effect on stack and list: a frame replaced and
the ones above it cut off (`PoolCut`), pushed (`PoolPush`), jumped over (`PoolJump`), a context
appended (`PoolAppend`), the list cut to a prefix (`PoolPrefix`), registers saved or put back
(`PoolSave`). The private stack is excluded because `LeaveEnd` then returns into the oldest
activation, and orphan detection because with it the statements fail for other constants
(see the departures above).

The registers, also provided `Release`: `RegistersStayOwn` (`[]OwnRegisters`) and
`JitRunsOnTop` (`[]RunsOnTop`), both from `RegisterInvariance`. `OwnRegisters` chooses the oldest
saved context above a frame that puts the frame's registers back, and is not inductive: contexts that save nothing
yet, or nothing at all, stand between. `RegInv` has two parts. `FindOwn`: on the chain of
contexts, leaked ones included, the first place above an activation that has saved their engine has the
activation's registers; the engine has them if no place has. `Prepared`: a context saves at
most once, and one about to load its arguments has saved, unless nobody of its engine is below
it; the latter is where the counters come in (`CountersExact`), for the code decides by them.
When a compression takes leaked contexts off, from the newest to the oldest, the engine is
left with what the oldest of them saved (`UnwoundRegisters`), so `FindOwn` survives it.
`ChainOnce` and `RegistersFound` lead from places of the chain back to `OwnRegisters`.

The refinement, also provided `Release`: `ImplementsActivations` (`Spec => Implements`). The
mapping of `CpuRefinement` numbers the frames that own registers (`Nth`) and puts beside each the
registers it would find. `Row`, `RowLess` and `RowLast` say what happens to such a numbered row when a
set of positions loses its largest ones or gains a new largest one. With them every step of
`CpuRun` is one of three: `Less` (activations end, the innermost ones first, or none does, and
those that stay keep their registers: `Unwind` or `Switch`), `Runs` (the innermost one's registers change:
`Run`) and `Starts`. That running code (`Touch`) and `ThunkPre` write the engine without a change to
any other activation is what `EngineKept` shows from `RegInv`, and `CompressUnwindLess` that a compression
gives back what the oldest leaked context has saved. The invariants needed are those
of the proofs before: `Inv`, `PoolInv`, `CountInv` and `RegInv`.

DEBUG builds, provided `Debug` and no private stack, with any number of engines and any `Jumps`, those of native
code past emulated frames included: `OrphansGone` (`[]OrphansReclaimed`), `DebugLiveStayListed`
(`[]LiveListed`), `DebugContextsKept` (each context is in its pool or in use), from
`DebugInvariance`. `NativeThunkCheckLeakedContexts` looks for contexts by identity;
`CpuDetectOrphanContexts` compares addresses instead, and a frame
entered after a LongJump may stand where an abandoned one stood. The invariant `DebugOK`
makes that comparison sound: the cookie of a context is the depth of the frame that
entered it, cookies on the list rise (`CookiesRise`), a live frame's context is on it with
that frame's depth (`LivePlaced`), whoever is past the detection has the newest one (`NewestEntered`),
contexts are once on the list, and in it, in the pool or with one frame (`Once`, `Apart`,
`Covered`). Orphans may stand anywhere on the list between two detections; the part of the list the
detection cuts off is one whose cookies are at least the new frame's, so no live frame's is in it.

**ExitPeriodProofs** (any bounds and any doublings between them): `PeriodStaysValid`,
`MaskingIsBounded`, `TimeoutStaysCurrent`. `BoundedMasking` is not inductive: the hook sees
only the counter modulo the largest period, and compares it with a mask. `Counted` bounds
the blocks of this run by that remainder, `Masked` says that the engine runs in one critical
section and nothing else in any; `MaskedCount` is the arithmetic: the counter's remainder
by the period goes up by one or, where the hook stops the engine, back to zero, although
the counter itself wraps at the largest period.

**DriverProofs** (any list of engines, any set of failing parts, any number of starts):
`NothingLeftBehind`, `ServedWhenUp`, `HooksLeadOn`, `TablesStayFirmware`. The inductive invariant
says, for each place of `EmulatorStart`, what is installed, hooked, opened and registered there
(`DeviceInv`, `HooksInv`, `EnginesInv`, `HandlersInv`, `TablesInv`), and how far a loop has come
(`InLoop`). What the code leaves behind when `CpuInit` fails is part of it: the hooks stay from the
first such start on (`Reached` is what they lead to at each place), and an engine is open as often
as such starts opened it, which `FailuresInv` bounds by their number.

**ImagesProofs** (any machines, ranges, records, handles): `CodeStaysKnown`, `NoCodeLeftBehind` and
`ExitStaysAccepted`. `CodeInv` says that the list holds each record once (`ListedOnce`), that a
clean range has a record exactly while an image is loaded there (`LoadedListed`, `ListedLoaded`),
and that engine and host agree with the loader (`Executable`). Lookups return the *first* record
that matches, and a failed registration leaves its record on the list for ever; so the proof has to
show that unregistering a clean range removes the record found and that none other for the range is
left. `HandleInv` adds that the handles of the records that were filled in tell the running images
apart (`HandlesApart`, `HandlesRight`), whatever the others hold; so the record found for the
innermost image is its own or an earlier one that was not filled in (`ExitFinds`).

**ObjectAllocProofs** (any number of objects, and of users that come at any step of one another):
`LinksTell` (`[]LinksTellAllocated`), `ListStaysConsistent` (`[]ListConsistent`), `ImplementsFifo`,
the refinement of `FifoPool`, `TornDown` (`[]NothingLeftBehind`) and `PoolTypes`. The first three
claim what their properties do: nothing after a user has come while another was halfway, and
`crossed` stays (`CrossedStays`). `PoolOK(q)` says that some sequence `q` of objects is the order of
the list; the theorems say that there is one. `LinksOK` tells, per place of the topmost user among
the link writes, which links agree with `q` already: after the write that takes an object off the
forward links `q` is its tail, after the one that puts it there `q` has one more, and those two
writes are the steps of the queue. `Settled` is about the users below, none of which is halfway:
what one of them goes on with is as it left it, an object linked to itself, or one linked to the
head. The user that has found the list not empty but has not yet asked for its first object is the
delicate one: others may take objects in the meantime, but each gives back what it took before it
ends, and so `Spare` is left for it (`NoMore`: users below have fewer objects than there are).
`OwnersOK` says who has the objects that are not on the list. `Along` walks along the links by a
recursive function; `AlongIs` shows, with a least place where it could differ, that it is `q`, and
`AllPlaced` that `q` and the users have every object.

**EfiWrappersProofs** (any number of records, events, priorities, failed creations and native
events; notifications create and close events anywhere): `WrapperTypes` (`[]TypeOK`),
`KnownStaysLive` (`[]KnownLive`), `EventsKeepRecords` (`[]RecordOfEvent`), `RecordsNotUsedFreed`
(`[]NoUseAfterFree`) and `RecordsStayAccounted` (`[]RecordsAccounted`), with the exceptions the
properties state and no hypothesis. `WrapperInvariance` has three parts. `TypesInv` holds always:
types, and the rising priorities that bound the stack (`Rising`). `CallsInv` holds until a
notification has closed what a wrapper below it deals with, also after a creation has failed, when
the list leads through a freed record: who closes an event has interrupted nobody that deals with it
(`ClosersAlone`, `Elsewhere`), each wrapper under way has a record of its own (`HeldApart`), an
event about to be given to its caller or closed is live and nobody else's (`MadeLive`,
`ClosingLive`). `Agree`, until a creation has failed as well, relates list, heap, the core's events
and the frames: each record on the list once (`ListedOnce`), exactly the allocated ones
(`ListedExactly`), events lead to records and back (`EventsLead`, `RecordsLead`), except where a
wrapper on the stack is about to make or has just broken the link. The hard step is a record taken
off the list below the cursor of an interrupted `EfiWrappersFindEvent`: `WalksApart` says that it is
never the one at the cursor, whose event the interrupted wrapper would deal with. `ListWithout` says
what is left of a list without the entry at `Place`.

**CallsProofs** (any address, register, offset, image, any call sites and functions within the
assumption of `Calls`, any number of calls of up to 16 arguments, any nesting). About the operators of
`HostTrap`: `WideCallRecovered` and `CompressedCallRecovered`: whatever a jalr or c.jalr calls,
`RecoverPcFromCall` returns, at any byte. Hypotheses exclude what `TargetRecovered` excludes: calls
through the return address register, and halfwords that look like a 32-bit instruction's.

About the behaviours of `Calls`: `AddressesRecovered` (`[]TargetRecovered`) and `CallsShape` without further
hypotheses; `ArgumentsDelivered` (`[]ArgumentsArrive`), `FramesKept` (`[]FramesIntact`) and `CallersGoOn`
(`[]CallersResume`) provided `Room`: a stack holds `LocalWords + 35` words for each of `MaxCalls` calls,
and a red zone. That hypothesis is needed, since nothing in `Cpu.c` looks for the end of the
emulated stack; 35 words are what one call of x64 takes at most beside what it keeps: a pre-thunk's
block of 17, the return register and the kept one, and the red zone of 16 an event leaves out.

None of these is inductive, because each speaks of registers at the moment a function has
them, and most functions on the stack do not: their registers are in `saved` of an activation
above them, or in that of another activation above that. The invariant has two parts.
`Shape`: which frame stands on which (`Link`), what each looks like (`FrameOK`), that calls
on the stack are numbered upwards (`Numbered`), and that registers are complete (`Files`). `Words`, per engine:
* `Sees(s, R, e, i, r)` says that the functions at place `i` will find registers `r` when they are on top again:
  those of the first activation above that saved some, or the engine's if none did.
* `ViewsOK`: with those registers, stack pointer, return address, kept words and arguments are where the
  convention has them, for each state a frame can be in (`EmuOK`, `ActOK`).
* `SavedOK`: a nested activation has saved complete registers, and its words begin below their red zone.
* `ApartOK`: an activation begins below whatever the functions under it count on; so a write into the
  stack of the topmost function disturbs nobody (`FunctionWith`), which is the step that `FramesIntact` needs.
* `Settled`: native functions got what was sent, and the result of the call they made last.

Steps that leave the registers alone are about frames only (`EnginesStay`); `SaveKeeps` and `RestoreKeeps` are
the two that move registers between an engine and a frame; the rest change one function on
top of its activation. The lemmas about blocks say what each thunk writes, word by word.

**ShellProofs** (any command lines, variable contents, paths, console handles, devices, ROMs and sets of services
that fail): `VariableEndsAsAsked` (`[]VariableAsAsked`), `ImagesAreRight` (`[]RightImages`) and
`NothingStaysAllocated` (`[]NothingLeft`), from `ShellInvariance`. What a command line means is stated in
`Shell` without GetOpt: a grammar says which words are options, arguments and operands, and the assumption
`ShellRequests` that users mean what they write (`SetConMeans`, `LoadOpRomMeans`). TLC evaluates
it for all spellings of the run; the theorems are about every line. The invariant `ShellInv` has a part per tool.
* Of the options read so far, `Seen` and `Known` tell what the grammar says of the words in front of `NextWord`.
  One call of `GetOpt` adds one option to it (`GetOptFound`, `SeenGrows`); when it finds none, all have been seen and
  the operands follow (`GetOptOver`, `SeenAll`). This is the induction over the command line, made along the run.
* `SetConAt` says what agrees with the request at each `pc`. `AutoPath` joins the paths of handles in a loop and
  the request wants `FlattenSeq` of them all: `Built(n)` is the path in front of handle `n`, and `Joined`, with a least
  place where they could differ (`LeastElement`), that it ends as `FlattenSeq`.
* The images of a ROM are the least set of blocks closed under going on (`Walk`). `WalkIsPath`: of two blocks of it
  one leads to the other, so no usable image lies between a block and the next (`WalkOn`), which is
  what `ParseImages` relies on. `RightAt` says which images of the devices in front of `k` have been started
  (`Handled`) and connected (`Linked`), and that the one at hand is the first usable (`FirstUsable`).
* `SetConHeap` and `LoadHeap` name what is allocated at each `pc`, up to what a `FreePool` of the wrong pointer
  has left (`Leaked`).

The proof showed a defect of the model: guards of the CASE in `Decide` overlapped, for `-a` without a path.

Only model-checked: `OwnRegisters` in DEBUG builds (`DebugOneCpu`). Not checked: builds with a private
stack, of which `Inv` and the counters are proved. Out of the prover's reach, and staying
with TLC: `EventsDelivered` and `Terminates` (liveness under fairness).

## 6. Not modelled

* The serial port library (`src/Library/BaseSerialPortLibSerialIoProtocol`): each function finds the
  protocol, remembers the pointer, and passes its arguments on. Pure I/O without state of
  its own beyond that pointer.
* `EmulatorTest`: a test suite, read as a statement of intent. Of `TestProtocol.c` the
  installation (`Driver`) and the call of an emulated function (`Calls`) are modelled; the
  functions that answer with constants test marshalling, which `Calls` states for every
  argument.
* `ComponentName.c`: constant strings. Register and stack dumps, debug output: no state.
* `_DriverUnloadHandler` of the cached entry point: the driver names no unload image, so nothing
  reaches it.
* Unicorn: outside the repository; modelled as its callers use it.
* `CpuIoRead/Write` and `CpuNullRead/Write` (`Cpu.c:102-221`): forwarding of port I/O and a trap for
  NULL accesses.
* Running out of emulated stack: the code does not handle it.
* What a corrupt ROM makes the PE loader do: only the headers the application reads are
  in the model.

## 7. Plan

Done, in this order, most important first: `Critical`, `CpuRun`, `Activations` and the
refinement, `CpuRunProofs`, `ExitPeriod`, `ObjectAlloc` with `FifoPool`, `EfiWrappers`,
`Images`, `Driver`; then `HostTrap` and `Calls`, the applications with `Shell`, `CachedTables`,
and the proofs about exit periods, the driver, recovered calls, counters and images; then the pool
and register proofs about `CpuRun`, the proofs about wrapped events, `ObjectAlloc` and `Calls`, and
that of the refinement; last, the proofs about orphans in DEBUG builds and about the applications.

What would come next:

1. The registers and the refinement in DEBUG builds of one engine.
2. `CpuRun` with the pool of `ObjectAlloc` in place of its atomic one.

Each module keeps one passing run for its component; parameters are constants with a
named assumption, invariants are conjunctions of named parts, and no module that is proved
about declares a `RECURSIVE` operator.
