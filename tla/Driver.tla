------------------------------- MODULE Driver -------------------------------
(***************************************************************************)
(* The life cycle of the driver (Drivers/Emulator/Entry.c, DriverBinding.c,*)
(* Emulator.c, with EfiHooksInit, CpuInit, ArchInit and their undoing).    *)
(*                                                                         *)
(* DriverEntry publishes a device and a driver binding for it; connecting  *)
(* the device starts the emulator: hooks, engines, exception handlers and  *)
(* last the emulator protocols that make the core hand over images.  Any   *)
(* of these can fail, and the platform connects devices again and again.   *)
(* Before DriverEntry the entry point library copies the system table.     *)
(***************************************************************************)
EXTENDS CachedTables, SequencesExt, FiniteSets

CONSTANTS
  Engines,      \* CpuContexts, in the order of CpuInit
  Hosts,        \* host architectures
  Exceptions,   \* the exceptions ArchInit registers for on each, in order
  Undoes,       \* hosts whose ArchInit stops at a failure and undoes itself
  MayFail,      \* parts that may fail
  MaxStarts     \* bound: calls of DriverStart

Cpus == Range(Engines)

ASSUME DriverAssumption ==
  /\ Engines \in Seq(Cpus) \ {<<>>} /\ IsInjective(Engines)
  /\ \A h \in Hosts : Exceptions[h] \in Seq(Range(Exceptions[h])) \ {<<>>}
  /\ Undoes \subseteq Hosts
  /\ MayFail \subseteq {"tables", "entry", "hooks", "stack", "engine", "arch", "protocol", "test"}
  /\ MaxStarts \in Nat

VARIABLES
  pc,         \* where DriverEntry or EmulatorStart is
  k,          \* the engine or exception it is at
  device,     \* the device's protocols are installed
  binding,    \* the driver binding is installed
  opened,     \* the device is opened by the driver
  service,    \* what EnableInterrupt and its like of gCpu are: "real" or "hook"
  real,       \* what mRealEnableInterrupt and its like are
  open,       \* Unicorn engines opened and not closed, per Cpu
  handlers,   \* exceptions whose handler is the emulator's
  protocols,  \* Cpus whose emulator protocol is installed
  starts,     \* calls of DriverStart
  cpuFailed,  \* history: the calls of DriverStart in which CpuInit failed
  host        \* the architecture of the host

parts == <<device, binding, opened, service, real, open, handlers, protocols>>
vars == <<pc, k, parts, starts, cpuFailed, host, tables>>

Handled == Range(Exceptions[host])

Pcs == {"tables", "constructors", "unloaded", "entry", "device", "binding", "failed", "idle", "hooks", "stack", "engine",
        "arch", "protocol", "test", "undoengines", "undohooks",
        "undoprotocols", "undoarch", "close", "started"}

ControlOK ==
  /\ pc \in Pcs
  /\ k \in Nat \ {0}
  /\ starts \in 0..MaxStarts
  /\ host \in Hosts

FlagsOK ==
  /\ device \in BOOLEAN /\ binding \in BOOLEAN
  /\ opened \in BOOLEAN

HistoryOK == cpuFailed \subseteq 1..MaxStarts

PartsOK ==
  /\ service \in {"real", "hook"}
  /\ real \in {"none", "real", "hook"}
  /\ open \in [Cpus -> 0..MaxStarts]
  /\ handlers \subseteq Handled
  /\ protocols \subseteq Cpus

TypeOK == ControlOK /\ FlagsOK /\ HistoryOK /\ PartsOK /\ TablesOK

Init ==
  /\ pc = "tables" /\ k = 1
  /\ TablesInit
  /\ device = FALSE /\ binding = FALSE /\ opened = FALSE
  /\ service = "real" /\ real = "none"
  /\ open = [p \in Cpus |-> 0]
  /\ handlers = {} /\ protocols = {}
  /\ starts = 0 /\ cpuFailed = {}
  /\ host \in Hosts

Step(next, n) == pc' = next /\ k' = n /\ UNCHANGED <<starts, cpuFailed, host>>
Go(next) == Step(next, 1) /\ UNCHANGED tables
Again == Step(pc, k + 1) /\ UNCHANGED tables
\* EmulatorStart returns at once, without undoing EfiHooksInit.
CpuInitFails ==
  /\ pc' = "close" /\ k' = 1 /\ cpuFailed' = cpuFailed \cup {starts}
  /\ UNCHANGED <<starts, host, tables>>
Fails(part) == part \in MayFail

-----------------------------------------------------------------------------
(* The entry point library, before and after DriverEntry.                  *)
AllocateTable ==
  /\ pc = "tables"
  /\ \/ /\ CopyTable(Tables[k])
        /\ IF k < Len(Tables) THEN Step(pc, k + 1) ELSE Step("constructors", 1)
     \/ Fails("tables") /\ FreeTables /\ Step("unloaded", 1)
  /\ UNCHANGED parts

\* They set gST, gBS and gRT to the copies, then the driver is entered.
LibraryConstructors ==
  /\ pc = "constructors"
  /\ Go("entry")
  /\ UNCHANGED parts

\* DriverEntry has failed: destructors, then the copies are freed.
EntryFailed ==
  /\ pc = "failed"
  /\ FreeTables
  /\ Step("unloaded", 1)
  /\ UNCHANGED parts

\* An image that the driver serves runs.
ImageReplacesServices ==
  /\ protocols # {}
  /\ ReplaceServices
  /\ UNCHANGED <<pc, k, parts, starts, cpuFailed, host>>

-----------------------------------------------------------------------------
(* DriverEntry.                                                            *)
LocateProtocols ==
  /\ pc = "entry"
  /\ Go("device") \/ (Fails("entry") /\ Go("failed"))
  /\ UNCHANGED parts

InstallDevice ==
  /\ pc = "device"
  /\ \/ device' = TRUE /\ Go("binding")
     \/ Fails("entry") /\ Go("failed") /\ UNCHANGED device
  /\ UNCHANGED <<binding, opened, service, real, open, handlers, protocols>>

InstallBinding ==
  /\ pc = "binding"
  /\ \/ binding' = TRUE /\ Go("idle") /\ UNCHANGED device
     \/ Fails("entry") /\ device' = FALSE /\ Go("failed") /\ UNCHANGED binding
  /\ UNCHANGED <<opened, service, real, open, handlers, protocols>>

-----------------------------------------------------------------------------
(* DriverStart and EmulatorStart.                                          *)
DriverStart ==
  /\ pc = "idle" /\ ~opened /\ starts < MaxStarts
  /\ opened' = TRUE
  /\ pc' = "hooks" /\ k' = 1 /\ starts' = starts + 1
  /\ UNCHANGED <<device, binding, service, real, open, handlers, protocols, cpuFailed, host, tables>>

\* Mutant: the protocol is patched before its services are remembered.
EfiHooksInitLate ==
  /\ pc = "hooks"
  /\ \/ real' = "hook" /\ service' = "hook" /\ Go("stack")
     \/ Fails("hooks") /\ Go("close") /\ UNCHANGED <<service, real>>
  /\ UNCHANGED <<device, binding, opened, open, handlers, protocols>>

\* EfiHooksInit takes whatever the protocol has now for the real services.
EfiHooksInit ==
  /\ pc = "hooks"
  /\ \/ real' = service /\ service' = "hook" /\ Go("stack")
     \/ Fails("hooks") /\ Go("close") /\ UNCHANGED <<service, real>>
  /\ UNCHANGED <<device, binding, opened, open, handlers, protocols>>

\* The first thing CpuInit does, where builds have a private stack.
CpuPrivateStackInit ==
  /\ pc = "stack"
  /\ Go("engine") \/ (Fails("stack") /\ CpuInitFails)
  /\ UNCHANGED parts

\* CpuInitEx opens an engine and sets it up; it fails before or after.
CpuInitEx ==
  /\ pc = "engine"
  /\ LET p == Engines[k]
         opens == open' = [open EXCEPT ![p] = @ + 1] IN
     \/ opens /\ IF k < Len(Engines) THEN Again ELSE Go("arch")
     \/ Fails("engine") /\ (opens \/ UNCHANGED open) /\ CpuInitFails
  /\ UNCHANGED <<device, binding, opened, service, real, handlers, protocols>>

\* Mutant: what was registered before the failure stays.
ArchInitKeeps ==
  /\ pc = "arch"
  /\ LET e == Exceptions[host][k]
         last == k = Len(Exceptions[host]) IN
     \/ /\ e \notin handlers
        /\ handlers' = handlers \cup {e}
        /\ IF last THEN Go("protocol") ELSE Again
     \/ /\ Fails("arch") \/ e \in handlers
        /\ handlers' = handlers
        /\ Go("undoengines")
  /\ UNCHANGED <<device, binding, opened, service, real, open, protocols>>

\* ArchInit, one RegisterInterruptHandler at a time, which also fails for an
\* exception that has a handler.  LOONGARCH64 goes on after a failure and
\* returns the status of the last one.
ArchInit ==
  /\ pc = "arch"
  /\ LET e == Exceptions[host][k]
         last == k = Len(Exceptions[host]) IN
     \/ /\ e \notin handlers
        /\ handlers' = handlers \cup {e}
        /\ IF last THEN Go("protocol") ELSE Again
     \/ /\ Fails("arch") \/ e \in handlers
        /\ handlers' = IF host \in Undoes
                       THEN handlers \ {Exceptions[host][n] : n \in 1..(k - 1)}
                       ELSE handlers
        /\ IF host \in Undoes \/ last THEN Go("undoengines") ELSE Again
  /\ UNCHANGED <<device, binding, opened, service, real, open, protocols>>

InstallEmulatorProtocol ==
  /\ pc = "protocol"
  /\ \/ /\ protocols' = protocols \cup {Engines[k]}
        /\ IF k < Len(Engines) THEN Again ELSE Go("test")
     \/ Fails("protocol") /\ Go("undoprotocols") /\ UNCHANGED protocols
  /\ UNCHANGED <<device, binding, opened, service, real, open, handlers>>

\* DEBUG builds install the test protocol, the last thing to fail.
TestProtocolInit ==
  /\ pc = "test"
  /\ Go("started") \/ (Fails("test") /\ Go("undoprotocols"))
  /\ UNCHANGED parts

-----------------------------------------------------------------------------
(* Undoing.                                                                *)

\* Mutant: the exception handlers go before the protocols.
UndoProtocolsLate ==
  /\ pc = "undoprotocols"
  /\ handlers' = {}
  /\ Go("undoarch")
  /\ UNCHANGED <<device, binding, opened, service, real, open, protocols>>

UninstallProtocols ==
  /\ pc = "undoprotocols"
  /\ protocols' = {}
  /\ Go("undoarch")
  /\ UNCHANGED <<device, binding, opened, service, real, open, handlers>>

ArchCleanup ==
  /\ pc = "undoarch"
  /\ handlers' = {}
  /\ Go("undoengines")
  /\ UNCHANGED <<device, binding, opened, service, real, open, protocols>>

CpuCleanup ==
  /\ pc = "undoengines"
  /\ open' = [p \in Cpus |-> open[p] - 1]
  /\ Go("undohooks")
  /\ UNCHANGED <<device, binding, opened, service, real, handlers, protocols>>

EfiHooksCleanup ==
  /\ pc = "undohooks"
  /\ service' = real
  /\ Go("close")
  /\ UNCHANGED <<device, binding, opened, real, open, handlers, protocols>>

\* The failed DriverStart closes the device: it may be connected again.
CloseProtocol ==
  /\ pc = "close"
  /\ opened' = FALSE
  /\ Go("idle")
  /\ UNCHANGED <<device, binding, service, real, open, handlers, protocols>>

\* DriverStop: EmulatorStop refuses, once started means started.
DriverStop ==
  /\ pc = "started"
  /\ UNCHANGED vars

Next ==
  \/ AllocateTable \/ LibraryConstructors \/ EntryFailed \/ ImageReplacesServices
  \/ LocateProtocols \/ InstallDevice \/ InstallBinding
  \/ DriverStart \/ EfiHooksInit \/ CpuPrivateStackInit \/ CpuInitEx \/ ArchInit
  \/ InstallEmulatorProtocol \/ TestProtocolInit
  \/ UninstallProtocols \/ ArchCleanup \/ CpuCleanup \/ EfiHooksCleanup
  \/ CloseProtocol \/ DriverStop

Spec == Init /\ [][Next]_vars

-----------------------------------------------------------------------------
(* Properties.                                                             *)

\* A start that failed leaves nothing behind, and one that succeeded after
\* others that failed has everything once, but for what EmulatorStart does not
\* undo when CpuInit fails (Emulator.c:108): from then on the hooks stay, and
\* each such start leaves each engine open once more at most.  The handlers of
\* a host that does not undo the others are excepted (LOONGARCH64).
\* (Emulated stacks are never given back: CpuCleanupEx says so.)
AllOrNothing ==
  /\ pc \in {"failed", "unloaded"} => ~device /\ ~binding
  /\ pc = "idle" =>
       /\ service = "hook" <=> cpuFailed # {}
       /\ protocols = {}
       /\ host \in Undoes => handlers = {}
       /\ \A p \in Cpus : open[p] <= Cardinality(cpuFailed)
  /\ pc = "started" => \A p \in Cpus : open[p] \in 1..(Cardinality(cpuFailed) + 1)

\* Images are only handed over while all of the emulator is there to run
\* them: also in the middle of starting and undoing, where the core may react
\* to the protocols at once.  A fault of the host on emulated code then leads
\* into the emulator (the comments on EmulatorSyncExceptionCallback), where
\* only the last exception is sure to if ArchInit goes on after a failure.
ServedOnlyWhenUp ==
  protocols # {} =>
    /\ service = "hook"
    /\ \A p \in Cpus : open[p] > 0
    /\ IF host \in Undoes THEN handlers = Handled
                         ELSE Last(Exceptions[host]) \in handlers

\* The hooks lead on to the processor's services and not to themselves, for
\* the emulator owns the real interrupt state through them (EfiHooks.c:86-95):
\* however often starts fail, up to and including the first whose CpuInit does.
HooksReachProcessor == real = "hook" => \E n \in cpuFailed : n < starts

\* What the comment says without an exception: real interrupt state is "now
\* owned by us" (EfiHooks.c:93), which takes the processor's services.
RealOwned == real # "hook"

\* Wherever code of the driver may run, the services it calls are the
\* firmware's, whatever emulated images have done to the system table ("Caches
\* the SystemTable so that any future changes made to the table do not affect
\* the driver", DriverEntryPoint.c:3-5), and a driver that did not get in has
\* given back its tables, with nothing installed that would call into it.
TablesServeDriver ==
  /\ pc \notin {"tables", "unloaded"} => \A t \in Names : Served(t) = "firmware"
  /\ pc = "unloaded" =>
       /\ \A t \in Names : mCachedST[t] = "none"
       /\ ~device /\ ~binding /\ protocols = {}

=============================================================================
