---------------------------- MODULE DriverProofs ----------------------------
(***************************************************************************)
(* Proofs about Driver, for any engines, hosts, exceptions, number of      *)
(* starts and parts that may fail.                                         *)
(***************************************************************************)
EXTENDS Driver, FiniteSetTheorems, TLAPS

-----------------------------------------------------------------------------
(* The inductive invariant: what each point of the code can rely on.       *)

\* The loops stay within what they go through.
InLoop ==
  /\ pc = "tables" => k \in 1..3
  /\ pc \in {"engine", "protocol"} => k \in 1..Len(Engines)
  /\ pc = "arch" => k \in 1..Len(Exceptions[host])

\* Images run at these points only, and only then may they replace services.
ServingPcs == {"protocol", "test", "undoprotocols", "started"}
Serving == protocols # {} => pc \in ServingPcs

\* The copies made so far are of the firmware's services.
TablesInv ==
  /\ pc = "tables" =>
       /\ \A t \in Names : mRealST[t] = "firmware"
       /\ \A n \in 1..3 : n < k => mCachedST[Tables[n]] = "firmware"
  /\ pc \notin {"tables", "unloaded"} => \A t \in Names : mCachedST[t] = "firmware"
  /\ pc = "unloaded" => \A t \in Names : mCachedST[t] = "none"

DeviceInv ==
  /\ pc \in {"tables", "constructors", "entry", "device", "failed", "unloaded"} => ~device
  /\ pc \in {"tables", "constructors", "entry", "device", "binding", "failed", "unloaded"} => ~binding

\* Each start fails in CpuInit at most once, and is over then.
HookedPcs == {"stack", "engine", "arch", "protocol", "test", "undoengines", "undohooks",
              "undoprotocols", "undoarch", "started"}
Failures == Cardinality(cpuFailed)
FailuresInv ==
  /\ IsFiniteSet(cpuFailed) /\ Failures \in Nat /\ Failures <= starts
  /\ \A n \in cpuFailed : n <= starts
  /\ pc \in HookedPcs \cup {"hooks"} => Failures < starts /\ \A n \in cpuFailed : n < starts

\* While the hooks are in place they lead to the processor's services until
\* CpuInit fails, and from the next start on to themselves.
Reached == IF cpuFailed = {} THEN "real" ELSE "hook"
HooksInv ==
  /\ IF pc \in HookedPcs THEN service = "hook" /\ real = Reached ELSE service = Reached
  /\ real = "hook" => \E n \in cpuFailed : n < starts

\* Each start opens every engine at most once, and leaves it open only if
\* CpuInit has failed in it.
UpPcs == {"arch", "protocol", "test", "undoprotocols", "undoarch", "undoengines", "started"}
EnginesInv ==
  /\ pc = "engine" =>
       \A n \in 1..Len(Engines) :
         open[Engines[n]] \in (IF n < k THEN 1..(Failures + 1) ELSE 0..Failures)
  /\ pc \in UpPcs => \A p \in Cpus : open[p] \in 1..(Failures + 1)
  /\ pc \notin UpPcs \cup {"engine"} => \A p \in Cpus : open[p] \in 0..Failures

\* A host that undoes itself has no handlers or those registered so far.
HandlersInv ==
  /\ pc \in ServingPcs => Exceptions[host][Len(Exceptions[host])] \in handlers
  /\ host \in Undoes =>
       /\ pc \in ServingPcs => handlers = Handled
       /\ pc = "arch" => handlers = {Exceptions[host][n] : n \in 1..(k - 1)}
       /\ pc \notin ServingPcs \cup {"arch", "undoarch"} => handlers = {}

Inv ==
  /\ TypeOK /\ InLoop /\ Serving /\ TablesInv /\ DeviceInv
  /\ FailuresInv /\ HooksInv /\ EnginesInv /\ HandlersInv

-----------------------------------------------------------------------------
(* The sequences the driver goes through.                                  *)

\* The engines are those of the sequence, each once.
LEMMA EngineFacts ==
  /\ Len(Engines) \in Nat \ {0}
  /\ \A n \in 1..Len(Engines) : Engines[n] \in Cpus
  /\ \A p \in Cpus : \E n \in 1..Len(Engines) : p = Engines[n]
  /\ \A m, n \in 1..Len(Engines) : Engines[m] = Engines[n] => m = n
<1>1. Engines \in Seq(Cpus) /\ Engines # <<>> /\ IsInjective(Engines)
  BY DriverAssumption
<1>2. Len(Engines) \in Nat \ {0} /\ DOMAIN Engines = 1..Len(Engines)
  BY <1>1
<1> QED
  BY <1>1, <1>2 DEF Cpus, Range, IsInjective

\* Each host has exceptions to register for.
LEMMA ExceptionFacts ==
  ASSUME NEW h \in Hosts
  PROVE  /\ Len(Exceptions[h]) \in Nat \ {0}
         /\ Range(Exceptions[h]) = {Exceptions[h][n] : n \in 1..Len(Exceptions[h])}
<1>1. Exceptions[h] \in Seq(Range(Exceptions[h])) /\ Exceptions[h] # <<>>
  BY DriverAssumption
<1>2. Len(Exceptions[h]) \in Nat \ {0} /\ DOMAIN Exceptions[h] = 1..Len(Exceptions[h])
  BY <1>1
<1> QED
  BY <1>2 DEF Range

\* Nothing is set up before the driver is entered.
LEMMA InitInv == Init => Inv
<1> SUFFICES ASSUME Init PROVE Inv
  OBVIOUS
<1>1. MaxStarts \in Nat
  BY DriverAssumption
<1>2. TypeOK
  <2>1. ControlOK
    BY <1>1 DEF Init, ControlOK, Pcs
  <2>2. FlagsOK /\ HistoryOK
    BY DEF Init, FlagsOK, HistoryOK
  <2>3. PartsOK
    BY <1>1 DEF Init, PartsOK
  <2>4. TablesOK
    BY DEF Init, TablesInit, TablesOK
  <2> QED
    BY <2>1, <2>2, <2>3, <2>4 DEF TypeOK
<1>3. TablesInv
  BY DEF Init, TablesInit, TablesInv, Names
<1>4. FailuresInv /\ EnginesInv
  <2>1. cpuFailed = {} /\ IsFiniteSet(cpuFailed) /\ Failures = 0
    BY FS_EmptySet DEF Init, Failures
  <2> QED
    BY <2>1 DEF Init, FailuresInv, EnginesInv, UpPcs, HookedPcs
<1>5. HandlersInv
  BY DEF Init, HandlersInv, ServingPcs
<1> QED
  BY <1>2, <1>3, <1>4, <1>5 DEF Init, Inv, InLoop, Serving, DeviceInv, HooksInv, HookedPcs, Reached

-----------------------------------------------------------------------------
(* Every action keeps the invariant.                                       *)

\* A start is over when CpuInit fails in it.
LEMMA FailsOnce ==
  ASSUME Inv, pc \in {"stack", "engine"}, CpuInitFails
  PROVE  HistoryOK' /\ FailuresInv' /\ Failures' = Failures + 1 /\ cpuFailed' # {}
<1>1. /\ starts \in 0..MaxStarts /\ MaxStarts \in Nat /\ cpuFailed \subseteq 1..MaxStarts
      /\ IsFiniteSet(cpuFailed) /\ Cardinality(cpuFailed) \in Nat /\ Cardinality(cpuFailed) < starts
      /\ \A n \in cpuFailed : n < starts
  BY DriverAssumption DEF Inv, TypeOK, ControlOK, HistoryOK, FailuresInv, Failures, HookedPcs
<1>2. cpuFailed' = cpuFailed \cup {starts} /\ starts' = starts /\ pc' = "close"
  BY DEF CpuInitFails
<1>3. starts \notin cpuFailed /\ starts \in 1..MaxStarts
  BY <1>1
<1>4. IsFiniteSet(cpuFailed') /\ Cardinality(cpuFailed') = Cardinality(cpuFailed) + 1
  BY <1>1, <1>2, <1>3, FS_AddElement
<1> QED
  BY <1>1, <1>2, <1>3, <1>4 DEF HistoryOK, FailuresInv, Failures, HookedPcs

\* Copying one table, or giving up with none.
LEMMA AllocateTableInv == Inv /\ AllocateTable => Inv'
<1> SUFFICES ASSUME Inv, AllocateTable PROVE Inv'
  OBVIOUS
<1> USE DEF Inv, TypeOK, AllocateTable, Step, Go, Again, CopyTable, FreeTables, parts
<1>1. ControlOK' /\ InLoop' /\ Serving'
  BY EngineFacts, ExceptionFacts DEF ControlOK, Pcs, InLoop, Serving, ServingPcs, Tables
<1>2. FlagsOK'
  BY Zenon DEF FlagsOK
<1>3. PartsOK'
  BY DEF PartsOK, Handled
<1>4. TablesOK' /\ TablesInv'
  BY DEF TablesOK, TablesInv, Names, Tables, InLoop
<1>5. DeviceInv' /\ HooksInv'
  BY DEF DeviceInv, HooksInv, HookedPcs, Reached
<1>6. EnginesInv'
  BY EngineFacts DEF ControlOK, PartsOK, EnginesInv, UpPcs, FailuresInv, Failures
<1>7. HandlersInv'
  BY ExceptionFacts DEF ControlOK, HandlersInv, ServingPcs, Handled
<1>8. HistoryOK' /\ FailuresInv'
  BY DEF ControlOK, HistoryOK, FailuresInv, Failures, HookedPcs
<1> QED
  BY <1>1, <1>2, <1>3, <1>4, <1>5, <1>6, <1>7, <1>8

\* The library constructors change nothing the driver relies on.
LEMMA LibraryConstructorsInv == Inv /\ LibraryConstructors => Inv'
<1> SUFFICES ASSUME Inv, LibraryConstructors PROVE Inv'
  OBVIOUS
<1> USE DEF Inv, TypeOK, LibraryConstructors, Step, Go, Again, parts, tables
<1>1. ControlOK' /\ InLoop' /\ Serving'
  BY EngineFacts, ExceptionFacts, DriverAssumption DEF ControlOK, Pcs, InLoop, Serving, ServingPcs
<1>2. FlagsOK'
  BY Zenon DEF FlagsOK
<1>3. PartsOK'
  BY DEF PartsOK, Handled
<1>4. TablesOK' /\ TablesInv'
  BY DEF TablesOK, TablesInv, Names
<1>5. DeviceInv' /\ HooksInv'
  BY DEF DeviceInv, HooksInv, HookedPcs, Reached
<1>6. EnginesInv'
  BY EngineFacts DEF ControlOK, PartsOK, EnginesInv, UpPcs, FailuresInv, Failures
<1>7. HandlersInv'
  BY ExceptionFacts DEF ControlOK, HandlersInv, ServingPcs, Handled
<1>8. HistoryOK' /\ FailuresInv'
  BY DEF ControlOK, HistoryOK, FailuresInv, Failures, HookedPcs
<1> QED
  BY <1>1, <1>2, <1>3, <1>4, <1>5, <1>6, <1>7, <1>8

\* A driver that failed to enter gives its copies back.
LEMMA EntryFailedInv == Inv /\ EntryFailed => Inv'
<1> SUFFICES ASSUME Inv, EntryFailed PROVE Inv'
  OBVIOUS
<1> USE DEF Inv, TypeOK, EntryFailed, Step, Go, Again, FreeTables, parts
<1>1. ControlOK' /\ InLoop' /\ Serving'
  BY EngineFacts, ExceptionFacts, DriverAssumption DEF ControlOK, Pcs, InLoop, Serving, ServingPcs
<1>2. FlagsOK'
  BY Zenon DEF FlagsOK
<1>3. PartsOK'
  BY DEF PartsOK, Handled
<1>4. TablesOK' /\ TablesInv'
  BY DEF TablesOK, TablesInv, Names
<1>5. DeviceInv' /\ HooksInv'
  BY DEF DeviceInv, HooksInv, HookedPcs, Reached
<1>6. EnginesInv'
  BY EngineFacts DEF ControlOK, PartsOK, EnginesInv, UpPcs, FailuresInv, Failures
<1>7. HandlersInv'
  BY ExceptionFacts DEF ControlOK, HandlersInv, ServingPcs, Handled
<1>8. HistoryOK' /\ FailuresInv'
  BY DEF ControlOK, HistoryOK, FailuresInv, Failures, HookedPcs
<1> QED
  BY <1>1, <1>2, <1>3, <1>4, <1>5, <1>6, <1>7, <1>8

\* Images run only while the driver has copies of everything.
LEMMA ImageReplacesServicesInv == Inv /\ ImageReplacesServices => Inv'
<1> SUFFICES ASSUME Inv, ImageReplacesServices PROVE Inv'
  OBVIOUS
<1> USE DEF Inv, TypeOK, ImageReplacesServices, ReplaceServices, parts
<1>1. ControlOK' /\ InLoop' /\ Serving'
  BY EngineFacts, ExceptionFacts, DriverAssumption DEF ControlOK, Pcs, InLoop, Serving, ServingPcs
<1>2. FlagsOK'
  BY Zenon DEF FlagsOK
<1>3. PartsOK'
  BY DEF PartsOK, Handled
<1>4. TablesOK' /\ TablesInv'
  BY DEF TablesOK, TablesInv, Names, Serving, ServingPcs
<1>5. DeviceInv' /\ HooksInv'
  BY DEF DeviceInv, HooksInv, HookedPcs, Reached
<1>6. EnginesInv'
  BY EngineFacts DEF ControlOK, PartsOK, EnginesInv, UpPcs, FailuresInv, Failures
<1>7. HandlersInv'
  BY ExceptionFacts DEF ControlOK, HandlersInv, ServingPcs, Handled
<1>8. HistoryOK' /\ FailuresInv'
  BY DEF ControlOK, HistoryOK, FailuresInv, Failures, HookedPcs
<1> QED
  BY <1>1, <1>2, <1>3, <1>4, <1>5, <1>6, <1>7, <1>8

\* DriverEntry looks for what it needs.
LEMMA LocateProtocolsInv == Inv /\ LocateProtocols => Inv'
<1> SUFFICES ASSUME Inv, LocateProtocols PROVE Inv'
  OBVIOUS
<1> USE DEF Inv, TypeOK, LocateProtocols, Step, Go, Again, parts, tables
<1>1. ControlOK' /\ InLoop' /\ Serving'
  BY EngineFacts, ExceptionFacts, DriverAssumption DEF ControlOK, Pcs, InLoop, Serving, ServingPcs
<1>2. FlagsOK'
  BY Zenon DEF FlagsOK
<1>3. PartsOK'
  BY DEF PartsOK, Handled
<1>4. TablesOK' /\ TablesInv'
  BY DEF TablesOK, TablesInv, Names
<1>5. DeviceInv' /\ HooksInv'
  BY DEF DeviceInv, HooksInv, HookedPcs, Reached
<1>6. EnginesInv'
  BY EngineFacts DEF ControlOK, PartsOK, EnginesInv, UpPcs, FailuresInv, Failures
<1>7. HandlersInv'
  BY ExceptionFacts DEF ControlOK, HandlersInv, ServingPcs, Handled
<1>8. HistoryOK' /\ FailuresInv'
  BY DEF ControlOK, HistoryOK, FailuresInv, Failures, HookedPcs
<1> QED
  BY <1>1, <1>2, <1>3, <1>4, <1>5, <1>6, <1>7, <1>8

\* DriverEntry installs the device.
LEMMA InstallDeviceInv == Inv /\ InstallDevice => Inv'
<1> SUFFICES ASSUME Inv, InstallDevice PROVE Inv'
  OBVIOUS
<1> USE DEF Inv, TypeOK, InstallDevice, Step, Go, Again, tables
<1>1. ControlOK' /\ InLoop' /\ Serving'
  BY EngineFacts, ExceptionFacts, DriverAssumption DEF ControlOK, Pcs, InLoop, Serving, ServingPcs
<1>2. FlagsOK'
  BY Zenon DEF FlagsOK
<1>3. PartsOK'
  BY DEF PartsOK, Handled
<1>4. TablesOK' /\ TablesInv'
  BY DEF TablesOK, TablesInv, Names
<1>5. DeviceInv' /\ HooksInv'
  BY DEF DeviceInv, HooksInv, HookedPcs, Reached
<1>6. EnginesInv'
  BY EngineFacts DEF ControlOK, PartsOK, EnginesInv, UpPcs, FailuresInv, Failures
<1>7. HandlersInv'
  BY ExceptionFacts DEF ControlOK, HandlersInv, ServingPcs, Handled
<1>8. HistoryOK' /\ FailuresInv'
  BY DEF ControlOK, HistoryOK, FailuresInv, Failures, HookedPcs
<1> QED
  BY <1>1, <1>2, <1>3, <1>4, <1>5, <1>6, <1>7, <1>8

\* DriverEntry installs the binding, or takes the device back.
LEMMA InstallBindingInv == Inv /\ InstallBinding => Inv'
<1> SUFFICES ASSUME Inv, InstallBinding PROVE Inv'
  OBVIOUS
<1> USE DEF Inv, TypeOK, InstallBinding, Step, Go, Again, tables
<1>1. ControlOK' /\ InLoop' /\ Serving'
  BY EngineFacts, ExceptionFacts, DriverAssumption DEF ControlOK, Pcs, InLoop, Serving, ServingPcs
<1>2. FlagsOK'
  BY Zenon DEF FlagsOK
<1>3. PartsOK'
  BY DEF PartsOK, Handled
<1>4. TablesOK' /\ TablesInv'
  BY DEF TablesOK, TablesInv, Names
<1>5. DeviceInv' /\ HooksInv'
  BY DEF DeviceInv, HooksInv, HookedPcs, Reached
<1>6. EnginesInv'
  BY EngineFacts DEF ControlOK, PartsOK, EnginesInv, UpPcs, FailuresInv, Failures
<1>7. HandlersInv'
  BY ExceptionFacts DEF ControlOK, HandlersInv, ServingPcs, Handled
<1>8. HistoryOK' /\ FailuresInv'
  BY DEF ControlOK, HistoryOK, FailuresInv, Failures, HookedPcs
<1> QED
  BY <1>1, <1>2, <1>3, <1>4, <1>5, <1>6, <1>7, <1>8

\* A start begins with no part set up by it.
LEMMA DriverStartInv == Inv /\ DriverStart => Inv'
<1> SUFFICES ASSUME Inv, DriverStart PROVE Inv'
  OBVIOUS
<1> USE DEF Inv, TypeOK, DriverStart, tables
<1>1. ControlOK' /\ InLoop' /\ Serving'
  BY EngineFacts, ExceptionFacts, DriverAssumption DEF ControlOK, Pcs, InLoop, Serving, ServingPcs
<1>2. FlagsOK'
  BY Zenon DEF FlagsOK
<1>3. PartsOK'
  BY DEF PartsOK, Handled
<1>4. TablesOK' /\ TablesInv'
  BY DEF TablesOK, TablesInv, Names
<1>5. DeviceInv' /\ HooksInv'
  BY DEF ControlOK, HistoryOK, DeviceInv, HooksInv, HookedPcs, FailuresInv, Reached
<1>6. EnginesInv'
  BY EngineFacts DEF ControlOK, PartsOK, EnginesInv, UpPcs, FailuresInv, Failures
<1>7. HandlersInv'
  BY ExceptionFacts DEF ControlOK, HandlersInv, ServingPcs, Handled
<1>8. HistoryOK' /\ FailuresInv'
  BY DEF ControlOK, HistoryOK, FailuresInv, Failures, HookedPcs
<1> QED
  BY <1>1, <1>2, <1>3, <1>4, <1>5, <1>6, <1>7, <1>8

\* The services remembered are the processor's unless CpuInit has failed before.
LEMMA EfiHooksInitInv == Inv /\ EfiHooksInit => Inv'
<1> SUFFICES ASSUME Inv, EfiHooksInit PROVE Inv'
  OBVIOUS
<1> USE DEF Inv, TypeOK, EfiHooksInit, Step, Go, Again, tables
<1>1. ControlOK' /\ InLoop' /\ Serving'
  BY EngineFacts, ExceptionFacts, DriverAssumption DEF ControlOK, Pcs, InLoop, Serving, ServingPcs
<1>2. FlagsOK'
  BY Zenon DEF FlagsOK
<1>3. PartsOK'
  BY DEF PartsOK, Handled
<1>4. TablesOK' /\ TablesInv'
  BY DEF TablesOK, TablesInv, Names
<1>5. DeviceInv' /\ HooksInv'
  BY DEF PartsOK, DeviceInv, HooksInv, HookedPcs, FailuresInv, Reached
<1>6. EnginesInv'
  BY EngineFacts DEF ControlOK, PartsOK, EnginesInv, UpPcs, FailuresInv, Failures
<1>7. HandlersInv'
  BY ExceptionFacts DEF ControlOK, HandlersInv, ServingPcs, Handled
<1>8. HistoryOK' /\ FailuresInv'
  BY DEF ControlOK, HistoryOK, FailuresInv, Failures, HookedPcs
<1> QED
  BY <1>1, <1>2, <1>3, <1>4, <1>5, <1>6, <1>7, <1>8

\* The private stack opens no engine.
LEMMA CpuPrivateStackInitInv == Inv /\ CpuPrivateStackInit => Inv'
<1> SUFFICES ASSUME Inv, CpuPrivateStackInit PROVE Inv'
  OBVIOUS
<1> USE DEF Inv, TypeOK, CpuPrivateStackInit, Step, Go, Again, CpuInitFails, parts, tables
<1>1. ControlOK' /\ InLoop' /\ Serving'
  BY EngineFacts, ExceptionFacts, DriverAssumption DEF ControlOK, Pcs, InLoop, Serving, ServingPcs
<1>2. FlagsOK'
  BY Zenon DEF FlagsOK
<1>3. PartsOK'
  BY DEF PartsOK, Handled
<1>4. TablesOK' /\ TablesInv'
  BY DEF TablesOK, TablesInv, Names
<1>9. HooksInv'
  <2>1. service = "hook" /\ real = Reached /\ UNCHANGED <<service, real, starts>>
    BY DEF HooksInv, HookedPcs
  <2>2. real = "hook" => \E n \in cpuFailed' : n < starts'
    BY <2>1 DEF HooksInv, CpuInitFails
  <2>3. CASE cpuFailed' = cpuFailed /\ pc' \in HookedPcs
    BY <2>1, <2>2, <2>3 DEF HooksInv, Reached
  <2>4. CASE cpuFailed' = cpuFailed \cup {starts} /\ pc' = "close"
    BY <2>1, <2>2, <2>4 DEF HooksInv, HookedPcs, Reached
  <2>5. pc' \in HookedPcs \/ pc' = "close"
    BY DEF HookedPcs, CpuInitFails
  <2> QED
    BY <2>3, <2>4, <2>5 DEF HookedPcs, CpuInitFails
<1>5. DeviceInv' /\ HooksInv'
  <2>1. UNCHANGED <<device, binding>> /\ pc \in {"stack", "engine"} /\ pc' \in HookedPcs \cup {"close"}
    BY DEF HookedPcs, CpuInitFails
  <2> QED
    BY <1>9, <2>1 DEF DeviceInv, HookedPcs
<1>6. EnginesInv'
  <2>1. CASE cpuFailed' = cpuFailed /\ pc' = "engine"
    BY <2>1, EngineFacts DEF EnginesInv, UpPcs, FailuresInv, Failures
  <2>2. CASE CpuInitFails
    <3>1. Failures' = Failures + 1 /\ Failures \in Nat /\ pc' = "close" /\ open' = open
      BY <2>2, FailsOnce DEF CpuInitFails, FailuresInv
    <3> QED
      BY <3>1 DEF EnginesInv, UpPcs
  <2> QED
    BY <2>1, <2>2
<1>7. HandlersInv'
  BY ExceptionFacts DEF ControlOK, HandlersInv, ServingPcs, Handled
<1>8. HistoryOK' /\ FailuresInv'
  <2>1. CASE cpuFailed' = cpuFailed
    BY <2>1 DEF ControlOK, HistoryOK, FailuresInv, Failures, HookedPcs
  <2>2. CASE CpuInitFails
    BY <2>2, FailsOnce
  <2> QED
    BY <2>1, <2>2
<1> QED
  BY <1>1, <1>2, <1>3, <1>4, <1>5, <1>6, <1>7, <1>8

\* Engine after engine is opened, at most once in this start.
LEMMA CpuInitExInv == Inv /\ CpuInitEx => Inv'
<1> SUFFICES ASSUME Inv, CpuInitEx PROVE Inv'
  OBVIOUS
<1> USE DEF Inv, TypeOK, CpuInitEx, Step, Go, Again, CpuInitFails, tables
<1>1. ControlOK' /\ InLoop' /\ Serving'
  <2>1. /\ pc = "engine" /\ k \in 1..Len(Engines)
        /\ \/ pc' = "engine" /\ k' = k + 1 /\ k < Len(Engines)
           \/ pc' \in {"arch", "close"} /\ k' = 1
        /\ UNCHANGED <<starts, host, protocols>>
    BY DEF InLoop
  <2> QED
    BY <2>1, EngineFacts, ExceptionFacts DEF ControlOK, Pcs, InLoop, Serving, ServingPcs
<1>2. FlagsOK'
  BY Zenon DEF FlagsOK
<1>3. PartsOK'
  <2>1. /\ \/ open' = [open EXCEPT ![Engines[k]] = @ + 1]
           \/ open' = open
        /\ UNCHANGED <<service, real, handlers, protocols, host>>
    OBVIOUS
  <2>2. Engines[k] \in Cpus /\ open[Engines[k]] + 1 \in 0..MaxStarts
    <3>1. k \in 1..Len(Engines) /\ Engines[k] \in Cpus /\ MaxStarts \in Nat /\ starts \in 0..MaxStarts
      BY EngineFacts, DriverAssumption DEF ControlOK, InLoop
    <3>2. open[Engines[k]] \in 0..(starts - 1)
      BY <3>1 DEF EnginesInv, FailuresInv, HookedPcs
    <3> QED
      BY <3>1, <3>2
  <2> QED
    BY <2>1, <2>2 DEF PartsOK, Handled
<1>4. TablesOK' /\ TablesInv'
  BY DEF TablesOK, TablesInv, Names
<1>9. HooksInv'
  <2>1. service = "hook" /\ real = Reached /\ UNCHANGED <<service, real, starts>>
    BY DEF HooksInv, HookedPcs
  <2>2. real = "hook" => \E n \in cpuFailed' : n < starts'
    BY <2>1 DEF HooksInv, CpuInitFails
  <2>3. CASE cpuFailed' = cpuFailed /\ pc' \in HookedPcs
    BY <2>1, <2>2, <2>3 DEF HooksInv, Reached
  <2>4. CASE cpuFailed' = cpuFailed \cup {starts} /\ pc' = "close"
    BY <2>1, <2>2, <2>4 DEF HooksInv, HookedPcs, Reached
  <2>5. pc' \in HookedPcs \/ pc' = "close"
    BY DEF HookedPcs, CpuInitFails
  <2> QED
    BY <2>3, <2>4, <2>5 DEF HookedPcs, CpuInitFails
<1>5. DeviceInv' /\ HooksInv'
  <2>1. UNCHANGED <<device, binding>> /\ pc \in {"stack", "engine"} /\ pc' \in HookedPcs \cup {"close"}
    BY DEF HookedPcs, CpuInitFails
  <2> QED
    BY <1>9, <2>1 DEF DeviceInv, HookedPcs
<1>6. EnginesInv'
  <2>1. /\ pc = "engine" /\ k \in 1..Len(Engines) /\ Engines[k] \in Cpus /\ Failures \in Nat
        /\ open \in [Cpus -> Nat] /\ open[Engines[k]] \in 0..Failures
        /\ \A n \in 1..Len(Engines) :
             open[Engines[n]] \in (IF n < k THEN 1..(Failures + 1) ELSE 0..Failures)
    BY EngineFacts DEF InLoop, PartsOK, EnginesInv, FailuresInv
  <2>2. CASE /\ open' = [open EXCEPT ![Engines[k]] = @ + 1] /\ cpuFailed' = cpuFailed
             /\ IF k < Len(Engines) THEN pc' = "engine" /\ k' = k + 1 ELSE pc' = "arch"
    <3>1. Failures' = Failures
      BY <2>2 DEF Failures
    <3>2. \A n \in 1..Len(Engines) :
            open'[Engines[n]] \in (IF n < k + 1 THEN 1..(Failures + 1) ELSE 0..Failures)
      BY <2>1, <2>2, EngineFacts
    <3>3. CASE pc' = "engine" /\ k' = k + 1
      BY <3>1, <3>2, <3>3 DEF EnginesInv, UpPcs
    <3>4. CASE pc' = "arch" /\ k >= Len(Engines)
      <4>1. \A p \in Cpus : open'[p] \in 1..(Failures + 1)
        <5>1. \A n \in 1..Len(Engines) : n < k + 1
          BY <2>1, <3>4
        <5>2. \A n \in 1..Len(Engines) : open'[Engines[n]] \in 1..(Failures + 1)
          BY <3>2, <5>1
        <5> QED
          BY <5>2, EngineFacts
      <4> QED
        BY <3>1, <3>4, <4>1 DEF EnginesInv, UpPcs
    <3> QED
      BY <2>1, <2>2, <3>3, <3>4, EngineFacts
  <2>3. CASE (open' = [open EXCEPT ![Engines[k]] = @ + 1] \/ open' = open) /\ CpuInitFails
    <3>1. pc' = "close" /\ Failures' = Failures + 1
      BY <2>1, <2>3, FailsOnce DEF CpuInitFails
    <3>2. \A n \in 1..Len(Engines) : open'[Engines[n]] \in 0..(Failures + 1)
      <4>1. \A p \in Cpus : open'[p] = open[p] \/ (p = Engines[k] /\ open'[p] = open[p] + 1)
        BY <2>1, <2>3
      <4>2. \A n \in 1..Len(Engines) : Engines[n] \in Cpus /\ open[Engines[n]] \in 0..(Failures + 1)
        BY <2>1, EngineFacts
      <4> QED
        BY <2>1, <4>1, <4>2
    <3>3. \A p \in Cpus : open'[p] \in 0..(Failures + 1)
      BY <3>2, EngineFacts
    <3> QED
      BY <3>1, <3>3 DEF EnginesInv, UpPcs
  <2> QED
    BY <2>2, <2>3
<1>7. HandlersInv'
  BY ExceptionFacts DEF ControlOK, HandlersInv, ServingPcs, Handled
<1>8. HistoryOK' /\ FailuresInv'
  <2>1. CASE cpuFailed' = cpuFailed
    BY <2>1 DEF ControlOK, HistoryOK, FailuresInv, Failures, HookedPcs
  <2>2. CASE CpuInitFails
    BY <2>2, FailsOnce
  <2> QED
    BY <2>1, <2>2
<1> QED
  BY <1>1, <1>2, <1>3, <1>4, <1>5, <1>6, <1>7, <1>8

\* Handler after handler is registered, or those there are removed again.
LEMMA ArchInitInv == Inv /\ ArchInit => Inv'
<1> SUFFICES ASSUME Inv, ArchInit PROVE Inv'
  OBVIOUS
<1> USE DEF Inv, TypeOK, ArchInit, Step, Go, Again, tables
<1>1. ControlOK' /\ InLoop' /\ Serving'
  <2>1. /\ pc = "arch" /\ k \in 1..Len(Exceptions[host])
        /\ \/ pc' = "arch" /\ k' = k + 1 /\ k # Len(Exceptions[host])
           \/ pc' \in {"protocol", "undoengines"} /\ k' = 1
        /\ UNCHANGED <<starts, host, protocols>>
    BY DEF InLoop
  <2> QED
    BY <2>1, EngineFacts, ExceptionFacts DEF ControlOK, Pcs, InLoop, Serving, ServingPcs
<1>2. FlagsOK'
  BY Zenon DEF FlagsOK
<1>3. PartsOK'
  <2>1. /\ handlers' \subseteq handlers \cup {Exceptions[host][k]}
        /\ UNCHANGED <<service, real, open, protocols, host>>
    OBVIOUS
  <2>2. Exceptions[host][k] \in Handled
    BY ExceptionFacts DEF ControlOK, InLoop, Handled
  <2> QED
    BY <2>1, <2>2 DEF PartsOK, Handled
<1>4. TablesOK' /\ TablesInv'
  BY DEF TablesOK, TablesInv, Names
<1>5. DeviceInv' /\ HooksInv'
  BY DEF DeviceInv, HooksInv, HookedPcs, Reached
<1>6. EnginesInv'
  BY EngineFacts DEF ControlOK, PartsOK, EnginesInv, UpPcs, FailuresInv, Failures
<1>7. HandlersInv'
  <2> DEFINE Given(n) == {Exceptions[host][m] : m \in 1..n}
  <2>1. /\ pc = "arch" /\ k \in 1..Len(Exceptions[host]) /\ host' = host /\ host \in Hosts
        /\ Len(Exceptions[host]) \in Nat \ {0} /\ Handled = Given(Len(Exceptions[host]))
        /\ host \in Undoes => handlers = Given(k - 1)
    BY ExceptionFacts DEF ControlOK, InLoop, HandlersInv, Handled
  <2>2. CASE /\ handlers' = handlers \cup {Exceptions[host][k]}
             /\ IF k = Len(Exceptions[host]) THEN pc' = "protocol" ELSE pc' = "arch" /\ k' = k + 1
    <3>1. Given(k - 1) \cup {Exceptions[host][k]} = Given(k)
      BY <2>1
    <3> QED
      BY <2>1, <2>2, <3>1 DEF HandlersInv, ServingPcs, Handled
  <2>3. CASE /\ handlers' = IF host \in Undoes THEN handlers \ Given(k - 1) ELSE handlers
             /\ IF host \in Undoes THEN pc' = "undoengines" ELSE pc' \in {"arch", "undoengines"}
    BY <2>1, <2>3 DEF HandlersInv, ServingPcs
  <2> QED
    BY <2>1, <2>2, <2>3
<1>8. HistoryOK' /\ FailuresInv'
  BY DEF ControlOK, HistoryOK, FailuresInv, Failures, HookedPcs
<1> QED
  BY <1>1, <1>2, <1>3, <1>4, <1>5, <1>6, <1>7, <1>8

\* Protocols come when everything else is up.
LEMMA InstallEmulatorProtocolInv == Inv /\ InstallEmulatorProtocol => Inv'
<1> SUFFICES ASSUME Inv, InstallEmulatorProtocol PROVE Inv'
  OBVIOUS
<1> USE DEF Inv, TypeOK, InstallEmulatorProtocol, Step, Go, Again, tables
<1>1. ControlOK' /\ InLoop' /\ Serving'
  <2>1. /\ pc = "protocol" /\ k \in 1..Len(Engines)
        /\ \/ pc' = "protocol" /\ k' = k + 1 /\ k < Len(Engines)
           \/ pc' \in {"test", "undoprotocols"} /\ k' = 1
        /\ UNCHANGED <<starts, host>>
    BY DEF InLoop
  <2> QED
    BY <2>1, EngineFacts, ExceptionFacts DEF ControlOK, Pcs, InLoop, Serving, ServingPcs
<1>2. FlagsOK'
  BY Zenon DEF FlagsOK
<1>3. PartsOK'
  BY EngineFacts DEF PartsOK, Handled, InLoop
<1>4. TablesOK' /\ TablesInv'
  BY DEF TablesOK, TablesInv, Names
<1>5. DeviceInv' /\ HooksInv'
  BY DEF DeviceInv, HooksInv, HookedPcs, Reached
<1>6. EnginesInv'
  BY EngineFacts DEF ControlOK, PartsOK, EnginesInv, UpPcs, FailuresInv, Failures
<1>7. HandlersInv'
  BY ExceptionFacts DEF ControlOK, HandlersInv, ServingPcs, Handled
<1>8. HistoryOK' /\ FailuresInv'
  BY DEF ControlOK, HistoryOK, FailuresInv, Failures, HookedPcs
<1> QED
  BY <1>1, <1>2, <1>3, <1>4, <1>5, <1>6, <1>7, <1>8

\* The test protocol is the last part.
LEMMA TestProtocolInitInv == Inv /\ TestProtocolInit => Inv'
<1> SUFFICES ASSUME Inv, TestProtocolInit PROVE Inv'
  OBVIOUS
<1> USE DEF Inv, TypeOK, TestProtocolInit, Step, Go, Again, parts, tables
<1>1. ControlOK' /\ InLoop' /\ Serving'
  BY EngineFacts, ExceptionFacts, DriverAssumption DEF ControlOK, Pcs, InLoop, Serving, ServingPcs
<1>2. FlagsOK'
  BY Zenon DEF FlagsOK
<1>3. PartsOK'
  BY DEF PartsOK, Handled
<1>4. TablesOK' /\ TablesInv'
  BY DEF TablesOK, TablesInv, Names
<1>5. DeviceInv' /\ HooksInv'
  BY DEF DeviceInv, HooksInv, HookedPcs, Reached
<1>6. EnginesInv'
  BY EngineFacts DEF ControlOK, PartsOK, EnginesInv, UpPcs, FailuresInv, Failures
<1>7. HandlersInv'
  BY ExceptionFacts DEF ControlOK, HandlersInv, ServingPcs, Handled
<1>8. HistoryOK' /\ FailuresInv'
  BY DEF ControlOK, HistoryOK, FailuresInv, Failures, HookedPcs
<1> QED
  BY <1>1, <1>2, <1>3, <1>4, <1>5, <1>6, <1>7, <1>8

\* Undoing starts with the protocols.
LEMMA UninstallProtocolsInv == Inv /\ UninstallProtocols => Inv'
<1> SUFFICES ASSUME Inv, UninstallProtocols PROVE Inv'
  OBVIOUS
<1> USE DEF Inv, TypeOK, UninstallProtocols, Step, Go, Again, tables
<1>1. ControlOK' /\ InLoop' /\ Serving'
  BY EngineFacts, ExceptionFacts, DriverAssumption DEF ControlOK, Pcs, InLoop, Serving, ServingPcs
<1>2. FlagsOK'
  BY Zenon DEF FlagsOK
<1>3. PartsOK'
  BY DEF PartsOK, Handled
<1>4. TablesOK' /\ TablesInv'
  BY DEF TablesOK, TablesInv, Names
<1>5. DeviceInv' /\ HooksInv'
  BY DEF DeviceInv, HooksInv, HookedPcs, Reached
<1>6. EnginesInv'
  BY EngineFacts DEF ControlOK, PartsOK, EnginesInv, UpPcs, FailuresInv, Failures
<1>7. HandlersInv'
  BY ExceptionFacts DEF ControlOK, HandlersInv, ServingPcs, Handled
<1>8. HistoryOK' /\ FailuresInv'
  BY DEF ControlOK, HistoryOK, FailuresInv, Failures, HookedPcs
<1> QED
  BY <1>1, <1>2, <1>3, <1>4, <1>5, <1>6, <1>7, <1>8

\* Then the handlers go.
LEMMA ArchCleanupInv == Inv /\ ArchCleanup => Inv'
<1> SUFFICES ASSUME Inv, ArchCleanup PROVE Inv'
  OBVIOUS
<1> USE DEF Inv, TypeOK, ArchCleanup, Step, Go, Again, tables
<1>1. ControlOK' /\ InLoop' /\ Serving'
  BY EngineFacts, ExceptionFacts, DriverAssumption DEF ControlOK, Pcs, InLoop, Serving, ServingPcs
<1>2. FlagsOK'
  BY Zenon DEF FlagsOK
<1>3. PartsOK'
  BY DEF PartsOK, Handled
<1>4. TablesOK' /\ TablesInv'
  BY DEF TablesOK, TablesInv, Names
<1>5. DeviceInv' /\ HooksInv'
  BY DEF DeviceInv, HooksInv, HookedPcs, Reached
<1>6. EnginesInv'
  BY EngineFacts DEF ControlOK, PartsOK, EnginesInv, UpPcs, FailuresInv, Failures
<1>7. HandlersInv'
  BY ExceptionFacts DEF ControlOK, HandlersInv, ServingPcs, Handled
<1>8. HistoryOK' /\ FailuresInv'
  BY DEF ControlOK, HistoryOK, FailuresInv, Failures, HookedPcs
<1> QED
  BY <1>1, <1>2, <1>3, <1>4, <1>5, <1>6, <1>7, <1>8

\* Then the engines, each of which has been opened.
LEMMA CpuCleanupInv == Inv /\ CpuCleanup => Inv'
<1> SUFFICES ASSUME Inv, CpuCleanup PROVE Inv'
  OBVIOUS
<1> USE DEF Inv, TypeOK, CpuCleanup, Step, Go, Again, tables
<1>1. ControlOK' /\ InLoop' /\ Serving'
  BY EngineFacts, ExceptionFacts, DriverAssumption DEF ControlOK, Pcs, InLoop, Serving, ServingPcs
<1>2. FlagsOK'
  BY Zenon DEF FlagsOK
<1>3. PartsOK'
  <2>1. \A p \in Cpus : open[p] \in 1..MaxStarts /\ open[p] - 1 \in 0..MaxStarts
    BY DriverAssumption DEF PartsOK, EnginesInv, UpPcs
  <2>2. open' \in [Cpus -> 0..MaxStarts]
    BY <2>1
  <2> QED
    BY <2>2 DEF PartsOK, Handled
<1>4. TablesOK' /\ TablesInv'
  BY DEF TablesOK, TablesInv, Names
<1>5. DeviceInv' /\ HooksInv'
  BY DEF DeviceInv, HooksInv, HookedPcs, Reached
<1>6. EnginesInv'
  BY EngineFacts DEF ControlOK, PartsOK, EnginesInv, UpPcs, FailuresInv, Failures
<1>7. HandlersInv'
  BY ExceptionFacts DEF ControlOK, HandlersInv, ServingPcs, Handled
<1>8. HistoryOK' /\ FailuresInv'
  BY DEF ControlOK, HistoryOK, FailuresInv, Failures, HookedPcs
<1> QED
  BY <1>1, <1>2, <1>3, <1>4, <1>5, <1>6, <1>7, <1>8

\* Then the hooks: the services are what they were at EfiHooksInit.
LEMMA EfiHooksCleanupInv == Inv /\ EfiHooksCleanup => Inv'
<1> SUFFICES ASSUME Inv, EfiHooksCleanup PROVE Inv'
  OBVIOUS
<1> USE DEF Inv, TypeOK, EfiHooksCleanup, Step, Go, Again, tables
<1>1. ControlOK' /\ InLoop' /\ Serving'
  BY EngineFacts, ExceptionFacts, DriverAssumption DEF ControlOK, Pcs, InLoop, Serving, ServingPcs
<1>2. FlagsOK'
  BY Zenon DEF FlagsOK
<1>3. PartsOK'
  BY DEF PartsOK, Handled, HooksInv, HookedPcs, Reached
<1>4. TablesOK' /\ TablesInv'
  BY DEF TablesOK, TablesInv, Names
<1>5. DeviceInv' /\ HooksInv'
  BY DEF PartsOK, DeviceInv, HooksInv, HookedPcs, FailuresInv, Reached
<1>6. EnginesInv'
  BY EngineFacts DEF ControlOK, PartsOK, EnginesInv, UpPcs, FailuresInv, Failures
<1>7. HandlersInv'
  BY ExceptionFacts DEF ControlOK, HandlersInv, ServingPcs, Handled
<1>8. HistoryOK' /\ FailuresInv'
  BY DEF ControlOK, HistoryOK, FailuresInv, Failures, HookedPcs
<1> QED
  BY <1>1, <1>2, <1>3, <1>4, <1>5, <1>6, <1>7, <1>8

\* The device is closed last, and may be started again.
LEMMA CloseProtocolInv == Inv /\ CloseProtocol => Inv'
<1> SUFFICES ASSUME Inv, CloseProtocol PROVE Inv'
  OBVIOUS
<1> USE DEF Inv, TypeOK, CloseProtocol, Step, Go, Again, tables
<1>1. ControlOK' /\ InLoop' /\ Serving'
  BY EngineFacts, ExceptionFacts, DriverAssumption DEF ControlOK, Pcs, InLoop, Serving, ServingPcs
<1>2. FlagsOK'
  BY Zenon DEF FlagsOK
<1>3. PartsOK'
  BY DEF PartsOK, Handled
<1>4. TablesOK' /\ TablesInv'
  BY DEF TablesOK, TablesInv, Names
<1>5. DeviceInv' /\ HooksInv'
  BY DEF DeviceInv, HooksInv, HookedPcs, Reached
<1>6. EnginesInv'
  BY EngineFacts DEF ControlOK, PartsOK, EnginesInv, UpPcs, FailuresInv, Failures
<1>7. HandlersInv'
  BY ExceptionFacts DEF ControlOK, HandlersInv, ServingPcs, Handled
<1>8. HistoryOK' /\ FailuresInv'
  BY DEF ControlOK, HistoryOK, FailuresInv, Failures, HookedPcs
<1> QED
  BY <1>1, <1>2, <1>3, <1>4, <1>5, <1>6, <1>7, <1>8

\* One case per action of the driver, the library and the images it serves.
LEMMA NextInv == Inv /\ [Next]_vars => Inv'
<1>1. ASSUME Inv, UNCHANGED vars PROVE Inv'
  <2> USE <1>1 DEF Inv, TypeOK, vars, parts, tables
  <2>1. ControlOK' /\ InLoop' /\ Serving'
    BY DEF ControlOK, InLoop, Serving
  <2>2. FlagsOK'
    BY Zenon DEF FlagsOK
  <2>3. PartsOK' /\ TablesOK' /\ TablesInv'
    BY DEF PartsOK, Handled, TablesOK, TablesInv
  <2>4. DeviceInv' /\ HooksInv' /\ HistoryOK' /\ FailuresInv'
    BY DEF DeviceInv, HooksInv, Reached, HistoryOK, FailuresInv, Failures
  <2>5. EnginesInv' /\ HandlersInv'
    BY DEF EnginesInv, Failures, HandlersInv, Handled
  <2> QED
    BY <2>1, <2>2, <2>3, <2>4, <2>5
<1>2. ASSUME Inv, DriverStop PROVE Inv'
  BY <1>1, <1>2 DEF DriverStop
<1> QED
  BY <1>1, <1>2, AllocateTableInv, LibraryConstructorsInv, EntryFailedInv,
     ImageReplacesServicesInv, LocateProtocolsInv, InstallDeviceInv,
     InstallBindingInv, DriverStartInv, EfiHooksInitInv, CpuPrivateStackInitInv,
     CpuInitExInv, ArchInitInv, InstallEmulatorProtocolInv, TestProtocolInitInv,
     UninstallProtocolsInv, ArchCleanupInv, CpuCleanupInv, EfiHooksCleanupInv,
     CloseProtocolInv DEF Next

\* The inductive invariant holds in every state of the driver's life.
THEOREM Invariance == Spec => []Inv
  BY InitInv, NextInv, PTL DEF Spec

-----------------------------------------------------------------------------
(* The properties of the run Driver.                                       *)

\* Every variable keeps its type, for any number of starts.
THEOREM TypeCorrect == Spec => []TypeOK
<1>1. Inv => TypeOK
  BY DEF Inv
<1> QED
  BY <1>1, Invariance, PTL

\* A failed EmulatorStart leaves nothing behind and a successful one has
\* opened each engine once; what a failed CpuInit leaves (Emulator.c:108) is
\* the hooks, and each engine open once at most.
THEOREM NothingLeftBehind == Spec => []AllOrNothing
<1>1. Inv => AllOrNothing
  <2> SUFFICES ASSUME Inv PROVE AllOrNothing
    OBVIOUS
  <2> USE DEF Inv
  <2>1. pc \in {"failed", "unloaded"} => ~device /\ ~binding
    BY DEF DeviceInv
  <2>2. pc = "idle" => (service = "hook" <=> cpuFailed # {})
    BY DEF HooksInv, HookedPcs, Reached
  <2>3. pc = "idle" => protocols = {} /\ (host \in Undoes => handlers = {})
    BY DEF Serving, ServingPcs, HandlersInv
  <2>4. Cardinality(cpuFailed) \in Nat
    BY DEF FailuresInv, Failures
  <2>5. pc = "idle" => \A p \in Cpus : open[p] <= Cardinality(cpuFailed)
    BY <2>4 DEF EnginesInv, UpPcs, Failures
  <2>6. pc = "started" => \A p \in Cpus : open[p] \in 1..(Cardinality(cpuFailed) + 1)
    BY DEF EnginesInv, UpPcs, Failures
  <2> QED
    BY <2>1, <2>2, <2>3, <2>5, <2>6 DEF AllOrNothing
<1> QED
  BY <1>1, Invariance, PTL

\* The core hands images over only while hooks, engines and exception handlers
\* are in place (Emulator.c:157): also while a start fails and is undone.
THEOREM ServedWhenUp == Spec => []ServedOnlyWhenUp
<1>1. Inv => ServedOnlyWhenUp
  BY DEF Inv, ServedOnlyWhenUp, HooksInv, HookedPcs, Serving, ServingPcs, EnginesInv, UpPcs,
         HandlersInv, Last
<1> QED
  BY <1>1, Invariance, PTL

\* The hooks take themselves for the processor's services (EfiHooks.c:86-95)
\* only in starts after one whose CpuInit failed.
THEOREM HooksLeadOn == Spec => []HooksReachProcessor
<1>1. Inv => HooksReachProcessor
  BY DEF Inv, HooksReachProcessor, HooksInv
<1> QED
  BY <1>1, Invariance, PTL

\* No code of the driver runs on services that an emulated image replaced
\* (DriverEntryPoint.c:3-5).
THEOREM TablesStayFirmware == Spec => []TablesServeDriver
<1>1. Inv => TablesServeDriver
  BY DEF Inv, TablesServeDriver, Served, TablesInv, DeviceInv, Serving, ServingPcs
<1> QED
  BY <1>1, Invariance, PTL

=============================================================================
