-------------------------------- MODULE Images --------------------------------
(***************************************************************************)
(* The registry of emulated images (Drivers/Emulator/Image.c, with the     *)
(* code ranges and the entry and exit of images of Cpu.c).                 *)
(*                                                                         *)
(* The loader of the DXE core hands every foreign image to the emulator,   *)
(* which makes a record of it, lets the engine of its machine execute its  *)
(* range and forbids that to the host processor.  The registry then        *)
(* answers which code is emulated and by which engine, and which running   *)
(* image a handle passed to gBS->Exit belongs to.                          *)
(*                                                                         *)
(* Record memory comes from AllocatePool, which does not clear it: the     *)
(* ImageHandle of a record is anything until its image is started.         *)
(***************************************************************************)
EXTENDS Integers, SequencesExt

CONSTANTS
  Cpus,         \* CpuContexts, one per machine type
  Ranges,       \* where the loader puts images
  Records,      \* blocks of pool memory for ImageRecords
  Handles,      \* image handles, used again once an image is unloaded
  ZeroPage,     \* the page at address 0, where no image is
  NoRecord,     \* NULL
  NoHandle,     \* a value that is no image's handle
  NoImage       \* nothing emulated is loaded

ASSUME ImagesAssumption ==
  /\ Cpus # {} /\ Ranges # {}
  /\ NoRecord \notin Records /\ NoHandle \notin Handles /\ ZeroPage \notin Ranges
  /\ NoImage \notin [cpu : Cpus, handle : Handles]

VARIABLES
  imageList,  \* mImageList
  record,     \* contents of the records: range, cpu, handle
  loaded,     \* the loader's view: cpu and handle of the image in a range
  exec,       \* ranges that may be executed in each engine
  noexec,     \* ranges the host may not execute
  tbs,        \* ranges each engine has translated code of
  started,    \* running images, innermost last: range, and CpuRunImage's Record
  refused,    \* the running image's call of Exit was refused
  failed,     \* history: ranges where a registration failed
  unset       \* history: records whose ImageHandle is what the memory held

vars == <<imageList, record, loaded, exec, noexec, tbs, started, refused, failed, unset>>

Listed == Range(imageList)
LoadedRanges == {s \in Ranges : loaded[s] # NoImage}

TypeOK ==
  /\ imageList \in Seq(Records)
  /\ record \in [Records -> [range : Ranges, cpu : Cpus, handle : Handles \cup {NoHandle}]]
  /\ loaded \in [Ranges -> [cpu : Cpus, handle : Handles] \cup {NoImage}]
  /\ exec \in [Cpus -> SUBSET Ranges] /\ noexec \subseteq Ranges
  /\ tbs \in [Cpus -> SUBSET Ranges]
  /\ started \in Seq([range : Ranges, record : Records])
  /\ refused \in BOOLEAN
  /\ failed \subseteq Ranges /\ unset \subseteq Records

Init ==
  /\ imageList = <<>>
  /\ record = [r \in Records |-> [range |-> CHOOSE s \in Ranges : TRUE,
                                 cpu |-> CHOOSE p \in Cpus : TRUE, handle |-> NoHandle]]
  /\ loaded = [s \in Ranges |-> NoImage]
  /\ exec = [p \in Cpus |-> {}] /\ noexec = {}
  /\ tbs = [p \in Cpus |-> {}]
  /\ started = <<>>
  /\ refused = FALSE /\ failed = {} /\ unset = {}

-----------------------------------------------------------------------------
(* Looking records up: the first one on the list wins.                     *)
First(I) == IF I = {} THEN 0 ELSE CHOOSE n \in I : \A m \in I : n <= m
Node(n) == IF n = 0 THEN NoRecord ELSE imageList[n]

AddressNode(s) == First({n \in DOMAIN imageList : record[imageList[n]].range = s})
HandleNode(h) == First({n \in DOMAIN imageList : record[imageList[n]].handle = h})

ImageFindByAddress(s) == Node(AddressNode(s))
ImageFindByHandle(h) == Node(HandleNode(h))

\* An address: the range or page it is in, and whether the host's instructions
\* may be there (NATIVE_INSN_ALIGNMENT).
Addresses == [place : Ranges \cup {ZeroPage}, aligned : BOOLEAN]

\* What the JIT takes for native code: nothing that is not aligned, and the
\* page at 0, so that the call through NULL is seen and refused.
EmulatorIsNativeCall(a) ==
  /\ a.aligned
  /\ a.place = ZeroPage \/ ImageFindByAddress(a.place) = NoRecord

-----------------------------------------------------------------------------
(* Loading and unloading.                                                  *)

\* Allocating a record and filling it in; ImageHandle is not among the
\* fields that are, and stays whatever the memory holds.
NewRecord(r, s, p) ==
  /\ r \notin Listed
  /\ \E junk \in Handles \cup {NoHandle} :
       record' = [record EXCEPT ![r] = [range |-> s, cpu |-> p, handle |-> junk]]
  /\ unset' = unset \cup {r}
  /\ imageList' = Append(imageList, r)
  /\ exec' = [exec EXCEPT ![p] = @ \cup {s}]

\* LoadImage calls ImageProtocolRegister.  The image's handle is made by the
\* loader, and the code is the emulator's to find by address from now on.
ImageProtocolRegister ==
  /\ \E s \in Ranges, p \in Cpus, r \in Records, h \in Handles :
       /\ loaded[s] = NoImage
       /\ \A q \in LoadedRanges : loaded[q].handle # h
       /\ NewRecord(r, s, p)
       /\ noexec' = noexec \cup {s}
       /\ loaded' = [loaded EXCEPT ![s] = [cpu |-> p, handle |-> h]]
  /\ UNCHANGED <<tbs, started, refused, failed>>

\* The host's protection cannot be set: an error is returned with the record
\* on the list, and the loader takes the memory back.
RegisterFails ==
  /\ \E s \in Ranges, p \in Cpus, r \in Records :
       loaded[s] = NoImage /\ NewRecord(r, s, p) /\ failed' = failed \cup {s}
  /\ UNCHANGED <<loaded, noexec, tbs, started, refused>>

Running(s) == \E n \in DOMAIN started : started[n].range = s

\* Mutant: translated code is kept.
UnregisterKeepsCode ==
  /\ \E s \in LoadedRanges :
       /\ ~Running(s)
       /\ LET r == ImageFindByAddress(s)
              p == record[r].cpu IN
          /\ exec' = [exec EXCEPT ![p] = @ \ {s}]
          /\ imageList' = RemoveAt(imageList, AddressNode(s))
       /\ noexec' = noexec \ {s}
       /\ loaded' = [loaded EXCEPT ![s] = NoImage]
  /\ UNCHANGED <<record, tbs, started, refused, failed, unset>>

\* Mutant: the newest record is removed, whichever range it is for.
UnregisterNewest ==
  /\ \E s \in LoadedRanges :
       /\ ~Running(s)
       /\ LET r == Last(imageList)
              p == record[r].cpu IN
          /\ exec' = [exec EXCEPT ![p] = @ \ {s}]
          /\ tbs' = [tbs EXCEPT ![p] = @ \ {s}]
          /\ imageList' = RemoveAt(imageList, Len(imageList))
       /\ noexec' = noexec \ {s}
       /\ loaded' = [loaded EXCEPT ![s] = NoImage]
  /\ UNCHANGED <<record, started, refused, failed, unset>>

\* UnloadImage, or the end of an application, calls ImageProtocolUnregister:
\* CpuUnregisterCodeRange forgets the translated code, and the record goes.
ImageProtocolUnregister ==
  /\ \E s \in LoadedRanges :
       /\ ~Running(s)
       /\ LET r == ImageFindByAddress(s)
              p == record[r].cpu IN
          /\ exec' = [exec EXCEPT ![p] = @ \ {s}]
          /\ tbs' = [tbs EXCEPT ![p] = @ \ {s}]
          /\ imageList' = RemoveAt(imageList, AddressNode(s))
       /\ noexec' = noexec \ {s}
       /\ loaded' = [loaded EXCEPT ![s] = NoImage]
  /\ UNCHANGED <<record, started, refused, failed, unset>>

-----------------------------------------------------------------------------
(* Running images.                                                         *)

\* Mutant: the image's handle is not recorded.
StartImageNoHandle ==
  /\ \E s \in LoadedRanges :
       /\ ~Running(s)
       /\ started' = Append(started, [range |-> s, record |-> ImageFindByAddress(s)])
  /\ refused' = FALSE
  /\ UNCHANGED <<imageList, record, loaded, exec, noexec, tbs, failed, unset>>

\* StartImage calls CpuRunImage, which records the image's handle.
StartImage ==
  /\ \E s \in LoadedRanges :
       /\ ~Running(s)
       /\ LET r == ImageFindByAddress(s) IN
          /\ record' = [record EXCEPT ![r].handle = loaded[s].handle]
          /\ unset' = unset \ {r}
          /\ started' = Append(started, [range |-> s, record |-> r])
  /\ refused' = FALSE
  /\ UNCHANGED <<imageList, loaded, exec, noexec, tbs, failed>>

\* Code of a loaded image is run, from its entry point, by a call from native
\* code that faults, or by emulated code: the engine asks whether the address
\* is native, and translates what it may execute.
Execute ==
  /\ \E s \in LoadedRanges, aligned \in BOOLEAN :
       LET p == record[ImageFindByAddress(s)].cpu IN
       /\ ~EmulatorIsNativeCall([place |-> s, aligned |-> aligned])
       /\ s \in noexec /\ s \in exec[p]
       /\ tbs' = [tbs EXCEPT ![p] = @ \cup {s}]
  /\ UNCHANGED <<imageList, record, loaded, exec, noexec, started, refused, failed, unset>>

Current == Last(started)

\* CpuExitImage: the handle must lead to the record of the innermost image.
CpuExitImage ==
  /\ started # <<>> /\ ~refused
  /\ \E h \in Handles :
       IF ImageFindByHandle(h) = Current.record
         THEN started' = Front(started) /\ UNCHANGED refused
         ELSE refused' = (h = loaded[Current.range].handle) /\ UNCHANGED started
  /\ UNCHANGED <<imageList, record, loaded, exec, noexec, tbs, failed, unset>>

ImageReturns ==
  /\ started # <<>>
  /\ started' = Front(started)
  /\ refused' = FALSE
  /\ UNCHANGED <<imageList, record, loaded, exec, noexec, tbs, failed, unset>>

-----------------------------------------------------------------------------
Next ==
  \/ ImageProtocolRegister \/ RegisterFails \/ ImageProtocolUnregister
  \/ StartImage \/ Execute \/ CpuExitImage \/ ImageReturns

Spec == Init /\ [][Next]_vars

-----------------------------------------------------------------------------
(* Properties.                                                             *)

\* A registration that failed leaves its record on the list, and nothing is
\* claimed of its range any more (Image.c:164).
Clean == Ranges \ failed

\* An aligned address is taken for emulated exactly where an emulated image is
\* loaded, an unaligned one is never native, and the image's code is given to
\* the engine of its machine, which alone executes it (Emulator.c:15-33).
CodeIsKnown ==
  /\ \A a \in Addresses :
       a.place \notin failed =>
         (EmulatorIsNativeCall(a) <=>
            a.aligned /\ (a.place \in Ranges => loaded[a.place] = NoImage))
  /\ \A s \in Clean :
       loaded[s] # NoImage =>
         /\ record[ImageFindByAddress(s)].cpu = loaded[s].cpu
         /\ s \in noexec
         /\ {p \in Cpus : s \in exec[p]} = {loaded[s].cpu}

\* What an engine has translated is code of the image now loaded in the range,
\* and of its machine: other images may be loaded into a previously used
\* range (Cpu.c:1185-1188).
NoStaleCode ==
  \A p \in Cpus : \A s \in tbs[p] \cap Clean : loaded[s] # NoImage /\ loaded[s].cpu = p

\* An earlier record, of an image that was never started, holds by chance the
\* handle of the innermost image (Image.c:118).
Shadowed ==
  \E n, m \in DOMAIN imageList :
    /\ n < m /\ imageList[n] \in unset /\ imageList[m] = Current.record
    /\ record[imageList[n]].handle = loaded[Current.range].handle

\* The innermost image can leave through Exit with the handle it was started
\* with, unless what memory held shadows it (Cpu.c:1640-1674).
ExitAccepted == [][~refused /\ refused' => Shadowed]_vars

\* Docs/EmulatedEnvironment.md:82 lists Exit as fully supported: it is never
\* refused to the innermost image.
ExitNeverRefused == ~refused

=============================================================================
