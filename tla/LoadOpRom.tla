----------------------------- MODULE LoadOpRom ------------------------------
(***************************************************************************)
(* LoadOpRom: finds the driver in the option ROMs of PCI devices, loads    *)
(* and connects it (Application/LoadOpRom/LoadOpRom.c).                    *)
(*                                                                         *)
(* A ROM is a sequence of blocks of 512 bytes; in each, a header begins or *)
(* none does.  A header tells the image's kind ("efi", "bios", "other"),   *)
(* machine, length and initialised size in blocks, whether the offset of   *)
(* the PE image is within that size, compression, the length a legacy BIOS *)
(* image has in its own header, whether the PCI data structure is found,   *)
(* and whether it is the last.                                             *)
(***************************************************************************)
EXTENDS ShellTool

CONSTANTS
  Devices,     \* the PCI devices in handle order: location and rom
  Host,        \* HOST_MACHINE_TYPE
  AllDevsJunk  \* what AllDevs may hold when nothing was assigned to it

IsHeader(h) ==
  /\ h.length \in Nat /\ h.legacy \in Nat /\ h.init \in Nat
  /\ {h.offsetOk, h.compressed, h.pcir, h.last} \subseteq BOOLEAN
ASSUME LoadOpRomAssumption ==
  /\ AllDevsJunk \subseteq BOOLEAN
  /\ IsSequence(Devices)
  /\ \A d, e \in DOMAIN Devices : Devices[d].location = Devices[e].location => d = e
  /\ \A d \in DOMAIN Devices : LET rom == Devices[d].rom IN
       IsSequence(rom) /\ \A b \in DOMAIN rom : rom[b] = Null \/ IsHeader(rom[b])

VARIABLES
  want,       \* the location asked for, or Null
  allDevs, onlyList, noConnect,
  k,          \* PciIndex + 1
  at,         \* block of RomHeader
  images,     \* what became of the images handed to the core
  connected   \* devices connected to the image loaded for them

loadVars == <<want, allDevs, onlyList, noConnect, k, at, images, connected>>

LoadInit ==
  /\ want = Null /\ allDevs = FALSE /\ onlyList = FALSE /\ noConnect = FALSE
  /\ k = 1 /\ at = 1 /\ images = {} /\ connected = {}

Rom == Devices[k].rom
Header == Rom[at]
Tag(st) == [dev |-> k, at |-> at, st |-> st]
Image(tag) == (images \ {Tag("loaded")}) \cup {tag}
UnchangedRest == UNCHANGED <<argv, opt, want, allDevs, onlyList, noConnect>>

LoadFlag ==
  /\ pc = "flags"
  /\ LET g == GetOpt({}) IN
     /\ opt' = g.next
     /\ onlyList' = (onlyList \/ (g.found /\ opt'.Opt = "l"))
     /\ noConnect' = (noConnect \/ (g.found /\ opt'.Opt = "n"))
     /\ Goto(CASE ~g.found -> "count"
               [] g.found /\ opt'.Opt \in {"l", "n"} -> "flags"
               [] OTHER -> "done")
  /\ Keep /\ UNCHANGED <<argv, want, allDevs, k, at, images, connected>>

\* AllDevs is only assigned when no location is given.
CountArgs ==
  /\ pc = "count"
  /\ LET i == opt.OptIndex IN
     \/ Argc - i = 0 /\ allDevs' = TRUE /\ want' = want /\ Goto("locate")
     \/ /\ Argc - i = 4 /\ allDevs' \in AllDevsJunk
        /\ want' = [w \in 1..4 |-> Argv(i + w - 1)[1]] /\ Goto("locate")
     \/ Argc - i \notin {0, 4} /\ Goto("done") /\ UNCHANGED <<want, allDevs>>
  /\ Keep /\ UNCHANGED <<argv, opt, onlyList, noConnect, k, at, images, connected>>

LocateHandles ==
  /\ pc = "locate"
  /\ \/ Devices # <<>> /\ Allocated({"handles"}, {}) /\ Goto("device")
     \/ (Devices # <<>> => Fails("handles")) /\ Keep /\ Goto("done")
  /\ UnchangedRest /\ UNCHANGED <<k, at, images, connected>>

\* After AnalyzeROM: the next device, or with AllDevs = FALSE no other.
NextDevice ==
  /\ Goto(IF allDevs /\ k < Len(Devices) THEN "device" ELSE "finish")
  /\ k' = IF allDevs /\ k < Len(Devices) THEN k + 1 ELSE k
  /\ at' = 1

SkipDevice ==
  /\ Goto(IF k < Len(Devices) THEN "device" ELSE "finish")
  /\ k' = IF k < Len(Devices) THEN k + 1 ELSE k
  /\ at' = 1

Device ==
  /\ pc = "device"
  /\ LET wanted == allDevs \/ want = Devices[k].location IN
     \/ wanted /\ Rom # Null /\ Goto("rom") /\ UNCHANGED <<k, at>>
     \/ wanted /\ Rom = Null /\ NextDevice
     \/ (wanted => Fails("protocol")) /\ SkipDevice
  /\ Keep /\ UnchangedRest /\ UNCHANGED <<images, connected>>

\* ParseImage.
Supported(h, length) ==
  h.kind = "efi" /\ h.machine = Host /\ length >= h.init /\ h.offsetOk

ImageLength(h) == IF h.kind = "bios" /\ h.legacy > h.length THEN h.legacy ELSE h.length

\* Mutant: a block without a header is looked at again.
AdvanceStuck == IF Header = Null THEN 0 ELSE ImageLength(Header)

Advance == IF Header = Null THEN 1 ELSE ImageLength(Header)

\* One round of ParseImages.  After a block without a header the mark of the
\* image before it counts, which was not the last.
ParseImages ==
  /\ pc = "rom"
  /\ LET next(last) == IF at + Advance > Len(Rom) \/ last
                       THEN NextDevice ELSE at' = at + Advance /\ UNCHANGED <<k, pc>> IN
     CASE Header = Null -> next(FALSE)
       [] Header # Null /\ ~Header.pcir -> NextDevice
       [] OTHER -> IF Supported(Header, ImageLength(Header)) /\ ~onlyList
                   THEN Goto("load") /\ UNCHANGED <<k, at>>
                   ELSE next(Header.last)
  /\ Keep /\ UnchangedRest /\ UNCHANGED <<images, connected>>

-----------------------------------------------------------------------------
(* LoadImage.                                                              *)
\* Without memory for the scratch space it frees NULL and keeps the other.
Decompress ==
  /\ pc = "load"
  /\ \/ ~Header.compressed /\ Goto("path") /\ Keep /\ UNCHANGED <<k, at>>
     \/ Header.compressed /\ Goto("path") /\ Allocated({"image", "scratch"}, {"scratch"}) /\ UNCHANGED <<k, at>>
     \/ Header.compressed /\ (Fails("decompress") \/ Fails("memory")) /\ Keep /\ NextDevice
     \/ /\ Header.compressed /\ Fails("memory") /\ NextDevice
        /\ heap' = heap \cup {"image"} /\ badFree' = TRUE
     \/ /\ Header.compressed /\ Fails("decompress") /\ NextDevice
        /\ Allocated({"image", "scratch"}, {"image", "scratch"})
  /\ UnchangedRest /\ UNCHANGED <<images, connected>>

AppendNode ==
  /\ pc = "path"
  /\ \/ Goto("core") /\ Allocated({"devicepath"}, {})
     \/ Fails("memory") /\ Goto("free") /\ Keep
  /\ UnchangedRest /\ UNCHANGED <<k, at, images, connected>>

\* Mutant: an image the core will not trust is left loaded.
CoreLoadKeeps ==
  /\ pc = "core"
  /\ \/ images' = images \cup {Tag("loaded")} /\ Goto("start image")
     \/ Fails("load") /\ Goto("free") /\ UNCHANGED images
     \/ Fails("denied") /\ images' = images \cup {Tag("loaded")} /\ Goto("free")
  /\ Keep /\ UnchangedRest /\ UNCHANGED <<k, at, connected>>

\* gBS->LoadImage.  An image refused for its signature is loaded, too, and
\* must be unloaded.
CoreLoad ==
  /\ pc = "core"
  /\ \/ images' = images \cup {Tag("loaded")} /\ Goto("start image")
     \/ Fails("load") /\ Goto("free") /\ UNCHANGED images
     \/ Fails("denied") /\ images' = images \cup {Tag("unloaded")} /\ Goto("free")
  /\ Keep /\ UnchangedRest /\ UNCHANGED <<k, at, connected>>

CoreStart ==
  /\ pc = "start image"
  /\ \/ images' = Image(Tag("started")) /\ Goto(IF noConnect THEN "free" ELSE "connect")
     \/ Fails("start") /\ images' = Image(Tag("unloaded")) /\ Goto("free")
  /\ Keep /\ UnchangedRest /\ UNCHANGED <<k, at, connected>>

Connect ==
  /\ pc = "connect"
  /\ connected' = connected \cup {k} \/ (Fails("connect") /\ UNCHANGED connected)
  /\ Goto("free") /\ Keep /\ UnchangedRest /\ UNCHANGED <<k, at, images>>

LoadDone ==
  /\ pc = "free"
  /\ Allocated({}, (IF Header.compressed THEN {"image"} ELSE {}) \cup (heap \cap {"devicepath"}))
  /\ NextDevice
  /\ UnchangedRest /\ UNCHANGED <<images, connected>>

Finish ==
  /\ pc = "finish"
  /\ Allocated({}, {"handles"}) /\ Goto("done")
  /\ UnchangedRest /\ UNCHANGED <<k, at, images, connected>>

LoadOpRomNext ==
  \/ GetShellArgcArgv("flags") /\ UNCHANGED loadVars
  \/ LoadFlag \/ CountArgs \/ LocateHandles \/ Device \/ ParseImages
  \/ Decompress \/ AppendNode \/ CoreLoad \/ CoreStart \/ Connect \/ LoadDone \/ Finish
=============================================================================
