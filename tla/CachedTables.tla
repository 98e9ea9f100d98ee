---------------------------- MODULE CachedTables ----------------------------
(***************************************************************************)
(* The entry point library of the driver                                   *)
(* (Library/CachedSTDriverEntryPoint/DriverEntryPoint.c).                  *)
(*                                                                         *)
(* The emulator runs code that may replace services in the system table    *)
(* and the tables it points to.  The library gives the driver copies of    *)
(* its own before any of its code runs, and takes them back if the driver's*)
(* entry point fails.  Emulator.inf names no UNLOAD_IMAGE: a driver that   *)
(* has been entered stays, and the unload handler is never registered.     *)
(***************************************************************************)
EXTENDS Integers, Sequences

Tables == <<"ST", "BS", "RT">>   \* in the order they are copied
Names == {"ST", "BS", "RT"}

VARIABLES
  mRealST,      \* whose services the platform's tables hold
  mCachedST     \* what the driver's own table holds: "real" is the platform's
                \* table (a pointer that was copied), "none" is no table

tables == <<mRealST, mCachedST>>

TablesOK ==
  /\ mRealST \in [Names -> {"firmware", "image"}]
  /\ mCachedST \in [Names -> {"none", "real", "firmware", "image"}]

TablesInit ==
  /\ mRealST = [t \in Names |-> "firmware"]
  /\ mCachedST = [t \in Names |-> "none"]

\* Mutant: the pointers in the copied system table are left as they are.
CopyTableShallow(t) ==
  /\ mCachedST' = IF t = "ST" THEN [ST |-> mRealST["ST"], BS |-> "real", RT |-> "real"]
                ELSE mCachedST
  /\ UNCHANGED mRealST

\* AllocatePool and CopyMem of one table.  The copy of the system table points
\* to the platform's other tables until those are copied too.
CopyTable(t) ==
  /\ mCachedST' = IF t = "ST" THEN [ST |-> mRealST["ST"], BS |-> "real", RT |-> "real"]
                ELSE [mCachedST EXCEPT ![t] = mRealST[t]]
  /\ UNCHANGED mRealST

\* FreePool of the copies: of the ones there are so far when an allocation
\* fails, of all three when the entry point does.
FreeTables ==
  /\ mCachedST' = [t \in Names |-> "none"]
  /\ UNCHANGED mRealST

\* Emulated code replaces services, as the Shell does.
ReplaceServices ==
  /\ \E t \in Names : mRealST' = [mRealST EXCEPT ![t] = "image"]
  /\ UNCHANGED mCachedST

\* The services the driver finds through table t.
Served(t) == IF mCachedST[t] = "real" THEN mRealST[t] ELSE mCachedST[t]

=============================================================================
