----------------------------- MODULE EfiWrappers -----------------------------
(***************************************************************************)
(* Wrapped events (Drivers/Emulator/EfiWrappers.c).                        *)
(*                                                                         *)
(* Emulated code that creates an event gets a record: the core is given    *)
(* EfiWrappersEventNotify with the record as its context, and the record   *)
(* leads from there to the emulated notification function.  CloseEvent     *)
(* looks for the record of the event it is called with.  Notification      *)
(* functions are emulated code too: they interrupt whatever runs at a      *)
(* lower task priority, the wrappers included, and call the same wrappers. *)
(*                                                                         *)
(* stk is the host stack: the emulated program at the bottom, above it the *)
(* notifications of ever higher priority, each with the progress of the    *)
(* wrapper it is in.  Records live in pool memory whose contents survive   *)
(* FreePool and are found again by AllocatePool.                           *)
(***************************************************************************)
EXTENDS Integers, SequencesExt

CONSTANTS
  Records,      \* blocks of pool memory for WRAPPED_EVENT_RECORDs
  Events,       \* EFI_EVENT handles, used again once closed
  NoEvent,      \* NULL or any value that is no event's handle
  NoRecord,     \* NULL, also the list head
  MaxTpl,       \* highest NotifyTpl; the program runs at 0
  MaxFailures,  \* bound: how often gBS->CreateEvent fails
  NativeEvents  \* events made by native code, which emulated code may close

ASSUME EventAssumption ==
  /\ MaxTpl \in Nat \ {0}
  /\ NoEvent \notin Events /\ NoRecord \notin Records
  /\ NativeEvents \subseteq Events
  /\ MaxFailures \in Nat

VARIABLES
  eventList,  \* mEventList
  heap,       \* records that are allocated
  event,      \* Record->Event, or what the memory holds where it would be
  core,       \* the core's events: NotifyTpl and NotifyContext
  stk,        \* frames [pc, tpl, arg, record]
  known,      \* events emulated code was given and has not closed
  failures,   \* how often gBS->CreateEvent has failed
  crossed,    \* history: a notification has closed an event that a wrapper it
              \* interrupted was dealing with
  fault       \* the first use of memory that is not a listed record's

vars == <<eventList, heap, event, core, stk, known, failures, crossed, fault>>

Pcs == {"client", "insert", "create", "done", "failed",
        "find", "close", "remove", "free", "notify"}
Frame == [pc : Pcs, tpl : 0..MaxTpl, arg : Events \cup {NoEvent},
          record : Records \cup {NoRecord}]
Closed == [tpl |-> 0, record |-> NoRecord]
Live(e) == core[e] # Closed

TypeOK ==
  /\ eventList \in Seq(Records)
  /\ heap \subseteq Records
  /\ event \in [Records -> Events \cup {NoEvent}]
  /\ core \in [Events -> [tpl : 0..MaxTpl, record : Records \cup {NoRecord}]]
  /\ stk \in Seq(Frame) /\ Len(stk) \in 1..(MaxTpl + 1)
  /\ known \subseteq Events
  /\ failures \in 0..MaxFailures /\ crossed \in BOOLEAN
  /\ fault \in {"none", "notify", "find", "null", "insert", "create", "close", "remove", "free"}

Top == Last(stk)
At(pc) == Top.pc = pc
Goto(pc) == stk' = [stk EXCEPT ![Len(stk)].pc = pc]
Call(pc, e, r) ==
  stk' = [stk EXCEPT ![Len(stk)].pc = pc, ![Len(stk)].arg = e, ![Len(stk)].record = r]

Init ==
  /\ eventList = <<>>
  /\ heap = {}
  /\ event = [r \in Records |-> NoEvent]
  /\ core = [e \in Events |-> IF e \in NativeEvents THEN [tpl |-> 1, record |-> NoRecord]
                                                     ELSE Closed]
  /\ stk = <<[pc |-> "client", tpl |-> 0, arg |-> NoEvent, record |-> NoRecord]>>
  /\ known = NativeEvents
  /\ failures = 0 /\ crossed = FALSE
  /\ fault = "none"

\* Touching a record: the step goes wrong if its memory was given back.
Touch(r, where) == fault' = IF r \in heap THEN "none" ELSE where

-----------------------------------------------------------------------------
(* EfiWrapperCreateEventCommon.                                            *)

\* The fresh record's Event is whatever the memory held.
CreateRecord ==
  /\ At("client")
  /\ \E r \in Records \ heap :
       /\ heap' = heap \cup {r}
       /\ Call("insert", NoEvent, r)
  /\ UNCHANGED <<eventList, event, core, known, failures, crossed, fault>>

\* Mutant: the record never gets on the list.
InsertRecordNot ==
  /\ At("insert")
  /\ Goto("create")
  /\ UNCHANGED <<eventList, heap, event, core, known, failures, crossed, fault>>

Listed == Range(eventList)

\* InsertTailList in a critical section, before the event can be signalled.
\* A record that is on the list already would break its links.
InsertRecord ==
  /\ At("insert")
  /\ eventList' = Append(eventList, Top.record)
  /\ fault' = IF Top.record \in Listed THEN "insert" ELSE "none"
  /\ Goto("create")
  /\ UNCHANGED <<heap, event, core, known, failures, crossed>>

\* External: gBS->CreateEvent(Ex) writes the handle through &Record->Event.
CoreCreateEvent ==
  /\ At("create")
  /\ \/ \E e \in Events, tpl \in 1..MaxTpl :
          /\ ~Live(e)
          /\ core' = [core EXCEPT ![e] = [tpl |-> tpl, record |-> Top.record]]
          /\ event' = [event EXCEPT ![Top.record] = e]
          /\ Touch(Top.record, "create")
          /\ Goto("done")
          /\ UNCHANGED failures
     \/ /\ failures < MaxFailures
        /\ failures' = failures + 1
        /\ Goto("failed")
        /\ UNCHANGED <<event, core, fault>>
  /\ UNCHANGED <<eventList, heap, known, crossed>>

\* Mutant: the caller is given a handle although there is no event.
CreateFailedGives ==
  /\ At("failed")
  /\ heap' = heap \ {Top.record}
  /\ known' = known \cup ({event[Top.record]} \cap Events)
  /\ Call("client", NoEvent, NoRecord)
  /\ UNCHANGED <<eventList, event, core, failures, crossed, fault>>

\* Mutant: the caller takes what the record's Event held, an event or not.
CreateFailedTakes ==
  /\ At("failed")
  /\ heap' = heap \ {Top.record}
  /\ known' = known \cup {event[Top.record]}
  /\ Call("client", NoEvent, NoRecord)
  /\ UNCHANGED <<eventList, event, core, failures, crossed, fault>>

\* The error path frees the record where it is.
CreateFailed ==
  /\ At("failed")
  /\ heap' = heap \ {Top.record}
  /\ Call("client", NoEvent, NoRecord)
  /\ UNCHANGED <<eventList, event, core, known, failures, crossed, fault>>

\* The caller is given Record->Event.
CreateDone ==
  /\ At("done")
  /\ Touch(Top.record, "create")
  /\ known' = known \cup ({event[Top.record]} \cap Events)
  /\ Call("client", NoEvent, NoRecord)
  /\ UNCHANGED <<eventList, heap, event, core, failures, crossed>>

-----------------------------------------------------------------------------
(* EfiWrapperCloseEvent.                                                   *)

First == IF eventList = <<>> THEN NoRecord ELSE Head(eventList)
Place(r) == SelectInSeq(eventList, LAMBDA q : q = r)
After(r) ==
  IF Place(r) \in {0, Len(eventList)} THEN NoRecord ELSE eventList[Place(r) + 1]

\* A wrapper deals with the event it was called with and the one that the
\* record it has in hand says.
DealsWith(f, e) ==
  f.pc # "client" /\ (f.arg = e \/ (f.record \in Records /\ event[f.record] = e))

\* Emulated code closes an event it was given, or the one it is notified of.
CloseCalled ==
  /\ At("client")
  /\ \E e \in (known \cup {Top.arg}) \cap Events :
       /\ Live(e)
       /\ known' = known \ {e}
       /\ crossed' = (crossed \/ \E n \in 1..(Len(stk) - 1) : DealsWith(stk[n], e))
       /\ Call("find", e, First)
  /\ UNCHANGED <<eventList, heap, event, core, failures, fault>>

\* EfiWrappersFindEvent, a record at a time.  With none left, Record->Event
\* is read although Record is NULL.
FindEvent ==
  /\ At("find")
  /\ IF Top.record = NoRecord
       THEN fault' = "null" /\ UNCHANGED stk
       ELSE /\ Touch(Top.record, "find")
            /\ IF event[Top.record] = Top.arg
                 THEN Goto("close")
                 ELSE Call("find", Top.arg, After(Top.record))
  /\ UNCHANGED <<eventList, heap, event, core, known, failures, crossed>>

\* Mutant: the core's event stays open.
CoreCloseEventNot ==
  /\ At("close")
  /\ Touch(Top.record, "close")
  /\ Goto("remove")
  /\ UNCHANGED <<eventList, heap, event, core, known, failures, crossed>>

\* External: gBS->CloseEvent (Record->Event).
CoreCloseEvent ==
  /\ At("close")
  /\ Touch(Top.record, "close")
  /\ core' = [e \in Events |-> IF e = event[Top.record] THEN Closed ELSE core[e]]
  /\ Goto("remove")
  /\ UNCHANGED <<eventList, heap, event, known, failures, crossed>>

\* Mutant: the record stays on the list.
RemoveRecordNot ==
  /\ At("remove")
  /\ Goto("free")
  /\ UNCHANGED <<eventList, heap, event, core, known, failures, crossed, fault>>

\* RemoveEntryList in a critical section.
RemoveRecord ==
  /\ At("remove")
  /\ Touch(Top.record, "remove")
  /\ eventList' = RemoveAt(eventList, Place(Top.record))
  /\ Goto("free")
  /\ UNCHANGED <<heap, event, core, known, failures, crossed>>

\* Mutant: the record is not given back.
FreeRecordNot ==
  /\ At("free")
  /\ Call("client", NoEvent, NoRecord)
  /\ UNCHANGED <<eventList, heap, event, core, known, failures, crossed, fault>>

FreeRecord ==
  /\ At("free")
  /\ Touch(Top.record, "free")
  /\ heap' = heap \ {Top.record}
  /\ Call("client", NoEvent, NoRecord)
  /\ UNCHANGED <<eventList, event, core, known, failures, crossed>>

-----------------------------------------------------------------------------
(* Notifications.                                                          *)

\* External: the core calls EfiWrappersEventNotify at the event's priority.
DispatchEvent ==
  /\ \E e \in Events :
       /\ core[e].record # NoRecord
       /\ core[e].tpl > Top.tpl
       /\ stk' = Append(stk, [pc |-> "notify", tpl |-> core[e].tpl,
                              arg |-> e, record |-> core[e].record])
  /\ UNCHANGED <<eventList, heap, event, core, known, failures, crossed, fault>>

\* EfiWrappersEventNotify reads its record and runs emulated code.
EventNotify ==
  /\ At("notify")
  /\ Touch(Top.record, "notify")
  /\ Goto("client")
  /\ UNCHANGED <<eventList, heap, event, core, known, failures, crossed>>

NotifyReturn ==
  /\ At("client") /\ Len(stk) > 1
  /\ stk' = Front(stk)
  /\ UNCHANGED <<eventList, heap, event, core, known, failures, crossed, fault>>

-----------------------------------------------------------------------------
Next ==
  /\ fault = "none"
  /\ \/ CreateRecord \/ InsertRecord \/ CoreCreateEvent \/ CreateFailed \/ CreateDone
     \/ CloseCalled \/ FindEvent \/ CoreCloseEvent \/ RemoveRecord \/ FreeRecord
     \/ DispatchEvent \/ EventNotify \/ NotifyReturn

Spec == Init /\ [][Next]_vars

-----------------------------------------------------------------------------
(* Properties.                                                             *)

\* Once gBS->CreateEvent has failed, the list leads through a freed record
\* (EfiWrappers.c:191), and nothing is claimed of it any more; nor once a
\* notification has closed what a wrapper below it was at work on: that one
\* then goes on with a record that is no more.
Intact == failures = 0 /\ ~crossed

Wrapped == {e \in Events : core[e].record # NoRecord}

\* Every event the core may notify has its record: allocated, listed once and
\* with the event's handle, so that a notification finds its function and
\* CloseEvent finds the record (EfiWrappers.c:162-165).
RecordOfEvent ==
  Intact => \A e \in Wrapped :
    LET r == core[e].record IN
    /\ r \in heap /\ event[r] = e
    /\ Cardinality({n \in DOMAIN eventList : eventList[n] = r}) = 1

\* No record's memory is used after it was given back (nor given back twice).
NoUseAfterFree == Intact => fault \in {"none", "null"}

\* Wrappers in progress on a record.
Making == {stk[n].record : n \in {m \in DOMAIN stk : stk[m].pc \in {"insert", "create", "failed"}}}
Closing == {stk[n].record : n \in {m \in DOMAIN stk : stk[m].pc \in {"remove", "free"}}}

\* Records are neither lost nor kept on the list when they are free: those
\* allocated are the live events', and those being set up or closed.
RecordsAccounted ==
  Intact =>
  /\ heap = {core[e].record : e \in Wrapped} \cup Making \cup Closing
  /\ Listed \subseteq heap

\* Emulated code is given the handles of events, and only of events, so that
\* what it closes later is its own (EfiWrappers.c:190 and 195).
KnownLive == ~crossed => \A e \in known : Live(e)

\* A wrapper in the middle of creating an event still has its record when the
\* core returns, although by then the event may have been notified and closed
\* (EfiWrappers.c:162-165).
CreateKeepsRecord == fault # "create"

=============================================================================
