-------------------------- MODULE EfiWrappersProofs --------------------------
(***************************************************************************)
(* Proofs about EfiWrappers, for any number of records, events, task       *)
(* priorities and failures, and whatever notification functions close.     *)
(***************************************************************************)
EXTENDS EfiWrappers, FiniteSetTheorems, SequenceTheorems, TLAPS

-----------------------------------------------------------------------------
(* The inductive invariant: always ...                                     *)

Held == {"insert", "create", "failed", "done", "close", "remove", "free"}
Closers == {"find", "close", "remove", "free"}
Holding(f) == f.pc \in Held

\* The frames of wrappers that hold a record have one.
HaveRecords(s) == \A n \in 1..Len(s) : Holding(s[n]) => s[n].record \in Records

\* Priorities rise along the stack, so that there are never too many frames.
Rising(s) == \A n \in 1..Len(s) : s[n].tpl >= n - 1

\* What emulated code believes to own is live.
KnownOpen(k, c) == \A e \in k : c[e] # Closed

TypesInv == TypeOK /\ HaveRecords(stk) /\ Rising(stk)

(* ... while nothing has gone wrong, too ...                               *)

\* Whoever closes an event has interrupted no wrapper that deals with it.
Elsewhere(f, ev, e) == f.arg # e /\ (Holding(f) => ev[f.record] # e)
ClosersAlone(s, ev) ==
  \A n \in 1..Len(s) : s[n].pc \in Closers =>
    \A m \in 1..(n - 1) : s[m].pc # "client" => Elsewhere(s[m], ev, s[n].arg)

\* A wrapper's record is allocated and no other wrapper's.
HeldApart(s, h) ==
  \A n \in 1..Len(s) : Holding(s[n]) =>
    /\ s[n].record \in h
    /\ \A m \in 1..Len(s) : m # n /\ Holding(s[m]) => s[m].record # s[n].record

\* An event just created is live ...
MadeLive(s, ev, c) ==
  \A n \in 1..Len(s) : s[n].pc = "done" =>
    ev[s[n].record] \in Events /\ c[ev[s[n].record]] # Closed

\* ... and so is one about to be closed, which nobody else has or will get.
ClosingLive(s, ev, c, k) ==
  \A n \in 1..Len(s) : s[n].pc \in {"find", "close"} =>
    /\ s[n].arg \in Events \ k /\ c[s[n].arg] # Closed
    /\ \A m \in 1..Len(s) : s[m].pc = "done" => ev[s[m].record] # s[n].arg
    /\ s[n].pc = "close" => ev[s[n].record] = s[n].arg

CallsInv ==
  /\ TypeOK
  /\ HaveRecords(stk)
  /\ ~crossed
  /\ KnownOpen(known, core)
  /\ fault \in {"none", "null", "insert", "notify", "find"}
  /\ fault \in {"none", "null"} =>
       /\ ClosersAlone(stk, event)
       /\ HeldApart(stk, heap)
       /\ MadeLive(stk, event, core)
       /\ ClosingLive(stk, event, core, known)

(* ... and while gBS->CreateEvent has not failed either.                   *)

\* A record not on the list, or not an event's.
Unlisted(f) == f.pc \in {"insert", "free"}
Unowned(f) == f.pc \in {"insert", "create", "remove", "free"}

NeverFailed(s) == \A n \in 1..Len(s) : s[n].pc # "failed"

\* Exactly the records allocated are on the list, once each, but for those of
\* wrappers that are about to put them there or have taken them off.
ListedOnce(l) == \A i, j \in DOMAIN l : l[i] = l[j] => i = j
ListedExactly(l, h, s) ==
  \A r \in Records :
    (\E i \in DOMAIN l : l[i] = r)
      <=> r \in h /\ \A n \in 1..Len(s) : Unlisted(s[n]) => s[n].record # r

\* Exactly the records allocated lead from an event, and back to it, but for
\* those of wrappers that are about to create it or have closed it.
EventsLead(s, h, ev, c) ==
  \A e \in Events : c[e].record # NoRecord =>
    /\ c[e].record \in h /\ ev[c[e].record] = e
    /\ \A n \in 1..Len(s) : Unowned(s[n]) => s[n].record # c[e].record
RecordsLead(s, h, c) ==
  \A r \in h :
    \/ \E e \in Events : c[e].record = r
    \/ \E n \in 1..Len(s) : Unowned(s[n]) /\ s[n].record = r

\* Notifications and wrappers in progress have the record of their event.
FramesLead(s, l, ev, c) ==
  \A n \in 1..Len(s) :
    /\ s[n].pc = "notify" => /\ s[n].arg \in Events /\ s[n].record # NoRecord
                             /\ c[s[n].arg].record = s[n].record
    /\ s[n].pc \in {"done", "close"} => c[ev[s[n].record]].record = s[n].record
    /\ s[n].pc = "find" => s[n].record = NoRecord \/ \E i \in DOMAIN l : l[i] = s[n].record

\* Nobody above a walk along the list has the record it is at.
WalksApart(s, ev) ==
  \A n \in 1..Len(s) : \A m \in 1..(n - 1) :
    s[m].pc = "find" /\ s[m].record # NoRecord =>
      /\ Holding(s[n]) => s[n].record # s[m].record
      /\ s[n].pc \in Closers => ev[s[m].record] # s[n].arg

Agree ==
  /\ fault \in {"none", "null"}
  /\ NeverFailed(stk)
  /\ ListedOnce(eventList)
  /\ ListedExactly(eventList, heap, stk)
  /\ EventsLead(stk, heap, event, core)
  /\ RecordsLead(stk, heap, core)
  /\ FramesLead(stk, eventList, event, core)
  /\ WalksApart(stk, event)

RecordsInv == Intact => Agree

-----------------------------------------------------------------------------
(* Steps of the stack.                                                     *)

\* The top frame f in place of the one there was.
Becomes(f) ==
  /\ stk' \in Seq(Frame) /\ Len(stk') = Len(stk)
  /\ stk'[Len(stk)] = f
  /\ \A n \in 1..(Len(stk) - 1) : stk'[n] = stk[n]

LEMMA TopFacts ==
  ASSUME TypeOK
  PROVE  /\ Len(stk) \in Nat \ {0} /\ Top = stk[Len(stk)] /\ Top \in Frame
         /\ \A n \in 1..Len(stk) : stk[n] \in Frame
         /\ MaxTpl \in Nat /\ Len(stk) \in 1..(MaxTpl + 1)
  BY EventAssumption DEF TypeOK, Top, Last

\* What assignments to the fields of a frame make of it.
LEMMA FrameFields ==
  ASSUME NEW f \in Frame, NEW p \in Pcs, NEW e, NEW r
  PROVE  /\ [f EXCEPT !.pc = p] = [pc |-> p, tpl |-> f.tpl, arg |-> f.arg, record |-> f.record]
         /\ [f EXCEPT !.pc = p, !.arg = e, !.record = r]
              = [pc |-> p, tpl |-> f.tpl, arg |-> e, record |-> r]
<1>1. f = [pc |-> f.pc, tpl |-> f.tpl, arg |-> f.arg, record |-> f.record]
  BY DEF Frame
<1> DEFINE g == [pc |-> p, tpl |-> f.tpl, arg |-> f.arg, record |-> f.record]
           h == [pc |-> p, tpl |-> f.tpl, arg |-> e, record |-> f.record]
<1>2. [f EXCEPT !.pc = p] = g
  BY <1>1
<1>3. [g EXCEPT !.arg = e] = h
  OBVIOUS
<1>4. [h EXCEPT !.record = r] = [pc |-> p, tpl |-> f.tpl, arg |-> e, record |-> r]
  OBVIOUS
<1> QED
  BY <1>2, <1>3, <1>4

LEMMA CallStep ==
  ASSUME TypeOK, NEW p \in Pcs, NEW e \in Events \cup {NoEvent}, NEW r \in Records \cup {NoRecord},
         Call(p, e, r)
  PROVE  Becomes([pc |-> p, tpl |-> Top.tpl, arg |-> e, record |-> r])
<1> DEFINE f == [pc |-> p, tpl |-> Top.tpl, arg |-> e, record |-> r]
<1>1. stk \in Seq(Frame) /\ Len(stk) \in 1..Len(stk) /\ stk[Len(stk)] \in Frame /\ Len(stk) \in Nat
      /\ Top = stk[Len(stk)]
  BY TopFacts DEF TypeOK
<1>2. f \in Frame
  BY <1>1 DEF Frame
<1>3. [stk[Len(stk)] EXCEPT !.pc = p, !.arg = e, !.record = r] = f
  BY <1>1, FrameFields
<1>4. stk' = [stk EXCEPT ![Len(stk)] = f]
  BY <1>1, <1>3 DEF Call
<1> HIDE DEF f
<1>5. Becomes(f)
  BY <1>1, <1>2, <1>4 DEF Becomes
<1> QED
  BY <1>5 DEF f

LEMMA GotoStep ==
  ASSUME TypeOK, NEW p \in Pcs, Goto(p)
  PROVE  Becomes([pc |-> p, tpl |-> Top.tpl, arg |-> Top.arg, record |-> Top.record])
<1> DEFINE f == [pc |-> p, tpl |-> Top.tpl, arg |-> Top.arg, record |-> Top.record]
<1>1. stk \in Seq(Frame) /\ Len(stk) \in 1..Len(stk) /\ stk[Len(stk)] \in Frame /\ Len(stk) \in Nat
      /\ Top = stk[Len(stk)]
  BY TopFacts DEF TypeOK
<1>2. f \in Frame
  BY <1>1 DEF Frame
<1>3. [stk[Len(stk)] EXCEPT !.pc = p] = f
  BY <1>1, FrameFields
<1>4. stk' = [stk EXCEPT ![Len(stk)] = f]
  BY <1>1, <1>3 DEF Goto
<1> HIDE DEF f
<1>5. Becomes(f)
  BY <1>1, <1>2, <1>4 DEF Becomes
<1> QED
  BY <1>5 DEF f

-----------------------------------------------------------------------------
(* Wrappers and notifications keep to themselves.                          *)

LEMMA InitCalls == Init => CallsInv
<1> SUFFICES ASSUME Init PROVE CallsInv
  OBVIOUS
<1> DEFINE f == [pc |-> "client", tpl |-> 0, arg |-> NoEvent, record |-> NoRecord]
<1>1. f \in Frame /\ stk = <<f>>
  BY EventAssumption DEF Init, Frame, Pcs
<1> HIDE DEF f
<1>2. stk \in Seq(Frame) /\ Len(stk) = 1 /\ stk[1] = f
  BY <1>1
<1>3. f.pc = "client"
  BY DEF f
<1>4. TypeOK
  <2>1. core \in [Events -> [tpl : 0..MaxTpl, record : Records \cup {NoRecord}]]
    BY EventAssumption DEF Init, Closed
  <2>2. eventList \in Seq(Records)
    BY DEF Init
  <2>3. crossed \in BOOLEAN
    BY DEF Init
  <2>4. /\ heap \subseteq Records /\ event \in [Records -> Events \cup {NoEvent}]
        /\ 1 \in 1..(MaxTpl + 1) /\ known \subseteq Events /\ failures \in 0..MaxFailures
        /\ fault = "none"
    BY EventAssumption DEF Init
  <2> QED
    BY <1>2, <2>1, <2>2, <2>3, <2>4 DEF TypeOK
<1>5. KnownOpen(known, core) /\ HaveRecords(stk) /\ ~crossed
  BY <1>2, <1>3, EventAssumption DEF Init, KnownOpen, Closed, HaveRecords, Holding, Held
<1> QED
  BY <1>2, <1>3, <1>4, <1>5
     DEF Init, CallsInv, ClosersAlone, HeldApart, MadeLive, ClosingLive, Closers, Holding, Held

LEMMA CreateRecordCalls ==
  ASSUME CallsInv, TypeOK', HaveRecords(stk'), ~crossed', fault = "none", CreateRecord
  PROVE  CallsInv'
<1>1. PICK r \in Records \ heap : heap' = heap \cup {r} /\ Call("insert", NoEvent, r)
  BY DEF CreateRecord
<1> DEFINE f == [pc |-> "insert", tpl |-> Top.tpl, arg |-> NoEvent, record |-> r]
<1>2. TypeOK /\ Becomes(f)
  BY <1>1, CallStep DEF CallsInv, Pcs
<1> HIDE DEF f
<1>3. f.pc = "insert" /\ f.record = r
  BY DEF f
<1>4. UNCHANGED <<eventList, event, core, known, failures, fault>>
  BY DEF CreateRecord
<1>5. KnownOpen(known', core')
  BY <1>1, <1>2, <1>4 DEF CallsInv, TypeOK, Becomes, KnownOpen, Live
<1>6. Len(stk) \in Nat \ {0}
  BY <1>2, TopFacts
<1>7. ClosersAlone(stk', event')
  BY <1>2, <1>3, <1>4, <1>6 DEF CallsInv, ClosersAlone, Becomes, Closers
<1>8. HeldApart(stk', heap')
  BY <1>1, <1>2, <1>3, <1>6 DEF CallsInv, HeldApart, Becomes, Holding, Held
<1>9. MadeLive(stk', event', core') /\ ClosingLive(stk', event', core', known')
  BY <1>2, <1>3, <1>4, <1>6 DEF CallsInv, MadeLive, ClosingLive, Becomes
<1> QED
  BY <1>4, <1>5, <1>7, <1>8, <1>9 DEF CallsInv

LEMMA InsertRecordCalls ==
  ASSUME CallsInv, TypeOK', HaveRecords(stk'), ~crossed', fault = "none", InsertRecord
  PROVE  CallsInv'
<1> DEFINE f == [pc |-> "create", tpl |-> Top.tpl, arg |-> Top.arg, record |-> Top.record]
<1>1. TypeOK /\ Becomes(f)
  BY GotoStep DEF InsertRecord, CallsInv, Pcs
<1>2. Len(stk) \in Nat \ {0} /\ Top = stk[Len(stk)] /\ Top \in Frame /\ Top.pc = "insert"
  BY <1>1, TopFacts DEF InsertRecord, At
<1>3. f.pc = "create" /\ f.record = Top.record
  OBVIOUS
<1> HIDE DEF f
<1>4. Top.record \in Records
  BY <1>2, EventAssumption DEF CallsInv, HeldApart, Holding, Held, TypeOK
<1>5. KnownOpen(known', core') /\ fault' \in {"none", "insert"}
  BY <1>1, <1>2, <1>4 DEF InsertRecord, CallsInv, TypeOK, Becomes, Live
<1>6. ClosersAlone(stk', event')
  BY <1>1, <1>2, <1>3 DEF InsertRecord, CallsInv, ClosersAlone, Becomes, Closers
<1>7. HeldApart(stk', heap')
  <2>1. heap' = heap /\ HeldApart(stk, heap) /\ Len(stk) \in Nat /\ Len(stk') = Len(stk)
    BY <1>1, <1>2 DEF InsertRecord, CallsInv, Becomes
  <2>2. \A n \in 1..Len(stk) : /\ stk'[n].record = stk[n].record
                               /\ Holding(stk'[n]) => Holding(stk[n])
    <3> TAKE n \in 1..Len(stk)
    <3>1. CASE n = Len(stk)
      BY <1>1, <1>2, <1>3, <3>1 DEF Becomes, Holding, Held
    <3>2. CASE n # Len(stk)
      <4>1. n \in 1..(Len(stk) - 1)
        BY <1>2, <3>2
      <4> QED
        BY <1>1, <4>1 DEF Becomes
    <3> QED
      BY <3>1, <3>2
  <2> QED
    BY <2>1, <2>2 DEF HeldApart
<1>8. UNCHANGED <<event, core, known>>
  BY DEF InsertRecord
<1>9. MadeLive(stk', event', core') /\ ClosingLive(stk', event', core', known')
  BY <1>1, <1>2, <1>3, <1>8 DEF CallsInv, MadeLive, ClosingLive, Becomes
<1> QED
  BY <1>5, <1>6, <1>7, <1>9 DEF CallsInv

LEMMA CoreCreateEventCalls ==
  ASSUME CallsInv, TypeOK', HaveRecords(stk'), ~crossed', fault = "none", CoreCreateEvent
  PROVE  CallsInv'
<1>1. TypeOK /\ Len(stk) \in Nat \ {0} /\ Top = stk[Len(stk)] /\ Top \in Frame /\ Top.pc = "create"
  BY TopFacts DEF CoreCreateEvent, At, CallsInv
<1>2. Top.record \in heap /\ Top.record \in Records
  BY <1>1 DEF CallsInv, HeldApart, Holding, Held, TypeOK
<1>3. ASSUME NEW e \in Events, NEW tpl \in 1..MaxTpl, ~Live(e),
             core' = [core EXCEPT ![e] = [tpl |-> tpl, record |-> Top.record]],
             event' = [event EXCEPT ![Top.record] = e],
             Touch(Top.record, "create"), Goto("done"), UNCHANGED <<eventList, heap, known, failures>>
      PROVE  CallsInv'
  <2> DEFINE f == [pc |-> "done", tpl |-> Top.tpl, arg |-> Top.arg, record |-> Top.record]
  <2>1. Becomes(f)
    BY <1>1, <1>3, GotoStep DEF Pcs
  <2>2. f.pc = "done" /\ f.record = Top.record
    OBVIOUS
  <2> HIDE DEF f
  <2>3. fault' = "none"
    BY <1>2, <1>3 DEF Touch
  <2>4. MaxTpl \in Nat /\ [tpl |-> tpl, record |-> Top.record] # Closed
        /\ [tpl |-> tpl, record |-> Top.record] \in [tpl : 0..MaxTpl, record : Records \cup {NoRecord}]
    BY <1>2, EventAssumption DEF Closed
  <2>5. TypeOK'
    OBVIOUS
  <2>6. \A d \in Events : core[d] # Closed => core'[d] # Closed
    BY <1>1, <1>3, <2>4 DEF TypeOK
  <2>7. core'[e] # Closed /\ event'[Top.record] = e
    BY <1>1, <1>2, <1>3, <2>4 DEF TypeOK
  <2>8. \A r \in Records \ {Top.record} : event'[r] = event[r]
    BY <1>1, <1>3 DEF TypeOK
  <2>9. KnownOpen(known', core')
    BY <1>1, <1>3, <2>6 DEF CallsInv, TypeOK, KnownOpen, Live
  <2>10. ClosersAlone(stk', event')
    <3> SUFFICES ASSUME NEW n \in 1..Len(stk), stk'[n].pc \in Closers, NEW m \in 1..(n - 1),
                        stk'[m].pc # "client"
                 PROVE  Elsewhere(stk'[m], event', stk'[n].arg)
      BY <2>1 DEF ClosersAlone, Becomes
    <3>1. n \in 1..(Len(stk) - 1) /\ m \in 1..(Len(stk) - 1) /\ stk'[n] = stk[n] /\ stk'[m] = stk[m]
      BY <1>1, <2>1, <2>2 DEF Becomes, Closers
    <3>2. Elsewhere(stk[m], event, stk[n].arg)
      BY <3>1 DEF CallsInv, ClosersAlone
    <3>3. Holding(stk[m]) => stk[m].record \in Records \ {Top.record}
      <4>1. m \in 1..Len(stk) /\ Len(stk) \in 1..Len(stk) /\ m # Len(stk) /\ Holding(stk[Len(stk)])
        BY <1>1, <3>1 DEF Holding, Held
      <4>2. HeldApart(stk, heap) /\ heap \subseteq Records
        BY DEF CallsInv, TypeOK
      <4> QED
        BY <1>1, <4>1, <4>2 DEF HeldApart
    <3> QED
      BY <2>8, <3>1, <3>2, <3>3 DEF Elsewhere
  <2>11. HeldApart(stk', heap')
    <3>1. \A n \in 1..Len(stk) : Holding(stk'[n]) => Holding(stk[n]) /\ stk'[n].record = stk[n].record
      BY <1>1, <2>1, <2>2 DEF Becomes, Holding, Held
    <3>2. HeldApart(stk, heap) /\ UNCHANGED heap /\ Len(stk') = Len(stk)
      BY <1>3, <2>1 DEF CallsInv, Becomes
    <3> QED
      BY <3>1, <3>2 DEF HeldApart
  <2>12. \A n \in 1..(Len(stk) - 1) : stk[n].pc \in {"done", "close"} =>
           stk[n].record \in Records \ {Top.record}
    <3> SUFFICES ASSUME NEW n \in 1..(Len(stk) - 1), Holding(stk[n])
                 PROVE  stk[n].record \in Records \ {Top.record}
      BY DEF Holding, Held
    <3>1. n \in 1..Len(stk) /\ Len(stk) \in 1..Len(stk) /\ n # Len(stk) /\ Holding(stk[Len(stk)])
      BY <1>1 DEF Holding, Held
    <3>2. HeldApart(stk, heap) /\ heap \subseteq Records
      BY DEF CallsInv, TypeOK
    <3> QED
      BY <1>1, <3>1, <3>2 DEF HeldApart
  <2>13. MadeLive(stk', event', core')
    <3> SUFFICES ASSUME NEW n \in 1..Len(stk), stk'[n].pc = "done"
                 PROVE  event'[stk'[n].record] \in Events /\ core'[event'[stk'[n].record]] # Closed
      BY <2>1 DEF MadeLive, Becomes
    <3>1. CASE n = Len(stk)
      BY <2>1, <2>2, <2>7, <3>1 DEF Becomes
    <3>2. CASE n # Len(stk)
      <4>1. n \in 1..(Len(stk) - 1) /\ stk'[n] = stk[n]
        BY <1>1, <2>1, <3>2 DEF Becomes
      <4> QED
        BY <2>6, <2>8, <2>12, <4>1 DEF CallsInv, MadeLive
    <3> QED
      BY <3>1, <3>2
  <2>14. ClosingLive(stk', event', core', known')
    <3> SUFFICES ASSUME NEW n \in 1..Len(stk), stk'[n].pc \in {"find", "close"}
                 PROVE  /\ stk'[n].arg \in Events \ known' /\ core'[stk'[n].arg] # Closed
                        /\ \A m \in 1..Len(stk) : stk'[m].pc = "done" => event'[stk'[m].record] # stk'[n].arg
                        /\ stk'[n].pc = "close" => event'[stk'[n].record] = stk'[n].arg
      BY <2>1 DEF ClosingLive, Becomes
    <3>1. n \in 1..(Len(stk) - 1) /\ stk'[n] = stk[n]
      BY <1>1, <2>1, <2>2 DEF Becomes
    <3>2. stk[n].arg \in Events \ known /\ core[stk[n].arg] # Closed /\ stk[n].arg # e
      BY <1>3, <3>1 DEF CallsInv, ClosingLive, Live
    <3>3. ASSUME NEW m \in 1..Len(stk), stk'[m].pc = "done"
          PROVE  event'[stk'[m].record] # stk'[n].arg
      <4>1. CASE m = Len(stk)
        BY <2>1, <2>2, <2>7, <3>1, <3>2, <4>1 DEF Becomes
      <4>2. CASE m # Len(stk)
        <5>1. m \in 1..(Len(stk) - 1) /\ stk'[m] = stk[m]
          BY <1>1, <2>1, <4>2 DEF Becomes
        <5> QED
          BY <2>8, <2>12, <3>1, <3>3, <5>1 DEF CallsInv, ClosingLive
      <4> QED
        BY <4>1, <4>2
    <3> QED
      BY <1>3, <2>6, <2>8, <2>12, <3>1, <3>2, <3>3 DEF CallsInv, ClosingLive
  <2> QED
    BY <2>3, <2>5, <2>9, <2>10, <2>11, <2>13, <2>14 DEF CallsInv
<1>4. ASSUME Goto("failed"), UNCHANGED <<eventList, heap, event, core, known, fault>>,
             failures < MaxFailures, failures' = failures + 1
      PROVE  CallsInv'
  <2> DEFINE f == [pc |-> "failed", tpl |-> Top.tpl, arg |-> Top.arg, record |-> Top.record]
  <2>1. Becomes(f)
    BY <1>1, <1>4, GotoStep DEF Pcs
  <2>2. f.pc = "failed" /\ f.record = Top.record
    OBVIOUS
  <2> HIDE DEF f
  <2>3. KnownOpen(known', core')
    BY <1>1, <1>4, <2>1, EventAssumption DEF CallsInv, TypeOK, Becomes, KnownOpen, Live
  <2>4. ClosersAlone(stk', event')
    BY <1>1, <1>4, <2>1, <2>2 DEF CallsInv, ClosersAlone, Becomes, Closers
  <2>5. HeldApart(stk', heap')
    BY <1>1, <1>4, <2>1, <2>2 DEF CallsInv, HeldApart, Becomes, Holding, Held
  <2>6. MadeLive(stk', event', core') /\ ClosingLive(stk', event', core', known')
    BY <1>1, <1>4, <2>1, <2>2 DEF CallsInv, MadeLive, ClosingLive, Becomes
  <2> QED
    BY <1>4, <2>3, <2>4, <2>5, <2>6 DEF CallsInv
<1> QED
  BY <1>3, <1>4 DEF CoreCreateEvent

LEMMA CreateFailedCalls ==
  ASSUME CallsInv, TypeOK', HaveRecords(stk'), ~crossed', fault = "none", CreateFailed
  PROVE  CallsInv'
<1> DEFINE f == [pc |-> "client", tpl |-> Top.tpl, arg |-> NoEvent, record |-> NoRecord]
<1>1. TypeOK /\ Becomes(f)
  BY CallStep DEF CreateFailed, CallsInv, Pcs
<1>2. Len(stk) \in Nat \ {0} /\ Top = stk[Len(stk)] /\ Top \in Frame /\ Top.pc = "failed"
  BY <1>1, TopFacts DEF CreateFailed, At
<1>3. f.pc = "client"
  OBVIOUS
<1> HIDE DEF f
<1>4. heap' = heap \ {Top.record} /\ UNCHANGED <<eventList, event, core, known, failures, fault>>
  BY DEF CreateFailed
<1>5. KnownOpen(known', core')
  BY <1>1, <1>4 DEF CallsInv, TypeOK, Becomes, KnownOpen, Live
<1>6. ClosersAlone(stk', event')
  BY <1>1, <1>2, <1>3, <1>4 DEF CallsInv, ClosersAlone, Becomes, Closers
<1>7. HeldApart(stk', heap')
  BY <1>1, <1>2, <1>3, <1>4 DEF CallsInv, HeldApart, Becomes, Holding, Held
<1>8. MadeLive(stk', event', core') /\ ClosingLive(stk', event', core', known')
  BY <1>1, <1>2, <1>3, <1>4 DEF CallsInv, MadeLive, ClosingLive, Becomes
<1> QED
  BY <1>4, <1>5, <1>6, <1>7, <1>8 DEF CallsInv

LEMMA CreateDoneCalls ==
  ASSUME CallsInv, TypeOK', HaveRecords(stk'), ~crossed', fault = "none", CreateDone
  PROVE  CallsInv'
<1> DEFINE f == [pc |-> "client", tpl |-> Top.tpl, arg |-> NoEvent, record |-> NoRecord]
<1>1. TypeOK /\ Becomes(f)
  BY CallStep DEF CreateDone, CallsInv, Pcs
<1>2. Len(stk) \in Nat \ {0} /\ Top = stk[Len(stk)] /\ Top \in Frame /\ Top.pc = "done"
  BY <1>1, TopFacts DEF CreateDone, At
<1>3. f.pc = "client"
  OBVIOUS
<1> HIDE DEF f
<1>4. Top.record \in heap /\ event[Top.record] \in Events /\ Live(event[Top.record])
  BY <1>2 DEF CallsInv, HeldApart, MadeLive, Holding, Held, Live
<1>5. fault' = "none" /\ known' = known \cup {event[Top.record]}
      /\ UNCHANGED <<eventList, heap, event, core, failures>>
  BY <1>4 DEF CreateDone, Touch
<1>6. KnownOpen(known', core')
  BY <1>1, <1>4, <1>5 DEF CallsInv, TypeOK, Becomes, KnownOpen, Live
<1>7. ClosersAlone(stk', event')
  BY <1>1, <1>2, <1>3, <1>5 DEF CallsInv, ClosersAlone, Becomes, Closers
<1>8. HeldApart(stk', heap')
  BY <1>1, <1>2, <1>3, <1>5 DEF CallsInv, HeldApart, Becomes, Holding, Held
<1>9. MadeLive(stk', event', core')
  BY <1>1, <1>2, <1>3, <1>5 DEF CallsInv, MadeLive, Becomes
<1>10. ClosingLive(stk', event', core', known')
  <2> SUFFICES ASSUME NEW n \in 1..Len(stk), stk'[n].pc \in {"find", "close"}
               PROVE  /\ stk'[n].arg \in Events \ known' /\ core'[stk'[n].arg] # Closed
                      /\ \A m \in 1..Len(stk) : stk'[m].pc = "done" => event'[stk'[m].record] # stk'[n].arg
                      /\ stk'[n].pc = "close" => event'[stk'[n].record] = stk'[n].arg
    BY <1>1 DEF ClosingLive, Becomes
  <2>1. n \in 1..(Len(stk) - 1) /\ stk'[n] = stk[n]
    BY <1>1, <1>2, <1>3 DEF Becomes
  <2>2. /\ stk[n].arg \in Events \ known /\ core[stk[n].arg] # Closed
        /\ \A m \in 1..Len(stk) : stk[m].pc = "done" => event[stk[m].record] # stk[n].arg
        /\ stk[n].pc = "close" => event[stk[n].record] = stk[n].arg
    BY <2>1 DEF CallsInv, ClosingLive
  <2>3. event[Top.record] # stk[n].arg
    BY <1>2, <2>2
  <2>4. \A m \in 1..Len(stk) : stk'[m].pc = "done" => stk[m].pc = "done" /\ stk'[m] = stk[m]
    BY <1>1, <1>2, <1>3 DEF Becomes
  <2> QED
    BY <1>5, <2>1, <2>2, <2>3, <2>4
<1> QED
  BY <1>5, <1>6, <1>7, <1>8, <1>9, <1>10 DEF CallsInv

\* The first record of the list.
LEMMA FirstListed ==
  ASSUME TypeOK
  PROVE  \/ First = NoRecord
         \/ First \in Records /\ \E i \in DOMAIN eventList : eventList[i] = First
<1>1. eventList \in Seq(Records)
  BY DEF TypeOK
<1>2. CASE eventList # <<>>
  <2>1. Head(eventList) = eventList[1] /\ 1 \in DOMAIN eventList /\ eventList[1] \in Records
    BY <1>1, <1>2
  <2> QED
    BY <1>2, <2>1 DEF First
<1>3. CASE eventList = <<>>
  <2>1. First = NoRecord
    BY <1>3 DEF First
  <2> QED
    BY <2>1
<1> QED
  BY <1>2, <1>3

\* What a notification closes without crossing a wrapper, that one does not
\* deal with.
LEMMA NotDealtWith ==
  ASSUME TypeOK, HaveRecords(stk), NEW e \in Events, NEW m \in 1..(Len(stk) - 1),
         ~DealsWith(stk[m], e), stk[m].pc # "client"
  PROVE  /\ Elsewhere(stk[m], event, e)
         /\ stk[m].record \in Records => event[stk[m].record] # e
<1>1. m \in 1..Len(stk)
  BY TopFacts
<1> QED
  BY <1>1 DEF DealsWith, Elsewhere, HaveRecords

LEMMA CloseCalledCalls ==
  ASSUME CallsInv, TypeOK', HaveRecords(stk'), ~crossed', fault = "none", CloseCalled
  PROVE  CallsInv'
<1>1. PICK e \in Events :
        /\ Live(e) /\ known' = known \ {e} /\ Call("find", e, First)
        /\ crossed' = (crossed \/ \E n \in 1..(Len(stk) - 1) : DealsWith(stk[n], e))
  BY DEF CloseCalled
<1> DEFINE f == [pc |-> "find", tpl |-> Top.tpl, arg |-> e, record |-> First]
<1>2. TypeOK /\ Becomes(f)
  BY <1>1, CallStep, FirstListed DEF CallsInv, Pcs
<1>3. Len(stk) \in Nat \ {0}
  BY <1>2, TopFacts
<1>4. f.pc = "find" /\ f.arg = e
  OBVIOUS
<1> HIDE DEF f
<1>5. UNCHANGED <<eventList, heap, event, core, failures, fault>>
  BY DEF CloseCalled
<1>6. KnownOpen(known', core')
  BY <1>1, <1>5 DEF CallsInv, KnownOpen
<1>7. \A m \in 1..(Len(stk) - 1) : stk[m].pc # "client" => Elsewhere(stk[m], event, e)
  BY <1>1, <1>2, NotDealtWith DEF CallsInv
<1>8. ClosersAlone(stk', event')
  <2> SUFFICES ASSUME NEW n \in 1..Len(stk), stk'[n].pc \in Closers, NEW m \in 1..(n - 1),
                      stk'[m].pc # "client"
               PROVE  Elsewhere(stk'[m], event', stk'[n].arg)
    BY <1>2 DEF ClosersAlone, Becomes
  <2>1. m \in 1..(Len(stk) - 1) /\ stk'[m] = stk[m]
    BY <1>2, <1>3 DEF Becomes
  <2>2. CASE n = Len(stk)
    BY <1>2, <1>4, <1>5, <1>7, <2>1, <2>2 DEF Becomes, Elsewhere
  <2>3. CASE n # Len(stk)
    <3>1. stk'[n] = stk[n]
      BY <1>2, <1>3, <2>3 DEF Becomes
    <3> QED
      BY <1>5, <2>1, <3>1 DEF CallsInv, ClosersAlone, Elsewhere
  <2> QED
    BY <2>2, <2>3
<1>9. HeldApart(stk', heap')
  BY <1>2, <1>3, <1>4, <1>5 DEF CallsInv, HeldApart, Becomes, Holding, Held
<1>10. \A n \in 1..Len(stk) : stk'[n].pc = "done" => n \in 1..(Len(stk) - 1) /\ stk'[n] = stk[n]
  BY <1>2, <1>3, <1>4 DEF Becomes
<1>11. MadeLive(stk', event', core')
  BY <1>2, <1>3, <1>5, <1>10 DEF CallsInv, MadeLive, Becomes
<1>12. ClosingLive(stk', event', core', known')
  <2> SUFFICES ASSUME NEW n \in 1..Len(stk), stk'[n].pc \in {"find", "close"}
               PROVE  /\ stk'[n].arg \in Events \ known' /\ core'[stk'[n].arg] # Closed
                      /\ \A m \in 1..Len(stk) : stk'[m].pc = "done" => event'[stk'[m].record] # stk'[n].arg
                      /\ stk'[n].pc = "close" => event'[stk'[n].record] = stk'[n].arg
    BY <1>2 DEF ClosingLive, Becomes
  <2>1. CASE n = Len(stk)
    <3>1. stk'[n].pc = "find" /\ stk'[n].arg = e
      BY <1>2, <1>4, <2>1 DEF Becomes
    <3>2. \A m \in 1..Len(stk) : stk'[m].pc = "done" => event'[stk'[m].record] # e
      BY <1>5, <1>7, <1>10 DEF Elsewhere, Holding, Held
    <3> QED
      BY <1>1, <1>5, <3>1, <3>2 DEF Live
  <2>2. CASE n # Len(stk)
    <3>1. n \in 1..(Len(stk) - 1) /\ stk'[n] = stk[n]
      BY <1>2, <1>3, <2>2 DEF Becomes
    <3>2. \A m \in 1..Len(stk) : stk'[m].pc = "done" => event'[stk'[m].record] # stk[n].arg
      BY <1>3, <1>5, <1>10, <3>1 DEF CallsInv, ClosingLive
    <3> QED
      BY <1>1, <1>3, <1>5, <3>1, <3>2 DEF CallsInv, ClosingLive
  <2> QED
    BY <2>1, <2>2
<1> QED
  BY <1>5, <1>6, <1>8, <1>9, <1>11, <1>12 DEF CallsInv

\* The least of a set of places is in it.
LEMMA LeastPlace ==
  ASSUME NEW S \in SUBSET Nat, S # {}
  PROVE  Min(S) \in S
<1>1. PICK x \in S : \A y \in S : ~(<<y, x>> \in OpToRel(<, Nat))
  BY NatLessThanWellFounded, WFMin
<1>2. \A y \in S : ~(y < x)
  BY <1>1 DEF OpToRel
<1>3. \A y \in S : x <= y
  BY <1>2
<1> QED
  BY <1>3 DEF Min

\* The record after one of the list.
LEMMA AfterListed ==
  ASSUME TypeOK, NEW r
  PROVE  \/ After(r) = NoRecord
         \/ After(r) \in Records /\ \E i \in DOMAIN eventList : eventList[i] = After(r)
<1> DEFINE I == {i \in 1..Len(eventList) : eventList[i] = r}
<1>1. eventList \in Seq(Records) /\ I \in SUBSET Nat
  BY DEF TypeOK
<1>2. Place(r) = IF I # {} THEN Min(I) ELSE 0
  BY DEF Place, SelectInSeq
<1>3. CASE I = {}
  <2>1. Place(r) \in {0, Len(eventList)}
    BY <1>2, <1>3
  <2>2. After(r) = NoRecord
    BY <2>1 DEF After
  <2> QED
    BY <2>2
<1>4. CASE I # {}
  <2>2. Min(I) \in I
    BY <1>1, <1>4, LeastPlace
  <2>3. Place(r) \in 1..Len(eventList)
    BY <1>2, <1>4, <2>2
  <2> HIDE DEF I
  <2>4. CASE Place(r) = Len(eventList)
    <3>1. Place(r) \in {0, Len(eventList)}
      BY <2>4
    <3>2. After(r) = NoRecord
      BY <3>1 DEF After
    <3> QED
      BY <3>2
  <2>5. CASE Place(r) # Len(eventList)
    <3>1. Place(r) + 1 \in DOMAIN eventList /\ After(r) = eventList[Place(r) + 1]
      BY <1>1, <2>3, <2>5 DEF After
    <3> QED
      BY <1>1, <3>1
  <2> QED
    BY <2>4, <2>5
<1> QED
  BY <1>3, <1>4

LEMMA FindEventCalls ==
  ASSUME CallsInv, TypeOK', HaveRecords(stk'), ~crossed', fault = "none", FindEvent
  PROVE  CallsInv'
<1>1. TypeOK /\ Len(stk) \in Nat \ {0} /\ Top = stk[Len(stk)] /\ Top \in Frame /\ Top.pc = "find"
  BY TopFacts DEF FindEvent, At, CallsInv
<1>2. UNCHANGED <<eventList, heap, event, core, known, failures>>
  BY DEF FindEvent
<1>3. /\ Top.arg \in Events \ known /\ core[Top.arg] # Closed
      /\ \A m \in 1..Len(stk) : stk[m].pc = "done" => event[stk[m].record] # Top.arg
  BY <1>1 DEF CallsInv, ClosingLive
<1>4. \A m \in 1..(Len(stk) - 1) : stk[m].pc # "client" => Elsewhere(stk[m], event, Top.arg)
  BY <1>1 DEF CallsInv, ClosersAlone, Closers
<1>5. CASE Top.record = NoRecord
  <2>1. fault' = "null" /\ UNCHANGED stk
    BY <1>5 DEF FindEvent
  <2>2. KnownOpen(known', core')
    BY <1>1, <1>2, <2>1 DEF CallsInv, TypeOK, KnownOpen, Live
  <2>3. /\ ClosersAlone(stk, event) /\ HeldApart(stk, heap)
        /\ MadeLive(stk, event, core) /\ ClosingLive(stk, event, core, known)
    BY DEF CallsInv
  <2>4. /\ ClosersAlone(stk', event') /\ HeldApart(stk', heap')
        /\ MadeLive(stk', event', core') /\ ClosingLive(stk', event', core', known')
    BY <1>2, <2>1, <2>3
  <2> QED
    BY <2>1, <2>2, <2>4 DEF CallsInv
<1>6. CASE Top.record # NoRecord /\ event[Top.record] = Top.arg
  <2> DEFINE f == [pc |-> "close", tpl |-> Top.tpl, arg |-> Top.arg, record |-> Top.record]
  <2>1. Becomes(f)
    BY <1>1, <1>6, GotoStep DEF FindEvent, Pcs
  <2>2. f.pc = "close" /\ f.arg = Top.arg /\ f.record = Top.record
    OBVIOUS
  <2> HIDE DEF f
  <2>3. fault' = IF Top.record \in heap THEN "none" ELSE "find"
    BY <1>6 DEF FindEvent, Touch
  <2>4. KnownOpen(known', core')
    BY <1>1, <1>2, <2>1, <2>3 DEF CallsInv, TypeOK, Becomes, KnownOpen, Live
  <2>5. \A n \in 1..Len(stk) : IF n = Len(stk) THEN stk'[n] = f ELSE stk'[n] = stk[n]
    BY <1>1, <2>1 DEF Becomes
  <2>6. ClosersAlone(stk', event')
    BY <1>1, <1>2, <2>1, <2>2, <2>5 DEF CallsInv, ClosersAlone, Closers, Becomes
  <2>7. Top.record \in heap => HeldApart(stk', heap')
    <3> SUFFICES ASSUME Top.record \in heap PROVE HeldApart(stk', heap')
      OBVIOUS
    <3>1. \A m \in 1..(Len(stk) - 1) : Holding(stk[m]) => stk[m].record # Top.record
      BY <1>4, <1>6 DEF Elsewhere, Holding, Held
    <3>2. \A m \in 1..Len(stk) : m = Len(stk) \/ m \in 1..(Len(stk) - 1)
      BY <1>1
    <3>3. \A m \in 1..Len(stk) : m # Len(stk) /\ Holding(stk'[m]) => stk'[m].record # f.record
      BY <2>2, <2>5, <3>1, <3>2
    <3> QED
      BY <1>1, <1>2, <2>1, <2>2, <2>5, <3>3 DEF CallsInv, HeldApart, Becomes
  <2>8. MadeLive(stk', event', core')
    BY <1>2, <2>1, <2>2, <2>5 DEF CallsInv, MadeLive, Becomes
  <2>9. ClosingLive(stk', event', core', known')
    BY <1>1, <1>2, <1>3, <1>6, <2>1, <2>2, <2>5 DEF CallsInv, ClosingLive, Becomes
  <2> QED
    BY <2>3, <2>4, <2>6, <2>7, <2>8, <2>9 DEF CallsInv
<1>7. CASE Top.record # NoRecord /\ event[Top.record] # Top.arg
  <2> DEFINE f == [pc |-> "find", tpl |-> Top.tpl, arg |-> Top.arg, record |-> After(Top.record)]
  <2>1. Becomes(f)
    BY <1>1, <1>3, <1>7, CallStep, AfterListed DEF FindEvent, Pcs
  <2>2. f.pc = "find" /\ f.arg = Top.arg
    OBVIOUS
  <2> HIDE DEF f
  <2>3. fault' = IF Top.record \in heap THEN "none" ELSE "find"
    BY <1>7 DEF FindEvent, Touch
  <2>4. KnownOpen(known', core')
    BY <1>1, <1>2, <2>1, <2>3 DEF CallsInv, TypeOK, Becomes, KnownOpen, Live
  <2>5. \A n \in 1..Len(stk) : IF n = Len(stk) THEN stk'[n] = f ELSE stk'[n] = stk[n]
    BY <1>1, <2>1 DEF Becomes
  <2>6. ClosersAlone(stk', event')
    BY <1>1, <1>2, <2>1, <2>2, <2>5 DEF CallsInv, ClosersAlone, Closers, Becomes
  <2>7. HeldApart(stk', heap')
    BY <1>2, <2>1, <2>2, <2>5 DEF CallsInv, HeldApart, Holding, Held, Becomes
  <2>8. MadeLive(stk', event', core')
    BY <1>2, <2>1, <2>2, <2>5 DEF CallsInv, MadeLive, Becomes
  <2>9. ClosingLive(stk', event', core', known')
    BY <1>1, <1>2, <1>3, <2>1, <2>2, <2>5 DEF CallsInv, ClosingLive, Becomes
  <2> QED
    BY <2>3, <2>4, <2>6, <2>7, <2>8, <2>9 DEF CallsInv
<1> QED
  BY <1>5, <1>6, <1>7

LEMMA CoreCloseEventCalls ==
  ASSUME CallsInv, TypeOK', HaveRecords(stk'), ~crossed', fault = "none", CoreCloseEvent
  PROVE  CallsInv'
<1> DEFINE f == [pc |-> "remove", tpl |-> Top.tpl, arg |-> Top.arg, record |-> Top.record]
<1>1. TypeOK /\ Becomes(f)
  BY GotoStep DEF CoreCloseEvent, CallsInv, Pcs
<1>2. Len(stk) \in Nat \ {0} /\ Top = stk[Len(stk)] /\ Top \in Frame /\ Top.pc = "close"
  BY <1>1, TopFacts DEF CoreCloseEvent, At
<1>3. f.pc = "remove" /\ f.record = Top.record /\ f.arg = Top.arg
  OBVIOUS
<1> HIDE DEF f
<1>4. Top.record \in heap /\ Top.arg \in Events \ known /\ event[Top.record] = Top.arg
  BY <1>2 DEF CallsInv, HeldApart, ClosingLive, Holding, Held
<1>5. /\ fault' = "none" /\ UNCHANGED <<eventList, heap, event, known, failures>>
      /\ core' = [e \in Events |-> IF e = Top.arg THEN Closed ELSE core[e]]
  BY <1>4 DEF CoreCloseEvent, Touch
<1>6. TypeOK'
  OBVIOUS
<1>7. KnownOpen(known', core')
  BY <1>4, <1>5, <1>1 DEF CallsInv, TypeOK, KnownOpen
<1>8. \A n \in 1..Len(stk) : IF n = Len(stk) THEN stk'[n] = f
                              ELSE n \in 1..(Len(stk) - 1) /\ stk'[n] = stk[n]
  BY <1>1, <1>2 DEF Becomes
<1>9. ClosersAlone(stk', event')
  <2>1. \A n \in 1..Len(stk) : stk'[n].pc \in Closers =>
          stk[n].pc \in Closers /\ stk'[n].arg = stk[n].arg
    BY <1>2, <1>3, <1>8 DEF Closers
  <2>2. \A n \in 1..Len(stk) : \A m \in 1..(n - 1) : m \in 1..Len(stk) /\ stk'[m] = stk[m]
    BY <1>2, <1>8
  <2>3. ClosersAlone(stk, event) /\ UNCHANGED event /\ Len(stk') = Len(stk)
    BY <1>1, <1>5 DEF CallsInv, Becomes
  <2> QED
    BY <2>1, <2>2, <2>3 DEF ClosersAlone
<1>10. HeldApart(stk', heap')
  BY <1>1, <1>2, <1>3, <1>5, <1>8 DEF CallsInv, HeldApart, Holding, Held, Becomes
<1>11. MadeLive(stk', event', core') /\ ClosingLive(stk', event', core', known')
  <2>1. \A m \in 1..(Len(stk) - 1) : stk[m].pc # "client" => Elsewhere(stk[m], event, Top.arg)
    BY <1>2 DEF CallsInv, ClosersAlone, Closers
  <2>2. \A n \in 1..Len(stk) : stk'[n].pc \in {"done", "find", "close"} =>
          n \in 1..(Len(stk) - 1) /\ stk'[n] = stk[n]
    BY <1>3, <1>8
  <2>3. \A m \in 1..(Len(stk) - 1) : stk[m].pc = "done" => event[stk[m].record] # Top.arg
    BY <2>1 DEF Elsewhere, Holding, Held
  <2>4. \A m \in 1..(Len(stk) - 1) : stk[m].pc \in {"find", "close"} => stk[m].arg # Top.arg
    BY <2>1 DEF Elsewhere
  <2>5. MadeLive(stk', event', core')
    <3> SUFFICES ASSUME NEW n \in 1..Len(stk), stk'[n].pc = "done"
                 PROVE  event'[stk'[n].record] \in Events /\ core'[event'[stk'[n].record]] # Closed
      BY <1>1 DEF MadeLive, Becomes
    <3>1. event[stk[n].record] \in Events /\ core[event[stk[n].record]] # Closed /\ stk'[n] = stk[n]
      BY <2>2 DEF CallsInv, MadeLive
    <3> QED
      BY <1>5, <2>2, <2>3, <3>1
  <2>6. ClosingLive(stk', event', core', known')
    <3> SUFFICES ASSUME NEW n \in 1..Len(stk), stk'[n].pc \in {"find", "close"}
                 PROVE  /\ stk'[n].arg \in Events \ known' /\ core'[stk'[n].arg] # Closed
                        /\ \A m \in 1..Len(stk) : stk'[m].pc = "done" => event'[stk'[m].record] # stk'[n].arg
                        /\ stk'[n].pc = "close" => event'[stk'[n].record] = stk'[n].arg
      BY <1>1 DEF ClosingLive, Becomes
    <3>1. /\ stk'[n] = stk[n] /\ stk[n].arg \in Events \ known /\ core[stk[n].arg] # Closed
          /\ \A m \in 1..Len(stk) : stk[m].pc = "done" => event[stk[m].record] # stk[n].arg
          /\ stk[n].pc = "close" => event[stk[n].record] = stk[n].arg
      BY <2>2 DEF CallsInv, ClosingLive
    <3>2. stk[n].arg # Top.arg
      BY <2>2, <2>4, <3>1
    <3> QED
      BY <1>5, <2>2, <3>1, <3>2
  <2> QED
    BY <2>5, <2>6
<1> QED
  BY <1>5, <1>6, <1>7, <1>9, <1>10, <1>11 DEF CallsInv

\* Where a record is on the list, and what is left without it.
LEMMA PlaceOK ==
  ASSUME TypeOK, NEW r, NEW i \in DOMAIN eventList, eventList[i] = r
  PROVE  Place(r) \in DOMAIN eventList /\ eventList[Place(r)] = r
<1> DEFINE I == {j \in 1..Len(eventList) : eventList[j] = r}
<1>1. I \in SUBSET Nat /\ i \in I
  BY DEF TypeOK
<1>2. Place(r) = Min(I)
  BY <1>1 DEF Place, SelectInSeq
<1>3. Min(I) \in I
  BY <1>1, LeastPlace
<1> QED
  BY <1>2, <1>3 DEF TypeOK

LEMMA PlaceNone ==
  ASSUME TypeOK, NEW r, \A i \in DOMAIN eventList : eventList[i] # r
  PROVE  Place(r) = 0
<1>1. {j \in 1..Len(eventList) : eventList[j] = r} = {}
  BY DEF TypeOK
<1> QED
  BY <1>1 DEF Place, SelectInSeq

\* A list without one of its entries.
LEMMA ListWithout ==
  ASSUME NEW l \in Seq(Records), NEW p \in 1..Len(l)
  PROVE  /\ RemoveAt(l, p) \in Seq(Records)
         /\ Len(RemoveAt(l, p)) = Len(l) - 1
         /\ \A j \in 1..(Len(l) - 1) : RemoveAt(l, p)[j] = l[IF j < p THEN j ELSE j + 1]
<1> DEFINE a == SubSeq(l, 1, p - 1)
           b == SubSeq(l, p + 1, Len(l))
<1>1. Len(l) \in Nat /\ p \in Int /\ \A i \in 1..Len(l) : l[i] \in Records
  OBVIOUS
<1>2. a \in Seq(Records) /\ Len(a) = p - 1 /\ \A j \in 1..(p - 1) : a[j] = l[j]
  BY <1>1
<1>3. b \in Seq(Records) /\ Len(b) = Len(l) - p /\ \A j \in 1..(Len(l) - p) : b[j] = l[p + j]
  BY <1>1
<1>4. RemoveAt(l, p) = a \o b
  BY DEF RemoveAt
<1> HIDE DEF a, b
<1>5. /\ a \o b \in Seq(Records) /\ Len(a \o b) = Len(l) - 1
      /\ \A j \in 1..(Len(l) - 1) : (a \o b)[j] = IF j <= Len(a) THEN a[j] ELSE b[j - Len(a)]
  BY <1>1, <1>2, <1>3, ConcatProperties
<1>6. ASSUME NEW j \in 1..(Len(l) - 1)
      PROVE  (a \o b)[j] = l[IF j < p THEN j ELSE j + 1]
  <2>1. CASE j < p
    BY <1>1, <1>2, <1>5, <2>1
  <2>2. CASE ~(j < p)
    <3>1. (a \o b)[j] = b[j - (p - 1)] /\ j - (p - 1) \in 1..(Len(l) - p) /\ p + (j - (p - 1)) = j + 1
      BY <1>1, <1>2, <1>5, <2>2
    <3>2. b[j - (p - 1)] = l[p + (j - (p - 1))]
      BY <1>3, <3>1
    <3> QED
      BY <2>2, <3>1, <3>2
  <2> QED
    BY <2>1, <2>2
<1> QED
  BY <1>4, <1>5, <1>6

\* RemoveEntryList, whether the record is on the list or not.
LEMMA RemovedOK ==
  ASSUME TypeOK, NEW r
  PROVE  RemoveAt(eventList, Place(r)) \in Seq(Records)
<1>1. eventList \in Seq(Records)
  BY DEF TypeOK
<1>2. CASE \E i \in DOMAIN eventList : eventList[i] = r
  BY <1>1, <1>2, PlaceOK, ListWithout
<1>3. CASE \A i \in DOMAIN eventList : eventList[i] # r
  <2>1. Place(r) = 0
    BY <1>3, PlaceNone
  <2>2. RemoveAt(eventList, 0) = SubSeq(eventList, 1, -1) \o SubSeq(eventList, 1, Len(eventList))
    BY DEF RemoveAt
  <2>3. SubSeq(eventList, 1, -1) \in Seq(Records) /\ SubSeq(eventList, 1, Len(eventList)) \in Seq(Records)
    BY <1>1, SubSeqProperties
  <2> QED
    BY <2>1, <2>2, <2>3, ConcatProperties
<1> QED
  BY <1>2, <1>3

LEMMA RemoveRecordCalls ==
  ASSUME CallsInv, TypeOK', HaveRecords(stk'), ~crossed', fault = "none", RemoveRecord
  PROVE  CallsInv'
<1> DEFINE f == [pc |-> "free", tpl |-> Top.tpl, arg |-> Top.arg, record |-> Top.record]
<1>1. TypeOK /\ Becomes(f)
  BY GotoStep DEF RemoveRecord, CallsInv, Pcs
<1>2. Len(stk) \in Nat \ {0} /\ Top = stk[Len(stk)] /\ Top \in Frame /\ Top.pc = "remove"
  BY <1>1, TopFacts DEF RemoveRecord, At
<1>3. f.pc = "free" /\ f.record = Top.record /\ f.arg = Top.arg
  OBVIOUS
<1> HIDE DEF f
<1>4. Top.record \in heap
  BY <1>2 DEF CallsInv, HeldApart, Holding, Held
<1>5. /\ fault' = "none" /\ UNCHANGED <<heap, event, core, known, failures>>
      /\ eventList' \in Seq(Records)
  BY <1>1, <1>4, RemovedOK DEF RemoveRecord, Touch
<1>6. KnownOpen(known', core')
  BY <1>1, <1>5 DEF CallsInv, TypeOK, Becomes, KnownOpen, Live
<1>7. ClosersAlone(stk', event')
  BY <1>1, <1>2, <1>3, <1>5 DEF CallsInv, ClosersAlone, Closers, Becomes
<1>8. HeldApart(stk', heap')
  BY <1>1, <1>2, <1>3, <1>5 DEF CallsInv, HeldApart, Holding, Held, Becomes
<1>9. MadeLive(stk', event', core')
  BY <1>1, <1>2, <1>3, <1>5 DEF CallsInv, MadeLive, Becomes
<1>10. ClosingLive(stk', event', core', known')
  BY <1>1, <1>2, <1>3, <1>5 DEF CallsInv, ClosingLive, Becomes
<1> QED
  BY <1>5, <1>6, <1>7, <1>8, <1>9, <1>10 DEF CallsInv

LEMMA FreeRecordCalls ==
  ASSUME CallsInv, TypeOK', HaveRecords(stk'), ~crossed', fault = "none", FreeRecord
  PROVE  CallsInv'
<1> DEFINE f == [pc |-> "client", tpl |-> Top.tpl, arg |-> NoEvent, record |-> NoRecord]
<1>1. TypeOK /\ Becomes(f)
  BY CallStep DEF FreeRecord, CallsInv, Pcs
<1>2. Len(stk) \in Nat \ {0} /\ Top = stk[Len(stk)] /\ Top \in Frame /\ Top.pc = "free"
  BY <1>1, TopFacts DEF FreeRecord, At
<1>3. f.pc = "client"
  OBVIOUS
<1> HIDE DEF f
<1>4. Top.record \in heap
  BY <1>2 DEF CallsInv, HeldApart, Holding, Held
<1>5. /\ fault' = "none" /\ UNCHANGED <<eventList, event, core, known, failures>>
      /\ heap' = heap \ {Top.record}
  BY <1>4 DEF FreeRecord, Touch
<1>6. KnownOpen(known', core')
  BY <1>1, <1>5 DEF CallsInv, TypeOK, Becomes, KnownOpen, Live
<1>7. \A n \in 1..Len(stk) : stk'[n] = stk[n] \/ stk'[n].pc = "client"
  BY <1>1, <1>2, <1>3 DEF Becomes
<1>8. ClosersAlone(stk', event') /\ HeldApart(stk', heap')
  <2>1. ClosersAlone(stk', event')
    BY <1>1, <1>2, <1>3, <1>5 DEF CallsInv, ClosersAlone, Closers, Becomes
  <2>2. HeldApart(stk', heap')
    BY <1>1, <1>2, <1>3, <1>5 DEF CallsInv, HeldApart, Holding, Held, Becomes
  <2> QED
    BY <2>1, <2>2
<1>9. MadeLive(stk', event', core') /\ ClosingLive(stk', event', core', known')
  BY <1>1, <1>2, <1>3, <1>5, <1>7 DEF CallsInv, MadeLive, ClosingLive, Becomes
<1> QED
  BY <1>5, <1>6, <1>8, <1>9 DEF CallsInv

\* A notification on top of the stack.
Pushes(f) ==
  /\ stk' \in Seq(Frame) /\ Len(stk') = Len(stk) + 1 /\ Len(stk') \in 1..(MaxTpl + 1)
  /\ stk'[Len(stk')] = f
  /\ \A n \in 1..Len(stk) : stk'[n] = stk[n]

LEMMA DispatchStep ==
  ASSUME TypeOK, Rising(stk), DispatchEvent
  PROVE  \E e \in Events :
           /\ core[e].record # NoRecord /\ core[e].tpl > Top.tpl
           /\ Pushes([pc |-> "notify", tpl |-> core[e].tpl, arg |-> e, record |-> core[e].record])
<1>1. PICK e \in Events :
        /\ core[e].record # NoRecord
        /\ core[e].tpl > Top.tpl
        /\ stk' = Append(stk, [pc |-> "notify", tpl |-> core[e].tpl, arg |-> e, record |-> core[e].record])
  BY DEF DispatchEvent
<1> DEFINE f == [pc |-> "notify", tpl |-> core[e].tpl, arg |-> e, record |-> core[e].record]
<1>2. core[e].tpl \in 0..MaxTpl /\ core[e].record \in Records \cup {NoRecord}
  BY DEF TypeOK
<1>3. f \in Frame
  BY <1>2 DEF Frame, Pcs
<1>4. Top.tpl >= Len(stk) - 1 /\ Top.tpl \in Nat
  BY TopFacts DEF Rising, Frame
<1>5. stk \in Seq(Frame) /\ Len(stk) \in Nat /\ MaxTpl \in Nat
  BY TopFacts DEF TypeOK
<1>6. Len(stk) + 1 \in 1..(MaxTpl + 1)
  BY <1>1, <1>2, <1>4, <1>5
<1> HIDE DEF f
<1>7. Pushes(f)
  BY <1>1, <1>3, <1>5, <1>6 DEF f, Pushes
<1> QED
  BY <1>1, <1>7 DEF f

LEMMA DispatchEventCalls ==
  ASSUME CallsInv, TypeOK', HaveRecords(stk'), ~crossed', fault = "none", Rising(stk), DispatchEvent
  PROVE  CallsInv'
<1>1. TypeOK /\ Len(stk) \in Nat \ {0}
  BY TopFacts DEF CallsInv
<1>2. PICK f : Pushes(f) /\ f.pc = "notify"
  <2>1. PICK e \in Events :
          Pushes([pc |-> "notify", tpl |-> core[e].tpl, arg |-> e, record |-> core[e].record])
    BY <1>1, DispatchStep
  <2> DEFINE g == [pc |-> "notify", tpl |-> core[e].tpl, arg |-> e, record |-> core[e].record]
  <2>2. g.pc = "notify"
    OBVIOUS
  <2> HIDE DEF g
  <2>3. Pushes(g)
    BY <2>1 DEF g
  <2> QED
    BY <2>2, <2>3
<1>3. UNCHANGED <<eventList, heap, event, core, known, failures, fault>>
  BY DEF DispatchEvent
<1>4. KnownOpen(known', core')
  BY <1>1, <1>2, <1>3 DEF CallsInv, TypeOK, Pushes, KnownOpen, Live
<1>5. ClosersAlone(stk', event')
  BY <1>1, <1>2, <1>3 DEF CallsInv, ClosersAlone, Closers, Pushes
<1>6. HeldApart(stk', heap')
  BY <1>1, <1>2, <1>3 DEF CallsInv, HeldApart, Holding, Held, Pushes
<1>7. MadeLive(stk', event', core')
  BY <1>1, <1>2, <1>3 DEF CallsInv, MadeLive, Pushes
<1>8. ClosingLive(stk', event', core', known')
  BY <1>1, <1>2, <1>3 DEF CallsInv, ClosingLive, Pushes
<1> QED
  BY <1>3, <1>4, <1>5, <1>6, <1>7, <1>8 DEF CallsInv

LEMMA EventNotifyCalls ==
  ASSUME CallsInv, TypeOK', HaveRecords(stk'), ~crossed', fault = "none", EventNotify
  PROVE  CallsInv'
<1> DEFINE f == [pc |-> "client", tpl |-> Top.tpl, arg |-> Top.arg, record |-> Top.record]
<1>1. TypeOK /\ Becomes(f)
  BY GotoStep DEF EventNotify, CallsInv, Pcs
<1>2. Len(stk) \in Nat \ {0} /\ Top = stk[Len(stk)] /\ Top \in Frame /\ Top.pc = "notify"
  BY <1>1, TopFacts DEF EventNotify, At
<1>3. f.pc = "client"
  OBVIOUS
<1> HIDE DEF f
<1>4. fault' \in {"none", "notify"} /\ UNCHANGED <<eventList, heap, event, core, known, failures>>
  BY DEF EventNotify, Touch
<1>5. KnownOpen(known', core')
  BY <1>1, <1>4 DEF CallsInv, TypeOK, Becomes, KnownOpen, Live
<1>6. ClosersAlone(stk', event')
  BY <1>1, <1>2, <1>3, <1>4 DEF CallsInv, ClosersAlone, Closers, Becomes
<1>7. HeldApart(stk', heap')
  BY <1>1, <1>2, <1>3, <1>4 DEF CallsInv, HeldApart, Holding, Held, Becomes
<1>8. MadeLive(stk', event', core')
  BY <1>1, <1>2, <1>3, <1>4 DEF CallsInv, MadeLive, Becomes
<1>9. ClosingLive(stk', event', core', known')
  BY <1>1, <1>2, <1>3, <1>4 DEF CallsInv, ClosingLive, Becomes
<1> QED
  BY <1>4, <1>5, <1>6, <1>7, <1>8, <1>9 DEF CallsInv

\* The stack without its top frame.
Pops ==
  /\ stk' \in Seq(Frame) /\ Len(stk') = Len(stk) - 1 /\ Len(stk') \in 1..(MaxTpl + 1)
  /\ \A n \in 1..Len(stk') : stk'[n] = stk[n]

LEMMA ReturnStep ==
  ASSUME TypeOK, NotifyReturn
  PROVE  Pops
<1>1. stk \in Seq(Frame) /\ Len(stk) \in 2..(MaxTpl + 1) /\ MaxTpl \in Nat
  BY TopFacts DEF TypeOK, NotifyReturn
<1>2. stk' = SubSeq(stk, 1, Len(stk) - 1)
  BY DEF NotifyReturn, Front
<1> QED
  BY <1>1, <1>2 DEF Pops

LEMMA NotifyReturnCalls ==
  ASSUME CallsInv, TypeOK', HaveRecords(stk'), ~crossed', fault = "none", NotifyReturn
  PROVE  CallsInv'
<1>1. TypeOK /\ Len(stk) \in Nat \ {0} /\ Pops
  BY TopFacts, ReturnStep DEF CallsInv
<1>2. UNCHANGED <<eventList, heap, event, core, known, failures, fault>>
  BY DEF NotifyReturn
<1>3. KnownOpen(known', core')
  BY <1>1, <1>2 DEF CallsInv, TypeOK, Pops, KnownOpen, Live
<1>4. ClosersAlone(stk', event')
  BY <1>1, <1>2 DEF CallsInv, ClosersAlone, Closers, Pops
<1>5. HeldApart(stk', heap')
  BY <1>1, <1>2 DEF CallsInv, HeldApart, Holding, Held, Pops
<1>6. MadeLive(stk', event', core') /\ ClosingLive(stk', event', core', known')
  BY <1>1, <1>2 DEF CallsInv, MadeLive, ClosingLive, Pops
<1> QED
  BY <1>2, <1>3, <1>4, <1>5, <1>6 DEF CallsInv

\* What a wrapper does to the stack leaves its priority as it is.
LEMMA RisingKept ==
  ASSUME TypeOK, Rising(stk), Next
  PROVE  Rising(stk')
<1>0. Len(stk) \in Nat \ {0} /\ Top = stk[Len(stk)] /\ MaxTpl \in Nat
  BY TopFacts
<1>1. ASSUME NEW f, Becomes(f), f.tpl = Top.tpl
      PROVE  Rising(stk')
  BY <1>0, <1>1 DEF Rising, Becomes
<1>2. ASSUME NEW p \in Pcs, Goto(p)
      PROVE  Rising(stk')
  BY <1>1, <1>2, GotoStep
<1>3. ASSUME NEW p \in Pcs, NEW e \in Events \cup {NoEvent}, NEW r \in Records \cup {NoRecord},
             Call(p, e, r)
      PROVE  Rising(stk')
  BY <1>1, <1>3, CallStep
<1>4. CASE CreateRecord
  BY <1>3, <1>4 DEF CreateRecord, Pcs
<1>5. CASE InsertRecord \/ CoreCreateEvent \/ CoreCloseEvent \/ RemoveRecord \/ EventNotify
  BY <1>2, <1>5 DEF InsertRecord, CoreCreateEvent, CoreCloseEvent, RemoveRecord, EventNotify, Pcs
<1>6. CASE CreateFailed \/ CreateDone \/ FreeRecord
  BY <1>3, <1>6 DEF CreateFailed, CreateDone, FreeRecord, Pcs
<1>7. CASE CloseCalled
  BY <1>3, <1>7, FirstListed DEF CloseCalled, Pcs
<1>8. CASE FindEvent
  <2>1. Top.arg \in Events \cup {NoEvent}
    BY TopFacts DEF Frame
  <2>2. After(Top.record) \in Records \cup {NoRecord}
    BY AfterListed
  <2>3. UNCHANGED stk \/ Goto("close") \/ Call("find", Top.arg, After(Top.record))
    BY <1>8 DEF FindEvent
  <2> QED
    BY <1>2, <1>3, <2>1, <2>2, <2>3 DEF Pcs
<1>9. CASE DispatchEvent
  <2>1. PICK e \in Events :
          /\ core[e].tpl > Top.tpl
          /\ Pushes([pc |-> "notify", tpl |-> core[e].tpl, arg |-> e, record |-> core[e].record])
    BY <1>9, DispatchStep
  <2>2. core[e].tpl \in Nat /\ Top.tpl \in Nat /\ Top.tpl >= Len(stk) - 1
    BY <1>0, TopFacts DEF TypeOK, Frame, Rising
  <2>3. stk'[Len(stk')].tpl = core[e].tpl /\ Len(stk') = Len(stk) + 1
        /\ \A n \in 1..Len(stk) : stk'[n] = stk[n]
    BY <2>1 DEF Pushes
  <2>4. core[e].tpl >= Len(stk') - 1
    BY <1>0, <2>1, <2>2, <2>3
  <2> QED
    BY <1>0, <2>3, <2>4 DEF Rising
<1>10. CASE NotifyReturn
  BY <1>0, <1>10, ReturnStep DEF Rising, Pops
<1> QED
  BY <1>4, <1>5, <1>6, <1>7, <1>8, <1>9, <1>10 DEF Next

\* Every variable keeps its type, whatever goes wrong.
LEMMA StepTypes ==
  ASSUME TypesInv, Next
  PROVE  TypeOK' /\ HaveRecords(stk')
<1>0. /\ TypeOK /\ HaveRecords(stk) /\ Rising(stk)
      /\ Len(stk) \in Nat \ {0} /\ Top = stk[Len(stk)] /\ Top \in Frame /\ MaxTpl \in Nat
      /\ Top.record \in Records \cup {NoRecord} /\ Top.arg \in Events \cup {NoEvent}
      /\ Holding(Top) => Top.record \in Records
  BY TopFacts DEF TypesInv, HaveRecords, Frame
<1> DEFINE StackOK == stk' \in Seq(Frame) /\ Len(stk') \in 1..(MaxTpl + 1) /\ HaveRecords(stk')
<1>2. ASSUME NEW f, Becomes(f), Holding(f) => f.record \in Records
      PROVE  StackOK
  <2>1. stk' \in Seq(Frame) /\ Len(stk') = Len(stk)
    BY <1>2 DEF Becomes
  <2>2. Len(stk') \in 1..(MaxTpl + 1)
    BY <1>0, <2>1 DEF TypeOK
  <2>3. ASSUME NEW n \in 1..Len(stk'), Holding(stk'[n]) PROVE stk'[n].record \in Records
    <3>1. CASE n = Len(stk)
      BY <1>2, <2>3, <3>1 DEF Becomes
    <3>2. CASE n # Len(stk)
      <4>1. n \in 1..(Len(stk) - 1) /\ n \in 1..Len(stk)
        BY <1>0, <2>1, <3>2
      <4>2. stk'[n] = stk[n]
        BY <1>2, <4>1 DEF Becomes
      <4> QED
        BY <1>0, <2>3, <4>1, <4>2 DEF HaveRecords
    <3> QED
      BY <3>1, <3>2
  <2> QED
    BY <2>1, <2>2, <2>3 DEF HaveRecords
<1>3. ASSUME NEW p \in Pcs, Goto(p), p \in Held => Top.record \in Records
      PROVE  StackOK
  <2> DEFINE f == [pc |-> p, tpl |-> Top.tpl, arg |-> Top.arg, record |-> Top.record]
  <2>1. Becomes(f)
    BY <1>0, <1>3, GotoStep
  <2>2. Holding(f) => f.record \in Records
    BY <1>3 DEF Holding
  <2> HIDE DEF f
  <2> QED
    BY <1>2, <2>1, <2>2
<1>4. ASSUME NEW p \in Pcs, NEW e \in Events \cup {NoEvent}, NEW q \in Records \cup {NoRecord},
             Call(p, e, q), p \in Held => q \in Records
      PROVE  StackOK
  <2> DEFINE f == [pc |-> p, tpl |-> Top.tpl, arg |-> e, record |-> q]
  <2>1. Becomes(f)
    BY <1>0, <1>4, CallStep
  <2>2. Holding(f) => f.record \in Records
    BY <1>4 DEF Holding
  <2> HIDE DEF f
  <2> QED
    BY <1>2, <2>1, <2>2
<1> DEFINE Faults == {"none", "notify", "find", "null", "insert", "create", "close", "remove", "free"}
<1>1. ASSUME NEW q, NEW w \in Faults, Touch(q, w)
      PROVE  fault' \in Faults
  BY <1>1 DEF Touch
<1>18. fault \in Faults
  BY <1>0 DEF TypeOK
<1>5. ASSUME StackOK, UNCHANGED <<failures, crossed>>,
             eventList' \in Seq(Records), heap' \subseteq Records,
             event' \in [Records -> Events \cup {NoEvent}],
             core' \in [Events -> [tpl : 0..MaxTpl, record : Records \cup {NoRecord}]],
             known' \subseteq Events, fault' \in Faults
      PROVE  TypeOK' /\ HaveRecords(stk')
  BY <1>0, <1>5 DEF TypeOK, StackOK
<1> HIDE DEF StackOK
<1>6. CASE CreateRecord
  <2>1. PICK q \in Records \ heap : heap' = heap \cup {q} /\ Call("insert", NoEvent, q)
    BY <1>6 DEF CreateRecord
  <2>2. StackOK
    BY <1>4, <2>1 DEF Pcs
  <2> QED
    BY <1>0, <1>5, <1>6, <2>1, <2>2 DEF CreateRecord, TypeOK
<1>7. CASE InsertRecord
  <2>1. Top.record \in Records /\ StackOK
    BY <1>0, <1>3, <1>7 DEF InsertRecord, At, Holding, Held, Pcs
  <2> QED
    BY <1>0, <1>5, <1>7, <2>1 DEF InsertRecord, TypeOK
<1>8. CASE CoreCreateEvent
  <2>1. Top.record \in Records
    BY <1>0, <1>8 DEF CoreCreateEvent, At, Holding, Held
  <2>2. ASSUME NEW e \in Events, NEW tpl \in 1..MaxTpl,
               core' = [core EXCEPT ![e] = [tpl |-> tpl, record |-> Top.record]],
               event' = [event EXCEPT ![Top.record] = e],
               Touch(Top.record, "create"), Goto("done"), UNCHANGED <<eventList, heap, known, failures, crossed>>
        PROVE  TypeOK' /\ HaveRecords(stk')
    <3>1. StackOK
      BY <1>3, <2>1, <2>2 DEF Pcs
    <3>2. core' \in [Events -> [tpl : 0..MaxTpl, record : Records \cup {NoRecord}]]
      <4>1. [tpl |-> tpl, record |-> Top.record] \in [tpl : 0..MaxTpl, record : Records \cup {NoRecord}]
        BY <1>0, <2>1
      <4> QED
        BY <1>0, <2>2, <4>1 DEF TypeOK
    <3>3. fault' \in Faults
      BY <1>1, <2>2
    <3> QED
      BY <1>0, <1>5, <2>1, <2>2, <3>1, <3>2, <3>3 DEF TypeOK
  <2>3. ASSUME failures < MaxFailures, failures' = failures + 1, Goto("failed"),
               UNCHANGED <<eventList, heap, event, core, known, crossed, fault>>
        PROVE  TypeOK' /\ HaveRecords(stk')
    <3>1. StackOK
      BY <1>3, <2>1, <2>3 DEF Pcs
    <3> QED
      BY <1>0, <2>3, <3>1, EventAssumption DEF TypeOK, StackOK
  <2> QED
    BY <1>8, <2>2, <2>3 DEF CoreCreateEvent
<1>9. CASE CreateFailed \/ CreateDone
  <2>1. StackOK
    BY <1>4, <1>9 DEF CreateFailed, CreateDone, Pcs, Held
  <2>2. fault' \in Faults
    BY <1>1, <1>18, <1>9 DEF CreateFailed, CreateDone
  <2> QED
    BY <1>0, <1>5, <1>9, <2>1, <2>2 DEF CreateFailed, CreateDone, TypeOK
<1>10. CASE CloseCalled
  <2>1. PICK e \in Events :
          /\ known' = known \ {e} /\ Call("find", e, First)
          /\ crossed' = (crossed \/ \E n \in 1..(Len(stk) - 1) : DealsWith(stk[n], e))
    BY <1>10 DEF CloseCalled
  <2>2. StackOK
    BY <1>0, <1>4, <2>1, FirstListed DEF Pcs, Held
  <2>3. crossed' \in BOOLEAN
    BY <1>0, <2>1 DEF TypeOK
  <2> QED
    BY <1>0, <1>10, <2>1, <2>2, <2>3 DEF CloseCalled, TypeOK, StackOK
<1>11. CASE FindEvent
  <2>1. UNCHANGED stk => StackOK
    BY <1>0 DEF StackOK, TypeOK
  <2>2. Top.record # NoRecord => Top.record \in Records
    BY <1>0
  <2>3. Call("find", Top.arg, After(Top.record)) => StackOK
    BY <1>0, <1>4, AfterListed DEF Pcs, Held
  <2>4. Top.record # NoRecord /\ Goto("close") => StackOK
    BY <1>3, <2>2 DEF Pcs
  <2>5. StackOK
    BY <1>11, <2>1, <2>3, <2>4 DEF FindEvent
  <2>6. fault' \in Faults
    BY <1>1, <1>18, <1>11 DEF FindEvent
  <2> QED
    BY <1>0, <1>5, <1>11, <2>5, <2>6 DEF FindEvent, TypeOK
<1>12. CASE CoreCloseEvent
  <2>1. StackOK
    BY <1>0, <1>3, <1>12 DEF CoreCloseEvent, At, Holding, Held, Pcs
  <2>2. core' \in [Events -> [tpl : 0..MaxTpl, record : Records \cup {NoRecord}]]
    BY <1>0, <1>12 DEF CoreCloseEvent, TypeOK, Closed
  <2>3. fault' \in Faults
    BY <1>1, <1>18, <1>12 DEF CoreCloseEvent
  <2> QED
    BY <1>0, <1>5, <1>12, <2>1, <2>2, <2>3 DEF CoreCloseEvent, TypeOK
<1>13. CASE RemoveRecord
  <2>1. StackOK
    BY <1>0, <1>3, <1>13 DEF RemoveRecord, At, Holding, Held, Pcs
  <2>2. eventList' \in Seq(Records)
    BY <1>0, <1>13, RemovedOK DEF RemoveRecord
  <2>3. fault' \in Faults
    BY <1>1, <1>18, <1>13 DEF RemoveRecord
  <2> QED
    BY <1>0, <1>5, <1>13, <2>1, <2>2, <2>3 DEF RemoveRecord, TypeOK
<1>14. CASE FreeRecord
  <2>1. StackOK
    BY <1>4, <1>14 DEF FreeRecord, Pcs, Held
  <2>2. fault' \in Faults
    BY <1>1, <1>18, <1>14 DEF FreeRecord
  <2> QED
    BY <1>0, <1>5, <1>14, <2>1, <2>2 DEF FreeRecord, TypeOK
<1>15. CASE DispatchEvent
  <2>1. PICK e \in Events :
          Pushes([pc |-> "notify", tpl |-> core[e].tpl, arg |-> e, record |-> core[e].record])
    BY <1>0, <1>15, DispatchStep
  <2>2. StackOK
    <3> DEFINE f == [pc |-> "notify", tpl |-> core[e].tpl, arg |-> e, record |-> core[e].record]
    <3>1. ~Holding(f)
      BY DEF Holding, Held
    <3> HIDE DEF f
    <3>2. Pushes(f)
      BY <2>1 DEF f
    <3> QED
      BY <1>0, <3>1, <3>2 DEF Pushes, StackOK, HaveRecords
  <2> QED
    BY <1>0, <1>5, <1>15, <2>2 DEF DispatchEvent, TypeOK
<1>16. CASE EventNotify
  <2>1. StackOK
    BY <1>3, <1>16 DEF EventNotify, Pcs, Held
  <2>2. fault' \in Faults
    BY <1>1, <1>18, <1>16 DEF EventNotify
  <2> QED
    BY <1>0, <1>5, <1>16, <2>1, <2>2 DEF EventNotify, TypeOK
<1>17. CASE NotifyReturn
  <2>1. Pops
    BY <1>0, <1>17, ReturnStep
  <2>2. StackOK
    BY <1>0, <2>1 DEF Pops, StackOK, HaveRecords
  <2> QED
    BY <1>0, <1>5, <1>17, <2>2 DEF NotifyReturn, TypeOK
<1> QED
  BY <1>6, <1>7, <1>8, <1>9, <1>10, <1>11, <1>12, <1>13, <1>14, <1>15, <1>16, <1>17 DEF Next

LEMMA NextTypes ==
  ASSUME TypesInv, [Next]_vars
  PROVE  TypesInv'
<1>1. CASE Next
  BY <1>1, StepTypes, RisingKept DEF TypesInv
<1>2. CASE UNCHANGED vars
  BY <1>2 DEF vars, TypesInv, TypeOK, HaveRecords, Rising
<1> QED
  BY <1>1, <1>2

LEMMA NextCalls ==
  ASSUME TypesInv, ~crossed => CallsInv, [Next]_vars
  PROVE  ~crossed' => CallsInv'
<1>1. CASE Next
  <2>1. fault = "none" /\ Rising(stk) /\ TypeOK' /\ HaveRecords(stk')
    BY <1>1, NextTypes DEF Next, TypesInv
  <2>2. SUFFICES ASSUME ~crossed' PROVE CallsInv'
    OBVIOUS
  <2>3. ~crossed
    BY <1>1, <2>2 DEF Next, CreateRecord, InsertRecord, CoreCreateEvent, CreateFailed, CreateDone, CloseCalled,
       FindEvent, CoreCloseEvent, RemoveRecord, FreeRecord, DispatchEvent, EventNotify, NotifyReturn
  <2> QED
    BY <1>1, <2>1, <2>2, <2>3, CreateRecordCalls, InsertRecordCalls, CoreCreateEventCalls, CreateFailedCalls,
       CreateDoneCalls, CloseCalledCalls, FindEventCalls, CoreCloseEventCalls, RemoveRecordCalls,
       FreeRecordCalls, DispatchEventCalls, EventNotifyCalls, NotifyReturnCalls
       DEF Next
<1>2. CASE UNCHANGED vars
  BY <1>2 DEF vars, CallsInv, TypeOK, KnownOpen, HaveRecords
<1> QED
  BY <1>1, <1>2

-----------------------------------------------------------------------------
(* Records, list and events agree.                                         *)

\* The record of the wrapper on top is its own.
LEMMA TopHolds ==
  ASSUME CallsInv, fault = "none", Holding(Top)
  PROVE  /\ Top.record \in heap /\ Top.record \in Records
         /\ \A m \in 1..(Len(stk) - 1) : Holding(stk[m]) => stk[m].record # Top.record
<1>1. Len(stk) \in Nat \ {0} /\ Top = stk[Len(stk)] /\ HeldApart(stk, heap) /\ heap \subseteq Records
  BY TopFacts DEF CallsInv, TypeOK
<1>2. Top.record \in heap /\ \A m \in 1..Len(stk) : m # Len(stk) /\ Holding(stk[m]) => stk[m].record # Top.record
  BY <1>1 DEF HeldApart
<1> QED
  BY <1>1, <1>2

\* A walk is at no record of the wrapper on top.
LEMMA WalksOff ==
  ASSUME CallsInv, fault = "none", WalksApart(stk, event), NEW m \in 1..(Len(stk) - 1), stk[m].pc = "find",
         stk[m].record # NoRecord
  PROVE  /\ Holding(Top) => stk[m].record # Top.record
         /\ Top.pc \in Closers => event[stk[m].record] # Top.arg
         /\ stk[m].record \in Records
<1>1. Len(stk) \in 1..Len(stk) /\ Top = stk[Len(stk)] /\ m \in 1..Len(stk) /\ stk[m] \in Frame
  BY TopFacts DEF CallsInv
<1> QED
  BY <1>1 DEF WalksApart, Frame

\* What a wrapper interrupted by the top frame deals with.
LEMMA TopElsewhere ==
  ASSUME CallsInv, fault = "none", Top.pc \in Closers, NEW m \in 1..(Len(stk) - 1), stk[m].pc # "client"
  PROVE  /\ stk[m].arg # Top.arg
         /\ Holding(stk[m]) => event[stk[m].record] # Top.arg
<1>1. Len(stk) \in 1..Len(stk) /\ Top = stk[Len(stk)]
  BY TopFacts DEF CallsInv
<1> QED
  BY <1>1 DEF CallsInv, ClosersAlone, Elsewhere

\* Walks stay apart from a top frame that keeps its record and its event ...
LEMMA WalksKept ==
  ASSUME CallsInv, fault = "none", WalksApart(stk, event), UNCHANGED event, NEW f, Becomes(f),
         Holding(f) => Holding(Top) /\ f.record = Top.record,
         f.pc \in Closers => Top.pc \in Closers /\ f.arg = Top.arg
  PROVE  WalksApart(stk', event')
<1>1. Len(stk) \in Nat \ {0} /\ Top = stk[Len(stk)]
  BY TopFacts DEF CallsInv
<1> SUFFICES ASSUME NEW n \in 1..Len(stk), NEW m \in 1..(n - 1), stk'[m].pc = "find", stk'[m].record # NoRecord
             PROVE  /\ Holding(stk'[n]) => stk'[n].record # stk'[m].record
                    /\ stk'[n].pc \in Closers => event[stk'[m].record] # stk'[n].arg
  BY DEF WalksApart, Becomes
<1>2. m \in 1..(Len(stk) - 1) /\ stk'[m] = stk[m]
  BY <1>1 DEF Becomes
<1>3. CASE n = Len(stk)
  BY <1>2, <1>3, WalksOff DEF Becomes
<1>4. CASE n # Len(stk)
  <2>1. stk'[n] = stk[n]
    BY <1>1, <1>4 DEF Becomes
  <2> QED
    BY <1>2, <2>1 DEF WalksApart
<1> QED
  BY <1>3, <1>4

LEMMA InitAgree == Init => Agree
<1> SUFFICES ASSUME Init PROVE Agree
  OBVIOUS
<1>1. Len(stk) = 1 /\ stk[1].pc = "client" /\ eventList = <<>> /\ heap = {} /\ fault = "none"
  BY DEF Init
<1>2. \A e \in Events : core[e].record = NoRecord
  BY DEF Init, Closed
<1>3. DOMAIN eventList = {}
  BY <1>1
<1> QED
  BY <1>1, <1>2, <1>3 DEF Agree, NeverFailed, ListedOnce, ListedExactly, EventsLead, RecordsLead,
     FramesLead, Unlisted, Unowned, WalksApart

LEMMA CreateRecordAgrees ==
  ASSUME CallsInv, Agree, fault = "none", CreateRecord
  PROVE  Agree'
<1>1. PICK r \in Records \ heap : heap' = heap \cup {r} /\ Call("insert", NoEvent, r)
  BY DEF CreateRecord
<1> DEFINE f == [pc |-> "insert", tpl |-> Top.tpl, arg |-> NoEvent, record |-> r]
<1>2. TypeOK /\ Becomes(f)
  BY <1>1, CallStep DEF CallsInv, Pcs
<1>3. f.pc = "insert" /\ f.record = r
  OBVIOUS
<1> HIDE DEF f
<1>4. Len(stk) \in Nat \ {0} /\ Top = stk[Len(stk)] /\ Top.pc = "client"
  BY <1>2, TopFacts DEF CreateRecord, At
<1>5. UNCHANGED <<eventList, event, core, known, failures, fault>>
  BY DEF CreateRecord
<1>6. NeverFailed(stk') /\ ListedOnce(eventList')
  BY <1>2, <1>3, <1>4, <1>5 DEF Agree, NeverFailed, Becomes
<1>7. ListedExactly(eventList', heap', stk')
  <2> SUFFICES ASSUME NEW q \in Records
               PROVE  (\E i \in DOMAIN eventList : eventList[i] = q)
                        <=> q \in heap' /\ \A n \in 1..Len(stk) : Unlisted(stk'[n]) => stk'[n].record # q
    BY <1>2, <1>5 DEF ListedExactly, Becomes
  <2>1. (\E i \in DOMAIN eventList : eventList[i] = q)
          <=> q \in heap /\ \A n \in 1..Len(stk) : Unlisted(stk[n]) => stk[n].record # q
    BY DEF Agree, ListedExactly
  <2>2. ~Unlisted(stk[Len(stk)])
    BY <1>4 DEF Unlisted
  <2>3. CASE q = r
    BY <1>1, <1>2, <1>3, <1>4, <2>1, <2>3 DEF Becomes, Unlisted
  <2>4. CASE q # r
    BY <1>1, <1>2, <1>3, <1>4, <2>1, <2>2, <2>4 DEF Becomes, Unlisted
  <2> QED
    BY <2>3, <2>4
<1>8. EventsLead(stk', heap', event', core')
  BY <1>1, <1>2, <1>3, <1>4, <1>5 DEF Agree, EventsLead, Becomes, Unowned
<1>9. RecordsLead(stk', heap', core')
  <2> SUFFICES ASSUME NEW q \in heap'
               PROVE  \/ \E e \in Events : core[e].record = q
                      \/ \E n \in 1..Len(stk) : Unowned(stk'[n]) /\ stk'[n].record = q
    BY <1>2, <1>5 DEF RecordsLead, Becomes
  <2>1. CASE q = r
    BY <1>2, <1>3, <1>4, <2>1 DEF Becomes, Unowned
  <2>2. CASE q # r
    <3>1. q \in heap /\ ~Unowned(stk[Len(stk)])
      BY <1>1, <1>4, <2>2 DEF Unowned
    <3> QED
      BY <1>2, <1>4, <3>1 DEF Agree, RecordsLead, Becomes
  <2> QED
    BY <2>1, <2>2
<1>10. FramesLead(stk', eventList', event', core')
  BY <1>2, <1>3, <1>4, <1>5 DEF Agree, FramesLead, Becomes
<1>11. WalksApart(stk', event')
  <2> SUFFICES ASSUME NEW n \in 1..Len(stk), NEW m \in 1..(n - 1), stk'[m].pc = "find", stk'[m].record # NoRecord
               PROVE  /\ Holding(stk'[n]) => stk'[n].record # stk'[m].record
                      /\ stk'[n].pc \in Closers => event[stk'[m].record] # stk'[n].arg
    BY <1>2, <1>5 DEF WalksApart, Becomes
  <2>1. m \in 1..(Len(stk) - 1) /\ m \in 1..Len(stk) /\ stk'[m] = stk[m]
    BY <1>2, <1>4 DEF Becomes
  <2>2. CASE n = Len(stk)
    <3>1. stk[m].record \in Records /\ \E i \in DOMAIN eventList : eventList[i] = stk[m].record
      BY <2>1, WalksOff DEF Agree, FramesLead
    <3>2. stk[m].record \in heap
      BY <3>1 DEF Agree, ListedExactly
    <3> QED
      BY <1>1, <1>2, <1>3, <2>1, <2>2, <3>2 DEF Becomes, Closers
  <2>3. CASE n # Len(stk)
    <3>1. stk'[n] = stk[n]
      BY <1>2, <1>4, <2>3 DEF Becomes
    <3> QED
      BY <2>1, <3>1 DEF Agree, WalksApart
  <2> QED
    BY <2>2, <2>3
<1> QED
  BY <1>5, <1>6, <1>7, <1>8, <1>9, <1>10, <1>11 DEF Agree

LEMMA InsertRecordAgrees ==
  ASSUME CallsInv, Agree, fault = "none", InsertRecord
  PROVE  Agree'
<1> DEFINE f == [pc |-> "create", tpl |-> Top.tpl, arg |-> Top.arg, record |-> Top.record]
<1>1. TypeOK /\ Becomes(f)
  BY GotoStep DEF InsertRecord, CallsInv, Pcs
<1>2. Len(stk) \in Nat \ {0} /\ Top = stk[Len(stk)] /\ Top.pc = "insert"
  BY <1>1, TopFacts DEF InsertRecord, At
<1>3. f.pc = "create" /\ f.record = Top.record
  OBVIOUS
<1> HIDE DEF f
<1>4. Top.record \in heap /\ Top.record \in Records
      /\ \A m \in 1..(Len(stk) - 1) : Holding(stk[m]) => stk[m].record # Top.record
  BY <1>2, TopHolds DEF Holding, Held
<1>5. UNCHANGED <<heap, event, core, known, failures>> /\ eventList' = Append(eventList, Top.record)
  BY DEF InsertRecord
<1>6. \A i \in DOMAIN eventList : eventList[i] # Top.record
  BY <1>2, <1>4 DEF Agree, ListedExactly, Unlisted
<1>7. fault' = "none"
  BY <1>6 DEF InsertRecord, Listed, Range
<1>8. /\ eventList \in Seq(Records) /\ eventList' \in Seq(Records) /\ Len(eventList') = Len(eventList) + 1
      /\ eventList'[Len(eventList) + 1] = Top.record
      /\ \A i \in 1..Len(eventList) : eventList'[i] = eventList[i]
  BY <1>1, <1>4, <1>5 DEF TypeOK
<1>9. \A q : (\E i \in DOMAIN eventList' : eventList'[i] = q)
               <=> q = Top.record \/ \E i \in DOMAIN eventList : eventList[i] = q
  BY <1>8
<1>10. NeverFailed(stk')
  BY <1>1, <1>2, <1>3 DEF Agree, NeverFailed, Becomes
<1>11. ListedOnce(eventList')
  BY <1>6, <1>8 DEF Agree, ListedOnce
<1>12. ListedExactly(eventList', heap', stk')
  <2> SUFFICES ASSUME NEW q \in Records
               PROVE  (\E i \in DOMAIN eventList' : eventList'[i] = q)
                        <=> q \in heap /\ \A n \in 1..Len(stk) : Unlisted(stk'[n]) => stk'[n].record # q
    BY <1>1, <1>5 DEF ListedExactly, Becomes
  <2>1. (\E i \in DOMAIN eventList : eventList[i] = q)
          <=> q \in heap /\ \A n \in 1..Len(stk) : Unlisted(stk[n]) => stk[n].record # q
    BY DEF Agree, ListedExactly
  <2>2. ~Unlisted(f) /\ \A m \in 1..(Len(stk) - 1) : Unlisted(stk[m]) => stk[m].record # Top.record
    BY <1>3, <1>4 DEF Unlisted, Holding, Held
  <2>3. CASE q = Top.record
    BY <1>1, <1>2, <1>4, <1>9, <2>2, <2>3 DEF Becomes
  <2>4. CASE q # Top.record
    <3>1. ASSUME NEW n \in 1..Len(stk)
          PROVE  (Unlisted(stk'[n]) => stk'[n].record # q) <=> (Unlisted(stk[n]) => stk[n].record # q)
      BY <1>1, <1>2, <2>2, <2>4 DEF Becomes
    <3> QED
      BY <1>9, <2>1, <2>4, <3>1
  <2> QED
    BY <2>3, <2>4
<1>13. EventsLead(stk', heap', event', core')
  BY <1>1, <1>2, <1>3, <1>5 DEF Agree, EventsLead, Becomes, Unowned
<1>14. RecordsLead(stk', heap', core')
  BY <1>1, <1>2, <1>3, <1>5 DEF Agree, RecordsLead, Becomes, Unowned
<1>15. FramesLead(stk', eventList', event', core')
  <2>1. \A n \in 1..Len(stk) : n = Len(stk) \/ stk'[n] = stk[n]
    BY <1>1, <1>2 DEF Becomes
  <2>2. stk'[Len(stk)].pc = "create"
    BY <1>1, <1>3 DEF Becomes
  <2>3. FramesLead(stk, eventList, event, core) /\ Len(stk') = Len(stk)
    BY <1>1 DEF Agree, Becomes
  <2>4. \A n \in 1..Len(stk) : stk'[n] = stk[n] \/ stk'[n].pc = "create"
    BY <2>1, <2>2
  <2>5. \A q : (\E i \in DOMAIN eventList : eventList[i] = q)
                 => \E i \in DOMAIN eventList' : eventList'[i] = q
    BY <1>9
  <2> QED
    BY <1>5, <2>3, <2>4, <2>5 DEF FramesLead
<1>16. WalksApart(stk', event')
  BY <1>1, <1>2, <1>3, <1>5, WalksKept DEF Agree, Holding, Held, Closers
<1> QED
  BY <1>7, <1>10, <1>11, <1>12, <1>13, <1>14, <1>15, <1>16 DEF Agree

LEMMA CoreCreateEventAgrees ==
  ASSUME CallsInv, Agree, fault = "none", CoreCreateEvent, failures' = 0
  PROVE  Agree'
<1>1. PICK e \in Events, tpl \in 1..MaxTpl :
        /\ ~Live(e)
        /\ core' = [core EXCEPT ![e] = [tpl |-> tpl, record |-> Top.record]]
        /\ event' = [event EXCEPT ![Top.record] = e]
        /\ Touch(Top.record, "create")
        /\ Goto("done")
  BY DEF CoreCreateEvent, CallsInv, TypeOK
<1> DEFINE f == [pc |-> "done", tpl |-> Top.tpl, arg |-> Top.arg, record |-> Top.record]
<1>2. TypeOK /\ Becomes(f)
  BY <1>1, GotoStep DEF CallsInv, Pcs
<1>3. Len(stk) \in Nat \ {0} /\ Top = stk[Len(stk)] /\ Top.pc = "create"
  BY <1>2, TopFacts DEF CoreCreateEvent, At
<1>4. f.pc = "done" /\ f.record = Top.record
  OBVIOUS
<1> HIDE DEF f
<1>5. Top.record \in heap /\ Top.record \in Records
      /\ \A m \in 1..(Len(stk) - 1) : Holding(stk[m]) => stk[m].record # Top.record
  BY <1>3, TopHolds DEF Holding, Held
<1>6. UNCHANGED <<eventList, heap, known>> /\ fault' = "none"
  BY <1>1, <1>5 DEF CoreCreateEvent, Touch
<1>7. /\ core'[e].record = Top.record /\ event'[Top.record] = e /\ Top.record # NoRecord
      /\ \A d \in Events \ {e} : core'[d] = core[d]
      /\ \A r \in Records \ {Top.record} : event'[r] = event[r]
      /\ core[e].record = NoRecord
  BY <1>1, <1>2, <1>5, EventAssumption DEF TypeOK, Live, Closed
<1>8. \A n \in 1..(Len(stk) - 1) : stk'[n] = stk[n]
  BY <1>2 DEF Becomes
<1>9. Len(stk') = Len(stk) /\ stk'[Len(stk)].pc = "done" /\ stk'[Len(stk)].record = Top.record
  BY <1>2, <1>4 DEF Becomes
<1>10. NeverFailed(stk') /\ ListedOnce(eventList')
  BY <1>3, <1>6, <1>8, <1>9 DEF Agree, NeverFailed
<1>11. ListedExactly(eventList', heap', stk')
  BY <1>3, <1>6, <1>8, <1>9 DEF Agree, ListedExactly, Unlisted
<1>12. EventsLead(stk', heap', event', core')
  <2> SUFFICES ASSUME NEW d \in Events, core'[d].record # NoRecord
               PROVE  /\ core'[d].record \in heap /\ event'[core'[d].record] = d
                      /\ \A n \in 1..Len(stk) : Unowned(stk'[n]) => stk'[n].record # core'[d].record
    BY <1>6, <1>9 DEF EventsLead
  <2>1. CASE d = e
    BY <1>3, <1>5, <1>7, <1>8, <1>9, <2>1 DEF Unowned, Holding, Held
  <2>2. CASE d # e
    <3>1. /\ core'[d] = core[d] /\ core[d].record \in heap /\ event[core[d].record] = d
          /\ \A n \in 1..Len(stk) : Unowned(stk[n]) => stk[n].record # core[d].record
      BY <1>7, <2>2 DEF Agree, EventsLead
    <3>2. core[d].record # Top.record /\ core[d].record \in Records
      BY <1>2, <1>3, <3>1 DEF Unowned, TypeOK
    <3> QED
      BY <1>3, <1>7, <1>8, <1>9, <3>1, <3>2 DEF Unowned
  <2> QED
    BY <2>1, <2>2
<1>13. RecordsLead(stk', heap', core')
  <2> SUFFICES ASSUME NEW q \in heap
               PROVE  \/ \E d \in Events : core'[d].record = q
                      \/ \E n \in 1..Len(stk) : Unowned(stk'[n]) /\ stk'[n].record = q
    BY <1>6, <1>9 DEF RecordsLead
  <2>1. q \in Records /\ q # NoRecord
    BY <1>2, EventAssumption DEF TypeOK
  <2>2. CASE q = Top.record
    BY <1>7, <2>2
  <2>3. CASE q # Top.record
    <3>1. CASE \E d \in Events : core[d].record = q
      BY <1>7, <2>1, <3>1
    <3>2. CASE \E n \in 1..Len(stk) : Unowned(stk[n]) /\ stk[n].record = q
      BY <1>3, <1>8, <2>3, <3>2
    <3> QED
      BY <3>1, <3>2 DEF Agree, RecordsLead
  <2> QED
    BY <2>2, <2>3
<1>14. FramesLead(stk', eventList', event', core')
  <2> SUFFICES ASSUME NEW n \in 1..Len(stk)
               PROVE  /\ stk'[n].pc = "notify" => /\ stk'[n].arg \in Events /\ stk'[n].record # NoRecord
                                                  /\ core'[stk'[n].arg].record = stk'[n].record
                      /\ stk'[n].pc \in {"done", "close"} =>
                           core'[event'[stk'[n].record]].record = stk'[n].record
                      /\ stk'[n].pc = "find" =>
                           stk'[n].record = NoRecord \/ \E i \in DOMAIN eventList : eventList[i] = stk'[n].record
    BY <1>6, <1>9 DEF FramesLead
  <2>1. CASE n = Len(stk)
    BY <1>7, <1>9, <2>1
  <2>2. CASE n # Len(stk)
    <3>1. n \in 1..(Len(stk) - 1) /\ stk'[n] = stk[n]
      BY <1>3, <1>8, <2>2
    <3>2. /\ stk[n].pc = "notify" => /\ stk[n].arg \in Events /\ stk[n].record # NoRecord
                                     /\ core[stk[n].arg].record = stk[n].record
          /\ stk[n].pc \in {"done", "close"} => core[event[stk[n].record]].record = stk[n].record
          /\ stk[n].pc = "find" =>
               stk[n].record = NoRecord \/ \E i \in DOMAIN eventList : eventList[i] = stk[n].record
      BY DEF Agree, FramesLead
    <3>3. CASE stk[n].pc = "notify"
      <4>1. stk[n].arg # e
        BY <1>7, <3>2, <3>3
      <4> QED
        BY <1>7, <3>1, <3>2, <3>3, <4>1
    <3>4. CASE stk[n].pc \in {"done", "close"}
      <4>1. stk[n].record # Top.record /\ stk[n].record \in Records
        BY <1>2, <1>5, <3>1, <3>4 DEF CallsInv, HeldApart, Holding, Held, TypeOK
      <4>2. event'[stk[n].record] = event[stk[n].record] /\ stk[n].record # NoRecord
        BY <1>7, <4>1, EventAssumption
      <4>3. event[stk[n].record] \in Events
        BY <3>1, <3>4 DEF CallsInv, MadeLive, ClosingLive
      <4>4. event[stk[n].record] # e
        BY <1>7, <3>2, <3>4, <4>2
      <4> QED
        BY <1>7, <3>1, <3>2, <3>4, <4>2, <4>3, <4>4
    <3>5. CASE stk[n].pc \notin {"notify", "done", "close"}
      BY <3>1, <3>2, <3>5
    <3> QED
      BY <3>3, <3>4, <3>5
  <2> QED
    BY <2>1, <2>2
<1>15. WalksApart(stk', event')
  <2> SUFFICES ASSUME NEW n \in 1..Len(stk), NEW m \in 1..(n - 1), stk'[m].pc = "find", stk'[m].record # NoRecord
               PROVE  /\ Holding(stk'[n]) => stk'[n].record # stk'[m].record
                      /\ stk'[n].pc \in Closers => event'[stk'[m].record] # stk'[n].arg
    BY <1>9 DEF WalksApart
  <2>1. m \in 1..(Len(stk) - 1) /\ stk'[m] = stk[m]
    BY <1>3, <1>8
  <2>2. stk[m].record # Top.record /\ event'[stk[m].record] = event[stk[m].record]
    BY <1>3, <1>7, <2>1, WalksOff DEF Agree, Holding, Held
  <2>3. CASE n = Len(stk)
    BY <1>9, <2>1, <2>2, <2>3 DEF Closers
  <2>4. CASE n # Len(stk)
    <3>1. stk'[n] = stk[n]
      BY <1>3, <1>8, <2>4
    <3> QED
      BY <2>1, <2>2, <3>1 DEF Agree, WalksApart
  <2> QED
    BY <2>3, <2>4
<1> QED
  BY <1>6, <1>10, <1>11, <1>12, <1>13, <1>14, <1>15 DEF Agree

LEMMA CreateDoneAgrees ==
  ASSUME CallsInv, Agree, fault = "none", CreateDone
  PROVE  Agree'
<1> DEFINE f == [pc |-> "client", tpl |-> Top.tpl, arg |-> NoEvent, record |-> NoRecord]
<1>1. TypeOK /\ Becomes(f)
  BY CallStep DEF CreateDone, CallsInv, Pcs
<1>2. Len(stk) \in Nat \ {0} /\ Top = stk[Len(stk)] /\ Top.pc = "done"
  BY <1>1, TopFacts DEF CreateDone, At
<1>3. f.pc = "client"
  OBVIOUS
<1> HIDE DEF f
<1>4. fault' = "none" /\ UNCHANGED <<eventList, heap, event, core, failures>>
  BY <1>2, TopHolds DEF CreateDone, Touch, Holding, Held
<1>5. NeverFailed(stk') /\ ListedOnce(eventList')
  BY <1>1, <1>2, <1>3, <1>4 DEF Agree, NeverFailed, Becomes
<1>6. ListedExactly(eventList', heap', stk')
  BY <1>1, <1>2, <1>3, <1>4 DEF Agree, ListedExactly, Unlisted, Becomes
<1>7. EventsLead(stk', heap', event', core')
  BY <1>1, <1>2, <1>3, <1>4 DEF Agree, EventsLead, Unowned, Becomes
<1>8. RecordsLead(stk', heap', core')
  BY <1>1, <1>2, <1>3, <1>4 DEF Agree, RecordsLead, Unowned, Becomes
<1>9. FramesLead(stk', eventList', event', core')
  BY <1>1, <1>2, <1>3, <1>4 DEF Agree, FramesLead, Becomes
<1>10. WalksApart(stk', event')
  BY <1>1, <1>3, <1>4, WalksKept DEF Agree, Holding, Held, Closers
<1> QED
  BY <1>4, <1>5, <1>6, <1>7, <1>8, <1>9, <1>10 DEF Agree

LEMMA CloseCalledAgrees ==
  ASSUME CallsInv, Agree, ~crossed', fault = "none", CloseCalled
  PROVE  Agree'
<1>1. PICK e \in Events :
        /\ Live(e) /\ known' = known \ {e} /\ Call("find", e, First)
        /\ crossed' = (crossed \/ \E n \in 1..(Len(stk) - 1) : DealsWith(stk[n], e))
  BY DEF CloseCalled
<1> DEFINE f == [pc |-> "find", tpl |-> Top.tpl, arg |-> e, record |-> First]
<1>2. TypeOK /\ Becomes(f)
  BY <1>1, CallStep, FirstListed DEF CallsInv, Pcs
<1>3. Len(stk) \in Nat \ {0} /\ Top = stk[Len(stk)] /\ Top.pc = "client"
  BY <1>2, TopFacts DEF CloseCalled, At
<1>4. f.pc = "find" /\ f.record = First /\ f.arg = e
  OBVIOUS
<1> HIDE DEF f
<1>5. UNCHANGED <<eventList, heap, event, core, failures, fault>>
  BY DEF CloseCalled
<1>6. NeverFailed(stk') /\ ListedOnce(eventList')
  BY <1>2, <1>3, <1>4, <1>5 DEF Agree, NeverFailed, Becomes
<1>7. ListedExactly(eventList', heap', stk')
  BY <1>2, <1>3, <1>4, <1>5 DEF Agree, ListedExactly, Unlisted, Becomes
<1>8. EventsLead(stk', heap', event', core')
  BY <1>2, <1>3, <1>4, <1>5 DEF Agree, EventsLead, Unowned, Becomes
<1>9. RecordsLead(stk', heap', core')
  BY <1>2, <1>3, <1>4, <1>5 DEF Agree, RecordsLead, Unowned, Becomes
<1>10. FramesLead(stk', eventList', event', core')
  BY <1>2, <1>3, <1>4, <1>5, FirstListed DEF Agree, FramesLead, Becomes
<1>11. WalksApart(stk', event')
  <2> SUFFICES ASSUME NEW n \in 1..Len(stk), NEW m \in 1..(n - 1), stk'[m].pc = "find", stk'[m].record # NoRecord
               PROVE  /\ Holding(stk'[n]) => stk'[n].record # stk'[m].record
                      /\ stk'[n].pc \in Closers => event[stk'[m].record] # stk'[n].arg
    BY <1>2, <1>5 DEF WalksApart, Becomes
  <2>1. m \in 1..(Len(stk) - 1) /\ stk'[m] = stk[m]
    BY <1>2, <1>3 DEF Becomes
  <2>2. CASE n = Len(stk)
    <3>1. stk[m].record \in Records
      BY <2>1, WalksOff DEF Agree
    <3>2. event[stk[m].record] # e
      BY <1>1, <2>1, <3>1, NotDealtWith DEF CallsInv
    <3> QED
      BY <1>2, <1>4, <2>1, <2>2, <3>2 DEF Becomes, Holding, Held
  <2>3. CASE n # Len(stk)
    <3>1. stk'[n] = stk[n]
      BY <1>2, <1>3, <2>3 DEF Becomes
    <3> QED
      BY <2>1, <3>1 DEF Agree, WalksApart
  <2> QED
    BY <2>2, <2>3
<1> QED
  BY <1>5, <1>6, <1>7, <1>8, <1>9, <1>10, <1>11 DEF Agree

LEMMA FindEventAgrees ==
  ASSUME CallsInv, Agree, fault = "none", FindEvent
  PROVE  Agree'
<1>1. TypeOK /\ Len(stk) \in Nat \ {0} /\ Top = stk[Len(stk)] /\ Top \in Frame /\ Top.pc = "find"
  BY TopFacts DEF FindEvent, At, CallsInv
<1>2. UNCHANGED <<eventList, heap, event, core, known, failures>>
  BY DEF FindEvent
<1>3. Top.arg \in Events
  BY <1>1 DEF CallsInv, ClosingLive
<1>4. Top.record = NoRecord \/ \E i \in DOMAIN eventList : eventList[i] = Top.record
  BY <1>1 DEF Agree, FramesLead
<1>5. CASE Top.record = NoRecord
  <2>1. fault' = "null" /\ UNCHANGED stk
    BY <1>5 DEF FindEvent
  <2> QED
    BY <1>2, <2>1 DEF Agree, NeverFailed, ListedOnce, ListedExactly, EventsLead, RecordsLead, FramesLead, WalksApart
<1>6. ASSUME Top.record # NoRecord, NEW f, Becomes(f), f.arg = Top.arg,
             \/ /\ f.pc = "close" /\ f.record = Top.record /\ event[Top.record] = Top.arg
                /\ core[event[f.record]].record = f.record
             \/ f.pc = "find" /\ (f.record = NoRecord \/ \E i \in DOMAIN eventList : eventList[i] = f.record)
      PROVE  Agree'
  <2>1. \A n \in 1..Len(stk) : IF n = Len(stk) THEN stk'[n] = f
                                ELSE n \in 1..(Len(stk) - 1) /\ stk'[n] = stk[n]
    BY <1>1, <1>6 DEF Becomes
  <2>2. Top.record \in heap
    <3>1. Top.record \in Records
      BY <1>1, <1>6 DEF Frame
    <3> QED
      BY <1>4, <1>6, <3>1 DEF Agree, ListedExactly
  <2>3. fault' = "none" /\ Len(stk') = Len(stk)
    BY <1>6, <2>2 DEF FindEvent, Touch, Becomes
  <2>4. NeverFailed(stk') /\ ListedOnce(eventList')
    BY <1>2, <1>6, <2>1, <2>3 DEF Agree, NeverFailed
  <2>5. \A n \in 1..Len(stk) : /\ Unlisted(stk'[n]) <=> Unlisted(stk[n])
                               /\ Unowned(stk'[n]) <=> Unowned(stk[n])
                               /\ Unlisted(stk[n]) \/ Unowned(stk[n]) => stk'[n] = stk[n]
    BY <1>1, <1>6, <2>1 DEF Unlisted, Unowned
  <2>6. ListedExactly(eventList', heap', stk')
    BY <1>2, <2>3, <2>5 DEF Agree, ListedExactly
  <2>7. EventsLead(stk', heap', event', core')
    BY <1>2, <2>3, <2>5 DEF Agree, EventsLead
  <2>8. RecordsLead(stk', heap', core')
    BY <1>2, <2>3, <2>5 DEF Agree, RecordsLead
  <2>9. FramesLead(stk', eventList', event', core')
    BY <1>2, <1>6, <2>1, <2>3 DEF Agree, FramesLead
  <2>10. WalksApart(stk', event')
    <3> SUFFICES ASSUME NEW n \in 1..Len(stk), NEW m \in 1..(n - 1), stk'[m].pc = "find", stk'[m].record # NoRecord
                 PROVE  /\ Holding(stk'[n]) => stk'[n].record # stk'[m].record
                        /\ stk'[n].pc \in Closers => event[stk'[m].record] # stk'[n].arg
      BY <1>2, <2>3 DEF WalksApart
    <3>1. m \in 1..(Len(stk) - 1) /\ stk'[m] = stk[m]
      BY <1>1, <2>1
    <3>2. event[stk[m].record] # Top.arg
      BY <1>1, <3>1, WalksOff DEF Agree, Closers
    <3>3. CASE n = Len(stk)
      BY <1>6, <2>1, <3>1, <3>2, <3>3 DEF Holding, Held
    <3>4. CASE n # Len(stk)
      BY <2>1, <3>1, <3>4 DEF Agree, WalksApart
    <3> QED
      BY <3>3, <3>4
  <2> QED
    BY <2>3, <2>4, <2>6, <2>7, <2>8, <2>9, <2>10 DEF Agree
<1>7. CASE Top.record # NoRecord /\ event[Top.record] = Top.arg
  <2> DEFINE f == [pc |-> "close", tpl |-> Top.tpl, arg |-> Top.arg, record |-> Top.record]
  <2>1. Becomes(f)
    BY <1>1, <1>7, GotoStep DEF FindEvent, Pcs
  <2>2. f.pc = "close" /\ f.record = Top.record /\ f.arg = Top.arg
    OBVIOUS
  <2> HIDE DEF f
  <2>3. Top.record \in heap
    <3>1. Top.record \in Records
      BY <1>1, <1>7 DEF Frame
    <3> QED
      BY <1>4, <1>7, <3>1 DEF Agree, ListedExactly
  <2>4. \A n \in 1..Len(stk) : Unowned(stk[n]) => stk[n].record # Top.record
    <3> SUFFICES ASSUME NEW n \in 1..Len(stk), Unowned(stk[n]) PROVE stk[n].record # Top.record
      OBVIOUS
    <3>1. n # Len(stk) /\ stk[n].pc # "client" /\ Holding(stk[n])
      BY <1>1 DEF Unowned, Holding, Held
    <3>2. n \in 1..(Len(stk) - 1)
      BY <1>1, <3>1
    <3> QED
      BY <1>1, <1>7, <3>1, <3>2, TopElsewhere DEF Closers
  <2>5. PICK e \in Events : core[e].record = Top.record
    BY <2>3, <2>4 DEF Agree, RecordsLead
  <2>6. event[Top.record] = e
    BY <1>7, <2>5 DEF Agree, EventsLead
  <2>7. core[event[f.record]].record = f.record
    BY <2>2, <2>5, <2>6
  <2> QED
    BY <1>6, <1>7, <2>1, <2>2, <2>7
<1>8. CASE Top.record # NoRecord /\ event[Top.record] # Top.arg
  <2> DEFINE f == [pc |-> "find", tpl |-> Top.tpl, arg |-> Top.arg, record |-> After(Top.record)]
  <2>1. Becomes(f)
    BY <1>1, <1>3, <1>8, CallStep, AfterListed DEF FindEvent, Pcs
  <2>2. f.pc = "find" /\ f.record = After(Top.record) /\ f.arg = Top.arg
    OBVIOUS
  <2> HIDE DEF f
  <2>3. f.record = NoRecord \/ \E i \in DOMAIN eventList : eventList[i] = f.record
    BY <1>1, <2>2, AfterListed
  <2> QED
    BY <1>6, <1>8, <2>1, <2>2, <2>3
<1> QED
  BY <1>5, <1>7, <1>8

LEMMA CoreCloseEventAgrees ==
  ASSUME CallsInv, Agree, fault = "none", CoreCloseEvent
  PROVE  Agree'
<1> DEFINE f == [pc |-> "remove", tpl |-> Top.tpl, arg |-> Top.arg, record |-> Top.record]
           e == event[Top.record]
<1>1. TypeOK /\ Becomes(f)
  BY GotoStep DEF CoreCloseEvent, CallsInv, Pcs
<1>2. Len(stk) \in Nat \ {0} /\ Top = stk[Len(stk)] /\ Top.pc = "close"
  BY <1>1, TopFacts DEF CoreCloseEvent, At
<1>3. f.pc = "remove" /\ f.record = Top.record /\ f.arg = Top.arg
  OBVIOUS
<1> HIDE DEF f
<1>4. /\ Len(stk') = Len(stk)
      /\ \A n \in 1..Len(stk) : IF n = Len(stk) THEN stk'[n] = f
                                ELSE n \in 1..(Len(stk) - 1) /\ stk'[n] = stk[n]
  BY <1>1, <1>2 DEF Becomes
<1>5. Top.record \in heap /\ Top.record \in Records /\ Top.record # NoRecord
  BY <1>2, TopHolds, EventAssumption DEF Holding, Held
<1>6. e \in Events /\ core[e].record = Top.record /\ e = Top.arg
  BY <1>2 DEF CallsInv, ClosingLive, Agree, FramesLead
<1>7. /\ fault' = "none" /\ UNCHANGED <<eventList, heap, event, known, failures>>
      /\ core' = [d \in Events |-> IF d = e THEN Closed ELSE core[d]]
  BY <1>5 DEF CoreCloseEvent, Touch
<1>8. core'[e].record = NoRecord /\ \A d \in Events \ {e} : core'[d] = core[d]
  BY <1>6, <1>7 DEF Closed
<1>9. NeverFailed(stk') /\ ListedOnce(eventList')
  BY <1>3, <1>4, <1>7 DEF Agree, NeverFailed
<1>10. \A n \in 1..Len(stk) :
         /\ Unlisted(stk'[n]) <=> Unlisted(stk[n])
         /\ Unlisted(stk[n]) => stk'[n] = stk[n]
         /\ Unowned(stk[n]) => Unowned(stk'[n]) /\ stk'[n] = stk[n]
         /\ Unowned(stk'[n]) => stk'[n].record = Top.record \/ (Unowned(stk[n]) /\ stk'[n] = stk[n])
  BY <1>2, <1>3, <1>4 DEF Unlisted, Unowned
<1>11. ListedExactly(eventList', heap', stk')
  BY <1>4, <1>7, <1>10 DEF Agree, ListedExactly
<1>12. EventsLead(stk', heap', event', core')
  <2> SUFFICES ASSUME NEW d \in Events, core'[d].record # NoRecord
               PROVE  /\ core'[d].record \in heap /\ event[core'[d].record] = d
                      /\ \A n \in 1..Len(stk) : Unowned(stk'[n]) => stk'[n].record # core'[d].record
    BY <1>4, <1>7 DEF EventsLead
  <2>1. d # e /\ core'[d] = core[d]
    BY <1>8
  <2>2. /\ core[d].record \in heap /\ event[core[d].record] = d
        /\ \A n \in 1..Len(stk) : Unowned(stk[n]) => stk[n].record # core[d].record
    BY <2>1 DEF Agree, EventsLead
  <2>3. core[d].record # Top.record
    BY <2>1, <2>2
  <2> QED
    BY <1>10, <2>1, <2>2, <2>3
<1>13. RecordsLead(stk', heap', core')
  <2> SUFFICES ASSUME NEW q \in heap
               PROVE  \/ \E d \in Events : core'[d].record = q
                      \/ \E n \in 1..Len(stk) : Unowned(stk'[n]) /\ stk'[n].record = q
    BY <1>4, <1>7 DEF RecordsLead
  <2>1. CASE \E n \in 1..Len(stk) : Unowned(stk[n]) /\ stk[n].record = q
    BY <1>10, <2>1
  <2>2. ASSUME NEW d \in Events, core[d].record = q, d = e
        PROVE  Unowned(stk'[Len(stk)]) /\ stk'[Len(stk)].record = q /\ Len(stk) \in 1..Len(stk)
    BY <1>2, <1>3, <1>4, <1>6, <2>2 DEF Unowned
  <2>3. ASSUME NEW d \in Events, core[d].record = q, d # e
        PROVE  core'[d].record = q
    BY <1>8, <2>3
  <2> QED
    BY <2>1, <2>2, <2>3 DEF Agree, RecordsLead
<1>14. FramesLead(stk', eventList', event', core')
  <2> SUFFICES ASSUME NEW n \in 1..(Len(stk) - 1), stk'[n] = stk[n], n \in 1..Len(stk)
               PROVE  /\ stk[n].pc = "notify" => /\ stk[n].arg \in Events /\ stk[n].record # NoRecord
                                                 /\ core'[stk[n].arg].record = stk[n].record
                      /\ stk[n].pc \in {"done", "close"} =>
                           core'[event[stk[n].record]].record = stk[n].record
                      /\ stk[n].pc = "find" =>
                           stk[n].record = NoRecord \/ \E i \in DOMAIN eventList : eventList[i] = stk[n].record
    BY <1>3, <1>4, <1>7 DEF FramesLead
  <2>1. /\ stk[n].pc = "notify" => /\ stk[n].arg \in Events /\ stk[n].record # NoRecord
                                   /\ core[stk[n].arg].record = stk[n].record
        /\ stk[n].pc \in {"done", "close"} => core[event[stk[n].record]].record = stk[n].record
        /\ stk[n].pc = "find" =>
             stk[n].record = NoRecord \/ \E i \in DOMAIN eventList : eventList[i] = stk[n].record
    BY DEF Agree, FramesLead
  <2>2. stk[n].pc # "client" => stk[n].arg # e /\ (Holding(stk[n]) => event[stk[n].record] # e)
    BY <1>2, <1>6, TopElsewhere DEF Closers
  <2>3. stk[n].pc \in {"done", "close"} => event[stk[n].record] \in Events /\ Holding(stk[n])
    BY DEF CallsInv, MadeLive, ClosingLive, Holding, Held
  <2> QED
    BY <1>8, <2>1, <2>2, <2>3
<1>15. WalksApart(stk', event')
  BY <1>1, <1>2, <1>3, <1>7, WalksKept DEF Agree, Holding, Held, Closers
<1> QED
  BY <1>7, <1>9, <1>11, <1>12, <1>13, <1>14, <1>15 DEF Agree

LEMMA RemoveRecordAgrees ==
  ASSUME CallsInv, Agree, fault = "none", RemoveRecord
  PROVE  Agree'
<1> DEFINE f == [pc |-> "free", tpl |-> Top.tpl, arg |-> Top.arg, record |-> Top.record]
           p == Place(Top.record)
<1>1. TypeOK /\ Becomes(f)
  BY GotoStep DEF RemoveRecord, CallsInv, Pcs
<1>2. Len(stk) \in Nat \ {0} /\ Top = stk[Len(stk)] /\ Top.pc = "remove"
  BY <1>1, TopFacts DEF RemoveRecord, At
<1>3. f.pc = "free" /\ f.record = Top.record /\ f.arg = Top.arg
  OBVIOUS
<1> HIDE DEF f
<1>4. /\ Len(stk') = Len(stk)
      /\ \A n \in 1..Len(stk) : IF n = Len(stk) THEN stk'[n] = f
                                ELSE n \in 1..(Len(stk) - 1) /\ stk'[n] = stk[n]
  BY <1>1, <1>2 DEF Becomes
<1>5. /\ Top.record \in heap /\ Top.record \in Records
      /\ \A m \in 1..(Len(stk) - 1) : Holding(stk[m]) => stk[m].record # Top.record
  BY <1>2, TopHolds DEF Holding, Held
<1>6. /\ fault' = "none" /\ UNCHANGED <<heap, event, core, known, failures>>
      /\ eventList' = RemoveAt(eventList, p)
  BY <1>5 DEF RemoveRecord, Touch
<1>7. \A n \in 1..Len(stk) : /\ Unlisted(stk'[n]) <=> n = Len(stk) \/ Unlisted(stk[n])
                             /\ Unowned(stk'[n]) <=> Unowned(stk[n])
                             /\ stk'[n].record = stk[n].record
                             /\ Unlisted(stk[n]) => stk[n].record # Top.record
  BY <1>2, <1>3, <1>4, <1>5 DEF Unlisted, Unowned, Holding, Held
<1>8. \E i \in DOMAIN eventList : eventList[i] = Top.record
  BY <1>5, <1>7 DEF Agree, ListedExactly
<1>9. eventList \in Seq(Records) /\ p \in 1..Len(eventList) /\ eventList[p] = Top.record
  BY <1>1, <1>8, PlaceOK DEF TypeOK
<1> HIDE DEF p
<1>10. /\ eventList' \in Seq(Records) /\ Len(eventList') = Len(eventList) - 1
       /\ \A j \in 1..(Len(eventList) - 1) : eventList'[j] = eventList[IF j < p THEN j ELSE j + 1]
  BY <1>6, <1>9, ListWithout
<1>11. Len(eventList) \in Nat /\ DOMAIN eventList = 1..Len(eventList)
       /\ DOMAIN eventList' = 1..(Len(eventList) - 1)
  BY <1>9, <1>10
<1>12. \A i, j \in 1..Len(eventList) : eventList[i] = eventList[j] => i = j
  BY <1>11 DEF Agree, ListedOnce
<1>13. NeverFailed(stk')
  BY <1>3, <1>4 DEF Agree, NeverFailed
<1>14. ListedOnce(eventList')
  <2> SUFFICES ASSUME NEW i \in 1..(Len(eventList) - 1), NEW j \in 1..(Len(eventList) - 1),
                      eventList'[i] = eventList'[j]
               PROVE  i = j
    BY <1>11 DEF ListedOnce
  <2>1. (IF i < p THEN i ELSE i + 1) = (IF j < p THEN j ELSE j + 1)
    BY <1>9, <1>10, <1>11, <1>12
  <2> QED
    BY <1>9, <1>11, <2>1
<1>15. ASSUME NEW q \in Records
       PROVE  (\E i \in DOMAIN eventList' : eventList'[i] = q)
                <=> q # Top.record /\ \E i \in DOMAIN eventList : eventList[i] = q
  <2>1. ASSUME NEW i \in DOMAIN eventList', eventList'[i] = q
        PROVE  q # Top.record /\ \E j \in DOMAIN eventList : eventList[j] = q
    <3>1. (IF i < p THEN i ELSE i + 1) \in 1..Len(eventList) \ {p}
      BY <1>9, <1>11
    <3> QED
      BY <1>9, <1>10, <1>11, <1>12, <2>1, <3>1
  <2>2. ASSUME q # Top.record, NEW j \in DOMAIN eventList, eventList[j] = q
        PROVE  \E i \in DOMAIN eventList' : eventList'[i] = q
    <3>1. j # p /\ p \in Nat /\ j \in Nat
      BY <1>9, <1>11, <2>2
    <3>2. CASE j < p
      <4>1. j \in 1..(Len(eventList) - 1) /\ eventList'[j] = eventList[j]
        BY <1>9, <1>10, <1>11, <3>1, <3>2
      <4> QED
        BY <1>11, <2>2, <4>1
    <3>3. CASE j > p
      <4>1. j - 1 \in 1..(Len(eventList) - 1) /\ ~(j - 1 < p) /\ (j - 1) + 1 = j
        BY <1>9, <1>11, <3>1, <3>3
      <4>2. eventList'[j - 1] = eventList[(j - 1) + 1]
        BY <1>10, <4>1
      <4> QED
        BY <1>11, <2>2, <4>1, <4>2
    <3> QED
      BY <3>1, <3>2, <3>3
  <2> QED
    BY <2>1, <2>2
<1>16. ListedExactly(eventList', heap', stk')
  <2> SUFFICES ASSUME NEW q \in Records
               PROVE  (\E i \in DOMAIN eventList' : eventList'[i] = q)
                        <=> q \in heap /\ \A n \in 1..Len(stk) : Unlisted(stk'[n]) => stk'[n].record # q
    BY <1>4, <1>6 DEF ListedExactly
  <2>1. (\E i \in DOMAIN eventList : eventList[i] = q)
          <=> q \in heap /\ \A n \in 1..Len(stk) : Unlisted(stk[n]) => stk[n].record # q
    BY DEF Agree, ListedExactly
  <2>2. (\A n \in 1..Len(stk) : Unlisted(stk'[n]) => stk'[n].record # q)
          <=> q # Top.record /\ \A n \in 1..Len(stk) : Unlisted(stk[n]) => stk[n].record # q
    BY <1>2, <1>7
  <2> QED
    BY <1>15, <2>1, <2>2
<1>17. EventsLead(stk', heap', event', core')
  BY <1>4, <1>6, <1>7 DEF Agree, EventsLead
<1>18. RecordsLead(stk', heap', core')
  BY <1>4, <1>6, <1>7 DEF Agree, RecordsLead
<1>19. FramesLead(stk', eventList', event', core')
  <2>1. \A n \in 1..Len(stk) : stk'[n].pc \in {"notify", "done", "close", "find"} =>
          n \in 1..(Len(stk) - 1) /\ stk'[n] = stk[n]
    BY <1>3, <1>4
  <2>2. ASSUME NEW n \in 1..(Len(stk) - 1), n \in 1..Len(stk), stk[n].pc = "find", stk[n].record # NoRecord
        PROVE  \E i \in DOMAIN eventList' : eventList'[i] = stk[n].record
    <3>1. stk[n].record \in Records /\ stk[n].record # Top.record
      BY <1>2, <2>2, WalksOff DEF Agree, Holding, Held
    <3>2. \E i \in DOMAIN eventList : eventList[i] = stk[n].record
      BY <2>2 DEF Agree, FramesLead
    <3> QED
      BY <1>15, <3>1, <3>2
  <2> QED
    BY <1>4, <1>6, <2>1, <2>2 DEF Agree, FramesLead
<1>20. WalksApart(stk', event')
  BY <1>1, <1>2, <1>3, <1>6, WalksKept DEF Agree, Holding, Held, Closers
<1> QED
  BY <1>6, <1>13, <1>14, <1>16, <1>17, <1>18, <1>19, <1>20 DEF Agree

LEMMA FreeRecordAgrees ==
  ASSUME CallsInv, Agree, fault = "none", FreeRecord
  PROVE  Agree'
<1> DEFINE f == [pc |-> "client", tpl |-> Top.tpl, arg |-> NoEvent, record |-> NoRecord]
<1>1. TypeOK /\ Becomes(f)
  BY CallStep DEF FreeRecord, CallsInv, Pcs
<1>2. Len(stk) \in Nat \ {0} /\ Top = stk[Len(stk)] /\ Top.pc = "free"
  BY <1>1, TopFacts DEF FreeRecord, At
<1>3. f.pc = "client"
  OBVIOUS
<1> HIDE DEF f
<1>4. /\ Len(stk') = Len(stk)
      /\ \A n \in 1..Len(stk) : IF n = Len(stk) THEN stk'[n] = f
                                ELSE n \in 1..(Len(stk) - 1) /\ stk'[n] = stk[n]
  BY <1>1, <1>2 DEF Becomes
<1>5. Top.record \in heap
  BY <1>2, TopHolds DEF Holding, Held
<1>6. /\ fault' = "none" /\ UNCHANGED <<eventList, event, core, known, failures>>
      /\ heap' = heap \ {Top.record}
  BY <1>5 DEF FreeRecord, Touch
<1>7. \A n \in 1..Len(stk) : /\ Unlisted(stk[n]) <=> n = Len(stk) \/ Unlisted(stk'[n])
                             /\ Unowned(stk[n]) <=> n = Len(stk) \/ Unowned(stk'[n])
                             /\ n # Len(stk) => stk'[n] = stk[n]
  BY <1>2, <1>3, <1>4 DEF Unlisted, Unowned
<1>8. NeverFailed(stk') /\ ListedOnce(eventList')
  BY <1>3, <1>4, <1>6 DEF Agree, NeverFailed
<1>9. ListedExactly(eventList', heap', stk')
  BY <1>2, <1>3, <1>4, <1>6, <1>7 DEF Agree, ListedExactly, Unlisted
<1>10. EventsLead(stk', heap', event', core')
  BY <1>2, <1>3, <1>4, <1>6, <1>7 DEF Agree, EventsLead, Unowned
<1>11. RecordsLead(stk', heap', core')
  BY <1>2, <1>4, <1>6, <1>7 DEF Agree, RecordsLead
<1>12. FramesLead(stk', eventList', event', core')
  BY <1>3, <1>4, <1>6 DEF Agree, FramesLead
<1>13. WalksApart(stk', event')
  BY <1>1, <1>3, <1>6, WalksKept DEF Agree, Holding, Held, Closers
<1> QED
  BY <1>6, <1>8, <1>9, <1>10, <1>11, <1>12, <1>13 DEF Agree

LEMMA DispatchEventAgrees ==
  ASSUME CallsInv, Agree, fault = "none", Rising(stk), DispatchEvent
  PROVE  Agree'
<1>1. TypeOK /\ Len(stk) \in Nat \ {0}
  BY TopFacts DEF CallsInv
<1>2. PICK e \in Events :
        /\ core[e].record # NoRecord
        /\ Pushes([pc |-> "notify", tpl |-> core[e].tpl, arg |-> e, record |-> core[e].record])
  BY <1>1, DispatchStep
<1> DEFINE f == [pc |-> "notify", tpl |-> core[e].tpl, arg |-> e, record |-> core[e].record]
<1>3. f.pc = "notify" /\ f.arg = e /\ f.record = core[e].record
  OBVIOUS
<1> HIDE DEF f
<1>4. Pushes(f)
  BY <1>2 DEF f
<1>5. UNCHANGED <<eventList, heap, event, core, known, failures, fault>>
  BY DEF DispatchEvent
<1>6. /\ Len(stk') = Len(stk) + 1 /\ stk'[Len(stk) + 1] = f
      /\ \A n \in 1..Len(stk) : stk'[n] = stk[n]
  BY <1>4 DEF Pushes
<1>7. NeverFailed(stk') /\ ListedOnce(eventList')
  BY <1>1, <1>3, <1>5, <1>6 DEF Agree, NeverFailed
<1>8. ListedExactly(eventList', heap', stk')
  BY <1>1, <1>3, <1>5, <1>6 DEF Agree, ListedExactly, Unlisted
<1>9. EventsLead(stk', heap', event', core')
  BY <1>1, <1>3, <1>5, <1>6 DEF Agree, EventsLead, Unowned
<1>10. RecordsLead(stk', heap', core')
  BY <1>1, <1>3, <1>5, <1>6 DEF Agree, RecordsLead, Unowned
<1>11. FramesLead(stk', eventList', event', core')
  BY <1>1, <1>2, <1>3, <1>5, <1>6 DEF Agree, FramesLead
<1>12. WalksApart(stk', event')
  <2>1. ~Holding(f) /\ f.pc \notin Closers
    BY <1>3 DEF Holding, Held, Closers
  <2>2. \A n \in 1..Len(stk') : n = Len(stk) + 1 \/ n \in 1..Len(stk)
    BY <1>1, <1>6
  <2>3. \A n \in 1..Len(stk') : \A m \in 1..(n - 1) : m \in 1..Len(stk) /\ stk'[m] = stk[m]
    BY <1>1, <1>6
  <2>4. WalksApart(stk, event) /\ UNCHANGED event
    BY <1>5 DEF Agree
  <2> QED
    BY <1>6, <2>1, <2>2, <2>3, <2>4 DEF WalksApart
<1> QED
  BY <1>5, <1>7, <1>8, <1>9, <1>10, <1>11, <1>12 DEF Agree

LEMMA EventNotifyAgrees ==
  ASSUME CallsInv, Agree, fault = "none", EventNotify
  PROVE  Agree'
<1> DEFINE f == [pc |-> "client", tpl |-> Top.tpl, arg |-> Top.arg, record |-> Top.record]
<1>1. TypeOK /\ Becomes(f)
  BY GotoStep DEF EventNotify, CallsInv, Pcs
<1>2. Len(stk) \in Nat \ {0} /\ Top = stk[Len(stk)] /\ Top.pc = "notify"
  BY <1>1, TopFacts DEF EventNotify, At
<1>3. f.pc = "client"
  OBVIOUS
<1> HIDE DEF f
<1>4. Top.record \in heap
  BY <1>2 DEF Agree, FramesLead, EventsLead
<1>5. fault' = "none" /\ UNCHANGED <<eventList, heap, event, core, known, failures>>
  BY <1>4 DEF EventNotify, Touch
<1>6. NeverFailed(stk') /\ ListedOnce(eventList')
  BY <1>1, <1>2, <1>3, <1>5 DEF Agree, NeverFailed, Becomes
<1>7. ListedExactly(eventList', heap', stk')
  BY <1>1, <1>2, <1>3, <1>5 DEF Agree, ListedExactly, Unlisted, Becomes
<1>8. EventsLead(stk', heap', event', core')
  BY <1>1, <1>2, <1>3, <1>5 DEF Agree, EventsLead, Unowned, Becomes
<1>9. RecordsLead(stk', heap', core')
  BY <1>1, <1>2, <1>3, <1>5 DEF Agree, RecordsLead, Unowned, Becomes
<1>10. FramesLead(stk', eventList', event', core')
  BY <1>1, <1>2, <1>3, <1>5 DEF Agree, FramesLead, Becomes
<1>11. WalksApart(stk', event')
  BY <1>1, <1>3, <1>5, WalksKept DEF Agree, Holding, Held, Closers
<1> QED
  BY <1>5, <1>6, <1>7, <1>8, <1>9, <1>10, <1>11 DEF Agree

LEMMA NotifyReturnAgrees ==
  ASSUME CallsInv, Agree, fault = "none", NotifyReturn
  PROVE  Agree'
<1>1. Len(stk) \in Nat \ {0} /\ Top = stk[Len(stk)] /\ Top.pc = "client" /\ Pops
  BY TopFacts, ReturnStep DEF CallsInv, NotifyReturn, At
<1>2. UNCHANGED <<eventList, heap, event, core, known, failures, fault>>
  BY DEF NotifyReturn
<1>3. /\ Len(stk') = Len(stk) - 1 /\ \A n \in 1..(Len(stk) - 1) : stk'[n] = stk[n]
      /\ ~Unlisted(stk[Len(stk)]) /\ ~Unowned(stk[Len(stk)])
  BY <1>1 DEF Pops, Unlisted, Unowned
<1>4. NeverFailed(stk') /\ ListedOnce(eventList')
  BY <1>1, <1>2, <1>3 DEF Agree, NeverFailed
<1>5. ListedExactly(eventList', heap', stk')
  <2> SUFFICES ASSUME NEW q \in Records
               PROVE  (\E i \in DOMAIN eventList : eventList[i] = q)
                        <=> q \in heap /\ \A n \in 1..Len(stk') : Unlisted(stk'[n]) => stk'[n].record # q
    BY <1>2 DEF ListedExactly
  <2>1. (\A n \in 1..Len(stk') : Unlisted(stk'[n]) => stk'[n].record # q)
          <=> (\A n \in 1..Len(stk) : Unlisted(stk[n]) => stk[n].record # q)
    <3>1. \A n \in 1..Len(stk) : n = Len(stk) \/ n \in 1..(Len(stk) - 1)
      BY <1>1
    <3>2. \A n \in 1..(Len(stk) - 1) : n \in 1..Len(stk)
      BY <1>1
    <3> QED
      BY <1>3, <3>1, <3>2
  <2> QED
    BY <2>1 DEF Agree, ListedExactly
<1>6. EventsLead(stk', heap', event', core')
  BY <1>1, <1>2, <1>3 DEF Agree, EventsLead
<1>7. RecordsLead(stk', heap', core')
  BY <1>1, <1>2, <1>3 DEF Agree, RecordsLead
<1>8. FramesLead(stk', eventList', event', core')
  BY <1>1, <1>2, <1>3 DEF Agree, FramesLead
<1>9. WalksApart(stk', event')
  <2>1. \A n \in 1..Len(stk') : n \in 1..Len(stk) /\ stk'[n] = stk[n]
    BY <1>1, <1>3
  <2>2. \A n \in 1..Len(stk') : \A m \in 1..(n - 1) : stk'[m] = stk[m]
    BY <1>1, <1>3
  <2>3. WalksApart(stk, event) /\ UNCHANGED event
    BY <1>2 DEF Agree
  <2> QED
    BY <2>1, <2>2, <2>3 DEF WalksApart
<1> QED
  BY <1>2, <1>4, <1>5, <1>6, <1>7, <1>8, <1>9 DEF Agree

\* gBS->CreateEvent never works again once it failed, and a failure pending
\* is one that has happened.
LEMMA NextAgrees ==
  ASSUME TypesInv, ~crossed => CallsInv, RecordsInv, [Next]_vars
  PROVE  RecordsInv'
<1>1. CASE Next
  <2>1. fault = "none" /\ Rising(stk)
    BY <1>1 DEF Next, TypesInv
  <2>2. SUFFICES ASSUME failures' = 0, ~crossed' PROVE Agree'
    BY DEF RecordsInv, Intact
  <2>3. failures = 0 /\ CallsInv /\ Agree
    <3>1. failures' = failures \/ failures' = failures + 1
      BY <1>1 DEF Next, CreateRecord, InsertRecord, CoreCreateEvent, CreateFailed, CreateDone, CloseCalled,
         FindEvent, CoreCloseEvent, RemoveRecord, FreeRecord, DispatchEvent, EventNotify, NotifyReturn
    <3>2. failures \in Nat
      BY EventAssumption DEF TypesInv, TypeOK
    <3>3. ~crossed
      BY <1>1, <2>2 DEF Next, CreateRecord, InsertRecord, CoreCreateEvent, CreateFailed, CreateDone, CloseCalled,
         FindEvent, CoreCloseEvent, RemoveRecord, FreeRecord, DispatchEvent, EventNotify, NotifyReturn
    <3> QED
      BY <2>2, <3>1, <3>2, <3>3 DEF RecordsInv, Intact
  <2>4. ~CreateFailed
    BY <2>3, TopFacts DEF CreateFailed, At, Agree, NeverFailed, CallsInv
  <2> QED
    BY <1>1, <2>1, <2>2, <2>3, <2>4, CreateRecordAgrees, InsertRecordAgrees, CoreCreateEventAgrees,
       CreateDoneAgrees, CloseCalledAgrees, FindEventAgrees, CoreCloseEventAgrees, RemoveRecordAgrees,
       FreeRecordAgrees, DispatchEventAgrees, EventNotifyAgrees, NotifyReturnAgrees
       DEF Next
<1>2. CASE UNCHANGED vars
  BY <1>2 DEF vars, RecordsInv, Intact, Agree, NeverFailed, ListedOnce, ListedExactly, EventsLead,
     RecordsLead, FramesLead, WalksApart
<1> QED
  BY <1>1, <1>2

-----------------------------------------------------------------------------
(* What follows for every value of the constants.                          *)

\* The inductive invariant holds in every reachable state.
THEOREM WrapperInvariance == Spec => [](TypesInv /\ (~crossed => CallsInv) /\ RecordsInv)
<1>1. Init => TypesInv /\ CallsInv /\ RecordsInv
  <2>1. Init => CallsInv /\ RecordsInv
    BY InitCalls, InitAgree DEF RecordsInv
  <2>2. Init => Rising(stk)
    BY DEF Init, Rising
  <2> QED
    BY <2>1, <2>2 DEF TypesInv, CallsInv
<1>2. TypesInv /\ (~crossed => CallsInv) /\ RecordsInv /\ [Next]_vars
        => TypesInv' /\ (~crossed' => CallsInv') /\ RecordsInv'
  BY NextTypes, NextCalls, NextAgrees
<1> QED
  BY <1>1, <1>2, PTL DEF Spec

\* Every variable has its type, whatever notifications interrupt and close
\* and whatever fails; in particular priorities bound the stack, and emulated
\* code is given handles of events only.
THEOREM WrapperTypes == Spec => []TypeOK
<1>1. TypesInv => TypeOK
  BY DEF TypesInv
<1> QED
  BY <1>1, WrapperInvariance, PTL

\* What emulated code believes to own is live, even when gBS->CreateEvent has
\* failed, whatever notifications interrupt the wrappers, and whatever they
\* close but for the events the interrupted wrappers deal with.
THEOREM KnownStaysLive == Spec => []KnownLive
<1>1. (~crossed => CallsInv) => KnownLive
  BY DEF CallsInv, KnownOpen, KnownLive, Live
<1> QED
  BY <1>1, WrapperInvariance, PTL

\* As long as gBS->CreateEvent has not failed, and no notification has closed
\* what a wrapper below it deals with, every event the core may notify has its
\* record, on the list once, and the record leads back to the event.
THEOREM EventsKeepRecords == Spec => []RecordOfEvent
<1>1. (~crossed => CallsInv) /\ RecordsInv => RecordOfEvent
  <2> SUFFICES ASSUME CallsInv, Intact, Agree, NEW e \in Wrapped
               PROVE  LET r == core[e].record IN
                      /\ r \in heap /\ event[r] = e
                      /\ Cardinality({n \in DOMAIN eventList : eventList[n] = r}) = 1
    BY DEF RecordOfEvent, RecordsInv, Intact
  <2> DEFINE r == core[e].record
             at == {n \in DOMAIN eventList : eventList[n] = r}
  <2>1. r \in heap /\ event[r] = e /\ \A n \in 1..Len(stk) : Unowned(stk[n]) => stk[n].record # r
    BY DEF Agree, EventsLead, Wrapped
  <2>2. r \in Records /\ \A n \in 1..Len(stk) : Unlisted(stk[n]) => Unowned(stk[n])
    BY <2>1 DEF CallsInv, TypeOK, Unlisted, Unowned
  <2>3. PICK i \in DOMAIN eventList : eventList[i] = r
    BY <2>1, <2>2 DEF Agree, ListedExactly
  <2>4. at = {i}
    BY <2>3 DEF Agree, ListedOnce
  <2>5. Cardinality(at) = 1
    BY <2>4, FS_Singleton
  <2> QED
    BY <2>1, <2>5
<1> QED
  BY <1>1, WrapperInvariance, PTL

\* Nor is the memory of a record used or given back after it was given back.
THEOREM RecordsNotUsedFreed == Spec => []NoUseAfterFree
<1>1. RecordsInv => NoUseAfterFree
  BY DEF RecordsInv, Agree, NoUseAfterFree
<1> QED
  BY <1>1, WrapperInvariance, PTL

\* And no record is lost or left on the list: those allocated are those of live
\* events and of the wrappers in progress.
THEOREM RecordsStayAccounted == Spec => []RecordsAccounted
<1>1. (~crossed => CallsInv) /\ RecordsInv => RecordsAccounted
  <2> SUFFICES ASSUME CallsInv, Intact, Agree
               PROVE  /\ heap = {core[e].record : e \in Wrapped} \cup Making \cup Closing
                      /\ Listed \subseteq heap
    BY DEF RecordsAccounted, RecordsInv, Intact
  <2>1. DOMAIN stk = 1..Len(stk) /\ eventList \in Seq(Records) /\ heap \subseteq Records /\ fault \in {"none", "null"}
    BY DEF CallsInv, TypeOK, Agree
  <2>2. \A r : r \in Making \cup Closing
                 <=> \E n \in 1..Len(stk) : Unowned(stk[n]) /\ stk[n].record = r
    BY <2>1 DEF Making, Closing, Unowned, Agree, NeverFailed
  <2>3. \A n \in 1..Len(stk) : Unowned(stk[n]) => stk[n].record \in heap
    BY <2>1 DEF CallsInv, HeldApart, Holding, Held, Unowned
  <2>4. \A r \in heap : r \in {core[e].record : e \in Wrapped} \cup Making \cup Closing
    BY <2>1, <2>2, EventAssumption DEF Agree, RecordsLead, Wrapped
  <2>5. \A e \in Wrapped : core[e].record \in heap
    BY DEF Agree, EventsLead, Wrapped
  <2>6. \A i \in DOMAIN eventList : eventList[i] \in heap
    BY <2>1 DEF Agree, ListedExactly
  <2> QED
    BY <2>2, <2>3, <2>4, <2>5, <2>6 DEF Listed, Range
<1> QED
  BY <1>1, WrapperInvariance, PTL
=============================================================================
