----------------------------- MODULE ObjectAlloc -----------------------------
(***************************************************************************)
(* The pool of run contexts (Drivers/Emulator/ObjectAlloc.c), down to the  *)
(* single writes to the links of its doubly linked list.                   *)
(*                                                                         *)
(* Users of the pool nest on the one host stack: each allocates an object, *)
(* runs emulated code, which may lead to another user above it, and frees  *)
(* the object.  A timer event puts a new user on top between any two       *)
(* reads or writes, for nothing in ObjectAlloc masks interrupts.           *)
(* The list primitives are MdePkg's BaseLib, modelled write by write.      *)
(***************************************************************************)
EXTENDS Integers, Sequences, FiniteSets

CONSTANTS
  Count,       \* Config->ObjectCount; objects are 1..Count in arena order
  MaxUsers     \* bound: users on the host stack

ASSUME ObjectAssumption ==
  Count \in Nat \ {0} /\ MaxUsers \in Nat \ {0}

Objects == 1..Count
List == 0              \* &Context->List
Nodes == Objects \cup {List}

VARIABLES
  state,   \* "create", "undo", "failed", "ready", "destroy" or "gone"
  index,   \* the loop variable of ObjectAllocCreate and ObjectAllocDestroy
  live,    \* objects with OnCreate done and OnDestroy not
  fwd,     \* ForwardLink
  bck,     \* BackLink
  users,   \* the host stack: records [pc, obj]
  fault,   \* an ASSERT failed
  crossed  \* history: a user has come while another was halfway

vars == <<state, index, live, fwd, bck, users, fault, crossed>>

Pcs == {"alloc", "first", "remove1", "remove2", "init", "held",
        "insert1", "insert2", "insert3", "insert4"}

\* The object to take off the list, or the place to insert one, is chosen, and
\* not all links say so yet.
Halfway == {"remove1", "remove2", "insert3", "insert4"}

TypeOK ==
  /\ state \in {"create", "undo", "failed", "ready", "destroy", "gone"}
  /\ index \in 1..(Count + 1)
  /\ live \subseteq Objects
  /\ fwd \in [Nodes -> Nodes] /\ bck \in [Nodes -> Nodes]
  /\ users \in Seq([pc : Pcs, obj : Nodes])
  /\ fault \in BOOLEAN /\ crossed \in BOOLEAN

\* The arena is zeroed; a null link is shown as a link to the list head.
Init ==
  /\ state = "create"
  /\ index = 1
  /\ live = {}
  /\ fwd = [n \in Nodes |-> List] /\ bck = [n \in Nodes |-> List]
  /\ users = <<>>
  /\ fault = FALSE /\ crossed = FALSE

-----------------------------------------------------------------------------
(* ObjectAllocCreate and ObjectAllocDestroy.                               *)

\* OnCreate and InsertTailList, or OnCreate fails.
CreateObject ==
  /\ state = "create" /\ index <= Count
  /\ \/ /\ live' = live \cup {index}
        /\ fwd' = [fwd EXCEPT ![index] = List, ![bck[List]] = index]
        /\ bck' = [bck EXCEPT ![index] = bck[List], ![List] = index]
        /\ index' = index + 1
        /\ UNCHANGED state
     \/ /\ state' = "undo"
        /\ UNCHANGED <<index, live, fwd, bck>>
  /\ UNCHANGED <<users, fault, crossed>>

CreateDone ==
  /\ state = "create" /\ index > Count
  /\ state' = "ready"
  /\ index' = 1
  /\ UNCHANGED <<live, fwd, bck, users, fault, crossed>>

\* Mutant: the failed object is destroyed instead of the last good one.
UndoFromFailed ==
  /\ state = "undo"
  /\ live' = live \ {index}
  /\ IF index = 1 THEN state' = "failed" /\ UNCHANGED index
                  ELSE index' = index - 1 /\ state' = IF index = 2 THEN "failed" ELSE state
  /\ UNCHANGED <<fwd, bck, users, fault, crossed>>

\* OnDestroy for what was created, then the arena is released.
Undo ==
  /\ state = "undo"
  /\ IF index > 1
       THEN live' = live \ {index - 1} /\ index' = index - 1 /\ UNCHANGED state
       ELSE state' = "failed" /\ UNCHANGED <<live, index>>
  /\ UNCHANGED <<fwd, bck, users, fault, crossed>>

Destroy ==
  /\ state = "ready" /\ users = <<>>
  /\ state' = "destroy"
  /\ UNCHANGED <<index, live, fwd, bck, users, fault, crossed>>

DestroyObject ==
  /\ state = "destroy"
  /\ IF index <= Count
       THEN /\ fault' = (fwd[index] = index)
            /\ live' = live \ {index}
            /\ index' = index + 1
            /\ UNCHANGED state
       ELSE state' = "gone" /\ UNCHANGED <<index, live, fault>>
  /\ UNCHANGED <<fwd, bck, users, crossed>>

-----------------------------------------------------------------------------
(* ObjectAlloc and ObjectFree.                                             *)

Top == users[Len(users)]
At(pc) == state = "ready" /\ users # <<>> /\ Top.pc = pc
Goto(pc) == users' = [users EXCEPT ![Len(users)].pc = pc]
Same == UNCHANGED <<state, index, live, crossed>>

\* A native caller, emulated code that calls back, or a timer event.
NewUser ==
  /\ state = "ready" /\ Len(users) < MaxUsers
  /\ users' = Append(users, [pc |-> "alloc", obj |-> List])
  /\ crossed' = (crossed \/ (users # <<>> /\ Top.pc \in Halfway))
  /\ UNCHANGED <<state, index, live, fwd, bck, fault>>

\* EFI_OUT_OF_RESOURCES, or on to GetFirstNode and OnAlloc.
CheckEmpty ==
  /\ At("alloc")
  /\ IF fwd[List] = List
       THEN users' = SubSeq(users, 1, Len(users) - 1)
       ELSE Goto("first")
  /\ UNCHANGED <<fwd, bck, fault>> /\ Same

\* Mutant: the object freed last is handed out.
GetLast ==
  /\ At("first")
  /\ users' = [users EXCEPT ![Len(users)] = [pc |-> "remove1", obj |-> bck[List]]]
  /\ UNCHANGED <<fwd, bck, fault>> /\ Same

GetFirst ==
  /\ At("first")
  /\ users' = [users EXCEPT ![Len(users)] = [pc |-> "remove1", obj |-> fwd[List]]]
  /\ UNCHANGED <<fwd, bck, fault>> /\ Same

\* RemoveEntryList.
Remove1 ==
  /\ At("remove1")
  /\ bck' = [bck EXCEPT ![fwd[Top.obj]] = bck[Top.obj]]
  /\ Goto("remove2")
  /\ UNCHANGED <<fwd, fault>> /\ Same

Remove2 ==
  /\ At("remove2")
  /\ fwd' = [fwd EXCEPT ![bck[Top.obj]] = fwd[Top.obj]]
  /\ Goto("init")
  /\ UNCHANGED <<bck, fault>> /\ Same

\* Mutant: the links of an allocated object are left as they were.
InitLinkNot ==
  /\ At("init")
  /\ Goto("held")
  /\ UNCHANGED <<fwd, bck, fault>> /\ Same

\* InitializeListHead on the object.
InitLink ==
  /\ At("init")
  /\ fwd' = [fwd EXCEPT ![Top.obj] = Top.obj]
  /\ bck' = [bck EXCEPT ![Top.obj] = Top.obj]
  /\ Goto("held")
  /\ UNCHANGED fault /\ Same

\* Mutant: the object is given back but not inserted.
FreeLoses ==
  /\ At("held")
  /\ fault' = (fwd[Top.obj] # Top.obj)
  /\ users' = SubSeq(users, 1, Len(users) - 1)
  /\ UNCHANGED <<fwd, bck>> /\ Same

\* The object must be unlinked.
Free ==
  /\ At("held")
  /\ fault' = (fwd[Top.obj] # Top.obj)
  /\ Goto("insert1")
  /\ UNCHANGED <<fwd, bck>> /\ Same

\* InsertTailList.
Insert1 ==
  /\ At("insert1")
  /\ fwd' = [fwd EXCEPT ![Top.obj] = List]
  /\ Goto("insert2")
  /\ UNCHANGED <<bck, fault>> /\ Same

Insert2 ==
  /\ At("insert2")
  /\ bck' = [bck EXCEPT ![Top.obj] = bck[List]]
  /\ Goto("insert3")
  /\ UNCHANGED <<fwd, fault>> /\ Same

Insert3 ==
  /\ At("insert3")
  /\ fwd' = [fwd EXCEPT ![bck[Top.obj]] = Top.obj]
  /\ Goto("insert4")
  /\ UNCHANGED <<bck, fault>> /\ Same

Insert4 ==
  /\ At("insert4")
  /\ bck' = [bck EXCEPT ![List] = Top.obj]
  /\ users' = SubSeq(users, 1, Len(users) - 1)
  /\ UNCHANGED <<fwd, fault>> /\ Same

Next ==
  /\ ~fault
  /\ \/ CreateObject \/ CreateDone \/ Undo \/ Destroy \/ DestroyObject
     \/ NewUser \/ CheckEmpty \/ GetFirst \/ Remove1 \/ Remove2 \/ InitLink
     \/ Free \/ Insert1 \/ Insert2 \/ Insert3 \/ Insert4

Spec == Init /\ [][Next]_vars

-----------------------------------------------------------------------------
(* Properties.                                                             *)

\* The n-th node from the list head along the links, which ends back there.
Along(link) ==
  LET node[n \in 0..(Count + 1)] ==
        IF n = 0 \/ (n > 1 /\ node[n - 1] = List) THEN List ELSE link[node[n - 1]]
  IN node

\* The objects on the way.
Following(link) ==
  LET stops == {n \in 1..(Count + 1) : Along(link)[n] = List}
      last == IF stops = {} THEN Count + 1 ELSE CHOOSE n \in stops : \A m \in stops : n <= m
  IN [n \in 1..(last - 1) |-> Along(link)[n]]

\* The objects in the list in forward order.
Queue == Following(fwd)

\* Objects a user has taken and not yet given back.
Taken == {users[n].obj : n \in {m \in DOMAIN users :
            users[m].pc \in {"init", "held", "insert1", "insert2", "insert3"}}}

Quiet == \A n \in DOMAIN users : users[n].pc = "held"

\* Users may come between any two steps of ObjectAlloc and ObjectFree.  As long
\* as none has come while another was halfway, the list reads the same in both
\* directions whenever all users have their objects, and each object is either
\* on it or held by exactly one user.
ListConsistent ==
  state = "ready" /\ ~crossed /\ Quiet =>
    /\ \A n \in 1..Len(Queue) : Along(bck)[Len(Queue) + 1 - n] = Queue[n]
    /\ {Queue[n] : n \in 1..Len(Queue)} \cup Taken = Objects
    /\ Len(Queue) + Len(users) = Count

\* ObjectFree's and ObjectAllocDestroy's ASSERTs on IsListEmpty (&Object->Link):
\* an object is unlinked exactly while it is allocated, unless a user has come
\* while another was halfway.
LinksTellAllocated == fault => crossed

\* The comment in ObjectAllocDestroy: "IsListEmpty is true only for allocated
\* objects", whoever has interrupted whom.
LinksAlwaysTell == ~fault

\* Every object that OnCreate set up is torn down, also after a failure.
NothingLeftBehind == state \in {"failed", "gone"} => live = {}

(* The pool is a first-in first-out queue: an object is taken from the     *)
(* front and given back at the end.                                        *)
Fifo == INSTANCE FifoPool WITH queue <- IF state = "ready" THEN Queue ELSE <<>>,
                               taken <- IF state = "ready" THEN Taken ELSE {}

\* ObjectAlloc and ObjectFree, write by write, implement that queue until a user
\* comes while another is halfway.
IsFifo == Fifo!Init /\ [][Fifo!Next \/ crossed']_(Fifo!vars)

=============================================================================
