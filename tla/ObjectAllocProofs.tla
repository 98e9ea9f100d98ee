-------------------------- MODULE ObjectAllocProofs --------------------------
(***************************************************************************)
(* Proofs about ObjectAlloc, for any number of objects and users, who may  *)
(* come between any two of its steps.  What comes from the links, and that *)
(* they implement FifoPool, holds until one comes while another is         *)
(* halfway: a list that another user finds whole it leaves whole.          *)
(***************************************************************************)
EXTENDS ObjectAlloc, WellFoundedInduction, SequenceTheorems, FiniteSetTheorems, TLAPS

-----------------------------------------------------------------------------
(* The inductive invariant, for a list q of objects in the order of the    *)
(* links f and b.                                                          *)

\* Place i of the list, the list head before and behind it.
Node(q, i) == IF i \in DOMAIN q THEN q[i] ELSE List

Forward(q, f) == \A i \in 0..Len(q) : f[Node(q, i)] = Node(q, i + 1)
BackIn(q, b) == \A i \in 1..Len(q) : b[Node(q, i)] = Node(q, i - 1)
Backward(q, b) == BackIn(q, b) /\ b[List] = Node(q, Len(q))
Once(q) == \A i, j \in DOMAIN q : q[i] = q[j] => i = j
IsList(q) == q \in Seq(Objects) /\ Len(q) <= Count /\ Once(q)

\* Users that have an object, which is on the list no more or not yet.
Has(x) == x.pc \in {"init", "held", "insert1", "insert2", "insert3"}

OwnersOK(q, u) ==
  /\ \A n \in 1..Len(u) : Has(u[n]) =>
       /\ u[n].obj \in Objects /\ \A i \in DOMAIN q : q[i] # u[n].obj
       /\ \A m \in 1..Len(u) : Has(u[m]) /\ u[m].obj = u[n].obj => m = n
  /\ \A o \in Objects : \/ \E i \in DOMAIN q : q[i] = o
                        \/ \E n \in 1..Len(u) : Has(u[n]) /\ u[n].obj = o

\* Some object is with none of the users below u[n].
Spare(u, n) == \E o \in Objects : \A m \in 1..(n - 1) : ~(Has(u[m]) /\ u[m].obj = o)

\* Nobody has been interrupted halfway, and each user finds what it left: its
\* object unlinked or with the link it wrote, or an object to take.
Settled(f, u) ==
  /\ \A n \in 1..(Len(u) - 1) : u[n].pc \notin Halfway
  /\ \A n \in 1..Len(u) : /\ u[n].pc = "held" => f[u[n].obj] = u[n].obj
                          /\ u[n].pc = "insert2" => f[u[n].obj] = List
                          /\ u[n].pc = "first" => Spare(u, n)

\* How far the topmost user is with the links.
LinksOK(q, f, b, x) ==
  /\ Forward(q, f)
  /\ CASE x.pc = "remove2" -> /\ q # <<>> /\ x.obj = q[1] /\ b[x.obj] = List
                              /\ Backward(Tail(q), b)
       [] x.pc = "insert4" -> q # <<>> /\ x.obj = q[Len(q)] /\ BackIn(q, b)
       [] OTHER -> Backward(q, b)
  /\ x.pc \in {"first", "remove1"} => q # <<>>
  /\ x.pc = "remove1" => x.obj = q[1]
  /\ x.pc \in {"insert2", "insert3"} => f[x.obj] = List
  /\ x.pc = "insert3" => b[x.obj] = Node(q, Len(q))

\* While the pool is in use.
UseOK(q, f, b, u) ==
  /\ IsList(q) /\ OwnersOK(q, u) /\ Settled(f, u)
  /\ IF Len(u) = 0 THEN Forward(q, f) /\ Backward(q, b)
                   ELSE LinksOK(q, f, b, u[Len(u)])

\* While it is set up and torn down.
Filled(q, k) == q = [i \in 1..k |-> i]
Whole(q) == \A o \in Objects : \E i \in DOMAIN q : q[i] = o

LifeOK ==
  /\ state \in {"create", "undo"} => live = 1..(index - 1)
  /\ state = "ready" => live = Objects /\ index = 1
  /\ state = "destroy" => live = index..Count
  /\ state \in {"failed", "gone"} => live = {}
  /\ state # "ready" => users = <<>>

PoolOK(q) ==
  /\ state = "create" => /\ Filled(q, index - 1) /\ IsList(q)
                         /\ Forward(q, fwd) /\ Backward(q, bck)
  /\ state = "ready" => UseOK(q, fwd, bck, users)
  /\ state = "destroy" => IsList(q) /\ Whole(q) /\ Forward(q, fwd)

-----------------------------------------------------------------------------
(* What the links say, for Queue.                                          *)

LEMMA LeastPlace ==
  ASSUME NEW S \in SUBSET Nat, S # {}
  PROVE  \E n \in S : \A m \in S : n <= m
<1>1. \E x \in S : \A y \in S : ~(<<y, x>> \in OpToRel(<, Nat))
  BY NatLessThanWellFounded, WFMin
<1>2. PICK x \in S : \A y \in S : ~(<<y, x>> \in OpToRel(<, Nat))
  BY <1>1
<1>3. \A y \in S : ~(y < x)
  BY <1>2 DEF OpToRel
<1> QED
  BY <1>3

\* Along is defined place by place, so there is one such function only: the
\* nodes of the list that the links are those of.
LEMMA AlongIs ==
  ASSUME NEW link, NEW q, IsList(q), Forward(q, link)
  PROVE  Along(link) = [n \in 0..(Count + 1) |-> Node(q, n)]
<1> DEFINE Step(g) == [n \in 0..(Count + 1) |->
                         IF n = 0 \/ (n > 1 /\ g[n - 1] = List) THEN List ELSE link[g[n - 1]]]
           w == [n \in 0..(Count + 1) |-> Node(q, n)]
<1>0. /\ Count \in Nat /\ Len(q) \in Nat /\ Len(q) <= Count /\ DOMAIN q = 1..Len(q)
      /\ \A i \in DOMAIN q : q[i] \in Nat /\ q[i] # List
  BY ObjectAssumption DEF IsList, Objects, List
<1>1. Along(link) = CHOOSE g : g = Step(g)
  BY DEF Along
<1>2. ASSUME NEW n \in 0..(Count + 1)
      PROVE  w[n] = IF n = 0 \/ (n > 1 /\ w[n - 1] = List) THEN List ELSE link[w[n - 1]]
  <2>1. CASE n = 0
    BY <1>0, <2>1 DEF Node
  <2>2. CASE n # 0 /\ n - 1 <= Len(q)
    <3>1. link[Node(q, n - 1)] = Node(q, n - 1 + 1) /\ n - 1 + 1 = n /\ n - 1 \in 0..(Count + 1)
      BY <1>0, <2>2 DEF Forward
    <3>2. n > 1 => Node(q, n - 1) # List
      BY <1>0, <2>2 DEF Node
    <3> QED
      BY <2>2, <3>1, <3>2
  <2>3. CASE n - 1 > Len(q)
    <3>1. Node(q, n - 1) = List /\ Node(q, n) = List /\ n > 1 /\ n - 1 \in 0..(Count + 1)
      BY <1>0, <2>3 DEF Node
    <3> QED
      BY <3>1
  <2> QED
    BY <1>0, <2>1, <2>2, <2>3
<1>3. w = Step(w)
  BY <1>2
<1>4. ASSUME NEW g, g = Step(g)
      PROVE  g = w
  <2> DEFINE Wrong == {n \in 0..(Count + 1) : g[n] # w[n]}
  <2>1. /\ DOMAIN g = 0..(Count + 1)
        /\ \A n \in 0..(Count + 1) :
             g[n] = IF n = 0 \/ (n > 1 /\ g[n - 1] = List) THEN List ELSE link[g[n - 1]]
    BY <1>4
  <2>2. CASE Wrong # {}
    <3>1. Wrong \in SUBSET Nat
      OBVIOUS
    <3>2. PICK n \in Wrong : \A m \in Wrong : n <= m
      BY <2>2, <3>1, LeastPlace
    <3>3. n \in 0..(Count + 1) /\ g[n] # w[n]
      OBVIOUS
    <3>4. n # 0
      <4>1. g[0] = List /\ w[0] = List
        BY <1>0, <1>2, <2>1
      <4> QED
        BY <3>3, <4>1
    <3>5. n - 1 \in 0..(Count + 1) /\ n - 1 \notin Wrong
      BY <1>0, <3>2, <3>3, <3>4
    <3>6. g[n - 1] = w[n - 1]
      BY <3>5
    <3> QED
      BY <1>2, <2>1, <3>3, <3>6
  <2>3. CASE Wrong = {}
    <3>1. \A n \in 0..(Count + 1) : g[n] = w[n]
      BY <2>3
    <3>2. g = [n \in 0..(Count + 1) |-> g[n]] /\ w = [n \in 0..(Count + 1) |-> w[n]]
      BY <1>4
    <3> QED
      BY <3>1, <3>2
  <2> QED
    BY <2>2, <2>3
<1> HIDE DEF w, Step
<1>5. Along(link) = w
  BY <1>1, <1>3, <1>4
<1> QED
  BY <1>5 DEF w

LEMMA FollowingIs ==
  ASSUME NEW link, NEW q, IsList(q), Forward(q, link)
  PROVE  Following(link) = q
<1> DEFINE stops == {n \in 1..(Count + 1) : Along(link)[n] = List}
           last == CHOOSE n \in stops : \A m \in stops : n <= m
<1>0. /\ Count \in Nat /\ Len(q) \in Nat /\ Len(q) <= Count /\ DOMAIN q = 1..Len(q)
      /\ \A i \in DOMAIN q : q[i] \in Nat /\ q[i] # List
      /\ q = [i \in 1..Len(q) |-> q[i]]
  BY ObjectAssumption DEF IsList, Objects, List
<1>1. \A n \in 0..(Count + 1) : Along(link)[n] = Node(q, n)
  BY AlongIs
<1>2. \A n \in 1..(Count + 1) : n \in stops <=> n > Len(q)
  BY <1>0, <1>1 DEF Node
<1>3. Len(q) + 1 \in stops /\ \A m \in stops : Len(q) + 1 <= m
  BY <1>0, <1>2
<1> HIDE DEF stops
<1>4. last \in stops /\ \A m \in stops : last <= m
  BY <1>3
<1>5. stops \subseteq Nat
  BY <1>0 DEF stops
<1>6. last = Len(q) + 1
  BY <1>0, <1>3, <1>4, <1>5
<1>7. Following(link) = [n \in 1..(last - 1) |-> Along(link)[n]]
  BY <1>3 DEF Following, stops
<1> HIDE DEF last
<1>8. last - 1 = Len(q) /\ 1..Len(q) \subseteq 0..(Count + 1)
  BY <1>0, <1>6
<1>9. Following(link) = [n \in 1..Len(q) |-> Node(q, n)]
  BY <1>0, <1>1, <1>7, <1>8
<1> QED
  BY <1>0, <1>9 DEF Node

-----------------------------------------------------------------------------
(* The list when an object leaves it or comes back.                        *)

LEMMA ListFacts ==
  ASSUME NEW q, IsList(q)
  PROVE  /\ DOMAIN q = 1..Len(q) /\ Len(q) \in Nat /\ Len(q) <= Count
         /\ \A i \in 1..Len(q) : q[i] \in Objects /\ q[i] \in Nodes /\ q[i] # List
         /\ \A i, j \in 1..Len(q) : q[i] = q[j] => i = j
         /\ List \in Nodes /\ \A o \in Objects : o \in Nodes /\ o # List
<1>1. q \in Seq(Objects) /\ Len(q) <= Count /\ Once(q)
  BY DEF IsList
<1>2. \A o \in Objects : o # List
  BY DEF Objects, List
<1> QED
  BY <1>1, <1>2 DEF Once, Nodes

LEMMA TailOK ==
  ASSUME NEW q, IsList(q), q # <<>>
  PROVE  /\ IsList(Tail(q)) /\ Len(Tail(q)) = Len(q) - 1 /\ DOMAIN Tail(q) = 1..(Len(q) - 1)
         /\ DOMAIN q = 1..Len(q) /\ Len(q) \in Nat \ {0}
         /\ \A i \in 1..(Len(q) - 1) : Tail(q)[i] = q[i + 1]
         /\ Head(q) = q[1] /\ q[1] \in Objects
         /\ \A i \in DOMAIN Tail(q) : Tail(q)[i] # q[1]
<1>0. Count \in Nat
  BY ObjectAssumption
<1>1. /\ Tail(q) \in Seq(Objects) /\ Len(Tail(q)) = Len(q) - 1 /\ DOMAIN Tail(q) = 1..(Len(q) - 1)
      /\ DOMAIN q = 1..Len(q) /\ Len(q) \in Nat \ {0} /\ Len(q) <= Count
      /\ \A i \in 1..(Len(q) - 1) : Tail(q)[i] = q[i + 1]
      /\ Head(q) = q[1] /\ q[1] \in Objects
  BY DEF IsList
<1>2. \A i \in DOMAIN Tail(q) : Tail(q)[i] # q[1]
  BY <1>1 DEF IsList, Once
<1>3. Once(Tail(q))
  BY <1>1 DEF IsList, Once
<1> QED
  BY <1>0, <1>1, <1>2, <1>3 DEF IsList

\* RemoveEntryList of the first object.
LEMMA TailForward ==
  ASSUME NEW q, IsList(q), q # <<>>, NEW f \in [Nodes -> Nodes], Forward(q, f)
  PROVE  Forward(Tail(q), [f EXCEPT ![List] = f[q[1]]])
<1>1. /\ Len(Tail(q)) = Len(q) - 1 /\ DOMAIN Tail(q) = 1..(Len(q) - 1)
      /\ DOMAIN q = 1..Len(q) /\ Len(q) \in Nat \ {0}
      /\ \A i \in 1..(Len(q) - 1) : Tail(q)[i] = q[i + 1]
      /\ \A i \in 1..Len(q) : q[i] \in Nodes /\ q[i] # List
      /\ List \in Nodes
  BY TailOK, ListFacts
<1>2. ASSUME NEW i \in 0..(Len(q) - 1)
      PROVE  [f EXCEPT ![List] = f[q[1]]][Node(Tail(q), i)] = Node(Tail(q), i + 1)
  <2>1. Node(Tail(q), i + 1) = Node(q, i + 2)
    BY <1>1 DEF Node
  <2>2. f[Node(q, i + 1)] = Node(q, i + 2)
    <3>1. i + 1 \in 0..Len(q) /\ (i + 1) + 1 = i + 2
      BY <1>1
    <3> QED
      BY <3>1 DEF Forward
  <2>3. IF i = 0 THEN Node(Tail(q), i) = List /\ Node(q, i + 1) = q[1]
                 ELSE Node(Tail(q), i) = Node(q, i + 1) /\ Node(q, i + 1) \in Nodes \ {List}
    BY <1>1 DEF Node
  <2> QED
    BY <1>1, <2>1, <2>2, <2>3
<1> QED
  BY <1>1, <1>2 DEF Forward

LEMMA TailBackward ==
  ASSUME NEW q, IsList(q), q # <<>>, NEW b \in [Nodes -> Nodes], Backward(q, b)
  PROVE  b[q[1]] = List /\ Backward(Tail(q), [b EXCEPT ![Node(q, 2)] = List])
<1>1. /\ Len(Tail(q)) = Len(q) - 1 /\ DOMAIN Tail(q) = 1..(Len(q) - 1)
      /\ DOMAIN q = 1..Len(q) /\ Len(q) \in Nat \ {0}
      /\ \A i \in 1..(Len(q) - 1) : Tail(q)[i] = q[i + 1]
      /\ \A i \in 1..Len(q) : q[i] \in Nodes /\ q[i] # List
      /\ List \in Nodes
      /\ \A i, j \in 1..Len(q) : q[i] = q[j] => i = j
  BY TailOK, ListFacts
<1>2. \A i \in 1..Len(q) : b[q[i]] = IF i = 1 THEN List ELSE q[i - 1]
  BY <1>1 DEF Backward, BackIn, Node
<1>3. b[List] = q[Len(q)]
  BY <1>1 DEF Backward, Node
<1>4. ASSUME NEW i \in 1..(Len(q) - 1)
      PROVE  [b EXCEPT ![Node(q, 2)] = List][Node(Tail(q), i)] = Node(Tail(q), i - 1)
  <2>1. Node(Tail(q), i) = q[i + 1] /\ Node(q, 2) = q[2] /\ i + 1 \in 1..Len(q) /\ 2 \in 1..Len(q)
    BY <1>1 DEF Node
  <2>2. Node(Tail(q), i - 1) = IF i = 1 THEN List ELSE q[i]
    BY <1>1 DEF Node
  <2>3. b[q[i + 1]] = q[i]
    <3>1. i + 1 # 1 /\ (i + 1) - 1 = i
      OBVIOUS
    <3> QED
      BY <1>2, <2>1, <3>1
  <2> QED
    BY <1>1, <2>1, <2>2, <2>3
<1>5. [b EXCEPT ![Node(q, 2)] = List][List] = Node(Tail(q), Len(q) - 1)
  <2>1. CASE Len(q) = 1
    BY <1>1, <2>1 DEF Node
  <2>2. CASE Len(q) > 1
    <3>1. Node(q, 2) = q[2] /\ q[2] # List /\ Node(Tail(q), Len(q) - 1) = q[Len(q)]
      BY <1>1, <2>2 DEF Node
    <3> QED
      BY <1>1, <1>3, <3>1
  <2> QED
    BY <1>1, <2>1, <2>2
<1> QED
  BY <1>1, <1>2, <1>4, <1>5 DEF Backward, BackIn

LEMMA AppendOK ==
  ASSUME NEW q, IsList(q), Len(q) < Count, NEW o \in Objects, \A i \in DOMAIN q : q[i] # o
  PROVE  /\ IsList(Append(q, o)) /\ Len(Append(q, o)) = Len(q) + 1
         /\ DOMAIN Append(q, o) = 1..(Len(q) + 1) /\ DOMAIN q = 1..Len(q) /\ Len(q) \in Nat
         /\ \A i \in 1..Len(q) : Append(q, o)[i] = q[i]
         /\ Append(q, o)[Len(q) + 1] = o
<1>0. Count \in Nat
  BY ObjectAssumption
<1>1. /\ Append(q, o) \in Seq(Objects) /\ Len(Append(q, o)) = Len(q) + 1
      /\ DOMAIN Append(q, o) = 1..(Len(q) + 1) /\ DOMAIN q = 1..Len(q) /\ Len(q) \in Nat
      /\ \A i \in 1..Len(q) : Append(q, o)[i] = q[i]
      /\ Append(q, o)[Len(q) + 1] = o
  BY DEF IsList
<1>2. Once(Append(q, o))
  BY <1>1 DEF IsList, Once
<1> QED
  BY <1>0, <1>1, <1>2 DEF IsList

\* InsertTailList; the link of the list head is the last that is written.
LEMMA AppendForward ==
  ASSUME NEW q, IsList(q), Len(q) < Count, NEW o \in Objects, \A i \in DOMAIN q : q[i] # o,
         NEW f \in [Nodes -> Nodes], Forward(q, f), f[o] = List
  PROVE  Forward(Append(q, o), [f EXCEPT ![Node(q, Len(q))] = o])
<1> DEFINE p == Append(q, o)
<1>1. /\ Len(p) = Len(q) + 1 /\ DOMAIN p = 1..(Len(q) + 1)
      /\ DOMAIN q = 1..Len(q) /\ Len(q) \in Nat
      /\ \A i \in 1..Len(q) : p[i] = q[i]
      /\ p[Len(q) + 1] = o
      /\ \A i \in 1..Len(q) : q[i] \in Nodes /\ q[i] # List /\ q[i] # o
      /\ List \in Nodes /\ o \in Nodes /\ o # List
      /\ \A i, j \in 1..Len(q) : q[i] = q[j] => i = j
  BY AppendOK, ListFacts
<1> HIDE DEF p
<1>2. ASSUME NEW i \in 0..(Len(q) + 1)
      PROVE  [f EXCEPT ![Node(q, Len(q))] = o][Node(p, i)] = Node(p, i + 1)
  <2>1. CASE i = Len(q) + 1
    <3>1. Node(p, i) = o /\ Node(p, i + 1) = List /\ Node(q, Len(q)) # o /\ Node(q, Len(q)) \in Nodes
      BY <1>1, <2>1 DEF Node
    <3> QED
      BY <1>1, <3>1
  <2>2. CASE i = Len(q)
    <3>1. Node(p, i) = Node(q, Len(q)) /\ Node(p, i + 1) = o /\ Node(q, Len(q)) \in Nodes
      BY <1>1, <2>2 DEF Node
    <3> QED
      BY <3>1
  <2>3. CASE i < Len(q)
    <3>1. Node(p, i) = Node(q, i) /\ Node(p, i + 1) = Node(q, i + 1)
      BY <1>1, <2>3 DEF Node
    <3>2. Node(q, i) # Node(q, Len(q)) /\ Node(q, i) \in Nodes
      BY <1>1, <2>3 DEF Node
    <3>3. f[Node(q, i)] = Node(q, i + 1)
      BY <1>1, <2>3 DEF Forward
    <3> QED
      BY <3>1, <3>2, <3>3
  <2>4. i = Len(q) + 1 \/ i = Len(q) \/ i < Len(q)
    <3>1. Len(q) \in Nat
      BY <1>1
    <3> QED
      BY <3>1
  <2> QED
    BY <2>1, <2>2, <2>3, <2>4
<1> QED
  BY <1>1, <1>2 DEF Forward, p

LEMMA AppendBackIn ==
  ASSUME NEW q, IsList(q), Len(q) < Count, NEW o \in Objects, \A i \in DOMAIN q : q[i] # o,
         NEW b, BackIn(q, b), b[o] = Node(q, Len(q))
  PROVE  BackIn(Append(q, o), b)
<1> DEFINE p == Append(q, o)
<1>1. /\ Len(p) = Len(q) + 1 /\ DOMAIN p = 1..(Len(q) + 1)
      /\ DOMAIN q = 1..Len(q) /\ Len(q) \in Nat
      /\ \A i \in 1..Len(q) : p[i] = q[i]
      /\ p[Len(q) + 1] = o
  BY AppendOK
<1> HIDE DEF p
<1>2. ASSUME NEW i \in 1..(Len(q) + 1)
      PROVE  b[Node(p, i)] = Node(p, i - 1)
  <2>1. Node(p, i - 1) = Node(q, i - 1)
    BY <1>1 DEF Node
  <2>2. IF i = Len(q) + 1 THEN Node(p, i) = o /\ i - 1 = Len(q) ELSE Node(p, i) = Node(q, i) /\ i \in 1..Len(q)
    BY <1>1 DEF Node
  <2> QED
    BY <2>1, <2>2 DEF BackIn
<1> QED
  BY <1>1, <1>2 DEF BackIn, p

\* A write to a link that is no object's on the list and not the head's.
LEMMA OtherLink ==
  ASSUME NEW q, IsList(q), NEW f \in [Nodes -> Nodes], NEW o \in Objects,
         \A i \in DOMAIN q : q[i] # o, NEW v
  PROVE  /\ Forward(q, f) => Forward(q, [f EXCEPT ![o] = v])
         /\ Backward(q, f) => Backward(q, [f EXCEPT ![o] = v])
<1>1. /\ DOMAIN q = 1..Len(q) /\ Len(q) \in Nat /\ o # List
      /\ \A i \in 0..Len(q) : Node(q, i) \in Nodes /\ Node(q, i) # o
      /\ List \in Nodes
  BY ListFacts DEF Node
<1>2. \A x \in Nodes : x # o => [f EXCEPT ![o] = v][x] = f[x]
  OBVIOUS
<1> QED
  BY <1>1, <1>2 DEF Forward, Backward, BackIn

-----------------------------------------------------------------------------
(* Types, and the life of the pool, whatever interrupts it.                *)

User == [pc : Pcs, obj : Nodes]

LEMMA InitLife == Init => TypeOK /\ LifeOK
<1> SUFFICES ASSUME Init PROVE TypeOK /\ LifeOK
  OBVIOUS
<1>1. List \in Nodes /\ index \in 1..(Count + 1) /\ live = 1..(index - 1)
  BY ObjectAssumption DEF Init, Nodes
<1>2. /\ fwd \in [Nodes -> Nodes] /\ bck \in [Nodes -> Nodes]
      /\ fault \in BOOLEAN /\ crossed \in BOOLEAN
  BY <1>1 DEF Init
<1>3. users \in Seq([pc : Pcs, obj : Nodes])
  BY DEF Init
<1>4. /\ state \in {"create", "undo", "failed", "ready", "destroy", "gone"}
      /\ live \subseteq Objects
  BY DEF Init
<1>5. TypeOK
  BY <1>1, <1>2, <1>3, <1>4 DEF TypeOK
<1> QED
  BY <1>1, <1>5 DEF Init, LifeOK

\* Setting up and tearing down.
LEMMA SetupLife ==
  ASSUME TypeOK, LifeOK, CreateObject \/ CreateDone \/ Undo \/ Destroy \/ DestroyObject
  PROVE  TypeOK' /\ LifeOK'
<1>0. Count \in Nat /\ index \in 1..(Count + 1) /\ index \in Nat /\ users \in Seq(User)
  BY ObjectAssumption DEF TypeOK, User
<1>1. CASE CreateObject /\ state' = "create"
  <2>1. /\ state = "create" /\ index <= Count /\ live' = live \cup {index} /\ index' = index + 1
        /\ fwd' = [fwd EXCEPT ![index] = List, ![bck[List]] = index]
        /\ bck' = [bck EXCEPT ![index] = bck[List], ![List] = index]
        /\ UNCHANGED <<users, fault, crossed>>
    BY <1>1 DEF CreateObject
  <2>2. index \in Nodes /\ List \in Nodes /\ index \in Objects
    BY <1>0, <2>1 DEF Nodes, Objects
  <2>3. fwd' \in [Nodes -> Nodes] /\ bck' \in [Nodes -> Nodes]
    BY <2>1, <2>2 DEF TypeOK
  <2>4. live' = 1..(index' - 1) /\ index' \in 1..(Count + 1)
    BY <1>0, <2>1 DEF LifeOK
  <2> QED
    BY <1>0, <1>1, <2>1, <2>2, <2>3, <2>4 DEF TypeOK, LifeOK
<1>2. CASE CreateObject /\ state' # "create"
  BY <1>2 DEF CreateObject, TypeOK, LifeOK
<1>3. CASE CreateDone
  <2>1. index = Count + 1
    BY <1>0, <1>3 DEF CreateDone
  <2>2. live = Objects
    BY <1>0, <1>3, <2>1 DEF CreateDone, LifeOK, Objects
  <2> QED
    BY <1>0, <1>3, <2>2 DEF CreateDone, TypeOK, LifeOK
<1>4. CASE Undo
  <2>1. live = 1..(index - 1) /\ users = <<>> /\ state = "undo"
    BY <1>4 DEF Undo, LifeOK
  <2>2. UNCHANGED <<fwd, bck, users, fault, crossed>>
    BY <1>4 DEF Undo
  <2>3. CASE index > 1
    <3>1. live' = live \ {index - 1} /\ index' = index - 1 /\ state' = "undo"
      BY <1>4, <2>1, <2>3 DEF Undo
    <3>2. live' = 1..(index' - 1) /\ index' \in 1..(Count + 1) /\ live' \subseteq Objects
      BY <1>0, <2>1, <2>3, <3>1 DEF TypeOK
    <3> QED
      BY <2>1, <2>2, <3>1, <3>2 DEF TypeOK, LifeOK
  <2>4. CASE ~(index > 1)
    <3>1. state' = "failed" /\ UNCHANGED <<live, index>>
      BY <1>4, <2>4 DEF Undo
    <3>2. live = {}
      BY <1>0, <2>1, <2>4
    <3> QED
      BY <2>1, <2>2, <3>1, <3>2 DEF TypeOK, LifeOK
  <2> QED
    BY <2>3, <2>4
<1>5. CASE Destroy
  BY <1>0, <1>5 DEF Destroy, TypeOK, LifeOK, Objects
<1>6. CASE DestroyObject
  <2>1. live = index..Count /\ users = <<>> /\ state = "destroy"
    BY <1>6 DEF DestroyObject, LifeOK
  <2>2. UNCHANGED <<fwd, bck, users, crossed>>
    BY <1>6 DEF DestroyObject
  <2>3. CASE index <= Count
    <3>1. live' = live \ {index} /\ index' = index + 1 /\ state' = "destroy" /\ fault' \in BOOLEAN
      BY <1>6, <2>1, <2>3 DEF DestroyObject
    <3>2. live' = index'..Count /\ index' \in 1..(Count + 1) /\ live' \subseteq Objects
      BY <1>0, <2>1, <2>3, <3>1 DEF TypeOK
    <3> QED
      BY <2>1, <2>2, <3>1, <3>2 DEF TypeOK, LifeOK
  <2>4. CASE ~(index <= Count)
    <3>1. state' = "gone" /\ UNCHANGED <<live, index, fault>>
      BY <1>6, <2>4 DEF DestroyObject
    <3>2. live = {}
      BY <1>0, <2>1, <2>4
    <3> QED
      BY <2>1, <2>2, <3>1, <3>2 DEF TypeOK, LifeOK
  <2> QED
    BY <2>3, <2>4
<1> QED
  BY <1>1, <1>2, <1>3, <1>4, <1>5, <1>6

\* A user steps, comes or goes.
UseStep ==
  \/ NewUser \/ CheckEmpty \/ GetFirst \/ Remove1 \/ Remove2 \/ InitLink
  \/ Free \/ Insert1 \/ Insert2 \/ Insert3 \/ Insert4

Turns(u, v, y) ==
  /\ u \in Seq(User) /\ v \in Seq(User) /\ Len(u) \in Nat \ {0} /\ Len(v) = Len(u) /\ y \in User
  /\ \A n \in 1..Len(u) : v[n] = IF n = Len(u) THEN y ELSE u[n]
Leaves(u, v) ==
  /\ u \in Seq(User) /\ v \in Seq(User) /\ Len(u) \in Nat \ {0} /\ Len(v) = Len(u) - 1
  /\ \A n \in 1..(Len(u) - 1) : v[n] = u[n]

LEMMA TopOK ==
  ASSUME TypeOK, NEW pc, At(pc)
  PROVE  /\ state = "ready" /\ users \in Seq(User) /\ Len(users) \in Nat \ {0}
         /\ Top = users[Len(users)] /\ Top \in User /\ Top.pc = pc /\ Top.obj \in Nodes
         /\ fwd \in [Nodes -> Nodes] /\ bck \in [Nodes -> Nodes]
<1>1. users \in Seq(User) /\ users # <<>>
  BY DEF TypeOK, At, User
<1>2. Len(users) \in Nat \ {0} /\ users[Len(users)] \in User
  BY <1>1
<1> QED
  BY <1>1, <1>2 DEF TypeOK, At, Top, User

LEMMA GotoOK ==
  ASSUME TypeOK, NEW pc, At(pc), NEW next \in Pcs, Goto(next)
  PROVE  Turns(users, users', [pc |-> next, obj |-> Top.obj])
<1>1. /\ users \in Seq(User) /\ Len(users) \in Nat \ {0} /\ Top = users[Len(users)]
      /\ Top \in User /\ Top.obj \in Nodes
  BY TopOK
<1>2. [pc |-> next, obj |-> Top.obj] \in User
  BY <1>1 DEF User
<1>3. [Top EXCEPT !.pc = next] = [pc |-> next, obj |-> Top.obj]
  BY <1>1 DEF User
<1>4. users' = [users EXCEPT ![Len(users)] = [Top EXCEPT !.pc = next]]
  BY <1>1 DEF Goto
<1> QED
  BY <1>1, <1>2, <1>3, <1>4 DEF Turns

LEMMA FrontOK ==
  ASSUME NEW s, NEW n \in Nat, \A i \in 1..n : s[i] \in User
  PROVE  /\ SubSeq(s, 1, n) \in Seq(User) /\ Len(SubSeq(s, 1, n)) = n
         /\ \A i \in 1..n : SubSeq(s, 1, n)[i] = s[i]
<1> DEFINE t == SubSeq(s, 1, n)
<1>1. 1 \in Int /\ n \in Int
  OBVIOUS
<1>2. /\ t \in Seq(User) /\ Len(t) = IF 1 <= n THEN n - 1 + 1 ELSE 0
      /\ \A i \in 1..(n - 1 + 1) : t[i] = s[1 + i - 1]
  BY <1>1, SubSeqProperties
<1> HIDE DEF t
<1>3. t \in Seq(User) /\ Len(t) = n /\ \A i \in 1..n : t[i] = s[i]
  BY <1>2
<1> QED
  BY <1>3 DEF t

LEMMA LeaveOK ==
  ASSUME TypeOK, NEW pc, At(pc), users' = SubSeq(users, 1, Len(users) - 1)
  PROVE  Leaves(users, users')
<1> DEFINE n == Len(users) - 1
<1>1. users \in Seq(User) /\ Len(users) \in Nat \ {0}
  BY TopOK
<1>2. n \in Nat /\ \A i \in 1..n : users[i] \in User
  BY <1>1
<1> HIDE DEF n
<1>3. /\ SubSeq(users, 1, n) \in Seq(User) /\ Len(SubSeq(users, 1, n)) = n
      /\ \A i \in 1..n : SubSeq(users, 1, n)[i] = users[i]
  BY <1>2, FrontOK
<1>4. users' = SubSeq(users, 1, n)
  BY DEF n
<1>5. users' \in Seq(User) /\ Len(users') = n /\ \A i \in 1..n : users'[i] = users[i]
  BY <1>3, <1>4
<1> QED
  BY <1>1, <1>5 DEF Leaves, n

LEMMA UseLife ==
  ASSUME TypeOK, LifeOK, UseStep
  PROVE  TypeOK' /\ LifeOK'
<1>1. state = "ready" /\ UNCHANGED <<state, index, live>>
  BY DEF UseStep, NewUser, CheckEmpty, GetFirst, Remove1, Remove2, InitLink, Free, Insert1,
         Insert2, Insert3, Insert4, At, Same
<1>2. LifeOK'
  BY <1>1 DEF LifeOK
<1>3. fwd \in [Nodes -> Nodes] /\ bck \in [Nodes -> Nodes] /\ List \in Nodes
      /\ users \in Seq(User) /\ fault \in BOOLEAN /\ crossed' \in BOOLEAN
  BY DEF UseStep, NewUser, CheckEmpty, GetFirst, Remove1, Remove2, InitLink, Free, Insert1,
         Insert2, Insert3, Insert4, Same, TypeOK, Nodes, User
<1>4. ASSUME fwd' \in [Nodes -> Nodes], bck' \in [Nodes -> Nodes], users' \in Seq(User), fault' \in BOOLEAN
      PROVE  TypeOK'
  BY <1>1, <1>3, <1>4 DEF TypeOK, User
<1>5. CASE NewUser
  <2>1. [pc |-> "alloc", obj |-> List] \in User
    BY <1>3 DEF User, Pcs
  <2> QED
    BY <1>2, <1>3, <1>4, <1>5, <2>1 DEF NewUser
<1>6. CASE CheckEmpty
  <2>1. users' \in Seq(User)
    <3>1. CASE fwd[List] = List
      BY <1>6, <3>1, LeaveOK DEF CheckEmpty, Leaves
    <3>2. CASE fwd[List] # List
      BY <1>6, <3>2, GotoOK DEF CheckEmpty, Turns, Pcs
    <3> QED
      BY <3>1, <3>2
  <2> QED
    BY <1>2, <1>3, <1>4, <1>6, <2>1 DEF CheckEmpty
<1>7. CASE GetFirst
  <2>1. [pc |-> "remove1", obj |-> fwd[List]] \in User /\ Len(users) \in Nat \ {0}
    BY <1>3, <1>7, TopOK DEF User, Pcs, GetFirst
  <2>2. users' \in Seq(User)
    BY <1>3, <1>7, <2>1 DEF GetFirst
  <2> QED
    BY <1>2, <1>3, <1>4, <1>7, <2>2 DEF GetFirst
<1>8. CASE Remove1
  <2>1. users' \in Seq(User) /\ Top.obj \in Nodes
    BY <1>8, TopOK, GotoOK DEF Remove1, Turns, Pcs
  <2> QED
    BY <1>2, <1>3, <1>4, <1>8, <2>1 DEF Remove1
<1>9. CASE Remove2
  <2>1. users' \in Seq(User) /\ Top.obj \in Nodes
    BY <1>9, TopOK, GotoOK DEF Remove2, Turns, Pcs
  <2> QED
    BY <1>2, <1>3, <1>4, <1>9, <2>1 DEF Remove2
<1>10. CASE InitLink
  <2>1. users' \in Seq(User) /\ Top.obj \in Nodes
    BY <1>10, TopOK, GotoOK DEF InitLink, Turns, Pcs
  <2> QED
    BY <1>2, <1>3, <1>4, <1>10, <2>1 DEF InitLink
<1>11. CASE Free
  <2>1. users' \in Seq(User) /\ Top.obj \in Nodes
    BY <1>11, TopOK, GotoOK DEF Free, Turns, Pcs
  <2> QED
    BY <1>2, <1>3, <1>4, <1>11, <2>1 DEF Free
<1>12. CASE Insert1
  <2>1. users' \in Seq(User) /\ Top.obj \in Nodes
    BY <1>12, TopOK, GotoOK DEF Insert1, Turns, Pcs
  <2> QED
    BY <1>2, <1>3, <1>4, <1>12, <2>1 DEF Insert1
<1>13. CASE Insert2
  <2>1. users' \in Seq(User) /\ Top.obj \in Nodes
    BY <1>13, TopOK, GotoOK DEF Insert2, Turns, Pcs
  <2> QED
    BY <1>2, <1>3, <1>4, <1>13, <2>1 DEF Insert2
<1>14. CASE Insert3
  <2>1. users' \in Seq(User) /\ Top.obj \in Nodes
    BY <1>14, TopOK, GotoOK DEF Insert3, Turns, Pcs
  <2> QED
    BY <1>2, <1>3, <1>4, <1>14, <2>1 DEF Insert3
<1>15. CASE Insert4
  <2>1. users' \in Seq(User) /\ Top.obj \in Nodes
    BY <1>15, TopOK, LeaveOK DEF Insert4, Leaves
  <2> QED
    BY <1>2, <1>3, <1>4, <1>15, <2>1 DEF Insert4
<1> QED
  BY <1>5, <1>6, <1>7, <1>8, <1>9, <1>10, <1>11, <1>12, <1>13, <1>14, <1>15 DEF UseStep

LEMMA NextLife ==
  ASSUME TypeOK, LifeOK, [Next]_vars
  PROVE  TypeOK' /\ LifeOK'
<1>1. CASE Next
  BY <1>1, SetupLife, UseLife DEF Next, UseStep
<1>2. CASE UNCHANGED vars
  BY <1>2 DEF vars, TypeOK, LifeOK
<1> QED
  BY <1>1, <1>2

-----------------------------------------------------------------------------
(* Users and what they own, when the topmost one gets on.                  *)

\* The topmost user has what it had.
LEMMA OwnersTurn ==
  ASSUME NEW q, NEW u, NEW v, NEW y, OwnersOK(q, u), Turns(u, v, y),
         Has(y) <=> Has(u[Len(u)]), Has(y) => y.obj = u[Len(u)].obj
  PROVE  OwnersOK(q, v)
<1>1. \A n \in 1..Len(u) : /\ Has(v[n]) <=> Has(u[n])
                           /\ Has(u[n]) => v[n].obj = u[n].obj
  BY DEF Turns
<1>2. Len(v) = Len(u)
  BY DEF Turns
<1> HIDE DEF Has
<1> QED
  BY <1>1, <1>2 DEF OwnersOK

\* It takes the first object.
LEMMA OwnersTake ==
  ASSUME NEW q, IsList(q), q # <<>>, NEW u, NEW v, NEW y, OwnersOK(q, u), Turns(u, v, y),
         ~Has(u[Len(u)]), Has(y), y.obj = q[1]
  PROVE  OwnersOK(Tail(q), v)
<1>0. /\ Len(Tail(q)) = Len(q) - 1 /\ DOMAIN Tail(q) = 1..(Len(q) - 1)
      /\ DOMAIN q = 1..Len(q) /\ Len(q) \in Nat \ {0}
      /\ \A i \in 1..(Len(q) - 1) : Tail(q)[i] = q[i + 1]
      /\ q[1] \in Objects /\ \A i \in DOMAIN Tail(q) : Tail(q)[i] # q[1]
  BY TailOK
<1>1. Len(v) = Len(u) /\ Len(u) \in Nat \ {0} /\ v[Len(u)] = y
      /\ \A n \in 1..Len(u) : n # Len(u) => v[n] = u[n]
  BY DEF Turns
<1>2. \A i \in DOMAIN Tail(q) : \E j \in DOMAIN q : Tail(q)[i] = q[j]
  <2>1. \A i \in 1..(Len(q) - 1) : i + 1 \in 1..Len(q)
    BY <1>0
  <2> QED
    BY <1>0, <2>1
<1>3. \A n \in 1..Len(u) : Has(u[n]) => n # Len(u) /\ v[n] = u[n] /\ u[n].obj # q[1]
  BY <1>0, <1>1 DEF OwnersOK
<1>4. ASSUME NEW n \in 1..Len(v), Has(v[n])
      PROVE  /\ v[n].obj \in Objects /\ \A i \in DOMAIN Tail(q) : Tail(q)[i] # v[n].obj
             /\ \A m \in 1..Len(v) : Has(v[m]) /\ v[m].obj = v[n].obj => m = n
  <2>1. CASE n = Len(u)
    BY <1>0, <1>1, <1>3, <2>1
  <2>2. CASE n # Len(u)
    <3>1. v[n] = u[n] /\ Has(u[n])
      BY <1>1, <1>4, <2>2
    <3>2. u[n].obj \in Objects /\ \A j \in DOMAIN q : q[j] # u[n].obj
      BY <1>1, <3>1 DEF OwnersOK
    <3>3. \A m \in 1..Len(u) : Has(u[m]) /\ u[m].obj = u[n].obj => m = n
      BY <1>1, <3>1 DEF OwnersOK
    <3>4. \A m \in 1..Len(v) : Has(v[m]) /\ v[m].obj = v[n].obj => m = n
      BY <1>1, <1>3, <3>1, <3>3
    <3> QED
      BY <1>2, <3>1, <3>2, <3>4
  <2> QED
    BY <2>1, <2>2
<1>5. ASSUME NEW o \in Objects
      PROVE  \/ \E i \in DOMAIN Tail(q) : Tail(q)[i] = o
             \/ \E n \in 1..Len(v) : Has(v[n]) /\ v[n].obj = o
  <2>1. CASE \E j \in DOMAIN q : q[j] = o
    <3>1. PICK j \in DOMAIN q : q[j] = o
      BY <2>1
    <3>2. CASE j = 1
      BY <1>1, <3>1, <3>2
    <3>3. CASE j # 1
      <4>1. j - 1 \in 1..(Len(q) - 1) /\ (j - 1) + 1 = j
        BY <1>0, <3>3
      <4> QED
        BY <1>0, <3>1, <4>1
    <3> QED
      BY <3>2, <3>3
  <2>2. CASE \E n \in 1..Len(u) : Has(u[n]) /\ u[n].obj = o
    BY <1>1, <1>3, <2>2
  <2> QED
    BY <2>1, <2>2 DEF OwnersOK
<1> QED
  BY <1>4, <1>5 DEF OwnersOK

\* It puts its object behind the last one.
LEMMA OwnersGive ==
  ASSUME NEW q, IsList(q), Len(q) < Count, NEW u, NEW v, NEW y, OwnersOK(q, u), Turns(u, v, y),
         Has(u[Len(u)]), ~Has(y)
  PROVE  OwnersOK(Append(q, u[Len(u)].obj), v)
<1> DEFINE o == u[Len(u)].obj
           p == Append(q, o)
<1>1. /\ Len(v) = Len(u) /\ Len(u) \in Nat \ {0} /\ v[Len(u)] = y
      /\ \A n \in 1..Len(u) : n # Len(u) => v[n] = u[n]
  BY DEF Turns
<1>2. o \in Objects /\ \A i \in DOMAIN q : q[i] # o
  BY <1>1 DEF OwnersOK
<1>3. /\ DOMAIN p = 1..(Len(q) + 1) /\ DOMAIN q = 1..Len(q) /\ Len(q) \in Nat
      /\ \A i \in 1..Len(q) : p[i] = q[i]
      /\ p[Len(q) + 1] = o
  BY <1>2, AppendOK
<1> HIDE DEF p
<1>4. ASSUME NEW n \in 1..Len(v), Has(v[n])
      PROVE  /\ v[n].obj \in Objects /\ \A i \in DOMAIN p : p[i] # v[n].obj
             /\ \A m \in 1..Len(v) : Has(v[m]) /\ v[m].obj = v[n].obj => m = n
  <2>1. n # Len(u) /\ v[n] = u[n] /\ Has(u[n])
    BY <1>1, <1>4
  <2>2. /\ u[n].obj \in Objects /\ \A i \in DOMAIN q : q[i] # u[n].obj
        /\ \A m \in 1..Len(u) : Has(u[m]) /\ u[m].obj = u[n].obj => m = n
    BY <1>1, <2>1 DEF OwnersOK
  <2>3. u[n].obj # o
    BY <1>1, <2>1, <2>2
  <2>4. \A i \in DOMAIN p : p[i] # u[n].obj
    BY <1>3, <2>2, <2>3
  <2>5. \A m \in 1..Len(v) : Has(v[m]) => v[m] = u[m]
    BY <1>1
  <2> QED
    BY <1>1, <2>1, <2>2, <2>4, <2>5
<1>5. ASSUME NEW x \in Objects
      PROVE  \/ \E i \in DOMAIN p : p[i] = x
             \/ \E n \in 1..Len(v) : Has(v[n]) /\ v[n].obj = x
  <2>1. CASE \E j \in DOMAIN q : q[j] = x
    BY <1>3, <2>1
  <2>2. CASE \E n \in 1..Len(u) : Has(u[n]) /\ u[n].obj = x
    <3>1. PICK n \in 1..Len(u) : Has(u[n]) /\ u[n].obj = x
      BY <2>2
    <3>2. CASE n = Len(u)
      BY <1>3, <3>1, <3>2
    <3>3. CASE n # Len(u)
      BY <1>1, <3>1, <3>3
    <3> QED
      BY <3>2, <3>3
  <2> QED
    BY <2>1, <2>2 DEF OwnersOK
<1> QED
  BY <1>4, <1>5 DEF OwnersOK, p

\* A user without an object leaves.
LEMMA OwnersLeave ==
  ASSUME NEW q, NEW u, NEW v, OwnersOK(q, u), Leaves(u, v), ~Has(u[Len(u)])
  PROVE  OwnersOK(q, v)
<1>1. /\ Len(v) = Len(u) - 1 /\ Len(u) \in Nat \ {0}
      /\ \A n \in 1..(Len(u) - 1) : v[n] = u[n]
  BY DEF Leaves
<1>2. \A n \in 1..Len(u) : Has(u[n]) => n \in 1..Len(v)
  BY <1>1
<1>3. \A n \in 1..Len(v) : n \in 1..Len(u) /\ v[n] = u[n]
  BY <1>1
<1> HIDE DEF Has
<1> QED
  BY <1>2, <1>3 DEF OwnersOK

\* Nobody's object is on the list, nor are two users' the same.
LEMMA SettledTurn ==
  ASSUME NEW u, NEW v, NEW y, Turns(u, v, y), NEW f, NEW g, Settled(f, u),
         \A n \in 1..(Len(u) - 1) : Has(u[n]) => g[u[n].obj] = f[u[n].obj],
         y.pc = "held" => g[y.obj] = y.obj,
         y.pc = "insert2" => g[y.obj] = List,
         y.pc = "first" => Spare(u, Len(u))
  PROVE  Settled(g, v)
<1>1. /\ Len(v) = Len(u) /\ Len(u) \in Nat \ {0} /\ v[Len(u)] = y
      /\ \A n \in 1..Len(u) : n # Len(u) => v[n] = u[n]
  BY DEF Turns
<1>2. \A n \in 1..Len(u) : n # Len(u) => n \in 1..(Len(u) - 1)
  BY <1>1
<1>3. \A n \in 1..Len(u) : Spare(u, n) => Spare(v, n)
  <2>1. \A n \in 1..Len(u) : \A m \in 1..(n - 1) : m \in 1..Len(u) /\ m # Len(u)
    BY <1>1
  <2>2. \A n \in 1..Len(u) : \A m \in 1..(n - 1) : v[m] = u[m]
    BY <1>1, <2>1
  <2> HIDE DEF Has
  <2> QED
    BY <2>2 DEF Spare
<1>4. \A n \in 1..(Len(v) - 1) : v[n].pc \notin Halfway
  <2>1. \A n \in 1..(Len(u) - 1) : n \in 1..Len(u) /\ n # Len(u)
    BY <1>1
  <2> QED
    BY <1>1, <2>1 DEF Settled
<1>5. ASSUME NEW n \in 1..Len(v)
      PROVE  /\ v[n].pc = "held" => g[v[n].obj] = v[n].obj
             /\ v[n].pc = "insert2" => g[v[n].obj] = List
             /\ v[n].pc = "first" => Spare(v, n)
  <2>1. CASE n = Len(u)
    BY <1>1, <1>3, <2>1
  <2>2. CASE n # Len(u)
    <3>1. v[n] = u[n] /\ n \in 1..(Len(u) - 1) /\ n \in 1..Len(u)
      BY <1>1, <1>2, <2>2
    <3>2. u[n].pc \in {"held", "insert2"} => g[u[n].obj] = f[u[n].obj]
      BY <3>1 DEF Has
    <3> QED
      BY <1>3, <3>1, <3>2 DEF Settled
  <2> QED
    BY <2>1, <2>2
<1> QED
  BY <1>4, <1>5 DEF Settled

\* Others than the topmost user have objects that are not its own.
LEMMA OthersApart ==
  ASSUME NEW q, NEW u, Len(u) \in Nat \ {0}, OwnersOK(q, u),
         NEW n \in 1..(Len(u) - 1), Has(u[n])
  PROVE  /\ u[n].obj \in Objects /\ \A i \in DOMAIN q : q[i] # u[n].obj
         /\ Has(u[Len(u)]) => u[n].obj # u[Len(u)].obj
<1>1. n \in 1..Len(u) /\ n # Len(u) /\ Len(u) \in 1..Len(u)
  OBVIOUS
<1> HIDE DEF Has
<1> QED
  BY <1>1 DEF OwnersOK

LEMMA UpTo ==
  ASSUME NEW n \in Nat
  PROVE  IsFiniteSet(1..n) /\ Cardinality(1..n) = n
<1>1. 1 \in Int /\ n \in Int
  OBVIOUS
<1>2. IsFiniteSet(1..n) /\ Cardinality(1..n) = IF 1 > n THEN 0 ELSE n - 1 + 1
  BY <1>1, FS_Interval
<1> QED
  BY <1>2

\* No object twice on the list: it is no longer than there are objects.
LEMMA NoMore ==
  ASSUME NEW q \in Seq(Objects), Once(q)
  PROVE  Len(q) <= Count
<1>1. /\ DOMAIN q = 1..Len(q) /\ Len(q) \in Nat /\ Count \in Nat
      /\ \A i \in 1..Len(q) : q[i] \in Objects
      /\ q = [i \in 1..Len(q) |-> q[i]]
  BY ObjectAssumption
<1>2. q \in Injection(1..Len(q), Objects)
  BY <1>1 DEF Injection, IsInjective, Once
<1>3. /\ IsFiniteSet(Objects) /\ Cardinality(Objects) = Count
      /\ IsFiniteSet(1..Len(q)) /\ Cardinality(1..Len(q)) = Len(q)
  BY <1>1, UpTo DEF Objects
<1> HIDE DEF Objects
<1> QED
  BY <1>2, <1>3, FS_Injection

\* Nor is it when an object that is not on it still has to come.
LEMMA OneMore ==
  ASSUME NEW q, IsList(q), NEW o \in Objects, \A i \in DOMAIN q : q[i] # o
  PROVE  Len(q) < Count
<1>1. DOMAIN q = 1..Len(q) /\ Len(q) \in Nat /\ Count \in Nat /\ q \in Seq(Objects) /\ Once(q)
  BY ListFacts, ObjectAssumption DEF IsList
<1>2. /\ Append(q, o) \in Seq(Objects) /\ Len(Append(q, o)) = Len(q) + 1
      /\ DOMAIN Append(q, o) = 1..(Len(q) + 1)
      /\ \A i \in 1..Len(q) : Append(q, o)[i] = q[i]
      /\ Append(q, o)[Len(q) + 1] = o
  BY <1>1
<1>3. Once(Append(q, o))
  BY <1>1, <1>2 DEF Once
<1>4. Len(Append(q, o)) <= Count
  BY <1>2, <1>3, NoMore
<1> QED
  BY <1>1, <1>2, <1>4

\* The objects that users have, on the abstract pool's side.
Holders(u) == {u[n].obj : n \in {m \in DOMAIN u : Has(u[m])}}

Moves(q, p, u, v) ==
  \/ p = q /\ Holders(v) = Holders(u)
  \/ q # <<>> /\ p = Tail(q) /\ Holders(v) = Holders(u) \cup {Head(q)}
  \/ \E o \in Holders(u) : p = Append(q, o) /\ Holders(v) = Holders(u) \ {o}

LEMMA HoldersTurn ==
  ASSUME NEW u, NEW v, NEW y, Turns(u, v, y)
  PROVE  /\ \A o : o \in Holders(u) <=> \E n \in 1..Len(u) : Has(u[n]) /\ u[n].obj = o
         /\ \A o : o \in Holders(v) <=> \/ Has(y) /\ y.obj = o
                                        \/ \E n \in 1..(Len(u) - 1) : Has(u[n]) /\ u[n].obj = o
<1>1. Len(u) \in Nat \ {0}
  BY DEF Turns
<1>2. \A n \in 1..Len(u) : n = Len(u) \/ n \in 1..(Len(u) - 1)
  BY <1>1
<1>3. \A n \in 1..(Len(u) - 1) : n \in 1..Len(u) /\ n # Len(u)
  BY <1>1
<1>4. Len(u) \in 1..Len(u)
  BY <1>1
<1>5. DOMAIN u = 1..Len(u) /\ DOMAIN v = 1..Len(u) /\ v[Len(u)] = y
  BY <1>4 DEF Turns
<1>6. \A n \in 1..(Len(u) - 1) : v[n] = u[n]
  BY <1>3 DEF Turns
<1> HIDE DEF Has
<1>7. \A o : o \in Holders(u) <=> \E n \in 1..Len(u) : Has(u[n]) /\ u[n].obj = o
  BY <1>5 DEF Holders
<1>8. \A o : o \in Holders(v) <=> \E n \in 1..Len(u) : Has(v[n]) /\ v[n].obj = o
  BY <1>5 DEF Holders
<1>9. \A o : (\E n \in 1..Len(u) : Has(v[n]) /\ v[n].obj = o)
               <=> \/ Has(y) /\ y.obj = o
                   \/ \E n \in 1..(Len(u) - 1) : Has(u[n]) /\ u[n].obj = o
  <2> SUFFICES ASSUME NEW o
               PROVE  (\E n \in 1..Len(u) : Has(v[n]) /\ v[n].obj = o)
                        <=> \/ Has(y) /\ y.obj = o
                            \/ \E n \in 1..(Len(u) - 1) : Has(u[n]) /\ u[n].obj = o
    OBVIOUS
  <2>1. ASSUME NEW n \in 1..Len(u), Has(v[n]) /\ v[n].obj = o
        PROVE  \/ Has(y) /\ y.obj = o
               \/ \E m \in 1..(Len(u) - 1) : Has(u[m]) /\ u[m].obj = o
    <3>1. CASE n = Len(u)
      BY <1>5, <2>1, <3>1
    <3>2. CASE n \in 1..(Len(u) - 1)
      BY <1>6, <2>1, <3>2
    <3> QED
      BY <1>2, <3>1, <3>2
  <2>2. ASSUME NEW n \in 1..(Len(u) - 1), Has(u[n]) /\ u[n].obj = o
        PROVE  \E m \in 1..Len(u) : Has(v[m]) /\ v[m].obj = o
    BY <1>3, <1>6, <2>2
  <2> QED
    BY <1>4, <1>5, <2>1, <2>2
<1> QED
  BY <1>7, <1>8, <1>9

LEMMA HoldersSame ==
  ASSUME NEW u, NEW v, NEW y, Turns(u, v, y),
         Has(y) <=> Has(u[Len(u)]), Has(y) => y.obj = u[Len(u)].obj
  PROVE  Holders(v) = Holders(u)
<1>1. Len(u) \in Nat \ {0}
  BY DEF Turns
<1>2. \A n \in 1..Len(u) : n = Len(u) \/ n \in 1..(Len(u) - 1)
  BY <1>1
<1>3. Len(u) \in 1..Len(u) /\ \A n \in 1..(Len(u) - 1) : n \in 1..Len(u)
  BY <1>1
<1> HIDE DEF Has
<1>4. \A o : o \in Holders(v) <=> o \in Holders(u)
  BY <1>2, <1>3, HoldersTurn
<1> QED
  BY <1>4

LEMMA HoldersTake ==
  ASSUME NEW u, NEW v, NEW y, Turns(u, v, y), ~Has(u[Len(u)]), Has(y)
  PROVE  Holders(v) = Holders(u) \cup {y.obj}
<1>1. Len(u) \in Nat \ {0}
  BY DEF Turns
<1>2. \A n \in 1..Len(u) : n = Len(u) \/ n \in 1..(Len(u) - 1)
  BY <1>1
<1>3. Len(u) \in 1..Len(u) /\ \A n \in 1..(Len(u) - 1) : n \in 1..Len(u)
  BY <1>1
<1> HIDE DEF Has
<1>4. \A o : o \in Holders(v) <=> o \in Holders(u) \/ o = y.obj
  BY <1>2, <1>3, HoldersTurn
<1> QED
  BY <1>4

LEMMA HoldersGive ==
  ASSUME NEW q, NEW u, NEW v, NEW y, Turns(u, v, y), OwnersOK(q, u), Has(u[Len(u)]), ~Has(y)
  PROVE  u[Len(u)].obj \in Holders(u) /\ Holders(v) = Holders(u) \ {u[Len(u)].obj}
<1>1. Len(u) \in Nat \ {0}
  BY DEF Turns
<1>2. \A n \in 1..Len(u) : n = Len(u) \/ n \in 1..(Len(u) - 1)
  BY <1>1
<1>3. Len(u) \in 1..Len(u) /\ \A n \in 1..(Len(u) - 1) : n \in 1..Len(u) /\ n # Len(u)
  BY <1>1
<1>4. \A n \in 1..(Len(u) - 1) : Has(u[n]) => u[n].obj # u[Len(u)].obj
  BY <1>3 DEF OwnersOK
<1> HIDE DEF Has
<1>5. u[Len(u)].obj \in Holders(u)
  BY <1>3, HoldersTurn
<1>6. \A o : o \in Holders(v) <=> o \in Holders(u) /\ o # u[Len(u)].obj
  BY <1>2, <1>3, <1>4, HoldersTurn
<1> QED
  BY <1>5, <1>6

\* Users who come or go without an object.
LEMMA HoldersLeave ==
  ASSUME NEW u, NEW v, Leaves(u, v), ~Has(u[Len(u)])
  PROVE  Holders(v) = Holders(u)
<1>1. /\ Len(v) = Len(u) - 1 /\ Len(u) \in Nat \ {0}
      /\ \A n \in 1..(Len(u) - 1) : v[n] = u[n]
      /\ DOMAIN u = 1..Len(u) /\ DOMAIN v = 1..(Len(u) - 1)
  BY DEF Leaves
<1>2. \A n \in 1..Len(u) : Has(u[n]) => n \in 1..(Len(u) - 1)
  BY <1>1
<1>3. \A n \in 1..(Len(u) - 1) : n \in 1..Len(u)
  BY <1>1
<1> HIDE DEF Has
<1>4. \A o : o \in Holders(v) <=> o \in Holders(u)
  BY <1>1, <1>2, <1>3 DEF Holders
<1> QED
  BY <1>4

-----------------------------------------------------------------------------
(* Every step of a user: what becomes of the list, and of who has what.    *)

InUse(q) == state = "ready" /\ UseOK(q, fwd, bck, users)
Keeps(q, p) ==
  UseOK(p, fwd', bck', users') /\ fault' = FALSE /\ Moves(q, p, users, users')

LEMMA UseFacts ==
  ASSUME TypeOK, NEW q, UseOK(q, fwd, bck, users), NEW pc, At(pc)
  PROVE  /\ IsList(q) /\ OwnersOK(q, users) /\ Settled(fwd, users)
         /\ LinksOK(q, fwd, bck, Top)
         /\ Has(Top) => Top.obj \in Objects /\ \A i \in DOMAIN q : q[i] # Top.obj
         /\ \A n \in 1..(Len(users) - 1) : Has(users[n]) =>
              /\ users[n].obj \in Objects /\ \A i \in DOMAIN q : q[i] # users[n].obj
              /\ Has(Top) => users[n].obj # Top.obj
         /\ Len(q) \in Nat /\ Len(q) <= Count
         /\ Has(Top) => Len(q) < Count
<1>1. Len(users) \in Nat \ {0} /\ Top = users[Len(users)]
  BY TopOK
<1>2. /\ IsList(q) /\ OwnersOK(q, users) /\ Settled(fwd, users)
      /\ LinksOK(q, fwd, bck, Top)
  BY <1>1 DEF UseOK
<1>3. Has(Top) => Top.obj \in Objects /\ \A i \in DOMAIN q : q[i] # Top.obj
  <2>1. Len(users) \in 1..Len(users)
    BY <1>1
  <2> QED
    BY <1>1, <1>2, <2>1 DEF OwnersOK
<1>4. \A n \in 1..(Len(users) - 1) : Has(users[n]) =>
        /\ users[n].obj \in Objects /\ \A i \in DOMAIN q : q[i] # users[n].obj
        /\ Has(Top) => users[n].obj # Top.obj
  BY <1>1, <1>2, OthersApart
<1>5. Len(q) \in Nat /\ Len(q) <= Count
  BY <1>2, ListFacts
<1>6. Has(Top) => Len(q) < Count
  BY <1>2, <1>3, OneMore
<1> QED
  BY <1>2, <1>3, <1>4, <1>5, <1>6

\* A turn that leaves list and objects as they are.
LEMMA TurnKeeps ==
  ASSUME TypeOK, NEW q, UseOK(q, fwd, bck, users), NEW pc, At(pc),
         NEW y, Turns(users, users', y), Has(y) <=> Has(Top), Has(y) => y.obj = Top.obj,
         \A n \in 1..(Len(users) - 1) : Has(users[n]) => fwd'[users[n].obj] = fwd[users[n].obj],
         y.pc = "held" => fwd'[y.obj] = y.obj,
         y.pc = "first" => Spare(users, Len(users)),
         LinksOK(q, fwd', bck', y), fault' = FALSE
  PROVE  Keeps(q, q)
<1>1. /\ IsList(q) /\ OwnersOK(q, users) /\ Settled(fwd, users)
      /\ Len(q) \in Nat
  BY UseFacts
<1>2. Top = users[Len(users)] /\ Len(users) \in Nat \ {0}
  BY TopOK
<1>3. OwnersOK(q, users')
  BY <1>1, <1>2, OwnersTurn
<1>4. Settled(fwd', users')
  <2>1. y.pc = "insert2" => fwd'[y.obj] = List
    BY DEF LinksOK
  <2> QED
    BY <1>1, <2>1, SettledTurn
<1>6. Len(users') # 0 /\ users'[Len(users')] = y
  BY <1>2 DEF Turns
<1>7. Holders(users') = Holders(users)
  BY <1>2, HoldersSame
<1> QED
  BY <1>1, <1>3, <1>4, <1>6, <1>7 DEF Keeps, UseOK, Moves

\* A new user, who interrupts nobody halfway.
LEMMA NewUserKeeps ==
  ASSUME TypeOK, ~crossed', NEW q, UseOK(q, fwd, bck, users), fault = FALSE, NewUser
  PROVE  Keeps(q, q)
<1> DEFINE y == [pc |-> "alloc", obj |-> List]
<1>1. /\ users \in Seq(User) /\ users' = Append(users, y) /\ UNCHANGED <<fwd, bck, fault>>
      /\ users # <<>> => users[Len(users)].pc \notin Halfway
  BY DEF NewUser, TypeOK, User, Top
<1>2. ~Has(y) /\ y.pc = "alloc" /\ y \in User
  BY DEF Has, User, Pcs, Nodes
<1> HIDE DEF y
<1>3. /\ Len(users) \in Nat /\ Len(users') = Len(users) + 1 /\ users'[Len(users) + 1] = y
      /\ \A n \in 1..Len(users) : users'[n] = users[n]
      /\ DOMAIN users' = 1..(Len(users) + 1) /\ DOMAIN users = 1..Len(users)
  BY <1>1, <1>2
<1>4. \A n \in 1..(Len(users) + 1) : n = Len(users) + 1 \/ n \in 1..Len(users)
  BY <1>3
<1>5. \A n \in 1..Len(users) : n \in 1..(Len(users) + 1)
  BY <1>3
<1>6. IsList(q) /\ OwnersOK(q, users) /\ Settled(fwd, users)
  BY DEF UseOK
<1>7. Forward(q, fwd) /\ Backward(q, bck)
  <2>1. Len(users) # 0 => users # <<>>
    BY <1>1
  <2> QED
    BY <1>1, <2>1 DEF UseOK, LinksOK, Halfway
<1>8. \A n \in 1..(Len(users) + 1) : Has(users'[n]) => n \in 1..Len(users) /\ users'[n] = users[n]
  BY <1>2, <1>3, <1>4
<1>9. OwnersOK(q, users')
  <2>1. ASSUME NEW n \in 1..Len(users'), Has(users'[n])
        PROVE  /\ users'[n].obj \in Objects /\ \A i \in DOMAIN q : q[i] # users'[n].obj
               /\ \A m \in 1..Len(users') : Has(users'[m]) /\ users'[m].obj = users'[n].obj => m = n
    <3>1. n \in 1..Len(users) /\ users'[n] = users[n]
      BY <1>3, <1>8, <2>1
    <3>2. /\ users[n].obj \in Objects /\ \A i \in DOMAIN q : q[i] # users[n].obj
          /\ \A m \in 1..Len(users) : Has(users[m]) /\ users[m].obj = users[n].obj => m = n
      BY <1>6, <2>1, <3>1 DEF OwnersOK
    <3> QED
      BY <1>3, <1>8, <3>1, <3>2
  <2>2. ASSUME NEW o \in Objects
        PROVE  \/ \E i \in DOMAIN q : q[i] = o
               \/ \E n \in 1..Len(users') : Has(users'[n]) /\ users'[n].obj = o
    BY <1>3, <1>5, <1>6 DEF OwnersOK
  <2> QED
    BY <2>1, <2>2 DEF OwnersOK
<1>10. Settled(fwd', users')
  <2>1. Len(users') - 1 = Len(users)
    BY <1>3
  <2>2. \A n \in 1..Len(users) : users[n].pc \notin Halfway
    <3>0. Len(users) \in Nat
      BY <1>3
    <3>1. \A n \in 1..Len(users) : n # Len(users) => n \in 1..(Len(users) - 1)
      BY <3>0
    <3>2. Len(users) # 0 => users # <<>>
      BY <1>1
    <3>3. \A n \in 1..(Len(users) - 1) : users[n].pc \notin Halfway
      BY <1>6 DEF Settled
    <3>4. Len(users) = 0 \/ users[Len(users)].pc \notin Halfway
      BY <1>1, <3>2
    <3> QED
      BY <3>0, <3>1, <3>3, <3>4
  <2>3. \A n \in 1..Len(users) : Spare(users, n) => Spare(users', n)
    <3>1. \A n \in 1..Len(users) : \A m \in 1..(n - 1) : m \in 1..Len(users)
      BY <1>3
    <3>2. \A n \in 1..Len(users) : \A m \in 1..(n - 1) : users'[m] = users[m]
      BY <1>3, <3>1
    <3> HIDE DEF Has
    <3> QED
      BY <3>2 DEF Spare
  <2>4. \A n \in 1..Len(users) : users'[n].pc \notin Halfway
    BY <1>3, <2>2
  <2>5. ASSUME NEW n \in 1..Len(users')
        PROVE  /\ users'[n].pc = "held" => fwd[users'[n].obj] = users'[n].obj
               /\ users'[n].pc = "insert2" => fwd[users'[n].obj] = List
               /\ users'[n].pc = "first" => Spare(users', n)
    <3>1. CASE n = Len(users) + 1
      BY <1>2, <1>3, <3>1
    <3>2. CASE n \in 1..Len(users)
      BY <1>3, <1>6, <2>3, <3>2 DEF Settled
    <3> QED
      BY <1>3, <1>4, <3>1, <3>2
  <2> QED
    BY <1>1, <2>1, <2>4, <2>5 DEF Settled
<1>12. Len(users') # 0 /\ LinksOK(q, fwd', bck', users'[Len(users')])
  <2>1. Len(users') # 0 /\ users'[Len(users')] = y
    BY <1>3
  <2> QED
    BY <1>1, <1>2, <1>7, <2>1 DEF LinksOK
<1>13. Holders(users') = Holders(users)
  <2>1. \A o : o \in Holders(users') <=> o \in Holders(users)
    BY <1>3, <1>5, <1>8 DEF Holders
  <2> QED
    BY <2>1
<1> QED
  BY <1>1, <1>6, <1>9, <1>10, <1>12, <1>13 DEF Keeps, UseOK, Moves

\* The topmost user, who has no object, leaves a list that is whole.
LEMMA LeaveKeeps ==
  ASSUME TypeOK, NEW q, UseOK(q, fwd, bck, users), NEW pc, At(pc), ~Has(Top),
         Leaves(users, users'), fwd' = fwd, Backward(q, bck'), fault' = FALSE
  PROVE  Keeps(q, q)
<1>1. /\ IsList(q) /\ OwnersOK(q, users) /\ Settled(fwd, users)
      /\ LinksOK(q, fwd, bck, Top)
  BY UseFacts
<1>2. Top = users[Len(users)] /\ Len(users) \in Nat \ {0}
  BY TopOK
<1>3. /\ Len(users') = Len(users) - 1 /\ Len(users') \in Nat
      /\ \A n \in 1..(Len(users) - 1) : users'[n] = users[n]
  BY <1>2 DEF Leaves
<1>4. OwnersOK(q, users') /\ Holders(users') = Holders(users)
  BY <1>1, <1>2, OwnersLeave, HoldersLeave
<1>5. \A n \in 1..Len(users') : users'[n].pc \notin Halfway
  <2>1. \A n \in 1..(Len(users) - 1) : n \in 1..Len(users)
    BY <1>2
  <2> QED
    BY <1>1, <1>3, <2>1 DEF Settled
<1>6. Settled(fwd', users')
  <2>1. \A n \in 1..(Len(users') - 1) : n \in 1..Len(users')
    BY <1>3
  <2>2. \A n \in 1..Len(users') : n \in 1..Len(users) /\ users'[n] = users[n]
    BY <1>2, <1>3
  <2>3. \A n \in 1..Len(users') : Spare(users, n) => Spare(users', n)
    <3>1. \A n \in 1..Len(users') : \A m \in 1..(n - 1) : m \in 1..Len(users')
      BY <1>3
    <3> HIDE DEF Has
    <3> QED
      BY <2>2, <3>1 DEF Spare
  <2> QED
    BY <1>1, <1>5, <2>1, <2>2, <2>3 DEF Settled
<1>7. Forward(q, fwd)
  BY <1>1 DEF LinksOK
<1>8. ASSUME Len(users') # 0
      PROVE  LinksOK(q, fwd', bck', users'[Len(users')])
  <2> DEFINE x == users'[Len(users')]
  <2>1. Len(users') \in 1..Len(users')
    BY <1>3, <1>8
  <2>2. x.pc \notin Halfway /\ (x.pc = "insert2" => fwd'[x.obj] = List)
    BY <1>5, <1>6, <2>1 DEF Settled
  <2>3. x.pc = "first" => q # <<>>
    <3>1. SUFFICES ASSUME x.pc = "first"
                   PROVE  q # <<>>
      OBVIOUS
    <3>2. PICK o \in Objects : \A m \in 1..(Len(users') - 1) : ~(Has(users'[m]) /\ users'[m].obj = o)
      BY <1>6, <2>1, <3>1 DEF Settled, Spare
    <3>3. ~Has(x)
      BY <3>1 DEF Has
    <3>4. \A m \in 1..Len(users') : m = Len(users') \/ m \in 1..(Len(users') - 1)
      BY <1>3
    <3> HIDE DEF Has
    <3>5. \E i \in DOMAIN q : q[i] = o
      BY <1>4, <3>2, <3>3, <3>4 DEF OwnersOK
    <3> QED
      BY <3>5
  <2> HIDE DEF x
  <2>4. LinksOK(q, fwd', bck', x)
    BY <1>7, <2>2, <2>3 DEF LinksOK, Halfway
  <2> QED
    BY <2>4 DEF x
<1> QED
  BY <1>1, <1>4, <1>6, <1>7, <1>8 DEF Keeps, UseOK, Moves

LEMMA CheckEmptyKeeps ==
  ASSUME TypeOK, NEW q, UseOK(q, fwd, bck, users), fault = FALSE, CheckEmpty
  PROVE  Keeps(q, q)
<1>1. At("alloc") /\ UNCHANGED <<fwd, bck, fault>>
  BY DEF CheckEmpty
<1>2. /\ Top.pc = "alloc" /\ Top = users[Len(users)] /\ ~Has(Top)
      /\ IsList(q) /\ LinksOK(q, fwd, bck, Top) /\ Len(q) \in Nat
  BY <1>1, TopOK, UseFacts DEF Has
<1>3. Forward(q, fwd) /\ Backward(q, bck)
  BY <1>2 DEF LinksOK
<1>4. CASE fwd[List] = List
  <2>1. Leaves(users, users')
    BY <1>1, <1>4, LeaveOK DEF CheckEmpty
  <2> QED
    BY <1>1, <1>2, <1>3, <2>1, LeaveKeeps
<1>5. CASE fwd[List] # List
  <2> DEFINE y == [pc |-> "first", obj |-> Top.obj]
  <2>1. Turns(users, users', y)
    BY <1>1, <1>5, GotoOK DEF CheckEmpty, Pcs
  <2>2. y.pc = "first" /\ ~Has(y)
    BY DEF Has
  <2> HIDE DEF y
  <2>3. q # <<>>
    <3>1. 0 \in 0..Len(q) /\ 0 + 1 = 1 /\ Node(q, 0) = List
      BY <1>2, ListFacts DEF Node
    <3>2. fwd[List] = Node(q, 1)
      BY <1>3, <3>1 DEF Forward
    <3> QED
      BY <1>5, <3>2 DEF Node
  <2>4. LinksOK(q, fwd', bck', y)
    BY <1>1, <1>3, <2>2, <2>3 DEF LinksOK
  <2>5. Spare(users, Len(users))
    <3>1. q[1] \in Objects /\ 1 \in DOMAIN q
      BY <1>2, <2>3, TailOK
    <3>2. \A m \in 1..(Len(users) - 1) : Has(users[m]) => users[m].obj # q[1]
      BY <1>1, <3>1, UseFacts
    <3> QED
      BY <3>1, <3>2 DEF Spare
  <2> QED
    BY <1>1, <1>2, <2>1, <2>2, <2>4, <2>5, TurnKeeps
<1> QED
  BY <1>4, <1>5

LEMMA GetFirstKeeps ==
  ASSUME TypeOK, NEW q, UseOK(q, fwd, bck, users), fault = FALSE, GetFirst
  PROVE  Keeps(q, q)
<1> DEFINE y == [pc |-> "remove1", obj |-> fwd[List]]
<1>1. At("first") /\ UNCHANGED <<fwd, bck, fault>> /\ users' = [users EXCEPT ![Len(users)] = y]
  BY DEF GetFirst
<1>2. /\ Top.pc = "first" /\ Top = users[Len(users)] /\ ~Has(Top)
      /\ IsList(q) /\ LinksOK(q, fwd, bck, Top) /\ Len(q) \in Nat
  BY <1>1, TopOK, UseFacts DEF Has
<1>3. users \in Seq(User) /\ Len(users) \in Nat \ {0} /\ fwd \in [Nodes -> Nodes]
  BY <1>1, TopOK
<1>4. Forward(q, fwd) /\ Backward(q, bck) /\ q # <<>>
  BY <1>2 DEF LinksOK
<1>5. fwd[List] = q[1]
  <2>1. 0 \in 0..Len(q) /\ 0 + 1 = 1 /\ Node(q, 0) = List /\ Node(q, 1) = q[1]
    BY <1>2, <1>4, TailOK DEF Node, List
  <2> QED
    BY <1>4, <2>1 DEF Forward
<1>6. y \in User /\ y.pc = "remove1" /\ y.obj = q[1] /\ ~Has(y)
  BY <1>3, <1>5 DEF User, Pcs, Nodes, Has
<1> HIDE DEF y
<1>7. Turns(users, users', y)
  BY <1>1, <1>3, <1>6 DEF Turns
<1>8. LinksOK(q, fwd', bck', y)
  BY <1>1, <1>4, <1>6 DEF LinksOK
<1> QED
  BY <1>1, <1>2, <1>6, <1>7, <1>8, TurnKeeps

LEMMA Remove1Keeps ==
  ASSUME TypeOK, NEW q, UseOK(q, fwd, bck, users), fault = FALSE, Remove1
  PROVE  Keeps(q, q)
<1> DEFINE y == [pc |-> "remove2", obj |-> Top.obj]
<1>1. At("remove1") /\ UNCHANGED <<fwd, fault>> /\ bck' = [bck EXCEPT ![fwd[Top.obj]] = bck[Top.obj]]
  BY DEF Remove1
<1>2. /\ Top.pc = "remove1" /\ Top = users[Len(users)] /\ ~Has(Top)
      /\ IsList(q) /\ LinksOK(q, fwd, bck, Top)
      /\ fwd \in [Nodes -> Nodes] /\ bck \in [Nodes -> Nodes]
  BY <1>1, TopOK, UseFacts DEF Has
<1>3. Turns(users, users', y)
  BY <1>1, GotoOK DEF Remove1, Pcs
<1>4. y.pc = "remove2" /\ y.obj = Top.obj /\ ~Has(y)
  BY DEF Has
<1> HIDE DEF y
<1>5. Forward(q, fwd) /\ Backward(q, bck) /\ q # <<>> /\ Top.obj = q[1]
  BY <1>2 DEF LinksOK
<1>6. /\ Len(q) \in Nat \ {0} /\ DOMAIN q = 1..Len(q) /\ q[1] \in Nodes /\ q[1] # List
      /\ \A i, j \in 1..Len(q) : q[i] = q[j] => i = j
  BY <1>2, <1>5, TailOK, ListFacts
<1>7. fwd[q[1]] = Node(q, 2) /\ Node(q, 2) # q[1]
  <2>1. 1 \in 0..Len(q) /\ 1 + 1 = 2 /\ Node(q, 1) = q[1]
    BY <1>6 DEF Node
  <2>2. fwd[q[1]] = Node(q, 2)
    BY <1>5, <2>1 DEF Forward
  <2>3. Node(q, 2) # q[1]
    BY <1>6 DEF Node
  <2> QED
    BY <2>2, <2>3
<1>8. bck[q[1]] = List /\ Backward(Tail(q), [bck EXCEPT ![Node(q, 2)] = List])
  BY <1>2, <1>5, TailBackward
<1>9. bck' = [bck EXCEPT ![Node(q, 2)] = List] /\ bck'[q[1]] = List
  BY <1>1, <1>2, <1>5, <1>6, <1>7, <1>8
<1>10. LinksOK(q, fwd', bck', y)
  BY <1>1, <1>4, <1>5, <1>8, <1>9 DEF LinksOK
<1> QED
  BY <1>1, <1>2, <1>3, <1>4, <1>10, TurnKeeps

\* The first object is off the list, and the topmost user's.
LEMMA Remove2Keeps ==
  ASSUME TypeOK, NEW q, UseOK(q, fwd, bck, users), fault = FALSE, Remove2
  PROVE  Keeps(q, Tail(q))
<1> DEFINE y == [pc |-> "init", obj |-> Top.obj]
<1>1. At("remove2") /\ UNCHANGED <<bck, fault>> /\ fwd' = [fwd EXCEPT ![bck[Top.obj]] = fwd[Top.obj]]
  BY DEF Remove2
<1>2. /\ Top.pc = "remove2" /\ Top = users[Len(users)] /\ ~Has(Top) /\ Len(users) \in Nat \ {0}
      /\ IsList(q) /\ LinksOK(q, fwd, bck, Top)
      /\ fwd \in [Nodes -> Nodes] /\ bck \in [Nodes -> Nodes]
      /\ OwnersOK(q, users) /\ Settled(fwd, users)
      /\ \A n \in 1..(Len(users) - 1) : Has(users[n]) => users[n].obj \in Objects
  BY <1>1, TopOK, UseFacts DEF Has
<1>3. Turns(users, users', y)
  BY <1>1, GotoOK DEF Remove2, Pcs
<1>4. y.pc = "init" /\ y.obj = Top.obj /\ Has(y)
  BY DEF Has
<1> HIDE DEF y
<1>5. Forward(q, fwd) /\ Backward(Tail(q), bck) /\ q # <<>> /\ Top.obj = q[1] /\ bck[q[1]] = List
  BY <1>2 DEF LinksOK
<1>6. /\ IsList(Tail(q)) /\ Len(Tail(q)) = Len(q) - 1 /\ Len(q) \in Nat \ {0} /\ Head(q) = q[1]
  BY <1>2, <1>5, TailOK
<1>7. fwd' = [fwd EXCEPT ![List] = fwd[q[1]]]
  BY <1>1, <1>5
<1>8. Forward(Tail(q), fwd')
  BY <1>2, <1>5, <1>7, TailForward
<1>9. OwnersOK(Tail(q), users')
  BY <1>2, <1>3, <1>4, <1>5, OwnersTake
<1>10. Settled(fwd', users')
  <2>1. \A n \in 1..(Len(users) - 1) : Has(users[n]) => fwd'[users[n].obj] = fwd[users[n].obj]
    BY <1>2, <1>7, ListFacts
  <2> QED
    BY <1>2, <1>3, <1>4, <2>1, SettledTurn
<1>12. Len(users') # 0 /\ users'[Len(users')] = y
  BY <1>2, <1>3 DEF Turns
<1>13. LinksOK(Tail(q), fwd', bck', y)
  BY <1>1, <1>4, <1>5, <1>8 DEF LinksOK
<1>14. Holders(users') = Holders(users) \cup {Head(q)}
  BY <1>2, <1>3, <1>4, <1>5, <1>6, HoldersTake
<1> QED
  BY <1>1, <1>5, <1>6, <1>9, <1>10, <1>12, <1>13, <1>14 DEF Keeps, UseOK, Moves

LEMMA InitLinkKeeps ==
  ASSUME TypeOK, NEW q, UseOK(q, fwd, bck, users), fault = FALSE, InitLink
  PROVE  Keeps(q, q)
<1> DEFINE y == [pc |-> "held", obj |-> Top.obj]
<1>1. /\ At("init") /\ UNCHANGED fault
      /\ fwd' = [fwd EXCEPT ![Top.obj] = Top.obj] /\ bck' = [bck EXCEPT ![Top.obj] = Top.obj]
  BY DEF InitLink
<1>2. /\ Top.pc = "init" /\ Has(Top) /\ IsList(q) /\ LinksOK(q, fwd, bck, Top)
      /\ fwd \in [Nodes -> Nodes] /\ bck \in [Nodes -> Nodes] /\ Top.obj \in Nodes
  BY <1>1, TopOK, UseFacts DEF Has
<1>3. /\ Top.obj \in Objects /\ \A i \in DOMAIN q : q[i] # Top.obj
      /\ \A n \in 1..(Len(users) - 1) :
           Has(users[n]) => users[n].obj \in Objects /\ users[n].obj # Top.obj
  BY <1>1, <1>2, UseFacts
<1>4. Turns(users, users', y)
  BY <1>1, GotoOK DEF InitLink, Pcs
<1>5. y.pc = "held" /\ y.obj = Top.obj /\ Has(y)
  BY DEF Has
<1> HIDE DEF y
<1>6. Forward(q, fwd') /\ Backward(q, bck')
  <2>1. Forward(q, fwd) /\ Backward(q, bck)
    BY <1>2 DEF LinksOK
  <2> QED
    BY <1>1, <1>2, <1>3, <2>1, OtherLink
<1>7. LinksOK(q, fwd', bck', y)
  BY <1>5, <1>6 DEF LinksOK
<1>8. fwd'[y.obj] = y.obj
  BY <1>1, <1>2, <1>5
<1>9. \A n \in 1..(Len(users) - 1) : Has(users[n]) => fwd'[users[n].obj] = fwd[users[n].obj]
  BY <1>1, <1>2, <1>3, ListFacts
<1> QED
  BY <1>1, <1>2, <1>4, <1>5, <1>7, <1>8, <1>9, TurnKeeps

\* The ASSERT of ObjectFree holds.
LEMMA FreeKeeps ==
  ASSUME TypeOK, NEW q, UseOK(q, fwd, bck, users), fault = FALSE, Free
  PROVE  Keeps(q, q)
<1> DEFINE y == [pc |-> "insert1", obj |-> Top.obj]
<1>1. At("held") /\ UNCHANGED <<fwd, bck>> /\ fault' = (fwd[Top.obj] # Top.obj)
  BY DEF Free
<1>2. /\ Top.pc = "held" /\ Has(Top) /\ LinksOK(q, fwd, bck, Top)
      /\ Top = users[Len(users)] /\ Len(users) \in Nat \ {0} /\ Settled(fwd, users)
  BY <1>1, TopOK, UseFacts DEF Has
<1>3. Turns(users, users', y)
  BY <1>1, GotoOK DEF Free, Pcs
<1>4. y.pc = "insert1" /\ y.obj = Top.obj /\ Has(y)
  BY DEF Has
<1> HIDE DEF y
<1>5. fault' = FALSE
  <2>1. Len(users) \in 1..Len(users)
    BY <1>2
  <2>2. fwd[Top.obj] = Top.obj
    BY <1>2, <2>1 DEF Settled
  <2> QED
    BY <1>1, <2>2
<1>6. LinksOK(q, fwd', bck', y)
  BY <1>1, <1>2, <1>4 DEF LinksOK
<1> QED
  BY <1>1, <1>2, <1>3, <1>4, <1>5, <1>6, TurnKeeps

LEMMA Insert1Keeps ==
  ASSUME TypeOK, NEW q, UseOK(q, fwd, bck, users), fault = FALSE, Insert1
  PROVE  Keeps(q, q)
<1> DEFINE y == [pc |-> "insert2", obj |-> Top.obj]
<1>1. /\ At("insert1") /\ UNCHANGED <<bck, fault>>
      /\ fwd' = [fwd EXCEPT ![Top.obj] = List]
  BY DEF Insert1
<1>2. /\ Top.pc = "insert1" /\ Has(Top) /\ IsList(q) /\ LinksOK(q, fwd, bck, Top)
      /\ fwd \in [Nodes -> Nodes] /\ bck \in [Nodes -> Nodes] /\ Top.obj \in Nodes
  BY <1>1, TopOK, UseFacts DEF Has
<1>3. /\ Top.obj \in Objects /\ \A i \in DOMAIN q : q[i] # Top.obj
      /\ \A n \in 1..(Len(users) - 1) :
           Has(users[n]) => users[n].obj \in Objects /\ users[n].obj # Top.obj
  BY <1>1, <1>2, UseFacts
<1>4. Turns(users, users', y)
  BY <1>1, GotoOK DEF Insert1, Pcs
<1>5. y.pc = "insert2" /\ y.obj = Top.obj /\ Has(y)
  BY DEF Has
<1> HIDE DEF y
<1>6. Forward(q, fwd') /\ Backward(q, bck')
  <2>1. Forward(q, fwd) /\ Backward(q, bck)
    BY <1>2 DEF LinksOK
  <2> QED
    BY <1>1, <1>2, <1>3, <2>1, OtherLink
<1>7. LinksOK(q, fwd', bck', y)
  BY <1>1, <1>2, <1>5, <1>6 DEF LinksOK
<1>8. \A n \in 1..(Len(users) - 1) : Has(users[n]) => fwd'[users[n].obj] = fwd[users[n].obj]
  BY <1>1, <1>2, <1>3, ListFacts
<1> QED
  BY <1>1, <1>2, <1>4, <1>5, <1>7, <1>8, TurnKeeps

LEMMA Insert2Keeps ==
  ASSUME TypeOK, NEW q, UseOK(q, fwd, bck, users), fault = FALSE, Insert2
  PROVE  Keeps(q, q)
<1> DEFINE y == [pc |-> "insert3", obj |-> Top.obj]
<1>1. /\ At("insert2") /\ UNCHANGED <<fwd, fault>>
      /\ bck' = [bck EXCEPT ![Top.obj] = bck[List]]
  BY DEF Insert2
<1>2. /\ Top.pc = "insert2" /\ Has(Top) /\ IsList(q) /\ LinksOK(q, fwd, bck, Top)
      /\ bck \in [Nodes -> Nodes] /\ Top.obj \in Nodes
  BY <1>1, TopOK, UseFacts DEF Has
<1>3. Top.obj \in Objects /\ \A i \in DOMAIN q : q[i] # Top.obj
  BY <1>1, <1>2, UseFacts
<1>4. Turns(users, users', y)
  BY <1>1, GotoOK DEF Insert2, Pcs
<1>5. y.pc = "insert3" /\ y.obj = Top.obj /\ Has(y)
  BY DEF Has
<1> HIDE DEF y
<1>6. Forward(q, fwd) /\ Backward(q, bck) /\ fwd[Top.obj] = List
  BY <1>2 DEF LinksOK
<1>7. Backward(q, bck')
  BY <1>1, <1>2, <1>3, <1>6, OtherLink
<1>8. bck'[Top.obj] = Node(q, Len(q))
  BY <1>1, <1>2, <1>6 DEF Backward
<1>9. LinksOK(q, fwd', bck', y)
  BY <1>1, <1>5, <1>6, <1>7, <1>8 DEF LinksOK
<1> QED
  BY <1>1, <1>2, <1>4, <1>5, <1>9, TurnKeeps

\* The object is back on the list, at its end.
LEMMA Insert3Keeps ==
  ASSUME TypeOK, NEW q, UseOK(q, fwd, bck, users), fault = FALSE, Insert3
  PROVE  Keeps(q, Append(q, Top.obj))
<1> DEFINE y == [pc |-> "insert4", obj |-> Top.obj]
           o == Top.obj
<1>1. /\ At("insert3") /\ UNCHANGED <<bck, fault>>
      /\ fwd' = [fwd EXCEPT ![bck[o]] = o]
  BY DEF Insert3
<1>2. /\ Top.pc = "insert3" /\ Has(Top) /\ IsList(q) /\ LinksOK(q, fwd, bck, Top)
      /\ Top = users[Len(users)] /\ Len(users) \in Nat \ {0} /\ Len(q) \in Nat /\ Len(q) < Count
      /\ fwd \in [Nodes -> Nodes] /\ bck \in [Nodes -> Nodes] /\ o \in Nodes
      /\ OwnersOK(q, users) /\ Settled(fwd, users)
  BY <1>1, TopOK, UseFacts DEF Has
<1>3. /\ o \in Objects /\ \A i \in DOMAIN q : q[i] # o
      /\ \A n \in 1..(Len(users) - 1) : Has(users[n]) =>
           users[n].obj \in Objects /\ \A i \in DOMAIN q : q[i] # users[n].obj
  BY <1>1, <1>2, UseFacts
<1>4. Turns(users, users', y)
  BY <1>1, GotoOK DEF Insert3, Pcs
<1>5. y.pc = "insert4" /\ y.obj = o /\ ~Has(y)
  BY DEF Has
<1> HIDE DEF y
<1>6. Forward(q, fwd) /\ Backward(q, bck) /\ fwd[o] = List /\ bck[o] = Node(q, Len(q))
  BY <1>2 DEF LinksOK
<1>7. /\ IsList(Append(q, o)) /\ Len(Append(q, o)) = Len(q) + 1
      /\ Append(q, o)[Len(q) + 1] = o
  BY <1>2, <1>3, AppendOK
<1>8. Forward(Append(q, o), fwd')
  BY <1>1, <1>2, <1>3, <1>6, AppendForward
<1>9. BackIn(Append(q, o), bck')
  BY <1>1, <1>2, <1>3, <1>6, AppendBackIn DEF Backward
<1>10. OwnersOK(Append(q, o), users')
  BY <1>2, <1>4, <1>5, OwnersGive
<1>11. Settled(fwd', users')
  <2>1. \A n \in 1..(Len(users) - 1) :
          Has(users[n]) => users[n].obj # Node(q, Len(q)) /\ users[n].obj \in Nodes
    BY <1>2, <1>3, ListFacts DEF Node
  <2>2. \A n \in 1..(Len(users) - 1) : Has(users[n]) => fwd'[users[n].obj] = fwd[users[n].obj]
    BY <1>1, <1>2, <1>6, <2>1
  <2> QED
    BY <1>2, <1>4, <1>5, <2>2, SettledTurn
<1>13. Len(users') # 0 /\ users'[Len(users')] = y
  BY <1>2, <1>4 DEF Turns
<1>14. LinksOK(Append(q, o), fwd', bck', y)
  <2>1. Append(q, o) # <<>>
    BY <1>2, <1>7
  <2> QED
    BY <1>5, <1>7, <1>8, <1>9, <2>1 DEF LinksOK
<1>15. o \in Holders(users) /\ Holders(users') = Holders(users) \ {o}
  BY <1>2, <1>4, <1>5, HoldersGive
<1> HIDE DEF o
<1>16. Keeps(q, Append(q, o))
  BY <1>1, <1>7, <1>10, <1>11, <1>13, <1>14, <1>15 DEF Keeps, UseOK, Moves
<1> QED
  BY <1>16 DEF o

LEMMA Insert4Keeps ==
  ASSUME TypeOK, NEW q, UseOK(q, fwd, bck, users), fault = FALSE, Insert4
  PROVE  Keeps(q, q)
<1>1. /\ At("insert4") /\ UNCHANGED <<fwd, fault>> /\ bck' = [bck EXCEPT ![List] = Top.obj]
      /\ users' = SubSeq(users, 1, Len(users) - 1)
  BY DEF Insert4
<1>2. Leaves(users, users')
  BY <1>1, LeaveOK
<1>3. /\ Top.pc = "insert4" /\ ~Has(Top) /\ IsList(q) /\ LinksOK(q, fwd, bck, Top)
      /\ bck \in [Nodes -> Nodes]
  BY <1>1, TopOK, UseFacts DEF Has
<1>4. BackIn(q, bck) /\ q # <<>> /\ Top.obj = q[Len(q)]
  BY <1>3 DEF LinksOK
<1>5. /\ Len(q) \in Nat \ {0} /\ DOMAIN q = 1..Len(q) /\ List \in Nodes
      /\ \A i \in 1..Len(q) : q[i] # List /\ q[i] \in Nodes
  BY <1>3, <1>4, TailOK, ListFacts
<1>6. bck'[List] = Node(q, Len(q))
  BY <1>1, <1>3, <1>4, <1>5 DEF Node
<1>7. \A i \in 1..Len(q) : bck'[Node(q, i)] = bck[Node(q, i)]
  BY <1>1, <1>3, <1>5 DEF Node
<1>8. Backward(q, bck')
  BY <1>4, <1>6, <1>7 DEF Backward, BackIn
<1> QED
  BY <1>1, <1>2, <1>3, <1>8, LeaveKeeps

LEMMA UseKeeps ==
  ASSUME TypeOK, ~crossed', NEW q, UseOK(q, fwd, bck, users), fault = FALSE, UseStep
  PROVE  \E p : Keeps(q, p)
  BY NewUserKeeps, CheckEmptyKeeps, GetFirstKeeps, Remove1Keeps, Remove2Keeps, InitLinkKeeps,
     FreeKeeps, Insert1Keeps, Insert2Keeps, Insert3Keeps, Insert4Keeps DEF UseStep

-----------------------------------------------------------------------------
(* Setting the pool up and tearing it down.                                *)

\* A fresh object goes behind the ones before it.
LEMMA CreateKeeps ==
  ASSUME TypeOK, NEW q, PoolOK(q), CreateObject, state' = "create"
  PROVE  \E p : PoolOK(p)'
<1>1. /\ state = "create" /\ index <= Count /\ index' = index + 1
      /\ fwd' = [fwd EXCEPT ![index] = List, ![bck[List]] = index]
      /\ bck' = [bck EXCEPT ![index] = bck[List], ![List] = index]
  BY DEF CreateObject
<1>2. Count \in Nat /\ index \in Nat \ {0} /\ index \in Objects /\ index \in Nodes
  BY <1>1, ObjectAssumption DEF TypeOK, Objects, Nodes
<1>3. /\ Filled(q, index - 1) /\ IsList(q) /\ Forward(q, fwd) /\ Backward(q, bck)
      /\ fwd \in [Nodes -> Nodes] /\ bck \in [Nodes -> Nodes]
  BY <1>1 DEF PoolOK, TypeOK
<1>4. /\ Len(q) = index - 1 /\ DOMAIN q = 1..(index - 1) /\ Len(q) < Count
      /\ \A i \in 1..(index - 1) : q[i] = i
  <2>1. q = [i \in 1..(index - 1) |-> i] /\ DOMAIN q = 1..Len(q) /\ Len(q) \in Nat
    BY <1>3, ListFacts DEF Filled
  <2>2. DOMAIN q = 1..(index - 1) /\ \A i \in 1..(index - 1) : q[i] = i
    BY <2>1
  <2> HIDE <2>1
  <2>3. Len(q) = index - 1
    BY <1>2, <1>3, <2>2, ListFacts
  <2> QED
    BY <1>1, <1>2, <2>2, <2>3
<1>5. \A i \in DOMAIN q : q[i] # index
  BY <1>2, <1>4
<1> DEFINE p == Append(q, index)
           f == [fwd EXCEPT ![index] = List]
           b == [bck EXCEPT ![index] = bck[List]]
<1>6. /\ f \in [Nodes -> Nodes] /\ f[index] = List /\ Forward(q, f)
      /\ b \in [Nodes -> Nodes] /\ b[index] = bck[List] /\ Backward(q, b)
  <2>1. List \in Nodes
    BY DEF Nodes
  <2> QED
    BY <1>2, <1>3, <1>5, <2>1, OtherLink
<1>7. bck[List] = Node(q, Len(q))
  BY <1>3 DEF Backward
<1>8. fwd' = [f EXCEPT ![Node(q, Len(q))] = index] /\ bck' = [b EXCEPT ![List] = index]
  BY <1>1, <1>7
<1> HIDE DEF f, b
<1>9. /\ IsList(p) /\ Len(p) = Len(q) + 1 /\ DOMAIN p = 1..(Len(q) + 1)
      /\ \A i \in 1..Len(q) : p[i] = q[i]
      /\ p[Len(q) + 1] = index
  BY <1>2, <1>3, <1>4, <1>5, AppendOK
<1>10. Forward(p, fwd')
  BY <1>2, <1>3, <1>4, <1>5, <1>6, <1>8, AppendForward
<1>11. Backward(p, bck')
  <2>1. BackIn(p, b)
    BY <1>2, <1>3, <1>4, <1>5, <1>6, <1>7, AppendBackIn DEF Backward
  <2>2. \A i \in 1..Len(p) : Node(p, i) # List /\ Node(p, i) \in Nodes
    BY <1>9, ListFacts DEF Node
  <2>3. bck'[List] = index /\ \A x \in Nodes : x # List => bck'[x] = b[x]
    BY <1>6, <1>8, <1>9, ListFacts
  <2>4. Node(p, Len(p)) = index
    BY <1>2, <1>4, <1>9 DEF Node
  <2> HIDE DEF p
  <2> QED
    BY <2>1, <2>2, <2>3, <2>4 DEF Backward, BackIn
<1>12. Filled(p, index' - 1)
  <2>1. DOMAIN p = 1..index /\ \A i \in 1..index : p[i] = i
    BY <1>2, <1>4, <1>9
  <2>2. p \in Seq(Objects) /\ index' - 1 = index
    BY <1>1, <1>2, <1>9 DEF IsList
  <2> HIDE DEF p
  <2>3. p = [i \in DOMAIN p |-> p[i]]
    BY <2>2
  <2> QED
    BY <2>1, <2>2, <2>3 DEF Filled
<1> HIDE DEF p
<1>13. PICK r : IsList(r) /\ Forward(r, fwd') /\ Backward(r, bck') /\ Filled(r, index' - 1)
  BY <1>9, <1>10, <1>11, <1>12
<1>14. PoolOK(r)'
  BY <1>13 DEF PoolOK
<1> QED
  BY <1>14

LEMMA CreateDoneKeeps ==
  ASSUME TypeOK, LifeOK, NEW q, PoolOK(q), CreateDone
  PROVE  PoolOK(q)' /\ DOMAIN q = 1..Len(q) /\ {q[i] : i \in DOMAIN q} = Objects
<1>1. state = "create" /\ state' = "ready" /\ index = Count + 1 /\ Count \in Nat
      /\ users = <<>> /\ UNCHANGED <<fwd, bck, users>>
  BY ObjectAssumption DEF CreateDone, TypeOK, LifeOK
<1>2. Filled(q, Count) /\ IsList(q) /\ Forward(q, fwd) /\ Backward(q, bck)
  <2>1. index - 1 = Count
    BY <1>1
  <2> QED
    BY <1>1, <2>1 DEF PoolOK
<1>3. DOMAIN q = 1..Count /\ \A i \in 1..Count : q[i] = i
  BY <1>2 DEF Filled
<1>4. Len(q) = Count /\ DOMAIN q = 1..Len(q)
  <2>1. DOMAIN q = 1..Len(q) /\ Len(q) \in Nat
    BY <1>2, ListFacts
  <2> QED
    BY <1>1, <1>3, <2>1
<1>5. Len(users) = 0
  BY <1>1
<1>6. OwnersOK(q, users)
  BY <1>3, <1>5 DEF OwnersOK, Objects
<1>7. Settled(fwd, users)
  BY <1>5 DEF Settled
<1>9. {q[i] : i \in DOMAIN q} = Objects
  BY <1>3 DEF Objects
<1> QED
  BY <1>1, <1>2, <1>4, <1>5, <1>6, <1>7, <1>9 DEF PoolOK, UseOK

LEMMA DestroyKeeps ==
  ASSUME TypeOK, NEW q, PoolOK(q), Destroy
  PROVE  PoolOK(q)'
<1>1. state = "ready" /\ state' = "destroy" /\ users = <<>> /\ fwd' = fwd /\ Len(users) = 0
  BY DEF Destroy
<1>2. IsList(q) /\ OwnersOK(q, users) /\ Forward(q, fwd)
  BY <1>1 DEF PoolOK, UseOK
<1>3. Whole(q)
  BY <1>1, <1>2 DEF OwnersOK, Whole
<1> QED
  BY <1>1, <1>2, <1>3 DEF PoolOK

\* The ASSERT of ObjectAllocDestroy fails neither: every object is on the list.
LEMMA DestroyObjectKeeps ==
  ASSUME TypeOK, NEW q, PoolOK(q), fault = FALSE, DestroyObject
  PROVE  PoolOK(q)' /\ fault' = FALSE
<1>1. state = "destroy" /\ state' \in {"destroy", "gone"} /\ fwd' = fwd
  BY DEF DestroyObject
<1>2. IsList(q) /\ Whole(q) /\ Forward(q, fwd)
  BY <1>1 DEF PoolOK
<1>3. PoolOK(q)'
  BY <1>1, <1>2 DEF PoolOK
<1>4. CASE index <= Count
  <2>1. index \in Objects /\ fault' = (fwd[index] = index)
    BY <1>1, <1>4, ObjectAssumption DEF DestroyObject, TypeOK, Objects
  <2>2. PICK i \in DOMAIN q : q[i] = index
    BY <1>2, <2>1 DEF Whole
  <2>3. /\ DOMAIN q = 1..Len(q) /\ Len(q) \in Nat /\ q[i] # List
        /\ \A k, j \in 1..Len(q) : q[k] = q[j] => k = j
    BY <1>2, <2>2, ListFacts
  <2>4. fwd[q[i]] = Node(q, i + 1)
    BY <1>2, <2>2, <2>3 DEF Forward, Node
  <2>5. Node(q, i + 1) # q[i]
    BY <2>2, <2>3 DEF Node
  <2> QED
    BY <1>3, <2>1, <2>2, <2>4, <2>5
<1>5. CASE ~(index <= Count)
  BY <1>3, <1>5 DEF DestroyObject
<1> QED
  BY <1>4, <1>5

-----------------------------------------------------------------------------
(* Every step, and what follows for every value of the constants.          *)

\* Nothing but the users and the steps above change the list.
LEMMA NextKeeps ==
  ASSUME TypeOK, LifeOK, ~crossed', NEW q, PoolOK(q), fault = FALSE, [Next]_vars
  PROVE  \E p : PoolOK(p)' /\ fault' = FALSE
<1>1. CASE CreateObject
  <2>1. CASE state' = "create"
    BY <1>1, <2>1, CreateKeeps DEF CreateObject
  <2>2. CASE state' # "create"
    BY <1>1, <2>2 DEF CreateObject, PoolOK
  <2> QED
    BY <2>1, <2>2
<1>2. CASE CreateDone
  BY <1>2, CreateDoneKeeps DEF CreateDone
<1>3. CASE Undo
  BY <1>3 DEF Undo, PoolOK
<1>4. CASE Destroy
  BY <1>4, DestroyKeeps DEF Destroy
<1>5. CASE DestroyObject
  BY <1>5, DestroyObjectKeeps
<1>6. CASE UseStep
  <2>1. state = "ready" /\ state' = "ready"
    BY <1>6 DEF UseStep, NewUser, CheckEmpty, GetFirst, Remove1, Remove2, InitLink, Free, Insert1,
                Insert2, Insert3, Insert4, At, Same
  <2>2. PICK p : Keeps(q, p)
    BY <1>6, <2>1, UseKeeps DEF PoolOK
  <2> QED
    BY <2>1, <2>2 DEF Keeps, PoolOK
<1>7. CASE UNCHANGED vars
  BY <1>7 DEF vars, PoolOK
<1> QED
  BY <1>1, <1>2, <1>3, <1>4, <1>5, <1>6, <1>7 DEF Next, UseStep

LEMMA InitPool == Init => fault = FALSE /\ PoolOK(<<>>)
<1> SUFFICES ASSUME Init PROVE PoolOK(<<>>)
  BY DEF Init
<1>1. <<>> \in Seq(Objects) /\ Len(<<>>) = 0 /\ DOMAIN <<>> = {} /\ Count \in Nat
  BY ObjectAssumption
<1>2. IsList(<<>>)
  BY <1>1 DEF IsList, Once
<1>3. Forward(<<>>, fwd) /\ Backward(<<>>, bck)
  BY <1>1 DEF Forward, Backward, BackIn, Node, Init, Nodes
<1>4. Filled(<<>>, 0) /\ index - 1 = 0
  BY <1>1 DEF Filled, Init
<1> QED
  BY <1>2, <1>3, <1>4 DEF PoolOK, Init

PoolInv == ~crossed => fault = FALSE /\ \E q : PoolOK(q)

\* Once a user has come while another was halfway, it stays known.
LEMMA CrossedStays ==
  ASSUME TypeOK, crossed, [Next]_vars
  PROVE  crossed'
<1>1. CASE NewUser
  BY <1>1 DEF NewUser
<1>2. CASE UNCHANGED vars
  BY <1>2 DEF vars
<1>3. CASE Next /\ ~NewUser
  BY <1>3 DEF Next, CreateObject, CreateDone, Undo, Destroy, DestroyObject, CheckEmpty, GetFirst,
              Remove1, Remove2, InitLink, Free, Insert1, Insert2, Insert3, Insert4, Same
<1> QED
  BY <1>1, <1>2, <1>3

\* The inductive invariant holds in every reachable state, its part about the
\* links until a user comes while another is halfway.
THEOREM PoolInvariance == Spec => [](TypeOK /\ LifeOK /\ PoolInv)
<1>1. Init => TypeOK /\ LifeOK /\ PoolInv
  BY InitLife, InitPool DEF PoolInv
<1>2. TypeOK /\ LifeOK /\ PoolInv /\ [Next]_vars => TypeOK' /\ LifeOK' /\ PoolInv'
  <2> SUFFICES ASSUME TypeOK, LifeOK, PoolInv, [Next]_vars
               PROVE  TypeOK' /\ LifeOK' /\ PoolInv'
    OBVIOUS
  <2>1. TypeOK' /\ LifeOK'
    BY NextLife
  <2>2. ASSUME ~crossed'
        PROVE  fault' = FALSE /\ \E q : PoolOK(q)'
    <3>1. ~crossed
      BY <2>2, CrossedStays
    <3>2. PICK q : PoolOK(q)
      BY <3>1 DEF PoolInv
    <3> QED
      BY <2>2, <3>1, <3>2, NextKeeps DEF PoolInv
  <2> QED
    BY <2>1, <2>2 DEF PoolInv
<1> QED
  BY <1>1, <1>2, PTL DEF Spec

\* Every variable has its type, whatever interrupts the pool.
THEOREM PoolTypes == Spec => []TypeOK
<1>1. Init => TypeOK /\ LifeOK
  BY InitLife
<1>2. TypeOK /\ LifeOK /\ [Next]_vars => TypeOK' /\ LifeOK'
  BY NextLife
<1> QED
  BY <1>1, <1>2, PTL DEF Spec

\* Whatever OnCreate has set up is torn down again when ObjectAllocCreate has
\* failed or ObjectAllocDestroy is through, whatever interrupts the pool.
THEOREM TornDown == Spec => []NothingLeftBehind
<1>1. Init => TypeOK /\ LifeOK
  BY InitLife
<1>2. TypeOK /\ LifeOK /\ [Next]_vars => TypeOK' /\ LifeOK'
  BY NextLife
<1>3. LifeOK => NothingLeftBehind
  BY DEF LifeOK, NothingLeftBehind
<1> QED
  BY <1>1, <1>2, <1>3, PTL DEF Spec

\* An object is unlinked exactly while it is allocated: neither ObjectFree's
\* ASSERT nor ObjectAllocDestroy's fails until a user has come while another
\* was halfway.
THEOREM LinksTell == Spec => []LinksTellAllocated
<1>1. PoolInv => LinksTellAllocated
  BY DEF PoolInv, LinksTellAllocated
<1> QED
  BY <1>1, PoolInvariance, PTL

\* The links of the list read backwards are those of the list reversed.
LEMMA AlongBack ==
  ASSUME NEW q, IsList(q), NEW b, Backward(q, b), NEW n \in 1..Len(q)
  PROVE  Along(b)[Len(q) + 1 - n] = q[n]
<1> DEFINE r == [i \in 1..Len(q) |-> q[Len(q) + 1 - i]]
<1>1. /\ DOMAIN q = 1..Len(q) /\ Len(q) \in Nat /\ Len(q) <= Count /\ Count \in Nat
      /\ \A i \in 1..Len(q) : q[i] \in Objects
      /\ \A i, j \in 1..Len(q) : q[i] = q[j] => i = j
  BY ListFacts, ObjectAssumption
<1>2. \A i \in 1..Len(q) : Len(q) + 1 - i \in 1..Len(q)
  BY <1>1
<1>3. r \in Seq(Objects) /\ Len(r) = Len(q) /\ DOMAIN r = 1..Len(q)
      /\ \A i \in 1..Len(q) : r[i] = q[Len(q) + 1 - i]
  BY <1>1, <1>2
<1> HIDE DEF r
<1>4. Once(r)
  <2>1. ASSUME NEW i \in 1..Len(q), NEW j \in 1..Len(q), r[i] = r[j]
        PROVE  i = j
    <3>1. Len(q) + 1 - i = Len(q) + 1 - j
      BY <1>1, <1>2, <1>3, <2>1
    <3> QED
      BY <1>1, <3>1
  <2> QED
    BY <1>3, <2>1 DEF Once
<1>5. IsList(r)
  BY <1>1, <1>3, <1>4 DEF IsList
<1>6. \A i \in 0..(Len(q) + 1) : Node(r, i) = Node(q, Len(q) + 1 - i)
  BY <1>1, <1>3 DEF Node
<1>7. ASSUME NEW i \in 0..Len(q)
      PROVE  b[Node(r, i)] = Node(r, i + 1)
  <2>0. Len(q) \in Nat
    BY <1>1
  <2>1. Node(r, i) = Node(q, Len(q) + 1 - i) /\ Node(r, i + 1) = Node(q, Len(q) - i)
    <3>1. i \in 0..(Len(q) + 1) /\ i + 1 \in 0..(Len(q) + 1) /\ Len(q) + 1 - (i + 1) = Len(q) - i
      BY <2>0
    <3> QED
      BY <1>6, <3>1
  <2>2. CASE i = 0
    <3>1. Node(q, Len(q) + 1 - i) = List /\ Len(q) - i = Len(q)
      BY <1>1, <2>2 DEF Node
    <3> QED
      BY <2>1, <3>1 DEF Backward
  <2>3. CASE i # 0
    <3>1. Len(q) + 1 - i \in 1..Len(q) /\ Len(q) + 1 - i - 1 = Len(q) - i
      BY <2>0, <2>3
    <3> QED
      BY <2>1, <3>1 DEF Backward, BackIn
  <2> QED
    BY <2>2, <2>3
<1>8. Forward(r, b)
  BY <1>3, <1>7 DEF Forward
<1>9. Along(b) = [i \in 0..(Count + 1) |-> Node(r, i)]
  BY <1>5, <1>8, AlongIs
<1>10. Len(q) + 1 - n \in 0..(Count + 1) /\ Len(q) + 1 - n \in 1..Len(q) /\ Len(q) + 1 - (Len(q) + 1 - n) = n
  BY <1>1
<1> QED
  BY <1>1, <1>3, <1>9, <1>10 DEF Node

\* The list followed by the users' objects holds each object once.
LEMMA AllPlaced ==
  ASSUME NEW q, IsList(q), NEW u \in Seq(User), OwnersOK(q, u), \A n \in 1..Len(u) : Has(u[n])
  PROVE  Len(q) + Len(u) = Count
<1> DEFINE k == Len(q) + Len(u)
           r == [i \in 1..k |-> IF i <= Len(q) THEN q[i] ELSE u[i - Len(q)].obj]
<1>1. /\ DOMAIN q = 1..Len(q) /\ Len(q) \in Nat /\ Len(u) \in Nat /\ Count \in Nat /\ k \in Nat
      /\ \A i \in 1..Len(q) : q[i] \in Objects
      /\ \A i, j \in 1..Len(q) : q[i] = q[j] => i = j
  BY ListFacts, ObjectAssumption
<1>2. /\ \A n \in 1..Len(u) : u[n].obj \in Objects /\ \A j \in 1..Len(q) : q[j] # u[n].obj
      /\ \A n, m \in 1..Len(u) : u[n].obj = u[m].obj => n = m
      /\ \A o \in Objects : \/ \E i \in 1..Len(q) : q[i] = o
                            \/ \E n \in 1..Len(u) : u[n].obj = o
  <2> HIDE DEF Has
  <2> QED
    BY <1>1 DEF OwnersOK
<1>3. \A i \in 1..k : i \in 1..Len(q) \/ (~(i <= Len(q)) /\ i - Len(q) \in 1..Len(u))
  BY <1>1
<1>4. \A i \in 1..k : r[i] \in Objects
  BY <1>1, <1>2, <1>3
<1>5. ASSUME NEW i \in 1..k, NEW j \in 1..k, r[i] = r[j]
      PROVE  i = j
  <2>1. CASE i \in 1..Len(q) /\ j \in 1..Len(q)
    BY <1>1, <1>5, <2>1
  <2>2. CASE i \in 1..Len(q) /\ ~(j <= Len(q)) /\ j - Len(q) \in 1..Len(u)
    BY <1>1, <1>2, <1>5, <2>2
  <2>3. CASE j \in 1..Len(q) /\ ~(i <= Len(q)) /\ i - Len(q) \in 1..Len(u)
    BY <1>1, <1>2, <1>5, <2>3
  <2>4. CASE /\ ~(i <= Len(q)) /\ i - Len(q) \in 1..Len(u)
             /\ ~(j <= Len(q)) /\ j - Len(q) \in 1..Len(u)
    <3>1. i - Len(q) = j - Len(q)
      BY <1>2, <1>5, <2>4
    <3> QED
      BY <1>1, <3>1
  <2> QED
    BY <1>3, <2>1, <2>2, <2>3, <2>4
<1>6. ASSUME NEW o \in Objects
      PROVE  \E i \in 1..k : r[i] = o
  <2>1. CASE \E i \in 1..Len(q) : q[i] = o
    BY <1>1, <2>1
  <2>2. CASE \E n \in 1..Len(u) : u[n].obj = o
    <3>1. PICK n \in 1..Len(u) : u[n].obj = o
      BY <2>2
    <3>2. Len(q) + n \in 1..k /\ ~(Len(q) + n <= Len(q)) /\ Len(q) + n - Len(q) = n
      BY <1>1
    <3> QED
      BY <3>1, <3>2
  <2> QED
    BY <1>2, <2>1, <2>2
<1>7. r \in Injection(1..k, Objects) /\ r \in Surjection(1..k, Objects)
  <2>1. r \in [1..k -> Objects] /\ DOMAIN r = 1..k
    BY <1>4
  <2> HIDE DEF r
  <2> QED
    BY <1>5, <1>6, <2>1 DEF Injection, IsInjective, Surjection
<1> HIDE DEF r, k
<1>8. /\ IsFiniteSet(Objects) /\ Cardinality(Objects) = Count
      /\ IsFiniteSet(1..k) /\ Cardinality(1..k) = k
  BY <1>1, UpTo DEF Objects
<1> HIDE DEF Objects
<1>9. k <= Count
  BY <1>7, <1>8, FS_Injection
<1>10. Count <= k
  BY <1>7, <1>8, FS_Surjection
<1> QED
  BY <1>1, <1>9, <1>10 DEF k

\* What the abstract pool is, between operations and in the middle of them.
LEMMA InUseReads ==
  ASSUME state = "ready", NEW q, PoolOK(q)
  PROVE  Queue = q /\ Taken = Holders(users)
<1>1. IsList(q) /\ Forward(q, fwd)
  BY DEF PoolOK, UseOK, LinksOK
<1> QED
  BY <1>1, FollowingIs DEF Queue, Taken, Holders, Has

\* Until a user has come while another was halfway, the list reads the same in
\* both directions whenever all users have their objects, and each object is on
\* it once or with exactly one user.
THEOREM ListStaysConsistent == Spec => []ListConsistent
<1>1. TypeOK /\ PoolInv => ListConsistent
  <2> SUFFICES ASSUME TypeOK, NEW q, PoolOK(q), state = "ready", ~crossed, Quiet
               PROVE  /\ \A n \in 1..Len(Queue) : Along(bck)[Len(Queue) + 1 - n] = Queue[n]
                      /\ {Queue[n] : n \in 1..Len(Queue)} \cup Taken = Objects
                      /\ Len(Queue) + Len(users) = Count
    BY DEF ListConsistent, PoolInv
  <2>1. Queue = q /\ Taken = Holders(users)
    BY InUseReads
  <2>2. UseOK(q, fwd, bck, users) /\ IsList(q) /\ OwnersOK(q, users)
    BY DEF PoolOK, UseOK
  <2>3. /\ users \in Seq(User) /\ DOMAIN users = 1..Len(users) /\ Len(users) \in Nat
        /\ DOMAIN q = 1..Len(q)
        /\ \A n \in 1..Len(users) : users[n].pc = "held"
    BY <2>2, ListFacts DEF TypeOK, User, Quiet
  <2>4. Len(users) = 0 \/ users[Len(users)].pc = "held"
    <3>1. Len(users) # 0 => Len(users) \in 1..Len(users)
      BY <2>3
    <3> QED
      BY <2>3, <3>1
  <2>5. Backward(q, bck)
    BY <2>2, <2>4 DEF UseOK, LinksOK
  <2>6. Len(q) + Len(users) = Count
    BY <2>2, <2>3, AllPlaced DEF Has
  <2>7. \A n \in 1..Len(q) : Along(bck)[Len(q) + 1 - n] = q[n]
    BY <2>2, <2>5, AlongBack
  <2>8. {q[n] : n \in 1..Len(q)} \cup Holders(users) = Objects
    <3>1. \A o \in Holders(users) : o \in Objects
      BY <2>2, <2>3 DEF Holders, OwnersOK
    <3>2. \A n \in 1..Len(q) : q[n] \in Objects
      BY <2>2, ListFacts
    <3>3. \A o \in Objects : o \in {q[n] : n \in 1..Len(q)} \cup Holders(users)
      BY <2>2, <2>3 DEF Holders, OwnersOK
    <3> QED
      BY <3>1, <3>2, <3>3
  <2> QED
    BY <2>1, <2>6, <2>7, <2>8
<1> QED
  BY <1>1, PoolInvariance, PTL

-----------------------------------------------------------------------------
(* ObjectAlloc and ObjectFree implement the queue, write by write.         *)

AbstractQueue == IF state = "ready" THEN Queue ELSE <<>>
AbstractTaken == IF state = "ready" THEN Taken ELSE {}

LEMMA InitFifo == Init => Fifo!Init
  BY DEF Init, Fifo!Init

\* A step of the pool is one of the queue's, or none.
LEMMA NextFifo ==
  ASSUME TypeOK, LifeOK, ~crossed', PoolInv, [Next]_vars
  PROVE  Fifo!Next \/ UNCHANGED Fifo!vars
<1>0. ~crossed /\ fault = FALSE
  BY CrossedStays DEF PoolInv
<1>1. ASSUME AbstractQueue' = AbstractQueue, AbstractTaken' = AbstractTaken
      PROVE  UNCHANGED Fifo!vars
  BY <1>1 DEF Fifo!vars, AbstractQueue, AbstractTaken
<1>2. ASSUME AbstractQueue # <<>>, AbstractQueue' = Tail(AbstractQueue),
             AbstractTaken' = AbstractTaken \cup {Head(AbstractQueue)}
      PROVE  Fifo!Next
  BY <1>2 DEF Fifo!Next, Fifo!Take, AbstractQueue, AbstractTaken
<1>3. ASSUME NEW o \in AbstractTaken, AbstractQueue' = Append(AbstractQueue, o),
             AbstractTaken' = AbstractTaken \ {o}
      PROVE  Fifo!Next
  BY <1>3 DEF Fifo!Next, Fifo!Give, AbstractQueue, AbstractTaken
<1>4. ASSUME AbstractQueue = <<>>, AbstractTaken = {}, AbstractTaken' = {},
             {AbstractQueue'[n] : n \in DOMAIN AbstractQueue'} = Objects
      PROVE  Fifo!Next
  BY <1>4 DEF Fifo!Next, Fifo!Fill, AbstractQueue, AbstractTaken
<1>5. ASSUME AbstractTaken = {}, AbstractQueue' = <<>>, AbstractTaken' = {}
      PROVE  Fifo!Next
  BY <1>5 DEF Fifo!Next, Fifo!Drain, AbstractQueue, AbstractTaken
<1>6. CASE state # "ready" /\ state' # "ready"
  <2>1. AbstractQueue' = AbstractQueue /\ AbstractTaken' = AbstractTaken
    BY <1>6 DEF AbstractQueue, AbstractTaken
  <2> QED
    BY <1>1, <2>1
<1>7. CASE UNCHANGED vars
  <2>1. UNCHANGED <<state, fwd, users>>
    BY <1>7 DEF vars
  <2>2. Queue' = Queue /\ Taken' = Taken
    BY <2>1 DEF Queue, Taken
  <2>3. AbstractQueue' = AbstractQueue /\ AbstractTaken' = AbstractTaken
    BY <2>1, <2>2 DEF AbstractQueue, AbstractTaken
  <2> QED
    BY <1>1, <2>3
<1>8. CASE CreateDone
  <2>1. PICK q : PoolOK(q)
    BY <1>0 DEF PoolInv
  <2>2. state = "create" /\ state' = "ready" /\ users' = <<>>
    BY <1>8 DEF CreateDone, LifeOK
  <2>3. PoolOK(q)' /\ {q[i] : i \in DOMAIN q} = Objects
    BY <1>8, <2>1, CreateDoneKeeps
  <2>4. Queue' = q /\ Taken' = Holders(users')
    <3>1. IsList(q) /\ Forward(q, fwd')
      BY <2>2, <2>3 DEF PoolOK, UseOK, LinksOK
    <3> QED
      BY <3>1, FollowingIs DEF Queue, Taken, Holders, Has
  <2>5. AbstractQueue = <<>> /\ AbstractTaken = {} /\ AbstractQueue' = q /\ AbstractTaken' = {}
    BY <2>2, <2>4 DEF AbstractQueue, AbstractTaken, Holders
  <2> QED
    BY <1>4, <2>3, <2>5
<1>9. CASE Destroy
  <2>1. state = "ready" /\ state' = "destroy" /\ users = <<>>
    BY <1>9 DEF Destroy
  <2>2. Taken = {}
    BY <2>1 DEF Taken
  <2>3. AbstractTaken = {} /\ AbstractQueue' = <<>> /\ AbstractTaken' = {}
    BY <2>1, <2>2 DEF AbstractQueue, AbstractTaken
  <2> QED
    BY <1>5, <2>3
<1>10. CASE UseStep
  <2>1. state = "ready" /\ state' = "ready"
    BY <1>10 DEF UseStep, NewUser, CheckEmpty, GetFirst, Remove1, Remove2, InitLink, Free, Insert1,
                 Insert2, Insert3, Insert4, At, Same
  <2>2. PICK q : PoolOK(q)
    BY <1>0 DEF PoolInv
  <2>3. PICK p : Keeps(q, p)
    BY <1>0, <1>10, <2>1, <2>2, UseKeeps DEF PoolOK
  <2>4. Queue = q /\ Taken = Holders(users)
    BY <2>1, <2>2, InUseReads
  <2>5. Queue' = p /\ Taken' = Holders(users')
    <3>1. IsList(p) /\ Forward(p, fwd')
      BY <2>3 DEF Keeps, UseOK, LinksOK
    <3> QED
      BY <3>1, FollowingIs DEF Queue, Taken, Holders, Has
  <2>6. /\ AbstractQueue = q /\ AbstractTaken = Holders(users)
        /\ AbstractQueue' = p /\ AbstractTaken' = Holders(users')
    BY <2>1, <2>4, <2>5 DEF AbstractQueue, AbstractTaken
  <2>7. Moves(q, p, users, users')
    BY <2>3 DEF Keeps
  <2> HIDE DEF AbstractQueue, AbstractTaken
  <2>8. CASE p = q /\ Holders(users') = Holders(users)
    BY <1>1, <2>6, <2>8
  <2>9. CASE q # <<>> /\ p = Tail(q) /\ Holders(users') = Holders(users) \cup {Head(q)}
    BY <1>2, <2>6, <2>9
  <2>10. CASE \E o \in Holders(users) : p = Append(q, o) /\ Holders(users') = Holders(users) \ {o}
    BY <1>3, <2>6, <2>10
  <2> QED
    BY <2>7, <2>8, <2>9, <2>10 DEF Moves
<1>11. CASE CreateObject \/ Undo \/ DestroyObject
  BY <1>6, <1>11 DEF CreateObject, Undo, DestroyObject
<1> QED
  BY <1>7, <1>8, <1>9, <1>10, <1>11 DEF Next, UseStep

\* Objects are handed out in the order in which they came back, and each step
\* of the implementation is a step of that queue or none at all, until a user
\* has come while another was halfway.
THEOREM ImplementsFifo == Spec => IsFifo
<1>1. Init => Fifo!Init
  BY InitFifo
<1>2. TypeOK /\ LifeOK /\ PoolInv /\ [Next]_vars => [Fifo!Next \/ crossed']_(Fifo!vars)
  BY NextFifo
<1> QED
  BY <1>1, <1>2, PoolInvariance, PTL DEF Spec, IsFifo
=============================================================================
