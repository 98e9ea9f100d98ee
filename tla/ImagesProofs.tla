---------------------------- MODULE ImagesProofs ----------------------------
(***************************************************************************)
(* Proofs about Images, for any number of machines, ranges, records and    *)
(* handles.                                                                *)
(***************************************************************************)
EXTENDS Images, WellFoundedInduction, TLAPS

\* The record at a position of mImageList.
Rec(n) == record[imageList[n]]

-----------------------------------------------------------------------------
(* The inductive invariant: of the code ...                                *)

\* A record is on the list once.
ListedOnce == \A n, m \in DOMAIN imageList : imageList[n] = imageList[m] => n = m

\* An image that is loaded has a record.
LoadedListed == \A s \in LoadedRanges : \E n \in DOMAIN imageList : Rec(n).range = s

\* Where registrations succeeded, only loaded images have one, and only one.
ListedLoaded ==
  \A n \in DOMAIN imageList :
    Rec(n).range \in Clean =>
      /\ loaded[Rec(n).range] # NoImage
      /\ Rec(n).cpu = loaded[Rec(n).range].cpu
      /\ \A m \in DOMAIN imageList : Rec(m).range = Rec(n).range => m = n

\* Its engine executes it, and nobody else.
Executable ==
  \A s \in Clean :
    /\ loaded[s] # NoImage => s \in noexec
    /\ \A p \in Cpus : s \in exec[p] <=> loaded[s] # NoImage /\ p = loaded[s].cpu

CodeInv ==
  /\ TypeOK
  /\ ListedOnce
  /\ LoadedListed
  /\ ListedLoaded
  /\ Executable
  /\ NoStaleCode

(* ... and of the handles, whatever fresh memory holds.                    *)

\* The loader gives no handle twice.
HandlesApart ==
  \A s, t \in LoadedRanges : loaded[s].handle = loaded[t].handle => s = t

\* A record whose handle was set is the one its range leads to, and the handle
\* is the image's.
HandlesRight ==
  \A n \in DOMAIN imageList :
    imageList[n] \notin unset =>
      /\ loaded[Rec(n).range] # NoImage
      /\ Rec(n).handle = loaded[Rec(n).range].handle
      /\ \A m \in DOMAIN imageList : Rec(m).range = Rec(n).range => n <= m

\* A running image is loaded and its record has its handle.
StartedListed ==
  \A k \in DOMAIN started :
    /\ loaded[started[k].range] # NoImage
    /\ \E n \in DOMAIN imageList :
         /\ imageList[n] = started[k].record /\ imageList[n] \notin unset
         /\ Rec(n).range = started[k].range
         /\ Rec(n).handle = loaded[started[k].range].handle

HandleInv == HandlesApart /\ HandlesRight /\ StartedListed


-----------------------------------------------------------------------------
(* Looking records up, putting them on the list and taking them off.       *)

\* A search that finds anything finds the first.
LEMMA FirstOK ==
  ASSUME NEW I, I \subseteq Nat \ {0}, I # {}
  PROVE  First(I) \in I /\ \A m \in I : First(I) <= m
<1>1. I \in SUBSET Nat
  OBVIOUS
<1>2. PICK n \in I : \A m \in I : <<m, n>> \notin OpToRel(<, Nat)
  BY <1>1, NatLessThanWellFounded, WFMin
<1>3. \A m \in I : ~(m < n)
  BY <1>1, <1>2 DEF OpToRel
<1>4. \A m \in I : n <= m
  BY <1>3
<1> QED
  BY <1>4 DEF First

\* Where ImageFindByAddress leads.
LEMMA AddressFound ==
  ASSUME TypeOK, NEW s, NEW n \in DOMAIN imageList, Rec(n).range = s
  PROVE  /\ AddressNode(s) \in DOMAIN imageList /\ AddressNode(s) \in Nat \ {0}
         /\ Rec(AddressNode(s)).range = s
         /\ \A m \in DOMAIN imageList : Rec(m).range = s => AddressNode(s) <= m
         /\ ImageFindByAddress(s) = imageList[AddressNode(s)]
         /\ ImageFindByAddress(s) \in Records
<1> DEFINE I == {m \in DOMAIN imageList : record[imageList[m]].range = s}
<1>1. I \subseteq Nat \ {0} /\ n \in I
  BY DEF TypeOK, Rec
<1>2. First(I) \in I /\ \A m \in I : First(I) <= m
  BY <1>1, FirstOK
<1>3. First(I) = AddressNode(s)
  BY DEF AddressNode
<1>4. AddressNode(s) \in I /\ \A m \in I : AddressNode(s) <= m
  BY <1>2, <1>3
<1>5. AddressNode(s) # 0 /\ AddressNode(s) \in Nat
  BY <1>1, <1>4
<1>6. ImageFindByAddress(s) = imageList[AddressNode(s)]
  BY <1>5 DEF ImageFindByAddress, Node
<1> QED
  BY <1>4, <1>5, <1>6 DEF Rec, TypeOK

\* Where it leads nowhere.
LEMMA AddressNotFound ==
  ASSUME TypeOK, NEW s, \A n \in DOMAIN imageList : Rec(n).range # s
  PROVE  ImageFindByAddress(s) = NoRecord
<1>1. {m \in DOMAIN imageList : record[imageList[m]].range = s} = {}
  BY DEF Rec
<1> QED
  BY <1>1 DEF ImageFindByAddress, AddressNode, First, Node

\* Where ImageFindByHandle leads.
LEMMA HandleFound ==
  ASSUME TypeOK, NEW h, NEW n \in DOMAIN imageList, Rec(n).handle = h
  PROVE  /\ HandleNode(h) \in DOMAIN imageList /\ HandleNode(h) \in Nat \ {0}
         /\ Rec(HandleNode(h)).handle = h
         /\ HandleNode(h) <= n
         /\ ImageFindByHandle(h) = imageList[HandleNode(h)]
<1> DEFINE I == {m \in DOMAIN imageList : record[imageList[m]].handle = h}
<1>1. I \subseteq Nat \ {0} /\ n \in I
  BY DEF TypeOK, Rec
<1>2. First(I) \in I /\ \A m \in I : First(I) <= m
  BY <1>1, FirstOK
<1>3. First(I) = HandleNode(h)
  BY DEF HandleNode
<1>4. HandleNode(h) \in I /\ HandleNode(h) <= n
  BY <1>1, <1>2, <1>3
<1>5. HandleNode(h) # 0 /\ HandleNode(h) \in Nat
  BY <1>1, <1>4
<1>6. ImageFindByHandle(h) = imageList[HandleNode(h)]
  BY <1>5 DEF ImageFindByHandle, Node
<1> QED
  BY <1>4, <1>5, <1>6 DEF Rec

\* The position from which entry j comes once entry n is taken off.
Before(n, j) == IF j < n THEN j ELSE j + 1

\* RemoveEntryList.
LEMMA RemoveAtOK ==
  ASSUME NEW l \in Seq(Records), NEW n \in DOMAIN l
  PROVE  /\ RemoveAt(l, n) \in Seq(Records)
         /\ Len(RemoveAt(l, n)) = Len(l) - 1
         /\ DOMAIN RemoveAt(l, n) = 1..(Len(l) - 1)
         /\ \A j \in 1..(Len(l) - 1) : RemoveAt(l, n)[j] = l[Before(n, j)]
<1> DEFINE a == SubSeq(l, 1, n - 1)
           b == SubSeq(l, n + 1, Len(l))
<1>1. n \in 1..Len(l) /\ Len(l) \in Nat
  OBVIOUS
<1>2. a \in Seq(Records) /\ Len(a) = n - 1 /\ \A j \in 1..(n - 1) : a[j] = l[j]
  BY <1>1
<1>3. b \in Seq(Records) /\ Len(b) = Len(l) - n /\ \A j \in 1..(Len(l) - n) : b[j] = l[j + n]
  BY <1>1
<1>4. RemoveAt(l, n) = a \o b
  BY DEF RemoveAt
<1> HIDE DEF a, b
<1>5. a \o b \in Seq(Records) /\ Len(a \o b) = Len(l) - 1
  BY <1>1, <1>2, <1>3
<1>6. ASSUME NEW j \in 1..(Len(l) - 1) PROVE (a \o b)[j] = l[Before(n, j)]
  <2>1. CASE j < n
    BY <1>1, <1>2, <1>3, <2>1 DEF Before
  <2>2. CASE ~(j < n)
    <3>1. j \in (Len(a) + 1)..(Len(a) + Len(b)) /\ j - (n - 1) \in 1..(Len(l) - n)
      BY <1>1, <1>2, <1>3, <2>2
    <3>2. (a \o b)[j] = b[j - Len(a)]
      <4>1. j \in 1..(Len(a) + Len(b)) /\ j > Len(a) /\ Len(a) \in Nat /\ Len(b) \in Nat
        BY <1>2, <1>3, <3>1
      <4>2. a \in Seq(Records) /\ b \in Seq(Records)
        BY <1>2, <1>3
      <4> QED
        BY <4>1, <4>2
    <3>3. (a \o b)[j] = b[j - (n - 1)]
      BY <1>2, <3>1, <3>2
    <3>4. b[j - (n - 1)] = l[(j - (n - 1)) + n]
      BY <1>3, <3>1
    <3>5. (j - (n - 1)) + n = j + 1
      BY <1>1
    <3> QED
      BY <2>2, <3>3, <3>4, <3>5 DEF Before
  <2> QED
    BY <2>1, <2>2
<1> QED
  BY <1>4, <1>5, <1>6

\* Nothing but entry n goes.
LEMMA BeforeOnto ==
  ASSUME NEW len \in Nat, NEW n \in 1..len
  PROVE  /\ \A j \in 1..(len - 1) : Before(n, j) \in 1..len /\ Before(n, j) # n
         /\ \A i, j \in 1..(len - 1) : Before(n, i) = Before(n, j) => i = j
         /\ \A i, j \in 1..(len - 1) : Before(n, i) <= Before(n, j) => i <= j
         /\ \A m \in 1..len : m # n => \E j \in 1..(len - 1) : Before(n, j) = m
<1>1. ASSUME NEW m \in 1..len, m # n PROVE \E j \in 1..(len - 1) : Before(n, j) = m
  <2> DEFINE j == IF m < n THEN m ELSE m - 1
  <2>1. j \in 1..(len - 1) /\ Before(n, j) = m
    BY <1>1 DEF Before
  <2> QED
    BY <2>1
<1> QED
  BY <1>1 DEF Before

-----------------------------------------------------------------------------
(* Registration.                                                           *)

\* What NewRecord leaves as it was, and what it adds (Image.c:118-153).
LEMMA NewRecordOK ==
  ASSUME TypeOK, NEW r \in Records, NEW s \in Ranges, NEW p \in Cpus, NewRecord(r, s, p)
  PROVE  LET N == Len(imageList) IN
         /\ N \in Nat /\ DOMAIN imageList = 1..N /\ DOMAIN imageList' = 1..(N + 1)
         /\ imageList' \in Seq(Records)
         /\ record' \in [Records -> [range : Ranges, cpu : Cpus, handle : Handles \cup {NoHandle}]]
         /\ exec' \in [Cpus -> SUBSET Ranges]
         /\ \A n \in 1..N : /\ imageList'[n] = imageList[n] /\ imageList[n] # r
                            /\ record'[imageList'[n]] = Rec(n)
         /\ imageList'[N + 1] = r
         /\ record'[r].range = s /\ record'[r].cpu = p
         /\ unset' = unset \cup {r}
         /\ \A q \in Cpus : \A t \in Ranges : t \in exec'[q] <=> t \in exec[q] \/ (t = s /\ q = p)
<1>0. PICK junk \in Handles \cup {NoHandle} :
        record' = [record EXCEPT ![r] = [range |-> s, cpu |-> p, handle |-> junk]]
  BY DEF NewRecord
<1> DEFINE N == Len(imageList)
           new == [range |-> s, cpu |-> p, handle |-> junk]
<1>1. N \in Nat /\ DOMAIN imageList = 1..N /\ \A n \in 1..N : imageList[n] \in Records
  BY DEF TypeOK
<1>2. imageList' = Append(imageList, r)
  BY DEF NewRecord
<1>3. /\ imageList' \in Seq(Records) /\ DOMAIN imageList' = 1..(N + 1) /\ imageList'[N + 1] = r
      /\ \A n \in 1..N : imageList'[n] = imageList[n]
  BY <1>1, <1>2 DEF TypeOK
<1>4. \A n \in 1..N : imageList[n] # r
  BY <1>1 DEF NewRecord, Listed, Range
<1>5. new \in [range : Ranges, cpu : Cpus, handle : Handles \cup {NoHandle}]
  BY DEF TypeOK
<1>6. record' = [record EXCEPT ![r] = new]
  BY <1>0
<1>7. new.range = s /\ new.cpu = p /\ unset' = unset \cup {r}
  BY DEF NewRecord
<1> HIDE DEF new
<1>8. /\ record' \in [Records -> [range : Ranges, cpu : Cpus, handle : Handles \cup {NoHandle}]]
      /\ record'[r] = new /\ \A n \in 1..N : record'[imageList[n]] = Rec(n)
  BY <1>1, <1>4, <1>5, <1>6 DEF TypeOK, Rec
<1>9. exec' = [exec EXCEPT ![p] = @ \cup {s}]
  BY DEF NewRecord
<1>10. /\ exec' \in [Cpus -> SUBSET Ranges]
       /\ \A q \in Cpus : \A t \in Ranges : t \in exec'[q] <=> t \in exec[q] \/ (t = s /\ q = p)
  BY <1>9 DEF TypeOK
<1> QED
  BY <1>1, <1>3, <1>4, <1>7, <1>8, <1>10

\* Putting a record for another or a failed range on the list, or one for a
\* range that is now loaded.
LEMMA ListedAfterNew ==
  ASSUME CodeInv, NEW r \in Records, NEW s \in Ranges, NEW p \in Cpus, NewRecord(r, s, p),
         loaded[s] = NoImage, failed \subseteq failed',
         \A t \in Ranges : t # s => loaded'[t] = loaded[t],
         s \notin failed' => loaded'[s] # NoImage /\ loaded'[s].cpu = p
  PROVE  ListedOnce' /\ LoadedListed' /\ ListedLoaded'
<1> DEFINE N == Len(imageList)
<1>1. /\ N \in Nat /\ DOMAIN imageList = 1..N /\ DOMAIN imageList' = 1..(N + 1)
      /\ \A n \in 1..N : /\ imageList'[n] = imageList[n] /\ imageList[n] # r
                         /\ record'[imageList'[n]] = Rec(n)
      /\ imageList'[N + 1] = r /\ record'[r].range = s /\ record'[r].cpu = p
  BY NewRecordOK DEF CodeInv
<1>2. \A n \in 1..(N + 1) : n \in 1..N \/ n = N + 1
  BY <1>1
<1>3. \A n \in 1..N : Rec(n).range \in Ranges
  BY <1>1 DEF CodeInv, TypeOK, Rec
<1> HIDE DEF N
<1>4. ListedOnce'
  BY <1>1, <1>2 DEF CodeInv, ListedOnce
<1>5. LoadedListed'
  <2> SUFFICES ASSUME NEW t \in Ranges, loaded'[t] # NoImage
               PROVE  \E n \in 1..(N + 1) : record'[imageList'[n]].range = t
    BY <1>1 DEF LoadedListed, LoadedRanges, Rec
  <2>1. CASE t = s
    BY <1>1, <2>1
  <2>2. CASE t # s
    <3>1. PICK n \in 1..N : Rec(n).range = t
      BY <1>1, <2>2 DEF CodeInv, LoadedListed, LoadedRanges
    <3> QED
      BY <1>1, <3>1
  <2> QED
    BY <2>1, <2>2
<1>6. ListedLoaded'
  <2> SUFFICES ASSUME NEW n \in 1..(N + 1), record'[imageList'[n]].range \in Clean'
               PROVE  LET t == record'[imageList'[n]].range IN
                      /\ loaded'[t] # NoImage /\ record'[imageList'[n]].cpu = loaded'[t].cpu
                      /\ \A m \in 1..(N + 1) : record'[imageList'[m]].range = t => m = n
    BY <1>1 DEF ListedLoaded, Rec
  <2>1. s \notin failed => \A m \in 1..N : Rec(m).range # s
    BY <1>1 DEF CodeInv, ListedLoaded, Clean
  <2>2. CASE n \in 1..N
    <3>1. Rec(n).range \in Clean /\ Rec(n).range \in Clean' /\ Rec(n).range # s
      BY <1>1, <1>3, <2>1, <2>2 DEF Clean
    <3>2. /\ loaded[Rec(n).range] # NoImage /\ Rec(n).cpu = loaded[Rec(n).range].cpu
          /\ \A m \in 1..N : Rec(m).range = Rec(n).range => m = n
      BY <1>1, <2>2, <3>1 DEF CodeInv, ListedLoaded
    <3> QED
      BY <1>1, <1>2, <1>3, <2>2, <3>1, <3>2
  <2>3. CASE n = N + 1
    <3>1. s \notin failed /\ s \notin failed'
      BY <1>1, <2>3 DEF Clean
    <3> QED
      BY <1>1, <1>2, <2>1, <2>3, <3>1
  <2> QED
    BY <1>2, <2>2, <2>3
<1> QED
  BY <1>4, <1>5, <1>6

\* LoadImage registers an image.
LEMMA RegisterInv ==
  ASSUME CodeInv, ImageProtocolRegister
  PROVE  CodeInv'
<1>1. PICK s \in Ranges, p \in Cpus, r \in Records, h \in Handles :
        /\ loaded[s] = NoImage
        /\ NewRecord(r, s, p)
        /\ noexec' = noexec \cup {s}
        /\ loaded' = [loaded EXCEPT ![s] = [cpu |-> p, handle |-> h]]
  BY DEF ImageProtocolRegister
<1>2. UNCHANGED <<tbs, started, refused, failed>>
  BY DEF ImageProtocolRegister
<1> DEFINE new == [cpu |-> p, handle |-> h]
<1>3. new \in [cpu : Cpus, handle : Handles] /\ new # NoImage /\ new.cpu = p
  BY ImagesAssumption
<1>4. loaded' = [loaded EXCEPT ![s] = new]
  BY <1>1
<1> HIDE DEF new
<1>5. loaded'[s] = new /\ \A t \in Ranges : t # s => loaded'[t] = loaded[t]
  BY <1>4 DEF CodeInv, TypeOK
<1>6. TypeOK'
  BY <1>1, <1>2, <1>3, <1>4, NewRecordOK DEF CodeInv, TypeOK
<1>7. ListedOnce' /\ LoadedListed' /\ ListedLoaded'
  BY <1>1, <1>2, <1>3, <1>5, ListedAfterNew
<1>8. Executable'
  <2> SUFFICES ASSUME NEW t \in Clean
               PROVE  /\ loaded'[t] # NoImage => t \in noexec'
                      /\ \A q \in Cpus : t \in exec'[q] <=> loaded'[t] # NoImage /\ q = loaded'[t].cpu
    BY <1>2 DEF Executable, Clean
  <2>1. /\ loaded[t] # NoImage => t \in noexec
        /\ \A q \in Cpus : t \in exec[q] <=> loaded[t] # NoImage /\ q = loaded[t].cpu
    BY DEF CodeInv, Executable
  <2>2. \A q \in Cpus : t \in exec'[q] <=> t \in exec[q] \/ (t = s /\ q = p)
    BY <1>1, NewRecordOK DEF CodeInv, Clean
  <2> QED
    BY <1>1, <1>3, <1>5, <2>1, <2>2 DEF Clean
<1>9. NoStaleCode'
  BY <1>1, <1>2, <1>3, <1>5 DEF CodeInv, NoStaleCode, Clean
<1> QED
  BY <1>6, <1>7, <1>8, <1>9 DEF CodeInv

\* A registration that fails gives up its range.
LEMMA RegisterFailsInv ==
  ASSUME CodeInv, RegisterFails
  PROVE  CodeInv'
<1>1. PICK s \in Ranges, p \in Cpus, r \in Records :
        loaded[s] = NoImage /\ NewRecord(r, s, p) /\ failed' = failed \cup {s}
  BY DEF RegisterFails
<1>2. UNCHANGED <<loaded, noexec, tbs, started, refused>>
  BY DEF RegisterFails
<1>3. TypeOK'
  BY <1>1, <1>2, NewRecordOK DEF CodeInv, TypeOK
<1>4. ListedOnce' /\ LoadedListed' /\ ListedLoaded'
  BY <1>1, <1>2, ListedAfterNew
<1>5. Executable'
  <2> SUFFICES ASSUME NEW t \in Clean, t # s
               PROVE  /\ loaded'[t] # NoImage => t \in noexec'
                      /\ \A q \in Cpus : t \in exec'[q] <=> loaded'[t] # NoImage /\ q = loaded'[t].cpu
    BY <1>1 DEF Executable, Clean
  <2>1. \A q \in Cpus : t \in exec'[q] <=> t \in exec[q]
    BY <1>1, NewRecordOK DEF CodeInv, Clean
  <2> QED
    BY <1>2, <2>1 DEF CodeInv, Executable
<1>6. NoStaleCode'
  BY <1>1, <1>2 DEF CodeInv, NoStaleCode, Clean
<1> QED
  BY <1>3, <1>4, <1>5, <1>6 DEF CodeInv

-----------------------------------------------------------------------------
(* Unregistration.                                                         *)

\* What ImageProtocolUnregister finds and takes off the list.
LEMMA UnregisterOK ==
  ASSUME CodeInv, NEW s \in LoadedRanges,
         imageList' = RemoveAt(imageList, AddressNode(s)), UNCHANGED record
  PROVE  LET N == Len(imageList)
             n == AddressNode(s) IN
         /\ N \in Nat /\ DOMAIN imageList = 1..N /\ DOMAIN imageList' = 1..(N - 1)
         /\ imageList' \in Seq(Records)
         /\ n \in 1..N /\ Rec(n).range = s
         /\ ImageFindByAddress(s) = imageList[n]
         /\ \A m \in 1..N : Rec(m).range = s => n <= m
         /\ \A j \in 1..(N - 1) :
              /\ imageList'[j] = imageList[Before(n, j)]
              /\ record'[imageList'[j]] = Rec(Before(n, j))
         /\ \A j \in 1..(N - 1) : Before(n, j) \in 1..N /\ Before(n, j) # n
         /\ \A i, j \in 1..(N - 1) : Before(n, i) = Before(n, j) => i = j
         /\ \A i, j \in 1..(N - 1) : Before(n, i) <= Before(n, j) => i <= j
         /\ \A m \in 1..N : m # n => \E j \in 1..(N - 1) : Before(n, j) = m
<1> DEFINE N == Len(imageList)
           n == AddressNode(s)
<1>1. imageList \in Seq(Records) /\ N \in Nat /\ DOMAIN imageList = 1..N
  BY DEF CodeInv, TypeOK
<1>2. \E m \in DOMAIN imageList : Rec(m).range = s
  BY DEF CodeInv, LoadedListed
<1>3. /\ n \in 1..N /\ Rec(n).range = s /\ ImageFindByAddress(s) = imageList[n]
      /\ \A m \in 1..N : Rec(m).range = s => n <= m
  BY <1>1, <1>2, AddressFound DEF CodeInv
<1>4. imageList' = RemoveAt(imageList, n)
  OBVIOUS
<1> HIDE DEF n
<1>5. /\ imageList' \in Seq(Records) /\ DOMAIN imageList' = 1..(N - 1)
      /\ \A j \in 1..(N - 1) : imageList'[j] = imageList[Before(n, j)]
  BY <1>1, <1>3, <1>4, RemoveAtOK
<1>6. \A j \in 1..(N - 1) : record'[imageList'[j]] = Rec(Before(n, j))
  BY <1>5 DEF Rec
<1> HIDE DEF N
<1>7. /\ \A j \in 1..(N - 1) : Before(n, j) \in 1..N /\ Before(n, j) # n
      /\ \A i, j \in 1..(N - 1) : Before(n, i) = Before(n, j) => i = j
      /\ \A i, j \in 1..(N - 1) : Before(n, i) <= Before(n, j) => i <= j
      /\ \A m \in 1..N : m # n => \E j \in 1..(N - 1) : Before(n, j) = m
  BY <1>1, <1>3, BeforeOnto
<1> QED
  BY <1>1, <1>3, <1>5, <1>6, <1>7 DEF N, n

\* UnloadImage takes an image's code and its record away.
LEMMA UnregisterInv ==
  ASSUME CodeInv, ImageProtocolUnregister
  PROVE  CodeInv'
<1> DEFINE N == Len(imageList)
<1>1. PICK s \in LoadedRanges :
        /\ exec' = [exec EXCEPT ![record[ImageFindByAddress(s)].cpu] = @ \ {s}]
        /\ tbs' = [tbs EXCEPT ![record[ImageFindByAddress(s)].cpu] = @ \ {s}]
        /\ imageList' = RemoveAt(imageList, AddressNode(s))
        /\ noexec' = noexec \ {s}
        /\ loaded' = [loaded EXCEPT ![s] = NoImage]
  BY DEF ImageProtocolUnregister
<1>2. UNCHANGED <<record, started, refused, failed, unset>>
  BY DEF ImageProtocolUnregister
<1> DEFINE n == AddressNode(s)
           p == record[ImageFindByAddress(s)].cpu
<1>3. /\ N \in Nat /\ DOMAIN imageList = 1..N /\ DOMAIN imageList' = 1..(N - 1)
      /\ imageList' \in Seq(Records)
      /\ n \in 1..N /\ Rec(n).range = s /\ ImageFindByAddress(s) = imageList[n]
      /\ \A j \in 1..(N - 1) :
           /\ imageList'[j] = imageList[Before(n, j)]
           /\ record'[imageList'[j]] = Rec(Before(n, j))
      /\ \A j \in 1..(N - 1) : Before(n, j) \in 1..N /\ Before(n, j) # n
      /\ \A i, j \in 1..(N - 1) : Before(n, i) = Before(n, j) => i = j
      /\ \A m \in 1..N : m # n => \E j \in 1..(N - 1) : Before(n, j) = m
  BY <1>1, <1>2, UnregisterOK
<1>4. s \in Ranges /\ loaded[s] # NoImage /\ p = Rec(n).cpu /\ p \in Cpus
  BY <1>3 DEF LoadedRanges, Rec, CodeInv, TypeOK
<1>5. loaded'[s] = NoImage /\ \A t \in Ranges : t # s => loaded'[t] = loaded[t]
  BY <1>1, <1>4 DEF CodeInv, TypeOK
<1>6. exec' = [exec EXCEPT ![p] = @ \ {s}] /\ tbs' = [tbs EXCEPT ![p] = @ \ {s}]
  BY <1>1
<1>7. \A m \in 1..N : Rec(m).range \in Ranges
  BY <1>3 DEF CodeInv, TypeOK, Rec
<1>8. s \in Clean => p = loaded[s].cpu /\ \A m \in 1..N : Rec(m).range = s => m = n
  BY <1>3, <1>4 DEF CodeInv, ListedLoaded
<1> HIDE DEF n, p, N
<1>9. TypeOK'
  BY <1>1, <1>2, <1>3, <1>4, <1>6 DEF CodeInv, TypeOK
<1>10. ListedOnce'
  BY <1>3 DEF CodeInv, ListedOnce
<1>11. LoadedListed'
  <2> SUFFICES ASSUME NEW t \in Ranges, loaded'[t] # NoImage
               PROVE  \E j \in 1..(N - 1) : record'[imageList'[j]].range = t
    BY <1>3 DEF LoadedListed, LoadedRanges, Rec
  <2>1. t # s /\ loaded[t] # NoImage
    BY <1>5
  <2>2. PICK m \in 1..N : Rec(m).range = t
    BY <1>3, <2>1 DEF CodeInv, LoadedListed, LoadedRanges
  <2>3. PICK j \in 1..(N - 1) : Before(n, j) = m
    BY <1>3, <2>1, <2>2
  <2> QED
    BY <1>3, <2>2, <2>3
<1>12. ListedLoaded'
  <2> SUFFICES ASSUME NEW j \in 1..(N - 1), record'[imageList'[j]].range \in Clean
               PROVE  LET t == record'[imageList'[j]].range IN
                      /\ loaded'[t] # NoImage /\ record'[imageList'[j]].cpu = loaded'[t].cpu
                      /\ \A i \in 1..(N - 1) : record'[imageList'[i]].range = t => i = j
    BY <1>2, <1>3 DEF ListedLoaded, Rec, Clean
  <2> DEFINE m == Before(n, j)
  <2>1. m \in 1..N /\ m # n /\ record'[imageList'[j]] = Rec(m)
    BY <1>3
  <2> HIDE DEF m
  <2>2. /\ loaded[Rec(m).range] # NoImage /\ Rec(m).cpu = loaded[Rec(m).range].cpu
        /\ \A k \in 1..N : Rec(k).range = Rec(m).range => k = m
    BY <1>3, <2>1 DEF CodeInv, ListedLoaded
  <2>3. Rec(m).range # s
    BY <1>8, <2>1
  <2>4. ASSUME NEW i \in 1..(N - 1), record'[imageList'[i]].range = Rec(m).range PROVE i = j
    <3>1. Before(n, i) \in 1..N /\ Rec(Before(n, i)).range = Rec(m).range
      BY <1>3, <2>4
    <3> QED
      BY <1>3, <2>2, <3>1 DEF m
  <2> QED
    BY <1>5, <1>7, <2>1, <2>2, <2>3, <2>4
<1>13. Executable'
  <2> SUFFICES ASSUME NEW t \in Clean
               PROVE  /\ loaded'[t] # NoImage => t \in noexec'
                      /\ \A q \in Cpus : t \in exec'[q] <=> loaded'[t] # NoImage /\ q = loaded'[t].cpu
    BY <1>2 DEF Executable, Clean
  <2>1. /\ loaded[t] # NoImage => t \in noexec
        /\ \A q \in Cpus : t \in exec[q] <=> loaded[t] # NoImage /\ q = loaded[t].cpu
    BY DEF CodeInv, Executable
  <2>2. \A q \in Cpus : t \in exec'[q] <=> t \in exec[q] /\ ~(q = p /\ t = s)
    BY <1>4, <1>6 DEF CodeInv, TypeOK
  <2>3. CASE t = s
    BY <1>5, <1>8, <2>1, <2>2, <2>3
  <2>4. CASE t # s
    BY <1>1, <1>5, <2>1, <2>2, <2>4 DEF Clean
  <2> QED
    BY <2>3, <2>4
<1>14. NoStaleCode'
  <2> SUFFICES ASSUME NEW q \in Cpus, NEW t \in tbs'[q], t \in Clean
               PROVE  loaded'[t] # NoImage /\ loaded'[t].cpu = q
    BY <1>2 DEF NoStaleCode, Clean
  <2>1. t \in tbs[q] /\ ~(q = p /\ t = s)
    BY <1>4, <1>6 DEF CodeInv, TypeOK
  <2>2. loaded[t] # NoImage /\ loaded[t].cpu = q
    BY <2>1 DEF CodeInv, NoStaleCode
  <2>3. t # s
    BY <1>8, <2>1, <2>2
  <2> QED
    BY <1>5, <2>2, <2>3 DEF Clean
<1> QED
  BY <1>9, <1>10, <1>11, <1>12, <1>13, <1>14 DEF CodeInv

-----------------------------------------------------------------------------
(* Running images.                                                         *)

\* Steps that leave list, ranges and machines of the records alone.
LEMMA CodeKept ==
  ASSUME CodeInv, TypeOK', UNCHANGED <<imageList, loaded, exec, noexec, failed>>, NoStaleCode',
         \A n \in DOMAIN imageList : /\ record'[imageList[n]].range = Rec(n).range
                                     /\ record'[imageList[n]].cpu = Rec(n).cpu
  PROVE  CodeInv'
<1>1. ListedOnce'
  BY DEF CodeInv, ListedOnce
<1>2. LoadedListed'
  BY DEF CodeInv, LoadedListed, LoadedRanges, Rec
<1>3. ListedLoaded'
  BY DEF CodeInv, ListedLoaded, Clean, Rec
<1>4. Executable'
  BY DEF CodeInv, Executable, Clean
<1> QED
  BY <1>1, <1>2, <1>3, <1>4 DEF CodeInv

\* A function changed at one place.
LEMMA Updated ==
  ASSUME NEW S, NEW T, NEW f \in [S -> T], NEW x \in S, NEW v \in T
  PROVE  /\ [f EXCEPT ![x] = v] \in [S -> T] /\ [f EXCEPT ![x] = v][x] = v
         /\ \A y \in S : y # x => [f EXCEPT ![x] = v][y] = f[y]
  OBVIOUS

\* What CpuRunImage does to the record it finds.
LEMMA StartOK ==
  ASSUME CodeInv, NEW s \in LoadedRanges,
         record' = [record EXCEPT ![ImageFindByAddress(s)].handle = loaded[s].handle]
  PROVE  LET r == ImageFindByAddress(s) IN
         /\ r \in Records /\ r = imageList[AddressNode(s)] /\ AddressNode(s) \in DOMAIN imageList
         /\ Rec(AddressNode(s)).range = s
         /\ \A m \in DOMAIN imageList : Rec(m).range = s => AddressNode(s) <= m
         /\ loaded[s] \in [cpu : Cpus, handle : Handles]
         /\ record' \in [Records -> [range : Ranges, cpu : Cpus, handle : Handles \cup {NoHandle}]]
         /\ record'[r] = [record[r] EXCEPT !.handle = loaded[s].handle]
         /\ record'[r].range = s /\ record'[r].handle = loaded[s].handle
         /\ record'[r].cpu = record[r].cpu
         /\ \A q \in Records : q # r => record'[q] = record[q]
<1> DEFINE r == ImageFindByAddress(s)
           n == AddressNode(s)
<1>1. \E m \in DOMAIN imageList : Rec(m).range = s
  BY DEF CodeInv, LoadedListed
<1>2. /\ r \in Records /\ r = imageList[n] /\ n \in DOMAIN imageList /\ Rec(n).range = s
      /\ \A m \in DOMAIN imageList : Rec(m).range = s => n <= m
  BY <1>1, AddressFound DEF CodeInv
<1>3. loaded[s] \in [cpu : Cpus, handle : Handles]
  BY DEF CodeInv, TypeOK, LoadedRanges
<1> DEFINE new == [record[r] EXCEPT !.handle = loaded[s].handle]
<1>4. record \in [Records -> [range : Ranges, cpu : Cpus, handle : Handles \cup {NoHandle}]]
  BY DEF CodeInv, TypeOK
<1>5. /\ new \in [range : Ranges, cpu : Cpus, handle : Handles \cup {NoHandle}]
      /\ new.range = s /\ new.handle = loaded[s].handle /\ new.cpu = record[r].cpu
  <2>1. record[r] \in [range : Ranges, cpu : Cpus, handle : Handles \cup {NoHandle}]
    BY <1>2, <1>4
  <2>2. record[r].range = s
    BY <1>2 DEF Rec
  <2> QED
    BY <1>3, <2>1, <2>2
<1>6. record' = [record EXCEPT ![r] = new]
  BY <1>2, <1>4, Zenon
<1> HIDE DEF new, r, n
<1>7. /\ record' \in [Records -> [range : Ranges, cpu : Cpus, handle : Handles \cup {NoHandle}]]
      /\ record'[r] = new /\ \A q \in Records : q # r => record'[q] = record[q]
  <2>1. r \in Records
    BY <1>2
  <2>2. /\ [record EXCEPT ![r] = new]
             \in [Records -> [range : Ranges, cpu : Cpus, handle : Handles \cup {NoHandle}]]
        /\ [record EXCEPT ![r] = new][r] = new
        /\ \A q \in Records : q # r => [record EXCEPT ![r] = new][q] = record[q]
    BY <1>4, <1>5, <2>1, Updated, Zenon
  <2> QED
    BY <1>6, <2>2, Zenon
<1> QED
  BY <1>2, <1>3, <1>5, <1>7 DEF r, n, new

\* StartImage, Exit and return of an image, and execution of its code.
LEMMA StartInv ==
  ASSUME CodeInv, StartImage
  PROVE  CodeInv'
<1>1. PICK s \in LoadedRanges :
        /\ record' = [record EXCEPT ![ImageFindByAddress(s)].handle = loaded[s].handle]
        /\ unset' = unset \ {ImageFindByAddress(s)}
        /\ started' = Append(started, [range |-> s, record |-> ImageFindByAddress(s)])
  BY DEF StartImage
<1>2. refused' = FALSE /\ UNCHANGED <<imageList, loaded, exec, noexec, tbs, failed>>
  BY DEF StartImage
<1>3. s \in Ranges
  BY DEF LoadedRanges
<1>4. TypeOK'
  <2> DEFINE run == [range |-> s, record |-> ImageFindByAddress(s)]
             Runs == [range : Ranges, record : Records]
  <2>1. run \in Runs
    BY <1>1, <1>3, StartOK
  <2>2. started \in Seq(Runs) /\ started' = Append(started, run)
    BY <1>1 DEF CodeInv, TypeOK
  <2> HIDE DEF run
  <2>3. started' \in Seq(Runs)
    BY <2>1, <2>2
  <2> QED
    BY <1>1, <1>2, <2>3, StartOK DEF CodeInv, TypeOK
<1>5. ASSUME NEW n \in DOMAIN imageList
      PROVE  /\ record'[imageList[n]].range = Rec(n).range /\ record'[imageList[n]].cpu = Rec(n).cpu
  <2>1. imageList[n] \in Records
    BY DEF CodeInv, TypeOK
  <2>2. record[ImageFindByAddress(s)].range = s
    BY <1>1, StartOK DEF Rec
  <2> QED
    BY <1>1, <2>1, <2>2, StartOK DEF Rec
<1>6. NoStaleCode'
  BY <1>2 DEF CodeInv, NoStaleCode, Clean
<1> QED
  BY <1>2, <1>4, <1>5, <1>6, CodeKept

\* The engine that executes a range is its image's (Cpu.c:1185-1188).
LEMMA ExecuteInv ==
  ASSUME CodeInv, Execute
  PROVE  CodeInv'
<1>1. PICK s \in LoadedRanges :
        /\ s \in exec[record[ImageFindByAddress(s)].cpu]
        /\ tbs' = [tbs EXCEPT ![record[ImageFindByAddress(s)].cpu] = @ \cup {s}]
  BY DEF Execute
<1>2. UNCHANGED <<imageList, record, loaded, exec, noexec, started, refused, failed, unset>>
  BY DEF Execute
<1> DEFINE p == record[ImageFindByAddress(s)].cpu
<1>3. tbs' = [tbs EXCEPT ![p] = @ \cup {s}] /\ s \in exec[p] /\ s \in Ranges
  BY <1>1 DEF LoadedRanges
<1>4. p \in Cpus
  <2>1. \E m \in DOMAIN imageList : Rec(m).range = s
    BY DEF CodeInv, LoadedListed
  <2>2. ImageFindByAddress(s) \in Records
    BY <2>1, AddressFound DEF CodeInv
  <2> QED
    BY <2>2 DEF CodeInv, TypeOK
<1> HIDE DEF p
<1>5. TypeOK'
  BY <1>2, <1>3, <1>4 DEF CodeInv, TypeOK
<1>6. s \in Clean => loaded[s] # NoImage /\ loaded[s].cpu = p
  BY <1>3, <1>4 DEF CodeInv, Executable
<1>7. NoStaleCode'
  <2> SUFFICES ASSUME NEW q \in Cpus, NEW t \in tbs'[q], t \in Clean
               PROVE  loaded[t] # NoImage /\ loaded[t].cpu = q
    BY <1>2 DEF NoStaleCode, Clean
  <2>1. t \in tbs[q] \/ (t = s /\ q = p)
    BY <1>3, <1>4 DEF CodeInv, TypeOK
  <2> QED
    BY <1>6, <2>1 DEF CodeInv, NoStaleCode
<1> QED
  BY <1>2, <1>5, <1>7, CodeKept DEF Rec

\* The images below the innermost.
LEMMA FrontOK ==
  ASSUME NEW S, NEW q \in Seq(S), q # <<>>
  PROVE  /\ Front(q) \in Seq(S) /\ DOMAIN Front(q) \subseteq DOMAIN q
         /\ \A k \in DOMAIN Front(q) : Front(q)[k] = q[k]
  BY DEF Front

\* Leaving an image touches no code.
LEMMA LeaveInv ==
  ASSUME CodeInv, CpuExitImage \/ ImageReturns
  PROVE  CodeInv'
<1>1. UNCHANGED <<imageList, record, loaded, exec, noexec, tbs, failed, unset>>
  BY DEF CpuExitImage, ImageReturns
<1>2. started' = started \/ (started # <<>> /\ started' = Front(started))
  BY DEF CpuExitImage, ImageReturns
<1>3. refused' \in BOOLEAN
  BY DEF CpuExitImage, ImageReturns, CodeInv, TypeOK
<1>4. started' \in Seq([range : Ranges, record : Records])
  <2>1. started \in Seq([range : Ranges, record : Records])
    BY DEF CodeInv, TypeOK
  <2> QED
    BY <1>2, <2>1, FrontOK
<1>5. TypeOK'
  BY <1>1, <1>3, <1>4 DEF CodeInv, TypeOK
<1>6. NoStaleCode'
  BY <1>1 DEF CodeInv, NoStaleCode, Clean
<1> QED
  BY <1>1, <1>5, <1>6, CodeKept DEF Rec

-----------------------------------------------------------------------------
(* The invariant of the code.                                              *)

\* Nothing is loaded at first.
LEMMA InitCodeInv == Init => CodeInv
<1> SUFFICES ASSUME Init PROVE CodeInv
  OBVIOUS
<1>1. (CHOOSE s \in Ranges : TRUE) \in Ranges /\ (CHOOSE p \in Cpus : TRUE) \in Cpus
  BY ImagesAssumption
<1> DEFINE blank == [range |-> CHOOSE s \in Ranges : TRUE, cpu |-> CHOOSE p \in Cpus : TRUE,
                     handle |-> NoHandle]
<1>2. TypeOK
  <2>1. blank \in [range : Ranges, cpu : Cpus, handle : Handles \cup {NoHandle}]
    BY <1>1
  <2>2. record = [r \in Records |-> blank]
    BY DEF Init
  <2> HIDE DEF blank
  <2>3. record \in [Records -> [range : Ranges, cpu : Cpus, handle : Handles \cup {NoHandle}]]
    BY <2>1, <2>2
  <2>4. imageList \in Seq(Records) /\ started \in Seq([range : Ranges, record : Records])
    BY DEF Init
  <2>5. loaded \in [Ranges -> [cpu : Cpus, handle : Handles] \cup {NoImage}]
    BY DEF Init
  <2>6. exec \in [Cpus -> SUBSET Ranges] /\ tbs \in [Cpus -> SUBSET Ranges]
    BY DEF Init
  <2>7. noexec \subseteq Ranges /\ refused \in BOOLEAN /\ failed \subseteq Ranges /\ unset \subseteq Records
    BY DEF Init
  <2> QED
    BY <2>3, <2>4, <2>5, <2>6, <2>7 DEF TypeOK
<1>3. DOMAIN imageList = {} /\ LoadedRanges = {}
  BY DEF Init, LoadedRanges
<1> QED
  BY <1>2, <1>3 DEF Init, CodeInv, ListedOnce, LoadedListed, ListedLoaded, Executable, NoStaleCode,
                    Clean

\* Every step keeps it.
LEMMA NextCodeInv == CodeInv /\ [Next]_vars => CodeInv'
<1> SUFFICES ASSUME CodeInv, [Next]_vars PROVE CodeInv'
  OBVIOUS
<1>1. CASE UNCHANGED vars
  <2>1. TypeOK' /\ NoStaleCode'
    BY <1>1 DEF CodeInv, TypeOK, NoStaleCode, Clean, vars
  <2> QED
    BY <1>1, <2>1, CodeKept DEF vars, Rec
<1> QED
  BY <1>1, RegisterInv, RegisterFailsInv, UnregisterInv, StartInv, ExecuteInv, LeaveInv DEF Next

-----------------------------------------------------------------------------
(* Handles.                                                                *)

\* LoadImage gives a new handle; the new record holds none.
LEMMA RegisterHandles ==
  ASSUME CodeInv, HandleInv, ImageProtocolRegister
  PROVE  HandleInv'
<1> DEFINE N == Len(imageList)
<1>1. PICK s \in Ranges, p \in Cpus, r \in Records, h \in Handles :
        /\ loaded[s] = NoImage
        /\ \A q \in LoadedRanges : loaded[q].handle # h
        /\ NewRecord(r, s, p)
        /\ loaded' = [loaded EXCEPT ![s] = [cpu |-> p, handle |-> h]]
  BY DEF ImageProtocolRegister
<1>2. UNCHANGED <<tbs, started, refused, failed>>
  BY DEF ImageProtocolRegister
<1>3. /\ loaded'[s] # NoImage /\ loaded'[s].handle = h
      /\ \A t \in Ranges : t # s => loaded'[t] = loaded[t]
  BY <1>1, ImagesAssumption DEF CodeInv, TypeOK
<1>4. /\ N \in Nat /\ DOMAIN imageList = 1..N /\ DOMAIN imageList' = 1..(N + 1)
      /\ \A n \in 1..N : /\ imageList'[n] = imageList[n] /\ imageList[n] # r
                         /\ record'[imageList'[n]] = Rec(n)
      /\ imageList'[N + 1] = r /\ unset' = unset \cup {r}
  BY <1>1, NewRecordOK DEF CodeInv
<1>5. \A n \in 1..N : Rec(n).range \in Ranges
  BY <1>4 DEF CodeInv, TypeOK, Rec
<1> HIDE DEF N
<1>6. HandlesApart'
  BY <1>1, <1>3 DEF HandleInv, HandlesApart, LoadedRanges
<1>7. HandlesRight'
  <2> SUFFICES ASSUME NEW n \in 1..(N + 1), imageList'[n] \notin unset'
               PROVE  LET t == record'[imageList'[n]].range IN
                      /\ loaded'[t] # NoImage /\ record'[imageList'[n]].handle = loaded'[t].handle
                      /\ \A m \in 1..(N + 1) : record'[imageList'[m]].range = t => n <= m
    BY <1>4 DEF HandlesRight, Rec
  <2>1. n \in 1..N /\ record'[imageList'[n]] = Rec(n)
    BY <1>4
  <2>2. /\ loaded[Rec(n).range] # NoImage /\ Rec(n).handle = loaded[Rec(n).range].handle
        /\ \A m \in 1..N : Rec(m).range = Rec(n).range => n <= m
    BY <1>4, <2>1 DEF HandleInv, HandlesRight
  <2>3. \A m \in 1..(N + 1) : record'[imageList'[m]].range = Rec(n).range => n <= m
    BY <1>4, <2>1, <2>2
  <2> QED
    BY <1>1, <1>3, <1>5, <2>1, <2>2, <2>3
<1>8. StartedListed'
  <2> SUFFICES ASSUME NEW k \in DOMAIN started
               PROVE  /\ loaded'[started[k].range] # NoImage
                      /\ \E n \in 1..(N + 1) :
                           /\ imageList'[n] = started[k].record /\ imageList'[n] \notin unset'
                           /\ record'[imageList'[n]].range = started[k].range
                           /\ record'[imageList'[n]].handle = loaded'[started[k].range].handle
    BY <1>2, <1>4 DEF StartedListed, Rec
  <2>1. loaded[started[k].range] # NoImage
    BY DEF HandleInv, StartedListed
  <2>2. PICK n \in 1..N : /\ imageList[n] = started[k].record /\ imageList[n] \notin unset
                          /\ Rec(n).range = started[k].range
                          /\ Rec(n).handle = loaded[started[k].range].handle
    BY <1>4 DEF HandleInv, StartedListed
  <2>3. started[k].range # s /\ started[k].range \in Ranges
    BY <1>1, <1>5, <2>1, <2>2
  <2>4. n \in 1..(N + 1)
    BY <1>4
  <2> QED
    BY <1>3, <1>4, <2>1, <2>2, <2>3, <2>4
<1> QED
  BY <1>2, <1>6, <1>7, <1>8 DEF HandleInv

\* Nor does the one a failed registration leaves.
LEMMA RegisterFailsHandles ==
  ASSUME CodeInv, HandleInv, RegisterFails
  PROVE  HandleInv'
<1> DEFINE N == Len(imageList)
<1>1. PICK s \in Ranges, p \in Cpus, r \in Records : NewRecord(r, s, p)
  BY DEF RegisterFails
<1>2. UNCHANGED <<loaded, noexec, tbs, started, refused>>
  BY DEF RegisterFails
<1>3. /\ N \in Nat /\ DOMAIN imageList = 1..N /\ DOMAIN imageList' = 1..(N + 1)
      /\ \A n \in 1..N : /\ imageList'[n] = imageList[n] /\ imageList[n] # r
                         /\ record'[imageList'[n]] = Rec(n)
      /\ imageList'[N + 1] = r /\ unset' = unset \cup {r}
  BY <1>1, NewRecordOK DEF CodeInv
<1> HIDE DEF N
<1>4. HandlesApart'
  BY <1>2 DEF HandleInv, HandlesApart, LoadedRanges
<1>5. HandlesRight'
  <2> SUFFICES ASSUME NEW n \in 1..(N + 1), imageList'[n] \notin unset'
               PROVE  LET t == record'[imageList'[n]].range IN
                      /\ loaded[t] # NoImage /\ record'[imageList'[n]].handle = loaded[t].handle
                      /\ \A m \in 1..(N + 1) : record'[imageList'[m]].range = t => n <= m
    BY <1>2, <1>3 DEF HandlesRight, Rec
  <2>1. n \in 1..N /\ record'[imageList'[n]] = Rec(n)
    BY <1>3
  <2>2. /\ loaded[Rec(n).range] # NoImage /\ Rec(n).handle = loaded[Rec(n).range].handle
        /\ \A m \in 1..N : Rec(m).range = Rec(n).range => n <= m
    BY <1>3, <2>1 DEF HandleInv, HandlesRight
  <2>3. \A m \in 1..(N + 1) : record'[imageList'[m]].range = Rec(n).range => n <= m
    BY <1>3, <2>1, <2>2
  <2> QED
    BY <2>1, <2>2, <2>3
<1>6. StartedListed'
  <2> SUFFICES ASSUME NEW k \in DOMAIN started
               PROVE  /\ loaded[started[k].range] # NoImage
                      /\ \E n \in 1..(N + 1) :
                           /\ imageList'[n] = started[k].record /\ imageList'[n] \notin unset'
                           /\ record'[imageList'[n]].range = started[k].range
                           /\ record'[imageList'[n]].handle = loaded[started[k].range].handle
    BY <1>2, <1>3 DEF StartedListed, Rec
  <2>1. loaded[started[k].range] # NoImage
    BY DEF HandleInv, StartedListed
  <2>2. PICK n \in 1..N : /\ imageList[n] = started[k].record /\ imageList[n] \notin unset
                          /\ Rec(n).range = started[k].range
                          /\ Rec(n).handle = loaded[started[k].range].handle
    BY <1>3 DEF HandleInv, StartedListed
  <2>3. n \in 1..(N + 1)
    BY <1>3
  <2> QED
    BY <1>3, <2>1, <2>2, <2>3
<1> QED
  BY <1>2, <1>4, <1>5, <1>6 DEF HandleInv

\* Unloading takes the one record of a range that has a handle.
LEMMA UnregisterHandles ==
  ASSUME CodeInv, HandleInv, ImageProtocolUnregister
  PROVE  HandleInv'
<1> DEFINE N == Len(imageList)
<1>1. PICK s \in LoadedRanges :
        /\ ~Running(s)
        /\ imageList' = RemoveAt(imageList, AddressNode(s))
        /\ loaded' = [loaded EXCEPT ![s] = NoImage]
  BY DEF ImageProtocolUnregister
<1>2. UNCHANGED <<record, started, refused, failed, unset>>
  BY DEF ImageProtocolUnregister
<1> DEFINE n == AddressNode(s)
<1>3. /\ N \in Nat /\ DOMAIN imageList = 1..N /\ DOMAIN imageList' = 1..(N - 1)
      /\ n \in 1..N /\ Rec(n).range = s
      /\ \A m \in 1..N : Rec(m).range = s => n <= m
      /\ \A j \in 1..(N - 1) :
           /\ imageList'[j] = imageList[Before(n, j)]
           /\ record'[imageList'[j]] = Rec(Before(n, j))
      /\ \A j \in 1..(N - 1) : Before(n, j) \in 1..N /\ Before(n, j) # n
      /\ \A i, j \in 1..(N - 1) : Before(n, i) <= Before(n, j) => i <= j
      /\ \A m \in 1..N : m # n => \E j \in 1..(N - 1) : Before(n, j) = m
  BY <1>1, <1>2, UnregisterOK
<1>4. /\ s \in Ranges /\ loaded[s] # NoImage /\ loaded'[s] = NoImage
      /\ \A t \in Ranges : t # s => loaded'[t] = loaded[t]
  BY <1>1 DEF CodeInv, TypeOK, LoadedRanges
<1>5. \A m \in 1..N : Rec(m).range \in Ranges
  BY <1>3 DEF CodeInv, TypeOK, Rec
<1> HIDE DEF N, n
<1>6. HandlesApart'
  BY <1>4 DEF HandleInv, HandlesApart, LoadedRanges
<1>7. HandlesRight'
  <2> SUFFICES ASSUME NEW j \in 1..(N - 1), imageList'[j] \notin unset
               PROVE  LET t == record'[imageList'[j]].range IN
                      /\ loaded'[t] # NoImage /\ record'[imageList'[j]].handle = loaded'[t].handle
                      /\ \A i \in 1..(N - 1) : record'[imageList'[i]].range = t => j <= i
    BY <1>2, <1>3 DEF HandlesRight, Rec
  <2> DEFINE m == Before(n, j)
  <2>1. m \in 1..N /\ m # n /\ record'[imageList'[j]] = Rec(m) /\ imageList[m] \notin unset
    BY <1>3
  <2> HIDE DEF m
  <2>2. /\ loaded[Rec(m).range] # NoImage /\ Rec(m).handle = loaded[Rec(m).range].handle
        /\ \A k \in 1..N : Rec(k).range = Rec(m).range => m <= k
    BY <1>3, <2>1 DEF HandleInv, HandlesRight
  <2>3. Rec(m).range # s
    BY <1>3, <2>1, <2>2
  <2>4. ASSUME NEW i \in 1..(N - 1), record'[imageList'[i]].range = Rec(m).range PROVE j <= i
    <3>1. Before(n, i) \in 1..N /\ Rec(Before(n, i)).range = Rec(m).range
      BY <1>3, <2>4
    <3>2. m <= Before(n, i)
      BY <2>2, <3>1
    <3> QED
      BY <1>3, <3>2 DEF m
  <2> QED
    BY <1>4, <1>5, <2>1, <2>2, <2>3, <2>4
<1>8. StartedListed'
  <2> SUFFICES ASSUME NEW k \in DOMAIN started
               PROVE  /\ loaded'[started[k].range] # NoImage
                      /\ \E j \in 1..(N - 1) :
                           /\ imageList'[j] = started[k].record /\ imageList'[j] \notin unset'
                           /\ record'[imageList'[j]].range = started[k].range
                           /\ record'[imageList'[j]].handle = loaded'[started[k].range].handle
    BY <1>2, <1>3 DEF StartedListed, Rec
  <2>1. loaded[started[k].range] # NoImage /\ started[k].range # s
    BY <1>1 DEF HandleInv, StartedListed, Running
  <2>2. PICK m \in 1..N : /\ imageList[m] = started[k].record /\ imageList[m] \notin unset
                          /\ Rec(m).range = started[k].range
                          /\ Rec(m).handle = loaded[started[k].range].handle
    BY <1>3 DEF HandleInv, StartedListed
  <2>3. PICK j \in 1..(N - 1) : Before(n, j) = m
    BY <1>3, <2>1, <2>2
  <2>4. imageList'[j] = imageList[m] /\ imageList'[j] \notin unset'
    BY <1>2, <1>3, <2>2, <2>3
  <2>5. record'[imageList'[j]] = Rec(m) /\ loaded'[started[k].range] = loaded[started[k].range]
    BY <1>3, <1>4, <1>5, <2>1, <2>2, <2>3
  <2> QED
    BY <2>1, <2>2, <2>4, <2>5
<1> QED
  BY <1>2, <1>6, <1>7, <1>8 DEF HandleInv

\* CpuRunImage records the image's handle in the first record of its range.
LEMMA StartHandles ==
  ASSUME CodeInv, HandleInv, StartImage
  PROVE  HandleInv'
<1>1. PICK s \in LoadedRanges :
        /\ record' = [record EXCEPT ![ImageFindByAddress(s)].handle = loaded[s].handle]
        /\ unset' = unset \ {ImageFindByAddress(s)}
        /\ started' = Append(started, [range |-> s, record |-> ImageFindByAddress(s)])
  BY DEF StartImage
<1>2. refused' = FALSE /\ UNCHANGED <<imageList, loaded, exec, noexec, tbs, failed>>
  BY DEF StartImage
<1> DEFINE r == ImageFindByAddress(s)
           n == AddressNode(s)
           run == [range |-> s, record |-> r]
<1>3. /\ n \in DOMAIN imageList /\ imageList[n] = r /\ Rec(n).range = s
      /\ \A m \in DOMAIN imageList : Rec(m).range = s => n <= m
      /\ record'[r].range = s /\ record'[r].handle = loaded[s].handle
      /\ \A q \in Records : q # r => record'[q] = record[q]
  BY <1>1, StartOK
<1>4. \A m \in DOMAIN imageList : imageList[m] \in Records /\ (imageList[m] = r => m = n)
  BY <1>3 DEF CodeInv, ListedOnce, TypeOK
<1>5. \A m \in DOMAIN imageList : m # n => record'[imageList[m]] = Rec(m)
  BY <1>3, <1>4 DEF Rec
<1>6. \A m \in DOMAIN imageList : record'[imageList[m]].range = Rec(m).range
  BY <1>3, <1>5
<1>7. loaded[s] # NoImage
  BY DEF LoadedRanges
<1>8. started \in Seq([range : Ranges, record : Records]) /\ started' = Append(started, run)
  BY <1>1 DEF CodeInv, TypeOK
<1>9. run.range = s /\ run.record = r
  OBVIOUS
<1> HIDE DEF r, n, run
<1>10. HandlesApart'
  BY <1>2 DEF HandleInv, HandlesApart, LoadedRanges
<1>11. HandlesRight'
  <2> SUFFICES ASSUME NEW m \in DOMAIN imageList, imageList[m] \notin unset'
               PROVE  LET t == record'[imageList[m]].range IN
                      /\ loaded[t] # NoImage /\ record'[imageList[m]].handle = loaded[t].handle
                      /\ \A k \in DOMAIN imageList : record'[imageList[k]].range = t => m <= k
    BY <1>2 DEF HandlesRight, Rec
  <2>1. CASE m = n
    BY <1>3, <1>6, <1>7, <2>1
  <2>2. CASE m # n
    <3>1. imageList[m] # r /\ imageList[m] \notin unset
      BY <1>1, <1>4, <2>2 DEF r
    <3> QED
      BY <1>5, <1>6, <2>2, <3>1 DEF HandleInv, HandlesRight
  <2> QED
    BY <2>1, <2>2
<1>12. StartedListed'
  <2>1. ASSUME NEW k \in DOMAIN started
        PROVE  /\ loaded[started[k].range] # NoImage
               /\ \E m \in DOMAIN imageList :
                    /\ imageList[m] = started[k].record /\ imageList[m] \notin unset'
                    /\ record'[imageList[m]].range = started[k].range
                    /\ record'[imageList[m]].handle = loaded[started[k].range].handle
    <3>1. loaded[started[k].range] # NoImage
      BY DEF HandleInv, StartedListed
    <3>2. PICK m \in DOMAIN imageList :
            /\ imageList[m] = started[k].record /\ imageList[m] \notin unset
            /\ Rec(m).range = started[k].range
            /\ Rec(m).handle = loaded[started[k].range].handle
      BY DEF HandleInv, StartedListed
    <3>3. record'[imageList[m]].handle = loaded[started[k].range].handle
      BY <1>3, <1>5, <3>2
    <3>4. imageList[m] \notin unset'
      BY <1>1, <3>2
    <3> QED
      BY <1>6, <3>1, <3>2, <3>3, <3>4
  <2>2. \A k \in DOMAIN started' : \/ k \in DOMAIN started /\ started'[k] = started[k]
                                   \/ started'[k] = run
    BY <1>8
  <2>3. SUFFICES ASSUME NEW k \in DOMAIN started'
                 PROVE  /\ loaded[started'[k].range] # NoImage
                        /\ \E m \in DOMAIN imageList :
                             /\ imageList[m] = started'[k].record /\ imageList[m] \notin unset'
                             /\ record'[imageList[m]].range = started'[k].range
                             /\ record'[imageList[m]].handle = loaded[started'[k].range].handle
    BY <1>2 DEF StartedListed, Rec
  <2>4. CASE k \in DOMAIN started /\ started'[k] = started[k]
    BY <2>1, <2>4
  <2>5. CASE started'[k] = run
    <3>1. imageList[n] \notin unset'
      BY <1>1, <1>3 DEF r
    <3> QED
      BY <1>3, <1>7, <1>9, <2>5, <3>1
  <2> QED
    BY <2>2, <2>4, <2>5
<1> QED
  BY <1>2, <1>10, <1>11, <1>12 DEF HandleInv

\* The handle of the innermost image leads to the record it runs with, if no
\* other one shadows it.
LEMMA ExitFinds ==
  ASSUME CodeInv, HandleInv, started # <<>>, ~Shadowed
  PROVE  ImageFindByHandle(loaded[Current.range].handle) = Current.record
<1> DEFINE k == Len(started)
           h == loaded[Current.range].handle
<1>1. k \in DOMAIN started /\ Current = started[k]
  BY DEF CodeInv, TypeOK, Current, Last
<1>2. loaded[Current.range] # NoImage
  BY <1>1 DEF HandleInv, StartedListed
<1>3. PICK n \in DOMAIN imageList :
        /\ imageList[n] = Current.record /\ imageList[n] \notin unset
        /\ Rec(n).range = Current.range /\ Rec(n).handle = h
  BY <1>1 DEF HandleInv, StartedListed
<1>4. DOMAIN imageList \subseteq Nat /\ Rec(n).range \in Ranges
  BY <1>3 DEF CodeInv, TypeOK, Rec
<1> DEFINE m == HandleNode(h)
<1>5. /\ m \in DOMAIN imageList /\ m \in Nat \ {0} /\ Rec(m).handle = h /\ m <= n
      /\ ImageFindByHandle(h) = imageList[m]
  BY <1>3, HandleFound DEF CodeInv
<1> HIDE DEF m
<1>6. m < n => imageList[m] \notin unset
  BY <1>3, <1>5 DEF Shadowed, Rec
<1>7. CASE m < n
  <2> HIDE DEF h
  <2>1. /\ loaded[Rec(m).range] # NoImage /\ h = loaded[Rec(m).range].handle
        /\ Rec(m).range \in Ranges
    BY <1>5, <1>6, <1>7 DEF HandleInv, HandlesRight, CodeInv, TypeOK, Rec
  <2>2. Rec(m).range = Rec(n).range
    BY <1>2, <1>3, <1>4, <2>1 DEF HandleInv, HandlesApart, LoadedRanges, h
  <2>3. n <= m
    BY <1>3, <1>5, <2>2 DEF HandleInv, HandlesRight
  <2> QED
    BY <1>4, <1>5, <1>7, <2>3
<1>8. CASE ~(m < n)
  BY <1>3, <1>4, <1>5, <1>8
<1> QED
  BY <1>7, <1>8

\* Leaving forgets only the innermost image.
LEMMA LeaveHandles ==
  ASSUME CodeInv, HandleInv, CpuExitImage \/ ImageReturns
  PROVE  HandleInv'
<1>1. UNCHANGED <<imageList, record, loaded, exec, noexec, tbs, failed, unset>> /\ started # <<>>
  BY DEF CpuExitImage, ImageReturns
<1>2. started' = started \/ started' = Front(started)
  BY DEF CpuExitImage, ImageReturns
<1>3. DOMAIN started' \subseteq DOMAIN started /\ \A k \in DOMAIN started' : started'[k] = started[k]
  BY <1>1, <1>2, FrontOK DEF CodeInv, TypeOK
<1>4. StartedListed'
  <2> SUFFICES ASSUME NEW k \in DOMAIN started'
               PROVE  /\ loaded[started[k].range] # NoImage
                      /\ \E m \in DOMAIN imageList :
                           /\ imageList[m] = started[k].record /\ imageList[m] \notin unset
                           /\ record[imageList[m]].range = started[k].range
                           /\ record[imageList[m]].handle = loaded[started[k].range].handle
    BY <1>1, <1>3 DEF StartedListed, Rec
  <2> QED
    BY <1>3 DEF HandleInv, StartedListed, Rec
<1>5. HandlesApart' /\ HandlesRight'
  BY <1>1 DEF HandleInv, HandlesApart, HandlesRight, LoadedRanges, Rec
<1> QED
  BY <1>4, <1>5 DEF HandleInv

\* Executing code, or nothing at all, leaves handles alone.
LEMMA HandlesKept ==
  ASSUME HandleInv, UNCHANGED <<imageList, record, loaded, started, unset>>
  PROVE  HandleInv'
  BY DEF HandleInv, HandlesApart, HandlesRight, StartedListed, LoadedRanges, Rec

\* No record has a handle at first.
LEMMA InitHandleInv == Init => HandleInv
<1> SUFFICES ASSUME Init PROVE HandleInv
  OBVIOUS
<1>1. DOMAIN imageList = {} /\ LoadedRanges = {} /\ DOMAIN started = {}
  BY DEF Init, LoadedRanges
<1> QED
  BY <1>1 DEF HandleInv, HandlesApart, HandlesRight, StartedListed

\* Every step keeps the handles right.
LEMMA NextHandleInv == CodeInv /\ HandleInv /\ [Next]_vars => HandleInv'
<1> SUFFICES ASSUME CodeInv, HandleInv, [Next]_vars PROVE HandleInv'
  OBVIOUS
<1>1. CASE UNCHANGED vars
  BY <1>1, HandlesKept DEF vars
<1>2. CASE Execute
  BY <1>2, HandlesKept DEF Execute
<1> QED
  BY <1>1, <1>2, RegisterHandles, RegisterFailsHandles, UnregisterHandles, StartHandles, LeaveHandles
     DEF Next

-----------------------------------------------------------------------------
(* What follows for every value of the constants.                          *)

\* The invariant of the code holds whatever memory holds.
THEOREM CodeInvariance == Spec => []CodeInv
  BY InitCodeInv, NextCodeInv, PTL DEF Spec

\* Code is taken for emulated exactly where an emulated image is loaded, and
\* one engine executes it, its machine's (Image.c:43-65, Native.c:15-33).
THEOREM CodeStaysKnown == Spec => []CodeIsKnown
<1>1. ASSUME CodeInv, NEW s \in Clean
      PROVE  /\ ImageFindByAddress(s) = NoRecord <=> loaded[s] = NoImage
             /\ loaded[s] # NoImage =>
                  /\ record[ImageFindByAddress(s)].cpu = loaded[s].cpu
                  /\ s \in noexec
                  /\ {p \in Cpus : s \in exec[p]} = {loaded[s].cpu}
  <2>1. s \in Ranges
    BY DEF Clean
  <2>2. CASE loaded[s] = NoImage
    <3>1. \A n \in DOMAIN imageList : Rec(n).range # s
      BY <1>1, <2>2 DEF CodeInv, ListedLoaded
    <3> QED
      BY <1>1, <2>2, <3>1, AddressNotFound DEF CodeInv
  <2>3. CASE loaded[s] # NoImage
    <3>1. \E n \in DOMAIN imageList : Rec(n).range = s
      BY <1>1, <2>1, <2>3 DEF CodeInv, LoadedListed, LoadedRanges
    <3>2. /\ AddressNode(s) \in DOMAIN imageList /\ Rec(AddressNode(s)).range = s
          /\ ImageFindByAddress(s) = imageList[AddressNode(s)] /\ ImageFindByAddress(s) \in Records
      BY <1>1, <3>1, AddressFound DEF CodeInv
    <3>3. ImageFindByAddress(s) # NoRecord
      BY <3>2, ImagesAssumption
    <3>4. record[ImageFindByAddress(s)].cpu = loaded[s].cpu
      BY <1>1, <3>2 DEF CodeInv, ListedLoaded, Rec
    <3>5. loaded[s].cpu \in Cpus
      BY <1>1, <2>1, <2>3 DEF CodeInv, TypeOK
    <3>6. s \in noexec /\ {p \in Cpus : s \in exec[p]} = {loaded[s].cpu}
      BY <1>1, <2>3, <3>5 DEF CodeInv, Executable
    <3> QED
      BY <2>3, <3>3, <3>4, <3>6
  <2> QED
    BY <2>2, <2>3
<1>2. ASSUME CodeInv, NEW a \in Addresses, a.place \notin failed
      PROVE  EmulatorIsNativeCall(a) <=>
               a.aligned /\ (a.place \in Ranges => loaded[a.place] = NoImage)
  <2>1. CASE a.place \in Ranges
    <3>1. ImageFindByAddress(a.place) = NoRecord <=> loaded[a.place] = NoImage
      BY <1>1, <1>2, <2>1 DEF Clean
    <3> QED
      BY <2>1, <3>1, ImagesAssumption DEF EmulatorIsNativeCall
  <2>2. CASE a.place = ZeroPage
    BY <2>2, ImagesAssumption DEF EmulatorIsNativeCall
  <2> QED
    BY <2>1, <2>2 DEF Addresses
<1>3. CodeInv => CodeIsKnown
  BY <1>1, <1>2 DEF CodeIsKnown
<1> QED
  BY <1>3, CodeInvariance, PTL

\* No engine keeps translated code of an image that is gone (Cpu.c:1185-1188).
THEOREM NoCodeLeftBehind == Spec => []NoStaleCode
<1>1. CodeInv => NoStaleCode
  BY DEF CodeInv
<1> QED
  BY <1>1, CodeInvariance, PTL

\* The innermost image can leave through Exit, however images nest, handles
\* and ranges are used again and registrations fail, and whatever records held
\* before, unless one that was never started shadows it (Cpu.c:1640-1674,
\* Image.c:118).
THEOREM ExitStaysAccepted == Spec => ExitAccepted
<1>1. Init => HandleInv
  BY InitHandleInv
<1>2. CodeInv /\ HandleInv /\ [Next]_vars => HandleInv'
  BY NextHandleInv
<1>3. CodeInv /\ HandleInv /\ [Next]_vars => [~refused /\ refused' => Shadowed]_vars
  <2> SUFFICES ASSUME CodeInv, HandleInv, Next, ~refused, refused' PROVE Shadowed
    BY DEF vars
  <2>1. CpuExitImage
    BY DEF Next, ImageProtocolRegister, RegisterFails, ImageProtocolUnregister, StartImage, Execute,
           ImageReturns
  <2>2. PICK h \in Handles :
          IF ImageFindByHandle(h) = Current.record
            THEN UNCHANGED refused
            ELSE refused' = (h = loaded[Current.range].handle)
    BY <2>1 DEF CpuExitImage
  <2>3. started # <<>> /\ ImageFindByHandle(loaded[Current.range].handle) # Current.record
    BY <2>1, <2>2 DEF CpuExitImage
  <2> QED
    BY <2>3, ExitFinds
<1> QED
  BY <1>1, <1>2, <1>3, CodeInvariance, PTL DEF Spec, ExitAccepted

=============================================================================
