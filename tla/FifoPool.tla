------------------------------ MODULE FifoPool -------------------------------
(* A pool of objects that hands out the one that was free for longest.     *)
EXTENDS Sequences, Integers

CONSTANT Objects
VARIABLES queue, taken

vars == <<queue, taken>>

Init == queue = <<>> /\ taken = {}

\* The pool is set up with every object, or torn down when none is taken.
Fill == queue = <<>> /\ taken = {} /\ {queue'[n] : n \in DOMAIN queue'} = Objects
          /\ taken' = {}
Drain == taken = {} /\ queue' = <<>> /\ taken' = {}

Take ==
  /\ queue # <<>>
  /\ queue' = Tail(queue)
  /\ taken' = taken \cup {Head(queue)}

Give ==
  \E o \in taken : queue' = Append(queue, o) /\ taken' = taken \ {o}

Next == Fill \/ Drain \/ Take \/ Give

Spec == Init /\ [][Next]_vars

=============================================================================
