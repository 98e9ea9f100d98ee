--------------------------- MODULE MCObjectAlloc ---------------------------
(* ObjectAlloc for TLC. *)
EXTENDS ObjectAlloc

\* Of the states after a user has come while another was halfway the invariants
\* say nothing but that nothing is left behind.
UntilCrossed == ~crossed

=============================================================================
