---------------------------- MODULE MCEfiWrappers ----------------------------
(* Small instances of EfiWrappers for TLC.                                 *)
EXTENDS EfiWrappers

Symmetric == Permutations(Records) \cup Permutations(Events \ NativeEvents)

UntilCrossed == ~crossed

=============================================================================
