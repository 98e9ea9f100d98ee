----------------------------- MODULE ShellTool ------------------------------
(***************************************************************************)
(* What the two Shell applications of the package share                    *)
(* (Library/MauUtilsLib/Utils.c): the command line and its options, and    *)
(* the pool they allocate from.                                            *)
(*                                                                         *)
(* A word of the command line is <<text>>, or <<"-">> for a lone dash, or  *)
(* <<"-", option>>, or <<"-", option, text>> with the text in the same     *)
(* word.  argv[1] is the name of the program, C's Argv[0].                 *)
(***************************************************************************)
EXTENDS Integers, SequencesExt

CONSTANT Failures  \* sets of services of which any may fail in one run

Services == {"shell", "memory", "variable", "handles", "protocol", "decompress",
             "load", "denied", "start", "connect"}
ASSUME ShellToolAssumption == Failures \subseteq SUBSET Services

Null == <<>>  \* a NULL pointer; no device path is empty

IsSequence(s) == Len(s) \in Nat /\ s = [n \in 1..Len(s) |-> s[n]]

VARIABLES
  argv,    \* the command line
  opt,     \* GET_OPT_CONTEXT
  pc,      \* where the tool is
  heap,    \* allocations not freed
  badFree, \* something not allocated has been freed
  mayFail  \* the services that may fail in this run

shared == <<argv, opt, pc, heap, badFree>>

Fails(service) == service \in mayFail

InitGetOpt == [Opt |-> "", OptArg |-> Null, OptIndex |-> 1]

ToolInit ==
  /\ opt = InitGetOpt
  /\ pc = "start" /\ heap = {} /\ badFree = FALSE
  /\ mayFail \in Failures

Argc == Len(argv)
Argv(i) == argv[i + 1]
IsDash(word) == word[1] = "-"

\* Mutant: a separate argument is not skipped.
GetOptNoSkip(withArgs) ==
  LET i == opt.OptIndex
      o == Argv(i)[2]
      arg == IF Len(Argv(i)) = 3 THEN <<Argv(i)[3]>>
             ELSE IF i + 1 < Argc /\ ~IsDash(Argv(i + 1)) THEN Argv(i + 1) ELSE Null
  IN IF i >= Argc \/ ~IsDash(Argv(i)) THEN [found |-> FALSE, next |-> opt]
     ELSE IF Len(Argv(i)) = 1 THEN [found |-> FALSE, next |-> [opt EXCEPT !.OptIndex = i + 1]]
     ELSE [found |-> TRUE, next |-> [Opt |-> o, OptIndex |-> i + 1,
                                     OptArg |-> IF o \in withArgs THEN arg ELSE opt.OptArg]]

\* The next option; an argument is in the option's word or, unless it looks
\* like an option, in the next one.
GetOpt(withArgs) ==
  LET i == opt.OptIndex
      o == Argv(i)[2]
      attached == Len(Argv(i)) = 3
      separate == o \in withArgs /\ ~attached /\ i + 1 < Argc /\ ~IsDash(Argv(i + 1))
      arg == IF attached THEN <<Argv(i)[3]>> ELSE IF separate THEN Argv(i + 1) ELSE Null
  IN IF i >= Argc \/ ~IsDash(Argv(i)) THEN [found |-> FALSE, next |-> opt]
     ELSE IF Len(Argv(i)) = 1 THEN [found |-> FALSE, next |-> [opt EXCEPT !.OptIndex = i + 1]]
     ELSE [found |-> TRUE,
           next |-> [Opt |-> o,
                     OptArg |-> IF o \in withArgs THEN arg ELSE opt.OptArg,
                     OptIndex |-> i + (IF separate THEN 2 ELSE 1)]]

Goto(next) == pc' = next
Keep == UNCHANGED <<heap, badFree>>
Allocated(new, freed) ==
  /\ heap' = (heap \cup new) \ freed
  /\ badFree' = (badFree \/ ~(freed \subseteq heap \cup new))
FreesNull == badFree' = TRUE /\ UNCHANGED heap

\* Neither kind of Shell: the tool gives up.
GetShellArgcArgv(first) ==
  /\ pc = "start"
  /\ Goto(first) \/ (Fails("shell") /\ Goto("done"))
  /\ Keep /\ UNCHANGED <<argv, opt>>
=============================================================================
