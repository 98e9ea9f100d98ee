------------------------------ MODULE MCCalls -------------------------------
(* Small instances of Calls for TLC.                                       *)
EXTENDS Calls

\* Registers below and above 16, the link register, and tail jumps; offsets at
\* both ends of the immediate.
Wide == [insn : {"jalr"}, rs : {1, 5, 30}, imm : {-2048, 2047}, before : {0}, kind : {"fetch"}]
Other == {[insn |-> "tail", rs |-> 5, imm |-> 0, before |-> 0, kind |-> "fetch"],
          [insn |-> "jalr", rs |-> 31, imm |-> 1, before |-> 0, kind |-> "illegal"]}
\* In front of a c.jalr: another one, a nop, and halves of wide instructions.
Compressed(halves) ==
  [insn : {"c.jalr"}, rs : {10}, imm : {0}, before : halves, kind : {"fetch"}]

AllSites == Wide \cup Other \cup Compressed({38146, 1, 103 + 128, 3})

=============================================================================
