------------------------------ MODULE MCDriver -------------------------------
(* Small instances of Driver for TLC.                                      *)
EXTENDS Driver

TwoEngines == <<"x64", "aarch64">>
\* RISCV64/Emulator.c:259-278, AARCH64/Emulator.c:80, LOONGARCH64/Emulator.c:89-101
ExceptionsOf == [riscv64 |-> <<"store", "load", "fetch", "illegal", "access">>,
                 aarch64 |-> <<"sync">>,
                 loongarch64 |-> <<"pnx", "ade">>]
AllParts == {"tables", "entry", "hooks", "stack", "engine", "arch", "protocol", "test"}

=============================================================================
