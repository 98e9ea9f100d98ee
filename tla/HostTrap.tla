------------------------------ MODULE HostTrap ------------------------------
(***************************************************************************)
(* How a native call of emulated code reaches the emulator                 *)
(* (Drivers/Emulator/<host>/Emulator.c, EmulatorSyncExceptionCallback).    *)
(*                                                                         *)
(* Emulated code is not executable for the host: calling it raises an      *)
(* exception at the called address.  AArch64 and LoongArch report that     *)
(* address.  RISC-V reports it with its low bits cleared, while x64        *)
(* functions begin at any byte, so the address is computed once more from  *)
(* the instruction that made the call, found through the return address.   *)
(*                                                                         *)
(* A trap is what the exception leaves: pc, the exception's address; kind, *)
(* its cause; w1 and w2, the halfwords at Ra - 4 and Ra - 2; x, the        *)
(* registers 0..31.                                                        *)
(***************************************************************************)
EXTENDS Integers

CONSTANTS
  WithoutMmu,  \* MAU_TRY_WITHOUT_MMU
  ImageStart,  \* the registered image, as ImageFindByAddress knows it
  ImageEnd

ASSUME HostTrapAssumption ==
  /\ WithoutMmu \in BOOLEAN
  /\ ImageStart \in Nat /\ ImageEnd \in Nat /\ ImageStart % 4 = 0

NotFound == -1   \* EFI_NOT_FOUND, no address

Low(a, n) == a - (a % n)                         \* a & ~(n - 1)
Field(w, unit, size) == (w \div unit) % size    \* a bit field of w
Signed12(i) == IF i >= 2048 THEN i - 4096 ELSE i \* the bit-field imm12

-----------------------------------------------------------------------------
(* RecoverPcFromCall: a 32-bit jalr at Ra - 4, else a c.jalr at Ra - 2.    *)
IsWide(w1) == Field(w1, 1, 4) = 3

IsJalr(w1) ==
  /\ Field(w1, 1, 128) = 103   \* 0x67
  /\ Field(w1, 128, 32) = 1     \* rd == x1
  /\ Field(w1, 4096, 4) = 0    \* two bits of func3

JalrTarget(t) ==
  t.x[Field(t.w1, 32768, 2) + 2 * Field(t.w2, 1, 16)] + Signed12(Field(t.w2, 16, 4096))

IsCJalr(w2) ==
  /\ Field(w2, 1, 4) = 2
  /\ Field(w2, 4096, 16) = 9
  /\ Field(w2, 128, 32) # 0
  /\ Field(w2, 4, 32) = 0

CJalrTarget(t) == t.x[Field(t.w2, 128, 32)]

\* Mutant: the target of a jalr keeps the alignment of its instruction.
RecoverMasked(t) ==
  IF IsWide(t.w1)
  THEN IF IsJalr(t.w1) /\ Low(JalrTarget(t), 2) = t.pc THEN t.pc ELSE NotFound
  ELSE IF IsCJalr(t.w2) /\ Low(CJalrTarget(t), 2) = t.pc THEN t.pc ELSE NotFound

RecoverPcFromCall(t) ==
  IF IsWide(t.w1)
  THEN IF IsJalr(t.w1) /\ t.pc \in {Low(JalrTarget(t), 2), Low(JalrTarget(t), 4)}
       THEN JalrTarget(t) ELSE NotFound
  ELSE IF IsCJalr(t.w2) /\ t.pc = Low(CJalrTarget(t), 2)
       THEN CJalrTarget(t) ELSE NotFound

-----------------------------------------------------------------------------
(* EmulatorSyncExceptionCallback: where EmulatorThunk is to continue, or   *)
(* NotFound when the exception is the end of the program.                  *)
ImageFindByAddress(a) == ImageStart <= a /\ a < ImageEnd

TrapRiscV64(t) ==
  IF /\ t.kind = "fetch" \/ (WithoutMmu /\ t.kind = "illegal")
     /\ ImageFindByAddress(t.pc)
  THEN RecoverPcFromCall(t) ELSE NotFound

TrapAArch64(t) ==
  IF t.kind \in {"fetch", "align"} /\ ImageFindByAddress(t.pc) THEN t.pc ELSE NotFound

TrapLoongArch64(t) == IF ImageFindByAddress(t.pc) THEN t.pc ELSE NotFound

EmulatorSyncExceptionCallback(host, t) ==
  CASE host = "RISCV64" -> TrapRiscV64(t)
    [] host = "AARCH64" -> TrapAArch64(t)
    [] host = "LOONGARCH64" -> TrapLoongArch64(t)

-----------------------------------------------------------------------------
(* The hosts, as their instruction sets define them: the trap a call of    *)
(* address a raises.  site.insn is the instruction, site.rs the register   *)
(* and site.imm the offset it adds up, site.before the halfword in front   *)
(* of a 16-bit instruction.  A tail jump leaves the return address of an   *)
(* older call, whose register has been used for something else since.      *)
Registers(a, site, ra) ==
  [r \in 0..31 |-> CASE r = 0 -> 0
                     [] r = 1 -> ra     \* overwritten by the call itself
                     [] r = site.rs /\ r # 1 /\ site.insn # "tail" -> a - site.imm
                     [] OTHER -> 64 * r]

Encoded(site) ==
  IF site.insn = "c.jalr"
  THEN <<site.before, 9 * 4096 + site.rs * 128 + 2>>
  ELSE <<103 + 128 + 32768 * (site.rs % 2), site.rs \div 2 + 16 * (site.imm % 4096)>>

TrapOf(host, a, site, cleared) ==
  [pc   |-> IF host = "RISCV64" THEN Low(a, cleared) ELSE a,
   kind |-> CASE host = "AARCH64" /\ a % 4 # 0 -> "align"
              [] host = "LOONGARCH64" /\ a % 4 # 0 -> "align"
              [] host = "RISCV64" -> site.kind
              [] OTHER -> "fetch",
   w1   |-> Encoded(site)[1],
   w2   |-> Encoded(site)[2],
   x    |-> Registers(a, site, 512)]
=============================================================================
