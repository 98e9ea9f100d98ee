----------------------------- MODULE CallsProofs -----------------------------
(***************************************************************************)
(* Proofs about Calls and HostTrap: that every call reaches the function   *)
(* it was made to, for any images, functions and instructions, and that    *)
(* arguments, stacks and results of nested calls are kept apart, for any   *)
(* number of calls on stacks that have room for them.                      *)
(***************************************************************************)
EXTENDS Calls, WellFoundedInduction, SequenceTheorems, FiniteSetTheorems, TLAPS

-----------------------------------------------------------------------------
(* From a trap to the function that was called.                            *)

CallSite(insn, rs, imm, before, kind) ==
  [insn |-> insn, rs |-> rs, imm |-> imm, before |-> before, kind |-> kind]

Imm12 == -2048..2047   \* what the bit-field imm12 holds

\* w1 and w2 are the halfwords of a jalr through register rs, offset imm.
EncodesJalr(w1, w2, rs, imm) ==
  /\ w1 = 103 + 128 + 32768 * (rs % 2)
  /\ w2 = rs \div 2 + 16 * (imm % 4096)

\* What RecoverPcFromCall takes out of them.
DecodesJalr(w1, w2, rs, imm) ==
  /\ IsWide(w1) /\ IsJalr(w1)
  /\ Field(w1, 32768, 2) + 2 * Field(w2, 1, 16) = rs
  /\ Signed12(Field(w2, 16, 4096)) = imm

\* The fields are those the instruction was encoded with.
LEMMA JalrFields ==
  ASSUME NEW rs \in 0..31, NEW imm \in Imm12, NEW w1, NEW w2,
         EncodesJalr(w1, w2, rs, imm)
  PROVE  DecodesJalr(w1, w2, rs, imm)
<1> USE DEF Imm12
<1>1. IsWide(w1) /\ IsJalr(w1) /\ Field(w1, 32768, 2) = rs % 2
  BY DEF EncodesJalr, IsWide, IsJalr, Field
<1>2. imm % 4096 = IF imm >= 0 THEN imm ELSE imm + 4096
  OBVIOUS
<1>3. Field(w2, 1, 16) = rs \div 2 /\ Field(w2, 16, 4096) = imm % 4096
  <2>1. w2 = rs \div 2 + 16 * (imm % 4096)
    BY DEF EncodesJalr
  <2>2. rs \div 2 \in 0..15 /\ imm % 4096 \in 0..4095
    BY <1>2
  <2> DEFINE m == rs \div 2
             n == imm % 4096
  <2>3. m \in 0..15 /\ n \in 0..4095 /\ w2 = m + 16 * n
    BY <2>1, <2>2
  <2> HIDE DEF m, n
  <2>4. Field(w2, 1, 16) = m /\ Field(w2, 16, 4096) = n
    BY <2>3 DEF Field
  <2> QED
    BY <2>4 DEF m, n
<1>4. (rs % 2) + 2 * (rs \div 2) = rs
  OBVIOUS
<1>5. Signed12(imm % 4096) = imm
  BY <1>2 DEF Signed12
<1> QED
  BY <1>1, <1>3, <1>4, <1>5 DEF DecodesJalr

\* The same of a c.jalr's halfword.
LEMMA CJalrFields ==
  ASSUME NEW rs \in 1..31
  PROVE  LET w2 == 9 * 4096 + rs * 128 + 2 IN IsCJalr(w2) /\ Field(w2, 128, 32) = rs
  BY DEF IsCJalr, Field

\* Offsets are numbers.
LEMMA OffsetsInt == Imm12 \subseteq Int
  BY DEF Imm12

\* What RecoverPcFromCall makes of any trap whose halfwords encode a jalr, or a
\* c.jalr, that leads to a.
LEMMA JalrRecovered ==
  ASSUME NEW t, NEW a \in Nat, NEW rs \in 0..31, NEW imm \in Imm12,
         EncodesJalr(t.w1, t.w2, rs, imm),
         t.x[rs] = a - imm,
         t.pc \in {Low(a, 2), Low(a, 4)}
  PROVE  RecoverPcFromCall(t) = a
<1>1. DecodesJalr(t.w1, t.w2, rs, imm)
  BY JalrFields
<1>2. JalrTarget(t) = (a - imm) + imm
  BY <1>1 DEF JalrTarget, DecodesJalr
<1>3. imm \in Int
  BY OffsetsInt
<1>4. JalrTarget(t) = a
  BY <1>2, <1>3
<1> QED
  BY <1>1, <1>4 DEF RecoverPcFromCall, DecodesJalr

\* The halfword in front of the return address is a c.jalr and does not end a 32-bit instruction.
LEMMA CJalrRecovered ==
  ASSUME NEW t, NEW a \in Nat, NEW rs \in 1..31,
         ~IsWide(t.w1),
         t.w2 = 9 * 4096 + rs * 128 + 2,
         t.x[rs] = a,
         t.pc = Low(a, 2)
  PROVE  RecoverPcFromCall(t) = a
<1>1. IsCJalr(t.w2) /\ Field(t.w2, 128, 32) = rs
  BY CJalrFields
<1>2. CJalrTarget(t) = a
  BY <1>1 DEF CJalrTarget
<1> QED
  BY <1>1, <1>2 DEF RecoverPcFromCall

-----------------------------------------------------------------------------
\* A regular jalr is recovered wherever its register and offset lead to, at
\* any byte, by processors with and without compressed instructions: all
\* registers but the one the call itself overwrites (RISCV64/Emulator.c:49-76).
THEOREM WideCallRecovered ==
  ASSUME NEW a \in Nat, NEW rs \in 2..31, NEW imm \in Imm12, NEW kind,
         NEW cleared \in {2, 4}
  PROVE  RecoverPcFromCall(TrapOf("RISCV64", a, CallSite("jalr", rs, imm, 0, kind), cleared)) = a
<1> DEFINE t == TrapOf("RISCV64", a, CallSite("jalr", rs, imm, 0, kind), cleared)
<1> SUFFICES RecoverPcFromCall(t) = a
  OBVIOUS
<1>1. EncodesJalr(t.w1, t.w2, rs, imm)
  BY DEF EncodesJalr, TrapOf, Encoded, CallSite
<1>2. t.x[rs] = a - imm
  BY DEF TrapOf, Registers, CallSite
<1>3. t.pc \in {Low(a, 2), Low(a, 4)}
  BY DEF TrapOf
<1> HIDE DEF t
<1> QED
  BY <1>1, <1>2, <1>3, JalrRecovered, rs \in 0..31

\* A compressed call is recovered, too, unless the halfword in front of it has
\* both low bits set, as a 32-bit instruction's would (RISCV64/Emulator.c:78-96).
THEOREM CompressedCallRecovered ==
  ASSUME NEW a \in Nat, NEW rs \in 2..31, NEW before \in Nat, ~IsWide(before), NEW kind
  PROVE  RecoverPcFromCall(TrapOf("RISCV64", a, CallSite("c.jalr", rs, 0, before, kind), 2)) = a
<1> DEFINE t == TrapOf("RISCV64", a, CallSite("c.jalr", rs, 0, before, kind), 2)
<1>1. ~IsWide(t.w1) /\ t.w2 = 9 * 4096 + rs * 128 + 2
  BY DEF TrapOf, Encoded, CallSite
<1>2. t.x[rs] = a /\ t.pc = Low(a, 2)
  BY DEF TrapOf, Registers, CallSite
<1> QED
  BY <1>1, <1>2, CJalrRecovered

\* Stale registers lead below every image.
LEMMA OffsetLow ==
  ASSUME NEW x \in Int, x <= 64 * 31, NEW imm \in Imm12
  PROVE  x + imm \in Int /\ x + imm < 4096
  BY DEF Imm12

\* No address below 4096 is taken for a function.
LEMMA LowIsNoFunction ==
  ASSUME NEW a \in Functions, NEW b \in Int, b < 4096, NEW n \in {2, 4}, NEW k \in {2, 4}
  PROVE  Low(b, n) # Low(a, k)
<1>1. a >= ImageStart /\ a \in Nat /\ ImageStart >= 4096 /\ ImageStart \in Nat
  BY HostTrapAssumption, CallsAssumption
<1>2. Low(b, n) <= b /\ Low(b, n) \in Int
  BY DEF Low
<1>3. Low(a, k) >= 4096
  BY <1>1 DEF Low
<1> QED
  BY <1>2, <1>3

\* Whatever is left of the address is still in the image.
LEMMA LowInImage ==
  ASSUME NEW a \in Functions, NEW k \in {2, 4}
  PROVE  ImageFindByAddress(Low(a, k)) /\ ImageFindByAddress(a) /\ a \in Nat
<1>1. a \in ImageStart..(ImageEnd - 1) /\ ImageStart \in Nat /\ ImageEnd \in Nat /\ ImageStart % 4 = 0
  BY HostTrapAssumption, CallsAssumption
<1>2. Low(a, k) >= ImageStart /\ Low(a, k) <= a /\ Low(a, k) \in Int
  BY <1>1 DEF Low
<1> QED
  BY <1>1, <1>2 DEF ImageFindByAddress

\* When RISC-V gives a call up.
GivenUp(site) ==
  \/ site.insn = "tail" \/ site.rs = 1
  \/ site.kind = "illegal" /\ ~WithoutMmu
  \/ site.insn = "c.jalr" /\ IsWide(site.before)

\* A 32-bit call is recovered or given up.
LEMMA WideCall ==
  ASSUME NEW a \in Functions, NEW rs \in 1..31, NEW imm \in Imm12, NEW t,
         EncodesJalr(t.w1, t.w2, rs, imm), NEW cleared \in {2, 4}, t.pc = Low(a, cleared),
         \/ t.x[rs] \in {0, 512, 64 * rs}
         \/ t.x[rs] = a - imm
  PROVE  /\ RecoverPcFromCall(t) \in {a, NotFound}
         /\ t.x[rs] = a - imm => RecoverPcFromCall(t) = a
<1>1. a \in Nat
  BY LowInImage
<1>2. CASE t.x[rs] = a - imm
  BY <1>1, <1>2, JalrRecovered
<1>3. CASE t.x[rs] \in {0, 512, 64 * rs} /\ t.x[rs] # a - imm
  <2>1. DecodesJalr(t.w1, t.w2, rs, imm)
    BY JalrFields
  <2>2. JalrTarget(t) = t.x[rs] + imm
    BY <2>1 DEF JalrTarget, DecodesJalr
  <2>3. JalrTarget(t) \in Int /\ JalrTarget(t) < 4096
    <3>1. t.x[rs] \in Int /\ t.x[rs] <= 64 * 31
      BY <1>3
    <3> QED
      BY <2>2, <3>1, OffsetLow
  <2>4. t.pc \notin {Low(JalrTarget(t), 2), Low(JalrTarget(t), 4)}
    BY <2>3, LowIsNoFunction
  <2> QED
    BY <1>3, <2>1, <2>4 DEF RecoverPcFromCall, DecodesJalr
<1> QED
  BY <1>2, <1>3

\* What a c.jalr reads as when the halfword in front of it is taken for the
\* first of a jalr: register 4 or 5 and an offset.
LEMMA MisreadCJalr ==
  ASSUME NEW rs \in 1..31, NEW w1 \in Nat
  PROVE  LET w2 == 9 * 4096 + rs * 128 + 2 IN
         /\ Field(w1, 32768, 2) + 2 * Field(w2, 1, 16) \in {4, 5}
         /\ Signed12(Field(w2, 16, 4096)) = 8 * rs - 1792
<1> DEFINE w2 == 9 * 4096 + rs * 128 + 2
<1>1. Field(w2, 1, 16) = 2 /\ Field(w2, 16, 4096) = 2304 + 8 * rs
  BY DEF Field
<1>2. Field(w1, 32768, 2) \in {0, 1}
  BY DEF Field
<1>3. Signed12(2304 + 8 * rs) = 8 * rs - 1792
  BY DEF Signed12
<1> HIDE DEF w2
<1> QED
  BY <1>1, <1>2, <1>3 DEF w2

\* Registers of a call of a through rs without an offset.
CalledThrough(x, rs, a) ==
  /\ \A r \in 0..31 : x[r] \in {0, 512, 64 * r} \/ (r = rs /\ r # 1 /\ x[r] = a)
  /\ rs # 1 => x[rs] = a

\* A 16-bit call, too, is recovered or given up.
LEMMA CompressedCall ==
  ASSUME NEW a \in Functions, NEW rs \in 1..31, NEW t, t.w1 \in Nat,
         t.w2 = 9 * 4096 + rs * 128 + 2, t.pc = Low(a, 2),
         CalledThrough(t.x, rs, a)
  PROVE  /\ RecoverPcFromCall(t) \in {a, NotFound}
         /\ rs # 1 /\ ~IsWide(t.w1) => RecoverPcFromCall(t) = a
<1> USE DEF CalledThrough
<1>1. a \in Nat /\ a >= 4096
  BY HostTrapAssumption, CallsAssumption
<1>2. CASE ~IsWide(t.w1) /\ rs # 1
  BY <1>1, <1>2, CJalrRecovered
<1>3. CASE ~IsWide(t.w1) /\ rs = 1
  <2>1. CJalrTarget(t) = t.x[rs]
    BY CJalrFields DEF CJalrTarget
  <2>2. t.x[rs] \in {0, 512, 64 * rs}
    BY <1>3
  <2>3. CJalrTarget(t) \in Int /\ CJalrTarget(t) < 4096
    BY <2>1, <2>2
  <2>4. t.pc # Low(CJalrTarget(t), 2)
    BY <2>3, LowIsNoFunction
  <2> QED
    BY <1>3, <2>4 DEF RecoverPcFromCall
<1>4. CASE IsWide(t.w1)
  <2> DEFINE r == Field(t.w1, 32768, 2) + 2 * Field(t.w2, 1, 16)
             b == JalrTarget(t)
  <2>1. r \in {4, 5} /\ b = t.x[r] + (8 * rs - 1792)
    BY MisreadCJalr DEF JalrTarget
  <2>2. CASE t.x[r] \in {0, 512, 64 * r}
    <3>1. b \in Int /\ b < 4096
      BY <2>1, <2>2
    <3>2. t.pc \notin {Low(b, 2), Low(b, 4)}
      BY <3>1, LowIsNoFunction
    <3> QED
      BY <1>4, <3>2 DEF RecoverPcFromCall
  <2>3. CASE r = rs /\ t.x[r] = a
    <3> HIDE DEF r, b
    <3>1. b \in Int /\ b < a - 1700
      BY <1>1, <2>1, <2>3
    <3>2. Low(b, 2) <= b /\ Low(b, 4) <= b /\ Low(a, 2) >= a - 1 /\ {Low(b, 2), Low(b, 4), Low(a, 2)} \subseteq Int
      BY <1>1, <3>1 DEF Low
    <3>3. t.pc \notin {Low(b, 2), Low(b, 4)}
      BY <1>1, <3>1, <3>2
    <3> QED
      BY <1>4, <3>3 DEF RecoverPcFromCall, b
  <2> QED
    BY <2>1, <2>2, <2>3
<1> QED
  BY <1>2, <1>3, <1>4

\* The exception's handler of each host finds the function called, unless it
\* is RISC-V's and the registers no longer tell.
LEMMA TrapFinds ==
  ASSUME NEW host \in Hosts, NEW a \in Functions, NEW site \in Sites, NEW cleared \in {2, 4},
         site.insn = "c.jalr" => cleared = 2, NEW t, t = TrapOf(host, a, site, cleared)
  PROVE  \/ EmulatorSyncExceptionCallback(host, t) = a
         \/ /\ EmulatorSyncExceptionCallback(host, t) = NotFound
            /\ host = "RISCV64" /\ GivenUp(site)
<1>1. a \in Nat /\ ImageFindByAddress(a) /\ ImageFindByAddress(Low(a, cleared))
  BY LowInImage
<1>2. /\ site.insn \in {"jalr", "tail", "c.jalr"} /\ site.rs \in 1..31 /\ site.imm \in Imm12
      /\ site.before \in Nat /\ site.kind \in {"fetch", "illegal"}
      /\ site.insn = "c.jalr" => site.imm = 0
  BY CallsAssumption DEF Imm12, Instructions
<1>3. CASE host = "AARCH64"
  <2>1. t.pc = a /\ t.kind \in {"fetch", "align"}
    BY <1>3 DEF TrapOf
  <2> QED
    BY <1>1, <1>3, <2>1 DEF EmulatorSyncExceptionCallback, TrapAArch64
<1>4. CASE host = "LOONGARCH64"
  <2>1. t.pc = a
    BY <1>4 DEF TrapOf
  <2> QED
    BY <1>1, <1>4, <2>1 DEF EmulatorSyncExceptionCallback, TrapLoongArch64
<1>5. CASE host = "RISCV64"
  <2>1. t.pc = Low(a, cleared) /\ t.kind = site.kind /\ t.x = Registers(a, site, 512)
        /\ t.w1 = Encoded(site)[1] /\ t.w2 = Encoded(site)[2]
    BY <1>5 DEF TrapOf
  <2>2. EmulatorSyncExceptionCallback(host, t) =
          IF site.kind = "fetch" \/ WithoutMmu THEN RecoverPcFromCall(t) ELSE NotFound
    BY <1>1, <1>2, <1>5, <2>1 DEF EmulatorSyncExceptionCallback, TrapRiscV64
  <2>3. CASE site.insn = "c.jalr"
    <3>1. t.w1 = site.before /\ t.w2 = 9 * 4096 + site.rs * 128 + 2
      BY <2>1, <2>3 DEF Encoded
    <3>2. \A r \in 0..31 : t.x[r] \in {0, 512, 64 * r} \/ (r = site.rs /\ r # 1 /\ t.x[r] = a)
      <4> TAKE r \in 0..31
      <4>1. \/ Registers(a, site, 512)[r] \in {0, 512, 64 * r}
            \/ (r = site.rs /\ r # 1 /\ Registers(a, site, 512)[r] = a - site.imm)
        BY <1>1 DEF Registers
      <4>2. site.imm = 0 /\ a - 0 = a
        BY <1>1, <1>2, <2>3
      <4> QED
        BY <2>1, <4>1, <4>2
    <3>3. site.rs # 1 => t.x[site.rs] = a
      BY <1>1, <1>2, <2>1, <2>3 DEF Registers
    <3>4. /\ RecoverPcFromCall(t) \in {a, NotFound}
          /\ site.rs # 1 /\ ~IsWide(t.w1) => RecoverPcFromCall(t) = a
      <4>1. t.pc = Low(a, 2) /\ t.w1 \in Nat /\ site.rs \in 1..31
           /\ CalledThrough(t.x, site.rs, a)
        BY <1>2, <2>1, <2>3, <3>1, <3>2, <3>3 DEF CalledThrough
      <4> QED
        BY <3>1, <4>1, CompressedCall
    <3>5. RecoverPcFromCall(t) = a \/ (RecoverPcFromCall(t) = NotFound /\ GivenUp(site))
      <4>1. CASE site.rs = 1 \/ IsWide(site.before)
        BY <2>3, <3>4, <4>1 DEF GivenUp
      <4>2. CASE site.rs # 1 /\ ~IsWide(site.before)
        BY <3>1, <3>4, <4>2
      <4> QED
        BY <4>1, <4>2
    <3> QED
      <4>1. CASE site.kind = "fetch" \/ WithoutMmu
        BY <1>5, <2>2, <3>5, <4>1
      <4>2. CASE ~(site.kind = "fetch" \/ WithoutMmu)
        <5>1. GivenUp(site)
          BY <1>2, <4>2 DEF GivenUp
        <5> QED
          BY <1>5, <2>2, <4>2, <5>1
      <4> QED
        BY <4>1, <4>2
  <2>4. CASE site.insn \in {"jalr", "tail"}
    <3>1. EncodesJalr(t.w1, t.w2, site.rs, site.imm)
      BY <1>2, <2>1, <2>4 DEF Encoded, EncodesJalr
    <3>2. t.x[site.rs] \in {0, 512, 64 * site.rs} \/ t.x[site.rs] = a - site.imm
      <4>1. \/ Registers(a, site, 512)[site.rs] \in {0, 512, 64 * site.rs}
            \/ Registers(a, site, 512)[site.rs] = a - site.imm
        BY <1>1, <1>2 DEF Registers
      <4> QED
        BY <2>1, <4>1
    <3>3. site.insn = "jalr" /\ site.rs # 1 => t.x[site.rs] = a - site.imm
      BY <1>1, <1>2, <2>1 DEF Registers
    <3>4. /\ RecoverPcFromCall(t) \in {a, NotFound}
          /\ t.x[site.rs] = a - site.imm => RecoverPcFromCall(t) = a
      BY <1>2, <2>1, <3>1, <3>2, WideCall
    <3>5. RecoverPcFromCall(t) = a \/ (RecoverPcFromCall(t) = NotFound /\ GivenUp(site))
      <4>1. CASE site.rs = 1 \/ site.insn = "tail"
        BY <3>4, <4>1 DEF GivenUp
      <4>2. CASE site.rs # 1 /\ site.insn = "jalr"
        BY <3>3, <3>4, <4>2
      <4> QED
        BY <2>4, <4>1, <4>2
    <3> QED
      <4>1. CASE site.kind = "fetch" \/ WithoutMmu
        BY <1>5, <2>2, <3>5, <4>1
      <4>2. CASE ~(site.kind = "fetch" \/ WithoutMmu)
        <5>1. GivenUp(site)
          BY <1>2, <4>2 DEF GivenUp
        <5> QED
          BY <1>5, <2>2, <4>2, <5>1
      <4> QED
        BY <4>1, <4>2
  <2> QED
    BY <1>2, <2>3, <2>4
<1> QED
  BY <1>3, <1>4, <1>5, CallsAssumption

-----------------------------------------------------------------------------
(* The stack of calls.                                                     *)

IsSeq(s) == \E S : s \in Seq(S)
Agree(s, s2, n) == \A k \in 1..n : s2[k] = s[k]

\* A sequence has a length and its indices.
LEMMA SeqFacts ==
  ASSUME NEW s, IsSeq(s)
  PROVE  Len(s) \in Nat /\ DOMAIN s = 1..Len(s)
  BY DEF IsSeq

\* What is below a frame that is pushed stays.
LEMMA AppendStep ==
  ASSUME NEW s, IsSeq(s), NEW f
  PROVE  /\ IsSeq(Append(s, f)) /\ Len(Append(s, f)) = Len(s) + 1
         /\ Append(s, f)[Len(s) + 1] = f /\ Agree(s, Append(s, f), Len(s))
<1>1. PICK S : s \in Seq(S)
  BY DEF IsSeq
<1>2. s \in Seq(S \cup {f})
  BY <1>1
<1>3. Append(s, f) \in Seq(S \cup {f})
  BY <1>2
<1>4. IsSeq(Append(s, f))
  BY <1>3 DEF IsSeq
<1> QED
  BY <1>2, <1>4 DEF Agree

\* What is below a frame that is popped stays.
LEMMA FrontStep ==
  ASSUME NEW s, IsSeq(s), Len(s) >= 1
  PROVE  IsSeq(Front(s)) /\ Len(Front(s)) = Len(s) - 1 /\ Agree(s, Front(s), Len(s) - 1)
<1>1. PICK S : s \in Seq(S)
  BY DEF IsSeq
<1>2. Len(s) \in Nat
  BY <1>1
<1> DEFINE t == SubSeq(s, 1, Len(s) - 1)
<1>3. /\ t \in Seq(S) /\ Len(t) = Len(s) - 1
      /\ \A k \in 1..(Len(s) - 1) : t[k] = s[k]
  <2> DEFINE n == Len(s) - 1
  <2>1. n \in Nat /\ n = Len(s) - 1 /\ \A k \in 1..n : s[k] \in S
    BY <1>1, <1>2
  <2> HIDE DEF n
  <2>2. /\ SubSeq(s, 1, n) \in Seq(S)
        /\ Len(SubSeq(s, 1, n)) = IF 1 <= n THEN n - 1 + 1 ELSE 0
        /\ \A k \in 1..(n - 1 + 1) : SubSeq(s, 1, n)[k] = s[1 + k - 1]
    BY <2>1, SubSeqProperties
  <2> DEFINE u == SubSeq(s, 1, n)
  <2>3. u \in Seq(S) /\ Len(u) = n /\ \A k \in 1..n : u[k] = s[k]
    <3> HIDE DEF u
    <3>1. /\ u \in Seq(S) /\ Len(u) = IF 1 <= n THEN n - 1 + 1 ELSE 0
          /\ \A k \in 1..(n - 1 + 1) : u[k] = s[1 + k - 1]
      BY <2>2 DEF u
    <3> QED
      BY <2>1, <3>1
  <2>4. u = t
    BY DEF n
  <2> QED
    BY <2>1, <2>3, <2>4
<1>4. Front(s) = t
  BY DEF Front
<1> HIDE DEF t
<1> QED
  BY <1>3, <1>4 DEF IsSeq, Agree

\* Only the topmost frame is replaced.
LEMMA WithStep ==
  ASSUME IsSeq(stack), Len(stack) >= 1, NEW f
  PROVE  /\ IsSeq(With(f)) /\ Len(With(f)) = Len(stack)
         /\ With(f)[Len(stack)] = f /\ Agree(stack, With(f), Len(stack) - 1)
<1>1. Len(stack) \in Nat
  BY SeqFacts
<1> DEFINE s == Front(stack)
<1>2. IsSeq(s) /\ Len(s) = Len(stack) - 1 /\ Agree(stack, s, Len(stack) - 1)
  BY FrontStep
<1> HIDE DEF s
<1>3. /\ IsSeq(Append(s, f)) /\ Len(Append(s, f)) = Len(s) + 1
      /\ Append(s, f)[Len(s) + 1] = f /\ Agree(s, Append(s, f), Len(s))
  BY <1>2, AppendStep
<1>4. With(f) = Append(s, f)
  BY DEF With, s
<1> QED
  BY <1>1, <1>2, <1>3, <1>4 DEF Agree

\* The topmost frame is popped and the one under it replaced.
LEMMA PoppedStep ==
  ASSUME IsSeq(stack), Len(stack) >= 2, NEW f
  PROVE  /\ IsSeq(Popped(f)) /\ Len(Popped(f)) = Len(stack) - 1
         /\ Popped(f)[Len(stack) - 1] = f /\ Agree(stack, Popped(f), Len(stack) - 2)
<1>1. Len(stack) \in Nat
  BY SeqFacts
<1> DEFINE s == Front(stack)
           t == Front(s)
<1>2. IsSeq(s) /\ Len(s) = Len(stack) - 1 /\ Agree(stack, s, Len(stack) - 1)
  BY <1>1, FrontStep
<1> HIDE DEF s
<1>3. IsSeq(t) /\ Len(t) = Len(s) - 1 /\ Agree(s, t, Len(s) - 1)
  BY <1>1, <1>2, FrontStep
<1> HIDE DEF t
<1>4. /\ IsSeq(Append(t, f)) /\ Len(Append(t, f)) = Len(t) + 1
      /\ Append(t, f)[Len(t) + 1] = f /\ Agree(t, Append(t, f), Len(t))
  BY <1>3, AppendStep
<1>5. Popped(f) = Append(t, f)
  BY DEF Popped, s, t
<1> QED
  BY <1>1, <1>2, <1>3, <1>4, <1>5 DEF Agree

\* Two frames are pushed, as an event does.
LEMMA PushTwo ==
  ASSUME NEW s, IsSeq(s), NEW f, NEW g, NEW t, t = s \o <<f, g>>
  PROVE  /\ IsSeq(t) /\ Len(t) = Len(s) + 2 /\ Agree(s, t, Len(s))
         /\ t[Len(s) + 1] = f /\ t[Len(s) + 2] = g
<1> DEFINE u == Append(s, f)
<1>1. Len(s) \in Nat
  BY SeqFacts
<1>2. /\ IsSeq(u) /\ Len(u) = Len(s) + 1 /\ u[Len(s) + 1] = f /\ Agree(s, u, Len(s))
  BY AppendStep
<1>3. t = Append(u, g)
  <2>1. PICK S : s \in Seq(S)
    BY DEF IsSeq
  <2>2. s \in Seq(S \cup {f, g})
    BY <2>1
  <2> QED
    BY <2>2
<1> HIDE DEF u
<1>4. /\ IsSeq(t) /\ Len(t) = Len(u) + 1 /\ t[Len(u) + 1] = g /\ Agree(u, t, Len(u))
  BY <1>2, <1>3, AppendStep
<1> QED
  BY <1>1, <1>2, <1>3, <1>4 DEF Agree

\* What frames are, by their kinds.
NativeFrame(f) ==
  /\ f.kind \in {"native", "event"} /\ f.st = "run"
  /\ DOMAIN f = {"kind", "st", "call", "n", "args", "got"}
  /\ f.call \in Nat /\ f.n \in Nat

RegFile(r) == DOMAIN r = {"pc", "sp", "lr", "keep", "ret", "a"} /\ r.sp \in Int

ActFrame(f) ==
  /\ f.kind = "act" /\ f.st \in {"trap", "dead", "enter", "pre", "run", "post", "restore"}
  /\ DOMAIN f = {"kind", "st", "call", "n", "cpu", "function", "pc", "host", "site",
                 "args", "saved", "base", "ret"}
  /\ f.cpu \in Engines /\ f.function \in Functions /\ f.base \in Int
  /\ f.saved = NoRegisters \/ RegFile(f.saved)
  /\ f.call \in Nat /\ f.call >= 1 /\ f.n \in 0..MAX_ARGS
  /\ f.args = [k \in 1..MAX_ARGS |-> IF k <= f.n THEN Arg(f.call, k) ELSE Junk]
  /\ f.st \notin {"trap", "dead"} => f.pc = f.function
  /\ f.st = "dead" => f.host = "RISCV64" /\ GivenUp(f.site)

\* How many words a call with n arguments pushes.
OutWords(e, n) ==
  (IF e = x64 THEN 5 ELSE 0) + (IF n > ArgRegs(e) THEN n - ArgRegs(e) ELSE 0)

EmuFrame(f) ==
  /\ f.kind = "emu" /\ f.st \in {"new", "run", "calls", "back", "leaves"}
  /\ DOMAIN f = {"kind", "st", "call", "n", "cpu", "entry", "out", "callee", "sent"}
  /\ f.cpu \in Engines /\ f.entry \in Int /\ f.call \in Nat /\ f.n \in 0..MAX_ARGS
  /\ f.st \in {"calls", "back"} =>
       f.callee \in Nat /\ f.sent \in 0..MAX_ARGS /\ f.out = OutWords(f.cpu, f.sent)

FrameOK(f) == NativeFrame(f) \/ ActFrame(f) \/ EmuFrame(f)

\* What a frame g directly above f tells about f.
Link(f, g) ==
  /\ g.kind = "act" => f.kind \in {"native", "event"}
  /\ g.kind = "emu" =>
       /\ f.kind = "act" /\ f.st = "run" /\ f.cpu = g.cpu /\ f.call = g.call /\ f.n = g.n
  /\ g.kind = "native" => f.kind = "emu" /\ f.st = "calls" /\ f.callee = g.call /\ f.sent = g.n

StackOK(s) ==
  /\ IsSeq(s) /\ Len(s) >= 1 /\ s[1].kind = "native"
  /\ \A k \in 1..Len(s) : FrameOK(s[k])
  /\ \A k \in 2..Len(s) : Link(s[k - 1], s[k])

\* g can stand where f does.
Stands(f, g) ==
  /\ g.kind = f.kind
  /\ f.kind = "emu" => g.cpu = f.cpu /\ g.call = f.call /\ g.n = f.n /\ g.entry = f.entry
  /\ f.kind = "native" => g.call = f.call /\ g.n = f.n

\* A step that changes frame n and those above it.
LEMMA StackStep ==
  ASSUME NEW s, StackOK(s), NEW s2, IsSeq(s2), NEW n \in 1..Len(s), n <= Len(s2), Agree(s, s2, n - 1),
         Stands(s[n], s2[n]), FrameOK(s2[n]),
         \A k \in (n + 1)..Len(s2) : FrameOK(s2[k]) /\ Link(s2[k - 1], s2[k])
  PROVE  StackOK(s2)
<1>1. Len(s) \in Nat /\ Len(s2) \in Nat
  BY SeqFacts DEF StackOK
<1>2. \A k \in 1..(n - 1) : s2[k] = s[k]
  BY DEF Agree
<1>3. s2[1].kind = "native"
  BY <1>1, <1>2 DEF StackOK, Stands
<1>4. \A k \in 1..Len(s2) : FrameOK(s2[k])
  BY <1>1, <1>2 DEF StackOK
<1>5. ASSUME NEW k \in 2..Len(s2)
      PROVE  Link(s2[k - 1], s2[k])
  <2>1. CASE k < n
    BY <1>1, <1>2, <2>1 DEF StackOK
  <2>2. CASE k = n
    <3>1. s2[k - 1] = s[k - 1] /\ Link(s[k - 1], s[k])
      BY <1>1, <1>2, <2>2 DEF StackOK
    <3> QED
      BY <2>2, <3>1 DEF Link, Stands
  <2>3. CASE k > n
    BY <1>1, <2>3
  <2> QED
    BY <1>1, <2>1, <2>2, <2>3
<1> QED
  BY <1>1, <1>3, <1>4, <1>5 DEF StackOK

\* What is at the top of the stack, and under it.
LEMMA TopFacts ==
  ASSUME StackOK(stack)
  PROVE  /\ IsSeq(stack) /\ Len(stack) \in Nat /\ Len(stack) >= 1
         /\ Top = stack[Len(stack)] /\ FrameOK(Top) /\ stack[1].kind = "native"
         /\ Len(stack) >= 2 => /\ Under = stack[Len(stack) - 1] /\ FrameOK(Under)
                               /\ Link(Under, Top)
         /\ Top.kind # "native" => Len(stack) >= 2
<1>1. Len(stack) \in Nat
  BY SeqFacts DEF StackOK
<1> QED
  BY <1>1 DEF StackOK, Top, Last, Under

-----------------------------------------------------------------------------
(* The words of the emulated stacks.                                       *)

\* How many words a pre-thunk pushes.
BlockLen(e) == IF e = x64 THEN 17 ELSE 8

\* Each call has Depth words at most, and the stack has room for all of them.
Depth == LocalWords + 35
Room == StackWords >= Depth * MaxCalls + RedZone

\* Where the words of call c end, if all the calls are nested.
Floor(c) == EmuStackTop - Depth * c

\* Every call has room of the same depth.
LEMMA FloorInt ==
  ASSUME NEW c \in Int
  PROVE  Floor(c) \in Int /\ Floor(c - 1) = Floor(c) + Depth /\ Depth \in Nat /\ Depth >= 35
<1>1. LocalWords \in Nat /\ StackWords \in Nat
  BY CallsAssumption
<1>2. Depth \in Nat /\ Depth >= 35
  BY <1>1 DEF Depth
<1>3. Depth * (c - 1) = Depth * c - Depth /\ Depth * c \in Int
  BY <1>2
<1> QED
  BY <1>1, <1>2, <1>3 DEF Floor, EmuStackTop

\* Later calls may go deeper.
LEMMA FloorFalls ==
  ASSUME NEW c \in Int, NEW d \in Int, c <= d
  PROVE  Floor(d) <= Floor(c)
<1>1. Depth \in Nat /\ StackWords \in Int
  BY FloorInt, CallsAssumption
<1>2. Depth * c <= Depth * d /\ Depth * c \in Int /\ Depth * d \in Int
  BY <1>1
<1> QED
  BY <1>1, <1>2 DEF Floor, EmuStackTop

\* The room of every call there may be is inside the stack: here Room is needed.
LEMMA FloorInside ==
  ASSUME Room, NEW c \in Int, c <= MaxCalls
  PROVE  Floor(c) >= RedZone + 1
<1>1. MaxCalls \in Nat /\ StackWords \in Nat
  BY CallsAssumption
<1>2. Floor(MaxCalls) <= Floor(c) /\ Floor(c) \in Int /\ Floor(MaxCalls) \in Int
  BY <1>1, FloorInt, FloorFalls
<1>3. Depth * MaxCalls \in Int /\ RedZone = 16
  BY <1>1, FloorInt DEF RedZone
<1>4. Floor(MaxCalls) >= RedZone + 1
  BY <1>1, <1>3 DEF Floor, Room, EmuStackTop
<1> QED
  BY <1>2, <1>3, <1>4

-----------------------------------------------------------------------------
(* Whose registers they are.                                               *)

\* Frames of an engine: activations that have set its registers up, those that
\* keep it from being reset, those that have yet to set them up, functions.
Of(f, e) == f.kind \in {"act", "emu"} /\ f.cpu = e
Owns(f, e) == f.kind = "act" /\ f.cpu = e /\ f.st \in {"pre", "run", "post", "restore"}
Counted(f, e) == f.kind = "act" /\ f.cpu = e /\ f.st \notin {"trap", "dead"}
Waits(f, e) == f.kind = "act" /\ f.cpu = e /\ f.st \in {"trap", "enter"}
IsEmu(f, e) == f.kind = "emu" /\ f.cpu = e

Nested(s, j, e) == \E i \in 1..(j - 1) : Counted(s[i], e)

\* Frame i of engine e finds the registers r when it is at the top again: those
\* the next activation has saved, or those there are.
NoneOwns(s, e, i, j) == \A k \in (i + 1)..(j - 1) : ~Owns(s[k], e)
Sees(s, R, e, i, r) ==
  \/ NoneOwns(s, e, i, Len(s) + 1) /\ r = R
  \/ \E j \in (i + 1)..Len(s) : Owns(s[j], e) /\ NoneOwns(s, e, i, j) /\ r = s[j].saved

\* What an activation f counts on with registers r.
ActOK(f, r) ==
  /\ r.sp <= f.base
  /\ f.st = "pre" => r.sp = f.base
  /\ f.st = "post" => r.sp = f.base - PostWords(f.cpu) /\ r.ret = Result(f.call)
  /\ f.st = "restore" /\ f.ret # Unsupported => r.sp = f.base

\* The first n arguments of call c, for a function entered with registers r
\* and memory m.
Arguments(e, r, m, c, n) ==
  \A k \in 1..n : Arg(c, k) = IF k <= ArgRegs(e) THEN r.a[k] ELSE m[StackArg(e, r.sp, k)]

\* The words a function f keeps.
Keeps(f, m) ==
  /\ \A k \in 1..LocalWords : m[BodySp(f) + k - 1] = Kept(f.call, k)
  /\ \A k \in (ArgRegs(f.cpu) + 1)..f.n : m[StackArg(f.cpu, f.entry, k)] = Arg(f.call, k)
  /\ IF f.cpu = x64 THEN m[f.entry] = Magic ELSE m[f.entry - 2] = Magic

ZoneKept(f, m) ==
  f.cpu = x64 => \A k \in 1..RedZone : m[BodySp(f) - RedZone + k - 1] = Kept(f.call, LocalWords + k)

\* A function f that calls has passed arguments and where to come back to.
Passes(f, r, m) ==
  /\ r.sp = BodySp(f) - f.out
  /\ r.a = [k \in 1..ArgRegs(f.cpu) |-> IF k <= f.sent THEN Arg(f.callee, k) ELSE Junk]
  /\ \A k \in (ArgRegs(f.cpu) + 1)..f.sent : m[StackArg(f.cpu, r.sp, k)] = Arg(f.callee, k)
  /\ IF f.cpu = x64 THEN m[r.sp] = Site(f.callee) ELSE r.lr = Site(f.callee)

\* What a function f counts on with registers r and memory m.
EmuOK(f, r, m) ==
  /\ BodySp(f) >= Floor(f.call) /\ f.entry + BlockLen(f.cpu) <= EmuStackTop
  /\ f.st = "new" => /\ r.sp = f.entry /\ Arguments(f.cpu, r, m, f.call, f.n)
                     /\ IF f.cpu = x64 THEN m[f.entry] = Magic ELSE r.lr = Magic
  /\ f.st \in {"run", "calls", "back"} => r.keep = Kept(f.call, 0) /\ Keeps(f, m)
  /\ f.st = "run" => r.sp = BodySp(f) /\ ZoneKept(f, m)
  /\ f.st = "calls" => r.sp >= 1 /\ Passes(f, r, m)
  /\ f.st = "back" => /\ r.sp = BodySp(f) - f.out + (IF f.cpu = x64 THEN 1 ELSE 0)
                      /\ r.pc = Site(f.callee) /\ r.ret \in {Result(f.callee), Unsupported}
  /\ f.st = "leaves" => /\ r.pc = Magic /\ r.ret = Result(f.call)
                        /\ r.sp = f.entry + (IF f.cpu = x64 THEN 1 ELSE 0)

\* What an activation on the stack has saved, and where its own words begin.
SavedFits(s, j, e) ==
  IF Nested(s, j, e)
  THEN /\ RegFile(s[j].saved) /\ s[j].saved # NoRegisters
       /\ s[j].saved.sp \in Floor(s[j].call - 1)..EmuStackTop
       /\ s[j].base = s[j].saved.sp - RedZone
  ELSE s[j].saved = NoRegisters /\ s[j].base = EmuStackTop

ViewsOK(s, R, m, e) ==
  \A i \in 1..Len(s) : \A r : Sees(s, R, e, i, r) =>
    /\ Owns(s[i], e) => ActOK(s[i], r)
    /\ IsEmu(s[i], e) => EmuOK(s[i], r, m)
    /\ Waits(s[i], e) /\ Nested(s, i, e) => r.sp >= Floor(s[i].call - 1)

SavedOK(s, e) == \A j \in 1..Len(s) : Owns(s[j], e) => SavedFits(s, j, e)

\* Whatever is above a function begins below the words it counts on.
ApartOK(s, R, e) ==
  \A i \in 1..Len(s), j \in 1..Len(s) : \A r :
    i < j /\ IsEmu(s[i], e) /\ Owns(s[j], e) /\ Sees(s, R, e, i, r) => r.sp - RedZone >= s[j].base

\* An engine with registers R and memory m after c calls.
EngineOK(s, R, m, c, e) ==
  /\ RegFile(R) /\ R.sp \in Floor(c)..EmuStackTop
  /\ DOMAIN m = 1..StackWords
  /\ ViewsOK(s, R, m, e)
  /\ SavedOK(s, e)
  /\ ApartOK(s, R, e)

\* No frame is of a call that is still to be made, or waits for one.
Within(f, c) == f.call <= c /\ (f.kind = "emu" /\ f.st \in {"calls", "back"} => f.callee <= c)
Numbered(s, c) == c \in 0..MaxCalls /\ \A i \in 1..Len(s) : Within(s[i], c)

\* A function is entered below the words that were pushed for it.
Based(s) == \A k \in 2..Len(s) :
  s[k].kind = "emu" => s[k].entry = s[k - 1].base - BlockLen(s[k].cpu)

EnginesOK ==
  /\ DOMAIN mem = Engines
  /\ \A e \in Engines : EngineOK(stack, regs[e], mem[e], calls, e)

\* What was passed and returned.
Delivered(f) ==
  /\ f.kind = "native" => \A k \in 1..f.n : f.args[k] = Arg(f.call, k)
  /\ f.kind \in {"native", "event"} /\ f.got # <<>> => f.got[2] \in {Result(f.got[1]), Unsupported}
  /\ f.kind = "act" /\ f.st = "restore" => f.ret \in {Result(f.call), Unsupported}

\* The inductive invariant: the shape of the stack, whatever the room, and what
\* frames can count on when there is room for their words.
Files(R) == DOMAIN R = Engines /\ \A e \in Engines : RegFile(R[e])
Shape == StackOK(stack) /\ Numbered(stack, calls) /\ Files(regs)
Settled(s) == (\A i \in 1..Len(s) : Delivered(s[i])) /\ Based(s)
Words == Settled(stack) /\ EnginesOK

-----------------------------------------------------------------------------
(* Steps of an engine.                                                     *)

\* Where its base leads, a function's words are on the stack.
LEMMA WordsInside ==
  ASSUME Room, NEW f, EmuFrame(f), f.call <= MaxCalls,
         BodySp(f) >= Floor(f.call), f.entry + BlockLen(f.cpu) <= EmuStackTop
  PROVE  /\ BodySp(f) = f.entry - LocalWords - 2 /\ BodySp(f) >= RedZone + 1
         /\ f.entry + BlockLen(f.cpu) - 1 <= StackWords
         /\ {LocalWords, StackWords, f.entry, BodySp(f), f.call} \subseteq Int
         /\ LocalWords >= 0 /\ RedZone = 16 /\ f.n \in 0..16
<1>1. LocalWords \in Nat /\ StackWords \in Nat /\ RedZone = 16
  BY CallsAssumption DEF RedZone
<1>2. f.entry \in Int /\ f.call \in Int /\ f.n \in 0..16 /\ BodySp(f) = f.entry - LocalWords - 2
  BY DEF EmuFrame, BodySp, MAX_ARGS
<1>3. Floor(f.call) >= RedZone + 1 /\ Floor(f.call) \in Int
  BY <1>2, FloorInside, FloorInt
<1>4. BlockLen(f.cpu) \in Int
  BY DEF BlockLen
<1> QED
  BY <1>1, <1>2, <1>3, <1>4 DEF EmuStackTop

\* A function counts on no word below its red zone.
LEMMA EmuLocal ==
  ASSUME Room, NEW f, EmuFrame(f), f.call <= MaxCalls, NEW r, r.sp \in Int, NEW m, NEW m2,
         EmuOK(f, r, m),
         \A w \in 1..StackWords : w >= r.sp - RedZone => m2[w] = m[w]
  PROVE  EmuOK(f, r, m2)
<1> DEFINE e == f.cpu
<1>1. /\ BodySp(f) = f.entry - LocalWords - 2 /\ BodySp(f) >= RedZone + 1
      /\ f.entry + BlockLen(f.cpu) - 1 <= StackWords
      /\ {LocalWords, StackWords, f.entry, BodySp(f), f.call} \subseteq Int
      /\ LocalWords >= 0 /\ RedZone = 16 /\ f.n \in 0..16
  <2>1. BodySp(f) >= Floor(f.call) /\ f.entry + BlockLen(f.cpu) <= EmuStackTop
    BY DEF EmuOK
  <2> QED
    BY <2>1, WordsInside
<1> DEFINE Same(w) == w \in Int /\ w >= 1 /\ w <= StackWords /\ w >= r.sp - 16 => m2[w] = m[w]
<1>2. ASSUME NEW w PROVE Same(w)
  BY <1>1
<1> HIDE DEF Same
<1>3. \A w : Same(w)
  BY <1>2
<1>4. e \in Engines /\ (e = x64 => BlockLen(e) = 17 /\ ArgRegs(e) = 4)
      /\ (e # x64 => BlockLen(e) = 8 /\ ArgRegs(e) = 8)
  BY DEF EmuFrame, BlockLen, ArgRegs
<1>5. ASSUME NEW k \in 5..16, NEW b \in Int, e = x64
      PROVE  StackArg(e, b, k) = b + k
  BY <1>5 DEF StackArg
<1>6. ASSUME NEW k \in 9..16, NEW b \in Int, e # x64
      PROVE  StackArg(e, b, k) = b + k - 9
  BY <1>6 DEF StackArg
<1>7. CASE f.st = "new"
  <2>1. r.sp = f.entry /\ Arguments(e, r, m, f.call, f.n)
        /\ (IF e = x64 THEN m[f.entry] = Magic ELSE r.lr = Magic)
    BY <1>7 DEF EmuOK
  <2>2. ASSUME NEW k \in (ArgRegs(e) + 1)..f.n
        PROVE  m2[StackArg(e, r.sp, k)] = m[StackArg(e, r.sp, k)]
    <3>1. CASE e = x64
      <4>1. StackArg(e, r.sp, k) = f.entry + k /\ k \in 5..16
        BY <1>1, <1>4, <1>5, <2>1, <3>1
      <4> QED
        BY <1>1, <1>3, <1>4, <2>1, <3>1, <4>1 DEF Same
    <3>2. CASE e # x64
      <4>1. StackArg(e, r.sp, k) = f.entry + k - 9 /\ k \in 9..16
        BY <1>1, <1>4, <1>6, <2>1, <3>2
      <4> QED
        BY <1>1, <1>3, <1>4, <2>1, <3>2, <4>1 DEF Same
    <3> QED
      BY <3>1, <3>2
  <2>3. Arguments(e, r, m2, f.call, f.n)
    BY <1>1, <1>4, <2>1, <2>2 DEF Arguments
  <2>4. e = x64 => m2[f.entry] = m[f.entry]
    BY <1>1, <1>3, <1>4, <2>1 DEF Same
  <2> QED
    BY <1>7, <2>1, <2>3, <2>4 DEF EmuOK
<1>8. ASSUME f.st \in {"run", "calls", "back"}, r.sp <= BodySp(f) + 1
      PROVE  Keeps(f, m2)
  <2>1. Keeps(f, m)
    BY <1>8 DEF EmuOK
  <2>2. ASSUME NEW k \in 1..LocalWords
        PROVE  m2[BodySp(f) + k - 1] = m[BodySp(f) + k - 1]
    <3>1. BlockLen(e) \in {8, 17}
      BY <1>4
    <3> QED
      BY <1>1, <1>3, <1>8, <3>1 DEF Same
  <2>3. ASSUME NEW k \in (ArgRegs(e) + 1)..f.n
        PROVE  m2[StackArg(e, f.entry, k)] = m[StackArg(e, f.entry, k)]
    <3>1. CASE e = x64
      <4>1. StackArg(e, f.entry, k) = f.entry + k /\ k \in 5..16
        BY <1>1, <1>4, <1>5, <3>1
      <4> QED
        BY <1>1, <1>3, <1>4, <1>8, <3>1, <4>1 DEF Same
    <3>2. CASE e # x64
      <4>1. StackArg(e, f.entry, k) = f.entry + k - 9 /\ k \in 9..16
        BY <1>1, <1>4, <1>6, <3>2
      <4> QED
        BY <1>1, <1>3, <1>4, <1>8, <3>2, <4>1 DEF Same
    <3> QED
      BY <3>1, <3>2
  <2>4. IF e = x64 THEN m2[f.entry] = m[f.entry] ELSE m2[f.entry - 2] = m[f.entry - 2]
    BY <1>1, <1>3, <1>4, <1>8 DEF Same
  <2> QED
    BY <2>1, <2>2, <2>3, <2>4 DEF Keeps
<1>9. CASE f.st = "run"
  <2>1. r.sp = BodySp(f) /\ ZoneKept(f, m)
    BY <1>9 DEF EmuOK
  <2>2. ASSUME NEW k \in 1..RedZone
        PROVE  m2[BodySp(f) - RedZone + k - 1] = m[BodySp(f) - RedZone + k - 1]
    <3>1. BlockLen(e) \in {8, 17}
      BY <1>4
    <3> QED
      BY <1>1, <1>3, <2>1, <3>1 DEF Same
  <2>3. ZoneKept(f, m2)
    BY <2>1, <2>2 DEF ZoneKept
  <2>4. Keeps(f, m2)
    BY <1>1, <1>8, <1>9, <2>1
  <2> QED
    BY <1>9, <2>1, <2>3, <2>4 DEF EmuOK
<1>10. ASSUME f.st \in {"calls", "back"}
       PROVE  /\ f.out \in 0..17 /\ f.sent \in 0..16 /\ f.out = OutWords(e, f.sent)
              /\ e = x64 => f.out >= 5
  <2>1. f.sent \in 0..16 /\ f.out = OutWords(e, f.sent)
    BY <1>10 DEF EmuFrame, MAX_ARGS
  <2> QED
    BY <1>4, <2>1 DEF OutWords
<1>11. CASE f.st = "calls"
  <2>1. r.sp >= 1 /\ Passes(f, r, m)
    BY <1>11 DEF EmuOK
  <2>2. r.sp = BodySp(f) - f.out
    BY <2>1 DEF Passes
  <2>3. f.out \in 0..17 /\ f.sent \in 0..16 /\ f.out = OutWords(e, f.sent)
    BY <1>10, <1>11
  <2>4. Keeps(f, m2)
    BY <1>1, <1>8, <1>11, <2>2, <2>3
  <2>5. ASSUME NEW k \in (ArgRegs(e) + 1)..f.sent
        PROVE  m2[StackArg(e, r.sp, k)] = m[StackArg(e, r.sp, k)]
    <3>1. CASE e = x64
      <4>1. StackArg(e, r.sp, k) = r.sp + k /\ k \in 5..16
        BY <1>4, <1>5, <2>3, <3>1
      <4>2. f.out = 5 + f.sent - 4
        BY <1>4, <2>3, <3>1 DEF OutWords
      <4> QED
        BY <1>1, <1>3, <1>4, <2>1, <2>2, <2>3, <3>1, <4>1, <4>2 DEF Same
    <3>2. CASE e # x64
      <4>1. StackArg(e, r.sp, k) = r.sp + k - 9 /\ k \in 9..16
        BY <1>4, <1>6, <2>3, <3>2
      <4>2. f.out = f.sent - 8
        BY <1>4, <2>3, <3>2 DEF OutWords
      <4> QED
        BY <1>1, <1>3, <1>4, <2>1, <2>2, <2>3, <3>2, <4>1, <4>2 DEF Same
    <3> QED
      BY <3>1, <3>2
  <2>6. e = x64 => m2[r.sp] = m[r.sp]
    BY <1>1, <1>3, <1>4, <2>1, <2>2, <2>3 DEF Same
  <2>7. Passes(f, r, m2)
    BY <2>1, <2>5, <2>6 DEF Passes
  <2> QED
    BY <1>11, <2>1, <2>4, <2>7 DEF EmuOK
<1>12. CASE f.st = "back"
  <2>1. r.sp = BodySp(f) - f.out + (IF e = x64 THEN 1 ELSE 0)
    BY <1>12 DEF EmuOK
  <2>2. Keeps(f, m2)
    BY <1>1, <1>8, <1>10, <1>12, <2>1
  <2> QED
    BY <1>12, <2>2 DEF EmuOK
<1>13. CASE f.st = "leaves"
  BY <1>13 DEF EmuOK
<1> QED
  BY <1>7, <1>9, <1>11, <1>12, <1>13 DEF EmuFrame

\* Frames 1..n are the same for engine e, but for those of other engines and
\* of native code.
SameFor(s, s2, e, n) ==
  \A k \in 1..n : s2[k] = s[k] \/ (~Of(s[k], e) /\ ~Of(s2[k], e))

\* Whether an activation is nested depends on the frames of its engine under it.
LEMMA NestedSame ==
  ASSUME NEW s, NEW s2, NEW e, NEW n \in Nat, SameFor(s, s2, e, n), NEW j \in 1..(n + 1)
  PROVE  Nested(s2, j, e) <=> Nested(s, j, e)
<1>1. \A i \in 1..(j - 1) : Counted(s2[i], e) <=> Counted(s[i], e)
  BY DEF SameFor, Of, Counted
<1> QED
  BY <1>1 DEF Nested

\* So does what it has to have saved.
LEMMA SavedSame ==
  ASSUME NEW s, NEW s2, NEW e, NEW n \in Nat, SameFor(s, s2, e, n), NEW j \in 1..n,
         Owns(s2[j], e), Owns(s[j], e) => SavedFits(s, j, e)
  PROVE  SavedFits(s2, j, e)
<1>1. s2[j] = s[j]
  BY DEF SameFor, Of, Owns
<1>2. Nested(s2, j, e) <=> Nested(s, j, e)
  BY NestedSame
<1> QED
  BY <1>1, <1>2 DEF SavedFits

\* What does not touch the registers and the memory of an engine and comes and
\* goes above frame n keeps its invariant.
LEMMA QuietKeeps ==
  ASSUME NEW s, NEW s2, NEW R, NEW m, NEW c \in Int, NEW c2 \in Int, c <= c2, NEW e,
         EngineOK(s, R, m, c, e), Len(s) \in Nat, Len(s2) \in Nat,
         NEW n \in Nat, n <= Len(s), n <= Len(s2), SameFor(s, s2, e, n),
         \A k \in (n + 1)..Len(s) : ~Owns(s[k], e),
         \A k \in (n + 1)..Len(s2) :
           /\ ~Owns(s2[k], e) /\ ~IsEmu(s2[k], e)
           /\ Waits(s2[k], e) /\ Nested(s2, k, e) => R.sp >= Floor(s2[k].call - 1)
  PROVE  EngineOK(s2, R, m, c2, e)
<1>1. ASSUME NEW k \in 1..n
      PROVE  /\ Owns(s2[k], e) <=> Owns(s[k], e)
             /\ Of(s2[k], e) => s2[k] = s[k]
  BY DEF SameFor, Of, Owns
<1>2. ASSUME NEW i \in 1..n, NEW r, Sees(s2, R, e, i, r)
      PROVE  Sees(s, R, e, i, r)
  <2>1. CASE NoneOwns(s2, e, i, Len(s2) + 1) /\ r = R
    <3>1. NoneOwns(s, e, i, Len(s) + 1)
      BY <1>1, <2>1 DEF NoneOwns
    <3> QED
      BY <2>1, <3>1 DEF Sees
  <2>2. ASSUME NEW j \in (i + 1)..Len(s2), Owns(s2[j], e), NoneOwns(s2, e, i, j), r = s2[j].saved
        PROVE  Sees(s, R, e, i, r)
    <3>1. j \in 1..n
      BY <2>2
    <3>2. s2[j] = s[j] /\ Owns(s[j], e) /\ j \in (i + 1)..Len(s)
      BY <1>1, <2>2, <3>1 DEF Of, Owns
    <3>3. NoneOwns(s, e, i, j)
      <4> SUFFICES ASSUME NEW k \in (i + 1)..(j - 1)
                   PROVE  ~Owns(s[k], e)
        BY DEF NoneOwns
      <4>1. k \in 1..n
        BY <3>1
      <4>2. ~Owns(s2[k], e)
        BY <2>2 DEF NoneOwns
      <4> QED
        BY <1>1, <4>1, <4>2
    <3> QED
      BY <2>2, <3>2, <3>3 DEF Sees
  <2> QED
    BY <1>2, <2>1, <2>2 DEF Sees
<1>3. ASSUME NEW i \in (n + 1)..Len(s2), NEW r, Sees(s2, R, e, i, r)
      PROVE  r = R
  BY <1>3 DEF Sees
<1>4. ViewsOK(s2, R, m, e)
  <2> SUFFICES ASSUME NEW i \in 1..Len(s2), NEW r, Sees(s2, R, e, i, r)
               PROVE  /\ Owns(s2[i], e) => ActOK(s2[i], r)
                      /\ IsEmu(s2[i], e) => EmuOK(s2[i], r, m)
                      /\ Waits(s2[i], e) /\ Nested(s2, i, e) => r.sp >= Floor(s2[i].call - 1)
    BY DEF ViewsOK
  <2>1. CASE i \in 1..n
    <3>1. Sees(s, R, e, i, r) /\ i \in 1..Len(s)
      BY <1>2, <2>1
    <3>2. /\ Owns(s[i], e) => ActOK(s[i], r)
          /\ IsEmu(s[i], e) => EmuOK(s[i], r, m)
          /\ Waits(s[i], e) /\ Nested(s, i, e) => r.sp >= Floor(s[i].call - 1)
      BY <3>1 DEF EngineOK, ViewsOK
    <3>3. Nested(s2, i, e) <=> Nested(s, i, e)
      BY <2>1, NestedSame
    <3>4. Of(s2[i], e) => s2[i] = s[i]
      BY <1>1, <2>1
    <3>5. CASE Of(s2[i], e)
      BY <3>2, <3>3, <3>4, <3>5
    <3>6. CASE ~Of(s2[i], e)
      BY <3>6 DEF Of, Owns, IsEmu, Waits
    <3> QED
      BY <3>5, <3>6
  <2>2. CASE i \in (n + 1)..Len(s2)
    BY <1>3, <2>2
  <2> QED
    BY <2>1, <2>2
<1>5. SavedOK(s2, e)
  <2> SUFFICES ASSUME NEW j \in 1..Len(s2), Owns(s2[j], e)
               PROVE  SavedFits(s2, j, e)
    BY DEF SavedOK
  <2>1. j \in 1..n
    OBVIOUS
  <2>2. Owns(s[j], e) => SavedFits(s, j, e)
    BY <2>1 DEF EngineOK, SavedOK
  <2> QED
    BY <2>1, <2>2, SavedSame
<1>6. ApartOK(s2, R, e)
  <2> SUFFICES ASSUME NEW i \in 1..Len(s2), NEW j \in 1..Len(s2), NEW r, i < j,
                      IsEmu(s2[i], e), Owns(s2[j], e), Sees(s2, R, e, i, r)
               PROVE  r.sp - RedZone >= s2[j].base
    BY DEF ApartOK
  <2>1. j \in 1..n /\ i \in 1..n
    OBVIOUS
  <2>2. s2[i] = s[i] /\ s2[j] = s[j] /\ Sees(s, R, e, i, r)
    BY <1>1, <1>2, <2>1 DEF Of, IsEmu, Owns
  <2>3. i \in 1..Len(s) /\ j \in 1..Len(s)
    BY <2>1
  <2> QED
    BY <2>2, <2>3 DEF EngineOK, ApartOK
<1>7. R.sp \in Floor(c2)..EmuStackTop
  <2>1. Floor(c2) <= Floor(c) /\ Floor(c) \in Int /\ Floor(c2) \in Int
    BY FloorFalls, FloorInt
  <2>2. R.sp \in Floor(c)..EmuStackTop
    BY DEF EngineOK
  <2> QED
    BY <2>1, <2>2
<1> QED
  BY <1>4, <1>5, <1>6, <1>7 DEF EngineOK

\* Above activation p nothing counts on other registers than R2, and from word b
\* on two memories are the same.
QuietAbove(s2, p, e, R2, m2) ==
  \A k \in (p + 1)..Len(s2) :
    /\ ~Owns(s2[k], e) /\ ~Waits(s2[k], e)
    /\ IsEmu(s2[k], e) => EmuOK(s2[k], R2, m2)
SameFrom(m, m2, b) == \A w \in 1..StackWords : w >= b => m2[w] = m[w]

\* What happens in activation p, and to what is above it, keeps the invariant
\* of its engine when it writes below the activation's base only.
LEMMA OwnKeeps ==
  ASSUME Room, NEW s, NEW s2, NEW R, NEW R2, NEW m, NEW m2, NEW c, NEW c2 \in Int, NEW e,
         EngineOK(s, R, m, c, e), StackOK(s), Numbered(s, c), Len(s2) \in Nat,
         NEW p \in 1..Len(s), p <= Len(s2), Agree(s, s2, p - 1),
         Owns(s[p], e), Owns(s2[p], e),
         s2[p].saved = s[p].saved, s2[p].base = s[p].base, s2[p].call = s[p].call,
         ActOK(s2[p], R2),
         QuietAbove(s2, p, e, R2, m2),
         RegFile(R2), R2.sp \in Floor(c2)..EmuStackTop, DOMAIN m2 = 1..StackWords,
         SameFrom(m, m2, s[p].base)
  PROVE  EngineOK(s2, R2, m2, c2, e)
<1>0. /\ \A k \in (p + 1)..Len(s2) :
           /\ ~Owns(s2[k], e) /\ ~Waits(s2[k], e)
           /\ IsEmu(s2[k], e) => EmuOK(s2[k], R2, m2)
      /\ \A w \in 1..StackWords : w >= s[p].base => m2[w] = m[w]
  BY DEF QuietAbove, SameFrom
<1>1. \A k \in 1..(p - 1) : s2[k] = s[k]
  BY DEF Agree
<1>2. Len(s) \in Nat /\ SameFor(s, s2, e, p - 1) /\ p - 1 \in Nat
  BY <1>1, SeqFacts DEF SameFor, StackOK
<1>3. ASSUME NEW i \in 1..(p - 1), NEW r, Sees(s2, R2, e, i, r)
      PROVE  Sees(s, R, e, i, r)
  <2>1. ~NoneOwns(s2, e, i, Len(s2) + 1)
    BY <1>2 DEF NoneOwns
  <2>2. PICK j \in (i + 1)..Len(s2) : Owns(s2[j], e) /\ NoneOwns(s2, e, i, j) /\ r = s2[j].saved
    BY <1>3, <2>1 DEF Sees
  <2>3. j \in (i + 1)..p
    BY <1>0, <1>2, <2>2 DEF NoneOwns
  <2>4. Owns(s[j], e) /\ r = s[j].saved /\ j \in (i + 1)..Len(s)
    <3>1. j \in (i + 1)..Len(s)
      BY <1>2, <2>3
    <3>2. CASE j = p
      BY <2>2, <3>1, <3>2
    <3>3. CASE j < p
      <4>1. j \in 1..(p - 1)
        BY <2>3, <3>3
      <4>2. s2[j] = s[j]
        BY <1>1, <4>1
      <4> QED
        BY <2>2, <3>1, <4>2
    <3> QED
      BY <2>3, <3>2, <3>3
  <2>5. NoneOwns(s, e, i, j)
    BY <1>1, <1>2, <2>2, <2>3 DEF NoneOwns
  <2> QED
    BY <2>4, <2>5 DEF Sees
<1>4. ASSUME NEW i \in p..Len(s2), NEW r, Sees(s2, R2, e, i, r)
      PROVE  r = R2
  <2>1. ASSUME NEW j \in (i + 1)..Len(s2) PROVE ~Owns(s2[j], e)
    <3>1. j \in (p + 1)..Len(s2)
      BY <1>2
    <3> QED
      BY <1>0, <3>1
  <2> QED
    BY <1>4, <2>1 DEF Sees
<1>5. ASSUME NEW i \in 1..(p - 1), NEW r, Sees(s2, R2, e, i, r), IsEmu(s2[i], e)
      PROVE  EmuOK(s2[i], r, m2)
  <2>1. Sees(s, R, e, i, r) /\ s2[i] = s[i] /\ i \in 1..Len(s)
    BY <1>1, <1>2, <1>3, <1>5
  <2>2. EmuOK(s[i], r, m) /\ r.sp - RedZone >= s[p].base
    BY <1>2, <1>5, <2>1 DEF EngineOK, ViewsOK, ApartOK
  <2>3. EmuFrame(s[i]) /\ s[i].call <= c
    BY <1>5, <2>1 DEF StackOK, FrameOK, NativeFrame, ActFrame, IsEmu, Numbered, Within
  <2>4. s[i].call <= MaxCalls
    BY <2>3, CallsAssumption DEF Numbered, EmuFrame
  <2>5. r.sp \in Int
    <3>1. CASE r = R
      BY <3>1 DEF EngineOK, RegFile
    <3>2. CASE r # R
      <4>1. PICK j \in (i + 1)..Len(s) : Owns(s[j], e) /\ r = s[j].saved
        BY <2>1, <3>2 DEF Sees
      <4>2. j \in 1..Len(s)
        BY <1>2
      <4>3. SavedFits(s, j, e)
        BY <4>1, <4>2 DEF EngineOK, SavedOK
      <4>4. Nested(s, j, e)
        <5>1. i >= 2 /\ Link(s[i - 1], s[i])
          BY <1>2, <1>5, <2>1 DEF StackOK, IsEmu
        <5>2. Counted(s[i - 1], e)
          BY <1>5, <2>1, <5>1 DEF Link, IsEmu, Counted
        <5> QED
          BY <1>2, <4>2, <5>1, <5>2 DEF Nested
      <4> QED
        BY <4>1, <4>3, <4>4 DEF SavedFits, RegFile
    <3> QED
      BY <3>1, <3>2
  <2>6. s[p].base \in Int
    BY DEF StackOK, FrameOK, NativeFrame, ActFrame, EmuFrame, Owns
  <2>7. \A w \in 1..StackWords : w >= r.sp - RedZone => m2[w] = m[w]
    <3>1. RedZone = 16 /\ StackWords \in Nat
      BY CallsAssumption DEF RedZone
    <3> DEFINE b == s[p].base
               v == r.sp
    <3>2. v \in Int /\ b \in Int /\ v - 16 >= b /\ \A w \in 1..StackWords : w >= b => m2[w] = m[w]
      BY <1>0, <2>2, <2>5, <2>6, <3>1
    <3> HIDE DEF b, v
    <3>3. \A w \in 1..StackWords : w >= v - 16 => m2[w] = m[w]
      <4> SUFFICES ASSUME NEW w \in 1..StackWords, w >= v - 16
                   PROVE  m2[w] = m[w]
        OBVIOUS
      <4>1. w \in Int
        BY <3>1
      <4>2. w >= b
        BY <3>2, <4>1
      <4> QED
        BY <3>2, <4>2
    <3> QED
      BY <3>1, <3>3 DEF v
  <2> QED
    BY <2>1, <2>2, <2>3, <2>4, <2>5, <2>7, EmuLocal
<1>6. ViewsOK(s2, R2, m2, e)
  <2> SUFFICES ASSUME NEW i \in 1..Len(s2), NEW r, Sees(s2, R2, e, i, r)
               PROVE  /\ Owns(s2[i], e) => ActOK(s2[i], r)
                      /\ IsEmu(s2[i], e) => EmuOK(s2[i], r, m2)
                      /\ Waits(s2[i], e) /\ Nested(s2, i, e) => r.sp >= Floor(s2[i].call - 1)
    BY DEF ViewsOK
  <2>1. CASE i \in 1..(p - 1)
    <3>1. Sees(s, R, e, i, r) /\ s2[i] = s[i] /\ i \in 1..Len(s)
      BY <1>1, <1>2, <1>3, <2>1
    <3>2. /\ Owns(s[i], e) => ActOK(s[i], r)
          /\ Waits(s[i], e) /\ Nested(s, i, e) => r.sp >= Floor(s[i].call - 1)
      BY <3>1 DEF EngineOK, ViewsOK
    <3>3. Nested(s2, i, e) <=> Nested(s, i, e)
      BY <1>2, <2>1, NestedSame
    <3> QED
      BY <1>5, <2>1, <3>1, <3>2, <3>3
  <2>2. CASE i = p
    <3>1. r = R2
      BY <1>4, <2>2
    <3> QED
      BY <2>2, <3>1 DEF Owns, IsEmu, Waits
  <2>3. CASE i \in (p + 1)..Len(s2)
    <3>1. r = R2
      BY <1>4, <2>3
    <3> QED
      BY <1>0, <2>3, <3>1
  <2> QED
    BY <2>1, <2>2, <2>3
<1>7. SavedOK(s2, e)
  <2> SUFFICES ASSUME NEW j \in 1..Len(s2), Owns(s2[j], e)
               PROVE  SavedFits(s2, j, e)
    BY DEF SavedOK
  <2>1. j \in 1..p
    BY <1>0
  <2>2. CASE j # p
    <3>1. j \in 1..(p - 1)
      BY <2>1, <2>2
    <3>2. Owns(s[j], e) => SavedFits(s, j, e)
      BY <1>2, <3>1 DEF EngineOK, SavedOK
    <3> QED
      BY <1>2, <3>1, <3>2, SavedSame
  <2>3. CASE j = p
    <3>1. SavedFits(s, p, e)
      BY <1>2 DEF EngineOK, SavedOK
    <3>2. Nested(s2, p, e) <=> Nested(s, p, e)
      BY <1>2, NestedSame
    <3> QED
      BY <2>3, <3>1, <3>2 DEF SavedFits
  <2> QED
    BY <2>2, <2>3
<1>8. ApartOK(s2, R2, e)
  <2> SUFFICES ASSUME NEW i \in 1..Len(s2), NEW j \in 1..Len(s2), NEW r, i < j,
                      IsEmu(s2[i], e), Owns(s2[j], e), Sees(s2, R2, e, i, r)
               PROVE  r.sp - RedZone >= s2[j].base
    BY DEF ApartOK
  <2>1. j \in 1..p /\ i \in 1..(p - 1)
    BY <1>0
  <2>2. s2[i] = s[i] /\ Owns(s[j], e) /\ s2[j].base = s[j].base /\ Sees(s, R, e, i, r)
    BY <1>1, <1>3, <2>1
  <2>3. i \in 1..Len(s) /\ j \in 1..Len(s)
    BY <1>2, <2>1
  <2> QED
    BY <2>2, <2>3 DEF EngineOK, ApartOK
<1> QED
  BY <1>6, <1>7, <1>8 DEF EngineOK

\* Above an activation that has set the registers up there is a topmost one.
LEMMA TopmostOwner ==
  ASSUME NEW s, NEW e, Len(s) \in Nat, NEW j \in 1..Len(s), Owns(s[j], e)
  PROVE  \E t \in j..Len(s) : Owns(s[t], e) /\ NoneOwns(s, e, t, Len(s) + 1)
<1> DEFINE T == {k \in Nat : k <= Len(s) - j /\ Owns(s[Len(s) - k], e)}
<1>1. Len(s) - j \in T
  <2>1. Len(s) - (Len(s) - j) = j
    OBVIOUS
  <2> QED
    BY <2>1
<1>2. \E x \in T : \A y \in T : ~(<<y, x>> \in OpToRel(<, Nat))
  BY <1>1, NatLessThanWellFounded, WFMin
<1>3. PICK x \in T : \A y \in T : ~(<<y, x>> \in OpToRel(<, Nat))
  BY <1>2
<1>4. \A y \in T : ~(y < x)
  BY <1>3 DEF OpToRel
<1>5. x \in Nat /\ x <= Len(s) - j /\ Owns(s[Len(s) - x], e)
  OBVIOUS
<1> DEFINE t == Len(s) - x
<1>6. t \in j..Len(s) /\ Owns(s[t], e)
  BY <1>5
<1>7. NoneOwns(s, e, t, Len(s) + 1)
  <2> SUFFICES ASSUME NEW k \in (t + 1)..Len(s), Owns(s[k], e)
               PROVE  FALSE
    BY DEF NoneOwns
  <2>1. Len(s) - k \in Nat /\ Len(s) - k < x /\ Len(s) - (Len(s) - k) = k /\ Len(s) - k <= Len(s) - j
    BY <1>5
  <2>2. Len(s) - k \in T
    BY <2>1
  <2> QED
    BY <1>4, <2>1, <2>2
<1> HIDE DEF t
<1> QED
  BY <1>6, <1>7

\* Every function is directly above its activation.
LEMMA EmuBase ==
  ASSUME NEW s, StackOK(s), NEW e, NEW i \in 1..Len(s), IsEmu(s[i], e)
  PROVE  i >= 2 /\ Link(s[i - 1], s[i]) /\ Counted(s[i - 1], e) /\ Owns(s[i - 1], e)
<1>1. Len(s) \in Nat
  BY SeqFacts DEF StackOK
<1>2. i >= 2 /\ Link(s[i - 1], s[i])
  BY <1>1 DEF StackOK, IsEmu
<1> QED
  BY <1>2 DEF Link, IsEmu, Counted, Owns

\* Below an activation that is not nested, an engine has no frame that counts
\* on its registers.
LEMMA Unnested ==
  ASSUME NEW s, StackOK(s), NEW e, NEW n \in 1..Len(s), ~Nested(s, n, e), NEW i \in 1..(n - 1)
  PROVE  ~Owns(s[i], e) /\ ~IsEmu(s[i], e) /\ ~Nested(s, i, e)
<1>1. Len(s) \in Nat
  BY SeqFacts DEF StackOK
<1>2. ~Counted(s[i], e) /\ ~Nested(s, i, e)
  BY <1>1 DEF Nested
<1>3. ~Owns(s[i], e)
  BY <1>2 DEF Owns, Counted
<1>4. ASSUME IsEmu(s[i], e) PROVE FALSE
  <2>1. i >= 2 /\ Counted(s[i - 1], e)
    BY <1>1, <1>4, EmuBase
  <2> QED
    BY <1>1, <2>1 DEF Nested
<1> QED
  BY <1>2, <1>3, <1>4

\* What SaveOrReset makes of the top activation f, registers R and R2.
Prepares(s, f, g, R, R2, e) ==
  /\ Owns(g, e) /\ g.st = "pre" /\ g.call = f.call /\ g.base = R2.sp
  /\ RegFile(R2)
  /\ IF Nested(s, Len(s), e) THEN R2.sp = R.sp - RedZone /\ g.saved = R
                             ELSE R2.sp = EmuStackTop /\ g.saved = NoRegisters

\* SaveOrReset keeps the engine in order: what was in the registers is in the frame.
LEMMA SaveKeeps ==
  ASSUME NEW s, NEW s2, NEW R, NEW R2, NEW m, NEW c, NEW e, NEW n, n = Len(s),
         EngineOK(s, R, m, c, e), StackOK(s), Numbered(s, c), Len(s2) = n, Agree(s, s2, n - 1),
         ActFrame(s[n]), s[n].st = "enter", s[n].cpu = e, Prepares(s, s[n], s2[n], R, R2, e)
  PROVE  EngineOK(s2, R2, m, c, e)
<1>1. Len(s) \in Nat /\ n \in 1..Len(s) /\ n \in Nat /\ n - 1 \in Nat
  BY SeqFacts DEF StackOK
<1>2. \A k \in 1..(n - 1) : s2[k] = s[k]
  BY DEF Agree
<1>3. SameFor(s, s2, e, n - 1)
  BY <1>2 DEF SameFor
<1>4. ~Owns(s[n], e) /\ Waits(s[n], e) /\ Owns(s2[n], e)
  BY DEF Owns, Waits, ActFrame, Prepares
<1>5. Nested(s2, n, e) <=> Nested(s, n, e)
  BY <1>1, <1>3, NestedSame
<1>6. Nested(s, n, e) => R.sp >= Floor(s[n].call - 1)
  <2>1. Sees(s, R, e, n, R)
    BY <1>1 DEF Sees, NoneOwns
  <2> QED
    BY <1>1, <1>4, <2>1 DEF EngineOK, ViewsOK
<1>7. /\ s[n].call \in Int /\ s[n].call >= 1 /\ s[n].call <= c /\ c \in Int /\ c >= 0 /\ EmuStackTop \in Int
      /\ RedZone = 16 /\ R.sp \in Int /\ R2.sp \in Int /\ R.sp <= EmuStackTop
  <2>1. c \in 0..MaxCalls /\ s[n].call <= c
    BY <1>1 DEF Numbered, Within
  <2>2. R.sp \in Int /\ R2.sp \in Int /\ R.sp <= EmuStackTop
    BY DEF EngineOK, Prepares, RegFile
  <2> QED
    BY <2>1, <2>2, CallsAssumption DEF ActFrame, RedZone, EmuStackTop
<1>8. R2.sp \in Floor(c)..EmuStackTop
  <2>1. Floor(c) \in Int /\ Floor(s[n].call) \in Int /\ Floor(c) <= Floor(s[n].call)
        /\ Floor(s[n].call - 1) = Floor(s[n].call) + Depth /\ Depth >= 35 /\ Depth \in Nat
    BY <1>7, FloorInt, FloorFalls
  <2>2. CASE Nested(s, n, e)
    <3>1. R2.sp = R.sp - RedZone
      BY <2>2 DEF Prepares
    <3> QED
      BY <1>6, <1>7, <2>1, <2>2, <3>1
  <2>3. CASE ~Nested(s, n, e)
    <3>1. R2.sp = EmuStackTop
      BY <2>3 DEF Prepares
    <3>2. Floor(c) <= Floor(0) /\ Floor(0) = EmuStackTop
      <4>1. Depth * 0 = 0
        BY <2>1
      <4> QED
        BY <1>7, <4>1, FloorFalls DEF Floor
    <3> QED
      BY <1>7, <2>1, <3>1, <3>2
  <2> QED
    BY <2>2, <2>3
<1>9. ASSUME NEW i \in 1..(n - 1), NEW r, Sees(s2, R2, e, i, r)
      PROVE  \/ ~Nested(s, n, e) /\ ~Owns(s[i], e) /\ ~IsEmu(s[i], e) /\ ~Nested(s, i, e)
             \/ Nested(s, n, e) /\ Sees(s, R, e, i, r)
  <2>1. CASE ~Nested(s, n, e)
    BY <1>1, <2>1, Unnested
  <2>2. CASE Nested(s, n, e)
    <3>1. ~NoneOwns(s2, e, i, Len(s2) + 1)
      BY <1>1, <1>4 DEF NoneOwns
    <3>2. PICK j \in (i + 1)..Len(s2) : Owns(s2[j], e) /\ NoneOwns(s2, e, i, j) /\ r = s2[j].saved
      BY <1>9, <3>1 DEF Sees
    <3>3. CASE j = n
      <4>1. r = R
        BY <2>2, <3>2, <3>3 DEF Prepares
      <4>2. NoneOwns(s, e, i, Len(s) + 1)
        <5> SUFFICES ASSUME NEW k \in (i + 1)..n
                     PROVE  ~Owns(s[k], e)
          BY DEF NoneOwns
        <5>1. CASE k = n
          BY <1>4, <5>1
        <5>2. CASE k # n
          <6>1. k \in (i + 1)..(j - 1) /\ k \in 1..(n - 1)
            BY <1>1, <3>3, <5>2
          <6>2. ~Owns(s2[k], e)
            BY <3>2, <6>1 DEF NoneOwns
          <6> QED
            BY <1>2, <6>1, <6>2
        <5> QED
          BY <5>1, <5>2
      <4> QED
        BY <2>2, <4>1, <4>2 DEF Sees
    <3>4. CASE j # n
      <4>1. j \in 1..(n - 1) /\ j \in (i + 1)..Len(s)
        BY <1>1, <3>2, <3>4
      <4>2. NoneOwns(s, e, i, j)
        <5> SUFFICES ASSUME NEW k \in (i + 1)..(j - 1)
                     PROVE  ~Owns(s[k], e)
          BY DEF NoneOwns
        <5>1. k \in 1..(n - 1)
          BY <1>1, <4>1
        <5>2. ~Owns(s2[k], e)
          BY <3>2 DEF NoneOwns
        <5> QED
          BY <1>2, <5>1, <5>2
      <4>3. s2[j] = s[j]
        BY <1>2, <4>1
      <4> QED
        BY <2>2, <3>2, <4>1, <4>2, <4>3 DEF Sees
    <3> QED
      BY <3>3, <3>4
  <2> QED
    BY <2>1, <2>2
<1>10. ViewsOK(s2, R2, m, e)
  <2> SUFFICES ASSUME NEW i \in 1..Len(s2), NEW r, Sees(s2, R2, e, i, r)
               PROVE  /\ Owns(s2[i], e) => ActOK(s2[i], r)
                      /\ IsEmu(s2[i], e) => EmuOK(s2[i], r, m)
                      /\ Waits(s2[i], e) /\ Nested(s2, i, e) => r.sp >= Floor(s2[i].call - 1)
    BY DEF ViewsOK
  <2>1. CASE i = n
    <3>1. r = R2
      BY <1>1, <2>1 DEF Sees
    <3>2. ActOK(s2[n], R2)
      BY <1>7 DEF Prepares, ActOK
    <3> QED
      BY <1>4, <2>1, <3>1, <3>2 DEF Owns, IsEmu, Waits
  <2>2. CASE i # n
    <3>1. i \in 1..(n - 1)
      BY <1>1, <2>2
    <3>2. s2[i] = s[i] /\ (Nested(s2, i, e) <=> Nested(s, i, e))
      BY <1>1, <1>2, <1>3, <3>1, NestedSame
    <3>3. CASE ~Nested(s, n, e)
      <4>1. ~Owns(s[i], e) /\ ~IsEmu(s[i], e) /\ ~Nested(s, i, e)
        BY <1>1, <3>1, <3>3, Unnested
      <4> QED
        BY <3>2, <4>1
    <3>4. CASE Nested(s, n, e)
      <4>1. Sees(s, R, e, i, r) /\ i \in 1..Len(s)
        BY <1>1, <1>9, <3>1, <3>4
      <4>2. /\ Owns(s[i], e) => ActOK(s[i], r)
            /\ IsEmu(s[i], e) => EmuOK(s[i], r, m)
            /\ Waits(s[i], e) /\ Nested(s, i, e) => r.sp >= Floor(s[i].call - 1)
        BY <4>1 DEF EngineOK, ViewsOK
      <4> QED
        BY <3>2, <4>2
    <3> QED
      BY <3>3, <3>4
  <2> QED
    BY <2>1, <2>2
<1>11. SavedOK(s2, e)
  <2> SUFFICES ASSUME NEW j \in 1..Len(s2), Owns(s2[j], e)
               PROVE  SavedFits(s2, j, e)
    BY DEF SavedOK
  <2>1. CASE j = n
    <3>1. CASE Nested(s, n, e)
      <4>1. RegFile(R) /\ R # NoRegisters
        <5>1. RegFile(R)
          BY DEF EngineOK
        <5>2. "sp" \in DOMAIN R /\ DOMAIN NoRegisters = {}
          BY <5>1 DEF RegFile, NoRegisters
        <5> QED
          BY <5>1, <5>2
      <4>2. s2[n].saved = R /\ s2[n].call = s[n].call /\ s2[n].base = R.sp - RedZone
        BY <3>1 DEF Prepares
      <4>3. R.sp \in Floor(s[n].call - 1)..EmuStackTop
        <5>1. Floor(s[n].call - 1) \in Int
          <6>1. s[n].call - 1 \in Int
            BY <1>7
          <6> QED
            BY <6>1, FloorInt
        <5>2. R.sp >= Floor(s[n].call - 1) /\ R.sp <= EmuStackTop /\ R.sp \in Int /\ EmuStackTop \in Int
          BY <1>6, <1>7, <3>1
        <5> QED
          BY <5>1, <5>2
      <4> QED
        BY <1>5, <2>1, <3>1, <4>1, <4>2, <4>3 DEF SavedFits
    <3>2. CASE ~Nested(s, n, e)
      BY <1>5, <2>1, <3>2 DEF SavedFits, Prepares
    <3> QED
      BY <3>1, <3>2
  <2>2. CASE j # n
    <3>1. j \in 1..(n - 1)
      BY <1>1, <2>2
    <3>2. Owns(s[j], e) => SavedFits(s, j, e)
      BY <1>1, <3>1 DEF EngineOK, SavedOK
    <3> QED
      BY <1>1, <1>3, <3>1, <3>2, SavedSame
  <2> QED
    BY <2>1, <2>2
<1>12. ApartOK(s2, R2, e)
  <2> SUFFICES ASSUME NEW i \in 1..Len(s2), NEW j \in 1..Len(s2), NEW r, i < j,
                      IsEmu(s2[i], e), Owns(s2[j], e), Sees(s2, R2, e, i, r)
               PROVE  r.sp - RedZone >= s2[j].base
    BY DEF ApartOK
  <2>1. i \in 1..(n - 1) /\ i \in 1..Len(s)
    BY <1>1
  <2>2. s2[i] = s[i]
    BY <1>2, <2>1
  <2>3. Nested(s, n, e) /\ Sees(s, R, e, i, r)
    BY <1>9, <2>1, <2>2
  <2>4. CASE j # n
    <3>1. j \in 1..(n - 1) /\ j \in 1..Len(s)
      BY <1>1, <2>4
    <3>2. s2[j] = s[j]
      BY <1>2, <3>1
    <3> QED
      BY <2>1, <2>2, <2>3, <3>1, <3>2 DEF EngineOK, ApartOK
  <2>5. CASE j = n
    <3>1. s2[j].base = R.sp - RedZone
      BY <2>3, <2>5 DEF Prepares
    <3>2. CASE NoneOwns(s, e, i, Len(s) + 1)
      <4>1. r = R
        BY <2>3, <3>2 DEF Sees, NoneOwns
      <4> QED
        BY <1>7, <3>1, <4>1
    <3>3. CASE ~NoneOwns(s, e, i, Len(s) + 1)
      <4>1. PICK k \in (i + 1)..Len(s) : Owns(s[k], e)
        BY <3>3 DEF NoneOwns
      <4>2. PICK t \in k..Len(s) : Owns(s[t], e) /\ NoneOwns(s, e, t, Len(s) + 1)
        <5>1. k \in 1..Len(s)
          BY <1>1, <2>1
        <5> QED
          BY <1>1, <4>1, <5>1, TopmostOwner
      <4>3. t \in 1..Len(s) /\ i < t
        BY <1>1, <2>1, <4>1
      <4>4. ActOK(s[t], R)
        BY <4>2, <4>3 DEF EngineOK, ViewsOK, Sees
      <4>5. r.sp - RedZone >= s[t].base
        BY <2>1, <2>2, <2>3, <4>2, <4>3 DEF EngineOK, ApartOK
      <4>6. r.sp - RedZone >= s[t].base /\ s[t].base >= R.sp /\ s[t].base \in Int
        <5>1. R.sp <= s[t].base
          BY <4>4 DEF ActOK
        <5>2. s[t].base \in Int
          BY <4>2, <4>3 DEF StackOK, FrameOK, NativeFrame, ActFrame, EmuFrame, Owns
        <5> QED
          BY <1>7, <4>5, <5>1, <5>2
      <4>7. r.sp \in Int
        <5>1. PICK q \in (i + 1)..Len(s) : Owns(s[q], e) /\ r = s[q].saved
          BY <2>3, <3>3 DEF Sees
        <5>2. q \in 1..Len(s)
          BY <1>1, <2>1
        <5>3. SavedFits(s, q, e)
          BY <5>1, <5>2 DEF EngineOK, SavedOK
        <5>4. Nested(s, q, e)
          <6>1. i >= 2 /\ Counted(s[i - 1], e)
            BY <2>1, <2>2, EmuBase
          <6>2. i - 1 \in 1..(q - 1)
            BY <1>1, <2>1, <5>2, <6>1
          <6> QED
            BY <6>1, <6>2 DEF Nested
        <5> QED
          BY <5>1, <5>3, <5>4 DEF SavedFits, RegFile
      <4> DEFINE b == s[t].base
                 v == r.sp
                 u == R.sp
      <4>8. v \in Int /\ b \in Int /\ u \in Int /\ v - 16 >= b /\ b >= u
        BY <1>7, <4>6, <4>7
      <4> HIDE DEF b, v, u
      <4>9. v - 16 >= u - 16
        BY <4>8
      <4> QED
        BY <1>7, <2>5, <3>1, <4>9 DEF u, v
    <3> QED
      BY <3>2, <3>3
  <2> QED
    BY <2>4, <2>5
<1>13. RegFile(R2) /\ DOMAIN m = 1..StackWords
  BY DEF EngineOK, Prepares
<1> QED
  BY <1>8, <1>10, <1>11, <1>12, <1>13 DEF EngineOK

\* So does putting them back when the activation ends.
LEMMA RestoreKeeps ==
  ASSUME NEW s, NEW s2, NEW R, NEW R2, NEW m, NEW c, NEW e, NEW n, n = Len(s), n >= 2,
         EngineOK(s, R, m, c, e), StackOK(s), Numbered(s, c), Len(s2) = n - 1, Agree(s, s2, n - 2),
         ~Of(s[n - 1], e), ~Of(s2[n - 1], e), Owns(s[n], e),
         R2 = IF s[n].saved = NoRegisters THEN R ELSE s[n].saved
  PROVE  EngineOK(s2, R2, m, c, e)
<1>1. Len(s) \in Nat /\ n \in 1..Len(s) /\ n \in Nat /\ n - 1 \in Nat /\ n - 1 \in 1..(n - 1)
  BY SeqFacts DEF StackOK
<1>2. SameFor(s, s2, e, n - 1)
  <2> SUFFICES ASSUME NEW k \in 1..(n - 1)
               PROVE  s2[k] = s[k] \/ (~Of(s[k], e) /\ ~Of(s2[k], e))
    BY DEF SameFor
  <2>1. CASE k = n - 1
    BY <2>1
  <2>2. CASE k # n - 1
    <3>1. k \in 1..(n - 2)
      BY <1>1, <2>2
    <3> QED
      BY <3>1 DEF Agree
  <2> QED
    BY <2>1, <2>2
<1>3. ASSUME NEW k \in 1..(n - 1)
      PROVE  /\ Owns(s2[k], e) <=> Owns(s[k], e)
             /\ Of(s2[k], e) => s2[k] = s[k]
             /\ Nested(s2, k, e) <=> Nested(s, k, e)
  <2>1. Nested(s2, k, e) <=> Nested(s, k, e)
    BY <1>1, <1>2, NestedSame
  <2> QED
    BY <1>2, <2>1 DEF SameFor, Of, Owns
<1>4. SavedFits(s, n, e)
  BY <1>1 DEF EngineOK, SavedOK
<1>5. Nested(s, n, e) => R2 = s[n].saved
  BY <1>4 DEF SavedFits
<1>6. ASSUME NEW i \in 1..(n - 1), NEW r, Sees(s2, R2, e, i, r), Nested(s, n, e)
      PROVE  Sees(s, R, e, i, r)
  <2>1. CASE NoneOwns(s2, e, i, Len(s2) + 1) /\ r = R2
    <3>1. NoneOwns(s, e, i, n)
      BY <1>1, <1>3, <2>1 DEF NoneOwns
    <3>2. n \in (i + 1)..Len(s)
      BY <1>1
    <3> QED
      BY <1>5, <1>6, <2>1, <3>1, <3>2 DEF Sees
  <2>2. ASSUME NEW j \in (i + 1)..Len(s2), Owns(s2[j], e), NoneOwns(s2, e, i, j), r = s2[j].saved
        PROVE  Sees(s, R, e, i, r)
    <3>1. j \in 1..(n - 1) /\ j \in (i + 1)..Len(s)
      BY <1>1
    <3>2. s2[j] = s[j] /\ Owns(s[j], e)
      BY <1>3, <2>2, <3>1 DEF Of, Owns
    <3>3. NoneOwns(s, e, i, j)
      <4> SUFFICES ASSUME NEW k \in (i + 1)..(j - 1)
                   PROVE  ~Owns(s[k], e)
        BY DEF NoneOwns
      <4>1. k \in 1..(n - 1)
        BY <1>1, <3>1
      <4>2. ~Owns(s2[k], e)
        BY <2>2 DEF NoneOwns
      <4> QED
        BY <1>3, <4>1, <4>2
    <3> QED
      BY <2>2, <3>1, <3>2, <3>3 DEF Sees
  <2> QED
    BY <1>6, <2>1, <2>2 DEF Sees
<1>7. ASSUME NEW i \in 1..(n - 1), ~Nested(s, n, e)
      PROVE  ~Owns(s2[i], e) /\ ~IsEmu(s2[i], e) /\ ~Nested(s2, i, e)
  <2>1. ~Owns(s[i], e) /\ ~IsEmu(s[i], e) /\ ~Nested(s, i, e)
    BY <1>1, <1>7, Unnested
  <2>2. CASE Of(s2[i], e)
    BY <1>3, <2>1, <2>2
  <2>3. CASE ~Of(s2[i], e)
    BY <1>3, <2>1, <2>3 DEF Of, IsEmu
  <2> QED
    BY <2>2, <2>3
<1>8. ViewsOK(s2, R2, m, e)
  <2> SUFFICES ASSUME NEW i \in 1..Len(s2), NEW r, Sees(s2, R2, e, i, r)
               PROVE  /\ Owns(s2[i], e) => ActOK(s2[i], r)
                      /\ IsEmu(s2[i], e) => EmuOK(s2[i], r, m)
                      /\ Waits(s2[i], e) /\ Nested(s2, i, e) => r.sp >= Floor(s2[i].call - 1)
    BY DEF ViewsOK
  <2>1. i \in 1..(n - 1) /\ i \in 1..Len(s)
    BY <1>1
  <2>2. CASE ~Nested(s, n, e)
    BY <1>7, <2>1, <2>2
  <2>3. CASE Nested(s, n, e)
    <3>1. Sees(s, R, e, i, r)
      BY <1>6, <2>1, <2>3
    <3>2. /\ Owns(s[i], e) => ActOK(s[i], r)
          /\ IsEmu(s[i], e) => EmuOK(s[i], r, m)
          /\ Waits(s[i], e) /\ Nested(s, i, e) => r.sp >= Floor(s[i].call - 1)
      BY <2>1, <3>1 DEF EngineOK, ViewsOK
    <3>3. CASE Of(s2[i], e)
      BY <1>3, <2>1, <3>2, <3>3
    <3>4. CASE ~Of(s2[i], e)
      BY <3>4 DEF Of, Owns, IsEmu, Waits
    <3> QED
      BY <3>3, <3>4
  <2> QED
    BY <2>2, <2>3
<1>9. SavedOK(s2, e)
  <2> SUFFICES ASSUME NEW j \in 1..Len(s2), Owns(s2[j], e)
               PROVE  SavedFits(s2, j, e)
    BY DEF SavedOK
  <2>1. j \in 1..(n - 1) /\ j \in 1..Len(s)
    BY <1>1
  <2>2. Owns(s[j], e) => SavedFits(s, j, e)
    BY <2>1 DEF EngineOK, SavedOK
  <2> QED
    BY <1>1, <1>2, <2>1, <2>2, SavedSame
<1>10. ApartOK(s2, R2, e)
  <2> SUFFICES ASSUME NEW i \in 1..Len(s2), NEW j \in 1..Len(s2), NEW r, i < j,
                      IsEmu(s2[i], e), Owns(s2[j], e), Sees(s2, R2, e, i, r)
               PROVE  r.sp - RedZone >= s2[j].base
    BY DEF ApartOK
  <2>1. i \in 1..(n - 1) /\ j \in 1..(n - 1) /\ i \in 1..Len(s) /\ j \in 1..Len(s)
    BY <1>1
  <2>2. s2[i] = s[i] /\ s2[j] = s[j]
    BY <1>3, <2>1 DEF Of, IsEmu, Owns
  <2>3. Nested(s, n, e)
    BY <1>7, <2>1
  <2>4. Sees(s, R, e, i, r)
    BY <1>6, <2>1, <2>3
  <2> QED
    BY <2>1, <2>2, <2>4 DEF EngineOK, ApartOK
<1>11. RegFile(R2) /\ R2.sp \in Floor(c)..EmuStackTop
  <2>1. CASE ~Nested(s, n, e)
    <3>1. R2 = R
      BY <1>4, <2>1 DEF SavedFits
    <3> QED
      BY <3>1 DEF EngineOK
  <2>2. CASE Nested(s, n, e)
    <3>1. RegFile(R2) /\ R2.sp \in Floor(s[n].call - 1)..EmuStackTop
      BY <1>4, <1>5, <2>2 DEF SavedFits
    <3>2. s[n].call \in Int /\ s[n].call <= c /\ c \in Int
      <4>1. FrameOK(s[n])
        BY <1>1 DEF StackOK
      <4>2. s[n].call \in Nat
        BY <4>1 DEF FrameOK, NativeFrame, ActFrame, EmuFrame
      <4>3. s[n].call <= c /\ c \in 0..MaxCalls
        BY <1>1 DEF Numbered, Within
      <4> QED
        BY <4>2, <4>3, CallsAssumption
    <3>3. s[n].call - 1 \in Int /\ s[n].call - 1 <= c
      BY <3>2
    <3>4. Floor(c) <= Floor(s[n].call - 1)
      BY <3>2, <3>3, FloorFalls
    <3>5. Floor(c) \in Int /\ Floor(s[n].call - 1) \in Int
      BY <3>2, <3>3, FloorInt
    <3> QED
      BY <3>1, <3>4, <3>5 DEF RegFile
  <2> QED
    BY <2>1, <2>2
<1> QED
  BY <1>8, <1>9, <1>10, <1>11 DEF EngineOK

-----------------------------------------------------------------------------
(* The words that are written.                                             *)

LEMMA PutWords ==
  ASSUME NEW m, DOMAIN m = 1..StackWords, NEW a \in Int, NEW s, Len(s) \in Nat
  PROVE  /\ DOMAIN Put(m, a, s) = 1..StackWords
         /\ \A w \in 1..StackWords :
              /\ w \in a..(a + Len(s) - 1) => Put(m, a, s)[w] = s[w - a + 1]
              /\ w \notin a..(a + Len(s) - 1) => Put(m, a, s)[w] = m[w]
  BY DEF Put

\* s is a sequence of n words, given as a function.
IsFun(s, n) == n \in Nat /\ DOMAIN s = 1..n /\ s = [k \in 1..n |-> s[k]]

\* A function on 1..n is a sequence of length n.
LEMMA FunSeq ==
  ASSUME NEW s, NEW n, IsFun(s, n)
  PROVE  IsSeq(s) /\ Len(s) = n
<1> DEFINE S == {s[k] : k \in 1..n}
<1>1. s \in [1..n -> S] /\ n \in Nat
  BY DEF IsFun
<1>2. s \in Seq(S)
  BY <1>1
<1>3. IsSeq(s)
  BY <1>2 DEF IsSeq
<1>4. Len(s) \in Nat /\ DOMAIN s = 1..Len(s) /\ DOMAIN s = 1..n
  BY <1>1, <1>2
<1> QED
  BY <1>1, <1>3, <1>4

\* How sequences are built: names the lemmas about them can be applied to.
IsConcat(u, s, t) == u = s \o t
IsTail(t, s, i, n) == t = SubSeq(s, i, n)
Joined(u, s, t) ==
  /\ IsSeq(u) /\ Len(u) = Len(s) + Len(t) /\ Len(s) \in Nat /\ Len(t) \in Nat
  /\ \A k \in 1..Len(s) : u[k] = s[k]
  /\ \A k \in 1..Len(t) : u[Len(s) + k] = t[k]
TailOf(t, s, i, n) ==
  /\ IsSeq(t) /\ Len(t) = n - i + 1
  /\ \A k \in i..n : t[k - i + 1] = s[k]

\* The entries of a concatenation, by position.
LEMMA ConcatStep ==
  ASSUME NEW s, IsSeq(s), NEW t, IsSeq(t), NEW u, IsConcat(u, s, t)
  PROVE  Joined(u, s, t)
<1>1. PICK S : s \in Seq(S)
  BY DEF IsSeq
<1>2. PICK T : t \in Seq(T)
  BY DEF IsSeq
<1> DEFINE U == S \cup T
<1>3. s \in Seq(U) /\ t \in Seq(U)
  BY <1>1, <1>2
<1>4. Len(s) \in Nat /\ Len(t) \in Nat
  BY <1>3
<1> HIDE DEF U
<1>5. /\ u \in Seq(U) /\ Len(u) = Len(s) + Len(t)
      /\ \A i \in 1..(Len(s) + Len(t)) : u[i] = IF i <= Len(s) THEN s[i] ELSE t[i - Len(s)]
  BY <1>3, ConcatProperties DEF IsConcat
<1> DEFINE a == Len(s)
           b == Len(t)
<1>6. a \in Nat /\ b \in Nat /\ \A i \in 1..(a + b) : u[i] = IF i <= a THEN s[i] ELSE t[i - a]
  BY <1>4, <1>5
<1> HIDE DEF a, b
<1>7. \A k \in 1..a : u[k] = s[k]
  BY <1>6
<1>8. ASSUME NEW k \in 1..b PROVE u[a + k] = t[k]
  <2>1. a + k \in 1..(a + b) /\ ~(a + k <= a) /\ a + k - a = k
    BY <1>6
  <2> QED
    BY <1>6, <2>1
<1> QED
  BY <1>4, <1>5, <1>7, <1>8 DEF IsSeq, Joined, a, b

\* The last words of a sequence.
LEMMA TailWords ==
  ASSUME NEW s, IsSeq(s), NEW n, n = Len(s), NEW i \in Nat, i >= 1, i <= n + 1,
         NEW t, IsTail(t, s, i, n)
  PROVE  TailOf(t, s, i, n)
<1>1. PICK S : s \in Seq(S)
  BY DEF IsSeq
<1>2. n \in Nat /\ \A k \in i..n : s[k] \in S
  BY <1>1
<1>4. /\ SubSeq(s, i, n) \in Seq(S) /\ Len(SubSeq(s, i, n)) = IF i <= n THEN n - i + 1 ELSE 0
      /\ \A k \in 1..(n - i + 1) : SubSeq(s, i, n)[k] = s[i + k - 1]
  BY <1>2, SubSeqProperties
<1>5. /\ t \in Seq(S) /\ Len(t) = IF i <= n THEN n - i + 1 ELSE 0
      /\ \A k \in 1..(n - i + 1) : t[k] = s[i + k - 1]
  BY <1>4 DEF IsTail
<1>6. Len(t) = n - i + 1
  BY <1>2, <1>5
<1>7. ASSUME NEW k \in i..n PROVE t[k - i + 1] = s[k]
  <2>1. k - i + 1 \in 1..(n - i + 1) /\ i + (k - i + 1) - 1 = k
    BY <1>2
  <2> QED
    BY <1>5, <2>1
<1>8. IsSeq(t)
  BY <1>5 DEF IsSeq
<1> QED
  BY <1>6, <1>7, <1>8 DEF TailOf

\* What EmuThunkPre puts on an x64 stack, word by word.
LEMMA X64BlockWords ==
  ASSUME NEW args, IsFun(args, 16)
  PROVE  /\ Len(X64Block(args)) = 17 /\ X64Block(args)[1] = Magic
         /\ \A k \in 5..16 : X64Block(args)[k + 1] = args[k]
<1> DEFINE o == <<Magic>>
           z == [k \in 1..4 |-> Zero]
           r == SubSeq(args, 5, 16)
           h == o \o z
           b == h \o r
<1>1. IsFun(z, 4) /\ IsFun(o, 1) /\ o[1] = Magic
  BY DEF IsFun
<1>2. IsSeq(args) /\ Len(args) = 16
  BY FunSeq
<1>3. X64Block(args) = b
  BY DEF X64Block, MAX_ARGS
<1>4. IsTail(r, args, 5, 16)
  BY DEF IsTail
<1> HIDE DEF o, z, r
<1>5. IsSeq(r) /\ Len(r) = 16 - 5 + 1 /\ \A k \in 5..16 : r[k - 5 + 1] = args[k]
  <2>1. 5 \in Nat /\ 5 >= 1 /\ 5 <= 16 + 1 /\ 16 = Len(args)
    BY <1>2
  <2>2. TailOf(r, args, 5, 16)
    BY ONLY <1>2, <1>4, <2>1, TailWords
  <2> QED
    BY <2>2 DEF TailOf
<1>6. IsSeq(z) /\ Len(z) = 4 /\ IsSeq(o) /\ Len(o) = 1
  BY <1>1, FunSeq
<1>7. IsConcat(h, o, z) /\ IsConcat(b, h, r)
  BY DEF IsConcat
<1> HIDE DEF h, b
<1>8. IsSeq(h) /\ Len(h) = Len(o) + Len(z) /\ \A k \in 1..Len(o) : h[k] = o[k]
  <2>1. Joined(h, o, z)
    BY <1>6, <1>7, ConcatStep
  <2> QED
    BY <2>1 DEF Joined
<1>9. /\ Len(b) = Len(h) + Len(r)
      /\ \A k \in 1..Len(h) : b[k] = h[k]
      /\ \A k \in 1..Len(r) : b[Len(h) + k] = r[k]
  <2>1. Joined(b, h, r)
    BY <1>5, <1>7, <1>8, ConcatStep
  <2> QED
    BY <2>1 DEF Joined
<1>10. Len(h) = 5 /\ Len(r) = 12 /\ h[1] = Magic
  BY <1>1, <1>5, <1>6, <1>8
<1>11. Len(b) = 17 /\ b[1] = Magic
  BY <1>9, <1>10
<1>12. ASSUME NEW k \in 5..16 PROVE b[k + 1] = args[k]
  <2>1. k - 4 \in 1..12 /\ 5 + (k - 4) = k + 1 /\ k - 5 + 1 = k - 4
    OBVIOUS
  <2>2. b[5 + (k - 4)] = r[k - 4] /\ r[k - 5 + 1] = args[k]
    BY <1>5, <1>9, <1>10, <2>1
  <2> QED
    BY <2>1, <2>2
<1> QED
  BY <1>3, <1>11, <1>12

\* What EmuThunkPre puts on an AArch64 stack, word by word.
LEMMA AArch64BlockWords ==
  ASSUME NEW args, IsFun(args, 16)
  PROVE  /\ Len(AArch64Block(args)) = 8
         /\ \A k \in 9..16 : AArch64Block(args)[k - 9 + 1] = args[k]
<1> DEFINE r == SubSeq(args, 9, 16)
<1>1. IsSeq(args) /\ Len(args) = 16
  BY FunSeq
<1>2. IsTail(r, args, 9, 16)
  BY DEF IsTail
<1>3. AArch64Block(args) = r
  BY DEF AArch64Block, MAX_ARGS
<1> HIDE DEF r
<1>4. Len(r) = 16 - 9 + 1 /\ \A k \in 9..16 : r[k - 9 + 1] = args[k]
  <2>1. 9 \in Nat /\ 9 >= 1 /\ 9 <= 16 + 1 /\ 16 = Len(args)
    BY <1>1
  <2>2. TailOf(r, args, 9, 16)
    BY ONLY <1>1, <1>2, <2>1, TailWords
  <2> QED
    BY <2>2 DEF TailOf
<1> QED
  BY <1>3, <1>4

\* The words EmuCall pushes for call c with n arguments.
CallBlock(e, c, n) ==
  LET rest == SubSeq([k \in 1..n |-> Arg(c, k)], ArgRegs(e) + 1, n) IN
  IF e = x64 THEN <<Site(c)>> \o [k \in 1..4 |-> Junk] \o rest ELSE rest

\* What emulated code puts on its stack for a call, word by word.
LEMMA CallBlockWords ==
  ASSUME NEW e \in Engines, NEW c, NEW n \in 0..16
  PROVE  /\ Len(CallBlock(e, c, n)) = OutWords(e, n)
         /\ e = x64 => CallBlock(e, c, n)[1] = Site(c)
         /\ e = x64 => \A k \in 5..n : CallBlock(e, c, n)[k + 1] = Arg(c, k)
         /\ e # x64 => \A k \in 9..n : CallBlock(e, c, n)[k - 9 + 1] = Arg(c, k)
<1> DEFINE args == [k \in 1..n |-> Arg(c, k)]
           a == ArgRegs(e)
           r == SubSeq(args, a + 1, n)
<1>0. IsTail(r, args, a + 1, n)
  BY DEF IsTail
<1>8. (e # x64 => CallBlock(e, c, n) = r)
      /\ (e = x64 => IsConcat(CallBlock(e, c, n), <<Site(c)>> \o [k \in 1..4 |-> Junk], r))
  BY DEF CallBlock, IsConcat
<1>1. n \in Nat /\ IsFun(args, n)
  BY DEF IsFun
<1>2. IsSeq(args) /\ Len(args) = n
  BY <1>1, FunSeq
<1>3. (e = x64 => a = 4) /\ (e # x64 => a = 8) /\ a \in Nat
  BY DEF ArgRegs
<1>4. \A k \in 1..n : args[k] = Arg(c, k)
  OBVIOUS
<1> HIDE DEF args, a, r
<1>5. /\ IsSeq(r) /\ Len(r) = (IF n > a THEN n - a ELSE 0)
      /\ \A k \in (a + 1)..n : r[k - a] = Arg(c, k)
  <2>1. CASE n >= a
    <3>1. a + 1 \in Nat /\ a + 1 >= 1 /\ a + 1 <= n + 1
      BY <1>1, <1>3, <2>1
    <3>2. IsSeq(r) /\ Len(r) = n - (a + 1) + 1 /\ \A k \in (a + 1)..n : r[k - (a + 1) + 1] = args[k]
      <4>1. TailOf(r, args, a + 1, n)
        BY <1>0, <1>1, <1>2, <3>1, TailWords
      <4> QED
        BY <4>1 DEF TailOf
    <3>3. ASSUME NEW k \in (a + 1)..n PROVE r[k - a] = Arg(c, k)
      <4>1. k - (a + 1) + 1 = k - a /\ k \in 1..n
        BY <1>1, <1>3
      <4> QED
        BY <1>4, <3>2, <4>1
    <3> QED
      BY <1>1, <1>3, <2>1, <3>2, <3>3
  <2>2. CASE n < a
    <3>1. r = << >>
      BY <1>0, <1>1, <1>3, <2>2, SubSeqEmpty DEF IsTail
    <3>2. IsSeq(r) /\ Len(r) = 0
      <4>1. << >> \in Seq({}) /\ Len(<< >>) = 0
        BY EmptySeq
      <4> QED
        BY <3>1, <4>1 DEF IsSeq
    <3> QED
      BY <1>1, <1>3, <2>2, <3>2
  <2> QED
    BY <1>1, <1>3, <2>1, <2>2
<1>6. CASE e = x64
  <2> DEFINE o == <<Site(c)>>
             z == [k \in 1..4 |-> Junk]
             h == o \o z
             b == h \o r
  <2>1. IsFun(z, 4) /\ IsFun(o, 1) /\ o[1] = Site(c)
    BY DEF IsFun
  <2>2. CallBlock(e, c, n) = b
    BY <1>6, <1>8 DEF IsConcat
  <2> HIDE DEF o, z
  <2>3. IsSeq(z) /\ Len(z) = 4 /\ IsSeq(o) /\ Len(o) = 1
    BY <2>1, FunSeq
  <2>4. IsConcat(h, o, z) /\ IsConcat(b, h, r)
    BY DEF IsConcat
  <2> HIDE DEF h, b
  <2>5. IsSeq(h) /\ Len(h) = Len(o) + Len(z) /\ \A k \in 1..Len(o) : h[k] = o[k]
    <3>1. Joined(h, o, z)
      BY <2>3, <2>4, ConcatStep
    <3> QED
      BY <3>1 DEF Joined
  <2>8. Joined(b, h, r)
    BY <1>5, <2>4, <2>5, ConcatStep
  <2>9. Len(h) = 5 /\ h[1] = Site(c)
    BY <2>1, <2>3, <2>5
  <2>10. Len(b) = 5 + Len(r) /\ b[1] = Site(c)
    BY <2>8, <2>9 DEF Joined
  <2>6. Len(b) = OutWords(e, n)
    BY <1>1, <1>3, <1>5, <1>6, <2>10 DEF OutWords, a
  <2>11. \A q \in 1..Len(r) : b[Len(h) + q] = r[q]
    BY <2>8 DEF Joined
  <2>7. ASSUME NEW k \in 5..n PROVE b[k + 1] = Arg(c, k)
    <3>1. k - 4 \in 1..Len(r) /\ 5 + (k - 4) = k + 1 /\ k \in (a + 1)..n /\ k - a = k - 4
      BY <1>1, <1>3, <1>5, <1>6
    <3>2. PICK q \in 1..Len(r) : q = k - 4
      BY <3>1
    <3>3. r[k - a] = Arg(c, k)
      BY <1>5, <3>1
    <3>4. b[Len(h) + q] = r[q]
      BY <2>11
    <3>5. Len(h) + q = k + 1 /\ r[q] = Arg(c, k)
      BY <2>9, <3>1, <3>2, <3>3
    <3> QED
      BY <3>4, <3>5
  <2> QED
    BY <1>6, <2>2, <2>10, <2>6, <2>7
<1>7. CASE e # x64
  <2>1. CallBlock(e, c, n) = r
    BY <1>7, <1>8
  <2>2. Len(r) = OutWords(e, n)
    BY <1>1, <1>3, <1>5, <1>7 DEF OutWords, a
  <2>3. ASSUME NEW k \in 9..n PROVE r[k - 9 + 1] = Arg(c, k)
    <3>1. k - 9 + 1 = k - a /\ k \in (a + 1)..n
      BY <1>1, <1>3, <1>7
    <3> QED
      BY <1>5, <3>1
  <2> QED
    BY <1>7, <2>1, <2>2, <2>3
<1> QED
  BY <1>6, <1>7

\* What a function keeps on its stack, word by word.
LEMMA LocalsWords ==
  ASSUME NEW c, NEW keep, NEW lr
  PROVE  /\ Len(Locals(c, keep, lr)) = LocalWords + 2
         /\ \A k \in 1..LocalWords : Locals(c, keep, lr)[k] = Kept(c, k)
         /\ Locals(c, keep, lr)[LocalWords + 1] = lr
         /\ Locals(c, keep, lr)[LocalWords + 2] = keep
<1> DEFINE z == [k \in 1..LocalWords |-> Kept(c, k)]
           t == <<lr, keep>>
           u == z \o t
<1>1. LocalWords \in Nat
  BY CallsAssumption
<1>2. IsFun(z, LocalWords) /\ \A k \in 1..LocalWords : z[k] = Kept(c, k)
  BY <1>1 DEF IsFun
<1>3. IsFun(t, 2) /\ t[1] = lr /\ t[2] = keep
  BY DEF IsFun
<1>4. Locals(c, keep, lr) = u /\ IsConcat(u, z, t)
  BY DEF Locals, IsConcat
<1> HIDE DEF z, t, u
<1>5. IsSeq(z) /\ Len(z) = LocalWords /\ IsSeq(t) /\ Len(t) = 2
  BY <1>2, <1>3, FunSeq
<1>6. /\ Len(u) = Len(z) + Len(t)
      /\ \A k \in 1..Len(z) : u[k] = z[k]
      /\ \A k \in 1..Len(t) : u[Len(z) + k] = t[k]
  <2>1. Joined(u, z, t)
    BY <1>4, <1>5, ConcatStep
  <2> QED
    BY <2>1 DEF Joined
<1> QED
  BY <1>1, <1>2, <1>3, <1>4, <1>5, <1>6

\* What a function keeps in its home zone or red zone, word by word.
LEMMA ZoneWords ==
  ASSUME NEW c
  PROVE  Len(Zone(c)) = 16 /\ \A k \in 1..16 : Zone(c)[k] = Kept(c, LocalWords + k)
<1>1. RedZone = 16
  BY DEF RedZone
<1>2. IsFun(Zone(c), 16)
  BY <1>1 DEF IsFun, Zone
<1> QED
  BY <1>1, <1>2, FunSeq DEF Zone

-----------------------------------------------------------------------------
(* The shape of the stack, whatever its room.                              *)

LEMMA WithinMore ==
  ASSUME NEW f, FrameOK(f), NEW c \in Int, NEW d \in Int, c <= d, Within(f, c)
  PROVE  Within(f, d)
<1>1. f.call \in Nat /\ (f.kind = "emu" /\ f.st \in {"calls", "back"} => f.callee \in Nat)
  BY DEF FrameOK, NativeFrame, ActFrame, EmuFrame
<1> QED
  BY <1>1 DEF Within

\* The new top frame f in the old one's place.
LEMMA ShapeWith ==
  ASSUME Shape, NEW f, FrameOK(f), Stands(Top, f), NEW c, c \in calls..MaxCalls, Within(f, c)
  PROVE  StackOK(With(f)) /\ Numbered(With(f), c)
<1> DEFINE n == Len(stack)
           t == With(f)
<1>1. StackOK(stack) /\ Numbered(stack, calls) /\ MaxCalls \in Nat
  BY CallsAssumption DEF Shape
<1>2. IsSeq(stack) /\ n \in Nat /\ n >= 1 /\ Top = stack[n]
  BY <1>1, TopFacts
<1>3. IsSeq(t) /\ Len(t) = n /\ t[n] = f /\ Agree(stack, t, n - 1)
  BY <1>2, WithStep
<1> HIDE DEF t
<1>4. StackOK(t)
  <2> DEFINE m == n
  <2>1. /\ m \in 1..Len(stack) /\ m <= Len(t) /\ Agree(stack, t, m - 1) /\ Stands(stack[m], t[m])
        /\ FrameOK(t[m]) /\ \A k \in (m + 1)..Len(t) : FrameOK(t[k]) /\ Link(t[k - 1], t[k])
    BY <1>2, <1>3
  <2> HIDE DEF m
  <2> QED
    BY <1>1, <1>3, <2>1, StackStep
<1>5. Numbered(t, c)
  <2> SUFFICES ASSUME NEW k \in 1..Len(t)
               PROVE  Within(t[k], c)
    BY <1>1 DEF Numbered
  <2>1. CASE k = n
    BY <1>3, <2>1
  <2>2. CASE k # n
    <3>1. t[k] = stack[k] /\ k \in 1..n
      BY <1>2, <1>3, <2>2 DEF Agree
    <3>2. Within(stack[k], calls) /\ calls \in Int /\ calls <= c /\ FrameOK(stack[k])
      BY <1>1, <3>1 DEF Numbered, StackOK
    <3> QED
      BY <1>1, <3>1, <3>2, WithinMore
  <2> QED
    BY <2>1, <2>2
<1> QED
  BY <1>4, <1>5 DEF t

\* A frame f that replaces the two at the top.
LEMMA ShapePopped ==
  ASSUME Shape, Len(stack) >= 2, NEW f, FrameOK(f), Stands(Under, f), Within(f, calls)
  PROVE  StackOK(Popped(f)) /\ Numbered(Popped(f), calls)
<1> DEFINE n == Len(stack)
           t == Popped(f)
<1>1. StackOK(stack) /\ Numbered(stack, calls) /\ MaxCalls \in Nat
  BY CallsAssumption DEF Shape
<1>2. IsSeq(stack) /\ n \in Nat /\ Under = stack[n - 1]
  BY <1>1, TopFacts
<1>3. IsSeq(t) /\ Len(t) = n - 1 /\ t[n - 1] = f /\ Agree(stack, t, n - 2)
  BY <1>2, PoppedStep
<1> HIDE DEF t
<1>4. StackOK(t)
  <2> DEFINE m == n - 1
  <2>1. /\ m \in 1..Len(stack) /\ m <= Len(t) /\ Agree(stack, t, m - 1) /\ Stands(stack[m], t[m])
        /\ FrameOK(t[m]) /\ \A k \in (m + 1)..Len(t) : FrameOK(t[k]) /\ Link(t[k - 1], t[k])
    <3>1. m - 1 = n - 2 /\ m \in 1..Len(stack) /\ Len(t) = m
      BY <1>2, <1>3
    <3>2. Agree(stack, t, m - 1)
      BY <1>3, <3>1
    <3>3. \A k \in (m + 1)..Len(t) : FALSE
      BY <3>1
    <3> QED
      BY <1>2, <1>3, <3>1, <3>2, <3>3
  <2> HIDE DEF m
  <2> QED
    BY <1>1, <1>3, <2>1, StackStep
<1>5. Numbered(t, calls)
  <2> SUFFICES ASSUME NEW k \in 1..Len(t)
               PROVE  Within(t[k], calls)
    BY <1>1 DEF Numbered
  <2>1. CASE k = n - 1
    BY <1>3, <2>1
  <2>2. CASE k # n - 1
    <3>1. t[k] = stack[k] /\ k \in 1..n
      BY <1>2, <1>3, <2>2 DEF Agree
    <3> QED
      BY <1>1, <3>1 DEF Numbered
  <2> QED
    BY <2>1, <2>2
<1> QED
  BY <1>4, <1>5 DEF t

\* A frame g above the new top frame f.
LEMMA ShapeAbove ==
  ASSUME NEW s, NEW d, StackOK(s), Numbered(s, d), NEW g, FrameOK(g), Link(s[Len(s)], g),
         NEW c, c \in d..MaxCalls, Within(g, c)
  PROVE  StackOK(Append(s, g)) /\ Numbered(Append(s, g), c)
<1> DEFINE n == Len(s)
           t == Append(s, g)
<1>1. IsSeq(s) /\ n \in Nat /\ n >= 1 /\ MaxCalls \in Nat /\ d \in Nat
  BY SeqFacts, CallsAssumption DEF StackOK, Numbered
<1>2. IsSeq(t) /\ Len(t) = n + 1 /\ t[n + 1] = g /\ Agree(s, t, n)
  BY <1>1, AppendStep
<1> HIDE DEF t
<1>3. \A k \in 1..n : t[k] = s[k]
  BY <1>2 DEF Agree
<1>4. StackOK(t)
  <2>1. \A k \in 1..Len(t) : FrameOK(t[k])
    BY <1>1, <1>2, <1>3 DEF StackOK
  <2>2. ASSUME NEW k \in 2..Len(t)
        PROVE  Link(t[k - 1], t[k])
    <3>1. k - 1 \in 1..n /\ t[k - 1] = s[k - 1]
      BY <1>1, <1>2, <1>3
    <3>2. CASE k = n + 1
      <4>1. t[k] = g /\ k - 1 = n
        BY <1>1, <1>2, <3>2
      <4> QED
        BY <3>1, <4>1
    <3>3. CASE k # n + 1
      BY <1>1, <1>2, <1>3, <3>1, <3>3 DEF StackOK
    <3> QED
      BY <3>2, <3>3
  <2> QED
    BY <1>1, <1>2, <1>3, <2>1, <2>2 DEF StackOK
<1>5. Numbered(t, c)
  <2> SUFFICES ASSUME NEW k \in 1..Len(t)
               PROVE  Within(t[k], c)
    BY <1>1 DEF Numbered
  <2>1. CASE k = n + 1
    BY <1>2, <2>1
  <2>2. CASE k # n + 1
    <3>1. t[k] = s[k] /\ k \in 1..n
      BY <1>1, <1>2, <1>3, <2>2
    <3>2. Within(s[k], d) /\ d \in Int /\ d <= c /\ FrameOK(s[k])
      BY <1>1, <3>1 DEF Numbered, StackOK
    <3> QED
      BY <1>1, <3>1, <3>2, WithinMore
  <2> QED
    BY <2>1, <2>2
<1> QED
  BY <1>4, <1>5 DEF t

\* What is at the top of the stack.
LEMMA TopKinds ==
  ASSUME Shape
  PROVE  /\ Top.kind = "native" => NativeFrame(Top)
         /\ Top.kind = "act" => ActFrame(Top)
         /\ Top.kind = "emu" => /\ EmuFrame(Top) /\ ActFrame(Under) /\ Under.st = "run"
                                /\ Under.cpu = Top.cpu /\ Under.call = Top.call /\ Under.n = Top.n
         /\ Top.kind \in {"native", "act", "emu", "event"}
         /\ Within(Top, calls) /\ Top.call <= calls /\ calls \in 0..MaxCalls /\ MaxCalls \in Nat
         /\ Len(stack) \in Nat /\ Len(stack) >= 1
         /\ Top.kind # "native" => Len(stack) >= 2
         /\ Len(stack) >= 2 => /\ FrameOK(Under) /\ Link(Under, Top) /\ Within(Under, calls)
         /\ IsSeq(stack) /\ Top = stack[Len(stack)]
<1>1. StackOK(stack) /\ Numbered(stack, calls) /\ MaxCalls \in Nat
  BY CallsAssumption DEF Shape
<1>2. /\ IsSeq(stack) /\ Len(stack) \in Nat /\ Len(stack) >= 1
      /\ Top = stack[Len(stack)] /\ FrameOK(Top)
      /\ Len(stack) >= 2 => /\ Under = stack[Len(stack) - 1] /\ FrameOK(Under)
                            /\ Link(Under, Top)
      /\ Top.kind # "native" => Len(stack) >= 2
  BY <1>1, TopFacts
<1>3. Within(Top, calls) /\ Top.call <= calls /\ calls \in 0..MaxCalls
  BY <1>1, <1>2 DEF Numbered, Within
<1>4. Len(stack) >= 2 => Within(Under, calls)
  <2>1. Len(stack) >= 2 => Len(stack) - 1 \in 1..Len(stack)
    BY <1>2
  <2> QED
    BY <1>1, <1>2, <2>1 DEF Numbered
<1>5. /\ Top.kind = "native" => NativeFrame(Top)
      /\ Top.kind = "act" => ActFrame(Top)
      /\ Top.kind = "emu" => EmuFrame(Top)
      /\ Top.kind \in {"native", "act", "emu", "event"}
  BY <1>2 DEF FrameOK, NativeFrame, ActFrame, EmuFrame
<1>6. Top.kind = "emu" => /\ ActFrame(Under) /\ Under.st = "run"
                          /\ Under.cpu = Top.cpu /\ Under.call = Top.call /\ Under.n = Top.n
  BY <1>2 DEF Link, FrameOK, NativeFrame, ActFrame, EmuFrame
<1> QED
  BY <1>1, <1>2, <1>3, <1>4, <1>5, <1>6

\* Without its top frame.
LEMMA ShapeFront ==
  ASSUME Shape, Len(stack) >= 2
  PROVE  StackOK(Front(stack)) /\ Numbered(Front(stack), calls)
<1> DEFINE n == Len(stack) - 1
           t == Front(stack)
<1>1. StackOK(stack) /\ Numbered(stack, calls) /\ IsSeq(stack) /\ n \in Nat /\ n >= 1
  BY TopKinds DEF Shape
<1>2. IsSeq(t) /\ Len(t) = n /\ \A k \in 1..n : t[k] = stack[k]
  BY <1>1, FrontStep DEF Agree
<1>3. 1..n \subseteq 1..Len(stack)
  BY <1>1
<1> HIDE DEF t
<1>4. StackOK(t)
  <2>1. \A k \in 2..n : k - 1 \in 1..n /\ k \in 1..n /\ k \in 2..Len(stack)
    BY <1>1
  <2> HIDE DEF n
  <2> QED
    BY <1>1, <1>2, <1>3, <2>1 DEF StackOK
<1>5. Numbered(t, calls)
  BY <1>1, <1>2, <1>3 DEF Numbered
<1> QED
  BY <1>4, <1>5 DEF t

\* A native function or an event is a frame in order.
LEMMA NativeIs ==
  ASSUME NEW kind \in {"native", "event"}, NEW c \in Nat, NEW n \in Nat, NEW args
  PROVE  NativeFrame(Native(kind, c, n, args)) /\ FrameOK(Native(kind, c, n, args))
  BY DEF NativeFrame, Native, FrameOK

\* A call of emulated code, by exception or directly, is a frame in order.
LEMMA ActivationIs ==
  ASSUME NEW c \in Nat, c >= 1, NEW e \in Engines, NEW n \in 0..MAX_ARGS, NEW f \in Functions,
         NEW st \in {"trap", "enter"}
  PROVE  /\ ActFrame(Activation(c, e, n, f, st)) /\ Activation(c, e, n, f, st).call = c
         /\ Activation(c, e, n, f, st).st = st /\ Activation(c, e, n, f, st).kind = "act"
         /\ Activation(c, e, n, f, st).cpu = e
<1>1. 0 \in Int
  OBVIOUS
<1> QED
  BY <1>1 DEF ActFrame, Activation

\* CallEmulated and TestWrappedCb: a new activation on the stack.
LEMMA ShapeCall ==
  ASSUME Shape, Top.kind = "native", calls < MaxCalls, NEW e \in Engines, NEW n \in 0..MAX_ARGS,
         NEW f \in Functions, NEW st \in {"trap", "enter"}
  PROVE  LET t == Append(With([Top EXCEPT !.got = <<>>]), Activation(calls + 1, e, n, f, st)) IN
         StackOK(t) /\ Numbered(t, calls + 1)
<1> DEFINE g == [Top EXCEPT !.got = <<>>]
           a == Activation(calls + 1, e, n, f, st)
           s == With(g)
<1>1. NativeFrame(Top) /\ Top.call <= calls /\ calls \in Nat /\ MaxCalls \in Nat
      /\ IsSeq(stack) /\ Len(stack) \in Nat /\ Len(stack) >= 1
  BY TopKinds
<1>2. NativeFrame(g) /\ g.kind = "native" /\ g.call = Top.call /\ g.n = Top.n
  BY <1>1 DEF NativeFrame
<1>3. FrameOK(g) /\ Stands(Top, g) /\ calls \in calls..MaxCalls
  BY <1>1, <1>2 DEF FrameOK, Stands
<1>4. calls + 1 \in Nat /\ calls + 1 >= 1
  BY <1>1
<1>5. /\ ActFrame(a) /\ a.call = calls + 1 /\ a.kind = "act"
  BY <1>4, ActivationIs
<1> HIDE DEF g, a
<1>6. StackOK(s) /\ Numbered(s, calls)
  <2>1. Within(g, calls)
    BY <1>1, <1>2 DEF Within
  <2> QED
    BY <1>1, <1>2, <1>3, <2>1, ShapeWith
<1>7. s[Len(s)] = g
  BY <1>1, WithStep
<1> HIDE DEF s
<1>8. FrameOK(a) /\ Link(s[Len(s)], a) /\ calls + 1 \in calls..MaxCalls /\ Within(a, calls + 1)
  BY <1>1, <1>2, <1>5, <1>7 DEF FrameOK, Link, Within
<1> DEFINE c == calls + 1
<1>10. c \in calls..MaxCalls /\ Within(a, c)
  BY <1>8
<1> HIDE DEF c
<1>9. StackOK(Append(s, a)) /\ Numbered(Append(s, a), c)
  BY <1>6, <1>8, <1>10, ShapeAbove
<1> QED
  BY <1>9 DEF s, a, g, c

\* An event and the activation it starts fit on any stack.
LEMMA ShapeEvent ==
  ASSUME Shape, calls < MaxCalls, NEW e \in Engines, NEW f \in Functions
  PROVE  LET t == stack \o <<Native("event", 0, 0, <<>>), Activation(calls + 1, e, 2, f, "enter")>> IN
         StackOK(t) /\ Numbered(t, calls + 1)
<1> DEFINE g == Native("event", 0, 0, <<>>)
           a == Activation(calls + 1, e, 2, f, "enter")
           s == Append(stack, g)
           c == calls + 1
<1>1. calls \in Nat /\ MaxCalls \in Nat /\ IsSeq(stack) /\ StackOK(stack) /\ Numbered(stack, calls)
  BY TopKinds DEF Shape
<1>2. FrameOK(g) /\ g.kind = "event" /\ g.call = 0
  BY NativeIs DEF Native
<1>3. c \in Nat /\ c >= 1 /\ 2 \in 0..MAX_ARGS
  BY <1>1 DEF MAX_ARGS
<1>4. /\ ActFrame(a) /\ a.call = c /\ a.kind = "act"
  BY <1>3, ActivationIs
<1>5. stack \o <<g, a>> = Append(s, a)
  <2> HIDE DEF g, a
  <2>1. PICK S : stack \in Seq(S)
    BY <1>1 DEF IsSeq
  <2>2. stack \in Seq(S \cup {g, a})
    BY <2>1
  <2> QED
    BY <2>2
<1> HIDE DEF g, a
<1>6. StackOK(s) /\ Numbered(s, calls)
  <2>1. Link(stack[Len(stack)], g) /\ calls \in calls..MaxCalls /\ Within(g, calls)
    BY <1>1, <1>2 DEF Link, Within
  <2> QED
    BY <1>1, <1>2, <2>1, ShapeAbove
<1>7. s[Len(s)] = g
  BY <1>1, AppendStep
<1> HIDE DEF s
<1>8. FrameOK(a) /\ Link(s[Len(s)], a) /\ c \in calls..MaxCalls /\ Within(a, c)
  BY <1>1, <1>2, <1>3, <1>4, <1>7 DEF FrameOK, Link, Within
<1> HIDE DEF c
<1>9. StackOK(Append(s, a)) /\ Numbered(Append(s, a), c)
  BY <1>6, <1>8, ShapeAbove
<1> QED
  BY <1>5, <1>9 DEF a, g, c

\* Only engine e's registers change, to r.
Moves(R, R2, e, r) == Files(R2) /\ R2[e] = r /\ \A x \in Engines : x # e => R2[x] = R[x]

\* Only the registers of one engine change.
LEMMA MovesTo ==
  ASSUME Files(regs), NEW e \in Engines, NEW r, RegFile(r), regs' = [regs EXCEPT ![e] = r]
  PROVE  Moves(regs, regs', e, r)
  BY DEF Files, Moves

\* The registers the actions leave: one definition for each that changes any.
PreRegs(e, r, f, sp) ==
  [r EXCEPT !.sp = sp, !.pc = <<"in", f.call>>, !.a = SubSeq(f.args, 1, ArgRegs(e)),
            !.lr = IF e = x64 THEN r.lr ELSE Magic]
EnterRegs(e, r, f) == [Forget(r, e) EXCEPT !.sp = r.sp - LocalWords - 2, !.keep = Kept(f.call, 0)]
CallRegs(e, r, c, n, target) ==
  [r EXCEPT !.sp = r.sp - OutWords(e, n), !.pc = <<target, c>>,
            !.lr = IF e = x64 THEN r.lr ELSE Site(c),
            !.a = [k \in 1..ArgRegs(e) |-> IF k <= n THEN Arg(c, k) ELSE Junk]]
ResumeRegs(e, r, f) ==
  [Forget(r, e) EXCEPT !.sp = r.sp + f.out - (IF e = x64 THEN 1 ELSE 0), !.pc = <<"in", f.call>>]
LeaveRegs(e, r, f, m) ==
  [r EXCEPT !.sp = (IF e = x64 THEN 1 ELSE 0) + r.sp + LocalWords + 2,
            !.keep = m[r.sp + LocalWords + 1], !.ret = Result(f.call), !.lr = m[r.sp + LocalWords],
            !.pc = IF e = x64 THEN m[r.sp + LocalWords + 2] ELSE m[r.sp + LocalWords]]
BackRegs(e, r, m, value) ==
  [r EXCEPT !.ret = value, !.pc = IF e = x64 THEN m[r.sp] ELSE r.lr,
            !.sp = r.sp + (IF e = x64 THEN 1 ELSE 0)]

\* What each step makes of a register file is a register file.
LEMMA RegFiles ==
  ASSUME NEW e \in Engines, NEW r, RegFile(r), NEW f, NEW m, NEW sp \in Int, NEW c, NEW n \in 0..MAX_ARGS,
         NEW target, NEW value
  PROVE  /\ RegFile([r EXCEPT !.sp = sp])
         /\ RegFile(PreRegs(e, r, f, sp))
         /\ RegFile(EnterRegs(e, r, f))
         /\ RegFile(CallRegs(e, r, c, n, target))
         /\ f.out \in Int => RegFile(ResumeRegs(e, r, f))
         /\ RegFile(LeaveRegs(e, r, f, m))
         /\ RegFile(BackRegs(e, r, m, value))
         /\ RegFile(InitialState(e))
<1>1. LocalWords \in Nat /\ StackWords \in Nat /\ n \in Nat
  BY CallsAssumption DEF MAX_ARGS
<1>2. OutWords(e, n) \in Int
  BY <1>1 DEF OutWords, ArgRegs
<1>3. RegFile(Forget(r, e)) /\ Forget(r, e).sp = r.sp
  BY DEF RegFile, Forget
<1>4. RegFile([r EXCEPT !.sp = sp]) /\ RegFile(PreRegs(e, r, f, sp))
  BY DEF RegFile, PreRegs
<1>5. RegFile(EnterRegs(e, r, f))
  BY <1>1, <1>3 DEF RegFile, EnterRegs
<1>6. RegFile(CallRegs(e, r, c, n, target))
  BY <1>2 DEF RegFile, CallRegs
<1>7. f.out \in Int => RegFile(ResumeRegs(e, r, f))
  BY <1>3 DEF RegFile, ResumeRegs
<1>8. RegFile(LeaveRegs(e, r, f, m))
  BY <1>1 DEF RegFile, LeaveRegs
<1>9. RegFile(BackRegs(e, r, m, value))
  BY DEF RegFile, BackRegs
<1>10. RegFile(InitialState(e))
  BY <1>1 DEF RegFile, InitialState, EmuStackTop
<1> QED
  BY <1>4, <1>5, <1>6, <1>7, <1>8, <1>9, <1>10

\* The first words of a sequence.
LEMMA HeadWords ==
  ASSUME NEW a, NEW l \in Nat, IsFun(a, l), NEW n \in Nat, n <= l
  PROVE  SubSeq(a, 1, n) = [k \in 1..n |-> a[k]]
<1>1. IsSeq(a) /\ Len(a) = l
  BY FunSeq
<1>2. PICK S : a \in Seq(S)
  BY <1>1 DEF IsSeq
<1>3. ASSUME NEW k \in 1..n PROVE a[k] \in S
  <2>1. k \in 1..Len(a)
    BY <1>1
  <2> QED
    BY <1>2, <2>1
<1>4. /\ SubSeq(a, 1, n) \in Seq(S) /\ Len(SubSeq(a, 1, n)) = IF 1 <= n THEN n - 1 + 1 ELSE 0
      /\ \A k \in 1..(n - 1 + 1) : SubSeq(a, 1, n)[k] = a[1 + k - 1]
  BY <1>3, SubSeqProperties
<1>5. PICK t : t = SubSeq(a, 1, n)
  OBVIOUS
<1>6. /\ t \in Seq(S) /\ Len(t) = IF 1 <= n THEN n - 1 + 1 ELSE 0
      /\ \A k \in 1..(n - 1 + 1) : t[k] = a[1 + k - 1]
  BY <1>4, <1>5
<1>7. Len(t) = n /\ \A k \in 1..n : t[k] = a[k]
  BY <1>6
<1>8. t = [k \in 1..n |-> t[k]]
  BY <1>6, <1>7
<1>9. t = [k \in 1..n |-> a[k]]
  BY <1>7, <1>8
<1> QED
  BY <1>5, <1>9

\* The pre-thunk's block.
PreBlock(f) == IF f.cpu = x64 THEN X64Block(f.args) ELSE AArch64Block(f.args)

\* The block of an activation holds the arguments its frame was given.
LEMMA PreBlockWords ==
  ASSUME NEW f, ActFrame(f)
  PROVE  /\ Len(PreBlock(f)) = BlockLen(f.cpu) /\ BlockLen(f.cpu) \in {8, 17}
         /\ f.cpu = x64 => /\ PreBlock(f)[1] = Magic
                           /\ \A k \in 5..16 : PreBlock(f)[k + 1] = f.args[k]
         /\ f.cpu # x64 => \A k \in 9..16 : PreBlock(f)[k - 9 + 1] = f.args[k]
         /\ SubSeq(f.args, 1, ArgRegs(f.cpu)) = [k \in 1..ArgRegs(f.cpu) |-> f.args[k]]
         /\ \A k \in 1..f.n : f.args[k] = Arg(f.call, k)
<1>1. IsFun(f.args, 16) /\ \A k \in 1..f.n : f.args[k] = Arg(f.call, k)
  BY DEF ActFrame, IsFun, MAX_ARGS
<1>2. SubSeq(f.args, 1, ArgRegs(f.cpu)) = [k \in 1..ArgRegs(f.cpu) |-> f.args[k]]
  <2>1. ArgRegs(f.cpu) \in Nat /\ ArgRegs(f.cpu) <= 16 /\ 16 \in Nat
    BY DEF ArgRegs
  <2> QED
    BY <1>1, <2>1, HeadWords
<1>3. /\ Len(X64Block(f.args)) = 17 /\ X64Block(f.args)[1] = Magic
      /\ \A k \in 5..16 : X64Block(f.args)[k + 1] = f.args[k]
  BY <1>1, X64BlockWords
<1>4. /\ Len(AArch64Block(f.args)) = 8
      /\ \A k \in 9..16 : AArch64Block(f.args)[k - 9 + 1] = f.args[k]
  BY <1>1, AArch64BlockWords
<1>5. CASE f.cpu = x64
  <2>1. PreBlock(f) = X64Block(f.args) /\ BlockLen(f.cpu) = 17
    BY <1>5 DEF PreBlock, BlockLen
  <2> QED
    BY <1>1, <1>2, <1>3, <1>5, <2>1
<1>6. CASE f.cpu # x64
  <2>1. PreBlock(f) = AArch64Block(f.args) /\ BlockLen(f.cpu) = 8
    BY <1>6 DEF PreBlock, BlockLen
  <2> QED
    BY <1>1, <1>2, <1>4, <1>6, <2>1
<1> QED
  BY <1>5, <1>6

-----------------------------------------------------------------------------
(* What the steps of an activation do.                                     *)

LEMMA FunctionsFound ==
  ASSUME NEW a \in Functions
  PROVE  a # NotFound
  BY CallsAssumption, HostTrapAssumption DEF NotFound

\* A trap leaves a frame that is dead or enters (Emulator.c, the exception handler).
LEMMA TrapStep ==
  ASSUME Shape, Trap
  PROVE  \E g : /\ stack' = With(g) /\ ActFrame(g) /\ g.st \in {"dead", "enter"}
                /\ g.call = Top.call /\ g.cpu = Top.cpu /\ g.n = Top.n
<1>1. ActFrame(Top) /\ Top.st = "trap" /\ Top.function \in Functions
  BY TopKinds DEF Trap, Is, ActFrame
<1>2. PICK host \in Hosts, site \in Sites, cleared \in {2, 4} :
        /\ site.insn = "c.jalr" => cleared = 2
        /\ LET pc == EmulatorSyncExceptionCallback(host, TrapOf(host, Top.function, site, cleared))
           IN stack' = With(IF pc = NotFound
                            THEN [Top EXCEPT !.st = "dead", !.host = host, !.site = site]
                            ELSE [Top EXCEPT !.st = "enter", !.pc = pc])
  BY DEF Trap
<1> DEFINE t == TrapOf(host, Top.function, site, cleared)
           pc == EmulatorSyncExceptionCallback(host, t)
           g == IF pc = NotFound
                THEN [Top EXCEPT !.st = "dead", !.host = host, !.site = site]
                ELSE [Top EXCEPT !.st = "enter", !.pc = pc]
<1>3. stack' = With(g)
  BY <1>2
<1>4. \/ pc = Top.function
      \/ pc = NotFound /\ host = "RISCV64" /\ GivenUp(site)
  <2> DEFINE a == Top.function
             u == TrapOf(host, a, site, cleared)
  <2>1. a \in Functions /\ u = TrapOf(host, a, site, cleared) /\ (site.insn = "c.jalr" => cleared = 2)
    BY <1>1, <1>2
  <2> HIDE DEF a, u
  <2>2. \/ EmulatorSyncExceptionCallback(host, u) = a
        \/ /\ EmulatorSyncExceptionCallback(host, u) = NotFound
           /\ host = "RISCV64" /\ GivenUp(site)
    BY <2>1, TrapFinds
  <2> QED
    BY <2>2 DEF a, u
<1> HIDE DEF pc
<1>5. Top.function # NotFound
  BY <1>1, FunctionsFound
<1>6. CASE pc = NotFound
  <2>1. g = [Top EXCEPT !.st = "dead", !.host = host, !.site = site]
    BY <1>6
  <2>2. host = "RISCV64" /\ GivenUp(site)
    BY <1>4, <1>5, <1>6
  <2> HIDE DEF g
  <2>3. /\ ActFrame(g) /\ g.st = "dead" /\ g.call = Top.call /\ g.cpu = Top.cpu /\ g.n = Top.n
    BY <1>1, <2>1, <2>2 DEF ActFrame
  <2> QED
    BY <1>3, <2>3
<1>7. CASE pc # NotFound
  <2>1. g = [Top EXCEPT !.st = "enter", !.pc = pc]
    BY <1>7
  <2>2. pc = Top.function
    BY <1>4, <1>7
  <2> HIDE DEF g
  <2>3. /\ ActFrame(g) /\ g.st = "enter" /\ g.call = Top.call /\ g.cpu = Top.cpu /\ g.n = Top.n
    BY <1>1, <2>1, <2>2 DEF ActFrame
  <2> QED
    BY <1>3, <2>3
<1> QED
  BY <1>6, <1>7

\* A saved register file is one.
LEMMA SaveOrResetStep ==
  ASSUME Shape, SaveOrReset, NEW e, e = Top.cpu
  PROVE  \E g, r : /\ stack' = With(g) /\ ActFrame(g) /\ g.st = "pre" /\ g.call = Top.call
                   /\ g.cpu = e /\ g.n = Top.n /\ g.base = r.sp
                   /\ ActFrame(Top) /\ Top.st = "enter" /\ e \in Engines
                   /\ RegFile(r) /\ regs' = [regs EXCEPT ![e] = r]
                   /\ IF Contexts(e) > 1 THEN r.sp = regs[e].sp - RedZone /\ g.saved = regs[e]
                                         ELSE r.sp = EmuStackTop /\ g.saved = NoRegisters
<1>1. ActFrame(Top) /\ Top.st = "enter" /\ e \in Engines
  BY TopKinds DEF SaveOrReset, Is, ActFrame
<1>2. RegFile(regs[e]) /\ RedZone = 16 /\ StackWords \in Nat
  BY <1>1, CallsAssumption DEF Shape, Files, RedZone
<1> DEFINE b == Contexts(e) > 1
           r == IF b THEN [regs[e] EXCEPT !.sp = regs[e].sp - RedZone] ELSE InitialState(e)
           g == [Top EXCEPT !.st = "pre", !.base = r.sp, !.saved = IF b THEN regs[e] ELSE NoRegisters]
<1>3. stack' = With(g) /\ regs' = [regs EXCEPT ![e] = r]
  BY DEF SaveOrReset
<1> HIDE DEF b
<1>4. RegFile(r) /\ r.sp = (IF b THEN regs[e].sp - RedZone ELSE EmuStackTop)
  <2>1. CASE b
    BY <1>2, <2>1 DEF RegFile
  <2>2. CASE ~b
    <3>1. r = InitialState(e)
      BY <2>2
    <3> QED
      BY <1>2, <2>2, <3>1 DEF RegFile, InitialState, EmuStackTop
  <2> QED
    BY <2>1, <2>2
<1> HIDE DEF r
<1>5. /\ DOMAIN g = DOMAIN Top /\ g.st = "pre" /\ g.base = r.sp
      /\ g.saved = (IF b THEN regs[e] ELSE NoRegisters)
      /\ g.kind = Top.kind /\ g.call = Top.call /\ g.n = Top.n /\ g.cpu = Top.cpu
      /\ g.function = Top.function /\ g.pc = Top.pc /\ g.args = Top.args
  BY <1>1 DEF ActFrame
<1> HIDE DEF g
<1>6. ActFrame(g)
  BY <1>1, <1>2, <1>4, <1>5 DEF ActFrame, RegFile
<1>7. IF b THEN r.sp = regs[e].sp - RedZone /\ g.saved = regs[e]
           ELSE r.sp = EmuStackTop /\ g.saved = NoRegisters
  BY <1>4, <1>5
<1> QED
  BY <1>1, <1>3, <1>4, <1>5, <1>6, <1>7 DEF b

\* The frame of a function that is entered.
EnteredFrame(f, sp) ==
  [kind |-> "emu", st |-> "new", call |-> f.call, n |-> f.n,
   cpu |-> f.cpu, entry |-> sp, out |-> 0, callee |-> 0, sent |-> 0]

\* EmuThunkPre puts an emulated function on top (EmuThunk of Cpu.c).
LEMMA EmuThunkPreStep ==
  ASSUME Shape, EmuThunkPre, NEW e, e = Top.cpu, NEW sp, sp = regs[e].sp - BlockLen(e)
  PROVE  \E f : /\ stack' = Append(With(f), EnteredFrame(Top, sp))
                /\ f = [Top EXCEPT !.st = "run"] /\ ActFrame(f) /\ f.st = "run"
                /\ f.call = Top.call /\ f.n = Top.n /\ f.cpu = e /\ f.base = Top.base
                /\ f.saved = Top.saved
                /\ ActFrame(Top) /\ Top.st = "pre" /\ e \in Engines /\ sp \in Int
                /\ EmuFrame(EnteredFrame(Top, sp))
                /\ RegFile(PreRegs(e, regs[e], Top, sp))
                /\ regs' = [regs EXCEPT ![e] = PreRegs(e, regs[e], Top, sp)]
                /\ mem' = [mem EXCEPT ![e] = Put(mem[e], sp, PreBlock(Top))]
<1>1. ActFrame(Top) /\ Top.st = "pre" /\ e \in Engines
  BY TopKinds DEF EmuThunkPre, Is, ActFrame
<1>2. RegFile(regs[e])
  BY <1>1 DEF Shape, Files
<1>3. Len(PreBlock(Top)) = BlockLen(e) /\ sp \in Int
  <2>1. Len(PreBlock(Top)) = BlockLen(e) /\ BlockLen(e) \in {8, 17}
    BY <1>1, PreBlockWords
  <2> QED
    BY <1>2, <2>1 DEF RegFile
<1> DEFINE f == [Top EXCEPT !.st = "run"]
<1>4. stack' = Append(With(f), EnteredFrame(Top, sp))
      /\ mem' = [mem EXCEPT ![e] = Put(mem[e], sp, PreBlock(Top))]
  BY <1>3 DEF EmuThunkPre, EnteredFrame, PreBlock
<1>5. regs' = [regs EXCEPT ![e] = PreRegs(e, regs[e], Top, sp)]
  <2>1. regs' = [regs EXCEPT ![e].sp = sp, ![e].pc = <<"in", Top.call>>,
                             ![e].a = SubSeq(Top.args, 1, ArgRegs(e)),
                             ![e].lr = IF e = x64 THEN @ ELSE Magic]
    BY <1>3 DEF EmuThunkPre, PreBlock
  <2> QED
    BY <1>1, <1>2, <2>1 DEF PreRegs, RegFile, Shape, Files
<1>6. /\ DOMAIN f = DOMAIN Top /\ f.st = "run" /\ f.base = Top.base /\ f.saved = Top.saved
      /\ f.kind = Top.kind /\ f.call = Top.call /\ f.n = Top.n /\ f.cpu = Top.cpu
      /\ f.function = Top.function /\ f.pc = Top.pc /\ f.args = Top.args
  BY <1>1 DEF ActFrame
<1>7. ActFrame(f)
  <2> HIDE DEF f
  <2> QED
    BY <1>1, <1>6 DEF ActFrame
<1>8. EmuFrame(EnteredFrame(Top, sp))
  BY <1>1, <1>3 DEF EmuFrame, EnteredFrame, ActFrame
<1>9. RegFile(PreRegs(e, regs[e], Top, sp))
  BY <1>2, <1>3 DEF RegFile, PreRegs
<1> QED
  BY <1>1, <1>3, <1>4, <1>5, <1>6, <1>7, <1>8, <1>9

\* What is known of a function at the top and of its engine.
LEMMA EmuTop ==
  ASSUME Shape, Top.kind = "emu", NEW e, e = Top.cpu
  PROVE  /\ EmuFrame(Top) /\ e \in Engines /\ RegFile(regs[e]) /\ DOMAIN regs = Engines
         /\ LocalWords \in Nat /\ StackWords \in Nat
         /\ Top.st \in {"calls", "back"} => Top.out \in 0..17 /\ (e = x64 => Top.out >= 5)
<1>1. EmuFrame(Top) /\ e \in Engines
  BY TopKinds DEF EmuFrame
<1>2. RegFile(regs[e]) /\ DOMAIN regs = Engines /\ LocalWords \in Nat /\ StackWords \in Nat
  BY <1>1, CallsAssumption DEF Shape, Files
<1>3. ASSUME Top.st \in {"calls", "back"}
      PROVE  Top.out \in 0..17 /\ (e = x64 => Top.out >= 5)
  <2>1. Top.sent \in 0..16 /\ Top.out = OutWords(e, Top.sent)
    BY <1>1, <1>3 DEF EmuFrame, MAX_ARGS
  <2> QED
    BY <2>1 DEF OutWords, ArgRegs
<1> QED
  BY <1>1, <1>2, <1>3

\* The function's prologue replaces the top frame.
LEMMA EmuEnterStep ==
  ASSUME Shape, EmuEnter, NEW e, e = Top.cpu
  PROVE  \E g : /\ stack' = With(g) /\ g = [Top EXCEPT !.st = "run"] /\ EmuFrame(g) /\ g.st = "run"
                /\ g.call = Top.call /\ g.n = Top.n /\ g.cpu = e /\ g.entry = Top.entry
                /\ EmuFrame(Top) /\ Top.st = "new" /\ e \in Engines
                /\ RegFile(EnterRegs(e, regs[e], Top))
                /\ regs' = [regs EXCEPT ![e] = EnterRegs(e, regs[e], Top)]
                /\ LET r == regs[e]
                       sp == r.sp - LocalWords - 2
                       home == IF e = x64 THEN Put(mem[e], r.sp + 1, [k \in 1..4 |-> Junk])
                                          ELSE mem[e] IN
                   mem' = [mem EXCEPT ![e] =
                     WriteZone(e, Put(home, sp, Locals(Top.call, r.keep, r.lr)), sp, Top.call)]
<1>1. /\ EmuFrame(Top) /\ Top.st = "new" /\ e \in Engines /\ RegFile(regs[e]) /\ DOMAIN regs = Engines
  BY EmuTop DEF EmuEnter, Is
<1> DEFINE g == [Top EXCEPT !.st = "run"]
<1>2. /\ EmuFrame(g) /\ g.st = "run"
      /\ g.call = Top.call /\ g.n = Top.n /\ g.cpu = Top.cpu /\ g.entry = Top.entry
  BY <1>1 DEF EmuFrame
<1>3. stack' = With(g) /\ regs' = [regs EXCEPT ![e] = EnterRegs(e, regs[e], Top)]
  BY DEF EmuEnter, EnterRegs
<1>4. RegFile(EnterRegs(e, regs[e], Top))
  <2>1. 0 \in Int /\ 0 \in 0..MAX_ARGS
    BY DEF MAX_ARGS
  <2> QED
    BY <1>1, <2>1, RegFiles
<1>5. LET r == regs[e]
          sp == r.sp - LocalWords - 2
          home == IF e = x64 THEN Put(mem[e], r.sp + 1, [k \in 1..4 |-> Junk])
                             ELSE mem[e] IN
      mem' = [mem EXCEPT ![e] =
        WriteZone(e, Put(home, sp, Locals(Top.call, r.keep, r.lr)), sp, Top.call)]
  BY DEF EmuEnter
<1> QED
  BY <1>1, <1>2, <1>3, <1>4, <1>5

\* A call out replaces the top frame and takes a new number.
LEMMA EmuCallStep ==
  ASSUME Shape, EmuCall, NEW e, e = Top.cpu
  PROVE  /\ EmuFrame(Top) /\ Top.st = "run" /\ e \in Engines
         /\ calls' = calls + 1 /\ calls < MaxCalls
         /\ \E n, target, g :
              /\ n \in 0..16 /\ target \in {"native", "null"}
              /\ stack' = With(g) /\ EmuFrame(g) /\ g.st = "calls"
              /\ g.call = Top.call /\ g.n = Top.n /\ g.cpu = e /\ g.entry = Top.entry
              /\ g.callee = calls + 1 /\ g.sent = n /\ g.out = OutWords(e, n)
              /\ RegFile(CallRegs(e, regs[e], calls + 1, n, target))
              /\ regs' = [regs EXCEPT ![e] = CallRegs(e, regs[e], calls + 1, n, target)]
              /\ mem' = [mem EXCEPT ![e] = Put(mem[e], regs[e].sp - OutWords(e, n),
                                               CallBlock(e, calls + 1, n))]
<1>1. /\ EmuFrame(Top) /\ Top.st = "run" /\ e \in Engines /\ RegFile(regs[e]) /\ DOMAIN regs = Engines
      /\ calls \in Nat /\ calls' = calls + 1 /\ calls < MaxCalls
  BY EmuTop, TopKinds DEF EmuCall, Is
<1> DEFINE c == calls + 1
<1> DEFINE Step(x, n, target) ==
       LET r == regs[x]
           args == [k \in 1..n |-> Arg(calls', k)]
           rest == SubSeq(args, ArgRegs(x) + 1, n)
           block == IF x = x64 THEN <<Site(calls')>> \o [k \in 1..4 |-> Junk] \o rest ELSE rest IN
       /\ mem' = [mem EXCEPT ![x] = Put(@, r.sp - Len(block), block)]
       /\ regs' = [regs EXCEPT ![x].sp = r.sp - Len(block), ![x].pc = <<target, calls'>>,
                               ![x].lr = IF x = x64 THEN @ ELSE Site(calls'),
                               ![x].a = [k \in 1..ArgRegs(x) |-> IF k <= n THEN args[k] ELSE Junk]]
       /\ stack' = With([Top EXCEPT !.st = "calls", !.out = Len(block), !.callee = calls', !.sent = n])
<1>12. \E n \in ArgCounts, target \in {"native", "null"} : Step(Top.cpu, n, target)
  BY DEF EmuCall
<1> HIDE DEF Step
<1>2. PICK n \in ArgCounts, target \in {"native", "null"} : Step(e, n, target)
  BY <1>12
<1>3. n \in 0..16
  BY CallsAssumption DEF MAX_ARGS
<1>4. Len(CallBlock(e, c, n)) = OutWords(e, n)
  BY <1>1, <1>3, CallBlockWords
<1> DEFINE args == [k \in 1..n |-> Arg(c, k)]
           g == [Top EXCEPT !.st = "calls", !.out = OutWords(e, n), !.callee = c, !.sent = n]
           sp == regs[e].sp - OutWords(e, n)
<1>5. /\ mem' = [mem EXCEPT ![e] = Put(mem[e], regs[e].sp - Len(CallBlock(e, c, n)), CallBlock(e, c, n))]
      /\ regs' = [regs EXCEPT ![e].sp = regs[e].sp - Len(CallBlock(e, c, n)), ![e].pc = <<target, c>>,
                              ![e].lr = IF e = x64 THEN @ ELSE Site(c),
                              ![e].a = [k \in 1..ArgRegs(e) |-> IF k <= n THEN args[k] ELSE Junk]]
      /\ stack' = With([Top EXCEPT !.st = "calls", !.out = Len(CallBlock(e, c, n)), !.callee = c, !.sent = n])
  BY <1>1, <1>2 DEF CallBlock, Step
<1>6. [k \in 1..ArgRegs(e) |-> IF k <= n THEN args[k] ELSE Junk]
      = [k \in 1..ArgRegs(e) |-> IF k <= n THEN Arg(c, k) ELSE Junk]
  <2>1. \A k \in 1..ArgRegs(e) : k <= n => args[k] = Arg(c, k)
    BY <1>3
  <2> HIDE DEF args
  <2> QED
    BY <2>1
<1> HIDE DEF args
<1>7. regs' = [regs EXCEPT ![e] = CallRegs(e, regs[e], c, n, target)]
  <2> DEFINE A == [k \in 1..ArgRegs(e) |-> IF k <= n THEN Arg(c, k) ELSE Junk]
  <2>1. regs' = [regs EXCEPT ![e].sp = sp, ![e].pc = <<target, c>>,
                             ![e].lr = IF e = x64 THEN @ ELSE Site(c), ![e].a = A]
    BY <1>4, <1>5, <1>6
  <2>2. CallRegs(e, regs[e], c, n, target) =
          [regs[e] EXCEPT !.sp = sp, !.pc = <<target, c>>,
                          !.lr = IF e = x64 THEN regs[e].lr ELSE Site(c), !.a = A]
    BY DEF CallRegs
  <2> HIDE DEF A, sp
  <2> QED
    BY <1>1, <2>1, <2>2 DEF RegFile
<1>8. RegFile(CallRegs(e, regs[e], c, n, target))
  <2>1. 0 \in Int /\ n \in 0..MAX_ARGS
    BY <1>3 DEF MAX_ARGS
  <2> QED
    BY <1>1, <2>1, RegFiles
<1>9. stack' = With(g) /\ mem' = [mem EXCEPT ![e] = Put(mem[e], sp, CallBlock(e, c, n))]
  BY <1>4, <1>5
<1>10. /\ DOMAIN g = DOMAIN Top /\ g.kind = "emu" /\ g.st = "calls" /\ g.call = Top.call /\ g.n = Top.n
       /\ g.cpu = Top.cpu /\ g.entry = Top.entry
       /\ g.callee = c /\ g.sent = n /\ g.out = OutWords(e, n)
  BY <1>1 DEF EmuFrame
<1> HIDE DEF g
<1>11. EmuFrame(g)
  BY <1>1, <1>3, <1>10 DEF EmuFrame, MAX_ARGS
<1> QED
  BY <1>1, <1>3, <1>7, <1>8, <1>9, <1>10, <1>11

\* The caller that goes on replaces the top frame.
LEMMA EmuResumeStep ==
  ASSUME Shape, EmuResume, NEW e, e = Top.cpu
  PROVE  \E g : /\ stack' = With(g) /\ EmuFrame(g) /\ g.st = "run"
                /\ g.call = Top.call /\ g.n = Top.n /\ g.cpu = e /\ g.entry = Top.entry
                /\ EmuFrame(Top) /\ Top.st = "back" /\ e \in Engines
                /\ RegFile(ResumeRegs(e, regs[e], Top))
                /\ regs' = [regs EXCEPT ![e] = ResumeRegs(e, regs[e], Top)]
                /\ mem' = [mem EXCEPT ![e] =
                     WriteZone(e, mem[e], ResumeRegs(e, regs[e], Top).sp, Top.call)]
<1>1. /\ EmuFrame(Top) /\ Top.st = "back" /\ e \in Engines /\ RegFile(regs[e]) /\ DOMAIN regs = Engines
      /\ Top.out \in Int
  BY EmuTop DEF EmuResume, Is
<1> DEFINE g == [Top EXCEPT !.st = "run", !.out = 0]
<1>2. /\ DOMAIN g = DOMAIN Top /\ g.kind = "emu" /\ g.st = "run"
      /\ g.call = Top.call /\ g.n = Top.n /\ g.cpu = Top.cpu /\ g.entry = Top.entry
  BY <1>1 DEF EmuFrame
<1>3. stack' = With(g) /\ regs' = [regs EXCEPT ![e] = ResumeRegs(e, regs[e], Top)]
  BY <1>1 DEF EmuResume, ResumeRegs
<1> HIDE DEF g
<1>4. EmuFrame(g)
  BY <1>1, <1>2 DEF EmuFrame
<1>5. RegFile(ResumeRegs(e, regs[e], Top))
  <2>1. 0 \in Int /\ 0 \in 0..MAX_ARGS
    BY DEF MAX_ARGS
  <2> QED
    BY <1>1, <2>1, RegFiles
<1>6. ResumeRegs(e, regs[e], Top).sp = regs[e].sp + Top.out - (IF e = x64 THEN 1 ELSE 0)
  BY <1>1 DEF ResumeRegs, Forget, RegFile
<1>7. mem' = [mem EXCEPT ![e] = WriteZone(e, mem[e], ResumeRegs(e, regs[e], Top).sp, Top.call)]
  BY <1>6 DEF EmuResume
<1> QED
  BY <1>1, <1>2, <1>3, <1>4, <1>5, <1>7

\* The epilogue replaces the top frame.
LEMMA EmuReturnStep ==
  ASSUME Shape, EmuReturn, NEW e, e = Top.cpu
  PROVE  \E g : /\ stack' = With(g) /\ EmuFrame(g) /\ g.st = "leaves"
                /\ g.call = Top.call /\ g.n = Top.n /\ g.cpu = e /\ g.entry = Top.entry
                /\ EmuFrame(Top) /\ Top.st = "run" /\ e \in Engines
                /\ RegFile(LeaveRegs(e, regs[e], Top, mem[e]))
                /\ regs' = [regs EXCEPT ![e] = LeaveRegs(e, regs[e], Top, mem[e])]
                /\ mem' = mem
<1>1. /\ EmuFrame(Top) /\ Top.st = "run" /\ e \in Engines /\ RegFile(regs[e]) /\ DOMAIN regs = Engines
      /\ LocalWords \in Nat
  BY EmuTop DEF EmuReturn, Is
<1> DEFINE g == [Top EXCEPT !.st = "leaves"]
<1>2. /\ EmuFrame(g) /\ g.st = "leaves"
      /\ g.call = Top.call /\ g.n = Top.n /\ g.cpu = Top.cpu /\ g.entry = Top.entry
  BY <1>1 DEF EmuFrame
<1>3. stack' = With(g) /\ mem' = mem
  BY DEF EmuReturn
<1>4. regs' = [regs EXCEPT ![e] = LeaveRegs(e, regs[e], Top, mem[e])]
  <2> DEFINE r == regs[e]
             entry == r.sp + LocalWords + 2
  <2>1. regs' = [regs EXCEPT ![e] = [r EXCEPT !.sp = IF e = x64 THEN entry + 1 ELSE entry,
                                              !.keep = mem[e][entry - 1], !.ret = Result(Top.call),
                                              !.lr = mem[e][entry - 2],
                                              !.pc = IF e = x64 THEN mem[e][entry] ELSE mem[e][entry - 2]]]
    BY DEF EmuReturn
  <2>2. /\ (IF e = x64 THEN entry + 1 ELSE entry) = (IF e = x64 THEN 1 ELSE 0) + r.sp + LocalWords + 2
        /\ entry - 1 = r.sp + LocalWords + 1 /\ entry - 2 = r.sp + LocalWords
    BY <1>1 DEF RegFile
  <2>3. LeaveRegs(e, r, Top, mem[e]) =
          [r EXCEPT !.sp = IF e = x64 THEN entry + 1 ELSE entry,
                    !.keep = mem[e][entry - 1], !.ret = Result(Top.call),
                    !.lr = mem[e][entry - 2],
                    !.pc = IF e = x64 THEN mem[e][entry] ELSE mem[e][entry - 2]]
    BY <2>2 DEF LeaveRegs
  <2> QED
    BY <2>1, <2>3
<1>5. RegFile(LeaveRegs(e, regs[e], Top, mem[e]))
  <2>1. 0 \in Int /\ 0 \in 0..MAX_ARGS
    BY DEF MAX_ARGS
  <2> QED
    BY <1>1, <2>1, RegFiles
<1> QED
  BY <1>1, <1>2, <1>3, <1>4, <1>5

-----------------------------------------------------------------------------
(* Steps between functions and activations.                                *)

\* The arguments a thunk picks up.
PickedUp(e, r, m, wrapper) ==
  IF e # x64 THEN AArch64Args(r, m)
  ELSE IF wrapper THEN [k \in 1..MAX_ARGS |-> m[r.sp + k]]
  ELSE X64Args(r, m)

\* The native thunk puts a native function on top, with the arguments it picked up.
LEMMA CallNativeStep ==
  ASSUME Shape, CallNative, NEW e, e = Top.cpu
  PROVE  /\ EmuFrame(Top) /\ Top.st = "calls" /\ e \in Engines /\ Top.callee \in Nat /\ Top.sent \in 0..16
         /\ \E wrapper \in BOOLEAN : \E m, g :
              /\ m = (IF wrapper THEN Wrapped(e, mem[e]) ELSE mem[e])
              /\ mem' = [mem EXCEPT ![e] = m]
              /\ g = Native("native", Top.callee, Top.sent, PickedUp(e, regs[e], m, wrapper))
              /\ stack' = Append(stack, g) /\ NativeFrame(g) /\ g.kind = "native"
              /\ g.call = Top.callee /\ g.n = Top.sent
<1>1. /\ EmuFrame(Top) /\ Top.st = "calls" /\ e \in Engines
      /\ Top.callee \in Nat /\ Top.sent \in 0..16 /\ Top.sent \in Nat
  <2>1. EmuFrame(Top) /\ Top.st = "calls" /\ e \in Engines
    BY EmuTop DEF CallNative, Is
  <2> QED
    BY <2>1 DEF EmuFrame, MAX_ARGS
<1> DEFINE Step(x, wrapper, m) ==
             /\ mem' = [mem EXCEPT ![x] = m]
             /\ stack' = Append(stack, Native("native", Top.callee, Top.sent,
                                              PickedUp(x, regs[x], m, wrapper)))
<1>2. \E wrapper \in BOOLEAN : Step(Top.cpu, wrapper, IF wrapper THEN Wrapped(Top.cpu, mem[Top.cpu])
                                                      ELSE mem[Top.cpu])
  BY DEF CallNative, Pushed, PickedUp
<1> HIDE DEF Step
<1>3. PICK wrapper \in BOOLEAN : Step(e, wrapper, IF wrapper THEN Wrapped(e, mem[e]) ELSE mem[e])
  BY <1>2
<1>4. PICK m : m = (IF wrapper THEN Wrapped(e, mem[e]) ELSE mem[e])
  OBVIOUS
<1>5. PICK g : g = Native("native", Top.callee, Top.sent, PickedUp(e, regs[e], m, wrapper))
  OBVIOUS
<1>6. mem' = [mem EXCEPT ![e] = m] /\ stack' = Append(stack, g)
  BY <1>3, <1>4, <1>5 DEF Step
<1>7. NativeFrame(g)
  <2>1. NativeFrame(Native("native", Top.callee, Top.sent, PickedUp(e, regs[e], m, wrapper)))
    BY <1>1, NativeIs
  <2> QED
    BY <1>5, <2>1
<1>8. g.kind = "native" /\ g.call = Top.callee /\ g.n = Top.sent
  BY <1>5 DEF Native
<1> QED
  BY <1>1, <1>4, <1>5, <1>6, <1>7, <1>8

\* The end of a native thunk, as a function of registers and memory.
LEMMA BackIs ==
  ASSUME Shape, NEW e \in Engines, NEW value
  PROVE  Back(e, value) = BackRegs(e, regs[e], mem[e], value) /\ RegFile(BackRegs(e, regs[e], mem[e], value))
<1>1. RegFile(regs[e])
  BY DEF Shape, Files
<1>2. RegFile(BackRegs(e, regs[e], mem[e], value))
  <2>1. 0 \in Int /\ 0 \in 0..MAX_ARGS
    BY DEF MAX_ARGS
  <2> QED
    BY <1>1, <2>1, RegFiles
<1>3. Back(e, value) = BackRegs(e, regs[e], mem[e], value)
  <2>1. CASE e = x64
    BY <1>1, <2>1 DEF Back, BackRegs, RegFile
  <2>2. CASE e # x64
    <3>1. Back(e, value) = [regs[e] EXCEPT !.ret = value, !.pc = regs[e].lr]
      BY <2>2 DEF Back
    <3>2. BackRegs(e, regs[e], mem[e], value) =
            [regs[e] EXCEPT !.ret = value, !.pc = regs[e].lr, !.sp = regs[e].sp + 0]
      BY <2>2 DEF BackRegs
    <3> DEFINE a == [regs[e] EXCEPT !.ret = value, !.pc = regs[e].lr]
               b == [regs[e] EXCEPT !.ret = value, !.pc = regs[e].lr, !.sp = regs[e].sp + 0]
    <3>3. DOMAIN a = DOMAIN b /\ a = [x \in DOMAIN a |-> a[x]] /\ b = [x \in DOMAIN b |-> b[x]]
      BY <1>1 DEF RegFile
    <3>4. /\ DOMAIN a = {"pc", "sp", "lr", "keep", "ret", "a"}
          /\ a.pc = b.pc /\ a.sp = b.sp /\ a.lr = b.lr /\ a.keep = b.keep /\ a.ret = b.ret /\ a.a = b.a
      BY <1>1 DEF RegFile
    <3> HIDE DEF a, b
    <3>5. \A x \in DOMAIN a : a[x] = b[x]
      BY <3>4
    <3>6. a = b
      BY <3>3, <3>5
    <3> QED
      BY <3>1, <3>2, <3>6 DEF a, b
  <2> QED
    BY <2>1, <2>2
<1> QED
  BY <1>2, <1>3

\* A native return pops the callee and the caller is back.
LEMMA NativeReturnStep ==
  ASSUME Shape, NativeReturn, NEW e, e = Under.cpu
  PROVE  \E g : /\ stack' = Popped(g) /\ EmuFrame(g) /\ g.st = "back" /\ Len(stack) >= 2
                /\ g.call = Under.call /\ g.n = Under.n /\ g.cpu = e /\ g.entry = Under.entry
                /\ g.out = Under.out /\ g.callee = Under.callee /\ g.sent = Under.sent
                /\ EmuFrame(Under) /\ Under.st = "calls" /\ e \in Engines /\ Under.callee = Top.call
                /\ NativeFrame(Top) /\ Top.kind = "native"
                /\ RegFile(BackRegs(e, regs[e], mem[e], Result(Under.callee)))
                /\ regs' = [regs EXCEPT ![e] = BackRegs(e, regs[e], mem[e], Result(Under.callee))]
                /\ mem' = mem
<1>1. Top.kind = "native" /\ Len(stack) >= 2 /\ FrameOK(Under) /\ Link(Under, Top)
      /\ NativeFrame(Top)
  BY TopKinds DEF NativeReturn, Is
<1>2. EmuFrame(Under) /\ Under.st = "calls" /\ Under.callee = Top.call
  BY <1>1 DEF Link, FrameOK, NativeFrame, ActFrame, EmuFrame
<1>3. e \in Engines
  BY <1>2 DEF EmuFrame
<1> DEFINE g == [Under EXCEPT !.st = "back"]
<1>4. /\ EmuFrame(g) /\ g.st = "back" /\ g.call = Under.call /\ g.n = Under.n /\ g.cpu = Under.cpu
      /\ g.entry = Under.entry /\ g.out = Under.out /\ g.callee = Under.callee /\ g.sent = Under.sent
  BY <1>2 DEF EmuFrame
<1>5. stack' = Popped(g) /\ mem' = mem /\ regs' = [regs EXCEPT ![e] = Back(e, Result(Under.callee))]
  BY <1>2 DEF NativeReturn
<1>6. /\ Back(e, Result(Under.callee)) = BackRegs(e, regs[e], mem[e], Result(Under.callee))
      /\ RegFile(BackRegs(e, regs[e], mem[e], Result(Under.callee)))
  BY <1>3, BackIs
<1> QED
  BY <1>1, <1>2, <1>3, <1>4, <1>5, <1>6

\* A call of NULL comes back with EFI_UNSUPPORTED at once.
LEMMA NullCallStep ==
  ASSUME Shape, NullCall, NEW e, e = Top.cpu
  PROVE  \E g : /\ stack' = With(g) /\ EmuFrame(g) /\ g.st = "back"
                /\ g.call = Top.call /\ g.n = Top.n /\ g.cpu = e /\ g.entry = Top.entry
                /\ g.out = Top.out /\ g.callee = Top.callee /\ g.sent = Top.sent
                /\ EmuFrame(Top) /\ Top.st = "calls" /\ e \in Engines
                /\ RegFile(BackRegs(e, regs[e], mem[e], Unsupported))
                /\ regs' = [regs EXCEPT ![e] = BackRegs(e, regs[e], mem[e], Unsupported)]
                /\ mem' = mem
<1>1. EmuFrame(Top) /\ Top.st = "calls" /\ e \in Engines
  BY EmuTop DEF NullCall, Is
<1> DEFINE g == [Top EXCEPT !.st = "back"]
<1>2. /\ EmuFrame(g) /\ g.st = "back" /\ g.call = Top.call /\ g.n = Top.n /\ g.cpu = Top.cpu
      /\ g.entry = Top.entry /\ g.out = Top.out /\ g.callee = Top.callee /\ g.sent = Top.sent
  BY <1>1 DEF EmuFrame
<1>3. stack' = With(g) /\ mem' = mem /\ regs' = [regs EXCEPT ![e] = Back(e, Unsupported)]
  BY DEF NullCall
<1>4. /\ Back(e, Unsupported) = BackRegs(e, regs[e], mem[e], Unsupported)
      /\ RegFile(BackRegs(e, regs[e], mem[e], Unsupported))
  BY <1>1, BackIs
<1> QED
  BY <1>1, <1>2, <1>3, <1>4

\* The top function goes, and its activation with it into another state.
LEMMA LeavesStep ==
  ASSUME Shape, ReturnToNative \/ FailedEmu
  PROVE  \E g : /\ stack' = Popped(g) /\ ActFrame(g) /\ Len(stack) >= 2
                /\ g.call = Under.call /\ g.n = Under.n /\ g.cpu = Under.cpu
                /\ g.base = Under.base /\ g.saved = Under.saved
                /\ ActFrame(Under) /\ Under.st = "run" /\ Under.cpu = Top.cpu /\ Under.call = Top.call
                /\ EmuFrame(Top)
                /\ \/ Top.st = "leaves" /\ g.st = "post"
                   \/ Top.st = "run" /\ g.st = "restore" /\ g.ret = Unsupported
                /\ regs' = regs /\ mem' = mem
<1>1. EmuFrame(Top) /\ Len(stack) >= 2
  BY TopKinds DEF ReturnToNative, FailedEmu, Is
<1>2. /\ ActFrame(Under) /\ Under.st = "run" /\ Under.cpu = Top.cpu /\ Under.call = Top.call
  BY <1>1, TopKinds DEF EmuFrame
<1>3. CASE ReturnToNative
  <2> DEFINE g == [Under EXCEPT !.st = "post"]
  <2>1. /\ DOMAIN g = DOMAIN Under /\ g.st = "post" /\ g.base = Under.base /\ g.saved = Under.saved
        /\ g.kind = Under.kind /\ g.call = Under.call /\ g.n = Under.n /\ g.cpu = Under.cpu
        /\ g.function = Under.function /\ g.pc = Under.pc /\ g.args = Under.args
    BY <1>2 DEF ActFrame
  <2>2. stack' = Popped(g) /\ regs' = regs /\ mem' = mem /\ Top.st = "leaves"
    BY <1>3 DEF ReturnToNative, Is
  <2> HIDE DEF g
  <2>3. ActFrame(g)
    BY <1>2, <2>1 DEF ActFrame
  <2> QED
    BY <1>1, <1>2, <2>1, <2>2, <2>3
<1>4. CASE FailedEmu
  <2> DEFINE g == [Under EXCEPT !.st = "restore", !.ret = Unsupported]
  <2>1. /\ DOMAIN g = DOMAIN Under /\ g.st = "restore" /\ g.base = Under.base /\ g.saved = Under.saved
        /\ g.kind = Under.kind /\ g.call = Under.call /\ g.n = Under.n /\ g.cpu = Under.cpu
        /\ g.function = Under.function /\ g.pc = Under.pc /\ g.args = Under.args
        /\ g.ret = Unsupported
    BY <1>2 DEF ActFrame
  <2>2. stack' = Popped(g) /\ regs' = regs /\ mem' = mem /\ Top.st = "run"
    BY <1>4 DEF FailedEmu, Is
  <2> HIDE DEF g
  <2>3. ActFrame(g)
    BY <1>2, <2>1 DEF ActFrame
  <2> QED
    BY <1>1, <1>2, <2>1, <2>2, <2>3
<1> QED
  BY <1>3, <1>4

\* EmuThunkPost replaces the activation and takes the result.
LEMMA EmuThunkPostStep ==
  ASSUME Shape, EmuThunkPost, NEW e, e = Top.cpu, NEW sp, sp = regs[e].sp + PostWords(e)
  PROVE  \E g : /\ stack' = With(g) /\ ActFrame(g) /\ g.st = "restore" /\ g.ret = regs[e].ret
                /\ g.call = Top.call /\ g.n = Top.n /\ g.cpu = e
                /\ g.base = Top.base /\ g.saved = Top.saved
                /\ ActFrame(Top) /\ Top.st = "post" /\ e \in Engines
                /\ RegFile([regs[e] EXCEPT !.sp = sp])
                /\ regs' = [regs EXCEPT ![e] = [regs[e] EXCEPT !.sp = sp]] /\ mem' = mem
<1>1. ActFrame(Top) /\ Top.st = "post" /\ e \in Engines
  BY TopKinds DEF EmuThunkPost, Is, ActFrame
<1>2. RegFile(regs[e])
  BY <1>1 DEF Shape, Files
<1>3. PostWords(e) \in {8, 16}
  BY DEF PostWords, MAX_ARGS
<1>4. RegFile([regs[e] EXCEPT !.sp = sp])
  BY <1>2, <1>3 DEF RegFile
<1> DEFINE g == [Top EXCEPT !.st = "restore", !.ret = regs[e].ret]
<1>5. stack' = With(g) /\ mem' = mem /\ regs' = [regs EXCEPT ![e] = [regs[e] EXCEPT !.sp = sp]]
  BY DEF EmuThunkPost
<1>6. /\ DOMAIN g = DOMAIN Top /\ g.st = "restore" /\ g.base = Top.base /\ g.saved = Top.saved
      /\ g.kind = Top.kind /\ g.call = Top.call /\ g.n = Top.n /\ g.cpu = Top.cpu
      /\ g.function = Top.function /\ g.pc = Top.pc /\ g.args = Top.args
      /\ g.ret = regs[e].ret
  BY <1>1 DEF ActFrame
<1> HIDE DEF g
<1>7. ActFrame(g)
  BY <1>1, <1>6 DEF ActFrame
<1> QED
  BY <1>1, <1>4, <1>5, <1>6, <1>7

\* The end of an activation pops it, and the native caller has the result.
LEMMA RestoreStep ==
  ASSUME Shape, Restore, NEW e, e = Top.cpu
  PROVE  \E g, r : /\ stack' = Popped(g) /\ NativeFrame(g) /\ Len(stack) >= 2
                   /\ g.kind = Under.kind /\ g.call = Under.call /\ g.n = Under.n /\ g.args = Under.args
                   /\ g.got = <<Top.call, Top.ret>> /\ NativeFrame(Under)
                   /\ ActFrame(Top) /\ Top.st = "restore" /\ e \in Engines
                   /\ r = (IF Top.saved = NoRegisters THEN regs[e] ELSE Top.saved)
                   /\ RegFile(r) /\ Files(regs') /\ regs'[e] = r /\ mem' = mem
                   /\ \A x \in Engines : x # e => regs'[x] = regs[x]
<1>1. ActFrame(Top) /\ Top.st = "restore" /\ e \in Engines /\ Len(stack) >= 2
  BY TopKinds DEF Restore, Is, ActFrame
<1>2. NativeFrame(Under)
  BY <1>1, TopKinds DEF Link, FrameOK, NativeFrame, ActFrame, EmuFrame
<1>3. RegFile(regs[e]) /\ Files(regs)
  BY <1>1 DEF Shape, Files
<1>4. PICK r : r = IF Top.saved = NoRegisters THEN regs[e] ELSE Top.saved
  OBVIOUS
<1>5. RegFile(r)
  BY <1>1, <1>3, <1>4 DEF ActFrame
<1>6. Files(regs') /\ regs'[e] = r /\ \A x \in Engines : x # e => regs'[x] = regs[x]
  <2>1. CASE Top.saved = NoRegisters
    <3>1. regs' = regs /\ r = regs[e]
      BY <1>4, <2>1 DEF Restore
    <3> QED
      BY <1>3, <3>1
  <2>2. CASE Top.saved # NoRegisters
    <3>1. regs' = [regs EXCEPT ![e] = r]
      BY <1>4, <2>2 DEF Restore
    <3> QED
      BY <1>1, <1>3, <1>5, <3>1, MovesTo DEF Moves
  <2> QED
    BY <2>1, <2>2
<1> DEFINE g == [Under EXCEPT !.got = <<Top.call, Top.ret>>]
<1>7. /\ NativeFrame(g) /\ g.kind = Under.kind /\ g.call = Under.call /\ g.n = Under.n
      /\ g.args = Under.args /\ g.got = <<Top.call, Top.ret>>
  BY <1>2 DEF NativeFrame
<1>8. stack' = Popped(g) /\ mem' = mem
  BY DEF Restore
<1> QED
  BY <1>1, <1>2, <1>4, <1>5, <1>6, <1>7, <1>8

-----------------------------------------------------------------------------
(* The shape of the stack is invariant, whatever the room.                 *)

\* A frame g in the place of f, of the same kind.
LEMMA StandsIn ==
  ASSUME NEW f, NEW g, g.call = f.call, g.n = f.n,
         \/ ActFrame(f) /\ ActFrame(g)
         \/ EmuFrame(f) /\ EmuFrame(g) /\ g.cpu = f.cpu /\ g.entry = f.entry
         \/ NativeFrame(f) /\ NativeFrame(g) /\ g.kind = f.kind
  PROVE  FrameOK(g) /\ Stands(f, g)
<1>1. CASE ActFrame(f) /\ ActFrame(g)
  BY <1>1 DEF FrameOK, Stands, ActFrame
<1>2. CASE EmuFrame(f) /\ EmuFrame(g) /\ g.cpu = f.cpu /\ g.entry = f.entry
  BY <1>2 DEF FrameOK, Stands, EmuFrame
<1>3. CASE NativeFrame(f) /\ NativeFrame(g) /\ g.kind = f.kind
  BY <1>3 DEF FrameOK, Stands, NativeFrame
<1> QED
  BY <1>1, <1>2, <1>3

\* The top frame changes, and calls may be counted.
LEMMA WithShape ==
  ASSUME Shape, NEW g, stack' = With(g), FrameOK(g) /\ Stands(Top, g),
         calls' \in calls..MaxCalls, Within(g, calls'),
         Files(regs')
  PROVE  Shape'
<1>2. PICK c : c = calls'
  OBVIOUS
<1>3. c \in calls..MaxCalls /\ Within(g, c)
  BY <1>2
<1>4. StackOK(With(g)) /\ Numbered(With(g), c)
  BY <1>3, ShapeWith
<1> QED
  BY <1>2, <1>4 DEF Shape

\* A frame popped and one replaced under it leave the stack in shape.
LEMMA PoppedShape ==
  ASSUME Shape, Len(stack) >= 2, NEW g, stack' = Popped(g), FrameOK(g) /\ Stands(Under, g),
         Within(g, calls), calls' = calls, Files(regs')
  PROVE  Shape'
<1>2. StackOK(Popped(g)) /\ Numbered(Popped(g), calls)
  BY ShapePopped
<1> QED
  BY <1>2 DEF Shape

\* Every step keeps the shape of stack and registers.
LEMMA ShapeStep ==
  ASSUME Shape, [Next]_vars
  PROVE  Shape'
<1>1. StackOK(stack) /\ Numbered(stack, calls) /\ Files(regs) /\ calls \in calls..MaxCalls
      /\ calls \in Nat /\ MaxCalls \in Nat
  BY TopKinds DEF Shape
<1>2. CASE CallEmulated \/ TestWrappedCb
  <2>1. Top.kind = "native" /\ calls < MaxCalls /\ calls' = calls + 1 /\ regs' = regs
    BY <1>2 DEF CallEmulated, TestWrappedCb
  <2>2. \E e \in Engines, n \in 0..MAX_ARGS, f \in Functions, st \in {"trap", "enter"} :
          stack' = Append(With([Top EXCEPT !.got = <<>>]), Activation(calls + 1, e, n, f, st))
    <3>1. CASE CallEmulated
      <4>1. PICK e \in Engines, n \in ArgCounts, f \in Functions :
              stack' = Append(With([Top EXCEPT !.got = <<>>]), Activation(calls', e, n, f, "trap"))
        BY <3>1 DEF CallEmulated
      <4>2. n \in 0..MAX_ARGS
        BY CallsAssumption
      <4> QED
        BY <2>1, <4>1, <4>2
    <3>2. CASE TestWrappedCb
      <4>1. PICK e \in Engines, f \in Functions :
              stack' = Append(With([Top EXCEPT !.got = <<>>]), Activation(calls', e, MAX_ARGS, f, "enter"))
        BY <3>2 DEF TestWrappedCb
      <4>2. MAX_ARGS \in 0..MAX_ARGS
        BY DEF MAX_ARGS
      <4> QED
        BY <2>1, <4>1, <4>2
    <3> QED
      BY <1>2, <3>1, <3>2
  <2>3. PICK e \in Engines, n \in 0..MAX_ARGS, f \in Functions, st \in {"trap", "enter"} :
          stack' = Append(With([Top EXCEPT !.got = <<>>]), Activation(calls + 1, e, n, f, st))
    BY <2>2
  <2> DEFINE t == Append(With([Top EXCEPT !.got = <<>>]), Activation(calls + 1, e, n, f, st))
  <2>4. StackOK(t) /\ Numbered(t, calls + 1)
    BY <2>1, ShapeCall
  <2> HIDE DEF t
  <2>5. StackOK(stack') /\ Numbered(stack', calls')
    BY <2>1, <2>3, <2>4 DEF t
  <2> QED
    BY <1>1, <2>1, <2>5 DEF Shape, Files
<1>3. CASE EventNotify
  <2>1. calls < MaxCalls /\ calls' = calls + 1 /\ regs' = regs
    BY <1>3 DEF EventNotify
  <2>2. PICK e \in Engines, f \in Functions :
          stack' = stack \o <<Native("event", 0, 0, <<>>), Activation(calls', e, 2, f, "enter")>>
    BY <1>3 DEF EventNotify
  <2> DEFINE t == stack \o <<Native("event", 0, 0, <<>>), Activation(calls + 1, e, 2, f, "enter")>>
  <2>4. StackOK(t) /\ Numbered(t, calls + 1)
    BY <2>1, ShapeEvent
  <2> HIDE DEF t
  <2>5. StackOK(stack') /\ Numbered(stack', calls')
    BY <2>1, <2>2, <2>4 DEF t
  <2> QED
    BY <1>1, <2>1, <2>5 DEF Shape, Files
<1>4. CASE Trap
  <2>1. PICK g : /\ stack' = With(g) /\ ActFrame(g) /\ g.st \in {"dead", "enter"}
                 /\ g.call = Top.call /\ g.cpu = Top.cpu /\ g.n = Top.n
    BY <1>4, TrapStep
  <2>2. ActFrame(Top) /\ calls' = calls /\ regs' = regs
    BY <1>4, TopKinds DEF Trap, Is
  <2>3. FrameOK(g) /\ Stands(Top, g) /\ Within(g, calls)
    BY <2>1, <2>2, StandsIn, TopKinds DEF Within, ActFrame
  <2> QED
    BY <1>1, <2>1, <2>2, <2>3, WithShape DEF Files
<1>5. CASE SaveOrReset
  <2>1. PICK e : e = Top.cpu
    OBVIOUS
  <2>2. PICK g, r : /\ stack' = With(g) /\ ActFrame(g) /\ g.call = Top.call /\ g.n = Top.n
                    /\ ActFrame(Top) /\ e \in Engines /\ RegFile(r) /\ regs' = [regs EXCEPT ![e] = r]
    BY <1>5, <2>1, SaveOrResetStep
  <2>3. FrameOK(g) /\ Stands(Top, g) /\ Within(g, calls)
    BY <2>2, StandsIn, TopKinds DEF Within, ActFrame
  <2>4. Files(regs') /\ calls' = calls
    BY <1>5, <2>2, MovesTo DEF Shape, SaveOrReset, Moves
  <2> QED
    BY <1>1, <2>2, <2>3, <2>4, WithShape
<1>6. CASE EmuThunkPre
  <2>1. PICK e, sp : e = Top.cpu /\ sp = regs[e].sp - BlockLen(e)
    OBVIOUS
  <2> DEFINE h == EnteredFrame(Top, sp)
  <2>2. PICK f : /\ stack' = Append(With(f), h) /\ ActFrame(f) /\ f.st = "run"
                 /\ f.call = Top.call /\ f.n = Top.n /\ f.cpu = e /\ f.base = Top.base
                 /\ ActFrame(Top) /\ Top.st = "pre" /\ e \in Engines /\ EmuFrame(h)
                 /\ RegFile(PreRegs(e, regs[e], Top, sp))
                 /\ regs' = [regs EXCEPT ![e] = PreRegs(e, regs[e], Top, sp)]
    BY <1>6, <2>1, EmuThunkPreStep
  <2>3. h.kind = "emu" /\ h.st = "new" /\ h.call = Top.call /\ h.n = Top.n /\ h.cpu = Top.cpu /\ h.entry = sp
    BY DEF EnteredFrame
  <2> HIDE DEF h
  <2> DEFINE u == With(f)
  <2>4. FrameOK(f) /\ Stands(Top, f)
    BY <2>2, StandsIn
  <2>5. Within(f, calls) /\ f.call <= calls
    BY <2>2, TopKinds DEF Within, ActFrame
  <2>6. StackOK(u) /\ Numbered(u, calls)
    BY <1>1, <2>4, <2>5, ShapeWith
  <2>7. u[Len(u)] = f
    BY TopKinds, WithStep
  <2> HIDE DEF u
  <2>8. Link(f, h)
    BY <2>1, <2>2, <2>3 DEF Link, ActFrame
  <2>9. FrameOK(h) /\ Within(h, calls)
    BY <2>2, <2>3, <2>5 DEF FrameOK, Within
  <2>10. StackOK(Append(u, h)) /\ Numbered(Append(u, h), calls)
    BY <1>1, <2>6, <2>7, <2>8, <2>9, ShapeAbove
  <2>11. Files(regs') /\ calls' = calls
    BY <1>6, <2>2, MovesTo DEF Shape, EmuThunkPre, Moves
  <2> QED
    BY <2>2, <2>10, <2>11 DEF Shape, u
<1>7. CASE EmuEnter \/ EmuCall \/ EmuResume \/ EmuReturn \/ NullCall
  <2>1. PICK e : e = Top.cpu
    OBVIOUS
  <2>2. \E g, r : /\ stack' = With(g) /\ EmuFrame(g) /\ g.call = Top.call /\ g.n = Top.n /\ g.cpu = e
                  /\ g.entry = Top.entry /\ EmuFrame(Top) /\ e \in Engines
                  /\ RegFile(r) /\ regs' = [regs EXCEPT ![e] = r] /\ Within(g, calls') /\ calls' \in calls..MaxCalls
    <3>1. CASE EmuEnter
      BY <1>1, <2>1, <3>1, EmuEnterStep, TopKinds DEF EmuEnter, Within
    <3>2. CASE EmuCall
      <4>1. calls' = calls + 1 /\ calls < MaxCalls
        BY <2>1, <3>2, EmuCallStep
      <4>2. calls' \in calls..MaxCalls /\ calls <= calls'
        BY <1>1, <4>1
      <4>3. \E n, target, g :
              /\ n \in 0..16 /\ target \in {"native", "null"}
              /\ stack' = With(g) /\ EmuFrame(g) /\ g.st = "calls" /\ EmuFrame(Top) /\ e \in Engines
              /\ g.call = Top.call /\ g.n = Top.n /\ g.cpu = e /\ g.entry = Top.entry
              /\ g.callee = calls + 1
              /\ RegFile(CallRegs(e, regs[e], calls + 1, n, target))
              /\ regs' = [regs EXCEPT ![e] = CallRegs(e, regs[e], calls + 1, n, target)]
        BY <2>1, <3>2, EmuCallStep
      <4>4. PICK n, target, g :
              /\ n \in 0..16 /\ target \in {"native", "null"}
              /\ stack' = With(g) /\ EmuFrame(g) /\ g.st = "calls" /\ EmuFrame(Top) /\ e \in Engines
              /\ g.call = Top.call /\ g.n = Top.n /\ g.cpu = e /\ g.entry = Top.entry
              /\ g.callee = calls + 1
              /\ RegFile(CallRegs(e, regs[e], calls + 1, n, target))
              /\ regs' = [regs EXCEPT ![e] = CallRegs(e, regs[e], calls + 1, n, target)]
        BY <4>3
      <4>5. Within(g, calls')
        BY <1>1, <4>1, <4>4, TopKinds DEF Within, EmuFrame
      <4> QED
        BY <4>2, <4>4, <4>5
    <3>3. CASE EmuResume
      BY <1>1, <2>1, <3>3, EmuResumeStep, TopKinds DEF EmuResume, Within
    <3>4. CASE EmuReturn
      BY <1>1, <2>1, <3>4, EmuReturnStep, TopKinds DEF EmuReturn, Within
    <3>5. CASE NullCall
      <4>1. Top.kind = "emu" /\ Top.st = "calls" /\ calls' = calls
        BY <3>5 DEF NullCall, Is
      <4>2. PICK g : /\ stack' = With(g) /\ EmuFrame(g) /\ g.st = "back"
                     /\ g.call = Top.call /\ g.n = Top.n /\ g.cpu = e /\ g.entry = Top.entry
                     /\ g.callee = Top.callee /\ EmuFrame(Top) /\ e \in Engines
                     /\ RegFile(BackRegs(e, regs[e], mem[e], Unsupported))
                     /\ regs' = [regs EXCEPT ![e] = BackRegs(e, regs[e], mem[e], Unsupported)]
        BY <2>1, <3>5, NullCallStep
      <4>3. Within(g, calls') /\ calls' \in calls..MaxCalls
        BY <1>1, <4>1, <4>2, TopKinds DEF Within
      <4> QED
        BY <4>2, <4>3
    <3> QED
      BY <1>7, <3>1, <3>2, <3>3, <3>4, <3>5
  <2>3. PICK g, r : /\ stack' = With(g) /\ EmuFrame(g) /\ g.call = Top.call /\ g.n = Top.n /\ g.cpu = e
                    /\ g.entry = Top.entry /\ EmuFrame(Top) /\ e \in Engines
                    /\ RegFile(r) /\ regs' = [regs EXCEPT ![e] = r] /\ Within(g, calls')
                    /\ calls' \in calls..MaxCalls
    BY <2>2
  <2>4. FrameOK(g) /\ Stands(Top, g)
    BY <2>1, <2>3, StandsIn
  <2>5. Files(regs')
    BY <2>3, MovesTo DEF Shape, Moves
  <2> QED
    BY <2>3, <2>4, <2>5, WithShape
<1>8. CASE CallNative
  <2>1. PICK e : e = Top.cpu
    OBVIOUS
  <2>2. PICK g : /\ stack' = Append(stack, g) /\ NativeFrame(g) /\ g.kind = "native"
                 /\ g.call = Top.callee /\ g.n = Top.sent
                 /\ EmuFrame(Top) /\ Top.st = "calls"
    BY <1>8, <2>1, CallNativeStep
  <2>3. FrameOK(g) /\ Link(stack[Len(stack)], g)
    BY <2>2, TopKinds DEF FrameOK, Link, EmuFrame
  <2>4. Within(g, calls)
    BY <2>2, TopKinds DEF Within, EmuFrame
  <2>5. StackOK(Append(stack, g)) /\ Numbered(Append(stack, g), calls)
    BY <1>1, <2>3, <2>4, ShapeAbove
  <2>6. regs' = regs /\ calls' = calls
    BY <1>8 DEF CallNative
  <2> QED
    BY <1>1, <2>2, <2>5, <2>6 DEF Shape, Files
<1>9. CASE NativeReturn
  <2>1. PICK e : e = Under.cpu
    OBVIOUS
  <2>2. PICK g, r : /\ stack' = Popped(g) /\ EmuFrame(g) /\ Len(stack) >= 2
                    /\ g.call = Under.call /\ g.n = Under.n /\ g.cpu = e /\ g.entry = Under.entry
                    /\ EmuFrame(Under) /\ e \in Engines /\ Under.st = "calls" /\ g.callee = Under.callee
                    /\ RegFile(r) /\ regs' = [regs EXCEPT ![e] = r]
    BY <1>9, <2>1, NativeReturnStep
  <2>3. FrameOK(g) /\ Stands(Under, g) /\ Within(g, calls)
    BY <2>1, <2>2, StandsIn, TopKinds DEF Within, EmuFrame
  <2>4. Files(regs') /\ calls' = calls
    BY <1>9, <2>2, MovesTo DEF Shape, NativeReturn, Moves
  <2> QED
    BY <2>2, <2>3, <2>4, PoppedShape
<1>10. CASE ReturnToNative \/ FailedEmu
  <2>1. PICK g : /\ stack' = Popped(g) /\ ActFrame(g) /\ Len(stack) >= 2
                 /\ g.call = Under.call /\ g.n = Under.n /\ ActFrame(Under) /\ regs' = regs
    BY <1>10, LeavesStep
  <2>2. FrameOK(g) /\ Stands(Under, g) /\ Within(g, calls)
    BY <2>1, StandsIn, TopKinds DEF Within, ActFrame
  <2>3. calls' = calls
    BY <1>10 DEF ReturnToNative, FailedEmu
  <2> QED
    BY <1>1, <2>1, <2>2, <2>3, PoppedShape DEF Files
<1>11. CASE EmuThunkPost
  <2>1. PICK e, sp : e = Top.cpu /\ sp = regs[e].sp + PostWords(e)
    OBVIOUS
  <2>2. PICK g : /\ stack' = With(g) /\ ActFrame(g) /\ g.call = Top.call /\ g.n = Top.n
                 /\ ActFrame(Top) /\ e \in Engines /\ RegFile([regs[e] EXCEPT !.sp = sp])
                 /\ regs' = [regs EXCEPT ![e] = [regs[e] EXCEPT !.sp = sp]]
    BY <1>11, <2>1, EmuThunkPostStep
  <2>3. FrameOK(g) /\ Stands(Top, g) /\ Within(g, calls)
    BY <2>2, StandsIn, TopKinds DEF Within, ActFrame
  <2>4. Files(regs') /\ calls' = calls
    BY <1>11, <2>2, MovesTo DEF Shape, EmuThunkPost, Moves
  <2> QED
    BY <1>1, <2>2, <2>3, <2>4, WithShape
<1>12. CASE Restore
  <2>1. PICK e : e = Top.cpu
    OBVIOUS
  <2>2. PICK g : /\ stack' = Popped(g) /\ NativeFrame(g) /\ Len(stack) >= 2
                 /\ g.kind = Under.kind /\ g.call = Under.call /\ g.n = Under.n /\ NativeFrame(Under)
                 /\ Files(regs')
    BY <1>12, <2>1, RestoreStep
  <2>3. FrameOK(g) /\ Stands(Under, g) /\ Within(g, calls)
    BY <2>2, StandsIn, TopKinds DEF Within, NativeFrame
  <2>4. calls' = calls
    BY <1>12 DEF Restore
  <2> QED
    BY <2>2, <2>3, <2>4, PoppedShape
<1>13. CASE EventReturn
  <2>1. stack' = Front(stack) /\ calls' = calls /\ regs' = regs /\ Top.kind = "event"
    BY <1>13 DEF EventReturn, Is
  <2>2. StackOK(Front(stack)) /\ Numbered(Front(stack), calls)
    BY <2>1, TopKinds, ShapeFront
  <2> QED
    BY <1>1, <2>1, <2>2 DEF Shape, Files
<1>14. CASE UNCHANGED vars
  BY <1>14 DEF vars, Shape, Files
<1> QED
  BY <1>2, <1>3, <1>4, <1>5, <1>6, <1>7, <1>8, <1>9, <1>10, <1>11, <1>12, <1>13, <1>14 DEF Next

-----------------------------------------------------------------------------
(* What is passed and where words begin, and the engines a step leaves     *)
(* alone.                                                                  *)

LEMMA SettledWith ==
  ASSUME Shape, Settled(stack), NEW g, Delivered(g), Stands(Top, g)
  PROVE  Settled(With(g))
<1> DEFINE n == Len(stack)
           t == With(g)
<1>1. IsSeq(stack) /\ n \in Nat /\ n >= 1 /\ Top = stack[n]
  BY TopKinds
<1>2. Len(t) = n /\ t[n] = g /\ \A k \in 1..(n - 1) : t[k] = stack[k]
  BY <1>1, WithStep DEF Agree
<1> HIDE DEF t
<1>3. \A k \in 1..n : Delivered(t[k])
  BY <1>1, <1>2 DEF Settled
<1>4. ASSUME NEW k \in 2..n, t[k].kind = "emu"
      PROVE  t[k].entry = t[k - 1].base - BlockLen(t[k].cpu)
  <2>1. t[k - 1] = stack[k - 1] /\ k - 1 \in 1..n
    BY <1>1, <1>2
  <2>2. stack[k].kind = "emu" => stack[k].entry = stack[k - 1].base - BlockLen(stack[k].cpu)
    BY DEF Settled, Based
  <2>3. CASE k = n
    BY <1>1, <1>2, <1>4, <2>1, <2>2, <2>3 DEF Stands
  <2>4. CASE k # n
    BY <1>1, <1>2, <1>4, <2>1, <2>2, <2>4
  <2> QED
    BY <2>3, <2>4
<1>5. Settled(t)
  BY <1>2, <1>3, <1>4 DEF Settled, Based
<1> QED
  BY <1>5 DEF t

\* What was delivered stays delivered when a frame is popped.
LEMMA SettledPopped ==
  ASSUME Shape, Settled(stack), Len(stack) >= 2, NEW g, Delivered(g), Stands(Under, g)
  PROVE  Settled(Popped(g))
<1> DEFINE n == Len(stack) - 1
           t == Popped(g)
<1>1. IsSeq(stack) /\ n \in Nat /\ n >= 1 /\ Under = stack[n] /\ Len(stack) = n + 1
  BY TopKinds, TopFacts DEF Shape
<1>2. Len(t) = n /\ t[n] = g /\ \A k \in 1..(n - 1) : t[k] = stack[k]
  <2>1. n - 1 = Len(stack) - 2
    BY <1>1
  <2> QED
    BY <1>1, <2>1, PoppedStep DEF Agree
<1> HIDE DEF t
<1>6. 1..n \subseteq 1..Len(stack) /\ 2..n \subseteq 2..Len(stack)
  BY <1>1
<1> HIDE DEF n
<1>3. \A k \in 1..n : Delivered(t[k])
  BY <1>1, <1>2, <1>6 DEF Settled
<1>4. ASSUME NEW k \in 2..n, t[k].kind = "emu"
      PROVE  t[k].entry = t[k - 1].base - BlockLen(t[k].cpu)
  <2>1. t[k - 1] = stack[k - 1] /\ k - 1 \in 1..n
    BY <1>1, <1>2
  <2>2. stack[k].kind = "emu" => stack[k].entry = stack[k - 1].base - BlockLen(stack[k].cpu)
    BY <1>6 DEF Settled, Based
  <2>3. CASE k = n
    BY <1>1, <1>2, <1>4, <2>1, <2>2, <2>3 DEF Stands
  <2>4. CASE k # n
    BY <1>1, <1>2, <1>4, <2>1, <2>2, <2>4
  <2> QED
    BY <2>3, <2>4
<1>5. Settled(t)
  BY <1>2, <1>3, <1>4 DEF Settled, Based
<1> QED
  BY <1>5 DEF t

\* And when one is pushed.
LEMMA SettledAbove ==
  ASSUME NEW s, IsSeq(s), Len(s) >= 1, Settled(s), NEW g, Delivered(g),
         g.kind = "emu" => g.entry = s[Len(s)].base - BlockLen(g.cpu)
  PROVE  Settled(Append(s, g))
<1> DEFINE n == Len(s)
           t == Append(s, g)
<1>1. n \in Nat
  BY SeqFacts
<1>2. Len(t) = n + 1 /\ t[n + 1] = g /\ \A k \in 1..n : t[k] = s[k]
  BY AppendStep DEF Agree
<1> HIDE DEF t
<1>3. \A k \in 1..(n + 1) : Delivered(t[k])
  BY <1>1, <1>2 DEF Settled
<1>4. ASSUME NEW k \in 2..(n + 1), t[k].kind = "emu"
      PROVE  t[k].entry = t[k - 1].base - BlockLen(t[k].cpu)
  <2>1. t[k - 1] = s[k - 1] /\ k - 1 \in 1..n
    BY <1>1, <1>2
  <2>3. CASE k = n + 1
    <3>1. k - 1 = n /\ t[k] = g
      BY <1>1, <1>2, <2>3
    <3> QED
      BY <1>4, <2>1, <3>1
  <2>4. CASE k # n + 1
    <3>1. k \in 2..n /\ t[k] = s[k]
      BY <1>1, <1>2, <2>4
    <3>2. s[k].kind = "emu" => s[k].entry = s[k - 1].base - BlockLen(s[k].cpu)
      BY <3>1 DEF Settled, Based
    <3> QED
      BY <1>4, <2>1, <3>1, <3>2
  <2> QED
    BY <2>3, <2>4
<1>5. Settled(t)
  BY <1>2, <1>3, <1>4 DEF Settled, Based
<1> QED
  BY <1>5 DEF t

\* A step that leaves engine x alone: frames of other engines come and go.
LEMMA WithOther ==
  ASSUME Shape, NEW x, NEW R, NEW m, EngineOK(stack, R, m, calls, x), NEW g, ~Of(Top, x), ~Of(g, x),
         NEW c \in calls..MaxCalls
  PROVE  EngineOK(With(g), R, m, c, x)
<1> DEFINE n == Len(stack)
           t == With(g)
<1>1. IsSeq(stack) /\ n \in Nat /\ n >= 1 /\ Top = stack[n] /\ calls \in Int /\ c \in Int /\ calls <= c
  BY TopKinds
<1>2. Len(t) = n /\ t[n] = g /\ \A k \in 1..(n - 1) : t[k] = stack[k]
  BY <1>1, WithStep DEF Agree
<1> HIDE DEF t
<1>3. SameFor(stack, t, x, n)
  BY <1>1, <1>2 DEF SameFor
<1>4. \A k \in (n + 1)..n : FALSE
  BY <1>1
<1> HIDE DEF n
<1>5. EngineOK(t, R, m, c, x)
  BY <1>1, <1>2, <1>3, <1>4, QuietKeeps DEF n
<1> QED
  BY <1>5 DEF t

\* Popping a frame of one engine leaves the other engines in order.
LEMMA PoppedOther ==
  ASSUME Shape, Len(stack) >= 2, NEW x, NEW R, NEW m, EngineOK(stack, R, m, calls, x), NEW g,
         ~Of(Under, x), ~Of(g, x), ~Owns(Top, x)
  PROVE  EngineOK(Popped(g), R, m, calls, x)
<1> DEFINE n == Len(stack) - 1
           t == Popped(g)
<1>1. /\ IsSeq(stack) /\ n \in Nat /\ n >= 1 /\ Under = stack[n] /\ Len(stack) = n + 1
      /\ calls \in Int /\ Top = stack[n + 1]
  BY TopKinds, TopFacts DEF Shape
<1>2. Len(t) = n /\ t[n] = g /\ \A k \in 1..(n - 1) : t[k] = stack[k]
  <2>1. n - 1 = Len(stack) - 2
    BY <1>1
  <2> QED
    BY <1>1, <2>1, PoppedStep DEF Agree
<1> HIDE DEF t, n
<1>3. SameFor(stack, t, x, n)
  BY <1>1, <1>2 DEF SameFor
<1>4. (\A k \in (n + 1)..Len(t) : FALSE) /\ \A k \in (n + 1)..Len(stack) : ~Owns(stack[k], x)
  BY <1>1, <1>2
<1>6. n <= Len(stack) /\ n <= Len(t) /\ Len(stack) \in Nat /\ Len(t) \in Nat /\ calls <= calls
  BY <1>1, <1>2
<1>5. EngineOK(t, R, m, calls, x)
  BY <1>1, <1>3, <1>4, <1>6, QuietKeeps
<1> QED
  BY <1>5 DEF t

\* A frame g above the others that does not count on registers yet.
LEMMA AboveOther ==
  ASSUME NEW s, IsSeq(s), NEW x, NEW R, NEW m, NEW d \in Int, EngineOK(s, R, m, d, x), NEW g,
         ~Owns(g, x), ~IsEmu(g, x), Waits(g, x) => R.sp >= Floor(g.call - 1), NEW c \in Int, d <= c
  PROVE  EngineOK(Append(s, g), R, m, c, x)
<1> DEFINE n == Len(s)
           t == Append(s, g)
<1>1. n \in Nat
  BY SeqFacts
<1>2. Len(t) = n + 1 /\ t[n + 1] = g /\ \A k \in 1..n : t[k] = s[k]
  BY AppendStep DEF Agree
<1> HIDE DEF t, n
<1>3. SameFor(s, t, x, n)
  BY <1>1, <1>2 DEF SameFor
<1>4. (\A k \in (n + 1)..Len(s) : ~Owns(s[k], x))
      /\ \A k \in (n + 1)..Len(t) :
           /\ ~Owns(t[k], x) /\ ~IsEmu(t[k], x)
           /\ Waits(t[k], x) /\ Nested(t, k, x) => R.sp >= Floor(t[k].call - 1)
  <2>1. \A k \in (n + 1)..Len(s) : FALSE
    BY <1>1 DEF n
  <2>2. \A k \in (n + 1)..Len(t) : k = n + 1
    BY <1>1, <1>2
  <2> QED
    BY <1>2, <2>1, <2>2
<1>6. n <= Len(s) /\ n <= Len(t) /\ Len(s) \in Nat /\ Len(t) \in Nat
  BY <1>1, <1>2 DEF n
<1>5. EngineOK(t, R, m, c, x)
  BY <1>1, <1>3, <1>4, <1>6, QuietKeeps
<1> QED
  BY <1>5 DEF t

-----------------------------------------------------------------------------
(* The engine a step is about.                                             *)

\* The topmost activation sees the registers there are, and so does its
\* function.
LEMMA NowAct ==
  ASSUME Shape, EnginesOK, NEW p \in 1..Len(stack), NEW e \in Engines, Owns(stack[p], e),
         \A k \in (p + 1)..Len(stack) : ~Owns(stack[k], e)
  PROVE  /\ ActOK(stack[p], regs[e]) /\ EngineOK(stack, regs[e], mem[e], calls, e)
         /\ RegFile(regs[e]) /\ regs[e].sp \in Floor(calls)..EmuStackTop
         /\ DOMAIN mem[e] = 1..StackWords
         /\ stack[p].base <= EmuStackTop /\ stack[p].base >= Floor(stack[p].call - 1) - RedZone
         /\ ActFrame(stack[p])
         /\ \A i \in p..Len(stack) : IsEmu(stack[i], e) => EmuOK(stack[i], regs[e], mem[e])
<1>1. EngineOK(stack, regs[e], mem[e], calls, e) /\ Len(stack) \in Nat /\ StackOK(stack)
  BY TopKinds DEF EnginesOK, Shape
<1>2. ASSUME NEW i \in p..Len(stack)
      PROVE  Sees(stack, regs[e], e, i, regs[e])
  BY <1>1 DEF Sees, NoneOwns
<1>3. ActOK(stack[p], regs[e])
  BY <1>1, <1>2 DEF EngineOK, ViewsOK
<1>4. \A i \in p..Len(stack) : IsEmu(stack[i], e) => EmuOK(stack[i], regs[e], mem[e])
  BY <1>1, <1>2 DEF EngineOK, ViewsOK
<1>5. SavedFits(stack, p, e)
  BY <1>1 DEF EngineOK, SavedOK
<1>6. ActFrame(stack[p])
  BY <1>1 DEF StackOK, FrameOK, NativeFrame, EmuFrame, Owns
<1>7. stack[p].base <= EmuStackTop /\ stack[p].base >= Floor(stack[p].call - 1) - RedZone
  <2>1. RedZone = 16 /\ EmuStackTop \in Int /\ stack[p].call \in Int /\ stack[p].call >= 1
    BY <1>6, CallsAssumption DEF RedZone, EmuStackTop, ActFrame
  <2>2. stack[p].call - 1 \in Int /\ stack[p].call - 1 >= 0
    BY <2>1
  <2>3. Floor(stack[p].call - 1) \in Int /\ Floor(stack[p].call - 1) <= Floor(0)
    <3>1. 0 \in Int /\ 0 <= stack[p].call - 1
      BY <2>2
    <3> QED
      BY <2>2, <3>1, FloorInt, FloorFalls
  <2>4. Floor(0) = EmuStackTop
    <3>1. Depth \in Nat
      BY FloorInt
    <3>2. Depth * 0 = 0
      BY <3>1
    <3> QED
      BY <2>1, <3>2 DEF Floor
  <2>5. CASE Nested(stack, p, e)
    <3>1. /\ stack[p].saved.sp \in Floor(stack[p].call - 1)..EmuStackTop
          /\ stack[p].base = stack[p].saved.sp - RedZone
      BY <1>5, <2>5 DEF SavedFits
    <3> QED
      BY <2>1, <2>3, <3>1
  <2>6. CASE ~Nested(stack, p, e)
    <3>1. stack[p].base = EmuStackTop
      BY <1>5, <2>6 DEF SavedFits
    <3> QED
      BY <2>1, <2>3, <2>4, <3>1
  <2> QED
    BY <2>5, <2>6
<1> QED
  BY <1>1, <1>3, <1>4, <1>6, <1>7 DEF EngineOK

\* What a function f, directly above its activation a, is: its frame, and
\* where its words are.
Runs(a, f, e, c) ==
  /\ ActFrame(a) /\ a.st = "run" /\ a.cpu = e /\ a.call = f.call
  /\ EmuFrame(f) /\ f.cpu = e /\ f.call <= c
  /\ f.entry = a.base - BlockLen(e)

Places(a, f, e, R, c) ==
  /\ {LocalWords, StackWords, a.base, f.entry, BodySp(f), f.call, R.sp, c} \subseteq Int
  /\ LocalWords >= 0 /\ RedZone = 16 /\ f.n \in 0..16 /\ c >= 0 /\ f.call <= c /\ c <= MaxCalls
  /\ EmuStackTop = StackWords + 1
  /\ BodySp(f) = f.entry - LocalWords - 2
  /\ f.entry = a.base - BlockLen(e)
  /\ BlockLen(e) = (IF e = x64 THEN 17 ELSE 8)
  /\ ArgRegs(e) = (IF e = x64 THEN 4 ELSE 8)
  /\ a.base <= EmuStackTop /\ R.sp <= a.base
  /\ BodySp(f) >= Floor(c) /\ Floor(c) \in Int /\ BodySp(f) >= 17

\* An emulated function with only native frames above has its engine's registers now.
LEMMA NowEmu ==
  ASSUME Room, Shape, Words, NEW p \in 1..Len(stack), p + 1 <= Len(stack), NEW e,
         EmuFrame(stack[p + 1]), stack[p + 1].cpu = e,
         \A k \in (p + 2)..Len(stack) : stack[k].kind \in {"native", "event"}
  PROVE  /\ e \in Engines /\ Runs(stack[p], stack[p + 1], e, calls)
         /\ Places(stack[p], stack[p + 1], e, regs[e], calls)
         /\ EmuOK(stack[p + 1], regs[e], mem[e]) /\ ActOK(stack[p], regs[e])
         /\ EngineOK(stack, regs[e], mem[e], calls, e)
         /\ RegFile(regs[e]) /\ regs[e].sp \in Floor(calls)..EmuStackTop
         /\ DOMAIN mem[e] = 1..StackWords
         /\ Owns(stack[p], e)
<1> DEFINE f == stack[p + 1]
           a == stack[p]
<1>1. StackOK(stack) /\ Numbered(stack, calls) /\ Len(stack) \in Nat /\ calls \in 0..MaxCalls
      /\ MaxCalls \in Nat
  BY TopKinds DEF Shape
<1>2. Settled(stack) /\ EnginesOK
  BY DEF Words
<1>3. e \in Engines /\ f.kind = "emu"
  BY DEF EmuFrame
<1>4. p + 1 \in 2..Len(stack) /\ (p + 1) - 1 = p /\ p + 1 \in 1..Len(stack)
  BY <1>1
<1>5. Link(a, f)
  BY <1>1, <1>4 DEF StackOK
<1>6. FrameOK(a) /\ FrameOK(f) /\ f.call <= calls
  BY <1>1, <1>4 DEF StackOK, Numbered, Within
<1>7. ActFrame(a) /\ a.st = "run" /\ a.cpu = e /\ a.call = f.call
  BY <1>3, <1>5, <1>6 DEF Link, FrameOK, NativeFrame, EmuFrame
<1>8. Owns(a, e) /\ IsEmu(f, e)
  BY <1>3, <1>7 DEF Owns, ActFrame, IsEmu
<1>9. f.entry = a.base - BlockLen(e)
  BY <1>2, <1>3, <1>4 DEF Settled, Based
<1>10. \A k \in (p + 1)..Len(stack) : ~Owns(stack[k], e)
  <2> SUFFICES ASSUME NEW k \in (p + 1)..Len(stack)
               PROVE  ~Owns(stack[k], e)
    OBVIOUS
  <2>1. CASE k = p + 1
    BY <1>3, <2>1 DEF Owns
  <2>2. CASE k # p + 1
    <3>1. k \in (p + 2)..Len(stack)
      BY <2>2
    <3> QED
      BY <3>1 DEF Owns
  <2> QED
    BY <2>1, <2>2
<1>11. /\ ActOK(a, regs[e]) /\ EngineOK(stack, regs[e], mem[e], calls, e)
       /\ RegFile(regs[e]) /\ regs[e].sp \in Floor(calls)..EmuStackTop
       /\ DOMAIN mem[e] = 1..StackWords
       /\ a.base <= EmuStackTop /\ a.base >= Floor(a.call - 1) - RedZone
       /\ \A i \in p..Len(stack) : IsEmu(stack[i], e) => EmuOK(stack[i], regs[e], mem[e])
  BY <1>2, <1>3, <1>8, <1>10, NowAct
<1>12. EmuOK(f, regs[e], mem[e])
  <2>1. p + 1 \in p..Len(stack)
    BY <1>4
  <2> QED
    BY <1>8, <1>11, <2>1
<1>13. Places(a, f, e, regs[e], calls)
  <2>1. BodySp(f) >= Floor(f.call) /\ f.entry + BlockLen(f.cpu) <= EmuStackTop /\ f.call <= MaxCalls
    BY <1>1, <1>6, <1>12 DEF EmuOK, EmuFrame
  <2>2. /\ BodySp(f) = f.entry - LocalWords - 2 /\ BodySp(f) >= RedZone + 1
        /\ {LocalWords, StackWords, f.entry, BodySp(f), f.call} \subseteq Int
        /\ LocalWords >= 0 /\ RedZone = 16 /\ f.n \in 0..16
    BY <2>1, WordsInside
  <2>3. Floor(calls) <= Floor(f.call) /\ Floor(calls) \in Int /\ Floor(f.call) \in Int
    <3>1. f.call \in Int /\ calls \in Int /\ f.call <= calls
      BY <1>1, <1>6, <2>2
    <3> QED
      BY <3>1, FloorFalls, FloorInt
  <2>4. a.base \in Int /\ regs[e].sp \in Int /\ regs[e].sp <= a.base
    BY <1>7, <1>11 DEF ActFrame, RegFile, ActOK
  <2>5. BlockLen(e) = (IF e = x64 THEN 17 ELSE 8) /\ ArgRegs(e) = (IF e = x64 THEN 4 ELSE 8)
    BY DEF BlockLen, ArgRegs
  <2>6. BodySp(f) >= Floor(calls) /\ BodySp(f) >= 17
    BY <2>1, <2>2, <2>3
  <2> HIDE DEF a, f
  <2> QED
    BY <1>1, <1>6, <1>9, <1>11, <2>2, <2>3, <2>4, <2>5, <2>6 DEF Places, EmuStackTop
<1> QED
  BY <1>3, <1>6, <1>7, <1>8, <1>9, <1>11, <1>12, <1>13 DEF Runs

\* A step of the function directly above activation p, or to and from native
\* code it calls: registers R2, memory m2, its frame f.
LEMMA FunctionKeeps ==
  ASSUME Room, Shape, Words, NEW p \in 1..Len(stack), NEW e \in Engines,
         EngineOK(stack, regs[e], mem[e], calls, e), Owns(stack[p], e), stack[p].st = "run",
         NEW s2, Len(s2) \in Nat, p + 1 <= Len(s2), Agree(stack, s2, p),
         NEW R2, NEW m2, NEW c2 \in Int, EmuOK(s2[p + 1], R2, m2), s2[p + 1].kind = "emu",
         \A k \in (p + 2)..Len(s2) : s2[k].kind \in {"native", "event"},
         RegFile(R2), R2.sp \in Floor(c2)..EmuStackTop, R2.sp <= stack[p].base,
         DOMAIN m2 = 1..StackWords, SameFrom(mem[e], m2, stack[p].base)
  PROVE  EngineOK(s2, R2, m2, c2, e)
<1>1. s2[p] = stack[p] /\ Agree(stack, s2, p - 1) /\ p <= Len(s2)
  BY DEF Agree
<1>2. ActOK(s2[p], R2)
  BY <1>1 DEF ActOK
<1>3. ASSUME NEW k \in (p + 1)..Len(s2)
      PROVE  /\ ~Owns(s2[k], e) /\ ~Waits(s2[k], e)
             /\ IsEmu(s2[k], e) => EmuOK(s2[k], R2, m2)
  <2>1. CASE k = p + 1
    BY <2>1 DEF Owns, Waits
  <2>2. CASE k # p + 1
    <3>1. k \in (p + 2)..Len(s2)
      BY <2>2
    <3> QED
      BY <3>1 DEF Owns, Waits, IsEmu
  <2> QED
    BY <2>1, <2>2
<1>4. StackOK(stack) /\ Numbered(stack, calls)
  BY DEF Shape
<1>5. /\ Owns(s2[p], e) /\ s2[p].saved = stack[p].saved /\ s2[p].base = stack[p].base
      /\ s2[p].call = stack[p].call
  BY <1>1
<1>6. QuietAbove(s2, p, e, R2, m2)
  BY <1>3 DEF QuietAbove
<1> QED
  BY <1>1, <1>2, <1>4, <1>5, <1>6, OwnKeeps

-----------------------------------------------------------------------------
(* The words stay: steps of native code and of activations.                *)

LEMMA EnginesMove ==
  ASSUME EnginesOK, NEW e \in Engines, NEW R2, NEW m2, Moves(regs, regs', e, R2),
         mem' = [mem EXCEPT ![e] = m2] \/ (mem' = mem /\ m2 = mem[e]),
         EngineOK(stack', R2, m2, calls', e),
         \A x \in Engines : x # e => EngineOK(stack', regs[x], mem[x], calls', x)
  PROVE  EnginesOK'
<1>1. DOMAIN mem = Engines
  BY DEF EnginesOK
<1>2. DOMAIN mem' = Engines /\ mem'[e] = m2 /\ \A x \in Engines : x # e => mem'[x] = mem[x]
  BY <1>1
<1>3. \A x \in Engines : EngineOK(stack', regs'[x], mem'[x], calls', x)
  BY <1>2 DEF Moves
<1> QED
  BY <1>2, <1>3 DEF EnginesOK

\* Steps that change no registers and no memory ask only about the frames.
LEMMA EnginesStay ==
  ASSUME EnginesOK, regs' = regs, mem' = mem,
         \A x \in Engines : EngineOK(stack', regs[x], mem[x], calls', x)
  PROVE  EnginesOK'
  BY DEF EnginesOK

\* A call of emulated code keeps the words.
LEMMA CallWords ==
  ASSUME Shape, Words, CallEmulated \/ TestWrappedCb
  PROVE  Words'
<1>1. /\ Top.kind = "native" /\ calls < MaxCalls /\ calls' = calls + 1 /\ regs' = regs /\ mem' = mem
      /\ NativeFrame(Top) /\ calls \in Nat /\ MaxCalls \in Nat
  BY TopKinds DEF CallEmulated, TestWrappedCb
<1> DEFINE g == [Top EXCEPT !.got = <<>>]
<1>2. PICK e \in Engines, n \in 0..MAX_ARGS, f \in Functions, st \in {"trap", "enter"} :
        stack' = Append(With(g), Activation(calls + 1, e, n, f, st))
  <2>1. CASE CallEmulated
    <3>1. PICK e \in Engines, n \in ArgCounts, f \in Functions :
            stack' = Append(With(g), Activation(calls', e, n, f, "trap"))
      BY <2>1 DEF CallEmulated
    <3>2. n \in 0..MAX_ARGS
      BY CallsAssumption
    <3> QED
      BY <1>1, <3>1, <3>2
  <2>2. CASE TestWrappedCb
    <3>1. PICK e \in Engines, f \in Functions :
            stack' = Append(With(g), Activation(calls', e, MAX_ARGS, f, "enter"))
      BY <2>2 DEF TestWrappedCb
    <3>2. MAX_ARGS \in 0..MAX_ARGS
      BY DEF MAX_ARGS
    <3> QED
      BY <1>1, <3>1, <3>2
  <2> QED
    BY <2>1, <2>2
<1>3. calls + 1 \in Nat /\ calls + 1 >= 1
  BY <1>1
<1> DEFINE a == Activation(calls + 1, e, n, f, st)
           s == With(g)
<1>4. ActFrame(a) /\ a.call = calls + 1 /\ a.st = st /\ a.kind = "act" /\ a.cpu = e
  BY <1>3, ActivationIs
<1>5. /\ NativeFrame(g) /\ g.kind = "native" /\ g.call = Top.call /\ g.n = Top.n
      /\ g.args = Top.args /\ g.got = <<>>
  BY <1>1 DEF NativeFrame
<1>6. stack' = Append(s, a)
  BY <1>2
<1>7. Settled(stack) /\ EnginesOK /\ Len(stack) \in 1..Len(stack) /\ Top = stack[Len(stack)] /\ IsSeq(stack)
      /\ Len(stack) >= 1
  BY TopKinds DEF Words
<1>8. Delivered(g) /\ Stands(Top, g)
  <2>1. Delivered(Top)
    BY <1>7 DEF Settled
  <2> HIDE DEF g
  <2> QED
    BY <1>1, <1>5, <2>1 DEF Delivered, Stands
<1>9. Delivered(a)
  BY <1>4 DEF Delivered
<1> HIDE DEF g, a
<1>10. Settled(s) /\ IsSeq(s) /\ Len(s) >= 1
  BY <1>7, <1>8, SettledWith, WithStep
<1>11. \A x \in Engines : EngineOK(s, regs[x], mem[x], calls, x)
  <2> SUFFICES ASSUME NEW x \in Engines PROVE EngineOK(s, regs[x], mem[x], calls, x)
    OBVIOUS
  <2>1. ~Of(Top, x) /\ ~Of(g, x) /\ EngineOK(stack, regs[x], mem[x], calls, x) /\ calls \in calls..MaxCalls
    BY <1>1, <1>5, <1>7 DEF Of, EnginesOK
  <2> QED
    BY <2>1, WithOther
<1> HIDE DEF s
<1>12. Settled(Append(s, a))
  BY <1>4, <1>9, <1>10, SettledAbove
<1>13. \A x \in Engines : EngineOK(Append(s, a), regs[x], mem[x], calls + 1, x)
  <2> SUFFICES ASSUME NEW x \in Engines PROVE EngineOK(Append(s, a), regs[x], mem[x], calls + 1, x)
    OBVIOUS
  <2>1. EngineOK(s, regs[x], mem[x], calls, x) /\ ~Owns(a, x) /\ ~IsEmu(a, x)
    BY <1>4, <1>11 DEF Owns, IsEmu
  <2>2. regs[x].sp >= Floor(calls)
    BY <2>1 DEF EngineOK
  <2>3. a.call - 1 = calls
    BY <1>1, <1>4
  <2>4. regs[x].sp >= Floor(a.call - 1)
    BY <2>2, <2>3
  <2>5. calls \in Int /\ calls + 1 \in Int /\ calls <= calls + 1
    BY <1>1
  <2> QED
    BY <1>10, <2>1, <2>4, <2>5, AboveOther
<1>14. EnginesOK'
  BY <1>1, <1>6, <1>7, <1>13, EnginesStay
<1> QED
  BY <1>6, <1>12, <1>14 DEF Words

\* So does an event.
LEMMA EventWords ==
  ASSUME Shape, Words, EventNotify
  PROVE  Words'
<1>1. /\ calls < MaxCalls /\ calls' = calls + 1 /\ regs' = regs /\ mem' = mem
      /\ calls \in Nat /\ MaxCalls \in Nat
  BY TopKinds DEF EventNotify
<1>2. PICK e \in Engines, f \in Functions :
        stack' = stack \o <<Native("event", 0, 0, <<>>), Activation(calls', e, 2, f, "enter")>>
  BY DEF EventNotify
<1>3. calls + 1 \in Nat /\ calls + 1 >= 1 /\ 2 \in 0..MAX_ARGS
  BY <1>1 DEF MAX_ARGS
<1> DEFINE a == Activation(calls + 1, e, 2, f, "enter")
           g == Native("event", 0, 0, <<>>)
           s == Append(stack, g)
<1>4. ActFrame(a) /\ a.call = calls + 1 /\ a.st = "enter" /\ a.kind = "act" /\ a.cpu = e
  BY <1>3, ActivationIs
<1>5. g.kind = "event" /\ g.got = <<>> /\ g.call = 0
  BY DEF Native
<1>7. Settled(stack) /\ EnginesOK /\ IsSeq(stack) /\ Len(stack) >= 1
  BY TopKinds DEF Words
<1>8. Delivered(g) /\ Delivered(a)
  <2> HIDE DEF g, a
  <2> QED
    BY <1>4, <1>5 DEF Delivered
<1> HIDE DEF g, a
<1>6. stack' = Append(s, a)
  <2>1. PICK S : stack \in Seq(S)
    BY <1>7 DEF IsSeq
  <2>2. stack \in Seq(S \cup {g, a})
    BY <2>1
  <2>3. stack \o <<g, a>> = Append(s, a)
    BY <2>2
  <2> QED
    BY <1>1, <1>2, <2>3 DEF g, a
<1>10. Settled(s) /\ IsSeq(s) /\ Len(s) >= 1
  <2>1. Len(stack) \in Nat
    BY TopKinds
  <2> QED
    BY <1>5, <1>7, <1>8, <2>1, SettledAbove, AppendStep
<1>11. \A x \in Engines : EngineOK(s, regs[x], mem[x], calls, x)
  <2> SUFFICES ASSUME NEW x \in Engines PROVE EngineOK(s, regs[x], mem[x], calls, x)
    OBVIOUS
  <2>1. ~Owns(g, x) /\ ~IsEmu(g, x) /\ ~Waits(g, x) /\ EngineOK(stack, regs[x], mem[x], calls, x)
        /\ calls \in Int /\ calls <= calls
    BY <1>1, <1>5, <1>7 DEF Owns, IsEmu, Waits, EnginesOK
  <2> QED
    BY <1>7, <2>1, AboveOther
<1> HIDE DEF s
<1>12. Settled(Append(s, a))
  BY <1>4, <1>8, <1>10, SettledAbove
<1>13. \A x \in Engines : EngineOK(Append(s, a), regs[x], mem[x], calls + 1, x)
  <2> SUFFICES ASSUME NEW x \in Engines PROVE EngineOK(Append(s, a), regs[x], mem[x], calls + 1, x)
    OBVIOUS
  <2>1. EngineOK(s, regs[x], mem[x], calls, x) /\ ~Owns(a, x) /\ ~IsEmu(a, x)
    BY <1>4, <1>11 DEF Owns, IsEmu
  <2>2. regs[x].sp >= Floor(calls)
    BY <2>1 DEF EngineOK
  <2>3. a.call - 1 = calls
    BY <1>1, <1>4
  <2>4. regs[x].sp >= Floor(a.call - 1)
    BY <2>2, <2>3
  <2>5. calls \in Int /\ calls + 1 \in Int /\ calls <= calls + 1
    BY <1>1
  <2> QED
    BY <1>10, <2>1, <2>4, <2>5, AboveOther
<1>14. EnginesOK'
  BY <1>1, <1>6, <1>7, <1>13, EnginesStay
<1> QED
  BY <1>6, <1>12, <1>14 DEF Words

\* So does a trap, recovered or given up.
LEMMA TrapWords ==
  ASSUME Shape, Words, Trap
  PROVE  Words'
<1>1. PICK g : /\ stack' = With(g) /\ ActFrame(g) /\ g.st \in {"dead", "enter"}
               /\ g.call = Top.call /\ g.cpu = Top.cpu /\ g.n = Top.n
  BY TrapStep
<1>2. /\ Top.kind = "act" /\ Top.st = "trap" /\ ActFrame(Top) /\ calls' = calls /\ regs' = regs /\ mem' = mem
      /\ calls \in Int /\ calls \in calls..MaxCalls /\ calls <= calls
  BY TopKinds DEF Trap, Is
<1>3. Settled(stack) /\ EnginesOK
  BY DEF Words
<1>4. Delivered(g) /\ Stands(Top, g) /\ g.kind = "act"
  BY <1>1, <1>2, StandsIn DEF Delivered, ActFrame
<1>5. Settled(With(g))
  BY <1>3, <1>4, SettledWith
<1>6. \A x \in Engines : EngineOK(With(g), regs[x], mem[x], calls, x)
  <2> SUFFICES ASSUME NEW x \in Engines PROVE EngineOK(With(g), regs[x], mem[x], calls, x)
    OBVIOUS
  <2>1. EngineOK(stack, regs[x], mem[x], calls, x)
    BY <1>3 DEF EnginesOK
  <2>2. CASE x # Top.cpu
    <3>1. ~Of(Top, x) /\ ~Of(g, x)
      BY <1>1, <2>2 DEF Of
    <3> QED
      BY <1>2, <2>1, <3>1, WithOther
  <2>3. CASE x = Top.cpu
    <3> DEFINE n == Len(stack)
               t == With(g)
               q == n - 1
    <3>1. IsSeq(stack) /\ n \in Nat /\ n >= 1 /\ Top = stack[n]
      BY TopKinds
    <3>2. Len(t) = n /\ t[n] = g /\ \A k \in 1..(n - 1) : t[k] = stack[k]
      BY <3>1, WithStep DEF Agree
    <3> HIDE DEF t
    <3>3. SameFor(stack, t, x, q)
      BY <3>1, <3>2 DEF SameFor
    <3>4. Waits(Top, x) /\ ~Owns(Top, x)
      BY <1>2, <2>3 DEF Waits, Owns
    <3>5. Nested(t, n, x) <=> Nested(stack, n, x)
      <4>1. q \in Nat /\ n \in 1..(q + 1)
        BY <3>1
      <4> QED
        BY <3>3, <4>1, NestedSame
    <3>6. Nested(stack, n, x) => regs[x].sp >= Floor(Top.call - 1)
      <4>1. Sees(stack, regs[x], x, n, regs[x])
        BY <3>1 DEF Sees, NoneOwns
      <4>2. n \in 1..Len(stack)
        BY <3>1
      <4> QED
        BY <2>1, <3>1, <3>4, <4>1, <4>2 DEF EngineOK, ViewsOK
    <3>7. \A k \in (q + 1)..Len(stack) : ~Owns(stack[k], x)
      <4>1. \A k \in (q + 1)..Len(stack) : k = n
        BY <3>1
      <4> QED
        BY <3>1, <3>4, <4>1
    <3>8. \A k \in (q + 1)..Len(t) :
            /\ ~Owns(t[k], x) /\ ~IsEmu(t[k], x)
            /\ Waits(t[k], x) /\ Nested(t, k, x) => regs[x].sp >= Floor(t[k].call - 1)
      <4>1. \A k \in (q + 1)..Len(t) : k = n
        BY <3>1, <3>2
      <4>2. ~Owns(g, x) /\ ~IsEmu(g, x)
        BY <1>1, <1>4 DEF Owns, IsEmu
      <4>3. Nested(t, n, x) => regs[x].sp >= Floor(g.call - 1)
        BY <1>1, <3>5, <3>6
      <4> QED
        BY <3>2, <4>1, <4>2, <4>3
    <3>9. q \in Nat /\ q <= Len(stack) /\ q <= Len(t) /\ Len(t) \in Nat /\ Len(stack) \in Nat
      BY <3>1, <3>2
    <3> HIDE DEF q, n
    <3>10. EngineOK(t, regs[x], mem[x], calls, x)
      BY <1>2, <2>1, <3>3, <3>7, <3>8, <3>9, QuietKeeps
    <3> QED
      BY <3>10 DEF t
  <2> QED
    BY <2>2, <2>3
<1>7. EnginesOK'
  BY <1>1, <1>2, <1>3, <1>6, EnginesStay
<1> QED
  BY <1>1, <1>5, <1>7 DEF Words

\* So does the return of an event.
LEMMA EventReturnWords ==
  ASSUME Shape, Words, EventReturn
  PROVE  Words'
<1> DEFINE n == Len(stack)
           t == Front(stack)
           q == n - 1
<1>1. /\ Top.kind = "event" /\ stack' = t /\ regs' = regs /\ mem' = mem /\ calls' = calls
      /\ calls \in Int /\ calls <= calls
  BY TopKinds DEF EventReturn, Is
<1>2. n \in Nat /\ n >= 2 /\ Top = stack[n] /\ IsSeq(stack)
  BY <1>1, TopKinds
<1>3. IsSeq(t) /\ Len(t) = n - 1 /\ Agree(stack, t, n - 1)
  BY <1>2, FrontStep
<1>4. \A k \in 1..(n - 1) : t[k] = stack[k]
  BY <1>3 DEF Agree
<1> HIDE DEF t
<1>5. Settled(stack) /\ EnginesOK
  BY DEF Words
<1>6. Settled(t)
  <2>1. \A i \in 1..Len(t) : Delivered(t[i])
    <3> SUFFICES ASSUME NEW i \in 1..Len(t) PROVE Delivered(t[i])
      OBVIOUS
    <3>1. i \in 1..n /\ t[i] = stack[i]
      BY <1>2, <1>3, <1>4
    <3> QED
      BY <1>5, <3>1 DEF Settled
  <2>2. Based(t)
    <3> SUFFICES ASSUME NEW k \in 2..Len(t), t[k].kind = "emu"
                 PROVE  t[k].entry = t[k - 1].base - BlockLen(t[k].cpu)
      BY DEF Based
    <3>1. k \in 2..n /\ t[k] = stack[k] /\ t[k - 1] = stack[k - 1]
      BY <1>2, <1>3, <1>4
    <3> QED
      BY <1>5, <3>1 DEF Settled, Based
  <2> QED
    BY <2>1, <2>2 DEF Settled
<1>7. \A x \in Engines : EngineOK(t, regs[x], mem[x], calls, x)
  <2> SUFFICES ASSUME NEW x \in Engines PROVE EngineOK(t, regs[x], mem[x], calls, x)
    OBVIOUS
  <2>1. EngineOK(stack, regs[x], mem[x], calls, x)
    BY <1>5 DEF EnginesOK
  <2>2. SameFor(stack, t, x, q)
    BY <1>4 DEF SameFor
  <2>3. \A k \in (q + 1)..Len(stack) : ~Owns(stack[k], x)
    <3>1. \A k \in (q + 1)..Len(stack) : k = n
      BY <1>2
    <3>2. ~Owns(Top, x)
      BY <1>1 DEF Owns
    <3> QED
      BY <1>2, <3>1, <3>2
  <2>4. /\ q \in Nat /\ q <= Len(stack) /\ q <= Len(t) /\ Len(t) \in Nat /\ Len(stack) \in Nat
        /\ \A k \in (q + 1)..Len(t) : FALSE
    BY <1>2, <1>3
  <2> HIDE DEF q, n
  <2> QED
    BY <1>1, <2>1, <2>2, <2>3, <2>4, QuietKeeps
<1>8. EnginesOK'
  BY <1>1, <1>5, <1>7, EnginesStay
<1> QED
  BY <1>1, <1>6, <1>8 DEF Words

\* What an activation was nested in.
LEMMA ContextsNested ==
  ASSUME Shape, Top.kind = "act", Top.st = "enter", NEW e, e = Top.cpu
  PROVE  Contexts(e) > 1 <=> Nested(stack, Len(stack), e)
<1> DEFINE n == Len(stack)
           C == {i \in DOMAIN stack : /\ stack[i].kind = "act" /\ stack[i].cpu = e
                                      /\ stack[i].st \notin {"trap", "dead"}}
<1>1. n \in Nat /\ n >= 1 /\ Top = stack[n] /\ IsSeq(stack)
  BY TopKinds
<1>2. DOMAIN stack = 1..n
  BY <1>1 DEF IsSeq
<1>3. Contexts(e) = Cardinality(C)
  BY DEF Contexts
<1>4. n \in C /\ C \subseteq 1..n
  BY <1>1, <1>2
<1>5. IsFiniteSet(C) /\ Cardinality(C) \in Nat
  <2>1. 1 \in Int /\ n \in Int
    BY <1>1
  <2>2. IsFiniteSet(1..n)
    BY <2>1, FS_Interval
  <2> QED
    BY <1>4, <2>2, FS_Subset, FS_CardinalityType
<1>6. \A i \in 1..n : i \in C <=> Counted(stack[i], e)
  BY <1>2 DEF Counted
<1>7. Nested(stack, n, e) <=> \E i \in C : i # n
  BY <1>1, <1>4, <1>6 DEF Nested
<1> HIDE DEF C, n
<1>8. CASE \E i \in C : i # n
  <2>1. PICK i \in C : i # n
    BY <1>8
  <2>2. Cardinality({i, n}) = 2
    <3>1. IsFiniteSet({n}) /\ Cardinality({n}) = 1 /\ i \notin {n}
      BY <2>1, FS_Singleton
    <3>2. {i, n} = {n} \cup {i}
      OBVIOUS
    <3> QED
      BY <3>1, <3>2, FS_AddElement
  <2>3. Cardinality({i, n}) <= Cardinality(C)
    <3>1. {i, n} \subseteq C
      BY <1>4, <2>1
    <3> QED
      BY <1>5, <3>1, FS_Subset
  <2>4. Contexts(e) > 1
    BY <1>3, <1>5, <2>2, <2>3
  <2> QED
    BY <1>7, <1>8, <2>4 DEF n
<1>9. CASE ~\E i \in C : i # n
  <2>1. C = {n}
    BY <1>4, <1>9
  <2>2. Cardinality(C) = 1
    BY <2>1, FS_Singleton
  <2>3. ~(Contexts(e) > 1)
    BY <1>3, <2>2
  <2> QED
    BY <1>7, <1>9, <2>3 DEF n
<1> QED
  BY <1>8, <1>9

\* So does SaveOrReset.
LEMMA SaveWords ==
  ASSUME Shape, Words, SaveOrReset
  PROVE  Words'
<1> DEFINE n == Len(stack)
           e == Top.cpu
<1>1. PICK g, r : /\ stack' = With(g) /\ ActFrame(g) /\ g.st = "pre" /\ g.call = Top.call
                  /\ g.cpu = e /\ g.n = Top.n /\ g.base = r.sp
                  /\ ActFrame(Top) /\ Top.st = "enter" /\ e \in Engines
                  /\ RegFile(r) /\ regs' = [regs EXCEPT ![e] = r]
                  /\ IF Contexts(e) > 1 THEN r.sp = regs[e].sp - RedZone /\ g.saved = regs[e]
                                        ELSE r.sp = EmuStackTop /\ g.saved = NoRegisters
  BY SaveOrResetStep
<1>2. mem' = mem /\ calls' = calls /\ calls \in calls..MaxCalls
  BY TopKinds DEF SaveOrReset
<1>3. Settled(stack) /\ EnginesOK /\ Moves(regs, regs', e, r)
  BY <1>1, MovesTo DEF Words, Shape
<1>4. Delivered(g) /\ Stands(Top, g)
  BY <1>1, StandsIn DEF Delivered, ActFrame
<1>5. Settled(With(g))
  BY <1>3, <1>4, SettledWith
<1>6. EngineOK(With(g), r, mem[e], calls, e)
  <2>1. n \in Nat /\ n >= 1 /\ Top = stack[n] /\ IsSeq(stack) /\ Top.kind = "act"
    BY <1>1, TopKinds DEF ActFrame
  <2>2. Contexts(e) > 1 <=> Nested(stack, Len(stack), e)
    BY <1>1, <2>1, ContextsNested
  <2>3. Prepares(stack, Top, g, regs[e], r, e)
    BY <1>1, <2>2 DEF Prepares, Owns, ActFrame
  <2>4. Len(With(g)) = n /\ With(g)[n] = g /\ Agree(stack, With(g), n - 1)
    BY <2>1, WithStep
  <2>5. EngineOK(stack, regs[e], mem[e], calls, e) /\ StackOK(stack) /\ Numbered(stack, calls)
    BY <1>1, <1>3 DEF EnginesOK, Shape
  <2>6. n = Len(stack) /\ e = Top.cpu
    OBVIOUS
  <2> HIDE DEF n, e
  <2> QED
    BY <1>1, <2>1, <2>3, <2>4, <2>5, <2>6, SaveKeeps
<1>7. \A x \in Engines : x # e => EngineOK(With(g), regs[x], mem[x], calls, x)
  <2> SUFFICES ASSUME NEW x \in Engines, x # e PROVE EngineOK(With(g), regs[x], mem[x], calls, x)
    OBVIOUS
  <2>1. ~Of(Top, x) /\ ~Of(g, x) /\ EngineOK(stack, regs[x], mem[x], calls, x)
    BY <1>1, <1>3 DEF Of, EnginesOK
  <2> QED
    BY <1>2, <2>1, WithOther
<1> HIDE DEF e
<1>8. EnginesOK'
  BY <1>1, <1>2, <1>3, <1>6, <1>7, EnginesMove
<1> QED
  BY <1>1, <1>5, <1>8 DEF Words

\* So does the end of an activation.
LEMMA RestoreWords ==
  ASSUME Shape, Words, Restore
  PROVE  Words'
<1> DEFINE n == Len(stack)
           e == Top.cpu
<1>1. PICK g, r : /\ stack' = Popped(g) /\ NativeFrame(g) /\ Len(stack) >= 2
                  /\ g.kind = Under.kind /\ g.call = Under.call /\ g.n = Under.n /\ g.args = Under.args
                  /\ g.got = <<Top.call, Top.ret>> /\ NativeFrame(Under)
                  /\ ActFrame(Top) /\ Top.st = "restore" /\ e \in Engines
                  /\ r = (IF Top.saved = NoRegisters THEN regs[e] ELSE Top.saved)
                  /\ RegFile(r) /\ Files(regs') /\ regs'[e] = r /\ mem' = mem
                  /\ \A x \in Engines : x # e => regs'[x] = regs[x]
  BY RestoreStep
<1>2. calls' = calls
  BY DEF Restore
<1>3. Settled(stack) /\ EnginesOK /\ Moves(regs, regs', e, r)
  BY <1>1 DEF Words, Moves
<1>4. n \in Nat /\ n >= 2 /\ Top = stack[n] /\ Under = stack[n - 1] /\ IsSeq(stack)
  BY <1>1, TopKinds DEF Under
<1>5. Delivered(g) /\ Stands(Under, g)
  <2>1. n \in 1..n /\ n - 1 \in 1..n
    BY <1>4
  <2>2. Delivered(Top) /\ Delivered(Under)
    BY <1>3, <1>4, <2>1 DEF Settled
  <2>3. Top.ret \in {Result(Top.call), Unsupported}
    BY <1>1, <2>2 DEF Delivered, ActFrame
  <2>4. g.got[1] = Top.call /\ g.got[2] = Top.ret
    BY <1>1
  <2>5. g.kind = "native" => \A k \in 1..g.n : g.args[k] = Arg(g.call, k)
    BY <1>1, <2>2 DEF Delivered
  <2>6. Stands(Under, g)
    BY <1>1, StandsIn
  <2>7. g.kind # "act"
    BY <1>1 DEF NativeFrame
  <2> QED
    BY <2>3, <2>4, <2>5, <2>6, <2>7 DEF Delivered
<1>6. Settled(Popped(g))
  BY <1>1, <1>3, <1>5, SettledPopped
<1>7. EngineOK(Popped(g), r, mem[e], calls, e)
  <2>1. Len(Popped(g)) = n - 1 /\ Popped(g)[n - 1] = g /\ Agree(stack, Popped(g), n - 2)
    BY <1>4, PoppedStep
  <2>2. EngineOK(stack, regs[e], mem[e], calls, e) /\ StackOK(stack) /\ Numbered(stack, calls)
    BY <1>1, <1>3 DEF EnginesOK, Shape
  <2>3. ~Of(Under, e) /\ ~Of(g, e) /\ Owns(Top, e)
    BY <1>1 DEF Of, Owns, NativeFrame, ActFrame
  <2>4. n = Len(stack)
    OBVIOUS
  <2> HIDE DEF n, e
  <2> QED
    BY <1>1, <1>4, <2>1, <2>2, <2>3, <2>4, RestoreKeeps
<1>8. \A x \in Engines : x # e => EngineOK(Popped(g), regs[x], mem[x], calls, x)
  <2> SUFFICES ASSUME NEW x \in Engines, x # e PROVE EngineOK(Popped(g), regs[x], mem[x], calls, x)
    OBVIOUS
  <2>1. ~Of(Under, x) /\ ~Of(g, x) /\ ~Owns(Top, x) /\ EngineOK(stack, regs[x], mem[x], calls, x)
    BY <1>1, <1>3 DEF Of, Owns, NativeFrame, EnginesOK
  <2> QED
    BY <1>1, <2>1, PoppedOther
<1> HIDE DEF e
<1>9. EnginesOK'
  BY <1>1, <1>2, <1>3, <1>7, <1>8, EnginesMove
<1> QED
  BY <1>1, <1>6, <1>9 DEF Words

\* So does EmuThunkPost.
LEMMA PostWordsStay ==
  ASSUME Room, Shape, Words, EmuThunkPost
  PROVE  Words'
<1> DEFINE n == Len(stack)
           e == Top.cpu
           sp == regs[e].sp + PostWords(e)
           r == [regs[e] EXCEPT !.sp = sp]
<1>1. PICK g : /\ stack' = With(g) /\ ActFrame(g) /\ g.st = "restore" /\ g.ret = regs[e].ret
               /\ g.call = Top.call /\ g.n = Top.n /\ g.cpu = e
               /\ g.base = Top.base /\ g.saved = Top.saved
               /\ ActFrame(Top) /\ Top.st = "post" /\ e \in Engines
               /\ RegFile(r)
               /\ regs' = [regs EXCEPT ![e] = r] /\ mem' = mem
  BY EmuThunkPostStep
<1>2. calls' = calls /\ calls \in calls..MaxCalls /\ calls \in Int
  BY TopKinds DEF EmuThunkPost
<1>3. Settled(stack) /\ EnginesOK /\ Moves(regs, regs', e, r)
  BY <1>1, MovesTo DEF Words, Shape
<1>4. n \in Nat /\ n >= 1 /\ Top = stack[n] /\ IsSeq(stack) /\ n \in 1..n
  BY TopKinds
<1>5. Owns(Top, e) /\ Owns(g, e)
  BY <1>1 DEF Owns, ActFrame
<1>6. /\ ActOK(Top, regs[e]) /\ EngineOK(stack, regs[e], mem[e], calls, e)
      /\ RegFile(regs[e]) /\ regs[e].sp \in Floor(calls)..EmuStackTop
      /\ DOMAIN mem[e] = 1..StackWords
      /\ Top.base <= EmuStackTop
  <2>1. \A k \in (n + 1)..Len(stack) : ~Owns(stack[k], e)
    BY <1>4
  <2> HIDE DEF e
  <2> QED
    BY <1>1, <1>3, <1>4, <1>5, <2>1, NowAct
<1>7. r.sp = Top.base /\ regs[e].ret = Result(Top.call) /\ Top.base \in Int /\ EmuStackTop \in Int
      /\ r.sp \in Floor(calls)..EmuStackTop
  <2>1. /\ regs[e].sp = Top.base - PostWords(e) /\ regs[e].ret = Result(Top.call) /\ Top.base \in Int
        /\ regs[e].sp \in Int
    BY <1>1, <1>6 DEF ActOK, ActFrame, RegFile
  <2>2. PostWords(e) \in Int /\ PostWords(e) >= 0
    BY DEF PostWords, MAX_ARGS
  <2>3. r.sp = sp
    BY <1>6 DEF RegFile
  <2>4. EmuStackTop \in Int /\ Floor(calls) \in Int
    BY <1>2, CallsAssumption, FloorInt DEF EmuStackTop
  <2>5. sp = Top.base
    BY <2>1, <2>2
  <2>6. regs[e].sp <= Top.base /\ regs[e].sp >= Floor(calls)
    BY <1>6, <2>1, <2>2, <2>4
  <2> QED
    BY <1>6, <2>1, <2>3, <2>4, <2>5, <2>6
<1>8. Delivered(g) /\ Stands(Top, g)
  <2>1. Stands(Top, g)
    BY <1>1, StandsIn
  <2> QED
    BY <1>1, <1>7, <2>1 DEF Delivered, ActFrame
<1>9. Settled(With(g))
  BY <1>3, <1>8, SettledWith
<1>10. EngineOK(With(g), r, mem[e], calls, e)
  <2>1. IsSeq(With(g)) /\ Len(With(g)) = n /\ With(g)[n] = g /\ Agree(stack, With(g), n - 1)
    BY <1>4, WithStep
  <2>2. ActOK(g, r)
    BY <1>1, <1>7 DEF ActOK
  <2>3. QuietAbove(With(g), n, e, r, mem[e])
    BY <1>4, <2>1 DEF QuietAbove
  <2>4. SameFrom(mem[e], mem[e], Top.base)
    BY DEF SameFrom
  <2>5. StackOK(stack) /\ Numbered(stack, calls) /\ n <= Len(With(g)) /\ Len(With(g)) \in Nat
    BY <1>4, <2>1 DEF Shape
  <2>6. n \in 1..Len(stack)
    BY <1>4
  <2> HIDE DEF n, e, r
  <2> QED
    BY <1>1, <1>2, <1>4, <1>5, <1>6, <1>7, <2>1, <2>2, <2>3, <2>4, <2>5, <2>6, OwnKeeps
<1>11. \A x \in Engines : x # e => EngineOK(With(g), regs[x], mem[x], calls, x)
  <2> SUFFICES ASSUME NEW x \in Engines, x # e PROVE EngineOK(With(g), regs[x], mem[x], calls, x)
    OBVIOUS
  <2>1. ~Of(Top, x) /\ ~Of(g, x) /\ EngineOK(stack, regs[x], mem[x], calls, x)
    BY <1>1, <1>3 DEF Of, EnginesOK
  <2> QED
    BY <1>2, <2>1, WithOther
<1> HIDE DEF e, r
<1>12. EnginesOK'
  BY <1>1, <1>2, <1>3, <1>10, <1>11, EnginesMove
<1> QED
  BY <1>1, <1>9, <1>12 DEF Words

-----------------------------------------------------------------------------
(* The words stay: steps of functions.                                     *)

\* m2 is m with the n words of s stored from a on.
PutIs(m2, m, a, s, n) ==
  /\ DOMAIN m2 = 1..StackWords
  /\ \A k \in 0..(n - 1) : a + k \in 1..StackWords => m2[a + k] = s[k + 1]
  /\ \A w \in 1..StackWords : w < a \/ w >= a + n => m2[w] = m[w]

\* What a block of words written to the stack changes.
LEMMA PutHolds ==
  ASSUME NEW m, DOMAIN m = 1..StackWords, NEW a \in Int, NEW s, NEW n \in Nat, Len(s) = n,
         NEW m2, m2 = Put(m, a, s)
  PROVE  PutIs(m2, m, a, s, n)
<1>1. /\ DOMAIN m2 = 1..StackWords
      /\ \A w \in 1..StackWords :
           /\ w \in a..(a + n - 1) => m2[w] = s[w - a + 1]
           /\ w \notin a..(a + n - 1) => m2[w] = m[w]
  BY DEF Put
<1>2. \A k \in 0..(n - 1) : a + k \in 1..StackWords => m2[a + k] = s[k + 1]
  <2> SUFFICES ASSUME NEW k \in 0..(n - 1), a + k \in 1..StackWords PROVE m2[a + k] = s[k + 1]
    OBVIOUS
  <2>1. a + k \in a..(a + n - 1) /\ (a + k) - a + 1 = k + 1
    OBVIOUS
  <2>2. m2[a + k] = s[(a + k) - a + 1]
    BY <1>1, <2>1
  <2> QED
    BY <2>1, <2>2
<1>3. \A w \in 1..StackWords : w < a \/ w >= a + n => m2[w] = m[w]
  <2> SUFFICES ASSUME NEW w \in 1..StackWords, w < a \/ w >= a + n PROVE m2[w] = m[w]
    OBVIOUS
  <2>1. w \notin a..(a + n - 1) /\ w \in Int
    OBVIOUS
  <2> QED
    BY <1>1, <2>1
<1> QED
  BY <1>1, <1>2, <1>3 DEF PutIs

\* The frame of a function that has been entered counts on what the pre-thunk
\* left for it.
LEMMA EnteredOK ==
  ASSUME Room, NEW f, ActFrame(f), f.call <= MaxCalls, NEW e, e = f.cpu,
         f.base >= Floor(f.call - 1) - RedZone, f.base <= EmuStackTop,
         NEW sp \in Int, sp + BlockLen(e) = f.base, NEW r, RegFile(r), NEW m, DOMAIN m = 1..StackWords,
         NEW m2, m2 = Put(m, sp, PreBlock(f)), NEW r2, r2 = PreRegs(e, r, f, sp)
  PROVE  /\ EmuOK(EnteredFrame(f, sp), r2, m2) /\ DOMAIN m2 = 1..StackWords
         /\ SameFrom(m, m2, f.base) /\ r2.sp = sp /\ sp >= Floor(f.call) /\ sp <= f.base
<1> DEFINE h == EnteredFrame(f, sp)
           l == BlockLen(e)
           b == PreBlock(f)
<1>1. /\ h.kind = "emu" /\ h.st = "new" /\ h.call = f.call /\ h.n = f.n /\ h.cpu = e /\ h.entry = sp
  BY DEF EnteredFrame
<1>2. /\ f.base \in Int /\ f.call \in Int /\ f.call >= 1 /\ f.n \in 0..16 /\ e \in Engines
      /\ LocalWords \in Int /\ LocalWords >= 0 /\ StackWords \in Int /\ RedZone = 16
      /\ EmuStackTop = StackWords + 1
  BY CallsAssumption DEF ActFrame, MAX_ARGS, RedZone, EmuStackTop
<1>3. /\ Len(b) = l /\ l \in {8, 17}
      /\ e = x64 => /\ b[1] = Magic
                    /\ \A k \in 5..16 : b[k + 1] = f.args[k]
      /\ e # x64 => \A k \in 9..16 : b[k - 9 + 1] = f.args[k]
      /\ SubSeq(f.args, 1, ArgRegs(e)) = [k \in 1..ArgRegs(e) |-> f.args[k]]
  BY PreBlockWords
<1>15. \A k \in 1..f.n : f.args[k] = Arg(f.call, k)
  BY PreBlockWords
<1>4. l = (IF e = x64 THEN 17 ELSE 8) /\ ArgRegs(e) = (IF e = x64 THEN 4 ELSE 8)
  BY DEF BlockLen, ArgRegs
<1>5. Floor(f.call) \in Int /\ Floor(f.call - 1) = Floor(f.call) + LocalWords + 35
      /\ Floor(f.call) >= 17
  <2>1. Floor(f.call) \in Int /\ Floor(f.call - 1) = Floor(f.call) + Depth
    BY <1>2, FloorInt
  <2>2. Floor(f.call) >= RedZone + 1
    BY <1>2, FloorInside
  <2> QED
    BY <1>2, <2>1, <2>2 DEF Depth
<1>6. /\ r2.sp = sp
      /\ r2.a = [k \in 1..ArgRegs(e) |-> f.args[k]]
      /\ e # x64 => r2.lr = Magic
  BY <1>3 DEF PreRegs, RegFile
<1> HIDE DEF h, b, l
<1>7. PutIs(m2, m, sp, b, l)
  <2>1. sp \in Int /\ l \in Nat /\ Len(b) = l
    BY <1>2, <1>3 DEF l
  <2>2. m2 = Put(m, sp, b)
    BY DEF b
  <2> HIDE DEF l
  <2> QED
    BY <2>1, <2>2, PutHolds
<1>8. sp \in Int /\ sp - LocalWords - 2 >= Floor(f.call) /\ sp + l <= EmuStackTop /\ sp <= f.base
      /\ sp >= Floor(f.call)
  <2> DEFINE u == Floor(f.call)
             v == Floor(f.call - 1)
             w == f.base
  <2>1. w \in Int /\ u \in Int /\ v = u + LocalWords + 35 /\ w >= v - 16 /\ w <= EmuStackTop /\ sp = w - l
        /\ l \in {8, 17}
    <3>1. w = sp + l /\ w \in Int /\ sp \in Int /\ l \in {8, 17}
      BY <1>2, <1>3 DEF l
    <3>2. u \in Int /\ v = u + LocalWords + 35 /\ w >= v - 16 /\ w <= EmuStackTop
      BY <1>2, <1>5
    <3> HIDE DEF u, v, w
    <3> QED
      BY <3>1, <3>2
  <2> HIDE DEF u, v, w
  <2>2. sp \in Int /\ sp - LocalWords - 2 >= u /\ sp + l <= EmuStackTop /\ sp <= w /\ sp >= u
    BY <1>2, <2>1
  <2> QED
    BY <2>2 DEF u, w
<1>9. \A k \in 0..(l - 1) : sp + k \in 1..StackWords /\ m2[sp + k] = b[k + 1]
  <2> SUFFICES ASSUME NEW k \in 0..(l - 1) PROVE sp + k \in 1..StackWords /\ m2[sp + k] = b[k + 1]
    OBVIOUS
  <2>1. l \in Int /\ sp >= 17
    BY <1>3, <1>5, <1>8
  <2>2. sp + k \in 1..StackWords
    BY <1>2, <1>8, <2>1
  <2> QED
    BY <1>7, <2>2 DEF PutIs
<1>10. SameFrom(m, m2, f.base)
  <2> SUFFICES ASSUME NEW w \in 1..StackWords, w >= f.base PROVE m2[w] = m[w]
    BY DEF SameFrom
  <2>1. f.base = sp + l
    <3>1. f.base \in Int /\ l \in Int
      BY <1>2, <1>3
    <3> QED
      BY <3>1 DEF l
  <2> QED
    BY <1>7, <2>1 DEF PutIs
<1>11. Arguments(e, r2, m2, f.call, f.n)
  <2> SUFFICES ASSUME NEW k \in 1..f.n
               PROVE  Arg(f.call, k) = IF k <= ArgRegs(e) THEN r2.a[k] ELSE m2[StackArg(e, r2.sp, k)]
    BY DEF Arguments
  <2>1. f.args[k] = Arg(f.call, k) /\ k \in 1..16
    <3>1. f.n \in 0..16
      BY <1>2
    <3> QED
      BY <1>15, <3>1
  <2>2. CASE k <= ArgRegs(e)
    <3>1. k \in 1..ArgRegs(e)
      BY <1>4, <2>2
    <3> QED
      BY <1>6, <2>1, <2>2, <3>1
  <2>3. CASE k > ArgRegs(e) /\ e = x64
    <3>1. k \in 5..16 /\ k \in 0..(l - 1)
      BY <1>4, <2>1, <2>3
    <3>2. StackArg(e, r2.sp, k) = sp + k
      BY <1>6, <2>3 DEF StackArg
    <3>3. m2[sp + k] = b[k + 1] /\ b[k + 1] = f.args[k]
      BY <1>3, <1>9, <2>3, <3>1
    <3> QED
      BY <1>4, <2>1, <2>3, <3>2, <3>3
  <2>4. CASE k > ArgRegs(e) /\ e # x64
    <3>1. k \in 9..16 /\ k - 9 \in 0..(l - 1)
      BY <1>4, <2>1, <2>4
    <3>2. StackArg(e, r2.sp, k) = sp + (k - 9)
      BY <1>6, <1>8, <2>4, <3>1 DEF StackArg
    <3>3. m2[sp + (k - 9)] = b[k - 9 + 1] /\ b[k - 9 + 1] = f.args[k]
      BY <1>3, <1>9, <2>4, <3>1
    <3> QED
      BY <1>4, <2>1, <2>4, <3>2, <3>3
  <2>5. ArgRegs(e) \in Int
    BY <1>4
  <2> QED
    BY <2>1, <2>2, <2>3, <2>4, <2>5
<1>12. e = x64 => m2[sp] = Magic
  <2> SUFFICES ASSUME e = x64 PROVE m2[sp] = Magic
    OBVIOUS
  <2>1. 0 \in 0..(l - 1) /\ sp + 0 = sp
    BY <1>4, <1>8
  <2>2. m2[sp + 0] = b[0 + 1]
    BY <1>9, <2>1
  <2> QED
    BY <1>3, <2>1, <2>2
<1>13. BodySp(h) = sp - LocalWords - 2
  BY <1>1 DEF BodySp
<1>14. EmuOK(h, r2, m2)
  <2>1. BodySp(h) >= Floor(h.call) /\ h.entry + BlockLen(h.cpu) <= EmuStackTop
    BY <1>1, <1>8, <1>13 DEF l
  <2>2. /\ r2.sp = h.entry /\ Arguments(h.cpu, r2, m2, h.call, h.n)
        /\ IF h.cpu = x64 THEN m2[h.entry] = Magic ELSE r2.lr = Magic
    BY <1>1, <1>6, <1>11, <1>12
  <2> QED
    BY <1>1, <2>1, <2>2 DEF EmuOK
<1>16. DOMAIN m2 = 1..StackWords
  BY <1>7 DEF PutIs
<1> QED
  BY <1>6, <1>8, <1>10, <1>14, <1>16 DEF h

\* EmuThunkPre keeps the words: its block lies under everybody else's.
LEMMA PreWordsStay ==
  ASSUME Room, Shape, Words, EmuThunkPre
  PROVE  Words'
<1> DEFINE n == Len(stack)
           e == Top.cpu
           sp == regs[e].sp - BlockLen(e)
           r == PreRegs(e, regs[e], Top, sp)
           m == Put(mem[e], sp, PreBlock(Top))
           h == EnteredFrame(Top, sp)
<1>1. PICK f : /\ stack' = Append(With(f), h)
               /\ f = [Top EXCEPT !.st = "run"] /\ ActFrame(f) /\ f.st = "run"
               /\ f.call = Top.call /\ f.n = Top.n /\ f.cpu = e /\ f.base = Top.base
               /\ f.saved = Top.saved
               /\ ActFrame(Top) /\ Top.st = "pre" /\ e \in Engines /\ sp \in Int
               /\ EmuFrame(h) /\ RegFile(r)
               /\ regs' = [regs EXCEPT ![e] = r]
               /\ mem' = [mem EXCEPT ![e] = m]
  BY EmuThunkPreStep
<1>2. calls' = calls /\ calls \in calls..MaxCalls /\ calls \in Int /\ MaxCalls \in Int /\ Top.call <= calls
  BY TopKinds DEF EmuThunkPre
<1>3. Settled(stack) /\ EnginesOK /\ Moves(regs, regs', e, r)
  BY <1>1, MovesTo DEF Words, Shape
<1>4. n \in Nat /\ n >= 1 /\ Top = stack[n] /\ IsSeq(stack) /\ n \in 1..n
  BY TopKinds
<1>5. Owns(Top, e) /\ Owns(f, e) /\ h.kind = "emu" /\ h.cpu = e /\ h.entry = sp
  BY <1>1 DEF Owns, ActFrame, EnteredFrame
<1>6. /\ ActOK(Top, regs[e]) /\ EngineOK(stack, regs[e], mem[e], calls, e)
      /\ RegFile(regs[e]) /\ regs[e].sp \in Floor(calls)..EmuStackTop
      /\ DOMAIN mem[e] = 1..StackWords
      /\ Top.base <= EmuStackTop /\ Top.base >= Floor(Top.call - 1) - RedZone
  <2>1. \A k \in (n + 1)..Len(stack) : ~Owns(stack[k], e)
    BY <1>4
  <2> HIDE DEF e
  <2> QED
    BY <1>1, <1>3, <1>4, <1>5, <2>1, NowAct
<1>7. sp = Top.base - BlockLen(e) /\ sp + BlockLen(e) = Top.base /\ Top.base \in Int
  <2>1. regs[e].sp = Top.base /\ Top.base \in Int /\ BlockLen(e) \in Int
    BY <1>1, <1>6 DEF ActOK, ActFrame, BlockLen
  <2> QED
    BY <2>1
<1>8. /\ EmuOK(h, r, m) /\ DOMAIN m = 1..StackWords
      /\ SameFrom(mem[e], m, Top.base) /\ r.sp = sp /\ sp >= Floor(Top.call) /\ sp <= Top.base
  <2>1. Top.call <= MaxCalls
    <3>1. Top.call \in Int
      BY <1>1 DEF ActFrame
    <3> QED
      BY <1>2, <3>1
  <2>2. e = Top.cpu /\ m = Put(mem[e], sp, PreBlock(Top)) /\ r = PreRegs(e, regs[e], Top, sp)
    OBVIOUS
  <2> HIDE DEF e, sp, m, r
  <2> QED
    BY <1>1, <1>6, <1>7, <2>1, <2>2, EnteredOK DEF h
<1> HIDE DEF h, m, r
<1>9. r.sp \in Floor(calls)..EmuStackTop
  <2>1. Floor(calls) <= Floor(Top.call) /\ Floor(Top.call) \in Int /\ Floor(calls) \in Int
    <3>1. Top.call \in Int
      BY <1>1 DEF ActFrame
    <3> QED
      BY <1>2, <3>1, FloorFalls, FloorInt
  <2>2. EmuStackTop \in Int
    BY CallsAssumption DEF EmuStackTop
  <2> QED
    BY <1>1, <1>6, <1>7, <1>8, <2>1, <2>2
<1>10. Stands(Top, f) /\ Delivered(f) /\ Delivered(h)
  <2>1. Stands(Top, f)
    BY <1>1, StandsIn
  <2> QED
    BY <1>1, <1>5, <2>1 DEF Delivered, ActFrame
<1> DEFINE t == With(f)
           s == Append(t, h)
<1>11. IsSeq(t) /\ Len(t) = n /\ t[n] = f /\ Agree(stack, t, n - 1)
  BY <1>4, WithStep
<1>12. Settled(t)
  BY <1>3, <1>10, SettledWith
<1> HIDE DEF t
<1>13. /\ IsSeq(s) /\ Len(s) = n + 1 /\ s[n + 1] = h /\ Agree(t, s, n)
  BY <1>11, AppendStep
<1>14. Settled(s)
  <2>1. h.entry = t[Len(t)].base - BlockLen(h.cpu)
    BY <1>1, <1>5, <1>7, <1>11
  <2> QED
    BY <1>4, <1>10, <1>11, <1>12, <2>1, SettledAbove
<1>15. \A x \in Engines : x # e => EngineOK(s, regs[x], mem[x], calls, x)
  <2> SUFFICES ASSUME NEW x \in Engines, x # e PROVE EngineOK(s, regs[x], mem[x], calls, x)
    OBVIOUS
  <2>1. ~Of(Top, x) /\ ~Of(f, x) /\ EngineOK(stack, regs[x], mem[x], calls, x)
    BY <1>1, <1>3 DEF Of, EnginesOK
  <2>2. EngineOK(t, regs[x], mem[x], calls, x)
    BY <1>2, <2>1, WithOther DEF t
  <2>3. ~Owns(h, x) /\ ~IsEmu(h, x) /\ ~Waits(h, x) /\ calls <= calls
    BY <1>2, <1>5 DEF Owns, IsEmu, Waits
  <2> QED
    BY <1>2, <1>11, <2>2, <2>3, AboveOther
<1> HIDE DEF s
<1>16. EngineOK(s, r, m, calls, e)
  <2>1. s[n] = f /\ Agree(stack, s, n - 1)
    BY <1>4, <1>11, <1>13 DEF Agree
  <2>2. ActOK(f, r)
    BY <1>1, <1>8 DEF ActOK
  <2>3. QuietAbove(s, n, e, r, m)
    <3> SUFFICES ASSUME NEW k \in (n + 1)..Len(s)
                 PROVE  /\ ~Owns(s[k], e) /\ ~Waits(s[k], e)
                        /\ IsEmu(s[k], e) => EmuOK(s[k], r, m)
      BY DEF QuietAbove
    <3>1. s[k] = h
      BY <1>4, <1>13
    <3> QED
      BY <1>5, <1>8, <3>1 DEF Owns, Waits
  <2>4. StackOK(stack) /\ Numbered(stack, calls) /\ n <= Len(s) /\ Len(s) \in Nat /\ n \in 1..Len(stack)
    BY <1>4, <1>13 DEF Shape
  <2> HIDE DEF n, e, sp
  <2> QED
    BY <1>1, <1>2, <1>4, <1>5, <1>6, <1>8, <1>9, <2>1, <2>2, <2>3, <2>4, OwnKeeps
<1>17. stack' = s
  BY <1>1 DEF s, t
<1> HIDE DEF e
<1>18. EnginesOK'
  BY <1>1, <1>2, <1>3, <1>15, <1>16, <1>17, EnginesMove
<1> QED
  BY <1>14, <1>17, <1>18 DEF Words

\* What a step of function f leaves for its frame g: registers R2 and memory m2,
\* and nothing from word b on.
Leaves(g, R2, m, m2, b, c) ==
  /\ EmuOK(g, R2, m2) /\ R2.sp \in Floor(c)..EmuStackTop /\ R2.sp <= b
  /\ DOMAIN m2 = 1..StackWords /\ SameFrom(m, m2, b)

\* An emulated function on top has its activation under it and its words in place.
LEMMA TopEmu ==
  ASSUME Room, Shape, Words, EmuFrame(Top), NEW e, e = Top.cpu
  PROVE  /\ e \in Engines /\ Places(Under, Top, e, regs[e], calls)
         /\ EmuOK(Top, regs[e], mem[e]) /\ RegFile(regs[e]) /\ DOMAIN mem[e] = 1..StackWords
         /\ EngineOK(stack, regs[e], mem[e], calls, e) /\ Owns(Under, e) /\ Under.st = "run"
<1> DEFINE n == Len(stack)
           p == n - 1
<1>1. Top.kind = "emu"
  BY DEF EmuFrame
<1>2. n \in Nat /\ n >= 2 /\ Top = stack[n]
  BY <1>1, TopKinds
<1>3. p \in 1..n /\ p + 1 = n /\ p + 1 <= n
  BY <1>2
<1>4. Under = stack[p] /\ \A k \in (p + 2)..Len(stack) : FALSE
  BY <1>2 DEF Under
<1>5. n = Len(stack)
  OBVIOUS
<1> HIDE DEF p, n
<1>6. /\ e \in Engines /\ Runs(stack[p], stack[p + 1], e, calls)
      /\ Places(stack[p], stack[p + 1], e, regs[e], calls)
      /\ EmuOK(stack[p + 1], regs[e], mem[e]) /\ ActOK(stack[p], regs[e])
      /\ EngineOK(stack, regs[e], mem[e], calls, e)
      /\ RegFile(regs[e]) /\ regs[e].sp \in Floor(calls)..EmuStackTop
      /\ DOMAIN mem[e] = 1..StackWords
      /\ Owns(stack[p], e)
  BY <1>2, <1>3, <1>4, <1>5, NowEmu
<1> QED
  BY <1>2, <1>3, <1>4, <1>6 DEF Runs

\* A function that changes only what is below its activation's base keeps the words.
LEMMA FunctionWith ==
  ASSUME Room, Shape, Words, EmuFrame(Top), NEW e, e = Top.cpu, NEW g, stack' = With(g),
         EmuFrame(g), g.call = Top.call, g.n = Top.n, g.cpu = e, g.entry = Top.entry,
         NEW R2, RegFile(R2), regs' = [regs EXCEPT ![e] = R2],
         NEW m2, mem' = [mem EXCEPT ![e] = m2] \/ (mem' = mem /\ m2 = mem[e]),
         calls' \in calls..MaxCalls, Leaves(g, R2, mem[e], m2, Under.base, calls')
  PROVE  Words'
<1> DEFINE n == Len(stack)
           p == n - 1
           t == With(g)
           c2 == calls'
<1>1. Top.kind = "emu" /\ g.kind = "emu"
  BY DEF EmuFrame
<1>2. n \in Nat /\ n >= 2 /\ Top = stack[n] /\ IsSeq(stack) /\ calls \in Int /\ MaxCalls \in Int
  BY <1>1, TopKinds
<1>3. /\ e \in Engines /\ EngineOK(stack, regs[e], mem[e], calls, e) /\ Owns(Under, e)
      /\ Under.st = "run"
  BY TopEmu
<1>4. Settled(stack) /\ EnginesOK /\ Moves(regs, regs', e, R2)
  BY <1>3, MovesTo DEF Words, Shape
<1>5. Delivered(g) /\ Stands(Top, g)
  BY <1>1, StandsIn DEF Delivered
<1>6. Settled(t)
  BY <1>4, <1>5, SettledWith
<1>7. Len(t) = n /\ t[n] = g /\ Agree(stack, t, p)
  BY <1>2, WithStep
<1>8. c2 \in calls..MaxCalls /\ c2 \in Int
  BY <1>2
<1>9. \A x \in Engines : x # e => EngineOK(t, regs[x], mem[x], c2, x)
  <2> SUFFICES ASSUME NEW x \in Engines, x # e PROVE EngineOK(t, regs[x], mem[x], c2, x)
    OBVIOUS
  <2>1. ~Of(Top, x) /\ ~Of(g, x) /\ EngineOK(stack, regs[x], mem[x], calls, x)
    BY <1>4 DEF Of, EnginesOK
  <2> QED
    BY <1>8, <2>1, WithOther
<1> HIDE DEF t, c2
<1>10. /\ p \in 1..Len(stack) /\ p + 1 = n /\ p + 1 <= Len(t) /\ Len(t) \in Nat
       /\ Under = stack[p] /\ \A k \in (p + 2)..Len(t) : FALSE
  BY <1>2, <1>7 DEF Under
<1>11. /\ EmuOK(g, R2, m2) /\ R2.sp \in Floor(c2)..EmuStackTop /\ R2.sp <= Under.base
       /\ DOMAIN m2 = 1..StackWords /\ SameFrom(mem[e], m2, Under.base)
  BY DEF Leaves, c2
<1> HIDE DEF p, n
<1>12. EngineOK(t, R2, m2, c2, e)
  BY <1>1, <1>3, <1>7, <1>8, <1>10, <1>11, FunctionKeeps
<1>13. EnginesOK'
  BY <1>3, <1>4, <1>9, <1>12, EnginesMove DEF t, c2
<1> QED
  BY <1>6, <1>13 DEF Words, t

\* What a function does about its red zone.
LEMMA ZoneStep ==
  ASSUME NEW f, NEW a, NEW e, NEW R, NEW c, Places(a, f, e, R, c), NEW m, DOMAIN m = 1..StackWords,
         NEW g, g.call = f.call, g.cpu = e, g.entry = f.entry,
         NEW m2, m2 = WriteZone(e, m, BodySp(f), f.call)
  PROVE  DOMAIN m2 = 1..StackWords /\ SameFrom(m, m2, BodySp(f)) /\ ZoneKept(g, m2)
<1> DEFINE b == BodySp(f)
           q == b - 16
           z == Zone(f.call)
<1>1. b \in Int /\ b >= 17 /\ b <= StackWords + 1 /\ StackWords \in Int /\ RedZone = 16
  <2> DEFINE en == f.entry
             base == a.base
             k == BlockLen(e)
  <2>1. /\ en \in Int /\ b \in Int /\ base \in Int /\ LocalWords \in Int /\ StackWords \in Int
        /\ LocalWords >= 0 /\ b = en - LocalWords - 2 /\ b >= 17
        /\ en = base - k /\ k \in {8, 17} /\ base <= EmuStackTop
        /\ EmuStackTop = StackWords + 1 /\ RedZone = 16
    BY DEF Places
  <2> HIDE DEF b, en, base, k
  <2> QED
    BY <2>1
<1>2. BodySp(g) = b
  BY DEF BodySp
<1>3. q \in Int /\ 16 \in Nat /\ Len(z) = 16 /\ \A k \in 1..16 : z[k] = Kept(f.call, LocalWords + k)
  BY <1>1, ZoneWords
<1>4. CASE e = x64
  <2>1. WriteZone(e, m, b, f.call) = Put(m, q, z)
    BY <1>1, <1>4 DEF WriteZone
  <2> HIDE DEF q, z
  <2>2. PutIs(m2, m, q, z, 16)
    BY <1>3, <2>1, PutHolds
  <2>3. DOMAIN m2 = 1..StackWords
    BY <2>2 DEF PutIs
  <2>4. SameFrom(m, m2, b)
    <3>1. q + 16 = b
      BY <1>1 DEF q
    <3> QED
      BY <2>2, <3>1 DEF PutIs, SameFrom
  <2>5. \A k \in 1..16 : m2[b - 16 + k - 1] = Kept(f.call, LocalWords + k)
    <3> SUFFICES ASSUME NEW k \in 1..16 PROVE m2[b - 16 + k - 1] = Kept(f.call, LocalWords + k)
      OBVIOUS
    <3>1. k - 1 \in 0..(16 - 1) /\ (k - 1) + 1 = k
      OBVIOUS
    <3>2. b - 16 + k - 1 = q + (k - 1) /\ q + (k - 1) \in 1..StackWords
      <4> HIDE DEF b
      <4> QED
        BY <1>1 DEF q
    <3>3. m2[q + (k - 1)] = z[(k - 1) + 1]
      BY <2>2, <3>1, <3>2 DEF PutIs
    <3> QED
      BY <1>3, <3>1, <3>2, <3>3
  <2> QED
    BY <1>1, <1>2, <2>3, <2>4, <2>5 DEF ZoneKept
<1>5. CASE e # x64
  <2>1. m2 = m
    BY <1>5 DEF WriteZone
  <2> QED
    BY <1>5, <2>1 DEF ZoneKept, SameFrom
<1> QED
  BY <1>4, <1>5

\* A function that has been entered keeps its words.
LEMMA EnterOK ==
  ASSUME Room, NEW f, NEW a, NEW e \in Engines, NEW R, NEW c, Places(a, f, e, R, c), RegFile(R),
         EmuFrame(f), f.cpu = e, f.st = "new", NEW m, DOMAIN m = 1..StackWords, EmuOK(f, R, m),
         NEW g, g.st = "run", g.call = f.call, g.n = f.n, g.cpu = e, g.entry = f.entry,
         NEW home, home = IF e = x64 THEN Put(m, R.sp + 1, [k \in 1..4 |-> Junk]) ELSE m,
         NEW m3, m3 = Put(home, R.sp - LocalWords - 2, Locals(f.call, R.keep, R.lr)),
         NEW m2, m2 = WriteZone(e, m3, R.sp - LocalWords - 2, f.call),
         NEW R2, R2 = EnterRegs(e, R, f)
  PROVE  Leaves(g, R2, m, m2, a.base, c)
<1> DEFINE en == f.entry
           b == BodySp(f)
           l == LocalWords + 2
           L == Locals(f.call, R.keep, R.lr)
           A == ArgRegs(e)
           nn == f.n
           base == a.base
<1>1. R.sp = en /\ Arguments(e, R, m, f.call, f.n) /\ IF e = x64 THEN m[en] = Magic ELSE R.lr = Magic
  BY DEF EmuOK
<1>2. /\ en \in Int /\ b \in Int /\ l \in Nat /\ l >= 2 /\ b + l = en /\ b >= 17 /\ nn \in 0..16
      /\ base = en + (IF e = x64 THEN 17 ELSE 8) /\ base <= StackWords + 1 /\ StackWords \in Int
      /\ base \in Int /\ A = (IF e = x64 THEN 4 ELSE 8) /\ RedZone = 16 /\ A \in {4, 8}
  <2> DEFINE k == BlockLen(e)
  <2>1. /\ en \in Int /\ b \in Int /\ base \in Int /\ LocalWords \in Int /\ StackWords \in Int
        /\ LocalWords >= 0 /\ b = en - LocalWords - 2 /\ b >= 17 /\ nn \in 0..16
        /\ en = base - k /\ k = (IF e = x64 THEN 17 ELSE 8) /\ base <= EmuStackTop
        /\ EmuStackTop = StackWords + 1 /\ A = (IF e = x64 THEN 4 ELSE 8) /\ RedZone = 16
    BY DEF Places
  <2> HIDE DEF en, b, base, nn, A, k
  <2>2. base = en + k /\ k \in Int
    BY <2>1
  <2>3. l \in Nat /\ l >= 2 /\ b + l = en
    BY <2>1
  <2> QED
    BY <2>1, <2>2, <2>3
<1>3. R.sp - LocalWords - 2 = b /\ BodySp(g) = b
  BY <1>1 DEF Places, BodySp
<1>4. R2.sp = b /\ R2.keep = Kept(f.call, 0)
  BY <1>3 DEF EnterRegs, RegFile, Forget
<1>5. /\ Len(L) = l /\ (\A k \in 1..LocalWords : L[k] = Kept(f.call, k)) /\ L[LocalWords + 1] = R.lr
  BY LocalsWords
<1> HIDE DEF L
<1>6. e = x64 => PutIs(home, m, en + 1, [k \in 1..4 |-> Junk], 4)
  <2> SUFFICES ASSUME e = x64 PROVE PutIs(home, m, en + 1, [k \in 1..4 |-> Junk], 4)
    OBVIOUS
  <2> DEFINE j == [k \in 1..4 |-> Junk]
             q == en + 1
  <2>1. Len(j) = 4
    <3>1. IsFun(j, 4)
      BY DEF IsFun
    <3> HIDE DEF j
    <3> QED
      BY <3>1, FunSeq
  <2>2. q \in Int /\ 4 \in Nat /\ home = Put(m, q, j)
    BY <1>1, <1>2
  <2> HIDE DEF j, q
  <2>3. PutIs(home, m, q, j, 4)
    BY <2>1, <2>2, PutHolds
  <2> QED
    BY <2>3 DEF j, q
<1>7. DOMAIN home = 1..StackWords /\ \A w \in 1..StackWords : (w <= en \/ w >= en + 5 \/ e # x64) => home[w] = m[w]
  <2>1. CASE e = x64
    <3>1. DOMAIN home = 1..StackWords
      BY <1>6, <2>1 DEF PutIs
    <3>2. \A w \in 1..StackWords : w < en + 1 \/ w >= (en + 1) + 4 => home[w] = m[w]
      BY <1>6, <2>1 DEF PutIs
    <3>3. \A w \in 1..StackWords : w <= en \/ w >= en + 5 => w < en + 1 \/ w >= (en + 1) + 4
      <4>1. en \in Int
        BY <1>2
      <4> HIDE DEF en
      <4> QED
        BY <4>1
    <3>4. \A w \in 1..StackWords : w <= en \/ w >= en + 5 => home[w] = m[w]
      BY <3>2, <3>3
    <3> QED
      BY <2>1, <3>1, <3>4
  <2>2. CASE e # x64
    <3>1. home = m
      BY <2>2
    <3> QED
      BY <3>1
  <2> QED
    BY <2>1, <2>2
<1>8. PutIs(m3, home, b, L, l)
  <2>1. m3 = Put(home, b, L)
    BY <1>3 DEF L
  <2> HIDE DEF b, l
  <2> QED
    BY <1>2, <1>5, <1>7, <2>1, PutHolds
<1>9. /\ \A k \in 0..(l - 1) : m3[b + k] = L[k + 1]
      /\ \A w \in 1..StackWords : w >= en => m3[w] = home[w]
      /\ DOMAIN m3 = 1..StackWords
  <2> HIDE DEF b, l, en, base
  <2>1. \A k \in 0..(l - 1) : b + k \in 1..StackWords
    BY <1>2
  <2>2. b + l = en
    BY <1>2
  <2> QED
    BY <1>8, <2>1, <2>2 DEF PutIs
<1>10. DOMAIN m2 = 1..StackWords /\ SameFrom(m3, m2, b) /\ ZoneKept(g, m2)
  <2>1. m2 = WriteZone(e, m3, b, f.call)
    BY <1>3
  <2> HIDE DEF b
  <2> QED
    BY <1>9, <2>1, ZoneStep DEF b
<1>11. DOMAIN m2 = 1..StackWords /\ \A w \in 1..StackWords : w >= b => m2[w] = m3[w]
  BY <1>10 DEF SameFrom
<1>12. ZoneKept(g, m2)
  BY <1>10
<1>13. \A k \in 0..(l - 1) : m2[b + k] = L[k + 1]
  <2> SUFFICES ASSUME NEW k \in 0..(l - 1) PROVE m2[b + k] = L[k + 1]
    OBVIOUS
  <2>1. b + k \in 1..StackWords /\ b + k >= b
    <3> HIDE DEF b, l, en, base
    <3> QED
      BY <1>2
  <2> QED
    BY <1>9, <1>11, <2>1
<1>14. \A w \in 1..StackWords : (w = en \/ w >= en + 5 \/ (w >= en /\ e # x64)) => m2[w] = m[w]
  <2> SUFFICES ASSUME NEW w \in 1..StackWords, w = en \/ w >= en + 5 \/ (w >= en /\ e # x64)
               PROVE  m2[w] = m[w]
    OBVIOUS
  <2>1. w >= en /\ w >= b /\ (w <= en \/ w >= en + 5 \/ e # x64)
    <3> HIDE DEF b, l, en, base
    <3>1. w \in Int
      OBVIOUS
    <3> QED
      BY <1>2, <3>1
  <2> QED
    BY <1>7, <1>9, <1>11, <2>1
<1>15. Keeps(g, m2)
  <2>1. \A k \in 1..LocalWords : m2[b + k - 1] = Kept(f.call, k)
    <3> SUFFICES ASSUME NEW k \in 1..LocalWords PROVE m2[b + k - 1] = Kept(f.call, k)
      OBVIOUS
    <3>1. k - 1 \in 0..(l - 1) /\ (k - 1) + 1 = k /\ b + k - 1 = b + (k - 1)
      <4>1. LocalWords \in Int
        BY CallsAssumption
      <4> QED
        BY <1>2, <4>1
    <3>2. m2[b + (k - 1)] = L[(k - 1) + 1]
      BY <1>13, <3>1
    <3> QED
      BY <1>5, <3>1, <3>2
  <2>2. \A k \in (A + 1)..nn : m2[StackArg(e, en, k)] = Arg(f.call, k)
    <3> SUFFICES ASSUME NEW k \in (A + 1)..nn PROVE m2[StackArg(e, en, k)] = Arg(f.call, k)
      OBVIOUS
    <3>1. k \in 1..nn /\ ~(k <= A) /\ k \in Int /\ k <= 16
      <4> HIDE DEF nn, A, en, b, l, base
      <4>1. nn \in 0..16 /\ A \in {4, 8}
        BY <1>2
      <4> QED
        BY <4>1
    <3>2. m[StackArg(e, en, k)] = Arg(f.call, k)
      BY <1>1, <3>1 DEF Arguments
    <3>3. StackArg(e, en, k) \in 1..StackWords
          /\ (StackArg(e, en, k) >= en + 5 \/ (StackArg(e, en, k) >= en /\ e # x64))
      <4>1. CASE e = x64
        <5>1. StackArg(e, en, k) = en + k
          BY <4>1 DEF StackArg
        <5>2. k >= 5 /\ base = en + 17
          BY <1>2, <4>1
        <5> HIDE DEF b, l, en, base
        <5>3. en + k \in 1..StackWords /\ en + k >= en + 5
          BY <1>2, <3>1, <5>2
        <5> QED
          BY <5>1, <5>3 DEF en
      <4>2. CASE e # x64
        <5>1. StackArg(e, en, k) = en + k - 9
          BY <4>2 DEF StackArg
        <5>2. k >= 9 /\ base = en + 8
          BY <1>2, <4>2
        <5> HIDE DEF b, l, en, base
        <5>3. en + k - 9 \in 1..StackWords /\ en + k - 9 >= en
          BY <1>2, <3>1, <5>2
        <5> QED
          BY <4>2, <5>1, <5>3 DEF en
      <4> QED
        BY <4>1, <4>2
    <3> QED
      BY <1>14, <3>2, <3>3
  <2>3. e = x64 => m2[en] = Magic
    <3>1. en \in 1..StackWords
      <4> HIDE DEF b, l, en, base
      <4> QED
        BY <1>2
    <3> QED
      BY <1>1, <1>14, <3>1
  <2>4. e # x64 => m2[en - 2] = Magic
    <3>1. LocalWords \in 0..(l - 1) /\ b + LocalWords = en - 2
      <4>1. LocalWords \in Int /\ LocalWords >= 0
        BY CallsAssumption
      <4>2. l = LocalWords + 2
        OBVIOUS
      <4> HIDE DEF b, l, en, base
      <4> QED
        BY <1>2, <4>1, <4>2
    <3>2. m2[b + LocalWords] = L[LocalWords + 1]
      BY <1>13, <3>1
    <3> QED
      BY <1>1, <1>5, <3>1, <3>2
  <2> HIDE DEF b, en, nn, A
  <2> QED
    BY <1>3, <2>1, <2>2, <2>3, <2>4 DEF Keeps, en, nn, A
<1>16. SameFrom(m, m2, base)
  <2> SUFFICES ASSUME NEW w \in 1..StackWords, w >= base PROVE m2[w] = m[w]
    BY DEF SameFrom
  <2>1. w >= en + 5
    <3> HIDE DEF b, l, en, base
    <3>1. w \in Int
      OBVIOUS
    <3> QED
      BY <1>2, <3>1
  <2> QED
    BY <1>14, <2>1
<1>17. EmuOK(g, R2, m2)
  <2>1. BodySp(g) >= Floor(g.call) /\ g.entry + BlockLen(g.cpu) <= EmuStackTop
    BY <1>3 DEF EmuOK
  <2> QED
    BY <1>3, <1>4, <1>12, <1>15, <2>1 DEF EmuOK
<1>18. R2.sp \in Floor(c)..EmuStackTop /\ R2.sp <= base
  <2>1. b >= Floor(c) /\ Floor(c) \in Int /\ EmuStackTop = StackWords + 1
    BY DEF Places
  <2> HIDE DEF b, l, en, base
  <2> QED
    BY <1>2, <1>4, <2>1
<1> QED
  BY <1>11, <1>16, <1>17, <1>18 DEF Leaves

\* A function's prologue keeps the words.
LEMMA EnterWordsStay ==
  ASSUME Room, Shape, Words, EmuEnter
  PROVE  Words'
<1> DEFINE e == Top.cpu
           R == regs[e]
           R2 == EnterRegs(e, R, Top)
           home == IF e = x64 THEN Put(mem[e], R.sp + 1, [k \in 1..4 |-> Junk]) ELSE mem[e]
           m3 == Put(home, R.sp - LocalWords - 2, Locals(Top.call, R.keep, R.lr))
           m2 == WriteZone(e, m3, R.sp - LocalWords - 2, Top.call)
<1>1. PICK g : /\ stack' = With(g) /\ EmuFrame(g) /\ g.st = "run"
               /\ g.call = Top.call /\ g.n = Top.n /\ g.cpu = e /\ g.entry = Top.entry
               /\ EmuFrame(Top) /\ Top.st = "new" /\ e \in Engines
               /\ RegFile(R2)
               /\ regs' = [regs EXCEPT ![e] = R2]
               /\ mem' = [mem EXCEPT ![e] = m2]
  BY EmuEnterStep
<1>2. calls' = calls /\ calls' \in calls..MaxCalls
  BY TopKinds DEF EmuEnter
<1>3. /\ Places(Under, Top, e, R, calls)
      /\ EmuOK(Top, R, mem[e]) /\ RegFile(R) /\ DOMAIN mem[e] = 1..StackWords
  <2> HIDE DEF e
  <2> QED
    BY <1>1, TopEmu DEF e
<1>4. Leaves(g, R2, mem[e], m2, Under.base, calls)
  <2>1. /\ home = (IF e = x64 THEN Put(mem[e], R.sp + 1, [k \in 1..4 |-> Junk]) ELSE mem[e])
        /\ m3 = Put(home, R.sp - LocalWords - 2, Locals(Top.call, R.keep, R.lr))
        /\ m2 = WriteZone(e, m3, R.sp - LocalWords - 2, Top.call)
        /\ R2 = EnterRegs(e, R, Top) /\ Top.cpu = e
    OBVIOUS
  <2> HIDE DEF home, m3, m2, R2, e, R
  <2> QED
    BY <1>1, <1>3, <2>1, EnterOK
<1> HIDE DEF R2, m2
<1> QED
  BY <1>1, <1>2, <1>4, FunctionWith

\* What is written below a function's words leaves them.
LEMMA KeepsAbove ==
  ASSUME NEW f, NEW a, NEW e, NEW R, NEW c, Places(a, f, e, R, c), f.cpu = e, NEW m, Keeps(f, m),
         NEW g, g.call = f.call, g.n = f.n, g.cpu = e, g.entry = f.entry,
         NEW m2, SameFrom(m, m2, BodySp(f))
  PROVE  Keeps(g, m2) /\ SameFrom(m, m2, a.base)
<1> DEFINE en == f.entry
           b == BodySp(f)
           A == ArgRegs(e)
           nn == f.n
           base == a.base
<1>1. /\ en \in Int /\ b \in Int /\ base \in Int /\ LocalWords \in Int /\ StackWords \in Int
      /\ LocalWords >= 0 /\ b = en - LocalWords - 2 /\ b >= 17 /\ nn \in 0..16 /\ A \in {4, 8}
      /\ base = en + (IF e = x64 THEN 17 ELSE 8) /\ A = (IF e = x64 THEN 4 ELSE 8)
      /\ base <= StackWords + 1
  <2> DEFINE k == BlockLen(e)
  <2>1. /\ en \in Int /\ b \in Int /\ base \in Int /\ LocalWords \in Int /\ StackWords \in Int
        /\ LocalWords >= 0 /\ b = en - LocalWords - 2 /\ b >= 17 /\ nn \in 0..16
        /\ en = base - k /\ k = (IF e = x64 THEN 17 ELSE 8) /\ base <= EmuStackTop
        /\ EmuStackTop = StackWords + 1 /\ A = (IF e = x64 THEN 4 ELSE 8)
    BY DEF Places
  <2> HIDE DEF en, b, base, nn, A, k
  <2>2. base = en + k
    BY <2>1
  <2> QED
    BY <2>1, <2>2
<1>2. BodySp(g) = b
  BY DEF BodySp
<1>3. \A k \in 1..LocalWords : m2[b + k - 1] = Kept(f.call, k)
  <2> SUFFICES ASSUME NEW k \in 1..LocalWords PROVE m2[b + k - 1] = Kept(f.call, k)
    OBVIOUS
  <2>1. m[b + k - 1] = Kept(f.call, k)
    BY DEF Keeps
  <2>2. b + k - 1 \in 1..StackWords /\ b + k - 1 >= b
    <3>1. base >= en
      <4> HIDE DEF en, b, base, nn, A
      <4> QED
        BY <1>1
    <3> HIDE DEF en, b, base, nn, A
    <3> QED
      BY <1>1, <3>1
  <2> QED
    BY <2>1, <2>2 DEF SameFrom
<1>4. \A k \in (A + 1)..nn : m2[StackArg(e, en, k)] = Arg(f.call, k)
  <2> SUFFICES ASSUME NEW k \in (A + 1)..nn PROVE m2[StackArg(e, en, k)] = Arg(f.call, k)
    OBVIOUS
  <2>1. m[StackArg(e, en, k)] = Arg(f.call, k)
    BY DEF Keeps
  <2>2. k \in Int /\ k <= 16 /\ k >= A + 1 /\ A \in Int
    <3> HIDE DEF en, b, base, nn, A
    <3> QED
      BY <1>1
  <2>3. StackArg(e, en, k) \in 1..StackWords /\ StackArg(e, en, k) >= b
    <3>1. CASE e = x64
      <4>1. StackArg(e, en, k) = en + k
        BY <3>1 DEF StackArg
      <4>2. A = 4 /\ base = en + 17
        BY <1>1, <3>1
      <4> HIDE DEF b, en, base, nn, A
      <4>3. en + k \in 1..StackWords /\ en + k >= b
        BY <1>1, <2>2, <4>2
      <4> QED
        BY <4>1, <4>3 DEF en, b
    <3>2. CASE e # x64
      <4>1. StackArg(e, en, k) = en + k - 9
        BY <3>2 DEF StackArg
      <4>2. A = 8 /\ base = en + 8
        BY <1>1, <3>2
      <4> HIDE DEF b, en, base, nn, A
      <4>3. en + k - 9 \in 1..StackWords /\ en + k - 9 >= b
        BY <1>1, <2>2, <4>2
      <4> QED
        BY <4>1, <4>3 DEF en, b
    <3> QED
      BY <3>1, <3>2
  <2> QED
    BY <2>1, <2>3 DEF SameFrom
<1>5. IF e = x64 THEN m2[en] = Magic ELSE m2[en - 2] = Magic
  <2>1. en \in 1..StackWords /\ en >= b /\ en - 2 \in 1..StackWords /\ en - 2 >= b
    <3>1. base >= en + 8
      <4> HIDE DEF b, en, base, nn, A
      <4> QED
        BY <1>1
    <3> HIDE DEF b, en, base, nn, A
    <3> QED
      BY <1>1, <3>1
  <2>2. IF e = x64 THEN m[en] = Magic ELSE m[en - 2] = Magic
    BY DEF Keeps
  <2> QED
    BY <2>1, <2>2 DEF SameFrom
<1>6. SameFrom(m, m2, base)
  <2> SUFFICES ASSUME NEW w \in 1..StackWords, w >= base PROVE m2[w] = m[w]
    BY DEF SameFrom
  <2>1. w >= b
    <3>1. base >= en
      <4> HIDE DEF en, b, base, nn, A
      <4> QED
        BY <1>1
    <3>2. w \in Int
      OBVIOUS
    <3> HIDE DEF b, en, base, nn, A
    <3> QED
      BY <1>1, <3>1, <3>2
  <2> QED
    BY <2>1 DEF SameFrom
<1> HIDE DEF b, en, nn, A
<1> QED
  BY <1>2, <1>3, <1>4, <1>5, <1>6 DEF Keeps, en, nn, A

\* A caller that goes on finds its frame where it was.
LEMMA ResumeOK ==
  ASSUME Room, NEW f, NEW a, NEW e \in Engines, NEW R, NEW c, Places(a, f, e, R, c), RegFile(R),
         f.cpu = e, f.st = "back", f.out \in Int, NEW m, DOMAIN m = 1..StackWords, EmuOK(f, R, m),
         NEW g, g.st = "run", g.call = f.call, g.n = f.n, g.cpu = e, g.entry = f.entry,
         NEW R2, R2 = ResumeRegs(e, R, f),
         NEW m2, m2 = WriteZone(e, m, R2.sp, f.call)
  PROVE  Leaves(g, R2, m, m2, a.base, c)
<1> DEFINE b == BodySp(f)
<1>1. R2.sp = b /\ R2.keep = Kept(f.call, 0)
  <2>1. R2.sp = R.sp + f.out - (IF e = x64 THEN 1 ELSE 0) /\ R2.keep = R.keep
    BY DEF ResumeRegs, RegFile, Forget
  <2>2. R.keep = Kept(f.call, 0) /\ R.sp = b - f.out + (IF e = x64 THEN 1 ELSE 0) /\ b \in Int
    BY DEF EmuOK, Places
  <2> HIDE DEF b
  <2> QED
    BY <2>1, <2>2
<1>2. DOMAIN m2 = 1..StackWords /\ SameFrom(m, m2, b) /\ ZoneKept(g, m2)
  <2>1. m2 = WriteZone(e, m, b, f.call)
    BY <1>1
  <2> QED
    BY <2>1, ZoneStep
<1>3. Keeps(g, m2) /\ SameFrom(m, m2, a.base)
  <2>1. Keeps(f, m)
    BY DEF EmuOK
  <2> QED
    BY <1>2, <2>1, KeepsAbove
<1>4. BodySp(g) = b
  BY DEF BodySp
<1>5. EmuOK(g, R2, m2)
  <2>1. BodySp(g) >= Floor(g.call) /\ g.entry + BlockLen(g.cpu) <= EmuStackTop
    BY <1>4 DEF EmuOK
  <2> QED
    BY <1>1, <1>2, <1>3, <1>4, <2>1 DEF EmuOK
<1>6. R2.sp \in Floor(c)..EmuStackTop /\ R2.sp <= a.base
  <2> DEFINE en == f.entry
             base == a.base
             k == BlockLen(e)
             lo == Floor(c)
  <2>1. /\ en \in Int /\ b \in Int /\ base \in Int /\ LocalWords \in Int /\ StackWords \in Int
        /\ LocalWords >= 0 /\ b = en - LocalWords - 2 /\ b >= lo /\ lo \in Int
        /\ en = base - k /\ k \in {8, 17} /\ base <= EmuStackTop
        /\ EmuStackTop = StackWords + 1
    BY DEF Places
  <2> HIDE DEF b, en, base, k, lo
  <2>2. b \in lo..EmuStackTop /\ b <= base
    BY <2>1
  <2> QED
    BY <1>1, <2>2 DEF lo, base
<1> QED
  BY <1>2, <1>3, <1>5, <1>6 DEF Leaves

\* So it keeps the words.
LEMMA ResumeWordsStay ==
  ASSUME Room, Shape, Words, EmuResume
  PROVE  Words'
<1> DEFINE e == Top.cpu
           R == regs[e]
           R2 == ResumeRegs(e, R, Top)
           m2 == WriteZone(e, mem[e], R2.sp, Top.call)
<1>1. PICK g : /\ stack' = With(g) /\ EmuFrame(g) /\ g.st = "run"
               /\ g.call = Top.call /\ g.n = Top.n /\ g.cpu = e /\ g.entry = Top.entry
               /\ EmuFrame(Top) /\ Top.st = "back" /\ e \in Engines
               /\ RegFile(R2)
               /\ regs' = [regs EXCEPT ![e] = R2]
               /\ mem' = [mem EXCEPT ![e] = m2]
  BY EmuResumeStep
<1>2. calls' = calls /\ calls' \in calls..MaxCalls
  BY TopKinds DEF EmuResume
<1>3. /\ Places(Under, Top, e, R, calls)
      /\ EmuOK(Top, R, mem[e]) /\ RegFile(R) /\ DOMAIN mem[e] = 1..StackWords
  <2> HIDE DEF e
  <2> QED
    BY <1>1, TopEmu DEF e
<1>4. Leaves(g, R2, mem[e], m2, Under.base, calls)
  <2>1. Top.out \in Int
    <3>1. Top.kind = "emu"
      BY <1>1 DEF EmuFrame
    <3> QED
      BY <1>1, <3>1, EmuTop
  <2>2. m2 = WriteZone(e, mem[e], R2.sp, Top.call) /\ R2 = ResumeRegs(e, R, Top) /\ Top.cpu = e
    OBVIOUS
  <2> HIDE DEF m2, R2, e, R
  <2> QED
    BY <1>1, <1>3, <2>1, <2>2, ResumeOK
<1> HIDE DEF R2, m2
<1> QED
  BY <1>1, <1>2, <1>4, FunctionWith

\* A function that returns finds the return address and the stack it was given.
LEMMA ReturnOK ==
  ASSUME Room, NEW f, NEW a, NEW e \in Engines, NEW R, NEW c, Places(a, f, e, R, c), RegFile(R),
         f.cpu = e, f.st = "run", NEW m, DOMAIN m = 1..StackWords, EmuOK(f, R, m),
         NEW g, g.st = "leaves", g.call = f.call, g.n = f.n, g.cpu = e, g.entry = f.entry,
         NEW R2, R2 = LeaveRegs(e, R, f, m)
  PROVE  Leaves(g, R2, m, m, a.base, c)
<1> DEFINE b == BodySp(f)
           en == f.entry
           base == a.base
           k == BlockLen(e)
           lo == Floor(c)
           sp == R.sp
<1>1. /\ en \in Int /\ b \in Int /\ base \in Int /\ LocalWords \in Int /\ StackWords \in Int
      /\ LocalWords >= 0 /\ b = en - LocalWords - 2 /\ b >= lo /\ lo \in Int
      /\ en = base - k /\ k \in {8, 17} /\ base <= EmuStackTop
      /\ EmuStackTop = StackWords + 1
  BY DEF Places
<1>2. sp = b /\ Keeps(f, m)
  BY DEF EmuOK
<1>3. sp + LocalWords = en - 2 /\ sp + LocalWords + 2 = en
  <2> HIDE DEF b, en, base, k, lo, sp
  <2> QED
    BY <1>1, <1>2
<1>4. R2.sp = en + (IF e = x64 THEN 1 ELSE 0) /\ R2.ret = Result(f.call)
  <2>1. R2.sp = (IF e = x64 THEN 1 ELSE 0) + sp + LocalWords + 2 /\ R2.ret = Result(f.call)
    BY DEF LeaveRegs, RegFile
  <2>2. sp \in Int
    BY <1>1, <1>2
  <2>3. (IF e = x64 THEN 1 ELSE 0) \in Int
    OBVIOUS
  <2> DEFINE i == IF e = x64 THEN 1 ELSE 0
  <2>4. i \in Int /\ R2.sp = i + sp + LocalWords + 2
    BY <2>1, <2>3
  <2> HIDE DEF en, sp, i
  <2>5. R2.sp = en + i
    BY <1>1, <1>3, <2>2, <2>4
  <2> QED
    BY <2>1, <2>5 DEF i
<1>5. R2.pc = Magic
  <2>1. R2.pc = IF e = x64 THEN m[sp + LocalWords + 2] ELSE m[sp + LocalWords]
    BY DEF LeaveRegs, RegFile
  <2>2. IF e = x64 THEN m[en] = Magic ELSE m[en - 2] = Magic
    BY <1>2 DEF Keeps
  <2> QED
    BY <1>3, <2>1, <2>2
<1>6. EmuOK(g, R2, m)
  <2>1. BodySp(g) = b
    BY DEF BodySp
  <2>2. BodySp(g) >= Floor(g.call) /\ g.entry + BlockLen(g.cpu) <= EmuStackTop
    BY <2>1 DEF EmuOK
  <2> QED
    BY <1>4, <1>5, <2>2 DEF EmuOK
<1>7. R2.sp \in lo..EmuStackTop /\ R2.sp <= base
  <2> HIDE DEF b, en, base, k, lo, sp
  <2>1. en + 1 <= base /\ en >= lo
    BY <1>1
  <2> QED
    BY <1>1, <1>4, <2>1
<1>8. SameFrom(m, m, base)
  BY DEF SameFrom
<1> QED
  BY <1>6, <1>7, <1>8 DEF Leaves

\* So it keeps the words.
LEMMA ReturnWordsStay ==
  ASSUME Room, Shape, Words, EmuReturn
  PROVE  Words'
<1> DEFINE e == Top.cpu
           R == regs[e]
           m == mem[e]
           R2 == LeaveRegs(e, R, Top, m)
<1>1. PICK g : /\ stack' = With(g) /\ EmuFrame(g) /\ g.st = "leaves"
               /\ g.call = Top.call /\ g.n = Top.n /\ g.cpu = e /\ g.entry = Top.entry
               /\ EmuFrame(Top) /\ Top.st = "run" /\ e \in Engines
               /\ RegFile(R2)
               /\ regs' = [regs EXCEPT ![e] = R2] /\ mem' = mem
  BY EmuReturnStep
<1>2. calls' = calls /\ calls' \in calls..MaxCalls
  BY TopKinds DEF EmuReturn
<1>3. /\ Places(Under, Top, e, R, calls)
      /\ EmuOK(Top, R, m) /\ RegFile(R) /\ DOMAIN m = 1..StackWords
  <2> HIDE DEF e
  <2> QED
    BY <1>1, TopEmu DEF e
<1>4. Leaves(g, R2, m, m, Under.base, calls)
  <2>1. R2 = LeaveRegs(e, R, Top, m) /\ Top.cpu = e
    OBVIOUS
  <2> HIDE DEF R2, e, R, m
  <2> QED
    BY <1>1, <1>3, <2>1, ReturnOK
<1> HIDE DEF R2
<1> QED
  BY <1>1, <1>2, <1>4, FunctionWith

\* A function that calls has its arguments below its own words.
LEMMA CallOK ==
  ASSUME Room, NEW f, NEW a, NEW e \in Engines, NEW R, NEW c, Places(a, f, e, R, c), c + 1 <= MaxCalls,
         RegFile(R), f.cpu = e, f.st = "run", NEW m, DOMAIN m = 1..StackWords, EmuOK(f, R, m),
         NEW n \in 0..16, NEW g, g.st = "calls", g.call = f.call, g.n = f.n, g.cpu = e, g.entry = f.entry,
         g.callee = c + 1, g.sent = n, g.out = OutWords(e, n),
         NEW target, NEW R2, R2 = CallRegs(e, R, c + 1, n, target),
         NEW m2, m2 = Put(m, R.sp - OutWords(e, n), CallBlock(e, c + 1, n))
  PROVE  Leaves(g, R2, m, m2, a.base, c + 1)
<1> DEFINE b == BodySp(f)
           en == f.entry
           base == a.base
           k0 == BlockLen(e)
           lo == Floor(c)
           lo2 == Floor(c + 1)
           l == OutWords(e, n)
           A == ArgRegs(e)
           d == c + 1
           B == CallBlock(e, d, n)
           sp == R2.sp
<1>1. /\ en \in Int /\ b \in Int /\ base \in Int /\ LocalWords \in Int /\ StackWords \in Int
      /\ LocalWords >= 0 /\ b = en - LocalWords - 2 /\ b >= lo /\ lo \in Int
      /\ en = base - k0 /\ k0 \in {8, 17} /\ base <= EmuStackTop
      /\ EmuStackTop = StackWords + 1 /\ c \in Int
  BY DEF Places
<1>2. R.sp = b /\ Keeps(f, m) /\ R.keep = Kept(f.call, 0)
  BY DEF EmuOK
<1>3. l \in 0..17 /\ (e = x64 => l >= 5 /\ l > n) /\ (e # x64 => n - 8 <= l) /\ A \in {4, 8}
      /\ A = (IF e = x64 THEN 4 ELSE 8)
  BY DEF OutWords, ArgRegs
<1>4. lo = lo2 + LocalWords + 35 /\ lo2 \in Int /\ lo2 >= 17
  <2>1. c + 1 \in Int /\ (c + 1) - 1 = c
    BY <1>1
  <2>2. Floor(c + 1) \in Int /\ Floor((c + 1) - 1) = Floor(c + 1) + Depth
    BY <2>1, FloorInt
  <2>3. Floor(c + 1) >= RedZone + 1 /\ RedZone = 16
    BY <2>1, FloorInside DEF RedZone
  <2> QED
    BY <1>1, <2>1, <2>2, <2>3 DEF Depth
<1>5. /\ R2.keep = R.keep
      /\ e # x64 => R2.lr = Site(d)
      /\ R2.a = [k \in 1..A |-> IF k <= n THEN Arg(d, k) ELSE Junk]
      /\ sp = R.sp - l
  BY DEF CallRegs, RegFile
<1>6. /\ Len(B) = l
      /\ e = x64 => B[1] = Site(d) /\ \A k \in 5..n : B[k + 1] = Arg(d, k)
      /\ e # x64 => \A k \in 9..n : B[k - 9 + 1] = Arg(d, k)
  BY CallBlockWords
<1>7. m2 = Put(m, sp, B)
  BY <1>5
<1> HIDE DEF B, sp
<1>8. sp \in Int /\ sp + l = b /\ sp >= lo2 /\ sp >= 17 /\ b <= EmuStackTop /\ b <= base
  <2>1. sp = b - l
    BY <1>2, <1>5
  <2> HIDE DEF b, en, base, k0, lo, lo2, l
  <2> QED
    BY <1>1, <1>3, <1>4, <2>1
<1>9. PutIs(m2, m, sp, B, l)
  <2>1. l \in Nat
    BY <1>3
  <2> HIDE DEF l
  <2> QED
    BY <1>6, <1>7, <1>8, <2>1, PutHolds
<1>10. DOMAIN m2 = 1..StackWords /\ SameFrom(m, m2, b)
  BY <1>8, <1>9 DEF PutIs, SameFrom
<1>11. \A k \in 0..(l - 1) : m2[sp + k] = B[k + 1]
  <2> SUFFICES ASSUME NEW k \in 0..(l - 1) PROVE m2[sp + k] = B[k + 1]
    OBVIOUS
  <2>1. sp + k \in 1..StackWords
    <3>1. l \in Int
      BY <1>3
    <3> HIDE DEF b, en, base, k0, lo, lo2, l
    <3> QED
      BY <1>1, <1>8, <3>1
  <2> QED
    BY <1>9, <2>1 DEF PutIs
<1>12. Keeps(g, m2) /\ SameFrom(m, m2, base)
  BY <1>2, <1>10, KeepsAbove
<1>13. BodySp(g) = b
  BY DEF BodySp
<1>14. \A k \in (A + 1)..n : m2[StackArg(e, sp, k)] = Arg(d, k)
  <2> SUFFICES ASSUME NEW k \in (A + 1)..n PROVE m2[StackArg(e, sp, k)] = Arg(d, k)
    OBVIOUS
  <2>1. k \in Int /\ k >= A + 1 /\ k <= n /\ n \in Int /\ l \in Int
    BY <1>3
  <2>2. CASE e = x64
    <3>1. k \in 5..n /\ k \in 0..(l - 1)
      <4>1. A = 4 /\ l > n
        BY <1>3, <2>2
      <4> HIDE DEF A, l
      <4> QED
        BY <2>1, <4>1
    <3>2. m2[sp + k] = B[k + 1] /\ B[k + 1] = Arg(d, k)
      BY <1>6, <1>11, <2>2, <3>1
    <3> QED
      BY <2>2, <3>2 DEF StackArg
  <2>3. CASE e # x64
    <3>1. k \in 9..n /\ k - 9 \in 0..(l - 1)
      <4>1. A = 8 /\ n - 8 <= l
        BY <1>3, <2>3
      <4> HIDE DEF A, l
      <4> QED
        BY <2>1, <4>1
    <3>2. m2[sp + (k - 9)] = B[k - 9 + 1] /\ B[k - 9 + 1] = Arg(d, k)
      BY <1>6, <1>11, <2>3, <3>1
    <3>3. sp + k - 9 = sp + (k - 9)
      BY <1>8, <2>1
    <3> QED
      BY <2>3, <3>2, <3>3 DEF StackArg
  <2> QED
    BY <2>2, <2>3
<1>15. e = x64 => m2[sp] = Site(d)
  <2> SUFFICES ASSUME e = x64 PROVE m2[sp] = Site(d)
    OBVIOUS
  <2>1. 0 \in 0..(l - 1) /\ sp + 0 = sp
    BY <1>3, <1>8
  <2>2. m2[sp + 0] = B[0 + 1]
    BY <1>11, <2>1
  <2> QED
    BY <1>6, <2>1, <2>2
<1>16. Passes(g, R2, m2)
  <2>1. sp = b - l
    BY <1>2, <1>5
  <2> HIDE DEF d, l, A, b
  <2> QED
    BY <1>5, <1>13, <1>14, <1>15, <2>1 DEF Passes, d, l, A, sp
<1>17. EmuOK(g, R2, m2)
  <2>1. BodySp(g) >= Floor(g.call) /\ g.entry + BlockLen(g.cpu) <= EmuStackTop
    BY <1>13 DEF EmuOK
  <2>2. R2.sp >= 1
    BY <1>8 DEF sp
  <2> QED
    BY <1>2, <1>5, <1>12, <1>16, <2>1, <2>2 DEF EmuOK
<1>18. sp \in lo2..EmuStackTop /\ sp <= base
  <2>1. l \in Int /\ l >= 0
    BY <1>3
  <2> HIDE DEF b, en, base, k0, lo, lo2, l
  <2> QED
    BY <1>1, <1>4, <1>8, <2>1
<1> QED
  BY <1>10, <1>12, <1>17, <1>18 DEF Leaves, sp

\* So it keeps the words.
LEMMA EmuCallWords ==
  ASSUME Room, Shape, Words, EmuCall
  PROVE  Words'
<1> DEFINE e == Top.cpu
           R == regs[e]
           m == mem[e]
           d == calls + 1
<1>1. /\ EmuFrame(Top) /\ Top.st = "run" /\ e \in Engines
      /\ calls' = calls + 1 /\ calls < MaxCalls
      /\ \E n, target, g :
           /\ n \in 0..16 /\ target \in {"native", "null"}
           /\ stack' = With(g) /\ EmuFrame(g) /\ g.st = "calls"
           /\ g.call = Top.call /\ g.n = Top.n /\ g.cpu = e /\ g.entry = Top.entry
           /\ g.callee = calls + 1 /\ g.sent = n /\ g.out = OutWords(e, n)
           /\ RegFile(CallRegs(e, R, calls + 1, n, target))
           /\ regs' = [regs EXCEPT ![e] = CallRegs(e, R, calls + 1, n, target)]
           /\ mem' = [mem EXCEPT ![e] = Put(m, R.sp - OutWords(e, n), CallBlock(e, calls + 1, n))]
  BY EmuCallStep
<1>2. PICK n, target, g :
           /\ n \in 0..16 /\ target \in {"native", "null"}
           /\ stack' = With(g) /\ EmuFrame(g) /\ g.st = "calls"
           /\ g.call = Top.call /\ g.n = Top.n /\ g.cpu = e /\ g.entry = Top.entry
           /\ g.callee = calls + 1 /\ g.sent = n /\ g.out = OutWords(e, n)
           /\ RegFile(CallRegs(e, R, calls + 1, n, target))
           /\ regs' = [regs EXCEPT ![e] = CallRegs(e, R, calls + 1, n, target)]
           /\ mem' = [mem EXCEPT ![e] = Put(m, R.sp - OutWords(e, n), CallBlock(e, calls + 1, n))]
  BY <1>1
<1> DEFINE R2 == CallRegs(e, R, calls + 1, n, target)
           m2 == Put(m, R.sp - OutWords(e, n), CallBlock(e, calls + 1, n))
<1>3. calls' = d /\ d \in calls..MaxCalls /\ d <= MaxCalls
  BY <1>1, TopKinds
<1>4. /\ Places(Under, Top, e, R, calls)
      /\ EmuOK(Top, R, m) /\ RegFile(R) /\ DOMAIN m = 1..StackWords
  <2> HIDE DEF e
  <2> QED
    BY <1>1, TopEmu DEF e
<1>5. Leaves(g, R2, m, m2, Under.base, calls + 1)
  <2>1. R2 = CallRegs(e, R, calls + 1, n, target) /\ Top.cpu = e
        /\ m2 = Put(m, R.sp - OutWords(e, n), CallBlock(e, calls + 1, n))
    OBVIOUS
  <2>2. calls + 1 <= MaxCalls
    BY <1>3
  <2> HIDE DEF R2, m2, e, R, m
  <2> QED
    BY <1>1, <1>2, <1>4, <2>1, <2>2, CallOK
<1>6. RegFile(R2) /\ regs' = [regs EXCEPT ![e] = R2] /\ mem' = [mem EXCEPT ![e] = m2]
  BY <1>2
<1>7. Leaves(g, R2, m, m2, Under.base, calls')
  BY <1>3, <1>5
<1> HIDE DEF R2, m2
<1> QED
  BY <1>1, <1>2, <1>3, <1>6, <1>7, FunctionWith

\* Back in a function from what it called.
LEMMA BackOK ==
  ASSUME Room, NEW f, NEW a, NEW e \in Engines, NEW R, NEW c, Places(a, f, e, R, c), RegFile(R),
         EmuFrame(f), f.cpu = e, f.st = "calls", NEW m, DOMAIN m = 1..StackWords, EmuOK(f, R, m),
         R.sp \in Floor(c)..EmuStackTop,
         NEW g, g.st = "back", g.call = f.call, g.n = f.n, g.cpu = e, g.entry = f.entry,
         g.out = f.out, g.callee = f.callee,
         NEW value, value \in {Result(f.callee), Unsupported}, NEW R2, R2 = BackRegs(e, R, m, value)
  PROVE  Leaves(g, R2, m, m, a.base, c)
<1> DEFINE b == BodySp(f)
           en == f.entry
           base == a.base
           k0 == BlockLen(e)
           lo == Floor(c)
           l == f.out
           i == IF e = x64 THEN 1 ELSE 0
<1>1. /\ en \in Int /\ b \in Int /\ base \in Int /\ LocalWords \in Int /\ StackWords \in Int
      /\ LocalWords >= 0 /\ b = en - LocalWords - 2 /\ b >= lo /\ lo \in Int
      /\ en = base - k0 /\ k0 \in {8, 17} /\ base <= EmuStackTop
      /\ EmuStackTop = StackWords + 1
  BY DEF Places
<1>2. R.sp = b - l /\ Keeps(f, m) /\ R.keep = Kept(f.call, 0) /\ Passes(f, R, m)
  BY DEF EmuOK, Passes
<1>3. l \in Int /\ l >= i /\ i \in 0..1
  <2> DEFINE n == f.sent
  <2>1. l = OutWords(e, n) /\ n \in 0..16
    BY DEF EmuFrame, MAX_ARGS
  <2> HIDE DEF n
  <2>2. OutWords(e, n) \in Int /\ OutWords(e, n) >= i
    BY <2>1 DEF OutWords, ArgRegs
  <2> QED
    BY <2>1, <2>2
<1>4. R2.keep = R.keep /\ R2.ret = value /\ R2.pc = (IF e = x64 THEN m[R.sp] ELSE R.lr)
      /\ R2.sp = R.sp + i
  BY DEF BackRegs, RegFile
<1>5. R2.pc = Site(f.callee)
  BY <1>2, <1>4 DEF Passes
<1>6. R2.sp = b - l + i
  BY <1>2, <1>4
<1>7. EmuOK(g, R2, m)
  <2>1. BodySp(g) = b
    BY DEF BodySp
  <2>2. BodySp(g) >= Floor(g.call) /\ g.entry + BlockLen(g.cpu) <= EmuStackTop
    BY <2>1 DEF EmuOK
  <2>3. Keeps(g, m)
    BY <1>2, <2>1 DEF Keeps
  <2> QED
    BY <1>2, <1>4, <1>5, <1>6, <2>1, <2>2, <2>3 DEF EmuOK
<1>8. R2.sp \in lo..EmuStackTop /\ R2.sp <= base
  <2>1. R.sp >= lo /\ R.sp \in Int
    BY <1>1
  <2>2. R2.sp = R.sp + i
    BY <1>4
  <2> DEFINE u == R.sp
             v == R2.sp
  <2>3. u = b - l /\ v = u + i /\ u >= lo /\ u \in Int
    BY <1>2, <2>1, <2>2
  <2> HIDE DEF b, en, base, k0, lo, l, i, u, v
  <2>4. b <= base
    BY <1>1
  <2>5. v \in lo..EmuStackTop /\ v <= base
    BY <1>1, <1>3, <2>3, <2>4
  <2> QED
    BY <2>5 DEF v
<1>9. SameFrom(m, m, base)
  BY DEF SameFrom
<1> QED
  BY <1>7, <1>8, <1>9 DEF Leaves

\* A call of NULL keeps the words.
LEMMA NullCallWords ==
  ASSUME Room, Shape, Words, NullCall
  PROVE  Words'
<1> DEFINE e == Top.cpu
           R == regs[e]
           m == mem[e]
           R2 == BackRegs(e, R, m, Unsupported)
<1>1. PICK g : /\ stack' = With(g) /\ EmuFrame(g) /\ g.st = "back"
               /\ g.call = Top.call /\ g.n = Top.n /\ g.cpu = e /\ g.entry = Top.entry
               /\ g.out = Top.out /\ g.callee = Top.callee /\ g.sent = Top.sent
               /\ EmuFrame(Top) /\ Top.st = "calls" /\ e \in Engines
               /\ RegFile(R2) /\ regs' = [regs EXCEPT ![e] = R2]
               /\ mem' = mem
  BY NullCallStep
<1>2. calls' = calls /\ calls' \in calls..MaxCalls
  BY TopKinds DEF NullCall
<1>3. /\ Places(Under, Top, e, R, calls)
      /\ EmuOK(Top, R, m) /\ RegFile(R) /\ DOMAIN m = 1..StackWords
      /\ EngineOK(stack, R, m, calls, e)
  <2> HIDE DEF e
  <2> QED
    BY <1>1, TopEmu DEF e
<1>4. Leaves(g, R2, m, m, Under.base, calls)
  <2>1. R2 = BackRegs(e, R, m, Unsupported) /\ Top.cpu = e
    OBVIOUS
  <2>2. R.sp \in Floor(calls)..EmuStackTop /\ Unsupported \in {Result(Top.callee), Unsupported}
    BY <1>3 DEF EngineOK
  <2> HIDE DEF R2, e, R, m
  <2> QED
    BY <1>1, <1>3, <2>1, <2>2, BackOK
<1> HIDE DEF R2
<1> QED
  BY <1>1, <1>2, <1>4, FunctionWith

\* What the thunks pick up, and what filling in the home zone leaves.
LEMMA WrapOK ==
  ASSUME NEW f, NEW a, NEW e \in Engines, NEW R, NEW c, Places(a, f, e, R, c), EmuFrame(f), f.cpu = e,
         f.st = "calls", NEW m, DOMAIN m = 1..StackWords, EmuOK(f, R, m), NEW wrapper \in BOOLEAN,
         NEW m2, m2 = IF wrapper /\ e = x64 THEN Put(m, R.sp + 1, R.a) ELSE m
  PROVE  /\ EmuOK(f, R, m2) /\ DOMAIN m2 = 1..StackWords /\ SameFrom(m, m2, a.base)
         /\ \A k \in 1..f.sent : PickedUp(e, R, m2, wrapper)[k] = Arg(f.callee, k)
<1> DEFINE b == BodySp(f)
           en == f.entry
           base == a.base
           k0 == BlockLen(e)
           l == f.out
           n == f.sent
           A == ArgRegs(e)
           sp == R.sp
           d == f.callee
<1>1. /\ en \in Int /\ b \in Int /\ base \in Int /\ LocalWords \in Int /\ StackWords \in Int
      /\ LocalWords >= 0 /\ b = en - LocalWords - 2
      /\ en = base - k0 /\ k0 \in {8, 17} /\ base <= EmuStackTop
      /\ EmuStackTop = StackWords + 1 /\ sp \in Int
  BY DEF Places
<1>2. sp = b - l /\ sp >= 1 /\ Keeps(f, m) /\ Passes(f, R, m)
  BY DEF EmuOK, Passes
<1>3. /\ R.a = [k \in 1..A |-> IF k <= n THEN Arg(d, k) ELSE Junk]
      /\ \A k \in (A + 1)..n : m[StackArg(e, sp, k)] = Arg(d, k)
      /\ IF e = x64 THEN m[sp] = Site(d) ELSE R.lr = Site(d)
  BY <1>2 DEF Passes
<1>4. n \in 0..16 /\ l = OutWords(e, n)
  BY DEF EmuFrame, MAX_ARGS
<1>5. l \in Int /\ (e = x64 => l >= 5 /\ l > n /\ A = 4) /\ (e # x64 => n - 8 <= l /\ A = 8) /\ l >= 0
  <2> HIDE DEF l, n
  <2> QED
    BY <1>4 DEF OutWords, ArgRegs
<1>6. b <= StackWords + 1 /\ b <= base /\ sp + l = b
  <2> HIDE DEF b, en, base, k0, l, n, A, sp, d
  <2> QED
    BY <1>1, <1>2, <1>5
<1>7. wrapper /\ e = x64 => PutIs(m2, m, sp + 1, R.a, 4)
  <2> SUFFICES ASSUME wrapper, e = x64 PROVE PutIs(m2, m, sp + 1, R.a, 4)
    OBVIOUS
  <2> DEFINE q == sp + 1
             z == R.a
  <2>1. A = 4
    BY <1>5
  <2>2. z = [k \in 1..4 |-> IF k <= n THEN Arg(d, k) ELSE Junk]
    BY <1>3, <2>1
  <2>3. Len(z) = 4 /\ 4 \in Nat /\ q \in Int /\ m2 = Put(m, q, z)
    <3>1. IsFun(z, 4)
      <4> HIDE DEF z
      <4> QED
        BY <2>2 DEF IsFun
    <3>2. q \in Int /\ m2 = Put(m, q, z)
      BY <1>1
    <3> HIDE DEF z, q
    <3> QED
      BY <3>1, <3>2, FunSeq
  <2> HIDE DEF q, z
  <2>4. PutIs(m2, m, q, z, 4)
    BY <2>3, PutHolds
  <2> QED
    BY <2>4 DEF q, z
<1>8. DOMAIN m2 = 1..StackWords
  <2>1. CASE wrapper /\ e = x64
    BY <1>7, <2>1 DEF PutIs
  <2>2. CASE ~(wrapper /\ e = x64)
    BY <2>2
  <2> QED
    BY <2>1, <2>2
<1>9. \A w \in 1..StackWords : w = sp \/ w >= sp + 5 \/ e # x64 => m2[w] = m[w]
  <2>1. CASE wrapper /\ e = x64
    <3> SUFFICES ASSUME NEW w \in 1..StackWords, w = sp \/ w >= sp + 5 PROVE m2[w] = m[w]
      BY <2>1
    <3>1. w < sp + 1 \/ w >= (sp + 1) + 4
      <4>1. w \in Int /\ sp \in Int
        BY <1>1
      <4> HIDE DEF sp
      <4> QED
        BY <4>1
    <3> QED
      BY <1>7, <2>1, <3>1 DEF PutIs
  <2>2. CASE ~(wrapper /\ e = x64)
    BY <2>2
  <2> QED
    BY <2>1, <2>2
<1>10. SameFrom(m, m2, b)
  <2> SUFFICES ASSUME NEW w \in 1..StackWords, w >= b PROVE m2[w] = m[w]
    BY DEF SameFrom
  <2>1. w >= sp + 5 \/ e # x64
    <3>1. w \in Int
      OBVIOUS
    <3> HIDE DEF b, en, base, k0, l, n, A, sp, d
    <3> QED
      BY <1>1, <1>5, <1>6, <3>1
  <2> QED
    BY <1>9, <2>1
<1>11. Keeps(f, m2) /\ SameFrom(m, m2, base)
  BY <1>2, <1>10, KeepsAbove
<1>12. \A k \in (A + 1)..n : m2[StackArg(e, sp, k)] = Arg(d, k)
  <2> SUFFICES ASSUME NEW k \in (A + 1)..n PROVE m2[StackArg(e, sp, k)] = Arg(d, k)
    OBVIOUS
  <2>1. m[StackArg(e, sp, k)] = Arg(d, k)
    BY <1>3
  <2>2. CASE e = x64
    <3>1. StackArg(e, sp, k) = sp + k
      BY <2>2 DEF StackArg
    <3>2. k \in Int /\ k >= 5 /\ k < l
      <4>1. A = 4 /\ l > n /\ n \in Int /\ l \in Int
        BY <1>4, <1>5, <2>2
      <4> HIDE DEF A, n, l
      <4> QED
        BY <4>1
    <3>3. sp + k \in 1..StackWords /\ sp + k >= sp + 5
      <4> HIDE DEF b, en, base, k0, l, n, A, sp, d
      <4> QED
        BY <1>1, <1>2, <1>5, <1>6, <3>2
    <3>4. m2[sp + k] = m[sp + k]
      BY <1>9, <3>3
    <3> QED
      BY <2>1, <3>1, <3>4
  <2>3. CASE e # x64
    <3>1. m2 = m
      BY <2>3
    <3> QED
      BY <2>1, <3>1
  <2> QED
    BY <2>2, <2>3
<1>13. e = x64 => m2[sp] = Site(d)
  <2> SUFFICES ASSUME e = x64 PROVE m2[sp] = Site(d)
    OBVIOUS
  <2>1. sp \in 1..StackWords
    <3>1. l >= 5
      BY <1>5
    <3> HIDE DEF b, en, base, k0, l, n, A, sp, d
    <3> QED
      BY <1>1, <1>2, <1>5, <1>6, <3>1
  <2> QED
    BY <1>3, <1>9, <2>1
<1>14. Passes(f, R, m2)
  <2> HIDE DEF b, en, base, k0, l, n, A, sp, d
  <2> QED
    BY <1>2, <1>3, <1>12, <1>13 DEF Passes, b, l, n, A, sp, d
<1>15. EmuOK(f, R, m2)
  BY <1>11, <1>14 DEF EmuOK
<1>16. ASSUME NEW k \in 1..n PROVE PickedUp(e, R, m2, wrapper)[k] = Arg(d, k)
  <2>1. k \in 1..16 /\ k \in Int /\ A \in {4, 8}
    <3>1. n \in 0..16 /\ A \in {4, 8}
      BY <1>4, <1>5
    <3> HIDE DEF n, A
    <3> QED
      BY <3>1
  <2>2. k <= A => R.a[k] = Arg(d, k)
    <3> SUFFICES ASSUME k <= A PROVE R.a[k] = Arg(d, k)
      OBVIOUS
    <3>1. k \in 1..A /\ k <= n
      <4> HIDE DEF A, n
      <4> QED
        BY <2>1
    <3> QED
      BY <1>3, <3>1
  <2>3. ~(k <= A) => m2[StackArg(e, sp, k)] = Arg(d, k)
    <3> SUFFICES ASSUME ~(k <= A) PROVE m2[StackArg(e, sp, k)] = Arg(d, k)
      OBVIOUS
    <3>1. k \in (A + 1)..n
      <4>1. n \in Int
        BY <1>4
      <4> HIDE DEF A, n
      <4> QED
        BY <2>1, <4>1
    <3> QED
      BY <1>12, <3>1
  <2>4. CASE e # x64
    <3>1. PickedUp(e, R, m2, wrapper)[k] = IF k <= 8 THEN R.a[k] ELSE m2[sp + k - 9]
      BY <2>1, <2>4 DEF PickedUp, AArch64Args, MAX_ARGS
    <3>2. A = 8 /\ StackArg(e, sp, k) = sp + k - 9
      BY <1>5, <2>4 DEF StackArg
    <3> QED
      BY <2>2, <2>3, <3>1, <3>2
  <2>5. CASE e = x64 /\ ~wrapper
    <3>1. PickedUp(e, R, m2, wrapper)[k] = IF k <= 4 THEN R.a[k] ELSE m2[sp + k]
      BY <2>1, <2>5 DEF PickedUp, X64Args, MAX_ARGS
    <3>2. A = 4 /\ StackArg(e, sp, k) = sp + k
      BY <1>5, <2>5 DEF StackArg
    <3> QED
      BY <2>2, <2>3, <3>1, <3>2
  <2>6. CASE e = x64 /\ wrapper
    <3>1. PickedUp(e, R, m2, wrapper)[k] = m2[sp + k]
      BY <2>1, <2>6 DEF PickedUp, MAX_ARGS
    <3>2. A = 4 /\ StackArg(e, sp, k) = sp + k
      BY <1>5, <2>6 DEF StackArg
    <3>3. CASE k <= 4
      <4>1. k - 1 \in 0..(4 - 1) /\ (k - 1) + 1 = k /\ (sp + 1) + (k - 1) = sp + k
        BY <1>1, <2>1, <3>3
      <4>2. sp + k \in 1..StackWords
        <5>1. l >= 5
          BY <1>5, <2>6
        <5> HIDE DEF b, en, base, k0, l, n, A, sp, d
        <5> QED
          BY <1>1, <1>2, <1>5, <1>6, <2>1, <3>3, <5>1
      <4>3. m2[(sp + 1) + (k - 1)] = R.a[(k - 1) + 1]
        BY <1>7, <2>6, <4>1, <4>2 DEF PutIs
      <4> QED
        BY <2>2, <3>1, <3>2, <3>3, <4>1, <4>3
    <3>4. CASE ~(k <= 4)
      BY <2>3, <3>1, <3>2, <3>4
    <3> QED
      BY <3>3, <3>4
  <2> QED
    BY <2>4, <2>5, <2>6
<1> QED
  BY <1>8, <1>11, <1>15, <1>16

\* The native thunk keeps the words: it writes to home slots of its caller's call only.
LEMMA CallNativeWords ==
  ASSUME Room, Shape, Words, CallNative
  PROVE  Words'
<1> DEFINE e == Top.cpu
           n == Len(stack)
           p == n - 1
           R == regs[e]
<1>1. /\ EmuFrame(Top) /\ Top.st = "calls" /\ e \in Engines
      /\ \E wrapper \in BOOLEAN : \E m, g :
           /\ m = (IF wrapper THEN Wrapped(e, mem[e]) ELSE mem[e])
           /\ mem' = [mem EXCEPT ![e] = m]
           /\ g = Native("native", Top.callee, Top.sent, PickedUp(e, R, m, wrapper))
           /\ stack' = Append(stack, g) /\ NativeFrame(g) /\ g.kind = "native"
           /\ g.call = Top.callee /\ g.n = Top.sent
  BY CallNativeStep
<1>0. PICK wrapper \in BOOLEAN : \E m, g :
           /\ m = (IF wrapper THEN Wrapped(e, mem[e]) ELSE mem[e])
           /\ mem' = [mem EXCEPT ![e] = m]
           /\ g = Native("native", Top.callee, Top.sent, PickedUp(e, R, m, wrapper))
           /\ stack' = Append(stack, g) /\ NativeFrame(g) /\ g.kind = "native"
           /\ g.call = Top.callee /\ g.n = Top.sent
  BY <1>1
<1>2. PICK m, g :
           /\ m = (IF wrapper THEN Wrapped(e, mem[e]) ELSE mem[e])
           /\ mem' = [mem EXCEPT ![e] = m]
           /\ g = Native("native", Top.callee, Top.sent, PickedUp(e, R, m, wrapper))
           /\ stack' = Append(stack, g) /\ NativeFrame(g) /\ g.kind = "native"
           /\ g.call = Top.callee /\ g.n = Top.sent
  BY <1>0
<1>3. regs' = regs /\ calls' = calls /\ calls \in Int
  BY TopKinds DEF CallNative
<1>4. n \in Nat /\ n >= 2 /\ Top = stack[n] /\ IsSeq(stack) /\ Top.kind = "emu"
  <2>1. Top.kind = "emu"
    BY <1>1 DEF EmuFrame
  <2> QED
    BY <2>1, TopKinds
<1>5. /\ Places(Under, Top, e, R, calls)
      /\ EmuOK(Top, R, mem[e]) /\ RegFile(R) /\ DOMAIN mem[e] = 1..StackWords
      /\ EngineOK(stack, R, mem[e], calls, e) /\ Owns(Under, e) /\ Under.st = "run"
  <2> HIDE DEF e
  <2> QED
    BY <1>1, TopEmu DEF e
<1>6. /\ EmuOK(Top, R, m) /\ DOMAIN m = 1..StackWords /\ SameFrom(mem[e], m, Under.base)
      /\ \A k \in 1..Top.sent : PickedUp(e, R, m, wrapper)[k] = Arg(Top.callee, k)
  <2>1. m = IF wrapper /\ e = x64 THEN Put(mem[e], R.sp + 1, R.a) ELSE mem[e]
    BY <1>2 DEF Wrapped
  <2>2. Top.cpu = e
    OBVIOUS
  <2> HIDE DEF e, R
  <2> QED
    BY <1>1, <1>5, <2>1, <2>2, WrapOK
<1>7. Settled(stack) /\ EnginesOK /\ Moves(regs, regs', e, R)
  BY <1>1, <1>3 DEF Words, Shape, Moves
<1>8. Delivered(g)
  <2>1. g.args = PickedUp(e, R, m, wrapper) /\ g.got = <<>>
    BY <1>2 DEF Native
  <2> HIDE DEF e, R
  <2> QED
    BY <1>2, <1>6, <2>1 DEF Delivered
<1> DEFINE s == Append(stack, g)
<1>9. Settled(s)
  BY <1>2, <1>4, <1>7, <1>8, SettledAbove
<1>10. /\ IsSeq(s) /\ Len(s) = n + 1 /\ s[n + 1] = g /\ Agree(stack, s, n)
  BY <1>4, AppendStep
<1>11. \A x \in Engines : x # e => EngineOK(s, regs[x], mem[x], calls, x)
  <2> SUFFICES ASSUME NEW x \in Engines, x # e PROVE EngineOK(s, regs[x], mem[x], calls, x)
    OBVIOUS
  <2>1. EngineOK(stack, regs[x], mem[x], calls, x)
    BY <1>7 DEF EnginesOK
  <2>2. ~Owns(g, x) /\ ~IsEmu(g, x) /\ ~Waits(g, x) /\ calls <= calls
    BY <1>2, <1>3 DEF Owns, IsEmu, Waits
  <2> QED
    BY <1>3, <1>4, <2>1, <2>2, AboveOther
<1> HIDE DEF s
<1>12. /\ p \in 1..Len(stack) /\ p + 1 = n /\ p + 1 <= Len(s) /\ Len(s) \in Nat
       /\ Under = stack[p] /\ s[p + 1] = Top /\ Agree(stack, s, p)
       /\ \A k \in (p + 2)..Len(s) : s[k].kind \in {"native", "event"}
  <2>1. p + 2 = n + 1 /\ p \in 1..n /\ p + 1 = n /\ n \in 1..n
    BY <1>4
  <2>2. \A k \in (n + 1)..(n + 1) : k = n + 1
    BY <1>4
  <2>3. s[n] = stack[n] /\ Agree(stack, s, p)
    BY <1>4, <1>10, <2>1 DEF Agree
  <2> HIDE DEF p
  <2>4. \A k \in (p + 2)..Len(s) : s[k].kind \in {"native", "event"}
    BY <1>2, <1>10, <2>1, <2>2
  <2>5. p + 1 <= Len(s) /\ Len(s) \in Nat
    BY <1>4, <1>10, <2>1
  <2> QED
    BY <1>4, <2>1, <2>3, <2>4, <2>5 DEF Under, p
<1>13. /\ R.sp \in Floor(calls)..EmuStackTop /\ R.sp <= Under.base
  BY <1>5 DEF EngineOK, Places
<1>14. EngineOK(s, R, m, calls, e)
  <2> HIDE DEF p, n
  <2>1. EmuOK(s[p + 1], R, m) /\ s[p + 1].kind = "emu" /\ Owns(stack[p], e) /\ stack[p].st = "run"
        /\ R.sp <= stack[p].base /\ SameFrom(mem[e], m, stack[p].base)
    BY <1>4, <1>5, <1>6, <1>12, <1>13
  <2>2. EngineOK(stack, regs[e], mem[e], calls, e)
    BY <1>5
  <2> HIDE DEF e, R
  <2> QED
    BY <1>1, <1>3, <1>5, <1>6, <1>12, <1>13, <2>1, <2>2, FunctionKeeps
<1>15. EnginesOK'
  <2>1. stack' = s /\ mem' = [mem EXCEPT ![e] = m]
    BY <1>2 DEF s
  <2> HIDE DEF e, R
  <2> QED
    BY <1>1, <1>3, <1>7, <1>11, <1>14, <2>1, EnginesMove
<1>16. stack' = s
  BY <1>2 DEF s
<1> QED
  BY <1>9, <1>15, <1>16 DEF Words

\* A native return keeps the words.
LEMMA NativeReturnWords ==
  ASSUME Room, Shape, Words, NativeReturn
  PROVE  Words'
<1> DEFINE e == Under.cpu
           n == Len(stack)
           p == n - 2
           R == regs[e]
           m == mem[e]
           R2 == BackRegs(e, R, m, Result(Under.callee))
<1>1. PICK g : /\ stack' = Popped(g) /\ EmuFrame(g) /\ g.st = "back" /\ Len(stack) >= 2
               /\ g.call = Under.call /\ g.n = Under.n /\ g.cpu = e /\ g.entry = Under.entry
               /\ g.out = Under.out /\ g.callee = Under.callee /\ g.sent = Under.sent
               /\ EmuFrame(Under) /\ Under.st = "calls" /\ e \in Engines /\ Under.callee = Top.call
               /\ NativeFrame(Top) /\ Top.kind = "native"
               /\ RegFile(R2) /\ regs' = [regs EXCEPT ![e] = R2]
               /\ mem' = mem
  BY NativeReturnStep
<1>2. calls' = calls /\ calls \in Int
  BY TopKinds DEF NativeReturn
<1>3. n \in Nat /\ n >= 2 /\ Top = stack[n] /\ Under = stack[n - 1] /\ IsSeq(stack)
      /\ Under.kind = "emu" /\ g.kind = "emu" /\ StackOK(stack)
  BY <1>1, TopKinds DEF Under, EmuFrame, Shape
<1>4. n >= 3
  <2>1. n # 2
    <3> SUFFICES ASSUME n = 2 PROVE FALSE
      OBVIOUS
    <3>1. stack[1].kind = "emu"
      BY <1>3
    <3> QED
      BY <1>3, <3>1 DEF StackOK
  <2> HIDE DEF n
  <2> QED
    BY <1>3, <2>1
<1>5. /\ p \in 1..Len(stack) /\ p + 1 <= Len(stack) /\ Under = stack[p + 1] /\ p + 1 = n - 1
      /\ \A k \in (p + 2)..Len(stack) : stack[k].kind \in {"native", "event"}
  <2>1. p \in 1..n /\ p + 1 = n - 1 /\ p + 1 <= n /\ p + 2 = n
    BY <1>3, <1>4
  <2>2. \A k \in n..n : k = n
    BY <1>3
  <2> HIDE DEF p
  <2> QED
    BY <1>1, <1>3, <2>1, <2>2
<1> HIDE DEF p
<1>6. /\ Places(stack[p], Under, e, R, calls)
      /\ EmuOK(Under, R, m) /\ RegFile(R) /\ DOMAIN m = 1..StackWords
      /\ EngineOK(stack, R, m, calls, e) /\ Owns(stack[p], e) /\ stack[p].st = "run"
      /\ R.sp \in Floor(calls)..EmuStackTop
  <2>1. EmuFrame(stack[p + 1]) /\ stack[p + 1].cpu = e
    BY <1>1, <1>5
  <2> HIDE DEF e
  <2>2. /\ Runs(stack[p], stack[p + 1], e, calls)
        /\ Places(stack[p], stack[p + 1], e, regs[e], calls)
        /\ EmuOK(stack[p + 1], regs[e], mem[e])
        /\ EngineOK(stack, regs[e], mem[e], calls, e)
        /\ RegFile(regs[e]) /\ regs[e].sp \in Floor(calls)..EmuStackTop
        /\ DOMAIN mem[e] = 1..StackWords
        /\ Owns(stack[p], e)
    BY <1>5, <2>1, NowEmu
  <2> QED
    BY <1>5, <2>2 DEF Runs
<1>7. Leaves(g, R2, m, m, stack[p].base, calls)
  <2>1. R2 = BackRegs(e, R, m, Result(Under.callee)) /\ Under.cpu = e
        /\ Result(Under.callee) \in {Result(Under.callee), Unsupported}
    OBVIOUS
  <2> HIDE DEF R2, e, R, m
  <2> QED
    BY <1>1, <1>6, <2>1, BackOK
<1>8. Settled(stack) /\ EnginesOK /\ Moves(regs, regs', e, R2)
  BY <1>1, MovesTo DEF Words, Shape
<1>9. Delivered(g) /\ Stands(Under, g)
  BY <1>1, <1>3, StandsIn DEF Delivered
<1> DEFINE t == Popped(g)
<1>10. Settled(t)
  BY <1>3, <1>8, <1>9, SettledPopped
<1>11. \A x \in Engines : x # e => EngineOK(t, regs[x], mem[x], calls, x)
  <2> SUFFICES ASSUME NEW x \in Engines, x # e PROVE EngineOK(t, regs[x], mem[x], calls, x)
    OBVIOUS
  <2>1. ~Of(Under, x) /\ ~Of(g, x) /\ ~Owns(Top, x) /\ EngineOK(stack, regs[x], mem[x], calls, x)
    BY <1>1, <1>8 DEF Of, Owns, EnginesOK
  <2> QED
    BY <1>3, <2>1, PoppedOther
<1>12. Len(t) = n - 1 /\ t[n - 1] = g /\ Agree(stack, t, n - 2)
  BY <1>3, PoppedStep
<1> HIDE DEF t
<1>13. /\ t[p + 1] = g /\ Agree(stack, t, p) /\ p + 1 <= Len(t) /\ Len(t) \in Nat
       /\ \A k \in (p + 2)..Len(t) : FALSE
  <2>1. p = n - 2
    BY DEF p
  <2>2. p \in Int /\ p + 2 = n /\ n - 1 \in Nat /\ n - 1 <= n - 1
    BY <1>3, <1>4, <2>1
  <2>3. \A k \in n..(n - 1) : FALSE
    BY <1>3
  <2> QED
    BY <1>5, <1>12, <2>1, <2>2, <2>3
<1>14. EngineOK(t, R2, m, calls, e)
  <2>1. /\ EmuOK(t[p + 1], R2, m) /\ R2.sp \in Floor(calls)..EmuStackTop /\ R2.sp <= stack[p].base
        /\ SameFrom(m, m, stack[p].base) /\ t[p + 1].kind = "emu"
    BY <1>3, <1>7, <1>13 DEF Leaves
  <2>2. EngineOK(stack, regs[e], mem[e], calls, e) /\ DOMAIN m = 1..StackWords /\ m = mem[e]
    BY <1>6
  <2> HIDE DEF R2, e, R, m
  <2> QED
    BY <1>1, <1>2, <1>5, <1>6, <1>13, <2>1, <2>2, FunctionKeeps
<1>15. EnginesOK'
  <2>1. stack' = t /\ mem' = mem /\ m = mem[e]
    BY <1>1 DEF t
  <2> HIDE DEF R2, e, R, m
  <2> QED
    BY <1>1, <1>2, <1>8, <1>11, <1>14, <2>1, EnginesMove
<1>16. stack' = t
  BY <1>1 DEF t
<1> QED
  BY <1>10, <1>15, <1>16 DEF Words

\* The return through ReturnToNative or a failure keeps the words.
LEMMA LeavesWords ==
  ASSUME Room, Shape, Words, ReturnToNative \/ FailedEmu
  PROVE  Words'
<1> DEFINE e == Top.cpu
           n == Len(stack)
           p == n - 1
           R == regs[e]
           m == mem[e]
<1>1. PICK g : /\ stack' = Popped(g) /\ ActFrame(g) /\ Len(stack) >= 2
               /\ g.call = Under.call /\ g.n = Under.n /\ g.cpu = Under.cpu
               /\ g.base = Under.base /\ g.saved = Under.saved
               /\ ActFrame(Under) /\ Under.st = "run" /\ Under.cpu = Top.cpu /\ Under.call = Top.call
               /\ EmuFrame(Top)
               /\ \/ Top.st = "leaves" /\ g.st = "post"
                  \/ Top.st = "run" /\ g.st = "restore" /\ g.ret = Unsupported
               /\ regs' = regs /\ mem' = mem
  BY LeavesStep
<1>2. calls' = calls /\ calls \in Int
  BY TopKinds DEF ReturnToNative, FailedEmu
<1>3. n \in Nat /\ n >= 2 /\ Top = stack[n] /\ Under = stack[n - 1] /\ IsSeq(stack) /\ Top.kind = "emu"
  BY <1>1, TopKinds DEF Under, EmuFrame
<1>4. /\ e \in Engines /\ Places(Under, Top, e, R, calls)
      /\ EmuOK(Top, R, m) /\ RegFile(R) /\ DOMAIN m = 1..StackWords
      /\ EngineOK(stack, R, m, calls, e) /\ Owns(Under, e) /\ Under.st = "run"
  <2> HIDE DEF e
  <2> QED
    BY <1>1, TopEmu DEF e
<1>5. Settled(stack) /\ EnginesOK
  BY DEF Words
<1>6. Delivered(g) /\ Stands(Under, g) /\ g.kind = "act"
  <2>1. Stands(Under, g)
    BY <1>1, StandsIn
  <2> QED
    BY <1>1, <2>1 DEF Delivered, ActFrame
<1> DEFINE t == Popped(g)
<1>7. Settled(t)
  BY <1>3, <1>5, <1>6, SettledPopped
<1>8. \A x \in Engines : x # e => EngineOK(t, regs[x], mem[x], calls, x)
  <2> SUFFICES ASSUME NEW x \in Engines, x # e PROVE EngineOK(t, regs[x], mem[x], calls, x)
    OBVIOUS
  <2>1. ~Of(Under, x) /\ ~Of(g, x) /\ ~Owns(Top, x) /\ EngineOK(stack, regs[x], mem[x], calls, x)
    BY <1>1, <1>3, <1>5 DEF Of, Owns, EnginesOK
  <2> QED
    BY <1>3, <2>1, PoppedOther
<1>9. Len(t) = n - 1 /\ t[n - 1] = g /\ Agree(stack, t, n - 2)
  BY <1>3, PoppedStep
<1> HIDE DEF t
<1>10. /\ p \in 1..Len(stack) /\ p <= Len(t) /\ Len(t) \in Nat /\ Under = stack[p] /\ t[p] = g
       /\ Agree(stack, t, p - 1) /\ \A k \in (p + 1)..Len(t) : FALSE
  <2>1. p \in 1..n /\ n - 1 = p /\ n - 2 = p - 1 /\ p + 1 = n
    BY <1>3
  <2>2. \A k \in n..(n - 1) : FALSE
    BY <1>3
  <2> HIDE DEF p
  <2> QED
    BY <1>3, <1>9, <2>1, <2>2
<1> HIDE DEF p
<1>11. ActOK(g, R)
  <2>1. R.sp <= Under.base /\ Under.base \in Int /\ Top.entry \in Int /\ R.sp \in Int
        /\ Top.entry = Under.base - BlockLen(e) /\ BlockLen(e) = (IF e = x64 THEN 17 ELSE 8)
    BY <1>4 DEF Places
  <2>2. CASE Top.st = "leaves" /\ g.st = "post"
    <3>1. R.ret = Result(Top.call) /\ R.sp = Top.entry + (IF e = x64 THEN 1 ELSE 0)
      BY <1>4, <2>2 DEF EmuOK
    <3>2. PostWords(e) = (IF e = x64 THEN 16 ELSE 8)
      BY DEF PostWords, MAX_ARGS
    <3>3. R.sp = Under.base - PostWords(e)
      <4> DEFINE base == Under.base
                 en == Top.entry
                 k == BlockLen(e)
                 sp == R.sp
                 q == PostWords(e)
                 is == e = x64
      <4>1. /\ base \in Int /\ en \in Int /\ en = base - k /\ k = (IF is THEN 17 ELSE 8)
            /\ sp = en + (IF is THEN 1 ELSE 0) /\ q = (IF is THEN 16 ELSE 8)
        BY <2>1, <3>1, <3>2
      <4>2. CASE is
        <5>1. k = 17 /\ sp = en + 1 /\ q = 16
          BY <4>1, <4>2
        <5> HIDE DEF base, en, k, sp, q, is
        <5>2. sp = base - q
          BY <4>1, <5>1
        <5> QED
          BY <5>2 DEF sp, base, q
      <4>3. CASE ~is
        <5>1. k = 8 /\ sp = en + 0 /\ q = 8
          BY <4>1, <4>3
        <5> HIDE DEF base, en, k, sp, q, is
        <5>2. sp = base - q
          BY <4>1, <5>1
        <5> QED
          BY <5>2 DEF sp, base, q
      <4> QED
        BY <4>2, <4>3
    <3>4. g.call = Top.call /\ g.cpu = e /\ g.base = Under.base
      BY <1>1
    <3> HIDE DEF e, R
    <3> QED
      BY <2>1, <2>2, <3>1, <3>3, <3>4 DEF ActOK
  <2>3. CASE g.st = "restore" /\ g.ret = Unsupported
    BY <1>1, <2>1, <2>3 DEF ActOK
  <2> QED
    BY <1>1, <2>2, <2>3
<1>12. EngineOK(t, R, m, calls, e)
  <2>1. /\ Owns(g, e) /\ QuietAbove(t, p, e, R, m) /\ SameFrom(m, m, Under.base)
        /\ R.sp \in Floor(calls)..EmuStackTop
    BY <1>1, <1>4, <1>6, <1>10 DEF Owns, QuietAbove, SameFrom, EngineOK
  <2>2. StackOK(stack) /\ Numbered(stack, calls)
    BY DEF Shape
  <2> HIDE DEF e, R, m, n
  <2> QED
    BY <1>1, <1>2, <1>4, <1>10, <1>11, <2>1, <2>2, OwnKeeps
<1>13. EnginesOK'
  <2>1. stack' = t /\ m = mem[e] /\ Moves(regs, regs', e, R)
    BY <1>1 DEF t, Moves, Shape
  <2> HIDE DEF e, R, m
  <2> QED
    BY <1>1, <1>2, <1>4, <1>5, <1>8, <1>12, <2>1, EnginesMove
<1>14. stack' = t
  BY <1>1 DEF t
<1> QED
  BY <1>7, <1>13, <1>14 DEF Words

-----------------------------------------------------------------------------
(* The inductive invariant, and what follows from it.                      *)

LEMMA WordsStep ==
  ASSUME Room, Shape, Words, [Next]_vars
  PROVE  Words'
<1>1. CASE UNCHANGED vars
  BY <1>1 DEF vars, Words, Settled, Based, EnginesOK
<1>2. CASE CallEmulated \/ TestWrappedCb
  BY <1>2, CallWords
<1>3. CASE EventNotify
  BY <1>3, EventWords
<1>4. CASE Trap
  BY <1>4, TrapWords
<1>5. CASE SaveOrReset
  BY <1>5, SaveWords
<1>6. CASE EmuThunkPre
  BY <1>6, PreWordsStay
<1>7. CASE EmuEnter
  BY <1>7, EnterWordsStay
<1>8. CASE EmuCall
  BY <1>8, EmuCallWords
<1>9. CASE EmuResume
  BY <1>9, ResumeWordsStay
<1>10. CASE EmuReturn
  BY <1>10, ReturnWordsStay
<1>11. CASE CallNative
  BY <1>11, CallNativeWords
<1>12. CASE NativeReturn
  BY <1>12, NativeReturnWords
<1>13. CASE NullCall
  BY <1>13, NullCallWords
<1>14. CASE ReturnToNative \/ FailedEmu
  BY <1>14, LeavesWords
<1>15. CASE EmuThunkPost
  BY <1>15, PostWordsStay
<1>16. CASE Restore
  BY <1>16, RestoreWords
<1>17. CASE EventReturn
  BY <1>17, EventReturnWords
<1> QED
  BY <1>1, <1>2, <1>3, <1>4, <1>5, <1>6, <1>7, <1>8, <1>9, <1>10, <1>11, <1>12, <1>13, <1>14, <1>15,
     <1>16, <1>17 DEF Next

\* There is one native function at the beginning.
LEMMA FirstFrame ==
  ASSUME Init
  PROVE  /\ IsSeq(stack) /\ Len(stack) = 1 /\ NativeFrame(stack[1]) /\ stack[1].kind = "native"
         /\ stack[1].call = 0 /\ stack[1].n = 0 /\ stack[1].got = <<>>
<1> DEFINE f == Native("native", 0, 0, <<>>)
<1>1. f.kind = "native" /\ f.call = 0 /\ f.n = 0 /\ f.got = <<>> /\ NativeFrame(f)
  BY DEF Native, NativeFrame
<1>2. stack = <<f>>
  BY DEF Init
<1> HIDE DEF f
<1>3. stack \in Seq({f}) /\ Len(stack) = 1 /\ stack[1] = f
  BY <1>2
<1> QED
  BY <1>1, <1>3 DEF IsSeq

\* It is in shape.
LEMMA ShapeInit ==
  ASSUME Init
  PROVE  Shape
<1>1. /\ IsSeq(stack) /\ Len(stack) = 1 /\ NativeFrame(stack[1]) /\ stack[1].kind = "native"
      /\ stack[1].call = 0
  BY FirstFrame
<1>2. (\A k \in 1..1 : k = 1) /\ (\A k \in 2..1 : FALSE)
  OBVIOUS
<1>3. StackOK(stack)
  BY <1>1, <1>2 DEF StackOK, FrameOK
<1>4. Numbered(stack, calls)
  <2>1. calls = 0 /\ MaxCalls \in Nat
    BY CallsAssumption DEF Init
  <2>2. Within(stack[1], 0)
    BY <1>1 DEF Within
  <2> QED
    BY <1>1, <1>2, <2>1, <2>2 DEF Numbered
<1>5. Files(regs)
  <2>1. \A e \in Engines : RegFile(InitialState(e))
    <3>1. StackWords \in Nat
      BY CallsAssumption
    <3> QED
      BY <3>1 DEF InitialState, RegFile, EmuStackTop
  <2> QED
    BY <2>1 DEF Init, Files
<1> QED
  BY <1>3, <1>4, <1>5 DEF Shape

\* And no word is out of place.
LEMMA WordsInit ==
  ASSUME Init
  PROVE  Words
<1>1. /\ Len(stack) = 1 /\ stack[1].kind = "native" /\ stack[1].n = 0 /\ stack[1].got = <<>>
  BY FirstFrame
<1>2. (\A k \in 1..1 : k = 1) /\ (\A k \in 2..1 : FALSE) /\ (\A k \in 1..0 : FALSE)
  OBVIOUS
<1>3. Settled(stack)
  <2>1. Delivered(stack[1])
    BY <1>1, <1>2 DEF Delivered
  <2> QED
    BY <1>1, <1>2, <2>1 DEF Settled, Based
<1>4. ASSUME NEW e \in Engines
      PROVE  EngineOK(stack, regs[e], mem[e], calls, e)
  <2>1. RegFile(regs[e])
    BY ShapeInit DEF Shape, Files
  <2>2. ~Owns(stack[1], e) /\ ~IsEmu(stack[1], e) /\ ~Waits(stack[1], e)
    BY <1>1 DEF Owns, IsEmu, Waits
  <2>3. regs[e].sp \in Floor(calls)..EmuStackTop
    <3>1. regs[e].sp = EmuStackTop /\ EmuStackTop \in Int /\ calls = 0
      BY CallsAssumption DEF Init, InitialState, EmuStackTop
    <3>2. Floor(0) = EmuStackTop
      <4>1. Depth \in Nat
        BY FloorInt
      <4>2. Depth * 0 = 0
        BY <4>1
      <4> QED
        BY <3>1, <4>2 DEF Floor
    <3> QED
      BY <3>1, <3>2
  <2>4. DOMAIN mem[e] = 1..StackWords
    BY DEF Init
  <2>5. ViewsOK(stack, regs[e], mem[e], e) /\ SavedOK(stack, e) /\ ApartOK(stack, regs[e], e)
    BY <1>1, <1>2, <2>2 DEF ViewsOK, SavedOK, ApartOK
  <2> QED
    BY <2>1, <2>3, <2>4, <2>5 DEF EngineOK
<1>5. DOMAIN mem = Engines
  BY DEF Init
<1> QED
  BY <1>3, <1>4, <1>5 DEF Words, EnginesOK

\* A frame in order was entered at the address that was called.
LEMMA ShapeRecovers ==
  ASSUME Shape
  PROVE  TargetRecovered
<1> SUFFICES ASSUME NEW f \in Frames("act")
             PROVE  /\ f.st \notin {"trap", "dead"} => f.pc = f.function
                    /\ f.st = "dead" => /\ f.host = "RISCV64"
                                        /\ \/ f.site.insn = "tail" \/ f.site.rs = 1
                                           \/ f.site.kind = "illegal" /\ ~WithoutMmu
                                           \/ f.site.insn = "c.jalr" /\ IsWide(f.site.before)
  BY DEF TargetRecovered
<1>1. PICK i \in DOMAIN stack : stack[i].kind = "act" /\ f = stack[i]
  BY DEF Frames
<1>2. i \in 1..Len(stack) /\ FrameOK(stack[i])
  <2>1. DOMAIN stack = 1..Len(stack)
    BY DEF Shape, StackOK, IsSeq
  <2> QED
    BY <2>1 DEF Shape, StackOK
<1>3. ActFrame(f)
  BY <1>1, <1>2 DEF FrameOK, NativeFrame, EmuFrame
<1> QED
  BY <1>3 DEF ActFrame, GivenUp

\* A function finds some registers when it is at the top again.
LEMMA SomethingSeen ==
  ASSUME NEW s, NEW R, NEW e, Len(s) \in Nat, NEW i \in 1..Len(s)
  PROVE  \E r : Sees(s, R, e, i, r)
<1>1. CASE NoneOwns(s, e, i, Len(s) + 1)
  BY <1>1 DEF Sees
<1>2. CASE ~NoneOwns(s, e, i, Len(s) + 1)
  <2> DEFINE T == {k \in Nat : k \in (i + 1)..Len(s) /\ Owns(s[k], e)}
  <2>1. PICK j \in (i + 1)..Len(s) : Owns(s[j], e)
    BY <1>2 DEF NoneOwns
  <2>2. j \in T
    BY <2>1
  <2>3. \E x \in T : \A y \in T : ~(<<y, x>> \in OpToRel(<, Nat))
    BY <2>2, NatLessThanWellFounded, WFMin
  <2>4. PICK x \in T : \A y \in T : ~(<<y, x>> \in OpToRel(<, Nat))
    BY <2>3
  <2>5. \A y \in T : ~(y < x)
    BY <2>4 DEF OpToRel
  <2>6. x \in (i + 1)..Len(s) /\ Owns(s[x], e)
    OBVIOUS
  <2>7. NoneOwns(s, e, i, x)
    <3> SUFFICES ASSUME NEW k \in (i + 1)..(x - 1), Owns(s[k], e) PROVE FALSE
      BY DEF NoneOwns
    <3>1. k \in T /\ k < x
      BY <2>6
    <3> QED
      BY <2>5, <3>1
  <2>8. Sees(s, R, e, i, s[x].saved)
    BY <2>6, <2>7 DEF Sees
  <2> QED
    BY <2>8
<1> QED
  BY <1>1, <1>2

\* Where each word is in place, arguments arrive.
LEMMA WordsArrive ==
  ASSUME Room, Shape, Words
  PROVE  ArgumentsArrive
<1>1. ASSUME NEW f \in Frames("native"), NEW k \in 1..f.n
      PROVE  f.args[k] = Arg(f.call, k)
  <2>1. PICK i \in DOMAIN stack : stack[i].kind = "native" /\ f = stack[i]
    BY <1>1 DEF Frames
  <2>2. i \in 1..Len(stack)
    BY DEF Shape, StackOK, IsSeq
  <2>3. Delivered(f)
    BY <2>1, <2>2 DEF Words, Settled
  <2> QED
    BY <1>1, <2>1, <2>3 DEF Delivered
<1>2. ASSUME Is("emu", "new"), NEW k \in 1..Top.n
      PROVE  ArgOnEntry(Top.cpu, k) = Arg(Top.call, k)
  <2> DEFINE e == Top.cpu
             R == regs[e]
             m == mem[e]
  <2>1. EmuFrame(Top) /\ Top.st = "new"
    BY <1>2, TopKinds DEF Is
  <2>2. EmuOK(Top, R, m)
    <3> HIDE DEF e
    <3> QED
      BY <2>1, TopEmu DEF e
  <2>3. Arguments(e, R, m, Top.call, Top.n)
    BY <2>1, <2>2 DEF EmuOK
  <2>4. Arg(Top.call, k) = IF k <= ArgRegs(e) THEN R.a[k] ELSE m[StackArg(e, R.sp, k)]
    BY <1>2, <2>3 DEF Arguments
  <2> QED
    BY <2>4 DEF ArgOnEntry
<1> QED
  BY <1>1, <1>2 DEF ArgumentsArrive

\* And callers find what they go on with.
LEMMA WordsResume ==
  ASSUME Room, Shape, Words
  PROVE  CallersResume
<1>1. ASSUME Top.kind = "emu"
      PROVE  LET r == regs[Top.cpu] IN
             CASE Top.st = "back" ->
                    /\ r.ret \in {Result(Top.callee), Unsupported} /\ r.pc = Site(Top.callee)
                    /\ r.sp = BodySp(Top) - Top.out + (IF Top.cpu = x64 THEN 1 ELSE 0)
                    /\ r.keep = Kept(Top.call, 0)
               [] Top.st = "run" -> r.sp = BodySp(Top) /\ r.keep = Kept(Top.call, 0)
               [] Top.st = "leaves" -> r.pc = Magic
               [] OTHER -> TRUE
  <2> DEFINE e == Top.cpu
  <2>1. EmuFrame(Top)
    BY <1>1, TopKinds
  <2>2. EmuOK(Top, regs[e], mem[e])
    <3> HIDE DEF e
    <3> QED
      BY <2>1, TopEmu DEF e
  <2>3. Top.st = "back" => /\ regs[e].ret \in {Result(Top.callee), Unsupported}
                           /\ regs[e].pc = Site(Top.callee)
                           /\ regs[e].sp = BodySp(Top) - Top.out + (IF Top.cpu = x64 THEN 1 ELSE 0)
                           /\ regs[e].keep = Kept(Top.call, 0)
    BY <2>2 DEF EmuOK
  <2>4. Top.st = "run" => regs[e].sp = BodySp(Top) /\ regs[e].keep = Kept(Top.call, 0)
    BY <2>2 DEF EmuOK
  <2>5. Top.st = "leaves" => regs[e].pc = Magic
    BY <2>2 DEF EmuOK
  <2> QED
    BY <2>3, <2>4, <2>5
<1>2. ASSUME Top.kind = "native", Top.got # <<>>
      PROVE  Top.got[2] \in {Result(Top.got[1]), Unsupported}
  <2>1. Len(stack) \in 1..Len(stack) /\ Top = stack[Len(stack)]
    BY TopKinds
  <2>2. Delivered(Top)
    BY <2>1 DEF Words, Settled
  <2> QED
    BY <1>2, <2>2 DEF Delivered
<1>3. ASSUME Is("act", "restore"), Top.ret # Unsupported
      PROVE  regs[Top.cpu].sp = Top.base
  <2> DEFINE e == Top.cpu
             n == Len(stack)
  <2>1. n \in 1..n /\ n \in Nat /\ Top = stack[n] /\ ActFrame(Top) /\ Top.st = "restore"
    BY <1>3, TopKinds DEF Is
  <2>2. Owns(Top, e) /\ e \in Engines
    BY <2>1 DEF Owns, ActFrame
  <2>3. \A k \in (n + 1)..Len(stack) : ~Owns(stack[k], e)
    BY <2>1
  <2>4. ActOK(Top, regs[e])
    <3> HIDE DEF e
    <3> QED
      BY <2>1, <2>2, <2>3, NowAct DEF Words
  <2> QED
    BY <1>3, <2>1, <2>4 DEF ActOK
<1> QED
  BY <1>1, <1>2, <1>3 DEF CallersResume

\* A subsequence, by position.
LEMMA SubSeqIs ==
  ASSUME NEW m, NEW a \in Int, NEW b \in Int
  PROVE  SubSeq(m, a, b) = [i \in 1..(b - a + 1) |-> m[a + i - 1]]
  OBVIOUS

\* And what functions keep is where they left it.
LEMMA WordsIntact ==
  ASSUME Room, Shape, Words
  PROVE  FramesIntact
<1> SUFFICES ASSUME NEW f \in Frames("emu"), f.st \in {"run", "calls", "back"}
             PROVE  /\ \A k \in 1..LocalWords : mem[f.cpu][BodySp(f) + k - 1] = Kept(f.call, k)
                    /\ \A k \in (ArgRegs(f.cpu) + 1)..f.n :
                         mem[f.cpu][StackArg(f.cpu, f.entry, k)] = Arg(f.call, k)
                    /\ f.cpu = x64 /\ f.st = "run" =>
                         SubSeq(mem[x64], BodySp(f) - RedZone, BodySp(f) - 1) = Zone(f.call)
  BY DEF FramesIntact
<1> DEFINE e == f.cpu
           R == regs[e]
           m == mem[e]
<1>1. PICK i \in DOMAIN stack : stack[i].kind = "emu" /\ f = stack[i]
  BY DEF Frames
<1>2. i \in 1..Len(stack) /\ FrameOK(stack[i]) /\ Len(stack) \in Nat
  <2>1. DOMAIN stack = 1..Len(stack)
    BY DEF Shape, StackOK, IsSeq
  <2> QED
    BY <2>1, TopKinds DEF Shape, StackOK
<1>3. EmuFrame(f) /\ e \in Engines /\ IsEmu(f, e)
  BY <1>1, <1>2 DEF FrameOK, NativeFrame, ActFrame, EmuFrame, IsEmu
<1>4. PICK r : Sees(stack, R, e, i, r)
  <2> HIDE DEF e, R
  <2> QED
    BY <1>2, SomethingSeen
<1>5. EmuOK(f, r, m)
  <2>1. EngineOK(stack, R, m, calls, e)
    BY <1>3 DEF Words, EnginesOK
  <2> HIDE DEF e, R, m
  <2> QED
    BY <1>1, <1>2, <1>3, <1>4, <2>1 DEF EngineOK, ViewsOK
<1>6. Keeps(f, m) /\ (f.st = "run" => ZoneKept(f, m))
  BY <1>5 DEF EmuOK
<1>7. ASSUME e = x64, f.st = "run"
      PROVE  SubSeq(m, BodySp(f) - RedZone, BodySp(f) - 1) = Zone(f.call)
  <2> DEFINE b == BodySp(f)
             z == Zone(f.call)
  <2>1. b \in Int /\ RedZone = 16
    BY <1>3, CallsAssumption DEF BodySp, EmuFrame, RedZone
  <2>2. \A k \in 1..16 : m[b - 16 + k - 1] = Kept(f.call, LocalWords + k)
    BY <1>6, <1>7, <2>1 DEF ZoneKept
  <2>3. z = [k \in 1..16 |-> Kept(f.call, LocalWords + k)]
    BY <2>1 DEF Zone
  <2>4. SubSeq(m, b - 16, b - 1) = [k \in 1..16 |-> m[b - 16 + k - 1]]
    <3> DEFINE a == b - 16
               d == b - 1
    <3>1. a \in Int /\ d \in Int /\ d - a + 1 = 16
      BY <2>1
    <3> HIDE DEF a, d, m
    <3>2. SubSeq(m, a, d) = [k \in 1..16 |-> m[a + k - 1]]
      BY <3>1, SubSeqIs
    <3> QED
      BY <3>2 DEF a, d
  <2> HIDE DEF b, z, m
  <2>5. [k \in 1..16 |-> m[b - 16 + k - 1]] = [k \in 1..16 |-> Kept(f.call, LocalWords + k)]
    BY <2>2
  <2>6. SubSeq(m, b - 16, b - 1) = z
    BY <2>3, <2>4, <2>5
  <2> QED
    BY <2>1, <2>6 DEF b, z
<1> QED
  BY <1>6, <1>7 DEF Keeps

\* Whatever the addresses, the instructions and the stacks: frames nest as the
\* thunks make and leave them, and calls are numbered in the order they are made.
THEOREM CallsShape == Spec => []Shape
<1>1. Init => Shape
  BY ShapeInit
<1>2. Shape /\ [Next]_vars => Shape'
  BY ShapeStep
<1> QED
  BY <1>1, <1>2, PTL DEF Spec

\* Emulated code is entered at the very address that was called, from any host
\* and whatever is nested; a call is given up only where the host's registers do
\* not tell the address.
THEOREM AddressesRecovered == Spec => []TargetRecovered
<1>1. Shape => TargetRecovered
  BY ShapeRecovers
<1> QED
  BY <1>1, CallsShape, PTL

\* With room on the emulated stacks for the calls that are made, what every frame
\* counts on, at the top or under others, stays as the frame left it.
THEOREM CallsInvariance ==
  ASSUME Room
  PROVE  Spec => [](Shape /\ Words)
<1>1. Init => Shape /\ Words
  BY ShapeInit, WordsInit
<1>2. Shape /\ Words /\ [Next]_vars => (Shape /\ Words)'
  BY ShapeStep, WordsStep
<1> QED
  BY <1>1, <1>2, PTL DEF Spec

\* Functions entered by either kind of thunk, by wrappers or with an array find
\* every argument where their own calling convention has it.
THEOREM ArgumentsDelivered ==
  ASSUME Room
  PROVE  Spec => []ArgumentsArrive
<1>1. Shape /\ Words => ArgumentsArrive
  BY WordsArrive
<1> QED
  BY <1>1, CallsInvariance, PTL

\* Nothing of what an emulated function keeps on its stack is written over while
\* it waits for calls or is interrupted in its red zone.
THEOREM FramesKept ==
  ASSUME Room
  PROVE  Spec => []FramesIntact
<1>1. Shape /\ Words => FramesIntact
  BY WordsIntact
<1> QED
  BY <1>1, CallsInvariance, PTL

\* Callers of either kind go on where they called from, with the result of that
\* very call, their stack pointer and the register they count on.
THEOREM CallersGoOn ==
  ASSUME Room
  PROVE  Spec => []CallersResume
<1>1. Shape /\ Words => CallersResume
  BY WordsResume
<1> QED
  BY <1>1, CallsInvariance, PTL
=============================================================================
