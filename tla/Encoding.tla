------------------------------ MODULE Encoding ------------------------------
(***************************************************************************)
(* The encoders of arch/riscv.c and arch/arm.c: the 32 bits of a word, for *)
(* the records that stand for words in modules Riscv and Arm; and how a    *)
(* processor reads them, from the manuals of the two instruction sets and  *)
(* so external.                                                            *)
(*                                                                         *)
(* An int of 32 bits is a pair of halves of 16, which add with a carry and *)
(* lose what goes beyond.                                                  *)
(***************************************************************************)
EXTENDS Integers

Half == 2 ^ 16

Int32(n) == [lo |-> n % Half, hi |-> (n \div Half) % Half]

a ++ b ==
    LET s == a.lo + b.lo
    IN [lo |-> s % Half, hi |-> (a.hi + b.hi + (s \div Half)) % Half]

\* n << d
Shl(n, d) ==
    LET v == Int32(n)
        s == v.lo * 2 ^ d
    IN IF d >= 16 THEN [lo |-> 0, hi |-> (v.lo * 2 ^ (d - 16)) % Half]
       ELSE [lo |-> s % Half, hi |-> ((v.hi % 2 ^ (16 - d)) * 2 ^ d + (s \div Half)) % Half]

\* r_extract_bits and a_extract_bits
ExtractBits(imm, i_start, i_end, d_start) ==
    Shl((imm \div 2 ^ i_start) % 2 ^ (i_end - i_start + 1), d_start)

\* n bits of a word from bit i.
Field(w, i, n) ==
    IF i >= 16 THEN (w.hi \div 2 ^ (i - 16)) % 2 ^ n
    ELSE IF i + n <= 16 THEN (w.lo \div 2 ^ i) % 2 ^ n
    ELSE (w.lo \div 2 ^ i) + (w.hi % 2 ^ (i + n - 16)) * 2 ^ (16 - i)

Signed(v, bits) == IF v >= 2 ^ (bits - 1) THEN v - 2 ^ bits ELSE v

-----------------------------------------------------------------------------
(* RISC-V: the encoders.                                                   *)

ri_op ==
    [add |-> 51, sub |-> 1073741875, xor |-> 16435, or |-> 24627, and |-> 28723,
     sll |-> 4147, srl |-> 20531, sra |-> 1073762355, slt |-> 8243, sltu |-> 12339,
     mul |-> 33554483,
     addi |-> 19, xori |-> 16403, ori |-> 24595, andi |-> 28691, slti |-> 8211,
     sltiu |-> 12307,
     lb |-> 3, lh |-> 4099, lw |-> 8195, lbu |-> 16387, lhu |-> 20483,
     sb |-> 35, sh |-> 4131, sw |-> 8227,
     beq |-> 99, bne |-> 4195, blt |-> 16483, bge |-> 20579, bltu |-> 24675, bgeu |-> 28771,
     jal |-> 111, jalr |-> 103, lui |-> 55, auipc |-> 23, ecall |-> 115]

RTypes == {"add", "sub", "xor", "or", "and", "sll", "srl", "sra", "slt", "sltu", "mul"}
STypes == {"sb", "sh", "sw"}
BTypes == {"beq", "bne", "blt", "bge", "bltu", "bgeu"}
UTypes == {"lui", "auipc"}

r_encode_R(op, rd, rs1, rs2) == Int32(op) ++ Shl(rd, 7) ++ Shl(rs1, 15) ++ Shl(rs2, 20)

r_encode_I(op, rd, rs1, imm) ==
    Int32(op) ++ Shl(rd, 7) ++ Shl(rs1, 15) ++ Shl(IF imm < 0 THEN imm + 4096 ELSE imm, 20)

r_encode_S(op, rs1, rs2, imm) ==
    LET n == IF imm < 0 THEN imm + 4096 ELSE imm
    IN Int32(op) ++ Shl(rs1, 15) ++ Shl(rs2, 20)
       ++ ExtractBits(n, 0, 4, 7) ++ ExtractBits(n, 5, 11, 25)

Sign(imm) == Shl(IF imm < 0 THEN 1 ELSE 0, 31)

\* Mutant: bit 11 of the offset is kept where jal has it.
r_encode_B_like_J(op, rs1, rs2, imm) ==
    Int32(op) ++ Shl(rs1, 15) ++ Shl(rs2, 20) ++ ExtractBits(imm, 11, 11, 20)
    ++ ExtractBits(imm, 1, 4, 8) ++ ExtractBits(imm, 5, 10, 25) ++ Sign(imm)

r_encode_B(op, rs1, rs2, imm) ==
    Int32(op) ++ Shl(rs1, 15) ++ Shl(rs2, 20) ++ ExtractBits(imm, 11, 11, 7)
    ++ ExtractBits(imm, 1, 4, 8) ++ ExtractBits(imm, 5, 10, 25) ++ Sign(imm)

r_encode_J(op, rd, imm) ==
    LET n == IF imm < 0 THEN 2 ^ 21 + imm ELSE imm
    IN Int32(op) ++ Shl(rd, 7) ++ ExtractBits(n, 1, 10, 21) ++ ExtractBits(n, 11, 11, 20)
       ++ ExtractBits(n, 12, 19, 12) ++ Sign(imm)

r_encode_U(op, rd, imm) == Int32(op) ++ Shl(rd, 7) ++ ExtractBits(imm, 12, 31, 12)

\* The wrappers r_add ... r_mul, each for its format.
EncodeRiscv(w) ==
    LET op == ri_op[w.op] IN
    CASE w.op \in RTypes -> r_encode_R(op, w.rd, w.rs1, w.rs2)
      [] w.op \in STypes -> r_encode_S(op, w.rs1, w.rs2, w.imm)
      [] w.op \in BTypes -> r_encode_B(op, w.rs1, w.rs2, w.imm)
      [] w.op \in UTypes -> r_encode_U(op, w.rd, w.imm)
      [] w.op = "jal" -> r_encode_J(op, w.rd, w.imm)
      [] OTHER -> r_encode_I(op, w.rd, w.rs1, w.imm)

-----------------------------------------------------------------------------
(* RISC-V: the decoder.                                                    *)

\* opcode, funct3 and funct7 of an instruction.
RiscvIsa ==
    [add |-> <<51, 0, 0>>, sub |-> <<51, 0, 32>>, xor |-> <<51, 4, 0>>, or |-> <<51, 6, 0>>,
     and |-> <<51, 7, 0>>, sll |-> <<51, 1, 0>>, srl |-> <<51, 5, 0>>, sra |-> <<51, 5, 32>>,
     slt |-> <<51, 2, 0>>, sltu |-> <<51, 3, 0>>, mul |-> <<51, 0, 1>>,
     addi |-> <<19, 0>>, xori |-> <<19, 4>>, ori |-> <<19, 6>>, andi |-> <<19, 7>>,
     slti |-> <<19, 2>>, sltiu |-> <<19, 3>>,
     lb |-> <<3, 0>>, lh |-> <<3, 1>>, lw |-> <<3, 2>>, lbu |-> <<3, 4>>, lhu |-> <<3, 5>>,
     sb |-> <<35, 0>>, sh |-> <<35, 1>>, sw |-> <<35, 2>>,
     beq |-> <<99, 0>>, bne |-> <<99, 1>>, blt |-> <<99, 4>>, bge |-> <<99, 5>>,
     bltu |-> <<99, 6>>, bgeu |-> <<99, 7>>,
     jal |-> <<111>>, jalr |-> <<103, 0>>, lui |-> <<55>>, auipc |-> <<23>>, ecall |-> <<115, 0>>]

RiscvWord(op, rd, rs1, rs2, imm) ==
    [op |-> op, rd |-> rd, rs1 |-> rs1, rs2 |-> rs2, imm |-> imm]

DecodeRiscv(w) ==
    LET opcode == << Field(w, 0, 7), Field(w, 12, 3), Field(w, 25, 7) >>
        Is(op) == \A k \in DOMAIN RiscvIsa[op] : RiscvIsa[op][k] = opcode[k]
        op == CHOOSE o \in DOMAIN RiscvIsa : Is(o)
        rd == Field(w, 7, 5)
        rs1 == Field(w, 15, 5)
        rs2 == Field(w, 20, 5)
    IN CASE ~\E o \in DOMAIN RiscvIsa : Is(o) -> RiscvWord("unknown", 0, 0, 0, 0)
         [] op \in RTypes -> RiscvWord(op, rd, rs1, rs2, 0)
         [] op \in STypes -> RiscvWord(op, 0, rs1, rs2, Signed(Field(w, 25, 7) * 32 + rd, 12))
         [] op \in BTypes ->
                RiscvWord(op, 0, rs1, rs2,
                    Signed(Field(w, 31, 1) * 2 ^ 12 + Field(w, 7, 1) * 2 ^ 11
                           + Field(w, 25, 6) * 2 ^ 5 + Field(w, 8, 4) * 2, 13))
         [] op = "jal" ->
                RiscvWord(op, rd, 0, 0,
                    Signed(Field(w, 31, 1) * 2 ^ 20 + Field(w, 12, 8) * 2 ^ 12
                           + Field(w, 20, 1) * 2 ^ 11 + Field(w, 21, 10) * 2, 21))
         [] op \in UTypes -> RiscvWord(op, rd, 0, 0, Signed(Field(w, 12, 20), 20) * 4096)
         [] OTHER -> RiscvWord(op, rd, rs1, 0, Signed(Field(w, 20, 12), 12))

-----------------------------------------------------------------------------
(* ARM: the encoders.                                                      *)

ar_cond ==
    [eq |-> 0, ne |-> 1, ge |-> 10, lt |-> 11, gt |-> 12, le |-> 13, al |-> 14]

\* Mnemonics of data processing, with an immediate or register operand.
ar_op ==
    [and |-> 0, sub |-> 2, sub_i |-> 2, rsb_i |-> 3, add |-> 4, add_i |-> 4, teq_i |-> 9,
     cmp |-> 10, or |-> 12, mov_i |-> 13, mov_r |-> 13]

WithImmediate == {"sub_i", "rsb_i", "add_i", "teq_i", "mov_i"}

SetsFlags == {"teq_i", "cmp"}

a_encode(cond, opcode, rn, rd, op2) ==
    Shl(ar_cond[cond], 28) ++ Shl(opcode, 20) ++ Shl(rn, 16) ++ Shl(rd, 12) ++ Int32(op2)

\* How often a_mov shifts a value that is too large by two bits.
Shifts(op2) ==
    IF op2 <= 255 THEN 0
    ELSE CHOOSE k \in 0..15 : op2 % 4 ^ k = 0 /\ (op2 \div 4 ^ k) % 4 # 0

\* The second operand: 8 bits and how far to rotate them to the right.
ByRotation(op2) ==
    (IF op2 > 255 THEN 256 * (16 - Shifts(op2)) ELSE 0)
    + ((op2 \div 4 ^ Shifts(op2)) % 256)

a_mov(cond, io, opcode, s, rn, rd, op2) ==
    a_encode(cond, s + opcode * 2 + io * 32, rn, rd, ByRotation(op2))

\* a_movw, and a_movt for the half it keeps.
MoveHalf(cond, opcode, rd, imm) ==
    a_encode(cond, opcode, 0, rd, 0) ++ ExtractBits(imm, 0, 11, 0) ++ ExtractBits(imm, 12, 15, 16)

\* a_transfer: l is 1 for a load.
a_transfer(cond, l, size, rn, rd, ofs) ==
    a_encode(cond, 88 + l + (IF size = 1 THEN 4 ELSE 0) - (IF ofs < 0 THEN 8 ELSE 0), rn, rd,
             (IF ofs < 0 THEN -ofs ELSE ofs) % 4096)

EncodeArm(w) ==
    LET Data(io, op2) ==
            a_mov(w.cond, io, ar_op[w.op], IF w.op \in SetsFlags THEN 1 ELSE 0, w.rs, w.rd, op2)
        Shift(type) == a_encode(w.cond, 26, 0, w.rd, w.rs + 16 + type * 32 + w.ro * 256)
        Branch(opcode) == a_encode(w.cond, opcode, 0, 0, 0) ++ Int32(w.imm % 2 ^ 24)
    IN CASE w.op \in WithImmediate -> Data(1, w.imm)
         [] w.op \in DOMAIN ar_op \ WithImmediate -> Data(0, w.ro)
         [] w.op = "movw" -> MoveHalf(w.cond, 48, w.rd, w.imm)
         [] w.op = "movt" -> MoveHalf(w.cond, 52, w.rd, w.imm)
         [] w.op = "lsl" -> Shift(0)
         [] w.op = "lsr" -> Shift(1)
         [] w.op = "ldr" -> a_transfer(w.cond, 1, 4, w.rs, w.rd, w.imm)
         [] w.op = "ldrb" -> a_transfer(w.cond, 1, 1, w.rs, w.rd, w.imm)
         [] w.op = "str" -> a_transfer(w.cond, 0, 4, w.rs, w.rd, w.imm)
         [] w.op = "strb" -> a_transfer(w.cond, 0, 1, w.rs, w.rd, w.imm)
         [] w.op = "b" -> Branch(160)
         [] w.op = "bl" -> Branch(176)
         [] w.op = "blx" -> a_encode(w.cond, 18, 15, 15, w.ro + 3888)
         [] w.op = "mul" -> a_encode(w.cond, 0, w.rd, 0, w.rs * 256 + 144 + w.ro)
         [] w.op = "swi" -> a_encode(w.cond, 240, 0, 0, 0)

-----------------------------------------------------------------------------
(* ARM: the decoder.                                                       *)

\* 8 bits rotated to the right, as far as the value stays positive.
Rotated(imm8, r) == IF r = 0 THEN imm8 ELSE imm8 * 4 ^ (16 - r)

DecodeArm(w) ==
    LET rn == Field(w, 16, 4)
        rd == Field(w, 12, 4)
        rs == Field(w, 8, 4)
        rm == Field(w, 0, 4)
        cond == CHOOSE c \in DOMAIN ar_cond : ar_cond[c] = Field(w, 28, 4)
        Word(op, d, s, o, imm) ==
            [op |-> op, cond |-> cond, rd |-> d, rs |-> s, ro |-> o, imm |-> imm]
        Named(ops) == CHOOSE o \in ops : ar_op[o] = Field(w, 21, 4)
        Transferred ==
            IF Field(w, 20, 1) = 1 THEN (IF Field(w, 22, 1) = 1 THEN "ldrb" ELSE "ldr")
            ELSE IF Field(w, 22, 1) = 1 THEN "strb" ELSE "str"
    IN CASE Field(w, 24, 4) = 15 -> Word("swi", 0, 0, 0, 0)
         [] Field(w, 25, 3) = 5 ->
                Word(IF Field(w, 24, 1) = 1 THEN "bl" ELSE "b", 0, 0, 0,
                     Signed(Field(w, 0, 24), 24))
         [] Field(w, 25, 3) = 2 /\ Field(w, 24, 1) = 1 /\ Field(w, 21, 1) = 0 ->
                Word(Transferred, rd, rn, 0,
                     (IF Field(w, 23, 1) = 1 THEN 1 ELSE -1) * Field(w, 0, 12))
         [] Field(w, 20, 8) \in {48, 52} ->
                Word(IF Field(w, 20, 8) = 48 THEN "movw" ELSE "movt", rd, 0, 0,
                     rn * 2 ^ 12 + Field(w, 0, 12))
         [] Field(w, 25, 3) = 1 ->
                Word(Named(WithImmediate), rd, rn, 0, Rotated(Field(w, 0, 8), Field(w, 8, 4)))
         [] Field(w, 4, 24) = 1245171 -> Word("blx", 0, 0, rm, 0)
         [] Field(w, 21, 7) = 0 /\ Field(w, 4, 4) = 9 -> Word("mul", rn, rs, rm, 0)
         [] Field(w, 21, 7) = 13 /\ Field(w, 4, 4) \in {1, 3} ->
                Word(IF Field(w, 4, 4) = 1 THEN "lsl" ELSE "lsr", rd, rm, rs, 0)
         [] OTHER -> Word(Named(DOMAIN ar_op \ WithImmediate), rd, rn, rm, 0)
=============================================================================
