------------------------------- MODULE Riscv -------------------------------
(***************************************************************************)
(* The RISC-V backend of arch/riscv.c: how many bytes the code of an IL    *)
(* instruction takes, and the instruction words it consists of.            *)
(*                                                                         *)
(* A word is a record of its mnemonic and its operands; how they are laid  *)
(* out in 32 bits is left out, the limits the encoders put on immediate    *)
(* values are not.  An operation of the backend is called with a record    *)
(* that names it and holds its arguments; st is the backend_state.         *)
(***************************************************************************)
EXTENDS Integers, Sequences

CONSTANT
    BranchReach  \* 4096: what a conditional branch can reach, each way

-----------------------------------------------------------------------------
(* Words.                                                                  *)

Zero == 0
Ra == 1
Sp == 2
S0 == 8
A0 == 10
A7 == 17

\* error() in an encoder ends the compilation.
Error == [op |-> "error", rd |-> 0, rs1 |-> 0, rs2 |-> 0, imm |-> 0]

Word(op, rd, rs1, rs2, imm) ==
    [op |-> op, rd |-> rd, rs1 |-> rs1, rs2 |-> rs2, imm |-> imm]

R(op, rd, rs1, rs2) == Word(op, rd, rs1, rs2, 0)

I(op, rd, rs1, imm) ==
    IF imm \in -2048..2047 THEN Word(op, rd, rs1, 0, imm) ELSE Error

\* sw and sb: the register stored, the address.
S(op, rs2, rs1, imm) ==
    IF imm \in -2048..2047 THEN Word(op, 0, rs1, rs2, imm) ELSE Error

B(op, rs1, rs2, imm) ==
    IF imm \in -BranchReach..(BranchReach - 1) THEN Word(op, 0, rs1, rs2, imm)
    ELSE Error

\* Nothing checks that jal reaches its target: 20 bits of the offset are kept,
\* and its sign.
JumpReach == 2 ^ 20

J(op, rd, imm) ==
    Word(op, rd, 0, 0, (imm % JumpReach) - (IF imm < 0 THEN JumpReach ELSE 0))

\* r_lo is the low 12 bits with their sign, r_hi makes up for the sign; lui
\* and auipc keep the bits above.
r_lo(val) == ((val + 2048) % 4096) - 2048
r_hi(val) == IF val % 4096 >= 2048 THEN val + 4096 ELSE val

U(op, rd, imm) == Word(op, rd, 0, 0, 4096 * (imm \div 4096))

r_addi(rd, rs1, imm) == I("addi", rd, rs1, imm)

r_nop == r_addi(Zero, Zero, 0)

-----------------------------------------------------------------------------
(* The operations.                                                         *)

r_dest_reg(param_no) == param_no + 10

Small(val) == val > -2048 /\ val < 2047

Comparisons ==
    {"op_equals", "op_not_equals", "op_less_than", "op_less_eq_than",
     "op_greater_than", "op_greater_eq_than"}

\* Mutant: the limit of a constant that fits addi is not the one that the
\* operation itself goes by.
CodeLengthOffByOne(ii, num_params, next_local) ==
    CASE ii.op = "op_entry_point" -> 16 + 4 * num_params
      [] ii.op \in {"op_function_call", "op_pointer_call"} ->
             IF ii.param_no # 0 THEN 8 ELSE 4
      [] ii.op = "op_load_numeric_constant" ->
             IF ii.int_param1 > -2048 /\ ii.int_param1 <= 2047 THEN 4 ELSE 8
      [] ii.op \in {"op_block_start", "op_block_end"} -> IF next_local > 0 THEN 4 ELSE 0
      [] ii.op \in Comparisons \cup {"op_exit_point"} -> 16
      [] ii.op = "op_syscall" -> 20
      [] ii.op = "op_exit" -> 12
      [] ii.op \in {"op_load_data_address", "op_jz", "op_jnz", "op_push",
                    "op_pop", "op_get_var_addr", "op_start"} -> 8
      [] ii.op = "op_label" -> 0
      [] OTHER -> 4

\* r_get_code_length, with the parameters of the function or the locals of the
\* block that the instruction names.
CodeLength(ii, num_params, next_local) ==
    CASE ii.op = "op_entry_point" -> 16 + 4 * num_params
      [] ii.op \in {"op_function_call", "op_pointer_call"} ->
             IF ii.param_no # 0 THEN 8 ELSE 4
      [] ii.op = "op_load_numeric_constant" -> IF Small(ii.int_param1) THEN 4 ELSE 8
      [] ii.op \in {"op_block_start", "op_block_end"} -> IF next_local > 0 THEN 4 ELSE 0
      [] ii.op \in Comparisons \cup {"op_exit_point"} -> 16
      [] ii.op = "op_syscall" -> 20
      [] ii.op = "op_exit" -> 12
      [] ii.op \in {"op_load_data_address", "op_jz", "op_jnz", "op_push",
                    "op_pop", "op_get_var_addr", "op_start"} -> 8
      [] ii.op = "op_label" -> 0
      [] OTHER -> 4

\* An address from the pc, or a constant from 0.
FromPc(st, ofs) ==
    << U("auipc", st.dest_reg, r_hi(ofs - st.pc)),
       r_addi(st.dest_reg, st.dest_reg, r_lo(ofs - st.pc)) >>

FromZero(rd, val) == << U("lui", rd, r_hi(val)), r_addi(rd, rd, r_lo(val)) >>

Address(st, call) ==
    CASE call.fn \in {"op_load_data_address", "op_get_global_addr"} -> FromPc(st, call.ofs)
      [] call.fn = "op_get_function_addr" -> FromZero(st.dest_reg, call.ofs)
      [] call.fn = "op_get_local_addr" ->
             << r_addi(st.dest_reg, S0, 0), r_addi(st.dest_reg, st.dest_reg, call.ofs) >>

LoadConstant(rd, val) ==
    IF Small(val) THEN << r_addi(rd, Zero, r_lo(val)) >> ELSE FromZero(rd, val)

Memory(st, call) ==
    CASE call.fn = "op_read_addr" /\ call.len = 4 -> << I("lw", st.dest_reg, st.op_reg, 0) >>
      [] call.fn = "op_read_addr" /\ call.len = 1 -> << I("lb", st.dest_reg, st.op_reg, 0) >>
      [] call.fn = "op_write_addr" /\ call.len = 4 -> << S("sw", st.dest_reg, st.op_reg, 0) >>
      [] call.fn = "op_write_addr" /\ call.len = 1 -> << S("sb", st.dest_reg, st.op_reg, 0) >>
      [] OTHER -> << Error >>

\* The result of a call is moved to where it is wanted.
Result(st) == IF st.dest_reg # A0 THEN << r_addi(st.dest_reg, A0, 0) >> ELSE << >>

Alu(d, s, op) ==
    CASE op = "op_add" -> R("add", d, d, s)
      [] op = "op_sub" -> R("sub", d, d, s)
      [] op = "op_mul" -> R("mul", d, d, s)
      [] op = "op_negate" -> R("sub", d, Zero, d)
      [] op \in {"op_log_and", "op_bit_and"} -> R("and", d, d, s)
      [] op \in {"op_log_or", "op_bit_or"} -> R("or", d, d, s)
      [] op = "op_bit_lshift" -> R("sll", d, d, s)
      [] op = "op_bit_rshift" -> R("srl", d, d, s)
      [] op = "op_not" -> I("sltiu", d, d, 1)

Cmp(d, s, op) ==
    << CASE op = "op_equals" -> B("beq", d, s, 12)
         [] op = "op_not_equals" -> B("bne", d, s, 12)
         [] op = "op_less_than" -> B("blt", d, s, 12)
         [] op = "op_greater_eq_than" -> B("bge", d, s, 12)
         [] op = "op_greater_than" -> B("blt", s, d, 12)
         [] op = "op_less_eq_than" -> B("bge", s, d, 12),
       r_addi(d, Zero, 0), J("jal", Zero, 8), r_addi(d, Zero, 1) >>

\* r_op_jz: a branch, or a branch over a jump.
JumpIf(d, op, ofs) ==
    IF ofs >= -BranchReach /\ ofs <= BranchReach - 1
    THEN << r_nop, B(IF op = "op_jz" THEN "beq" ELSE "bne", d, Zero, ofs) >>
    ELSE << B(IF op = "op_jz" THEN "bne" ELSE "beq", d, Zero, 8), J("jal", Zero, ofs) >>

EntryPoint(len) ==
    << r_addi(Sp, Sp, -16 - len), S("sw", S0, Sp, 12 + len), S("sw", Ra, Sp, 8 + len),
       r_addi(S0, Sp, len) >>

ExitPoint ==
    << r_addi(Sp, S0, 16), I("lw", Ra, Sp, -8), I("lw", S0, Sp, -4), I("jalr", Zero, Ra, 0) >>

Syscall ==
    << r_addi(A7, A0, 0), r_addi(A0, A0 + 1, 0), r_addi(A0 + 1, A0 + 2, 0),
       r_addi(A0 + 2, A0 + 3, 0), I("ecall", Zero, Zero, 0) >>

Words(st, call) ==
    LET d == st.dest_reg s == st.op_reg IN
    CASE call.fn \in {"op_load_data_address", "op_get_global_addr",
                      "op_get_function_addr", "op_get_local_addr"} -> Address(st, call)
      [] call.fn = "op_load_numeric_constant" -> LoadConstant(d, call.val)
      [] call.fn \in {"op_read_addr", "op_write_addr"} -> Memory(st, call)
      [] call.fn \in {"op_jump", "op_return"} -> << J("jal", Zero, call.ofs) >>
      [] call.fn = "op_function_call" -> << J("jal", Ra, call.ofs) >> \o Result(st)
      [] call.fn = "op_pointer_call" -> << I("jalr", Ra, s, 0) >> \o Result(st)
      [] call.fn = "op_push" -> << r_addi(Sp, Sp, -16), S("sw", d, Sp, 0) >>
      [] call.fn = "op_pop" -> << I("lw", d, Sp, 0), r_addi(Sp, Sp, 16) >>
      [] call.fn \in {"op_alu", "op_log", "op_bit"} -> << Alu(d, s, call.op) >>
      [] call.fn = "op_cmp" -> Cmp(d, s, call.op)
      [] call.fn = "op_jz" -> JumpIf(d, call.op, call.ofs)
      [] call.fn = "op_block" -> << r_addi(Sp, Sp, call.len) >>
      [] call.fn = "op_entry_point" -> EntryPoint(call.len)
      [] call.fn = "op_store_param" -> << S("sw", A0 + call.pn, S0, call.ofs) >>
      [] call.fn = "op_exit_point" -> ExitPoint
      [] call.fn = "op_start" -> << I("lw", A0, Sp, 0), r_addi(A0 + 1, Sp, 4) >>
      [] call.fn = "op_syscall" -> Syscall
      [] call.fn = "op_exit" ->
             << r_addi(A0, Zero, 0), r_addi(A7, Zero, 93), I("ecall", Zero, Zero, 0) >>
=============================================================================
