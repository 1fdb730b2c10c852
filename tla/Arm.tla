-------------------------------- MODULE Arm --------------------------------
(***************************************************************************)
(* The ARMv7 backend of arch/arm.c, in the terms of module Riscv: how many *)
(* bytes an IL instruction takes and the words it consists of.  A word     *)
(* carries the condition it is executed under.                             *)
(***************************************************************************)
EXTENDS Integers, Sequences

-----------------------------------------------------------------------------
(* Words.                                                                  *)

R0 == 0
R7 == 7
S0 == 11
Sp == 13
Lr == 14
Pc == 15

Error == [op |-> "error", cond |-> "al", rd |-> 0, rs |-> 0, ro |-> 0, imm |-> 0]

Word(cond, op, rd, rs, ro, imm) ==
    [op |-> op, cond |-> cond, rd |-> rd, rs |-> rs, ro |-> ro, imm |-> imm]

\* a_mov: a value of more than 8 bits has to be 8 bits rotated by an even
\* number of places; one below 0 loses all but its last 8 bits.
Rotated(imm) ==
    \E k \in 0..15 : imm % 4 ^ k = 0 /\ imm \div 4 ^ k \in 0..255

Immediate(cond, op, rd, rs, imm) ==
    IF imm <= 255 THEN Word(cond, op, rd, rs, 0, imm % 256)
    ELSE IF Rotated(imm) THEN Word(cond, op, rd, rs, 0, imm) ELSE Error

Register(op, rd, rs, ro) == Word("al", op, rd, rs, ro, 0)

a_add_i(rd, rs, imm) ==
    IF imm >= 0 THEN Immediate("al", "add_i", rd, rs, imm)
    ELSE Immediate("al", "sub_i", rd, rs, -imm)

a_mov_i(cond, rd, imm) == Immediate(cond, "mov_i", rd, 0, imm)
a_mov_r(rd, rs) == Register("mov_r", rd, 0, rs)

\* a_transfer: 12 bits of the offset and its sign.
Transfer(op, rd, rn, ofs) ==
    Word("al", op, rd, rn, 0, IF ofs < 0 THEN -((-ofs) % 4096) ELSE ofs % 4096)

\* a_b and a_bl: from the pc, which is two words ahead; 24 bits are kept.
Branch(cond, op, ofs) ==
    Word(cond, op, 0, 0, 0, (((ofs - 8) \div 4 + 2 ^ 23) % 2 ^ 24) - 2 ^ 23)

\* movw and movt, 16 bits each
Wide(rd, val) ==
    << Word("al", "movw", rd, 0, 0, val % 2 ^ 16),
       Word("al", "movt", rd, 0, 0, (val \div 2 ^ 16) % 2 ^ 16) >>

-----------------------------------------------------------------------------
(* The operations.                                                         *)

a_dest_reg(param_no) == param_no

Small(val) == val >= 0 /\ val < 256

\* a_get_cond
Condition ==
    [op_equals |-> "eq", op_not_equals |-> "ne", op_less_than |-> "lt",
     op_greater_eq_than |-> "ge", op_greater_than |-> "gt", op_less_eq_than |-> "le"]

\* a_get_code_length, with the parameters of the function or the locals of the
\* block that the instruction names.
CodeLength(ii, num_params, next_local) ==
    CASE ii.op = "op_entry_point" -> 16 + 4 * num_params
      [] ii.op \in {"op_function_call", "op_pointer_call"} ->
             IF ii.param_no # 0 THEN 8 ELSE 4
      [] ii.op = "op_load_numeric_constant" -> IF Small(ii.int_param1) THEN 4 ELSE 8
      [] ii.op \in {"op_block_start", "op_block_end"} -> IF next_local > 0 THEN 4 ELSE 0
      [] ii.op \in DOMAIN Condition \cup {"op_exit"} -> 12
      [] ii.op = "op_syscall" -> 20
      [] ii.op = "op_exit_point" -> 16
      [] ii.op \in {"op_load_data_address", "op_jz", "op_jnz", "op_push",
                    "op_pop", "op_get_var_addr", "op_start"} -> 8
      [] ii.op = "op_label" -> 0
      [] OTHER -> 4

Address(st, call) ==
    CASE call.fn \in {"op_load_data_address", "op_get_global_addr"} ->
             Wide(st.dest_reg, call.ofs + st.code_start)
      [] call.fn = "op_get_function_addr" -> Wide(st.dest_reg, call.ofs)
      [] call.fn = "op_get_local_addr" ->
             << a_add_i(st.dest_reg, S0, call.ofs % 256),
                a_add_i(st.dest_reg, st.dest_reg, call.ofs - (call.ofs % 256)) >>

LoadConstant(rd, val) ==
    IF Small(val) THEN << a_mov_i("al", rd, val) >> ELSE Wide(rd, val)

Memory(st, call) ==
    CASE call.fn = "op_read_addr" /\ call.len = 4 -> << Transfer("ldr", st.dest_reg, st.op_reg, 0) >>
      [] call.fn = "op_read_addr" /\ call.len = 1 -> << Transfer("ldrb", st.dest_reg, st.op_reg, 0) >>
      [] call.fn = "op_write_addr" /\ call.len = 4 -> << Transfer("str", st.dest_reg, st.op_reg, 0) >>
      [] call.fn = "op_write_addr" /\ call.len = 1 -> << Transfer("strb", st.dest_reg, st.op_reg, 0) >>
      [] OTHER -> << Error >>

Result(st) == IF st.dest_reg # R0 THEN << a_mov_r(st.dest_reg, R0) >> ELSE << >>

Alu(d, s, op) ==
    CASE op = "op_add" -> Register("add", d, d, s)
      [] op = "op_sub" -> Register("sub", d, d, s)
      [] op = "op_mul" -> Register("mul", d, d, s)
      [] op = "op_negate" -> Immediate("al", "rsb_i", d, d, 0)
      [] op \in {"op_log_and", "op_bit_and"} -> Register("and", d, d, s)
      [] op \in {"op_log_or", "op_bit_or"} -> Register("or", d, d, s)
      [] op = "op_bit_lshift" -> Register("lsl", d, d, s)
      [] op = "op_bit_rshift" -> Register("lsr", d, d, s)
      [] op = "op_not" -> Immediate("al", "rsb_i", d, d, 1)

Cmp(d, s, op) ==
    << Register("cmp", d, d, s), a_mov_i("al", d, 0), a_mov_i(Condition[op], d, 1) >>

JumpIf(d, op, ofs) ==
    << Immediate("al", "teq_i", 0, d, 0), Branch(IF op = "op_jz" THEN "eq" ELSE "ne", "b", ofs) >>

EntryPoint(len) ==
    << a_add_i(Sp, Sp, -16 - len), Transfer("str", S0, Sp, 12 + len),
       Transfer("str", Lr, Sp, 8 + len), a_add_i(S0, Sp, len) >>

ExitPoint ==
    << a_add_i(Sp, S0, 16), Transfer("ldr", Lr, Sp, -8), Transfer("ldr", S0, Sp, -4),
       a_mov_r(Pc, Lr) >>

Swi == Word("al", "swi", 0, 0, 0, 0)

Syscall == << a_mov_r(R7, R0), a_mov_r(R0, 1), a_mov_r(1, 2), a_mov_r(2, 3), Swi >>

Words(st, call) ==
    LET d == st.dest_reg s == st.op_reg IN
    CASE call.fn \in {"op_load_data_address", "op_get_global_addr",
                      "op_get_function_addr", "op_get_local_addr"} -> Address(st, call)
      [] call.fn = "op_load_numeric_constant" -> LoadConstant(d, call.val)
      [] call.fn \in {"op_read_addr", "op_write_addr"} -> Memory(st, call)
      [] call.fn \in {"op_jump", "op_return"} -> << Branch("al", "b", call.ofs) >>
      [] call.fn = "op_function_call" -> << Branch("al", "bl", call.ofs) >> \o Result(st)
      [] call.fn = "op_pointer_call" -> << Register("blx", 0, 0, s) >> \o Result(st)
      [] call.fn = "op_push" -> << a_add_i(Sp, Sp, -16), Transfer("str", d, Sp, 0) >>
      [] call.fn = "op_pop" -> << Transfer("ldr", d, Sp, 0), a_add_i(Sp, Sp, 16) >>
      [] call.fn \in {"op_alu", "op_log", "op_bit"} -> << Alu(d, s, call.op) >>
      [] call.fn = "op_cmp" -> Cmp(d, s, call.op)
      [] call.fn = "op_jz" -> JumpIf(d, call.op, call.ofs)
      [] call.fn = "op_block" -> << a_add_i(Sp, Sp, call.len) >>
      [] call.fn = "op_entry_point" -> EntryPoint(call.len)
      [] call.fn = "op_store_param" -> << Transfer("str", R0 + call.pn, S0, call.ofs) >>
      [] call.fn = "op_exit_point" -> ExitPoint
      [] call.fn = "op_start" -> << Transfer("ldr", R0, Sp, 0), a_add_i(1, Sp, 4) >>
      [] call.fn = "op_syscall" -> Syscall
      [] call.fn = "op_exit" -> << a_mov_i("al", R0, 0), a_mov_i("al", R7, 1), Swi >>
=============================================================================
