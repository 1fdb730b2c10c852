------------------------------ MODULE Machine ------------------------------
(***************************************************************************)
(* What the words of module CodeGen do when a processor executes them,     *)
(* against what the IL instruction means.  The two instruction sets are    *)
(* external: they are modelled as far as the backends use them.            *)
(*                                                                         *)
(* A machine is a pc, registers, the outcome of the last comparison and a  *)
(* memory that maps the addresses written to to words; one never written   *)
(* to holds a number of its own.                                           *)
(***************************************************************************)
EXTENDS CodeGen, TLC, Bitwise

CONSTANTS
    Values,  \* contents of the registers an instruction works on
    Truths   \* those of ! on ARM, and of && and || everywhere

Load(m, a) == IF a \in DOMAIN m.mem THEN m.mem[a] ELSE a + 1

Put(mem, a, v) == (a :> v) @@ mem

LowByte(old, v) == old - (old % 256) + (v % 256)

SignedByte(v) == ((v + 128) % 256) - 128

-----------------------------------------------------------------------------
(* The processors, one word at a time.                                     *)

RiscvStep(w, m) ==
    LET r(n) == IF n = 0 THEN 0 ELSE m.reg[n]
        x == r(w.rs1)
        y == r(w.rs2)
        Go(pc) == [m EXCEPT !.pc = pc]
        Write(v) == [m EXCEPT !.pc = @ + 4, !.reg[w.rd] = v]
        Store(v) == [m EXCEPT !.pc = @ + 4, !.mem = Put(@, x + w.imm, v)]
        Branch(taken) == Go(m.pc + IF taken THEN w.imm ELSE 4)
        Link(pc) == [m EXCEPT !.pc = pc, !.reg[w.rd] = m.pc + 4]
    IN
    CASE w.op = "addi" -> Write(x + w.imm)
      [] w.op = "sltiu" -> Write(IF x \in 0..(w.imm - 1) THEN 1 ELSE 0)
      [] w.op = "lui" -> Write(w.imm)
      [] w.op = "auipc" -> Write(m.pc + w.imm)
      [] w.op = "add" -> Write(x + y)
      [] w.op = "sub" -> Write(x - y)
      [] w.op = "mul" -> Write(x * y)
      [] w.op = "and" -> Write(x & y)
      [] w.op = "or" -> Write(x | y)
      [] w.op = "sll" -> Write(x * 2 ^ y)
      [] w.op = "srl" -> Write(x \div 2 ^ y)
      [] w.op = "lw" -> Write(Load(m, x + w.imm))
      [] w.op = "lb" -> Write(SignedByte(Load(m, x + w.imm)))
      [] w.op = "sw" -> Store(y)
      [] w.op = "sb" -> Store(LowByte(Load(m, x + w.imm), y))
      [] w.op = "jal" -> Link(m.pc + w.imm)
      [] w.op = "jalr" -> Link(x + w.imm)
      [] w.op = "beq" -> Branch(x = y)
      [] w.op = "bne" -> Branch(x # y)
      [] w.op = "blt" -> Branch(x < y)
      [] w.op = "bge" -> Branch(x >= y)
      [] w.op = "ecall" -> Go(m.pc + 4)

ArmStep(w, m) ==
    LET x == m.reg[w.rs]
        y == m.reg[w.ro]
        Go(pc) == [m EXCEPT !.pc = pc]
        Write(v) == [m EXCEPT !.pc = @ + 4, !.reg[w.rd] = v]
        Store(v) == [m EXCEPT !.pc = @ + 4, !.mem = Put(@, x + w.imm, v)]
        Compared(v) == [m EXCEPT !.pc = @ + 4, !.compared = v]
        Link(pc) == [m EXCEPT !.pc = pc, !.reg[AR!Lr] = m.pc + 4]
        holds == CASE w.cond = "al" -> TRUE
                   [] w.cond = "eq" -> m.compared = 0
                   [] w.cond = "ne" -> m.compared # 0
                   [] w.cond = "lt" -> m.compared < 0
                   [] w.cond = "ge" -> m.compared >= 0
                   [] w.cond = "gt" -> m.compared > 0
                   [] w.cond = "le" -> m.compared <= 0
    IN
    IF ~holds THEN Go(m.pc + 4)
    ELSE CASE w.op = "mov_i" -> Write(w.imm)
           [] w.op = "mov_r" -> IF w.rd = AR!Pc THEN Go(y) ELSE Write(y)
           [] w.op = "movw" -> Write(w.imm)
           [] w.op = "movt" ->
                  Write((m.reg[w.rd] % 2 ^ 16)
                        + 2 ^ 16 * (w.imm - IF w.imm >= 2 ^ 15 THEN 2 ^ 16 ELSE 0))
           [] w.op = "add_i" -> Write(x + w.imm)
           [] w.op = "sub_i" -> Write(x - w.imm)
           [] w.op = "rsb_i" -> Write(w.imm - x)
           [] w.op = "add" -> Write(x + y)
           [] w.op = "sub" -> Write(x - y)
           [] w.op = "mul" -> Write(x * y)
           [] w.op = "and" -> Write(x & y)
           [] w.op = "or" -> Write(x | y)
           [] w.op = "lsl" -> Write(x * 2 ^ y)
           [] w.op = "lsr" -> Write(x \div 2 ^ y)
           [] w.op = "ldr" -> Write(Load(m, x + w.imm))
           [] w.op = "ldrb" -> Write(Load(m, x + w.imm) % 256)
           [] w.op = "str" -> [m EXCEPT !.pc = @ + 4,
                                        !.mem = Put(@, x + w.imm, m.reg[w.rd])]
           [] w.op = "strb" -> [m EXCEPT !.pc = @ + 4, !.mem =
                                 Put(@, x + w.imm, LowByte(Load(m, x + w.imm), m.reg[w.rd]))]
           [] w.op = "cmp" -> Compared(x - y)
           [] w.op = "teq_i" -> Compared(x - w.imm)
           [] w.op = "b" -> Go(m.pc + 8 + 4 * w.imm)
           [] w.op = "bl" -> Link(m.pc + 8 + 4 * w.imm)
           [] w.op = "blx" -> Link(y)
           [] w.op = "swi" -> Go(m.pc + 4)

\* Execute words that start at base until control leaves them or goes back.
RECURSIVE Execute(_, _, _)
Execute(words, base, m) ==
    LET k == (m.pc - base) \div 4 + 1
        n == IF arch = "riscv" THEN RiscvStep(words[k], m) ELSE ArmStep(words[k], m)
    IN IF n.pc \in (m.pc + 1)..(base + 4 * Len(words) - 1) THEN Execute(words, base, n) ELSE n

-----------------------------------------------------------------------------
(* What an IL instruction means.                                           *)

SpReg == IF arch = "riscv" THEN RV!Sp ELSE AR!Sp
FpReg == IF arch = "riscv" THEN RV!S0 ELSE AR!S0
LinkReg == IF arch = "riscv" THEN RV!Ra ELSE AR!Lr

\* The registers that the code generator uses.
View(m) ==
    [pc |-> m.pc, a |-> [n \in 0..7 |-> m.reg[DestReg(n)]], sp |-> m.reg[SpReg],
     fp |-> m.reg[FpReg], link |-> m.reg[LinkReg], mem |-> m.mem]

At(i) == CodeStart + code_offset[i]

\* The block instruction i is written in.
BlockOf(i) ==
    LET open == {b \in 1..Len(blocks) : \E j \in 0..(i - 1) :
                     /\ il[j + 1].op = "op_block_start" /\ il[j + 1].int_param1 = b
                     /\ \A k \in j..(i - 1) :
                            ~(il[k + 1].op = "op_block_end" /\ il[k + 1].int_param1 = b)}
    IN IF open = {} THEN 0 ELSE CHOOSE b \in open : \A c \in open : c <= b

AddressOf(v, view) ==
    CASE v.kind = "global" -> At(Len(il)) + layout.globals[v.k]
      [] v.kind = "local" -> view.fp - layout.locals[v.of][v.k]
      [] v.kind = "param" -> view.fp - layout.params[v.of][v.k]
      [] v.kind = "function" -> At(functions[v.k].entry)

Truth(b) == IF b THEN 1 ELSE 0

Compute(op, x, y) ==
    CASE op = "op_add" -> x + y
      [] op = "op_sub" -> x - y
      [] op = "op_mul" -> x * y
      [] op = "op_negate" -> -x
      [] op = "op_log_and" -> Truth(x # 0 /\ y # 0)
      [] op = "op_log_or" -> Truth(x # 0 \/ y # 0)
      [] op = "op_not" -> Truth(x = 0)
      [] op = "op_bit_and" -> x & y
      [] op = "op_bit_or" -> x | y
      [] op = "op_bit_lshift" -> x * 2 ^ y
      [] op = "op_bit_rshift" -> x \div 2 ^ y
      [] op = "op_equals" -> Truth(x = y)
      [] op = "op_not_equals" -> Truth(x # y)
      [] op = "op_less_than" -> Truth(x < y)
      [] op = "op_less_eq_than" -> Truth(x <= y)
      [] op = "op_greater_than" -> Truth(x > y)
      [] op = "op_greater_eq_than" -> Truth(x >= y)

\* char is signed on RISC-V and not on ARM.
Char(v) == IF arch = "riscv" THEN SignedByte(v) ELSE v % 256

Effect(i, v) ==
    LET c == il[i + 1]
        on == [v EXCEPT !.pc = At(i + 1)]
        x == v.a[c.param_no]
        y == v.a[c.int_param1]
        Set(val) == [on EXCEPT !.a[c.param_no] = val]
        f == Least(Named(functions, c.name))
    IN
    CASE c.op = "op_load_numeric_constant" -> Set(c.int_param1)
      [] c.op = "op_load_data_address" -> Set(At(Len(il)) + c.int_param1)
      [] c.op = "op_get_var_addr" -> Set(AddressOf(Find(c.name, BlockOf(i)), v))
      [] c.op = "op_read_addr" -> Set(IF c.int_param2 = 4 THEN Load(v, y) ELSE Char(Load(v, y)))
      [] c.op = "op_write_addr" ->
             [on EXCEPT !.mem = Put(@, y, IF c.int_param2 = 4 THEN x ELSE LowByte(Load(v, y), x))]
      [] c.op = "op_jump" -> [v EXCEPT !.pc = At(c.int_param1)]
      [] c.op = "op_jz" -> IF x = 0 THEN [v EXCEPT !.pc = At(c.int_param1)] ELSE on
      [] c.op = "op_jnz" -> IF x # 0 THEN [v EXCEPT !.pc = At(c.int_param1)] ELSE on
      [] c.op = "op_return" -> [v EXCEPT !.pc = At(functions[f].exit)]
      [] c.op = "op_function_call" ->
             [v EXCEPT !.pc = At(functions[f].entry), !.link = At(i) + 4]
      [] c.op = "op_pointer_call" -> [v EXCEPT !.pc = y, !.link = At(i) + 4]
      [] c.op = "op_push" -> [on EXCEPT !.sp = @ - 16, !.mem = Put(@, v.sp - 16, x)]
      [] c.op = "op_pop" -> [Set(Load(v, v.sp)) EXCEPT !.sp = @ + 16]
      [] c.op = "op_block_start" -> [on EXCEPT !.sp = @ - layout.locals_size[c.int_param1]]
      [] c.op = "op_block_end" -> [on EXCEPT !.sp = @ + layout.locals_size[c.int_param1]]
      [] c.op = "op_entry_point" ->
             LET fp == v.sp - 16
                 offset == layout.params[f]
                 stored == {fp - offset[p] : p \in 1..Len(offset)}
             IN [on EXCEPT !.fp = fp, !.sp = fp - layout.params_size[f],
                  !.mem = [a \in stored |-> v.a[(CHOOSE p \in 1..Len(offset) :
                                                     fp - offset[p] = a) - 1]]
                          @@ Put(Put(@, fp + 12, v.fp), fp + 8, v.link)]
      [] c.op = "op_exit_point" ->
             [v EXCEPT !.pc = Load(v, v.fp + 8), !.link = Load(v, v.fp + 8),
                       !.sp = v.fp + 16, !.fp = Load(v, v.fp + 12)]
      [] c.op = "op_start" -> [on EXCEPT !.a[0] = Load(v, v.sp), !.a[1] = v.sp + 4]
      [] c.op = "op_syscall" ->
             [on EXCEPT !.a[7] = v.a[0], !.a[0] = v.a[1], !.a[1] = v.a[2], !.a[2] = v.a[3]]
      [] c.op = "op_exit" ->
             [on EXCEPT !.a[0] = 0, !.a[7] = IF arch = "riscv" THEN 93 ELSE 1]
      [] c.op = "op_label" -> on
      [] OTHER -> Set(Compute(c.op, x, y))

-----------------------------------------------------------------------------
(* Machines an instruction is tried on.                                    *)

Operands(c) ==
    CASE c.op \in {"op_log_and", "op_log_or"} -> Truths
      [] c.op = "op_not" -> IF arch = "arm" THEN Truths ELSE Values
      [] c.op \in {"op_bit_and", "op_bit_or", "op_bit_lshift", "op_bit_rshift"} ->
             Values \cap Nat
      [] c.op \in Operators \cup {"op_jz", "op_jnz"} -> Values
      [] c.op \in {"op_read_addr", "op_write_addr", "op_pointer_call"} -> {8192}
      [] OTHER -> {700}

Start(c, pc, x, y) ==
    [pc |-> pc, compared |-> 0, mem |-> << >>,
     reg |-> [r \in 0..31 |->
         CASE r = SpReg -> 4096
           [] r = FpReg -> 4608
           [] r = LinkReg -> 20000
           [] r = DestReg(c.param_no) -> x
           [] r = DestReg(c.int_param1) -> y
           [] OTHER -> 600 + r]]

\* Each instruction, once its words are executed at their place, has done to
\* the registers, the stack and memory what the IL means, and goes on at the
\* instruction that follows or at the target of the jump, however far; a call
\* comes back with its result in the register that was asked for.
InstructionsExecute ==
    phase = "generate" /\ next > 0 /\ il[next].op # "op_generic" =>
        LET i == next - 1
            c == il[next]
            words == SubSeq(code, code_offset[i] \div 4 + 1, Len(code))
            Does(pc, effect(_)) ==
                \A x, y \in Operands(c) :
                    LET m == Start(c, pc, x, y) IN
                    View(IF words = << >> THEN m ELSE Execute(words, At(i), m))
                        = effect(View(m))
        IN /\ Does(At(i), LAMBDA v : Effect(i, v))
           /\ c.op \in {"op_function_call", "op_pointer_call"} /\ Len(words) = 2 =>
                  Does(At(i) + 4, LAMBDA v : [v EXCEPT !.pc = At(i + 1),
                                                       !.a[c.param_no] = v.a[0]])

=============================================================================
