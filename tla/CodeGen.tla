------------------------------ MODULE CodeGen ------------------------------
(***************************************************************************)
(* c_generate of codegen.c: two passes over the intermediate code.  The    *)
(* first asks the backend how long each instruction will be and so learns  *)
(* where it will start; then the stack frames are laid out and the global  *)
(* variables placed; the second pass emits the words.  Jumps are emitted   *)
(* to the offsets of the first pass, so the two have to agree.             *)
(*                                                                         *)
(* The intermediate code and the tables of functions, blocks and globals   *)
(* are what the parser left; they are read and not changed, but for the    *)
(* offsets and sizes, kept in layout here.  Indices into the code and      *)
(* block numbers start at 0, and block 0 holds the globals.                *)
(***************************************************************************)
EXTENDS Integers, Sequences, FiniteSets

CONSTANTS
    Programs,    \* what the parser may leave
    CodeStart,   \* _e_code_start: the address of the code
    MaxFrame,    \* 2047: the most a function's parameters or a block may take
    BranchReach  \* 4096: what a conditional branch of RISC-V can reach

RV == INSTANCE Riscv
AR == INSTANCE Arm

VARIABLES
    phase,        \* "length", "size", "generate", "done" or "error"
    arch,         \* the backend chosen
    program,      \* [il, functions, blocks, globals, data]
    code_offset,  \* of each instruction and of the end
    layout,       \* offsets and sizes of parameters, locals and globals
    symbols,      \* the symbol table
    code,         \* the words emitted
    next,         \* the instruction to generate
    bd            \* the current block, 0 for NULL

vars == <<phase, arch, program, code_offset, layout, symbols, code, next, bd>>

il == program.il
functions == program.functions
blocks == program.blocks

ii == il[next + 1]

Operators ==
    {"op_add", "op_sub", "op_mul", "op_negate", "op_log_and", "op_log_or", "op_bit_and",
     "op_bit_or", "op_bit_lshift", "op_bit_rshift", "op_not", "op_equals",
     "op_not_equals", "op_less_than", "op_less_eq_than", "op_greater_than",
     "op_greater_eq_than"}

Ops ==
    {"op_load_data_address", "op_load_numeric_constant", "op_get_var_addr", "op_read_addr",
     "op_write_addr", "op_jump", "op_return", "op_function_call", "op_pointer_call",
     "op_push", "op_pop", "op_exit_point", "op_start", "op_syscall", "op_exit", "op_label",
     "op_jz", "op_jnz", "op_generic", "op_block_start", "op_block_end", "op_entry_point"}
    \cup Operators

Instruction ==
    [op : Ops, param_no : Nat, int_param1 : Int, int_param2 : Int, name : STRING]

Variable == [name : STRING, size : Nat]

Function == [name : STRING, params : Seq(Variable), entry : Nat, exit : Nat]

Block == [parent : Nat, function : Nat, locals : Seq(Variable)]

\* What the parser leaves: the function, block or instruction an instruction
\* names exists, and a block comes after the block it is in and belongs to
\* the same function.
WellFormed(p) ==
    /\ p \in [il : Seq(Instruction), functions : Seq(Function), blocks : Seq(Block),
              globals : Seq(Variable), data : Nat]
    /\ \A f \in 1..Len(p.functions) :
           {p.functions[f].entry, p.functions[f].exit} \subseteq 0..(Len(p.il) - 1)
    /\ \A b \in 1..Len(p.blocks) :
        /\ p.blocks[b].parent < b
        /\ p.blocks[b].function \in 1..Len(p.functions)
        /\ p.blocks[b].parent # 0 =>
               p.blocks[p.blocks[b].parent].function = p.blocks[b].function
    /\ \A i \in 1..Len(p.il) :
        /\ p.il[i].op \in {"op_entry_point", "op_return", "op_function_call"} =>
               \E f \in 1..Len(p.functions) : p.functions[f].name = p.il[i].name
        /\ p.il[i].op \in {"op_jump", "op_jz", "op_jnz"} =>
               p.il[i].int_param1 \in 0..(Len(p.il) - 1)
        /\ p.il[i].op \in {"op_block_start", "op_block_end"} =>
               p.il[i].int_param1 \in 1..Len(p.blocks)

ASSUME ProgramsAssumption == \A p \in Programs : WellFormed(p)

ASSUME LimitsAssumption ==
    CodeStart \in Nat /\ MaxFrame \in Nat /\ BranchReach \in Nat \ {0}

-----------------------------------------------------------------------------
(* Lookups.                                                                *)

Named(vs, name) == {k \in 1..Len(vs) : vs[k].name = name}

Least(S) == CHOOSE k \in S : \A j \in S : k <= j

find_function(name) == functions[Least(Named(functions, name))]

\* A block and the blocks around it.
Enclosing(b) ==
    LET around[c \in 1..Len(blocks)] ==
            {c} \cup IF blocks[c].parent = 0 THEN {} ELSE around[blocks[c].parent]
    IN IF b = 0 THEN {} ELSE around[b]

\* The variable a name means in block b, as the code generator looks it up:
\* a global first, then the locals from the inside out, then the parameters,
\* and at last a function.
FindLocal(name, b) ==
    LET holding == {c \in Enclosing(b) : Named(blocks[c].locals, name) # {}}
        params == functions[blocks[b].function].params
    IN IF holding # {}
       THEN LET c == CHOOSE c \in holding : \A d \in holding : d <= c
            IN [kind |-> "local", of |-> c, k |-> Least(Named(blocks[c].locals, name))]
       ELSE IF Named(params, name) # {}
       THEN [kind |-> "param", of |-> blocks[b].function, k |-> Least(Named(params, name))]
       ELSE [kind |-> "none", of |-> 0, k |-> 0]

Find(name, b) ==
    IF Named(program.globals, name) # {}
    THEN [kind |-> "global", of |-> 0, k |-> Least(Named(program.globals, name))]
    ELSE IF FindLocal(name, b).kind # "none" THEN FindLocal(name, b)
    ELSE IF Named(functions, name) # {}
    THEN [kind |-> "function", of |-> 0, k |-> Least(Named(functions, name))]
    ELSE [kind |-> "none", of |-> 0, k |-> 0]

-----------------------------------------------------------------------------
(* The backend.                                                            *)

DestReg(param_no) ==
    IF arch = "riscv" THEN RV!r_dest_reg(param_no) ELSE AR!a_dest_reg(param_no)

\* Numbers the instruction names, for the length of its code.
CodeLength(i) ==
    LET params == IF i.op = "op_entry_point" THEN Len(find_function(i.name).params) ELSE 0
        locals == IF i.op \in {"op_block_start", "op_block_end"}
                  THEN Len(blocks[i.int_param1].locals) ELSE 0
    IN IF arch = "riscv" THEN RV!CodeLength(i, params, locals)
       ELSE AR!CodeLength(i, params, locals)

Pc == 4 * Len(code)

Words(call) ==
    LET st == [pc |-> Pc, code_start |-> CodeStart,
               dest_reg |-> DestReg(ii.param_no), op_reg |-> DestReg(ii.int_param1)]
    IN IF arch = "riscv" THEN RV!Words(st, call) ELSE AR!Words(st, call)

-----------------------------------------------------------------------------
(* The first pass and the layout.                                          *)

\* The sums of the first 0, 1, ... numbers of s.
Sums(s) ==
    LET sum[i \in 0..Len(s)] == IF i = 0 THEN 0 ELSE sum[i - 1] + s[i]
    IN sum

\* The size of the first k of the variables vs.
SizeOf(vs, k) == Sums([v \in 1..Len(vs) |-> vs[v].size])[k]

\* Mutant: not aligned.
Unaligned(n) == n

\* Mutant: aligned down.
Align16Down(n) == n - (n % 16)

\* Aligned up to 16 bytes.
Align16(n) == IF n % 16 > 0 THEN n - (n % 16) + 16 ELSE n

Offsets(vs, base) == [k \in 1..Len(vs) |-> base + SizeOf(vs, k)]

ParamsSize(f) == Align16(SizeOf(functions[f].params, Len(functions[f].params)))

LocalsSize(b) == Align16(SizeOf(blocks[b].locals, Len(blocks[b].locals)))

\* What c_size_block returns: the end of a block in the frame, below the
\* parameters and the locals of the blocks around it.
c_size_block(b) ==
    LET end[c \in 1..Len(blocks)] ==
            LocalsSize(c) + IF blocks[c].parent = 0 THEN ParamsSize(blocks[c].function)
                            ELSE end[blocks[c].parent]
    IN end[b]

\* Mutant: every block starts right below the parameters.
BlockBaseFlat(b) == ParamsSize(blocks[b].function)

\* Where the locals of a block start: at the end of what is around it.
BlockBase(b) ==
    IF blocks[b].parent = 0 THEN ParamsSize(blocks[b].function)
    ELSE c_size_block(blocks[b].parent)

Init ==
    /\ phase = "length"
    /\ arch \in {"riscv", "arm"}
    /\ program \in Programs
    /\ code_offset = << >>
    /\ layout = << >>
    /\ symbols = << >>
    /\ code = << >>
    /\ next = 0
    /\ bd = 0

\* c_calculate_code_length; data_start is the offset of the end.
CalculateCodeLength ==
    /\ phase = "length"
    /\ code_offset' = Sums([i \in 1..Len(il) |-> CodeLength(il[i])])
    /\ phase' = "size"
    /\ UNCHANGED <<arch, program, layout, symbols, code, next, bd>>

data_start == code_offset[Len(il)]

\* The offsets and sizes of everything.
Placed ==
    [params_size |-> [f \in 1..Len(functions) |-> ParamsSize(f)],
     params |-> [f \in 1..Len(functions) |-> Offsets(functions[f].params, 0)],
     locals_size |-> [b \in 1..Len(blocks) |-> LocalsSize(b)],
     locals |-> [b \in 1..Len(blocks) |-> Offsets(blocks[b].locals, BlockBase(b))],
     globals |-> [k \in 1..Len(program.globals) |->
                      program.data + SizeOf(program.globals, k - 1)]]

\* c_size_functions
SizeFunctions ==
    /\ phase = "size"
    /\ IF \/ \E f \in 1..Len(functions) : ParamsSize(f) > MaxFrame
          \/ \E b \in 1..Len(blocks) : LocalsSize(b) > MaxFrame
       THEN phase' = "error" /\ UNCHANGED <<layout, symbols>>
       ELSE /\ phase' = "generate"
            /\ layout' = Placed
            /\ symbols' = symbols \o [k \in 1..Len(program.globals) |->
                 [name |-> program.globals[k].name,
                  value |-> CodeStart + data_start + Placed.globals[k]]]
    /\ UNCHANGED <<arch, program, code_offset, code, next, bd>>

-----------------------------------------------------------------------------
(* The second pass.  One action for each kind of instruction.              *)

Generating(ops) ==
    /\ phase = "generate"
    /\ next < Len(il)
    /\ ii.op \in ops

\* Emit words and go on with the next instruction; an error ends it all.
Emit(words) ==
    /\ next' = next + 1
    /\ code' = code \o words
    /\ phase' = IF \E k \in 1..Len(words) : words[k].op = "error" THEN "error" ELSE phase
    /\ UNCHANGED <<arch, program, code_offset, layout>>

Symbol(name) == symbols' = Append(symbols, [name |-> name, value |-> CodeStart + Pc])

LoadDataAddress ==
    /\ Generating({"op_load_data_address"})
    /\ Emit(Words([fn |-> "op_load_data_address", ofs |-> data_start + ii.int_param1]))
    /\ UNCHANGED <<symbols, bd>>

LoadNumericConstant ==
    /\ Generating({"op_load_numeric_constant"})
    /\ Emit(Words([fn |-> "op_load_numeric_constant", val |-> ii.int_param1]))
    /\ UNCHANGED <<symbols, bd>>

GetVarAddr ==
    LET v == Find(ii.name, bd) IN
    /\ Generating({"op_get_var_addr"})
    /\ CASE v.kind = "global" ->
              Emit(Words([fn |-> "op_get_global_addr", ofs |-> data_start + layout.globals[v.k]]))
         [] v.kind = "local" ->
              Emit(Words([fn |-> "op_get_local_addr", ofs |-> -layout.locals[v.of][v.k]]))
         [] v.kind = "param" ->
              Emit(Words([fn |-> "op_get_local_addr", ofs |-> -layout.params[v.of][v.k]]))
         [] v.kind = "function" ->
              Emit(Words([fn |-> "op_get_function_addr",
                          ofs |-> CodeStart + code_offset[functions[v.k].entry]]))
         [] v.kind = "none" ->
              phase' = "error" /\ UNCHANGED <<arch, program, code_offset, layout, code, next>>
    /\ UNCHANGED <<symbols, bd>>

Access ==
    /\ Generating({"op_read_addr", "op_write_addr"})
    /\ Emit(Words([fn |-> ii.op, len |-> ii.int_param2]))
    /\ UNCHANGED <<symbols, bd>>

Jump ==
    /\ Generating({"op_jump"})
    /\ Emit(Words([fn |-> "op_jump", ofs |-> code_offset[ii.int_param1] - Pc]))
    /\ UNCHANGED <<symbols, bd>>

Return ==
    /\ Generating({"op_return"})
    /\ Emit(Words([fn |-> "op_return", ofs |-> code_offset[find_function(ii.name).exit] - Pc]))
    /\ UNCHANGED <<symbols, bd>>

FunctionCall ==
    /\ Generating({"op_function_call"})
    /\ Emit(Words([fn |-> "op_function_call",
                   ofs |-> code_offset[find_function(ii.name).entry] - Pc]))
    /\ UNCHANGED <<symbols, bd>>

\* Operations that need nothing but the registers.
Plain ==
    /\ Generating({"op_pointer_call", "op_push", "op_pop", "op_exit_point", "op_start",
                   "op_syscall", "op_exit"})
    /\ Emit(Words([fn |-> ii.op]))
    /\ UNCHANGED <<symbols, bd>>

Family(op) ==
    CASE op \in {"op_add", "op_sub", "op_mul", "op_negate"} -> "op_alu"
      [] op \in {"op_log_and", "op_log_or"} -> "op_log"
      [] op \in {"op_bit_and", "op_bit_or", "op_bit_lshift", "op_bit_rshift", "op_not"} -> "op_bit"
      [] OTHER -> "op_cmp"

Operator ==
    /\ Generating(Operators)
    /\ Emit(Words([fn |-> Family(ii.op), op |-> ii.op]))
    /\ UNCHANGED <<symbols, bd>>

Label ==
    /\ Generating({"op_label"})
    /\ Emit(<< >>)
    /\ IF ii.name # "" THEN Symbol(ii.name) ELSE UNCHANGED symbols
    /\ UNCHANGED bd

\* Mutant: the offset is taken from the first of the two words.
JumpIfFromFirstWord ==
    /\ Generating({"op_jz", "op_jnz"})
    /\ Emit(Words([fn |-> "op_jz", op |-> ii.op, ofs |-> code_offset[ii.int_param1] - Pc]))
    /\ UNCHANGED <<symbols, bd>>

\* The branch is the second of two words.
JumpIf ==
    /\ Generating({"op_jz", "op_jnz"})
    /\ Emit(Words([fn |-> "op_jz", op |-> ii.op, ofs |-> code_offset[ii.int_param1] - Pc - 4]))
    /\ UNCHANGED <<symbols, bd>>

\* asm(): the word itself
Generic ==
    /\ Generating({"op_generic"})
    /\ Emit(<< [op |-> "asm", imm |-> ii.int_param1] >>)
    /\ UNCHANGED <<symbols, bd>>

\* Reserve space for the locals of the block.
BlockStart ==
    LET b == ii.int_param1 IN
    /\ Generating({"op_block_start"})
    /\ Emit(IF Len(blocks[b].locals) > 0
            THEN Words([fn |-> "op_block", len |-> -layout.locals_size[b]]) ELSE << >>)
    /\ bd' = b
    /\ UNCHANGED symbols

\* Give the space back; the block around is current again.
BlockEnd ==
    LET b == ii.int_param1 IN
    /\ Generating({"op_block_end"})
    /\ Emit(IF Len(blocks[b].locals) > 0
            THEN Words([fn |-> "op_block", len |-> layout.locals_size[b]]) ELSE << >>)
    /\ bd' = blocks[b].parent
    /\ UNCHANGED symbols

\* The frame, and the parameters stored into it: one word each, whatever
\* their size.
EntryPoint ==
    LET f == Least(Named(functions, ii.name))
        Store(p) == Words([fn |-> "op_store_param", pn |-> p - 1, ofs |-> -layout.params[f][p]])
    IN
    /\ Generating({"op_entry_point"})
    /\ Emit(Words([fn |-> "op_entry_point", len |-> layout.params_size[f]])
            \o [p \in 1..Len(functions[f].params) |-> Store(p)[1]])
    /\ Symbol(ii.name)
    /\ UNCHANGED bd

Finish ==
    /\ phase = "generate"
    /\ next = Len(il)
    /\ phase' = "done"
    /\ UNCHANGED <<arch, program, code_offset, layout, symbols, code, next, bd>>

Terminating == phase \in {"done", "error"} /\ UNCHANGED vars

Next ==
    \/ CalculateCodeLength \/ SizeFunctions
    \/ LoadDataAddress \/ LoadNumericConstant \/ GetVarAddr \/ Access \/ Jump \/ Return
    \/ FunctionCall \/ Plain \/ Operator \/ Label \/ JumpIf \/ Generic
    \/ BlockStart \/ BlockEnd \/ EntryPoint
    \/ Finish \/ Terminating

Spec == Init /\ [][Next]_vars

-----------------------------------------------------------------------------
(* Properties.                                                             *)

\* The state is well formed in every phase.
TypeOK ==
    /\ phase \in {"length", "size", "generate", "done", "error"}
    /\ arch \in {"riscv", "arm"}
    /\ next \in 0..Len(il)
    /\ bd \in 0..Len(blocks)
    /\ phase = "length" => code_offset = << >>
    /\ phase # "length" =>
           /\ DOMAIN code_offset = 0..Len(il)
           /\ \A i \in 0..Len(il) : code_offset[i] \in Nat /\ code_offset[i] % 4 = 0
    /\ phase \in {"generate", "done"} =>
           /\ \A f \in 1..Len(functions) :
                  layout.params_size[f] \in 0..MaxFrame /\ layout.params_size[f] % 16 = 0
           /\ \A b \in 1..Len(blocks) :
                  layout.locals_size[b] \in 0..MaxFrame /\ layout.locals_size[b] % 16 = 0
    /\ \A k \in 1..Len(symbols) : symbols[k].value \in Nat

\* The two passes agree: whatever was emitted so far ends where the first
\* pass said the next instruction would start.  Every jump, call and address
\* was computed from what the first pass said.
OffsetsAgree == phase \in {"generate", "done"} => Pc = code_offset[next]

\* Bytes of a variable below s0.
Bytes(offset, size) == (offset - size + 1)..offset

\* Parameters and locals that exist while block b runs, with their bytes.
FrameOf(b) ==
    LET f == blocks[b].function
        params == functions[f].params
    IN {<<"param", f, k, Bytes(layout.params[f][k], params[k].size)>> : k \in 1..Len(params)}
       \cup UNION {{<<"local", c, k, Bytes(layout.locals[c][k], blocks[c].locals[k].size)>> :
                        k \in 1..Len(blocks[c].locals)} : c \in Enclosing(b)}

\* No two variables share a byte while both exist: not the parameters and the
\* locals of nested blocks, not the globals and the string literals.
VariablesDisjoint ==
    phase \in {"generate", "done"} =>
        /\ \A b \in 1..Len(blocks) : \A v, w \in FrameOf(b) :
               v # w => v[4] \cap w[4] = {}
        /\ \A k \in 1..Len(program.globals) :
               layout.globals[k] >=
                   IF k = 1 THEN program.data
                   ELSE layout.globals[k - 1] + program.globals[k - 1].size

\* What op_entry_point and the op_block_start of the blocks around reserve
\* holds every variable of a block: what is pushed later lies below them.  The
\* stack pointer stays a multiple of 16.
FramesReserved ==
    phase \in {"generate", "done"} =>
        \A b \in 1..Len(blocks) :
            LET reserved[c \in 1..Len(blocks)] ==
                    layout.locals_size[c] + IF blocks[c].parent = 0
                                            THEN layout.params_size[blocks[c].function]
                                            ELSE reserved[blocks[c].parent]
            IN /\ \A v \in FrameOf(b) : v[4] \subseteq 1..reserved[b]
               /\ reserved[b] % 16 = 0

\* A parameter stored on entry is not overwritten by the stores of those after
\* it, which are whole words.
ParamsKept ==
    phase \in {"generate", "done"} =>
        \A f \in 1..Len(functions) :
            \A p \in 1..Len(functions[f].params) : \A q \in 1..(p - 1) :
                Bytes(layout.params[f][p], 4) \cap
                    Bytes(layout.params[f][q], functions[f].params[q].size) = {}
=============================================================================
