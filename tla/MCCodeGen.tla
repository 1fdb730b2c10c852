----------------------------- MODULE MCCodeGen -----------------------------
(***************************************************************************)
(* Programs for the code generator.  All of them have the shape            *)
(*                                                                         *)
(*     main { label  A  { B }  label  address of x  { C }  label }         *)
(*                                                                         *)
(* behind the prologue of p_initialize, where A, B and C are single        *)
(* instructions, and differ in these and in the variables.                 *)
(***************************************************************************)
EXTENDS Elf

CONSTANT Kinds  \* which of the sets of programs below

I(op, param_no, int_param1, int_param2, name) ==
    [op |-> op, param_no |-> param_no, int_param1 |-> int_param1,
     int_param2 |-> int_param2, name |-> name]

N(op) == I(op, 0, 0, 0, "")

Nop == I("op_generic", 0, 19, 0, "")

Address == I("op_get_var_addr", 1, 0, 0, "x")

Shape(main_param, a, b, c) ==
    << I("op_label", 0, 0, 0, "__start"), N("op_start"),
       I("op_function_call", main_param, 0, 0, "main"),
       I("op_label", 0, 0, 0, "__exit"), N("op_exit"),
       I("op_entry_point", 0, 0, 0, "__syscall"), N("op_syscall"), N("op_exit_point"),
       I("op_entry_point", 0, 0, 0, "main"), I("op_block_start", 0, 1, 0, ""),
       N("op_label"), a, I("op_block_start", 0, 2, 0, ""), b, I("op_block_end", 0, 2, 0, ""),
       N("op_label"), Address, I("op_block_start", 0, 3, 0, ""), c, I("op_block_end", 0, 3, 0, ""),
       N("op_label"), I("op_block_end", 0, 1, 0, ""), N("op_exit_point") >>

Labels == {10, 15, 20}

Var(name, size) == [name |-> name, size |-> size]

Program(params, outer, inner, sibling, globals, main_param, a, b, c) ==
    [il |-> Shape(main_param, a, b, c),
     functions |-> << [name |-> "__syscall", params |-> << >>, entry |-> 5, exit |-> 7],
                      [name |-> "main", params |-> params, entry |-> 8, exit |-> 22] >>,
     blocks |-> << [parent |-> 0, function |-> 2, locals |-> outer],
                   [parent |-> 1, function |-> 2, locals |-> inner],
                   [parent |-> 1, function |-> 2, locals |-> sibling] >>,
     globals |-> globals,
     data |-> 3]

-----------------------------------------------------------------------------
(* Programs that differ in their instructions.                             *)

Constants == {0, 255, 256, -1, 2046, 2047, 2048, 4095, -2047, -2048, 70000, -70000}

Plains ==
    {I("op_load_numeric_constant", 1, k, 0, "") : k \in Constants}
    \cup {I("op_load_data_address", 2, 5, 0, "")}
    \cup {I("op_get_var_addr", 1, 0, 0, n) : n \in {"p", "q", "x", "y", "g", "h", "main"}}
    \cup {I(op, 1, 2, size, "") : op \in {"op_read_addr", "op_write_addr"}, size \in {1, 4}}
    \cup {I(op, 1, 2, 0, "") : op \in {"op_push", "op_pop"}}
    \cup {I("op_function_call", pn, 0, 0, "main") : pn \in {0, 2}}
    \cup {I("op_pointer_call", pn, 1, 0, "") : pn \in {0, 2}}
    \cup {I(op, 1, 2, 0, "") : op \in Operators}

Jumps ==
    {I("op_return", 0, 0, 0, "main"), Nop}
    \cup {I(op, 0, l, 0, "") : op \in {"op_jump", "op_jz", "op_jnz"}, l \in Labels}

WithVariables(main_param, a, b, c) ==
    Program(<<Var("p", 4), Var("q", 4)>>, <<Var("x", 4)>>, <<Var("x", 1), Var("y", 4)>>,
            << >>, <<Var("g", 1), Var("h", 4)>>, main_param, a, b, c)

OfInstructions ==
    {WithVariables(0, a, b, Address) :
         a \in Plains \cup Jumps, b \in Jumps}
    \cup {WithVariables(3, Nop, b, c) : b \in Jumps, c \in Jumps}

\* Programs that differ in their variables.  2048 bytes are more than a frame
\* may take, 1040 bytes twice more than addi can span.
Sizes == {1, 4, 20, 1040, 2048}

Frames == {<< >>} \cup {<<Var("x", s)>> : s \in Sizes}
          \cup {<<Var("x", s), Var("y", t)>> : s, t \in {1, 4, 20}}

OfVariables ==
    {Program(params, outer, inner, sibling, <<Var("g", 1), Var("h", 4)>>, 0, Nop, Nop, Nop) :
         params \in {<< >>, <<Var("p", 4)>>, <<Var("p", 4), Var("q", 1)>>},
         outer \in Frames, inner \in Frames, sibling \in {<< >>, <<Var("x", 4)>>}}

SampleValues == {-3, 0, 1, 2, 5}

AllPrograms ==
    (IF "instructions" \in Kinds THEN OfInstructions ELSE {})
    \cup (IF "variables" \in Kinds THEN OfVariables ELSE {})
=============================================================================
