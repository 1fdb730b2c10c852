---------------------------- MODULE Expression ----------------------------
(***************************************************************************)
(* The expression parser of parser.c: p_read_expression, its operands,     *)
(* lvalues and calls, as a recursive descent with an explicit stack of     *)
(* activations.  The intermediate code of an expression has no jumps, so   *)
(* the module executes every instruction at the moment add_instr appends   *)
(* it: m is the machine the emitted code runs on.                          *)
(*                                                                         *)
(* A value is the index of a term in m.term; 0 is a value nobody may rely  *)
(* on (a register a callee was free to overwrite).  Names, types and       *)
(* numbers are abstracted to what the control flow asks of them: whether a *)
(* variable is a pointer or an array and whether the type it is declared   *)
(* with is wider than a byte.                                              *)
(***************************************************************************)
EXTENDS Naturals, Sequences

CONSTANTS
    OperatorTokens, \* binary operator tokens the input may hold
    Constructs,     \* kinds of operand the input may hold, constants apart
    Variables,      \* the kinds of variable and member an operand may name
    StartRegs,      \* param_no of the statement-level p_read_expression call
    MAX_PARAMS,     \* 8 in defs.c: argument registers of a call
    MaxReg,         \* bound: highest register of the machine
    MaxTokens,      \* bound: tokens of one expression
    MaxDepth,       \* bound: nested activations
    MaxArgs         \* bound: arguments of one call

ASSUME BoundsAssumption ==
    /\ MAX_PARAMS \in Nat \ {0} /\ MAX_PARAMS <= MaxReg + 1
    /\ MaxReg \in Nat /\ MaxTokens \in Nat /\ MaxDepth \in Nat /\ MaxArgs \in Nat
    /\ \A pn \in StartRegs : pn \in Nat /\ pn + 3 <= MaxReg

ASSUME VariablesAssumption ==
    \A v \in Variables :
        v \in [is_pointer : Nat, is_array : BOOLEAN, wide : BOOLEAN]

VARIABLES
    pc,      \* the point the parser is at, in the activation on top of frames
    frames,  \* the activations, outermost first
    m,       \* the machine the emitted code has run on so far
    tokens   \* tokens consumed so far: only the bound reads it

vars == <<pc, frames, m, tokens>>

-----------------------------------------------------------------------------
(* Operators and their priorities.                                         *)

TokenOp ==
    [t_plus |-> "op_add", t_minus |-> "op_sub", t_star |-> "op_mul",
     t_lshift |-> "op_bit_lshift", t_rshift |-> "op_bit_rshift",
     t_log_and |-> "op_log_and", t_log_or |-> "op_log_or",
     t_eq |-> "op_equals", t_noteq |-> "op_not_equals",
     t_lt |-> "op_less_than", t_le |-> "op_less_eq_than",
     t_gt |-> "op_greater_than", t_ge |-> "op_greater_eq_than",
     t_ampersand |-> "op_bit_and", t_bit_or |-> "op_bit_or"]

BinaryOps ==
    {"op_add", "op_sub", "op_mul", "op_bit_lshift", "op_bit_rshift",
     "op_log_and", "op_log_or", "op_equals", "op_not_equals",
     "op_less_than", "op_less_eq_than", "op_greater_than",
     "op_greater_eq_than", "op_bit_and", "op_bit_or"}

\* p_get_operator for a token that is a binary operator.
p_get_operator(tok) == TokenOp[tok]

\* p_get_operator_priority, shifted by 2 to a natural number.
p_get_operator_priority(op) ==
    CASE op \in {"op_log_and", "op_log_or"} -> 0
      [] op \in {"op_equals", "op_not_equals", "op_less_than",
                 "op_less_eq_than", "op_greater_than",
                 "op_greater_eq_than"} -> 1
      [] op = "op_mul" -> 3
      [] OTHER -> 2

-----------------------------------------------------------------------------
(* The machine: registers a0.., the stack op_push and op_pop use, and the  *)
(* terms computed so far.                                                  *)

Regs == 0..MaxReg

Fresh(mc, d, t) ==
    [mc EXCEPT !.reg = [@ EXCEPT ![d] = Len(mc.term) + 1],
               !.term = Append(@, t)]

\* op_load_numeric_constant, op_load_data_address, op_get_var_addr
Load(mc, d) == Fresh(mc, d, [op |-> "leaf", l |-> 0, r |-> 0])

\* op_not, op_negate (d = s) and op_read_addr
Unary(mc, op, d, s) == Fresh(mc, d, [op |-> op, l |-> mc.reg[s], r |-> 0])

\* a binary operator: d := d op s
Apply(mc, op, d, s) ==
    Fresh(mc, d, [op |-> op, l |-> mc.reg[d], r |-> mc.reg[s]])

Push(mc, r) == [mc EXCEPT !.stack = Append(@, mc.reg[r])]

Pop(mc, r) ==
    [mc EXCEPT !.reg = [@ EXCEPT ![r] = mc.stack[Len(mc.stack)]],
               !.stack = SubSeq(@, 1, Len(@) - 1)]

\* The loops that push registers 0..n-1 and pop n-1..0 around a call.
PushRegs(mc, n) ==
    [mc EXCEPT !.stack = @ \o [i \in 1..n |-> mc.reg[i - 1]]]

\* Mutant: popped in the order they were pushed in.
PopRegsAscending(mc, n) ==
    [mc EXCEPT
        !.reg = [r \in Regs |-> IF r < n THEN mc.stack[Len(mc.stack) - r] ELSE @[r]],
        !.stack = SubSeq(@, 1, Len(@) - n)]

\* The registers saved before a call, taken back in the opposite order.
PopRegs(mc, n) ==
    [mc EXCEPT
        !.reg = [r \in Regs |-> IF r < n
                                THEN mc.stack[Len(mc.stack) - n + 1 + r]
                                ELSE @[r]],
        !.stack = SubSeq(@, 1, Len(@) - n)]

\* A callee saves no argument register; its result lands in d.
Called(mc, d) ==
    [mc EXCEPT !.reg = [r \in Regs |-> IF r = d THEN Len(mc.term) + 1 ELSE 0],
               !.term = Append(@, [op |-> "call", l |-> 0, r |-> 0])]

\* Multiply the index in p + 1 by the element size and add it to p.
AddScaled(mc, p, scaled) ==
    Apply(IF scaled THEN Apply(Load(mc, p + 2), "op_mul", p + 1, p + 2) ELSE mc,
          "op_add", p, p + 1)

-----------------------------------------------------------------------------
(* Activations.                                                            *)

NoVariable == [is_pointer |-> 0, is_array |-> FALSE, wide |-> FALSE]

\* The elements that an index counts: of a nested pointer they are pointers,
\* otherwise of the declared type.
WideElement(v) == v.is_pointer > 1 \/ v.wide

\* One record for every kind of activation.  ops is op_stack; oprs and args
\* remember the operators and the values of the operands (or of the call
\* arguments) read so far; low and base are the registers and the height of
\* the stack of the machine mc the activation begins on; indexed says that
\* the last suffix of an lvalue was an index.
Frame(mc, fn, at, pn, neg) ==
    [fn |-> fn, at |-> at, pn |-> pn, neg |-> neg, ops |-> <<>>, oprs |-> <<>>,
     args |-> <<>>, low |-> mc.reg, base |-> Len(mc.stack),
     var |-> NoVariable, is_reference |-> TRUE, prefix |-> FALSE,
     indexed |-> FALSE]

Top == frames[Len(frames)]

Caller == frames[Len(frames) - 1]

Below(n) == SubSeq(frames, 1, Len(frames) - n)

\* Mutant: the second operand is read into the register of the first.
TargetAlwaysFirst(f) == f.pn

\* The register the operand being read is to be put in.
Target(f) ==
    IF f.fn = "lvalue" \/ f.at = "second" THEN f.pn + 1 ELSE f.pn

AllConstructs ==
    {"-", "name", "!", "(", "variable", "&", "++", "*", "call", "[", ".",
     "pointer +", "pointer call"}

\* Whether a construct may occur in the input, and fits the bounds.
Room(c, reg) ==
    /\ c \in Constructs
    /\ tokens < MaxTokens
    /\ Len(frames) + 2 <= MaxDepth
    /\ reg + 3 <= MaxReg

Signs == IF "-" \in Constructs THEN BOOLEAN ELSE {FALSE}

Consume == tokens' = tokens + 1

Negated(mc, neg, p) == IF neg THEN Unary(mc, "op_negate", p, p) ELSE mc

Machine0 ==
    [reg |-> [r \in Regs |-> r + 1], stack |-> <<>>,
     term |-> [i \in 1..(MaxReg + 1) |-> [op |-> "leaf", l |-> 0, r |-> 0]]]

Init ==
    /\ m = Machine0
    /\ \E pn \in StartRegs :
           frames = << Frame(Machine0, "expression", "first", pn, FALSE) >>
    /\ pc = "operand"
    /\ tokens = 0

-----------------------------------------------------------------------------
(* p_read_expression_operand.                                              *)

\* A number, character, string, sizeof or enumerator.  The sign of a number
\* is folded into it; an enumerator is negated by code.
OperandConstant ==
    /\ pc = "operand"
    /\ \E negate \in Signs :
           m' = Negated(Load(m, Target(Top)), negate, Target(Top))
    /\ pc' = "operand_done"
    /\ Consume
    /\ UNCHANGED frames

\* The name of a function that is not called: its address.
OperandFunctionName ==
    LET p == Target(Top) IN
    /\ pc = "operand"
    /\ "name" \in Constructs
    /\ \E neg \in Signs :
           m' = Negated(PopRegs(Load(PushRegs(m, p), p), p), neg, p)
    /\ pc' = "operand_done"
    /\ Consume
    /\ UNCHANGED frames

\* ! operand
OperandNot ==
    /\ pc = "operand"
    /\ Room("!", Target(Top))
    /\ frames' = Append(frames, Frame(m, "not", "operand", Target(Top), FALSE))
    /\ Consume
    /\ UNCHANGED <<pc, m>>

\* ( expression ), perhaps negated
OperandParen ==
    LET p == Target(Top) IN
    /\ pc = "operand"
    /\ Room("(", p)
    /\ \E neg \in Signs :
           frames' = frames \o << Frame(m, "paren", "expression", p, neg),
                                  Frame(m, "expression", "first", p, FALSE) >>
    /\ Consume
    /\ UNCHANGED <<pc, m>>

\* A variable, perhaps after -, ++ or --; after & only its address is taken.
OperandLvalue ==
    LET p == Target(Top) IN
    /\ pc = "operand"
    /\ Room("variable", p)
    /\ \E v \in Variables, at \in {"value", "address"},
          neg, prefix \in BOOLEAN :
           /\ neg => "-" \in Constructs /\ at = "value" /\ ~prefix
           /\ prefix => "++" \in Constructs /\ at = "value"
           /\ at = "address" => "&" \in Constructs
           /\ frames' = Append(frames,
                  [Frame(m, "lvalue", at, p, neg) EXCEPT
                      !.var = v, !.prefix = prefix, !.is_reference = ~v.is_array])
    /\ m' = Load(m, p)
    /\ pc' = "lvalue"
    /\ Consume

\* * variable: the star is peeked at and never accepted, so p_read_lvalue,
\* entered next, does not find the identifier it expects.
OperandStar ==
    /\ pc = "operand"
    /\ Room("*", Target(Top))
    /\ frames' = Append(frames, Frame(m, "lvalue", "deref", Target(Top), FALSE))
    /\ pc' = "error"
    /\ Consume
    /\ UNCHANGED m

\* name(...): preserve the registers in use and read the arguments
OperandCall ==
    LET p == Target(Top) IN
    /\ pc = "operand"
    /\ Room("call", p)
    /\ \E neg \in Signs :
           frames' = Append(frames, Frame(m, "call", "direct", p, neg))
    /\ m' = PushRegs(m, p)
    /\ pc' = "params"
    /\ Consume

\* The operand after ! is complete.
NotDone ==
    /\ pc = "operand_done"
    /\ Top.fn = "not"
    /\ m' = Unary(m, "op_not", Top.pn, Top.pn)
    /\ frames' = Below(1)
    /\ UNCHANGED <<pc, tokens>>

\* error(): an operand that is none of these, or a missing bracket
Reject ==
    /\ pc \in {"operand", "expr_done", "lvalue"}
    /\ pc = "expr_done" => Len(frames) > 1
    /\ pc' = "error"
    /\ UNCHANGED <<frames, m, tokens>>

-----------------------------------------------------------------------------
(* p_read_function_parameters, p_read_function_call, p_read_pointer_call.  *)

NextArgument ==
    LET n == Len(Top.args) IN
    /\ pc = "params"
    /\ n < MaxArgs
    /\ Len(frames) < MaxDepth
    /\ tokens < MaxTokens
    /\ n + 3 <= MaxReg
    /\ frames' = Append(frames, Frame(m, "expression", "first", n, FALSE))
    /\ pc' = "operand"
    /\ Consume
    /\ UNCHANGED m

\* Mutant: the address is popped into the first parameter register.
AddressIntoFirst(f) == IF f.at = "pointer" THEN Pop(m, 0) ELSE m

\* The machine on which the call instruction is executed: a pointer call has
\* popped the address into the last parameter register.
AtCall(f) == IF f.at = "pointer" THEN Pop(m, MAX_PARAMS - 1) ELSE m

\* The closing bracket: after the call the preserved registers come back.
EndCall ==
    LET f == Top IN
    /\ pc = "params"
    /\ m' = Negated(PopRegs(Called(AtCall(f), f.pn), f.pn), f.neg, f.pn)
    /\ frames' = Below(1)
    /\ pc' = "operand_done"
    /\ UNCHANGED tokens

-----------------------------------------------------------------------------
(* p_read_lvalue: the address of the variable is in pn.                    *)

\* [ : a pointer is read first, then the index is read into pn + 1.  An
\* index on anything but a pointer or an array is an error: see Reject.
StartIndex ==
    LET f == Top
        c == IF f.var.is_pointer > 0 THEN Unary(m, "op_read_addr", f.pn, f.pn) ELSE m
    IN
    /\ pc = "lvalue"
    /\ f.var.is_pointer > 0 \/ f.var.is_array
    /\ Room("[", f.pn + 1)
    /\ m' = c
    /\ frames' = Append(frames, Frame(c, "expression", "first", f.pn + 1, FALSE))
    /\ pc' = "operand"
    /\ Consume

\* . and -> : add the offset of the member
Member ==
    LET f == Top
        p == f.pn
    IN
    /\ pc = "lvalue"
    /\ Room(".", p)
    /\ \E v \in Variables, arrow \in BOOLEAN :
           LET c == IF arrow THEN Unary(m, "op_read_addr", p, p) ELSE m IN
           /\ m' = Apply(Load(c, p + 1), "op_add", p, p + 1)
           /\ frames' = Append(Below(1),
                 [f EXCEPT !.var = v, !.is_reference = ~v.is_array,
                           !.indexed = FALSE])
    /\ Consume
    /\ UNCHANGED pc

\* evaluate = 0: the address is the result
AddressOf ==
    /\ pc = "lvalue"
    /\ Top.at = "address"
    /\ frames' = Below(1)
    /\ pc' = "operand_done"
    /\ UNCHANGED <<m, tokens>>

\* + after a pointer or an array is taken here, with one operand, before
\* p_read_expression sees an operator; it counts in units of the declared type
\* (of which a nested pointer is not made, see WideElement)
PointerPlus ==
    LET f == Top IN
    /\ pc = "lvalue"
    /\ f.at # "address"
    /\ f.var.is_pointer > 0 \/ f.var.is_array
    /\ Room("pointer +", f.pn + 1)
    /\ m' = IF f.is_reference THEN Unary(m, "op_read_addr", f.pn, f.pn) ELSE m
    /\ pc' = "operand"
    /\ Consume
    /\ UNCHANGED frames

PointerPlusDone ==
    /\ pc = "operand_done"
    /\ Top.fn = "lvalue"
    /\ m' = AddScaled(m, Top.pn, Top.var.wide)
    /\ pc' = "lvalue_done"
    /\ UNCHANGED <<frames, tokens>>

\* prefix ++ and --: p + 1 := value, p + 2 := 1, add or subtract, store p + 1
\* (memory is not modelled: a store changes no register)
Prefixed(mc, p) ==
    Apply(Load(Unary(mc, "op_read_addr", p + 1, p), p + 2), "op_add", p + 1, p + 2)

\* Mutant: the old value is not popped.
PostfixedKept(mc, p) ==
    Apply(Load(Push(Unary(mc, "op_read_addr", p + 1, p), p + 1), p + 2),
          "op_add", p + 1, p + 2)

\* postfix ++ and --: the old value waits on the stack
Postfixed(mc, p) ==
    Pop(Apply(Load(Push(Unary(mc, "op_read_addr", p + 1, p), p + 1), p + 2),
              "op_add", p + 1, p + 2), p)

\* Read the value, unless an array stands for its address.
Evaluate ==
    LET f == Top
        p == f.pn
        c == IF f.prefix THEN Prefixed(m, p) ELSE m
    IN
    /\ pc = "lvalue"
    /\ f.at # "address"
    /\ \/ m' = IF f.is_reference THEN Unary(c, "op_read_addr", p, p) ELSE m
       \/ "++" \in Constructs /\ f.is_reference /\ m' = Postfixed(c, p)
    /\ pc' = "lvalue_done"
    /\ UNCHANGED <<frames, tokens>>

\* Back in p_read_expression_operand.
LvalueDone ==
    LET f == Top IN
    /\ pc = "lvalue_done"
    /\ m' = Negated(m, f.neg, f.pn)
    /\ frames' = Below(1)
    /\ pc' = "operand_done"
    /\ UNCHANGED tokens

\* ( after a variable: p_read_pointer_call keeps its value on the stack
PointerCall ==
    LET f == Top IN
    /\ pc = "lvalue_done"
    /\ Room("pointer call", f.pn)
    /\ m' = Push(PushRegs(m, f.pn), f.pn)
    /\ frames' = Append(Below(1), Frame(m, "call", "pointer", f.pn, f.neg))
    /\ pc' = "params"
    /\ Consume

-----------------------------------------------------------------------------
(* p_read_expression.                                                      *)

\* The operand just read, and the operator (if any) that follows it.
WithOperand(f) ==
    [f EXCEPT !.args = Append(@, m.reg[IF f.at = "second" THEN f.pn + 1 ELSE f.pn])]

Following(f, op, at) == [f EXCEPT !.oprs = Append(@, op), !.at = at]

More(op) ==
    /\ tokens < MaxTokens
    /\ \E tok \in OperatorTokens : op = p_get_operator(tok)

FirstOperand ==
    /\ pc = "operand_done"
    /\ Top.at = "first"
    /\ UNCHANGED m
    /\ \/ /\ frames' = Append(Below(1), [WithOperand(Top) EXCEPT !.at = "end"])
          /\ pc' = "expr_done"
          /\ UNCHANGED tokens
       \/ \E op \in BinaryOps :
          /\ More(op)
          /\ frames' = Append(Below(1), Following(WithOperand(Top), op, "second"))
          /\ pc' = "operand"
          /\ Consume

\* Two operands are applied at once; with more, both go on the stack.
SecondOperand ==
    LET f == WithOperand(Top)
        p == f.pn
    IN
    /\ pc = "operand_done"
    /\ Top.at = "second"
    /\ \/ /\ m' = Apply(m, f.oprs[1], p, p + 1)
          /\ frames' = Append(Below(1), [f EXCEPT !.at = "end"])
          /\ pc' = "expr_done"
          /\ UNCHANGED tokens
       \/ \E op \in BinaryOps :
          /\ More(op)
          /\ m' = Push(Push(m, p), p + 1)
          /\ frames' = Append(Below(1),
                 [Following(f, op, "climb") EXCEPT !.ops = <<f.oprs[1]>>])
          /\ pc' = "apply"
          /\ Consume

\* A further operand goes on the stack.
LaterOperand ==
    LET f == WithOperand(Top) IN
    /\ pc = "operand_done"
    /\ Top.at = "later"
    /\ m' = Push(m, f.pn)
    /\ pc' = "apply"
    /\ \/ /\ frames' = Append(Below(1), [f EXCEPT !.at = "unwind"])
          /\ UNCHANGED tokens
       \/ \E op \in BinaryOps :
          /\ More(op)
          /\ frames' = Append(Below(1), Following(f, op, "climb"))
          /\ Consume

\* Mutant: the operands are popped in the other order.
ApplyTopSwapped(f) ==
    Apply(Pop(Pop(m, f.pn), f.pn + 1), f.ops[Len(f.ops)], f.pn, f.pn + 1)

\* Pop two values and apply the operator on top of op_stack to them.
ApplyTop(f) ==
    Apply(Pop(Pop(m, f.pn + 1), f.pn), f.ops[Len(f.ops)], f.pn, f.pn + 1)

PopOp(f) == [f EXCEPT !.ops = SubSeq(@, 1, Len(@) - 1)]

\* Mutant: an operator of the same priority is not applied first.
AppliesOnlyHigher(f) ==
    /\ Len(f.ops) > 0
    /\ p_get_operator_priority(f.ops[Len(f.ops)])
         > p_get_operator_priority(f.oprs[Len(f.oprs)])

\* The comparison of the operator on op_stack with the one just read.
AppliesFirst(f) ==
    /\ Len(f.ops) > 0
    /\ p_get_operator_priority(f.ops[Len(f.ops)])
         >= p_get_operator_priority(f.oprs[Len(f.oprs)])

ApplyStacked ==
    LET f == Top IN
    /\ pc = "apply"
    /\ f.at = "climb"
    /\ AppliesFirst(f)
    /\ m' = Push(ApplyTop(f), f.pn)
    /\ frames' = Append(Below(1), PopOp(f))
    /\ UNCHANGED <<pc, tokens>>

\* Mutant: the operator is not stacked.
PushOperatorForgotten ==
    /\ pc = "apply"
    /\ Top.at = "climb"
    /\ ~AppliesFirst(Top)
    /\ frames' = Append(Below(1), [Top EXCEPT !.at = "later"])
    /\ pc' = "operand"
    /\ UNCHANGED <<m, tokens>>

PushOperator ==
    LET f == Top IN
    /\ pc = "apply"
    /\ f.at = "climb"
    /\ ~AppliesFirst(f)
    /\ frames' = Append(Below(1),
           [f EXCEPT !.ops = Append(@, f.oprs[Len(f.oprs)]), !.at = "later"])
    /\ pc' = "operand"
    /\ UNCHANGED <<m, tokens>>

\* Apply what is left; the last application ends the expression.
Unwind ==
    LET f == Top IN
    /\ pc = "apply"
    /\ f.at = "unwind"
    /\ Len(f.ops) > 0
    /\ IF Len(f.ops) = 1
       THEN /\ m' = ApplyTop(f)
            /\ frames' = Append(Below(1), [PopOp(f) EXCEPT !.at = "end"])
            /\ pc' = "expr_done"
       ELSE /\ m' = Push(ApplyTop(f), f.pn)
            /\ frames' = Append(Below(1), PopOp(f))
            /\ UNCHANGED pc
    /\ UNCHANGED tokens

\* Mutant: the bracket stays open.
ReturnToParenLeft ==
    /\ pc = "expr_done"
    /\ Len(frames) > 1
    /\ Caller.fn = "paren"
    /\ m' = Negated(m, Caller.neg, Caller.pn)
    /\ frames' = Below(1)
    /\ pc' = "operand_done"
    /\ UNCHANGED tokens

\* p_read_expression returns: to a bracket, an argument list or an index.
ReturnToParen ==
    /\ pc = "expr_done"
    /\ Len(frames) > 1
    /\ Caller.fn = "paren"
    /\ m' = Negated(m, Caller.neg, Caller.pn)
    /\ frames' = Below(2)
    /\ pc' = "operand_done"
    /\ UNCHANGED tokens

ReturnToCall ==
    /\ pc = "expr_done"
    /\ Len(frames) > 1
    /\ Caller.fn = "call"
    /\ frames' = Append(Below(2), [Caller EXCEPT !.args = Append(@, m.reg[Top.pn])])
    /\ pc' = "params"
    /\ UNCHANGED <<m, tokens>>

ReturnToIndex ==
    /\ pc = "expr_done"
    /\ Len(frames) > 1
    /\ Caller.fn = "lvalue"
    /\ m' = AddScaled(m, Caller.pn, WideElement(Caller.var))
    /\ frames' = Append(Below(2), [Caller EXCEPT !.is_reference = TRUE, !.indexed = TRUE])
    /\ pc' = "lvalue"
    /\ UNCHANGED tokens

\* The statement-level call has returned, or error() has exited.
Terminating ==
    /\ \/ pc = "error"
       \/ pc = "expr_done" /\ Len(frames) = 1
    /\ UNCHANGED vars

Operand ==
    \/ OperandConstant \/ OperandFunctionName \/ OperandNot \/ OperandParen
    \/ OperandLvalue \/ OperandStar \/ OperandCall \/ NotDone \/ Reject

Call == NextArgument \/ EndCall \/ PointerCall

Lvalue ==
    \/ StartIndex \/ Member \/ AddressOf \/ PointerPlus \/ PointerPlusDone
    \/ Evaluate \/ LvalueDone

Expr ==
    \/ FirstOperand \/ SecondOperand \/ LaterOperand
    \/ ApplyStacked \/ PushOperator \/ Unwind
    \/ ReturnToParen \/ ReturnToCall \/ ReturnToIndex

Next == Operand \/ Call \/ Lvalue \/ Expr \/ Terminating

Spec == Init /\ [][Next]_vars

-----------------------------------------------------------------------------
(* Properties.                                                             *)

Points ==
    {"operand", "operand_done", "expr_done", "apply", "params", "lvalue",
     "lvalue_done", "error"}

Functions == {"expression", "not", "paren", "call", "lvalue"}

\* What an activation may be doing.
Ats(fn) ==
    CASE fn = "expression" ->
             {"first", "second", "later", "climb", "unwind", "end"}
      [] fn = "not" -> {"operand"}
      [] fn = "paren" -> {"expression"}
      [] fn = "call" -> {"direct", "pointer"}
      [] fn = "lvalue" -> {"value", "address", "deref"}

\* Activations that wait for an operand, and those that wait for an expression.
AwaitsOperand(f) == f.at \in {"first", "second", "later", "operand", "value"}
AwaitsExpression(f) == f.fn \in {"paren", "call", "lvalue"} /\ f.at # "deref"

VariableKinds ==
    [is_pointer : Nat, is_array : BOOLEAN, wide : BOOLEAN]

FrameType ==
    [fn : Functions, at : UNION {Ats(fn) : fn \in Functions}, pn : Regs, neg : BOOLEAN,
     ops : Seq(BinaryOps), oprs : Seq(BinaryOps), args : Seq(Nat),
     low : [Regs -> Nat], base : Nat, var : VariableKinds,
     is_reference : BOOLEAN, prefix : BOOLEAN, indexed : BOOLEAN]

TermOps ==
    BinaryOps \cup {"leaf", "call", "op_read_addr", "op_not", "op_negate"}

Term == [op : TermOps, l : Nat, r : Nat]

Machine == [reg : [Regs -> Nat], stack : Seq(Nat), term : Seq(Term)]

FrameOK(f) ==
    /\ f.at \in Ats(f.fn)
    /\ f.pn + 3 <= MaxReg
    /\ f.at \in {"second", "climb"} => Len(f.oprs) > 0

\* f may have called g.
Calls(f, g) ==
    IF g.fn = "expression" THEN AwaitsExpression(f) ELSE AwaitsOperand(f)

\* An activation that point p may be in.
AtPoint(p, f) ==
    CASE p \in {"operand", "operand_done"} -> AwaitsOperand(f)
      [] p = "expr_done" -> f.at = "end"
      [] p = "apply" -> f.at \in {"climb", "unwind"}
      [] p = "params" -> f.fn = "call"
      [] p \in {"lvalue", "lvalue_done"} -> f.at \in {"value", "address"}
      [] p = "error" -> TRUE

\* Type invariant: the activations are those of parser.c, each called by one
\* that waits for it, and the outermost is the statement's expression.
TypeOK ==
    /\ pc \in Points
    /\ tokens \in Nat
    /\ m \in Machine
    /\ frames \in Seq(FrameType)
    /\ Len(frames) > 0
    /\ frames[1].fn = "expression"
    /\ \A i \in 1..Len(frames) : FrameOK(frames[i])
    /\ \A i \in 1..(Len(frames) - 1) : Calls(frames[i], frames[i + 1])
    /\ AtPoint(pc, Top)

\* The operators on op_stack rise in priority from the bottom to the top.
Ordered(ops) ==
    /\ \A j \in 1..(Len(ops) - 1) :
           p_get_operator_priority(ops[j]) < p_get_operator_priority(ops[j + 1])
    /\ \A j \in 1..Len(ops) : p_get_operator_priority(ops[j]) >= j - 1

\* op_stack, an array of 10 operators that p_read_expression never checks
\* against its end: however long the expression, it holds at most one operator
\* of each of the four priorities.
OpStackOrdered ==
    \A i \in 1..Len(frames) :
        Ordered(frames[i].ops) /\ Len(frames[i].ops) <= 4

\* The error at the end of p_read_expression is never reached: the unwinding
\* loop is entered with an operator and leaves through its return.
NoUnexpectedEnd ==
    \A i \in 1..Len(frames) :
        frames[i].at \in {"later", "unwind"} => Len(frames[i].ops) > 0

\* Words the code of an activation has pushed and not yet popped.
Held(f) ==
    CASE f.at \in {"climb", "unwind"} -> Len(f.ops) + 1
      [] f.at = "later" -> Len(f.ops)
      [] f.at = "direct" -> f.pn
      [] f.at = "pointer" -> f.pn + 1
      [] OTHER -> 0

\* Every push of an operand, a saved register or a call address is matched by
\* one pop: each activation starts where its caller's words end, and so never
\* pops a word of its caller, and an expression leaves the stack as it found
\* it.
StackBalanced ==
    /\ frames[1].base = 0
    /\ \A i \in 1..(Len(frames) - 1) :
           frames[i + 1].base = frames[i].base + Held(frames[i])
    /\ Len(m.stack) = Top.base + Held(Top)

\* Code for an operand or an expression that is to leave its value in
\* register pn keeps the registers below pn, which hold partial results of
\* the enclosing expressions, whatever calls it makes.
RegistersPreserved ==
    pc = "expr_done" =>
        \A r \in Regs : r < Top.pn => m.reg[r] = Top.low[r]

\* The first operand is still in its register when the second has been read:
\* nothing an operand contains overwrites it.
FirstOperandSurvives ==
    pc = "operand_done" /\ Top.at = "second" => m.reg[Top.pn] = Top.args[1]

\* Of the operators H of oprs, h is the one that is applied last: of those of
\* the lowest priority the rightmost.
AppliedLast(oprs, H, h) ==
    /\ h \in H
    /\ \A g \in H :
           \/ p_get_operator_priority(oprs[h]) < p_get_operator_priority(oprs[g])
           \/ /\ p_get_operator_priority(oprs[h]) = p_get_operator_priority(oprs[g])
              /\ g <= h

\* The operators from i on that belong to the left operand of operator j, and
\* those up to k that belong to its right operand.
LeftOperand(oprs, i, j) ==
    {h \in i..(j - 1) : \A g \in h..(j - 1) :
        p_get_operator_priority(oprs[g]) >= p_get_operator_priority(oprs[j])}

RightOperand(oprs, j, k) ==
    {h \in (j + 1)..k : \A g \in (j + 1)..h :
        p_get_operator_priority(oprs[g]) > p_get_operator_priority(oprs[j])}

\* v is the value of an operand: what the operator of H that is applied last
\* computes, or, if there is none, operand n.
IsOperand(args, oprs, node, H, n, v) ==
    IF H = {} THEN v = args[n]
    ELSE \E h \in H : AppliedLast(oprs, H, h) /\ v = node[h]

\* v is the value of operators i..k and the operands around them, in the tree
\* that the priorities describe, with node[j] as the term of operator j.
Computes(args, oprs, term, node, i, k, v) ==
    /\ IsOperand(args, oprs, node, i..k, i, v)
    /\ \A j \in i..k :
           /\ term[node[j]].op = oprs[j]
           /\ IsOperand(args, oprs, node, LeftOperand(oprs, i, j), j, term[node[j]].l)
           /\ IsOperand(args, oprs, node, RightOperand(oprs, j, k), j + 1, term[node[j]].r)

\* The code of an expression computes the tree that the operator priorities
\* describe over its operands, those that p_read_expression_operand reads:
\* operators of higher priority bind tighter, equal ones group to the left, and
\* every operand is used exactly once and in order.  A + after a pointer or an
\* array is not among these operators: p_read_lvalue (parser.c:703) takes it
\* into the operand, with the one operand behind it, so that it binds tighter
\* than any of them, whatever its priority; see ProductsBeforeSums in
\* MCExpression.
GroupsByPriority ==
    pc = "expr_done" =>
        LET n == Len(Top.oprs) IN
        /\ Len(Top.args) = n + 1
        /\ \E node \in [1..n -> {v \in 1..Len(m.term) : m.term[v].op \in BinaryOps}] :
               Computes(Top.args, Top.oprs, m.term, node, 1, n, m.reg[Top.pn])

\* On the machine that executes the call instruction argument k is in register
\* k - 1, the caller's registers lie on the stack in order, and a pointer call
\* jumps to the value the variable held.  Of a pointer call only the arguments
\* before number MAX_PARAMS are promised: the address takes the register of
\* that one (parser.c:261).
ArgumentsInPlace ==
    pc = "params" =>
        LET c == AtCall(Top) IN
        /\ \A k \in 1..Len(Top.args) :
               (Top.at = "pointer" => k < MAX_PARAMS) => c.reg[k - 1] = Top.args[k]
        /\ \A r \in Regs : r < Top.pn => c.stack[Top.base + 1 + r] = Top.low[r]
        /\ Top.at = "pointer" => c.reg[MAX_PARAMS - 1] = Top.low[Top.pn]
=============================================================================
