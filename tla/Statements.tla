---------------------------- MODULE Statements ----------------------------
(***************************************************************************)
(* The statement parser of parser.c: p_read_body_statement, code blocks    *)
(* and function bodies, as a recursive descent with an explicit stack of   *)
(* activations.  It appends labels and jumps to the intermediate code and  *)
(* patches the jumps whose target was not known when they were added.      *)
(*                                                                         *)
(* The code of an expression, an assignment or a call has no jumps and     *)
(* leaves the stack as it found it (module Expression): each is a single   *)
(* instruction here, "condition" for an expression in a0, "selector" for   *)
(* the expression of a switch in a1, "statement" for anything that changes *)
(* both.  Indices into the code start at 0, as in _il.                     *)
(***************************************************************************)
EXTENDS Integers, Sequences, FiniteSets

CONSTANTS
    Kinds,         \* kinds of statement the input may hold
    CaseValues,    \* values of case labels
    Supported,     \* whether the input keeps to what the parser handles: each
                   \* break belongs to a switch, no loop between, and the
                   \* last case of a switch ends with a break or a return
    MaxStatements, \* bound: statements and case labels of the input
    MaxDepth,      \* bound: nested activations
    MaxFunctions   \* bound: functions of the input

ASSUME BoundsAssumption ==
    /\ MaxStatements \in Nat /\ MaxDepth \in Nat /\ MaxFunctions \in Nat
    /\ CaseValues \subseteq Nat
    /\ Supported \in BOOLEAN

VARIABLES
    pc,         \* what the parser is about to do
    frames,     \* activations of the function being read, outermost first
    il,         \* _il: the code so far
    blocks,     \* _blocks, but for the global block, which is number 0
    breaks,     \* _p_break_exit_il_idxs, up to _p_break_level
    functions,  \* the entry and exit points of _functions
    source      \* the input consumed so far

vars == <<pc, frames, il, blocks, breaks, functions, source>>

AllKinds ==
    {"block", "return", "if", "while", "switch", "break", "for", "do", "asm",
     "empty", "declaration", "statement"}

-----------------------------------------------------------------------------
(* The code.                                                               *)

\* The argument of a jump that is not patched yet, and of one that took an
\* index from outside _p_break_exit_il_idxs.
Unset == -1
Stray == -2

Instr(op, arg) == [op |-> op, arg |-> arg]

\* An instruction whose argument nobody reads.
Plain(op) == Instr(op, 0)

Here == Len(il)

Patch(code, i, target) == [code EXCEPT ![i + 1].arg = target]

\* p_initialize: the entry of the program, and __syscall.
Prologue ==
    << Plain("op_label"), Plain("op_start"), Plain("op_function_call"),
       Plain("op_label"), Plain("op_exit"),
       Plain("op_entry_point"), Plain("op_syscall"), Plain("op_exit_point") >>

\* Mutant: the default of a switch is forgotten.
TestsWithoutDefault(cases, default) ==
    [k \in 1..(3 * Len(cases)) |->
        LET c == cases[(k + 2) \div 3] IN
        CASE k % 3 = 1 -> Instr("op_load_numeric_constant", c.value)
          [] k % 3 = 2 -> Plain("op_equals")
          [] k % 3 = 0 -> Instr("op_jnz", c.label)]

\* The tests of a switch, three instructions for each case, and the jump to
\* its default; default_il_idx is 0 when there is none.
Tests(cases, default) ==
    [k \in 1..(3 * Len(cases)) |->
        LET c == cases[(k + 2) \div 3] IN
        CASE k % 3 = 1 -> Instr("op_load_numeric_constant", c.value)
          [] k % 3 = 2 -> Plain("op_equals")
          [] k % 3 = 0 -> Instr("op_jnz", c.label)]
    \o IF default # 0 THEN << Instr("op_jump", default) >> ELSE << >>

-----------------------------------------------------------------------------
(* Activations and input.                                                  *)

\* pending are the jumps the activation is still to patch, start is the label
\* a loop jumps back to, cases and default are those of a switch.
Frame(fn, block, pending, start) ==
    [fn |-> fn, block |-> block, pending |-> pending, start |-> start,
     cases |-> << >>, default |-> 0]

Top == frames[Len(frames)]

Below == SubSeq(frames, 1, Len(frames) - 1)

Token(kind, at, parts) == [kind |-> kind, at |-> at, parts |-> parts]

\* Tokens that close or complete a statement, which no bound may keep away.
Closing == {"}", "else", "do while", ";"}

Statements == {i \in 1..Len(source) : source[i].kind \notin Closing}

Consume(kind, at, parts) == source' = Append(source, Token(kind, at, parts))

InSwitch(f) == f.cases # << >> \/ f.default # 0

\* p_read_body_statement is called and meets a statement of this kind.
Reads(kind) ==
    /\ kind \in Kinds
    /\ Cardinality(Statements) < MaxStatements
    /\ \/ pc = "statement" /\ (Top.fn = "switch" => InSwitch(Top))
       \/ pc \in {"returned", "returned, no else"} /\ Top.fn \in {"block", "switch"}

\* The call that read a break goes on reading, and may meet one of these.
ReadsOn(kind) ==
    \/ Reads(kind)
    \/ /\ pc = "after break"
       /\ kind \in Kinds
       /\ Cardinality(Statements) < MaxStatements

\* Call p_read_body_statement for the body of the statement begun.
Enter(f) ==
    /\ Len(frames) < MaxDepth
    /\ frames' = Append(frames, f)
    /\ pc' = "statement"

Init ==
    /\ pc = "global"
    /\ frames = << >>
    /\ il = Prologue
    /\ blocks = << >>
    /\ breaks = << >>
    /\ functions = << [entry |-> 5, exit |-> 7] >>
    /\ source = << >>

-----------------------------------------------------------------------------
(* Functions and blocks.                                                   *)

\* The definition of a function, up to the { of its body.
StartFunction ==
    /\ pc = "global"
    /\ Len(functions) <= MaxFunctions
    /\ Cardinality(Statements) < MaxStatements
    /\ blocks' = Append(blocks, [parent |-> 0, next_local |-> 0])
    /\ il' = il \o << Plain("op_entry_point"),
                      Instr("op_block_start", Len(blocks) + 1) >>
    /\ functions' = Append(functions, [entry |-> Here, exit |-> Unset])
    /\ frames' = << Frame("function", 0, << >>, 0),
                    Frame("block", Len(blocks) + 1, << >>, 0) >>
    /\ pc' = "statement"
    /\ Consume("{", 0, {})
    /\ UNCHANGED breaks

\* The body is complete: the exit point, where op_return jumps to.
EndFunction ==
    /\ pc \in {"returned", "returned, no else"}
    /\ Top.fn = "function"
    /\ il' = Append(il, Plain("op_exit_point"))
    /\ functions' = [functions EXCEPT ![Len(functions)].exit = Here]
    /\ frames' = << >>
    /\ pc' = "global"
    /\ UNCHANGED <<blocks, breaks, source>>

\* { : a block inside the current one
StartBlock ==
    /\ Reads("block")
    /\ Enter(Frame("block", Len(blocks) + 1, << >>, 0))
    /\ blocks' = Append(blocks, [parent |-> Top.block, next_local |-> 0])
    /\ il' = Append(il, Instr("op_block_start", Len(blocks) + 1))
    /\ Consume("{", 0, {})
    /\ UNCHANGED <<breaks, functions>>

\* Mutant: the end of a block names the block around it.
EndBlockOuter ==
    /\ pc \in {"statement", "returned", "returned, no else"}
    /\ Top.fn = "block"
    /\ il' = Append(il, Instr("op_block_end", blocks[Top.block].parent))
    /\ frames' = Below
    /\ pc' = "returned"
    /\ Consume("}", 0, {})
    /\ UNCHANGED <<blocks, breaks, functions>>

\* The } of a block.
EndBlock ==
    /\ pc \in {"statement", "returned", "returned, no else"}
    /\ Top.fn = "block"
    /\ il' = Append(il, Instr("op_block_end", Top.block))
    /\ frames' = Below
    /\ pc' = "returned"
    /\ Consume("}", 0, {})
    /\ UNCHANGED <<blocks, breaks, functions>>

\* A declaration, perhaps with an initial value.
Declaration ==
    /\ ReadsOn("declaration")
    /\ blocks' = [blocks EXCEPT ![Top.block].next_local = @ + 1]
    /\ \E parts \in SUBSET {"value"} :
           /\ il' = IF parts = {} THEN il ELSE Append(il, Plain("statement"))
           /\ Consume("declaration", Here, parts)
    /\ pc' = "returned"
    /\ UNCHANGED <<frames, breaks, functions>>

-----------------------------------------------------------------------------
(* Statements without a body.                                              *)

\* return, with a value or without: a jump to the exit point.
ReturnStatement ==
    /\ Reads("return")
    /\ \E parts \in SUBSET {"value"} :
           /\ il' = (IF parts = {} THEN il ELSE Append(il, Plain("statement")))
                        \o << Instr("op_return", Len(functions)) >>
           /\ Consume("return", Here, parts)
    /\ pc' = "returned"
    /\ UNCHANGED <<frames, blocks, breaks, functions>>

\* A call or an assignment, and asm(): straight code.
Simple ==
    /\ \/ ReadsOn("statement") /\ Consume("statement", Here, {"value"})
                               /\ il' = Append(il, Plain("statement"))
       \/ ReadsOn("asm") /\ Consume("asm", Here, {"value"})
                         /\ il' = Append(il, Plain("op_generic"))
    /\ pc' = "returned"
    /\ UNCHANGED <<frames, blocks, breaks, functions>>

Empty ==
    /\ ReadsOn("empty")
    /\ Consume("empty", 0, {})
    /\ pc' = "returned"
    /\ UNCHANGED <<frames, il, blocks, breaks, functions>>

\* A break needs something to leave; the parser handles those of a switch.
Loops == {"while", "for", "do"}

BreakAllowed ==
    \E i \in 1..Len(frames) :
        /\ frames[i].fn \in {"switch"} \cup IF Supported THEN {} ELSE Loops
        /\ \A j \in (i + 1)..Len(frames) : frames[j].fn \notin Loops

\* break: the jump is added and the function goes on reading.
Break ==
    /\ Reads("break")
    /\ BreakAllowed
    /\ il' = Append(il, Instr("op_jump",
                 IF breaks = << >> THEN Stray ELSE breaks[Len(breaks)]))
    /\ pc' = "after break"
    /\ Consume("break", 0, {})
    /\ UNCHANGED <<frames, blocks, breaks, functions>>

\* The ; that follows it is an empty statement.
AfterBreak ==
    /\ pc = "after break"
    /\ pc' = "returned"
    /\ Consume(";", 0, {})
    /\ UNCHANGED <<frames, il, blocks, breaks, functions>>

-----------------------------------------------------------------------------
(* if, while, do and for.                                                  *)

\* Mutant: the jump to patch is taken to be the instruction behind it.
IfOffByOne ==
    /\ Reads("if")
    /\ Enter(Frame("if", Top.block, << Here + 2 >>, 0))
    /\ il' = il \o << Plain("condition"), Instr("op_jz", Unset) >>
    /\ Consume("if", Here, {})
    /\ UNCHANGED <<blocks, breaks, functions>>

\* if, up to its body: the jump over the body is still to patch.
If ==
    /\ Reads("if")
    /\ Enter(Frame("if", Top.block, << Here + 1 >>, 0))
    /\ il' = il \o << Plain("condition"), Instr("op_jz", Unset) >>
    /\ Consume("if", Here, {})
    /\ UNCHANGED <<blocks, breaks, functions>>

\* The true branch is complete and else follows.
Else ==
    /\ pc = "returned"
    /\ Top.fn = "if"
    /\ il' = Patch(il \o << Instr("op_jump", Unset), Plain("op_label") >>,
                   Top.pending[1], Here + 1)
    /\ frames' = Append(Below, Frame("else", Top.block, << Here >>, 0))
    /\ pc' = "statement"
    /\ Consume("else", 0, {})
    /\ UNCHANGED <<blocks, breaks, functions>>

\* Mutant: the pending jump leads to the last instruction, not to a label.
EndIfUnlabelled ==
    /\ pc \in {"returned", "returned, no else"}
    /\ Top.fn \in {"if", "else"}
    /\ il' = Patch(il, Top.pending[1], Here - 1)
    /\ frames' = Below
    /\ pc' = IF Top.fn = "if" THEN "returned, no else" ELSE pc
    /\ UNCHANGED <<blocks, breaks, functions, source>>

\* if without else, or the end of else: the pending jump leads here.
EndIf ==
    /\ pc \in {"returned", "returned, no else"}
    /\ Top.fn \in {"if", "else"}
    /\ il' = Patch(Append(il, Plain("op_label")), Top.pending[1], Here)
    /\ frames' = Below
    /\ pc' = IF Top.fn = "if" THEN "returned, no else" ELSE pc
    /\ UNCHANGED <<blocks, breaks, functions, source>>

\* while, up to its body: its start is the label before the condition.
While ==
    /\ Reads("while")
    /\ Enter(Frame("while", Top.block, << Here + 2 >>, Here))
    /\ il' = il \o << Plain("op_label"), Plain("condition"), Instr("op_jz", Unset) >>
    /\ Consume("while", Here + 1, {})
    /\ UNCHANGED <<blocks, breaks, functions>>

\* for; each of its three parts may be missing
For ==
    /\ ReadsOn("for")
    /\ \E parts \in SUBSET {"setup", "condition", "increment"} :
       LET setup == IF "setup" \in parts THEN << Plain("statement") >> ELSE << >>
           step == IF "increment" \in parts THEN << Plain("statement") >> ELSE << >>
           at == Here + Len(setup)         \* condition_start
           body == at + 6 + Len(step)      \* body_start
       IN
       /\ il' = il \o setup
                \o << Plain("op_label"),
                      IF "condition" \in parts THEN Plain("condition")
                      ELSE Instr("op_load_numeric_constant", 1),
                      Instr("op_jz", Unset), Instr("op_jump", body),
                      Plain("op_label") >>
                \o step \o << Instr("op_jump", at), Plain("op_label") >>
       /\ Enter(Frame("for", Top.block, << at + 2 >>, at + 4))
       /\ Consume("for", at, parts)
    /\ UNCHANGED <<blocks, breaks, functions>>

\* Mutant: the jump out of the loop is never patched.
EndLoopUnpatched ==
    /\ pc \in {"returned", "returned, no else"}
    /\ Top.fn \in {"while", "for"}
    /\ il' = il \o << Instr("op_jump", Top.start), Plain("op_label") >>
    /\ frames' = Below
    /\ UNCHANGED <<pc, blocks, breaks, functions, source>>

\* The body of a while or a for is complete.
EndLoop ==
    /\ pc \in {"returned", "returned, no else"}
    /\ Top.fn \in {"while", "for"}
    /\ il' = Patch(il \o << Instr("op_jump", Top.start), Plain("op_label") >>,
                   Top.pending[1], Here + 1)
    /\ frames' = Below
    /\ UNCHANGED <<pc, blocks, breaks, functions, source>>

\* do: its start is the label before the body.
Do ==
    /\ ReadsOn("do")
    /\ Enter(Frame("do", Top.block, << >>, Here))
    /\ il' = Append(il, Plain("op_label"))
    /\ Consume("do", 0, {})
    /\ UNCHANGED <<blocks, breaks, functions>>

\* The body is followed by the condition, which jumps back.
EndDo ==
    /\ pc \in {"returned", "returned, no else"}
    /\ Top.fn = "do"
    /\ il' = il \o << Plain("condition"), Instr("op_jnz", Top.start) >>
    /\ frames' = Below
    /\ pc' = "returned"
    /\ Consume("do while", Here, {})
    /\ UNCHANGED <<blocks, breaks, functions>>

-----------------------------------------------------------------------------
(* switch                                                                  *)

\* The two pending jumps are jump_to_check and switch_exit; a break jumps to
\* the second.
Switch ==
    /\ Reads("switch")
    /\ Enter(Frame("switch", Top.block, << Here + 1, Here + 2 >>, 0))
    /\ il' = il \o << Plain("selector"), Instr("op_jump", Unset),
                      Instr("op_jump", Unset) >>
    /\ breaks' = Append(breaks, Here + 2)
    /\ Consume("switch", Here, {})
    /\ UNCHANGED <<blocks, functions>>

\* case or default: a label.  A value or a default that is repeated is no C.
CaseLabel ==
    /\ pc \in {"statement", "returned", "returned, no else"}
    /\ Top.fn = "switch"
    /\ Cardinality(Statements) < MaxStatements
    /\ \/ \E v \in CaseValues :
          /\ \A k \in 1..Len(Top.cases) : Top.cases[k].value # v
          /\ frames' = Append(Below,
                [Top EXCEPT !.cases = Append(@, [value |-> v, label |-> Here])])
          /\ Consume("case", v, {})
       \/ /\ Top.default = 0
          /\ frames' = Append(Below, [Top EXCEPT !.default = Here])
          /\ Consume("default", 0, {})
    /\ il' = Append(il, Plain("op_label"))
    /\ pc' = "statement"
    /\ UNCHANGED <<blocks, breaks, functions>>

\* The last case ends, as the parser's comment asks, with a jump; the jump of
\* an if or a loop would be followed by its label.
EndsWithJump == il[Len(il)].op \in {"op_jump", "op_return"}

\* The } of a switch: the tests, and the label its breaks lead to.
EndSwitch ==
    LET check == Here
        tests == Tests(Top.cases, Top.default)
        exit == Here + 1 + Len(tests)
        code == << Plain("op_label") >> \o tests \o << Plain("op_label") >>
    IN
    /\ pc \in {"statement", "returned", "returned, no else"}
    /\ Top.fn = "switch"
    /\ Supported => EndsWithJump
    /\ il' = Patch(Patch(il \o code, Top.pending[1], check), Top.pending[2], exit)
    /\ breaks' = SubSeq(breaks, 1, Len(breaks) - 1)
    /\ frames' = Below
    /\ pc' = "returned"
    /\ Consume("}", 0, {})
    /\ UNCHANGED <<blocks, functions>>

-----------------------------------------------------------------------------
\* error(): a token that cannot begin a statement, or an l_expect that fails
Reject ==
    /\ \/ pc \in {"global", "statement", "after break"}
       \/ /\ pc \in {"returned", "returned, no else"}
          /\ Top.fn \in {"block", "switch", "do"}
    /\ pc' = "error"
    /\ UNCHANGED <<frames, il, blocks, breaks, functions, source>>

\* t_eof
Finish ==
    /\ pc = "global"
    /\ pc' = "done"
    /\ UNCHANGED <<frames, il, blocks, breaks, functions, source>>

Terminating == pc \in {"done", "error"} /\ UNCHANGED vars

Next ==
    \/ StartFunction \/ EndFunction \/ StartBlock \/ EndBlock \/ Declaration
    \/ ReturnStatement \/ Simple \/ Empty \/ Break \/ AfterBreak
    \/ If \/ Else \/ EndIf \/ While \/ For \/ EndLoop \/ Do \/ EndDo
    \/ Switch \/ CaseLabel \/ EndSwitch
    \/ Reject \/ Finish \/ Terminating

Spec == Init /\ [][Next]_vars

-----------------------------------------------------------------------------
(* Properties.                                                             *)

Ops ==
    {"op_label", "op_start", "op_function_call", "op_exit", "op_entry_point",
     "op_syscall", "op_exit_point", "op_block_start", "op_block_end",
     "op_return", "op_generic", "op_jump", "op_jz", "op_jnz", "op_equals",
     "op_load_numeric_constant", "statement", "condition", "selector"}

Indices == 0..(Len(il) - 1)

\* The state is well formed: il_index values that live activations and
\* functions hold are indices of the code, and a block's parent was made
\* before the block.
TypeOK ==
    /\ pc \in {"global", "statement", "returned", "returned, no else",
                "after break", "error", "done"}
    /\ \A k \in 1..Len(frames) :
        /\ frames[k].fn \in {"function", "block", "if", "else", "while", "for",
                             "do", "switch"}
        /\ frames[k].block \in 0..Len(blocks)
        /\ \A n \in 1..Len(frames[k].pending) : frames[k].pending[n] \in Indices
        /\ {frames[k].start, frames[k].default} \subseteq Indices
        /\ \A n \in 1..Len(frames[k].cases) :
            /\ frames[k].cases[n].value \in CaseValues
            /\ frames[k].cases[n].label \in Indices
    /\ \A i \in Indices : il[i + 1] \in [op : Ops, arg : Int]
    /\ \A b \in 1..Len(blocks) :
        blocks[b].parent \in 0..(b - 1) /\ blocks[b].next_local \in Nat
    /\ \A n \in 1..Len(breaks) : breaks[n] \in Indices
    /\ \A f \in 1..Len(functions) :
        functions[f].entry \in Indices /\ functions[f].exit \in Indices \cup {Unset}
    /\ \A n \in 1..Len(source) : source[n].parts \subseteq
           {"value", "setup", "condition", "increment"}

JumpOps == {"op_jump", "op_jz", "op_jnz"}

JumpsAt(i) == il[i + 1].op \in JumpOps

\* The function whose code holds instruction i.
Within(f, i) ==
    /\ functions[f].entry <= i
    /\ functions[f].exit = Unset \/ i < functions[f].exit

\* Every jump either leads to a label of its own function, a break by way of
\* the exit jump of its switch, or is one that a live activation is still to
\* patch; and no activation, once it is gone, has left a jump unpatched.
JumpsResolved ==
    /\ \A i \in Indices :
        JumpsAt(i) /\ il[i + 1].arg # Unset =>
            LET t == il[i + 1].arg IN
            /\ t \in Indices
            /\ \/ il[t + 1].op = "op_label"
               \/ \E k \in 1..Len(frames) :
                      frames[k].fn = "switch" /\ frames[k].pending[2] = t
               \/ il[t + 1].op = "op_jump" /\ il[il[t + 1].arg + 1].op = "op_label"
            /\ \E f \in 1..Len(functions) : Within(f, i) /\ Within(f, t)
    /\ {i \in Indices : JumpsAt(i) /\ il[i + 1].arg = Unset}
         = UNION {{frames[k].pending[n] : n \in 1..Len(frames[k].pending)} :
                      k \in 1..Len(frames)}

\* The blocks instruction i lies in: started before it and not ended between.
Enclosing(i) ==
    {b \in 1..Len(blocks) :
        \E j \in 0..(i - 1) :
            /\ il[j + 1] = Instr("op_block_start", b)
            /\ \A k \in j..(i - 1) : il[k + 1] # Instr("op_block_end", b)}

Innermost(i) ==
    LET bs == Enclosing(i) IN
    IF bs = {} THEN 0 ELSE CHOOSE b \in bs : \A c \in bs : c <= b

\* The code generator walks the code from end to end and keeps the block it
\* is in; whatever was read in a block is generated in that block, so names
\* are looked up where they were declared.
BlocksNest ==
    /\ frames # << >> => Innermost(Len(il)) = Top.block
    /\ \A i \in Indices :
        /\ il[i + 1].op = "op_block_start" =>
               Innermost(i) = blocks[il[i + 1].arg].parent
        /\ il[i + 1].op = "op_block_end" => Innermost(i) = il[i + 1].arg

\* No jump leads into a block from outside it: the locals of a block are on
\* the stack whenever its code runs.
JumpsNeverEnterBlock ==
    \A i \in Indices :
        JumpsAt(i) /\ il[i + 1].arg \in Indices =>
            Enclosing(il[i + 1].arg) \subseteq Enclosing(i)

\* Neither a condition nor a loop takes a jump that leaves a block with its
\* locals on the stack: the stack does not grow with the rounds of a loop,
\* and only the break of a switch, which jumps ahead, may leave some behind.
OnlyBreaksLeaveLocals ==
    \A i \in Indices :
        JumpsAt(i) /\ il[i + 1].arg \in Indices =>
            \/ \A b \in Enclosing(i) \ Enclosing(il[i + 1].arg) : blocks[b].next_local = 0
            \/ il[i + 1].op = "op_jump" /\ il[il[i + 1].arg + 1].op = "op_jump"
=============================================================================
