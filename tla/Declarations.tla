---------------------------- MODULE Declarations ----------------------------
(***************************************************************************)
(* The declarations of parser.c and the tables of globals.c they fill: the *)
(* types, constants, functions, global variables and blocks, the look-ups  *)
(* by name, and the sizes of variables.  The program is whatever its       *)
(* writer declares next: an action reads one declaration, opens or closes  *)
(* a block, or uses a name.                                                *)
(*                                                                         *)
(* A slot of a table that was never used is all zeroes.  Globals and       *)
(* functions are read into _temp_variable first, the same one every time.  *)
(***************************************************************************)
EXTENDS Integers, Sequences, FiniteSets

CONSTANTS
    Names,        \* the words a program may use, and ""
    Declarators,  \* what may declare a variable: [type, star, form, n, name]
    Fields,       \* lists of declarators of a struct
    Parameters,   \* lists of parameters: [vars, variadic]
    Enumerators,  \* lists of enumerators: [name, assigned, value]
    FunctionNames,
    TypeNames,
    MAX_PARAMS

Declarator ==
    [type : Names, star : BOOLEAN, form : {"plain", "array", "open", "function"}, n : Nat,
     name : Names]

ASSUME NamesAssumption ==
    {"", "void", "char", "int", "main", "var_arg", "__syscall"} \subseteq Names

ASSUME ProgramAssumption ==
    /\ Declarators \subseteq Declarator
    /\ \A ds \in Fields : ds \in Seq(Declarator) /\ Len(ds) > 0
    /\ \A p \in Parameters : p.vars \in Seq(Declarator) /\ p.variadic \in BOOLEAN
    /\ \A es \in Enumerators : es \in Seq([name : Names, assigned : BOOLEAN, value : Int])
    /\ FunctionNames \subseteq Names /\ TypeNames \subseteq Names

ASSUME MaxParamsAssumption ==
    MAX_PARAMS \in Nat /\ \A p \in Parameters : Len(p.vars) <= MAX_PARAMS

VARIABLES
    pc,         \* "global", "body", "done" or "error"
    types,      \* _types
    constants,  \* _constants
    functions,  \* _functions
    globals,    \* the locals of _blocks[0]
    blocks,     \* the other blocks
    temp,       \* _temp_variable
    parent,     \* the open block, 0 outside of functions
    first,      \* the first variable of the declaration that is read there, or 0
    il          \* the instructions that enter functions or use names

vars == <<pc, types, constants, functions, globals, blocks, temp, parent, first, il>>

-----------------------------------------------------------------------------
(* Look-ups.  An entity is a place in one of the tables.                   *)

Named(table, name) == {k \in 1..Len(table) : table[k].name = name}

First(S) == CHOOSE k \in S : \A j \in S : k <= j

Entity(kind, of, k) == [kind |-> kind, of |-> of, k |-> k]

Nothing == Entity("none", 0, 0)

\* The entry of a table with a name, the first if there are several.
InTable(kind, of, table, name) ==
    IF Named(table, name) = {} THEN Nothing
    ELSE Entity(kind, of, First(Named(table, name)))

Else(found, other) == IF found = Nothing THEN other ELSE found

find_type(name) == InTable("type", 0, types, name)

TypeNamed(name) == types[find_type(name).k]

find_constant(name) == InTable("constant", 0, constants, name)

find_function(name) == InTable("function", 0, functions, name)

find_global_variable(name) == InTable("global", 0, globals, name)

ParamsOf(f) == SubSeq(functions[f].params, 1, functions[f].num_params)

\* Mutant: the blocks are searched from the outside in.
find_local_outside_in(name) ==
    LET within[b \in 0..Len(blocks)] ==
            IF b = 0 THEN Nothing
            ELSE Else(within[blocks[b].parent], InTable("local", b, blocks[b].locals, name))
    IN IF parent = 0 THEN Nothing
       ELSE Else(within[parent],
                 InTable("param", blocks[parent].function,
                         ParamsOf(blocks[parent].function), name))

\* The blocks from the inside out, then the parameters.
find_local_variable(name) ==
    LET within[b \in 0..Len(blocks)] ==
            IF b = 0 THEN Nothing
            ELSE Else(InTable("local", b, blocks[b].locals, name), within[blocks[b].parent])
    IN IF parent = 0 THEN Nothing
       ELSE Else(within[parent],
                 InTable("param", blocks[parent].function,
                         ParamsOf(blocks[parent].function), name))

find_variable(name) == Else(find_local_variable(name), find_global_variable(name))

\* What an operand that starts with a name is taken for.
Operand(name) == Else(find_constant(name), Else(find_variable(name), find_function(name)))

\* What a statement that starts with a name is taken for.
Statement(name) == Else(find_type(name), Else(find_function(name), find_variable(name)))

-----------------------------------------------------------------------------
(* Variables.  The declarator is kept in the variable as a history.        *)

Blank == [type |-> "", star |-> FALSE, form |-> "plain", n |-> 0, name |-> ""]

Zeroed ==
    [type |-> "", name |-> "", is_pointer |-> 0, is_function |-> 0, array_size |-> 0,
     declarator |-> Blank]

\* p_read_inner_variable_declaration: what is not named here keeps its value.
Inner(vd, d) ==
    LET v == [vd EXCEPT !.name = d.name, !.is_pointer = IF d.star THEN 1 ELSE 0,
                        !.declarator = d]
    IN CASE d.form = "function" -> [v EXCEPT !.is_function = 1]
         [] d.form = "array" -> [v EXCEPT !.array_size = d.n]
         [] d.form = "open" -> [v EXCEPT !.is_pointer = @ + 1]
         [] d.form = "plain" -> [v EXCEPT !.array_size = 0]

Full(vd, d) == Inner([vd EXCEPT !.type = d.type], d)

\* A declarator behind a comma has the type of the first.
Partial(vd, template, d) ==
    Inner([vd EXCEPT !.type = template.type], [d EXCEPT !.type = template.type])

\* p_read_parameter_list_declaration into the slots of a function.
ParameterList(slots, ps) ==
    [k \in 1..MAX_PARAMS |->
        IF k <= Len(ps.vars) THEN Full(slots[k], ps.vars[k])
        ELSE IF ps.variadic
        THEN [slots[k] EXCEPT !.type = "int", !.name = "var_arg", !.is_pointer = 1]
        ELSE slots[k]]

\* Mutant: a function pointer is as large as what it returns.
SizeOfResult(v) ==
    IF v.is_pointer > 0 THEN 4
    ELSE IF v.array_size > 0 THEN v.array_size * TypeNamed(v.type).size
    ELSE TypeNamed(v.type).size

size_variable(v) ==
    IF v.is_pointer > 0 \/ v.is_function > 0 THEN 4
    ELSE IF v.array_size > 0 THEN v.array_size * TypeNamed(v.type).size
    ELSE TypeNamed(v.type).size

\* The type of an address is not looked up.
SizeKnown(v) == v.is_pointer > 0 \/ v.is_function > 0 \/ find_type(v.type) # Nothing

\* p_get_size: how much an assignment to the variable writes.
p_get_size(v) ==
    IF v.is_pointer > 0 \/ v.is_function > 0 THEN 4 ELSE TypeNamed(v.type).size

-----------------------------------------------------------------------------
(* The intermediate code, as far as names are concerned.                   *)

Instr(op, name, found, size) ==
    [op |-> op, name |-> name, block |-> parent, found |-> found, size |-> size]

Plain(op) == [op |-> op, name |-> "", block |-> 0, found |-> Nothing, size |-> 0]

\* p_initialize
Prologue ==
    << Plain("op_label"), Plain("op_start"),
       [Plain("op_function_call") EXCEPT !.name = "main"],
       Plain("op_label"), Plain("op_exit"),
       [Plain("op_entry_point") EXCEPT !.name = "__syscall"], Plain("op_syscall"),
       Plain("op_exit_point") >>

EmptySlots == [k \in 1..MAX_PARAMS |-> Zeroed]

NewFunction(name) ==
    [name |-> name, params |-> EmptySlots, num_params |-> 0, entry |-> 0, exit |-> 0]

BuiltIn(name, size) == [name |-> name, size |-> size, fields |-> << >>]

Init ==
    /\ pc = "global"
    /\ types = << BuiltIn("void", 0), BuiltIn("char", 1), BuiltIn("int", 4) >>
    /\ constants = << >>
    /\ functions = << [NewFunction("__syscall") EXCEPT !.entry = 5, !.exit = 7] >>
    /\ globals = << >>
    /\ blocks = << >>
    /\ temp = Zeroed
    /\ parent = 0
    /\ first = 0
    /\ il = Prologue

-----------------------------------------------------------------------------
(* Global statements.                                                      *)

Known(d) == find_type(d.type) # Nothing

\* p_read_global_declaration of a variable; anything but a semicolon behind
\* it is refused.
GlobalVariable(d, semicolon) ==
    /\ pc = "global" /\ Known(d)
    /\ temp' = Full(temp, d)
    /\ globals' = Append(globals, temp')
    /\ pc' = IF semicolon THEN "global" ELSE "error"
    /\ UNCHANGED <<types, constants, functions, blocks, parent, first, il>>

\* add_function: the table afterwards, with one entry for the name.
add_function(name) ==
    IF find_function(name) = Nothing THEN Append(functions, NewFunction(name))
    ELSE functions

\* The function's result is read like a variable.
Result(name) == [type |-> "int", star |-> FALSE, form |-> "plain", n |-> 0, name |-> name]

\* Mutant: the fixed parameters of a variadic function count twice.
WithParametersTwice(table, f, ps) ==
    [table EXCEPT ![f].params = ParameterList(@, ps),
                  ![f].num_params = (IF ps.variadic THEN MAX_PARAMS ELSE 0) + Len(ps.vars)]

\* The parameters of the last declaration replace those of the ones before.
WithParameters(table, f, ps) ==
    [table EXCEPT ![f].params = ParameterList(@, ps),
                  ![f].num_params = IF ps.variadic THEN MAX_PARAMS ELSE Len(ps.vars)]

\* Mutant: the last entry of the table.
EntryLast(table, name) == Len(table)

\* The entry add_function returns.
EntryOf(table, name) ==
    IF find_function(name) = Nothing THEN Len(table) ELSE find_function(name).k

Prototype(name, ps) ==
    /\ pc = "global"
    /\ temp' = Full(temp, Result(name))
    /\ LET table == add_function(name)
       IN functions' = WithParameters(table, EntryOf(table, name), ps)
    /\ UNCHANGED <<pc, types, constants, globals, blocks, parent, first, il>>

\* A function and the start of its body: p_read_function_body and
\* p_read_code_block as far as the opening brace.
FunctionDefinition(name, ps) ==
    /\ pc = "global"
    /\ temp' = Full(temp, Result(name))
    /\ LET table == add_function(name)
           f == EntryOf(table, name)
       IN /\ functions' = [WithParameters(table, f, ps) EXCEPT ![f].entry = Len(il)]
          /\ blocks' = Append(blocks, [parent |-> 0, function |-> f, locals |-> << >>])
    /\ parent' = Len(blocks')
    /\ il' = il \o << [Plain("op_entry_point") EXCEPT !.name = name],
                      Plain("op_block_start") >>
    /\ pc' = "body"
    /\ UNCHANGED <<types, constants, globals, first>>

\* typedef enum: a value that is not given is one more than the one before.
Values(es) ==
    LET v[k \in 1..Len(es)] == IF es[k].assigned THEN es[k].value
                               ELSE IF k = 1 THEN 0 ELSE v[k - 1] + 1
    IN v

TypedefEnum(name, es) ==
    /\ pc = "global"
    /\ types' = Append(types, BuiltIn(name, 4))
    /\ constants' = constants \o
           [k \in 1..Len(es) |-> [name |-> es[k].name, value |-> Values(es)[k]]]
    /\ UNCHANGED <<pc, functions, globals, blocks, temp, parent, first, il>>

\* The fields of a struct one behind the other.
Laid(ds) ==
    LET v == [k \in 1..Len(ds) |-> Full(Zeroed, ds[k])]
        at[k \in 1..Len(ds)] == IF k = 1 THEN 0 ELSE at[k - 1] + size_variable(v[k - 1])
    IN [k \in 1..Len(ds) |-> [var |-> v[k], offset |-> at[k]]]

\* The struct has no name yet: it cannot hold itself, but the address of itself.
TypedefStruct(name, ds) ==
    /\ pc = "global" /\ \A k \in 1..Len(ds) : SizeKnown(Full(Zeroed, ds[k]))
    /\ LET fields == Laid(ds)
           last == fields[Len(ds)]
       IN types' = Append(types, [name |-> name, fields |-> fields,
                                  size |-> last.offset + size_variable(last.var)])
    /\ UNCHANGED <<pc, constants, functions, globals, blocks, temp, parent, first, il>>

\* typedef of a type under another name; the fields are not copied.
TypedefType(name, base) ==
    /\ pc = "global" /\ find_type(base) # Nothing
    /\ types' = Append(types, BuiltIn(name, TypeNamed(base).size))
    /\ UNCHANGED <<pc, constants, functions, globals, blocks, temp, parent, first, il>>

\* p_parse at the end of the source
Finish ==
    /\ pc = "global"
    /\ pc' = "done"
    /\ UNCHANGED <<types, constants, functions, globals, blocks, temp, parent, first, il>>

-----------------------------------------------------------------------------
(* Bodies.                                                                 *)

\* A local variable in a slot of its own; its initial value is written to the
\* address the code generator will find for the name.
AddLocal(v, size, initialised) ==
    /\ blocks' = [blocks EXCEPT ![parent].locals = Append(@, v)]
    /\ il' = IF initialised
             THEN Append(il, Instr("op_get_var_addr", v.name,
                                   Entity("local", parent, Len(blocks[parent].locals) + 1),
                                   size))
             ELSE il
    /\ UNCHANGED <<pc, types, constants, functions, globals, temp, parent>>

LocalVariable(d, initialised) ==
    /\ pc = "body" /\ Known(d)
    /\ AddLocal(Full(Zeroed, d), p_get_size(Full(Zeroed, d)), initialised)
    /\ first' = Len(blocks[parent].locals) + 1

\* Mutant: next_local is not incremented, and the variable takes the place of
\* the one before.
LocalContinuedOver(d, initialised) ==
    /\ pc = "body" /\ first # 0
    /\ LET vs == blocks[parent].locals
           v == Partial(Zeroed, vs[first], d)
       IN /\ blocks' = [blocks EXCEPT ![parent].locals = [vs EXCEPT ![Len(vs)] = v]]
          /\ il' = IF initialised
                   THEN Append(il, Instr("op_get_var_addr", v.name,
                                         Entity("local", parent, Len(vs)), p_get_size(vs[first])))
                   ELSE il
    /\ UNCHANGED <<pc, types, constants, functions, globals, temp, parent, first>>

\* Another one behind a comma, with the type of the first; its initial value
\* is written with the size of the first, too.
LocalContinued(d, initialised) ==
    /\ pc = "body" /\ first # 0
    /\ LET var == blocks[parent].locals[first]
       IN AddLocal(Partial(Zeroed, var, d), p_get_size(var), initialised)
    /\ UNCHANGED first

OpenBlock ==
    /\ pc = "body"
    /\ blocks' = Append(blocks, [parent |-> parent, function |-> blocks[parent].function,
                                 locals |-> << >>])
    /\ parent' = Len(blocks')
    /\ il' = Append(il, Plain("op_block_start"))
    /\ first' = 0
    /\ UNCHANGED <<pc, types, constants, functions, globals, temp>>

\* A closing brace ends the block, and the function if there is none around.
CloseBlock ==
    /\ pc = "body"
    /\ parent' = blocks[parent].parent
    /\ first' = 0
    /\ IF parent' # 0
       THEN /\ il' = Append(il, Plain("op_block_end"))
            /\ UNCHANGED <<pc, functions>>
       ELSE /\ il' = il \o << Plain("op_block_end"), Plain("op_exit_point") >>
            /\ pc' = "global"
            /\ functions' = [functions EXCEPT ![blocks[parent].function].exit = Len(il) + 1]
    /\ UNCHANGED <<types, constants, globals, blocks, temp>>

\* What is found decides the instruction: a constant is loaded, the address of
\* a variable or a function is taken, or a function is called.
UseAs(name, found, called) ==
    /\ IF found = Nothing
       THEN pc' = "error" /\ il' = il
       ELSE /\ il' = Append(il, Instr(CASE found.kind = "constant" -> "op_load_numeric_constant"
                                        [] found.kind = "function" /\ called -> "op_function_call"
                                        [] OTHER -> "op_get_var_addr",
                                      name, found, 0))
            /\ pc' = pc
    /\ first' = 0
    /\ UNCHANGED <<types, constants, functions, globals, blocks, temp, parent>>

UseOperand(name, called) == pc = "body" /\ UseAs(name, Operand(name), called)

\* An assignment or a call; a type starts a declaration instead.
UseStatement(name) ==
    /\ pc = "body"
    /\ Statement(name).kind # "type"
    /\ UseAs(name, Statement(name), TRUE)

-----------------------------------------------------------------------------

VariableNames == {d.name : d \in Declarators}

UsedNames ==
    VariableNames \cup FunctionNames
    \cup UNION {{es[k].name : k \in DOMAIN es} : es \in Enumerators}

Next ==
    \/ \E d \in Declarators, semicolon \in BOOLEAN : GlobalVariable(d, semicolon)
    \/ \E name \in FunctionNames, ps \in Parameters :
           Prototype(name, ps) \/ FunctionDefinition(name, ps)
    \/ \E name \in TypeNames :
           \/ \E es \in Enumerators : TypedefEnum(name, es)
           \/ \E ds \in Fields : TypedefStruct(name, ds)
           \/ \E k \in 1..Len(types) : TypedefType(name, types[k].name)
    \/ Finish
    \/ \E d \in Declarators, initialised \in BOOLEAN :
           LocalVariable(d, initialised) \/ LocalContinued(d, initialised)
    \/ OpenBlock
    \/ CloseBlock
    \/ \E name \in UsedNames :
           UseStatement(name) \/ \E called \in BOOLEAN : UseOperand(name, called)

Spec == Init /\ [][Next]_vars

-----------------------------------------------------------------------------
(* Properties.                                                             *)

IsVariable(v) ==
    /\ v.name \in Names /\ v.type \in Names
    /\ v.is_pointer \in 0..2 /\ v.is_function \in {0, 1} /\ v.array_size \in Nat

\* The tables hold what they should; a block is in an earlier one of the same
\* function, and the open block is one of them.
TypeOK ==
    /\ pc \in {"global", "body", "done", "error"}
    /\ \A k \in 1..Len(globals) : IsVariable(globals[k])
    /\ \A f \in 1..Len(functions) :
           /\ functions[f].num_params \in 0..MAX_PARAMS
           /\ \A k \in 1..MAX_PARAMS : IsVariable(functions[f].params[k])
    /\ \A b \in 1..Len(blocks) :
           /\ blocks[b].parent \in 0..(b - 1)
           /\ blocks[b].function \in 1..Len(functions)
           /\ blocks[b].parent # 0 => blocks[blocks[b].parent].function = blocks[b].function
           /\ \A k \in 1..Len(blocks[b].locals) : IsVariable(blocks[b].locals[k])
    /\ parent \in 0..Len(blocks) /\ (pc = "body" => parent # 0)
    /\ first # 0 => first \in 1..Len(blocks[parent].locals)

\* The size a declaration calls for.
SizeWritten(d) ==
    LET element == IF d.star THEN 4 ELSE TypeNamed(d.type).size
    IN CASE d.form \in {"function", "open"} -> 4
         [] d.form = "array" -> d.n * element
         [] d.form = "plain" -> element

\* Every variable, parameter and field is as large as its declaration calls
\* for, whatever was declared before it; the fields of a struct follow each
\* other and fill it; and an initial value is as wide as its variable.
SizesAsWritten ==
    LET Fits(v) == size_variable(v) = SizeWritten(v.declarator) IN
    /\ \A k \in 1..Len(globals) : Fits(globals[k])
    /\ \A f \in 1..Len(functions) : \A k \in 1..functions[f].num_params :
           LET p == functions[f].params[k] IN p.name # "var_arg" => Fits(p)
    /\ \A b \in 1..Len(blocks) : \A k \in 1..Len(blocks[b].locals) : Fits(blocks[b].locals[k])
    /\ \A t \in 1..Len(types) :
           LET fields == types[t].fields
               end(k) == fields[k].offset + SizeWritten(fields[k].var.declarator)
           IN \A k \in 1..Len(fields) :
                  end(k) = IF k = Len(fields) THEN types[t].size ELSE fields[k + 1].offset
    /\ \A i \in 1..Len(il) :
           il[i].size # 0 =>
               LET d == blocks[il[i].block].locals[il[i].found.k].declarator
               IN d.form # "array" => il[i].size = SizeWritten(d)

\* A call, that of main by the start of the program too, goes to the entry
\* point of the function called, whether it was defined before or after and
\* however often it was declared.
CallsEnterFunction ==
    pc = "done" => \A i \in 1..Len(il) :
        il[i].op = "op_function_call" =>
            LET f == find_function(il[i].name) IN
            /\ f # Nothing
            /\ il[functions[f.k].entry + 1].op = "op_entry_point"
            /\ il[functions[f.k].entry + 1].name = il[i].name

-----------------------------------------------------------------------------
(* What the compiler supports, as far as these properties depend on it.    *)

\* Nothing is declared after a global function pointer but functions.
FunctionPointerLast ==
    \A k \in 1..(Len(globals) - 1) : globals[k].declarator.form # "function"

\* A function is defined, at the end of the source if it is called at all.
CallsDefined ==
    pc = "done" => \A i \in 1..Len(il) :
        il[i].op = "op_function_call" =>
            \E j \in 1..Len(il) : il[j].op = "op_entry_point" /\ il[j].name = il[i].name

\* A variable that is declared behind a comma with an initial value is as wide
\* as the first one.
SameWidth ==
    first # 0 /\ first' = first /\ il' # il =>
        LET vs == blocks'[parent].locals IN p_get_size(vs[Len(vs)]) = p_get_size(vs[first])

\* All declarations of a function have the same parameters: the last one
\* counts, one behind the definition too.
SameParameters ==
    \A f \in 1..Len(functions) :
        /\ functions'[f].params = functions[f].params
        /\ functions'[f].num_params = functions[f].num_params

\* An array has elements, and they are not pointers.
ArraysOfValues ==
    LET Sizes(d) == d.form = "array" => ~d.star /\ d.n > 0 IN
    /\ \A d \in Declarators : Sizes(d)
    /\ \A ds \in Fields : \A k \in 1..Len(ds) : Sizes(ds[k])
    /\ \A p \in Parameters : \A k \in 1..Len(p.vars) : Sizes(p.vars[k])

SupportedNext == Next /\ SameParameters /\ SameWidth /\ FunctionPointerLast'

SupportedDeclarations == Init /\ [][SupportedNext]_vars
=============================================================================
