--------------------------- MODULE MCDeclarations ---------------------------
(***************************************************************************)
(* Instances of Declarations for TLC; what the code generator of module    *)
(* CodeGen makes of the tables; and the refinement of Scope.               *)
(***************************************************************************)
EXTENDS Declarations

CONSTANTS
    MaxItems   \* entries of all tables and uses of names; those that are more than an int count three times

VARIABLES scopes, uses  \* history: Scopes and Uses below

-----------------------------------------------------------------------------
(* The tables in the hands of the code generator.                          *)

Sized(vs) == [k \in 1..Len(vs) |-> [name |-> vs[k].name, size |-> size_variable(vs[k])]]

Tables ==
    [il |-> << >>, data |-> 0, globals |-> Sized(globals),
     functions |-> [f \in 1..Len(functions) |->
         [name |-> functions[f].name, params |-> Sized(ParamsOf(f)),
          entry |-> functions[f].entry, exit |-> functions[f].exit]],
     blocks |-> [b \in 1..Len(blocks) |->
         [parent |-> blocks[b].parent, function |-> blocks[b].function,
          locals |-> Sized(blocks[b].locals)]]]

G == INSTANCE CodeGen WITH
         Programs <- {}, CodeStart <- 0, MaxFrame <- 2047, BranchReach <- 4096,
         phase <- "generate", arch <- "riscv", program <- Tables, code_offset <- << >>,
         layout <- << >>, symbols <- << >>, code <- << >>, next <- 0, bd <- 0

\* A name is looked up twice: by the parser, for its type and size, among what
\* is declared so far, and by the code generator, for its address, when all
\* is.  Both find the same variable or function.
UsesAgree ==
    pc = "done" => \A i \in 1..Len(il) :
        il[i].op = "op_get_var_addr" => G!Find(il[i].name, il[i].block) = il[i].found

-----------------------------------------------------------------------------
(* The refinement.                                                         *)

\* A block and those around it.
Enclosing(b) ==
    LET around[c \in 1..Len(blocks)] ==
            {c} \cup IF blocks[c].parent = 0 THEN {} ELSE around[blocks[c].parent]
    IN around[b]

NamesOf(table) == {table[k].name : k \in 1..Len(table)}

\* What the names of a table mean.
ScopeOf(kind, of, table) ==
    [n \in NamesOf(table) |-> InTable(kind, of, table, n)]

FileTables == << constants, globals, functions, types >>

FileEntity(n) ==
    Else(find_constant(n),
         Else(find_global_variable(n), Else(find_function(n), find_type(n))))

FileScope == [n \in UNION {NamesOf(FileTables[j]) : j \in 1..4} |-> FileEntity(n)]

ParamScope(f) == ScopeOf("param", f, ParamsOf(f))

LocalScope(b) == ScopeOf("local", b, blocks[b].locals)

\* The scopes around a block, from file scope inwards.
Scopes ==
    LET around[b \in 0..Len(blocks)] ==
            IF b = 0 THEN << FileScope >>
            ELSE Append(IF blocks[b].parent = 0
                        THEN << FileScope, ParamScope(blocks[b].function) >>
                        ELSE around[blocks[b].parent],
                        LocalScope(b))
    IN around[parent]

\* What the names used so far were taken for.
Uses ==
    LET found[i \in 0..Len(il)] ==
            IF i = 0 THEN << >>
            ELSE IF il[i].found = Nothing THEN found[i - 1]
            ELSE Append(found[i - 1], il[i].found)
    IN found[Len(il)]

Abstract == INSTANCE Scope

\* What the parser finds for a name is what C means by it: the variable of the
\* innermost block that declares it, a parameter, or what file scope has; the
\* variables of a block that has ended are out of sight, and a function stays
\* the same one over all of its declarations.
FollowsScope == Abstract!Spec

-----------------------------------------------------------------------------
(* What the compiler supports.                                             *)

Distinct(table) == \A j, k \in 1..Len(table) : table[j].name = table[k].name => j = k

Inside(b, c) == c \in Enclosing(b)

Statements(b) ==
    {i \in 1..Len(il) : il[i].block # 0 /\ il[i].size = 0 /\ Inside(il[i].block, b)}

\* A name is declared once in its scope; no variable of a function has the
\* name of something global; nothing is declared after a global function
\* pointer but functions; a function is defined once, and at the end if it is
\* called at all.
Supported ==
    /\ \A k \in 1..4 : Distinct(FileTables[k])
    /\ \A j, k \in 1..4 : j # k => NamesOf(FileTables[j]) \cap NamesOf(FileTables[k]) = {}
    /\ \A b \in 1..Len(blocks) :
           LET visible == NamesOf(blocks[b].locals)
                          \cup NamesOf(ParamsOf(blocks[b].function))
           IN /\ Distinct(blocks[b].locals)
              /\ \A k \in 1..4 : NamesOf(FileTables[k]) \cap visible = {}
              /\ blocks[b].parent = 0 =>
                     NamesOf(blocks[b].locals)
                     \cap NamesOf(ParamsOf(blocks[b].function)) = {}
    /\ FunctionPointerLast
    /\ \A f \in 1..Len(functions) :
           Cardinality({i \in 1..Len(il) : /\ il[i].op = "op_entry_point"
                                           /\ il[i].name = functions[f].name}) <= 1
    /\ CallsDefined

\* A variable is declared before its name is used in its block; there may be
\* other statements before, as in tests/def.c:36.  A use before would be parsed
\* as the variable of a block around, or a parameter, and be given the address
\* of this one.
DeclaredBeforeUse ==
    parent # 0 => \A i \in Statements(parent) :
        Named(blocks'[parent].locals, il[i].name) = Named(blocks[parent].locals, il[i].name)

-----------------------------------------------------------------------------
(* Bounds.                                                                 *)

Locals == UNION {{<<b, k>> : k \in 1..Len(blocks[b].locals)} : b \in 1..Len(blocks)}

UsesOfNames == {i \in 1..Len(il) : il[i].block # 0}

Items ==
    Len(types) - 3 + Len(constants) + Len(globals) + Len(functions) - 1 + Len(blocks)
    + Cardinality(Locals) + Cardinality(UsesOfNames)

IsForm(v) == v.type # "int" \/ v.is_pointer + v.is_function + v.array_size > 0

Forms ==
    Len(types) - 3 + Len(constants)
    + Cardinality({k \in 1..Len(globals) : IsForm(globals[k])})
    + Cardinality({l \in Locals : IsForm(blocks[l[1]].locals[l[2]])})
    + IF \E f \in 1..Len(functions) : \E k \in 1..functions[f].num_params :
             IsForm(functions[f].params[k])
      THEN 1 ELSE 0

Bounded == Items + 2 * Forms <= MaxItems

-----------------------------------------------------------------------------
(* The specifications.                                                     *)

MCInit == Init /\ scopes = Scopes /\ uses = Uses

\* Every program the parser takes.
AnySpec ==
    /\ MCInit
    /\ [][Next /\ pc' # "error" /\ Bounded' /\ scopes' = Scopes' /\ uses' = Uses']_<<vars, scopes, uses>>

SupportedSpec ==
    /\ MCInit
    /\ [][/\ Next /\ Bounded' /\ SameParameters /\ DeclaredBeforeUse /\ SameWidth /\ Supported'
          /\ scopes' = Scopes' /\ uses' = Uses']_<<vars, scopes, uses>>

-----------------------------------------------------------------------------
(* Values of the constants.                                                *)

Dec(type, star, form, name) ==
    [type |-> type, star |-> star, form |-> form, n |-> IF form = "array" THEN 3 ELSE 0,
     name |-> name]

MCNames == {"x", "y"}

MCWords ==
    {"", "void", "char", "int", "main", "var_arg", "__syscall"}
    \cup {"f", "t", "u", "x", "y", "n", "c", "d"}

MCDeclarators ==
    {Dec("int", FALSE, "plain", n) : n \in MCNames}
    \cup {Dec("char", star, "plain", "x") : star \in BOOLEAN}
    \cup {Dec(type, FALSE, form, "y") : type \in {"char", "t"}, form \in {"array", "open"}}
    \cup {Dec("char", FALSE, "function", "x"), Dec("t", FALSE, "plain", "y")}

MCPlain == {Dec("int", FALSE, "plain", n) : n \in MCNames}

MCFields ==
    LET c == Dec("char", FALSE, "plain", "x")
        i == Dec("int", FALSE, "array", "y")
        p == Dec("t", TRUE, "plain", "n")
        f == Dec("char", FALSE, "function", "c")
    IN {<<c, i>>, <<i, c>>, <<f, p>>, <<p, f>>, <<c, Dec("t", FALSE, "plain", "n")>>}

Par(ds, variadic) == [vars |-> ds, variadic |-> variadic]

MCParameters ==
    {Par(<< >>, FALSE), Par(<<Dec("int", FALSE, "plain", "x")>>, FALSE),
     Par(<<Dec("char", TRUE, "plain", "y")>>, TRUE),
     Par(<<Dec("char", FALSE, "function", "y"), Dec("int", FALSE, "plain", "x")>>, FALSE)}

MCPlainParameters == {Par(<< >>, FALSE), Par(<<Dec("int", FALSE, "plain", "x")>>, FALSE)}

Enum(name, assigned, value) == [name |-> name, assigned |-> assigned, value |-> value]

MCEnumerators ==
    {<<Enum("c", FALSE, 0)>>, <<Enum("c", TRUE, 5), Enum("d", FALSE, 0)>>}
=============================================================================
