------------------------- MODULE DeclarationsProofs -------------------------
(***************************************************************************)
(* Proofs about Declarations for every program: whatever is declared, in   *)
(* any number and order.                                                   *)
(***************************************************************************)
EXTENDS Declarations, SequenceTheorems, WellFoundedInduction, TLAPS

-----------------------------------------------------------------------------
(* Numbers and sequences.                                                  *)

Less == {ss \in Nat \X Nat : ss[1] < ss[2]}

LEMMA LessWellFounded == IsWellFoundedOn(Less, Nat)
BY NatLessThanWellFounded, Zenon DEF OpToRel, Less

\* What is proved by induction is proved from the least counterexample.
LEMMA SmallestMember ==
    ASSUME NEW T, T \subseteq Nat, T # {}
    PROVE  \E x \in T : \A y \in T : x <= y
<1>1. PICK x \in T : \A y \in T : ~ (<<y, x>> \in Less)
  BY WFMin, LessWellFounded
<1>2. \A y \in T : y \in Nat /\ x \in Nat
  BY <1>1
<1>3. \A y \in T : ~(y < x)
  BY <1>1, <1>2 DEF Less
<1> QED BY <1>1, <1>2, <1>3

\* A running sum that starts anew wherever it is told to.
Accumulated(n, starts, at, step, f) ==
    f = [k \in 1..n |-> IF starts[k] THEN at[k] ELSE IF k = 1 THEN 0 ELSE f[k - 1] + step[k]]

LEMMA AccumulatedExists ==
    ASSUME NEW S, S = Int \/ S = Nat, NEW n \in Nat,
           NEW starts, NEW at, NEW step,
           \A k \in 1..n : at[k] \in S /\ step[k] \in Nat
    PROVE  \E f \in [1..n -> S] : Accumulated(n, starts, at, step, f)
<1> DEFINE E(m) == \E f \in [1..m -> S] : Accumulated(m, starts, at, step, f)
           Bad == {m \in 0..n : ~ E(m)}
<1>0. 0 \in S /\ \A x \in S, y \in Nat : x + y \in S
  OBVIOUS
<1>1. E(0)
  <2> DEFINE f == [k \in 1..0 |-> 0]
  <2>1. f \in [1..0 -> S]
    BY <1>0
  <2>2. Accumulated(0, starts, at, step, f)
    BY DEF Accumulated
  <2> QED BY <2>1, <2>2
<1>2. ASSUME NEW m \in Nat, m + 1 <= n, E(m)
      PROVE  E(m + 1)
  <2>1. PICK f \in [1..m -> S] : Accumulated(m, starts, at, step, f)
    BY <1>2
  <2> DEFINE next == IF starts[m + 1] THEN at[m + 1]
                     ELSE IF m + 1 = 1 THEN 0 ELSE f[m] + step[m + 1]
             g == [k \in 1..(m + 1) |-> IF k = m + 1 THEN next ELSE f[k]]
  <2>2. next \in S
    <3>1. at[m + 1] \in S /\ step[m + 1] \in Nat
      BY <1>2
    <3>2. m # 0 => f[m] \in S
      BY <2>1
    <3>3. m # 0 => f[m] + step[m + 1] \in S
      BY <3>1, <3>2, <1>0
    <3>4. m + 1 = 1 <=> m = 0
      OBVIOUS
    <3> QED BY <3>1, <3>3, <3>4, <1>0, Zenon
  <2>3. g \in [1..(m + 1) -> S]
    BY <2>1, <2>2
  <2>4. ASSUME NEW k \in 1..(m + 1)
        PROVE  g[k] = IF starts[k] THEN at[k] ELSE IF k = 1 THEN 0 ELSE g[k - 1] + step[k]
    <3>1. CASE k = m + 1
      <4>1. m # 0 => g[k - 1] = f[m]
        BY <3>1
      <4>2. g[k] = next
        BY <3>1
      <4> QED BY <3>1, <4>1, <4>2
    <3>2. CASE k # m + 1
      <4>1. k \in 1..m /\ g[k] = f[k]
        BY <3>2
      <4>2. k # 1 => g[k - 1] = f[k - 1]
        BY <4>1
      <4>3. f[k] = IF starts[k] THEN at[k] ELSE IF k = 1 THEN 0 ELSE f[k - 1] + step[k]
        BY <2>1, <4>1 DEF Accumulated
      <4> QED BY <4>1, <4>2, <4>3
    <3> QED BY <3>1, <3>2
  <2>5. g = [k \in 1..(m + 1) |->
               IF starts[k] THEN at[k] ELSE IF k = 1 THEN 0 ELSE g[k - 1] + step[k]]
    <3> DEFINE R == [k \in 1..(m + 1) |->
               IF starts[k] THEN at[k] ELSE IF k = 1 THEN 0 ELSE g[k - 1] + step[k]]
    <3>1. \A k \in 1..(m + 1) : R[k] = g[k]
      BY <2>4, Zenon
    <3>2. DOMAIN g = 1..(m + 1) /\ DOMAIN R = 1..(m + 1)
      OBVIOUS
    <3>3. g = [k \in 1..(m + 1) |-> g[k]]
      OBVIOUS
    <3>4. R = [k \in 1..(m + 1) |-> R[k]]
      OBVIOUS
    <3> HIDE DEF g, R
    <3>5. g = R
      BY <3>1, <3>3, <3>4, Zenon
    <3> QED BY <3>5, Zenon DEF R
  <2> HIDE DEF g
  <2>6. Accumulated(m + 1, starts, at, step, g)
    BY <2>5, Zenon DEF Accumulated
  <2> QED BY <2>3, <2>6
<1> HIDE DEF E
<1>3. Bad = {}
  <2> SUFFICES ASSUME Bad # {} PROVE FALSE
    OBVIOUS
  <2>1. PICK x \in Bad : \A y \in Bad : x <= y
    <3>1. Bad \subseteq Nat
      OBVIOUS
    <3> QED BY <3>1, SmallestMember
  <2>2. x \in Nat /\ x # 0 /\ x <= n
    BY <1>1
  <2>3. x - 1 \in Nat /\ E(x - 1)
    BY <2>1, <2>2
  <2>4. E((x - 1) + 1)
    BY <1>2, <2>2, <2>3
  <2>5. (x - 1) + 1 = x
    BY <2>2
  <2> QED BY <2>4, <2>5
<1>4. E(n)
  BY <1>3
<1> QED BY <1>4 DEF E

LEMMA AppendTyped ==
    ASSUME NEW S, NEW s \in Seq(S), NEW x \in S
    PROVE  /\ Append(s, x) \in Seq(S) /\ Len(Append(s, x)) = Len(s) + 1
           /\ \A k \in 1..Len(s) : Append(s, x)[k] = s[k]
           /\ Append(s, x)[Len(s) + 1] = x
OBVIOUS

LEMMA ConcatTyped ==
    ASSUME NEW S, NEW s \in Seq(S), NEW t \in Seq(S)
    PROVE  /\ s \o t \in Seq(S) /\ Len(s \o t) = Len(s) + Len(t)
           /\ \A k \in 1..Len(s) : (s \o t)[k] = s[k]
           /\ \A k \in 1..Len(t) : (s \o t)[Len(s) + k] = t[k]
BY ConcatProperties

LEMMA FunctionTyped ==
    ASSUME NEW S, NEW n \in Nat, NEW s \in [1..n -> S]
    PROVE  s \in Seq(S) /\ Len(s) = n
OBVIOUS

LEMMA ElementTyped ==
    ASSUME NEW S, NEW s \in Seq(S)
    PROVE  Len(s) \in Nat /\ \A k \in 1..Len(s) : s[k] \in S
OBVIOUS

\* An entry of a table that is changed, and the others, which are not.
LEMMA ChangeTyped ==
    ASSUME NEW S, NEW s \in Seq(S), NEW k \in 1..Len(s), NEW x \in S
    PROVE  /\ [s EXCEPT ![k] = x] \in Seq(S) /\ Len([s EXCEPT ![k] = x]) = Len(s)
           /\ [s EXCEPT ![k] = x][k] = x
           /\ \A j \in 1..Len(s) : j # k => [s EXCEPT ![k] = x][j] = s[j]
OBVIOUS

-----------------------------------------------------------------------------
(* What the tables hold.                                                   *)

Variable ==
    [type : Names, name : Names, is_pointer : 0..2, is_function : {0, 1},
     array_size : Nat, declarator : Declarator]

Slots == [1..MAX_PARAMS -> Variable]

Field == [var : Variable, offset : Nat]

Type == [name : Names, size : Nat, fields : Seq(Field)]

Constant == [name : Names, value : Int]

Function ==
    [name : Names, params : Slots, num_params : 0..MAX_PARAMS, entry : Nat, exit : Nat]

Block == [parent : Nat, function : Nat \ {0}, locals : Seq(Variable)]

Kinds == {"none", "type", "constant", "function", "global", "local", "param"}

Ops ==
    {"op_label", "op_start", "op_function_call", "op_exit", "op_entry_point", "op_syscall",
     "op_exit_point", "op_block_start", "op_block_end", "op_get_var_addr",
     "op_load_numeric_constant"}

Entities == [kind : Kinds, of : Nat, k : Nat]

Instruction ==
    [op : Ops, name : Names, block : Nat, found : Entities, size : Nat]

Typed ==
    /\ pc \in {"global", "body", "done", "error"}
    /\ types \in Seq(Type) /\ constants \in Seq(Constant) /\ functions \in Seq(Function)
    /\ globals \in Seq(Variable) /\ blocks \in Seq(Block) /\ temp \in Variable
    /\ parent \in Nat /\ first \in Nat /\ il \in Seq(Instruction)

\* A block is in an earlier one of the same function.
Nested ==
    \A b \in 1..Len(blocks) :
        /\ blocks[b].parent \in 0..(b - 1)
        /\ blocks[b].function \in 1..Len(functions)
        /\ blocks[b].parent # 0 => blocks[blocks[b].parent].function = blocks[b].function

\* The open block and the declaration that is read there.
Open ==
    /\ parent \in 0..Len(blocks)
    /\ pc = "body" => parent # 0
    /\ pc \in {"global", "done"} => parent = 0
    /\ first # 0 => parent # 0 /\ first \in 1..Len(blocks[parent].locals)

\* The type of a variable was known when it was declared, and still is.
TypesKnown ==
    \A b \in 1..Len(blocks) : \A k \in 1..Len(blocks[b].locals) :
        find_type(blocks[b].locals[k].type) # Nothing

Places == Typed /\ Nested /\ Open /\ TypesKnown

LEMMA NamesTyped ==
    /\ "" \in Names /\ "void" \in Names /\ "char" \in Names /\ "int" \in Names
    /\ "main" \in Names /\ "var_arg" \in Names /\ "__syscall" \in Names
BY NamesAssumption, Zenon

LEMMA BlankTyped == Blank \in Declarator /\ Zeroed \in Variable
<1>1. Blank \in Declarator
  <2>1. "" \in Names /\ FALSE \in BOOLEAN /\ 0 \in Nat
    BY NamesAssumption
  <2> QED BY <2>1, Zenon DEF Blank, Declarator
<1>2. 0 \in 0..2 /\ 0 \in {0, 1} /\ 0 \in Nat
  OBVIOUS
<1> QED BY <1>1, <1>2, NamesTyped, Zenon DEF Zeroed, Variable

\* One field is set.
LEMMA FieldsTyped ==
    ASSUME NEW v \in Variable
    PROVE  /\ \A x \in Names : /\ [v EXCEPT !.name = x] \in Variable
                                /\ [v EXCEPT !.type = x] \in Variable
           /\ \A x \in 0..2 : /\ [v EXCEPT !.is_pointer = x] \in Variable
                              /\ [v EXCEPT !.is_pointer = x].is_pointer = x
           /\ \A x \in {0, 1} : [v EXCEPT !.is_function = x] \in Variable
           /\ \A x \in Nat : [v EXCEPT !.array_size = x] \in Variable
           /\ \A x \in Declarator :
                  /\ [v EXCEPT !.declarator = x] \in Variable
                  /\ [v EXCEPT !.declarator = x].is_pointer = v.is_pointer
BY DEF Variable

LEMMA InnerTyped ==
    ASSUME NEW vd \in Variable, NEW d \in Declarator
    PROVE  Inner(vd, d) \in Variable
<1> DEFINE v == [vd EXCEPT !.name = d.name, !.is_pointer = IF d.star THEN 1 ELSE 0,
                           !.declarator = d]
<1>1. v \in Variable /\ v.is_pointer \in 0..1
  <2> DEFINE p == IF d.star THEN 1 ELSE 0
             v1 == [vd EXCEPT !.name = d.name]
             v2 == [v1 EXCEPT !.is_pointer = p]
  <2>1. d.name \in Names /\ d.star \in BOOLEAN
    BY DEF Declarator
  <2>2. p \in 0..1 /\ p \in 0..2
    OBVIOUS
  <2>3. v1 \in Variable
    BY <2>1, FieldsTyped
  <2>4. v = [v2 EXCEPT !.declarator = d]
    OBVIOUS
  <2> HIDE DEF p, v1
  <2>5. v2 \in Variable /\ v2.is_pointer = p
    BY <2>2, <2>3, FieldsTyped
  <2> HIDE DEF v, v2
  <2> QED BY <2>2, <2>4, <2>5, FieldsTyped
<1>2. d.form \in {"plain", "array", "open", "function"} /\ d.n \in Nat
  BY DEF Declarator
<1>3. Inner(vd, d) = CASE d.form = "function" -> [v EXCEPT !.is_function = 1]
                       [] d.form = "array" -> [v EXCEPT !.array_size = d.n]
                       [] d.form = "open" -> [v EXCEPT !.is_pointer = @ + 1]
                       [] d.form = "plain" -> [v EXCEPT !.array_size = 0]
  BY Zenon DEF Inner
<1> HIDE DEF v
<1>4. /\ [v EXCEPT !.is_function = 1] \in Variable
      /\ [v EXCEPT !.array_size = d.n] \in Variable
      /\ [v EXCEPT !.is_pointer = @ + 1] \in Variable
      /\ [v EXCEPT !.array_size = 0] \in Variable
  <2>1. v.is_pointer + 1 \in 0..2 /\ 1 \in {0, 1} /\ 0 \in Nat
    BY <1>1
  <2> QED BY <1>1, <1>2, <2>1, FieldsTyped
<1> QED BY <1>2, <1>3, <1>4, Zenon

LEMMA FullTyped ==
    ASSUME NEW vd \in Variable, NEW d \in Declarator
    PROVE  Full(vd, d) \in Variable
<1>1. [vd EXCEPT !.type = d.type] \in Variable
  BY DEF Variable, Declarator
<1> QED BY <1>1, InnerTyped DEF Full

LEMMA PartialTyped ==
    ASSUME NEW vd \in Variable, NEW template \in Variable, NEW d \in Declarator
    PROVE  Partial(vd, template, d) \in Variable
<1>1. [vd EXCEPT !.type = template.type] \in Variable
  BY DEF Variable
<1>2. [d EXCEPT !.type = template.type] \in Declarator
  BY DEF Variable, Declarator
<1> QED BY <1>1, <1>2, InnerTyped DEF Partial

LEMMA ParameterListTyped ==
    ASSUME NEW slots \in Slots, NEW ps \in Parameters
    PROVE  ParameterList(slots, ps) \in Slots
<1>1. ps.vars \in Seq(Declarator)
  BY ProgramAssumption
<1> SUFFICES ASSUME NEW k \in 1..MAX_PARAMS
             PROVE  ParameterList(slots, ps)[k] \in Variable
  BY DEF ParameterList, Slots
<1>2. slots[k] \in Variable
  BY DEF Slots
<1>3. [slots[k] EXCEPT !.type = "int", !.name = "var_arg", !.is_pointer = 1] \in Variable
  <2> DEFINE v1 == [slots[k] EXCEPT !.type = "int"]
             v2 == [v1 EXCEPT !.name = "var_arg"]
  <2>1. 1 \in 0..2
    OBVIOUS
  <2>2. v1 \in Variable
    BY <1>2, NamesTyped, FieldsTyped, Zenon
  <2> HIDE DEF v1
  <2>3. v2 \in Variable
    BY <2>2, NamesTyped, FieldsTyped, Zenon
  <2> HIDE DEF v2
  <2>4. [v2 EXCEPT !.is_pointer = 1] \in Variable
    BY <2>1, <2>3, FieldsTyped, Zenon
  <2> QED BY <2>4, Zenon DEF v1, v2
<1>4. k <= Len(ps.vars) => Full(slots[k], ps.vars[k]) \in Variable
  <2>1. k <= Len(ps.vars) => ps.vars[k] \in Declarator
    BY <1>1, ElementTyped
  <2> QED BY <2>1, <1>2, FullTyped
<1> QED BY <1>2, <1>3, <1>4, Zenon DEF ParameterList

LEMMA NewFunctionTyped ==
    ASSUME NEW name \in Names
    PROVE  NewFunction(name) \in Function
<1>1. EmptySlots \in Slots
  BY BlankTyped DEF EmptySlots, Slots
<1> QED BY <1>1, MaxParamsAssumption DEF NewFunction, Function

LEMMA WithParametersTyped ==
    ASSUME NEW table \in Seq(Function), NEW f \in 1..Len(table), NEW ps \in Parameters
    PROVE  /\ WithParameters(table, f, ps) \in Seq(Function)
           /\ Len(WithParameters(table, f, ps)) = Len(table)
           /\ \A g \in 1..Len(table) :
                  /\ g # f => WithParameters(table, f, ps)[g] = table[g]
                  /\ WithParameters(table, f, ps)[g].name = table[g].name
                  /\ WithParameters(table, f, ps)[g].entry = table[g].entry
                  /\ WithParameters(table, f, ps)[g].exit = table[g].exit
           /\ WithParameters(table, f, ps)[f].params = ParameterList(table[f].params, ps)
           /\ WithParameters(table, f, ps)[f].num_params =
                  IF ps.variadic THEN MAX_PARAMS ELSE Len(ps.vars)
<1> DEFINE count == IF ps.variadic THEN MAX_PARAMS ELSE Len(ps.vars)
           x == [table[f] EXCEPT !.params = ParameterList(@, ps), !.num_params = count]
<1>1. count \in 0..MAX_PARAMS
  BY ProgramAssumption, MaxParamsAssumption
<1>2. table[f] \in Function /\ table[f].params \in Slots
  <2>1. table[f] \in Function
    OBVIOUS
  <2> QED BY <2>1 DEF Function
<1>3. ParameterList(table[f].params, ps) \in Slots
  BY <1>2, ParameterListTyped
<1>4. WithParameters(table, f, ps) = [table EXCEPT ![f] = x]
  <2> DEFINE t1 == [table EXCEPT ![f] = [table[f] EXCEPT !.params = ParameterList(@, ps)]]
  <2>1. WithParameters(table, f, ps)
            = [t1 EXCEPT ![f] = [t1[f] EXCEPT !.num_params = count]]
    BY Zenon DEF WithParameters
  <2>2. t1[f] = [table[f] EXCEPT !.params = ParameterList(@, ps)]
    OBVIOUS
  <2> DEFINE y == [table[f] EXCEPT !.params = ParameterList(@, ps)]
             z == [y EXCEPT !.num_params = count]
  <2>3. z = x
    BY Zenon
  <2>4. WithParameters(table, f, ps) = [t1 EXCEPT ![f] = z]
    BY <2>1, <2>2
  <2> HIDE DEF y, z
  <2>5. [[table EXCEPT ![f] = y] EXCEPT ![f] = z] = [table EXCEPT ![f] = z]
    OBVIOUS
  <2> QED BY <2>3, <2>4, <2>5, Zenon DEF y
<1> HIDE DEF count
<1>5. /\ x \in Function /\ x.name = table[f].name /\ x.entry = table[f].entry
      /\ x.exit = table[f].exit
      /\ x.params = ParameterList(table[f].params, ps) /\ x.num_params = count
  BY <1>1, <1>2, <1>3 DEF Function
<1> HIDE DEF x
<1>6. /\ [table EXCEPT ![f] = x] \in Seq(Function)
      /\ Len([table EXCEPT ![f] = x]) = Len(table)
      /\ [table EXCEPT ![f] = x][f] = x
      /\ \A g \in 1..Len(table) : g # f => [table EXCEPT ![f] = x][g] = table[g]
  BY <1>5, ChangeTyped
<1> QED BY <1>4, <1>5, <1>6, Zenon DEF count

-----------------------------------------------------------------------------
(* Look-ups.                                                               *)

LEMMA FirstProperties ==
    ASSUME NEW S, S \subseteq Nat, S # {}
    PROVE  First(S) \in S /\ \A j \in S : First(S) <= j
BY SmallestMember DEF First

\* What is found has the name, and nothing before it has.
LEMMA InTableProperties ==
    ASSUME NEW kind \in Kinds, NEW of \in Nat, NEW table, Len(table) \in Nat, NEW name,
           kind # "none"
    PROVE  /\ InTable(kind, of, table, name) \in Entities
           /\ InTable(kind, of, table, name) = Nothing <=> Named(table, name) = {}
           /\ InTable(kind, of, table, name) # Nothing =>
                  LET e == InTable(kind, of, table, name) IN
                  /\ e.kind = kind /\ e.of = of
                  /\ e.k \in 1..Len(table) /\ table[e.k].name = name
                  /\ \A j \in 1..Len(table) : table[j].name = name => e.k <= j
<1>1. Named(table, name) \subseteq 1..Len(table) /\ Named(table, name) \subseteq Nat
  BY DEF Named
<1>2. Nothing \in Entities /\ Nothing.kind = "none"
  BY DEF Nothing, Entity, Entities, Kinds
<1>3. CASE Named(table, name) = {}
  <2>1. InTable(kind, of, table, name) = Nothing
    BY <1>3 DEF InTable
  <2> QED BY <1>2, <1>3, <2>1
<1>4. CASE Named(table, name) # {}
  <2>1. PICK k : k = First(Named(table, name))
    OBVIOUS
  <2>2. k \in Named(table, name) /\ \A j \in Named(table, name) : k <= j
    BY <1>1, <1>4, <2>1, FirstProperties
  <2>3. InTable(kind, of, table, name) = Entity(kind, of, k)
    BY <1>4, <2>1, Zenon DEF InTable
  <2>4. k \in 1..Len(table) /\ table[k].name = name /\ k \in Nat
    BY <2>2 DEF Named
  <2>5. \A j \in 1..Len(table) : table[j].name = name => k <= j
    BY <2>2 DEF Named
  <2>6. /\ Entity(kind, of, k) \in Entities
        /\ Entity(kind, of, k).kind = kind /\ Entity(kind, of, k).of = of
        /\ Entity(kind, of, k).k = k
    BY <2>4 DEF Entity, Entities
  <2>7. Entity(kind, of, k) # Nothing
    BY <1>2, <2>6
  <2> QED BY <1>4, <2>3, <2>4, <2>5, <2>6, <2>7, Zenon
<1> QED BY <1>3, <1>4

\* The entry that is found does not change when the table grows.
LEMMA InTableStable ==
    ASSUME NEW kind \in Kinds, NEW of \in Nat, NEW table, Len(table) \in Nat, NEW name,
           kind # "none",
           NEW longer, Len(longer) \in Nat, Len(table) <= Len(longer),
           \A k \in 1..Len(table) : longer[k].name = table[k].name,
           InTable(kind, of, table, name) # Nothing
    PROVE  InTable(kind, of, longer, name) = InTable(kind, of, table, name)
<1> DEFINE e == InTable(kind, of, table, name)
<1>1. e.k \in 1..Len(table) /\ table[e.k].name = name
      /\ \A j \in 1..Len(table) : table[j].name = name => e.k <= j
  BY InTableProperties
<1>2. PICK k : k = e.k
  OBVIOUS
<1>3. PICK m : m = First(Named(longer, name))
  OBVIOUS
<1>4. k \in Named(longer, name) /\ Named(longer, name) \subseteq Nat
  BY <1>1, <1>2 DEF Named
<1>5. m \in Named(longer, name) /\ m <= k
  BY <1>3, <1>4, FirstProperties
<1>6. m \in 1..Len(table) /\ table[m].name = name
  BY <1>1, <1>2, <1>5 DEF Named
<1>7. m = k
  BY <1>1, <1>2, <1>5, <1>6
<1>8. InTable(kind, of, longer, name) = Entity(kind, of, m)
  BY <1>3, <1>4, Zenon DEF InTable
<1>9. e = Entity(kind, of, e.k)
  <2>1. Named(table, name) # {}
    BY InTableProperties
  <2>2. e = Entity(kind, of, First(Named(table, name)))
    BY <2>1, Zenon DEF InTable
  <2>3. Entity(kind, of, First(Named(table, name))).k = First(Named(table, name))
    BY DEF Entity
  <2> QED BY <2>2, <2>3, Zenon
<1> QED BY <1>2, <1>7, <1>8, <1>9, Zenon

LEMMA ElseTyped ==
    ASSUME NEW S, NEW found \in S, NEW other \in S
    PROVE  Else(found, other) \in S
BY DEF Else

\* A value for each block, from that of the block it is in.
Chained(n, base, of, in, f) ==
    f = [b \in 0..n |-> IF b = 0 THEN base ELSE Else(of[b], f[in[b]])]

LEMMA ChainedExists ==
    ASSUME NEW S, NEW n \in Nat, NEW base \in S, NEW of, NEW in,
           \A b \in 1..n : of[b] \in S /\ in[b] \in 0..(b - 1)
    PROVE  \E f \in [0..n -> S] : Chained(n, base, of, in, f)
<1> DEFINE E(m) == \E f \in [0..m -> S] : Chained(m, base, of, in, f)
           Bad == {m \in 0..n : ~ E(m)}
<1>1. E(0)
  <2> DEFINE f == [b \in 0..0 |-> base]
  <2>1. f \in [0..0 -> S]
    OBVIOUS
  <2>2. f = [b \in 0..0 |-> IF b = 0 THEN base ELSE Else(of[b], f[in[b]])]
    OBVIOUS
  <2> HIDE DEF f
  <2>3. Chained(0, base, of, in, f)
    BY <2>2, Zenon DEF Chained
  <2> QED BY <2>1, <2>3
<1>2. ASSUME NEW m \in Nat, m + 1 <= n, E(m)
      PROVE  E(m + 1)
  <2>1. PICK f \in [0..m -> S] : Chained(m, base, of, in, f)
    BY <1>2
  <2> DEFINE next == Else(of[m + 1], f[in[m + 1]])
             g == [b \in 0..(m + 1) |-> IF b = m + 1 THEN next ELSE f[b]]
  <2>2. next \in S
    <3>1. of[m + 1] \in S /\ in[m + 1] \in 0..m
      BY <1>2
    <3>2. f[in[m + 1]] \in S
      BY <2>1, <3>1
    <3> QED BY <3>1, <3>2, ElseTyped
  <2> HIDE DEF next
  <2>3. g \in [0..(m + 1) -> S]
    BY <2>1, <2>2
  <2>4. ASSUME NEW b \in 0..(m + 1)
        PROVE  g[b] = IF b = 0 THEN base ELSE Else(of[b], g[in[b]])
    <3>1. CASE b = m + 1
      <4>1. in[m + 1] \in 0..m /\ b # 0
        BY <1>2, <3>1
      <4>2. g[in[m + 1]] = f[in[m + 1]]
        BY <4>1
      <4>3. g[b] = next
        BY <3>1
      <4> HIDE DEF g
      <4> QED BY <3>1, <4>1, <4>2, <4>3, Zenon DEF next
    <3>2. CASE b # m + 1
      <4>1. b \in 0..m /\ g[b] = f[b]
        BY <3>2
      <4>2. b # 0 => g[in[b]] = f[in[b]]
        <5>1. b # 0 => in[b] \in 0..m
          BY <1>2, <4>1
        <5> QED BY <5>1
      <4>3. f[b] = IF b = 0 THEN base ELSE Else(of[b], f[in[b]])
        <5>1. f = [c \in 0..m |-> IF c = 0 THEN base ELSE Else(of[c], f[in[c]])]
          BY <2>1, Zenon DEF Chained
        <5> QED BY <4>1, <5>1, Zenon
      <4> HIDE DEF g
      <4> QED BY <4>1, <4>2, <4>3, Zenon
    <3> QED BY <3>1, <3>2
  <2>5. g = [b \in 0..(m + 1) |-> IF b = 0 THEN base ELSE Else(of[b], g[in[b]])]
    <3> DEFINE R == [b \in 0..(m + 1) |-> IF b = 0 THEN base ELSE Else(of[b], g[in[b]])]
    <3>1. \A b \in 0..(m + 1) : R[b] = g[b]
      BY <2>4, Zenon
    <3>2. g = [b \in 0..(m + 1) |-> g[b]]
      OBVIOUS
    <3>3. R = [b \in 0..(m + 1) |-> R[b]]
      OBVIOUS
    <3> HIDE DEF g, R
    <3>4. g = R
      BY <3>1, <3>2, <3>3, Zenon
    <3> QED BY <3>4, Zenon DEF R
  <2> HIDE DEF g
  <2>6. Chained(m + 1, base, of, in, g)
    BY <2>5, Zenon DEF Chained
  <2> QED BY <2>3, <2>6
<1> HIDE DEF E
<1>3. Bad = {}
  <2> SUFFICES ASSUME Bad # {} PROVE FALSE
    OBVIOUS
  <2>1. PICK x \in Bad : \A y \in Bad : x <= y
    <3>1. Bad \subseteq Nat
      OBVIOUS
    <3> QED BY <3>1, SmallestMember
  <2>2. x \in Nat /\ x # 0 /\ x <= n
    BY <1>1
  <2>3. x - 1 \in Nat /\ E(x - 1)
    BY <2>1, <2>2
  <2>4. E((x - 1) + 1)
    BY <1>2, <2>2, <2>3
  <2>5. (x - 1) + 1 = x
    BY <2>2
  <2> QED BY <2>4, <2>5
<1>4. E(n)
  BY <1>3
<1> QED BY <1>4 DEF E

\* What find_local_variable finds in a block or one of those around it.
Within(name) ==
    CHOOSE within : within =
        [b \in 0..Len(blocks) |->
            IF b = 0 THEN Nothing
            ELSE Else(InTable("local", b, blocks[b].locals, name), within[blocks[b].parent])]

LEMMA WithinProperties ==
    ASSUME Typed, Nested, NEW name
    PROVE  /\ Within(name) \in [0..Len(blocks) -> Entities]
           /\ Within(name)[0] = Nothing
           /\ \A b \in 1..Len(blocks) :
                  Within(name)[b] = Else(InTable("local", b, blocks[b].locals, name),
                                         Within(name)[blocks[b].parent])
<1> DEFINE of == [b \in 1..Len(blocks) |-> InTable("local", b, blocks[b].locals, name)]
           in == [b \in 1..Len(blocks) |-> blocks[b].parent]
           Equation(f) ==
               f = [b \in 0..Len(blocks) |->
                       IF b = 0 THEN Nothing
                       ELSE Else(InTable("local", b, blocks[b].locals, name),
                                 f[blocks[b].parent])]
<1>1. \A b \in 1..Len(blocks) : of[b] \in Entities /\ in[b] \in 0..(b - 1)
  <2> SUFFICES ASSUME NEW b \in 1..Len(blocks)
               PROVE  of[b] \in Entities /\ in[b] \in 0..(b - 1)
    OBVIOUS
  <2>1. blocks[b] \in Block /\ b \in Nat
    BY ElementTyped DEF Typed
  <2>2. Len(blocks[b].locals) \in Nat
    BY <2>1 DEF Block
  <2>3. InTable("local", b, blocks[b].locals, name) \in Entities
    BY <2>1, <2>2, InTableProperties DEF Kinds
  <2> QED BY <2>3 DEF Nested
<1>2. Nothing \in Entities /\ Len(blocks) \in Nat
  BY DEF Nothing, Entity, Entities, Kinds, Typed
<1> HIDE DEF of, in
<1>3. PICK f \in [0..Len(blocks) -> Entities] : Chained(Len(blocks), Nothing, of, in, f)
  BY <1>1, <1>2, ChainedExists
<1>4. Equation(f)
  <2> DEFINE R == [b \in 0..Len(blocks) |-> IF b = 0 THEN Nothing ELSE Else(of[b], f[in[b]])]
             Q == [b \in 0..Len(blocks) |->
                       IF b = 0 THEN Nothing
                       ELSE Else(InTable("local", b, blocks[b].locals, name),
                                 f[blocks[b].parent])]
  <2>1. f = R
    BY <1>3, Zenon DEF Chained
  <2>2. \A b \in 1..Len(blocks) : of[b] = InTable("local", b, blocks[b].locals, name)
                                  /\ in[b] = blocks[b].parent
    BY Zenon DEF of, in
  <2>3. \A b \in 0..Len(blocks) : b # 0 => b \in 1..Len(blocks)
    BY <1>2
  <2>4. \A b \in 0..Len(blocks) : R[b] = Q[b]
    BY <2>2, <2>3, Zenon
  <2>5. R = [b \in 0..Len(blocks) |-> R[b]] /\ Q = [b \in 0..Len(blocks) |-> Q[b]]
    BY Zenon
  <2> HIDE DEF R, Q
  <2>6. R = Q
    BY <2>4, <2>5, Zenon
  <2> QED BY <2>1, <2>6, Zenon DEF Q
<1> HIDE DEF Equation
<1>5. Within(name) = CHOOSE g : Equation(g)
  BY Zenon DEF Within, Equation
<1>6. Equation(Within(name))
  BY <1>4, <1>5, Zenon
<1>7. Within(name) = [b \in 0..Len(blocks) |->
                         IF b = 0 THEN Nothing
                         ELSE Else(InTable("local", b, blocks[b].locals, name),
                                   Within(name)[blocks[b].parent])]
  BY <1>6, Zenon DEF Equation
<1>8. /\ Within(name)[0] = Nothing
      /\ \A b \in 1..Len(blocks) :
             Within(name)[b] = Else(InTable("local", b, blocks[b].locals, name),
                                    Within(name)[blocks[b].parent])
  <2>1. 0 \in 0..Len(blocks)
        /\ \A b \in 1..Len(blocks) : b \in 0..Len(blocks) /\ b # 0
    BY <1>2
  <2> QED BY <1>7, <2>1, Zenon
<1>9. Within(name) \in [0..Len(blocks) -> Entities]
  <2>1. \A b \in 0..Len(blocks) : Within(name)[b] = f[b]
    <3> DEFINE Bad == {b \in 0..Len(blocks) : Within(name)[b] # f[b]}
    <3> SUFFICES ASSUME Bad # {} PROVE FALSE
      OBVIOUS
    <3>1. Bad \subseteq Nat
      OBVIOUS
    <3>2. PICK x \in Bad : \A y \in Bad : x <= y
      BY <3>1, SmallestMember
    <3>3. /\ f[0] = Nothing
          /\ \A b \in 1..Len(blocks) :
                 f[b] = Else(InTable("local", b, blocks[b].locals, name), f[blocks[b].parent])
      <4>1. 0 \in 0..Len(blocks)
            /\ \A b \in 1..Len(blocks) : b \in 0..Len(blocks) /\ b # 0
        BY <1>2
      <4>2. f = [b \in 0..Len(blocks) |->
                    IF b = 0 THEN Nothing
                    ELSE Else(InTable("local", b, blocks[b].locals, name),
                              f[blocks[b].parent])]
        BY <1>4, Zenon DEF Equation
      <4> QED BY <4>1, <4>2, Zenon
    <3>4. x \in 1..Len(blocks)
      BY <1>2, <1>8, <3>3
    <3>5. blocks[x].parent \in 0..(x - 1) /\ x - 1 <= Len(blocks)
      BY <1>2, <3>4 DEF Nested
    <3>6. Within(name)[blocks[x].parent] = f[blocks[x].parent]
      <4>1. PICK p : p = blocks[x].parent
        OBVIOUS
      <4>2. p \in 0..Len(blocks) /\ ~(x <= p)
        BY <1>2, <3>4, <3>5, <4>1
      <4> QED BY <3>2, <4>1, <4>2
    <3>7. Within(name)[x] = f[x]
      BY <1>8, <3>3, <3>4, <3>6, Zenon
    <3> QED BY <3>2, <3>7
  <2>2. Within(name) = [b \in 0..Len(blocks) |-> Within(name)[b]]
    BY <1>7
  <2> QED BY <2>1, <2>2
<1> QED BY <1>8, <1>9

LEMMA FindLocalIs ==
    ASSUME NEW name
    PROVE  find_local_variable(name) =
               IF parent = 0 THEN Nothing
               ELSE Else(Within(name)[parent],
                         InTable("param", blocks[parent].function,
                                 ParamsOf(blocks[parent].function), name))
BY Zenon DEF find_local_variable, Within

LEMMA ParamsOfProperties ==
    ASSUME Typed, NEW f \in 1..Len(functions)
    PROVE  /\ ParamsOf(f) \in Seq(Variable) /\ Len(ParamsOf(f)) = functions[f].num_params
           /\ functions[f].num_params \in 0..MAX_PARAMS
           /\ \A k \in 1..functions[f].num_params : ParamsOf(f)[k] = functions[f].params[k]
<1>1. functions[f] \in Function
  BY ElementTyped DEF Typed
<1>2. PICK s, n : s = functions[f].params /\ n = functions[f].num_params
  OBVIOUS
<1>3. s \in [1..MAX_PARAMS -> Variable] /\ n \in 0..MAX_PARAMS /\ MAX_PARAMS \in Nat
  BY <1>1, <1>2, MaxParamsAssumption DEF Function, Slots
<1>4. s \in Seq(Variable) /\ Len(s) = MAX_PARAMS
  BY <1>3
<1>5. /\ SubSeq(s, 1, n) \in Seq(Variable) /\ Len(SubSeq(s, 1, n)) = n
      /\ \A k \in 1..n : SubSeq(s, 1, n)[k] = s[k]
  BY <1>3, <1>4, SubSeqProperties
<1> QED BY <1>2, <1>3, <1>5, Zenon DEF ParamsOf

LEMMA FoundTyped ==
    ASSUME Places, NEW name
    PROVE  /\ find_local_variable(name) \in Entities
           /\ find_variable(name) \in Entities
           /\ find_function(name) \in Entities
           /\ find_constant(name) \in Entities /\ find_type(name) \in Entities
           /\ Operand(name) \in Entities /\ Statement(name) \in Entities
<1> USE DEF Places
<1>1. Nothing \in Entities
  BY DEF Nothing, Entity, Entities, Kinds
<1>2. find_local_variable(name) \in Entities
  <2>1. CASE parent = 0
    BY <1>1, <2>1, FindLocalIs
  <2>2. CASE parent # 0
    <3>1. parent \in 1..Len(blocks) /\ parent \in 0..Len(blocks)
      BY <2>2 DEF Open, Typed
    <3>2. PICK f : f = blocks[parent].function
      OBVIOUS
    <3>3. f \in 1..Len(functions) /\ f \in Nat
      BY <3>1, <3>2 DEF Nested
    <3>4. Len(ParamsOf(f)) \in Nat
      BY <3>3, ParamsOfProperties
    <3>5. InTable("param", f, ParamsOf(f), name) \in Entities
      BY <3>3, <3>4, InTableProperties DEF Kinds
    <3>6. Within(name)[parent] \in Entities
      BY <3>1, WithinProperties
    <3> QED BY <2>2, <3>2, <3>5, <3>6, ElseTyped, FindLocalIs
  <2> QED BY <2>1, <2>2
<1>3. Len(types) \in Nat /\ Len(constants) \in Nat /\ Len(functions) \in Nat
      /\ Len(globals) \in Nat
  BY DEF Typed
<1>4. /\ InTable("type", 0, types, name) \in Entities
      /\ InTable("constant", 0, constants, name) \in Entities
      /\ InTable("function", 0, functions, name) \in Entities
      /\ InTable("global", 0, globals, name) \in Entities
  BY <1>3, InTableProperties DEF Kinds
<1>5. find_type(name) \in Entities /\ find_constant(name) \in Entities
      /\ find_function(name) \in Entities /\ find_global_variable(name) \in Entities
  BY <1>4, Zenon DEF find_type, find_constant, find_function, find_global_variable
<1>6. find_variable(name) \in Entities
  BY <1>2, <1>5, ElseTyped DEF find_variable
<1> QED BY <1>2, <1>5, <1>6, ElseTyped, Zenon DEF Operand, Statement

-----------------------------------------------------------------------------
(* The fields of a variable, and its size.                                 *)

LEMMA InnerFields ==
    ASSUME NEW vd \in Variable, NEW d \in Declarator
    PROVE  LET v == Inner(vd, d) IN
           /\ v.type = vd.type /\ v.name = d.name /\ v.declarator = d
           /\ v.is_pointer = (IF d.star THEN 1 ELSE 0) + (IF d.form = "open" THEN 1 ELSE 0)
           /\ v.is_function = IF d.form = "function" THEN 1 ELSE vd.is_function
           /\ v.array_size = IF d.form = "array" THEN d.n
                             ELSE IF d.form = "plain" THEN 0 ELSE vd.array_size
<1> DEFINE p == IF d.star THEN 1 ELSE 0
           v1 == [vd EXCEPT !.name = d.name]
           v2 == [v1 EXCEPT !.is_pointer = p]
           v3 == [v2 EXCEPT !.declarator = d]
<1>1. d.form \in {"plain", "array", "open", "function"} /\ d.n \in Nat /\ d.name \in Names
  BY DEF Declarator
<1>2. p \in 0..1
  OBVIOUS
<1>3. Inner(vd, d) = CASE d.form = "function" -> [v3 EXCEPT !.is_function = 1]
                       [] d.form = "array" -> [v3 EXCEPT !.array_size = d.n]
                       [] d.form = "open" -> [v3 EXCEPT !.is_pointer = @ + 1]
                       [] d.form = "plain" -> [v3 EXCEPT !.array_size = 0]
  BY Zenon DEF Inner
<1> HIDE DEF p
<1>4. v1 \in Variable /\ v1.type = vd.type /\ v1.name = d.name
      /\ v1.is_function = vd.is_function /\ v1.array_size = vd.array_size
  BY <1>1 DEF Variable
<1> HIDE DEF v1
<1>5. v2 \in Variable /\ v2.type = vd.type /\ v2.name = d.name
      /\ v2.is_function = vd.is_function /\ v2.array_size = vd.array_size
      /\ v2.is_pointer = p
  BY <1>2, <1>4 DEF Variable
<1> HIDE DEF v2
<1>6. v3 \in Variable /\ v3.type = vd.type /\ v3.name = d.name
      /\ v3.is_function = vd.is_function /\ v3.array_size = vd.array_size
      /\ v3.is_pointer = p /\ v3.declarator = d
  BY <1>5 DEF Variable
<1> HIDE DEF v3
<1>7. CASE d.form = "function"
  <2>1. Inner(vd, d) = [v3 EXCEPT !.is_function = 1]
    BY <1>3, <1>7
  <2> QED BY <2>1, <1>2, <1>6, <1>7 DEF Variable, p
<1>8. CASE d.form = "array"
  <2>1. Inner(vd, d) = [v3 EXCEPT !.array_size = d.n]
    BY <1>3, <1>8
  <2> QED BY <2>1, <1>2, <1>6, <1>8 DEF Variable, p
<1>9. CASE d.form = "open"
  <2>1. Inner(vd, d) = [v3 EXCEPT !.is_pointer = @ + 1]
    BY <1>3, <1>9
  <2> QED BY <2>1, <1>2, <1>6, <1>9 DEF Variable, p
<1>10. CASE d.form = "plain"
  <2>1. Inner(vd, d) = [v3 EXCEPT !.array_size = 0]
    BY <1>3, <1>10
  <2> QED BY <2>1, <1>2, <1>6, <1>10 DEF Variable, p
<1> QED BY <1>1, <1>7, <1>8, <1>9, <1>10, Zenon

LEMMA FullFields ==
    ASSUME NEW vd \in Variable, NEW d \in Declarator
    PROVE  LET v == Full(vd, d) IN
           /\ v.type = d.type /\ v.name = d.name /\ v.declarator = d
           /\ v.is_pointer = (IF d.star THEN 1 ELSE 0) + (IF d.form = "open" THEN 1 ELSE 0)
           /\ v.is_function = IF d.form = "function" THEN 1 ELSE vd.is_function
           /\ v.array_size = IF d.form = "array" THEN d.n
                             ELSE IF d.form = "plain" THEN 0 ELSE vd.array_size
<1> DEFINE w == [vd EXCEPT !.type = d.type]
<1>1. w \in Variable /\ w.type = d.type /\ w.is_function = vd.is_function
      /\ w.array_size = vd.array_size
  BY DEF Variable, Declarator
<1> HIDE DEF w
<1>2. Full(vd, d) = Inner(w, d)
  BY Zenon DEF Full, w
<1>3. PICK v : v = Inner(w, d)
  OBVIOUS
<1>4. /\ v.type = w.type /\ v.name = d.name /\ v.declarator = d
      /\ v.is_pointer = (IF d.star THEN 1 ELSE 0) + (IF d.form = "open" THEN 1 ELSE 0)
      /\ v.is_function = IF d.form = "function" THEN 1 ELSE w.is_function
      /\ v.array_size = IF d.form = "array" THEN d.n
                        ELSE IF d.form = "plain" THEN 0 ELSE w.array_size
  BY <1>1, <1>3, InnerFields
<1> QED BY <1>1, <1>2, <1>3, <1>4, Zenon

LEMMA PartialFields ==
    ASSUME NEW template \in Variable, NEW d \in Declarator
    PROVE  LET v == Partial(Zeroed, template, d)
               e == [d EXCEPT !.type = template.type]
           IN /\ v = Full(Zeroed, e) /\ e \in Declarator /\ e.type = template.type
              /\ e.form = d.form /\ e.star = d.star /\ e.n = d.n /\ e.name = d.name
<1>1. PICK e : e = [d EXCEPT !.type = template.type]
  OBVIOUS
<1>2. e \in Declarator /\ e.type = template.type
      /\ e.form = d.form /\ e.star = d.star /\ e.n = d.n /\ e.name = d.name
  BY <1>1 DEF Declarator, Variable
<1>3. Partial(Zeroed, template, d) = Inner([Zeroed EXCEPT !.type = template.type], e)
  BY <1>1, Zenon DEF Partial
<1>4. Full(Zeroed, e) = Inner([Zeroed EXCEPT !.type = template.type], e)
  BY <1>2, Zenon DEF Full
<1> QED BY <1>1, <1>2, <1>3, <1>4, Zenon

LEMMA TypeNamedTyped ==
    ASSUME types \in Seq(Type), NEW name, find_type(name) # Nothing
    PROVE  TypeNamed(name) \in Type /\ TypeNamed(name).size \in Nat
<1>1. Len(types) \in Nat
  OBVIOUS
<1>2. find_type(name).k \in 1..Len(types)
  BY <1>1, InTableProperties DEF find_type, Kinds
<1>3. TypeNamed(name) \in Type
  BY <1>2, ElementTyped DEF TypeNamed
<1> QED BY <1>3 DEF Type

LEMMA SizesTyped ==
    ASSUME types \in Seq(Type), NEW v \in Variable, SizeKnown(v)
    PROVE  size_variable(v) \in Nat /\ p_get_size(v) \in Nat
<1>1. CASE v.is_pointer > 0 \/ v.is_function > 0
  BY <1>1 DEF size_variable, p_get_size
<1>2. CASE ~ (v.is_pointer > 0 \/ v.is_function > 0)
  <2>1. PICK s : s = TypeNamed(v.type).size
    OBVIOUS
  <2>2. find_type(v.type) # Nothing
    BY <1>2, Zenon DEF SizeKnown
  <2>3. s \in Nat
    BY <2>1, <2>2, TypeNamedTyped
  <2>4. v.array_size \in Nat
    BY DEF Variable
  <2>5. \A m, n \in Nat : m * n \in Nat
    OBVIOUS
  <2>6. v.array_size * s \in Nat
    BY <2>3, <2>4, <2>5
  <2>7. /\ size_variable(v) = IF v.array_size > 0 THEN v.array_size * s ELSE s
        /\ p_get_size(v) = s
    BY <1>2, <2>1, Zenon DEF size_variable, p_get_size
  <2> QED BY <2>3, <2>6, <2>7, Zenon
<1> QED BY <1>1, <1>2

\* A type that is known stays the same type, whatever is declared after it.
LEMMA TypesStable ==
    ASSUME types \in Seq(Type), NEW t \in Type, types' = Append(types, t), NEW name,
           find_type(name) # Nothing
    PROVE  find_type(name)' = find_type(name) /\ TypeNamed(name)' = TypeNamed(name)
<1>1. PICK new : new = Append(types, t)
  OBVIOUS
<1>2. /\ new \in Seq(Type) /\ Len(new) = Len(types) + 1
      /\ \A k \in 1..Len(types) : new[k] = types[k]
  BY <1>1, AppendTyped
<1>3. Len(types) \in Nat /\ Len(new) \in Nat
  BY <1>2
<1>4. InTable("type", 0, types, name) # Nothing
  BY Zenon DEF find_type
<1>5. InTable("type", 0, new, name) = InTable("type", 0, types, name)
  BY <1>2, <1>3, <1>4, InTableStable DEF Kinds
<1>6. find_type(name)' = find_type(name)
  BY <1>1, <1>5, Zenon DEF find_type
<1>7. find_type(name).k \in 1..Len(types)
  BY <1>3, InTableProperties DEF find_type, Kinds
<1>8. TypeNamed(name)' = new[find_type(name).k]
  BY <1>1, <1>6, Zenon DEF TypeNamed
<1> QED BY <1>2, <1>6, <1>7, <1>8, Zenon DEF TypeNamed

\* The values of enumerators.
LEMMA ValuesTyped ==
    ASSUME NEW es \in Enumerators
    PROVE  \A k \in 1..Len(es) : Values(es)[k] \in Int
<1> DEFINE Enumerator == [name : Names, assigned : BOOLEAN, value : Int]
           starts == [k \in 1..Len(es) |-> es[k].assigned]
           at == [k \in 1..Len(es) |-> es[k].value]
           step == [k \in 1..Len(es) |-> 1]
           Equation(f) == f = [k \in 1..Len(es) |->
                                  IF es[k].assigned THEN es[k].value
                                  ELSE IF k = 1 THEN 0 ELSE f[k - 1] + 1]
<1>1. es \in Seq(Enumerator) /\ Len(es) \in Nat
  <2>1. es \in Seq(Enumerator)
    BY ProgramAssumption, Zenon
  <2> HIDE DEF Enumerator
  <2> QED BY <2>1, ElementTyped
<1>2. \A k \in 1..Len(es) : es[k].value \in Int
  <2>1. \A e \in Enumerator : e.value \in Int
    OBVIOUS
  <2> HIDE DEF Enumerator
  <2> QED BY <1>1, <2>1, ElementTyped
<1>3. \A k \in 1..Len(es) : at[k] \in Int /\ step[k] \in Nat
  BY <1>2
<1> HIDE DEF starts, at, step
<1>4. PICK f \in [1..Len(es) -> Int] : Accumulated(Len(es), starts, at, step, f)
  BY <1>1, <1>3, AccumulatedExists
<1>5. Equation(f)
  <2> DEFINE R == [k \in 1..Len(es) |-> IF starts[k] THEN at[k]
                                        ELSE IF k = 1 THEN 0 ELSE f[k - 1] + step[k]]
             Q == [k \in 1..Len(es) |-> IF es[k].assigned THEN es[k].value
                                        ELSE IF k = 1 THEN 0 ELSE f[k - 1] + 1]
  <2>1. f = R
    BY <1>4, Zenon DEF Accumulated
  <2>2. \A k \in 1..Len(es) : R[k] = Q[k]
    BY Zenon DEF starts, at, step
  <2>3. R = [k \in 1..Len(es) |-> R[k]] /\ Q = [k \in 1..Len(es) |-> Q[k]]
    BY Zenon
  <2> HIDE DEF R, Q
  <2>4. R = Q
    BY <2>2, <2>3, Zenon
  <2> QED BY <2>1, <2>4, Zenon DEF Q
<1> HIDE DEF Equation
<1>6. Values(es) = CHOOSE g : Equation(g)
  BY Zenon DEF Values, Equation
<1>7. PICK v : v = Values(es)
  OBVIOUS
<1>8. Equation(v)
  BY <1>5, <1>6, <1>7, Zenon
<1>9. \A k \in 1..Len(es) :
          v[k] = IF es[k].assigned THEN es[k].value ELSE IF k = 1 THEN 0 ELSE v[k - 1] + 1
  BY <1>8, Zenon DEF Equation
<1> DEFINE Bad == {k \in 1..Len(es) : v[k] \notin Int}
<1>10. Bad = {}
  <2> SUFFICES ASSUME Bad # {} PROVE FALSE
    OBVIOUS
  <2>1. Bad \subseteq Nat
    OBVIOUS
  <2>2. PICK x \in Bad : \A y \in Bad : x <= y
    BY <2>1, SmallestMember
  <2>3. x \in 1..Len(es) /\ v[x] \notin Int
    OBVIOUS
  <2>4. v[x] = IF es[x].assigned THEN es[x].value ELSE IF x = 1 THEN 0 ELSE v[x - 1] + 1
    BY <1>9, <2>3
  <2>5. x # 1 => v[x - 1] \in Int
    <3>1. x # 1 => x - 1 \in 1..Len(es) /\ ~(x <= x - 1)
      BY <1>1, <2>3
    <3> QED BY <2>2, <3>1
  <2>6. x # 1 => v[x - 1] + 1 \in Int
    BY <2>5
  <2>7. 0 \in Int
    OBVIOUS
  <2> QED BY <1>2, <2>3, <2>4, <2>6, <2>7, Zenon
<1> QED BY <1>7, <1>10

\* The fields of a struct are laid one behind the other.
LEMMA LaidProperties ==
    ASSUME types \in Seq(Type), NEW ds \in Fields,
           \A k \in 1..Len(ds) : SizeKnown(Full(Zeroed, ds[k]))
    PROVE  /\ Laid(ds) \in Seq(Field) /\ Len(Laid(ds)) = Len(ds) /\ Len(ds) \in Nat \ {0}
           /\ \A k \in 1..Len(ds) :
                  /\ Laid(ds)[k].var = Full(Zeroed, ds[k])
                  /\ Laid(ds)[k].offset =
                         IF k = 1 THEN 0
                         ELSE Laid(ds)[k - 1].offset + size_variable(Laid(ds)[k - 1].var)
<1> DEFINE v == [k \in 1..Len(ds) |-> Full(Zeroed, ds[k])]
           starts == [k \in 1..Len(ds) |-> FALSE]
           zeroes == [k \in 1..Len(ds) |-> 0]
           step == [k \in 1..Len(ds) |-> IF k = 1 THEN 0 ELSE size_variable(v[k - 1])]
           Equation(f) == f = [k \in 1..Len(ds) |->
                                  IF k = 1 THEN 0 ELSE f[k - 1] + size_variable(v[k - 1])]
<1>1. ds \in Seq(Declarator) /\ Len(ds) \in Nat \ {0}
  <2>1. ds \in Seq(Declarator) /\ Len(ds) > 0
    BY ProgramAssumption, Zenon
  <2>2. Len(ds) \in Nat
    BY <2>1, ElementTyped
  <2> QED BY <2>1, <2>2
<1>2. \A k \in 1..Len(ds) : ds[k] \in Declarator
  BY <1>1, ElementTyped
<1>3. \A k \in 1..Len(ds) : v[k] \in Variable /\ v[k] = Full(Zeroed, ds[k])
  BY <1>2, FullTyped, BlankTyped
<1>4. \A k \in 1..Len(ds) : size_variable(v[k]) \in Nat
  <2> SUFFICES ASSUME NEW k \in 1..Len(ds) PROVE size_variable(v[k]) \in Nat
    OBVIOUS
  <2>1. PICK w : w = v[k]
    OBVIOUS
  <2>2. w \in Variable /\ w = Full(Zeroed, ds[k])
    BY <1>3, <2>1
  <2>3. SizeKnown(w)
    BY <2>2
  <2> QED BY <2>1, <2>2, <2>3, SizesTyped
<1> HIDE DEF v
<1>5. \A k \in 1..Len(ds) : zeroes[k] \in Nat /\ step[k] \in Nat
  <2> SUFFICES ASSUME NEW k \in 1..Len(ds) PROVE step[k] \in Nat
    OBVIOUS
  <2>1. k # 1 => k - 1 \in 1..Len(ds)
    BY <1>1
  <2> QED BY <1>4, <2>1
<1>6. PICK f \in [1..Len(ds) -> Nat] : Accumulated(Len(ds), starts, zeroes, step, f)
  <2> HIDE DEF starts, zeroes, step
  <2> QED BY <1>1, <1>5, AccumulatedExists
<1>7. Equation(f)
  <2> DEFINE R == [k \in 1..Len(ds) |-> IF starts[k] THEN zeroes[k]
                                        ELSE IF k = 1 THEN 0 ELSE f[k - 1] + step[k]]
             Q == [k \in 1..Len(ds) |-> IF k = 1 THEN 0
                                        ELSE f[k - 1] + size_variable(v[k - 1])]
  <2>1. f = R
    BY <1>6, Zenon DEF Accumulated
  <2>2. \A k \in 1..Len(ds) :
            ~ starts[k] /\ (k # 1 => step[k] = size_variable(v[k - 1]))
    BY Zenon DEF starts, step
  <2> HIDE DEF starts, zeroes, step
  <2>3. \A k \in 1..Len(ds) : R[k] = Q[k]
    BY <2>2, Zenon
  <2>4. R = [k \in 1..Len(ds) |-> R[k]] /\ Q = [k \in 1..Len(ds) |-> Q[k]]
    BY Zenon
  <2> HIDE DEF R, Q
  <2>5. R = Q
    BY <2>3, <2>4, Zenon
  <2> QED BY <2>1, <2>5, Zenon DEF Q
<1> HIDE DEF Equation
<1> DEFINE at == CHOOSE g : Equation(g)
<1>8. Equation(at)
  BY <1>7, Zenon
<1>9. Laid(ds) = [k \in 1..Len(ds) |-> [var |-> v[k], offset |-> at[k]]]
  BY Zenon DEF Laid, v, Equation
<1> HIDE DEF at
<1>10. \A k \in 1..Len(ds) :
           at[k] = IF k = 1 THEN 0 ELSE at[k - 1] + size_variable(v[k - 1])
  BY <1>8, Zenon DEF Equation
<1> DEFINE Bad == {k \in 1..Len(ds) : at[k] \notin Nat}
<1>11. Bad = {}
  <2> SUFFICES ASSUME Bad # {} PROVE FALSE
    OBVIOUS
  <2>1. Bad \subseteq Nat
    OBVIOUS
  <2>2. PICK x \in Bad : \A y \in Bad : x <= y
    BY <2>1, SmallestMember
  <2>3. x \in 1..Len(ds) /\ at[x] \notin Nat
    OBVIOUS
  <2>4. x # 1 => x - 1 \in 1..Len(ds) /\ ~(x <= x - 1)
    BY <1>1, <2>3
  <2>5. x # 1 => at[x - 1] \in Nat
    BY <2>2, <2>4
  <2>6. x # 1 => at[x - 1] + size_variable(v[x - 1]) \in Nat
    <3>1. x # 1 => size_variable(v[x - 1]) \in Nat
      BY <1>4, <2>4, Zenon
    <3>2. \A m, n \in Nat : m + n \in Nat
      OBVIOUS
    <3> QED BY <2>5, <3>1, <3>2, Zenon
  <2>7. 0 \in Nat
    OBVIOUS
  <2> QED BY <1>10, <2>3, <2>6, <2>7, Zenon
<1> DEFINE fields == [k \in 1..Len(ds) |-> [var |-> v[k], offset |-> at[k]]]
<1>12. \A k \in 1..Len(ds) : fields[k].var = v[k] /\ fields[k].offset = at[k]
  OBVIOUS
<1>13. fields \in Seq(Field) /\ Len(fields) = Len(ds)
  <2>1. \A k \in 1..Len(ds) : [var |-> v[k], offset |-> at[k]] \in Field
    BY <1>3, <1>11 DEF Field
  <2>2. fields \in [1..Len(ds) -> Field]
    BY <2>1
  <2> HIDE DEF fields
  <2>3. PICK n : n = Len(ds)
    OBVIOUS
  <2>4. n \in Nat /\ fields \in [1..n -> Field]
    BY <1>1, <2>2, <2>3
  <2>5. fields \in Seq(Field) /\ Len(fields) = n
    BY <2>4, FunctionTyped, Zenon
  <2> QED BY <2>3, <2>5, Zenon
<1> HIDE DEF fields
<1>14. Laid(ds) = fields
  BY <1>9, Zenon DEF fields
<1>15. \A k \in 1..Len(ds) : k # 1 => k - 1 \in 1..Len(ds)
  BY <1>1
<1>16. ASSUME NEW k \in 1..Len(ds)
       PROVE  /\ fields[k].var = Full(Zeroed, ds[k])
              /\ fields[k].offset =
                     IF k = 1 THEN 0
                     ELSE fields[k - 1].offset + size_variable(fields[k - 1].var)
  <2>1. fields[k].var = v[k] /\ fields[k].offset = at[k]
    BY <1>12
  <2>2. k # 1 => fields[k - 1].var = v[k - 1] /\ fields[k - 1].offset = at[k - 1]
    BY <1>12, <1>15
  <2> QED BY <1>3, <1>10, <2>1, <2>2, Zenon
<1> QED BY <1>1, <1>13, <1>14, <1>16, Zenon

-----------------------------------------------------------------------------
(* The places that the tables, the blocks and the code give out.           *)

LEMMA AddFunctionProperties ==
    ASSUME Typed, NEW name \in Names
    PROVE  LET table == add_function(name)
               f == EntryOf(table, name)
           IN /\ table \in Seq(Function) /\ Len(functions) <= Len(table)
              /\ Len(functions) \in Nat /\ Len(table) \in Nat
              /\ f \in 1..Len(table) /\ f \in Nat \ {0} /\ table[f].name = name
              /\ \A k \in 1..Len(functions) : table[k] = functions[k]
              /\ \A k \in 1..Len(table) : k > Len(functions) => k = f /\ table[k] = NewFunction(name)
              /\ find_function(name) = Nothing => f = Len(functions) + 1
              /\ find_function(name) # Nothing =>
                     f = find_function(name).k /\ table = functions
<1>1. functions \in Seq(Function) /\ Len(functions) \in Nat
  BY DEF Typed
<1>2. CASE find_function(name) = Nothing
  <2>1. PICK table : table = Append(functions, NewFunction(name))
    OBVIOUS
  <2>2. add_function(name) = table /\ EntryOf(table, name) = Len(table)
    BY <1>2, <2>1, Zenon DEF add_function, EntryOf
  <2>3. /\ table \in Seq(Function) /\ Len(table) = Len(functions) + 1
        /\ \A k \in 1..Len(functions) : table[k] = functions[k]
        /\ table[Len(functions) + 1] = NewFunction(name)
    BY <1>1, <2>1, NewFunctionTyped, AppendTyped
  <2>4. NewFunction(name).name = name
    BY DEF NewFunction
  <2>5. Len(table) \in 1..Len(table) /\ Len(functions) <= Len(table)
        /\ \A k \in 1..Len(table) : k > Len(functions) => k = Len(table)
        /\ Len(table) \in Nat \ {0} /\ Len(table) \in Nat
    BY <1>1, <2>3
  <2> QED BY <1>1, <1>2, <2>2, <2>3, <2>4, <2>5
<1>3. CASE find_function(name) # Nothing
  <2>1. add_function(name) = functions
        /\ EntryOf(functions, name) = find_function(name).k
    BY <1>3, Zenon DEF add_function, EntryOf
  <2>2. find_function(name).k \in 1..Len(functions)
        /\ functions[find_function(name).k].name = name
    BY <1>1, <1>3, InTableProperties DEF find_function, Kinds
  <2>3. Len(functions) <= Len(functions) /\ find_function(name).k \in Nat \ {0}
        /\ \A k \in 1..Len(functions) : ~(k > Len(functions))
    BY <1>1, <2>2
  <2> QED BY <1>1, <1>3, <2>1, <2>2, <2>3, Zenon
<1> QED BY <1>2, <1>3

\* A function is declared.
LEMMA PrototypeTable ==
    ASSUME Typed, NEW name \in Names, NEW ps \in Parameters
    PROVE  LET table == add_function(name)
               f == EntryOf(table, name)
               new == WithParameters(table, f, ps)
           IN /\ new \in Seq(Function) /\ Len(new) = Len(table)
              /\ Len(functions) <= Len(new) /\ f \in 1..Len(new)
              /\ \A k \in 1..Len(functions) :
                     new[k].name = functions[k].name /\ new[k].entry = functions[k].entry
              /\ \A k \in 1..Len(new) : k > Len(functions) => k = f
              /\ new[f].name = name
<1>1. PICK table, f : table = add_function(name) /\ f = EntryOf(table, name)
  OBVIOUS
<1>2. /\ table \in Seq(Function) /\ Len(functions) <= Len(table)
      /\ f \in 1..Len(table) /\ table[f].name = name
      /\ \A k \in 1..Len(functions) : table[k] = functions[k]
      /\ \A k \in 1..Len(table) : k > Len(functions) => k = f
      /\ Len(functions) \in Nat /\ Len(table) \in Nat
  BY <1>1, AddFunctionProperties, Zenon
<1>3. PICK new : new = WithParameters(table, f, ps)
  OBVIOUS
<1>4. /\ new \in Seq(Function) /\ Len(new) = Len(table)
      /\ \A g \in 1..Len(table) : new[g].name = table[g].name /\ new[g].entry = table[g].entry
  BY <1>2, <1>3, WithParametersTyped
<1>5. \A k \in 1..Len(functions) : k \in 1..Len(table)
  BY <1>2
<1> QED BY <1>1, <1>2, <1>3, <1>4, <1>5, Zenon

\* A function is entered.
LEMMA EntryTable ==
    ASSUME NEW old \in Seq(Function), NEW f \in 1..Len(old), NEW here \in Nat,
           NEW new, new = [old EXCEPT ![f].entry = here]
    PROVE  /\ new \in Seq(Function) /\ Len(new) = Len(old) /\ new[f].entry = here
           /\ \A k \in 1..Len(new) :
                  /\ new[k].name = old[k].name /\ new[k].params = old[k].params
                  /\ new[k].num_params = old[k].num_params
                  /\ k # f => new[k] = old[k]
<1> DEFINE x == [old[f] EXCEPT !.entry = here]
<1>1. old[f] \in Function
  BY ElementTyped
<1>2. /\ x \in Function /\ x.entry = here /\ x.name = old[f].name
      /\ x.params = old[f].params /\ x.num_params = old[f].num_params
  BY <1>1 DEF Function
<1>3. new = [old EXCEPT ![f] = x]
  BY Zenon
<1> HIDE DEF x
<1>4. /\ new \in Seq(Function) /\ Len(new) = Len(old) /\ new[f] = x
      /\ \A k \in 1..Len(old) : k # f => new[k] = old[k]
  BY <1>2, <1>3, ChangeTyped
<1> QED BY <1>2, <1>4, Zenon

LEMMA PlainTyped ==
    ASSUME NEW op \in Ops, NEW name \in Names
    PROVE  Plain(op) \in Instruction /\ [Plain(op) EXCEPT !.name = name] \in Instruction
           /\ [Plain(op) EXCEPT !.name = name].op = op
           /\ [Plain(op) EXCEPT !.name = name].name = name
           /\ Plain(op).op = op /\ Plain(op).size = 0
           /\ [Plain(op) EXCEPT !.name = name].size = 0
           /\ Plain(op).found = Nothing
           /\ [Plain(op) EXCEPT !.name = name].found = Nothing
<1>1. Nothing \in Entities
  BY DEF Nothing, Entity, Entities, Kinds
<1>2. Plain(op) \in Instruction
  BY <1>1, NamesTyped DEF Plain, Instruction
<1>3. /\ Plain(op).op = op /\ Plain(op).size = 0 /\ Plain(op).found = Nothing
  BY DEF Plain
<1> QED BY <1>2, <1>3 DEF Instruction

LEMMA InstrTyped ==
    ASSUME Typed, NEW op \in Ops, NEW name \in Names, NEW found \in Entities, NEW size \in Nat
    PROVE  LET i == Instr(op, name, found, size) IN
           /\ i \in Instruction /\ i.op = op /\ i.name = name /\ i.block = parent
           /\ i.found = found /\ i.size = size
BY DEF Instr, Instruction, Typed

LEMMA InitPlaces == Init => Places
<1> SUFFICES ASSUME Init PROVE Places
  OBVIOUS
<1> USE DEF Init
<1>1. types \in Seq(Type)
  <2>1. \A name \in Names : BuiltIn(name, 0) \in Type /\ BuiltIn(name, 1) \in Type
                            /\ BuiltIn(name, 4) \in Type
    <3>1. << >> \in Seq(Field)
      OBVIOUS
    <3> QED BY <3>1 DEF BuiltIn, Type
  <2>2. BuiltIn("void", 0) \in Type /\ BuiltIn("char", 1) \in Type /\ BuiltIn("int", 4) \in Type
    BY <2>1, NamesTyped
  <2> QED BY <2>2
<1>2. functions \in Seq(Function)
  <2>1. NewFunction("__syscall") \in Function
    BY NamesTyped, NewFunctionTyped
  <2>2. [NewFunction("__syscall") EXCEPT !.entry = 5, !.exit = 7] \in Function
    BY <2>1 DEF Function
  <2> QED BY <2>2
<1>3. il \in Seq(Instruction)
  <2>1. /\ "op_label" \in Ops /\ "op_start" \in Ops /\ "op_function_call" \in Ops
        /\ "op_exit" \in Ops /\ "op_entry_point" \in Ops /\ "op_syscall" \in Ops
        /\ "op_exit_point" \in Ops
    BY Zenon DEF Ops
  <2>2. /\ Plain("op_label") \in Instruction /\ Plain("op_start") \in Instruction
        /\ [Plain("op_function_call") EXCEPT !.name = "main"] \in Instruction
        /\ Plain("op_exit") \in Instruction
        /\ [Plain("op_entry_point") EXCEPT !.name = "__syscall"] \in Instruction
        /\ Plain("op_syscall") \in Instruction /\ Plain("op_exit_point") \in Instruction
    BY <2>1, NamesTyped, PlainTyped, Zenon
  <2>3. \A a, b, c, d, e, f, g \in Instruction :
            << a, b, c, a, d, e, f, g >> \in Seq(Instruction)
    OBVIOUS
  <2> QED BY <2>2, <2>3, Zenon DEF Prologue
<1>4. Typed
  BY <1>1, <1>2, <1>3, BlankTyped DEF Typed
<1> QED BY <1>4 DEF Places, Nested, Open, TypesKnown

\* The tables that hold functions and blocks grow and keep what they have.
LEMMA NestedGrows ==
    ASSUME Typed, Nested, functions' \in Seq(Function), Len(functions) <= Len(functions'),
           UNCHANGED blocks
    PROVE  Nested'
<1>1. Len(functions) \in Nat /\ Len(functions') \in Nat
  BY DEF Typed
<1> QED BY <1>1 DEF Nested

LEMMA TypesKnownKept ==
    ASSUME Typed, TypesKnown, NEW t \in Type, types' = Append(types, t), UNCHANGED blocks
    PROVE  TypesKnown'
<1> SUFFICES ASSUME NEW b \in 1..Len(blocks), NEW k \in 1..Len(blocks[b].locals)
             PROVE  find_type(blocks[b].locals[k].type)' # Nothing
  BY Zenon DEF TypesKnown
<1>1. PICK name : name = blocks[b].locals[k].type
  OBVIOUS
<1>2. find_type(name) # Nothing
  BY <1>1 DEF TypesKnown
<1>3. find_type(name)' = find_type(name)
  BY <1>2, TypesStable DEF Typed
<1>4. find_type(blocks[b].locals[k].type)' = find_type(name)'
  BY <1>1, Zenon DEF find_type
<1> QED BY <1>2, <1>3, <1>4

LEMMA GlobalVariablePlaces ==
    ASSUME Places, NEW d \in Declarators, NEW semicolon \in BOOLEAN,
           GlobalVariable(d, semicolon)
    PROVE  Places'
<1> USE DEF Places
<1>1. d \in Declarator
  BY ProgramAssumption
<1>2. temp' \in Variable
  BY <1>1, FullTyped DEF GlobalVariable, Typed
<1>3. globals' \in Seq(Variable)
  BY <1>2, AppendTyped DEF GlobalVariable, Typed
<1>4. Typed'
  BY <1>2, <1>3, Zenon DEF GlobalVariable, Typed
<1>5. Nested' /\ TypesKnown'
  BY Zenon DEF GlobalVariable, Nested, TypesKnown, find_type
<1>6. Open'
  BY DEF GlobalVariable, Open
<1> QED BY <1>4, <1>5, <1>6

LEMMA PrototypePlaces ==
    ASSUME Places, NEW name \in FunctionNames, NEW ps \in Parameters, Prototype(name, ps)
    PROVE  Places'
<1> USE DEF Places
<1>1. name \in Names
  BY ProgramAssumption
<1>2. functions' \in Seq(Function) /\ Len(functions) <= Len(functions')
  BY <1>1, PrototypeTable, Zenon DEF Prototype
<1>3. temp' \in Variable
  <2>1. Result(name) \in Declarator
    <3>1. "int" \in Names /\ FALSE \in BOOLEAN /\ 0 \in Nat
          /\ "plain" \in {"plain", "array", "open", "function"}
      BY NamesTyped
    <3> QED BY <1>1, <3>1, Zenon DEF Result, Declarator
  <2> QED BY <2>1, FullTyped DEF Prototype, Typed
<1>4. Typed'
  BY <1>2, <1>3, Zenon DEF Prototype, Typed
<1>5. Nested'
  BY <1>2, NestedGrows DEF Prototype
<1>6. TypesKnown'
  BY Zenon DEF Prototype, TypesKnown, find_type
<1>7. Open'
  BY DEF Prototype, Open
<1> QED BY <1>4, <1>5, <1>6, <1>7

LEMMA TypedefTyped ==
    ASSUME NEW name \in Names, NEW size \in Nat
    PROVE  BuiltIn(name, size) \in Type
<1>1. << >> \in Seq(Field)
  OBVIOUS
<1> QED BY <1>1 DEF BuiltIn, Type

LEMMA TypedefEnumPlaces ==
    ASSUME Places, NEW name \in TypeNames, NEW es \in Enumerators, TypedefEnum(name, es)
    PROVE  Places'
<1> USE DEF Places
<1>1. name \in Names /\ 4 \in Nat
  BY ProgramAssumption
<1>2. BuiltIn(name, 4) \in Type
  BY <1>1, TypedefTyped
<1>3. types' \in Seq(Type)
  BY <1>2, AppendTyped DEF TypedefEnum, Typed
<1>4. constants' \in Seq(Constant)
  <2> DEFINE new == [k \in 1..Len(es) |-> [name |-> es[k].name, value |-> Values(es)[k]]]
             Enumerator == [name : Names, assigned : BOOLEAN, value : Int]
  <2>1. es \in Seq(Enumerator)
    BY ProgramAssumption, Zenon
  <2>2. \A e \in Enumerator : e.name \in Names
    OBVIOUS
  <2> HIDE DEF Enumerator
  <2>3. Len(es) \in Nat /\ \A k \in 1..Len(es) : es[k].name \in Names
    BY <2>1, <2>2, ElementTyped
  <2>4. \A k \in 1..Len(es) : [name |-> es[k].name, value |-> Values(es)[k]] \in Constant
    BY <2>3, ValuesTyped DEF Constant
  <2>5. new \in [1..Len(es) -> Constant]
    BY <2>4
  <2>6. constants' = constants \o new
    BY Zenon DEF TypedefEnum
  <2> HIDE DEF new
  <2>7. new \in Seq(Constant)
    BY <2>3, <2>5
  <2> QED BY <2>6, <2>7, ConcatTyped DEF Typed
<1>5. Typed'
  BY <1>3, <1>4, Zenon DEF TypedefEnum, Typed
<1>6. TypesKnown'
  BY <1>2, TypesKnownKept, Zenon DEF TypedefEnum
<1>7. Nested' /\ Open'
  BY Zenon DEF TypedefEnum, Nested, Open
<1> QED BY <1>5, <1>6, <1>7

LEMMA TypedefStructPlaces ==
    ASSUME Places, NEW name \in TypeNames, NEW ds \in Fields, TypedefStruct(name, ds)
    PROVE  Places'
<1> USE DEF Places
<1>1. name \in Names
  BY ProgramAssumption
<1>2. \A k \in 1..Len(ds) : SizeKnown(Full(Zeroed, ds[k]))
  BY DEF TypedefStruct
<1>3. PICK fields : fields = Laid(ds)
  OBVIOUS
<1>4. PICK n : n = Len(ds)
  OBVIOUS
<1>5. fields \in Seq(Field) /\ Len(fields) = n /\ n \in Nat \ {0}
      /\ \A k \in 1..n : fields[k].var = Full(Zeroed, ds[k])
  BY <1>2, <1>3, <1>4, LaidProperties DEF Typed
<1>6. n \in 1..n /\ fields[n] \in Field
  BY <1>5, ElementTyped
<1>7. fields[n].offset \in Nat /\ fields[n].var \in Variable
  BY <1>6 DEF Field
<1>8. SizeKnown(fields[n].var)
  BY <1>2, <1>4, <1>5, <1>6
<1>9. size_variable(fields[n].var) \in Nat
  BY <1>7, <1>8, SizesTyped DEF Typed
<1>10. fields[n].offset + size_variable(fields[n].var) \in Nat
  BY <1>7, <1>9
<1> DEFINE t == [name |-> name, fields |-> fields,
                 size |-> fields[n].offset + size_variable(fields[n].var)]
<1>11. t \in Type
  BY <1>1, <1>5, <1>10 DEF Type
<1>12. types' = Append(types, t)
  BY <1>3, <1>4, Zenon DEF TypedefStruct
<1> HIDE DEF t
<1>13. types' \in Seq(Type)
  BY <1>11, <1>12, AppendTyped DEF Typed
<1>14. Typed'
  BY <1>13, Zenon DEF TypedefStruct, Typed
<1>15. TypesKnown'
  BY <1>11, <1>12, TypesKnownKept, Zenon DEF TypedefStruct
<1>16. Nested' /\ Open'
  BY Zenon DEF TypedefStruct, Nested, Open
<1> QED BY <1>14, <1>15, <1>16

LEMMA TypedefTypePlaces ==
    ASSUME Places, NEW name \in TypeNames, NEW base, TypedefType(name, base)
    PROVE  Places'
<1> USE DEF Places
<1>1. name \in Names
  BY ProgramAssumption
<1>2. TypeNamed(base).size \in Nat
  BY TypeNamedTyped DEF TypedefType, Typed
<1>3. PICK t : t = BuiltIn(name, TypeNamed(base).size)
  OBVIOUS
<1>4. t \in Type
  BY <1>1, <1>2, <1>3, TypedefTyped
<1>5. types' = Append(types, t)
  BY <1>3, Zenon DEF TypedefType
<1>6. types' \in Seq(Type)
  BY <1>4, <1>5, AppendTyped DEF Typed
<1>7. Typed'
  BY <1>6, Zenon DEF TypedefType, Typed
<1>8. TypesKnown'
  BY <1>4, <1>5, TypesKnownKept, Zenon DEF TypedefType
<1>9. Nested' /\ Open'
  BY Zenon DEF TypedefType, Nested, Open
<1> QED BY <1>7, <1>8, <1>9

LEMMA FinishPlaces == ASSUME Places, Finish PROVE Places'
<1>1. Typed' /\ Nested' /\ TypesKnown'
  BY Zenon DEF Finish, Typed, Nested, TypesKnown, find_type, Places
<1>2. Open'
  BY DEF Finish, Open, Places
<1> QED BY <1>1, <1>2 DEF Places

\* One block is opened behind the others.
LEMMA BlockAppended ==
    ASSUME Places, NEW p \in 0..Len(blocks), NEW f \in 1..Len(functions'),
           p # 0 => blocks[p].function = f,
           functions' \in Seq(Function), Len(functions) <= Len(functions'), UNCHANGED types,
           blocks' = Append(blocks, [parent |-> p, function |-> f, locals |-> << >>])
    PROVE  /\ blocks' \in Seq(Block) /\ Len(blocks') = Len(blocks) + 1 /\ Len(blocks) \in Nat
           /\ \A b \in 1..Len(blocks) : blocks'[b] = blocks[b]
           /\ blocks'[Len(blocks) + 1] = [parent |-> p, function |-> f, locals |-> << >>]
           /\ Nested' /\ TypesKnown'
<1> USE DEF Places
<1> DEFINE new == [parent |-> p, function |-> f, locals |-> << >>]
<1>1. Len(blocks) \in Nat /\ Len(functions) \in Nat /\ Len(functions') \in Nat
  BY DEF Typed
<1>2. new \in Block
  <2>1. << >> \in Seq(Variable) /\ p \in Nat /\ f \in Nat \ {0}
    BY <1>1
  <2> QED BY <2>1 DEF Block
<1>3. new.parent = p /\ new.function = f /\ new.locals = << >>
  OBVIOUS
<1> HIDE DEF new
<1>4. /\ blocks' \in Seq(Block) /\ Len(blocks') = Len(blocks) + 1
      /\ \A b \in 1..Len(blocks) : blocks'[b] = blocks[b]
      /\ blocks'[Len(blocks) + 1] = new
  BY <1>2, AppendTyped DEF Typed, new
<1>5. \A b \in 1..Len(blocks') : b \in 1..Len(blocks) \/ b = Len(blocks) + 1
  BY <1>1, <1>4
<1>6. Nested'
  <2> SUFFICES ASSUME NEW b \in 1..Len(blocks')
               PROVE  /\ blocks'[b].parent \in 0..(b - 1)
                      /\ blocks'[b].function \in 1..Len(functions')
                      /\ blocks'[b].parent # 0 =>
                             blocks'[blocks'[b].parent].function = blocks'[b].function
    BY Zenon DEF Nested
  <2>1. CASE b \in 1..Len(blocks)
    <3>1. /\ blocks[b].parent \in 0..(b - 1) /\ blocks[b].function \in 1..Len(functions)
          /\ blocks[b].parent # 0 => blocks[blocks[b].parent].function = blocks[b].function
      BY <2>1 DEF Nested
    <3>2. blocks[b].parent # 0 => blocks[b].parent \in 1..Len(blocks)
      BY <1>1, <2>1, <3>1
    <3> QED BY <1>1, <1>4, <2>1, <3>1, <3>2
  <2>2. CASE b = Len(blocks) + 1
    <3>1. blocks'[b].parent = p /\ blocks'[b].function = f
      BY <1>3, <1>4, <2>2
    <3>2. p # 0 => p \in 1..Len(blocks)
      BY <1>1
    <3>3. p \in 0..(b - 1)
      BY <1>1, <2>2
    <3> QED BY <1>4, <3>1, <3>2, <3>3
  <2> QED BY <1>5, <2>1, <2>2
<1>7. TypesKnown'
  <2> SUFFICES ASSUME NEW b \in 1..Len(blocks'), NEW k \in 1..Len(blocks'[b].locals)
               PROVE  find_type(blocks'[b].locals[k].type) # Nothing
    BY Zenon DEF TypesKnown, find_type
  <2>1. b \in 1..Len(blocks)
    BY <1>3, <1>4, <1>5
  <2> QED BY <1>4, <2>1 DEF TypesKnown
<1> QED BY <1>1, <1>4, <1>6, <1>7 DEF new

LEMMA CodeAppended ==
    ASSUME Typed, NEW i \in Instruction
    PROVE  /\ Append(il, i) \in Seq(Instruction) /\ Len(Append(il, i)) = Len(il) + 1
           /\ \A k \in 1..Len(il) : Append(il, i)[k] = il[k]
           /\ Append(il, i)[Len(il) + 1] = i
BY AppendTyped DEF Typed

LEMMA CodeAppendedTwice ==
    ASSUME Typed, NEW i \in Instruction, NEW j \in Instruction
    PROVE  /\ il \o << i, j >> \in Seq(Instruction) /\ Len(il \o << i, j >>) = Len(il) + 2
           /\ \A k \in 1..Len(il) : (il \o << i, j >>)[k] = il[k]
           /\ (il \o << i, j >>)[Len(il) + 1] = i /\ (il \o << i, j >>)[Len(il) + 2] = j
<1>1. PICK two : two = << i, j >>
  OBVIOUS
<1>2. two \in Seq(Instruction) /\ Len(two) = 2 /\ two[1] = i /\ two[2] = j
  BY <1>1
<1>3. /\ il \o two \in Seq(Instruction) /\ Len(il \o two) = Len(il) + Len(two)
      /\ \A k \in 1..Len(il) : (il \o two)[k] = il[k]
      /\ \A k \in 1..Len(two) : (il \o two)[Len(il) + k] = two[k]
  <2>1. il \in Seq(Instruction)
    BY DEF Typed
  <2> QED BY <1>2, <2>1, ConcatTyped
<1>4. PICK s : s = il \o two
  OBVIOUS
<1>5. /\ s \in Seq(Instruction) /\ Len(s) = Len(il) + 2
      /\ \A k \in 1..Len(il) : s[k] = il[k]
      /\ s[Len(il) + 1] = i /\ s[Len(il) + 2] = j
  BY <1>2, <1>3, <1>4
<1> QED BY <1>1, <1>4, <1>5, Zenon

LEMMA FunctionDefinitionPlaces ==
    ASSUME Places, NEW name \in FunctionNames, NEW ps \in Parameters,
           FunctionDefinition(name, ps)
    PROVE  Places'
<1> USE DEF Places
<1>1. name \in Names
  BY ProgramAssumption
<1>2. PICK f : f = EntryOf(add_function(name), name)
  OBVIOUS
<1>3. PICK old : old = WithParameters(add_function(name), f, ps)
  OBVIOUS
<1>4. old \in Seq(Function) /\ Len(functions) <= Len(old) /\ f \in 1..Len(old)
  BY <1>1, <1>2, <1>3, PrototypeTable, Zenon
<1>5. functions' = [old EXCEPT ![f].entry = Len(il)]
      /\ blocks' = Append(blocks, [parent |-> 0, function |-> f, locals |-> << >>])
  BY <1>2, <1>3, Zenon DEF FunctionDefinition
<1>6. Len(il) \in Nat /\ Len(blocks) \in Nat
  BY DEF Typed
<1>7. PICK new : new = [old EXCEPT ![f].entry = Len(il)]
  OBVIOUS
<1>8. new \in Seq(Function) /\ Len(new) = Len(old)
  BY <1>4, <1>6, <1>7, EntryTable
<1>9. functions' \in Seq(Function) /\ Len(functions) <= Len(functions')
      /\ f \in 1..Len(functions')
  BY <1>4, <1>5, <1>7, <1>8
<1>10. 0 \in 0..Len(blocks) /\ types' = types
  BY <1>6 DEF FunctionDefinition
<1>11. blocks' \in Seq(Block) /\ Len(blocks') = Len(blocks) + 1 /\ Nested' /\ TypesKnown'
  BY <1>5, <1>9, <1>10, BlockAppended
<1>12. il' \in Seq(Instruction)
  <2>1. "op_entry_point" \in Ops /\ "op_block_start" \in Ops
    BY Zenon DEF Ops
  <2>2. [Plain("op_entry_point") EXCEPT !.name = name] \in Instruction
        /\ Plain("op_block_start") \in Instruction
    BY <1>1, <2>1, NamesTyped, PlainTyped, Zenon
  <2> QED BY <2>2, CodeAppendedTwice, Zenon DEF FunctionDefinition
<1>13. temp' \in Variable
  <2>1. Result(name) \in Declarator
    <3>1. "int" \in Names /\ FALSE \in BOOLEAN /\ 0 \in Nat
          /\ "plain" \in {"plain", "array", "open", "function"}
      BY NamesTyped
    <3> QED BY <1>1, <3>1, Zenon DEF Result, Declarator
  <2> QED BY <2>1, FullTyped DEF FunctionDefinition, Typed
<1>14. parent' = Len(blocks) + 1 /\ pc' = "body" /\ first = 0 /\ first' = 0
  BY <1>11 DEF FunctionDefinition, Open
<1>15. parent' \in Nat /\ first' \in Nat
  BY <1>6, <1>14
<1>16. Typed'
  BY <1>9, <1>11, <1>12, <1>13, <1>14, <1>15, Zenon DEF FunctionDefinition, Typed
<1>17. Open'
  BY <1>6, <1>11, <1>14 DEF Open
<1> QED BY <1>11, <1>16, <1>17

\* The table of the blocks after the open one has got another variable.
WithLocal(v) == [blocks EXCEPT ![parent].locals = Append(@, v)]

LEMMA LocalAdded ==
    ASSUME Places, pc = "body", NEW v \in Variable, NEW new, new = WithLocal(v)
    PROVE  /\ parent \in 1..Len(blocks) /\ Len(blocks) \in Nat
           /\ blocks[parent].locals \in Seq(Variable) /\ Len(blocks[parent].locals) \in Nat
           /\ new \in Seq(Block) /\ Len(new) = Len(blocks)
           /\ \A b \in 1..Len(blocks) :
                  /\ new[b].parent = blocks[b].parent /\ new[b].function = blocks[b].function
                  /\ b # parent => new[b].locals = blocks[b].locals
                  /\ b = parent => new[b].locals = Append(blocks[b].locals, v)
<1> USE DEF Places
<1>1. parent \in 1..Len(blocks) /\ Len(blocks) \in Nat
  BY DEF Open, Typed
<1>2. PICK x : x = [blocks[parent] EXCEPT !.locals = Append(@, v)]
  OBVIOUS
<1>3. blocks[parent] \in Block
  BY <1>1, ElementTyped DEF Typed
<1>4. blocks[parent].locals \in Seq(Variable)
  BY <1>3 DEF Block
<1>5. Append(blocks[parent].locals, v) \in Seq(Variable)
  BY <1>4, AppendTyped
<1>6. /\ x \in Block /\ x.parent = blocks[parent].parent /\ x.function = blocks[parent].function
      /\ x.locals = Append(blocks[parent].locals, v)
  <2>1. PICK s : s = Append(blocks[parent].locals, v)
    OBVIOUS
  <2>2. x = [blocks[parent] EXCEPT !.locals = s]
    BY <1>2, <2>1, Zenon
  <2> QED BY <1>3, <1>5, <2>1, <2>2 DEF Block
<1>7. new = [blocks EXCEPT ![parent] = x]
  BY <1>2, Zenon DEF WithLocal
<1>8. /\ new \in Seq(Block) /\ Len(new) = Len(blocks) /\ new[parent] = x
      /\ \A b \in 1..Len(blocks) : b # parent => new[b] = blocks[b]
  <2>1. x \in Block /\ blocks \in Seq(Block)
    BY <1>6 DEF Typed
  <2>2. PICK y : y = [blocks EXCEPT ![parent] = x]
    OBVIOUS
  <2>3. /\ y \in Seq(Block) /\ Len(y) = Len(blocks) /\ y[parent] = x
        /\ \A b \in 1..Len(blocks) : b # parent => y[b] = blocks[b]
    BY <1>1, <2>1, <2>2, ChangeTyped
  <2> QED BY <1>7, <2>2, <2>3, Zenon
<1>9. Len(blocks[parent].locals) \in Nat
  BY <1>4
<1> QED BY <1>1, <1>4, <1>6, <1>8, <1>9, Zenon

LEMMA AddLocalPlaces ==
    ASSUME Places, pc = "body", NEW v \in Variable, find_type(v.type) # Nothing,
           NEW size \in Nat, NEW initialised \in BOOLEAN, AddLocal(v, size, initialised),
           first' = Len(blocks[parent].locals) + 1 \/ first' = first
    PROVE  Places'
<1> USE DEF Places
<1>1. blocks' = WithLocal(v)
  BY Zenon DEF AddLocal, WithLocal
<1>2. PICK new : new = WithLocal(v)
  OBVIOUS
<1>3. /\ parent \in 1..Len(blocks) /\ Len(blocks) \in Nat
      /\ blocks[parent].locals \in Seq(Variable) /\ Len(blocks[parent].locals) \in Nat
      /\ new \in Seq(Block) /\ Len(new) = Len(blocks)
      /\ \A b \in 1..Len(blocks) :
             /\ new[b].parent = blocks[b].parent /\ new[b].function = blocks[b].function
             /\ b # parent => new[b].locals = blocks[b].locals
             /\ b = parent => new[b].locals = Append(blocks[b].locals, v)
  BY <1>2, LocalAdded
<1>4. blocks' = new
  BY <1>1, <1>2
<1>5. PICK n : n = Len(blocks[parent].locals)
  OBVIOUS
<1>6. /\ n \in Nat
      /\ Len(Append(blocks[parent].locals, v)) = n + 1
      /\ \A k \in 1..n : Append(blocks[parent].locals, v)[k] = blocks[parent].locals[k]
      /\ Append(blocks[parent].locals, v)[n + 1] = v
  BY <1>3, <1>5, AppendTyped
<1>7. il' \in Seq(Instruction)
  <2>1. "op_get_var_addr" \in Ops /\ v.name \in Names
    BY DEF Ops, Variable
  <2>2. Entity("local", parent, n + 1) \in Entities
    BY <1>3, <1>6 DEF Entity, Entities, Kinds
  <2>3. Instr("op_get_var_addr", v.name, Entity("local", parent, n + 1), size) \in Instruction
    BY <2>1, <2>2, InstrTyped
  <2>4. Append(il, Instr("op_get_var_addr", v.name, Entity("local", parent, n + 1), size))
            \in Seq(Instruction)
    BY <2>3, CodeAppended
  <2>5. CASE initialised
    BY <1>5, <2>4, <2>5, Zenon DEF AddLocal
  <2>6. CASE ~ initialised
    BY <2>6, Zenon DEF AddLocal, Typed
  <2> QED BY <2>5, <2>6
<1>8. /\ UNCHANGED <<pc, types, constants, functions, globals, temp, parent>>
  BY Zenon DEF AddLocal
<1>9. first' \in Nat /\ (first' # 0 => first' \in 1..(n + 1))
  <2>1. first \in Nat /\ (first # 0 => first \in 1..n)
    BY <1>5 DEF Typed, Open
  <2> QED BY <1>5, <1>6, <2>1
<1>10. Typed'
  BY <1>3, <1>4, <1>7, <1>8, <1>9, Zenon DEF Typed
<1>11. Nested'
  <2> SUFFICES ASSUME NEW b \in 1..Len(blocks)
               PROVE  /\ new[b].parent \in 0..(b - 1)
                      /\ new[b].function \in 1..Len(functions)
                      /\ new[b].parent # 0 =>
                             new[new[b].parent].function = new[b].function
    BY <1>3, <1>4, <1>8, Zenon DEF Nested
  <2>1. /\ blocks[b].parent \in 0..(b - 1) /\ blocks[b].function \in 1..Len(functions)
        /\ blocks[b].parent # 0 => blocks[blocks[b].parent].function = blocks[b].function
    BY DEF Nested
  <2>2. blocks[b].parent # 0 => blocks[b].parent \in 1..Len(blocks)
    BY <1>3, <2>1
  <2> QED BY <1>3, <2>1, <2>2, Zenon
<1>12. Open'
  <2>1. Len(blocks'[parent].locals) = n + 1
    BY <1>3, <1>4, <1>6
  <2>2. parent' = parent /\ pc' = pc /\ parent # 0 /\ parent \in 0..Len(blocks')
    BY <1>3, <1>4, <1>8
  <2>3. pc \notin {"global", "done"}
    OBVIOUS
  <2> QED BY <1>9, <2>1, <2>2, <2>3, Zenon DEF Open
<1>13. TypesKnown'
  <2> SUFFICES ASSUME NEW b \in 1..Len(blocks), NEW k \in 1..Len(new[b].locals)
               PROVE  find_type(new[b].locals[k].type) # Nothing
    BY <1>3, <1>4, <1>8, Zenon DEF TypesKnown, find_type
  <2>1. CASE b # parent
    BY <1>3, <2>1 DEF TypesKnown
  <2>2. CASE b = parent
    <3>1. k \in 1..(n + 1)
      BY <1>3, <1>6, <2>2
    <3>2. CASE k = n + 1
      BY <1>3, <1>6, <2>2, <3>2
    <3>3. CASE k # n + 1
      <4>1. k \in 1..n
        BY <1>6, <3>1, <3>3
      <4>2. new[b].locals[k] = blocks[parent].locals[k]
        BY <1>3, <1>6, <2>2, <4>1
      <4>3. find_type(blocks[parent].locals[k].type) # Nothing
        BY <1>3, <1>5, <4>1 DEF TypesKnown
      <4> QED BY <4>2, <4>3
    <3> QED BY <3>2, <3>3
  <2> QED BY <2>1, <2>2
<1> QED BY <1>10, <1>11, <1>12, <1>13

LEMMA LocalVariablePlaces ==
    ASSUME Places, NEW d \in Declarators, NEW initialised \in BOOLEAN,
           LocalVariable(d, initialised)
    PROVE  Places'
<1> USE DEF Places
<1>1. d \in Declarator /\ pc = "body" /\ Known(d)
  BY ProgramAssumption DEF LocalVariable
<1>2. PICK v : v = Full(Zeroed, d)
  OBVIOUS
<1>3. v \in Variable /\ v.type = d.type
  BY <1>1, <1>2, BlankTyped, FullTyped, FullFields
<1>4. find_type(v.type) # Nothing
  BY <1>1, <1>3 DEF Known
<1>5. PICK size : size = p_get_size(v)
  OBVIOUS
<1>6. size \in Nat
  BY <1>3, <1>4, <1>5, SizesTyped DEF Typed, SizeKnown
<1>7. AddLocal(v, size, initialised) /\ first' = Len(blocks[parent].locals) + 1
  BY <1>2, <1>5, Zenon DEF LocalVariable
<1> QED BY <1>1, <1>3, <1>4, <1>6, <1>7, AddLocalPlaces

LEMMA LocalContinuedPlaces ==
    ASSUME Places, NEW d \in Declarators, NEW initialised \in BOOLEAN,
           LocalContinued(d, initialised)
    PROVE  Places'
<1> USE DEF Places
<1>1. d \in Declarator /\ pc = "body" /\ first # 0
  BY ProgramAssumption DEF LocalContinued
<1>2. PICK var : var = blocks[parent].locals[first]
  OBVIOUS
<1>3. parent \in 1..Len(blocks) /\ first \in 1..Len(blocks[parent].locals)
  BY <1>1 DEF Open, Typed
<1>4. var \in Variable
  <2>1. blocks[parent] \in Block
    BY <1>3, ElementTyped DEF Typed
  <2>2. blocks[parent].locals \in Seq(Variable)
    BY <2>1 DEF Block
  <2> QED BY <1>2, <1>3, <2>2, ElementTyped
<1>5. find_type(var.type) # Nothing
  BY <1>2, <1>3 DEF TypesKnown
<1>6. PICK v : v = Partial(Zeroed, var, d)
  OBVIOUS
<1>7. PICK e : e = [d EXCEPT !.type = var.type]
  OBVIOUS
<1>8. v = Full(Zeroed, e) /\ e \in Declarator /\ e.type = var.type
  BY <1>1, <1>4, <1>6, <1>7, PartialFields, Zenon
<1>9. v \in Variable /\ v.type = var.type
  BY <1>8, BlankTyped, FullTyped, FullFields
<1>10. PICK size : size = p_get_size(var)
  OBVIOUS
<1>11. size \in Nat
  BY <1>4, <1>5, <1>10, SizesTyped DEF Typed, SizeKnown
<1>12. AddLocal(v, size, initialised) /\ first' = first
  BY <1>2, <1>6, <1>10, Zenon DEF LocalContinued
<1> QED BY <1>1, <1>5, <1>9, <1>11, <1>12, AddLocalPlaces

LEMMA OpenBlockPlaces == ASSUME Places, OpenBlock PROVE Places'
<1> USE DEF Places
<1>1. parent \in 1..Len(blocks) /\ Len(blocks) \in Nat /\ parent \in 0..Len(blocks)
  BY DEF OpenBlock, Open, Typed
<1>2. PICK f : f = blocks[parent].function
  OBVIOUS
<1>3. f \in 1..Len(functions)
  BY <1>1, <1>2 DEF Nested
<1>4. blocks' = Append(blocks, [parent |-> parent, function |-> f, locals |-> << >>])
  BY <1>2, Zenon DEF OpenBlock
<1>5. functions' = functions /\ types' = types
  BY DEF OpenBlock
<1>6. functions' \in Seq(Function) /\ Len(functions) <= Len(functions')
      /\ f \in 1..Len(functions')
  BY <1>3, <1>5 DEF Typed
<1>7. blocks' \in Seq(Block) /\ Len(blocks') = Len(blocks) + 1 /\ Nested' /\ TypesKnown'
  BY <1>1, <1>2, <1>4, <1>5, <1>6, BlockAppended
<1>8. il' \in Seq(Instruction)
  <2>1. "op_block_start" \in Ops
    BY Zenon DEF Ops
  <2>2. Plain("op_block_start") \in Instruction
    BY <2>1, NamesTyped, PlainTyped, Zenon
  <2> QED BY <2>2, CodeAppended, Zenon DEF OpenBlock
<1>9. parent' = Len(blocks) + 1 /\ pc' = pc /\ pc = "body" /\ first' = 0
  BY <1>7 DEF OpenBlock
<1>10. parent' \in Nat /\ first' \in Nat
  BY <1>1, <1>9
<1>11. Typed'
  BY <1>7, <1>8, <1>10, Zenon DEF OpenBlock, Typed
<1>12. Open'
  BY <1>1, <1>7, <1>9 DEF Open
<1> QED BY <1>7, <1>11, <1>12

LEMMA ExitTable ==
    ASSUME NEW old \in Seq(Function), NEW f \in 1..Len(old), NEW here \in Nat,
           NEW new, new = [old EXCEPT ![f].exit = here]
    PROVE  /\ new \in Seq(Function) /\ Len(new) = Len(old)
           /\ \A k \in 1..Len(new) :
                  /\ new[k].name = old[k].name /\ new[k].params = old[k].params
                  /\ new[k].num_params = old[k].num_params /\ new[k].entry = old[k].entry
<1> DEFINE x == [old[f] EXCEPT !.exit = here]
<1>1. old[f] \in Function
  BY ElementTyped
<1>2. /\ x \in Function /\ x.name = old[f].name /\ x.entry = old[f].entry
      /\ x.params = old[f].params /\ x.num_params = old[f].num_params
  BY <1>1 DEF Function
<1>3. new = [old EXCEPT ![f] = x]
  BY Zenon
<1> HIDE DEF x
<1>4. /\ new \in Seq(Function) /\ Len(new) = Len(old) /\ new[f] = x
      /\ \A k \in 1..Len(old) : k # f => new[k] = old[k]
  BY <1>2, <1>3, ChangeTyped
<1> QED BY <1>2, <1>4, Zenon

LEMMA CloseBlockPlaces == ASSUME Places, CloseBlock PROVE Places'
<1> USE DEF Places
<1>1. parent \in 1..Len(blocks) /\ Len(blocks) \in Nat
  BY DEF CloseBlock, Open, Typed
<1>2. PICK p, f : p = blocks[parent].parent /\ f = blocks[parent].function
  OBVIOUS
<1>3. f \in 1..Len(functions) /\ p \in 0..Len(blocks) /\ p \in Nat
  BY <1>1, <1>2 DEF Nested
<1>4. /\ parent' = p /\ first' = 0 /\ pc = "body"
      /\ UNCHANGED <<types, constants, globals, blocks, temp>>
  BY <1>2 DEF CloseBlock
<1>5. Len(il) \in Nat /\ Len(il) + 1 \in Nat
  BY DEF Typed
<1>6. "op_block_end" \in Ops /\ "op_exit_point" \in Ops
  BY Zenon DEF Ops
<1>7. Plain("op_block_end") \in Instruction /\ Plain("op_exit_point") \in Instruction
  BY <1>6, NamesTyped, PlainTyped, Zenon
<1>8. functions' \in Seq(Function) /\ Len(functions) <= Len(functions')
      /\ il' \in Seq(Instruction)
      /\ (p # 0 => pc' = "body") /\ (p = 0 => pc' = "global")
  <2>1. CASE p # 0
    <3>1. functions' = functions /\ pc' = pc /\ il' = Append(il, Plain("op_block_end"))
      BY <1>4, <2>1, Zenon DEF CloseBlock
    <3>2. il' \in Seq(Instruction)
      BY <1>7, <3>1, CodeAppended, Zenon
    <3>3. functions \in Seq(Function) /\ Len(functions) <= Len(functions)
      BY DEF Typed
    <3> QED BY <1>4, <2>1, <3>1, <3>2, <3>3, Zenon
  <2>2. CASE p = 0
    <3>1. /\ functions' = [functions EXCEPT ![f].exit = Len(il) + 1] /\ pc' = "global"
          /\ il' = il \o << Plain("op_block_end"), Plain("op_exit_point") >>
      BY <1>2, <1>4, <2>2, Zenon DEF CloseBlock
    <3>2. il' \in Seq(Instruction)
      BY <1>7, <3>1, CodeAppendedTwice, Zenon
    <3>3. PICK new : new = [functions EXCEPT ![f].exit = Len(il) + 1]
      OBVIOUS
    <3>4. new \in Seq(Function) /\ Len(new) = Len(functions)
      <4>1. functions \in Seq(Function)
        BY DEF Typed
      <4> QED BY <1>3, <1>5, <3>3, <4>1, ExitTable
    <3>5. Len(functions) <= Len(new)
      <4>1. Len(functions) \in Nat
        BY DEF Typed
      <4> QED BY <3>4, <4>1
    <3> QED BY <2>2, <3>1, <3>2, <3>3, <3>4, <3>5, Zenon
  <2> QED BY <2>1, <2>2
<1>9. Nested'
  BY <1>4, <1>8, NestedGrows
<1>10. pc' \in {"global", "body", "done", "error"} /\ parent' \in Nat /\ first' \in Nat
  BY <1>3, <1>4, <1>8
<1>11. Typed'
  BY <1>4, <1>8, <1>10, Zenon DEF Typed
<1>12. TypesKnown'
  BY <1>4, Zenon DEF TypesKnown, find_type
<1>13. Open'
  BY <1>3, <1>4, <1>8 DEF Open
<1> QED BY <1>9, <1>11, <1>12, <1>13

LEMMA UseAsPlaces ==
    ASSUME Places, pc = "body", NEW name \in Names, NEW found \in Entities,
           NEW called \in BOOLEAN, UseAs(name, found, called)
    PROVE  Places'
<1> USE DEF Places
<1>1. il' \in Seq(Instruction) /\ pc' \in {"body", "error"}
  <2>1. CASE found = Nothing
    BY <2>1, Zenon DEF UseAs, Typed
  <2>2. CASE found # Nothing
    <3>1. PICK op : op = CASE found.kind = "constant" -> "op_load_numeric_constant"
                           [] found.kind = "function" /\ called -> "op_function_call"
                           [] OTHER -> "op_get_var_addr"
      OBVIOUS
    <3>2. op \in {"op_load_numeric_constant", "op_function_call", "op_get_var_addr"}
      <4>1. CASE found.kind = "constant"
        BY <3>1, <4>1
      <4>2. CASE found.kind # "constant" /\ found.kind = "function" /\ called
        BY <3>1, <4>2
      <4>3. CASE found.kind # "constant" /\ ~(found.kind = "function" /\ called)
        BY <3>1, <4>3, Zenon
      <4> QED BY <4>1, <4>2, <4>3
    <3>3. op \in Ops
      BY <3>2 DEF Ops
    <3>4. il' = Append(il, Instr(op, name, found, 0)) /\ pc' = pc
      BY <2>2, <3>1, Zenon DEF UseAs
    <3>5. Instr(op, name, found, 0) \in Instruction
      BY <3>3, InstrTyped
    <3>6. il' \in Seq(Instruction)
      BY <3>4, <3>5, CodeAppended, Zenon
    <3> QED BY <3>4, <3>6, Zenon
  <2> QED BY <2>1, <2>2
<1>2. first' = 0 /\ 0 \in Nat
      /\ UNCHANGED <<types, constants, functions, globals, blocks, temp, parent>>
  BY DEF UseAs
<1>3. pc' \in {"global", "body", "done", "error"}
  BY <1>1
<1>4. Typed'
  BY <1>1, <1>2, <1>3, Zenon DEF Typed
<1>5. Nested' /\ TypesKnown'
  BY <1>2, Zenon DEF Nested, TypesKnown, find_type
<1>6. Open'
  BY <1>1, <1>2 DEF Open
<1> QED BY <1>4, <1>5, <1>6

LEMMA UsedNamesTyped == UsedNames \subseteq Names
<1>1. VariableNames \subseteq Names
  BY ProgramAssumption DEF VariableNames, Declarator
<1>2. FunctionNames \subseteq Names
  BY ProgramAssumption
<1>3. ASSUME NEW es \in Enumerators, NEW k \in DOMAIN es
      PROVE  es[k].name \in Names
  <2> DEFINE Enumerator == [name : Names, assigned : BOOLEAN, value : Int]
  <2>1. es \in Seq(Enumerator)
    BY ProgramAssumption, Zenon
  <2>2. \A e \in Enumerator : e.name \in Names
    OBVIOUS
  <2> HIDE DEF Enumerator
  <2>3. es[k] \in Enumerator
    BY <2>1
  <2> QED BY <2>2, <2>3
<1>4. UNION {{es[k].name : k \in DOMAIN es} : es \in Enumerators} \subseteq Names
  BY <1>3
<1> QED BY <1>1, <1>2, <1>4 DEF UsedNames

LEMMA NextPlaces == ASSUME Places, Next PROVE Places'
<1>1. ASSUME NEW d \in Declarators, NEW semicolon \in BOOLEAN, GlobalVariable(d, semicolon)
      PROVE  Places'
  BY <1>1, GlobalVariablePlaces
<1>2. ASSUME NEW name \in FunctionNames, NEW ps \in Parameters,
             Prototype(name, ps) \/ FunctionDefinition(name, ps)
      PROVE  Places'
  BY <1>2, PrototypePlaces, FunctionDefinitionPlaces
<1>3. ASSUME NEW name \in TypeNames,
             \/ \E es \in Enumerators : TypedefEnum(name, es)
             \/ \E ds \in Fields : TypedefStruct(name, ds)
             \/ \E k \in 1..Len(types) : TypedefType(name, types[k].name)
      PROVE  Places'
  BY <1>3, TypedefEnumPlaces, TypedefStructPlaces, TypedefTypePlaces
<1>4. CASE Finish
  BY <1>4, FinishPlaces
<1>5. ASSUME NEW d \in Declarators, NEW initialised \in BOOLEAN,
             LocalVariable(d, initialised) \/ LocalContinued(d, initialised)
      PROVE  Places'
  BY <1>5, LocalVariablePlaces, LocalContinuedPlaces
<1>6. CASE OpenBlock
  BY <1>6, OpenBlockPlaces
<1>7. CASE CloseBlock
  BY <1>7, CloseBlockPlaces
<1>8. ASSUME NEW name \in UsedNames,
             UseStatement(name) \/ \E called \in BOOLEAN : UseOperand(name, called)
      PROVE  Places'
  <2>1. name \in Names
    BY UsedNamesTyped
  <2>2. Operand(name) \in Entities /\ Statement(name) \in Entities
    BY FoundTyped
  <2>3. CASE UseStatement(name)
    <3>1. pc = "body" /\ UseAs(name, Statement(name), TRUE)
      BY <2>3 DEF UseStatement
    <3>2. PICK found : found = Statement(name)
      OBVIOUS
    <3> QED BY <2>1, <2>2, <3>1, <3>2, UseAsPlaces
  <2>4. ASSUME NEW called \in BOOLEAN, UseOperand(name, called)
        PROVE  Places'
    <3>1. pc = "body" /\ UseAs(name, Operand(name), called)
      BY <2>4 DEF UseOperand
    <3>2. PICK found : found = Operand(name)
      OBVIOUS
    <3> QED BY <2>1, <2>2, <3>1, <3>2, UseAsPlaces
  <2> QED BY <1>8, <2>3, <2>4
<1> QED BY <1>1, <1>2, <1>3, <1>4, <1>5, <1>6, <1>7, <1>8, Zenon DEF Next

LEMMA StutterPlaces == ASSUME Places, UNCHANGED vars PROVE Places'
BY Zenon DEF Places, Typed, Nested, Open, TypesKnown, find_type, vars

LEMMA InvariantPlaces == Spec => []Places
<1>1. Init => Places
  BY InitPlaces
<1>2. Places /\ [Next]_vars => Places'
  BY NextPlaces, StutterPlaces
<1> QED BY <1>1, <1>2, PTL DEF Spec

\* Whatever is declared, in any number and order, the tables of globals.c hold
\* variables whose flags are flags, functions with no more than MAX_PARAMS
\* parameters, and blocks that are in earlier blocks of the same function; the
\* block that is open, and the first variable of the declaration that is read,
\* are among them.
THEOREM Typing == Spec => []TypeOK
<1>1. Places => TypeOK
  <2> SUFFICES ASSUME Places PROVE TypeOK
    OBVIOUS
  <2> USE DEF Places
  <2>1. \A v \in Variable : IsVariable(v)
    BY DEF IsVariable, Variable
  <2>2. \A k \in 1..Len(globals) : IsVariable(globals[k])
    BY <2>1, ElementTyped DEF Typed
  <2>3. ASSUME NEW f \in 1..Len(functions)
        PROVE  /\ functions[f].num_params \in 0..MAX_PARAMS
               /\ \A k \in 1..MAX_PARAMS : IsVariable(functions[f].params[k])
    <3>1. functions[f] \in Function
      BY ElementTyped DEF Typed
    <3>2. functions[f].num_params \in 0..MAX_PARAMS
          /\ functions[f].params \in [1..MAX_PARAMS -> Variable]
      BY <3>1 DEF Function, Slots
    <3> QED BY <2>1, <3>2
  <2>4. ASSUME NEW b \in 1..Len(blocks)
        PROVE  \A k \in 1..Len(blocks[b].locals) : IsVariable(blocks[b].locals[k])
    <3>1. blocks[b] \in Block
      BY ElementTyped DEF Typed
    <3>2. blocks[b].locals \in Seq(Variable)
      BY <3>1 DEF Block
    <3> QED BY <2>1, <3>2, ElementTyped
  <2>5. pc \in {"global", "body", "done", "error"}
    BY DEF Typed
  <2> QED BY <2>2, <2>3, <2>4, <2>5, Zenon DEF TypeOK, Nested, Open
<1> QED BY <1>1, InvariantPlaces, PTL

-----------------------------------------------------------------------------
(* Sizes.                                                                  *)

\* An array has elements, and they are not pointers: ArraysOfValues says this
\* of every declarator.
Sizable(d) == d.form = "array" => ~ d.star /\ d.n > 0

\* A variable is what its declarator says, and nothing of what was declared
\* before it is left in it.
Faithful(v) ==
    LET d == v.declarator IN
    /\ d \in Declarator /\ v.type = d.type /\ Sizable(d)
    /\ v.is_pointer = (IF d.star THEN 1 ELSE 0) + (IF d.form = "open" THEN 1 ELSE 0)
    /\ v.is_function = IF d.form = "function" THEN 1 ELSE 0
    /\ d.form = "array" => v.array_size = d.n
    /\ d.form = "plain" => v.array_size = 0

GlobalsFaithful == \A k \in 1..Len(globals) : Faithful(globals[k])

\* _temp_variable is a function pointer only after the last global was one.
TempClean ==
    temp.is_function # 0 =>
        Len(globals) > 0 /\ globals[Len(globals)].declarator.form = "function"

ParamsFaithful ==
    \A f \in 1..Len(functions) : \A k \in 1..functions[f].num_params :
        functions[f].params[k].name # "var_arg" => Faithful(functions[f].params[k])

LocalsFaithful ==
    \A b \in 1..Len(blocks) : \A k \in 1..Len(blocks[b].locals) : Faithful(blocks[b].locals[k])

\* The fields of a type, each of a known type or an address, follow each other and fill it.
Filled(t) ==
    \A k \in 1..Len(t.fields) :
        /\ Faithful(t.fields[k].var) /\ SizeKnown(t.fields[k].var)
        /\ t.fields[k].offset + size_variable(t.fields[k].var) =
               IF k = Len(t.fields) THEN t.size ELSE t.fields[k + 1].offset

FieldsFill == \A t \in 1..Len(types) : Filled(types[t])

\* An initial value is as wide as the variable that it is for.
Wide(i, bs) ==
    /\ i.block \in 1..Len(bs) /\ i.found.k \in 1..Len(bs[i.block].locals)
    /\ i.size = p_get_size(bs[i.block].locals[i.found.k])

ValuesWide == \A i \in 1..Len(il) : il[i].size # 0 => Wide(il[i], blocks)

SizesHeld ==
    /\ GlobalsFaithful /\ TempClean /\ ParamsFaithful /\ LocalsFaithful /\ FieldsFill
    /\ ValuesWide

LEMMA FaithfulFits ==
    ASSUME NEW v \in Variable, Faithful(v)
    PROVE  /\ size_variable(v) = SizeWritten(v.declarator)
           /\ v.declarator.form # "array" => p_get_size(v) = SizeWritten(v.declarator)
<1>1. PICK d, s : d = v.declarator /\ s = TypeNamed(d.type).size
  OBVIOUS
<1>2. /\ d.form \in {"plain", "array", "open", "function"} /\ d.star \in BOOLEAN /\ d.n \in Nat
      /\ v.type = d.type /\ (d.form = "array" => ~ d.star /\ d.n > 0)
      /\ v.is_pointer = (IF d.star THEN 1 ELSE 0) + (IF d.form = "open" THEN 1 ELSE 0)
      /\ v.is_function = IF d.form = "function" THEN 1 ELSE 0
      /\ (d.form = "array" => v.array_size = d.n)
      /\ (d.form = "plain" => v.array_size = 0)
  BY <1>1 DEF Faithful, Sizable, Declarator
<1>3. /\ size_variable(v) = IF v.is_pointer > 0 \/ v.is_function > 0 THEN 4
                            ELSE IF v.array_size > 0 THEN v.array_size * s ELSE s
      /\ p_get_size(v) = IF v.is_pointer > 0 \/ v.is_function > 0 THEN 4 ELSE s
  BY <1>1, <1>2, Zenon DEF size_variable, p_get_size
<1>4. SizeWritten(d) = CASE d.form \in {"function", "open"} -> 4
                         [] d.form = "array" -> d.n * (IF d.star THEN 4 ELSE s)
                         [] d.form = "plain" -> IF d.star THEN 4 ELSE s
  BY <1>1, Zenon DEF SizeWritten
<1>5. CASE d.form \in {"function", "open"}
  <2>1. SizeWritten(d) = 4
    BY <1>4, <1>5
  <2>2. v.is_pointer > 0 \/ v.is_function > 0
    BY <1>2, <1>5
  <2> QED BY <1>1, <1>3, <2>1, <2>2, Zenon
<1>6. CASE d.form = "array"
  <2>1. SizeWritten(d) = d.n * s
    BY <1>2, <1>4, <1>6
  <2>2. v.array_size = d.n /\ v.array_size > 0 /\ ~(v.is_pointer > 0) /\ ~(v.is_function > 0)
    BY <1>2, <1>6
  <2> QED BY <1>1, <1>3, <1>6, <2>1, <2>2, Zenon
<1>7. CASE d.form = "plain"
  <2>1. SizeWritten(d) = IF d.star THEN 4 ELSE s
    BY <1>4, <1>7
  <2>2. ~(v.array_size > 0) /\ ~(v.is_function > 0) /\ (d.star <=> v.is_pointer > 0)
    BY <1>2, <1>7
  <2> QED BY <1>1, <1>3, <2>1, <2>2, Zenon
<1> QED BY <1>2, <1>5, <1>6, <1>7

\* SizesHeld is enough.
LEMMA SizedFits == ASSUME Places, SizesHeld PROVE SizesAsWritten
<1> USE DEF Places, SizesHeld
<1> DEFINE Fits(v) == size_variable(v) = SizeWritten(v.declarator)
<1>1. \A v \in Variable : Faithful(v) => Fits(v)
  BY FaithfulFits
<1>2. \A k \in 1..Len(globals) : Fits(globals[k])
  <2>1. \A k \in 1..Len(globals) : globals[k] \in Variable /\ Faithful(globals[k])
    BY ElementTyped DEF Typed, GlobalsFaithful
  <2> HIDE DEF Fits
  <2> QED BY <1>1, <2>1
<1>3. ASSUME NEW f \in 1..Len(functions), NEW k \in 1..functions[f].num_params,
             functions[f].params[k].name # "var_arg"
      PROVE  Fits(functions[f].params[k])
  <2>1. functions[f] \in Function
    BY ElementTyped DEF Typed
  <2>2. k \in 1..MAX_PARAMS
    BY <2>1, MaxParamsAssumption DEF Function
  <2>3. functions[f].params[k] \in Variable
    BY <2>1, <2>2 DEF Function, Slots
  <2>4. Faithful(functions[f].params[k])
    BY <1>3 DEF ParamsFaithful
  <2> HIDE DEF Fits
  <2> QED BY <1>1, <2>3, <2>4
<1>4. ASSUME NEW b \in 1..Len(blocks), NEW k \in 1..Len(blocks[b].locals)
      PROVE  blocks[b].locals[k] \in Variable /\ Fits(blocks[b].locals[k])
             /\ Faithful(blocks[b].locals[k])
  <2>1. blocks[b] \in Block
    BY ElementTyped DEF Typed
  <2>2. blocks[b].locals \in Seq(Variable)
    BY <2>1 DEF Block
  <2>3. blocks[b].locals[k] \in Variable
    BY <2>2, ElementTyped
  <2>4. Faithful(blocks[b].locals[k])
    BY DEF LocalsFaithful
  <2> HIDE DEF Fits
  <2> QED BY <1>1, <2>3, <2>4
<1>5. ASSUME NEW t \in 1..Len(types), NEW k \in 1..Len(types[t].fields)
      PROVE  types[t].fields[k].offset + SizeWritten(types[t].fields[k].var.declarator) =
                 IF k = Len(types[t].fields) THEN types[t].size
                 ELSE types[t].fields[k + 1].offset
  <2>1. types[t] \in Type
    BY ElementTyped DEF Typed
  <2>2. types[t].fields \in Seq(Field)
    BY <2>1 DEF Type
  <2>3. types[t].fields[k] \in Field
    BY <2>2, ElementTyped
  <2>4. types[t].fields[k].var \in Variable
    BY <2>3 DEF Field
  <2>5. Filled(types[t])
    BY DEF FieldsFill
  <2>6. Faithful(types[t].fields[k].var)
        /\ types[t].fields[k].offset + size_variable(types[t].fields[k].var) =
               IF k = Len(types[t].fields) THEN types[t].size
               ELSE types[t].fields[k + 1].offset
    BY <2>5, Zenon DEF Filled
  <2>7. size_variable(types[t].fields[k].var)
            = SizeWritten(types[t].fields[k].var.declarator)
    BY <1>1, <2>4, <2>6
  <2> QED BY <2>6, <2>7, Zenon
<1>6. ASSUME NEW i \in 1..Len(il), il[i].size # 0,
             blocks[il[i].block].locals[il[i].found.k].declarator.form # "array"
      PROVE  il[i].size =
                 SizeWritten(blocks[il[i].block].locals[il[i].found.k].declarator)
  <2>1. Wide(il[i], blocks)
    BY <1>6 DEF ValuesWide
  <2>2. PICK b, k : b = il[i].block /\ k = il[i].found.k
    OBVIOUS
  <2>3. b \in 1..Len(blocks) /\ k \in 1..Len(blocks[b].locals)
        /\ il[i].size = p_get_size(blocks[b].locals[k])
    BY <2>1, <2>2, Zenon DEF Wide
  <2>4. blocks[b].locals[k] \in Variable /\ Faithful(blocks[b].locals[k])
    BY <1>4, <2>3
  <2>5. p_get_size(blocks[b].locals[k]) = SizeWritten(blocks[b].locals[k].declarator)
    BY <1>6, <2>2, <2>4, FaithfulFits
  <2> QED BY <2>2, <2>3, <2>5, Zenon
<1> QED BY <1>2, <1>3, <1>4, <1>5, <1>6, Zenon DEF SizesAsWritten

LEMMA InitSized == Init => SizesHeld
<1> SUFFICES ASSUME Init PROVE SizesHeld
  OBVIOUS
<1>1. GlobalsFaithful /\ LocalsFaithful
  BY DEF Init, GlobalsFaithful, LocalsFaithful
<1>2. TempClean
  BY DEF Init, TempClean, Zeroed
<1>3. ParamsFaithful
  <2>1. Len(functions) = 1
    BY DEF Init
  <2>2. functions[1].num_params = 0
    BY DEF Init, NewFunction
  <2>3. \A f \in 1..Len(functions) : f = 1
    BY <2>1
  <2> QED BY <2>2, <2>3 DEF ParamsFaithful
<1>4. FieldsFill
  <2>1. \A k \in 1..Len(types) : types[k].fields = << >>
    BY DEF Init, BuiltIn
  <2>2. \A k \in 1..Len(types) : Len(types[k].fields) = 0
    BY <2>1
  <2> QED BY <2>2 DEF FieldsFill, Filled
<1>5. ValuesWide
  <2>1. /\ "op_label" \in Ops /\ "op_start" \in Ops /\ "op_function_call" \in Ops
        /\ "op_exit" \in Ops /\ "op_entry_point" \in Ops /\ "op_syscall" \in Ops
        /\ "op_exit_point" \in Ops
    BY Zenon DEF Ops
  <2> DEFINE Zero(i) == i.size = 0
             Naming(op, name) == [Plain(op) EXCEPT !.name = name]
  <2>0. \A op \in Ops, name \in Names : Zero(Plain(op)) /\ Zero(Naming(op, name))
    BY PlainTyped
  <2>2. /\ Zero(Plain("op_label")) /\ Zero(Plain("op_start"))
        /\ Zero([Plain("op_function_call") EXCEPT !.name = "main"])
        /\ Zero(Plain("op_exit"))
        /\ Zero([Plain("op_entry_point") EXCEPT !.name = "__syscall"])
        /\ Zero(Plain("op_syscall")) /\ Zero(Plain("op_exit_point"))
    <3> HIDE DEF Zero
    <3> QED BY <2>0, <2>1, NamesTyped, Zenon
  <2> HIDE DEF Zero
  <2>3. ASSUME NEW a, NEW b, NEW c, NEW d, NEW e, NEW f, NEW g,
               Zero(a), Zero(b), Zero(c), Zero(d), Zero(e), Zero(f), Zero(g),
               NEW s, s = << a, b, c, a, d, e, f, g >>
        PROVE  \A i \in 1..Len(s) : Zero(s[i])
    BY <2>3
  <2>4. \A i \in 1..Len(il) : Zero(il[i])
    <3>1. il = Prologue
      BY DEF Init
    <3> QED BY <2>2, <2>3, <3>1, Zenon DEF Prologue
  <2> QED BY <2>4 DEF ValuesWide, Zero
<1> QED BY <1>1, <1>2, <1>3, <1>4, <1>5 DEF SizesHeld

\* The sizes of variables of known types and of addresses do not change.
LEMMA SizesStable ==
    ASSUME types \in Seq(Type), NEW t \in Type, types' = Append(types, t), NEW v,
           SizeKnown(v)
    PROVE  /\ size_variable(v)' = size_variable(v) /\ p_get_size(v)' = p_get_size(v)
           /\ SizeKnown(v)'
<1>1. CASE v.is_pointer > 0 \/ v.is_function > 0
  BY <1>1, Zenon DEF size_variable, p_get_size, SizeKnown
<1>2. CASE ~ (v.is_pointer > 0 \/ v.is_function > 0)
  <2>1. PICK name : name = v.type
    OBVIOUS
  <2>2. find_type(name) # Nothing
    BY <1>2, <2>1, Zenon DEF SizeKnown
  <2>3. find_type(name)' = find_type(name) /\ TypeNamed(name)' = TypeNamed(name)
    BY <2>2, TypesStable
  <2>4. TypeNamed(v.type)' = TypeNamed(v.type) /\ find_type(v.type)' = find_type(v.type)
    BY <2>1, <2>3
  <2>5. size_variable(v)' = size_variable(v)
    BY <2>4, Zenon DEF size_variable
  <2>6. p_get_size(v)' = p_get_size(v)
    BY <2>4, Zenon DEF p_get_size
  <2>7. find_type(v.type)' # Nothing
    BY <2>1, <2>2, <2>3
  <2>8. SizeKnown(v)'
    BY <2>7, Zenon DEF SizeKnown
  <2> QED BY <2>5, <2>6, <2>8
<1> QED BY <1>1, <1>2

LEMMA FieldsFillKept == ASSUME FieldsFill, UNCHANGED types PROVE FieldsFill'
BY ZenonT(30) DEF FieldsFill, Filled, SizeKnown, size_variable, TypeNamed, find_type

\* A type is declared.
LEMMA TypedefSized ==
    ASSUME Places, SizesHeld, NEW new \in Type, types' = Append(types, new), Filled(new),
           UNCHANGED <<functions, globals, blocks, temp, il>>
    PROVE  SizesHeld'
<1> USE DEF Places, SizesHeld
<1>1. types \in Seq(Type) /\ Len(types) \in Nat
  BY DEF Typed
<1>2. ASSUME NEW t, Filled(t)
      PROVE  Filled(t)'
  <2> SUFFICES ASSUME NEW k \in 1..Len(t.fields)
               PROVE  /\ Faithful(t.fields[k].var)
                      /\ SizeKnown(t.fields[k].var)'
                      /\ t.fields[k].offset + size_variable(t.fields[k].var)' =
                             IF k = Len(t.fields) THEN t.size ELSE t.fields[k + 1].offset
    BY Zenon DEF Filled
  <2>1. PICK v : v = t.fields[k].var
    OBVIOUS
  <2>2. /\ Faithful(v) /\ SizeKnown(v)
        /\ t.fields[k].offset + size_variable(v) =
               IF k = Len(t.fields) THEN t.size ELSE t.fields[k + 1].offset
    BY <1>2, <2>1, Zenon DEF Filled
  <2>3. size_variable(v)' = size_variable(v) /\ SizeKnown(v)'
    BY <1>1, <2>2, SizesStable
  <2>4. size_variable(t.fields[k].var)' = size_variable(v)'
        /\ SizeKnown(t.fields[k].var)' = SizeKnown(v)'
    BY <2>1
  <2> QED BY <2>1, <2>2, <2>3, <2>4, Zenon
<1>3. FieldsFill'
  <2>1. /\ Len(types') = Len(types) + 1 /\ types'[Len(types) + 1] = new
        /\ \A k \in 1..Len(types) : types'[k] = types[k]
    BY <1>1, AppendTyped
  <2> SUFFICES ASSUME NEW k \in 1..Len(types'), NEW t, t = types'[k]
               PROVE  Filled(t)'
    BY Zenon DEF FieldsFill
  <2>2. CASE k = Len(types) + 1
    BY <1>2, <2>1, <2>2
  <2>3. CASE k # Len(types) + 1
    <3>1. k \in 1..Len(types)
      BY <1>1, <2>1, <2>3
    <3>2. t = types[k]
      BY <2>1, <3>1
    <3>3. Filled(t)
      BY <3>1, <3>2 DEF FieldsFill
    <3> QED BY <1>2, <3>3
  <2> QED BY <2>2, <2>3
<1>4. ValuesWide'
  <2> SUFFICES ASSUME NEW i \in 1..Len(il), il[i].size # 0
               PROVE  Wide(il[i], blocks)'
    BY Zenon DEF ValuesWide, Wide, p_get_size, TypeNamed, find_type
  <2>1. PICK b, k : b = il[i].block /\ k = il[i].found.k
    OBVIOUS
  <2>2. PICK v : v = blocks[b].locals[k]
    OBVIOUS
  <2>3. Wide(il[i], blocks)
    BY DEF ValuesWide
  <2>4. b \in 1..Len(blocks) /\ k \in 1..Len(blocks[b].locals) /\ il[i].size = p_get_size(v)
    BY <2>1, <2>2, <2>3, Zenon DEF Wide
  <2>5. find_type(v.type) # Nothing
    BY <2>2, <2>4 DEF TypesKnown
  <2>6. p_get_size(v)' = p_get_size(v)
    BY <1>1, <2>5, SizesStable DEF SizeKnown
  <2>7. Wide(il[i], blocks)' <=> /\ b \in 1..Len(blocks) /\ k \in 1..Len(blocks[b].locals)
                                 /\ il[i].size = p_get_size(v)'
    BY <2>1, <2>2, Zenon DEF Wide
  <2> QED BY <2>4, <2>6, <2>7
<1>5. GlobalsFaithful' /\ TempClean' /\ ParamsFaithful' /\ LocalsFaithful'
  BY Zenon DEF GlobalsFaithful, TempClean, ParamsFaithful, LocalsFaithful
<1> QED BY <1>3, <1>4, <1>5

\* The code grows and the blocks keep their variables.
LEMMA ValuesWideKept ==
    ASSUME Typed, ValuesWide, UNCHANGED types,
           blocks' \in Seq(Block), Len(blocks) <= Len(blocks'),
           \A b \in 1..Len(blocks) :
               /\ Len(blocks[b].locals) <= Len(blocks'[b].locals)
               /\ \A k \in 1..Len(blocks[b].locals) :
                      blocks'[b].locals[k] = blocks[b].locals[k],
           \A i \in 1..Len(il') :
               \/ i \in 1..Len(il) /\ il'[i] = il[i]
               \/ il'[i].size = 0
               \/ Wide(il'[i], blocks')
    PROVE  ValuesWide'
<1> SUFFICES ASSUME NEW i \in 1..Len(il'), il'[i].size # 0
             PROVE  Wide(il'[i], blocks')
  BY Zenon DEF ValuesWide, Wide, p_get_size, TypeNamed, find_type
<1>1. CASE Wide(il'[i], blocks')
  BY <1>1
<1>2. CASE i \in 1..Len(il) /\ il'[i] = il[i]
  <2>1. Wide(il[i], blocks)
    BY <1>2 DEF ValuesWide
  <2>2. PICK x, b, k : x = il[i] /\ b = x.block /\ k = x.found.k
    OBVIOUS
  <2>3. b \in 1..Len(blocks) /\ k \in 1..Len(blocks[b].locals)
        /\ x.size = p_get_size(blocks[b].locals[k])
    BY <2>1, <2>2, Zenon DEF Wide
  <2>4. blocks'[b] \in Block /\ blocks[b] \in Block /\ b \in 1..Len(blocks')
    <3>1. b \in 1..Len(blocks')
      BY <2>3 DEF Typed
    <3> QED BY <2>3, <3>1, ElementTyped DEF Typed
  <2>5. Len(blocks[b].locals) \in Nat /\ Len(blocks'[b].locals) \in Nat
    <3>1. \A x1 \in Block : Len(x1.locals) \in Nat
      BY DEF Block
    <3> QED BY <2>4, <3>1, Zenon
  <2>6. k \in 1..Len(blocks'[b].locals) /\ blocks'[b].locals[k] = blocks[b].locals[k]
    BY <2>3, <2>5
  <2> QED BY <1>2, <2>2, <2>3, <2>4, <2>6, Zenon DEF Wide
<1> QED BY <1>1, <1>2

LEMMA FullFaithful ==
    ASSUME NEW vd \in Variable, NEW d \in Declarator, Sizable(d),
           vd.is_function = 0 \/ d.form = "function"
    PROVE  Faithful(Full(vd, d)) /\ Full(vd, d).declarator = d
<1>1. PICK v : v = Full(vd, d)
  OBVIOUS
<1>2. /\ v.type = d.type /\ v.declarator = d
      /\ v.is_pointer = (IF d.star THEN 1 ELSE 0) + (IF d.form = "open" THEN 1 ELSE 0)
      /\ v.is_function = (IF d.form = "function" THEN 1 ELSE vd.is_function)
      /\ v.array_size = (IF d.form = "array" THEN d.n
                         ELSE IF d.form = "plain" THEN 0 ELSE vd.array_size)
  BY <1>1, FullFields
<1>3. v.is_function = IF d.form = "function" THEN 1 ELSE 0
  BY <1>2
<1>4. /\ d.form = "array" => v.array_size = d.n
      /\ d.form = "plain" => v.array_size = 0
  BY <1>2
<1>5. Faithful(v)
  BY <1>2, <1>3, <1>4, Zenon DEF Faithful
<1> QED BY <1>1, <1>2, <1>5

LEMMA ZeroedClean == Zeroed.is_function = 0
BY DEF Zeroed

LEMMA BlockLocals ==
    ASSUME NEW x \in Block
    PROVE  x.locals \in Seq(Variable) /\ Len(x.locals) \in Nat
<1>1. x.locals \in Seq(Variable)
  BY DEF Block
<1> QED BY <1>1

LEMMA DeclaratorsSizable ==
    ASSUME ArraysOfValues
    PROVE  /\ \A d \in Declarators : Sizable(d)
           /\ \A ds \in Fields : \A k \in 1..Len(ds) : Sizable(ds[k])
           /\ \A p \in Parameters : \A k \in 1..Len(p.vars) : Sizable(p.vars[k])
BY Zenon DEF ArraysOfValues, Sizable

LEMMA GlobalVariableSized ==
    ASSUME Places, SizesHeld, ArraysOfValues, FunctionPointerLast',
           NEW d \in Declarators, NEW semicolon \in BOOLEAN, GlobalVariable(d, semicolon)
    PROVE  SizesHeld'
<1> USE DEF Places, SizesHeld
<1>1. d \in Declarator /\ Sizable(d)
  BY ProgramAssumption, DeclaratorsSizable
<1>2. temp \in Variable /\ globals \in Seq(Variable) /\ Len(globals) \in Nat
  BY DEF Typed
<1>3. PICK v : v = Full(temp, d)
  OBVIOUS
<1>4. temp' = v /\ globals' = Append(globals, v)
      /\ UNCHANGED <<types, functions, blocks, il>>
  BY <1>3, Zenon DEF GlobalVariable
<1>5. v \in Variable
  BY <1>1, <1>2, <1>3, FullTyped
<1>6. /\ Len(globals') = Len(globals) + 1 /\ globals'[Len(globals) + 1] = v
      /\ \A k \in 1..Len(globals) : globals'[k] = globals[k]
  BY <1>2, <1>4, <1>5, AppendTyped
<1>7. temp.is_function = 0
  <2> SUFFICES ASSUME temp.is_function # 0 PROVE FALSE
    OBVIOUS
  <2>1. Len(globals) > 0 /\ globals[Len(globals)].declarator.form = "function"
    BY DEF TempClean
  <2>2. Len(globals) \in 1..(Len(globals') - 1) /\ Len(globals) \in 1..Len(globals)
    BY <1>2, <1>6, <2>1
  <2>3. globals'[Len(globals)].declarator.form # "function"
    BY <2>2, Zenon DEF FunctionPointerLast
  <2> QED BY <1>6, <2>1, <2>2, <2>3
<1>8. Faithful(v) /\ v.declarator = d
  BY <1>1, <1>2, <1>3, <1>7, FullFaithful
<1>9. GlobalsFaithful'
  <2> SUFFICES ASSUME NEW k \in 1..Len(globals') PROVE Faithful(globals'[k])
    BY Zenon DEF GlobalsFaithful
  <2>1. CASE k = Len(globals) + 1
    BY <1>6, <1>8, <2>1
  <2>2. CASE k # Len(globals) + 1
    <3>1. k \in 1..Len(globals)
      BY <1>2, <1>6, <2>2
    <3> QED BY <1>6, <3>1 DEF GlobalsFaithful
  <2> QED BY <2>1, <2>2
<1>10. TempClean'
  <2>1. v.is_function # 0 => d.form = "function"
    BY <1>8 DEF Faithful
  <2>2. Len(globals') > 0
    BY <1>2, <1>6
  <2> QED BY <1>4, <1>6, <1>8, <2>1, <2>2 DEF TempClean
<1>11. FieldsFill'
  BY <1>4, FieldsFillKept
<1>12. ParamsFaithful' /\ LocalsFaithful' /\ ValuesWide'
  BY <1>4, Zenon DEF ParamsFaithful, LocalsFaithful, ValuesWide, Wide, p_get_size,
                     TypeNamed, find_type
<1> QED BY <1>9, <1>10, <1>11, <1>12

LEMMA ParameterListFaithful ==
    ASSUME ArraysOfValues, NEW ps \in Parameters, NEW k \in 1..MAX_PARAMS,
           ~ ps.variadic => k <= Len(ps.vars),
           ParameterList(EmptySlots, ps)[k].name # "var_arg"
    PROVE  Faithful(ParameterList(EmptySlots, ps)[k])
<1>1. ps.vars \in Seq(Declarator) /\ Len(ps.vars) \in Nat
  BY ProgramAssumption
<1>2. EmptySlots[k] = Zeroed
  BY DEF EmptySlots
<1>3. ParameterList(EmptySlots, ps)[k] =
          IF k <= Len(ps.vars) THEN Full(Zeroed, ps.vars[k])
          ELSE IF ps.variadic
          THEN [Zeroed EXCEPT !.type = "int", !.name = "var_arg", !.is_pointer = 1]
          ELSE Zeroed
  BY <1>2, Zenon DEF ParameterList
<1>4. k <= Len(ps.vars)
  <2> SUFFICES ASSUME ~(k <= Len(ps.vars)) PROVE FALSE
    OBVIOUS
  <2>1. ParameterList(EmptySlots, ps)[k]
            = [Zeroed EXCEPT !.type = "int", !.name = "var_arg", !.is_pointer = 1]
    BY <1>3, Zenon
  <2>2. PICK v1 : v1 = [Zeroed EXCEPT !.type = "int"]
    OBVIOUS
  <2>3. v1 \in Variable
    BY <2>2, BlankTyped, NamesTyped, FieldsTyped, Zenon
  <2>4. PICK v2 : v2 = [v1 EXCEPT !.name = "var_arg"]
    OBVIOUS
  <2>5. v2 \in Variable /\ v2.name = "var_arg"
    <3>1. v2 \in Variable
      BY <2>3, <2>4, NamesTyped, FieldsTyped, Zenon
    <3>2. v2.name = "var_arg"
      BY <2>3, <2>4 DEF Variable
    <3> QED BY <3>1, <3>2
  <2>6. [v2 EXCEPT !.is_pointer = 1].name = "var_arg"
    BY <2>5 DEF Variable
  <2>7. ParameterList(EmptySlots, ps)[k] = [v2 EXCEPT !.is_pointer = 1]
    BY <2>1, <2>2, <2>4, Zenon
  <2> QED BY <2>6, <2>7
<1>5. ps.vars[k] \in Declarator /\ Sizable(ps.vars[k])
  <2>1. k \in 1..Len(ps.vars)
    BY <1>1, <1>4
  <2> QED BY <1>1, <2>1, DeclaratorsSizable, ElementTyped
<1>6. Faithful(Full(Zeroed, ps.vars[k]))
  BY <1>5, BlankTyped, ZeroedClean, FullFaithful
<1> QED BY <1>3, <1>4, <1>6

\* A function is declared: the ones that were keep their parameters.
LEMMA ParamsDeclared ==
    ASSUME Typed, ParamsFaithful, ArraysOfValues, SameParameters,
           NEW name \in Names, NEW ps \in Parameters,
           NEW f, f = EntryOf(add_function(name), name),
           NEW old, old = WithParameters(add_function(name), f, ps),
           Len(functions') = Len(old),
           \A k \in 1..Len(old) : /\ functions'[k].params = old[k].params
                                  /\ functions'[k].num_params = old[k].num_params
    PROVE  ParamsFaithful'
<1>1. PICK table : table = add_function(name)
  OBVIOUS
<1>2. /\ table \in Seq(Function) /\ Len(functions) <= Len(table)
      /\ Len(functions) \in Nat /\ Len(table) \in Nat
      /\ f \in 1..Len(table)
      /\ \A k \in 1..Len(table) : k > Len(functions) => k = f /\ table[k] = NewFunction(name)
  BY <1>1, AddFunctionProperties, Zenon
<1>3. /\ Len(old) = Len(table)
      /\ old[f].params = ParameterList(table[f].params, ps)
      /\ old[f].num_params = IF ps.variadic THEN MAX_PARAMS ELSE Len(ps.vars)
  BY <1>1, <1>2, WithParametersTyped
<1> SUFFICES ASSUME NEW g \in 1..Len(functions'), NEW k \in 1..functions'[g].num_params,
                    functions'[g].params[k].name # "var_arg"
             PROVE  Faithful(functions'[g].params[k])
  BY Zenon DEF ParamsFaithful
<1>4. CASE g \in 1..Len(functions)
  <2>1. functions'[g].params = functions[g].params
        /\ functions'[g].num_params = functions[g].num_params
    BY <1>4 DEF SameParameters
  <2> QED BY <1>4, <2>1 DEF ParamsFaithful
<1>5. CASE g \notin 1..Len(functions)
  <2>1. g \in 1..Len(table) /\ g > Len(functions)
    BY <1>2, <1>3, <1>5
  <2>2. g = f /\ table[f] = NewFunction(name)
    BY <1>2, <2>1
  <2>3. table[f].params = EmptySlots
    BY <2>2 DEF NewFunction
  <2>4. functions'[g].params = ParameterList(EmptySlots, ps)
        /\ functions'[g].num_params = IF ps.variadic THEN MAX_PARAMS ELSE Len(ps.vars)
    BY <1>3, <2>1, <2>2, <2>3
  <2>5. ps.vars \in Seq(Declarator) /\ ps.variadic \in BOOLEAN
    BY ProgramAssumption
  <2>6. k \in 1..MAX_PARAMS /\ (~ ps.variadic => k <= Len(ps.vars))
    <3>1. Len(ps.vars) \in Nat /\ Len(ps.vars) <= MAX_PARAMS /\ MAX_PARAMS \in Nat
      BY <2>5, MaxParamsAssumption
    <3> QED BY <2>4, <2>5, <3>1
  <2> QED BY <2>4, <2>6, ParameterListFaithful
<1> QED BY <1>4, <1>5

\* The result of a function is read into _temp_variable and leaves it clean.
LEMMA ResultClean ==
    ASSUME Typed, TempClean, NEW name \in Names, temp' = Full(temp, Result(name)),
           UNCHANGED globals
    PROVE  TempClean'
<1>1. Result(name) \in Declarator
  <2>1. "int" \in Names /\ FALSE \in BOOLEAN /\ 0 \in Nat
        /\ "plain" \in {"plain", "array", "open", "function"}
    BY NamesTyped
  <2> QED BY <2>1, Zenon DEF Result, Declarator
<1>2. Result(name).form # "function"
  BY DEF Result
<1>3. temp'.is_function = IF Result(name).form = "function" THEN 1 ELSE temp.is_function
  <2>1. PICK d : d = Result(name)
    OBVIOUS
  <2>2. PICK v : v = Full(temp, d)
    OBVIOUS
  <2>3. temp \in Variable
    BY DEF Typed
  <2>4. v.is_function = IF d.form = "function" THEN 1 ELSE temp.is_function
    BY <1>1, <2>1, <2>2, <2>3, FullFields
  <2> QED BY <2>1, <2>2, <2>4
<1>4. temp'.is_function = temp.is_function
  BY <1>2, <1>3
<1> QED BY <1>4, Zenon DEF TempClean

LEMMA PrototypeSized ==
    ASSUME Places, SizesHeld, ArraysOfValues, SameParameters,
           NEW name \in FunctionNames, NEW ps \in Parameters, Prototype(name, ps)
    PROVE  SizesHeld'
<1> USE DEF Places, SizesHeld
<1>1. name \in Names
  BY ProgramAssumption
<1>2. PICK f : f = EntryOf(add_function(name), name)
  OBVIOUS
<1>3. PICK old : old = WithParameters(add_function(name), f, ps)
  OBVIOUS
<1>4. functions' = old
  BY <1>2, <1>3, Zenon DEF Prototype
<1>5. ParamsFaithful'
  BY <1>1, <1>2, <1>3, <1>4, ParamsDeclared
<1>6. temp' = Full(temp, Result(name)) /\ UNCHANGED <<types, globals, blocks, il>>
  BY DEF Prototype
<1>7. TempClean'
  BY <1>1, <1>6, ResultClean
<1>8. FieldsFill'
  BY <1>6, FieldsFillKept
<1>9. GlobalsFaithful' /\ LocalsFaithful' /\ ValuesWide'
  BY <1>6, Zenon DEF GlobalsFaithful, LocalsFaithful, ValuesWide, Wide, p_get_size,
                     TypeNamed, find_type
<1> QED BY <1>5, <1>7, <1>8, <1>9

\* A block is opened, and the code goes on without initial values.
LEMMA BlockSized ==
    ASSUME Places, LocalsFaithful, ValuesWide, UNCHANGED types,
           blocks' \in Seq(Block), Len(blocks') = Len(blocks) + 1,
           \A b \in 1..Len(blocks) : blocks'[b] = blocks[b],
           blocks'[Len(blocks) + 1].locals = << >>,
           \A i \in 1..Len(il') :
               (i \in 1..Len(il) /\ il'[i] = il[i]) \/ il'[i].size = 0
    PROVE  LocalsFaithful' /\ ValuesWide'
<1> USE DEF Places
<1>1. Len(blocks) \in Nat
  BY DEF Typed
<1>2. LocalsFaithful'
  <2> SUFFICES ASSUME NEW b \in 1..Len(blocks'), NEW k \in 1..Len(blocks'[b].locals)
               PROVE  Faithful(blocks'[b].locals[k])
    BY Zenon DEF LocalsFaithful
  <2>1. b \in 1..Len(blocks) \/ b = Len(blocks) + 1
    BY <1>1
  <2>2. b # Len(blocks) + 1
    OBVIOUS
  <2> QED BY <2>1, <2>2 DEF LocalsFaithful
<1>3. \A b \in 1..Len(blocks) :
          /\ Len(blocks[b].locals) <= Len(blocks'[b].locals)
          /\ \A k \in 1..Len(blocks[b].locals) : blocks'[b].locals[k] = blocks[b].locals[k]
  <2> SUFFICES ASSUME NEW b \in 1..Len(blocks)
               PROVE  Len(blocks[b].locals) <= Len(blocks[b].locals)
    OBVIOUS
  <2>1. blocks[b] \in Block
    BY ElementTyped DEF Typed
  <2>2. Len(blocks[b].locals) \in Nat
    BY <2>1, BlockLocals
  <2> QED BY <2>2
<1>4. Len(blocks) <= Len(blocks')
  BY <1>1
<1>5. ValuesWide'
  BY <1>3, <1>4, ValuesWideKept
<1> QED BY <1>2, <1>5

LEMMA FunctionDefinitionSized ==
    ASSUME Places, SizesHeld, ArraysOfValues, SameParameters,
           NEW name \in FunctionNames, NEW ps \in Parameters, FunctionDefinition(name, ps)
    PROVE  SizesHeld'
<1> USE DEF Places, SizesHeld
<1>1. name \in Names
  BY ProgramAssumption
<1>2. PICK f : f = EntryOf(add_function(name), name)
  OBVIOUS
<1>3. PICK old : old = WithParameters(add_function(name), f, ps)
  OBVIOUS
<1>4. functions' = [old EXCEPT ![f].entry = Len(il)]
      /\ blocks' = Append(blocks, [parent |-> 0, function |-> f, locals |-> << >>])
  BY <1>2, <1>3, Zenon DEF FunctionDefinition
<1>5. old \in Seq(Function) /\ Len(functions) <= Len(old) /\ f \in 1..Len(old)
  BY <1>1, <1>2, <1>3, PrototypeTable, Zenon
<1>6. Len(il) \in Nat /\ Len(blocks) \in Nat
  BY DEF Typed
<1>7. PICK new : new = [old EXCEPT ![f].entry = Len(il)]
  OBVIOUS
<1>8. /\ new \in Seq(Function) /\ Len(new) = Len(old)
      /\ \A k \in 1..Len(new) : /\ new[k].params = old[k].params
                                /\ new[k].num_params = old[k].num_params
  BY <1>5, <1>6, <1>7, EntryTable, SMTT(30)
<1>9. functions' = new
  BY <1>4, <1>7
<1>10. ParamsFaithful'
  BY <1>1, <1>2, <1>3, <1>8, <1>9, ParamsDeclared
<1>11. temp' = Full(temp, Result(name)) /\ UNCHANGED <<types, globals>>
  BY DEF FunctionDefinition
<1>12. TempClean'
  BY <1>1, <1>11, ResultClean
<1>13. FieldsFill'
  BY <1>11, FieldsFillKept
<1>14. GlobalsFaithful'
  BY <1>11, Zenon DEF GlobalsFaithful
<1>15. /\ blocks' \in Seq(Block) /\ Len(blocks') = Len(blocks) + 1
       /\ \A b \in 1..Len(blocks) : blocks'[b] = blocks[b]
       /\ blocks'[Len(blocks) + 1] = [parent |-> 0, function |-> f, locals |-> << >>]
  <2>1. f \in 1..Len(functions') /\ functions' \in Seq(Function)
        /\ Len(functions) <= Len(functions')
    BY <1>5, <1>8, <1>9
  <2>2. 0 \in 0..Len(blocks)
    BY <1>6
  <2> QED BY <1>4, <1>11, <2>1, <2>2, BlockAppended
<1>16. blocks'[Len(blocks) + 1].locals = << >>
  BY <1>15
<1>17. \A i \in 1..Len(il') : (i \in 1..Len(il) /\ il'[i] = il[i]) \/ il'[i].size = 0
  <2>1. "op_entry_point" \in Ops /\ "op_block_start" \in Ops
    BY Zenon DEF Ops
  <2>2. PICK i, j : i = [Plain("op_entry_point") EXCEPT !.name = name]
                    /\ j = Plain("op_block_start")
    OBVIOUS
  <2>3. i \in Instruction /\ j \in Instruction /\ i.size = 0 /\ j.size = 0
    BY <1>1, <2>1, <2>2, PlainTyped
  <2>4. il' = il \o << i, j >>
    BY <2>2, Zenon DEF FunctionDefinition
  <2>5. /\ Len(il') = Len(il) + 2 /\ \A k \in 1..Len(il) : il'[k] = il[k]
        /\ il'[Len(il) + 1] = i /\ il'[Len(il) + 2] = j
    BY <2>3, <2>4, CodeAppendedTwice
  <2>6. \A k \in 1..(Len(il) + 2) : k \in 1..Len(il) \/ k = Len(il) + 1 \/ k = Len(il) + 2
    BY <1>6
  <2> QED BY <2>3, <2>5, <2>6, Zenon
<1>18. LocalsFaithful' /\ ValuesWide'
  BY <1>11, <1>15, <1>16, <1>17, BlockSized
<1> QED BY <1>10, <1>12, <1>13, <1>14, <1>18

LEMMA BuiltInFilled ==
    ASSUME NEW name, NEW size
    PROVE  Filled(BuiltIn(name, size))
<1>1. BuiltIn(name, size).fields = << >>
  BY DEF BuiltIn
<1>2. Len(BuiltIn(name, size).fields) = 0
  BY <1>1
<1>3. ~ \E k \in 1..0 : TRUE
  OBVIOUS
<1> QED BY <1>2, <1>3, Zenon DEF Filled

LEMMA TypedefEnumSized ==
    ASSUME Places, SizesHeld, NEW name \in TypeNames, NEW es \in Enumerators,
           TypedefEnum(name, es)
    PROVE  SizesHeld'
<1>1. name \in Names /\ 4 \in Nat
  BY ProgramAssumption
<1>2. PICK t : t = BuiltIn(name, 4)
  OBVIOUS
<1>3. t \in Type /\ Filled(t)
  BY <1>1, <1>2, TypedefTyped, BuiltInFilled
<1>4. types' = Append(types, t) /\ UNCHANGED <<functions, globals, blocks, temp, il>>
  BY <1>2, Zenon DEF TypedefEnum
<1> QED BY <1>3, <1>4, TypedefSized

LEMMA TypedefTypeSized ==
    ASSUME Places, SizesHeld, NEW name \in TypeNames, NEW base, TypedefType(name, base)
    PROVE  SizesHeld'
<1>1. name \in Names
  BY ProgramAssumption
<1>2. TypeNamed(base).size \in Nat
  BY TypeNamedTyped DEF TypedefType, Typed, Places
<1>3. PICK t : t = BuiltIn(name, TypeNamed(base).size)
  OBVIOUS
<1>4. t \in Type /\ Filled(t)
  BY <1>1, <1>2, <1>3, TypedefTyped, BuiltInFilled
<1>5. types' = Append(types, t) /\ UNCHANGED <<functions, globals, blocks, temp, il>>
  BY <1>3, Zenon DEF TypedefType
<1> QED BY <1>4, <1>5, TypedefSized

LEMMA TypedefStructSized ==
    ASSUME Places, SizesHeld, ArraysOfValues, NEW name \in TypeNames, NEW ds \in Fields,
           TypedefStruct(name, ds)
    PROVE  SizesHeld'
<1> USE DEF Places
<1>1. name \in Names
  BY ProgramAssumption
<1>2. \A k \in 1..Len(ds) : SizeKnown(Full(Zeroed, ds[k]))
  BY DEF TypedefStruct
<1>3. PICK fields, n : fields = Laid(ds) /\ n = Len(ds)
  OBVIOUS
<1>4. /\ fields \in Seq(Field) /\ Len(fields) = n /\ n \in Nat \ {0}
      /\ \A k \in 1..n :
             /\ fields[k].var = Full(Zeroed, ds[k])
             /\ fields[k].offset =
                    IF k = 1 THEN 0
                    ELSE fields[k - 1].offset + size_variable(fields[k - 1].var)
  BY <1>2, <1>3, LaidProperties, Zenon DEF Typed
<1>5. n \in 1..n /\ fields[n] \in Field
  BY <1>4, ElementTyped
<1>6. ASSUME NEW k \in 1..n
      PROVE  /\ fields[k].var \in Variable /\ fields[k].offset \in Nat
             /\ Faithful(fields[k].var)
             /\ SizeKnown(fields[k].var)
  <2>1. ds \in Seq(Declarator)
    BY ProgramAssumption, Zenon
  <2>2. ds[k] \in Declarator /\ SizeKnown(Full(Zeroed, ds[k])) /\ Sizable(ds[k])
    BY <1>2, <1>3, <2>1, ElementTyped, DeclaratorsSizable
  <2>3. fields[k].var = Full(Zeroed, ds[k])
    BY <1>4
  <2>4. Faithful(Full(Zeroed, ds[k]))
    BY <2>2, BlankTyped, ZeroedClean, FullFields, FullFaithful
  <2>5. fields[k] \in Field
    BY <1>4, ElementTyped
  <2>6. fields[k].var \in Variable /\ fields[k].offset \in Nat
    BY <2>5 DEF Field
  <2> QED BY <2>2, <2>3, <2>4, <2>6
<1>7. size_variable(fields[n].var) \in Nat
  BY <1>5, <1>6, SizesTyped DEF Typed
<1>8. fields[n].offset + size_variable(fields[n].var) \in Nat
  BY <1>5, <1>6, <1>7
<1> DEFINE t == [name |-> name, fields |-> fields,
                 size |-> fields[n].offset + size_variable(fields[n].var)]
<1>9. /\ t \in Type /\ t.fields = fields
      /\ t.size = fields[n].offset + size_variable(fields[n].var)
  BY <1>1, <1>4, <1>8 DEF Type
<1>10. types' = Append(types, t) /\ UNCHANGED <<functions, globals, blocks, temp, il>>
  BY <1>3, Zenon DEF TypedefStruct
<1> HIDE DEF t
<1>11. Filled(t)
  <2> SUFFICES ASSUME NEW k \in 1..n
               PROVE  fields[k].offset + size_variable(fields[k].var) =
                          IF k = n THEN t.size ELSE fields[k + 1].offset
    BY <1>4, <1>6, <1>9, Zenon DEF Filled
  <2>1. CASE k = n
    BY <1>9, <2>1
  <2>2. CASE k # n
    <3>1. k + 1 \in 1..n /\ k + 1 # 1 /\ (k + 1) - 1 = k
      BY <1>4, <2>2
    <3> QED BY <1>4, <2>2, <3>1, Zenon
  <2> QED BY <2>1, <2>2
<1> QED BY <1>9, <1>10, <1>11, TypedefSized

\* A variable is declared; its initial value is as wide as it is.
LEMMA AddLocalSized ==
    ASSUME Places, SizesHeld, pc = "body", NEW v \in Variable, find_type(v.type) # Nothing,
           Faithful(v), NEW size \in Nat, NEW initialised \in BOOLEAN,
           AddLocal(v, size, initialised),
           initialised => size = p_get_size(v)
    PROVE  SizesHeld'
<1> USE DEF Places, SizesHeld
<1>1. blocks' = WithLocal(v)
  BY Zenon DEF AddLocal, WithLocal
<1>2. PICK new : new = WithLocal(v)
  OBVIOUS
<1>3. /\ parent \in 1..Len(blocks) /\ Len(blocks) \in Nat
      /\ blocks[parent].locals \in Seq(Variable) /\ Len(blocks[parent].locals) \in Nat
      /\ new \in Seq(Block) /\ Len(new) = Len(blocks)
      /\ \A b \in 1..Len(blocks) :
             /\ new[b].parent = blocks[b].parent /\ new[b].function = blocks[b].function
             /\ b # parent => new[b].locals = blocks[b].locals
             /\ b = parent => new[b].locals = Append(blocks[b].locals, v)
  BY <1>2, LocalAdded
<1>4. blocks' = new
  BY <1>1, <1>2
<1>5. PICK n, s : n = Len(blocks[parent].locals) /\ s = Append(blocks[parent].locals, v)
  OBVIOUS
<1>6. /\ n \in Nat /\ Len(s) = n + 1 /\ s[n + 1] = v
      /\ \A k \in 1..n : s[k] = blocks[parent].locals[k]
  BY <1>3, <1>5, AppendTyped
<1>7. new[parent].locals = s
  BY <1>3, <1>5
<1>8. UNCHANGED <<types, functions, globals, temp>>
  BY DEF AddLocal
<1>9. LocalsFaithful'
  <2> SUFFICES ASSUME NEW b \in 1..Len(blocks), NEW k \in 1..Len(new[b].locals)
               PROVE  Faithful(new[b].locals[k])
    BY <1>3, <1>4, Zenon DEF LocalsFaithful
  <2>1. CASE b # parent
    BY <1>3, <2>1 DEF LocalsFaithful
  <2>2. CASE b = parent
    <3>1. k \in 1..(n + 1)
      BY <1>6, <1>7, <2>2
    <3>2. CASE k = n + 1
      BY <1>6, <1>7, <2>2, <3>2
    <3>3. CASE k # n + 1
      <4>1. k \in 1..n
        BY <1>6, <3>1, <3>3
      <4>2. new[b].locals[k] = blocks[parent].locals[k]
        BY <1>6, <1>7, <2>2, <4>1
      <4>3. Faithful(blocks[parent].locals[k])
        BY <1>3, <1>5, <4>1 DEF LocalsFaithful
      <4> QED BY <4>2, <4>3
    <3> QED BY <3>2, <3>3
  <2> QED BY <2>1, <2>2
<1>10. \A b \in 1..Len(blocks) :
           /\ Len(blocks[b].locals) <= Len(new[b].locals)
           /\ \A k \in 1..Len(blocks[b].locals) : new[b].locals[k] = blocks[b].locals[k]
  <2> SUFFICES ASSUME NEW b \in 1..Len(blocks)
               PROVE  /\ Len(blocks[b].locals) <= Len(new[b].locals)
                      /\ \A k \in 1..Len(blocks[b].locals) :
                             new[b].locals[k] = blocks[b].locals[k]
    OBVIOUS
  <2>1. CASE b = parent
    <3>1. n <= Len(s)
      BY <1>6
    <3> QED BY <1>5, <1>6, <1>7, <2>1, <3>1
  <2>2. CASE b # parent
    <3>1. new[b].locals = blocks[b].locals
      BY <1>3, <2>2
    <3>2. blocks[b] \in Block
      BY ElementTyped DEF Typed
    <3>3. Len(blocks[b].locals) \in Nat
      BY <3>2, BlockLocals
    <3> QED BY <3>1, <3>3
  <2> QED BY <2>1, <2>2
<1>11. \A i \in 1..Len(il') :
           \/ i \in 1..Len(il) /\ il'[i] = il[i]
           \/ il'[i].size = 0
           \/ Wide(il'[i], blocks')
  <2>1. CASE initialised
    <3>1. PICK found : found = Entity("local", parent, n + 1)
      OBVIOUS
    <3>2. found \in Entities /\ found.k = n + 1
      BY <1>3, <1>6, <3>1 DEF Entity, Entities, Kinds
    <3>3. PICK x : x = Instr("op_get_var_addr", v.name, found, size)
      OBVIOUS
    <3>4. "op_get_var_addr" \in Ops /\ v.name \in Names
      BY DEF Ops, Variable
    <3>5. x \in Instruction /\ x.block = parent /\ x.found = found /\ x.size = size
      BY <3>2, <3>3, <3>4, InstrTyped
    <3>6. il' = Append(il, x)
      BY <1>5, <2>1, <3>1, <3>3, Zenon DEF AddLocal
    <3>7. Len(il') = Len(il) + 1 /\ il'[Len(il) + 1] = x
          /\ \A k \in 1..Len(il) : il'[k] = il[k]
      BY <3>5, <3>6, CodeAppended
    <3>8. Wide(x, blocks')
      <4>1. x.block \in 1..Len(blocks') /\ x.found.k = n + 1
        BY <1>3, <1>4, <3>2, <3>5
      <4>2. blocks'[x.block].locals = s
        BY <1>4, <1>7, <3>5
      <4>3. n + 1 \in 1..Len(s)
        BY <1>6
      <4>4. x.size = p_get_size(s[n + 1])
        BY <1>6, <2>1, <3>5
      <4> QED BY <4>1, <4>2, <4>3, <4>4, Zenon DEF Wide
    <3>9. \A i \in 1..Len(il') : i \in 1..Len(il) \/ i = Len(il) + 1
      <4>1. Len(il) \in Nat
        BY DEF Typed
      <4> QED BY <3>7, <4>1
    <3> QED BY <3>7, <3>8, <3>9, Zenon
  <2>2. CASE ~ initialised
    <3>1. il' = il
      BY <2>2, Zenon DEF AddLocal
    <3> QED BY <3>1
  <2> QED BY <2>1, <2>2
<1>12. Len(blocks) <= Len(blocks') /\ blocks' \in Seq(Block)
  BY <1>3, <1>4
<1>13. ValuesWide'
  BY <1>4, <1>8, <1>10, <1>11, <1>12, ValuesWideKept
<1>14. FieldsFill'
  BY <1>8, FieldsFillKept
<1>15. GlobalsFaithful' /\ TempClean' /\ ParamsFaithful'
  BY <1>8, Zenon DEF GlobalsFaithful, TempClean, ParamsFaithful
<1> QED BY <1>9, <1>13, <1>14, <1>15

LEMMA LocalVariableSized ==
    ASSUME Places, SizesHeld, ArraysOfValues, NEW d \in Declarators,
           NEW initialised \in BOOLEAN, LocalVariable(d, initialised)
    PROVE  SizesHeld'
<1>1. d \in Declarator /\ Sizable(d) /\ pc = "body" /\ Known(d)
  BY ProgramAssumption, DeclaratorsSizable DEF LocalVariable
<1>2. PICK v : v = Full(Zeroed, d)
  OBVIOUS
<1>3. v \in Variable /\ v.type = d.type /\ Faithful(v)
  BY <1>1, <1>2, BlankTyped, ZeroedClean, FullTyped, FullFields, FullFaithful
<1>4. find_type(v.type) # Nothing
  BY <1>1, <1>3 DEF Known
<1>5. PICK size : size = p_get_size(v)
  OBVIOUS
<1>6. size \in Nat
  BY <1>3, <1>4, <1>5, SizesTyped DEF Places, Typed, SizeKnown
<1>7. AddLocal(v, size, initialised)
  BY <1>2, <1>5, Zenon DEF LocalVariable
<1> QED BY <1>1, <1>3, <1>4, <1>5, <1>6, <1>7, AddLocalSized

\* The initial value behind a comma is as wide as the first variable, which is
\* as wide as the one that it is for.
LEMMA LocalContinuedSized ==
    ASSUME Places, SizesHeld, ArraysOfValues, SameWidth, NEW d \in Declarators,
           NEW initialised \in BOOLEAN, LocalContinued(d, initialised)
    PROVE  SizesHeld'
<1> USE DEF Places
<1>1. d \in Declarator /\ Sizable(d) /\ pc = "body" /\ first # 0
  BY ProgramAssumption, DeclaratorsSizable DEF LocalContinued
<1>2. PICK var : var = blocks[parent].locals[first]
  OBVIOUS
<1>3. parent \in 1..Len(blocks) /\ first \in 1..Len(blocks[parent].locals)
  BY <1>1 DEF Open, Typed
<1>4. var \in Variable
  <2>1. blocks[parent] \in Block
    BY <1>3, ElementTyped DEF Typed
  <2>2. blocks[parent].locals \in Seq(Variable)
    BY <2>1, BlockLocals
  <2> QED BY <1>2, <1>3, <2>2, ElementTyped
<1>5. find_type(var.type) # Nothing
  BY <1>2, <1>3 DEF TypesKnown
<1>6. PICK v : v = Partial(Zeroed, var, d)
  OBVIOUS
<1>7. PICK e : e = [d EXCEPT !.type = var.type]
  OBVIOUS
<1>8. /\ v = Full(Zeroed, e) /\ e \in Declarator /\ e.type = var.type
      /\ e.form = d.form /\ e.star = d.star /\ e.n = d.n
  BY <1>1, <1>4, <1>6, <1>7, PartialFields, Zenon
<1>9. Sizable(e)
  BY <1>1, <1>8 DEF Sizable
<1>10. v \in Variable /\ v.type = var.type /\ Faithful(v)
  BY <1>8, <1>9, BlankTyped, ZeroedClean, FullTyped, FullFields, FullFaithful
<1>11. PICK size : size = p_get_size(var)
  OBVIOUS
<1>12. size \in Nat
  BY <1>4, <1>5, <1>11, SizesTyped DEF Typed, SizeKnown
<1>13. AddLocal(v, size, initialised) /\ first' = first
  BY <1>2, <1>6, <1>11, Zenon DEF LocalContinued
<1>14. initialised => size = p_get_size(v)
  <2> SUFFICES ASSUME initialised PROVE size = p_get_size(v)
    OBVIOUS
  <2>1. il' # il
    <3>1. \E x : il' = Append(il, x)
      BY <1>13, Zenon DEF AddLocal
    <3>2. PICK x : il' = Append(il, x)
      BY <3>1
    <3>3. Len(Append(il, x)) = Len(il) + 1 /\ Len(il) \in Nat
      BY DEF Typed
    <3> QED BY <3>2, <3>3
  <2>2. PICK vs : vs = blocks'[parent].locals
    OBVIOUS
  <2>3. p_get_size(vs[Len(vs)]) = p_get_size(vs[first])
    BY <1>1, <1>13, <2>1, <2>2, Zenon DEF SameWidth
  <2>4. PICK new : new = WithLocal(v)
    OBVIOUS
  <2>5. blocks' = new
    BY <1>13, <2>4, Zenon DEF AddLocal, WithLocal
  <2>6. /\ blocks[parent].locals \in Seq(Variable) /\ Len(blocks[parent].locals) \in Nat
        /\ \A b \in 1..Len(blocks) :
               b = parent => new[b].locals = Append(blocks[b].locals, v)
    BY <1>1, <1>10, <2>4, LocalAdded
  <2>7. vs = Append(blocks[parent].locals, v)
    BY <1>3, <2>2, <2>5, <2>6
  <2>8. /\ Len(vs) = Len(blocks[parent].locals) + 1 /\ vs[Len(blocks[parent].locals) + 1] = v
        /\ \A k \in 1..Len(blocks[parent].locals) : vs[k] = blocks[parent].locals[k]
    BY <1>10, <2>6, <2>7, AppendTyped
  <2>9. vs[Len(vs)] = v /\ vs[first] = var
    BY <1>2, <1>3, <2>8
  <2> QED BY <1>11, <2>3, <2>9
<1> QED BY <1>1, <1>5, <1>10, <1>12, <1>13, <1>14, AddLocalSized

\* The code goes on without initial values, the tables stay.
LEMMA CodeSized ==
    ASSUME Places, SizesHeld, UNCHANGED <<types, globals, blocks, temp>>, ParamsFaithful',
           \A i \in 1..Len(il') :
               (i \in 1..Len(il) /\ il'[i] = il[i]) \/ il'[i].size = 0
    PROVE  SizesHeld'
<1> USE DEF Places, SizesHeld
<1>1. FieldsFill'
  BY FieldsFillKept
<1>2. GlobalsFaithful' /\ TempClean' /\ LocalsFaithful'
  BY Zenon DEF GlobalsFaithful, TempClean, LocalsFaithful
<1>3. \A b \in 1..Len(blocks) : Len(blocks[b].locals) <= Len(blocks[b].locals)
  <2> SUFFICES ASSUME NEW b \in 1..Len(blocks)
               PROVE  Len(blocks[b].locals) <= Len(blocks[b].locals)
    OBVIOUS
  <2>1. blocks[b] \in Block
    BY ElementTyped DEF Typed
  <2>2. Len(blocks[b].locals) \in Nat
    BY <2>1, BlockLocals
  <2> QED BY <2>2
<1>4. blocks' \in Seq(Block) /\ Len(blocks) <= Len(blocks')
  BY DEF Typed
<1>5. ValuesWide'
  BY <1>3, <1>4, ValuesWideKept
<1> QED BY <1>1, <1>2, <1>5

LEMMA OpenBlockSized == ASSUME Places, SizesHeld, OpenBlock PROVE SizesHeld'
<1> USE DEF Places, SizesHeld
<1>1. parent \in 1..Len(blocks) /\ Len(blocks) \in Nat /\ parent \in 0..Len(blocks)
  BY DEF OpenBlock, Open, Typed
<1>2. PICK f : f = blocks[parent].function
  OBVIOUS
<1>3. f \in 1..Len(functions)
  BY <1>1, <1>2 DEF Nested
<1>4. blocks' = Append(blocks, [parent |-> parent, function |-> f, locals |-> << >>])
  BY <1>2, Zenon DEF OpenBlock
<1>5. UNCHANGED <<types, functions, globals, temp>>
  BY DEF OpenBlock
<1>6. functions' \in Seq(Function) /\ Len(functions) <= Len(functions')
      /\ f \in 1..Len(functions')
  BY <1>3, <1>5 DEF Typed
<1>7. /\ blocks' \in Seq(Block) /\ Len(blocks') = Len(blocks) + 1
      /\ \A b \in 1..Len(blocks) : blocks'[b] = blocks[b]
      /\ blocks'[Len(blocks) + 1] = [parent |-> parent, function |-> f, locals |-> << >>]
  BY <1>1, <1>2, <1>4, <1>5, <1>6, BlockAppended
<1>8. blocks'[Len(blocks) + 1].locals = << >>
  BY <1>7
<1>9. \A i \in 1..Len(il') : (i \in 1..Len(il) /\ il'[i] = il[i]) \/ il'[i].size = 0
  <2>1. "op_block_start" \in Ops
    BY Zenon DEF Ops
  <2>2. PICK x : x = Plain("op_block_start")
    OBVIOUS
  <2>3. x \in Instruction /\ x.size = 0
    BY <2>1, <2>2, NamesTyped, PlainTyped
  <2>4. il' = Append(il, x)
    BY <2>2, Zenon DEF OpenBlock
  <2>5. Len(il') = Len(il) + 1 /\ il'[Len(il) + 1] = x /\ Len(il) \in Nat
        /\ \A k \in 1..Len(il) : il'[k] = il[k]
    BY <2>3, <2>4, CodeAppended DEF Typed
  <2>6. \A k \in 1..(Len(il) + 1) : k \in 1..Len(il) \/ k = Len(il) + 1
    BY <2>5
  <2> QED BY <2>3, <2>5, <2>6, Zenon
<1>10. LocalsFaithful' /\ ValuesWide'
  BY <1>5, <1>7, <1>8, <1>9, BlockSized
<1>11. FieldsFill'
  BY <1>5, FieldsFillKept
<1>12. GlobalsFaithful' /\ TempClean' /\ ParamsFaithful'
  BY <1>5, Zenon DEF GlobalsFaithful, TempClean, ParamsFaithful
<1> QED BY <1>10, <1>11, <1>12

LEMMA CloseBlockSized == ASSUME Places, SizesHeld, CloseBlock PROVE SizesHeld'
<1> USE DEF Places, SizesHeld
<1>1. parent \in 1..Len(blocks)
  BY DEF CloseBlock, Open, Typed
<1>2. PICK f : f = blocks[parent].function
  OBVIOUS
<1>3. f \in 1..Len(functions) /\ functions \in Seq(Function)
  BY <1>1, <1>2 DEF Nested, Typed
<1>4. UNCHANGED <<types, globals, blocks, temp>>
  BY DEF CloseBlock
<1>5. Len(il) \in Nat /\ Len(il) + 1 \in Nat
  BY DEF Typed
<1>6. PICK i, j : i = Plain("op_block_end") /\ j = Plain("op_exit_point")
  OBVIOUS
<1>7. i \in Instruction /\ j \in Instruction /\ i.size = 0 /\ j.size = 0
  <2>1. "op_block_end" \in Ops /\ "op_exit_point" \in Ops
    BY Zenon DEF Ops
  <2> QED BY <1>6, <2>1, NamesTyped, PlainTyped
<1>8. CASE parent' # 0
  <2>1. il' = Append(il, i) /\ functions' = functions
    BY <1>6, <1>8, Zenon DEF CloseBlock
  <2>2. Len(il') = Len(il) + 1 /\ il'[Len(il) + 1] = i
        /\ \A k \in 1..Len(il) : il'[k] = il[k]
    BY <1>7, <2>1, CodeAppended
  <2>3. \A k \in 1..(Len(il) + 1) : k \in 1..Len(il) \/ k = Len(il) + 1
    BY <1>5
  <2>4. \A k \in 1..Len(il') : (k \in 1..Len(il) /\ il'[k] = il[k]) \/ il'[k].size = 0
    BY <1>7, <2>2, <2>3, Zenon
  <2>5. ParamsFaithful'
    BY <2>1, Zenon DEF ParamsFaithful
  <2> QED BY <1>4, <2>4, <2>5, CodeSized
<1>9. CASE parent' = 0
  <2>1. il' = il \o << i, j >> /\ functions' = [functions EXCEPT ![f].exit = Len(il) + 1]
    BY <1>2, <1>6, <1>9, Zenon DEF CloseBlock
  <2>2. Len(il') = Len(il) + 2 /\ il'[Len(il) + 1] = i /\ il'[Len(il) + 2] = j
        /\ \A k \in 1..Len(il) : il'[k] = il[k]
    BY <1>7, <2>1, CodeAppendedTwice
  <2>3. \A k \in 1..(Len(il) + 2) : k \in 1..Len(il) \/ k = Len(il) + 1 \/ k = Len(il) + 2
    BY <1>5
  <2>4. \A k \in 1..Len(il') : (k \in 1..Len(il) /\ il'[k] = il[k]) \/ il'[k].size = 0
    BY <1>7, <2>2, <2>3, Zenon
  <2>5. PICK new : new = [functions EXCEPT ![f].exit = Len(il) + 1]
    OBVIOUS
  <2>6. Len(new) = Len(functions)
        /\ \A k \in 1..Len(new) : /\ new[k].params = functions[k].params
                                  /\ new[k].num_params = functions[k].num_params
    BY <1>3, <1>5, <2>5, ExitTable
  <2>7. functions' = new
    BY <2>1, <2>5
  <2>8. ParamsFaithful'
    BY <2>6, <2>7, Zenon DEF ParamsFaithful
  <2> QED BY <1>4, <2>4, <2>8, CodeSized
<1> QED BY <1>8, <1>9

LEMMA UseAsSized ==
    ASSUME Places, SizesHeld, NEW name \in Names, NEW found \in Entities,
           NEW called \in BOOLEAN, UseAs(name, found, called)
    PROVE  SizesHeld'
<1> USE DEF Places, SizesHeld
<1>1. UNCHANGED <<types, globals, blocks, temp, functions>>
  BY DEF UseAs
<1>2. ParamsFaithful'
  BY <1>1, Zenon DEF ParamsFaithful
<1>3. CASE found = Nothing
  <2>1. il' = il
    BY <1>3 DEF UseAs
  <2> QED BY <1>1, <1>2, <2>1, CodeSized
<1>4. CASE found # Nothing
  <2>1. \E x : il' = Append(il, x) /\ x.size = 0
    <3>1. \A op : Instr(op, name, found, 0).size = 0
      BY DEF Instr
    <3>2. \E op : il' = Append(il, Instr(op, name, found, 0))
      BY <1>4, Zenon DEF UseAs
    <3> QED BY <3>1, <3>2
  <2>2. PICK x : il' = Append(il, x) /\ x.size = 0
    BY <2>1
  <2>3. Len(Append(il, x)) = Len(il) + 1 /\ Append(il, x)[Len(il) + 1] = x
        /\ Len(il) \in Nat /\ \A k \in 1..Len(il) : Append(il, x)[k] = il[k]
    BY DEF Typed
  <2>4. \A k \in 1..(Len(il) + 1) : k \in 1..Len(il) \/ k = Len(il) + 1
    BY <2>3
  <2>5. \A k \in 1..Len(il') : (k \in 1..Len(il) /\ il'[k] = il[k]) \/ il'[k].size = 0
    BY <2>2, <2>3, <2>4, Zenon
  <2> QED BY <1>1, <1>2, <2>5, CodeSized
<1> QED BY <1>3, <1>4

LEMMA TablesSized ==
    ASSUME SizesHeld, UNCHANGED <<types, functions, globals, blocks, temp, il>>
    PROVE  SizesHeld'
<1>1. GlobalsFaithful' /\ TempClean'
  BY Zenon DEF SizesHeld, GlobalsFaithful, TempClean
<1>2. ParamsFaithful' /\ LocalsFaithful'
  BY Zenon DEF SizesHeld, ParamsFaithful, LocalsFaithful
<1>3. FieldsFill'
  BY FieldsFillKept DEF SizesHeld
<1>4. ValuesWide'
  BY Zenon DEF SizesHeld, ValuesWide, Wide, p_get_size, TypeNamed, find_type
<1> QED BY <1>1, <1>2, <1>3, <1>4 DEF SizesHeld

LEMMA StutterSized == ASSUME SizesHeld, UNCHANGED vars PROVE SizesHeld'
BY TablesSized DEF vars

LEMMA NextSized == ASSUME Places, SizesHeld, ArraysOfValues, SupportedNext PROVE SizesHeld'
<1>0. Next /\ SameParameters /\ SameWidth /\ FunctionPointerLast'
  BY DEF SupportedNext
<1>1. ASSUME NEW d \in Declarators, NEW semicolon \in BOOLEAN, GlobalVariable(d, semicolon)
      PROVE  SizesHeld'
  BY <1>0, <1>1, GlobalVariableSized
<1>2. ASSUME NEW name \in FunctionNames, NEW ps \in Parameters,
             Prototype(name, ps) \/ FunctionDefinition(name, ps)
      PROVE  SizesHeld'
  BY <1>0, <1>2, PrototypeSized, FunctionDefinitionSized
<1>3. ASSUME NEW name \in TypeNames,
             \/ \E es \in Enumerators : TypedefEnum(name, es)
             \/ \E ds \in Fields : TypedefStruct(name, ds)
             \/ \E k \in 1..Len(types) : TypedefType(name, types[k].name)
      PROVE  SizesHeld'
  BY <1>3, TypedefEnumSized, TypedefStructSized, TypedefTypeSized
<1>4. CASE Finish
  BY <1>4, TablesSized DEF Finish
<1>5. ASSUME NEW d \in Declarators, NEW initialised \in BOOLEAN,
             LocalVariable(d, initialised) \/ LocalContinued(d, initialised)
      PROVE  SizesHeld'
  BY <1>0, <1>5, LocalVariableSized, LocalContinuedSized
<1>6. CASE OpenBlock
  BY <1>6, OpenBlockSized
<1>7. CASE CloseBlock
  BY <1>7, CloseBlockSized
<1>8. ASSUME NEW name \in UsedNames,
             UseStatement(name) \/ \E called \in BOOLEAN : UseOperand(name, called)
      PROVE  SizesHeld'
  <2>1. name \in Names
    BY UsedNamesTyped
  <2>2. Operand(name) \in Entities /\ Statement(name) \in Entities
    BY FoundTyped
  <2>3. CASE UseStatement(name)
    <3>1. UseAs(name, Statement(name), TRUE)
      BY <2>3 DEF UseStatement
    <3>2. PICK found : found = Statement(name)
      OBVIOUS
    <3> QED BY <2>1, <2>2, <3>1, <3>2, UseAsSized
  <2>4. ASSUME NEW called \in BOOLEAN, UseOperand(name, called)
        PROVE  SizesHeld'
    <3>1. UseAs(name, Operand(name), called)
      BY <2>4 DEF UseOperand
    <3>2. PICK found : found = Operand(name)
      OBVIOUS
    <3> QED BY <2>1, <2>2, <3>1, <3>2, UseAsSized
  <2> QED BY <1>8, <2>3, <2>4
<1> QED BY <1>0, <1>1, <1>2, <1>3, <1>4, <1>5, <1>6, <1>7, <1>8, Zenon DEF Next

\* Where arrays are of values, a function pointer is the last of the global
\* variables, the declarations of a function agree, and what is declared behind
\* a comma with an initial value is as wide as the first, every variable,
\* parameter and field has the size that its own declaration calls for,
\* whatever was declared before and after it: nothing of _temp_variable or of a
\* slot is left in it.  The fields of a struct follow each other and fill it,
\* and every initial value is as wide as the variable that it is written to.
THEOREM Sizes ==
    ASSUME ArraysOfValues
    PROVE  SupportedDeclarations => []SizesAsWritten
<1>1. Init => Places /\ SizesHeld
  BY InitPlaces, InitSized
<1>2. Places /\ SizesHeld /\ [SupportedNext]_vars => (Places /\ SizesHeld)'
  <2>1. SupportedNext => Next
    BY DEF SupportedNext
  <2> QED BY <2>1, NextPlaces, NextSized, StutterPlaces, StutterSized
<1>3. Places /\ SizesHeld => SizesAsWritten
  BY SizedFits
<1> QED BY <1>1, <1>2, <1>3, PTL DEF SupportedDeclarations

-----------------------------------------------------------------------------
(* Entry points.                                                           *)

FunctionsDistinct ==
    \A f, g \in 1..Len(functions) : functions[f].name = functions[g].name => f = g

IsEntry(i, name) == i.op = "op_entry_point" /\ i.name = name

EntriesKnown ==
    \A i \in 1..Len(il) :
        il[i].op = "op_entry_point" => \E f \in 1..Len(functions) : functions[f].name = il[i].name

\* A function that has an entry point is entered at one.
EntriesRight ==
    \A f \in 1..Len(functions) :
        (\E i \in 1..Len(il) : IsEntry(il[i], functions[f].name)) =>
            /\ functions[f].entry + 1 \in 1..Len(il)
            /\ IsEntry(il[functions[f].entry + 1], functions[f].name)

Entered == FunctionsDistinct /\ EntriesKnown /\ EntriesRight

LEMMA EnteredCalls ==
    ASSUME Places, Entered, CallsDefined
    PROVE  CallsEnterFunction
<1> SUFFICES ASSUME pc = "done", NEW i \in 1..Len(il), il[i].op = "op_function_call"
             PROVE  LET f == find_function(il[i].name) IN
                    /\ f # Nothing
                    /\ il[functions[f.k].entry + 1].op = "op_entry_point"
                    /\ il[functions[f.k].entry + 1].name = il[i].name
  BY Zenon DEF CallsEnterFunction
<1>1. PICK name : name = il[i].name
  OBVIOUS
<1>2. PICK j \in 1..Len(il) : il[j].op = "op_entry_point" /\ il[j].name = name
  BY <1>1 DEF CallsDefined
<1>3. PICK g \in 1..Len(functions) : functions[g].name = name
  BY <1>2 DEF Entered, EntriesKnown
<1>4. Len(functions) \in Nat
  BY DEF Places, Typed
<1>5. g \in Named(functions, name)
  BY <1>3 DEF Named
<1>6. find_function(name) # Nothing
  <2>1. Named(functions, name) # {}
    BY <1>5
  <2> QED BY <1>4, <2>1, InTableProperties DEF find_function, Kinds
<1>7. PICK f : f = find_function(name).k
  OBVIOUS
<1>8. f \in 1..Len(functions) /\ functions[f].name = name
  BY <1>4, <1>6, <1>7, InTableProperties DEF find_function, Kinds
<1>9. \E k \in 1..Len(il) : IsEntry(il[k], functions[f].name)
  BY <1>2, <1>8 DEF IsEntry
<1>10. IsEntry(il[functions[f].entry + 1], name)
  BY <1>8, <1>9 DEF Entered, EntriesRight
<1> QED BY <1>1, <1>6, <1>7, <1>10, Zenon DEF IsEntry

LEMMA InitEntered == Init => Entered
<1> SUFFICES ASSUME Init PROVE Entered
  OBVIOUS
<1>1. Len(functions) = 1 /\ functions[1].name = "__syscall" /\ functions[1].entry = 5
  BY DEF Init, NewFunction
<1>2. \A f \in 1..Len(functions) : f = 1
  BY <1>1
<1>3. Len(il) = 8
  BY DEF Init, Prologue
<1>4. /\ il[1] = Plain("op_label") /\ il[2] = Plain("op_start")
      /\ il[3] = [Plain("op_function_call") EXCEPT !.name = "main"]
      /\ il[4] = Plain("op_label") /\ il[5] = Plain("op_exit")
      /\ il[6] = [Plain("op_entry_point") EXCEPT !.name = "__syscall"]
      /\ il[7] = Plain("op_syscall") /\ il[8] = Plain("op_exit_point")
  BY Zenon DEF Init, Prologue
<1>5. \A op : Plain(op).op = op
  BY DEF Plain
<1>6. il[6].name = "__syscall"
  BY <1>4 DEF Plain
<1>7. /\ il[3].op = "op_function_call" /\ il[6].op = "op_entry_point"
  BY <1>4 DEF Plain
<1>8. \A i \in 1..8 : il[i].op = "op_entry_point" => i = 6
  <2>1. /\ il[1].op = "op_label" /\ il[2].op = "op_start" /\ il[4].op = "op_label"
        /\ il[5].op = "op_exit" /\ il[7].op = "op_syscall" /\ il[8].op = "op_exit_point"
    BY <1>4, <1>5
  <2>2. \A i \in 1..8 : i # 6 => i \in {1, 2, 3, 4, 5, 7, 8}
    OBVIOUS
  <2>3. \A i \in {1, 2, 3, 4, 5, 7, 8} : il[i].op # "op_entry_point"
    BY <1>7, <2>1
  <2> QED BY <2>2, <2>3
<1>9. FunctionsDistinct
  BY <1>2 DEF FunctionsDistinct
<1>10. EntriesKnown
  <2>1. 1 \in 1..Len(functions)
    BY <1>1
  <2> QED BY <1>1, <1>3, <1>6, <1>8, <2>1 DEF EntriesKnown
<1>11. EntriesRight
  <2>1. functions[1].entry + 1 = 6 /\ 6 \in 1..Len(il)
    BY <1>1, <1>3
  <2>2. IsEntry(il[6], functions[1].name)
    BY <1>1, <1>6, <1>7 DEF IsEntry
  <2> QED BY <1>2, <2>1, <2>2 DEF EntriesRight
<1> QED BY <1>9, <1>10, <1>11 DEF Entered

\* The code goes on, and functions keep their names and entries; one that is
\* new has a new name.
LEMMA EnteredKept ==
    ASSUME Typed, Entered, Len(functions) <= Len(functions'), Len(functions') \in Nat,
           Len(il) <= Len(il'), Len(il') \in Nat,
           \A i \in 1..Len(il') :
               (i \in 1..Len(il) /\ il'[i] = il[i]) \/ il'[i].op # "op_entry_point",
           \A i \in 1..Len(il) : il'[i] = il[i],
           \A f \in 1..Len(functions) :
               /\ functions'[f].name = functions[f].name
               /\ functions'[f].entry = functions[f].entry,
           \A f \in 1..Len(functions') :
               f > Len(functions) =>
                   /\ f = Len(functions')
                   /\ \A g \in 1..Len(functions) : functions[g].name # functions'[f].name
    PROVE  Entered'
<1> USE DEF Entered
<1>1. Len(functions) \in Nat /\ Len(il) \in Nat
  BY DEF Typed
<1>2. \A f \in 1..Len(functions') : f \in 1..Len(functions) \/ f > Len(functions)
  BY <1>1
<1>3. FunctionsDistinct'
  <2> SUFFICES ASSUME NEW f \in 1..Len(functions'), NEW g \in 1..Len(functions'),
                      functions'[f].name = functions'[g].name
               PROVE  f = g
    BY Zenon DEF FunctionsDistinct
  <2>1. CASE f \in 1..Len(functions) /\ g \in 1..Len(functions)
    BY <2>1 DEF FunctionsDistinct
  <2>2. CASE f > Len(functions) /\ g > Len(functions)
    BY <2>2
  <2>3. CASE f \in 1..Len(functions) /\ g > Len(functions)
    BY <2>3
  <2>4. CASE f > Len(functions) /\ g \in 1..Len(functions)
    BY <2>4
  <2> QED BY <1>2, <2>1, <2>2, <2>3, <2>4
<1>4. EntriesKnown'
  <2> SUFFICES ASSUME NEW i \in 1..Len(il'), il'[i].op = "op_entry_point"
               PROVE  \E f \in 1..Len(functions') : functions'[f].name = il'[i].name
    BY Zenon DEF EntriesKnown
  <2>1. i \in 1..Len(il) /\ il'[i] = il[i]
    OBVIOUS
  <2>2. PICK f \in 1..Len(functions) : functions[f].name = il[i].name
    BY <2>1 DEF EntriesKnown
  <2>3. f \in 1..Len(functions')
    BY <1>1
  <2> QED BY <2>1, <2>2, <2>3
<1>5. EntriesRight'
  <2> SUFFICES ASSUME NEW f \in 1..Len(functions'), NEW i \in 1..Len(il'),
                      IsEntry(il'[i], functions'[f].name)
               PROVE  /\ functions'[f].entry + 1 \in 1..Len(il')
                      /\ IsEntry(il'[functions'[f].entry + 1], functions'[f].name)
    BY Zenon DEF EntriesRight, IsEntry
  <2>1. i \in 1..Len(il) /\ il'[i] = il[i] /\ il[i].op = "op_entry_point"
        /\ il[i].name = functions'[f].name
    BY DEF IsEntry
  <2>2. PICK g \in 1..Len(functions) : functions[g].name = il[i].name
    BY <2>1 DEF EntriesKnown
  <2>3. f \in 1..Len(functions)
    BY <1>2, <2>1, <2>2
  <2>4. IsEntry(il[i], functions[f].name)
    BY <2>1, <2>3 DEF IsEntry
  <2>5. /\ functions[f].entry + 1 \in 1..Len(il)
        /\ IsEntry(il[functions[f].entry + 1], functions[f].name)
    BY <2>1, <2>3, <2>4 DEF EntriesRight
  <2>6. functions[f].entry + 1 \in 1..Len(il')
    BY <1>1, <2>5
  <2> QED BY <2>3, <2>5, <2>6
<1> QED BY <1>3, <1>4, <1>5

\* The functions stay, the code goes on by one instruction or not at all.
LEMMA EnteredUse ==
    ASSUME Typed, Entered, UNCHANGED functions,
           \/ UNCHANGED il
           \/ \E x : il' = Append(il, x) /\ x.op # "op_entry_point"
    PROVE  Entered'
<1>1. CASE UNCHANGED il
  BY <1>1, Zenon DEF Entered, FunctionsDistinct, EntriesKnown, EntriesRight, IsEntry
<1>2. CASE \E x : il' = Append(il, x) /\ x.op # "op_entry_point"
  <2>1. PICK x : il' = Append(il, x) /\ x.op # "op_entry_point"
    BY <1>2
  <2>2. Len(il') = Len(il) + 1 /\ il'[Len(il) + 1] = x /\ Len(il) \in Nat
        /\ \A k \in 1..Len(il) : il'[k] = il[k]
    BY <2>1 DEF Typed
  <2>3. \A k \in 1..(Len(il) + 1) : k \in 1..Len(il) \/ k = Len(il) + 1
    BY <2>2
  <2>4. \A i \in 1..Len(il') :
            (i \in 1..Len(il) /\ il'[i] = il[i]) \/ il'[i].op # "op_entry_point"
    BY <2>1, <2>2, <2>3, Zenon
  <2>5. Len(il) <= Len(il') /\ Len(il') \in Nat
    BY <2>2
  <2>6. Len(functions) \in Nat
    BY DEF Typed
  <2>7. Len(functions) <= Len(functions') /\ Len(functions') \in Nat
        /\ \A f \in 1..Len(functions') : ~(f > Len(functions))
    BY <2>6
  <2> QED BY <2>2, <2>4, <2>5, <2>7, EnteredKept
<1> QED BY <1>1, <1>2

LEMMA PrototypeEntered ==
    ASSUME Places, Entered, NEW name \in FunctionNames, NEW ps \in Parameters,
           Prototype(name, ps)
    PROVE  Entered'
<1> USE DEF Places
<1>1. name \in Names
  BY ProgramAssumption
<1>2. PICK table, f : table = add_function(name) /\ f = EntryOf(table, name)
  OBVIOUS
<1>3. PICK old : old = WithParameters(table, f, ps)
  OBVIOUS
<1>4. functions' = old /\ il' = il
  BY <1>2, <1>3, Zenon DEF Prototype
<1>5. /\ old \in Seq(Function) /\ Len(old) = Len(table) /\ f \in 1..Len(old)
      /\ Len(functions) <= Len(old)
      /\ \A k \in 1..Len(functions) :
             old[k].name = functions[k].name /\ old[k].entry = functions[k].entry
      /\ \A k \in 1..Len(old) : k > Len(functions) => k = f
      /\ old[f].name = name
  <2>1. /\ table \in Seq(Function) /\ Len(functions) <= Len(table)
        /\ f \in 1..Len(table) /\ table[f].name = name
        /\ \A k \in 1..Len(functions) : table[k] = functions[k]
        /\ \A k \in 1..Len(table) : k > Len(functions) => k = f
        /\ Len(functions) \in Nat /\ Len(table) \in Nat
    BY <1>1, <1>2, AddFunctionProperties, Zenon
  <2>2. /\ old \in Seq(Function) /\ Len(old) = Len(table)
        /\ \A g \in 1..Len(table) : old[g].name = table[g].name /\ old[g].entry = table[g].entry
    BY <1>3, <2>1, WithParametersTyped
  <2>3. \A k \in 1..Len(functions) : k \in 1..Len(table)
    BY <2>1
  <2> QED BY <2>1, <2>2, <2>3
<1>6. /\ find_function(name) = Nothing => f = Len(functions) + 1
      /\ find_function(name) # Nothing => table = functions
      /\ Len(functions) \in Nat
  BY <1>1, <1>2, AddFunctionProperties, Zenon
<1>7. Len(old) \in Nat
  BY <1>5, ElementTyped
<1>8. \A k \in 1..Len(functions') :
          k > Len(functions) =>
              /\ k = Len(functions')
              /\ \A g \in 1..Len(functions) : functions[g].name # functions'[k].name
  <2> SUFFICES ASSUME NEW k \in 1..Len(old), k > Len(functions)
               PROVE  /\ k = Len(old)
                      /\ \A g \in 1..Len(functions) : functions[g].name # old[k].name
    BY <1>4
  <2>1. k = f
    BY <1>5
  <2>2. Len(table) # Len(functions)
    BY <1>5, <1>6, <1>7
  <2>3. find_function(name) = Nothing /\ f = Len(functions) + 1
    BY <1>6, <2>2
  <2>4. \A g \in 1..Len(functions) : functions[g].name # name
    <3>1. Named(functions, name) = {}
      BY <1>6, <2>3, InTableProperties DEF find_function, Kinds
    <3> QED BY <3>1 DEF Named
  <2>5. k = Len(old)
    <3>1. \A j \in 1..Len(old) : j <= Len(functions) + 1
      BY <1>5, <1>6, <2>3
    <3> QED BY <1>6, <1>7, <2>1, <2>3, <3>1
  <2> QED BY <1>5, <2>1, <2>4, <2>5
<1>9. Len(il) \in Nat
  BY DEF Typed
<1> QED BY <1>4, <1>5, <1>7, <1>8, <1>9, EnteredKept

\* A function is entered: its entry is the instruction behind the code so far.
LEMMA FunctionDefinitionEntered ==
    ASSUME Places, Entered, NEW name \in FunctionNames, NEW ps \in Parameters,
           FunctionDefinition(name, ps)
    PROVE  Entered'
<1> USE DEF Places
<1>1. name \in Names
  BY ProgramAssumption
<1>2. PICK table, f : table = add_function(name) /\ f = EntryOf(table, name)
  OBVIOUS
<1>3. PICK old : old = WithParameters(table, f, ps)
  OBVIOUS
<1>4. PICK new : new = [old EXCEPT ![f].entry = Len(il)]
  OBVIOUS
<1>5. functions' = new
  BY <1>2, <1>3, <1>4, Zenon DEF FunctionDefinition
<1>6. /\ old \in Seq(Function) /\ Len(old) = Len(table) /\ f \in 1..Len(old)
      /\ Len(functions) <= Len(old)
      /\ \A k \in 1..Len(functions) :
             old[k].name = functions[k].name /\ old[k].entry = functions[k].entry
      /\ \A k \in 1..Len(old) : k > Len(functions) => k = f
      /\ old[f].name = name
  <2>1. /\ table \in Seq(Function) /\ Len(functions) <= Len(table)
        /\ f \in 1..Len(table) /\ table[f].name = name
        /\ \A k \in 1..Len(functions) : table[k] = functions[k]
        /\ \A k \in 1..Len(table) : k > Len(functions) => k = f
        /\ Len(functions) \in Nat /\ Len(table) \in Nat
    BY <1>1, <1>2, AddFunctionProperties, Zenon
  <2>2. /\ old \in Seq(Function) /\ Len(old) = Len(table)
        /\ \A g \in 1..Len(table) : old[g].name = table[g].name /\ old[g].entry = table[g].entry
    BY <1>3, <2>1, WithParametersTyped
  <2>3. \A k \in 1..Len(functions) : k \in 1..Len(table)
    BY <2>1
  <2> QED BY <2>1, <2>2, <2>3
<1>7. /\ find_function(name) = Nothing => f = Len(functions) + 1
      /\ find_function(name) # Nothing => f = find_function(name).k /\ table = functions
      /\ Len(functions) \in Nat
  BY <1>1, <1>2, AddFunctionProperties, Zenon
<1>8. Len(il) \in Nat /\ Len(old) \in Nat
  BY <1>6, ElementTyped DEF Typed
<1>9. /\ Len(new) = Len(old) /\ new[f].entry = Len(il)
      /\ \A k \in 1..Len(old) : new[k].name = old[k].name /\ (k # f => new[k] = old[k])
  BY <1>4, <1>6, <1>8, EntryTable
<1>10. PICK i, j : i = [Plain("op_entry_point") EXCEPT !.name = name]
                   /\ j = Plain("op_block_start")
  OBVIOUS
<1>11. /\ i \in Instruction /\ j \in Instruction /\ i.op = "op_entry_point" /\ i.name = name
       /\ j.op # "op_entry_point"
  <2>1. "op_entry_point" \in Ops /\ "op_block_start" \in Ops
    BY Zenon DEF Ops
  <2>2. i \in Instruction /\ j \in Instruction /\ i.op = "op_entry_point" /\ i.name = name
        /\ j.op = "op_block_start"
    BY <1>1, <1>10, <2>1, PlainTyped
  <2> QED BY <2>2
<1>12. il' = il \o << i, j >>
  BY <1>10, Zenon DEF FunctionDefinition
<1>13. Len(il') = Len(il) + 2 /\ il'[Len(il) + 1] = i /\ il'[Len(il) + 2] = j
       /\ \A k \in 1..Len(il) : il'[k] = il[k]
  BY <1>11, <1>12, CodeAppendedTwice
<1>14. \A k \in 1..(Len(il) + 2) : k \in 1..Len(il) \/ k = Len(il) + 1 \/ k = Len(il) + 2
  BY <1>8
<1>15. \A k \in 1..Len(new) : k \in 1..Len(functions) \/ k = f
  BY <1>6, <1>7, <1>8, <1>9
<1>16. find_function(name) = Nothing =>
           f = Len(functions) + 1 /\ \A g \in 1..Len(functions) : functions[g].name # name
  <2> SUFFICES ASSUME find_function(name) = Nothing
               PROVE  \A g \in 1..Len(functions) : functions[g].name # name
    BY <1>7
  <2>1. Named(functions, name) = {}
    BY <1>7, InTableProperties DEF find_function, Kinds
  <2> QED BY <2>1 DEF Named
<1>17. \A g \in 1..Len(functions) : functions[g].name = name => g = f
  <2>1. CASE find_function(name) = Nothing
    BY <1>16, <2>1
  <2>2. CASE find_function(name) # Nothing
    <3>1. f \in 1..Len(functions) /\ functions[f].name = name
      BY <1>7, <2>2, InTableProperties DEF find_function, Kinds
    <3> QED BY <3>1 DEF Entered, FunctionsDistinct
  <2> QED BY <2>1, <2>2
<1>18. \A g \in 1..Len(new) : new[g].name = name <=> g = f
  BY <1>6, <1>9, <1>15, <1>17
<1>19. FunctionsDistinct'
  <2> SUFFICES ASSUME NEW g \in 1..Len(new), NEW h \in 1..Len(new), new[g].name = new[h].name
               PROVE  g = h
    BY <1>5, Zenon DEF FunctionsDistinct
  <2>1. CASE g = f \/ h = f
    BY <1>18, <2>1
  <2>2. CASE g # f /\ h # f
    <3>1. g \in 1..Len(functions) /\ h \in 1..Len(functions)
      BY <1>15, <2>2
    <3>2. functions[g].name = functions[h].name
      BY <1>6, <1>9, <3>1
    <3> QED BY <3>1, <3>2 DEF Entered, FunctionsDistinct
  <2> QED BY <2>1, <2>2
<1>20. EntriesKnown'
  <2> SUFFICES ASSUME NEW k \in 1..Len(il'), il'[k].op = "op_entry_point"
               PROVE  \E g \in 1..Len(new) : new[g].name = il'[k].name
    BY <1>5, Zenon DEF EntriesKnown
  <2>1. CASE k \in 1..Len(il)
    <3>1. PICK g \in 1..Len(functions) : functions[g].name = il[k].name
      BY <1>13, <2>1 DEF Entered, EntriesKnown
    <3>2. g \in 1..Len(old)
      BY <1>6, <1>7, <1>8
    <3> QED BY <1>6, <1>9, <1>13, <2>1, <3>1, <3>2
  <2>2. CASE k = Len(il) + 1
    BY <1>6, <1>9, <1>11, <1>13, <2>2
  <2>3. CASE k = Len(il) + 2
    BY <1>11, <1>13, <2>3
  <2> QED BY <1>13, <1>14, <2>1, <2>2, <2>3
<1>21. EntriesRight'
  <2> SUFFICES ASSUME NEW g \in 1..Len(new), NEW k \in 1..Len(il'),
                      IsEntry(il'[k], new[g].name)
               PROVE  /\ new[g].entry + 1 \in 1..Len(il')
                      /\ IsEntry(il'[new[g].entry + 1], new[g].name)
    BY <1>5, Zenon DEF EntriesRight, IsEntry
  <2>1. CASE g = f
    <3>1. new[g].entry + 1 = Len(il) + 1 /\ Len(il) + 1 \in 1..Len(il')
      BY <1>8, <1>9, <1>13, <2>1
    <3>2. IsEntry(i, new[g].name)
      BY <1>11, <1>18, <2>1 DEF IsEntry
    <3> QED BY <1>13, <3>1, <3>2
  <2>2. CASE g # f
    <3>1. g \in 1..Len(functions) /\ new[g].name # name
      BY <1>15, <1>18, <2>2
    <3>2. new[g].name = functions[g].name /\ new[g].entry = functions[g].entry
      <4>1. g \in 1..Len(old)
        BY <1>9
      <4> QED BY <1>6, <1>9, <2>2, <3>1, <4>1
    <3>3. k \in 1..Len(il)
      <4>1. k # Len(il) + 1 /\ k # Len(il) + 2
        BY <1>11, <1>13, <3>1 DEF IsEntry
      <4> QED BY <1>13, <1>14, <4>1
    <3>4. IsEntry(il[k], functions[g].name)
      BY <1>13, <3>2, <3>3
    <3>5. /\ functions[g].entry + 1 \in 1..Len(il)
          /\ IsEntry(il[functions[g].entry + 1], functions[g].name)
      BY <3>1, <3>3, <3>4 DEF Entered, EntriesRight
    <3>6. functions[g].entry + 1 \in 1..Len(il')
      BY <1>8, <1>13, <3>5
    <3> QED BY <1>13, <3>2, <3>5, <3>6
  <2> QED BY <2>1, <2>2
<1> QED BY <1>19, <1>20, <1>21 DEF Entered

LEMMA CloseBlockEntered == ASSUME Places, Entered, CloseBlock PROVE Entered'
<1> USE DEF Places
<1>1. parent \in 1..Len(blocks)
  BY DEF CloseBlock, Open, Typed
<1>2. PICK f : f = blocks[parent].function
  OBVIOUS
<1>3. f \in 1..Len(functions) /\ functions \in Seq(Function) /\ Len(functions) \in Nat
  BY <1>1, <1>2 DEF Nested, Typed
<1>4. Len(il) \in Nat /\ Len(il) + 1 \in Nat
  BY DEF Typed
<1>5. PICK i, j : i = Plain("op_block_end") /\ j = Plain("op_exit_point")
  OBVIOUS
<1>6. i \in Instruction /\ j \in Instruction
      /\ i.op = "op_block_end" /\ j.op = "op_exit_point"
  <2>1. "op_block_end" \in Ops /\ "op_exit_point" \in Ops
    BY Zenon DEF Ops
  <2> QED BY <1>5, <2>1, NamesTyped, PlainTyped
<1>7. CASE parent' # 0
  <2>1. il' = Append(il, i) /\ UNCHANGED functions
    BY <1>5, <1>7, Zenon DEF CloseBlock
  <2>2. i.op # "op_entry_point"
    BY <1>6
  <2> QED BY <2>1, <2>2, EnteredUse
<1>8. CASE parent' = 0
  <2>1. il' = il \o << i, j >> /\ functions' = [functions EXCEPT ![f].exit = Len(il) + 1]
    BY <1>2, <1>5, <1>8, Zenon DEF CloseBlock
  <2>2. Len(il') = Len(il) + 2 /\ il'[Len(il) + 1] = i /\ il'[Len(il) + 2] = j
        /\ \A k \in 1..Len(il) : il'[k] = il[k]
    BY <1>6, <2>1, CodeAppendedTwice
  <2>3. \A k \in 1..(Len(il) + 2) : k \in 1..Len(il) \/ k = Len(il) + 1 \/ k = Len(il) + 2
    BY <1>4
  <2>4. i.op # "op_entry_point" /\ j.op # "op_entry_point"
    BY <1>6
  <2>5. \A k \in 1..Len(il') :
            (k \in 1..Len(il) /\ il'[k] = il[k]) \/ il'[k].op # "op_entry_point"
    BY <2>2, <2>3, <2>4, Zenon
  <2>6. PICK new : new = [functions EXCEPT ![f].exit = Len(il) + 1]
    OBVIOUS
  <2>7. Len(new) = Len(functions)
        /\ \A k \in 1..Len(new) : /\ new[k].name = functions[k].name
                                  /\ new[k].entry = functions[k].entry
    BY <1>3, <1>4, <2>6, ExitTable
  <2>8. functions' = new
    BY <2>1, <2>6
  <2>9. Len(functions) <= Len(functions') /\ Len(functions') \in Nat
        /\ \A k \in 1..Len(functions') : ~(k > Len(functions))
    BY <1>3, <2>7, <2>8
  <2>10. Len(il) <= Len(il') /\ Len(il') \in Nat
    BY <1>4, <2>2
  <2> QED BY <2>2, <2>5, <2>7, <2>8, <2>9, <2>10, EnteredKept
<1> QED BY <1>7, <1>8

LEMMA UseAsEntered ==
    ASSUME Places, Entered, NEW name, NEW found, NEW called \in BOOLEAN,
           UseAs(name, found, called)
    PROVE  Entered'
<1>1. UNCHANGED functions
  BY DEF UseAs
<1>2. CASE found = Nothing
  <2>1. UNCHANGED il
    BY <1>2 DEF UseAs
  <2> QED BY <1>1, <2>1, EnteredUse DEF Places
<1>3. CASE found # Nothing
  <2>1. PICK op : op = CASE found.kind = "constant" -> "op_load_numeric_constant"
                         [] found.kind = "function" /\ called -> "op_function_call"
                         [] OTHER -> "op_get_var_addr"
    OBVIOUS
  <2>2. op # "op_entry_point"
    <3>1. CASE found.kind = "constant"
      BY <2>1, <3>1
    <3>2. CASE found.kind # "constant" /\ found.kind = "function" /\ called
      BY <2>1, <3>2
    <3>3. CASE found.kind # "constant" /\ ~(found.kind = "function" /\ called)
      <4>1. op = "op_get_var_addr"
        BY <2>1, <3>3, Zenon
      <4> QED BY <4>1
    <3> QED BY <3>1, <3>2, <3>3
  <2>3. il' = Append(il, Instr(op, name, found, 0))
    BY <1>3, <2>1, Zenon DEF UseAs
  <2>4. Instr(op, name, found, 0).op = op
    BY DEF Instr
  <2>5. \E x : il' = Append(il, x) /\ x.op # "op_entry_point"
    BY <2>2, <2>3, <2>4
  <2> QED BY <1>1, <2>5, EnteredUse DEF Places
<1> QED BY <1>2, <1>3

LEMMA AddLocalEntered ==
    ASSUME Places, Entered, NEW v, NEW size, NEW initialised \in BOOLEAN,
           AddLocal(v, size, initialised)
    PROVE  Entered'
<1>1. UNCHANGED functions
  BY DEF AddLocal
<1>2. CASE ~ initialised
  <2>1. UNCHANGED il
    BY <1>2, Zenon DEF AddLocal
  <2> QED BY <1>1, <2>1, EnteredUse DEF Places
<1>3. CASE initialised
  <2>1. PICK found : found = Entity("local", parent, Len(blocks[parent].locals) + 1)
    OBVIOUS
  <2>2. il' = Append(il, Instr("op_get_var_addr", v.name, found, size))
    BY <1>3, <2>1, Zenon DEF AddLocal
  <2>3. Instr("op_get_var_addr", v.name, found, size).op # "op_entry_point"
    BY DEF Instr
  <2>4. \E x : il' = Append(il, x) /\ x.op # "op_entry_point"
    BY <2>2, <2>3
  <2> QED BY <1>1, <2>4, EnteredUse DEF Places
<1> QED BY <1>2, <1>3

LEMMA NextEntered == ASSUME Places, Entered, Next PROVE Entered'
<1>0. Typed
  BY DEF Places
<1>1. ASSUME NEW d \in Declarators, NEW semicolon \in BOOLEAN, GlobalVariable(d, semicolon)
      PROVE  Entered'
  BY <1>0, <1>1, EnteredUse DEF GlobalVariable
<1>2. ASSUME NEW name \in FunctionNames, NEW ps \in Parameters,
             Prototype(name, ps) \/ FunctionDefinition(name, ps)
      PROVE  Entered'
  BY <1>2, PrototypeEntered, FunctionDefinitionEntered
<1>3. ASSUME NEW name \in TypeNames,
             \/ \E es \in Enumerators : TypedefEnum(name, es)
             \/ \E ds \in Fields : TypedefStruct(name, ds)
             \/ \E k \in 1..Len(types) : TypedefType(name, types[k].name)
      PROVE  Entered'
  <2>1. UNCHANGED functions /\ UNCHANGED il
    BY <1>3, Zenon DEF TypedefEnum, TypedefStruct, TypedefType
  <2> QED BY <1>0, <2>1, EnteredUse
<1>4. CASE Finish
  BY <1>0, <1>4, EnteredUse DEF Finish
<1>5. ASSUME NEW d \in Declarators, NEW initialised \in BOOLEAN,
             LocalVariable(d, initialised) \/ LocalContinued(d, initialised)
      PROVE  Entered'
  <2>1. \E v, size : AddLocal(v, size, initialised)
    BY <1>5, Zenon DEF LocalVariable, LocalContinued
  <2> QED BY <2>1, AddLocalEntered
<1>6. CASE OpenBlock
  <2>1. UNCHANGED functions /\ il' = Append(il, Plain("op_block_start"))
    BY <1>6 DEF OpenBlock
  <2>2. Plain("op_block_start").op # "op_entry_point"
    BY DEF Plain
  <2>3. \E x : il' = Append(il, x) /\ x.op # "op_entry_point"
    BY <2>1, <2>2
  <2> QED BY <1>0, <2>1, <2>3, EnteredUse
<1>7. CASE CloseBlock
  BY <1>7, CloseBlockEntered
<1>8. ASSUME NEW name \in UsedNames,
             UseStatement(name) \/ \E called \in BOOLEAN : UseOperand(name, called)
      PROVE  Entered'
  <2>1. \E found : \E called \in BOOLEAN : UseAs(name, found, called)
    BY <1>8, Zenon DEF UseStatement, UseOperand
  <2> QED BY <2>1, UseAsEntered
<1> QED BY <1>1, <1>2, <1>3, <1>4, <1>5, <1>6, <1>7, <1>8, Zenon DEF Next

\* Where every function that is called is defined, before or after the call,
\* each call goes to the entry point of the function that was called, however
\* often it was declared, and defined.
THEOREM Calls == Spec => [](CallsDefined => CallsEnterFunction)
<1>1. Init => Places /\ Entered
  BY InitPlaces, InitEntered
<1>2. Places /\ Entered /\ [Next]_vars => (Places /\ Entered)'
  <2>1. Places /\ Entered /\ UNCHANGED vars => Entered'
    BY EnteredUse DEF vars, Places
  <2> QED BY <2>1, NextPlaces, NextEntered, StutterPlaces
<1>3. Places /\ Entered => (CallsDefined => CallsEnterFunction)
  BY EnteredCalls
<1> QED BY <1>1, <1>2, <1>3, PTL DEF Spec
=============================================================================
