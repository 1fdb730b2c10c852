# rvcc in TLA+

TLA+ models, TLC configurations and TLAPS proofs for rvcc, a C compiler for RISC-V and ARM.
rvcc is a sequential program: nothing in it runs concurrently, nothing is persisted and no message
is lost. What is hard in it is the *order* in which many small pieces of code, each right by
itself, act on shared state - one character and one token of look-ahead, the tables of names, the
operator stack, the registers and the stack of the emitted code, the jumps that are patched after
the statements they skip have been read, two passes over the same code that have to agree to the
byte, and offsets in a file computed before the file is written. The models keep all of that
control and abstract names, types and numbers to what it tells apart.

## 1. Inventory

`main` (`rvcc.c`) calls, once each: `g_initialize`, `s_clib`, `s_load`, the backend's initialiser,
`p_parse`, `c_generate`, `e_generate`.

| Component | Source | State | Operations | What makes it correct | Model |
|---|---|---|---|---|---|
| Embedding tool | `lib/embed.c` | `_source` | `main` at build time: `rvclib.c` becomes `rvclib.inc` | the strings it writes read back as the library | **Embed**, with Lexer in MCFront |
| Source loader | `source.c` | `_source`, `_source_idx`, open files | `s_load` (recursive includes), `s_write_string` | every line once, in order of inclusion; ends | **Source** |
| Lexer | `lexer.c`, `helpers.c` | `_l_next_token`, `_l_next_char`, `_l_token_string`, `_aliases` | `l_next_token`, `l_peek`, `l_accept`, `l_expect` | one token of look-ahead; comments, `#ifdef` and escapes consume what they should | **Lexer**, composed with Source in **Front** |
| Symbol tables | `globals.c` | `_types`, `_functions`, `_blocks`, `_constants`, `_il` | `add_*`, `find_*` | the parser and the code generator find the same entity, the one C means | **Declarations**; the rule is **Scope** |
| Declarations | `parser.c` 98-203, 1177-1221, 1269-1400 | `_temp_variable`, the tables | variables, structs, enums, typedefs, functions | a declaration depends on its own text only | **Declarations** |
| Expression parser | `parser.c` 205-801 | `op_stack`, `param_no`, C activations | one function for each nonterminal | groups by priority; the emitted code balances the stack and keeps live registers | **Expression** |
| Statement parser | `parser.c` 25-71, 803-1267, 1402-1409 | `_il`, `_blocks`, `_p_break_exit_il_idxs`, unpatched jumps | one branch for each statement | every jump is patched; the code does what the source says | **Statements** |
| Layout | `codegen.c` 3-77 | offsets and sizes of variables | `c_size_function`, `c_size_block`, `c_size_functions` | variables alive together do not overlap, frames are reserved | **CodeGen** |
| Code generator | `codegen.c` 79-384 | `_e_code`, current block, `code_offset` | two passes, one case for each IL operation | the passes agree | **CodeGen** |
| Backends | `arch/riscv.c`, `arch/arm.c` | none | length of the code of an IL operation; its words; the bits of a word | the words do what the operation means, and decode as they were meant | **Riscv**, **Arm**, **Encoding**, executed by **Machine** |
| ELF writer | `elf.c` | code, data, symbol, string, header and footer buffers | `c_emit`, `e_add_symbol`, `e_generate` | offsets in headers match what is written | **Elf** |
| C library | `lib/rvclib.c` | memory, file offset | string functions, `printf`, files | keeps the contract its callers rely on; ends | **Clib** against **ClibContract**; **Printf** |
| Driver | `rvcc.c` | options | `main` | - | the order of the phases in Front and ElfSpec |

How they interact. The parser pulls tokens from the lexer one at a time with one token of
look-ahead. It appends IL instructions (`add_instr`), and refers to them later by pointer or index
to patch them. Functions, blocks and variables are shared tables. The code generator reads the
instructions twice; it knows the current block only from the `op_block_start` and `op_block_end`
the parser left, looks names up in the parser's tables by rules of its own, and calls the backend
through a table of function pointers, whose operations append words with `c_emit`. The ELF writer
puts a header and a footer around the buffers the code generator has filled.

The behaviours that are hard are listed in `PROJECT.json` under "hazards", each at its line.

## 2. What is modelled

**Source** is `s_load`; the recursion is the stack `open` of files, each with its position.
Actions: `LoadLine`, `Include`, `CloseFile`. **Lexer** is `l_next_token` with one action for each
of its branches, and where a branch loops, one step for each character; `pc` says which loop is
running. `return l_next_token()` is a return to the control point "token", and a loop that runs
over the end of the text ends in "overrun". The part of the parser that acts on directives
(`AcceptDefine` ... `AcceptEof`) is there too, because the look-ahead makes its order matter.
**Front** composes them as `main` does. A character of a text is a character, or a whole word that
is never taken apart. **CTokens** and **Preprocessor** say what C makes of the same files: the
longest lexemes, then the directives; `Preprocesses` is the refinement of Preprocessor by Front.
**Embed** is what the embedding tool writes.

**Declarations** is every declaration and every look-up by name. An action reads one declaration,
opens or closes a block, or uses a name; the tables are sequences in the order of their arrays, and
`temp` is `_temp_variable`. `first` is the local `var` of `p_read_body_statement`, which the
declarators behind a comma go on using. MCDeclarations adds the code generator's look-up, `Find` of
module CodeGen, over the same tables, and the refinement of **Scope**: a stack of scopes in which a
name means its innermost declaration.

**Expression** is the recursive descent of `p_read_expression`, with the C activations as an
explicit stack `frames`. The input is nondeterministic: an action that accepts a token may be
taken whenever the parser would accept that token. The code of an expression has no jumps, so
each emitted instruction is executed as it is appended: `m` holds the registers, the run-time stack
and a store of terms (an operator and two earlier values). An argument register after a call holds
0, a value nobody may use. `ops` of an activation is `op_stack`; `at` is the line it waits on for
the activation above it. Actions: `OperandConstant`, `OperandFunctionName`, `OperandNot`,
`OperandStar`, `OperandParen`, `OperandLvalue`, `OperandCall`, `NotDone`, `Reject`, `NextArgument`,
`EndCall`, `PointerCall`, `StartIndex`, `Member`, `AddressOf`, `PointerPlus`, `PointerPlusDone`,
`Evaluate`, `LvalueDone`, `FirstOperand`, `SecondOperand`, `LaterOperand`, `ApplyStacked`,
`PushOperator`, `Unwind`, `ReturnToParen`, `ReturnToCall`, `ReturnToIndex`. The function and the
lines behind each are in the "map" of `PROJECT.json`. Abstracted: what a variable is called, its
type down to "pointer level, array, element wider than a byte", and the kinds of constant.

**Statements** is `p_read_body_statement` with blocks and functions, again with explicit
activations. `il` is the code, with labels and jumps as they are and one instruction for the code
of any expression or simple statement - which Expression shows to have no jumps and to leave the
stack as it was. An activation keeps the jumps it has yet to patch in `pending`. `source` is the
input consumed, only read by properties and bounds. With `Supported = TRUE` the input keeps to
what the parser handles (a `break` belongs to a switch with no loop in between, and the last case
of a switch ends with a jump); the violation run shows why. **MCStatements** holds the reference:
the input as a tree, the events (a statement executed, a condition or selector evaluated to a
value) it goes through according to C, and the events the IL goes through; `ExecutesAsWritten`
compares the two sets.

**CodeGen** is `c_generate`. `Programs` is a constant: what the parser may leave. `CalculateCodeLength`
is the first pass, `SizeFunctions` the layout, and then there is one action for each IL operation
or family of them. **Riscv** and **Arm** are the backends: `CodeLength` is `*_get_code_length`,
`Words` the table of operations, each giving a sequence of words. A word is a record of mnemonic,
registers and immediate, and a word whose immediate does not fit its field ends the compilation.
**Machine** composes CodeGen with an executor of the instructions that the backends use and with the
meaning of each IL operation. `InstructionsExecute` runs the words just emitted from sample
registers and compares. **Encoding** packs such a record into 32 bits, as pairs of 16-bit halves that
add with a carry, and decodes them as the manuals say. **Elf** goes on behind Machine: `e_align`,
`e_generate_header`, `e_generate_footer`, `e_output` on the real buffers, to a file of bytes.
Executors, decoders and the readers of ELF files are external: they stand for the processors and
for whoever loads the file.

The two parser modules meet CodeGen in the IL: Statements shows the labels and blocks well nested
and the jumps resolved, which CodeGen assumes of its programs (`ProgramsAssumption`).

**Clib** is one call of a function of the library, one round of its loop for each step, on a memory
in which an access outside ends the program. **ClibContract** is what the callers rely on, in one
step per call; `MeetsContract` is the refinement. **Printf** is `printf` with `__format`,
`__render10` (one subtraction for each step) and `__render16`; MCPrintf states what C prints.

## 3. Runs

| Run | Instance | Shows |
|---|---|---|
| `expr` | 10 tokens of constants and 8 operators of all 4 priorities; 5 tokens with every kind of operand in every other, calls of up to 2 arguments, starting with 1 or 2 live registers | `OpStackOrdered`, `NoUnexpectedEnd`, `GroupsByPriority` (the operators that `p_read_expression` reads form the tree their priorities describe), `StackBalanced`, `RegistersPreserved`, `FirstOperandSurvives`, `ArgumentsInPlace` |
| `stmt` | 4 statements of all 12 kinds in at most 2 functions; 6 statements out of blocks, ifs, loops, switches and breaks; runs of 6 events | `JumpsResolved`, `BlocksNest`, `JumpsNeverEnterBlock`, `OnlyBreaksLeaveLocals`, `ExecutesAsWritten` |
| `code` | both backends; programs with two free instructions among nested blocks, and programs with every layout of variables, up to the bytes of the file | `OffsetsAgree`, `VariablesDisjoint`, `FramesReserved`, `InstructionsExecute`, `LoadsAsGenerated`, `SectionsResolve` |
| `front` | texts of 3 operators, 4 pieces of literals, 4 of comments, 3 directives, 5 lines of conditional text; 3 files in 2 directories; 205 embedded libraries of up to 3 parts, 57 of them with `\n` in a string or a character | `LoadsExpansion`, `Preprocesses`, `LibraryReadsBack`, the action property `EveryStepReads`, and `Terminates` |
| `decl` | 6 declarations, blocks and uses, what is more than an `int` counting three times; two names, one function besides `main`, two type names | `SizesAsWritten`, `UsesAgree`, `CallsEnterFunction`, and the refinement `FollowsScope` |
| `clib` | every call on every memory of 5 bytes out of 3 values, counts up to 3, files of up to 3 bytes | the refinement `MeetsContract`, and `CallsEnd` |
| `printf` | every conversion with widths on both sides of its digits and 12 values at the boundaries; three conversions next to each other | `PrintsAsC`, `DigitsWorthValue`, and `CallEnds` |
| `expr_pointer`, `stmt_switch`, `code_params`, `front_ifdef`, `decl_shadow` | smallest that show it | the findings below |

Every passing run also checks the type invariant `TypeOK` of its module.

Why the bounds are enough. Four priorities need four stacked operators and one more to unwind
them, so an expression of five operands has every shape of `op_stack`; the run has more. A nested
operand interferes with at most the operand around it and the operator in between, which five
tokens hold; the theorems of section 4 cover any number. A switch with two cases, a default and a
break is six tokens. `BranchReach` is 16 and not 4096, so that both forms of a RISC-V conditional
jump occur in a program of two dozen instructions; the constants loaded lie on both sides of each
limit that the backends test (0, 255, 2047, 4095), and the sizes of variables on both sides of 16,
of the reach of `addi`, and of the 2047 bytes a block may take. In Machine, register and truth
values come from the small sets `SampleValues` and `Truths`. A loop of the lexer looks at most two
characters ahead, and no token of the model takes more than four pieces to open, disturb, escape
and close. Three open files (`MaxOpen`) let a file include one that includes a third, and let a cycle
run into the limit, as it would with any other. A name is shadowed by a second declaration in a
block inside of a function with a parameter, before or after a use: six items. Three bytes of
source or file with a zero, a letter and 255 among them, in a memory of five, have every overlap of
two operands and both ends; the theorems cover every size.

Input that the compiler does not handle is excluded from the passing runs where the module with
the instances says so, and listed in section 5: `Supported` in MCFront, MCStatements and MCPrintf,
`SupportedSpec` in MCDeclarations, `Truths` of MCCodeGen. The passing runs say nothing of these
cases, and a hazard whose failing case is among them names no property, or one that a violation run refutes.

Fairness. Front, Clib and Printf assume weak fairness of their next step: the program is one thread
that does not wait for anything, so it takes its next step when it has one. Nothing else is
assumed; that a file system is finite and that a process has a limit of open files is why a cycle
of includes ends, in a crash, and that a loop over the end of a string leaves the memory is why it
ends. `Terminates`, `CallsEnd` and `CallEnds` then say that no loop runs in place. The other
specifications state no fairness: they consume input of any length that a bound cuts off, and
a state in which the compiler could neither go on nor report an error would be found as a deadlock.
For Clib, Printf and Declarations that search is off, because a call that has returned and a program
that has been read stop.

Findings (each a run whose property TLC violates):

1. `expr_pointer`: a `+` behind a pointer or an array takes one operand before any priority is looked at:
   `p + i * 2` is `(p + i) * 2`.
2. `stmt_switch`: a last case that does not jump falls into the tests of the switch.
3. `code_params`: a `char` parameter overwrites three bytes of the parameter before it.
4. `front_ifdef`: an `#ifdef` right behind the `#define` of its name does not find it, since the token
   behind the value is read before the name is added.
5. `decl_shadow`: a local variable with the name of a global is declared and sized as a local, and
   every access goes to the global.

## 4. Proofs

**ExpressionProofs** proves, for every value of the constants, i.e. expressions of any length and
nesting:

- `ExpressionTyped`: `Spec => []TypeOK`
- `OpStackBounded`: `Spec => []OpStackOrdered` - the ten places of `op_stack` suffice
- `UnexpectedEndUnreachable`: `Spec => []NoUnexpectedEnd`
- `ExpressionBalancesStack`: `Spec => []StackBalanced`

from `BoundsAssumption` (limits are numbers; the machine has the registers that the starting
activation uses) and `VariablesAssumption`. None of the four is inductive alone: that the unwinding loop
finds an operator depends on what the activation that called it waits for, and the height of the stack
depends on the number of stacked operators. Their conjunction is: `IInv`, stated as a predicate
`State(pc, frames, m)` on one state; the lemma `Invariants` shows that it says no more than the four
properties. The proof separates what an instruction does to the machine (`FreshMachine` ...
`ApplyTopMachine`), what pushing, popping or replacing an activation does to a well-formed stack of
them (`PushActivation`, `PopActivation`, `ReplaceActivation`), and what pushing or popping an
operator does to an ordered `op_stack` (`OrderedPush`, `OrderedPop`, `OrderedFits`); there is one lemma
for each action (`...Step`), and `Inductive` puts them together.

Its second part proves, again for expressions of any length and nesting and from the same assumptions:

- `RegistersKept`: `Spec => []RegistersPreserved`
- `OperandsSurvive`: `Spec => []FirstOperandSurvives`
- `CallsPrepared`: `Spec => []ArgumentsInPlace` - at the call instruction, with the address of a call through
  a pointer popped already, each argument is in its register; argument `MAX_PARAMS` of a call through a pointer
  is excepted, for it is lost

The three properties look at one activation at one point; what they need has to hold of all activations all the
time. The invariant `VInv` adds to `IInv` what each activation relies on (`Relies`): the registers below its own
are as it found them, the first operand is in its register while the second is read, and the arguments
read so far are in theirs. An activation that has called another relies on the same of the registers the
other *found* (`Passes`), because the called one restores those below its own - and it was given a register
above all that its caller relies on (`Given`). A call is the exception: it gives up the registers below its
own, and relies on words of the stack instead (`Saved`), which nobody overwrites because the words of an
activation lie below those of the activations it called (`Stacked`). The proof says first which registers and
words each instruction leaves alone (`FreshSpares`, `ApplySpares`, ...), then what pushing, popping and
replacing an activation does to `Values` (`ValuesPush`, `ValuesPop`, `ValuesReplace`); there is one lemma for each
action (`...Kept`).

Its third part proves what all of this is for:

- `ExpressionGroups`: `Spec => []GroupsByPriority` - the operators that `p_read_expression` reads combine as
  their priorities describe. An operand is whatever `p_read_expression_operand` reads, the `+` that belongs to a
  pointer or an array included: of that one, `expr_pointer` shows that it does not follow the priorities.

The property describes the tree without recursion, by what hangs below each operator: to its left the run of
operators that bind at least as tightly, to its right the run of those that bind tighter, and of each run the
operator applied last (`Computes`). That such a tree grows by one operator joining two of them is the only fact
about trees (`SpansJoined`); it needs no induction, because the invariant carries the trees along. The
invariant `GInv` adds to `VInv` where the operators on `op_stack` stand among all that were read: below each on the
stack of the machine is what the operators between it and the one below compute, which bind at least as tightly, and all
behind it bind tighter (`Stands`, `Parsed`). The operator on top can thus be applied to two complete trees
(`StandsApplied`), and one is stacked only behind all that bind as tightly (`StandsStacked`). It holds of every activation,
not only the one on top (`Groups`): code that an operand emits only adds terms, and leaves the words of its callers
(`Adding`, `CallersGrouped`). There is one lemma for each action (`...Groups`).

**CodeGenProofs** proves, for every set of well-formed programs, both architectures and every value of
the limits:

- `PassesAgree`: `Spec => []OffsetsAgree` - the code emitted so far ends where the first pass said
- `CodeGenTyped`: `Spec => []TypeOK`
- `LayoutDisjoint`: `Spec => []VariablesDisjoint`
- `LayoutReserved`: `Spec => []FramesReserved`

from `ProgramsAssumption` (functions, blocks and instructions that an instruction names exist; a block
comes after the block around it and belongs to the same function, because `read_code_block` creates it
inside) and `LimitsAssumption`. The invariant is strengthened by what the earlier phases computed: `code_offset` is
*equal* to the sums of the lengths and `layout` to what the sizes give (`Static`). The argument has
three parts: each backend operation is as many words as the same backend counts (`RiscvWords`,
`RiscvLength`, `ArmWords`, `ArmLength`, joined in `Measured`: this is where the two statements of the
length of every instruction are compared); the sums satisfy their recursion (`SumsFacts`); and each
action emits what was counted (`Emitted`). Induction over the index of an instruction is done on a set
of numbers, from the well-foundedness of `<` (`LeastNatural`, `Induction`), which needs no operator as
a parameter.

The two about the layout hold for any number, size and nesting of variables and blocks, by the same invariant.
A recursive function is a `CHOOSE` in TLA+, so what it computes has to be proved: recursion along the
parents of blocks has a solution (`RecursionExists`), from which `EnclosingFacts` and `BlockEnds` derive
the equations of `Enclosing` and `c_size_block`. What holds of a block because it holds of the one around
it holds of all (`TreeInduction`): of two blocks around a third, the outer ends before the inner
starts (`Nested`). Sums of sizes do not decrease (`SizeGrows`), so that of two variables of a frame one
ends before the other starts (`FrameDisjoint`), and all end where their block does (`FrameEnds`).

**ClibProofs** proves, for every size and content of memory, every file and all operands:

- `ClibTypes`: `Spec => []TypeOK`
- `ClibMeetsContract`: `Spec => MeetsContract`, the refinement of ClibContract

from `ClibAssumption` (addresses are positive, bytes are bytes). While a call runs, the contract has not
moved, so the invariant says how far the loop has come: the `i` bytes behind an operand are not
zero (`strlen`, `fputs`), equal (`strcmp`, `strncmp`), copied from what the source held *at the start*
(`strcpy`, `strncpy`, and `memcpy` from the end), or the last of the file (`fgets`). That a copy still reads what
was there at the start, although it may have written into its own source, is the crux
(`StrcpyReads`, `StrncpyReads`). Each function has a lemma that a step of it is a return, a crash that the
contract allows, or a stutter that keeps the invariant (`StrlenStep` ... `FgetsByteStep`). Fairness is not needed: the contract
promises nothing about when.

**PrintfProofs** proves, for every format, all arguments and all integers of 32 bits:

- `RendersExactly`: `Spec => []DigitsWorthValue`
- `PrintfTyped`: `Spec => []TypeOK` - the buffer has room for what is in it, and places and digits are in range

from `PrintfAssumption`. The invariant behind the first adds that what is left of the value is below the power before the
current one (`c > 0 => val < Power[c - 1]`), so that no place counts beyond '9', and that the places
behind the current one are still zero. The second needs it too, for the digits that are counted up,
and that nothing is written before the end (`TInv`).

**StatementsProofs** proves, for inputs of any length and nesting:

- `Typing`: `Spec => []TypeOK`
- `Resolution`: `Supported => (Spec => []JumpsResolved)`
- `Blocks`: `Spec => []BlocksNest`
- `NoEntry`: `Spec => []JumpsNeverEnterBlock`
- `Locals`: `Spec => []OnlyBreaksLeaveLocals`

from `BoundsAssumption`. `Supported` is the constant of module Statements, without which a `break` may
have nothing to leave. What an activation remembers is what the invariant is about: the stack of
activations alternates as the grammar does (`Stack`), the places they hold are of jumps they added
themselves, in the block they were in (`Places`), the jumps without a target are exactly those (`Unpatched`),
the ones of a switch are exactly its breaks (`Breaks`), every other jump has a label of its function as its target
(`Jumps`), and the blocks open at any place of the code are those of the activations that are around it
(`Nesting`). One lemma says what code that is only added to keeps (places, labels, the blocks around
them), one for each way an activation begins or ends says what it adds and patches, and one for each
action puts these together.

**DeclarationsProofs** proves, for all programs:

- `Typing`: `Spec => []TypeOK`
- `Sizes`: `ArraysOfValues => (SupportedDeclarations => []SizesAsWritten)`
- `Calls`: `Spec => [](CallsDefined => CallsEnterFunction)`

from `NamesAssumption`, `ProgramAssumption` and `MaxParamsAssumption`, which say what a declaration is
made of. `SupportedDeclarations` and `ArraysOfValues` exclude what section 5 lists under
declarations; each step of `SupportedSpec` of the run `decl` is a step of `SupportedDeclarations`, which has
no bounds. The invariant behind `Sizes`: each variable is what its own declarator made of cleared
memory (`Faithful`), with `temp` clean as long as no function pointer has been read into it (`TempClean`); the fields of each
struct add up to its size (`FieldsFill`); and a stored size is that of the variable it
stands with (`ValuesWide`). Behind `Calls`: no two functions have one name (`FunctionsDistinct`), every entry point in the code
is one of a function of the table (`EntriesKnown`), and the table names one of its own (`EntriesRight`). The values of
enumerators, the offsets of fields and the look-up through the blocks are recursive functions; that
they have the values their equations say is shown by the least argument that would not.

**LookupProofs** proves, for all programs and every value of `MaxItems`:

- `UsesFound`: `SupportedSpec => []UsesAgree` - what the parser finds for a name in the middle of the source
  is what the code generator finds for it at the end
- `ImplementsScope`: `SupportedSpec => FollowsScope` - the tables of the compiler implement Scope: a name
  is taken for what the innermost scope around it has, and a step declares in the innermost scope, opens or
  closes one, or uses what is in scope

from the same assumptions, with CodeGen's look-up taken over the tables of Declarations as in the run `decl`. Both
recursions through the blocks are shown to compute the same sets (`TreeExists`, `TableEnclosing`), and the
innermost block of such a set that has the name to be the one the parser stops at (`WithinHolding`). Then a name
has one meaning, `Meant`, for the parser (`OperandMeant`, `StatementMeant`) and the code generator (`FindAgrees`). The
invariant `AsMeant` says that each use so far has found what its name means *now*: tables only grow, with
the same names in the same places (`TablesKept`), so a meaning changes only when a block around the use gets the
name, and that needs a declaration behind the use, which `DeclaredBeforeUse` excludes (`RightKept`); behind other
statements there may be declarations, as in `tests/def.c`. An initial value is the
exception: it may stand between declarations, but its name is one of its own block (`OwnKept`).

The refinement maps the tables to a stack of scopes by a recursion through the blocks, and the code to the uses
in it by one through its instructions; both are shown to have the values their equations say
(`StackProperties`, `FoundProperties`). What the stack means by a name is what the parser's look-up finds from its
innermost block (`StackMeaning`), and a step keeps the scopes of all blocks but the one it declares in (`StackKept`). Then
each action is a step of Scope: `FileDeclares`, `FunctionEnters`, `BlockOpens`, `BlockCloses`, `LocalDeclares`
and `NameUsed`. They need that the tables of file scope, and the names of a function and those of file scope, are
apart (`Apart`, part of what `Supported` says of a program): otherwise the order in which tables are looked
at, not the scopes, decides what a name means. `decl_shadow` is such a program.

**FrontProofs** proves, for every file system, main file and embedded library, and every `MaxOpen`:

- `FrontTyped`: `Spec => []TypeOK` - neither the loader nor the lexer looks beyond the end of a text
- `FrontReads`: `Spec => EveryStepReads` - no loop of them turns without reading

from `MaxOpenAssumption`, `TextsAssumption` (a file is lines of characters, none of which is the byte behind a text)
and `CharactersAssumption` (the characters the lexer names are strings, which no prover knows of a literal).
The invariant is `Loading /\ Lexing`. The first says that the open files are inside their texts; the second
that the same is true of the lexer, with one exception for each point at which it waits: it has still
a character in front of it wherever the code steps over one without a look. A loop over characters ends where the first
of a class it does not skip is (`FirstOutsideExists`, by the least such place); that there is one is because
the byte behind the text is in no class. There is one lemma for each action of the lexer, and each ends in one of four
ways: a token is returned (`Returned`), the token is started over (`Repeated`), the lexer goes on at another
point (`Went`) or stops (`Stopped`). `EveryStepReads` is the variant behind `Terminates`: what is left of the
text, and of what there is to do at one place of it (`Stage`), is a number that each step of lexer and parser
decreases. For the loader, with includes that recurse, it is one number for each open file, compared from the outermost
inwards; the stack of files is no longer than `MaxOpen`. That the steps are taken is fairness, and stays
with TLC.

Only model-checked: what a run of statements executes
(`ExecutesAsWritten`); the parameters kept on entry and the execution of words; the encodings and the file (Encoding and
Elf are behind Machine, which uses bitwise operators, and decode by `CHOOSE` over tables). The
comparisons with recursive reference definitions (`ExecutesAsWritten`, `Preprocesses`,
`LoadsExpansion`, `PrintsAsC`) are recursive operators over data, and `Terminates`, `CallsEnd` and
`CallEnds` are liveness under fairness: both are out of the prover's reach and stay with TLC.

## 5. Known limits of the code

What the models do as the code does and the properties exclude, because nothing in the repository
claims otherwise or because a program would not rely on it.

- *Lexer.* `**/` does not end a comment. A backslash escaped by another escapes the next character
  again. An `#ifdef` ends at the first `#endif`, whatever stands in between, and one whose name does not reach the end of
  its line is another name. White space in front of the whole text is an error. A division cannot be
  written.
- *Source.* A file in the root directory is looked for in the current one. An include that cannot be opened, or a
  cycle, ends the program without a message.
- *Embedding.* Only quotes are escaped. The `\n` in a literal (`rvclib.c:320` and `368`) thus arrives in `_source` as
  a newline, of which the lexer makes the same literal: the text differs and the tokens do not. `\"` and `\\` in the
  library would not survive, and a line longer than the buffer is cut into two; `rvclib.c` has neither.
- *Declarations.* `int *a[5]` gets 4 bytes. A prototype behind a definition replaces its parameters. A parameter
  that is an array has the size of the array. Fields of `_temp_variable` that a declarator does not set
  keep what an earlier one left: a variable behind a function pointer is a function pointer. The initial value of a variable
  behind a comma is written with the size of the first one, so that `char c, *p = s;` keeps one byte.
  A name that is also an enumerator or a function is taken for that. A use of a name in a
  block before the block declares it again goes to the later declaration. An unknown type is a NULL
  pointer.
- *Expressions.* All operators share four priorities, so that `a || b && c` and `a & b == c` group differently
  from C. The `+` behind a pointer or an array binds tighter than all of them. It is scaled by the size of the declared type, and
  an index by 4 from the second level of a pointer on: `p[0] + 1` on an `int *` adds 4, `p + 1` on a `char **`
  adds 1. `*p` is rejected: the star is peeked at and not accepted, so that the identifier
  expected behind it is not there. The address of a call through a pointer takes the register of argument `MAX_PARAMS`.
  `&&` and `||` are bitwise in both backends, as `TODO.txt` admits, and `!x` is `1 - x` on ARM.
- *Statements.* A `break` out of a block with locals leaves them on the stack until the function returns. A `break` in a
  loop in a switch leaves the switch, and one in a loop outside of a switch jumps where entry -1 of an array says.
- *File.* `elf_flags` is 0x5000200 on RISC-V, too, which is the value for the EABI of ARM. No property
  reads these bytes.
- *Library.* The sign of `strcmp` is wrong when one string is the start of the other. `strncmp` reads on
  behind a zero; both compare `char`s, which are signed on RISC-V only. `fgets` ignores the size of the buffer, and a byte 255 ends the file. The results of reads and writes
  are not looked at, and `malloc` ignores a failed `brk`.
- *`printf`.* A width too small for a number cuts its digits; 0 in a field of spaces prints only spaces; a
  negative number filled with zeroes has its sign in the middle; ten digits leave no room for the sign, and the
  least integer prints as ten zeroes do; the prefix `0x` stands in front of the spaces; `%s` has no width; `%%`
  prints nothing and takes an argument; the buffer of 200 bytes is not checked.
- *Memory.* Tables come from `malloc` and are not cleared; the models take them to be zero, as memory fresh from the
  system is.

## 6. Not modelled

The log the compiler prints, and `stack_size`, which is only logged. The options of `main`. `fopen`, `fclose`,
`exit`, `abort` and `malloc` of the library: one system call each, with nothing done about its result. The
limits of the tables (`MAX_IL`, `MAX_LOCALS`, `MAX_CASES` and the others), which the code never
compares with: any model of them would state a property that only the size of the input decides. What
`p_read_body_assignment` stores (Statements has it as code without jumps) and the kinds of constant in an expression.
The keywords beyond two in Lexer: each is one more exact match.

Hazards without a property have a note in `PROJECT.json` that says why: the case that goes wrong is one of
section 5, as for a `break` in a loop, or the code makes no promise that a property could state, as for a
missing `#endif` or a function that is never defined.

## 7. Plan

1. Proofs: `SectionsResolve` after taking Elf off Machine.
2. Body assignments: what `p_read_body_assignment` stores, the scaling of `+=` on pointers, and the size it writes.
3. Compiler: Statements followed by CodeGen, with a program as a tree that is executed as the abstract
   specification.
