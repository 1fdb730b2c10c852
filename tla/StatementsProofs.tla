-------------------------- MODULE StatementsProofs --------------------------
(***************************************************************************)
(* Proofs about the statement parser, for every input: all jumps are       *)
(* patched, once and to labels, blocks nest, and no jump leads into one.   *)
(***************************************************************************)
EXTENDS Statements, SequenceTheorems, TLAPS

-----------------------------------------------------------------------------
(* What the variables hold.                                                *)

Instruction == [op : Ops, arg : Int]

Fns == {"function", "block", "if", "else", "while", "for", "do", "switch"}

CaseRecord == [value : CaseValues, label : Nat]

Activation ==
    [fn : Fns, block : Nat, pending : Seq(Nat), start : Nat, cases : Seq(CaseRecord),
     default : Nat]

Parts == {"value", "setup", "condition", "increment"}

TokenKinds == AllKinds \cup Closing \cup {"{", "case", "default"}

TokenRecord == [kind : TokenKinds, at : Int, parts : SUBSET Parts]

Typed ==
    /\ frames \in Seq(Activation)
    /\ il \in Seq(Instruction) /\ Len(il) >= 8
    /\ blocks \in Seq([parent : Nat, next_local : Nat])
    /\ breaks \in Seq(Nat)
    /\ functions \in Seq([entry : Nat, exit : Int]) /\ Len(functions) >= 1
    /\ source \in Seq(TokenRecord)

\* How many jumps an activation is still to patch.
NumPending(fn) ==
    CASE fn \in {"if", "else", "while", "for"} -> 1
      [] fn = "switch" -> 2
      [] OTHER -> 0

Pendings(f) == {f.pending[n] : n \in 1..Len(f.pending)}

\* The labels an activation is still to jump to.
Marks(f) ==
    {f.cases[n].label : n \in 1..Len(f.cases)}
    \cup (IF f.default = 0 THEN {} ELSE {f.default})
    \cup (IF f.fn \in Loops THEN {f.start} ELSE {})

AllPending == UNION {Pendings(frames[k]) : k \in 1..Len(frames)}

\* The exit jumps of the switches that are open.
Exits == {frames[k].pending[2] : k \in {j \in 1..Len(frames) : frames[j].fn = "switch"}}

-----------------------------------------------------------------------------
(* The inductive invariant.                                                *)

Control ==
    /\ pc \in {"global", "statement", "returned", "returned, no else", "after break", "error",
               "done"}
    /\ pc \in {"global", "done"} => frames = << >>
    /\ pc \notin {"global", "done", "error"} => frames # << >>
    /\ pc \in {"statement", "after break"} => Top.fn # "function"

\* The activations from the function inwards: only a block changes the
\* current block, to one that was made inside of it.
Stack ==
    /\ frames # << >> => frames[1].fn = "function" /\ frames[1].block = 0
    /\ \A k \in 2..Len(frames) :
           /\ frames[k].fn # "function"
           /\ frames[k].block \in 1..Len(blocks)
           /\ IF frames[k].fn = "block"
              THEN blocks[frames[k].block].parent = frames[k - 1].block
              ELSE frames[k].block = frames[k - 1].block
    /\ \A k \in 1..Len(frames) :
           /\ Len(frames[k].pending) = NumPending(frames[k].fn)
           /\ frames[k].start \in Indices
           /\ \A j \in 1..k : frames[j].block <= frames[k].block

Tables ==
    /\ \A b \in 1..Len(blocks) : blocks[b].parent < b
    /\ \A f \in 1..Len(functions) :
           functions[f].entry < Len(il) /\ functions[f].exit \in Indices \cup {Unset}
    /\ frames # << >> => functions[Len(functions)].exit = Unset

\* The blocks of the k outermost activations.
Open(k) == {frames[j].block : j \in 1..k} \ {0}

\* A place in the code an activation remembers is in the function being read
\* and in the blocks that were open when the activation began.
Place(k, p) ==
    /\ p \in Indices
    /\ functions[Len(functions)].entry <= p
    /\ Enclosing(p) = Open(k)

Places ==
    \A k \in 1..Len(frames) :
        /\ \A p \in Pendings(frames[k]) : Place(k, p)
        /\ \A p \in Marks(frames[k]) : Place(k, p) /\ il[p + 1].op = "op_label"
        /\ frames[k].fn = "switch" => il[frames[k].pending[2] + 1].op = "op_jump"

\* The pending jumps are in the order of the activations, the later ones
\* known to the inner ones, each to one.
Ordered ==
    \A k, l \in 1..Len(frames) :
        \A m \in 1..Len(frames[k].pending), n \in 1..Len(frames[l].pending) :
            k < l \/ (k = l /\ m < n) => frames[k].pending[m] < frames[l].pending[n]

\* The jumps that are not patched are those some activation knows.
Unpatched ==
    /\ {i \in Indices : JumpsAt(i) /\ il[i + 1].arg = Unset} = AllPending
    /\ Ordered

\* breaks holds the exit jumps of the switches that are open.
Breaks ==
    /\ {breaks[n] : n \in 1..Len(breaks)} = Exits
    /\ \A m, n \in 1..Len(breaks) : m < n => breaks[m] < breaks[n]

SameFunction(i, t) == \E f \in 1..Len(functions) : Within(f, i) /\ Within(f, t)

\* t is the exit jump of a switch that is open, or was and has an exit now.
Exit(t) ==
    /\ il[t + 1].op = "op_jump"
    /\ \/ t \in Exits
       \/ il[t + 1].arg \in Indices /\ il[il[t + 1].arg + 1].op = "op_label"

\* A jump that is patched stays in its function and its block, unless it is a
\* break.
Patched(i, t) ==
    /\ t \in Indices
    /\ SameFunction(i, t)
    /\ \/ il[t + 1].op = "op_label" /\ Enclosing(t) = Enclosing(i)
       \/ il[i + 1].op = "op_jump" /\ Exit(t) /\ Enclosing(t) \subseteq Enclosing(i)

Jumps ==
    /\ \A i \in Indices : JumpsAt(i) =>
           il[i + 1].arg \in Indices \cup {Unset} \cup (IF Supported THEN {} ELSE {Stray})
    /\ \A i, t \in Indices : JumpsAt(i) /\ il[i + 1].arg = t => Patched(i, t)

BlockOps == {"op_block_start", "op_block_end"}

\* The blocks open at the end of the code are those of the activations.
Nesting ==
    /\ Enclosing(Len(il)) = Open(Len(frames))
    /\ \A i \in Indices :
        /\ il[i + 1].op \in BlockOps => il[i + 1].arg \in 1..Len(blocks)
        /\ il[i + 1].op = "op_block_start" => Innermost(i) = blocks[il[i + 1].arg].parent
        /\ il[i + 1].op = "op_block_end" => Innermost(i) = il[i + 1].arg

IInv ==
    /\ Typed /\ Control /\ Stack /\ Tables /\ Places /\ Unpatched /\ Breaks /\ Jumps /\ Nesting

-----------------------------------------------------------------------------
(* What an action may do to the code.                                      *)

\* The indices of the code it adds.
New == Len(il)..(Len(il') - 1)

NewLabel(t) == t \in New /\ il'[t + 1].op = "op_label"

\* It adds code behind the old one, where only the arguments of jumps P change.
Grows(P) ==
    /\ il' \in Seq(Instruction) /\ Len(il') >= Len(il)
    /\ \A i \in Indices :
           il'[i + 1].op = il[i + 1].op /\ (i \notin P => il'[i + 1] = il[i + 1])
    /\ \A i \in P : i \in Indices /\ JumpsAt(i)

\* Blocks are only added; those there are keep their parents.
GrowsBlocks ==
    /\ blocks' \in Seq([parent : Nat, next_local : Nat]) /\ Len(blocks') >= Len(blocks)
    /\ \A b \in 1..Len(blocks) : blocks'[b].parent = blocks[b].parent

\* It adds no block.
Straight ==
    /\ GrowsBlocks /\ Len(blocks') = Len(blocks)
    /\ \A i \in New : il'[i + 1].op \notin BlockOps

\* The jumps P are patched to labels it adds; of the jumps it adds those in Q
\* are to be patched, the others lead to labels it adds or the innermost
\* activation knows, or out of a switch.
Repairs(P, Q) ==
    /\ \A i \in P : NewLabel(il'[i + 1].arg)
    /\ \A i \in Q : i \in New /\ il'[i + 1].op \in JumpOps /\ il'[i + 1].arg = Unset
    /\ \A i \in New : il'[i + 1].op \in JumpOps =>
           \/ i \in Q
           \/ NewLabel(il'[i + 1].arg)
           \/ il'[i + 1].arg \in Marks(Top)
           \/ il'[i + 1].arg = Stray /\ ~Supported
           \/ il'[i + 1].op = "op_jump" /\ il'[i + 1].arg \in Exits

-----------------------------------------------------------------------------
(* Enclosing.                                                              *)

\* Enclosing, of any code and n blocks.
EnclosingIn(code, n, i) ==
    {b \in 1..n :
        \E j \in 0..(i - 1) :
            /\ code[j + 1] = Instr("op_block_start", b)
            /\ \A k \in j..(i - 1) : code[k + 1] # Instr("op_block_end", b)}

LEMMA EnclosingIsIn ==
    ASSUME NEW i
    PROVE  /\ Enclosing(i) = EnclosingIn(il, Len(blocks), i)
           /\ Enclosing(i)' = EnclosingIn(il', Len(blocks'), i)
BY DEF Enclosing, EnclosingIn

\* Code without blocks lies in the blocks of its first instruction.
LEMMA EnclosingRange ==
    ASSUME NEW code \in Seq(Instruction), NEW n \in Nat, NEW i \in 0..Len(code), NEW j \in i..Len(code),
           \A k \in i..(j - 1) : code[k + 1].op \notin BlockOps
    PROVE  EnclosingIn(code, n, j) = EnclosingIn(code, n, i)
<1>1. \A k \in i..(j - 1), b \in 1..n :
          code[k + 1] # Instr("op_block_start", b) /\ code[k + 1] # Instr("op_block_end", b)
    BY DEF BlockOps, Instr
<1>2. ASSUME NEW b \in EnclosingIn(code, n, i) PROVE b \in EnclosingIn(code, n, j)
    <2>1. PICK s \in 0..(i - 1) :
              /\ code[s + 1] = Instr("op_block_start", b)
              /\ \A k \in s..(i - 1) : code[k + 1] # Instr("op_block_end", b)
        BY <1>2 DEF EnclosingIn
    <2>2. s \in 0..(j - 1) /\ \A k \in s..(j - 1) : k \in s..(i - 1) \/ k \in i..(j - 1)
        OBVIOUS
    <2>3. b \in 1..n
        BY <1>2 DEF EnclosingIn
    <2> QED
        BY <1>1, <2>1, <2>2, <2>3 DEF EnclosingIn
<1>3. ASSUME NEW b \in EnclosingIn(code, n, j) PROVE b \in EnclosingIn(code, n, i)
    <2>1. PICK s \in 0..(j - 1) :
              /\ code[s + 1] = Instr("op_block_start", b)
              /\ \A k \in s..(j - 1) : code[k + 1] # Instr("op_block_end", b)
        BY <1>3 DEF EnclosingIn
    <2>2. b \in 1..n
        BY <1>3 DEF EnclosingIn
    <2>3. s \notin i..(j - 1)
        BY <1>1, <2>1, <2>2
    <2>4. s \in 0..(i - 1) /\ \A k \in s..(i - 1) : k \in s..(j - 1)
        BY <2>3
    <2> QED
        BY <2>1, <2>2, <2>4 DEF EnclosingIn
<1> QED
    BY <1>2, <1>3

\* Behind the start of a block that block is open too.
LEMMA EnclosingStart ==
    ASSUME NEW code \in Seq(Instruction), NEW n \in Nat, NEW i \in 0..(Len(code) - 1), NEW c \in 1..n,
           code[i + 1] = Instr("op_block_start", c)
    PROVE  EnclosingIn(code, n, i + 1) = EnclosingIn(code, n, i) \cup {c}
<1>1. i \in Nat /\ \A b : code[i + 1] # Instr("op_block_end", b)
    BY DEF Instr
<1>2. ASSUME NEW b \in EnclosingIn(code, n, i) \cup {c} PROVE b \in EnclosingIn(code, n, i + 1)
    <2>1. CASE b = c
        <3>1. i \in 0..((i + 1) - 1) /\ \A k \in i..((i + 1) - 1) : k = i
            BY <1>1
        <3> QED
            BY <1>1, <2>1, <3>1 DEF EnclosingIn
    <2>2. CASE b \in EnclosingIn(code, n, i)
        <3>1. PICK s \in 0..(i - 1) :
                  /\ code[s + 1] = Instr("op_block_start", b)
                  /\ \A k \in s..(i - 1) : code[k + 1] # Instr("op_block_end", b)
            BY <2>2 DEF EnclosingIn
        <3>2. s \in 0..((i + 1) - 1) /\ \A k \in s..((i + 1) - 1) : k \in s..(i - 1) \/ k = i
            BY <1>1
        <3> QED
            BY <1>1, <2>2, <3>1, <3>2 DEF EnclosingIn
    <2> QED
        BY <1>2, <2>1, <2>2
<1>3. ASSUME NEW b \in EnclosingIn(code, n, i + 1), b # c PROVE b \in EnclosingIn(code, n, i)
    <2>1. PICK s \in 0..((i + 1) - 1) :
              /\ code[s + 1] = Instr("op_block_start", b)
              /\ \A k \in s..((i + 1) - 1) : code[k + 1] # Instr("op_block_end", b)
        BY <1>3 DEF EnclosingIn
    <2>2. s # i
        BY <1>3, <2>1 DEF Instr
    <2>3. s \in 0..(i - 1) /\ \A k \in s..(i - 1) : k \in s..((i + 1) - 1)
        BY <1>1, <2>1, <2>2
    <2> QED
        BY <1>3, <2>1, <2>3 DEF EnclosingIn
<1> QED
    BY <1>2, <1>3

\* Behind the end of a block it is not.
LEMMA EnclosingEnd ==
    ASSUME NEW code \in Seq(Instruction), NEW n \in Nat, NEW i \in 0..(Len(code) - 1), NEW c,
           code[i + 1] = Instr("op_block_end", c)
    PROVE  EnclosingIn(code, n, i + 1) = EnclosingIn(code, n, i) \ {c}
<1>1. i \in Nat /\ \A b : code[i + 1] # Instr("op_block_start", b)
    BY DEF Instr
<1>2. ASSUME NEW b \in EnclosingIn(code, n, i), b # c PROVE b \in EnclosingIn(code, n, i + 1)
    <2>1. PICK s \in 0..(i - 1) :
              /\ code[s + 1] = Instr("op_block_start", b)
              /\ \A k \in s..(i - 1) : code[k + 1] # Instr("op_block_end", b)
        BY <1>2 DEF EnclosingIn
    <2>2. s \in 0..((i + 1) - 1) /\ \A k \in s..((i + 1) - 1) : k \in s..(i - 1) \/ k = i
        BY <1>1
    <2>3. code[i + 1] # Instr("op_block_end", b)
        BY <1>2 DEF Instr
    <2> QED
        BY <1>2, <2>1, <2>2, <2>3 DEF EnclosingIn
<1>3. ASSUME NEW b \in EnclosingIn(code, n, i + 1) PROVE b \in EnclosingIn(code, n, i) /\ b # c
    <2>1. PICK s \in 0..((i + 1) - 1) :
              /\ code[s + 1] = Instr("op_block_start", b)
              /\ \A k \in s..((i + 1) - 1) : code[k + 1] # Instr("op_block_end", b)
        BY <1>3 DEF EnclosingIn
    <2>2. s # i /\ i \in s..((i + 1) - 1)
        BY <1>1, <2>1
    <2>3. s \in 0..(i - 1) /\ \A k \in s..(i - 1) : k \in s..((i + 1) - 1)
        BY <1>1, <2>1, <2>2
    <2> QED
        BY <1>3, <2>1, <2>2, <2>3 DEF EnclosingIn
<1> QED
    BY <1>2, <1>3

\* Code that is added, and jumps that are patched, leave the blocks of the old
\* code alone.
LEMMA EnclosingKept ==
    ASSUME Typed, Nesting, NEW P, Grows(P), Len(blocks') \in Nat, Len(blocks') >= Len(blocks),
           NEW i \in 0..Len(il)
    PROVE  Enclosing(i)' = Enclosing(i)
<1>1. Len(il) \in Nat /\ Len(blocks) \in Nat
    BY DEF Typed
<1>2. \A k \in 0..(i - 1) : k \in Indices
    BY <1>1 DEF Indices
<1>3. ASSUME NEW k \in Indices, NEW b
      PROVE  /\ il'[k + 1] = Instr("op_block_start", b) <=> il[k + 1] = Instr("op_block_start", b)
             /\ il'[k + 1] = Instr("op_block_end", b) <=> il[k + 1] = Instr("op_block_end", b)
    <2>1. CASE k \notin P
        BY <2>1 DEF Grows
    <2>2. CASE k \in P
        BY <2>2 DEF Grows, JumpsAt, JumpOps, Instr
    <2> QED
        BY <2>1, <2>2
<1>4. \A k \in Indices : \A b : il[k + 1] = Instr("op_block_start", b) => b \in 1..Len(blocks)
    BY DEF Nesting, Instr, BlockOps
<1>5. ASSUME NEW b
      PROVE  (\E j \in 0..(i - 1) :
                 /\ il'[j + 1] = Instr("op_block_start", b)
                 /\ \A k \in j..(i - 1) : il'[k + 1] # Instr("op_block_end", b))
             <=>
             (\E j \in 0..(i - 1) :
                 /\ il[j + 1] = Instr("op_block_start", b)
                 /\ \A k \in j..(i - 1) : il[k + 1] # Instr("op_block_end", b))
    <2>1. ASSUME NEW j \in 0..(i - 1)
          PROVE  /\ il'[j + 1] = Instr("op_block_start", b) <=> il[j + 1] = Instr("op_block_start", b)
                 /\ (\A k \in j..(i - 1) : il'[k + 1] # Instr("op_block_end", b))
                       <=> (\A k \in j..(i - 1) : il[k + 1] # Instr("op_block_end", b))
        <3>1. j \in Indices /\ \A k \in j..(i - 1) : k \in Indices
            BY <1>1 DEF Indices
        <3>2. \A k \in j..(i - 1) :
                  il'[k + 1] = Instr("op_block_end", b) <=> il[k + 1] = Instr("op_block_end", b)
            BY <1>3, <3>1
        <3> QED
            BY <1>3, <3>1, <3>2
    <2> QED
        BY <2>1
<1>6. ASSUME NEW b, \E j \in 0..(i - 1) : il[j + 1] = Instr("op_block_start", b)
      PROVE  b \in 1..Len(blocks) /\ b \in 1..Len(blocks')
    <2>1. PICK j \in 0..(i - 1) : il[j + 1] = Instr("op_block_start", b)
        BY <1>6
    <2>2. b \in 1..Len(blocks)
        BY <1>2, <1>4, <2>1
    <2> QED
        BY <1>1, <2>2
<1>7. \A b : b \in Enclosing(i)' <=> b \in Enclosing(i)
    BY <1>5, <1>6 DEF Enclosing
<1> QED
    BY <1>7

-----------------------------------------------------------------------------
(* What stays true of the old code.                                        *)

KeepsFunctions ==
    \A i, t \in Indices : SameFunction(i, t) => SameFunction(i, t)'

\* A switch that closes has its exit jump patched.
KeepsExits(P) == Exits \subseteq Exits' \cup P

LEMMA OldEnclosing ==
    ASSUME Typed, Nesting, NEW P, Grows(P), GrowsBlocks, NEW i \in 0..Len(il)
    PROVE  Enclosing(i)' = Enclosing(i)
BY EnclosingKept, LenProperties DEF GrowsBlocks, Typed

LEMMA OldIndices ==
    ASSUME Typed, NEW P, Grows(P)
    PROVE  /\ Len(il) \in Nat /\ Len(il') \in Nat
           /\ \A i \in Indices : i \in Indices' /\ i \in 0..Len(il) /\ i \in Nat
BY DEF Typed, Grows, Indices

\* A jump that is patched stays so.
LEMMA OldPatched ==
    ASSUME Typed, Nesting, Unpatched, NEW P, Grows(P), GrowsBlocks, KeepsFunctions, KeepsExits(P),
           P \subseteq AllPending, \A i \in P : NewLabel(il'[i + 1].arg),
           NEW i \in Indices, NEW t \in Indices, Patched(i, t)
    PROVE  Patched(i, t)'
<1>1. i \in Indices' /\ t \in Indices' /\ i \in 0..Len(il) /\ t \in 0..Len(il)
    BY OldIndices
<1>2. SameFunction(i, t)'
    BY DEF KeepsFunctions, Patched
<1>3. Enclosing(i)' = Enclosing(i) /\ Enclosing(t)' = Enclosing(t)
    BY <1>1, OldEnclosing
<1>4. \A j \in Indices : il'[j + 1].op = il[j + 1].op
    BY DEF Grows
<1>5. ASSUME Exit(t) PROVE Exit(t)'
    <2>1. CASE t \in Exits
        <3>1. CASE t \in P
            BY <1>4, <1>5, <3>1, SMTT(30) DEF Exit, NewLabel, New, Grows, Indices
        <3>2. CASE t \notin P
            BY <1>4, <1>5, <2>1, <3>2 DEF Exit, KeepsExits
        <3> QED
            BY <3>1, <3>2
    <2>2. CASE il[t + 1].arg \in Indices /\ il[il[t + 1].arg + 1].op = "op_label"
        <3>1. t \notin P
            BY <2>2 DEF Unpatched, Unset, Indices
        <3>2. il'[t + 1] = il[t + 1]
            BY <3>1 DEF Grows
        <3> QED
            BY <1>4, <1>5, <2>2, <3>2, OldIndices DEF Exit
    <2> QED
        BY <1>5, <2>1, <2>2 DEF Exit
<1> QED
    BY <1>1, <1>2, <1>3, <1>4, <1>5 DEF Patched

\* So does a place an activation remembers.
LEMMA OldPlace ==
    ASSUME Typed, Nesting, NEW P, Grows(P), GrowsBlocks, NEW k, NEW p, Place(k, p),
           Open(k)' = Open(k),
           functions'[Len(functions')].entry = functions[Len(functions)].entry
    PROVE  Place(k, p)'
<1>1. p \in Indices' /\ Enclosing(p)' = Enclosing(p)
    BY OldIndices, OldEnclosing DEF Place
<1> QED
    BY <1>1 DEF Place

\* So does what lies where.
LEMMA OldNesting ==
    ASSUME Typed, Nesting, NEW P, Grows(P), GrowsBlocks, NEW i \in Indices
    PROVE  /\ il'[i + 1].op \in BlockOps => il'[i + 1].arg \in 1..Len(blocks')
           /\ il'[i + 1].op = "op_block_start" => Innermost(i)' = blocks'[il'[i + 1].arg].parent
           /\ il'[i + 1].op = "op_block_end" => Innermost(i)' = il'[i + 1].arg
<1>1. Innermost(i)' = Innermost(i)
    <2>1. Enclosing(i)' = Enclosing(i)
        BY OldIndices, OldEnclosing
    <2> QED
        BY <2>1 DEF Innermost
<1>2. CASE i \in P
    BY <1>2 DEF Grows, JumpsAt, JumpOps, BlockOps
<1>3. CASE i \notin P
    <2>1. il'[i + 1] = il[i + 1]
        BY <1>3 DEF Grows
    <2>2. Len(blocks) \in Nat /\ Len(blocks') \in Nat
        BY DEF Typed, GrowsBlocks
    <2>3. il[i + 1].op \in BlockOps => il[i + 1].arg \in 1..Len(blocks) /\ il[i + 1].arg \in 1..Len(blocks')
        BY <2>2 DEF Nesting, GrowsBlocks
    <2> QED
        BY <1>1, <2>1, <2>3 DEF Nesting, GrowsBlocks, BlockOps
<1> QED
    BY <1>2, <1>3

\* Added code without blocks lies in those that were open.
LEMMA NewEnclosing ==
    ASSUME Typed, Nesting, NEW P, Grows(P), GrowsBlocks,
           \A i \in New : il'[i + 1].op \notin BlockOps,
           NEW i \in Len(il)..Len(il')
    PROVE  Enclosing(i)' = Open(Len(frames))
<1>1. Len(il) \in 0..Len(il') /\ Len(il) \in 0..Len(il) /\ il' \in Seq(Instruction) /\ Len(blocks') \in Nat
    BY DEF Typed, Grows, GrowsBlocks
<1>2. \A k \in Len(il)..(i - 1) : il'[k + 1].op \notin BlockOps
    BY <1>1 DEF New
<1>3. EnclosingIn(il', Len(blocks'), i) = EnclosingIn(il', Len(blocks'), Len(il))
    BY <1>1, <1>2, EnclosingRange
<1>4. ASSUME NEW j, j = Len(il) PROVE EnclosingIn(il', Len(blocks'), j) = Open(Len(frames))
    <2>1. Enclosing(j)' = Enclosing(j)
        BY <1>1, <1>4, OldEnclosing
    <2>2. Enclosing(j) = Open(Len(frames))
        BY <1>4 DEF Nesting, Enclosing
    <2> QED
        BY <2>1, <2>2, EnclosingIsIn
<1> QED
    BY <1>3, <1>4, EnclosingIsIn

-----------------------------------------------------------------------------
(* Steps within a function that add no block.                              *)

\* The function being read reaches from its entry to the end of the code.
LEMMA CurrentFunction ==
    ASSUME Typed, Tables, frames # << >>, functions' = functions,
           NEW i \in Nat, NEW t \in Nat,
           functions[Len(functions)].entry <= i, functions[Len(functions)].entry <= t
    PROVE  SameFunction(i, t)'
<1>1. Len(functions) \in 1..Len(functions)
    BY DEF Typed
<1> QED
    BY <1>1 DEF SameFunction, Within, Tables

\* A sequence without its last element.
LEMMA AllButLast ==
    ASSUME NEW S, NEW s \in Seq(S), Len(s) > 0
    PROVE  LET r == SubSeq(s, 1, Len(s) - 1) IN
           /\ r \in Seq(S)
           /\ Len(r) = Len(s) - 1
           /\ \A j \in 1..Len(r) : r[j] = s[j]
<1>1. Len(s) \in Nat
    OBVIOUS
<1> DEFINE n == Len(s) - 1
<1>2. n \in Nat /\ n \in Int /\ n <= Len(s)
    BY <1>1
<1>3. \A i \in 1..n : s[i] \in S
    BY <1>1
<1>8. \A k \in Nat : k - 1 + 1 = k /\ (k < 1 => k = 0)
    OBVIOUS
<1> HIDE DEF n
<1>4. n - 1 + 1 = n /\ (n < 1 => n = 0)
    BY <1>2, <1>8
<1>5. /\ SubSeq(s, 1, n) \in Seq(S)
      /\ Len(SubSeq(s, 1, n)) = IF 1 <= n THEN n - 1 + 1 ELSE 0
      /\ \A i \in 1..(n - 1 + 1) : SubSeq(s, 1, n)[i] = s[1 + i - 1]
    BY <1>2, <1>3, SubSeqProperties
<1>6. Len(SubSeq(s, 1, n)) = n
    BY <1>2, <1>4, <1>5
<1>7. \A i \in 1..n : SubSeq(s, 1, n)[i] = s[i]
    <2>1. \A i \in 1..n : 1 + i - 1 = i
        BY <1>2
    <2> QED
        BY <2>1, <1>4, <1>5
<1> QED
    BY <1>5, <1>6, <1>7 DEF n

LEMMA TopFacts ==
    ASSUME Typed, frames # << >>
    PROVE  /\ Len(frames) \in Nat \ {0} /\ Len(frames) \in 1..Len(frames)
           /\ Top = frames[Len(frames)] /\ Top \in Activation
           /\ Below \in Seq(Activation) /\ Len(Below) = Len(frames) - 1
           /\ \A k \in 1..(Len(frames) - 1) : Below[k] = frames[k] /\ k \in 1..Len(frames)
<1>1. frames \in Seq(Activation) /\ Len(frames) \in Nat \ {0}
    BY EmptySeq DEF Typed
<1>2. Len(frames) > 0 /\ Len(frames) \in 1..Len(frames)
    BY <1>1
<1>3. /\ Below \in Seq(Activation) /\ Len(Below) = Len(frames) - 1
      /\ \A k \in 1..Len(Below) : Below[k] = frames[k]
    BY <1>1, <1>2, AllButLast DEF Below
<1>4. \A k \in 1..(Len(frames) - 1) : k \in 1..Len(frames)
    BY <1>1
<1>5. Top = frames[Len(frames)] /\ Top \in Activation
    BY <1>1, <1>2, ElementOfSeq DEF Top
<1> QED
    BY <1>1, <1>2, <1>3, <1>4, <1>5

\* All jumps are resolved again, but for the ones still to patch.
LEMMA JumpsStep ==
    ASSUME Typed, Stack, Tables, Places, Unpatched, Jumps, Nesting, frames # << >>,
           functions' = functions, NEW P, NEW Q, Grows(P), Straight, Repairs(P, Q),
           KeepsExits(P), P \subseteq Pendings(Top)
    PROVE  /\ Jumps'
           /\ {i \in Indices' : JumpsAt(i)' /\ il'[i + 1].arg = Unset} = (AllPending \ P) \cup Q
<1> DEFINE n == Len(frames)
           entry == functions[Len(functions)].entry
<1>1. P \subseteq AllPending /\ n \in 1..n /\ n \in Nat
    BY TopFacts DEF AllPending
<1>2. KeepsFunctions
    BY DEF KeepsFunctions, SameFunction, Within
<1>3. \A i \in Indices : i \in Indices' /\ i \in 0..Len(il) /\ i \in Nat /\ i < Len(il)
    BY OldIndices DEF Indices
<1>4. GrowsBlocks /\ \A i \in New : il'[i + 1].op \notin BlockOps
    BY DEF Straight
<1>5. entry \in Nat /\ entry < Len(il) /\ Len(il) \in Nat /\ Len(il') \in Nat /\ Len(il') >= Len(il)
    <2>1. Len(functions) \in 1..Len(functions) /\ functions[Len(functions)] \in [entry : Nat, exit : Int]
        <3>1. functions \in Seq([entry : Nat, exit : Int]) /\ Len(functions) >= 1
            BY DEF Typed
        <3>2. Len(functions) \in Nat
            BY <3>1, LenProperties
        <3>3. Len(functions) \in 1..Len(functions)
            BY <3>1, <3>2
        <3> QED
            BY <3>1, <3>3, ElementOfSeq
    <2>2. entry \in Nat /\ entry < Len(il)
        BY <2>1 DEF Tables
    <2>3. Len(il) \in Nat /\ Len(il') \in Nat /\ Len(il') >= Len(il)
        BY DEF Typed, Grows
    <2> QED
        BY <2>2, <2>3
<1>6. ASSUME NEW i \in New
      PROVE  i \in Indices' /\ i \in Nat /\ entry <= i /\ Enclosing(i)' = Open(n)
    <2>1. i \in Len(il)..Len(il') /\ i \in Indices' /\ i \in Nat /\ entry <= i
        BY <1>5 DEF New, Indices
    <2> QED
        BY <1>4, <2>1, NewEnclosing
<1>7. \A i \in Indices' : i \in Indices \/ i \in New
    BY <1>5 DEF Indices, New
<1>8. ASSUME NEW k \in 1..n, NEW p \in Indices, Place(k, p)
      PROVE  p \in Indices' /\ p \in Nat /\ entry <= p /\ Enclosing(p)' = Open(k)
    <2>1. Enclosing(p)' = Enclosing(p)
        BY <1>3, <1>4, OldEnclosing
    <2> QED
        BY <1>3, <1>8, <2>1 DEF Place
<1>9. ASSUME NEW i \in Indices', NEW t \in Indices', entry <= i, entry <= t
      PROVE  SameFunction(i, t)'
    <2>1. i \in Nat /\ t \in Nat
        BY <1>5, <1>9 DEF Indices
    <2> QED
        BY <1>9, <2>1, CurrentFunction
<1>10. ASSUME NEW p \in P PROVE p \in Indices /\ Place(n, p)
    BY <1>1, TopFacts DEF Places, Place
<1>11. ASSUME NEW p \in Marks(Top) PROVE p \in Indices /\ Place(n, p) /\ il[p + 1].op = "op_label"
    BY <1>1, TopFacts DEF Places, Place
<1>12. \A j \in Indices : il'[j + 1].op = il[j + 1].op
    BY DEF Grows
<1>13. ASSUME NEW i \in Indices', NEW t, NewLabel(t), entry <= i, Enclosing(i)' = Open(n)
       PROVE  t \in Indices' /\ Patched(i, t)'
    <2>1. t \in New /\ t \in Indices' /\ entry <= t /\ Enclosing(t)' = Open(n) /\ il'[t + 1].op = "op_label"
        BY <1>6, <1>13 DEF NewLabel
    <2>2. SameFunction(i, t)'
        BY <1>9, <1>13, <2>1
    <2> QED
        BY <1>13, <2>1, <2>2 DEF Patched
<1>14. ASSUME NEW i \in P PROVE \E t : t = il'[i + 1].arg /\ t \in Indices' /\ Patched(i, t)'
    <2>1. NewLabel(il'[i + 1].arg)
        BY <1>14 DEF Repairs
    <2>2. i \in Indices' /\ entry <= i /\ Enclosing(i)' = Open(n)
        BY <1>1, <1>8, <1>10, <1>14
    <2>3. PICK t : t = il'[i + 1].arg
        OBVIOUS
    <2> QED
        BY <1>13, <2>1, <2>2, <2>3
<1>15. ASSUME NEW i \in New, NEW t, t = il'[i + 1].arg, t \in Marks(Top)
       PROVE  t \in Indices' /\ Patched(i, t)'
    <2>1. t \in Indices /\ t \in Indices' /\ entry <= t /\ Enclosing(t)' = Open(n)
        BY <1>1, <1>8, <1>11, <1>15
    <2>2. il'[t + 1].op = "op_label"
        BY <1>11, <1>12, <1>15, <2>1
    <2>3. SameFunction(i, t)'
        BY <1>6, <1>9, <2>1
    <2> QED
        BY <1>6, <2>1, <2>2, <2>3 DEF Patched
<1>16. ASSUME NEW i \in New, NEW t, t = il'[i + 1].arg, il'[i + 1].op = "op_jump", t \in Exits
       PROVE  t \in Indices' /\ Patched(i, t)'
    <2>0. PICK k \in 1..n : frames[k].fn = "switch" /\ t = frames[k].pending[2]
        BY <1>16 DEF Exits
    <2>1. t \in Pendings(frames[k]) /\ il[t + 1].op = "op_jump"
        <3>1. Len(frames[k].pending) = 2
            BY <2>0 DEF Stack, NumPending
        <3> QED
            BY <2>0, <3>1 DEF Pendings, Places
    <2>2. t \in Indices /\ Place(k, t)
        BY <2>1 DEF Places, Place
    <2>3. t \in Indices' /\ entry <= t /\ Enclosing(t)' = Open(k)
        BY <1>8, <2>2
    <2>4. Open(k) \subseteq Open(n)
        BY DEF Open
    <2>5. SameFunction(i, t)'
        BY <1>6, <1>9, <2>3
    <2>6. Exit(t)'
        <3>1. il'[t + 1].op = "op_jump"
            BY <1>12, <2>1, <2>2
        <3>2. CASE t \in P
            BY <1>6, <3>1, <3>2 DEF Repairs, NewLabel, Exit
        <3>3. CASE t \notin P
            BY <1>16, <3>1, <3>3 DEF KeepsExits, Exit
        <3> QED
            BY <3>2, <3>3
    <2> QED
        BY <1>6, <1>16, <2>3, <2>4, <2>5, <2>6 DEF Patched
<1>17. ASSUME NEW i \in Indices', JumpsAt(i)', NEW t, t = il'[i + 1].arg
       PROVE  \/ t = Unset /\ i \in (AllPending \ P) \cup Q
              \/ t = Stray /\ ~Supported
              \/ t \in Indices' /\ Patched(i, t)'
    <2>1. CASE i \in P
        BY <1>14, <1>17, <2>1
    <2>2. CASE i \in Indices /\ i \notin P
        <3>1. il'[i + 1] = il[i + 1] /\ JumpsAt(i) /\ t = il[i + 1].arg
            BY <1>17, <2>2 DEF Grows, JumpsAt
        <3>2. CASE t = Unset
            BY <2>2, <3>1, <3>2 DEF Unpatched
        <3>3. CASE t \in Indices
            <4>1. Patched(i, t)
                BY <2>2, <3>1, <3>3 DEF Jumps
            <4> QED
                BY <1>1, <1>2, <1>3, <1>4, <2>2, <3>3, <4>1, OldPatched DEF Repairs
        <3> QED
            BY <2>2, <3>1, <3>2, <3>3 DEF Jumps
    <2>3. CASE i \in New
        <3>1. \/ i \in Q
              \/ NewLabel(t)
              \/ t \in Marks(Top)
              \/ t = Stray /\ ~Supported
              \/ il'[i + 1].op = "op_jump" /\ t \in Exits
            BY <1>17, <2>3 DEF Repairs, JumpsAt
        <3>2. CASE i \in Q
            BY <1>17, <3>2 DEF Repairs
        <3>3. CASE NewLabel(t)
            BY <1>6, <1>13, <2>3, <3>3
        <3> QED
            BY <1>15, <1>16, <1>17, <2>3, <3>1, <3>2, <3>3
    <2> QED
        BY <1>7, <2>1, <2>2, <2>3
<1>18. Jumps'
    <2>1. \A i \in Indices' : JumpsAt(i)' =>
              il'[i + 1].arg \in Indices' \cup {Unset} \cup (IF Supported THEN {} ELSE {Stray})
        BY <1>17
    <2>2. \A i, t \in Indices' : JumpsAt(i)' /\ il'[i + 1].arg = t => Patched(i, t)'
        BY <1>5, <1>17 DEF Indices, Unset, Stray
    <2> QED
        BY <2>1, <2>2 DEF Jumps
<1>19. ASSUME NEW i \in Indices', JumpsAt(i)', il'[i + 1].arg = Unset
       PROVE  i \in (AllPending \ P) \cup Q
    BY <1>5, <1>17, <1>19 DEF Indices, Unset, Stray
<1>20. ASSUME NEW i \in AllPending \ P PROVE i \in Indices' /\ JumpsAt(i)' /\ il'[i + 1].arg = Unset
    BY <1>3, <1>20 DEF Unpatched, Grows, JumpsAt
<1>21. ASSUME NEW i \in Q PROVE i \in Indices' /\ JumpsAt(i)' /\ il'[i + 1].arg = Unset
    BY <1>6, <1>21 DEF Repairs, JumpsAt
<1> QED
    BY <1>18, <1>19, <1>20, <1>21

-----------------------------------------------------------------------------
(* Steps that begin, replace or complete one activation.                   *)

\* The n outermost activations stay, and at most one is put on top of them.
Stays(n) ==
    /\ frames' \in Seq(Activation) /\ Len(frames') \in {n, n + 1}
    /\ n \in 1..Len(frames) /\ Len(frames) \in {n, n + 1}
    /\ \A k \in 1..n : frames'[k] = frames[k]

\* The current block does not change.
Leaves(n) == Stays(n) /\ (n < Len(frames) => Top.fn \notin {"function", "block"})

\* A new innermost activation stays in the block and knows places in the new
\* code, or those of the activation it replaces.
Begins(f) ==
    /\ Top.fn # "function" /\ f.fn \notin {"function", "block"} /\ f.block = Top.block
    /\ Len(f.pending) = NumPending(f.fn)
    /\ \A p \in Pendings(f) : p \in New \/ p \in Pendings(Top)
    /\ \A p \in Marks(f) : NewLabel(p) \/ p \in Marks(Top)
    /\ f.start \in Indices'
    /\ f.fn = "switch" => il'[f.pending[2] + 1].op = "op_jump"

LEMMA FramesStep ==
    ASSUME Typed, Stack, Tables, Places, Nesting, frames # << >>, functions' = functions,
           NEW P, Grows(P), Straight, NEW n, Leaves(n),
           Len(frames') = n + 1 => Begins(frames'[n + 1])
    PROVE  Stack' /\ Tables' /\ Places' /\ Nesting'
<1> DEFINE m == Len(frames)
           entry == functions[Len(functions)].entry
<1>1. /\ m \in Nat \ {0} /\ m \in 1..m /\ n \in Nat /\ n >= 1 /\ n <= m /\ m <= n + 1
      /\ Len(frames') \in Nat /\ (Len(frames') = n \/ Len(frames') = n + 1)
      /\ \A k \in 1..m : frames[k] \in Activation
      /\ \A k \in 1..Len(frames') : frames'[k] \in Activation
    <2>1. m \in Nat \ {0} /\ m \in 1..m
        BY TopFacts
    <2>2. n \in Nat /\ n >= 1 /\ n <= m
        BY <2>1 DEF Leaves, Stays
    <2>3. m = n \/ m = n + 1
        BY DEF Leaves, Stays
    <2>4. (\A k \in 1..m : frames[k] \in Activation) /\ (\A k \in 1..Len(frames') : frames'[k] \in Activation)
        BY ElementOfSeq DEF Typed, Leaves, Stays
    <2> QED
        BY <2>1, <2>2, <2>3, <2>4 DEF Leaves, Stays
<1>2. \A k \in 1..n : k \in 1..m /\ frames'[k] = frames[k]
    BY <1>1 DEF Leaves, Stays
<1>3. n < m => frames[m].block = frames[n].block
    <2> SUFFICES ASSUME n < m PROVE frames[m].block = frames[n].block
        OBVIOUS
    <2>1. n = m - 1 /\ m \in 2..m
        BY <1>1
    <2> QED
        BY <2>1, TopFacts DEF Stack, Leaves, Stays
<1>4. Len(frames') = n + 1 => frames'[n + 1].block = frames[m].block /\ Begins(frames'[n + 1])
    BY TopFacts DEF Begins
<1>5. \A k \in 1..n : Open(k)' = Open(k)
    <2> SUFFICES ASSUME NEW k \in 1..n PROVE Open(k)' = Open(k)
        OBVIOUS
    <2>1. \A j \in 1..k : frames'[j] = frames[j]
        BY <1>1, <1>2
    <2> QED
        BY <2>1 DEF Open
<1>6. ASSUME NEW l, l = Len(frames') PROVE Open(l)' = Open(m)
    <2>1. ASSUME NEW j \in 1..l PROVE \E i \in 1..m : frames'[j].block = frames[i].block
        BY <1>1, <1>2, <1>4, <1>6, <2>1
    <2>2. ASSUME NEW i \in 1..m PROVE \E j \in 1..l : frames'[j].block = frames[i].block
        <3>1. CASE i \in 1..n
            BY <1>1, <1>2, <1>6, <3>1
        <3>2. CASE i = m /\ n < m
            <4>1. n \in 1..l
                BY <1>1, <1>6
            <4> QED
                BY <1>1, <1>2, <1>3, <3>2, <4>1
        <3> QED
            BY <1>1, <2>2, <3>1, <3>2
    <2> QED
        BY <2>1, <2>2, SMTT(30) DEF Open
<1>7. GrowsBlocks /\ \A i \in New : il'[i + 1].op \notin BlockOps
    BY DEF Straight
<1>8. /\ \A i \in Indices : i \in Indices' /\ i \in 0..Len(il) /\ i \in Nat /\ i < Len(il)
      /\ Len(il) \in Nat /\ Len(il') \in Nat /\ Len(il') >= Len(il)
    BY OldIndices DEF Indices, Grows
<1>9. entry < Len(il) /\ entry \in Nat
    <2>1. Len(functions) \in 1..Len(functions) /\ functions \in Seq([entry : Nat, exit : Int])
        BY LenProperties DEF Typed
    <2>2. functions[Len(functions)] \in [entry : Nat, exit : Int]
        BY <2>1, ElementOfSeq
    <2> QED
        BY <2>1, <2>2 DEF Tables
<1>10. ASSUME NEW i \in New PROVE i \in Indices' /\ entry <= i /\ Enclosing(i)' = Open(m)
    <2>1. i \in Len(il)..Len(il') /\ i \in Indices' /\ entry <= i
        BY <1>8, <1>9 DEF New, Indices
    <2> QED
        BY <1>7, <2>1, NewEnclosing
<1>11. \A j \in Indices : il'[j + 1].op = il[j + 1].op
    BY DEF Grows
<1>12. ASSUME NEW k \in 1..m, NEW j, NEW p, Place(k, p), Open(j)' = Open(k) PROVE Place(j, p)'
    <2>1. p \in Indices' /\ Enclosing(p)' = Enclosing(p)
        BY <1>7, <1>8, <1>12, OldEnclosing DEF Place
    <2> QED
        BY <1>12, <2>1 DEF Place
<1>13. ASSUME NEW k \in 1..m, NEW p \in Marks(frames[k]) PROVE il'[p + 1].op = "op_label"
    BY <1>11, <1>13 DEF Places, Place
<1>14. ASSUME NEW k \in 1..Len(frames'), NEW f, f = frames'[k]
       PROVE  /\ \A p \in Pendings(f) : Place(k, p)'
              /\ \A p \in Marks(f) : Place(k, p)' /\ il'[p + 1].op = "op_label"
              /\ f.fn = "switch" => il'[f.pending[2] + 1].op = "op_jump"
    <2>1. CASE k \in 1..n
        <3>1. f = frames[k] /\ k \in 1..m /\ Open(k)' = Open(k)
            BY <1>2, <1>5, <1>14, <2>1
        <3>2. ASSUME NEW p, Place(k, p) PROVE Place(k, p)'
            BY <1>12, <3>1, <3>2
        <3>3. f.fn = "switch" => f.pending[2] \in Pendings(f)
            BY <3>1 DEF Stack, NumPending, Pendings
        <3>4. f.fn = "switch" => il'[f.pending[2] + 1].op = "op_jump"
            BY <1>11, <3>1, <3>3 DEF Places, Place
        <3> QED
            BY <1>13, <3>1, <3>2, <3>4 DEF Places
    <2>2. CASE k = n + 1 /\ Len(frames') = n + 1
        <3>1. Begins(f) /\ Open(k)' = Open(m)
            BY <1>4, <1>6, <1>14, <2>2
        <3>2. ASSUME NEW p \in New PROVE Place(k, p)'
            BY <1>10, <3>1 DEF Place
        <3>3. ASSUME NEW p \in Pendings(Top) \cup Marks(Top) PROVE Place(k, p)'
            <4>1. Place(m, p)
                BY <1>1, TopFacts DEF Places
            <4> QED
                BY <1>1, <1>12, <3>1, <4>1
        <3>4. ASSUME NEW p \in Marks(f) PROVE il'[p + 1].op = "op_label"
            <4>1. CASE NewLabel(p)
                BY <4>1 DEF NewLabel
            <4>2. CASE p \in Marks(Top)
                BY <1>1, <1>13, <4>2, TopFacts
            <4> QED
                BY <3>1, <4>1, <4>2 DEF Begins
        <3> QED
            BY <3>1, <3>2, <3>3, <3>4 DEF Begins, NewLabel
    <2> QED
        BY <1>1, <2>1, <2>2
<1>15. Places'
    BY <1>14 DEF Places, Pendings, Marks
<1>16. Tables'
    <2>1. \A b \in 1..Len(blocks') : blocks'[b].parent < b
        BY DEF Straight, GrowsBlocks, Tables
    <2>2. \A f \in 1..Len(functions') :
              functions'[f].entry < Len(il') /\ functions'[f].exit \in Indices' \cup {Unset}
        <3> SUFFICES ASSUME NEW f \in 1..Len(functions)
                     PROVE  functions[f].entry < Len(il') /\ functions[f].exit \in Indices' \cup {Unset}
            OBVIOUS
        <3>1. functions[f].entry < Len(il) /\ functions[f].exit \in Indices \cup {Unset}
            BY DEF Tables
        <3>2. functions[f] \in [entry : Nat, exit : Int]
            BY ElementOfSeq DEF Typed
        <3> QED
            BY <1>8, <3>1, <3>2
    <2> QED
        BY <2>1, <2>2 DEF Tables
<1>17. Nesting'
    <2>1. ASSUME NEW i, i = Len(il'), NEW l, l = Len(frames') PROVE Enclosing(i)' = Open(l)'
        BY <1>6, <1>7, <1>8, <2>1, NewEnclosing
    <2>2. Enclosing(Len(il))' = Open(Len(frames))'
        BY <2>1 DEF Enclosing, Open
    <2>3. ASSUME NEW i \in Indices'
          PROVE  /\ il'[i + 1].op \in BlockOps => il'[i + 1].arg \in 1..Len(blocks')
                 /\ il'[i + 1].op = "op_block_start" => Innermost(i)' = blocks'[il'[i + 1].arg].parent
                 /\ il'[i + 1].op = "op_block_end" => Innermost(i)' = il'[i + 1].arg
        <3>1. CASE i \in Indices
            BY <1>7, <3>1, OldNesting
        <3>2. CASE i \in New
            BY <1>7, <3>2 DEF BlockOps
        <3> QED
            BY <1>8, <3>1, <3>2 DEF Indices, New
    <2> QED
        BY <2>2, <2>3 DEF Nesting
<1>18. Stack'
    <2>1. ASSUME NEW k \in 1..n
          PROVE  Len(frames'[k].pending) = NumPending(frames'[k].fn) /\ frames'[k].start \in Indices'
        BY <1>2, <1>8 DEF Stack
    <2>2. ASSUME NEW k \in 1..Len(frames'), NEW j \in 1..k
          PROVE  frames'[j].block <= frames'[k].block
        <3>1. CASE k \in 1..n
            <4>1. j \in 1..n
                BY <1>1, <3>1
            <4> QED
                BY <1>2, <3>1, <4>1 DEF Stack
        <3>2. CASE k = n + 1 /\ Len(frames') = n + 1 /\ j \in 1..n
            <4>1. j \in 1..m /\ frames'[j] = frames[j]
                BY <1>2, <3>2
            <4> QED
                BY <1>1, <1>4, <3>2, <4>1 DEF Stack
        <3>3. CASE k = j
            <4>1. frames'[k].block \in Nat
                BY <1>1 DEF Activation
            <4> QED
                BY <3>3, <4>1
        <3> QED
            BY <1>1, <3>1, <3>2, <3>3
    <2>3. ASSUME NEW k \in 2..Len(frames')
          PROVE  /\ frames'[k].fn # "function"
                 /\ frames'[k].block \in 1..Len(blocks')
                 /\ IF frames'[k].fn = "block"
                    THEN blocks'[frames'[k].block].parent = frames'[k - 1].block
                    ELSE frames'[k].block = frames'[k - 1].block
        <3>1. CASE k \in 1..n
            <4>1. k \in 2..m /\ k - 1 \in 1..n /\ frames'[k] = frames[k]
                BY <1>1, <1>2, <3>1
            <4>2. frames'[k - 1] = frames[k - 1]
                BY <1>2, <4>1
            <4> QED
                BY <4>1, <4>2, ZenonT(30) DEF Stack, Straight, GrowsBlocks
        <3>2. CASE k = n + 1 /\ Len(frames') = n + 1
            <4>1. Begins(frames'[k]) /\ frames'[k].block = frames[m].block
                BY <1>4, <3>2
            <4>2. k - 1 = n /\ frames'[n] = frames[n]
                BY <1>1, <1>2, <3>2
            <4>3. m \in 2..m
                BY <1>1, <4>1, TopFacts DEF Begins, Stack
            <4>4. frames[m].block \in 1..Len(blocks')
                <5>1. frames[m].block \in 1..Len(blocks)
                    BY <4>3 DEF Stack
                <5> QED
                    BY <5>1 DEF Straight
            <4>5. frames[m].block = frames[n].block
                BY <1>1, <1>3
            <4> QED
                BY <4>1, <4>2, <4>4, <4>5 DEF Begins
        <3> QED
            BY <1>1, <3>1, <3>2
    <2>4. frames'[1].fn = "function" /\ frames'[1].block = 0
        BY <1>1, <1>2 DEF Stack
    <2>5. Len(frames') = n + 1 => /\ Len(frames'[n + 1].pending) = NumPending(frames'[n + 1].fn)
                                  /\ frames'[n + 1].start \in Indices'
        BY <1>4 DEF Begins
    <2>6. \A k \in 1..Len(frames') :
              Len(frames'[k].pending) = NumPending(frames'[k].fn) /\ frames'[k].start \in Indices'
        BY <1>1, <2>1, <2>5
    <2> QED
        BY <2>2, <2>3, <2>4, <2>6 DEF Stack
<1> QED
    BY <1>15, <1>16, <1>17, <1>18

\* The jumps a step patches, and those it leaves to patch.
Ended(n) == IF n < Len(frames) THEN Pendings(Top) ELSE {}
Begun(n) == IF n < Len(frames') THEN Pendings(frames'[n + 1]) ELSE {}

Increasing(s) == \A m, n \in 1..Len(s) : m < n => s[m] < s[n]

\* An activation that ends patches its jumps, one that begins waits for new ones.
LEMMA PendingStep ==
    ASSUME Typed, Unpatched, frames # << >>, NEW n, Stays(n), Grows(Ended(n)),
           Begun(n) \subseteq New, n < Len(frames') => Increasing(frames'[n + 1].pending)
    PROVE  /\ AllPending' = (AllPending \ Ended(n)) \cup Begun(n)
           /\ Ordered' /\ Ended(n) \subseteq Pendings(Top)
<1> DEFINE m == Len(frames)
           P == Ended(n)
           Q == Begun(n)
<1>0. /\ P = IF n < m THEN Pendings(Top) ELSE {}
      /\ Q = IF n < Len(frames') THEN Pendings(frames'[n + 1]) ELSE {}
      /\ Q \subseteq New /\ Grows(P)
    BY DEF Ended, Begun
<1> HIDE DEF P, Q
<1>1. /\ m \in Nat \ {0} /\ m \in 1..m /\ n \in Nat /\ (m = n \/ m = n + 1)
      /\ Len(frames') \in Nat /\ (Len(frames') = n \/ Len(frames') = n + 1)
      /\ Top = frames[m]
    BY TopFacts DEF Stays
<1>2. \A k \in 1..n : k \in 1..m /\ k \in 1..Len(frames') /\ frames'[k] = frames[k]
    BY <1>1 DEF Stays
<1>3. \A p \in AllPending : p \in Indices /\ p \in Nat /\ p < Len(il)
    BY OldIndices DEF Unpatched, Indices
<1>4. \A q \in Q, p \in AllPending : p < q
    BY <1>0, <1>3, OldIndices DEF New
<1>5. ASSUME NEW k \in 1..n, NEW p \in Pendings(frames[k]) PROVE p \in AllPending \ P
    <2>1. p \in AllPending
        BY <1>2 DEF AllPending
    <2>2. CASE n < m
        <3>1. ASSUME NEW q \in Pendings(Top) PROVE p < q
            <4>1. m \in 1..m /\ k \in 1..m /\ k < m
                BY <1>1, <1>2, <2>2
            <4> QED
                BY <1>1, <1>5, <3>1, <4>1, SMTT(30) DEF Unpatched, Ordered, Pendings
        <3>2. p \notin Pendings(Top)
            BY <1>3, <2>1, <3>1
        <3> QED
            BY <1>0, <2>1, <2>2, <3>2
    <2>3. n < m \/ P = {}
        BY <1>0
    <2> QED
        BY <2>1, <2>2, <2>3
<1>6. ASSUME NEW p \in AllPending \ P PROVE \E k \in 1..n : p \in Pendings(frames[k])
    <2>1. PICK k \in 1..m : p \in Pendings(frames[k])
        BY <1>6 DEF AllPending
    <2>2. k = m /\ n < m => p \in P
        BY <1>0, <1>1, <2>1
    <2> QED
        BY <1>1, <1>6, <2>1, <2>2
<1>7. \A k \in 1..Len(frames') : k \in 1..n \/ (k = n + 1 /\ n < Len(frames'))
    BY <1>1
<1>8. n < Len(frames') => n + 1 \in 1..Len(frames')
    BY <1>1
<1>9. UNION {Pendings(frames'[k]) : k \in 1..Len(frames')} = (AllPending \ P) \cup Q
    <2>1. ASSUME NEW k \in 1..Len(frames'), NEW p \in Pendings(frames'[k])
          PROVE  p \in (AllPending \ P) \cup Q
        <3>1. CASE k \in 1..n
            BY <1>2, <1>5, <2>1, <3>1
        <3>2. CASE k = n + 1 /\ n < Len(frames')
            BY <1>0, <2>1, <3>2
        <3> QED
            BY <1>7, <3>1, <3>2
    <2>2. ASSUME NEW p \in AllPending \ P PROVE \E k \in 1..Len(frames') : p \in Pendings(frames'[k])
        BY <1>2, <1>6, <2>2
    <2>3. ASSUME NEW p \in Q PROVE \E k \in 1..Len(frames') : p \in Pendings(frames'[k])
        BY <1>0, <1>8, <2>3
    <2> QED
        BY <2>1, <2>2, <2>3
<1>10. ASSUME NEW k \in 1..Len(frames'), NEW l \in 1..Len(frames'),
              NEW a \in 1..Len(frames'[k].pending), NEW b \in 1..Len(frames'[l].pending),
              k < l \/ (k = l /\ a < b)
       PROVE  frames'[k].pending[a] < frames'[l].pending[b]
    <2>1. CASE k \in 1..n /\ l \in 1..n
        BY <1>2, <1>10, <2>1 DEF Unpatched, Ordered
    <2>2. CASE k \in 1..n /\ l = n + 1 /\ n < Len(frames')
        <3>1. frames'[k].pending[a] \in Pendings(frames[k]) /\ frames'[l].pending[b] \in Q
            BY <1>0, <1>2, <2>2 DEF Pendings
        <3> QED
            BY <1>4, <1>5, <2>2, <3>1
    <2>3. CASE k = n + 1 /\ l = n + 1 /\ n < Len(frames')
        BY <1>10, <2>3 DEF Increasing
    <2>4. ~(k = n + 1 /\ l \in 1..n)
        BY <1>1, <1>10
    <2> QED
        BY <1>7, <2>1, <2>2, <2>3, <2>4
<1>11. AllPending' = (AllPending \ P) \cup Q
    BY <1>9 DEF AllPending, Pendings
<1>12. Ordered'
    BY <1>10 DEF Ordered
<1>13. P \subseteq Pendings(Top)
    BY <1>0
<1> QED
    BY <1>11, <1>12, <1>13 DEF P, Q

\* A step that satisfies what the parts above ask of it keeps the invariant.
LEMMA Step ==
    ASSUME IInv, frames # << >>, functions' = functions, Control', Breaks',
           breaks' \in Seq(Nat), source' \in Seq(TokenRecord),
           NEW P, Grows(P), NEW Q, Straight, Repairs(P, Q), P \subseteq Pendings(Top), KeepsExits(P),
           NEW n, Leaves(n), n < Len(frames') => Begins(frames'[n + 1]),
           AllPending' = (AllPending \ P) \cup Q, Ordered'
    PROVE  IInv'
<1>1. Stack' /\ Tables' /\ Places' /\ Nesting'
    <2>1. Len(frames') = n + 1 => n < Len(frames')
        BY DEF Leaves, Stays
    <2> QED
        BY <2>1, FramesStep DEF IInv
<1>2. Jumps' /\ {i \in Indices' : JumpsAt(i)' /\ il'[i + 1].arg = Unset} = (AllPending \ P) \cup Q
    BY JumpsStep DEF IInv
<1>3. Unpatched'
    BY <1>2 DEF Unpatched
<1>4. Typed'
    <2>1. Len(il) \in Nat /\ Len(il) >= 8 /\ Len(il') \in Nat /\ Len(il') >= Len(il)
        BY LenProperties DEF IInv, Typed, Grows
    <2>2. Len(il') >= 8
        BY <2>1
    <2>3. functions' \in Seq([entry : Nat, exit : Int]) /\ Len(functions') >= 1
        BY DEF IInv, Typed
    <2>4. il' \in Seq(Instruction) /\ frames' \in Seq(Activation)
        BY DEF Grows, Leaves, Stays
    <2>5. blocks' \in Seq([parent : Nat, next_local : Nat])
        BY DEF Straight, GrowsBlocks
    <2> QED
        BY <2>2, <2>3, <2>4, <2>5 DEF Typed
<1> QED
    BY <1>1, <1>2, <1>3, <1>4 DEF IInv

\* It leaves the switches that are open alone.
SameSwitches(n) ==
    /\ n < Len(frames) => Top.fn # "switch"
    /\ n < Len(frames') => frames'[n + 1].fn # "switch"
    /\ breaks' = breaks

LEMMA SameExits ==
    ASSUME Typed, frames # << >>, Breaks, NEW n, Stays(n), SameSwitches(n)
    PROVE  Exits' = Exits /\ Breaks'
<1> DEFINE m == Len(frames)
<1>1. /\ n \in Nat /\ (m = n \/ m = n + 1) /\ (Len(frames') = n \/ Len(frames') = n + 1)
      /\ Top = frames[m]
    BY TopFacts DEF Stays
<1>2. \A k \in 1..n : k \in 1..m /\ k \in 1..Len(frames') /\ frames'[k] = frames[k]
    BY <1>1 DEF Stays
<1>3. \A k \in 1..m : frames[k].fn = "switch" => k \in 1..n
    BY <1>1 DEF SameSwitches
<1>4. \A k \in 1..Len(frames') : frames'[k].fn = "switch" => k \in 1..n
    BY <1>1 DEF SameSwitches
<1>5. Exits' = Exits
    BY <1>2, <1>3, <1>4 DEF Exits
<1> QED
    BY <1>5 DEF Breaks, SameSwitches

\* Steps that begin, replace or complete an activation but for a switch, and
\* those that leave the activations alone.
LEMMA BodyStep ==
    ASSUME IInv, frames # << >>, functions' = functions, Control', source' \in Seq(TokenRecord),
           NEW n, Leaves(n), SameSwitches(n), Grows(Ended(n)), Straight, Repairs(Ended(n), Begun(n)),
           n < Len(frames') => Begins(frames'[n + 1]) /\ Increasing(frames'[n + 1].pending)
    PROVE  IInv'
<1>1. /\ AllPending' = (AllPending \ Ended(n)) \cup Begun(n)
      /\ Ordered' /\ Ended(n) \subseteq Pendings(Top)
    <2>1. Typed /\ Unpatched /\ Stays(n)
        BY DEF IInv, Leaves
    <2>2. Begun(n) \subseteq New
        BY DEF Repairs
    <2> QED
        BY <2>1, <2>2, PendingStep
<1>2. Exits' = Exits /\ Breaks' /\ KeepsExits(Ended(n))
    BY SameExits DEF IInv, KeepsExits, Leaves
<1>3. breaks' \in Seq(Nat)
    BY DEF IInv, Typed, SameSwitches
<1> QED
    BY <1>1, <1>2, <1>3, Step

-----------------------------------------------------------------------------
(* The code and the activations an action leaves.                          *)

\* It appends code s.
Adds(s) ==
    /\ s \in Seq(Instruction) /\ Len(il') = Len(il) + Len(s)
    /\ \A k \in 1..Len(s) : il'[Len(il) + k] = s[k]

LEMMA Extended ==
    ASSUME Typed, NEW s \in Seq(Instruction), il' = il \o s
    PROVE  Adds(s) /\ Grows({})
<1>1. Len(il) \in Nat /\ Len(s) \in Nat /\ il \in Seq(Instruction)
    BY LenProperties DEF Typed
<1>2. /\ il' \in Seq(Instruction) /\ Len(il') = Len(il) + Len(s)
      /\ \A i \in 1..(Len(il) + Len(s)) : il'[i] = IF i <= Len(il) THEN il[i] ELSE s[i - Len(il)]
    BY <1>1, ConcatProperties
<1>3. ASSUME NEW k \in 1..Len(s) PROVE il'[Len(il) + k] = s[k]
    <2>1. Len(il) + k \in 1..(Len(il) + Len(s)) /\ ~(Len(il) + k <= Len(il)) /\ (Len(il) + k) - Len(il) = k
        BY <1>1
    <2> QED
        BY <1>2, <2>1
<1>4. ASSUME NEW i \in Indices PROVE il'[i + 1] = il[i + 1]
    <2>1. i + 1 \in 1..(Len(il) + Len(s)) /\ i + 1 <= Len(il)
        BY <1>1 DEF Indices
    <2> QED
        BY <1>2, <2>1
<1>5. Len(il') >= Len(il)
    BY <1>1, <1>2
<1> QED
    BY <1>2, <1>3, <1>4, <1>5 DEF Adds, Grows

LEMMA PatchFacts ==
    ASSUME NEW code \in Seq(Instruction), NEW p \in 0..(Len(code) - 1), NEW t \in Int
    PROVE  /\ Patch(code, p, t) \in Seq(Instruction) /\ Len(Patch(code, p, t)) = Len(code)
           /\ Patch(code, p, t)[p + 1].op = code[p + 1].op /\ Patch(code, p, t)[p + 1].arg = t
           /\ \A i \in 1..Len(code) : i # p + 1 => Patch(code, p, t)[i] = code[i]
<1>1. p + 1 \in 1..Len(code) /\ code[p + 1] \in Instruction
    BY ElementOfSeq
<1>2. [code[p + 1] EXCEPT !.arg = t] \in Instruction
    BY <1>1 DEF Instruction
<1>3. Patch(code, p, t) = [code EXCEPT ![p + 1] = [code[p + 1] EXCEPT !.arg = t]]
    BY <1>1, <1>2 DEF Patch
<1>4. Patch(code, p, t)[p + 1] = [code[p + 1] EXCEPT !.arg = t]
    BY <1>1, <1>2, <1>3, ExceptSeq
<1>5. Patch(code, p, t)[p + 1].op = code[p + 1].op /\ Patch(code, p, t)[p + 1].arg = t
    BY <1>1, <1>4 DEF Instruction
<1> QED
    BY <1>1, <1>2, <1>3, <1>5, ExceptSeq

\* It appends code s, and patches jump p.
LEMMA ExtendedPatched ==
    ASSUME Typed, NEW s \in Seq(Instruction), NEW p \in Indices, JumpsAt(p), NEW t \in Int,
           il' = Patch(il \o s, p, t)
    PROVE  Adds(s) /\ Grows({p}) /\ il'[p + 1].arg = t
<1> DEFINE code == il \o s
<1>1. Len(il) \in Nat /\ Len(s) \in Nat /\ il \in Seq(Instruction)
    BY LenProperties DEF Typed
<1>2. /\ code \in Seq(Instruction) /\ Len(code) = Len(il) + Len(s)
      /\ \A i \in 1..(Len(il) + Len(s)) : code[i] = IF i <= Len(il) THEN il[i] ELSE s[i - Len(il)]
    BY <1>1, ConcatProperties
<1>0. il' = Patch(code, p, t)
    OBVIOUS
<1> HIDE DEF code
<1>3. p \in 0..(Len(code) - 1) /\ p \in Nat /\ p < Len(il)
    BY <1>1, <1>2 DEF Indices
<1>4. /\ il' \in Seq(Instruction) /\ Len(il') = Len(code)
      /\ il'[p + 1].op = code[p + 1].op /\ il'[p + 1].arg = t
      /\ \A i \in 1..Len(code) : i # p + 1 => il'[i] = code[i]
    BY <1>0, <1>2, <1>3, PatchFacts
<1>5. ASSUME NEW k \in 1..Len(s) PROVE il'[Len(il) + k] = s[k]
    <2>1. /\ Len(il) + k \in 1..(Len(il) + Len(s)) /\ ~(Len(il) + k <= Len(il))
          /\ (Len(il) + k) - Len(il) = k /\ Len(il) + k # p + 1
        BY <1>1, <1>3
    <2> QED
        BY <1>2, <1>4, <2>1
<1>6. ASSUME NEW i \in Indices PROVE code[i + 1] = il[i + 1] /\ i + 1 \in 1..Len(code)
    <2>1. i + 1 \in 1..(Len(il) + Len(s)) /\ i + 1 <= Len(il)
        BY <1>1 DEF Indices
    <2> QED
        BY <1>2, <2>1
<1>7. ASSUME NEW i \in Indices, i # p PROVE il'[i + 1] = il[i + 1]
    <2>1. i + 1 # p + 1
        BY <1>3, <1>7 DEF Indices
    <2> QED
        BY <1>4, <1>6, <2>1
<1>8. il'[p + 1].op = il[p + 1].op /\ il'[p + 1].arg = t
    BY <1>4, <1>6
<1>9. Len(il') >= Len(il)
    BY <1>1, <1>2, <1>4
<1> QED
    BY <1>2, <1>4, <1>5, <1>7, <1>8, <1>9 DEF Adds, Grows

\* The new indices are those of the code it appends.
LEMMA AddedCode ==
    ASSUME Typed, NEW s, Adds(s)
    PROVE  /\ Len(s) \in Nat /\ Len(il) \in Nat
           /\ \A k \in 1..Len(s) : Len(il) + k - 1 \in New /\ il'[(Len(il) + k - 1) + 1] = s[k]
           /\ \A i \in New : \E k \in 1..Len(s) : i = Len(il) + k - 1 /\ il'[i + 1] = s[k]
<1>1. Len(il) \in Nat /\ Len(s) \in Nat /\ Len(il') = Len(il) + Len(s)
    BY LenProperties DEF Typed, Adds
<1>2. ASSUME NEW k \in 1..Len(s)
      PROVE  Len(il) + k - 1 \in New /\ il'[(Len(il) + k - 1) + 1] = s[k]
    <2>1. Len(il) + k - 1 \in New /\ (Len(il) + k - 1) + 1 = Len(il) + k
        BY <1>1 DEF New
    <2> QED
        BY <2>1 DEF Adds
<1>3. ASSUME NEW i \in New PROVE \E k \in 1..Len(s) : i = Len(il) + k - 1 /\ il'[i + 1] = s[k]
    <2>1. i - Len(il) + 1 \in 1..Len(s) /\ i = Len(il) + (i - Len(il) + 1) - 1
        BY <1>1 DEF New
    <2> QED
        BY <1>2, <2>1
<1> QED
    BY <1>1, <1>2, <1>3

\* The same for one, two or three instructions.
LEMMA AddedOne ==
    ASSUME Typed, NEW s, Adds(s), Len(s) = 1
    PROVE  New = {Here} /\ il'[Here + 1] = s[1]
<1>1. Here \in Nat /\ Len(il') = Here + 1
    BY LenProperties DEF Typed, Adds, Here
<1> QED
    BY <1>1 DEF Adds, New, Here

LEMMA AddedTwo ==
    ASSUME Typed, NEW s, Adds(s), Len(s) = 2
    PROVE  New = {Here, Here + 1} /\ il'[Here + 1] = s[1] /\ il'[(Here + 1) + 1] = s[2]
<1>1. Here \in Nat /\ Len(il') = Here + 2
    BY LenProperties DEF Typed, Adds, Here
<1>2. New = {Here, Here + 1}
    BY <1>1 DEF New, Here
<1>3. 1 \in 1..Len(s) /\ 2 \in 1..Len(s) /\ (Here + 1) + 1 = Here + 2
    BY <1>1
<1> QED
    BY <1>2, <1>3 DEF Adds, Here

LEMMA AddedThree ==
    ASSUME Typed, NEW s, Adds(s), Len(s) = 3
    PROVE  /\ New = {Here, Here + 1, Here + 2}
           /\ il'[Here + 1] = s[1] /\ il'[(Here + 1) + 1] = s[2] /\ il'[(Here + 2) + 1] = s[3]
<1>1. Here \in Nat /\ Len(il') = Here + 3
    BY LenProperties DEF Typed, Adds, Here
<1>2. New = {Here, Here + 1, Here + 2}
    BY <1>1 DEF New, Here
<1>3. /\ 1 \in 1..Len(s) /\ 2 \in 1..Len(s) /\ 3 \in 1..Len(s)
      /\ (Here + 1) + 1 = Here + 2 /\ (Here + 2) + 1 = Here + 3
    BY <1>1
<1> QED
    BY <1>2, <1>3 DEF Adds, Here

LEMMA StraightCode ==
    ASSUME Typed, blocks' = blocks, NEW s, Adds(s), \A k \in 1..Len(s) : s[k].op \notin BlockOps
    PROVE  Straight
<1>1. GrowsBlocks /\ Len(blocks') = Len(blocks)
    BY LenProperties DEF Typed, GrowsBlocks
<1> QED
    BY <1>1, AddedCode DEF Straight

LEMMA Consumed ==
    ASSUME Typed, NEW kind \in TokenKinds, NEW at \in Int, NEW parts, parts \subseteq Parts,
           Consume(kind, at, parts)
    PROVE  source' \in Seq(TokenRecord)
<1>1. Token(kind, at, parts) \in TokenRecord
    BY DEF Token, TokenRecord
<1> QED
    BY <1>1, AppendProperties DEF Consume, Typed

LEMMA Keeps ==
    ASSUME Typed, frames # << >>, frames' = frames, NEW n, n = Len(frames)
    PROVE  Leaves(n) /\ Len(frames') = n /\ ~(n < n) /\ Ended(n) = {} /\ Begun(n) = {}
<1>1. frames \in Seq(Activation) /\ n \in Nat \ {0} /\ n \in 1..n
    BY TopFacts DEF Typed
<1>2. ~(n < n) /\ Len(frames') = n
    BY <1>1
<1> QED
    BY <1>1, <1>2 DEF Leaves, Stays, Ended, Begun

LEMMA Pushes ==
    ASSUME Typed, frames # << >>, NEW f \in Activation, frames' = Append(frames, f),
           NEW n, n = Len(frames)
    PROVE  /\ Leaves(n) /\ Len(frames') = n + 1 /\ frames'[n + 1] = f /\ n < Len(frames')
           /\ Ended(n) = {} /\ Begun(n) = Pendings(f) /\ Top' = f
<1>1. frames \in Seq(Activation) /\ n \in Nat \ {0} /\ n \in 1..n
    BY TopFacts DEF Typed
<1>2. /\ frames' \in Seq(Activation) /\ Len(frames') = n + 1 /\ frames'[n + 1] = f
      /\ \A k \in 1..n : frames'[k] = frames[k]
    BY <1>1, AppendProperties
<1>3. ~(n < n) /\ n < n + 1
    BY <1>1
<1> QED
    BY <1>1, <1>2, <1>3 DEF Leaves, Stays, Ended, Begun, Top

LEMMA Pops ==
    ASSUME Typed, Stack, frames # << >>, Top.fn \notin {"function", "block"}, frames' = Below,
           NEW n, n = Len(frames) - 1
    PROVE  /\ Leaves(n) /\ Len(frames') = n /\ n < Len(frames) /\ ~(n < n)
           /\ Ended(n) = Pendings(Top) /\ Begun(n) = {} /\ frames' # << >>
<1>1. /\ frames \in Seq(Activation) /\ Len(frames) \in Nat \ {0}
      /\ Below \in Seq(Activation) /\ Len(Below) = n /\ \A k \in 1..n : Below[k] = frames[k]
      /\ Top = frames[Len(frames)]
    BY TopFacts DEF Typed
<1>2. Len(frames) # 1
    BY <1>1 DEF Stack
<1>3. n \in 1..Len(frames) /\ Len(frames) = n + 1 /\ n < Len(frames) /\ ~(n < n) /\ n # 0
    BY <1>1, <1>2
<1>4. frames' # << >>
    BY <1>1, <1>3, EmptySeq
<1> QED
    BY <1>1, <1>3, <1>4 DEF Leaves, Stays, Ended, Begun

LEMMA Replaces ==
    ASSUME Typed, Stack, frames # << >>, Top.fn \notin {"function", "block"},
           NEW f \in Activation, frames' = Append(Below, f), NEW n, n = Len(frames) - 1
    PROVE  /\ Leaves(n) /\ Len(frames') = n + 1 /\ n < Len(frames') /\ n < Len(frames)
           /\ frames'[n + 1] = f /\ Top' = f
           /\ Ended(n) = Pendings(Top) /\ Begun(n) = Pendings(f) /\ frames' # << >>
<1>1. /\ frames \in Seq(Activation) /\ Len(frames) \in Nat \ {0}
      /\ Below \in Seq(Activation) /\ Len(Below) = n /\ \A k \in 1..n : Below[k] = frames[k]
      /\ Top = frames[Len(frames)]
    BY TopFacts DEF Typed
<1>2. Len(frames) # 1
    BY <1>1 DEF Stack
<1>3. n \in 1..Len(frames) /\ Len(frames) = n + 1 /\ n < Len(frames) /\ n < n + 1
    BY <1>1, <1>2
<1>4. /\ frames' \in Seq(Activation) /\ Len(frames') = n + 1 /\ frames'[n + 1] = f
      /\ \A k \in 1..n : frames'[k] = Below[k]
    BY <1>1, AppendProperties
<1>5. frames' # << >>
    BY <1>3, <1>4, EmptySeq
<1> QED
    BY <1>1, <1>3, <1>4, <1>5 DEF Leaves, Stays, Ended, Begun, Top

-----------------------------------------------------------------------------
(* The kinds of actions.                                                   *)

\* Code is added in the innermost activation.
LEMMA KeepStep ==
    ASSUME IInv, frames # << >>, frames' = frames, Grows({}), Straight, Repairs({}, {}),
           UNCHANGED <<breaks, functions>>, source' \in Seq(TokenRecord),
           pc' = "returned" \/ (pc' = "after break" /\ Top.fn # "function")
    PROVE  IInv'
<1>1. PICK n : n = Len(frames)
    OBVIOUS
<1>2. Typed /\ Leaves(n) /\ Len(frames') = n /\ ~(n < n) /\ Ended(n) = {} /\ Begun(n) = {}
    BY <1>1, Keeps DEF IInv
<1>3. Control'
    BY DEF Control, Top
<1>4. SameSwitches(n)
    BY <1>1, <1>2 DEF SameSwitches
<1> QED
    BY <1>2, <1>3, <1>4, BodyStep

\* An activation is put on top.
LEMMA PushStep ==
    ASSUME IInv, frames # << >>, Top.fn # "function", NEW f \in Activation,
           frames' = Append(frames, f), f.fn # "switch", Begins(f), Len(f.pending) <= 1,
           Grows({}), Straight, Repairs({}, Pendings(f)),
           UNCHANGED <<breaks, functions>>, source' \in Seq(TokenRecord), pc' = "statement"
    PROVE  IInv'
<1>1. PICK n : n = Len(frames)
    OBVIOUS
<1>2. /\ Typed /\ Leaves(n) /\ Len(frames') = n + 1 /\ frames'[n + 1] = f /\ n < Len(frames')
      /\ Ended(n) = {} /\ Begun(n) = Pendings(f) /\ Top' = f
    BY <1>1, Pushes DEF IInv
<1>3. ~(n < n) /\ frames' # << >>
    <2>1. n \in Nat \ {0}
        BY <1>1, <1>2, TopFacts
    <2> QED
        BY <1>2, <2>1, EmptySeq
<1>4. Control'
    BY <1>2, <1>3 DEF Control, Begins
<1>5. SameSwitches(n)
    BY <1>1, <1>2, <1>3 DEF SameSwitches
<1>6. Increasing(f.pending)
    BY LenProperties DEF Activation, Increasing
<1> QED
    BY <1>2, <1>4, <1>5, <1>6, BodyStep

\* The innermost activation is complete.
LEMMA PopStep ==
    ASSUME IInv, frames # << >>, Top.fn \notin {"function", "block", "switch"}, frames' = Below,
           Grows(Pendings(Top)), Straight, Repairs(Pendings(Top), {}),
           UNCHANGED <<breaks, functions>>, source' \in Seq(TokenRecord),
           pc' \in {"returned", "returned, no else"}
    PROVE  IInv'
<1>1. PICK n : n = Len(frames) - 1
    OBVIOUS
<1>2. /\ Typed /\ Leaves(n) /\ Len(frames') = n /\ n < Len(frames) /\ ~(n < n)
      /\ Ended(n) = Pendings(Top) /\ Begun(n) = {} /\ frames' # << >>
    BY <1>1, Pops DEF IInv
<1>3. Control'
    BY <1>2 DEF Control
<1>4. SameSwitches(n)
    BY <1>2 DEF SameSwitches
<1> QED
    BY <1>2, <1>3, <1>4, BodyStep

\* Nothing but pc changes.
LEMMA PcStep ==
    ASSUME IInv, UNCHANGED <<frames, il, blocks, breaks, functions, source>>, Control'
    PROVE  IInv'
<1>1. /\ Typed' <=> Typed
      /\ Stack' <=> Stack
      /\ Tables' <=> Tables
    BY DEF Typed, Stack, Tables, Indices
<1>2. \A i : Enclosing(i)' = Enclosing(i)
    BY DEF Enclosing
<1>3. ASSUME NEW i PROVE Innermost(i)' = Innermost(i)
    <2>1. Enclosing(i)' = Enclosing(i)
        BY <1>2
    <2> QED
        BY <2>1 DEF Innermost
<1>4. Nesting'
    <2>1. Enclosing(Len(il))' = Enclosing(Len(il)) /\ Open(Len(frames))' = Open(Len(frames))
        BY DEF Enclosing, Open
    <2>2. Indices' = Indices
        BY DEF Indices
    <2> QED
        BY <1>3, <2>1, <2>2 DEF IInv, Nesting
<1>5. \A k, p : Place(k, p)' <=> Place(k, p)
    BY <1>2 DEF Place, Open, Indices
<1>6. Places'
    BY <1>5 DEF IInv, Places, Pendings, Marks
<1>7. Unpatched' /\ Breaks'
    <2>1. AllPending' = AllPending /\ Exits' = Exits /\ (Ordered' <=> Ordered)
        BY DEF AllPending, Pendings, Exits, Ordered
    <2>2. Indices' = Indices /\ \A i : JumpsAt(i)' <=> JumpsAt(i)
        BY DEF Indices, JumpsAt
    <2> QED
        BY <2>1, <2>2 DEF IInv, Unpatched, Breaks
<1>8. \A i, t : SameFunction(i, t)' <=> SameFunction(i, t)
    BY DEF SameFunction, Within
<1>9. \A t : Exit(t)' <=> Exit(t)
    BY DEF Exit, Exits, Indices
<1>10. \A i, t : Patched(i, t)' <=> Patched(i, t)
    BY <1>2, <1>8, <1>9 DEF Patched, Indices
<1>11. Jumps'
    BY <1>10 DEF IInv, Jumps, Indices, JumpsAt
<1> QED
    BY <1>1, <1>4, <1>6, <1>7, <1>11 DEF IInv

-----------------------------------------------------------------------------
(* Statements without a body.                                              *)

LEMMA ReadsFacts ==
    ASSUME IInv, NEW kind, ReadsOn(kind)
    PROVE  frames # << >> /\ Top.fn # "function"
BY DEF IInv, Control, ReadsOn, Reads

LEMMA ReadsReadsOn ==
    ASSUME NEW kind, Reads(kind)
    PROVE  ReadsOn(kind)
BY DEF ReadsOn

LEMMA TopBlock ==
    ASSUME Typed, Stack, frames # << >>
    PROVE  Top.fn # "function" => Top.block \in 1..Len(blocks) /\ Len(frames) \in 2..Len(frames)
<1>1. Len(frames) \in Nat \ {0} /\ Top = frames[Len(frames)]
    BY TopFacts
<1>2. Top.fn # "function" => Len(frames) # 1
    BY <1>1 DEF Stack
<1>3. \A k \in Nat \ {0} : k # 1 => k \in 2..k
    OBVIOUS
<1> QED
    BY <1>1, <1>2, <1>3 DEF Stack

\* Code that only computes.
NoJumps(s) == \A k \in 1..Len(s) : s[k].op \notin JumpOps \cup BlockOps

LEMMA PlainCode ==
    ASSUME Typed, NEW s, Adds(s), NoJumps(s)
    PROVE  Repairs({}, {}) /\ \A i \in New : il'[i + 1].op \notin BlockOps
<1>1. \A i \in New : il'[i + 1].op \notin JumpOps \cup BlockOps
    BY AddedCode, ZenonT(30) DEF NoJumps
<1> QED
    BY <1>1 DEF Repairs

LEMMA ConcatTwo ==
    ASSUME NEW S, NEW s \in Seq(S), NEW a \in S, NEW b \in S
    PROVE  Append(s, a) \o << b >> = s \o << a, b >>
<1>1. << a, b >> \in Seq(S) /\ << b >> \in Seq(S) /\ Len(<< a, b >>) = 2 /\ Len(<< b >>) = 1
    OBVIOUS
<1>2. /\ Append(s, a) \in Seq(S) /\ Len(Append(s, a)) = Len(s) + 1 /\ Len(s) \in Nat
      /\ \A i \in 1..Len(s) : Append(s, a)[i] = s[i]
      /\ Append(s, a)[Len(s) + 1] = a
    BY AppendProperties, LenProperties
<1> DEFINE l == Append(s, a) \o << b >>
           r == s \o << a, b >>
<1>3. /\ l \in Seq(S) /\ Len(l) = Len(s) + 2
      /\ \A i \in 1..(Len(s) + 2) : l[i] = IF i <= Len(s) + 1 THEN Append(s, a)[i] ELSE << b >>[i - (Len(s) + 1)]
    <2>1. Len(Append(s, a)) + Len(<< b >>) = Len(s) + 2
        BY <1>1, <1>2
    <2> QED
        BY <1>1, <1>2, <2>1, ConcatProperties
<1>4. /\ r \in Seq(S) /\ Len(r) = Len(s) + 2
      /\ \A i \in 1..(Len(s) + 2) : r[i] = IF i <= Len(s) THEN s[i] ELSE << a, b >>[i - Len(s)]
    BY <1>1, <1>2, ConcatProperties
<1> HIDE DEF l, r
<1>5. ASSUME NEW i \in 1..(Len(s) + 2) PROVE l[i] = r[i]
    <2>1. CASE i <= Len(s)
        BY <1>2, <1>3, <1>4, <2>1, SMTT(30)
    <2>2. CASE i = Len(s) + 1
        <3>1. l[i] = a
            BY <1>2, <1>3, <2>2
        <3>2. i - Len(s) = 1 /\ ~(i <= Len(s))
            BY <1>2, <2>2
        <3>3. r[i] = a
            BY <1>4, <3>2
        <3> QED
            BY <3>1, <3>3
    <2>3. CASE i = Len(s) + 2
        <3>1. i - (Len(s) + 1) = 1 /\ ~(i <= Len(s) + 1) /\ i - Len(s) = 2 /\ ~(i <= Len(s))
            BY <1>2, <2>3
        <3>2. l[i] = b
            BY <1>3, <3>1
        <3>3. r[i] = b
            BY <1>4, <3>1
        <3> QED
            BY <3>2, <3>3
    <2> QED
        BY <1>2, <2>1, <2>2, <2>3
<1>6. l = r
    BY <1>3, <1>4, <1>5, SeqEqual
<1> QED
    BY <1>6 DEF l, r

\* Such a statement, with or without a value.
LEMMA SimpleStep ==
    ASSUME IInv, frames # << >>, UNCHANGED <<frames, breaks, functions>>,
           NEW s \in Seq(Instruction), NoJumps(s), il' = il \o s,
           GrowsBlocks, Len(blocks') = Len(blocks), source' \in Seq(TokenRecord), pc' = "returned"
    PROVE  IInv'
<1>1. Typed
    BY DEF IInv
<1>2. Adds(s) /\ Grows({})
    BY <1>1, Extended
<1>3. Repairs({}, {}) /\ Straight
    BY <1>1, <1>2, PlainCode DEF Straight
<1> QED
    BY <1>2, <1>3, KeepStep

LEMMA PlainSequences ==
    /\ << >> \in Seq(Instruction) /\ NoJumps(<< >>)
    /\ \A op \in Ops : Plain(op) \in Instruction
    /\ \A op \in {"statement", "op_generic"} :
           << Plain(op) >> \in Seq(Instruction) /\ NoJumps(<< Plain(op) >>)
    /\ \A x \in Int : /\ << Instr("op_return", x) >> \in Seq(Instruction)
                      /\ NoJumps(<< Instr("op_return", x) >>)
                      /\ << Plain("statement"), Instr("op_return", x) >> \in Seq(Instruction)
                      /\ NoJumps(<< Plain("statement"), Instr("op_return", x) >>)
<1>1. \A op \in Ops, x \in Int : Plain(op) \in Instruction /\ Instr(op, x) \in Instruction
    BY DEF Plain, Instr, Instruction
<1>2. << >> \in Seq(Instruction) /\ NoJumps(<< >>)
    BY DEF NoJumps
<1>3. ASSUME NEW op \in {"statement", "op_generic"}
      PROVE  << Plain(op) >> \in Seq(Instruction) /\ NoJumps(<< Plain(op) >>)
    <2>1. Plain(op) \in Instruction
        BY <1>1 DEF Ops
    <2>2. Plain(op).op \notin JumpOps \cup BlockOps
        BY DEF Plain, Instr, JumpOps, BlockOps
    <2> QED
        BY <2>1, <2>2 DEF NoJumps
<1>4. ASSUME NEW x \in Int
      PROVE  /\ << Instr("op_return", x) >> \in Seq(Instruction)
             /\ NoJumps(<< Instr("op_return", x) >>)
             /\ << Plain("statement"), Instr("op_return", x) >> \in Seq(Instruction)
             /\ NoJumps(<< Plain("statement"), Instr("op_return", x) >>)
    <2>1. Plain("statement") \in Instruction /\ Instr("op_return", x) \in Instruction
        BY <1>1 DEF Ops
    <2>2. /\ Plain("statement").op \notin JumpOps \cup BlockOps
          /\ Instr("op_return", x).op \notin JumpOps \cup BlockOps
        BY DEF Plain, Instr, JumpOps, BlockOps
    <2> QED
        BY <2>1, <2>2 DEF NoJumps
<1> QED
    BY <1>1, <1>2, <1>3, <1>4

LEMMA BlocksKept ==
    ASSUME Typed, blocks' = blocks
    PROVE  GrowsBlocks /\ Len(blocks') = Len(blocks)
BY LenProperties DEF Typed, GrowsBlocks

LEMMA AppendedOne ==
    ASSUME Typed, NEW x \in Instruction
    PROVE  Append(il, x) = il \o << x >>
BY AppendIsConcat DEF Typed

LEMMA EmptyStep ==
    ASSUME IInv, Empty
    PROVE  IInv'
<1>1. frames # << >> /\ Typed
    BY ReadsFacts DEF Empty, IInv
<1>2. il' = il \o << >>
    BY <1>1, ConcatEmptySeq DEF Typed, Empty
<1>3. source' \in Seq(TokenRecord)
    <2>1. Consume("empty", 0, {}) /\ "empty" \in TokenKinds
        BY DEF Empty, TokenKinds, AllKinds
    <2> QED
        BY <1>1, <2>1, Consumed
<1>4. pc' = "returned" /\ UNCHANGED <<frames, blocks, breaks, functions>>
    BY DEF Empty
<1> QED
    BY <1>1, <1>2, <1>3, <1>4, BlocksKept, PlainSequences, SimpleStep

LEMMA AfterBreakStep ==
    ASSUME IInv, AfterBreak
    PROVE  IInv'
<1>1. frames # << >> /\ Typed
    BY DEF AfterBreak, IInv, Control
<1>2. il' = il \o << >>
    BY <1>1, ConcatEmptySeq DEF Typed, AfterBreak
<1>3. source' \in Seq(TokenRecord)
    <2>1. PICK kind \in TokenKinds : Consume(kind, 0, {})
        BY Zenon DEF AfterBreak, TokenKinds, Closing
    <2> QED
        BY <1>1, <2>1, Consumed
<1>4. pc' = "returned" /\ UNCHANGED <<frames, blocks, breaks, functions>>
    BY DEF AfterBreak
<1> QED
    BY <1>1, <1>2, <1>3, <1>4, BlocksKept, PlainSequences, SimpleStep

LEMMA HereIsInt ==
    ASSUME Typed
    PROVE  Here \in Nat /\ Here \in Int
BY LenProperties DEF Typed, Here

LEMMA SimpleActionStep ==
    ASSUME IInv, Simple
    PROVE  IInv'
<1>1. frames # << >> /\ Typed
    BY ReadsFacts DEF Simple, IInv
<1>2. {"value"} \subseteq Parts
    BY DEF Parts
<1>3. PICK kind \in TokenKinds : Consume(kind, Here, {"value"})
    BY DEF Simple, TokenKinds, AllKinds
<1>4. source' \in Seq(TokenRecord)
    BY <1>1, <1>2, <1>3, Consumed, HereIsInt
<1>5. PICK op \in {"statement", "op_generic"} : il' = Append(il, Plain(op))
    BY DEF Simple
<1>6. il' = il \o << Plain(op) >>
    BY <1>1, <1>5, AppendedOne, PlainSequences DEF Ops
<1>7. pc' = "returned" /\ UNCHANGED <<frames, blocks, breaks, functions>>
    BY DEF Simple
<1> QED
    BY <1>1, <1>4, <1>6, <1>7, BlocksKept, PlainSequences, SimpleStep

LEMMA DeclarationStep ==
    ASSUME IInv, Declaration
    PROVE  IInv'
<1>1. frames # << >> /\ Typed /\ Top.fn # "function"
    BY ReadsFacts DEF Declaration, IInv
<1>2. PICK parts \in SUBSET {"value"} :
          /\ il' = IF parts = {} THEN il ELSE Append(il, Plain("statement"))
          /\ Consume("declaration", Here, parts)
    BY DEF Declaration
<1>3. source' \in Seq(TokenRecord)
    <2>1. parts \subseteq Parts /\ "declaration" \in TokenKinds
        BY DEF Parts, TokenKinds, AllKinds
    <2> QED
        BY <1>1, <1>2, <2>1, Consumed, HereIsInt
<1>4. GrowsBlocks /\ Len(blocks') = Len(blocks)
    <2> DEFINE B == [parent : Nat, next_local : Nat]
               b == Top.block
               new == [blocks[b] EXCEPT !.next_local = @ + 1]
    <2>1. blocks \in Seq(B) /\ b \in 1..Len(blocks)
        BY <1>1, TopBlock DEF IInv, Typed
    <2>2. blocks[b] \in B
        BY <2>1, ElementOfSeq
    <2>3. new \in B /\ new.parent = blocks[b].parent
        BY <2>2
    <2>4. blocks' = [blocks EXCEPT ![b] = new]
        BY <2>1 DEF Declaration
    <2>5. /\ blocks' \in Seq(B) /\ Len(blocks') = Len(blocks) /\ Len(blocks) \in Nat
          /\ \A j \in 1..Len(blocks) : blocks'[j] = IF j = b THEN new ELSE blocks[j]
        BY <2>1, <2>3, <2>4, ExceptSeq, LenProperties, SMTT(30)
    <2> HIDE DEF new
    <2>6. \A j \in 1..Len(blocks) : blocks'[j].parent = blocks[j].parent
        BY <2>3, <2>5
    <2> QED
        BY <2>5, <2>6 DEF GrowsBlocks
<1>5. pc' = "returned" /\ UNCHANGED <<frames, breaks, functions>>
    BY DEF Declaration
<1>6. CASE parts = {}
    <2>1. il' = il \o << >>
        BY <1>1, <1>2, <1>6, ConcatEmptySeq DEF Typed
    <2> QED
        BY <1>1, <1>3, <1>4, <1>5, <2>1, PlainSequences, SimpleStep
<1>7. CASE parts # {}
    <2>1. il' = il \o << Plain("statement") >>
        BY <1>1, <1>2, <1>7, AppendedOne, PlainSequences DEF Ops
    <2> QED
        BY <1>1, <1>3, <1>4, <1>5, <2>1, PlainSequences, SimpleStep
<1> QED
    BY <1>6, <1>7

LEMMA ReturnStep ==
    ASSUME IInv, ReturnStatement
    PROVE  IInv'
<1>1. frames # << >> /\ Typed
    BY ReadsFacts, ReadsReadsOn DEF ReturnStatement, IInv
<1> DEFINE x == Len(functions)
<1>2. x \in Int
    BY <1>1, LenProperties DEF Typed
<1>3. PICK parts \in SUBSET {"value"} :
          /\ il' = (IF parts = {} THEN il ELSE Append(il, Plain("statement"))) \o << Instr("op_return", x) >>
          /\ Consume("return", Here, parts)
    BY DEF ReturnStatement
<1>4. source' \in Seq(TokenRecord)
    <2>1. parts \subseteq Parts /\ "return" \in TokenKinds
        BY DEF Parts, TokenKinds, AllKinds
    <2> QED
        BY <1>1, <1>3, <2>1, Consumed, HereIsInt
<1>5. GrowsBlocks /\ Len(blocks') = Len(blocks)
    BY <1>1, BlocksKept DEF ReturnStatement
<1>6. pc' = "returned" /\ UNCHANGED <<frames, breaks, functions>>
    BY DEF ReturnStatement
<1>7. CASE parts = {}
    <2>1. il' = il \o << Instr("op_return", x) >>
        BY <1>3, <1>7
    <2> QED
        BY <1>1, <1>2, <1>4, <1>5, <1>6, <2>1, PlainSequences, SimpleStep
<1>8. CASE parts # {}
    <2>1. Plain("statement") \in Instruction /\ Instr("op_return", x) \in Instruction
        BY <1>2 DEF Plain, Instr, Instruction, Ops
    <2>2. il' = il \o << Plain("statement"), Instr("op_return", x) >>
        BY <1>1, <1>3, <1>8, <2>1, ConcatTwo DEF Typed
    <2> QED
        BY <1>1, <1>2, <1>4, <1>5, <1>6, <2>2, PlainSequences, SimpleStep
<1> QED
    BY <1>7, <1>8

\* A break leads out of the innermost switch; without one the program is not
\* one the parser handles.
LEMMA BreakStep ==
    ASSUME IInv, Break
    PROVE  IInv'
<1>1. frames # << >> /\ Typed /\ Top.fn # "function"
    BY ReadsFacts, ReadsReadsOn DEF Break, IInv
<1> DEFINE t == IF breaks = << >> THEN Stray ELSE breaks[Len(breaks)]
           code == << Instr("op_jump", t) >>
<1>2. breaks \in Seq(Nat)
    BY <1>1 DEF Typed
<1>3. (t = Stray /\ ~Supported) \/ t \in Exits
    <2>1. CASE breaks = << >>
        <3>1. Exits = {}
            BY <2>1, EmptySeq DEF IInv, Breaks
        <3>2. ASSUME Supported PROVE FALSE
            <4>1. PICK k \in 1..Len(frames) : frames[k].fn = "switch"
                BY <3>2 DEF Break, BreakAllowed
            <4> QED
                BY <3>1, <4>1 DEF Exits
        <3> QED
            BY <2>1, <3>2
    <2>2. CASE breaks # << >>
        <3>1. Len(breaks) \in 1..Len(breaks)
            BY <1>2, <2>2, EmptySeq
        <3> QED
            BY <2>2, <3>1 DEF IInv, Breaks
    <2> QED
        BY <2>1, <2>2
<1>4. t \in Int
    <2>1. CASE breaks = << >>
        BY <2>1 DEF Stray
    <2>2. CASE breaks # << >>
        <3>1. Len(breaks) \in 1..Len(breaks)
            BY <1>2, <2>2, EmptySeq
        <3> QED
            BY <1>2, <2>2, <3>1, ElementOfSeq
    <2> QED
        BY <2>1, <2>2
<1> HIDE DEF t
<1>5. Instr("op_jump", t) \in Instruction
    BY <1>4 DEF Instr, Instruction, Ops
<1>6. code \in Seq(Instruction) /\ Len(code) = 1 /\ code[1] = Instr("op_jump", t)
    BY <1>5
<1>7. il' = il \o code
    <2>1. il' = Append(il, Instr("op_jump", t))
        BY DEF Break, t
    <2> QED
        BY <1>1, <1>5, <2>1, AppendedOne
<1> HIDE DEF code
<1>8. Adds(code) /\ Grows({})
    BY <1>1, <1>6, <1>7, Extended
<1>9. \A i \in New : il'[i + 1] = Instr("op_jump", t)
    BY <1>1, <1>6, <1>8, AddedCode
<1>10. Repairs({}, {})
    BY <1>3, <1>9 DEF Repairs, Instr
<1>11. Straight
    <2>1. blocks' = blocks
        BY DEF Break
    <2>2. \A k \in 1..Len(code) : code[k].op \notin BlockOps
        BY <1>6 DEF Instr, BlockOps
    <2> QED
        BY <1>1, <1>8, <2>1, <2>2, StraightCode
<1>12. source' \in Seq(TokenRecord)
    <2>1. Consume("break", 0, {}) /\ "break" \in TokenKinds
        BY DEF Break, TokenKinds, AllKinds
    <2> QED
        BY <1>1, <2>1, Consumed
<1>13. pc' = "after break" /\ UNCHANGED <<frames, breaks, functions>>
    BY DEF Break
<1> QED
    BY <1>1, <1>8, <1>10, <1>11, <1>12, <1>13, KeepStep

-----------------------------------------------------------------------------
(* if, while, do and for.                                                  *)

\* The activation Frame makes.
Fresh(f, fn, b, pending, start) ==
    /\ f \in Activation
    /\ f.fn = fn /\ f.block = b /\ f.pending = pending /\ f.start = start
    /\ f.cases = << >> /\ f.default = 0
    /\ Marks(f) = IF fn \in Loops THEN {start} ELSE {}

LEMMA FrameFacts ==
    ASSUME NEW fn \in Fns, NEW b \in Nat, NEW pending \in Seq(Nat), NEW start \in Nat
    PROVE  Fresh(Frame(fn, b, pending, start), fn, b, pending, start)
<1> DEFINE f == Frame(fn, b, pending, start)
<1>1. /\ f = [fn |-> fn, block |-> b, pending |-> pending, start |-> start, cases |-> << >>, default |-> 0]
      /\ << >> \in Seq(CaseRecord) /\ Len(<< >>) = 0
    BY EmptySeq DEF Frame
<1> HIDE DEF f
<1>2. /\ f \in Activation
      /\ f.fn = fn /\ f.block = b /\ f.pending = pending /\ f.start = start
      /\ f.cases = << >> /\ f.default = 0
    BY <1>1 DEF Activation
<1>3. {f.cases[n].label : n \in 1..Len(f.cases)} = {}
    BY <1>1, <1>2
<1>4. Marks(f) = IF fn \in Loops THEN {start} ELSE {}
    BY <1>2, <1>3 DEF Marks
<1>5. Fresh(f, fn, b, pending, start)
    BY <1>2, <1>4 DEF Fresh
<1> QED
    BY <1>5 DEF f

LEMMA OnePending ==
    ASSUME NEW p \in Nat
    PROVE  /\ << p >> \in Seq(Nat) /\ Len(<< p >>) = 1
           /\ \A f : f.pending = << p >> => Pendings(f) = {p}
BY DEF Pendings

LEMMA TopInBlock ==
    ASSUME IInv, frames # << >>
    PROVE  Typed /\ Top.block \in Nat /\ Here = Len(il) /\ Here \in Nat
BY TopFacts, HereIsInt DEF IInv, Activation, Here

LEMMA IfStep ==
    ASSUME IInv, If
    PROVE  IInv'
<1>1. frames # << >> /\ Top.fn # "function"
    BY ReadsFacts, ReadsReadsOn DEF If
<1>2. Typed /\ Top.block \in Nat /\ Here = Len(il) /\ Here \in Nat /\ Here + 1 \in Nat
    BY <1>1, TopInBlock
<1> DEFINE s == << Plain("condition"), Instr("op_jz", Unset) >>
           f == Frame("if", Top.block, << Here + 1 >>, 0)
<1>3. /\ s \in Seq(Instruction) /\ Len(s) = 2
      /\ s[1].op = "condition" /\ s[2].op = "op_jz" /\ s[2].arg = Unset
    BY DEF Plain, Instr, Instruction, Ops, Unset
<1>4. il' = il \o s /\ frames' = Append(frames, f) /\ pc' = "statement"
    BY DEF If, Enter
<1> HIDE DEF s
<1>5. /\ f \in Activation /\ f.fn = "if" /\ f.block = Top.block /\ f.pending = << Here + 1 >>
      /\ f.start = 0 /\ Marks(f) = {}
    <2>1. "if" \in Fns /\ "if" \notin Loops /\ << Here + 1 >> \in Seq(Nat) /\ 0 \in Nat
        BY <1>2, OnePending DEF Fns, Loops
    <2>2. Fresh(f, "if", Top.block, << Here + 1 >>, 0)
        BY <1>2, <2>1, FrameFacts
    <2> HIDE DEF f
    <2> QED
        BY <2>1, <2>2 DEF Fresh
<1> HIDE DEF f
<1>6. Pendings(f) = {Here + 1} /\ Len(f.pending) = 1 /\ Len(f.pending) <= 1
    BY <1>2, <1>5, OnePending
<1>7. Adds(s) /\ Grows({})
    BY <1>2, <1>3, <1>4, Extended
<1>9. New = {Here, Here + 1} /\ il'[Here + 1] = s[1] /\ il'[(Here + 1) + 1] = s[2]
    BY <1>2, <1>3, <1>7, AddedTwo
<1>10. Repairs({}, Pendings(f))
    BY <1>3, <1>6, <1>9 DEF Repairs, JumpOps
<1>11. Straight
    <2>1. blocks' = blocks
        BY DEF If
    <2>2. \A k \in 1..Len(s) : s[k].op \notin BlockOps
        BY <1>3 DEF BlockOps
    <2> QED
        BY <1>2, <1>7, <2>1, <2>2, StraightCode
<1>12. Begins(f)
    <2>1. 0 \in Indices'
        BY <1>2, <1>7, AddedCode DEF Indices, Grows, Typed
    <2> QED
        BY <1>1, <1>5, <1>6, <1>9, <2>1 DEF Begins, NumPending
<1>13. source' \in Seq(TokenRecord)
    <2>1. Consume("if", Here, {}) /\ "if" \in TokenKinds
        BY DEF If, TokenKinds, AllKinds
    <2> QED
        BY <1>2, <2>1, Consumed
<1>14. UNCHANGED <<breaks, functions>>
    BY DEF If
<1> QED
    BY <1>1, <1>4, <1>5, <1>6, <1>7, <1>10, <1>11, <1>12, <1>13, <1>14, PushStep

LEMMA WhileStep ==
    ASSUME IInv, While
    PROVE  IInv'
<1>1. frames # << >> /\ Top.fn # "function"
    BY ReadsFacts, ReadsReadsOn DEF While
<1>2. Typed /\ Top.block \in Nat /\ Here = Len(il) /\ Here \in Nat /\ Here + 1 \in Nat /\ Here + 2 \in Nat
    BY <1>1, TopInBlock
<1> DEFINE s == << Plain("op_label"), Plain("condition"), Instr("op_jz", Unset) >>
           f == Frame("while", Top.block, << Here + 2 >>, Here)
<1>3. /\ s \in Seq(Instruction) /\ Len(s) = 3
      /\ s[1].op = "op_label" /\ s[2].op = "condition" /\ s[3].op = "op_jz" /\ s[3].arg = Unset
    BY DEF Plain, Instr, Instruction, Ops, Unset
<1>4. il' = il \o s /\ frames' = Append(frames, f) /\ pc' = "statement"
    BY DEF While, Enter
<1> HIDE DEF s
<1>5. /\ f \in Activation /\ f.fn = "while" /\ f.block = Top.block /\ f.pending = << Here + 2 >>
      /\ f.start = Here /\ Marks(f) = {Here}
    <2>1. "while" \in Fns /\ "while" \in Loops /\ << Here + 2 >> \in Seq(Nat)
        BY <1>2, OnePending DEF Fns, Loops
    <2>2. Fresh(f, "while", Top.block, << Here + 2 >>, Here)
        BY <1>2, <2>1, FrameFacts
    <2> HIDE DEF f
    <2> QED
        BY <2>1, <2>2 DEF Fresh
<1> HIDE DEF f
<1>6. Pendings(f) = {Here + 2} /\ Len(f.pending) = 1 /\ Len(f.pending) <= 1
    BY <1>2, <1>5, OnePending
<1>7. Adds(s) /\ Grows({})
    BY <1>2, <1>3, <1>4, Extended
<1>8. /\ New = {Here, Here + 1, Here + 2}
      /\ il'[Here + 1] = s[1] /\ il'[(Here + 1) + 1] = s[2] /\ il'[(Here + 2) + 1] = s[3]
    BY <1>2, <1>3, <1>7, AddedThree
<1>9. Repairs({}, Pendings(f))
    BY <1>3, <1>6, <1>8 DEF Repairs, JumpOps
<1>10. Straight
    <2>1. blocks' = blocks
        BY DEF While
    <2>2. \A k \in 1..Len(s) : s[k].op \notin BlockOps
        BY <1>3 DEF BlockOps
    <2> QED
        BY <1>2, <1>7, <2>1, <2>2, StraightCode
<1>11. Begins(f)
    <2>1. Here \in Indices' /\ NewLabel(Here)
        BY <1>2, <1>3, <1>8 DEF Indices, New, NewLabel
    <2> QED
        BY <1>1, <1>5, <1>6, <1>8, <2>1 DEF Begins, NumPending
<1>12. source' \in Seq(TokenRecord)
    <2>1. Consume("while", Here + 1, {}) /\ "while" \in TokenKinds /\ Here + 1 \in Int
        BY <1>2 DEF While, TokenKinds, AllKinds
    <2> QED
        BY <1>2, <2>1, Consumed
<1>13. UNCHANGED <<breaks, functions>>
    BY DEF While
<1> QED
    BY <1>1, <1>4, <1>5, <1>6, <1>7, <1>9, <1>10, <1>11, <1>12, <1>13, PushStep

LEMMA DoStep ==
    ASSUME IInv, Do
    PROVE  IInv'
<1>1. frames # << >> /\ Top.fn # "function"
    BY ReadsFacts DEF Do
<1>2. Typed /\ Top.block \in Nat /\ Here = Len(il) /\ Here \in Nat
    BY <1>1, TopInBlock
<1> DEFINE s == << Plain("op_label") >>
           f == Frame("do", Top.block, << >>, Here)
<1>3. s \in Seq(Instruction) /\ Len(s) = 1 /\ s[1].op = "op_label"
    BY DEF Plain, Instr, Instruction, Ops
<1>4. frames' = Append(frames, f) /\ pc' = "statement"
    BY DEF Do, Enter
<1>5. il' = il \o s
    <2>1. Plain("op_label") \in Instruction
        BY DEF Plain, Instr, Instruction, Ops
    <2> QED
        BY <1>2, <2>1, AppendedOne DEF Do
<1> HIDE DEF s
<1>6. /\ f \in Activation /\ f.fn = "do" /\ f.block = Top.block /\ f.pending = << >>
      /\ f.start = Here /\ Marks(f) = {Here}
    <2>1. "do" \in Fns /\ "do" \in Loops /\ << >> \in Seq(Nat)
        BY EmptySeq DEF Fns, Loops
    <2>2. Fresh(f, "do", Top.block, << >>, Here)
        BY <1>2, <2>1, FrameFacts
    <2> HIDE DEF f
    <2> QED
        BY <2>1, <2>2 DEF Fresh
<1> HIDE DEF f
<1>7. Pendings(f) = {} /\ Len(f.pending) = 0 /\ Len(f.pending) <= 1
    <2>1. Len(f.pending) = 0
        BY <1>6, EmptySeq
    <2> QED
        BY <2>1 DEF Pendings
<1>8. Adds(s) /\ Grows({})
    BY <1>2, <1>3, <1>5, Extended
<1>9. New = {Here} /\ il'[Here + 1] = s[1]
    BY <1>2, <1>3, <1>8, AddedOne
<1>10. Repairs({}, Pendings(f))
    BY <1>3, <1>7, <1>9 DEF Repairs, JumpOps
<1>11. Straight
    <2>1. blocks' = blocks
        BY DEF Do
    <2>2. \A k \in 1..Len(s) : s[k].op \notin BlockOps
        BY <1>3 DEF BlockOps
    <2> QED
        BY <1>2, <1>8, <2>1, <2>2, StraightCode
<1>12. Begins(f)
    <2>1. Here \in Indices' /\ NewLabel(Here)
        BY <1>2, <1>3, <1>9 DEF Indices, New, NewLabel
    <2> QED
        BY <1>1, <1>6, <1>7, <2>1 DEF Begins, NumPending
<1>13. source' \in Seq(TokenRecord)
    <2>1. Consume("do", 0, {}) /\ "do" \in TokenKinds
        BY DEF Do, TokenKinds, AllKinds
    <2> QED
        BY <1>2, <2>1, Consumed
<1>14. UNCHANGED <<breaks, functions>>
    BY DEF Do
<1> QED
    BY <1>1, <1>4, <1>6, <1>7, <1>8, <1>10, <1>11, <1>12, <1>13, <1>14, PushStep

\* An activation with one jump to patch.
LEMMA TopPending ==
    ASSUME IInv, frames # << >>, NumPending(Top.fn) = 1
    PROVE  /\ Pendings(Top) = {Top.pending[1]} /\ Top.pending[1] \in Indices
           /\ JumpsAt(Top.pending[1])
<1>1. Len(frames) \in 1..Len(frames) /\ Top = frames[Len(frames)]
    BY TopFacts DEF IInv
<1>2. Len(Top.pending) = 1
    BY <1>1 DEF IInv, Stack
<1>3. Pendings(Top) = {Top.pending[1]}
    BY <1>2 DEF Pendings
<1>4. Top.pending[1] \in AllPending
    BY <1>1, <1>3 DEF AllPending
<1> QED
    BY <1>3, <1>4 DEF IInv, Unpatched

\* A loop begins at a label.
LEMMA TopStart ==
    ASSUME IInv, frames # << >>
    PROVE  Top.start \in Int /\ (Top.fn \in Loops => Top.start \in Marks(Top))
BY TopFacts DEF IInv, Activation, Marks

LEMMA EndIfStep ==
    ASSUME IInv, EndIf
    PROVE  IInv'
<1>1. /\ frames # << >> /\ Top.fn \notin {"function", "block", "switch"} /\ NumPending(Top.fn) = 1
      /\ frames' = Below
    BY DEF EndIf, IInv, Control, NumPending
<1>2. Typed /\ Here = Len(il) /\ Here \in Nat /\ Here \in Int
    BY <1>1, TopInBlock
<1> DEFINE s == << Plain("op_label") >>
           p == Top.pending[1]
<1>3. s \in Seq(Instruction) /\ Len(s) = 1 /\ s[1].op = "op_label"
    BY DEF Plain, Instr, Instruction, Ops
<1>4. il' = Patch(il \o s, p, Here)
    <2>1. Plain("op_label") \in Instruction
        BY DEF Plain, Instr, Instruction, Ops
    <2> QED
        BY <1>2, <2>1, AppendedOne DEF EndIf
<1> HIDE DEF s
<1>5. Pendings(Top) = {p} /\ p \in Indices /\ JumpsAt(p)
    BY <1>1, TopPending
<1>6. Adds(s) /\ Grows({p}) /\ il'[p + 1].arg = Here
    BY <1>2, <1>3, <1>4, <1>5, ExtendedPatched
<1>7. New = {Here} /\ il'[Here + 1] = s[1]
    BY <1>2, <1>3, <1>6, AddedOne
<1>8. Repairs(Pendings(Top), {})
    BY <1>3, <1>5, <1>6, <1>7 DEF Repairs, NewLabel, JumpOps
<1>9. Straight
    <2>1. blocks' = blocks
        BY DEF EndIf
    <2>2. \A k \in 1..Len(s) : s[k].op \notin BlockOps
        BY <1>3 DEF BlockOps
    <2> QED
        BY <1>2, <1>6, <2>1, <2>2, StraightCode
<1>10. source' \in Seq(TokenRecord) /\ UNCHANGED <<breaks, functions>>
    BY <1>2 DEF EndIf, Typed
<1>11. pc' \in {"returned", "returned, no else"}
    BY DEF EndIf
<1> QED
    BY <1>1, <1>5, <1>6, <1>8, <1>9, <1>10, <1>11, PopStep

LEMMA EndLoopStep ==
    ASSUME IInv, EndLoop
    PROVE  IInv'
<1>1. /\ frames # << >> /\ Top.fn \notin {"function", "block", "switch"} /\ NumPending(Top.fn) = 1
      /\ frames' = Below /\ Top.fn \in Loops
    BY DEF EndLoop, IInv, Control, NumPending, Loops
<1>2. Typed /\ Here = Len(il) /\ Here \in Nat /\ Here + 1 \in Int
    BY <1>1, TopInBlock
<1> DEFINE s == << Instr("op_jump", Top.start), Plain("op_label") >>
           p == Top.pending[1]
<1>3. /\ s \in Seq(Instruction) /\ Len(s) = 2
      /\ s[1].op = "op_jump" /\ s[1].arg \in Marks(Top) /\ s[2].op = "op_label"
    BY <1>1, TopStart DEF Plain, Instr, Instruction, Ops
<1>4. il' = Patch(il \o s, p, Here + 1)
    BY DEF EndLoop
<1> HIDE DEF s
<1>5. Pendings(Top) = {p} /\ p \in Indices /\ JumpsAt(p)
    BY <1>1, TopPending
<1>6. Adds(s) /\ Grows({p}) /\ il'[p + 1].arg = Here + 1
    BY <1>2, <1>3, <1>4, <1>5, ExtendedPatched, ZenonT(30)
<1>7. New = {Here, Here + 1} /\ il'[Here + 1] = s[1] /\ il'[(Here + 1) + 1] = s[2]
    BY <1>2, <1>3, <1>6, AddedTwo
<1>8. Repairs(Pendings(Top), {})
    BY <1>3, <1>5, <1>6, <1>7 DEF Repairs, NewLabel, JumpOps
<1>9. Straight
    <2>1. blocks' = blocks
        BY DEF EndLoop
    <2>2. \A k \in 1..Len(s) : s[k].op \notin BlockOps
        BY <1>3 DEF BlockOps
    <2> QED
        BY <1>2, <1>6, <2>1, <2>2, StraightCode
<1>10. source' \in Seq(TokenRecord) /\ UNCHANGED <<breaks, functions>>
    BY <1>2 DEF EndLoop, Typed
<1>11. pc' \in {"returned", "returned, no else"}
    BY DEF EndLoop
<1> QED
    BY <1>1, <1>5, <1>6, <1>8, <1>9, <1>10, <1>11, PopStep

LEMMA EndDoStep ==
    ASSUME IInv, EndDo
    PROVE  IInv'
<1>1. /\ frames # << >> /\ Top.fn \notin {"function", "block", "switch"} /\ NumPending(Top.fn) = 0
      /\ frames' = Below /\ Top.fn \in Loops
    BY DEF EndDo, IInv, Control, NumPending, Loops
<1>2. Typed /\ Here = Len(il) /\ Here \in Nat /\ Here \in Int
    BY <1>1, TopInBlock
<1> DEFINE s == << Plain("condition"), Instr("op_jnz", Top.start) >>
<1>3. /\ s \in Seq(Instruction) /\ Len(s) = 2
      /\ s[1].op = "condition" /\ s[2].arg \in Marks(Top) /\ s[2].op = "op_jnz"
    BY <1>1, TopStart DEF Plain, Instr, Instruction, Ops
<1>4. il' = il \o s
    BY DEF EndDo
<1> HIDE DEF s
<1>5. Pendings(Top) = {}
    <2>1. Len(Top.pending) = 0
        BY <1>1, <1>2, TopFacts DEF IInv, Stack
    <2> QED
        BY <2>1 DEF Pendings
<1>6. Adds(s) /\ Grows({})
    BY <1>2, <1>3, <1>4, Extended
<1>7. New = {Here, Here + 1} /\ il'[Here + 1] = s[1] /\ il'[(Here + 1) + 1] = s[2]
    BY <1>2, <1>3, <1>6, AddedTwo
<1>8. Repairs(Pendings(Top), {})
    BY <1>3, <1>5, <1>7 DEF Repairs, JumpOps
<1>9. Straight
    <2>1. blocks' = blocks
        BY DEF EndDo
    <2>2. \A k \in 1..Len(s) : s[k].op \notin BlockOps
        BY <1>3 DEF BlockOps
    <2> QED
        BY <1>2, <1>6, <2>1, <2>2, StraightCode
<1>10. source' \in Seq(TokenRecord)
    <2>1. PICK kind \in TokenKinds : Consume(kind, Here, {})
        BY Zenon DEF EndDo, TokenKinds, Closing
    <2> QED
        BY <1>2, <2>1, Consumed
<1>11. pc' \in {"returned", "returned, no else"} /\ UNCHANGED <<breaks, functions>>
    BY DEF EndDo
<1> QED
    BY <1>1, <1>5, <1>6, <1>8, <1>9, <1>10, <1>11, PopStep
LEMMA ElseStep ==
    ASSUME IInv, Else
    PROVE  IInv'
<1> DEFINE f == Frame("else", Top.block, << Here >>, 0)
           s == << Instr("op_jump", Unset), Plain("op_label") >>
           p == Top.pending[1]
           n == Len(frames) - 1
<1>1. /\ frames # << >> /\ Top.fn \notin {"function", "block", "switch"} /\ NumPending(Top.fn) = 1
      /\ frames' = Append(Below, f) /\ il' = Patch(il \o s, p, Here + 1)
      /\ blocks' = blocks /\ pc' = "statement" /\ UNCHANGED <<breaks, functions>>
    BY DEF Else, IInv, Control, NumPending
<1>2. Typed /\ Stack /\ Top.block \in Nat /\ Here = Len(il) /\ Here \in Nat /\ Here + 1 \in Int
    BY <1>1, TopInBlock DEF IInv
<1>3. /\ s \in Seq(Instruction) /\ Len(s) = 2
      /\ s[1].op = "op_jump" /\ s[1].arg = Unset /\ s[2].op = "op_label"
    BY DEF Plain, Instr, Instruction, Ops, Unset
<1> HIDE DEF s
<1>4. /\ f \in Activation /\ f.fn = "else" /\ f.block = Top.block /\ f.pending = << Here >>
      /\ f.start = 0 /\ Marks(f) = {}
    <2>1. "else" \in Fns /\ "else" \notin Loops /\ << Here >> \in Seq(Nat) /\ 0 \in Nat
        BY <1>2, OnePending DEF Fns, Loops
    <2>2. Fresh(f, "else", Top.block, << Here >>, 0)
        BY <1>2, <2>1, FrameFacts
    <2> HIDE DEF f
    <2> QED
        BY <2>1, <2>2 DEF Fresh
<1> HIDE DEF f
<1>5. Pendings(f) = {Here} /\ Len(f.pending) = 1
    BY <1>2, <1>4, OnePending
<1>6. Pendings(Top) = {p} /\ p \in Indices /\ JumpsAt(p)
    BY <1>1, TopPending
<1>7. Adds(s) /\ Grows({p}) /\ il'[p + 1].arg = Here + 1
    BY <1>1, <1>2, <1>3, <1>6, ExtendedPatched
<1>8. New = {Here, Here + 1} /\ il'[Here + 1] = s[1] /\ il'[(Here + 1) + 1] = s[2]
    BY <1>2, <1>3, <1>7, AddedTwo
<1>9. Repairs(Pendings(Top), Pendings(f))
    BY <1>3, <1>5, <1>6, <1>7, <1>8 DEF Repairs, NewLabel, JumpOps
<1>10. Straight
    <2>1. \A k \in 1..Len(s) : s[k].op \notin BlockOps
        BY <1>3 DEF BlockOps
    <2> QED
        BY <1>1, <1>2, <1>7, <2>1, StraightCode
<1>11. Begins(f)
    <2>1. 0 \in Indices'
        BY <1>2, <1>7, AddedCode DEF Indices, Grows, Typed
    <2> QED
        BY <1>1, <1>4, <1>5, <1>8, <2>1 DEF Begins, NumPending
<1>12. source' \in Seq(TokenRecord)
    <2>1. PICK kind \in TokenKinds : Consume(kind, 0, {})
        BY Zenon DEF Else, TokenKinds, Closing
    <2> QED
        BY <1>2, <2>1, Consumed
<1>13. /\ Leaves(n) /\ n < Len(frames') /\ n < Len(frames) /\ frames'[n + 1] = f /\ Top' = f
       /\ Ended(n) = Pendings(Top) /\ Begun(n) = Pendings(f) /\ frames' # << >>
    BY <1>1, <1>2, <1>4, Replaces
<1>14. SameSwitches(n)
    BY <1>1, <1>4, <1>13 DEF SameSwitches
<1>15. Control'
    BY <1>1, <1>4, <1>13 DEF Control
<1>16. Increasing(frames'[n + 1].pending)
    BY <1>5, <1>13 DEF Increasing
<1> HIDE DEF n
<1> QED
    BY <1>1, <1>6, <1>7, <1>9, <1>10, <1>11, <1>12, <1>13, <1>14, <1>15, <1>16, BodyStep

\* s is l with r behind it.
Joins(s, l, r) ==
    /\ Len(l) \in Nat /\ Len(r) \in Nat /\ Len(s) = Len(l) + Len(r)
    /\ \A k \in 1..Len(l) : s[k] = l[k]
    /\ \A k \in 1..Len(r) : s[Len(l) + k] = r[k]

LEMMA Joined ==
    ASSUME NEW S, NEW l \in Seq(S), NEW r \in Seq(S)
    PROVE  l \o r \in Seq(S) /\ Joins(l \o r, l, r)
<1> DEFINE s == l \o r
<1>1. Len(l) \in Nat /\ Len(r) \in Nat
    BY LenProperties
<1>2. /\ s \in Seq(S) /\ Len(s) = Len(l) + Len(r)
      /\ \A i \in 1..(Len(l) + Len(r)) : s[i] = IF i <= Len(l) THEN l[i] ELSE r[i - Len(l)]
    BY ConcatProperties
<1> HIDE DEF s
<1>3. ASSUME NEW k \in 1..Len(r) PROVE s[Len(l) + k] = r[k]
    <2>1. /\ Len(l) + k \in 1..(Len(l) + Len(r)) /\ ~(Len(l) + k <= Len(l))
          /\ (Len(l) + k) - Len(l) = k
        BY <1>1
    <2> QED
        BY <1>2, <2>1
<1>4. \A k \in 1..Len(l) : s[k] = l[k]
    BY <1>1, <1>2
<1>5. s \in Seq(S) /\ Joins(s, l, r)
    BY <1>1, <1>2, <1>3, <1>4 DEF Joins
<1> QED
    BY <1>5 DEF s

\* Four pieces of code, one behind the other.
LEMMA FourPieces ==
    ASSUME NEW a, NEW b, NEW c, NEW d, NEW l, NEW r, NEW s,
           Joins(l, a, b), Joins(r, c, d), Joins(s, l, r)
    PROVE  /\ Len(s) = Len(a) + Len(b) + Len(c) + Len(d)
           /\ \A k \in 1..Len(a) : s[k] = a[k]
           /\ \A k \in 1..Len(b) : s[Len(a) + k] = b[k]
           /\ \A k \in 1..Len(c) : s[Len(a) + Len(b) + k] = c[k]
           /\ \A k \in 1..Len(d) : s[Len(a) + Len(b) + Len(c) + k] = d[k]
<1>1. Len(a) \in Nat /\ Len(b) \in Nat /\ Len(c) \in Nat /\ Len(d) \in Nat
    BY DEF Joins
<1>2. Len(l) = Len(a) + Len(b) /\ Len(r) = Len(c) + Len(d) /\ Len(s) = Len(l) + Len(r)
    BY DEF Joins
<1>3. Len(s) = Len(a) + Len(b) + Len(c) + Len(d)
    BY <1>1, <1>2
<1>4. ASSUME NEW k \in 1..Len(a) PROVE s[k] = a[k]
    <2>1. k \in 1..Len(l)
        BY <1>1, <1>2
    <2> QED
        BY <2>1 DEF Joins
<1>5. ASSUME NEW k \in 1..Len(b) PROVE s[Len(a) + k] = b[k]
    <2>1. Len(a) + k \in 1..Len(l)
        BY <1>1, <1>2
    <2> QED
        BY <2>1 DEF Joins
<1>6. ASSUME NEW k \in 1..Len(c) PROVE s[Len(a) + Len(b) + k] = c[k]
    <2>1. k \in 1..Len(r)
        BY <1>1, <1>2
    <2> QED
        BY <1>2, <2>1 DEF Joins
<1>7. ASSUME NEW k \in 1..Len(d) PROVE s[Len(a) + Len(b) + Len(c) + k] = d[k]
    <2>1. Len(c) + k \in 1..Len(r) /\ Len(a) + Len(b) + (Len(c) + k) = Len(a) + Len(b) + Len(c) + k
        BY <1>1, <1>2
    <2>2. s[Len(l) + (Len(c) + k)] = r[Len(c) + k] /\ r[Len(c) + k] = d[k]
        BY <2>1 DEF Joins
    <2> QED
        BY <1>2, <2>1, <2>2
<1> QED
    BY <1>3, <1>4, <1>5, <1>6, <1>7

\* The code of a for, whose setup (x) and step (z) may be missing.
IsFor(s, x, z, at, body) ==
    /\ s \in Seq(Instruction) /\ Len(s) = x + z + 7
    /\ x = 1 => s[1].op = "statement"
    /\ s[x + 1].op = "op_label" /\ s[x + 2].op \in {"condition", "op_load_numeric_constant"}
    /\ s[x + 3].op = "op_jz" /\ s[x + 3].arg = Unset
    /\ s[x + 4].op = "op_jump" /\ s[x + 4].arg = body
    /\ s[x + 5].op = "op_label"
    /\ z = 1 => s[x + 6].op = "statement"
    /\ s[x + z + 6].op = "op_jump" /\ s[x + z + 6].arg = at
    /\ s[x + z + 7].op = "op_label"

\* A statement that may be missing.
Optional == {<< >>, << Plain("statement") >>}

LEMMA OptionalFacts ==
    ASSUME NEW s \in Optional
    PROVE  /\ s \in Seq(Instruction) /\ Len(s) \in {0, 1}
           /\ Len(s) = 1 => s[1].op = "statement"
<1>1. Plain("statement") \in Instruction /\ Plain("statement").op = "statement"
    BY DEF Plain, Instr, Instruction, Ops
<1>2. CASE s = << >>
    BY <1>2, EmptySeq
<1>3. CASE s = << Plain("statement") >>
    BY <1>1, <1>3
<1> QED
    BY <1>2, <1>3 DEF Optional

\* The parts of the code between setup and step, and behind step.
IsHead(five, body) ==
    /\ five \in Seq(Instruction) /\ Len(five) = 5
    /\ five[1].op = "op_label" /\ five[2].op \in {"condition", "op_load_numeric_constant"}
    /\ five[3].op = "op_jz" /\ five[3].arg = Unset /\ five[4].op = "op_jump" /\ five[4].arg = body
    /\ five[5].op = "op_label"

IsTail(two, at) ==
    /\ two \in Seq(Instruction) /\ Len(two) = 2
    /\ two[1].op = "op_jump" /\ two[1].arg = at /\ two[2].op = "op_label"

LEMMA HeadAndTail ==
    ASSUME NEW test \in {Plain("condition"), Instr("op_load_numeric_constant", 1)},
           NEW at \in Int, NEW body \in Int
    PROVE  /\ IsHead(<< Plain("op_label"), test, Instr("op_jz", Unset), Instr("op_jump", body),
                         Plain("op_label") >>, body)
           /\ IsTail(<< Instr("op_jump", at), Plain("op_label") >>, at)
BY DEF IsHead, IsTail, Plain, Instr, Instruction, Ops, Unset

LEMMA JoinsAssociate ==
    ASSUME NEW abc, NEW a, NEW b, NEW c, NEW ab, NEW bc,
           Joins(ab, a, b), Joins(abc, ab, c), Joins(bc, b, c)
    PROVE  Joins(abc, a, bc)
<1>1. /\ Len(a) \in Nat /\ Len(b) \in Nat /\ Len(c) \in Nat
      /\ Len(ab) = Len(a) + Len(b) /\ Len(bc) = Len(b) + Len(c) /\ Len(abc) = Len(ab) + Len(c)
    BY DEF Joins
<1>2. Len(bc) \in Nat /\ Len(abc) = Len(a) + Len(bc)
    BY <1>1
<1>3. ASSUME NEW i \in 1..Len(a) PROVE abc[i] = a[i]
    <2>1. i \in 1..Len(ab)
        BY <1>1
    <2> QED
        BY <2>1 DEF Joins
<1>4. ASSUME NEW i \in 1..Len(bc) PROVE abc[Len(a) + i] = bc[i]
    <2>1. CASE i <= Len(b)
        <3>1. i \in 1..Len(b) /\ Len(a) + i \in 1..Len(ab)
            BY <1>1, <2>1
        <3> QED
            BY <3>1 DEF Joins
    <2>2. CASE ~(i <= Len(b))
        <3>1. PICK k \in 1..Len(c) : i = Len(b) + k
            <4>1. i - Len(b) \in 1..Len(c) /\ i = Len(b) + (i - Len(b))
                BY <1>1, <2>2
            <4> QED
                BY <4>1
        <3>2. Len(a) + i = Len(ab) + k
            BY <1>1, <3>1
        <3>3. abc[Len(ab) + k] = c[k] /\ bc[Len(b) + k] = c[k]
            BY <3>1 DEF Joins
        <3> QED
            BY <3>1, <3>2, <3>3
    <2> QED
        BY <2>1, <2>2
<1> QED
    BY <1>1, <1>2, <1>3, <1>4 DEF Joins

\* Four pieces appended one by one are appended as one.
LEMMA FourAppended ==
    ASSUME NEW S, NEW code \in Seq(S), NEW a \in Seq(S), NEW b \in Seq(S), NEW c \in Seq(S), NEW d \in Seq(S)
    PROVE  /\ code \o a \o b \o c \o d \in Seq(S)
           /\ Joins(code \o a \o b \o c \o d, code, (a \o b) \o (c \o d))
<1> DEFINE x1 == code \o a
           x2 == x1 \o b
           x3 == x2 \o c
           x4 == x3 \o d
           l == a \o b
           r == c \o d
           s == l \o r
<1>1. x1 \in Seq(S) /\ Joins(x1, code, a) /\ l \in Seq(S) /\ Joins(l, a, b) /\ r \in Seq(S) /\ Joins(r, c, d)
    BY Joined
<1> HIDE DEF x1, l, r
<1>2. x2 \in Seq(S) /\ Joins(x2, x1, b) /\ Joins(s, l, r)
    BY <1>1, Joined
<1> HIDE DEF x2, s
<1>3. x3 \in Seq(S) /\ Joins(x3, x2, c)
    BY <1>2, Joined
<1> HIDE DEF x3
<1>4. x4 \in Seq(S) /\ Joins(x4, x3, d)
    BY <1>3, Joined
<1> HIDE DEF x4
<1>5. Joins(x2, code, l)
    BY <1>1, <1>2, JoinsAssociate
<1>6. Joins(x4, x2, r)
    BY <1>1, <1>3, <1>4, JoinsAssociate
<1>7. Joins(x4, code, s)
    BY <1>2, <1>5, <1>6, JoinsAssociate
<1> QED
    BY <1>4, <1>7 DEF x1, x2, x3, x4, l, r, s

LEMMA JoinedCode ==
    ASSUME Typed, NEW s \in Seq(Instruction), il' \in Seq(Instruction), Joins(il', il, s)
    PROVE  Adds(s) /\ Grows({})
<1>1. Len(il) \in Nat /\ Len(s) \in Nat /\ Len(il') = Len(il) + Len(s)
    BY DEF Joins
<1>2. \A i \in Indices : i + 1 \in 1..Len(il)
    BY <1>1 DEF Indices
<1> QED
    BY <1>1, <1>2 DEF Adds, Grows, Joins

LEMMA ForPieces ==
    ASSUME NEW setup \in Optional, NEW step \in Optional, NEW at, NEW body,
           NEW five, IsHead(five, body), NEW two, IsTail(two, at)
    PROVE  IsFor((setup \o five) \o (step \o two), Len(setup), Len(step), at, body)
<1> DEFINE x == Len(setup)
           z == Len(step)
           l == setup \o five
           r == step \o two
           s == l \o r
<1>1. /\ setup \in Seq(Instruction) /\ x \in {0, 1} /\ step \in Seq(Instruction) /\ z \in {0, 1}
      /\ x = 1 => setup[1].op = "statement"
      /\ z = 1 => step[1].op = "statement"
    BY OptionalFacts
<1>2. five \in Seq(Instruction) /\ two \in Seq(Instruction) /\ Len(five) = 5 /\ Len(two) = 2
    BY DEF IsHead, IsTail
<1>3. /\ l \in Seq(Instruction) /\ Joins(l, setup, five)
      /\ r \in Seq(Instruction) /\ Joins(r, step, two)
    BY <1>1, <1>2, Joined
<1> HIDE DEF l, r
<1>4. s \in Seq(Instruction) /\ Joins(s, l, r)
    BY <1>3, Joined
<1> HIDE DEF s
<1>5. /\ Len(s) = x + Len(five) + z + Len(two)
      /\ \A k \in 1..x : s[k] = setup[k]
      /\ \A k \in 1..Len(five) : s[x + k] = five[k]
      /\ \A k \in 1..z : s[x + Len(five) + k] = step[k]
      /\ \A k \in 1..Len(two) : s[x + Len(five) + z + k] = two[k]
    BY <1>3, <1>4, FourPieces
<1> HIDE DEF x, z
<1>6. 1 \in 1..5 /\ 2 \in 1..5 /\ 3 \in 1..5 /\ 4 \in 1..5 /\ 5 \in 1..5 /\ 1 \in 1..2 /\ 2 \in 1..2
    OBVIOUS
<1>7. /\ s[x + 1] = five[1] /\ s[x + 2] = five[2] /\ s[x + 3] = five[3]
      /\ s[x + 4] = five[4] /\ s[x + 5] = five[5]
    BY <1>2, <1>5, <1>6
<1>8. /\ s[x + 5 + z + 1] = two[1] /\ s[x + 5 + z + 2] = two[2] /\ Len(s) = x + 5 + z + 2
    BY <1>2, <1>5, <1>6
<1>9. x = 1 => s[1].op = "statement"
    BY <1>1, <1>5
<1>10. z = 1 => s[x + 5 + 1].op = "statement"
    BY <1>1, <1>2, <1>5
<1>11. x + 5 + z + 2 = x + z + 7 /\ x + 5 + z + 1 = x + z + 6 /\ x + 5 + 1 = x + 6
    BY <1>1
<1>12. IsFor(s, x, z, at, body)
    BY <1>4, <1>7, <1>8, <1>9, <1>10, <1>11 DEF IsFor, IsHead, IsTail
<1> QED
    BY <1>12 DEF x, z, s, l, r

\* Where its labels are, and where its three jumps lead.
LEMMA ForCode ==
    ASSUME Typed, NEW s, Adds(s), NEW x \in {0, 1}, NEW z \in {0, 1},
           NEW at, at = Here + x, NEW body, body = at + 6 + z, IsFor(s, x, z, at, body)
    PROVE  /\ NewLabel(at) /\ NewLabel(at + 4) /\ NewLabel(body)
           /\ at + 2 \in New /\ il'[(at + 2) + 1].op = "op_jz" /\ il'[(at + 2) + 1].arg = Unset
           /\ \A i \in New : /\ il'[i + 1].op \notin BlockOps
                             /\ il'[i + 1].op \in JumpOps => i = at + 2 \/ il'[i + 1].arg \in {at, body}
<1>1. Here = Len(il) /\ Here \in Nat /\ Len(s) = x + z + 7
    BY HereIsInt DEF Here, IsFor
<1>2. ASSUME NEW k \in 1..Len(s), NEW i, i = Here + k - 1 PROVE i \in New /\ il'[i + 1] = s[k]
    BY <1>1, <1>2, AddedCode
<1>3. /\ x + 1 \in 1..Len(s) /\ x + 3 \in 1..Len(s) /\ x + 5 \in 1..Len(s) /\ x + z + 7 \in 1..Len(s)
    BY <1>1
<1>4. /\ at = Here + (x + 1) - 1 /\ at + 2 = Here + (x + 3) - 1 /\ at + 4 = Here + (x + 5) - 1
      /\ body = Here + (x + z + 7) - 1
    BY <1>1
<1>5. /\ at \in New /\ il'[at + 1] = s[x + 1]
      /\ at + 2 \in New /\ il'[(at + 2) + 1] = s[x + 3]
      /\ at + 4 \in New /\ il'[(at + 4) + 1] = s[x + 5]
      /\ body \in New /\ il'[body + 1] = s[x + z + 7]
    BY <1>2, <1>3, <1>4, Zenon
<1>6. ASSUME NEW i \in New
      PROVE  /\ il'[i + 1].op \notin BlockOps
             /\ il'[i + 1].op \in JumpOps => i = at + 2 \/ il'[i + 1].arg \in {at, body}
    <2>1. PICK k \in 1..Len(s) : i = Here + k - 1 /\ il'[i + 1] = s[k]
        BY <1>1, AddedCode
    <2>2. \/ (x = 1 /\ k = 1) \/ (z = 1 /\ k = x + 6)
          \/ k = x + 1 \/ k = x + 2 \/ k = x + 4 \/ k = x + 5 \/ k = x + z + 6 \/ k = x + z + 7
          \/ k = x + 3
        BY <1>1
    <2>3. CASE (x = 1 /\ k = 1) \/ (z = 1 /\ k = x + 6)
        BY <2>1, <2>3 DEF IsFor, BlockOps, JumpOps
    <2>4. CASE k = x + 1 \/ k = x + 2 \/ k = x + 4 \/ k = x + 5 \/ k = x + z + 6 \/ k = x + z + 7
        BY <2>1, <2>4 DEF IsFor, BlockOps, JumpOps
    <2>5. CASE k = x + 3
        <3>1. i = at + 2
            BY <1>1, <1>4, <2>1, <2>5
        <3> QED
            BY <2>1, <2>5, <3>1 DEF IsFor, BlockOps
    <2> QED
        BY <2>2, <2>3, <2>4, <2>5
<1> QED
    BY <1>5, <1>6 DEF NewLabel, IsFor

LEMMA ForStep ==
    ASSUME IInv, For
    PROVE  IInv'
<1>1. frames # << >> /\ Top.fn # "function"
    BY ReadsFacts DEF For
<1>2. Typed /\ Top.block \in Nat /\ Here = Len(il) /\ Here \in Nat /\ il \in Seq(Instruction)
    BY <1>1, TopInBlock DEF Typed
<1>3. PICK parts \in SUBSET {"setup", "condition", "increment"},
           setup \in Optional, step \in Optional,
           test \in {Plain("condition"), Instr("op_load_numeric_constant", 1)} :
           \E at, body :
               /\ at = Here + Len(setup) /\ body = at + 6 + Len(step)
               /\ il' = il \o setup
                          \o << Plain("op_label"), test, Instr("op_jz", Unset), Instr("op_jump", body),
                                Plain("op_label") >>
                          \o step \o << Instr("op_jump", at), Plain("op_label") >>
               /\ Enter(Frame("for", Top.block, << at + 2 >>, at + 4))
               /\ Consume("for", at, parts)
    BY Zenon DEF For, Optional
<1>3a. PICK at, body :
           /\ at = Here + Len(setup) /\ body = at + 6 + Len(step)
           /\ il' = il \o setup
                      \o << Plain("op_label"), test, Instr("op_jz", Unset), Instr("op_jump", body),
                            Plain("op_label") >>
                      \o step \o << Instr("op_jump", at), Plain("op_label") >>
           /\ Enter(Frame("for", Top.block, << at + 2 >>, at + 4))
           /\ Consume("for", at, parts)
    BY <1>3, Zenon
<1>4. /\ frames' = Append(frames, Frame("for", Top.block, << at + 2 >>, at + 4)) /\ pc' = "statement"
      /\ blocks' = blocks /\ UNCHANGED <<breaks, functions>>
    BY <1>3a, Zenon DEF Enter, For
<1>5. Len(setup) \in {0, 1} /\ setup \in Seq(Instruction) /\ Len(step) \in {0, 1} /\ step \in Seq(Instruction)
    BY OptionalFacts
<1>6. at \in Nat /\ at \in Int /\ body \in Int /\ at + 2 \in Nat /\ at + 4 \in Nat
    BY <1>2, <1>3a, <1>5, SMTT(30)
<1> DEFINE five == << Plain("op_label"), test, Instr("op_jz", Unset), Instr("op_jump", body),
                      Plain("op_label") >>
           two == << Instr("op_jump", at), Plain("op_label") >>
           s == (setup \o five) \o (step \o two)
           f == Frame("for", Top.block, << at + 2 >>, at + 4)
<1>7. IsHead(five, body) /\ IsTail(two, at)
    BY <1>6, HeadAndTail
<1>8. il' = il \o setup \o five \o step \o two
    BY <1>3a
<1> HIDE DEF five, two
<1>9. il' \in Seq(Instruction) /\ Joins(il', il, s)
    <2>1. five \in Seq(Instruction) /\ two \in Seq(Instruction)
        BY <1>7 DEF IsHead, IsTail
    <2> QED
        BY <1>2, <1>5, <1>8, <2>1, FourAppended
<1> DEFINE x == Len(setup)
           z == Len(step)
<1>10. IsFor(s, x, z, at, body)
    BY <1>7, ForPieces
<1> HIDE DEF s
<1>11. Adds(s) /\ Grows({})
    BY <1>2, <1>9, <1>10, JoinedCode DEF IsFor
<1>12. /\ NewLabel(at) /\ NewLabel(at + 4) /\ NewLabel(body)
       /\ at + 2 \in New /\ il'[(at + 2) + 1].op = "op_jz" /\ il'[(at + 2) + 1].arg = Unset
       /\ \A i \in New : /\ il'[i + 1].op \notin BlockOps
                         /\ il'[i + 1].op \in JumpOps => i = at + 2 \/ il'[i + 1].arg \in {at, body}
    <2>1. at = Here + x /\ body = at + 6 + z
        BY <1>3a
    <2>2. Typed /\ x \in {0, 1} /\ z \in {0, 1}
        BY <1>2, <1>5
    <2> HIDE DEF x, z
    <2> QED
        BY <1>10, <1>11, <2>1, <2>2, ForCode
<1>13. /\ f \in Activation /\ f.fn = "for" /\ f.block = Top.block /\ f.pending = << at + 2 >>
       /\ f.start = at + 4 /\ Marks(f) = {at + 4}
    <2>1. "for" \in Fns /\ "for" \in Loops /\ << at + 2 >> \in Seq(Nat)
        BY <1>6, OnePending DEF Fns, Loops
    <2>2. Fresh(f, "for", Top.block, << at + 2 >>, at + 4)
        BY <1>2, <1>6, <2>1, FrameFacts
    <2> HIDE DEF f
    <2> QED
        BY <2>1, <2>2 DEF Fresh
<1>14. frames' = Append(frames, f)
    BY <1>4
<1> HIDE DEF f
<1>15. Pendings(f) = {at + 2} /\ Len(f.pending) = 1 /\ Len(f.pending) <= 1
    BY <1>6, <1>13, OnePending
<1>16. Repairs({}, Pendings(f))
    BY <1>12, <1>15 DEF Repairs, JumpOps
<1>17. Straight
    BY <1>2, <1>4, <1>12, BlocksKept DEF Straight
<1>18. Begins(f)
    <2>1. at + 4 \in Indices'
        BY <1>2, <1>12 DEF Indices, New, NewLabel
    <2> QED
        BY <1>1, <1>12, <1>13, <1>15, <2>1 DEF Begins, NumPending
<1>19. source' \in Seq(TokenRecord)
    <2>1. "for" \in TokenKinds /\ parts \subseteq Parts
        BY DEF TokenKinds, AllKinds, Parts
    <2> QED
        BY <1>2, <1>3a, <1>6, <2>1, Consumed
<1> QED
    BY <1>1, <1>4, <1>11, <1>13, <1>14, <1>15, <1>16, <1>17, <1>18, <1>19, PushStep

-----------------------------------------------------------------------------
(* switch                                                                  *)

\* The exit jumps of the switches are among the jumps to patch.
LEMMA ExitsPending ==
    ASSUME IInv
    PROVE  /\ AllPending \subseteq Indices /\ Exits \subseteq AllPending
           /\ \A e \in Exits : e \in Nat /\ e < Len(il)
<1>1. \A k \in 1..Len(frames) : frames[k].fn = "switch" => frames[k].pending[2] \in Pendings(frames[k])
    BY DEF IInv, Stack, NumPending, Pendings
<1>2. Exits \subseteq AllPending
    BY <1>1 DEF Exits, AllPending
<1>3. AllPending \subseteq Indices
    BY DEF IInv, Unpatched
<1>4. \A i \in Indices : i \in Nat /\ i < Len(il)
    BY LenProperties DEF IInv, Typed, Indices
<1> QED
    BY <1>2, <1>3, <1>4

LEMMA TwoPending ==
    ASSUME NEW p \in Nat, NEW q \in Nat
    PROVE  /\ << p, q >> \in Seq(Nat) /\ Len(<< p, q >>) = 2
           /\ \A f : f.pending = << p, q >> => Pendings(f) = {p, q} /\ f.pending[1] = p /\ f.pending[2] = q
<1>1. << p, q >> \in Seq(Nat) /\ Len(<< p, q >>) = 2 /\ << p, q >>[1] = p /\ << p, q >>[2] = q
    OBVIOUS
<1>2. ASSUME NEW f, f.pending = << p, q >>
      PROVE  Pendings(f) = {p, q} /\ f.pending[1] = p /\ f.pending[2] = q
    <2>1. 1..2 = {1, 2}
        OBVIOUS
    <2> QED
        BY <1>1, <1>2, <2>1 DEF Pendings
<1> QED
    BY <1>1, <1>2

\* A switch that opens: its exit jump is the last of breaks.
LEMMA OpenedSwitch ==
    ASSUME IInv, frames # << >>, NEW n, n = Len(frames), Leaves(n), Len(frames') = n + 1,
           frames'[n + 1].fn = "switch", NEW e \in Nat, frames'[n + 1].pending[2] = e, e >= Len(il),
           breaks' = Append(breaks, e)
    PROVE  Exits' = Exits \cup {e} /\ Breaks' /\ breaks' \in Seq(Nat)
<1>1. n \in Nat \ {0} /\ breaks \in Seq(Nat) /\ Len(breaks) \in Nat
    BY TopFacts, LenProperties DEF IInv, Typed
<1>2. \A k \in 1..n : frames'[k] = frames[k]
    BY DEF Leaves, Stays
<1>3. 1..(n + 1) = (1..n) \cup {n + 1}
    BY <1>1
<1>4. Exits' = Exits \cup {e}
    <2>1. \A x : x \in Exits' <=> \E k \in 1..(n + 1) : frames'[k].fn = "switch" /\ x = frames'[k].pending[2]
        BY DEF Exits
    <2>2. \A x : x \in Exits <=> \E k \in 1..n : frames[k].fn = "switch" /\ x = frames[k].pending[2]
        BY DEF Exits
    <2> QED
        BY <1>2, <1>3, <2>1, <2>2
<1>5. /\ breaks' \in Seq(Nat) /\ Len(breaks') = Len(breaks) + 1
      /\ \A m \in 1..Len(breaks) : breaks'[m] = breaks[m]
      /\ breaks'[Len(breaks) + 1] = e
    BY <1>1, AppendProperties
<1>6. 1..Len(breaks') = (1..Len(breaks)) \cup {Len(breaks) + 1}
    BY <1>1, <1>5
<1>7. {breaks'[m] : m \in 1..Len(breaks')} = Exits \cup {e}
    <2>1. {breaks[m] : m \in 1..Len(breaks)} = Exits
        BY DEF IInv, Breaks
    <2> QED
        BY <1>5, <1>6, <2>1
<1>8. ASSUME NEW l \in 1..Len(breaks'), NEW m \in 1..Len(breaks'), l < m PROVE breaks'[l] < breaks'[m]
    <2>1. l \in 1..Len(breaks)
        BY <1>1, <1>5, <1>8
    <2>2. breaks[l] \in Nat /\ breaks[l] < Len(il)
        <3>1. breaks[l] \in Exits
            BY <2>1 DEF IInv, Breaks
        <3> QED
            BY <3>1, ExitsPending
    <2>3. CASE m \in 1..Len(breaks)
        BY <1>5, <1>8, <2>1, <2>3 DEF IInv, Breaks
    <2>4. CASE m = Len(breaks) + 1
        <3>1. breaks[l] < e
            BY <2>2, HereIsInt DEF IInv, Here
        <3> QED
            BY <1>5, <2>1, <2>4, <3>1
    <2> QED
        BY <1>6, <2>3, <2>4
<1> QED
    BY <1>4, <1>5, <1>7, <1>8 DEF Breaks

LEMMA SwitchStep ==
    ASSUME IInv, Switch
    PROVE  IInv'
<1>1. frames # << >> /\ Top.fn # "function"
    BY ReadsFacts, ReadsReadsOn DEF Switch
<1>2. /\ Typed /\ Top.block \in Nat /\ Here = Len(il) /\ Here \in Nat /\ Here + 1 \in Nat /\ Here + 2 \in Nat
      /\ Unpatched
    BY <1>1, TopInBlock DEF IInv
<1> DEFINE s == << Plain("selector"), Instr("op_jump", Unset), Instr("op_jump", Unset) >>
           f == Frame("switch", Top.block, << Here + 1, Here + 2 >>, 0)
           n == Len(frames)
<1>3. /\ s \in Seq(Instruction) /\ Len(s) = 3
      /\ s[1].op = "selector" /\ s[2].op = "op_jump" /\ s[2].arg = Unset
      /\ s[3].op = "op_jump" /\ s[3].arg = Unset
    BY DEF Plain, Instr, Instruction, Ops, Unset
<1>4. /\ il' = il \o s /\ frames' = Append(frames, f) /\ pc' = "statement"
      /\ breaks' = Append(breaks, Here + 2) /\ UNCHANGED <<blocks, functions>>
    BY DEF Switch, Enter
<1> HIDE DEF s
<1>5. /\ f \in Activation /\ f.fn = "switch" /\ f.block = Top.block /\ f.pending = << Here + 1, Here + 2 >>
      /\ f.start = 0 /\ Marks(f) = {}
    <2>1. "switch" \in Fns /\ "switch" \notin Loops /\ << Here + 1, Here + 2 >> \in Seq(Nat) /\ 0 \in Nat
        BY <1>2, TwoPending DEF Fns, Loops
    <2>2. Fresh(f, "switch", Top.block, << Here + 1, Here + 2 >>, 0)
        BY <1>2, <2>1, FrameFacts
    <2> HIDE DEF f
    <2> QED
        BY <2>1, <2>2 DEF Fresh
<1> HIDE DEF f
<1>6. /\ Pendings(f) = {Here + 1, Here + 2} /\ Len(f.pending) = 2
      /\ f.pending[1] = Here + 1 /\ f.pending[2] = Here + 2
    BY <1>2, <1>5, TwoPending
<1>7. Adds(s) /\ Grows({})
    BY <1>2, <1>3, <1>4, Extended
<1>8. /\ New = {Here, Here + 1, Here + 2}
      /\ il'[Here + 1] = s[1] /\ il'[(Here + 1) + 1] = s[2] /\ il'[(Here + 2) + 1] = s[3]
    BY <1>2, <1>3, <1>7, AddedThree
<1>9. Repairs({}, Pendings(f))
    BY <1>3, <1>6, <1>8 DEF Repairs, JumpOps
<1>10. Straight
    <2>1. \A k \in 1..Len(s) : s[k].op \notin BlockOps
        BY <1>3 DEF BlockOps
    <2> QED
        BY <1>2, <1>4, <1>7, <2>1, StraightCode
<1>11. Begins(f)
    <2>1. 0 \in Indices'
        BY <1>2, <1>7, AddedCode DEF Indices, Grows, Typed
    <2> QED
        BY <1>1, <1>3, <1>5, <1>6, <1>8, <2>1 DEF Begins, NumPending
<1>12. source' \in Seq(TokenRecord)
    <2>1. Consume("switch", Here, {}) /\ "switch" \in TokenKinds
        BY DEF Switch, TokenKinds, AllKinds
    <2> QED
        BY <1>2, <2>1, Consumed
<1>13. /\ Leaves(n) /\ Len(frames') = n + 1 /\ frames'[n + 1] = f /\ n < Len(frames')
       /\ Ended(n) = {} /\ Begun(n) = Pendings(f) /\ Top' = f
    BY <1>1, <1>2, <1>4, <1>5, Pushes
<1>14. Exits' = Exits \cup {Here + 2} /\ Breaks' /\ breaks' \in Seq(Nat)
    <2>1. Here + 2 >= Len(il)
        BY <1>2
    <2>2. frames'[n + 1].fn = "switch" /\ frames'[n + 1].pending[2] = Here + 2
        BY <1>5, <1>6, <1>13
    <2> QED
        BY <1>1, <1>2, <1>4, <1>13, <2>1, <2>2, OpenedSwitch
<1> HIDE DEF n
<1>15. AllPending' = (AllPending \ {}) \cup Pendings(f) /\ Ordered'
    <2>1. Increasing(f.pending)
        <3>1. f.pending[1] < f.pending[2]
            BY <1>2, <1>6
        <3>2. \A i, j \in 1..2 : i < j => i = 1 /\ j = 2
            OBVIOUS
        <3> QED
            BY <1>6, <3>1, <3>2 DEF Increasing
    <2>2. Begun(n) \subseteq New /\ Stays(n)
        BY <1>6, <1>8, <1>13 DEF Leaves
    <2> QED
        BY <1>1, <1>2, <1>7, <1>13, <2>1, <2>2, PendingStep
<1>16. KeepsExits({}) /\ {} \subseteq Pendings(Top)
    BY <1>14 DEF KeepsExits
<1>17. Control'
    <2>1. frames' # << >>
        BY <1>13, EmptySeq, TopFacts, <1>1, <1>2 DEF Leaves, Stays
    <2> QED
        BY <1>4, <1>5, <1>13, <2>1 DEF Control
<1> QED
    BY <1>1, <1>4, <1>7, <1>9, <1>10, <1>11, <1>12, <1>13, <1>14, <1>15, <1>16, <1>17, Step

\* The activations keep their kinds and their jumps.
LEMMA SameJumps ==
    ASSUME IInv, Len(frames') = Len(frames), breaks' = breaks,
           \A k \in 1..Len(frames) : frames'[k].fn = frames[k].fn /\ frames'[k].pending = frames[k].pending
    PROVE  AllPending' = AllPending /\ Ordered' /\ Exits' = Exits /\ Breaks'
<1>1. \A k \in 1..Len(frames) : Pendings(frames'[k]) = Pendings(frames[k])
    BY DEF Pendings
<1>2. UNION {Pendings(frames'[k]) : k \in 1..Len(frames')} = AllPending
    BY <1>1 DEF AllPending
<1>3. AllPending' = AllPending
    BY <1>2 DEF AllPending, Pendings
<1>4. Ordered'
    BY DEF IInv, Unpatched, Ordered
<1>5. Exits' = Exits
    BY DEF Exits
<1> QED
    BY <1>3, <1>4, <1>5 DEF IInv, Breaks

\* A switch that learns of one more label.
MarkedHere(g) ==
    /\ g \in Activation /\ g.fn = Top.fn /\ g.block = Top.block /\ g.pending = Top.pending
    /\ g.start = Top.start /\ Marks(g) \subseteq Marks(Top) \cup {Here}

LEMMA MarkedCase ==
    ASSUME Typed, frames # << >>, NEW v \in CaseValues
    PROVE  MarkedHere([Top EXCEPT !.cases = Append(@, [value |-> v, label |-> Here])])
<1> DEFINE c == [value |-> v, label |-> Here]
           cs == Append(Top.cases, c)
           g == [Top EXCEPT !.cases = cs]
<1>1. Top \in Activation /\ Top.cases \in Seq(CaseRecord) /\ Here \in Nat
    BY TopFacts, HereIsInt DEF Activation
<1>2. c \in CaseRecord /\ c.label = Here
    BY <1>1 DEF CaseRecord
<1> HIDE DEF c
<1>3. /\ cs \in Seq(CaseRecord) /\ Len(cs) = Len(Top.cases) + 1 /\ Len(Top.cases) \in Nat
      /\ \A i \in 1..Len(Top.cases) : cs[i] = Top.cases[i]
      /\ cs[Len(Top.cases) + 1] = c
    BY <1>1, <1>2, AppendProperties, LenProperties
<1> HIDE DEF cs
<1>4. /\ g \in Activation /\ g.fn = Top.fn /\ g.block = Top.block /\ g.pending = Top.pending
      /\ g.start = Top.start /\ g.default = Top.default /\ g.cases = cs
    BY <1>1, <1>3 DEF Activation
<1> HIDE DEF g
<1>5. ASSUME NEW i \in 1..Len(cs)
      PROVE  cs[i].label = Here \/ \E j \in 1..Len(Top.cases) : cs[i].label = Top.cases[j].label
    <2>1. i \in 1..Len(Top.cases) \/ i = Len(Top.cases) + 1
        BY <1>3
    <2> QED
        BY <1>2, <1>3, <2>1
<1>6. Marks(g) \subseteq Marks(Top) \cup {Here}
    BY <1>4, <1>5 DEF Marks
<1>7. MarkedHere(g)
    BY <1>4, <1>6 DEF MarkedHere
<1> QED
    BY <1>7 DEF g, cs, c

LEMMA MarkedDefault ==
    ASSUME Typed, frames # << >>
    PROVE  MarkedHere([Top EXCEPT !.default = Here])
<1> DEFINE g == [Top EXCEPT !.default = Here]
<1>1. Top \in Activation /\ Here \in Nat
    BY TopFacts, HereIsInt
<1>2. /\ g \in Activation /\ g.fn = Top.fn /\ g.block = Top.block /\ g.pending = Top.pending
      /\ g.start = Top.start /\ g.default = Here /\ g.cases = Top.cases
    BY <1>1 DEF Activation
<1> HIDE DEF g
<1>3. Marks(g) \subseteq Marks(Top) \cup {Here}
    BY <1>2 DEF Marks
<1>4. MarkedHere(g)
    BY <1>2, <1>3 DEF MarkedHere
<1> QED
    BY <1>4 DEF g

LEMMA CaseLabelStep ==
    ASSUME IInv, CaseLabel
    PROVE  IInv'
<1>1. /\ frames # << >> /\ Top.fn = "switch" /\ Top.fn \notin {"function", "block"}
      /\ il' = Append(il, Plain("op_label")) /\ pc' = "statement" /\ UNCHANGED <<blocks, breaks, functions>>
    BY DEF CaseLabel, IInv, Control
<1>2. Typed /\ Stack /\ Places /\ Here = Len(il) /\ Here \in Nat
    BY <1>1, TopInBlock DEF IInv
<1>3. PICK g : frames' = Append(Below, g) /\ MarkedHere(g)
    BY <1>1, <1>2, MarkedCase, MarkedDefault DEF CaseLabel
<1>4. source' \in Seq(TokenRecord)
    <2>1. "case" \in TokenKinds /\ "default" \in TokenKinds
        BY DEF TokenKinds
    <2>2. CASE \E v \in CaseValues : Consume("case", v, {})
        <3>1. PICK v \in CaseValues : Consume("case", v, {})
            BY <2>2
        <3>2. v \in Int
            BY BoundsAssumption
        <3> QED
            BY <1>2, <2>1, <3>1, <3>2, Consumed
    <2>3. CASE Consume("default", 0, {})
        BY <1>2, <2>1, <2>3, Consumed
    <2> QED
        BY <2>2, <2>3 DEF CaseLabel
<1> DEFINE s == << Plain("op_label") >>
           n == Len(frames) - 1
<1>5. s \in Seq(Instruction) /\ Len(s) = 1 /\ s[1].op = "op_label"
    BY DEF Plain, Instr, Instruction, Ops
<1>6. il' = il \o s
    <2>1. Plain("op_label") \in Instruction
        BY DEF Plain, Instr, Instruction, Ops
    <2> QED
        BY <1>1, <1>2, <2>1, AppendedOne
<1> HIDE DEF s
<1>7. Adds(s) /\ Grows({})
    BY <1>2, <1>5, <1>6, Extended
<1>8. New = {Here} /\ il'[Here + 1] = s[1]
    BY <1>2, <1>5, <1>7, AddedOne
<1>9. Repairs({}, {})
    BY <1>5, <1>8 DEF Repairs, JumpOps
<1>10. Straight
    <2>1. \A k \in 1..Len(s) : s[k].op \notin BlockOps
        BY <1>5 DEF BlockOps
    <2> QED
        BY <1>1, <1>2, <1>7, <2>1, StraightCode
<1>11. /\ Leaves(n) /\ Len(frames') = n + 1 /\ n < Len(frames') /\ n < Len(frames)
       /\ frames'[n + 1] = g /\ Top' = g /\ frames' # << >>
    <2>1. g \in Activation
        BY <1>3 DEF MarkedHere
    <2> QED
        BY <1>1, <1>2, <1>3, <2>1, Replaces
<1>12. Len(frames) \in Nat \ {0} /\ Top = frames[Len(frames)] /\ Len(frames) \in 1..Len(frames)
    BY <1>1, <1>2, TopFacts
<1>13. AllPending' = AllPending /\ Ordered' /\ Exits' = Exits /\ Breaks'
    <2>1. Len(frames') = Len(frames)
        BY <1>11, <1>12
    <2>2. ASSUME NEW k \in 1..Len(frames)
          PROVE  frames'[k].fn = frames[k].fn /\ frames'[k].pending = frames[k].pending
        <3>1. CASE k \in 1..n
            BY <1>11, <3>1 DEF Leaves, Stays
        <3>2. CASE k = Len(frames) /\ k = n + 1
            BY <1>3, <1>11, <1>12, <3>2 DEF MarkedHere
        <3> QED
            BY <1>12, <3>1, <3>2
    <2> QED
        BY <1>1, <2>1, <2>2, SameJumps
<1>14. Begins(g)
    <2>1. /\ g.fn = "switch" /\ g.block = Top.block /\ g.pending = Top.pending
          /\ g.start = Top.start /\ Marks(g) \subseteq Marks(Top) \cup {Here}
        BY <1>1, <1>3 DEF MarkedHere
    <2>2. Pendings(g) = Pendings(Top) /\ Len(g.pending) = NumPending(g.fn)
        BY <1>1, <1>2, <1>12, <2>1 DEF Stack, Pendings
    <2>3. g.start \in Indices'
        BY <1>2, <1>7, <1>12, <2>1, OldIndices DEF Stack
    <2>4. il'[g.pending[2] + 1].op = "op_jump"
        <3>1. Top.pending[2] \in Indices
            BY <1>1, <1>12, ExitsPending DEF Exits
        <3>2. il[Top.pending[2] + 1].op = "op_jump"
            BY <1>1, <1>2, <1>12 DEF Places
        <3> QED
            BY <1>7, <2>1, <3>1, <3>2 DEF Grows
    <2>5. NewLabel(Here)
        BY <1>5, <1>8 DEF NewLabel
    <2> QED
        BY <1>1, <2>1, <2>2, <2>3, <2>4, <2>5 DEF Begins
<1>15. Control'
    BY <1>1, <1>3, <1>11 DEF Control, MarkedHere
<1>16. AllPending' = (AllPending \ {}) \cup {} /\ KeepsExits({}) /\ {} \subseteq Pendings(Top) /\ breaks' \in Seq(Nat)
    BY <1>1, <1>2, <1>13 DEF KeepsExits, Typed
<1> HIDE DEF n
<1> QED
    BY <1>1, <1>4, <1>7, <1>9, <1>10, <1>11, <1>13, <1>14, <1>15, <1>16, Step

\* A switch that closes: its exit jump was the last of breaks.
LEMMA ClosedSwitch ==
    ASSUME IInv, frames # << >>, Top.fn = "switch", NEW n, n = Len(frames) - 1, Leaves(n), Len(frames') = n,
           breaks' = SubSeq(breaks, 1, Len(breaks) - 1)
    PROVE  Exits' = Exits \ {Top.pending[2]} /\ Breaks' /\ breaks' \in Seq(Nat)
<1> DEFINE m == Len(frames)
           e == Top.pending[2]
           b == Len(breaks)
<1>1. m \in Nat \ {0} /\ m \in 1..m /\ Top = frames[m] /\ n \in Nat /\ m = n + 1 /\ 1..m = (1..n) \cup {m}
    <2>1. m \in Nat \ {0} /\ m \in 1..m /\ Top = frames[m]
        BY TopFacts DEF IInv
    <2> QED
        BY <2>1
<1>2. \A k \in 1..n : frames'[k] = frames[k] /\ k < m /\ k \in 1..m
    BY <1>1 DEF Leaves, Stays
<1>3. \A k \in 1..m : frames[k].fn = "switch" => 2 \in 1..Len(frames[k].pending)
    BY DEF IInv, Stack, NumPending
<1>4. e \in Exits
    BY <1>1 DEF Exits
<1>5. ASSUME NEW k \in 1..n, frames[k].fn = "switch" PROVE frames[k].pending[2] < e
    <2>1. k \in 1..m /\ k < m /\ 2 \in 1..Len(frames[k].pending) /\ 2 \in 1..Len(frames[m].pending)
        BY <1>1, <1>2, <1>3, <1>5
    <2> QED
        BY <1>1, <2>1 DEF IInv, Unpatched, Ordered
<1>6. \A x : x \in Exits <=> \E k \in 1..m : frames[k].fn = "switch" /\ x = frames[k].pending[2]
    BY DEF Exits
<1>7. \A x : x \in Exits' <=> \E k \in 1..n : frames[k].fn = "switch" /\ x = frames[k].pending[2]
    <2>1. \A x : x \in Exits' <=> \E k \in 1..n : frames'[k].fn = "switch" /\ x = frames'[k].pending[2]
        BY DEF Exits
    <2>2. \A k \in 1..n : frames'[k].fn = frames[k].fn /\ frames'[k].pending[2] = frames[k].pending[2]
        BY <1>2
    <2> SUFFICES ASSUME NEW x
                 PROVE  x \in Exits' <=> \E k \in 1..n : frames[k].fn = "switch" /\ x = frames[k].pending[2]
        OBVIOUS
    <2>3. x \in Exits' <=> \E k \in 1..n : frames'[k].fn = "switch" /\ x = frames'[k].pending[2]
        BY <2>1
    <2> QED
        BY <2>2, <2>3
<1>8. \A x \in Exits : x \in Nat
    BY ExitsPending
<1> HIDE DEF m, e
<1>9. \A x \in Exits' : x < e /\ x \in Exits
    BY <1>2, <1>5, <1>6, <1>7
<1>10. \A x \in Exits : x = e \/ x \in Exits'
    BY <1>1, <1>6, <1>7 DEF e
<1>11. \A x \in Nat : ~(x < x)
    OBVIOUS
<1>12. Exits' = Exits \ {e}
    BY <1>8, <1>9, <1>10, <1>11
<1>13. \A x \in Exits : x <= e
    BY <1>4, <1>8, <1>9, <1>10
<1>14. breaks \in Seq(Nat) /\ b \in Nat /\ {breaks[i] : i \in 1..b} = Exits
    BY LenProperties DEF IInv, Typed, Breaks
<1>15. PICK i \in 1..b : breaks[i] = e
    BY <1>4, <1>14
<1>16. b > 0 /\ b \in 1..b
    BY <1>14, <1>15
<1>17. breaks[b] = e
    <2>1. breaks[b] <= e /\ breaks[b] \in Nat
        BY <1>8, <1>13, <1>14, <1>16
    <2>2. i < b => breaks[i] < breaks[b]
        BY <1>16 DEF IInv, Breaks
    <2>3. ~(i < b)
        BY <1>4, <1>8, <1>15, <2>1, <2>2
    <2> QED
        BY <1>14, <1>15, <2>3
<1>18. breaks' \in Seq(Nat) /\ Len(breaks') = b - 1 /\ \A j \in 1..(b - 1) : breaks'[j] = breaks[j]
    BY <1>14, <1>16, AllButLast, SMTT(30)
<1> HIDE DEF b
<1>19. 1..b = (1..(b - 1)) \cup {b} /\ \A j \in 1..(b - 1) : j \in 1..b /\ j < b
    BY <1>14, <1>16
<1>20. \A j, l \in 1..b : j < l => breaks[j] < breaks[l]
    BY DEF IInv, Breaks, b
<1>21. {breaks'[j] : j \in 1..(b - 1)} = Exits \ {e}
    <2>1. ASSUME NEW j \in 1..(b - 1) PROVE breaks'[j] \in Exits /\ breaks'[j] # e
        <3>1. breaks'[j] = breaks[j] /\ breaks[j] \in Exits /\ breaks[j] < e
            BY <1>14, <1>16, <1>17, <1>18, <1>19, <1>20
        <3> QED
            BY <1>8, <1>11, <3>1
    <2>2. ASSUME NEW x \in Exits, x # e PROVE \E j \in 1..(b - 1) : breaks'[j] = x
        <3>1. PICK j \in 1..b : breaks[j] = x
            BY <1>14
        <3>2. j # b
            BY <1>17, <2>2, <3>1
        <3> QED
            BY <1>18, <1>19, <3>1, <3>2
    <2> QED
        BY <2>1, <2>2
<1>22. Breaks'
    BY <1>12, <1>18, <1>19, <1>20, <1>21 DEF Breaks
<1> QED
    BY <1>12, <1>18, <1>22 DEF e

\* It appends code s, and patches jumps p and q.
LEMMA ExtendedPatchedTwice ==
    ASSUME Typed, NEW s \in Seq(Instruction), NEW p \in Indices, JumpsAt(p), NEW t \in Int,
           NEW q \in Indices, JumpsAt(q), NEW u \in Int, p # q,
           il' = Patch(Patch(il \o s, p, t), q, u)
    PROVE  Adds(s) /\ Grows({p, q}) /\ il'[p + 1].arg = t /\ il'[q + 1].arg = u
<1> DEFINE code == il \o s
           once == Patch(code, p, t)
<1>1. il \in Seq(Instruction) /\ Len(il) \in Nat /\ Len(s) \in Nat
    BY LenProperties DEF Typed
<1>2. code \in Seq(Instruction) /\ Joins(code, il, s)
    BY <1>1, Joined
<1> DEFINE twice == Patch(once, q, u)
<1>3. il' = twice
    OBVIOUS
<1> HIDE DEF code
<1>4. /\ p \in 0..(Len(code) - 1) /\ q \in 0..(Len(code) - 1) /\ p + 1 # q + 1
      /\ p \in Nat /\ q \in Nat /\ p < Len(il) /\ q < Len(il) /\ Len(code) = Len(il) + Len(s)
    BY <1>1, <1>2 DEF Indices, Joins
<1>5. /\ once \in Seq(Instruction) /\ Len(once) = Len(code)
      /\ once[p + 1].op = code[p + 1].op /\ once[p + 1].arg = t
      /\ \A i \in 1..Len(code) : i # p + 1 => once[i] = code[i]
    BY <1>2, <1>4, PatchFacts
<1> HIDE DEF once
<1>6. /\ il' \in Seq(Instruction) /\ Len(il') = Len(code)
      /\ il'[q + 1].op = once[q + 1].op /\ il'[q + 1].arg = u
      /\ \A i \in 1..Len(code) : i # q + 1 => il'[i] = once[i]
    <2>1. q \in 0..(Len(once) - 1)
        BY <1>4, <1>5
    <2>2. /\ twice \in Seq(Instruction) /\ Len(twice) = Len(once)
          /\ twice[q + 1].op = once[q + 1].op /\ twice[q + 1].arg = u
          /\ \A i \in 1..Len(once) : i # q + 1 => twice[i] = once[i]
        BY <1>5, <2>1, PatchFacts
    <2> HIDE DEF twice
    <2> QED
        BY <1>3, <1>5, <2>2
<1> HIDE DEF twice
<1>7. /\ \A i \in 1..Len(code) : i # p + 1 /\ i # q + 1 => il'[i] = code[i]
      /\ p + 1 \in 1..Len(code) /\ q + 1 \in 1..Len(code)
    BY <1>4, <1>5, <1>6
<1>8. /\ il'[p + 1].op = code[p + 1].op /\ il'[p + 1].arg = t
      /\ il'[q + 1].op = code[q + 1].op /\ il'[q + 1].arg = u
    BY <1>4, <1>5, <1>6, <1>7
<1>9. ASSUME NEW k \in 1..Len(s) PROVE il'[Len(il) + k] = s[k]
    <2>1. Len(il) + k \in 1..Len(code) /\ Len(il) + k # p + 1 /\ Len(il) + k # q + 1
        BY <1>1, <1>4
    <2> QED
        BY <1>2, <1>7, <2>1 DEF Joins
<1>10. ASSUME NEW i \in Indices
       PROVE  i + 1 \in 1..Len(code) /\ code[i + 1] = il[i + 1] /\ (i # p => i + 1 # p + 1) /\ (i # q => i + 1 # q + 1)
    <2>1. i \in Nat /\ i + 1 \in 1..Len(il) /\ i + 1 \in 1..Len(code)
        BY <1>1, <1>4 DEF Indices
    <2> QED
        BY <1>2, <1>4, <2>1 DEF Joins
<1>11. \A i \in Indices : il'[i + 1].op = il[i + 1].op /\ (i \notin {p, q} => il'[i + 1] = il[i + 1])
    BY <1>7, <1>8, <1>10
<1>12. Len(il') >= Len(il) /\ Len(il') = Len(il) + Len(s)
    BY <1>1, <1>4, <1>6
<1>13. Adds(s)
    BY <1>9, <1>12 DEF Adds
<1>14. Grows({p, q})
    BY <1>6, <1>11, <1>12 DEF Grows
<1> QED
    BY <1>8, <1>13, <1>14

\* The tests of a switch jump to its labels only.
IsTest(x, f) ==
    \/ x.op \in {"op_load_numeric_constant", "op_equals"}
    \/ x.op \in {"op_jnz", "op_jump"} /\ x.arg \in Marks(f)

LEMMA TestKinds ==
    ASSUME NEW f, NEW v \in Int, NEW t \in Int
    PROVE  /\ Instr("op_load_numeric_constant", v) \in Instruction
           /\ IsTest(Instr("op_load_numeric_constant", v), f)
           /\ Plain("op_equals") \in Instruction /\ IsTest(Plain("op_equals"), f)
           /\ Instr("op_jnz", t) \in Instruction /\ (t \in Marks(f) => IsTest(Instr("op_jnz", t), f))
           /\ Instr("op_jump", t) \in Instruction /\ (t \in Marks(f) => IsTest(Instr("op_jump", t), f))
BY DEF Instr, Plain, Instruction, Ops, IsTest

LEMMA TestsFacts ==
    ASSUME NEW f \in Activation, NEW tests, tests = Tests(f.cases, f.default)
    PROVE  tests \in Seq(Instruction) /\ \A k \in 1..Len(tests) : IsTest(tests[k], f)
<1> DEFINE n == Len(f.cases)
           a == [k \in 1..(3 * n) |->
                    LET c == f.cases[(k + 2) \div 3] IN
                    CASE k % 3 = 1 -> Instr("op_load_numeric_constant", c.value)
                      [] k % 3 = 2 -> Plain("op_equals")
                      [] k % 3 = 0 -> Instr("op_jnz", c.label)]
           b == IF f.default # 0 THEN << Instr("op_jump", f.default) >> ELSE << >>
<1>1. f.cases \in Seq(CaseRecord) /\ n \in Nat /\ f.default \in Nat
    BY LenProperties DEF Activation
<1>2. \A j \in 1..n : f.cases[j].value \in Int /\ f.cases[j].label \in Nat /\ f.cases[j].label \in Marks(f)
    <2> SUFFICES ASSUME NEW j \in 1..n
                 PROVE  f.cases[j].value \in Int /\ f.cases[j].label \in Nat /\ f.cases[j].label \in Marks(f)
        OBVIOUS
    <2>1. f.cases[j] \in CaseRecord /\ f.cases[j].label \in Marks(f)
        BY <1>1, ElementOfSeq DEF Marks
    <2>2. f.cases[j].value \in CaseValues /\ f.cases[j].label \in Nat
        BY <2>1 DEF CaseRecord
    <2>3. CaseValues \subseteq Int
        BY BoundsAssumption
    <2> QED
        BY <2>1, <2>2, <2>3
<1>3. tests = a \o b
    BY DEF Tests
<1>4. \A k \in Nat : k % 3 \in {0, 1, 2}
    OBVIOUS
<1> HIDE DEF n
<1>5. ASSUME NEW k \in 1..(3 * n) PROVE a[k] \in Instruction /\ IsTest(a[k], f)
    <2> DEFINE c == f.cases[(k + 2) \div 3]
    <2>1. (k + 2) \div 3 \in 1..n /\ k % 3 \in {0, 1, 2}
        BY <1>1, <1>4
    <2>2. \/ a[k] = Instr("op_load_numeric_constant", c.value)
          \/ a[k] = Plain("op_equals")
          \/ a[k] = Instr("op_jnz", c.label)
        BY <2>1
    <2>3. c.value \in Int /\ c.label \in Int /\ c.label \in Marks(f)
        BY <1>2, <2>1
    <2> HIDE DEF a, c
    <2> QED
        BY <2>2, <2>3, TestKinds
<1>6. 3 * n \in Nat
    BY <1>1
<1>7. a \in Seq(Instruction) /\ Len(a) = 3 * n
    BY <1>5, <1>6, IsASeq
<1> HIDE DEF a
<1>8. b \in Seq(Instruction) /\ \A k \in 1..Len(b) : IsTest(b[k], f)
    <2>1. CASE f.default = 0
        BY <2>1, EmptySeq
    <2>2. CASE f.default # 0
        <3>1. Instr("op_jump", f.default) \in Instruction /\ IsTest(Instr("op_jump", f.default), f)
            BY <1>1, <2>2 DEF Instr, Instruction, Ops, IsTest, Marks
        <3> QED
            BY <2>2, <3>1
    <2> QED
        BY <2>1, <2>2
<1> HIDE DEF b
<1>9. tests \in Seq(Instruction) /\ Joins(tests, a, b)
    BY <1>3, <1>7, <1>8, Joined
<1>10. ASSUME NEW k \in 1..Len(tests) PROVE IsTest(tests[k], f)
    <2>1. k \in 1..Len(a) \/ \E j \in 1..Len(b) : k = Len(a) + j
        <3>1. Len(a) \in Nat /\ Len(b) \in Nat /\ Len(tests) = Len(a) + Len(b)
            BY <1>9 DEF Joins
        <3>2. ~(k <= Len(a)) => k - Len(a) \in 1..Len(b) /\ k = Len(a) + (k - Len(a))
            BY <3>1
        <3> QED
            BY <3>1, <3>2
    <2> QED
        BY <1>5, <1>7, <1>8, <1>9, <2>1 DEF Joins
<1> QED
    BY <1>9, <1>10

\* The label, the tests, and the label.
LEMMA TestCode ==
    ASSUME NEW f \in Activation, NEW tests, tests = Tests(f.cases, f.default),
           NEW s, s = << Plain("op_label") >> \o tests \o << Plain("op_label") >>
    PROVE  /\ s \in Seq(Instruction) /\ Len(tests) \in Nat /\ Len(s) = Len(tests) + 2
           /\ s[1].op = "op_label" /\ s[Len(tests) + 2].op = "op_label"
           /\ \A k \in 1..Len(s) : s[k].op = "op_label" \/ IsTest(s[k], f)
<1> DEFINE label == << Plain("op_label") >>
           l == label \o tests
<1>1. label \in Seq(Instruction) /\ Len(label) = 1 /\ label[1].op = "op_label"
    BY DEF Plain, Instr, Instruction, Ops
<1>2. tests \in Seq(Instruction) /\ \A k \in 1..Len(tests) : IsTest(tests[k], f)
    BY TestsFacts
<1>3. s = l \o label
    OBVIOUS
<1> HIDE DEF label
<1>4. l \in Seq(Instruction) /\ Joins(l, label, tests)
    BY <1>1, <1>2, Joined
<1> HIDE DEF l
<1>5. s \in Seq(Instruction) /\ Joins(s, l, label)
    BY <1>1, <1>3, <1>4, Joined
<1> DEFINE n == Len(tests)
<1>6. n \in Nat /\ Len(l) = 1 + n /\ Len(s) = Len(l) + 1
    BY <1>1, <1>4, <1>5 DEF Joins
<1> HIDE DEF n
<1>7. /\ 1 \in 1..Len(l) /\ 1 \in 1..1 /\ Len(s) = n + 2 /\ n + 2 = Len(l) + 1
      /\ \A k \in 1..Len(s) : k = 1 \/ k = Len(l) + 1 \/ \E j \in 1..n : k = 1 + j /\ k \in 1..Len(l)
    <2>1. 1 \in 1..Len(l) /\ 1 \in 1..1 /\ Len(s) = n + 2 /\ n + 2 = Len(l) + 1
        BY <1>6
    <2>2. ASSUME NEW k \in 1..Len(s), k # 1, k # Len(l) + 1
          PROVE  k - 1 \in 1..n /\ k = 1 + (k - 1) /\ k \in 1..Len(l)
        BY <1>6, <2>2
    <2> QED
        BY <2>1, <2>2
<1>8. l[1] = label[1] /\ \A j \in 1..n : l[1 + j] = tests[j]
    BY <1>1, <1>4, <1>7 DEF Joins, n
<1>9. s[Len(l) + 1] = label[1] /\ \A k \in 1..Len(l) : s[k] = l[k]
    BY <1>1, <1>5, <1>7 DEF Joins
<1>10. s[1].op = "op_label" /\ s[n + 2].op = "op_label"
    BY <1>1, <1>7, <1>8, <1>9
<1>11. ASSUME NEW k \in 1..Len(s) PROVE s[k].op = "op_label" \/ IsTest(s[k], f)
    <2>1. CASE k = 1 \/ k = Len(l) + 1
        BY <1>7, <1>10, <2>1
    <2>2. CASE \E j \in 1..n : k = 1 + j /\ k \in 1..Len(l)
        BY <1>2, <1>8, <1>9, <2>2 DEF n
    <2> QED
        BY <1>7, <2>1, <2>2
<1> QED
    BY <1>5, <1>6, <1>7, <1>10, <1>11 DEF n

LEMMA EndSwitchStep ==
    ASSUME IInv, EndSwitch
    PROVE  IInv'
<1> DEFINE tests == Tests(Top.cases, Top.default)
           s == << Plain("op_label") >> \o tests \o << Plain("op_label") >>
           exit == Here + 1 + Len(tests)
           p == Top.pending[1]
           q == Top.pending[2]
           n == Len(frames) - 1
<1>1. /\ frames # << >> /\ Top.fn = "switch" /\ Top.fn \notin {"function", "block"}
      /\ il' = Patch(Patch(il \o s, p, Here), q, exit)
      /\ breaks' = SubSeq(breaks, 1, Len(breaks) - 1) /\ frames' = Below
      /\ pc' = "returned" /\ UNCHANGED <<blocks, functions>>
    BY Zenon DEF EndSwitch, IInv, Control
<1>2. /\ Typed /\ Stack /\ Unpatched /\ Here = Len(il) /\ Here \in Nat
      /\ Top \in Activation /\ Top = frames[Len(frames)] /\ Len(frames) \in 1..Len(frames)
    BY <1>1, TopInBlock, TopFacts DEF IInv
<1>3. /\ s \in Seq(Instruction) /\ Len(tests) \in Nat /\ Len(s) = Len(tests) + 2
      /\ s[1].op = "op_label" /\ s[Len(tests) + 2].op = "op_label"
      /\ \A k \in 1..Len(s) : s[k].op = "op_label" \/ IsTest(s[k], Top)
    BY <1>2, TestCode
<1> HIDE DEF s, tests
<1>4. exit \in Int /\ Here \in Int /\ exit = Len(il) + (Len(tests) + 2) - 1 /\ Here = Len(il) + 1 - 1
      /\ 1 \in 1..Len(s) /\ Len(tests) + 2 \in 1..Len(s)
    BY <1>2, <1>3
<1> HIDE DEF exit
<1>5. Len(Top.pending) = 2 /\ Pendings(Top) = {p, q} /\ p < q
    <2>1. Len(Top.pending) = 2
        BY <1>1, <1>2 DEF Stack, NumPending
    <2>2. 1 \in 1..2 /\ 2 \in 1..2 /\ 1..2 = {1, 2} /\ 1 < 2
        OBVIOUS
    <2>3. p < q
        BY <1>2, <2>1, <2>2 DEF Unpatched, Ordered
    <2> QED
        BY <2>1, <2>2, <2>3 DEF Pendings
<1>6. p \in Indices /\ q \in Indices /\ JumpsAt(p) /\ JumpsAt(q) /\ p # q
    <2>1. p \in AllPending /\ q \in AllPending
        BY <1>2, <1>5 DEF AllPending
    <2>2. p \in Nat /\ q \in Nat
        BY <1>2, <2>1, OldIndices DEF Unpatched, Indices
    <2>3. p # q
        BY <1>5, <2>2
    <2> QED
        BY <1>2, <2>1, <2>3 DEF Unpatched
<1>7. Adds(s) /\ Grows({p, q}) /\ il'[p + 1].arg = Here /\ il'[q + 1].arg = exit
    <2>1. /\ Typed /\ s \in Seq(Instruction) /\ Here \in Int /\ exit \in Int
          /\ il' = Patch(Patch(il \o s, p, Here), q, exit)
        BY <1>1, <1>2, <1>3, <1>4
    <2> HIDE DEF p, q
    <2> QED
        BY <1>6, <2>1, ExtendedPatchedTwice, Zenon
<1>8. NewLabel(Here) /\ NewLabel(exit)
    <2>1. \A k \in 1..Len(s) : Len(il) + k - 1 \in New /\ il'[(Len(il) + k - 1) + 1] = s[k]
        BY <1>2, <1>7, AddedCode
    <2>2. Here \in New /\ il'[Here + 1] = s[1]
        BY <1>4, <2>1
    <2>3. exit \in New /\ il'[exit + 1] = s[Len(tests) + 2]
        BY <1>4, <2>1
    <2> QED
        BY <1>3, <2>2, <2>3 DEF NewLabel
<1>9. ASSUME NEW i \in New
      PROVE  il'[i + 1].op \in JumpOps => il'[i + 1].arg \in Marks(Top)
    <2>1. PICK k \in 1..Len(s) : il'[i + 1] = s[k]
        BY <1>2, <1>7, AddedCode
    <2> QED
        BY <1>3, <2>1 DEF IsTest, JumpOps
<1>10. Repairs({p, q}, {})
    BY <1>7, <1>8, <1>9 DEF Repairs
<1>11. Straight
    <2>1. \A k \in 1..Len(s) : s[k].op \notin BlockOps
        BY <1>3 DEF BlockOps, IsTest
    <2> QED
        BY <1>1, <1>2, <1>7, <2>1, StraightCode
<1>12. source' \in Seq(TokenRecord)
    <2>1. PICK kind \in TokenKinds : Consume(kind, 0, {})
        BY Zenon DEF EndSwitch, TokenKinds, Closing
    <2> QED
        BY <1>2, <2>1, Consumed
<1>13. /\ Leaves(n) /\ Len(frames') = n /\ n < Len(frames) /\ ~(n < n)
       /\ Ended(n) = Pendings(Top) /\ Begun(n) = {} /\ frames' # << >>
    BY <1>1, <1>2, Pops
<1>14. Exits' = Exits \ {q} /\ Breaks' /\ breaks' \in Seq(Nat)
    BY <1>1, <1>13, ClosedSwitch
<1>15. ~(n < Len(frames'))
    BY <1>13
<1> HIDE DEF n
<1>16. AllPending' = (AllPending \ {p, q}) \cup {} /\ Ordered' /\ {p, q} \subseteq Pendings(Top)
    <2>1. Stays(n)
        BY <1>13 DEF Leaves
    <2> QED
        BY <1>1, <1>2, <1>5, <1>7, <1>13, <1>15, <2>1, PendingStep
<1>17. KeepsExits({p, q})
    BY <1>14 DEF KeepsExits
<1>18. Control'
    BY <1>1, <1>13 DEF Control
<1> QED
    BY <1>1, <1>7, <1>10, <1>11, <1>12, <1>13, <1>14, <1>15, <1>16, <1>17, <1>18, Step

-----------------------------------------------------------------------------
(* Functions and blocks.                                                   *)

\* Code without jumps, in which blocks may start and end.
LEMMA JumpsKept ==
    ASSUME IInv, Grows({}), GrowsBlocks, KeepsFunctions, Exits \subseteq Exits',
           \A i \in New : il'[i + 1].op \notin JumpOps
    PROVE  Jumps' /\ {i \in Indices' : JumpsAt(i)' /\ il'[i + 1].arg = Unset} = AllPending
<1>1. /\ Len(il) \in Nat /\ Len(il') \in Nat /\ Len(il') >= Len(il)
      /\ \A i \in Indices : i \in Indices'
    <2>1. Typed
        BY DEF IInv
    <2>2. Len(il') >= Len(il)
        BY DEF Grows
    <2> QED
        BY <2>1, <2>2, OldIndices
<1>2. \A i \in Indices' : i \in Indices \/ i \in New
    BY <1>1 DEF Indices, New
<1>3. \A i \in Indices : il'[i + 1] = il[i + 1]
    BY DEF Grows
<1>4. \A i \in Indices' : JumpsAt(i)' => i \in Indices /\ JumpsAt(i)
    BY <1>2, <1>3 DEF JumpsAt
<1>5. \A i \in Indices : JumpsAt(i) => JumpsAt(i)'
    BY <1>3 DEF JumpsAt
<1>6. {i \in Indices' : JumpsAt(i)' /\ il'[i + 1].arg = Unset} = AllPending
    BY <1>1, <1>3, <1>4, <1>5 DEF IInv, Unpatched
<1>7. ASSUME NEW i \in Indices', JumpsAt(i)'
      PROVE  il'[i + 1].arg \in Indices' \cup {Unset} \cup (IF Supported THEN {} ELSE {Stray})
    BY <1>1, <1>3, <1>4, <1>7 DEF IInv, Jumps
<1>8. ASSUME NEW i \in Indices', NEW t \in Indices', JumpsAt(i)', il'[i + 1].arg = t
      PROVE  Patched(i, t)'
    <2>1. i \in Indices /\ JumpsAt(i) /\ il[i + 1].arg = t
        BY <1>3, <1>4, <1>8
    <2>2. t \in Indices
        BY <1>1, <2>1 DEF IInv, Jumps, Indices, Unset, Stray
    <2>3. Patched(i, t)
        BY <2>1, <2>2 DEF IInv, Jumps
    <2>4. Typed /\ Nesting /\ Unpatched /\ KeepsExits({})
        BY DEF IInv, KeepsExits
    <2> QED
        BY <2>1, <2>2, <2>3, <2>4, OldPatched
<1>9. Jumps'
    BY <1>7, <1>8 DEF Jumps, JumpsAt, Indices
<1> QED
    BY <1>6, <1>9

\* The activations that stay remember the same places.
LEMMA PlacesKept ==
    ASSUME IInv, Grows({}), GrowsBlocks, NEW n \in Nat, n <= Len(frames),
           \A k \in 1..n : frames'[k] = frames[k], Len(frames) \in Nat,
           functions'[Len(functions')].entry = functions[Len(functions)].entry
    PROVE  /\ Open(n)' = Open(n)
           /\ \A k \in 1..n :
                  /\ \A p \in Pendings(frames'[k]) : Place(k, p)'
                  /\ \A p \in Marks(frames'[k]) : Place(k, p)' /\ il'[p + 1].op = "op_label"
                  /\ frames'[k].fn = "switch" => il'[frames'[k].pending[2] + 1].op = "op_jump"
<1>1. Open(n)' = Open(n)
    BY DEF Open
<1>2. ASSUME NEW k \in 1..n
      PROVE  /\ \A p \in Pendings(frames'[k]) : Place(k, p)'
             /\ \A p \in Marks(frames'[k]) : Place(k, p)' /\ il'[p + 1].op = "op_label"
             /\ frames'[k].fn = "switch" => il'[frames'[k].pending[2] + 1].op = "op_jump"
    <2>1. frames'[k] = frames[k] /\ k \in 1..Len(frames)
        OBVIOUS
    <2>2. Open(k)' = Open(k)
        <3>1. \A j \in 1..k : j \in 1..n
            OBVIOUS
        <3> QED
            BY <3>1 DEF Open
    <2>3. \A p : Place(k, p) => p \in Indices
        BY DEF Place
    <2>4. ASSUME NEW p, Place(k, p) PROVE Place(k, p)'
        BY <2>2, <2>4, OldPlace DEF IInv
    <2>5. \A i \in Indices : il'[i + 1] = il[i + 1]
        BY DEF Grows
    <2>6. frames[k].fn = "switch" => frames[k].pending[2] \in Indices
        BY <2>1, ExitsPending DEF Exits
    <2>7. /\ \A p \in Pendings(frames[k]) : Place(k, p)
          /\ \A p \in Marks(frames[k]) : Place(k, p) /\ il[p + 1].op = "op_label"
          /\ frames[k].fn = "switch" => il[frames[k].pending[2] + 1].op = "op_jump"
        BY <2>1 DEF IInv, Places
    <2>8. ASSUME NEW p \in Pendings(frames'[k]) PROVE Place(k, p)'
        BY <2>1, <2>4, <2>7, <2>8
    <2>9. ASSUME NEW p \in Marks(frames'[k]) PROVE Place(k, p)' /\ il'[p + 1].op = "op_label"
        BY <2>1, <2>3, <2>4, <2>5, <2>7, <2>9
    <2> QED
        BY <2>1, <2>5, <2>6, <2>7, <2>8, <2>9
<1> QED
    BY <1>1, <1>2

\* The current block is the innermost one of the code.
LEMMA CurrentBlock ==
    ASSUME IInv, frames # << >>
    PROVE  Innermost(Len(il)) = Top.block
<1> DEFINE m == Len(frames)
<1>1. m \in Nat \ {0} /\ m \in 1..m /\ Top = frames[m]
    BY TopFacts DEF IInv
<1>2. ASSUME NEW j \in 1..m PROVE frames[j].block \in Nat
    <2>1. frames \in Seq(Activation)
        BY DEF IInv, Typed
    <2>2. frames[j] \in Activation
        BY <2>1, ElementOfSeq
    <2> QED
        BY <2>2 DEF Activation
<1>3. \A j \in 1..m : frames[j].block <= Top.block
    BY <1>1 DEF IInv, Stack
<1>4. Enclosing(Len(il)) = Open(m)
    BY DEF IInv, Nesting
<1>5. CASE Top.block = 0
    <2>1. \A j \in 1..m : frames[j].block = 0
        BY <1>2, <1>3, <1>5
    <2>2. Open(m) = {}
        BY <2>1 DEF Open
    <2> QED
        BY <1>4, <1>5, <2>2 DEF Innermost
<1>6. CASE Top.block # 0
    <2>1. Top.block \in Open(m)
        BY <1>1, <1>6 DEF Open
    <2>2. \A c \in Open(m) : c <= Top.block /\ c \in Nat
        BY <1>2, <1>3 DEF Open
    <2>3. \A b \in Open(m) : (\A c \in Open(m) : c <= b) => b = Top.block
        BY <2>1, <2>2
    <2>4. (CHOOSE b \in Open(m) : \A c \in Open(m) : c <= b) = Top.block
        BY <2>1, <2>2, <2>3
    <2> QED
        BY <1>4, <2>1, <2>4 DEF Innermost
<1> QED
    BY <1>5, <1>6

\* It stays so at the same place.
LEMMA InnermostKept ==
    ASSUME IInv, Grows({}), GrowsBlocks, NEW i \in 0..Len(il)
    PROVE  Innermost(i)' = Innermost(i)
<1>1. Enclosing(i)' = Enclosing(i)
    BY OldEnclosing DEF IInv
<1> QED
    BY <1>1 DEF Innermost

\* No function ends but the last.
LEMMA FunctionsKept ==
    ASSUME IInv, functions' = functions
    PROVE  KeepsFunctions
BY DEF KeepsFunctions, SameFunction, Within

\* A block that starts or ends: what is not about the blocks.
LEMMA BlockStep ==
    ASSUME IInv, frames # << >>, functions' = functions, source' \in Seq(TokenRecord),
           Grows({}), GrowsBlocks, NEW n, Stays(n), SameSwitches(n), Ended(n) = {}, Begun(n) = {},
           n < Len(frames') => Marks(frames'[n + 1]) = {} /\ frames'[n + 1].pending = << >>,
           \A i \in New : il'[i + 1].op \notin JumpOps
    PROVE  Typed' /\ Places' /\ Unpatched' /\ Breaks' /\ Jumps'
<1>1. Typed /\ Unpatched /\ Breaks
    BY DEF IInv
<1>2. Exits' = Exits /\ Breaks'
    BY <1>1, SameExits
<1>3. AllPending' = AllPending /\ Ordered'
    <2>1. n < Len(frames') => Increasing(frames'[n + 1].pending)
        BY DEF Increasing
    <2>2. Grows(Ended(n)) /\ Begun(n) \subseteq New
        OBVIOUS
    <2>3. AllPending' = (AllPending \ Ended(n)) \cup Begun(n) /\ Ordered'
        BY <1>1, <2>1, <2>2, PendingStep
    <2> QED
        BY <2>3
<1>4. Jumps' /\ {i \in Indices' : JumpsAt(i)' /\ il'[i + 1].arg = Unset} = AllPending
    BY <1>2, FunctionsKept, JumpsKept
<1>5. Unpatched'
    BY <1>3, <1>4 DEF Unpatched
<1>6. /\ Len(frames) \in Nat /\ n \in Nat /\ n <= Len(frames) /\ Len(frames') \in Nat
      /\ (Len(frames') = n \/ Len(frames') = n + 1)
      /\ \A k \in 1..n : frames'[k] = frames[k]
    BY <1>1, TopFacts DEF Stays
<1>7. Places'
    <2>1. /\ \A k \in 1..n :
                  /\ \A p \in Pendings(frames'[k]) : Place(k, p)'
                  /\ \A p \in Marks(frames'[k]) : Place(k, p)' /\ il'[p + 1].op = "op_label"
                  /\ frames'[k].fn = "switch" => il'[frames'[k].pending[2] + 1].op = "op_jump"
        BY <1>6, PlacesKept
    <2>2. \A k \in 1..Len(frames') : k \in 1..n \/ (k = n + 1 /\ n < Len(frames'))
        BY <1>6
    <2>3. n < Len(frames') => /\ Marks(frames'[n + 1]) = {} /\ Pendings(frames'[n + 1]) = {}
                              /\ frames'[n + 1].fn # "switch"
        BY DEF SameSwitches, Pendings
    <2>4. \A k \in 1..Len(frames') :
                  /\ \A p \in Pendings(frames'[k]) : Place(k, p)'
                  /\ \A p \in Marks(frames'[k]) : Place(k, p)' /\ il'[p + 1].op = "op_label"
                  /\ frames'[k].fn = "switch" => il'[frames'[k].pending[2] + 1].op = "op_jump"
        BY <2>1, <2>2, <2>3
    <2> QED
        BY <2>4 DEF Places, Pendings, Marks
<1>8. Typed'
    <2>1. Len(il) \in Nat /\ Len(il) >= 8 /\ Len(il') \in Nat /\ Len(il') >= Len(il)
        BY <1>1, LenProperties DEF Typed, Grows
    <2>2. Len(il') >= 8
        BY <2>1
    <2>3. functions' \in Seq([entry : Nat, exit : Int]) /\ Len(functions') >= 1
        BY <1>1 DEF Typed
    <2>4. il' \in Seq(Instruction) /\ frames' \in Seq(Activation)
        BY DEF Grows, Stays
    <2>5. blocks' \in Seq([parent : Nat, next_local : Nat])
        BY DEF GrowsBlocks
    <2>6. breaks' \in Seq(Nat)
        BY <1>1 DEF Typed, SameSwitches
    <2> QED
        BY <2>2, <2>3, <2>4, <2>5, <2>6 DEF Typed
<1> QED
    BY <1>2, <1>4, <1>5, <1>7, <1>8

\* The tables grow with the code.
LEMMA TablesKept ==
    ASSUME IInv, functions' = functions, frames # << >>, Grows({}),
           \A b \in 1..Len(blocks') : blocks'[b].parent < b
    PROVE  Tables'
<1>1. Len(il) \in Nat /\ Len(il') \in Nat /\ Len(il') >= Len(il) /\ \A i \in Indices : i \in Indices'
    <2>1. Typed
        BY DEF IInv
    <2>2. Len(il') >= Len(il)
        BY DEF Grows
    <2> QED
        BY <2>1, <2>2, OldIndices
<1>2. ASSUME NEW f \in 1..Len(functions')
      PROVE  functions'[f].entry < Len(il') /\ functions'[f].exit \in Indices' \cup {Unset}
    <2>1. functions[f].entry < Len(il) /\ functions[f].exit \in Indices \cup {Unset}
        BY <1>2 DEF IInv, Tables
    <2>2. functions[f] \in [entry : Nat, exit : Int]
        BY <1>2, ElementOfSeq DEF IInv, Typed
    <2> QED
        BY <1>1, <2>1, <2>2
<1>3. functions'[Len(functions')].exit = Unset
    BY DEF IInv, Tables
<1> QED
    BY <1>2, <1>3 DEF Tables

\* One instruction is added, which changes the blocks that are open.
LEMMA NestingStep ==
    ASSUME IInv, frames # << >>, Grows({}), GrowsBlocks, Len(il') = Len(il) + 1,
           il'[Here + 1].op = "op_block_start" =>
               /\ il'[Here + 1].arg \in 1..Len(blocks')
               /\ Top.block = blocks'[il'[Here + 1].arg].parent,
           il'[Here + 1].op = "op_block_end" => Top.block = il'[Here + 1].arg /\ Top.block \in 1..Len(blocks'),
           EnclosingIn(il', Len(blocks'), Len(il')) = Open(Len(frames))'
    PROVE  Nesting'
<1>1. Typed /\ Nesting /\ Len(il) \in Nat /\ Here = Len(il)
    BY LenProperties DEF IInv, Typed, Here
<1>2. Indices' = Indices \cup {Here} /\ Here \in 0..Len(il)
    BY <1>1 DEF Indices
<1>3. Innermost(Len(il)) = Top.block
    BY CurrentBlock
<1>4. ASSUME NEW h, h = Len(il) PROVE Innermost(h)' = Top.block
    <2>1. h \in 0..Len(il) /\ Innermost(h) = Top.block
        BY <1>1, <1>3, <1>4
    <2> QED
        BY <2>1, InnermostKept
<1>5. ASSUME NEW i \in Indices'
      PROVE  /\ il'[i + 1].op \in BlockOps => il'[i + 1].arg \in 1..Len(blocks')
             /\ il'[i + 1].op = "op_block_start" => Innermost(i)' = blocks'[il'[i + 1].arg].parent
             /\ il'[i + 1].op = "op_block_end" => Innermost(i)' = il'[i + 1].arg
    <2>1. CASE i \in Indices
        BY <1>1, <2>1, OldNesting
    <2>2. CASE i = Here
        <3>1. Innermost(i)' = Top.block
            BY <1>1, <1>4, <2>2
        <3> QED
            BY <2>2, <3>1 DEF BlockOps
    <2> QED
        BY <1>2, <2>1, <2>2
<1>6. Enclosing(Len(il))' = Open(Len(frames))'
    BY DEF Enclosing, EnclosingIn
<1> QED
    BY <1>5, <1>6 DEF Nesting

\* The blocks open in old code are those of the activations.
LEMMA OpenAtEnd ==
    ASSUME IInv, Grows({}), GrowsBlocks
    PROVE  EnclosingIn(il', Len(blocks'), Len(il)) = Open(Len(frames))
<1>1. PICK h : h = Len(il)
    OBVIOUS
<1>2. Typed /\ Nesting /\ h \in 0..Len(il)
    BY <1>1, LenProperties DEF IInv, Typed
<1>3. Enclosing(h)' = Enclosing(h)
    BY <1>2, OldEnclosing
<1>4. Enclosing(h) = Open(Len(frames))
    BY <1>1, <1>2 DEF Nesting, Enclosing
<1> QED
    BY <1>1, <1>3, <1>4, EnclosingIsIn

LEMMA BlockAppended ==
    ASSUME Typed, NEW x \in [parent : Nat, next_local : Nat], blocks' = Append(blocks, x)
    PROVE  /\ Len(blocks) \in Nat /\ Len(blocks') = Len(blocks) + 1 /\ GrowsBlocks
           /\ blocks'[Len(blocks) + 1] = x
<1>1. /\ blocks' \in Seq([parent : Nat, next_local : Nat]) /\ Len(blocks') = Len(blocks) + 1
      /\ \A i \in 1..Len(blocks) : blocks'[i] = blocks[i]
      /\ blocks'[Len(blocks) + 1] = x /\ Len(blocks) \in Nat
    BY AppendProperties, LenProperties DEF Typed
<1>2. Len(blocks') >= Len(blocks)
    BY <1>1
<1> QED
    BY <1>1, <1>2 DEF GrowsBlocks

\* A block starts inside the current one.
LEMMA StartBlockStep ==
    ASSUME IInv, StartBlock
    PROVE  IInv'
<1>1. frames # << >> /\ Top.fn # "function"
    BY ReadsFacts, ReadsReadsOn DEF StartBlock
<1>2. Typed /\ Stack /\ Top.block \in Nat /\ Here = Len(il) /\ Here \in Nat /\ Len(blocks) \in Nat
    BY <1>1, TopInBlock, LenProperties DEF IInv, Typed
<1> DEFINE b == Len(blocks) + 1
           x == Instr("op_block_start", b)
           f == Frame("block", b, << >>, 0)
           r == [parent |-> Top.block, next_local |-> 0]
           n == Len(frames)
<1>3. x \in Instruction /\ x.op = "op_block_start" /\ x.arg = b /\ x = Instr("op_block_start", b)
    BY <1>2 DEF Instr, Instruction, Ops
<1>4. il' = Append(il, x) /\ frames' = Append(frames, f) /\ pc' = "statement"
    BY DEF StartBlock, Enter
<1>5. /\ f \in Activation /\ f.fn = "block" /\ f.block = b /\ f.pending = << >>
      /\ f.start = 0 /\ Marks(f) = {}
    <2>1. "block" \in Fns /\ "block" \notin Loops /\ << >> \in Seq(Nat) /\ 0 \in Nat /\ b \in Nat
        BY <1>2 DEF Fns, Loops
    <2>2. Fresh(f, "block", b, << >>, 0)
        BY <2>1, FrameFacts
    <2> HIDE DEF f
    <2> QED
        BY <2>1, <2>2 DEF Fresh
<1>6. r \in [parent : Nat, next_local : Nat] /\ r.parent = Top.block
    BY <1>2
<1>7. blocks' = Append(blocks, r)
    BY DEF StartBlock
<1>8. b \in Nat /\ b \in 1..b /\ b = Len(blocks) + 1 /\ n \in Nat \ {0} /\ n \in 1..n /\ n = Len(frames)
    BY <1>1, <1>2, TopFacts
<1> HIDE DEF x, f, r
<1>9. Len(blocks') = b /\ GrowsBlocks /\ blocks'[b] = r
    BY <1>2, <1>6, <1>7, BlockAppended
<1> HIDE DEF b
<1>10. Adds(<< x >>) /\ Grows({}) /\ New = {Here} /\ il'[Here + 1] = x /\ Len(il') = Len(il) + 1
    <2>1. << x >> \in Seq(Instruction) /\ Len(<< x >>) = 1 /\ << x >>[1] = x
        BY <1>3
    <2>2. il' = il \o << x >>
        BY <1>2, <1>3, <1>4, AppendedOne
    <2>3. Adds(<< x >>) /\ Grows({})
        BY <1>2, <2>1, <2>2, Extended
    <2> QED
        BY <1>2, <2>1, <2>3, AddedOne DEF Adds
<1>11. /\ Leaves(n) /\ Len(frames') = n + 1 /\ frames'[n + 1] = f /\ n < Len(frames')
       /\ Ended(n) = {} /\ Begun(n) = Pendings(f) /\ Top' = f
    BY <1>1, <1>2, <1>4, <1>5, <1>8, Pushes
<1>12. /\ ~(n < n) /\ frames' # << >> /\ Len(frames') \in 2..Len(frames')
       /\ \A k \in 1..n : frames'[k] = frames[k]
    BY <1>8, <1>11, EmptySeq DEF Leaves, Stays
<1> HIDE DEF n
<1>13. functions' = functions /\ breaks' = breaks
    BY DEF StartBlock
<1>14. source' \in Seq(TokenRecord)
    <2>1. PICK kind \in TokenKinds : Consume(kind, 0, {})
        BY Zenon DEF StartBlock, TokenKinds
    <2> QED
        BY <1>2, <2>1, Consumed
<1>15. Typed' /\ Places' /\ Unpatched' /\ Breaks' /\ Jumps'
    <2>1. Begun(n) = {}
        BY <1>5, <1>11 DEF Pendings
    <2>2. SameSwitches(n)
        BY <1>5, <1>8, <1>11, <1>12, <1>13 DEF SameSwitches
    <2>3. \A i \in New : il'[i + 1].op \notin JumpOps
        BY <1>3, <1>10 DEF JumpOps
    <2>4. Stays(n)
        BY <1>11 DEF Leaves
    <2> QED
        BY <1>1, <1>5, <1>9, <1>10, <1>11, <1>13, <1>14, <2>1, <2>2, <2>3, <2>4, BlockStep
<1>16. Control'
    BY <1>4, <1>5, <1>11, <1>12 DEF Control
<1>17. Top = frames[n] /\ Top.block < b /\ b \in 1..Len(blocks')
    <2>1. Top.block \in 1..Len(blocks)
        BY <1>1, <1>2, TopBlock
    <2> QED
        BY <1>2, <1>8, <1>9, <2>1, TopFacts
<1>18. Tables'
    <2>1. \A c \in 1..Len(blocks') : c \in 1..Len(blocks) \/ c = b
        BY <1>2, <1>8, <1>9
    <2>2. \A c \in 1..Len(blocks) : blocks'[c].parent < c
        BY <1>9 DEF GrowsBlocks, IInv, Tables
    <2>3. \A c \in 1..Len(blocks') : blocks'[c].parent < c
        BY <1>6, <1>9, <1>17, <2>1, <2>2
    <2> QED
        BY <1>1, <1>10, <1>13, <2>3, TablesKept
<1>19. Stack'
    <2>1. \A k \in 1..Len(frames') : k \in 1..n \/ k = n + 1
        BY <1>8, <1>11
    <2>2. \A i \in Indices : i \in Indices'
        BY <1>2, <1>10, OldIndices
    <2>3. ASSUME NEW k \in 2..Len(frames')
          PROVE  /\ frames'[k].fn # "function"
                 /\ frames'[k].block \in 1..Len(blocks')
                 /\ IF frames'[k].fn = "block"
                    THEN blocks'[frames'[k].block].parent = frames'[k - 1].block
                    ELSE frames'[k].block = frames'[k - 1].block
        <3>1. CASE k \in 1..n
            <4>1. k \in 2..Len(frames) /\ k - 1 \in 1..n
                BY <1>8, <2>3, <3>1
            <4>2. /\ frames[k].fn # "function"
                  /\ frames[k].block \in 1..Len(blocks)
                  /\ IF frames[k].fn = "block"
                     THEN blocks[frames[k].block].parent = frames[k - 1].block
                     ELSE frames[k].block = frames[k - 1].block
                BY <1>2, <4>1 DEF Stack
            <4>3. frames'[k] = frames[k] /\ frames'[k - 1] = frames[k - 1]
                BY <1>12, <3>1, <4>1
            <4>4. \A c \in 1..Len(blocks) : c \in 1..Len(blocks') /\ blocks'[c].parent = blocks[c].parent
                BY <1>2, <1>8, <1>9 DEF GrowsBlocks
            <4> QED
                BY <4>2, <4>3, <4>4
        <3>2. CASE k = n + 1
            <4>1. k - 1 = n /\ frames'[n] = frames[n] /\ frames'[k] = f
                BY <1>8, <1>11, <1>12, <3>2
            <4> QED
                BY <1>5, <1>6, <1>9, <1>17, <4>1
        <3> QED
            BY <2>1, <2>3, <3>1, <3>2
    <2>4. ASSUME NEW k \in 1..Len(frames')
          PROVE  /\ Len(frames'[k].pending) = NumPending(frames'[k].fn)
                 /\ frames'[k].start \in Indices'
                 /\ \A j \in 1..k : frames'[j].block <= frames'[k].block
        <3>1. CASE k \in 1..n
            <4>1. /\ Len(frames[k].pending) = NumPending(frames[k].fn)
                  /\ frames[k].start \in Indices
                  /\ \A j \in 1..k : frames[j].block <= frames[k].block
                BY <1>8, <3>1 DEF IInv, Stack
            <4>2. frames'[k] = frames[k] /\ \A j \in 1..k : frames'[j] = frames[j]
                BY <1>8, <1>12, <3>1
            <4> QED
                BY <2>2, <4>1, <4>2
        <3>2. CASE k = n + 1
            <4>1. frames'[k] = f /\ Len(f.pending) = NumPending(f.fn)
                BY <1>5, <1>11, <3>2 DEF NumPending
            <4>2. f.start \in Indices'
                BY <1>2, <1>5, <1>10 DEF Indices
            <4>3. ASSUME NEW j \in 1..k PROVE frames'[j].block <= b
                <5>1. j \in 1..n \/ j = k
                    BY <1>8, <3>2
                <5>2. CASE j = k
                    BY <1>5, <1>8, <4>1, <5>2
                <5>3. CASE j \in 1..n
                    <6>1. frames[j].block <= frames[n].block /\ frames'[j] = frames[j]
                        BY <1>2, <1>8, <1>12, <5>3 DEF Stack
                    <6>2. frames[j] \in Activation
                        BY <1>2, <1>8, <5>3, ElementOfSeq DEF Typed
                    <6>3. frames[j].block \in Nat
                        BY <6>2 DEF Activation
                    <6> QED
                        BY <1>2, <1>8, <1>17, <6>1, <6>3
                <5> QED
                    BY <5>1, <5>2, <5>3
            <4> QED
                BY <1>5, <4>1, <4>2, <4>3
        <3> QED
            BY <2>1, <3>1, <3>2
    <2>5. frames'[1].fn = "function" /\ frames'[1].block = 0
        BY <1>1, <1>2, <1>8, <1>12 DEF Stack
    <2> QED
        BY <2>3, <2>4, <2>5 DEF Stack
<1>20. Nesting'
    <2>1. EnclosingIn(il', Len(blocks'), Len(il)) = Open(n)
        BY <1>8, <1>9, <1>10, OpenAtEnd
    <2>2. il' \in Seq(Instruction) /\ Len(blocks') \in Nat /\ Len(il) \in 0..(Len(il') - 1)
        BY <1>2, <1>8, <1>9, <1>10 DEF Grows
    <2>3. il'[Len(il) + 1] = Instr("op_block_start", b)
        BY <1>2, <1>3, <1>10
    <2>4. EnclosingIn(il', Len(blocks'), Len(il) + 1) = EnclosingIn(il', Len(blocks'), Len(il)) \cup {b}
        BY <1>17, <2>2, <2>3, EnclosingStart
    <2>5. Open(Len(frames))' = Open(n) \cup {b}
        <3>1. Open(Len(frames))' = {frames'[j].block : j \in 1..Len(frames')} \ {0}
            BY DEF Open
        <3>2. 1..Len(frames') = 1..n \cup {n + 1}
            BY <1>8, <1>11
        <3>3. frames'[n + 1].block = b /\ b # 0
            BY <1>2, <1>5, <1>8, <1>11
        <3> QED
            BY <1>12, <3>1, <3>2, <3>3 DEF Open
    <2>6. EnclosingIn(il', Len(blocks'), Len(il')) = Open(Len(frames))'
        BY <1>10, <2>1, <2>4, <2>5
    <2>7. /\ il'[Here + 1].op = "op_block_start" /\ il'[Here + 1].arg \in 1..Len(blocks')
          /\ Top.block = blocks'[il'[Here + 1].arg].parent
        BY <1>3, <1>6, <1>9, <1>10, <1>17
    <2> QED
        BY <1>1, <1>9, <1>10, <2>6, <2>7, NestingStep
<1> QED
    BY <1>15, <1>16, <1>18, <1>19, <1>20 DEF IInv

\* The innermost block ends.
LEMMA EndBlockStep ==
    ASSUME IInv, EndBlock
    PROVE  IInv'
<1>1. frames # << >> /\ Top.fn = "block"
    BY DEF EndBlock, IInv, Control
<1>2. /\ Typed /\ Stack /\ Tables /\ Top.block \in Nat /\ Here = Len(il) /\ Here \in Nat
      /\ Len(blocks) \in Nat
    BY <1>1, TopInBlock, LenProperties DEF IInv, Typed
<1> DEFINE b == Top.block
           x == Instr("op_block_end", b)
           n == Len(frames) - 1
<1>3. x \in Instruction /\ x.op = "op_block_end" /\ x.arg = b /\ x = Instr("op_block_end", b)
    BY <1>2 DEF Instr, Instruction, Ops
<1>4. il' = Append(il, x) /\ frames' = Below /\ pc' = "returned" /\ blocks' = blocks
    BY DEF EndBlock
<1>5. /\ b \in 1..Len(blocks) /\ Len(frames) \in 2..Len(frames) /\ Len(frames) \in Nat
      /\ Top = frames[Len(frames)]
    BY <1>1, <1>2, TopBlock, TopFacts
<1>6. /\ frames' \in Seq(Activation) /\ Len(frames') = n
      /\ \A k \in 1..n : frames'[k] = frames[k] /\ k \in 1..Len(frames)
    BY <1>1, <1>2, <1>4, TopFacts
<1>7. /\ n \in Nat \ {0} /\ n \in 1..n /\ n \in 1..Len(frames) /\ Len(frames) = n + 1 /\ n < Len(frames)
      /\ ~(n < n)
    BY <1>5
<1> HIDE DEF x, b, n
<1>8. frames' # << >>
    BY <1>6, <1>7, EmptySeq
<1>9. GrowsBlocks /\ Len(blocks') = Len(blocks)
    BY <1>2, <1>4, BlocksKept
<1>10. Adds(<< x >>) /\ Grows({}) /\ New = {Here} /\ il'[Here + 1] = x /\ Len(il') = Len(il) + 1
    <2>1. << x >> \in Seq(Instruction) /\ Len(<< x >>) = 1 /\ << x >>[1] = x
        BY <1>3
    <2>2. il' = il \o << x >>
        BY <1>2, <1>3, <1>4, AppendedOne
    <2>3. Adds(<< x >>) /\ Grows({})
        BY <1>2, <2>1, <2>2, Extended
    <2> QED
        BY <1>2, <2>1, <2>3, AddedOne DEF Adds
<1>11. functions' = functions /\ breaks' = breaks
    BY DEF EndBlock
<1>12. source' \in Seq(TokenRecord)
    <2>1. PICK kind \in TokenKinds : Consume(kind, 0, {})
        BY Zenon DEF EndBlock, TokenKinds, Closing
    <2> QED
        BY <1>2, <2>1, Consumed
<1>13. Typed' /\ Places' /\ Unpatched' /\ Breaks' /\ Jumps'
    <2>1. Stays(n)
        BY <1>6, <1>7 DEF Stays
    <2>2. Ended(n) = {}
        <3>1. Len(Top.pending) = 0
            BY <1>1, <1>2, <1>5, <1>7 DEF Stack, NumPending
        <3> QED
            BY <3>1 DEF Ended, Pendings
    <2>3. Begun(n) = {} /\ ~(n < Len(frames'))
        BY <1>6, <1>7 DEF Begun
    <2>4. SameSwitches(n)
        BY <1>1, <1>6, <1>7, <1>11 DEF SameSwitches
    <2>5. \A i \in New : il'[i + 1].op \notin JumpOps
        BY <1>3, <1>10 DEF JumpOps
    <2> QED
        BY <1>1, <1>9, <1>10, <1>11, <1>12, <2>1, <2>2, <2>3, <2>4, <2>5, BlockStep
<1>14. Control'
    BY <1>4, <1>8 DEF Control
<1>15. Tables'
    <2>1. \A c \in 1..Len(blocks') : blocks'[c].parent < c
        BY <1>2, <1>4 DEF Tables
    <2> QED
        BY <1>1, <1>10, <1>11, <2>1, TablesKept
<1>16. Stack'
    <2>1. \A i \in Indices : i \in Indices'
        BY <1>2, <1>10, OldIndices
    <2>2. ASSUME NEW k \in 2..Len(frames')
          PROVE  /\ frames'[k].fn # "function"
                 /\ frames'[k].block \in 1..Len(blocks')
                 /\ IF frames'[k].fn = "block"
                    THEN blocks'[frames'[k].block].parent = frames'[k - 1].block
                    ELSE frames'[k].block = frames'[k - 1].block
        <3>1. k \in 2..Len(frames) /\ k \in 1..n /\ k - 1 \in 1..n
            BY <1>6, <1>7
        <3>2. frames'[k] = frames[k] /\ frames'[k - 1] = frames[k - 1]
            BY <1>6, <3>1
        <3> QED
            BY <1>2, <1>4, <3>1, <3>2 DEF Stack
    <2>3. ASSUME NEW k \in 1..Len(frames')
          PROVE  /\ Len(frames'[k].pending) = NumPending(frames'[k].fn)
                 /\ frames'[k].start \in Indices'
                 /\ \A j \in 1..k : frames'[j].block <= frames'[k].block
        <3>1. k \in 1..n /\ k \in 1..Len(frames) /\ \A j \in 1..k : j \in 1..n
            BY <1>6, <1>7
        <3>2. frames'[k] = frames[k] /\ \A j \in 1..k : frames'[j] = frames[j]
            BY <1>6, <3>1
        <3>3. /\ Len(frames[k].pending) = NumPending(frames[k].fn)
              /\ frames[k].start \in Indices
              /\ \A j \in 1..k : frames[j].block <= frames[k].block
            BY <1>2, <3>1 DEF Stack
        <3> QED
            BY <2>1, <3>2, <3>3
    <2>4. frames'[1].fn = "function" /\ frames'[1].block = 0
        BY <1>1, <1>2, <1>6, <1>7 DEF Stack
    <2> QED
        BY <2>2, <2>3, <2>4 DEF Stack
<1>17. ASSUME NEW j \in 1..n PROVE frames[j].block # b /\ frames'[j].block = frames[j].block
    <2>1. frames[j].block <= frames[n].block
        BY <1>2, <1>7 DEF Stack
    <2>2. frames[n].block = blocks[b].parent
        <3>1. Len(frames) - 1 = n
            BY <1>7
        <3> QED
            BY <1>1, <1>2, <1>5, <3>1 DEF Stack, b
    <2>3. blocks[b].parent < b
        BY <1>2, <1>5 DEF Tables
    <2>4. frames[j].block \in Nat /\ frames[n].block \in Nat
        <3>1. frames[j] \in Activation /\ frames[n] \in Activation
            BY <1>2, <1>6, <1>7, ElementOfSeq DEF Typed
        <3> QED
            BY <3>1 DEF Activation
    <2>5. b \in Nat
        BY <1>5
    <2> QED
        BY <1>6, <2>1, <2>2, <2>3, <2>4, <2>5
<1>18. Nesting'
    <2>1. EnclosingIn(il', Len(blocks'), Len(il)) = Open(Len(frames))
        BY <1>9, <1>10, OpenAtEnd
    <2>2. il' \in Seq(Instruction) /\ Len(blocks') \in Nat /\ Len(il) \in 0..(Len(il') - 1)
        BY <1>2, <1>9, <1>10 DEF Grows
    <2>3. il'[Len(il) + 1] = Instr("op_block_end", b)
        BY <1>2, <1>3, <1>10
    <2>4. EnclosingIn(il', Len(blocks'), Len(il) + 1) = EnclosingIn(il', Len(blocks'), Len(il)) \ {b}
        BY <2>2, <2>3, EnclosingEnd
    <2>5. Open(Len(frames))' = Open(Len(frames)) \ {b}
        <3>1. Open(Len(frames))' = {frames'[j].block : j \in 1..n} \ {0}
            BY <1>6 DEF Open
        <3>2. {frames'[j].block : j \in 1..n} = {frames[j].block : j \in 1..n}
            BY <1>17
        <3>3. 1..Len(frames) = 1..n \cup {n + 1} /\ frames[n + 1].block = b
            BY <1>5, <1>7 DEF b
        <3>4. Open(Len(frames)) = ({frames[j].block : j \in 1..n} \cup {b}) \ {0}
            BY <3>3 DEF Open
        <3>5. b \notin {frames[j].block : j \in 1..n}
            BY <1>17
        <3> QED
            BY <3>1, <3>2, <3>4, <3>5
    <2>6. EnclosingIn(il', Len(blocks'), Len(il')) = Open(Len(frames))'
        BY <1>10, <2>1, <2>4, <2>5
    <2>7. /\ il'[Here + 1].op = "op_block_end" /\ Top.block = il'[Here + 1].arg
          /\ Top.block \in 1..Len(blocks')
        BY <1>3, <1>5, <1>9, <1>10 DEF b
    <2> QED
        BY <1>1, <1>9, <1>10, <2>6, <2>7, NestingStep
<1> QED
    BY <1>13, <1>14, <1>15, <1>16, <1>18 DEF IInv

\* Where nothing is read nothing is open.
LEMMA NoFrames ==
    /\ frames = << >> => AllPending = {} /\ Exits = {} /\ Open(Len(frames)) = {} /\ Len(frames) = 0
    /\ frames' = << >> => AllPending' = {} /\ Exits' = {} /\ Open(Len(frames))' = {} /\ Len(frames') = 0
<1>1. 1..Len(<< >>) = {} /\ Len(<< >>) = 0
    OBVIOUS
<1> QED
    BY <1>1 DEF AllPending, Exits, Open

LEMMA FunctionAppended ==
    ASSUME IInv, NEW x \in [entry : Nat, exit : Int], functions' = Append(functions, x)
    PROVE  /\ functions' \in Seq([entry : Nat, exit : Int])
           /\ Len(functions) \in Nat /\ Len(functions') = Len(functions) + 1
           /\ \A f \in 1..Len(functions) : functions'[f] = functions[f] /\ f \in 1..Len(functions')
           /\ functions'[Len(functions) + 1] = x /\ KeepsFunctions
<1>1. /\ functions' \in Seq([entry : Nat, exit : Int])
      /\ Len(functions) \in Nat /\ Len(functions') = Len(functions) + 1
      /\ \A f \in 1..Len(functions) : functions'[f] = functions[f]
      /\ functions'[Len(functions) + 1] = x
    BY AppendProperties, LenProperties DEF IInv, Typed
<1>2. \A f \in 1..Len(functions) : f \in 1..Len(functions')
    BY <1>1
<1>3. KeepsFunctions
    BY <1>1, <1>2 DEF KeepsFunctions, SameFunction, Within
<1> QED
    BY <1>1, <1>2, <1>3

\* The body of a function begins with its block.
LEMMA StartFunctionStep ==
    ASSUME IInv, StartFunction
    PROVE  IInv'
<1>1. pc = "global" /\ frames = << >>
    BY DEF StartFunction, IInv, Control
<1>2. /\ Typed /\ Nesting /\ Breaks /\ Tables /\ Here = Len(il) /\ Here \in Nat /\ Len(blocks) \in Nat
      /\ Len(il) \in Nat /\ Len(il) >= 8
    BY LenProperties DEF IInv, Typed, Here
<1> DEFINE b == Len(blocks) + 1
           x == Instr("op_block_start", b)
           s == << Plain("op_entry_point"), x >>
           F == Frame("function", 0, << >>, 0)
           B == Frame("block", b, << >>, 0)
           r == [parent |-> 0, next_local |-> 0]
           fn == [entry |-> Here, exit |-> Unset]
<1>3. x \in Instruction /\ x.op = "op_block_start" /\ x.arg = b /\ x = Instr("op_block_start", b)
    BY <1>2 DEF Instr, Instruction, Ops
<1>4. s \in Seq(Instruction) /\ Len(s) = 2 /\ s[1].op = "op_entry_point" /\ s[2] = x
    BY <1>3 DEF Plain, Instr, Instruction, Ops
<1>5. /\ il' = il \o s /\ frames' = << F, B >> /\ pc' = "statement" /\ breaks' = breaks
      /\ blocks' = Append(blocks, r) /\ functions' = Append(functions, fn)
    BY DEF StartFunction
<1>6. /\ F \in Activation /\ F.fn = "function" /\ F.block = 0 /\ F.pending = << >>
      /\ F.start = 0 /\ Marks(F) = {}
    <2>1. "function" \in Fns /\ "function" \notin Loops /\ << >> \in Seq(Nat) /\ 0 \in Nat
        BY DEF Fns, Loops
    <2>2. Fresh(F, "function", 0, << >>, 0)
        BY <2>1, FrameFacts
    <2> HIDE DEF F
    <2> QED
        BY <2>1, <2>2 DEF Fresh
<1>7. /\ B \in Activation /\ B.fn = "block" /\ B.block = b /\ B.pending = << >>
      /\ B.start = 0 /\ Marks(B) = {}
    <2>1. "block" \in Fns /\ "block" \notin Loops /\ << >> \in Seq(Nat) /\ 0 \in Nat /\ b \in Nat
        BY <1>2 DEF Fns, Loops
    <2>2. Fresh(B, "block", b, << >>, 0)
        BY <2>1, FrameFacts
    <2> HIDE DEF B
    <2> QED
        BY <2>1, <2>2 DEF Fresh
<1>8. /\ r \in [parent : Nat, next_local : Nat] /\ r.parent = 0
      /\ fn \in [entry : Nat, exit : Int] /\ fn.entry = Here /\ fn.exit = Unset
    BY <1>2 DEF Unset
<1>9. b \in Nat \ {0} /\ b = Len(blocks) + 1
    BY <1>2
<1> HIDE DEF x, s, F, B, r, fn
<1>10. Len(blocks') = b /\ GrowsBlocks /\ blocks'[b] = r
    BY <1>2, <1>5, <1>8, BlockAppended
<1> HIDE DEF b
<1>11. /\ Adds(s) /\ Grows({}) /\ New = {Here, Here + 1}
       /\ il'[Here + 1] = s[1] /\ il'[(Here + 1) + 1] = x /\ Len(il') = Len(il) + 2
    <2>1. Adds(s) /\ Grows({})
        BY <1>2, <1>4, <1>5, Extended
    <2> QED
        BY <1>2, <1>4, <2>1, AddedTwo DEF Adds
<1>12. /\ functions' \in Seq([entry : Nat, exit : Int])
       /\ Len(functions) \in Nat /\ Len(functions') = Len(functions) + 1
       /\ \A f \in 1..Len(functions) : functions'[f] = functions[f] /\ f \in 1..Len(functions')
       /\ functions'[Len(functions) + 1] = fn /\ KeepsFunctions
    BY <1>5, <1>8, FunctionAppended
<1>13. /\ frames' \in Seq(Activation) /\ Len(frames') = 2 /\ frames'[1] = F /\ frames'[2] = B
       /\ frames' # << >> /\ Top' = B /\ 1..Len(frames') = {1, 2} /\ 2..Len(frames') = {2}
    BY <1>5, <1>6, <1>7 DEF Top
<1>14. source' \in Seq(TokenRecord)
    <2>1. PICK kind \in TokenKinds : Consume(kind, 0, {})
        BY Zenon DEF StartFunction, TokenKinds
    <2> QED
        BY <1>2, <2>1, Consumed
<1>15. Pendings(F) = {} /\ Pendings(B) = {}
    BY <1>6, <1>7 DEF Pendings
<1>16. /\ AllPending = {} /\ Exits = {} /\ Open(Len(frames)) = {} /\ AllPending' = {} /\ Exits' = {}
       /\ Ordered'
    <2>1. AllPending = {} /\ Exits = {} /\ Open(Len(frames)) = {}
        BY <1>1, NoFrames
    <2>2. \A k \in 1..Len(frames') : frames'[k].pending = << >> /\ frames'[k].fn # "switch"
        BY <1>6, <1>7, <1>13
    <2>3. AllPending' = UNION {{frames'[k].pending[n] : n \in 1..Len(frames'[k].pending)} : k \in 1..Len(frames')}
        BY DEF AllPending, Pendings
    <2>4. \A k \in 1..Len(frames') : {frames'[k].pending[n] : n \in 1..Len(frames'[k].pending)} = {}
        BY <2>2
    <2>5. AllPending' = {}
        BY <2>3, <2>4
    <2>6. Exits' = {}
        BY <2>2 DEF Exits
    <2>7. Ordered'
        BY <2>2 DEF Ordered
    <2> QED
        BY <2>1, <2>5, <2>6, <2>7
<1>17. Jumps' /\ {i \in Indices' : JumpsAt(i)' /\ il'[i + 1].arg = Unset} = AllPending
    <2>1. \A i \in New : il'[i + 1].op \notin JumpOps
        BY <1>3, <1>4, <1>11 DEF JumpOps
    <2> QED
        BY <1>10, <1>11, <1>12, <1>16, <2>1, JumpsKept
<1>18. Unpatched' /\ Breaks'
    BY <1>2, <1>5, <1>16, <1>17 DEF Unpatched, Breaks
<1>19. Places'
    <2>1. \A k \in 1..Len(frames') :
              Pendings(frames'[k]) = {} /\ Marks(frames'[k]) = {} /\ frames'[k].fn # "switch"
        BY <1>6, <1>7, <1>13, <1>15
    <2>2. \A k \in 1..Len(frames') :
                  /\ \A p \in Pendings(frames'[k]) : Place(k, p)'
                  /\ \A p \in Marks(frames'[k]) : Place(k, p)' /\ il'[p + 1].op = "op_label"
                  /\ frames'[k].fn = "switch" => il'[frames'[k].pending[2] + 1].op = "op_jump"
        BY <2>1
    <2> QED
        BY <2>2 DEF Places, Pendings, Marks
<1>20. Typed'
    <2>1. il' \in Seq(Instruction) /\ Len(il') >= 8 /\ Len(functions') >= 1
        BY <1>2, <1>11, <1>12 DEF Grows
    <2>2. blocks' \in Seq([parent : Nat, next_local : Nat])
        BY <1>10 DEF GrowsBlocks
    <2>3. breaks' \in Seq(Nat)
        BY <1>2, <1>5 DEF Typed
    <2> QED
        BY <1>12, <1>13, <1>14, <2>1, <2>2, <2>3 DEF Typed
<1>21. Control'
    BY <1>5, <1>7, <1>13 DEF Control
<1>22. Tables'
    <2>1. \A c \in 1..Len(blocks') : c \in 1..Len(blocks) \/ c = b
        BY <1>2, <1>9, <1>10
    <2>2. \A c \in 1..Len(blocks) : blocks'[c].parent < c
        BY <1>2, <1>10 DEF GrowsBlocks, Tables
    <2>3. \A c \in 1..Len(blocks') : blocks'[c].parent < c
        BY <1>8, <1>9, <1>10, <2>1, <2>2
    <2>4. ASSUME NEW f \in 1..Len(functions')
          PROVE  functions'[f].entry < Len(il') /\ functions'[f].exit \in Indices' \cup {Unset}
        <3>1. f \in 1..Len(functions) \/ f = Len(functions) + 1
            BY <1>12
        <3>2. CASE f \in 1..Len(functions)
            <4>1. functions[f].entry < Len(il) /\ functions[f].exit \in Indices \cup {Unset}
                BY <1>2, <3>2 DEF Tables
            <4>2. functions[f] \in [entry : Nat, exit : Int]
                BY <1>2, <3>2, ElementOfSeq DEF Typed
            <4>3. functions[f].entry \in Nat /\ \A i \in Indices : i \in Indices'
                BY <1>2, <1>11, <4>2, OldIndices
            <4>4. functions'[f] = functions[f]
                BY <1>12, <3>2
            <4>5. PICK e \in Nat : e = functions[f].entry
                BY <4>3
            <4>6. e < Len(il')
                BY <1>2, <1>11, <4>1, <4>5
            <4> QED
                BY <4>1, <4>3, <4>4, <4>5, <4>6
        <3>3. CASE f = Len(functions) + 1
            BY <1>2, <1>8, <1>11, <1>12, <3>3
        <3> QED
            BY <3>1, <3>2, <3>3
    <2>5. functions'[Len(functions')].exit = Unset
        BY <1>8, <1>12
    <2> QED
        BY <2>3, <2>4, <2>5 DEF Tables
<1>23. Stack'
    <2>1. 0 \in Indices' /\ Len(<< >>) = 0
        BY <1>2, <1>11 DEF Indices
    <2>2. frames'[1].fn = "function" /\ frames'[1].block = 0
        BY <1>6, <1>13
    <2>3. ASSUME NEW k \in 2..Len(frames')
          PROVE  /\ frames'[k].fn # "function"
                 /\ frames'[k].block \in 1..Len(blocks')
                 /\ IF frames'[k].fn = "block"
                    THEN blocks'[frames'[k].block].parent = frames'[k - 1].block
                    ELSE frames'[k].block = frames'[k - 1].block
        <3>1. k = 2 /\ k - 1 = 1 /\ frames'[k] = B /\ frames'[k - 1] = F
            BY <1>13
        <3>2. b \in 1..Len(blocks')
            BY <1>9, <1>10
        <3> QED
            BY <1>6, <1>7, <1>8, <1>10, <3>1, <3>2
    <2>4. ASSUME NEW k \in 1..Len(frames')
          PROVE  /\ Len(frames'[k].pending) = NumPending(frames'[k].fn)
                 /\ frames'[k].start \in Indices'
                 /\ \A j \in 1..k : frames'[j].block <= frames'[k].block
        <3>1. /\ Len(F.pending) = NumPending(F.fn) /\ Len(B.pending) = NumPending(B.fn)
              /\ F.start \in Indices' /\ B.start \in Indices'
            BY <1>6, <1>7, <2>1 DEF NumPending
        <3>2. 0 <= 0 /\ 0 <= b /\ b <= b
            BY <1>9
        <3>3. CASE k = 1
            BY <1>6, <1>13, <3>1, <3>2, <3>3
        <3>4. CASE k = 2
            <4>1. \A j \in 1..k : j = 1 \/ j = 2
                BY <3>4
            <4> QED
                BY <1>6, <1>7, <1>13, <3>1, <3>2, <3>4, <4>1
        <3> QED
            BY <1>13, <3>3, <3>4
    <2> QED
        BY <2>2, <2>3, <2>4 DEF Stack
<1>24. Nesting'
    <2>1. EnclosingIn(il', Len(blocks'), Len(il)) = {}
        BY <1>10, <1>11, <1>16, OpenAtEnd
    <2>2. /\ il' \in Seq(Instruction) /\ Len(blocks') \in Nat
          /\ Len(il) \in 0..Len(il') /\ Len(il) + 1 \in Len(il)..Len(il')
          /\ Len(il) + 1 \in 0..(Len(il') - 1) /\ b \in 1..Len(blocks')
        BY <1>2, <1>9, <1>10, <1>11 DEF Grows
    <2>3. \A k \in Len(il)..((Len(il) + 1) - 1) : k = Here
        BY <1>2
    <2>4. \A k \in Len(il)..((Len(il) + 1) - 1) : il'[k + 1].op \notin BlockOps
        BY <1>4, <1>11, <2>3 DEF BlockOps
    <2>5. EnclosingIn(il', Len(blocks'), Len(il) + 1) = {}
        BY <2>1, <2>2, <2>4, EnclosingRange
    <2>6. il'[(Len(il) + 1) + 1] = Instr("op_block_start", b)
        BY <1>2, <1>3, <1>11
    <2>7. EnclosingIn(il', Len(blocks'), (Len(il) + 1) + 1) = {b}
        <3>1. PICK e \in 0..(Len(il') - 1) : e = Len(il) + 1
            BY <2>2
        <3>2. il'[e + 1] = Instr("op_block_start", b) /\ EnclosingIn(il', Len(blocks'), e) = {}
            BY <2>5, <2>6, <3>1
        <3>3. PICK code \in Seq(Instruction), m \in Nat : code = il' /\ m = Len(blocks')
            BY <2>2
        <3>4. e \in 0..(Len(code) - 1) /\ b \in 1..m /\ code[e + 1] = Instr("op_block_start", b)
            BY <2>2, <3>1, <3>2, <3>3
        <3>5. EnclosingIn(code, m, e + 1) = EnclosingIn(code, m, e) \cup {b}
            BY <3>3, <3>4, EnclosingStart
        <3> QED
            BY <3>1, <3>2, <3>3, <3>5
    <2>8. (Len(il) + 1) + 1 = Len(il')
        BY <1>2, <1>11
    <2>9. Enclosing(Len(il))' = Open(Len(frames))'
        <3>1. Enclosing(Len(il))' = EnclosingIn(il', Len(blocks'), Len(il'))
            BY DEF Enclosing, EnclosingIn
        <3>2. Open(Len(frames))' = {frames'[j].block : j \in 1..Len(frames')} \ {0}
            BY DEF Open
        <3>3. {frames'[j].block : j \in 1..Len(frames')} = {0, b}
            BY <1>6, <1>7, <1>13
        <3> QED
            BY <1>9, <2>7, <2>8, <3>1, <3>2, <3>3
    <2>10. ASSUME NEW h, h = Here + 1 PROVE Innermost(h)' = 0
        <3>1. Enclosing(h)' = {}
            BY <1>2, <2>5, <2>10, EnclosingIsIn
        <3> QED
            BY <3>1 DEF Innermost
    <2>11. ASSUME NEW i \in Indices'
           PROVE  /\ il'[i + 1].op \in BlockOps => il'[i + 1].arg \in 1..Len(blocks')
                  /\ il'[i + 1].op = "op_block_start" => Innermost(i)' = blocks'[il'[i + 1].arg].parent
                  /\ il'[i + 1].op = "op_block_end" => Innermost(i)' = il'[i + 1].arg
        <3>1. i \in Indices \/ i = Here \/ i = Here + 1
            BY <1>2, <1>11 DEF Indices
        <3>2. CASE i \in Indices
            BY <1>2, <1>10, <1>11, <3>2, OldNesting
        <3>3. CASE i = Here
            BY <1>4, <1>11, <3>3 DEF BlockOps
        <3>4. CASE i = Here + 1
            <4>1. Innermost(i)' = 0
                BY <2>10, <3>4
            <4> QED
                BY <1>3, <1>8, <1>10, <1>11, <2>2, <3>4, <4>1
        <3> QED
            BY <3>1, <3>2, <3>3, <3>4
    <2> QED
        BY <2>9, <2>11 DEF Nesting
<1> QED
    BY <1>18, <1>17, <1>19, <1>20, <1>21, <1>22, <1>23, <1>24 DEF IInv

\* The body of a function is complete.
LEMMA EndFunctionStep ==
    ASSUME IInv, EndFunction
    PROVE  IInv'
<1>1. frames # << >> /\ Top.fn = "function" /\ frames' = << >> /\ pc' = "global"
    BY DEF EndFunction, IInv, Control
<1>2. /\ Typed /\ Stack /\ Tables /\ Nesting /\ Breaks /\ Here = Len(il) /\ Here \in Nat
      /\ Len(il) \in Nat /\ Len(il) >= 8
    BY LenProperties DEF IInv, Typed, Here
<1>3. Len(frames) = 1 /\ frames[1].fn = "function" /\ frames[1].block = 0
    <2>1. Len(frames) \in Nat \ {0} /\ Top = frames[Len(frames)]
        BY <1>1, <1>2, TopFacts
    <2>2. Len(frames) \notin 2..Len(frames)
        BY <1>1, <1>2, <2>1 DEF Stack
    <2>3. \A k \in Nat \ {0} : k \notin 2..k => k = 1
        OBVIOUS
    <2> QED
        BY <1>1, <1>2, <2>1, <2>2, <2>3 DEF Stack
<1>4. AllPending = {} /\ Exits = {} /\ Open(Len(frames)) = {}
    <2>1. \A k \in 1..Len(frames) : k = 1
        BY <1>3
    <2>2. Len(frames[1].pending) = 0
        BY <1>2, <1>3 DEF Stack, NumPending
    <2>3. Pendings(frames[1]) = {}
        BY <2>2 DEF Pendings
    <2> QED
        BY <1>3, <2>1, <2>3 DEF AllPending, Exits, Open
<1>5. AllPending' = {} /\ Exits' = {} /\ Open(Len(frames))' = {} /\ Len(frames') = 0
    BY <1>1, NoFrames
<1> DEFINE x == Plain("op_exit_point")
           L == Len(functions)
           FN == [entry : Nat, exit : Int]
<1>6. x \in Instruction /\ x.op = "op_exit_point"
    BY DEF Plain, Instr, Instruction, Ops
<1>7. il' = Append(il, x) /\ blocks' = blocks /\ breaks' = breaks /\ source' = source
    BY DEF EndFunction
<1> HIDE DEF x
<1>8. /\ Adds(<< x >>) /\ Grows({}) /\ New = {Here} /\ il'[Here + 1] = x /\ Len(il') = Len(il) + 1
    <2>1. << x >> \in Seq(Instruction) /\ Len(<< x >>) = 1 /\ << x >>[1] = x
        BY <1>6
    <2>2. il' = il \o << x >>
        BY <1>2, <1>6, <1>7, AppendedOne
    <2>3. Adds(<< x >>) /\ Grows({})
        BY <1>2, <2>1, <2>2, Extended
    <2> QED
        BY <1>2, <2>1, <2>3, AddedOne DEF Adds
<1>9. GrowsBlocks /\ Len(blocks') = Len(blocks)
    BY <1>2, <1>7, BlocksKept
<1>10. functions \in Seq(FN) /\ L \in Nat /\ L >= 1 /\ L \in 1..L
    BY <1>2, LenProperties DEF Typed
<1>11. /\ functions' \in Seq(FN) /\ Len(functions') = L
       /\ \A f \in 1..L : f # L => functions'[f] = functions[f]
       /\ functions'[L].entry = functions[L].entry /\ functions'[L].exit = Here
    <2> DEFINE fn == [functions[L] EXCEPT !.exit = Here]
    <2>1. functions[L] \in FN
        BY <1>10, ElementOfSeq
    <2>2. fn \in FN /\ fn.entry = functions[L].entry /\ fn.exit = Here
        BY <1>2, <2>1
    <2>3. functions' = [functions EXCEPT ![L] = fn]
        BY DEF EndFunction
    <2> HIDE DEF fn, FN, L
    <2>4. /\ functions' \in Seq(FN) /\ Len(functions') = Len(functions)
          /\ \A f \in 1..Len(functions) : functions'[f] = IF f = L THEN fn ELSE functions[f]
        BY <1>10, <2>2, <2>3, ExceptSeq DEF L
    <2> QED
        BY <1>10, <2>2, <2>4 DEF L
<1>12. \A f \in 1..L : functions'[f].entry = functions[f].entry
    BY <1>11
<1> HIDE DEF L
<1>13. KeepsFunctions
    <2>1. ASSUME NEW i \in Indices, NEW f \in 1..L, Within(f, i) PROVE Within(f, i)'
        <3>1. i \in Nat /\ i < Here
            BY <1>2 DEF Indices
        <3>2. CASE f = L
            BY <1>11, <2>1, <3>1, <3>2 DEF Within
        <3>3. CASE f # L
            BY <1>11, <2>1, <3>3 DEF Within
        <3> QED
            BY <3>2, <3>3
    <2> QED
        BY <1>11, <2>1 DEF KeepsFunctions, SameFunction, L
<1>14. Jumps' /\ {i \in Indices' : JumpsAt(i)' /\ il'[i + 1].arg = Unset} = AllPending
    <2>1. \A i \in New : il'[i + 1].op \notin JumpOps
        BY <1>6, <1>8 DEF JumpOps
    <2> QED
        BY <1>4, <1>8, <1>9, <1>13, <2>1, JumpsKept
<1>15. Unpatched' /\ Breaks' /\ Places' /\ Stack' /\ Control'
    <2>1. 1..Len(frames') = {} /\ 2..Len(frames') = {}
        BY <1>5
    <2>2. Ordered' /\ Places' /\ Stack'
        BY <1>1, <2>1 DEF Ordered, Places, Stack
    <2>3. Unpatched' /\ Breaks' /\ Control'
        BY <1>1, <1>2, <1>4, <1>5, <1>7, <1>14, <2>2, ZenonT(30) DEF Unpatched, Breaks, Control
    <2> QED
        BY <2>2, <2>3
<1>16. Typed'
    <2>1. il' \in Seq(Instruction) /\ Len(il') >= 8 /\ Len(functions') >= 1
        BY <1>2, <1>8, <1>10, <1>11 DEF Grows
    <2>2. frames' \in Seq(Activation)
        BY <1>1, EmptySeq
    <2> QED
        BY <1>2, <1>7, <1>11, <2>1, <2>2 DEF Typed
<1>17. Tables'
    <2>1. Here \in Indices' /\ \A i \in Indices : i \in Indices'
        BY <1>2, <1>8, OldIndices DEF Indices
    <2>2. ASSUME NEW f \in 1..Len(functions')
          PROVE  functions'[f].entry < Len(il') /\ functions'[f].exit \in Indices' \cup {Unset}
        <3>1. f \in 1..L /\ f \in 1..Len(functions)
            BY <1>11 DEF L
        <3>2. functions[f].entry < Len(il) /\ functions[f].exit \in Indices \cup {Unset}
            BY <1>2, <3>1 DEF Tables
        <3>3. functions[f] \in FN
            BY <1>10, <3>1, ElementOfSeq
        <3>4. functions'[f].entry < Len(il')
            BY <1>2, <1>8, <1>12, <3>1, <3>2, <3>3
        <3>5. functions'[f].exit = functions[f].exit \/ functions'[f].exit = Here
            BY <1>11, <3>1
        <3> QED
            BY <2>1, <3>2, <3>4, <3>5
    <2> QED
        BY <1>1, <1>2, <1>7, <2>2 DEF Tables
<1>18. Nesting'
    <2>1. EnclosingIn(il', Len(blocks'), Len(il)) = {}
        BY <1>4, <1>8, <1>9, OpenAtEnd
    <2>2. /\ il' \in Seq(Instruction) /\ Len(blocks') \in Nat
          /\ Len(il) \in 0..Len(il') /\ Len(il') \in Len(il)..Len(il')
        BY <1>2, <1>8, <1>9 DEF Grows, Typed
    <2>3. \A k \in Len(il)..(Len(il') - 1) : il'[k + 1].op \notin BlockOps
        BY <1>6, <1>8 DEF BlockOps, New
    <2>4. EnclosingIn(il', Len(blocks'), Len(il')) = {}
        BY <2>1, <2>2, <2>3, EnclosingRange
    <2>5. Enclosing(Len(il))' = Open(Len(frames))'
        <3>1. Enclosing(Len(il))' = EnclosingIn(il', Len(blocks'), Len(il'))
            BY DEF Enclosing, EnclosingIn
        <3> QED
            BY <1>5, <2>4, <3>1
    <2>6. ASSUME NEW i \in Indices'
          PROVE  /\ il'[i + 1].op \in BlockOps => il'[i + 1].arg \in 1..Len(blocks')
                 /\ il'[i + 1].op = "op_block_start" => Innermost(i)' = blocks'[il'[i + 1].arg].parent
                 /\ il'[i + 1].op = "op_block_end" => Innermost(i)' = il'[i + 1].arg
        <3>1. i \in Indices \/ i = Here
            BY <1>2, <1>8 DEF Indices
        <3>2. CASE i \in Indices
            BY <1>2, <1>8, <1>9, <3>2, OldNesting
        <3>3. CASE i = Here
            BY <1>6, <1>8, <3>3 DEF BlockOps
        <3> QED
            BY <3>1, <3>2, <3>3
    <2> QED
        BY <2>5, <2>6 DEF Nesting
<1> QED
    BY <1>14, <1>15, <1>16, <1>17, <1>18 DEF IInv

-----------------------------------------------------------------------------
(* The invariant.                                                          *)

LEMMA PrologueFacts ==
    Prologue \in Seq(Instruction) /\ Len(Prologue) = 8 /\ NoJumps(Prologue)
<1>1. \A op \in Ops : Plain(op) \in Instruction /\ Plain(op).op = op
    BY DEF Plain, Instr, Instruction
<1>2. Prologue \in Seq(Instruction) /\ Len(Prologue) = 8
    BY <1>1 DEF Prologue, Ops
<1>3. ASSUME NEW k \in 1..8 PROVE Prologue[k].op \notin JumpOps \cup BlockOps
    <2>1. k \in {1, 2, 3, 4, 5, 6, 7, 8}
        OBVIOUS
    <2> QED
        BY <2>1 DEF Prologue, Plain, Instr, JumpOps, BlockOps
<1> QED
    BY <1>2, <1>3 DEF NoJumps

LEMMA Initial ==
    ASSUME Init
    PROVE  IInv
<1>1. /\ il \in Seq(Instruction) /\ Len(il) = 8 /\ Indices = 0..7
      /\ \A i \in Indices : il[i + 1].op \notin JumpOps \cup BlockOps
    <2>1. il \in Seq(Instruction) /\ Len(il) = 8 /\ NoJumps(il)
        BY PrologueFacts DEF Init
    <2>2. Indices = 0..7 /\ \A i \in 0..7 : i + 1 \in 1..8
        BY <2>1 DEF Indices
    <2> QED
        BY <2>1, <2>2 DEF NoJumps
<1>2. /\ pc = "global" /\ frames = << >> /\ blocks = << >> /\ breaks = << >> /\ source = << >>
      /\ functions = << [entry |-> 5, exit |-> 7] >>
    BY DEF Init
<1>3. AllPending = {} /\ Exits = {} /\ Open(Len(frames)) = {} /\ Len(frames) = 0
    BY <1>2, NoFrames
<1>4. Len(blocks) = 0 /\ Len(breaks) = 0 /\ 1..0 = {} /\ 2..0 = {}
    BY <1>2
<1>5. /\ functions \in Seq([entry : Nat, exit : Int]) /\ Len(functions) = 1
      /\ functions[1].entry = 5 /\ functions[1].exit = 7
    BY <1>2
<1>6. Typed
    BY <1>1, <1>2, <1>5, EmptySeq DEF Typed
<1>7. Control /\ Stack /\ Places /\ Ordered
    BY <1>2, <1>3, <1>4 DEF Control, Stack, Places, Ordered
<1>8. Tables
    <2>1. \A f \in 1..1 : f = 1
        OBVIOUS
    <2> QED
        BY <1>1, <1>2, <1>4, <1>5, <2>1 DEF Tables
<1>9. \A i \in Indices : ~JumpsAt(i) /\ il[i + 1].op \notin BlockOps
    BY <1>1 DEF JumpsAt
<1>10. Unpatched /\ Breaks /\ Jumps
    BY <1>3, <1>4, <1>7, <1>9 DEF Unpatched, Breaks, Jumps
<1>11. Nesting
    <2>1. Enclosing(Len(il)) = {}
        BY <1>4 DEF Enclosing
    <2> QED
        BY <1>3, <1>9, <2>1 DEF Nesting, BlockOps
<1> QED
    BY <1>6, <1>7, <1>8, <1>10, <1>11 DEF IInv

\* The steps that only move the parser on, and those that stutter.
LEMMA ControlStep ==
    ASSUME IInv, Reject \/ Finish \/ UNCHANGED vars
    PROVE  IInv'
<1>1. UNCHANGED <<frames, il, blocks, breaks, functions, source>>
    BY DEF Reject, Finish, vars
<1>2. Control'
    <2>1. CASE Reject
        BY <1>1, <2>1 DEF IInv, Control, Reject
    <2>2. CASE Finish
        BY <1>1, <2>2 DEF IInv, Control, Finish
    <2>3. CASE UNCHANGED vars
        BY <2>3 DEF IInv, Control, vars, Top
    <2> QED
        BY <2>1, <2>2, <2>3
<1> QED
    BY <1>1, <1>2, PcStep

LEMMA Inductive ==
    ASSUME IInv, [Next]_vars
    PROVE  IInv'
<1>1. CASE StartFunction  BY <1>1, StartFunctionStep
<1>2. CASE EndFunction    BY <1>2, EndFunctionStep
<1>3. CASE StartBlock     BY <1>3, StartBlockStep
<1>4. CASE EndBlock       BY <1>4, EndBlockStep
<1>5. CASE Declaration    BY <1>5, DeclarationStep
<1>6. CASE ReturnStatement  BY <1>6, ReturnStep
<1>7. CASE Simple         BY <1>7, SimpleActionStep
<1>8. CASE Empty          BY <1>8, EmptyStep
<1>9. CASE Break          BY <1>9, BreakStep
<1>10. CASE AfterBreak    BY <1>10, AfterBreakStep
<1>11. CASE If            BY <1>11, IfStep
<1>12. CASE Else          BY <1>12, ElseStep
<1>13. CASE EndIf         BY <1>13, EndIfStep
<1>14. CASE While         BY <1>14, WhileStep
<1>15. CASE For           BY <1>15, ForStep
<1>16. CASE EndLoop       BY <1>16, EndLoopStep
<1>17. CASE Do            BY <1>17, DoStep
<1>18. CASE EndDo         BY <1>18, EndDoStep
<1>19. CASE Switch        BY <1>19, SwitchStep
<1>20. CASE CaseLabel     BY <1>20, CaseLabelStep
<1>21. CASE EndSwitch     BY <1>21, EndSwitchStep
<1>22. CASE Reject \/ Finish \/ Terminating \/ UNCHANGED vars
    BY <1>22, ControlStep DEF Terminating
<1> QED
    BY <1>1, <1>2, <1>3, <1>4, <1>5, <1>6, <1>7, <1>8, <1>9, <1>10, <1>11, <1>12, <1>13,
       <1>14, <1>15, <1>16, <1>17, <1>18, <1>19, <1>20, <1>21, <1>22 DEF Next

LEMMA Invariance == Spec => []IInv
<1>1. Init => IInv
    BY Initial
<1>2. IInv /\ [Next]_vars => IInv'
    BY Inductive
<1> QED
    BY <1>1, <1>2, PTL DEF Spec

-----------------------------------------------------------------------------
(* What follows from it.                                                   *)

LEMMA InvariantTyped ==
    ASSUME IInv
    PROVE  TypeOK
<1>1. Typed /\ Control /\ Stack /\ Tables /\ Places /\ Unpatched /\ Breaks
    BY DEF IInv
<1>2. /\ Len(il) \in Nat /\ Len(il) >= 8 /\ Len(blocks) \in Nat /\ 0 \in Indices
      /\ \A i \in 1..Len(source) : source[i] \in TokenRecord
      /\ \A i \in 1..Len(functions) : functions[i] \in [entry : Nat, exit : Int]
      /\ \A i \in 1..Len(blocks) : blocks[i] \in [parent : Nat, next_local : Nat]
      /\ \A i \in 1..Len(il) : il[i] \in Instruction
    <2>1. /\ source \in Seq(TokenRecord) /\ functions \in Seq([entry : Nat, exit : Int])
          /\ blocks \in Seq([parent : Nat, next_local : Nat]) /\ il \in Seq(Instruction)
          /\ Len(il) >= 8
        BY <1>1 DEF Typed
    <2>2. Len(il) \in Nat /\ Len(blocks) \in Nat
        BY <2>1, LenProperties
    <2>3. 0 \in Indices
        BY <2>1, <2>2 DEF Indices
    <2> QED
        BY <2>1, <2>2, <2>3, ElementOfSeq
<1>3. ASSUME NEW k \in 1..Len(frames)
      PROVE  /\ frames[k].fn \in Fns
             /\ frames[k].block \in 0..Len(blocks)
             /\ \A n \in 1..Len(frames[k].pending) : frames[k].pending[n] \in Indices
             /\ {frames[k].start, frames[k].default} \subseteq Indices
             /\ \A n \in 1..Len(frames[k].cases) :
                    /\ frames[k].cases[n].value \in CaseValues
                    /\ frames[k].cases[n].label \in Indices
    <2>1. frames[k] \in Activation
        BY <1>1, ElementOfSeq DEF Typed
    <2>2. frames[k].block \in 0..Len(blocks)
        <3>1. k = 1 \/ k \in 2..Len(frames)
            OBVIOUS
        <3>2. frames # << >>
            OBVIOUS
        <3> QED
            BY <1>1, <1>2, <3>1, <3>2 DEF Stack
    <2>3. \A p \in Pendings(frames[k]) : p \in Indices
        BY <1>1, <1>3 DEF Places, Place
    <2>4. \A p \in Marks(frames[k]) : p \in Indices
        BY <1>1, <1>3 DEF Places, Place
    <2>5. frames[k].start \in Indices
        BY <1>1 DEF Stack
    <2>6. frames[k].default \in Indices
        <3>1. frames[k].default # 0 => frames[k].default \in Marks(frames[k])
            BY DEF Marks
        <3> QED
            BY <1>2, <2>4, <3>1
    <2>7. \A n \in 1..Len(frames[k].cases) : frames[k].cases[n].label \in Indices
        <3>1. \A n \in 1..Len(frames[k].cases) : frames[k].cases[n].label \in Marks(frames[k])
            BY DEF Marks
        <3> QED
            BY <2>4, <3>1
    <2>8. \A n \in 1..Len(frames[k].cases) : frames[k].cases[n].value \in CaseValues
        <3>1. frames[k].cases \in Seq(CaseRecord)
            BY <2>1 DEF Activation
        <3>2. \A n \in 1..Len(frames[k].cases) : frames[k].cases[n] \in CaseRecord
            BY <3>1, ElementOfSeq
        <3> QED
            BY <3>2 DEF CaseRecord
    <2>9. \A n \in 1..Len(frames[k].pending) : frames[k].pending[n] \in Indices
        BY <2>3 DEF Pendings
    <2>10. frames[k].fn \in Fns
        BY <2>1 DEF Activation
    <2> QED
        BY <2>2, <2>5, <2>6, <2>7, <2>8, <2>9, <2>10
<1>4. \A i \in Indices : il[i + 1] \in [op : Ops, arg : Int]
    <2>1. \A i \in Indices : i + 1 \in 1..Len(il)
        BY <1>2 DEF Indices
    <2> QED
        BY <1>2, <2>1 DEF Instruction
<1>5. ASSUME NEW b \in 1..Len(blocks)
      PROVE  blocks[b].parent \in 0..(b - 1) /\ blocks[b].next_local \in Nat
    <2>1. blocks[b].parent \in Nat /\ blocks[b].next_local \in Nat /\ blocks[b].parent < b
        BY <1>1, <1>2 DEF Tables
    <2> QED
        BY <2>1
<1>6. ASSUME NEW n \in 1..Len(breaks) PROVE breaks[n] \in Indices
    <2>1. breaks[n] \in Exits
        BY <1>1 DEF Breaks
    <2> QED
        BY <2>1, ExitsPending
<1>7. ASSUME NEW f \in 1..Len(functions)
      PROVE  functions[f].entry \in Indices /\ functions[f].exit \in Indices \cup {Unset}
    <2>1. functions[f].entry \in Nat /\ functions[f].entry < Len(il) /\ functions[f].exit \in Indices \cup {Unset}
        BY <1>1, <1>2 DEF Tables
    <2> QED
        BY <1>2, <2>1 DEF Indices
<1>8. \A n \in 1..Len(source) : source[n].parts \subseteq Parts
    BY <1>2 DEF TokenRecord
<1>9. pc \in {"global", "statement", "returned", "returned, no else", "after break", "error", "done"}
    BY <1>1 DEF Control
<1> QED
    BY <1>3, <1>4, <1>5, <1>6, <1>7, <1>8, <1>9 DEF TypeOK, Fns, Parts

LEMMA InvariantResolved ==
    ASSUME IInv, Supported
    PROVE  JumpsResolved
<1>1. ASSUME NEW i \in Indices, JumpsAt(i), il[i + 1].arg # Unset, NEW t, t = il[i + 1].arg
      PROVE  /\ t \in Indices
             /\ \/ il[t + 1].op = "op_label"
                \/ \E k \in 1..Len(frames) : frames[k].fn = "switch" /\ frames[k].pending[2] = t
                \/ il[t + 1].op = "op_jump" /\ il[il[t + 1].arg + 1].op = "op_label"
             /\ \E f \in 1..Len(functions) : Within(f, i) /\ Within(f, t)
    <2>1. t \in Indices
        BY <1>1 DEF IInv, Jumps
    <2>2. Patched(i, t)
        BY <1>1, <2>1 DEF IInv, Jumps
    <2> QED
        BY <2>1, <2>2 DEF Patched, SameFunction, Exit, Exits
<1>2. {i \in Indices : JumpsAt(i) /\ il[i + 1].arg = Unset}
         = UNION {{frames[k].pending[n] : n \in 1..Len(frames[k].pending)} : k \in 1..Len(frames)}
    BY DEF IInv, Unpatched, AllPending, Pendings
<1> QED
    BY <1>1, <1>2 DEF JumpsResolved

LEMMA InvariantNests ==
    ASSUME IInv
    PROVE  BlocksNest
<1>1. frames # << >> => Innermost(Len(il)) = Top.block
    BY CurrentBlock
<1> QED
    BY <1>1 DEF BlocksNest, IInv, Nesting

LEMMA InvariantEnclosing ==
    ASSUME IInv
    PROVE  JumpsNeverEnterBlock /\ OnlyBreaksLeaveLocals
<1>1. ASSUME NEW i \in Indices, JumpsAt(i), NEW t \in Indices, il[i + 1].arg = t
      PROVE  /\ Enclosing(t) \subseteq Enclosing(i)
             /\ \/ Enclosing(i) \ Enclosing(t) = {}
                \/ il[i + 1].op = "op_jump" /\ il[t + 1].op = "op_jump"
    <2>1. Patched(i, t)
        BY <1>1 DEF IInv, Jumps
    <2> QED
        BY <2>1 DEF Patched, Exit
<1> QED
    BY <1>1 DEF JumpsNeverEnterBlock, OnlyBreaksLeaveLocals

\* The state of the parser stays well formed: what activations, the table of
\* functions and _p_break_exit_il_idxs remember are indices of the code.
THEOREM Typing == Spec => []TypeOK
BY Invariance, InvariantTyped, PTL

\* In a program that keeps to what the parser supports every jump leads to a
\* label of its function, a break through the exit jump of its switch, and the
\* jumps not patched yet are those a running call is still to patch: no call of
\* p_read_body_statement returns and leaves one behind, and none is patched
\* by a call it does not belong to.
THEOREM Resolution == ASSUME Supported PROVE Spec => []JumpsResolved
<1>1. IInv => JumpsResolved
    BY InvariantResolved
<1> QED
    BY <1>1, Invariance, PTL

\* The code of a block lies between its op_block_start and op_block_end, those
\* of different blocks nest as the blocks do, and the parser's current block is
\* the innermost one of the code it has added.
THEOREM Blocks == Spec => []BlocksNest
BY Invariance, InvariantNests, PTL

\* No jump of the parser leads into a block from outside of it, whether the
\* program keeps to what the parser supports or not.
THEOREM NoEntry == Spec => []JumpsNeverEnterBlock
BY Invariance, InvariantEnclosing, PTL

\* Only a break can leave a block that has locals by a jump; the jumps of if,
\* else, loops and the tests of a switch stay in their block.
THEOREM Locals == Spec => []OnlyBreaksLeaveLocals
BY Invariance, InvariantEnclosing, PTL

=============================================================================
