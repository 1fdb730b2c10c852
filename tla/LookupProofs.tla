---------------------------- MODULE LookupProofs ----------------------------
(***************************************************************************)
(* Proofs that, in every program the compiler supports, the two look-ups   *)
(* of a name agree - the parser's among what is declared so far, and the   *)
(* code generator's when all is - and that the tables implement the scopes *)
(* of C: a name is taken for what the innermost scope has for it.          *)
(***************************************************************************)
EXTENDS MCDeclarations, DeclarationsProofs

-----------------------------------------------------------------------------
(* The blocks around a block.                                              *)

\* f holds each block and those around it.
Tree(bs, f) ==
    f = [c \in 1..Len(bs) |-> {c} \cup IF bs[c].parent = 0 THEN {} ELSE f[bs[c].parent]]

\* The blocks of the smallest set that has a block and the parents of its own.
LEMMA TreeExists ==
    ASSUME NEW bs, Len(bs) \in Nat, \A c \in 1..Len(bs) : bs[c].parent \in 0..Len(bs)
    PROVE  \E f : Tree(bs, f)
<1> DEFINE n == Len(bs)
           Closed(T) == \A e \in T : bs[e].parent # 0 => bs[e].parent \in T
           f == [c \in 1..n |-> {d \in 1..n : \A T \in SUBSET (1..n) :
                                                  c \in T /\ Closed(T) => d \in T}]
<1>1. ASSUME NEW c \in 1..n
      PROVE  f[c] = {c} \cup IF bs[c].parent = 0 THEN {} ELSE f[bs[c].parent]
    <2> DEFINE p == bs[c].parent
               up == IF p = 0 THEN {} ELSE f[p]
    <2>1. p # 0 => p \in 1..n
        OBVIOUS
    <2>2. up \subseteq 1..n
        BY <2>1
    <2>3. Closed(up)
        <3>1. CASE p = 0
            BY <3>1
        <3>2. CASE p # 0
            <4>1. up = f[p] /\ p \in 1..n
                BY <2>1, <3>2
            <4>2. ASSUME NEW e \in f[p], bs[e].parent # 0
                  PROVE  bs[e].parent \in f[p]
                <5>1. e \in 1..n /\ bs[e].parent \in 1..n
                    BY <4>1, <4>2
                <5>2. ASSUME NEW T \in SUBSET (1..n), p \in T, Closed(T)
                      PROVE  bs[e].parent \in T
                    <6>1. e \in T
                        BY <4>1, <4>2, <5>2
                    <6> QED
                        BY <4>2, <5>2, <6>1
                <5> QED
                    BY <4>1, <5>1, <5>2
            <4> HIDE DEF f, up
            <4> QED
                BY <4>1, <4>2
        <3> QED
            BY <3>1, <3>2
    <2>4. p # 0 => p \in up
        BY <2>1
    <2>5. f[c] = {d \in 1..n : \A T \in SUBSET (1..n) : c \in T /\ Closed(T) => d \in T}
        OBVIOUS
    <2>6. f[c] \subseteq {c} \cup up
        <3> DEFINE T == {c} \cup up
        <3>1. T \in SUBSET (1..n) /\ c \in T
            BY <2>2
        <3>2. Closed(T)
            <4> HIDE DEF f, up
            <4>1. ASSUME NEW e \in T, bs[e].parent # 0
                  PROVE  bs[e].parent \in T
                <5>1. CASE e = c
                    BY <2>4, <4>1, <5>1
                <5>2. CASE e \in up
                    BY <2>3, <4>1, <5>2
                <5> QED
                    BY <5>1, <5>2
            <4> HIDE DEF T
            <4> QED
                BY <4>1
        <3> HIDE DEF T, f, Closed
        <3> QED
            BY <2>5, <3>1, <3>2 DEF T
    <2>7. {c} \cup up \subseteq f[c]
        <3>1. ASSUME NEW d \in {c} \cup up, NEW T \in SUBSET (1..n), c \in T, Closed(T)
              PROVE  d \in T
            <4>1. CASE d = c
                BY <3>1, <4>1
            <4>2. CASE d \in up
                <5>1. p # 0 /\ d \in f[p]
                    BY <4>2
                <5>2. p \in T
                    BY <3>1, <5>1
                <5> QED
                    BY <2>1, <3>1, <5>1, <5>2
            <4> QED
                BY <4>1, <4>2
        <3> HIDE DEF f, up, Closed
        <3> QED
            BY <2>2, <2>5, <3>1
    <2> HIDE DEF f
    <2> QED
        BY <2>6, <2>7
<1>2. f = [c \in 1..n |-> f[c]]
    OBVIOUS
<1> HIDE DEF f
<1>3. f = [c \in 1..n |-> {c} \cup IF bs[c].parent = 0 THEN {} ELSE f[bs[c].parent]]
    BY <1>1, <1>2, Zenon
<1>4. Tree(bs, f)
    BY <1>3, Zenon DEF Tree
<1> QED
    BY <1>4

\* Blocks are in earlier ones: what the recursion computes.
Around(bs) == CHOOSE f : Tree(bs, f)

LEMMA AroundFacts ==
    ASSUME NEW bs, Len(bs) \in Nat, \A c \in 1..Len(bs) : bs[c].parent \in 0..Len(bs)
    PROVE  \A c \in 1..Len(bs) :
               Around(bs)[c] =
                   {c} \cup IF bs[c].parent = 0 THEN {} ELSE Around(bs)[bs[c].parent]
<1>1. Tree(bs, Around(bs))
    BY TreeExists, Zenon DEF Around
<1>2. Around(bs) =
          [c \in 1..Len(bs) |->
              {c} \cup IF bs[c].parent = 0 THEN {} ELSE Around(bs)[bs[c].parent]]
    BY <1>1, Zenon DEF Tree
<1> QED
    BY <1>2, Zenon

\* Both modules compute it.
LEMMA EnclosingIs == \A b : Enclosing(b) = Around(blocks)[b]
BY Zenon DEF Enclosing, Around, Tree

LEMMA TableEnclosingIs ==
    \A b : b # 0 => G!Enclosing(b) = Around(Tables.blocks)[b]
BY Zenon DEF G!Enclosing, G!blocks, Around, Tree

\* Blocks as Typed and Nested have them.
LEMMA BlockFacts ==
    ASSUME Typed, Nested
    PROVE  /\ Len(blocks) \in Nat
           /\ \A c \in 1..Len(blocks) :
                  /\ blocks[c].parent \in 0..(c - 1) /\ blocks[c].parent \in 0..Len(blocks)
                  /\ blocks[c].function \in 1..Len(functions)
                  /\ Len(blocks[c].locals) \in Nat /\ c \in Nat
<1>1. Len(blocks) \in Nat
    BY DEF Typed
<1>2. ASSUME NEW c \in 1..Len(blocks)
      PROVE  /\ blocks[c].parent \in 0..(c - 1) /\ blocks[c].parent \in 0..Len(blocks)
             /\ blocks[c].function \in 1..Len(functions)
             /\ Len(blocks[c].locals) \in Nat /\ c \in Nat
    <2>1. blocks[c].parent \in 0..(c - 1) /\ blocks[c].function \in 1..Len(functions)
        BY DEF Nested
    <2>2. blocks[c] \in Block
        BY ElementTyped DEF Typed
    <2>3. Len(blocks[c].locals) \in Nat
        BY <2>2 DEF Block
    <2>4. c \in Nat /\ c <= Len(blocks)
        BY <1>1
    <2>5. blocks[c].parent \in 0..Len(blocks)
        BY <1>1, <2>1, <2>4
    <2> QED
        BY <2>1, <2>3, <2>4, <2>5
<1> QED
    BY <1>1, <1>2

LEMMA EnclosingFacts ==
    ASSUME Typed, Nested
    PROVE  \A c \in 1..Len(blocks) :
               Enclosing(c) =
                   {c} \cup IF blocks[c].parent = 0 THEN {} ELSE Enclosing(blocks[c].parent)
BY BlockFacts, AroundFacts, EnclosingIs

\* What holds of a block because it holds of the one around it holds of all.
LEMMA BlockInduction ==
    ASSUME Typed, Nested, NEW T,
           \A c \in 1..Len(blocks) :
               (blocks[c].parent = 0 \/ blocks[c].parent \in T) => c \in T
    PROVE  1..Len(blocks) \subseteq T
<1> DEFINE Bad == (1..Len(blocks)) \ T
<1> SUFFICES ASSUME Bad # {} PROVE FALSE
    OBVIOUS
<1>1. Bad \subseteq Nat
    BY BlockFacts
<1>2. PICK x \in Bad : \A y \in Bad : x <= y
    BY <1>1, SmallestMember
<1>3. PICK p : p = blocks[x].parent
    OBVIOUS
<1>4. x \in Nat /\ p \in 0..(x - 1) /\ p \in 0..Len(blocks) /\ Len(blocks) \in Nat
    BY <1>2, <1>3, BlockFacts
<1>5. p # 0 /\ p \notin T
    BY <1>2, <1>3
<1>6. p \in Bad /\ ~(x <= p)
    BY <1>4, <1>5
<1> QED
    BY <1>2, <1>6

\* A block is the last of itself and those around it, and has all of them.
LEMMA EnclosingClosed ==
    ASSUME Typed, Nested, NEW b \in 1..Len(blocks)
    PROVE  /\ b \in Enclosing(b)
           /\ \A e \in Enclosing(b) :
                  /\ e \in 1..Len(blocks) /\ e <= b
                  /\ blocks[e].parent # 0 => blocks[e].parent \in Enclosing(b)
<1> DEFINE Good(c) == \A e \in Enclosing(c) :
                          /\ e \in 1..Len(blocks) /\ e <= c
                          /\ blocks[e].parent # 0 => blocks[e].parent \in Enclosing(c)
           T == {c \in 1..Len(blocks) : Good(c)}
<1>1. ASSUME NEW c \in 1..Len(blocks), blocks[c].parent = 0 \/ blocks[c].parent \in T
      PROVE  c \in T
    <2>1. PICK p : p = blocks[c].parent
        OBVIOUS
    <2>2. /\ c \in Nat /\ p \in 0..(c - 1) /\ p \in 0..Len(blocks)
          /\ Len(blocks) \in Nat
        BY <2>1, BlockFacts
    <2>3. Enclosing(c) = {c} \cup IF p = 0 THEN {} ELSE Enclosing(p)
        BY <2>1, EnclosingFacts
    <2>4. p # 0 => p \in 1..Len(blocks) /\ Good(p)
        BY <1>1, <2>1
    <2>5. p # 0 => p \in Enclosing(p)
        BY <2>4, EnclosingFacts
    <2>6. ASSUME NEW e \in Enclosing(c)
          PROVE  /\ e \in 1..Len(blocks) /\ e <= c
                 /\ blocks[e].parent # 0 => blocks[e].parent \in Enclosing(c)
        <3>1. CASE e = c
            BY <2>1, <2>2, <2>3, <2>5, <3>1
        <3>2. CASE p # 0 /\ e \in Enclosing(p)
            <4>1. e \in 1..Len(blocks) /\ e <= p
                  /\ (blocks[e].parent # 0 => blocks[e].parent \in Enclosing(p))
                BY <2>4, <3>2
            <4>2. e <= c
                BY <2>2, <4>1
            <4> QED
                BY <2>3, <3>2, <4>1, <4>2
        <3> QED
            BY <2>3, <2>6, <3>1, <3>2
    <2> QED
        BY <2>6
<1> HIDE DEF T
<1>2. 1..Len(blocks) \subseteq T
    BY <1>1, BlockInduction
<1>3. Good(b)
    BY <1>2 DEF T
<1> QED
    BY <1>3, EnclosingFacts

\* The tables for the code generator have the same blocks.
LEMMA TableBlocks ==
    ASSUME Typed, Nested
    PROVE  /\ Len(Tables.blocks) = Len(blocks)
           /\ \A c \in 1..Len(blocks) :
                  /\ Tables.blocks[c].parent = blocks[c].parent
                  /\ Tables.blocks[c].function = blocks[c].function
                  /\ Tables.blocks[c].locals = Sized(blocks[c].locals)
<1> DEFINE t == [b \in 1..Len(blocks) |->
                    [parent |-> blocks[b].parent, function |-> blocks[b].function,
                     locals |-> Sized(blocks[b].locals)]]
<1>1. Tables.blocks = t
    BY DEF Tables
<1>2. Len(blocks) \in Nat
    BY BlockFacts
<1>3. Len(t) = Len(blocks)
    BY <1>2
<1>4. \A c \in 1..Len(blocks) :
          /\ t[c].parent = blocks[c].parent /\ t[c].function = blocks[c].function
          /\ t[c].locals = Sized(blocks[c].locals)
    OBVIOUS
<1> HIDE DEF t
<1> QED
    BY <1>1, <1>3, <1>4

LEMMA TableEnclosing ==
    ASSUME Typed, Nested, NEW b \in 1..Len(blocks)
    PROVE  G!Enclosing(b) = Enclosing(b)
<1> DEFINE bs == Tables.blocks
           T == {c \in 1..Len(blocks) : Around(bs)[c] = Around(blocks)[c]}
<1>1. /\ Len(bs) = Len(blocks) /\ Len(bs) \in Nat
      /\ \A c \in 1..Len(bs) : bs[c].parent = blocks[c].parent
                               /\ bs[c].parent \in 0..Len(bs)
    BY TableBlocks, BlockFacts
<1> HIDE DEF bs
<1>2. ASSUME NEW c \in 1..Len(blocks), blocks[c].parent = 0 \/ blocks[c].parent \in T
      PROVE  c \in T
    <2>1. Around(bs)[c] = {c} \cup IF bs[c].parent = 0 THEN {} ELSE Around(bs)[bs[c].parent]
        BY <1>1, AroundFacts
    <2>2. Around(blocks)[c] =
              {c} \cup IF blocks[c].parent = 0 THEN {} ELSE Around(blocks)[blocks[c].parent]
        BY AroundFacts, BlockFacts
    <2>3. bs[c].parent = blocks[c].parent
        BY <1>1
    <2>4. Around(bs)[c] = Around(blocks)[c]
        BY <1>2, <2>1, <2>2, <2>3
    <2> QED
        BY <2>4
<1> HIDE DEF T
<1>3. b \in T
    BY <1>2, BlockInduction
<1>4. b # 0
    BY BlockFacts
<1> QED
    BY <1>3, <1>4, EnclosingIs, TableEnclosingIs DEF T, bs

-----------------------------------------------------------------------------
(* What the parser finds within the blocks.                                *)

\* The innermost block that declares the name has what is found.
LEMMA WithinHolding ==
    ASSUME Typed, Nested, NEW n, NEW b \in 1..Len(blocks)
    PROVE  /\ (\A c \in Enclosing(b) : Named(blocks[c].locals, n) = {})
                  => Within(n)[b] = Nothing
           /\ \A c \in Enclosing(b) :
                  /\ Named(blocks[c].locals, n) # {}
                  /\ \A d \in Enclosing(b) : Named(blocks[d].locals, n) # {} => d <= c
                  => Within(n)[b] = InTable("local", c, blocks[c].locals, n)
<1> DEFINE Has(c) == Named(blocks[c].locals, n) # {}
           Found(c) == InTable("local", c, blocks[c].locals, n)
           Good(a) == /\ (\A c \in Enclosing(a) : ~Has(c)) => Within(n)[a] = Nothing
                      /\ \A c \in Enclosing(a) :
                             Has(c) /\ (\A d \in Enclosing(a) : Has(d) => d <= c)
                             => Within(n)[a] = Found(c)
           T == {a \in 1..Len(blocks) : Good(a)}
<1>1. ASSUME NEW a \in 1..Len(blocks), blocks[a].parent = 0 \/ blocks[a].parent \in T
      PROVE  a \in T
    <2>1. PICK p : p = blocks[a].parent
        OBVIOUS
    <2>2. Enclosing(a) = {a} \cup IF p = 0 THEN {} ELSE Enclosing(p)
        BY <2>1, EnclosingFacts
    <2>3. Within(n)[a] = Else(Found(a), Within(n)[p]) /\ Within(n)[0] = Nothing
        BY <2>1, WithinProperties
    <2>4. Found(a) = Nothing <=> ~Has(a)
        <3>1. Len(blocks[a].locals) \in Nat /\ a \in Nat
            BY BlockFacts
        <3> QED
            BY <3>1, InTableProperties DEF Kinds
    <2>5. a \in Enclosing(a)
        BY EnclosingClosed
    <2>6. \A e \in Enclosing(a) : e \in Nat /\ a \in Nat /\ e <= a
        BY EnclosingClosed, BlockFacts
    <2> HIDE DEF Has, Found
    <2>7. CASE Has(a)
        <3>1. Within(n)[a] = Found(a)
            BY <2>3, <2>4, <2>7 DEF Else
        <3>2. ASSUME NEW c \in Enclosing(a), \A d \in Enclosing(a) : Has(d) => d <= c
              PROVE  c = a
            BY <2>5, <2>6, <2>7, <3>2
        <3>3. Good(a)
            BY <2>5, <2>7, <3>1, <3>2
        <3> QED
            BY <3>3
    <2>8. CASE ~Has(a)
        <3>1. Within(n)[a] = Within(n)[p]
            BY <2>3, <2>4, <2>8 DEF Else
        <3>2. CASE p = 0
            <4>1. Enclosing(a) = {a}
                BY <2>2, <3>2
            <4>2. Good(a)
                BY <2>3, <2>8, <3>1, <3>2, <4>1
            <4> QED
                BY <4>2
        <3>3. CASE p # 0
            <4>1. Good(p) /\ Enclosing(a) = {a} \cup Enclosing(p)
                BY <1>1, <2>1, <2>2, <3>3
            <4>2. Good(a)
                BY <2>8, <3>1, <4>1
            <4> QED
                BY <4>2
        <3> QED
            BY <3>2, <3>3
    <2> QED
        BY <2>7, <2>8
<1> HIDE DEF T
<1>2. b \in T
    BY <1>1, BlockInduction
<1> QED
    BY <1>2 DEF T

\* The same of the next state.
LEMMA WithinAlways ==
    Typed /\ Nested =>
        \A n : /\ Within(n)[0] = Nothing
               /\ \A b \in 1..Len(blocks) :
                      Within(n)[b] = Else(InTable("local", b, blocks[b].locals, n),
                                          Within(n)[blocks[b].parent])
BY WithinProperties

LEMMA WithinNext ==
    ASSUME Typed', Nested'
    PROVE  \A n : /\ Within(n)'[0] = Nothing
                  /\ \A b \in 1..Len(blocks') :
                         Within(n)'[b] = Else(InTable("local", b, blocks'[b].locals, n),
                                              Within(n)'[blocks'[b].parent])
<1>1. (Typed /\ Nested =>
           \A n : /\ Within(n)[0] = Nothing
                  /\ \A b \in 1..Len(blocks) :
                         Within(n)[b] = Else(InTable("local", b, blocks[b].locals, n),
                                             Within(n)[blocks[b].parent]))'
    BY WithinAlways, PTL
<1> QED
    BY <1>1

\* As long as none of the blocks around gets a variable of the name the same
\* is found.
LEMMA WithinKept ==
    ASSUME Typed, Nested, Typed', Nested', NEW n, NEW b \in 1..Len(blocks),
           Len(blocks) <= Len(blocks'),
           \A c \in 1..Len(blocks) : blocks'[c].parent = blocks[c].parent,
           \A c \in Enclosing(b) :
               Named(blocks'[c].locals, n) = Named(blocks[c].locals, n)
    PROVE  Within(n)'[b] = Within(n)[b]
<1> DEFINE T == {c \in 1..Len(blocks) : c \in Enclosing(b) => Within(n)'[c] = Within(n)[c]}
<1>1. ASSUME NEW c \in 1..Len(blocks), blocks[c].parent = 0 \/ blocks[c].parent \in T
      PROVE  c \in T
    <2>1. SUFFICES ASSUME c \in Enclosing(b) PROVE Within(n)'[c] = Within(n)[c]
        OBVIOUS
    <2>2. PICK p : p = blocks[c].parent
        OBVIOUS
    <2>3. /\ Within(n)[0] = Nothing
          /\ Within(n)[c] = Else(InTable("local", c, blocks[c].locals, n), Within(n)[p])
        BY <2>2, WithinProperties
    <2>4. c \in 1..Len(blocks')
        <3>1. Len(blocks) \in Nat /\ Len(blocks') \in Nat
            BY DEF Typed
        <3> QED
            BY <3>1
    <2>5. /\ Within(n)'[0] = Nothing
          /\ Within(n)'[c] = Else(InTable("local", c, blocks'[c].locals, n), Within(n)'[p])
        <3>1. blocks'[c].parent = p
            BY <2>2
        <3> QED
            BY <2>4, <3>1, WithinNext
    <2>6. InTable("local", c, blocks'[c].locals, n) = InTable("local", c, blocks[c].locals, n)
        BY <2>1, Zenon DEF InTable
    <2>7. p # 0 => p \in T /\ p \in Enclosing(b)
        BY <1>1, <2>1, <2>2, EnclosingClosed
    <2>8. Within(n)'[p] = Within(n)[p]
        BY <2>3, <2>5, <2>7
    <2> QED
        BY <2>3, <2>5, <2>6, <2>8
<1> HIDE DEF T
<1>2. b \in T
    BY <1>1, BlockInduction
<1> QED
    BY <1>2, EnclosingClosed DEF T

-----------------------------------------------------------------------------
(* What a name means in a block, and what the code generator finds.        *)

\* The variable of the innermost block, or else a parameter, a global variable
\* or a function.
Meant(n, b) ==
    Else(Within(n)[b],
         Else(InTable("param", blocks[b].function, ParamsOf(blocks[b].function), n),
              Else(find_global_variable(n), find_function(n))))

\* No variable of a function has the name of a global one, no global the name
\* of a function, and no block two variables with one name.
NamesApart ==
    /\ NamesOf(globals) \cap NamesOf(functions) = {}
    /\ \A b \in 1..Len(blocks) :
           /\ NamesOf(globals) \cap NamesOf(blocks[b].locals) = {}
           /\ NamesOf(globals) \cap NamesOf(ParamsOf(blocks[b].function)) = {}
           /\ Distinct(blocks[b].locals)

LEMMA SupportedApart == Supported => NamesApart
<1> SUFFICES ASSUME Supported PROVE NamesApart
    OBVIOUS
<1>1. FileTables[2] = globals /\ FileTables[3] = functions
    BY DEF FileTables
<1>2. NamesOf(FileTables[2]) \cap NamesOf(FileTables[3]) = {}
    <2>1. 2 \in 1..4 /\ 3 \in 1..4 /\ 2 # 3
        OBVIOUS
    <2> QED
        BY <2>1, Zenon DEF Supported
<1>3. ASSUME NEW b \in 1..Len(blocks)
      PROVE  /\ NamesOf(globals) \cap NamesOf(blocks[b].locals) = {}
             /\ NamesOf(globals) \cap NamesOf(ParamsOf(blocks[b].function)) = {}
             /\ Distinct(blocks[b].locals)
    <2> DEFINE visible == NamesOf(blocks[b].locals) \cup NamesOf(ParamsOf(blocks[b].function))
    <2>1. 2 \in 1..4
        OBVIOUS
    <2>2. Distinct(blocks[b].locals) /\ \A k \in 1..4 : NamesOf(FileTables[k]) \cap visible = {}
        BY Zenon DEF Supported
    <2>3. NamesOf(globals) \cap visible = {}
        BY <1>1, <2>1, <2>2
    <2> QED
        BY <2>2, <2>3
<1> QED
    BY <1>1, <1>2, <1>3 DEF NamesApart

\* A name that one of two tables has is not in the other.
LEMMA NotNamed ==
    ASSUME NEW s, NEW t, NEW n, NamesOf(s) \cap NamesOf(t) = {}, Named(t, n) # {}
    PROVE  Named(s, n) = {}
BY DEF NamesOf, Named

\* A set of numbers up to b has a greatest.
LEMMA GreatestMember ==
    ASSUME NEW b \in Nat, NEW S, S \subseteq 1..b, S # {}
    PROVE  \E c \in S : \A d \in S : d <= c
<1> DEFINE U == {u \in 0..b : \A d \in S : d <= u}
<1>1. b \in U /\ U \subseteq Nat
    OBVIOUS
<1>2. PICK u \in U : \A v \in U : u <= v
    BY <1>1, SmallestMember
<1>3. u \in S
    <2> SUFFICES ASSUME u \notin S PROVE FALSE
        OBVIOUS
    <2>1. u \in Nat /\ u <= b /\ \A d \in S : d \in Nat /\ d <= u /\ d # u /\ 1 <= d
        BY <1>2
    <2>2. u >= 1
        <3>1. PICK d : d \in S
            OBVIOUS
        <3>2. d \in Nat /\ d <= u /\ 1 <= d
            BY <2>1, <3>1
        <3> QED
            BY <2>1, <3>2
    <2>3. u - 1 \in 0..b /\ \A d \in S : d <= u - 1
        BY <2>1, <2>2
    <2>4. u <= u - 1
        BY <1>2, <2>3
    <2> QED
        BY <2>1, <2>4
<1> QED
    BY <1>2, <1>3

\* The code generator looks into the same tables.
LEMMA SizedNamed ==
    ASSUME NEW vs, Len(vs) \in Nat, NEW n
    PROVE  G!Named(Sized(vs), n) = Named(vs, n)
<1> DEFINE s == [k \in 1..Len(vs) |-> [name |-> vs[k].name, size |-> size_variable(vs[k])]]
<1>1. Len(s) = Len(vs)
    OBVIOUS
<1>2. \A k \in 1..Len(vs) : s[k].name = vs[k].name
    OBVIOUS
<1> HIDE DEF s
<1>3. G!Named(s, n) = Named(vs, n)
    BY <1>1, <1>2 DEF G!Named, Named
<1> QED
    BY <1>3 DEF Sized, s

LEMMA LeastIsFirst == \A S : G!Least(S) = First(S)
BY Zenon DEF G!Least, First

LEMMA TableFunctions ==
    ASSUME Typed
    PROVE  /\ Len(functions) \in Nat /\ Len(Tables.functions) = Len(functions)
           /\ \A f \in 1..Len(functions) :
                  /\ Tables.functions[f].name = functions[f].name
                  /\ Tables.functions[f].params = Sized(ParamsOf(f))
           /\ Tables.globals = Sized(globals) /\ Len(globals) \in Nat
<1> DEFINE t == [f \in 1..Len(functions) |->
                    [name |-> functions[f].name, params |-> Sized(ParamsOf(f)),
                     entry |-> functions[f].entry, exit |-> functions[f].exit]]
<1>1. Tables.functions = t /\ Tables.globals = Sized(globals)
    BY DEF Tables
<1>2. Len(functions) \in Nat /\ Len(globals) \in Nat
    BY DEF Typed
<1>3. Len(t) = Len(functions)
    BY <1>2
<1>4. \A f \in 1..Len(functions) :
          t[f].name = functions[f].name /\ t[f].params = Sized(ParamsOf(f))
    OBVIOUS
<1> HIDE DEF t
<1> QED
    BY <1>1, <1>2, <1>3, <1>4

\* The locals and parameters it finds are the ones that are meant.
LEMMA FindLocalAgrees ==
    ASSUME Typed, Nested, NEW n, NEW b \in 1..Len(blocks)
    PROVE  LET local == Within(n)[b]
               param == InTable("param", blocks[b].function, ParamsOf(blocks[b].function), n)
           IN G!FindLocal(n, b) = Else(local, param)
<1> DEFINE H == {c \in Enclosing(b) : Named(blocks[c].locals, n) # {}}
           ps == ParamsOf(blocks[b].function)
           holding == {c \in G!Enclosing(b) : G!Named(G!blocks[c].locals, n) # {}}
           params == G!functions[G!blocks[b].function].params
           c0 == CHOOSE c \in holding : \A d \in holding : d <= c
<1>1. \A c \in Enclosing(b) : c \in 1..Len(blocks) /\ c <= b
    BY EnclosingClosed
<1>2. \A c \in 1..Len(blocks) : G!Named(G!blocks[c].locals, n) = Named(blocks[c].locals, n)
    BY TableBlocks, BlockFacts, SizedNamed DEF G!blocks
<1>3. holding = H
    BY <1>1, <1>2, TableEnclosing
<1>4. /\ G!blocks[b].function = blocks[b].function
      /\ blocks[b].function \in 1..Len(functions)
    BY TableBlocks, BlockFacts DEF G!blocks
<1>5. params = Sized(ps)
    BY <1>4, TableFunctions DEF G!functions
<1>6. Len(ps) \in Nat
    BY <1>4, ParamsOfProperties
<1>7. G!Named(params, n) = Named(ps, n)
    BY <1>5, <1>6, SizedNamed
<1>8. G!FindLocal(n, b) =
          IF holding # {}
          THEN [kind |-> "local", of |-> c0, k |-> G!Least(G!Named(G!blocks[c0].locals, n))]
          ELSE IF G!Named(params, n) # {}
          THEN [kind |-> "param", of |-> G!blocks[b].function,
                k |-> G!Least(G!Named(params, n))]
          ELSE [kind |-> "none", of |-> 0, k |-> 0]
    BY Zenon DEF G!FindLocal
<1>9. CASE H # {}
    <2>1. \E c \in H : \A d \in H : d <= c
        <3>1. b \in Nat /\ H \subseteq 1..b
            BY <1>1, BlockFacts
        <3> HIDE DEF H
        <3> QED
            BY <1>9, <3>1, GreatestMember
    <2>2. c0 \in H /\ \A d \in H : d <= c0
        <3> HIDE DEF H
        <3> QED
            BY <1>3, <2>1, Zenon
    <2> HIDE DEF c0
    <2>3. Within(n)[b] = InTable("local", c0, blocks[c0].locals, n)
        BY <2>2, WithinHolding
    <2>4. Named(blocks[c0].locals, n) # {} /\ c0 \in 1..Len(blocks)
        BY <1>1, <2>2
    <2>5. Within(n)[b] = Entity("local", c0, First(Named(blocks[c0].locals, n)))
        BY <2>3, <2>4 DEF InTable
    <2>6. G!FindLocal(n, b) = Entity("local", c0, First(Named(blocks[c0].locals, n)))
        <3>1. G!Named(G!blocks[c0].locals, n) = Named(blocks[c0].locals, n)
            BY <1>2, <2>4
        <3> HIDE DEF H, holding, params
        <3> QED
            BY <1>3, <1>8, <1>9, <3>1, LeastIsFirst, Zenon DEF Entity
    <2>7. Within(n)[b] # Nothing
        BY <2>5 DEF Entity, Nothing
    <2> QED
        BY <2>5, <2>6, <2>7 DEF Else
<1>10. CASE H = {}
    <2>1. Within(n)[b] = Nothing
        BY <1>10, WithinHolding
    <2>2. G!FindLocal(n, b) =
              IF Named(ps, n) # {}
              THEN Entity("param", blocks[b].function, First(Named(ps, n)))
              ELSE Nothing
        <3> HIDE DEF H, holding, params, ps
        <3> QED
            BY <1>3, <1>4, <1>7, <1>8, <1>10, LeastIsFirst, Zenon DEF Entity, Nothing
    <2>3. G!FindLocal(n, b) = InTable("param", blocks[b].function, ps, n)
        BY <2>2, Zenon DEF InTable
    <2> QED
        BY <2>1, <2>3 DEF Else
<1> QED
    BY <1>9, <1>10

\* So is everything it finds.
LEMMA FindAgrees ==
    ASSUME Typed, Nested, NamesApart, NEW n, NEW b \in 1..Len(blocks), Meant(n, b) # Nothing
    PROVE  G!Find(n, b) = Meant(n, b)
<1> DEFINE f == blocks[b].function
           ps == ParamsOf(f)
           local == Within(n)[b]
           param == InTable("param", f, ps, n)
           global == Named(globals, n)
           function == Named(functions, n)
<1>1. G!FindLocal(n, b) = Else(local, param)
    BY FindLocalAgrees
<1>2. G!Named(Tables.globals, n) = global
    BY TableFunctions, SizedNamed
<1>3. G!Named(G!functions, n) = function
    BY TableFunctions DEF G!functions, G!Named, Named
<1>4. G!Find(n, b) =
          IF global # {} THEN Entity("global", 0, First(global))
          ELSE IF Else(local, param).kind # "none" THEN Else(local, param)
          ELSE IF function # {} THEN Entity("function", 0, First(function))
          ELSE Nothing
    <2> HIDE DEF local, param, global, function
    <2> QED
        BY <1>1, <1>2, <1>3, LeastIsFirst, Zenon DEF G!Find, Entity, Nothing
<1>5. f \in 1..Len(functions) /\ f \in Nat /\ Len(ps) \in Nat
    BY BlockFacts, TableFunctions, ParamsOfProperties
<1>6. /\ param = Nothing <=> Named(ps, n) = {}
      /\ param # Nothing => param.kind = "param"
    BY <1>5, InTableProperties DEF Kinds
<1>7. local # Nothing => local.kind = "local" /\ global = {}
    <2> SUFFICES ASSUME local # Nothing PROVE local.kind = "local" /\ global = {}
        OBVIOUS
    <2> DEFINE H == {c \in Enclosing(b) : Named(blocks[c].locals, n) # {}}
    <2>1. H # {}
        BY WithinHolding
    <2>2. b \in Nat /\ H \subseteq 1..b
        BY EnclosingClosed, BlockFacts
    <2>3. \E c \in H : \A d \in H : d <= c
        <3> HIDE DEF H
        <3> QED
            BY <2>1, <2>2, GreatestMember
    <2>4. PICK c \in H : \A d \in H : d <= c
        BY <2>3
    <2>5. local = InTable("local", c, blocks[c].locals, n) /\ c \in 1..Len(blocks)
        BY <2>4, WithinHolding, EnclosingClosed
    <2>6. Named(blocks[c].locals, n) # {}
        BY <2>4
    <2>7. local.kind = "local"
        BY <2>5, <2>6 DEF InTable, Entity
    <2>8. NamesOf(globals) \cap NamesOf(blocks[c].locals) = {}
        BY <2>5 DEF NamesApart
    <2> QED
        BY <2>6, <2>7, <2>8, NotNamed
<1>8. param # Nothing => global = {}
    <2>1. NamesOf(globals) \cap NamesOf(ps) = {}
        BY DEF NamesApart
    <2> QED
        BY <1>6, <2>1, NotNamed
<1>9. Meant(n, b) = Else(local, Else(param, Else(find_global_variable(n), find_function(n))))
    BY Zenon DEF Meant
<1>10. /\ find_global_variable(n) = IF global = {} THEN Nothing
                                    ELSE Entity("global", 0, First(global))
       /\ find_function(n) = IF function = {} THEN Nothing
                             ELSE Entity("function", 0, First(function))
    BY Zenon DEF find_global_variable, find_function, InTable
<1>11. Nothing.kind = "none" /\ \A k : Entity("global", 0, k) # Nothing
    BY DEF Nothing, Entity
<1> HIDE DEF local, param, global, function
<1>12. CASE local # Nothing
    BY <1>4, <1>7, <1>9, <1>12 DEF Else
<1>13. CASE local = Nothing /\ param # Nothing
    BY <1>4, <1>6, <1>8, <1>9, <1>13 DEF Else
<1>14. CASE local = Nothing /\ param = Nothing
    <2>1. /\ Else(local, param).kind = "none"
          /\ Meant(n, b) = Else(find_global_variable(n), find_function(n))
        BY <1>9, <1>11, <1>14 DEF Else
    <2> QED
        BY <1>4, <1>10, <1>11, <2>1, Zenon DEF Else
<1> QED
    BY <1>12, <1>13, <1>14

-----------------------------------------------------------------------------
(* What a step leaves of the tables.                                       *)

Grown(s, t) ==
    /\ Len(s) \in Nat /\ Len(t) \in Nat /\ Len(s) <= Len(t)
    /\ \A k \in 1..Len(s) : t[k].name = s[k].name

\* Tables only grow, and of the blocks there are only the open one gets
\* variables.
TablesKept ==
    /\ Grown(globals, globals') /\ Grown(functions, functions')
    /\ Len(blocks) <= Len(blocks')
    /\ \A c \in 1..Len(blocks) :
           /\ blocks'[c].parent = blocks[c].parent
           /\ blocks'[c].function = blocks[c].function
           /\ Grown(blocks[c].locals, blocks'[c].locals)
           /\ c # parent => blocks'[c].locals = blocks[c].locals

\* So what a name means stays what it is, unless a block around the use gets
\* the name: the parameters are the same, and a global variable does not get
\* the name of a function.
LEMMA MeantKept ==
    ASSUME Typed, Nested, Typed', Nested', TablesKept, SameParameters, NamesApart',
           NEW n, NEW b \in 1..Len(blocks), Within(n)'[b] = Within(n)[b],
           Meant(n, b) # Nothing
    PROVE  Meant(n, b)' = Meant(n, b)
<1>1. PICK f : f = blocks[b].function
    OBVIOUS
<1>2. f \in 1..Len(functions) /\ blocks'[b].function = f
    BY <1>1, BlockFacts DEF TablesKept
<1>3. ParamsOf(f)' = ParamsOf(f)
    <2>1. functions'[f].params = functions[f].params
          /\ functions'[f].num_params = functions[f].num_params
        BY <1>2 DEF SameParameters
    <2> QED
        BY <2>1, Zenon DEF ParamsOf
<1>4. PICK local, param : local = Within(n)[b] /\ param = InTable("param", f, ParamsOf(f), n)
    OBVIOUS
<1>5. PICK g, h : g = InTable("global", 0, globals, n) /\ h = InTable("function", 0, functions, n)
    OBVIOUS
<1>6. PICK g2, h2 : g2 = InTable("global", 0, globals', n)
                    /\ h2 = InTable("function", 0, functions', n)
    OBVIOUS
<1>7. Meant(n, b) = Else(local, Else(param, Else(g, h)))
    BY <1>1, <1>4, <1>5, Zenon DEF Meant, find_global_variable, find_function
<1>8. Meant(n, b)' = Else(local, Else(param, Else(g2, h2)))
    <2>1. Meant(n, b)' =
              Else(Within(n)'[b],
                   Else(InTable("param", blocks'[b].function,
                                ParamsOf(blocks[b].function)', n),
                        Else(g2, h2)))
        BY <1>6, Zenon DEF Meant, find_global_variable, find_function
    <2>2. ParamsOf(blocks[b].function)' = ParamsOf(f)'
        BY <1>2, Zenon DEF ParamsOf
    <2> QED
        BY <1>2, <1>3, <1>4, <2>1, <2>2, Zenon
<1>9. /\ Len(globals) \in Nat /\ Len(globals') \in Nat /\ Len(globals) <= Len(globals')
      /\ \A k \in 1..Len(globals) : globals'[k].name = globals[k].name
      /\ Len(functions) \in Nat /\ Len(functions') \in Nat
      /\ Len(functions) <= Len(functions')
      /\ \A k \in 1..Len(functions) : functions'[k].name = functions[k].name
    BY DEF TablesKept, Grown
<1>10. "global" \in Kinds /\ "function" \in Kinds /\ "global" # "none"
       /\ "function" # "none" /\ 0 \in Nat
    BY DEF Kinds
<1>11. g # Nothing => g2 = g
    BY <1>5, <1>6, <1>9, <1>10, InTableStable
<1>12. h # Nothing => h2 = h /\ g2 = Nothing
    <2> SUFFICES ASSUME h # Nothing PROVE h2 = h /\ g2 = Nothing
        OBVIOUS
    <2>1. h2 = h
        BY <1>5, <1>6, <1>9, <1>10, InTableStable
    <2>2. Named(functions', n) # {}
        BY <1>6, <2>1, Zenon DEF InTable
    <2>3. NamesOf(globals') \cap NamesOf(functions') = {}
        BY DEF NamesApart
    <2>4. Named(globals', n) = {}
        BY <2>2, <2>3, NotNamed
    <2> QED
        BY <1>6, <2>1, <2>4, Zenon DEF InTable
<1> HIDE DEF Meant
<1>13. CASE local # Nothing \/ param # Nothing
    BY <1>7, <1>8, <1>13, Zenon DEF Else
<1>14. CASE local = Nothing /\ param = Nothing
    <2>1. Meant(n, b) = Else(g, h) /\ Meant(n, b)' = Else(g2, h2)
        BY <1>7, <1>8, <1>14, Zenon DEF Else
    <2>2. CASE g # Nothing
        BY <1>11, <2>1, <2>2, Zenon DEF Else
    <2>3. CASE g = Nothing
        <3>1. h = Meant(n, b) /\ h # Nothing
            BY <2>1, <2>3, Zenon DEF Else
        <3>2. h2 = h /\ g2 = Nothing
            BY <1>12, <3>1
        <3> QED
            BY <2>1, <2>3, <3>2, Zenon DEF Else
    <2> QED
        BY <2>2, <2>3
<1> QED
    BY <1>13, <1>14

-----------------------------------------------------------------------------
(* The uses so far.                                                        *)

IsUse(u) == u.op = "op_get_var_addr"

\* What a use has found is what its name means in its block; an initial value
\* is one of a variable of the block itself.
Right(u) ==
    /\ u.block \in 1..Len(blocks)
    /\ u.found = Meant(u.name, u.block) /\ u.found # Nothing
    /\ u.size # 0 => Named(blocks[u.block].locals, u.name) # {}

AsMeant == \A i \in 1..Len(il) : IsUse(il[i]) => Right(il[i])

\* A name that a block has keeps its place there.
LEMMA OwnKept ==
    ASSUME Typed, Nested, Typed', Nested', TablesKept,
           NEW n, NEW b \in 1..Len(blocks), Named(blocks[b].locals, n) # {}
    PROVE  /\ Within(n)'[b] = Within(n)[b]
           /\ Named(blocks'[b].locals, n) # {}
<1>1. /\ Len(blocks[b].locals) \in Nat /\ Len(blocks'[b].locals) \in Nat
      /\ Len(blocks[b].locals) <= Len(blocks'[b].locals)
      /\ \A k \in 1..Len(blocks[b].locals) :
             blocks'[b].locals[k].name = blocks[b].locals[k].name
    BY DEF TablesKept, Grown
<1>2. b \in Nat /\ "local" \in Kinds /\ "local" # "none"
    BY BlockFacts DEF Kinds
<1>3. PICK e : e = InTable("local", b, blocks[b].locals, n)
    OBVIOUS
<1>4. e # Nothing
    BY <1>1, <1>2, <1>3, InTableProperties
<1>5. InTable("local", b, blocks'[b].locals, n) = e
    BY <1>1, <1>2, <1>3, <1>4, InTableStable, SMTT(30)
<1>6. Within(n)[b] = e
    BY <1>3, <1>4, WithinProperties DEF Else
<1>7. b \in 1..Len(blocks')
    <2>1. Len(blocks) \in Nat /\ Len(blocks') \in Nat /\ Len(blocks) <= Len(blocks')
        BY DEF Typed, TablesKept
    <2> QED
        BY <2>1
<1>8. Within(n)'[b] = e
    BY <1>4, <1>5, <1>7, WithinNext DEF Else
<1>9. Named(blocks'[b].locals, n) # {}
    BY <1>4, <1>5, Zenon DEF InTable
<1> QED
    BY <1>6, <1>8, <1>9

\* A block gets no variable behind a use of its name in it, which is what
\* DeclaredBeforeUse is for.
LEMMA RightKept ==
    ASSUME Typed, Nested, Typed', Nested', TablesKept, SameParameters, DeclaredBeforeUse,
           NamesApart', AsMeant, NEW i \in 1..Len(il), IsUse(il[i]), NEW u, u = il[i]
    PROVE  Right(u)'
<1>1. PICK b, n : b = u.block /\ n = u.name
    OBVIOUS
<1>2. /\ b \in 1..Len(blocks) /\ u.found = Meant(n, b) /\ Meant(n, b) # Nothing
      /\ u.size # 0 => Named(blocks[b].locals, n) # {}
    BY <1>1 DEF AsMeant, Right
<1>3. Within(n)'[b] = Within(n)[b]
    <2>1. CASE u.size # 0
        BY <1>2, <2>1, OwnKept
    <2>2. CASE u.size = 0
        <3>1. ASSUME NEW c \in Enclosing(b)
              PROVE  Named(blocks'[c].locals, n) = Named(blocks[c].locals, n)
            <4>1. c \in 1..Len(blocks) /\ b # 0 /\ c # 0
                BY <1>2, EnclosingClosed, BlockFacts
            <4>2. CASE c # parent
                BY <4>1, <4>2 DEF TablesKept
            <4>3. CASE c = parent
                <5>1. i \in Statements(parent)
                    BY <1>1, <2>2, <3>1, <4>1, <4>3 DEF Statements, Inside
                <5>2. Named(blocks'[parent].locals, il[i].name)
                          = Named(blocks[parent].locals, il[i].name)
                    BY <4>1, <4>3, <5>1 DEF DeclaredBeforeUse
                <5>3. il[i].name = n
                    BY <1>1
                <5> QED
                    BY <4>3, <5>2, <5>3
            <4> QED
                BY <4>2, <4>3
        <3>2. Len(blocks) <= Len(blocks')
              /\ \A c \in 1..Len(blocks) : blocks'[c].parent = blocks[c].parent
            BY DEF TablesKept
        <3> QED
            BY <1>2, <3>1, <3>2, WithinKept
    <2> QED
        BY <2>1, <2>2
<1>4. Meant(n, b)' = Meant(n, b)
    BY <1>2, <1>3, MeantKept
<1>5. b \in 1..Len(blocks')
    <2>1. Len(blocks) \in Nat /\ Len(blocks') \in Nat /\ Len(blocks) <= Len(blocks')
        BY DEF Typed, TablesKept
    <2> QED
        BY <1>2, <2>1
<1>6. u.size # 0 => Named(blocks'[b].locals, n) # {}
    BY <1>2, OwnKept
<1>7. Right(u)' <=> /\ b \in 1..Len(blocks')
                    /\ u.found = Meant(n, b)' /\ u.found # Nothing
                    /\ u.size # 0 => Named(blocks'[b].locals, n) # {}
    BY <1>1, Zenon DEF Right
<1> QED
    BY <1>2, <1>4, <1>5, <1>6, <1>7

\* The code only grows.
CodeKept ==
    /\ Len(il) \in Nat /\ Len(il') \in Nat /\ Len(il) <= Len(il')
    /\ \A i \in 1..Len(il) : il'[i] = il[i]

\* What is new in it.
NewRight == \A i \in 1..Len(il') : i > Len(il) /\ IsUse(il'[i]) => Right(il[i])'

LEMMA AsMeantKept ==
    ASSUME Typed, Nested, Typed', Nested', TablesKept, SameParameters, DeclaredBeforeUse,
           NamesApart', AsMeant, CodeKept, NewRight
    PROVE  AsMeant'
<1> SUFFICES ASSUME NEW i \in 1..Len(il'), IsUse(il'[i])
             PROVE  Right(il[i])'
    BY DEF AsMeant
<1>1. CASE i \in 1..Len(il)
    <2>1. PICK u : u = il[i]
        OBVIOUS
    <2>2. il'[i] = u /\ IsUse(il[i])
        BY <1>1, <2>1 DEF CodeKept
    <2>3. Right(u)'
        BY <1>1, <2>1, <2>2, RightKept
    <2> QED
        BY <2>2, <2>3, Zenon DEF Right
<1>2. CASE i \notin 1..Len(il)
    <2>1. i > Len(il)
        BY <1>2 DEF CodeKept
    <2> QED
        BY <2>1 DEF NewRight
<1> QED
    BY <1>1, <1>2

-----------------------------------------------------------------------------
(* What the steps do.                                                      *)

LEMMA GrownSame == ASSUME NEW s, Len(s) \in Nat PROVE Grown(s, s)
BY DEF Grown

LEMMA GrownAppend == ASSUME NEW S, NEW s \in Seq(S), NEW x \in S PROVE Grown(s, Append(s, x))
<1>1. Len(s) \in Nat
    OBVIOUS
<1> QED
    BY <1>1, AppendTyped DEF Grown

LEMMA SameTables ==
    ASSUME Typed, Nested, UNCHANGED blocks, Grown(globals, globals'),
           Grown(functions, functions')
    PROVE  TablesKept
<1>1. Len(blocks) \in Nat /\ \A c \in 1..Len(blocks) : Len(blocks[c].locals) \in Nat
    BY BlockFacts
<1>2. \A c \in 1..Len(blocks) : Grown(blocks[c].locals, blocks[c].locals)
    BY <1>1, GrownSame
<1> QED
    BY <1>1, <1>2 DEF TablesKept

LEMMA NoCode == ASSUME Typed, UNCHANGED il PROVE CodeKept /\ NewRight
<1>1. Len(il) \in Nat
    BY DEF Typed
<1>2. \A i \in 1..Len(il) : ~(i > Len(il))
    BY <1>1
<1> QED
    BY <1>1, <1>2 DEF CodeKept, NewRight

LEMMA OneInstruction ==
    ASSUME Typed, NEW u \in Instruction, il' = Append(il, u), IsUse(u) => Right(u)'
    PROVE  CodeKept /\ NewRight
<1>1. /\ Len(il) \in Nat /\ Len(il') = Len(il) + 1 /\ il'[Len(il) + 1] = u
      /\ \A k \in 1..Len(il) : il'[k] = il[k]
    BY CodeAppended DEF Typed
<1>2. ASSUME NEW i \in 1..Len(il'), i > Len(il), IsUse(il'[i])
      PROVE  Right(il[i])'
    <2>1. i = Len(il) + 1
        BY <1>1, <1>2
    <2>2. il'[i] = u
        BY <1>1, <2>1
    <2> QED
        BY <1>2, <2>2, Zenon DEF Right
<1> QED
    BY <1>1, <1>2 DEF CodeKept, NewRight

LEMMA TwoInstructions ==
    ASSUME Typed, NEW u \in Instruction, NEW w \in Instruction, il' = il \o << u, w >>,
           ~IsUse(u), ~IsUse(w)
    PROVE  CodeKept /\ NewRight
<1>1. /\ Len(il) \in Nat /\ Len(il') = Len(il) + 2
      /\ il'[Len(il) + 1] = u /\ il'[Len(il) + 2] = w
      /\ \A k \in 1..Len(il) : il'[k] = il[k]
    BY CodeAppendedTwice DEF Typed
<1>2. ASSUME NEW i \in 1..Len(il'), i > Len(il), IsUse(il'[i])
      PROVE  FALSE
    <2>1. i = Len(il) + 1 \/ i = Len(il) + 2
        BY <1>1, <1>2
    <2> QED
        BY <1>1, <1>2, <2>1
<1> QED
    BY <1>1, <1>2 DEF CodeKept, NewRight

LEMMA PlainCode ==
    ASSUME NEW op \in Ops, op # "op_get_var_addr", NEW name \in Names
    PROVE  /\ Plain(op) \in Instruction /\ ~IsUse(Plain(op))
           /\ [Plain(op) EXCEPT !.name = name] \in Instruction
           /\ ~IsUse([Plain(op) EXCEPT !.name = name])
BY PlainTyped DEF IsUse

Stepped == TablesKept /\ CodeKept /\ NewRight

LEMMA GlobalVariableStepped ==
    ASSUME Places, NEW d \in Declarators, NEW semicolon \in BOOLEAN,
           GlobalVariable(d, semicolon)
    PROVE  Stepped
<1> USE DEF Places
<1>1. PICK v : v = Full(temp, d)
    OBVIOUS
<1>2. v \in Variable
    BY <1>1, ProgramAssumption, FullTyped DEF Typed
<1>3. globals' = Append(globals, v)
    BY <1>1, Zenon DEF GlobalVariable
<1>4. Grown(globals, globals')
    BY <1>2, <1>3, GrownAppend DEF Typed
<1>5. UNCHANGED <<functions, blocks, il>>
    BY Zenon DEF GlobalVariable
<1>6. Grown(functions, functions')
    BY <1>5, GrownSame DEF Typed
<1> QED
    BY <1>4, <1>5, <1>6, SameTables, NoCode DEF Stepped

LEMMA PrototypeStepped ==
    ASSUME Places, NEW name \in FunctionNames, NEW ps \in Parameters, Prototype(name, ps)
    PROVE  Stepped
<1> USE DEF Places
<1>1. name \in Names
    BY ProgramAssumption
<1>2. PICK new : new = WithParameters(add_function(name), EntryOf(add_function(name), name), ps)
    OBVIOUS
<1>3. functions' = new /\ UNCHANGED <<globals, blocks, il>>
    BY <1>2, Zenon DEF Prototype
<1>4. /\ new \in Seq(Function) /\ Len(functions) <= Len(new)
      /\ \A k \in 1..Len(functions) : new[k].name = functions[k].name
    BY <1>1, <1>2, PrototypeTable
<1>5. Len(new) \in Nat /\ Len(functions) \in Nat /\ Len(globals) \in Nat
    BY <1>4 DEF Typed
<1>6. Grown(functions, functions') /\ Grown(globals, globals')
    BY <1>3, <1>4, <1>5, GrownSame DEF Grown
<1> QED
    BY <1>3, <1>6, SameTables, NoCode DEF Stepped

\* A block is opened behind the others.
LEMMA BlockStepped ==
    ASSUME Places, NEW x \in Block, blocks' = Append(blocks, x), UNCHANGED globals,
           Grown(functions, functions')
    PROVE  TablesKept
<1> USE DEF Places
<1>1. /\ Len(blocks) \in Nat /\ Len(blocks') = Len(blocks) + 1
      /\ \A c \in 1..Len(blocks) : blocks'[c] = blocks[c]
    BY AppendTyped DEF Typed
<1>2. \A c \in 1..Len(blocks) : Grown(blocks[c].locals, blocks[c].locals)
    BY BlockFacts, GrownSame
<1>3. Grown(globals, globals')
    BY GrownSame DEF Typed
<1> QED
    BY <1>1, <1>2, <1>3 DEF TablesKept

LEMMA FunctionDefinitionStepped ==
    ASSUME Places, NEW name \in FunctionNames, NEW ps \in Parameters,
           FunctionDefinition(name, ps)
    PROVE  Stepped
<1> USE DEF Places
<1>1. name \in Names
    BY ProgramAssumption
<1>2. PICK f : f = EntryOf(add_function(name), name)
    OBVIOUS
<1>3. PICK old : old = WithParameters(add_function(name), f, ps)
    OBVIOUS
<1>4. /\ old \in Seq(Function) /\ Len(functions) <= Len(old) /\ f \in 1..Len(old)
      /\ \A k \in 1..Len(functions) : old[k].name = functions[k].name
    BY <1>1, <1>2, <1>3, PrototypeTable
<1>5. PICK new : new = [old EXCEPT ![f].entry = Len(il)]
    OBVIOUS
<1>6. PICK x : x = [parent |-> 0, function |-> f, locals |-> << >>]
    OBVIOUS
<1>7. PICK u, w : u = [Plain("op_entry_point") EXCEPT !.name = name]
                  /\ w = Plain("op_block_start")
    OBVIOUS
<1>8. functions' = new /\ blocks' = Append(blocks, x) /\ il' = il \o << u, w >>
      /\ UNCHANGED globals
    BY <1>2, <1>3, <1>5, <1>6, <1>7, Zenon DEF FunctionDefinition
<1>9. Len(il) \in Nat /\ Len(old) \in Nat /\ Len(functions) \in Nat
    BY <1>4 DEF Typed
<1>10. Len(new) = Len(old) /\ \A k \in 1..Len(new) : new[k].name = old[k].name
    BY <1>4, <1>5, <1>9, EntryTable
<1>11. Grown(functions, functions')
    BY <1>4, <1>8, <1>9, <1>10 DEF Grown
<1>12. x \in Block
    <2>1. f \in Nat \ {0} /\ << >> \in Seq(Variable)
        BY <1>4, <1>9
    <2> QED
        BY <1>6, <2>1 DEF Block
<1>13. TablesKept
    BY <1>8, <1>11, <1>12, BlockStepped
<1>14. u \in Instruction /\ w \in Instruction /\ ~IsUse(u) /\ ~IsUse(w)
    <2>1. /\ "op_entry_point" \in Ops /\ "op_block_start" \in Ops
          /\ "op_entry_point" # "op_get_var_addr" /\ "op_block_start" # "op_get_var_addr"
        BY DEF Ops
    <2> QED
        BY <1>1, <1>7, <2>1, PlainCode
<1> QED
    BY <1>8, <1>13, <1>14, TwoInstructions DEF Stepped

LEMMA OpenBlockStepped == ASSUME Places, OpenBlock PROVE Stepped
<1> USE DEF Places
<1>1. parent \in 1..Len(blocks)
    BY DEF OpenBlock, Open, Typed
<1>2. PICK x : x = [parent |-> parent, function |-> blocks[parent].function, locals |-> << >>]
    OBVIOUS
<1>3. x \in Block
    <2>1. blocks[parent] \in Block
        BY <1>1, ElementTyped DEF Typed
    <2>2. blocks[parent].function \in Nat \ {0} /\ parent \in Nat /\ << >> \in Seq(Variable)
        BY <2>1 DEF Block, Typed
    <2> QED
        BY <1>2, <2>2 DEF Block
<1>4. PICK u : u = Plain("op_block_start")
    OBVIOUS
<1>5. blocks' = Append(blocks, x) /\ il' = Append(il, u) /\ UNCHANGED <<globals, functions>>
    BY <1>2, <1>4, Zenon DEF OpenBlock
<1>6. Grown(functions, functions')
    BY <1>5, GrownSame DEF Typed
<1>7. u \in Instruction /\ ~IsUse(u)
    <2>1. "op_block_start" \in Ops /\ "op_block_start" # "op_get_var_addr"
        BY DEF Ops
    <2> QED
        BY <1>4, <2>1, NamesTyped, PlainCode
<1> QED
    BY <1>3, <1>5, <1>6, <1>7, BlockStepped, OneInstruction DEF Stepped

LEMMA CloseBlockStepped == ASSUME Places, CloseBlock PROVE Stepped
<1> USE DEF Places
<1>1. parent \in 1..Len(blocks)
    BY DEF CloseBlock, Open, Typed
<1>2. PICK f : f = blocks[parent].function
    OBVIOUS
<1>3. f \in 1..Len(functions) /\ functions \in Seq(Function) /\ Len(functions) \in Nat
      /\ Len(il) + 1 \in Nat
    BY <1>1, <1>2 DEF Nested, Typed
<1>4. PICK u, w : u = Plain("op_block_end") /\ w = Plain("op_exit_point")
    OBVIOUS
<1>5. u \in Instruction /\ w \in Instruction /\ ~IsUse(u) /\ ~IsUse(w)
    <2>1. /\ "op_block_end" \in Ops /\ "op_exit_point" \in Ops
          /\ "op_block_end" # "op_get_var_addr" /\ "op_exit_point" # "op_get_var_addr"
        BY DEF Ops
    <2> QED
        BY <1>4, <2>1, NamesTyped, PlainCode
<1>6. UNCHANGED <<globals, blocks>>
    BY Zenon DEF CloseBlock
<1>7. Grown(globals, globals')
    BY <1>6, GrownSame DEF Typed
<1>8. CASE parent' # 0
    <2>1. il' = Append(il, u) /\ UNCHANGED functions
        BY <1>4, <1>8, Zenon DEF CloseBlock
    <2>2. Grown(functions, functions')
        BY <1>3, <2>1, GrownSame
    <2> QED
        BY <1>5, <1>6, <1>7, <2>1, <2>2, SameTables, OneInstruction DEF Stepped
<1>9. CASE parent' = 0
    <2>1. PICK new : new = [functions EXCEPT ![f].exit = Len(il) + 1]
        OBVIOUS
    <2>2. il' = il \o << u, w >> /\ functions' = new
        BY <1>2, <1>4, <1>9, <2>1, Zenon DEF CloseBlock
    <2>3. Len(new) = Len(functions) /\ \A k \in 1..Len(new) : new[k].name = functions[k].name
        BY <1>3, <2>1, ExitTable
    <2>4. Grown(functions, functions')
        BY <1>3, <2>2, <2>3 DEF Grown
    <2> QED
        BY <1>5, <1>6, <1>7, <2>2, <2>4, SameTables, TwoInstructions DEF Stepped
<1> QED
    BY <1>8, <1>9

\* What an operand or a statement that takes an address has found is what the
\* name means there.
LEMMA OperandMeant ==
    ASSUME Places, pc = "body", NEW n, Operand(n) # Nothing, Operand(n).kind # "constant"
    PROVE  Operand(n) = Meant(n, parent)
<1> USE DEF Places
<1>1. PICK c, l, g, h : /\ c = find_constant(n) /\ l = find_local_variable(n)
                        /\ g = find_global_variable(n) /\ h = find_function(n)
    OBVIOUS
<1>2. Operand(n) = Else(c, Else(Else(l, g), h))
    BY <1>1, Zenon DEF Operand, find_variable
<1>3. c # Nothing => c.kind = "constant"
    <2>1. "constant" \in Kinds /\ "constant" # "none" /\ 0 \in Nat /\ Len(constants) \in Nat
        BY DEF Kinds, Typed
    <2> QED
        BY <1>1, <2>1, InTableProperties DEF find_constant
<1>4. Operand(n) = Else(Else(l, g), h)
    BY <1>2, <1>3, Zenon DEF Else
<1>5. parent # 0
    BY DEF Open
<1>6. PICK w, p : /\ w = Within(n)[parent]
                  /\ p = InTable("param", blocks[parent].function,
                                 ParamsOf(blocks[parent].function), n)
    OBVIOUS
<1>7. l = Else(w, p)
    BY <1>1, <1>5, <1>6, FindLocalIs
<1>8. Meant(n, parent) = Else(w, Else(p, Else(g, h)))
    BY <1>1, <1>6, Zenon DEF Meant
<1>9. Else(Else(Else(w, p), g), h) = Else(w, Else(p, Else(g, h)))
    BY Zenon DEF Else
<1> QED
    BY <1>4, <1>7, <1>8, <1>9, Zenon

LEMMA StatementMeant ==
    ASSUME Places, pc = "body", NEW n, Statement(n) # Nothing,
           Statement(n).kind \notin {"type", "function"}
    PROVE  Statement(n) = Meant(n, parent)
<1> USE DEF Places
<1>1. PICK t, l, g, h : /\ t = find_type(n) /\ l = find_local_variable(n)
                        /\ g = find_global_variable(n) /\ h = find_function(n)
    OBVIOUS
<1>2. Statement(n) = Else(t, Else(h, Else(l, g)))
    BY <1>1, Zenon DEF Statement, find_variable
<1>3. (t # Nothing => t.kind = "type") /\ (h # Nothing => h.kind = "function")
    <2>1. /\ "type" \in Kinds /\ "type" # "none" /\ 0 \in Nat /\ Len(types) \in Nat
          /\ "function" \in Kinds /\ "function" # "none" /\ Len(functions) \in Nat
        BY DEF Kinds, Typed
    <2> QED
        BY <1>1, <2>1, InTableProperties DEF find_type, find_function
<1>4. t = Nothing
    BY <1>2, <1>3 DEF Else
<1>5. h = Nothing
    BY <1>2, <1>3, <1>4 DEF Else
<1>6. Statement(n) = Else(l, g)
    BY <1>2, <1>4, <1>5, Zenon DEF Else
<1>7. parent # 0
    BY DEF Open
<1>8. PICK w, p : /\ w = Within(n)[parent]
                  /\ p = InTable("param", blocks[parent].function,
                                 ParamsOf(blocks[parent].function), n)
    OBVIOUS
<1>9. l = Else(w, p)
    BY <1>1, <1>7, <1>8, FindLocalIs
<1>10. Meant(n, parent) = Else(w, Else(p, Else(g, h)))
    BY <1>1, <1>8, Zenon DEF Meant
<1>11. Else(Else(w, p), g) = Else(w, Else(p, Else(g, h)))
    BY <1>5, Zenon DEF Else
<1> QED
    BY <1>6, <1>9, <1>10, <1>11, Zenon

LEMMA UseAsStepped ==
    ASSUME Places, pc = "body", NEW name \in Names, NEW found \in Entities,
           NEW called \in BOOLEAN, UseAs(name, found, called),
           found # Nothing /\ found.kind # "constant" /\ ~(found.kind = "function" /\ called)
               => found = Meant(name, parent)
    PROVE  Stepped
<1> USE DEF Places
<1>1. UNCHANGED <<types, constants, functions, globals, blocks, temp, parent>>
    BY Zenon DEF UseAs
<1>2. Grown(globals, globals') /\ Grown(functions, functions')
    BY <1>1, GrownSame DEF Typed
<1>3. TablesKept
    BY <1>1, <1>2, SameTables
<1>4. CASE found = Nothing
    <2>1. UNCHANGED il
        BY <1>4, Zenon DEF UseAs
    <2> QED
        BY <1>3, <2>1, NoCode DEF Stepped
<1>5. CASE found # Nothing
    <2>1. PICK op : op = CASE found.kind = "constant" -> "op_load_numeric_constant"
                           [] found.kind = "function" /\ called -> "op_function_call"
                           [] OTHER -> "op_get_var_addr"
        OBVIOUS
    <2>2. /\ op \in Ops
          /\ op = "op_get_var_addr" =>
                 found.kind # "constant" /\ ~(found.kind = "function" /\ called)
        <3>1. CASE found.kind = "constant"
            BY <2>1, <3>1 DEF Ops
        <3>2. CASE found.kind # "constant" /\ found.kind = "function" /\ called
            BY <2>1, <3>2 DEF Ops
        <3>3. CASE found.kind # "constant" /\ ~(found.kind = "function" /\ called)
            <4>1. op = "op_get_var_addr"
                BY <2>1, <3>3, Zenon
            <4> QED
                BY <3>3, <4>1 DEF Ops
        <3> QED
            BY <3>1, <3>2, <3>3
    <2>3. PICK u : u = Instr(op, name, found, 0)
        OBVIOUS
    <2>4. /\ u \in Instruction /\ u.op = op /\ u.name = name /\ u.block = parent
          /\ u.found = found /\ u.size = 0
        BY <2>2, <2>3, InstrTyped
    <2>5. il' = Append(il, u)
        BY <1>5, <2>1, <2>3, Zenon DEF UseAs
    <2>6. IsUse(u) => Right(u)'
        <3> SUFFICES ASSUME IsUse(u) PROVE Right(u)'
            OBVIOUS
        <3>1. found = Meant(name, parent)
            BY <1>5, <2>2, <2>4 DEF IsUse
        <3>2. parent \in 1..Len(blocks)
            BY DEF Open, Typed
        <3>3. Meant(name, parent)' = Meant(name, parent)
            <4>1. Within(name)' = Within(name)
                BY <1>1, Zenon DEF Within
            <4>2. /\ find_global_variable(name)' = find_global_variable(name)
                  /\ find_function(name)' = find_function(name)
                BY <1>1, Zenon DEF find_global_variable, find_function
            <4>3. ParamsOf(blocks[parent].function)' = ParamsOf(blocks[parent].function)
                BY <1>1, Zenon DEF ParamsOf
            <4>4. blocks'[parent'].function = blocks[parent].function /\ parent' = parent
                BY <1>1
            <4> QED
                BY <4>1, <4>2, <4>3, <4>4, Zenon DEF Meant
        <3>4. Right(u)' <=> /\ parent \in 1..Len(blocks')
                            /\ found = Meant(name, parent)' /\ found # Nothing
            <4>1. Meant(u.name, u.block)' = Meant(name, parent)'
                BY <1>1, <2>4, Zenon DEF Meant
            <4> QED
                BY <2>4, <4>1 DEF Right
        <3> QED
            BY <1>1, <1>5, <3>1, <3>2, <3>3, <3>4
    <2> QED
        BY <1>3, <2>4, <2>5, <2>6, OneInstruction DEF Stepped
<1> QED
    BY <1>4, <1>5

\* A local variable and its initial value, which is one of the new variable
\* because its block does not have another one with the name.
LEMMA AddLocalStepped ==
    ASSUME Places, Typed', Nested', NamesApart', pc = "body",
           NEW v \in Variable, NEW size \in Nat, NEW initialised \in BOOLEAN,
           AddLocal(v, size, initialised)
    PROVE  Stepped
<1> USE DEF Places
<1>1. PICK new : new = WithLocal(v)
    OBVIOUS
<1>2. blocks' = new /\ UNCHANGED <<functions, globals, parent>>
    BY <1>1, Zenon DEF AddLocal, WithLocal
<1>3. /\ parent \in 1..Len(blocks) /\ Len(blocks) \in Nat
      /\ blocks[parent].locals \in Seq(Variable) /\ Len(blocks[parent].locals) \in Nat
      /\ new \in Seq(Block) /\ Len(new) = Len(blocks)
      /\ \A b \in 1..Len(blocks) :
             /\ new[b].parent = blocks[b].parent /\ new[b].function = blocks[b].function
             /\ b # parent => new[b].locals = blocks[b].locals
             /\ b = parent => new[b].locals = Append(blocks[b].locals, v)
    BY <1>1, LocalAdded
<1>4. PICK n : n = Len(blocks[parent].locals)
    OBVIOUS
<1>5. PICK vs : vs = Append(blocks[parent].locals, v)
    OBVIOUS
<1>6. n \in Nat /\ Len(vs) = n + 1 /\ vs[n + 1] = v /\ Grown(blocks[parent].locals, vs)
      /\ blocks'[parent].locals = vs
    BY <1>2, <1>3, <1>4, <1>5, AppendTyped, GrownAppend
<1>7. TablesKept
    <2>1. ASSUME NEW c \in 1..Len(blocks)
          PROVE  Grown(blocks[c].locals, new[c].locals)
        <3>1. CASE c = parent
            BY <1>2, <1>6, <3>1
        <3>2. CASE c # parent
            BY <1>3, <3>2, BlockFacts, GrownSame
        <3> QED
            BY <3>1, <3>2
    <2>2. Grown(globals, globals') /\ Grown(functions, functions')
        BY <1>2, GrownSame DEF Typed
    <2> QED
        BY <1>2, <1>3, <2>1, <2>2 DEF TablesKept
<1>8. CASE ~initialised
    <2>1. UNCHANGED il
        BY <1>8, Zenon DEF AddLocal
    <2> QED
        BY <1>7, <2>1, NoCode DEF Stepped
<1>9. CASE initialised
    <2>1. PICK e : e = Entity("local", parent, n + 1)
        OBVIOUS
    <2>2. e \in Entities /\ e # Nothing
        BY <1>3, <1>6, <2>1 DEF Entity, Entities, Kinds, Nothing
    <2>3. PICK u : u = Instr("op_get_var_addr", v.name, e, size)
        OBVIOUS
    <2>4. /\ u \in Instruction /\ u.name = v.name /\ u.block = parent /\ u.found = e
        <3>1. "op_get_var_addr" \in Ops /\ v.name \in Names
            BY DEF Ops, Variable
        <3> QED
            BY <2>2, <2>3, <3>1, InstrTyped
    <2>5. il' = Append(il, u)
        BY <1>4, <1>9, <2>1, <2>3, Zenon DEF AddLocal
    <2>6. Right(u)'
        <3>1. PICK name : name = v.name
            OBVIOUS
        <3>2. Named(vs, name) = {n + 1}
            <4>1. n + 1 \in 1..Len(vs) /\ vs[n + 1].name = name
                BY <1>6, <3>1
            <4>2. Distinct(vs)
                BY <1>2, <1>3, <1>6 DEF NamesApart
            <4>3. \A k \in 1..Len(vs) : vs[k].name = name => k = n + 1
                BY <4>1, <4>2 DEF Distinct
            <4> QED
                BY <4>1, <4>3 DEF Named
        <3>3. First(Named(vs, name)) = n + 1
            BY <1>6, <3>2 DEF First
        <3>4. InTable("local", parent, vs, name) = e
            BY <2>1, <3>2, <3>3 DEF InTable
        <3>5. parent \in 1..Len(blocks')
            BY <1>2, <1>3
        <3>6. Within(name)'[parent] = e
            <4>1. Within(name)'[parent] =
                      Else(InTable("local", parent, blocks'[parent].locals, name),
                           Within(name)'[blocks'[parent].parent])
                BY <3>5, WithinNext
            <4> QED
                BY <1>6, <2>2, <3>4, <4>1 DEF Else
        <3>7. Meant(name, parent)' = e
            <4>1. PICK x : x = Within(name)'[parent']
                OBVIOUS
            <4>2. x = e
                BY <1>2, <3>6, <4>1
            <4>3. Meant(name, parent)' =
                      Else(x, Else(InTable("param", blocks[parent].function,
                                           ParamsOf(blocks[parent].function), name)',
                                   Else(find_global_variable(name)', find_function(name)')))
                BY <4>1, Zenon DEF Meant
            <4> QED
                BY <2>2, <4>2, <4>3, Zenon DEF Else
        <3>8. Named(blocks'[parent].locals, name) # {}
            BY <1>6, <3>2
        <3>9. Meant(u.name, u.block)' = Meant(name, parent)'
            BY <1>2, <2>4, <3>1, Zenon DEF Meant
        <3> QED
            BY <2>2, <2>4, <3>1, <3>5, <3>7, <3>8, <3>9 DEF Right
    <2> QED
        BY <1>7, <2>4, <2>5, <2>6, OneInstruction DEF Stepped
<1> QED
    BY <1>8, <1>9

LEMMA LocalStepped ==
    ASSUME Places, Typed', Nested', NamesApart', NEW d \in Declarators,
           NEW initialised \in BOOLEAN,
           LocalVariable(d, initialised) \/ LocalContinued(d, initialised)
    PROVE  Stepped
<1> USE DEF Places
<1>1. d \in Declarator /\ pc = "body"
    BY ProgramAssumption DEF LocalVariable, LocalContinued
<1>2. CASE LocalVariable(d, initialised)
    <2>1. PICK v : v = Full(Zeroed, d)
        OBVIOUS
    <2>2. v \in Variable /\ v.type = d.type
        BY <1>1, <2>1, BlankTyped, FullTyped, FullFields
    <2>3. find_type(v.type) # Nothing
        BY <1>2, <2>2 DEF LocalVariable, Known
    <2>4. PICK size : size = p_get_size(v)
        OBVIOUS
    <2>5. size \in Nat
        BY <2>2, <2>3, <2>4, SizesTyped DEF Typed, SizeKnown
    <2>6. AddLocal(v, size, initialised)
        BY <1>2, <2>1, <2>4, Zenon DEF LocalVariable
    <2> QED
        BY <1>1, <2>2, <2>5, <2>6, AddLocalStepped
<1>3. CASE LocalContinued(d, initialised)
    <2>1. PICK var : var = blocks[parent].locals[first]
        OBVIOUS
    <2>2. first # 0 /\ parent \in 1..Len(blocks) /\ first \in 1..Len(blocks[parent].locals)
        BY <1>1, <1>3 DEF LocalContinued, Open, Typed
    <2>3. var \in Variable /\ find_type(var.type) # Nothing
        <3>1. blocks[parent] \in Block
            BY <2>2, ElementTyped DEF Typed
        <3>2. blocks[parent].locals \in Seq(Variable)
            BY <3>1 DEF Block
        <3> QED
            BY <2>1, <2>2, <3>2, ElementTyped DEF TypesKnown
    <2>4. PICK v : v = Partial(Zeroed, var, d)
        OBVIOUS
    <2>5. v \in Variable
        BY <1>1, <2>3, <2>4, BlankTyped, PartialTyped
    <2>6. PICK size : size = p_get_size(var)
        OBVIOUS
    <2>7. size \in Nat
        BY <2>3, <2>6, SizesTyped DEF Typed, SizeKnown
    <2>8. AddLocal(v, size, initialised)
        BY <1>3, <2>1, <2>4, <2>6, Zenon DEF LocalContinued
    <2> QED
        BY <1>1, <2>5, <2>7, <2>8, AddLocalStepped
<1> QED
    BY <1>2, <1>3

LEMMA NextStepped ==
    ASSUME Places, Typed', Nested', NamesApart', Next
    PROVE  Stepped
<1>1. ASSUME NEW d \in Declarators, NEW semicolon \in BOOLEAN, GlobalVariable(d, semicolon)
      PROVE  Stepped
    BY <1>1, GlobalVariableStepped
<1>2. ASSUME NEW name \in FunctionNames, NEW ps \in Parameters,
             Prototype(name, ps) \/ FunctionDefinition(name, ps)
      PROVE  Stepped
    BY <1>2, PrototypeStepped, FunctionDefinitionStepped
<1>3. ASSUME UNCHANGED <<functions, globals, blocks, il>>
      PROVE  Stepped
    <2>1. Grown(globals, globals') /\ Grown(functions, functions')
        BY <1>3, GrownSame DEF Places, Typed
    <2> QED
        BY <1>3, <2>1, SameTables, NoCode DEF Places, Stepped
<1>4. ASSUME NEW name \in TypeNames,
             \/ \E es \in Enumerators : TypedefEnum(name, es)
             \/ \E ds \in Fields : TypedefStruct(name, ds)
             \/ \E k \in 1..Len(types) : TypedefType(name, types[k].name)
      PROVE  Stepped
    <2>1. UNCHANGED <<functions, globals, blocks, il>>
        BY <1>4, Zenon DEF TypedefEnum, TypedefStruct, TypedefType
    <2> QED
        BY <1>3, <2>1
<1>5. CASE Finish
    BY <1>3, <1>5 DEF Finish
<1>6. ASSUME NEW d \in Declarators, NEW initialised \in BOOLEAN,
             LocalVariable(d, initialised) \/ LocalContinued(d, initialised)
      PROVE  Stepped
    BY <1>6, LocalStepped
<1>7. CASE OpenBlock
    BY <1>7, OpenBlockStepped
<1>8. CASE CloseBlock
    BY <1>8, CloseBlockStepped
<1>9. ASSUME NEW name \in UsedNames,
             UseStatement(name) \/ \E called \in BOOLEAN : UseOperand(name, called)
      PROVE  Stepped
    <2>1. name \in Names
        BY UsedNamesTyped
    <2>2. Operand(name) \in Entities /\ Statement(name) \in Entities
        BY FoundTyped
    <2>3. CASE UseStatement(name)
        <3>1. PICK found : found = Statement(name)
            OBVIOUS
        <3>2. pc = "body" /\ UseAs(name, found, TRUE) /\ found.kind # "type"
            BY <2>3, <3>1 DEF UseStatement
        <3>3. found # Nothing /\ found.kind # "constant" /\ ~(found.kind = "function" /\ TRUE)
                  => found = Meant(name, parent)
            BY <3>1, <3>2, StatementMeant
        <3> QED
            BY <2>1, <2>2, <3>1, <3>2, <3>3, UseAsStepped
    <2>4. ASSUME NEW called \in BOOLEAN, UseOperand(name, called)
          PROVE  Stepped
        <3>1. PICK found : found = Operand(name)
            OBVIOUS
        <3>2. pc = "body" /\ UseAs(name, found, called)
            BY <2>4, <3>1 DEF UseOperand
        <3>3. found # Nothing /\ found.kind # "constant" => found = Meant(name, parent)
            BY <3>1, <3>2, OperandMeant
        <3> QED
            BY <2>1, <2>2, <3>1, <3>2, <3>3, UseAsStepped
    <2> QED
        BY <1>9, <2>3, <2>4
<1> QED
    BY <1>1, <1>2, <1>4, <1>5, <1>6, <1>7, <1>8, <1>9, Zenon DEF Next

-----------------------------------------------------------------------------
(* The theorem.                                                            *)

LEMMA InitAsMeant == Init => AsMeant /\ NamesApart
<1> SUFFICES ASSUME Init PROVE AsMeant /\ NamesApart
    OBVIOUS
<1>1. \A i \in 1..Len(il) : ~IsUse(il[i])
    <2>1. /\ "op_label" \in Ops /\ "op_start" \in Ops /\ "op_function_call" \in Ops
          /\ "op_exit" \in Ops /\ "op_entry_point" \in Ops /\ "op_syscall" \in Ops
          /\ "op_exit_point" \in Ops
        BY Zenon DEF Ops
    <2>2. PICK a, b, c, d, e, f, g :
              /\ a = Plain("op_label") /\ b = Plain("op_start")
              /\ c = [Plain("op_function_call") EXCEPT !.name = "main"]
              /\ d = Plain("op_exit")
              /\ e = [Plain("op_entry_point") EXCEPT !.name = "__syscall"]
              /\ f = Plain("op_syscall") /\ g = Plain("op_exit_point")
        OBVIOUS
    <2>3. /\ ~IsUse(a) /\ ~IsUse(b) /\ ~IsUse(c) /\ ~IsUse(d) /\ ~IsUse(e) /\ ~IsUse(f)
          /\ ~IsUse(g)
        BY <2>1, <2>2, NamesTyped, PlainCode
    <2>4. il = << a, b, c, a, d, e, f, g >>
        BY <2>2 DEF Init, Prologue
    <2>5. \A i \in 1..Len(il) : il[i] \in {a, b, c, d, e, f, g}
        BY <2>4
    <2> QED
        BY <2>3, <2>5
<1>2. NamesOf(globals) = {} /\ Len(blocks) = 0
    BY DEF Init, NamesOf
<1> QED
    BY <1>1, <1>2 DEF AsMeant, NamesApart

\* In a program the compiler supports, every use of a variable, and every
\* address of a function, is of what both look-ups find: the parser's in the
\* middle of the source, with some blocks open and others over, which decides
\* the type and the size, and the code generator's when all tables are
\* complete, which decides the address.
THEOREM UsesFound == SupportedSpec => []UsesAgree
<1> DEFINE Inv == Places /\ AsMeant /\ NamesApart
           Step == /\ Next /\ Bounded' /\ SameParameters /\ DeclaredBeforeUse /\ SameWidth
                   /\ Supported' /\ scopes' = Scopes' /\ uses' = Uses'
<1>1. MCInit => Inv
    BY InitPlaces, InitAsMeant, Zenon DEF MCInit
<1>2. Inv /\ [Step]_<<vars, scopes, uses>> => Inv'
    <2>1. ASSUME Inv, Step PROVE Inv'
        <3>1. Places'
            BY <2>1, NextPlaces
        <3>2. NamesApart'
            <4>1. (Supported => NamesApart)'
                BY SupportedApart, PTL
            <4> QED
                BY <2>1, <4>1
        <3>3. Typed /\ Nested /\ Typed' /\ Nested'
            BY <2>1, <3>1 DEF Places
        <3>4. Stepped
            BY <2>1, <3>2, <3>3, NextStepped
        <3>5. AsMeant'
            BY <2>1, <3>2, <3>3, <3>4, AsMeantKept DEF Stepped
        <3> QED
            BY <3>1, <3>2, <3>5
    <2>2. ASSUME Inv, UNCHANGED <<vars, scopes, uses>> PROVE Inv'
        <3>1. Places'
            BY <2>2, StutterPlaces
        <3>2. NamesApart'
            BY <2>2, Zenon DEF NamesApart, ParamsOf, vars
        <3>3. AsMeant'
            <4>1. UNCHANGED <<functions, globals, blocks, il>>
                BY <2>2 DEF vars
            <4>2. Grown(globals, globals') /\ Grown(functions, functions')
                BY <2>2, <4>1, GrownSame DEF Places, Typed
            <4>3. TablesKept /\ CodeKept /\ NewRight
                BY <2>2, <4>1, <4>2, SameTables, NoCode DEF Places
            <4>4. SameParameters /\ DeclaredBeforeUse
                BY <4>1, Zenon DEF SameParameters, DeclaredBeforeUse
            <4> QED
                BY <2>2, <3>1, <3>2, <4>3, <4>4, AsMeantKept DEF Places
        <3> QED
            BY <3>1, <3>2, <3>3
    <2> QED
        BY <2>1, <2>2
<1>3. Inv => UsesAgree
    <2> SUFFICES ASSUME Inv, NEW i \in 1..Len(il), il[i].op = "op_get_var_addr"
                 PROVE  G!Find(il[i].name, il[i].block) = il[i].found
        BY Zenon DEF UsesAgree
    <2>1. PICK n, b, e : n = il[i].name /\ b = il[i].block /\ e = il[i].found
        OBVIOUS
    <2>2. b \in 1..Len(blocks) /\ e = Meant(n, b) /\ Meant(n, b) # Nothing
        BY <2>1 DEF AsMeant, Right, IsUse
    <2>3. G!Find(n, b) = e
        BY <2>2, FindAgrees DEF Places
    <2> QED
        BY <2>1, <2>3
<1> QED
    BY <1>1, <1>2, <1>3, PTL DEF SupportedSpec

-----------------------------------------------------------------------------
(* What the recursions through the blocks and the code compute.            *)

\* A value for each number, from that of a smaller one.
Recursive(n, base, step, in, f) ==
    f = [b \in 0..n |-> IF b = 0 THEN base ELSE step[b][f[in[b]]]]

LEMMA RecursiveExists ==
    ASSUME NEW S, NEW n \in Nat, NEW base \in S, NEW step, NEW in,
           \A b \in 1..n : step[b] \in [S -> S] /\ in[b] \in 0..(b - 1)
    PROVE  \E f \in [0..n -> S] : Recursive(n, base, step, in, f)
<1> DEFINE E(m) == \E f \in [0..m -> S] : Recursive(m, base, step, in, f)
           Bad == {m \in 0..n : ~ E(m)}
<1>1. E(0)
    <2> DEFINE f == [b \in 0..0 |-> base]
    <2>1. f \in [0..0 -> S]
        OBVIOUS
    <2>2. f = [b \in 0..0 |-> IF b = 0 THEN base ELSE step[b][f[in[b]]]]
        OBVIOUS
    <2> HIDE DEF f
    <2>3. Recursive(0, base, step, in, f)
        BY <2>2, Zenon DEF Recursive
    <2> QED
        BY <2>1, <2>3
<1>2. ASSUME NEW m \in Nat, m + 1 <= n, E(m)
      PROVE  E(m + 1)
    <2>1. PICK f \in [0..m -> S] : Recursive(m, base, step, in, f)
        BY <1>2
    <2> DEFINE next == step[m + 1][f[in[m + 1]]]
               g == [b \in 0..(m + 1) |-> IF b = m + 1 THEN next ELSE f[b]]
    <2>2. next \in S
        <3>1. step[m + 1] \in [S -> S] /\ in[m + 1] \in 0..m
            BY <1>2
        <3>2. f[in[m + 1]] \in S
            BY <2>1, <3>1
        <3> QED
            BY <3>1, <3>2
    <2> HIDE DEF next
    <2>3. g \in [0..(m + 1) -> S]
        BY <2>1, <2>2
    <2>4. ASSUME NEW b \in 0..(m + 1)
          PROVE  g[b] = IF b = 0 THEN base ELSE step[b][g[in[b]]]
        <3>1. CASE b = m + 1
            <4>1. in[m + 1] \in 0..m /\ b # 0
                BY <1>2, <3>1
            <4>2. g[in[m + 1]] = f[in[m + 1]]
                BY <4>1
            <4>3. g[b] = next
                BY <3>1
            <4> HIDE DEF g
            <4> QED
                BY <3>1, <4>1, <4>2, <4>3, Zenon DEF next
        <3>2. CASE b # m + 1
            <4>1. b \in 0..m /\ g[b] = f[b]
                BY <3>2
            <4>2. b # 0 => g[in[b]] = f[in[b]]
                <5>1. b # 0 => in[b] \in 0..m
                    BY <1>2, <4>1
                <5> QED
                    BY <5>1
            <4>3. f[b] = IF b = 0 THEN base ELSE step[b][f[in[b]]]
                <5>1. f = [c \in 0..m |-> IF c = 0 THEN base ELSE step[c][f[in[c]]]]
                    BY <2>1, Zenon DEF Recursive
                <5> QED
                    BY <4>1, <5>1, Zenon
            <4> HIDE DEF g
            <4> QED
                BY <4>1, <4>2, <4>3, Zenon
        <3> QED
            BY <3>1, <3>2
    <2>5. g = [b \in 0..(m + 1) |-> IF b = 0 THEN base ELSE step[b][g[in[b]]]]
        <3> DEFINE R == [b \in 0..(m + 1) |-> IF b = 0 THEN base ELSE step[b][g[in[b]]]]
        <3>1. \A b \in 0..(m + 1) : R[b] = g[b]
            BY <2>4, Zenon
        <3>2. g = [b \in 0..(m + 1) |-> g[b]]
            OBVIOUS
        <3>3. R = [b \in 0..(m + 1) |-> R[b]]
            OBVIOUS
        <3> HIDE DEF g, R
        <3>4. g = R
            BY <3>1, <3>2, <3>3, Zenon
        <3> QED
            BY <3>4, Zenon DEF R
    <2> HIDE DEF g
    <2>6. Recursive(m + 1, base, step, in, g)
        BY <2>5, Zenon DEF Recursive
    <2> QED
        BY <2>3, <2>6
<1> HIDE DEF E
<1>3. Bad = {}
    <2> SUFFICES ASSUME Bad # {} PROVE FALSE
        OBVIOUS
    <2>1. PICK x \in Bad : \A y \in Bad : x <= y
        <3>1. Bad \subseteq Nat
            OBVIOUS
        <3> QED
            BY <3>1, SmallestMember
    <2>2. x \in Nat /\ x # 0 /\ x <= n
        BY <1>1
    <2>3. x - 1 \in Nat /\ E(x - 1)
        BY <2>1, <2>2
    <2>4. E((x - 1) + 1)
        BY <1>2, <2>2, <2>3
    <2>5. (x - 1) + 1 = x
        BY <2>2
    <2> QED
        BY <2>4, <2>5
<1>4. E(n)
    BY <1>3
<1> QED
    BY <1>4 DEF E

\* The scopes around each block.
Stack ==
    CHOOSE around : around =
        [b \in 0..Len(blocks) |->
            IF b = 0 THEN << FileScope >>
            ELSE Append(IF blocks[b].parent = 0
                        THEN << FileScope, ParamScope(blocks[b].function) >>
                        ELSE around[blocks[b].parent],
                        LocalScope(b))]

LEMMA ScopesIs == Scopes = Stack[parent]
BY Zenon DEF Scopes, Stack

\* What is around a block.
Outside(b) ==
    IF blocks[b].parent = 0 THEN << FileScope, ParamScope(blocks[b].function) >>
    ELSE Stack[blocks[b].parent]

ScopeSet ==
    {FileScope} \cup {ParamScope(f) : f \in 1..Len(functions)}
    \cup {LocalScope(b) : b \in 1..Len(blocks)}

LEMMA StackProperties ==
    ASSUME Typed, Nested
    PROVE  /\ Stack[0] = << FileScope >>
           /\ \A b \in 1..Len(blocks) : /\ Stack[b] = Append(Outside(b), LocalScope(b))
                                        /\ Outside(b) \in Seq(ScopeSet)
           /\ \A b \in 0..Len(blocks) : Stack[b] \in Seq(ScopeSet)
<1> DEFINE S == Seq(ScopeSet)
           n == Len(blocks)
           outside(b, s) == IF blocks[b].parent = 0
                            THEN << FileScope, ParamScope(blocks[b].function) >>
                            ELSE s
           step == [b \in 1..n |-> [s \in S |-> Append(outside(b, s), LocalScope(b))]]
           in == [b \in 1..n |-> blocks[b].parent]
           base == << FileScope >>
           Equation(f) ==
               f = [b \in 0..n |-> IF b = 0 THEN base
                                   ELSE Append(outside(b, f[blocks[b].parent]), LocalScope(b))]
<1>1. n \in Nat /\ base \in S
    BY BlockFacts DEF ScopeSet
<1>2. ASSUME NEW b \in 1..n
      PROVE  /\ blocks[b].parent \in 0..(b - 1) /\ blocks[b].parent \in 0..n
             /\ \A s \in S : outside(b, s) \in S /\ Append(outside(b, s), LocalScope(b)) \in S
    <2>1. blocks[b].parent \in 0..(b - 1) /\ blocks[b].function \in 1..Len(functions)
          /\ blocks[b].parent \in 0..n
        BY BlockFacts
    <2>2. /\ FileScope \in ScopeSet /\ ParamScope(blocks[b].function) \in ScopeSet
          /\ LocalScope(b) \in ScopeSet
        BY <2>1 DEF ScopeSet
    <2>3. PICK F, P, L : F = FileScope /\ P = ParamScope(blocks[b].function) /\ L = LocalScope(b)
        OBVIOUS
    <2>4. << F, P >> \in S
        BY <2>2, <2>3
    <2>5. \A s \in S : outside(b, s) \in S
        BY <2>3, <2>4, Zenon
    <2>6. \A s \in S : Append(s, L) \in S
        BY <2>2, <2>3, AppendTyped
    <2> QED
        BY <2>1, <2>3, <2>5, <2>6, Zenon
<1> HIDE DEF S, base
<1>3. \A b \in 1..n : step[b] \in [S -> S] /\ in[b] \in 0..(b - 1)
    <2> HIDE DEF outside
    <2> QED
        BY <1>2
<1>4. PICK f \in [0..n -> S] : Recursive(n, base, step, in, f)
    <2> HIDE DEF step, in
    <2> QED
        BY <1>1, <1>3, RecursiveExists
<1>5. Equation(f)
    <2> DEFINE R == [b \in 0..n |-> IF b = 0 THEN base ELSE step[b][f[in[b]]]]
               Q == [b \in 0..n |-> IF b = 0 THEN base
                                    ELSE Append(outside(b, f[blocks[b].parent]), LocalScope(b))]
    <2>1. f = R
        BY <1>4, Zenon DEF Recursive
    <2>2. ASSUME NEW b \in 0..n PROVE R[b] = Q[b]
        <3>1. CASE b = 0
            BY <3>1, Zenon
        <3>2. CASE b # 0
            <4>1. b \in 1..n
                BY <1>1, <3>2
            <4>2. in[b] = blocks[b].parent /\ f[blocks[b].parent] \in S
                BY <1>2, <4>1
            <4>3. step[b][f[in[b]]] = Append(outside(b, f[blocks[b].parent]), LocalScope(b))
                <5> HIDE DEF outside
                <5> QED
                    BY <4>1, <4>2, Zenon
            <4> QED
                BY <3>2, <4>3, Zenon
        <3> HIDE DEF R, Q
        <3> QED
            BY <3>1, <3>2
    <2>3. R = [b \in 0..n |-> R[b]] /\ Q = [b \in 0..n |-> Q[b]]
        <3> HIDE DEF outside, step, in
        <3> QED
            OBVIOUS
    <2> HIDE DEF R, Q
    <2>4. R = Q
        BY <2>2, <2>3, Zenon
    <2> QED
        BY <2>1, <2>4, Zenon DEF Q
<1>6. Equation(Stack)
    <2>1. Stack = CHOOSE g : Equation(g)
        BY Zenon DEF Stack, base
    <2> HIDE DEF Equation
    <2> QED
        BY <1>5, <2>1, Zenon
<1>7. /\ Stack[0] = base
      /\ \A b \in 1..n : Stack[b] = Append(Outside(b), LocalScope(b))
    <2>1. \A b \in 0..n : Stack[b] = IF b = 0 THEN base
                              ELSE Append(outside(b, Stack[blocks[b].parent]), LocalScope(b))
        BY <1>6, Zenon
    <2>2. \A b \in 1..n : b \in 0..n /\ b # 0
        BY <1>1
    <2>3. 0 \in 0..n
        BY <1>1
    <2> QED
        BY <2>1, <2>2, <2>3, Zenon DEF Outside
<1> DEFINE T == {b \in 1..n : Stack[b] \in S}
<1>8. ASSUME NEW b \in 1..n, blocks[b].parent = 0 \/ blocks[b].parent \in T
      PROVE  b \in T /\ Outside(b) \in S
    <2>1. Stack[blocks[b].parent] \in S
        BY <1>1, <1>7, <1>8, Zenon
    <2>2. outside(b, Stack[blocks[b].parent]) \in S
          /\ Append(outside(b, Stack[blocks[b].parent]), LocalScope(b)) \in S
        BY <1>2, <2>1
    <2>3. Outside(b) = outside(b, Stack[blocks[b].parent])
        BY Zenon DEF Outside
    <2> QED
        BY <1>7, <2>2, <2>3, Zenon
<1> HIDE DEF T
<1>9. 1..n \subseteq T
    BY <1>8, BlockInduction
<1>10. \A b \in 1..n : Outside(b) \in S
    <2> SUFFICES ASSUME NEW b \in 1..n PROVE Outside(b) \in S
        OBVIOUS
    <2>1. blocks[b].parent = 0 \/ blocks[b].parent \in 1..n
        <3>1. PICK p : p = blocks[b].parent
            OBVIOUS
        <3>2. p \in 0..n
            BY <1>2, <3>1, Zenon
        <3>3. p = 0 \/ p \in 1..n
            BY <1>1, <3>2
        <3> QED
            BY <3>1, <3>3
    <2> QED
        BY <1>8, <1>9, <2>1
<1>11. \A b \in 0..n : Stack[b] \in S
    <2> SUFFICES ASSUME NEW b \in 0..n PROVE Stack[b] \in S
        OBVIOUS
    <2>1. b = 0 \/ b \in 1..n
        BY <1>1
    <2> QED
        BY <1>1, <1>7, <1>9, <2>1 DEF T
<1> QED
    BY <1>7, <1>10, <1>11 DEF S, base

-----------------------------------------------------------------------------
(* What a name means in scopes around each other.                          *)

DeclaredIn(s, n) == {i \in 1..Len(s) : n \in DOMAIN s[i]}

MeaningIn(s, n) ==
    s[CHOOSE i \in DeclaredIn(s, n) : \A j \in DeclaredIn(s, n) : j <= i][n]

Value(s, n) == IF DeclaredIn(s, n) = {} THEN Nothing ELSE MeaningIn(s, n)

LEMMA ValueAppend ==
    ASSUME NEW S, NEW s \in Seq(S), NEW L \in S, NEW n
    PROVE  Value(Append(s, L), n) = IF n \in DOMAIN L THEN L[n] ELSE Value(s, n)
<1>1. PICK t, m : t = Append(s, L) /\ m = Len(s)
    OBVIOUS
<1>2. m \in Nat /\ Len(t) = m + 1 /\ t[m + 1] = L /\ \A k \in 1..m : t[k] = s[k]
    BY <1>1, AppendTyped
<1>3. CASE n \in DOMAIN L
    <2>1. m + 1 \in DeclaredIn(t, n)
        BY <1>2, <1>3 DEF DeclaredIn
    <2>2. \A i \in DeclaredIn(t, n) : i \in Nat /\ i <= m + 1
        BY <1>2 DEF DeclaredIn
    <2>3. (CHOOSE i \in DeclaredIn(t, n) : \A j \in DeclaredIn(t, n) : j <= i) = m + 1
        <3>1. \A i \in DeclaredIn(t, n) : (\A j \in DeclaredIn(t, n) : j <= i) => i = m + 1
            BY <1>2, <2>1, <2>2
        <3> QED
            BY <1>2, <2>1, <2>2, <3>1
    <2>4. MeaningIn(t, n) = L[n]
        BY <1>2, <2>3 DEF MeaningIn
    <2> QED
        BY <1>1, <1>3, <2>1, <2>4 DEF Value
<1>4. CASE n \notin DOMAIN L
    <2>1. DeclaredIn(t, n) = DeclaredIn(s, n)
        BY <1>1, <1>2, <1>4 DEF DeclaredIn
    <2>2. CASE DeclaredIn(s, n) = {}
        BY <1>1, <1>4, <2>1, <2>2 DEF Value
    <2>3. CASE DeclaredIn(s, n) # {}
        <3>1. PICK D : D = DeclaredIn(s, n)
            OBVIOUS
        <3>2. D \subseteq 1..m /\ D # {}
            BY <1>1, <2>3, <3>1 DEF DeclaredIn
        <3>3. \E i \in D : \A j \in D : j <= i
            BY <1>2, <3>2, GreatestMember
        <3>4. PICK c : c = CHOOSE i \in D : \A j \in D : j <= i
            OBVIOUS
        <3>5. c \in D
            BY <3>3, <3>4
        <3>6. t[c] = s[c]
            BY <1>2, <3>2, <3>5
        <3>7. MeaningIn(t, n) = t[c][n] /\ MeaningIn(s, n) = s[c][n]
            BY <2>1, <3>1, <3>4, Zenon DEF MeaningIn
        <3> QED
            BY <1>1, <1>4, <2>1, <2>3, <3>6, <3>7 DEF Value
    <2> QED
        BY <2>2, <2>3
<1> QED
    BY <1>3, <1>4

\* The scope of a table.
LEMMA ScopeOfFacts ==
    ASSUME NEW kind, NEW of, NEW table
    PROVE  /\ DOMAIN ScopeOf(kind, of, table) = NamesOf(table)
           /\ \A n \in NamesOf(table) :
                  ScopeOf(kind, of, table)[n] = InTable(kind, of, table, n)
BY DEF ScopeOf

LEMMA NamedIn ==
    ASSUME NEW table, NEW n
    PROVE  n \in NamesOf(table) <=> Named(table, n) # {}
BY DEF Named, NamesOf

LEMMA ValueInner ==
    ASSUME NEW S, NEW s \in Seq(S), NEW kind \in Kinds, kind # "none", NEW of \in Nat,
           NEW table, Len(table) \in Nat, ScopeOf(kind, of, table) \in S, NEW n
    PROVE  Value(Append(s, ScopeOf(kind, of, table)), n) =
               Else(InTable(kind, of, table, n), Value(s, n))
<1>1. PICK L, e : L = ScopeOf(kind, of, table) /\ e = InTable(kind, of, table, n)
    OBVIOUS
<1>2. Value(Append(s, L), n) = IF n \in DOMAIN L THEN L[n] ELSE Value(s, n)
    BY <1>1, ValueAppend
<1>3. n \in DOMAIN L <=> e # Nothing
    BY <1>1, ScopeOfFacts, NamedIn, InTableProperties
<1>4. n \in DOMAIN L => L[n] = e
    BY <1>1, ScopeOfFacts
<1> QED
    BY <1>1, <1>2, <1>3, <1>4, Zenon DEF Else

FileKinds == << "constant", "global", "function", "type" >>

LEMMA FileFacts ==
    ASSUME Typed
    PROVE  /\ \A j \in 1..4 : /\ Len(FileTables[j]) \in Nat
                              /\ FileKinds[j] \in Kinds /\ FileKinds[j] # "none"
           /\ \A n : FileEntity(n) =
                  Else(InTable(FileKinds[1], 0, FileTables[1], n),
                       Else(InTable(FileKinds[2], 0, FileTables[2], n),
                            Else(InTable(FileKinds[3], 0, FileTables[3], n),
                                 InTable(FileKinds[4], 0, FileTables[4], n))))
           /\ \A n : n \in DOMAIN FileScope <=> \E j \in 1..4 : Named(FileTables[j], n) # {}
           /\ \A n \in DOMAIN FileScope : FileScope[n] = FileEntity(n)
<1>1. /\ FileTables[1] = constants /\ FileTables[2] = globals
      /\ FileTables[3] = functions /\ FileTables[4] = types
    BY DEF FileTables
<1>2. /\ FileKinds[1] = "constant" /\ FileKinds[2] = "global"
      /\ FileKinds[3] = "function" /\ FileKinds[4] = "type"
    BY DEF FileKinds
<1>3. ASSUME NEW j \in 1..4
      PROVE  Len(FileTables[j]) \in Nat /\ FileKinds[j] \in Kinds /\ FileKinds[j] # "none"
    <2>1. j = 1 \/ j = 2 \/ j = 3 \/ j = 4
        OBVIOUS
    <2> QED
        BY <1>1, <1>2, <2>1 DEF Typed, Kinds
<1>4. ASSUME NEW n
      PROVE  FileEntity(n) =
                 Else(InTable(FileKinds[1], 0, FileTables[1], n),
                      Else(InTable(FileKinds[2], 0, FileTables[2], n),
                           Else(InTable(FileKinds[3], 0, FileTables[3], n),
                                InTable(FileKinds[4], 0, FileTables[4], n))))
    BY <1>1, <1>2, Zenon DEF FileEntity, find_constant, find_global_variable, find_function, find_type
<1>5. ASSUME NEW n
      PROVE  n \in DOMAIN FileScope <=> \E j \in 1..4 : Named(FileTables[j], n) # {}
    <2>1. DOMAIN FileScope = UNION {NamesOf(FileTables[j]) : j \in 1..4}
        BY DEF FileScope
    <2>2. n \in DOMAIN FileScope <=> \E j \in 1..4 : n \in NamesOf(FileTables[j])
        BY <2>1
    <2> QED
        BY <2>2, NamedIn
<1>6. \A n \in DOMAIN FileScope : FileScope[n] = FileEntity(n)
    BY DEF FileScope
<1> QED
    BY <1>3, <1>4, <1>5, <1>6

LEMMA FileEntityFacts ==
    ASSUME Typed, NEW n
    PROVE  n \in DOMAIN FileScope <=> FileEntity(n) # Nothing
<1>1. PICK a, b, c, d : /\ a = InTable(FileKinds[1], 0, FileTables[1], n)
                        /\ b = InTable(FileKinds[2], 0, FileTables[2], n)
                        /\ c = InTable(FileKinds[3], 0, FileTables[3], n)
                        /\ d = InTable(FileKinds[4], 0, FileTables[4], n)
    OBVIOUS
<1>2. FileEntity(n) = Else(a, Else(b, Else(c, d)))
    BY <1>1, FileFacts, Zenon
<1>3. \A j \in 1..4 : InTable(FileKinds[j], 0, FileTables[j], n) = Nothing
                      <=> Named(FileTables[j], n) = {}
    BY FileFacts, InTableProperties
<1>4. /\ a = Nothing <=> Named(FileTables[1], n) = {}
      /\ b = Nothing <=> Named(FileTables[2], n) = {}
      /\ c = Nothing <=> Named(FileTables[3], n) = {}
      /\ d = Nothing <=> Named(FileTables[4], n) = {}
    BY <1>1, <1>3
<1>5. n \in DOMAIN FileScope <=> \/ Named(FileTables[1], n) # {} \/ Named(FileTables[2], n) # {}
                                 \/ Named(FileTables[3], n) # {} \/ Named(FileTables[4], n) # {}
    <2>1. \A j \in 1..4 : j = 1 \/ j = 2 \/ j = 3 \/ j = 4
        OBVIOUS
    <2>2. 1 \in 1..4 /\ 2 \in 1..4 /\ 3 \in 1..4 /\ 4 \in 1..4
        OBVIOUS
    <2> QED
        BY <2>1, <2>2, FileFacts, Zenon
<1> QED
    BY <1>2, <1>4, <1>5, Zenon DEF Else

\* What C means by a name in a block.
Look(n, b) ==
    Else(Within(n)[b],
         Else(InTable("param", blocks[b].function, ParamsOf(blocks[b].function), n),
              FileEntity(n)))

LEMMA ValueFile ==
    ASSUME Typed, NEW n
    PROVE  Value(<< FileScope >>, n) = FileEntity(n)
<1>1. PICK F, e, S : F = FileScope /\ e = << >> /\ S = {F}
    OBVIOUS
<1>2. e \in Seq(S) /\ F \in S
    BY <1>1
<1>3. Value(Append(e, F), n) = IF n \in DOMAIN F THEN F[n] ELSE Value(e, n)
    BY <1>2, ValueAppend
<1>4. << FileScope >> = Append(e, F)
    BY <1>1
<1>5. Value(e, n) = Nothing
    BY <1>1 DEF Value, DeclaredIn
<1> QED
    BY <1>1, <1>3, <1>4, <1>5, FileFacts, FileEntityFacts

LEMMA StackMeaning ==
    ASSUME Typed, Nested, NEW n, NEW b \in 1..Len(blocks)
    PROVE  Value(Stack[b], n) = Look(n, b)
<1> DEFINE T == {c \in 1..Len(blocks) : Value(Stack[c], n) = Look(n, c)}
<1>1. ASSUME NEW c \in 1..Len(blocks), blocks[c].parent = 0 \/ blocks[c].parent \in T
      PROVE  c \in T
    <2>1. PICK p, f, L, P, e, q :
              /\ p = blocks[c].parent /\ f = blocks[c].function
              /\ L = LocalScope(c) /\ P = ParamScope(f)
              /\ e = InTable("local", c, blocks[c].locals, n)
              /\ q = InTable("param", f, ParamsOf(f), n)
        OBVIOUS
    <2>2. /\ f \in 1..Len(functions) /\ Len(blocks[c].locals) \in Nat /\ c \in Nat
          /\ f \in Nat /\ Len(ParamsOf(f)) \in Nat
        <3>1. f \in 1..Len(functions) /\ Len(blocks[c].locals) \in Nat /\ c \in Nat
            BY <2>1, BlockFacts
        <3>2. Len(functions) \in Nat /\ MAX_PARAMS \in Nat
            BY MaxParamsAssumption DEF Typed
        <3>3. Len(ParamsOf(f)) \in Nat
            BY <3>1, <3>2, ParamsOfProperties
        <3> QED
            BY <3>1, <3>2, <3>3
    <2>3. "local" \in Kinds /\ "local" # "none" /\ "param" \in Kinds /\ "param" # "none"
        BY DEF Kinds
    <2>4. Stack[c] = Append(Outside(c), L) /\ Outside(c) \in Seq(ScopeSet) /\ L \in ScopeSet
          /\ FileScope \in ScopeSet /\ P \in ScopeSet
        BY <2>1, <2>2, StackProperties DEF ScopeSet
    <2>5. Value(Stack[c], n) = Else(e, Value(Outside(c), n))
        BY <2>1, <2>2, <2>3, <2>4, ValueInner DEF LocalScope
    <2>6. Within(n)[c] = Else(e, Within(n)[p]) /\ Within(n)[0] = Nothing
        BY <2>1, WithinProperties
    <2>7. Look(n, c) = Else(Within(n)[c], Else(q, FileEntity(n)))
        BY <2>1, Zenon DEF Look
    <2>8. Value(Outside(c), n) = Else(Within(n)[p], Else(q, FileEntity(n)))
        <3>1. CASE p = 0
            <4>1. Outside(c) = Append(<< FileScope >>, P)
                <5>1. PICK F : F = FileScope
                    OBVIOUS
                <5>2. Outside(c) = << F, P >>
                    BY <2>1, <3>1, <5>1, Zenon DEF Outside
                <5> QED
                    BY <5>1, <5>2
            <4>2. << FileScope >> \in Seq(ScopeSet)
                <5>1. \A F \in ScopeSet : << F >> \in Seq(ScopeSet)
                    OBVIOUS
                <5> QED
                    BY <2>4, <5>1
            <4>3. PICK s : s = << FileScope >>
                OBVIOUS
            <4>4. P = ScopeOf("param", f, ParamsOf(f))
                BY <2>1 DEF ParamScope
            <4>5. Value(Append(s, P), n) = Else(q, Value(s, n))
                <5>1. PICK S, ps : S = ScopeSet /\ ps = ParamsOf(f)
                    OBVIOUS
                <5>2. s \in Seq(S) /\ ScopeOf("param", f, ps) \in S /\ Len(ps) \in Nat
                    BY <2>2, <2>4, <4>2, <4>3, <4>4, <5>1
                <5>3. Value(Append(s, ScopeOf("param", f, ps)), n) =
                          Else(InTable("param", f, ps, n), Value(s, n))
                    BY <2>2, <2>3, <5>2, ValueInner
                <5> QED
                    BY <2>1, <4>4, <5>1, <5>3
            <4>6. Value(Outside(c), n) = Else(q, FileEntity(n))
                BY <4>1, <4>3, <4>5, ValueFile
            <4> QED
                BY <2>6, <3>1, <4>6, Zenon DEF Else
        <3>2. CASE p # 0
            <4>1. Outside(c) = Stack[p]
                BY <2>1, <3>2, Zenon DEF Outside
            <4>2. p \in T /\ p # 0
                BY <1>1, <2>1, <3>2
            <4>3. Value(Stack[p], n) = Look(n, p)
                BY <4>2
            <4>4. blocks[p].function = f
                BY <2>1, <3>2 DEF Nested
            <4>5. Look(n, p) = Else(Within(n)[p], Else(q, FileEntity(n)))
                BY <2>1, <4>4, Zenon DEF Look
            <4> QED
                BY <4>1, <4>3, <4>5, Zenon
        <3> QED
            BY <3>1, <3>2
    <2>9. Value(Stack[c], n) = Look(n, c)
        <3>1. PICK w, h : w = Within(n)[p] /\ h = Else(q, FileEntity(n))
            OBVIOUS
        <3>2. Value(Stack[c], n) = Else(e, Else(w, h)) /\ Look(n, c) = Else(Else(e, w), h)
            BY <2>5, <2>6, <2>7, <2>8, <3>1, Zenon
        <3>3. Else(e, Else(w, h)) = Else(Else(e, w), h)
            BY Zenon DEF Else
        <3> QED
            BY <3>2, <3>3, Zenon
    <2> QED
        BY <2>9
<1> HIDE DEF T
<1>2. b \in T
    BY <1>1, BlockInduction
<1> QED
    BY <1>2 DEF T

-----------------------------------------------------------------------------
(* What a step leaves of the scopes.                                       *)

\* The same of the next state.
LEMMA StackAlways ==
    Typed /\ Nested =>
        /\ Stack[0] = << FileScope >>
        /\ \A b \in 1..Len(blocks) : /\ Stack[b] = Append(Outside(b), LocalScope(b))
                                     /\ Outside(b) \in Seq(ScopeSet)
        /\ \A b \in 0..Len(blocks) : Stack[b] \in Seq(ScopeSet)
        /\ \A b \in 1..Len(blocks) : \A n : Value(Stack[b], n) = Look(n, b)
BY StackProperties, StackMeaning

LEMMA StackNext ==
    ASSUME Typed', Nested'
    PROVE  /\ Stack'[0] = << FileScope' >>
           /\ \A b \in 1..Len(blocks') : /\ Stack'[b] = Append(Outside(b)', LocalScope(b)')
                                         /\ Outside(b)' \in Seq(ScopeSet')
           /\ \A b \in 0..Len(blocks') : Stack'[b] \in Seq(ScopeSet')
           /\ \A b \in 1..Len(blocks') : \A n : Value(Stack'[b], n) = Look(n, b)'
<1>1. (Typed /\ Nested =>
        /\ Stack[0] = << FileScope >>
        /\ \A b \in 1..Len(blocks) : /\ Stack[b] = Append(Outside(b), LocalScope(b))
                                     /\ Outside(b) \in Seq(ScopeSet)
        /\ \A b \in 0..Len(blocks) : Stack[b] \in Seq(ScopeSet)
        /\ \A b \in 1..Len(blocks) : \A n : Value(Stack[b], n) = Look(n, b))'
    BY StackAlways, PTL
<1> QED
    BY <1>1

\* Blocks and what is around them stay.
BlocksKept ==
    /\ Len(blocks) <= Len(blocks')
    /\ \A c \in 1..Len(blocks) : /\ blocks'[c].parent = blocks[c].parent
                                 /\ blocks'[c].function = blocks[c].function
    /\ FileScope' = FileScope
    /\ \A f \in 1..Len(functions) : ParamScope(f)' = ParamScope(f)

LEMMA BlocksKeptFacts ==
    ASSUME Typed, Nested, Typed', Nested', BlocksKept, NEW c \in 1..Len(blocks)
    PROVE  /\ c \in 1..Len(blocks') /\ c \in Nat
           /\ blocks[c].parent \in 0..(c - 1) /\ blocks[c].parent \in 0..Len(blocks)
           /\ blocks'[c].parent = blocks[c].parent
           /\ ParamScope(blocks[c].function)' = ParamScope(blocks[c].function)
           /\ Outside(c)' = IF blocks[c].parent = 0
                            THEN << FileScope, ParamScope(blocks[c].function) >>
                            ELSE Stack'[blocks[c].parent]
<1>1. Len(blocks) \in Nat /\ Len(blocks') \in Nat /\ Len(blocks) <= Len(blocks')
    BY DEF Typed, BlocksKept
<1>2. c \in 1..Len(blocks') /\ c \in Nat
    BY <1>1
<1>3. PICK f, p : f = blocks[c].function /\ p = blocks[c].parent
    OBVIOUS
<1>4. f \in 1..Len(functions) /\ p \in 0..(c - 1) /\ p \in 0..Len(blocks)
    BY <1>3, BlockFacts
<1>5. blocks'[c].function = f /\ blocks'[c].parent = p /\ ParamScope(f)' = ParamScope(f)
      /\ FileScope' = FileScope
    BY <1>3, <1>4 DEF BlocksKept
<1>6. ParamScope(blocks[c].function)' = ParamScope(f)
    <2>1. ParamScope(blocks[c].function)' = ParamScope(f)'
        BY <1>5, Zenon DEF ParamScope, ParamsOf
    <2> QED
        BY <1>5, <2>1
<1>7. Outside(c)' = IF p = 0 THEN << FileScope, ParamScope(f) >> ELSE Stack'[p]
    BY <1>5, <1>6, Zenon DEF Outside
<1> QED
    BY <1>2, <1>3, <1>4, <1>5, <1>6, <1>7

\* As long as no block up to one gets a variable its scopes are the same.
LEMMA StackKept ==
    ASSUME Typed, Nested, Typed', Nested', BlocksKept, NEW b \in 0..Len(blocks),
           \A c \in 1..Len(blocks) : c <= b => blocks'[c].locals = blocks[c].locals
    PROVE  Stack'[b] = Stack[b]
<1> DEFINE T == {c \in 1..Len(blocks) : c <= b => Stack'[c] = Stack[c]}
<1>1. ASSUME NEW c \in 1..Len(blocks), blocks[c].parent = 0 \/ blocks[c].parent \in T
      PROVE  c \in T
    <2> SUFFICES ASSUME c <= b PROVE Stack'[c] = Stack[c]
        OBVIOUS
    <2>1. PICK p : p = blocks[c].parent
        OBVIOUS
    <2>2. p \in 0..(c - 1) /\ c \in Nat /\ c \in 1..Len(blocks') /\ b \in Nat
        <3>1. b \in Nat
            BY BlockFacts
        <3> QED
            BY <2>1, <3>1, BlocksKeptFacts
    <2>3. p # 0 => Stack'[p] = Stack[p]
        BY <1>1, <2>1, <2>2
    <2>4. Outside(c)' = Outside(c)
        <3>1. Outside(c) = IF p = 0 THEN << FileScope, ParamScope(blocks[c].function) >>
                           ELSE Stack[p]
            BY <2>1, Zenon DEF Outside
        <3>2. Outside(c)' = IF p = 0 THEN << FileScope, ParamScope(blocks[c].function) >>
                            ELSE Stack'[p]
            BY <2>1, BlocksKeptFacts
        <3>3. CASE p = 0
            BY <3>1, <3>2, <3>3
        <3>4. CASE p # 0
            BY <2>3, <3>1, <3>2, <3>4
        <3> QED
            BY <3>3, <3>4
    <2>5. LocalScope(c)' = LocalScope(c)
        <3>1. blocks'[c].locals = blocks[c].locals
            OBVIOUS
        <3> QED
            BY <3>1, Zenon DEF LocalScope, ScopeOf, InTable, Named
    <2>6. Stack'[c] = Append(Outside(c)', LocalScope(c)')
        BY <2>2, StackNext
    <2>7. Stack[c] = Append(Outside(c), LocalScope(c))
        BY StackProperties
    <2> QED
        BY <2>4, <2>5, <2>6, <2>7, Zenon
<1> HIDE DEF T
<1>2. CASE b = 0
    <2>1. Stack'[0] = << FileScope' >> /\ Stack[0] = << FileScope >>
        BY StackNext, StackProperties
    <2> QED
        BY <1>2, <2>1, Zenon DEF BlocksKept
<1>3. CASE b # 0
    <2>1. b \in 1..Len(blocks) /\ b <= b
        BY <1>3, BlockFacts
    <2>2. 1..Len(blocks) \subseteq T
        BY <1>1, BlockInduction
    <2> QED
        BY <2>1, <2>2 DEF T
<1> QED
    BY <1>2, <1>3

\* What is around a block is the same, as long as none before it changes.
LEMMA OutsideKept ==
    ASSUME Typed, Nested, Typed', Nested', BlocksKept, NEW b \in 1..Len(blocks),
           \A c \in 1..Len(blocks) : c < b => blocks'[c].locals = blocks[c].locals
    PROVE  Outside(b)' = Outside(b)
<1>1. PICK p : p = blocks[b].parent
    OBVIOUS
<1>2. p \in 0..(b - 1) /\ p \in 0..Len(blocks) /\ b \in Nat
    BY <1>1, BlocksKeptFacts
<1>3. \A c \in 1..Len(blocks) : c <= p => blocks'[c].locals = blocks[c].locals
    <2> SUFFICES ASSUME NEW c \in 1..Len(blocks), c <= p
                 PROVE  blocks'[c].locals = blocks[c].locals
        OBVIOUS
    <2>1. c < b
        BY <1>2, BlockFacts
    <2> QED
        BY <2>1
<1>4. Stack'[p] = Stack[p]
    BY <1>2, <1>3, StackKept
<1>5. Outside(b)' = IF p = 0 THEN << FileScope, ParamScope(blocks[b].function) >>
                    ELSE Stack'[p]
    BY <1>1, BlocksKeptFacts
<1> QED
    BY <1>1, <1>4, <1>5, Zenon DEF Outside

\* File scope, the parameters and the body are three scopes.
LEMMA StackLength ==
    ASSUME Typed, Nested, NEW b \in 1..Len(blocks)
    PROVE  /\ Len(Outside(b)) \in Nat /\ Len(Stack[b]) = Len(Outside(b)) + 1
           /\ IF blocks[b].parent = 0 THEN Len(Outside(b)) = 2 ELSE Len(Outside(b)) > 2
<1> DEFINE Long(c) == /\ Len(Outside(c)) \in Nat /\ Len(Stack[c]) = Len(Outside(c)) + 1
                      /\ IF blocks[c].parent = 0 THEN Len(Outside(c)) = 2 ELSE Len(Outside(c)) > 2
           T == {c \in 1..Len(blocks) : Long(c)}
<1>1. ASSUME NEW c \in 1..Len(blocks), blocks[c].parent = 0 \/ blocks[c].parent \in T
      PROVE  c \in T
    <2>1. PICK S, s, L : S = ScopeSet /\ s = Outside(c) /\ L = LocalScope(c)
        OBVIOUS
    <2>2. s \in Seq(S) /\ L \in S /\ Stack[c] = Append(s, L)
        BY <2>1, StackProperties DEF ScopeSet
    <2>3. Len(s) \in Nat /\ Len(Stack[c]) = Len(s) + 1
        BY <2>2, AppendTyped
    <2>4. CASE blocks[c].parent = 0
        <3>1. PICK F, P : F = FileScope /\ P = ParamScope(blocks[c].function)
            OBVIOUS
        <3>2. s = << F, P >>
            BY <2>1, <2>4, <3>1, Zenon DEF Outside
        <3>3. Len(s) = 2
            BY <3>2
        <3> QED
            BY <2>1, <2>3, <2>4, <3>3
    <2>5. CASE blocks[c].parent # 0
        <3>1. PICK p : p = blocks[c].parent
            OBVIOUS
        <3>2. s = Stack[p]
            BY <2>1, <2>5, <3>1, Zenon DEF Outside
        <3>3. Long(p)
            BY <1>1, <2>5, <3>1
        <3>4. Len(s) > 2
            <4>1. PICK m : m = Len(Outside(p))
                OBVIOUS
            <4>2. m \in Nat /\ Len(s) = m + 1 /\ m >= 2
                BY <3>2, <3>3, <4>1
            <4> QED
                BY <4>2
        <3> QED
            BY <2>1, <2>3, <2>5, <3>4
    <2> QED
        BY <2>4, <2>5
<1> HIDE DEF T
<1>2. 1..Len(blocks) \subseteq T
    BY <1>1, BlockInduction
<1> QED
    BY <1>2 DEF T

-----------------------------------------------------------------------------
(* File scope.                                                             *)

\* What the names of a supported program keep apart.
Apart ==
    /\ \A j, k \in 1..4 : j # k => NamesOf(FileTables[j]) \cap NamesOf(FileTables[k]) = {}
    /\ \A b \in 1..Len(blocks) :
           /\ Distinct(blocks[b].locals)
           /\ \A j \in 1..4 :
                  NamesOf(FileTables[j])
                  \cap (NamesOf(blocks[b].locals) \cup NamesOf(ParamsOf(blocks[b].function))) = {}

LEMMA SupportedIsApart == Supported => Apart
BY Zenon DEF Supported, Apart

LEMMA InitApart == Init => Apart
<1> SUFFICES ASSUME Init PROVE Apart
    OBVIOUS
<1>1. /\ FileTables[1] = constants /\ FileTables[2] = globals
      /\ FileTables[3] = functions /\ FileTables[4] = types
    BY DEF FileTables
<1>2. NamesOf(constants) = {} /\ NamesOf(globals) = {}
    BY DEF Init, NamesOf
<1>3. NamesOf(functions) = {"__syscall"}
    <2>1. PICK f : f = [NewFunction("__syscall") EXCEPT !.entry = 5, !.exit = 7]
        OBVIOUS
    <2>2. f.name = "__syscall"
        BY <2>1 DEF NewFunction
    <2>3. functions = << f >>
        BY <2>1 DEF Init
    <2> QED
        BY <2>2, <2>3 DEF NamesOf
<1>4. NamesOf(types) = {"void", "char", "int"}
    <2>1. PICK v, c, i : v = BuiltIn("void", 0) /\ c = BuiltIn("char", 1) /\ i = BuiltIn("int", 4)
        OBVIOUS
    <2>2. v.name = "void" /\ c.name = "char" /\ i.name = "int"
        BY <2>1 DEF BuiltIn
    <2>3. types = << v, c, i >>
        BY <2>1 DEF Init
    <2>4. Len(types) = 3 /\ types[1] = v /\ types[2] = c /\ types[3] = i
        BY <2>3
    <2>5. \A k \in 1..3 : k = 1 \/ k = 2 \/ k = 3
        OBVIOUS
    <2>6. 1 \in 1..3 /\ 2 \in 1..3 /\ 3 \in 1..3
        OBVIOUS
    <2> QED
        BY <2>2, <2>4, <2>5, <2>6 DEF NamesOf
<1>5. \A j \in 1..4 : j = 1 \/ j = 2 \/ j = 3 \/ j = 4
    OBVIOUS
<1>6. Len(blocks) = 0
    BY DEF Init
<1>7. \A j, k \in 1..4 : j # k => NamesOf(FileTables[j]) \cap NamesOf(FileTables[k]) = {}
    BY <1>1, <1>2, <1>3, <1>4, <1>5
<1> QED
    BY <1>6, <1>7 DEF Apart

\* A name of file scope is in one table.
LEMMA FileEntityIs ==
    ASSUME Typed, Apart, NEW j \in 1..4, NEW n, Named(FileTables[j], n) # {}
    PROVE  /\ FileEntity(n) = InTable(FileKinds[j], 0, FileTables[j], n)
           /\ n \in DOMAIN FileScope
           /\ \A i \in 1..4 : i # j => Named(FileTables[i], n) = {}
<1>1. PICK a, b, c, d : /\ a = InTable(FileKinds[1], 0, FileTables[1], n)
                        /\ b = InTable(FileKinds[2], 0, FileTables[2], n)
                        /\ c = InTable(FileKinds[3], 0, FileTables[3], n)
                        /\ d = InTable(FileKinds[4], 0, FileTables[4], n)
    OBVIOUS
<1>2. FileEntity(n) = Else(a, Else(b, Else(c, d)))
    BY <1>1, FileFacts, Zenon
<1>3. \A i \in 1..4 : i # j => Named(FileTables[i], n) = {}
    <2> SUFFICES ASSUME NEW i \in 1..4, i # j PROVE Named(FileTables[i], n) = {}
        OBVIOUS
    <2>1. NamesOf(FileTables[i]) \cap NamesOf(FileTables[j]) = {}
        BY Zenon DEF Apart
    <2> QED
        BY <2>1, NotNamed
<1>4. \A i \in 1..4 : i # j => InTable(FileKinds[i], 0, FileTables[i], n) = Nothing
    BY <1>3, Zenon DEF InTable
<1>5. 1 \in 1..4 /\ 2 \in 1..4 /\ 3 \in 1..4 /\ 4 \in 1..4
    OBVIOUS
<1>6. n \in DOMAIN FileScope
    BY FileFacts
<1>7. j = 1 \/ j = 2 \/ j = 3 \/ j = 4
    OBVIOUS
<1>8. CASE j = 1
    <2>1. b = Nothing /\ c = Nothing /\ d = Nothing
        BY <1>1, <1>4, <1>5, <1>8
    <2> QED
        BY <1>1, <1>2, <1>3, <1>6, <1>8, <2>1 DEF Else
<1>9. CASE j = 2
    <2>1. a = Nothing /\ c = Nothing /\ d = Nothing
        BY <1>1, <1>4, <1>5, <1>9
    <2> QED
        BY <1>1, <1>2, <1>3, <1>6, <1>9, <2>1 DEF Else
<1>10. CASE j = 3
    <2>1. a = Nothing /\ b = Nothing /\ d = Nothing
        BY <1>1, <1>4, <1>5, <1>10
    <2> QED
        BY <1>1, <1>2, <1>3, <1>6, <1>10, <2>1 DEF Else
<1>11. CASE j = 4
    <2>1. a = Nothing /\ b = Nothing /\ c = Nothing
        BY <1>1, <1>4, <1>5, <1>11
    <2> QED
        BY <1>1, <1>2, <1>3, <1>6, <1>11, <2>1 DEF Else
<1> QED
    BY <1>7, <1>8, <1>9, <1>10, <1>11

\* A scope that only grows by new names for new entities.
GrowsTo(F, H, known) ==
    /\ \A n \in DOMAIN F : n \in DOMAIN H /\ H[n] = F[n]
    /\ \A n \in DOMAIN H \ DOMAIN F : H[n] \notin known
    /\ \A m, n \in DOMAIN H \ DOMAIN F : H[m] = H[n] => m = n

LEMMA FileAlways ==
    Typed /\ Apart =>
        /\ \A j \in 1..4 : Len(FileTables[j]) \in Nat
        /\ \A n : n \in DOMAIN FileScope <=> \E j \in 1..4 : Named(FileTables[j], n) # {}
        /\ \A n \in DOMAIN FileScope : FileScope[n] = FileEntity(n)
        /\ \A j \in 1..4 : \A n :
               Named(FileTables[j], n) # {} =>
                   FileEntity(n) = InTable(FileKinds[j], 0, FileTables[j], n)
BY FileFacts, FileEntityIs

LEMMA FileNext ==
    ASSUME Typed', Apart'
    PROVE  /\ \A j \in 1..4 : Len(FileTables'[j]) \in Nat
           /\ \A n : n \in DOMAIN FileScope' <=> \E j \in 1..4 : Named(FileTables'[j], n) # {}
           /\ \A n \in DOMAIN FileScope' : FileScope'[n] = FileEntity(n)'
           /\ \A j \in 1..4 : \A n :
                  Named(FileTables'[j], n) # {} =>
                      FileEntity(n)' = InTable(FileKinds[j], 0, FileTables'[j], n)
<1>1. (Typed /\ Apart =>
        /\ \A j \in 1..4 : Len(FileTables[j]) \in Nat
        /\ \A n : n \in DOMAIN FileScope <=> \E j \in 1..4 : Named(FileTables[j], n) # {}
        /\ \A n \in DOMAIN FileScope : FileScope[n] = FileEntity(n)
        /\ \A j \in 1..4 : \A n :
               Named(FileTables[j], n) # {} =>
                   FileEntity(n) = InTable(FileKinds[j], 0, FileTables[j], n))'
    BY FileAlways, PTL
<1>2. \A j : FileKinds'[j] = FileKinds[j]
    BY DEF FileKinds
<1> QED
    BY <1>1, <1>2

LEMMA InTableNamed ==
    ASSUME NEW kind \in Kinds, kind # "none", NEW table, Len(table) \in Nat, NEW n,
           Named(table, n) # {}, NEW e, e = InTable(kind, 0, table, n)
    PROVE  /\ e # Nothing /\ e.kind = kind /\ e.of = 0
           /\ e.k \in 1..Len(table) /\ table[e.k].name = n
<1>1. PICK of : of \in Nat /\ of = 0
    OBVIOUS
<1>2. PICK x : x = InTable(kind, of, table, n)
    OBVIOUS
<1>3. x # Nothing
    BY <1>1, <1>2, InTableProperties
<1>4. /\ x.kind = kind /\ x.of = of /\ x.k \in 1..Len(table) /\ table[x.k].name = n
    BY <1>1, <1>2, <1>3, InTableProperties
<1> QED
    BY <1>1, <1>2, <1>3, <1>4

LEMMA LocalStable ==
    ASSUME NEW of \in Nat, NEW table, Len(table) \in Nat, NEW n,
           NEW longer, Len(longer) \in Nat, Len(table) <= Len(longer),
           \A k \in 1..Len(table) : longer[k].name = table[k].name,
           NEW e, e = InTable("local", of, table, n), e # Nothing
    PROVE  InTable("local", of, longer, n) = e
<1>1. PICK kind : kind = "local"
    OBVIOUS
<1>2. kind \in Kinds /\ kind # "none" /\ InTable(kind, of, table, n) # Nothing
    BY <1>1 DEF Kinds
<1>3. InTable(kind, of, longer, n) = InTable(kind, of, table, n)
    BY <1>2, InTableStable
<1> QED
    BY <1>1, <1>3

LEMMA FileGrows ==
    ASSUME Typed, Apart, Typed', Apart',
           \A j \in 1..4 : Grown(FileTables[j], FileTables'[j])
    PROVE  GrowsTo(FileScope, FileScope', {FileScope[n] : n \in DOMAIN FileScope})
<1> DEFINE F == FileScope
           H == FileScope'
           T(j) == FileTables[j]
           U(j) == FileTables'[j]
<1>1. ASSUME NEW j \in 1..4
      PROVE  /\ Len(T(j)) \in Nat /\ Len(U(j)) \in Nat /\ Len(T(j)) <= Len(U(j))
             /\ \A k \in 1..Len(T(j)) : U(j)[k].name = T(j)[k].name
             /\ FileKinds[j] \in Kinds /\ FileKinds[j] # "none"
    BY FileFacts DEF Grown
<1>2. \A i, j \in 1..4 : FileKinds[i] = FileKinds[j] => i = j
    <2>1. \A j \in 1..4 : j = 1 \/ j = 2 \/ j = 3 \/ j = 4
        OBVIOUS
    <2>2. /\ FileKinds[1] = "constant" /\ FileKinds[2] = "global"
          /\ FileKinds[3] = "function" /\ FileKinds[4] = "type"
        BY DEF FileKinds
    <2> QED
        BY <2>1, <2>2
<1>3. ASSUME NEW n \in DOMAIN F
      PROVE  \E j \in 1..4 : /\ Named(T(j), n) # {} /\ F[n] = InTable(FileKinds[j], 0, T(j), n)
                             /\ F[n].kind = FileKinds[j] /\ F[n].k \in 1..Len(T(j))
                             /\ F[n] # Nothing
    <2>1. PICK j \in 1..4 : Named(T(j), n) # {}
        BY FileFacts
    <2>2. F[n] = InTable(FileKinds[j], 0, T(j), n)
        BY <2>1, FileAlways
    <2>3. F[n].kind = FileKinds[j] /\ F[n].k \in 1..Len(T(j)) /\ F[n] # Nothing
        <3>1. PICK t, kd, e : t = T(j) /\ kd = FileKinds[j] /\ e = F[n]
            OBVIOUS
        <3>2. kd \in Kinds /\ kd # "none" /\ Len(t) \in Nat /\ Named(t, n) # {} /\ 0 \in Nat
            BY <1>1, <2>1, <3>1
        <3>3. e = InTable(kd, 0, t, n)
            BY <2>2, <3>1
        <3>4. e.kind = kd /\ e.k \in 1..Len(t) /\ e # Nothing
            BY <3>2, <3>3, InTableNamed
        <3> QED
            BY <3>1, <3>4
    <2> QED
        BY <2>1, <2>2, <2>3
<1>4. ASSUME NEW n \in DOMAIN H
      PROVE  \E j \in 1..4 : /\ Named(U(j), n) # {} /\ H[n] = InTable(FileKinds[j], 0, U(j), n)
                             /\ H[n].kind = FileKinds[j] /\ H[n].k \in 1..Len(U(j))
                             /\ U(j)[H[n].k].name = n
    <2>1. PICK j \in 1..4 : Named(U(j), n) # {}
        BY FileNext
    <2>2. H[n] = InTable(FileKinds[j], 0, U(j), n)
        BY <2>1, FileNext
    <2>3. H[n].kind = FileKinds[j] /\ H[n].k \in 1..Len(U(j)) /\ U(j)[H[n].k].name = n
        <3>1. PICK u, kd, e : u = U(j) /\ kd = FileKinds[j] /\ e = H[n]
            OBVIOUS
        <3>2. kd \in Kinds /\ kd # "none" /\ Len(u) \in Nat /\ Named(u, n) # {} /\ 0 \in Nat
            BY <1>1, <2>1, <3>1
        <3>3. e = InTable(kd, 0, u, n)
            BY <2>2, <3>1
        <3>5. e.kind = kd /\ e.k \in 1..Len(u) /\ u[e.k].name = n
            BY <3>2, <3>3, InTableNamed
        <3> QED
            BY <3>1, <3>5
    <2> QED
        BY <2>1, <2>2, <2>3
<1>5. ASSUME NEW n \in DOMAIN F
      PROVE  n \in DOMAIN H /\ H[n] = F[n]
    <2>1. PICK j \in 1..4 : /\ Named(T(j), n) # {} /\ F[n] = InTable(FileKinds[j], 0, T(j), n)
                            /\ F[n] # Nothing
        BY <1>3
    <2>2. InTable(FileKinds[j], 0, U(j), n) = F[n]
        <3>1. PICK t, u, kd, e : t = T(j) /\ u = U(j) /\ kd = FileKinds[j] /\ e = F[n]
            OBVIOUS
        <3>2. /\ kd \in Kinds /\ kd # "none" /\ Len(t) \in Nat /\ Len(u) \in Nat
              /\ Len(t) <= Len(u) /\ \A k \in 1..Len(t) : u[k].name = t[k].name
              /\ 0 \in Nat
            BY <1>1, <3>1
        <3>3. e = InTable(kd, 0, t, n) /\ e # Nothing
            BY <2>1, <3>1
        <3>4. InTable(kd, 0, u, n) = e
            BY <3>2, <3>3, InTableStable
        <3> QED
            BY <3>1, <3>4
    <2>3. Named(U(j), n) # {}
        BY <2>1, <2>2, Zenon DEF InTable
    <2> QED
        BY <2>2, <2>3, FileNext
<1>6. ASSUME NEW n \in DOMAIN H \ DOMAIN F, NEW j \in 1..4, H[n].kind = FileKinds[j]
      PROVE  /\ H[n].k \in Nat /\ H[n].k > Len(T(j)) /\ U(j)[H[n].k].name = n
    <2>1. /\ H[n].k \in 1..Len(U(j)) /\ U(j)[H[n].k].name = n
        BY <1>2, <1>4, <1>6
    <2>2. Named(T(j), n) = {}
        BY FileFacts
    <2>3. H[n].k \notin 1..Len(T(j))
        <3> SUFFICES ASSUME H[n].k \in 1..Len(T(j)) PROVE FALSE
            OBVIOUS
        <3>1. T(j)[H[n].k].name = n
            BY <1>1, <2>1
        <3> QED
            BY <2>2, <3>1 DEF Named
    <2>4. PICK k : k = H[n].k
        OBVIOUS
    <2> QED
        BY <1>1, <2>1, <2>3, <2>4
<1> HIDE DEF F, H, T, U
<1>7. ASSUME NEW n \in DOMAIN H \ DOMAIN F, NEW m \in DOMAIN F, H[n] = F[m]
      PROVE  FALSE
    <2>1. PICK j \in 1..4 : F[m].kind = FileKinds[j] /\ F[m].k \in 1..Len(T(j))
        BY <1>3
    <2>2. H[n].k > Len(T(j))
        BY <1>6, <1>7, <2>1
    <2> QED
        BY <1>1, <1>7, <2>1, <2>2
<1>8. ASSUME NEW m \in DOMAIN H \ DOMAIN F, NEW n \in DOMAIN H \ DOMAIN F, H[m] = H[n]
      PROVE  m = n
    <2>1. PICK j \in 1..4 : H[m].kind = FileKinds[j]
        BY <1>4
    <2> QED
        BY <1>6, <1>8, <2>1
<1> QED
    BY <1>5, <1>7, <1>8 DEF GrowsTo, F, H

\* It only has the names of its tables.
LEMMA FileScopeKept ==
    ASSUME UNCHANGED <<constants, globals, types>>, Len(functions') = Len(functions),
           \A k \in 1..Len(functions) : functions'[k].name = functions[k].name
    PROVE  FileScope' = FileScope
<1>1. ASSUME NEW n
      PROVE  FileEntity(n)' = FileEntity(n)
    <2>1. Named(functions', n) = Named(functions, n)
        BY DEF Named
    <2>2. find_function(n)' = find_function(n)
        BY <2>1, Zenon DEF find_function, InTable
    <2>3. /\ find_constant(n)' = find_constant(n) /\ find_type(n)' = find_type(n)
          /\ find_global_variable(n)' = find_global_variable(n)
        BY Zenon DEF find_constant, find_type, find_global_variable
    <2> QED
        BY <2>2, <2>3, Zenon DEF FileEntity
<1>2. ASSUME NEW j \in 1..4
      PROVE  NamesOf(FileTables[j])' = NamesOf(FileTables[j])
    <2>1. j = 1 \/ j = 2 \/ j = 3 \/ j = 4
        OBVIOUS
    <2>2. /\ FileTables[1] = constants /\ FileTables[2] = globals
          /\ FileTables[3] = functions /\ FileTables[4] = types
          /\ FileTables'[1] = constants' /\ FileTables'[2] = globals'
          /\ FileTables'[3] = functions' /\ FileTables'[4] = types'
        BY DEF FileTables
    <2>3. NamesOf(functions') = NamesOf(functions)
        BY DEF NamesOf
    <2>4. NamesOf(FileTables'[j]) = NamesOf(FileTables[j])
        BY <2>1, <2>2, <2>3
    <2> QED
        BY <2>4 DEF NamesOf
<1>3. UNION {NamesOf(FileTables[j])' : j \in 1..4} = UNION {NamesOf(FileTables[j]) : j \in 1..4}
    BY <1>2
<1> QED
    BY <1>1, <1>3 DEF FileScope

LEMMA ParamScopesKept ==
    ASSUME SameParameters, NEW f \in 1..Len(functions)
    PROVE  ParamScope(f)' = ParamScope(f)
<1>1. ParamsOf(f)' = ParamsOf(f)
    BY Zenon DEF SameParameters, ParamsOf
<1> QED
    BY <1>1, Zenon DEF ParamScope, ScopeOf, NamesOf, InTable, Named

-----------------------------------------------------------------------------
(* The uses so far.                                                        *)

Found ==
    CHOOSE found : found =
        [i \in 0..Len(il) |->
            IF i = 0 THEN << >>
            ELSE IF il[i].found = Nothing THEN found[i - 1]
            ELSE Append(found[i - 1], il[i].found)]

LEMMA UsesIs == Uses = Found[Len(il)]
BY Zenon DEF Uses, Found

LEMMA FoundProperties ==
    ASSUME Typed
    PROVE  /\ Found[0] = << >>
           /\ \A i \in 1..Len(il) :
                  Found[i] = IF il[i].found = Nothing THEN Found[i - 1]
                             ELSE Append(Found[i - 1], il[i].found)
<1> DEFINE S == Seq(Entities)
           n == Len(il)
           taken(i, s) == IF il[i].found = Nothing THEN s ELSE Append(s, il[i].found)
           step == [i \in 1..n |-> [s \in S |-> taken(i, s)]]
           in == [i \in 1..n |-> i - 1]
           base == << >>
           Equation(f) == f = [i \in 0..n |-> IF i = 0 THEN base ELSE taken(i, f[i - 1])]
<1>1. n \in Nat /\ base \in S
    BY DEF Typed
<1>2. ASSUME NEW i \in 1..n
      PROVE  /\ i - 1 \in 0..(i - 1) /\ i - 1 \in 0..n
             /\ \A s \in S : taken(i, s) \in S
    <2>1. il[i].found \in Entities
        <3>1. il[i] \in Instruction
            BY ElementTyped DEF Typed
        <3> QED
            BY <3>1 DEF Instruction
    <2>2. \A s \in S : Append(s, il[i].found) \in S
        BY <2>1, AppendTyped
    <2>3. i - 1 \in 0..(i - 1) /\ i - 1 \in 0..n
        BY <1>1
    <2> QED
        BY <2>2, <2>3, Zenon
<1> HIDE DEF S, base
<1>3. \A i \in 1..n : step[i] \in [S -> S] /\ in[i] \in 0..(i - 1)
    <2> HIDE DEF taken
    <2> QED
        BY <1>2
<1>4. PICK f \in [0..n -> S] : Recursive(n, base, step, in, f)
    <2> HIDE DEF step, in
    <2> QED
        BY <1>1, <1>3, RecursiveExists
<1>5. Equation(f)
    <2> DEFINE R == [i \in 0..n |-> IF i = 0 THEN base ELSE step[i][f[in[i]]]]
               Q == [i \in 0..n |-> IF i = 0 THEN base ELSE taken(i, f[i - 1])]
    <2>1. f = R
        BY <1>4, Zenon DEF Recursive
    <2>2. ASSUME NEW i \in 0..n PROVE R[i] = Q[i]
        <3>1. CASE i = 0
            BY <3>1, Zenon
        <3>2. CASE i # 0
            <4>1. i \in 1..n
                BY <1>1, <3>2
            <4>2. in[i] = i - 1 /\ f[i - 1] \in S
                BY <1>2, <4>1
            <4>3. step[i][f[in[i]]] = taken(i, f[i - 1])
                <5> HIDE DEF taken
                <5> QED
                    BY <4>1, <4>2, Zenon
            <4> QED
                BY <3>2, <4>3, Zenon
        <3> HIDE DEF R, Q
        <3> QED
            BY <3>1, <3>2
    <2>3. R = [i \in 0..n |-> R[i]] /\ Q = [i \in 0..n |-> Q[i]]
        <3> HIDE DEF taken, step, in
        <3> QED
            OBVIOUS
    <2> HIDE DEF R, Q
    <2>4. R = Q
        BY <2>2, <2>3, Zenon
    <2> QED
        BY <2>1, <2>4, Zenon DEF Q
<1>6. Equation(Found)
    <2>1. Found = CHOOSE g : Equation(g)
        BY Zenon DEF Found, base
    <2> HIDE DEF Equation
    <2> QED
        BY <1>5, <2>1, Zenon
<1>7. \A i \in 0..n : Found[i] = IF i = 0 THEN base ELSE taken(i, Found[i - 1])
    BY <1>6, Zenon
<1>8. \A i \in 1..n : i \in 0..n /\ i # 0
    BY <1>1
<1>9. 0 \in 0..n
    BY <1>1
<1> QED
    BY <1>7, <1>8, <1>9, Zenon DEF base

LEMMA FoundAlways ==
    Typed =>
        /\ Found[0] = << >>
        /\ \A i \in 1..Len(il) :
               Found[i] = IF il[i].found = Nothing THEN Found[i - 1]
                          ELSE Append(Found[i - 1], il[i].found)
BY FoundProperties

LEMMA FoundNext ==
    ASSUME Typed'
    PROVE  /\ Found'[0] = << >>
           /\ \A i \in 1..Len(il') :
                  Found'[i] = IF il'[i].found = Nothing THEN Found'[i - 1]
                              ELSE Append(Found'[i - 1], il'[i].found)
<1>1. (Typed =>
        /\ Found[0] = << >>
        /\ \A i \in 1..Len(il) :
               Found[i] = IF il[i].found = Nothing THEN Found[i - 1]
                          ELSE Append(Found[i - 1], il[i].found))'
    BY FoundAlways, PTL
<1>2. Nothing' = Nothing
    BY DEF Nothing
<1> QED
    BY <1>1, <1>2

LEMMA FoundKept ==
    ASSUME Typed, Typed', CodeKept, NEW i \in 0..Len(il)
    PROVE  Found'[i] = Found[i]
<1> DEFINE Bad == {j \in 0..Len(il) : Found'[j] # Found[j]}
<1> SUFFICES ASSUME Bad # {} PROVE FALSE
    OBVIOUS
<1>1. Len(il) \in Nat /\ Len(il') \in Nat /\ Len(il) <= Len(il')
    BY DEF CodeKept
<1>2. PICK x \in Bad : \A y \in Bad : x <= y
    <2>1. Bad \subseteq Nat
        BY <1>1
    <2> QED
        BY <2>1, SmallestMember
<1>3. x \in Nat /\ x <= Len(il) /\ Found'[x] # Found[x]
    BY <1>1, <1>2
<1>4. Found'[0] = << >> /\ Found[0] = << >>
    BY FoundNext, FoundProperties
<1>5. x # 0
    BY <1>3, <1>4
<1>6. x \in 1..Len(il) /\ x \in 1..Len(il') /\ x - 1 \in 0..Len(il) /\ ~(x <= x - 1)
    BY <1>1, <1>3, <1>5
<1>7. Found'[x - 1] = Found[x - 1]
    BY <1>2, <1>6
<1>8. il'[x] = il[x]
    BY <1>6 DEF CodeKept
<1>9. Found[x] = IF il[x].found = Nothing THEN Found[x - 1]
                 ELSE Append(Found[x - 1], il[x].found)
    BY <1>6, FoundProperties
<1>10. Found'[x] = IF il'[x].found = Nothing THEN Found'[x - 1]
                   ELSE Append(Found'[x - 1], il'[x].found)
    BY <1>6, FoundNext
<1> QED
    BY <1>3, <1>7, <1>8, <1>9, <1>10

LEMMA UsesNext == Uses' = Found'[Len(il')]
<1>1. (Uses = Found[Len(il)])'
    BY UsesIs, PTL
<1> QED
    BY <1>1

LEMMA NoUse ==
    ASSUME Typed, Typed', UNCHANGED il
    PROVE  Uses' = Uses
<1>1. Len(il) \in Nat /\ Len(il) \in 0..Len(il) /\ CodeKept
    BY DEF Typed, CodeKept
<1>2. Found'[Len(il)] = Found[Len(il)]
    BY <1>1, FoundKept
<1>3. Uses' = Found'[Len(il')]
    BY UsesNext
<1> QED
    BY <1>2, <1>3, UsesIs

LEMMA OneUse ==
    ASSUME Typed, Typed', NEW u \in Instruction, il' = Append(il, u)
    PROVE  Uses' = IF u.found = Nothing THEN Uses ELSE Append(Uses, u.found)
<1>1. PICK n : n = Len(il)
    OBVIOUS
<1>2. n \in Nat /\ Len(il') = n + 1 /\ il'[n + 1] = u /\ \A k \in 1..n : il'[k] = il[k]
    BY <1>1, CodeAppended DEF Typed
<1>3. CodeKept
    BY <1>1, <1>2 DEF CodeKept
<1>4. n \in 0..Len(il) /\ n + 1 \in 1..Len(il') /\ (n + 1) - 1 = n
    BY <1>1, <1>2
<1>5. Found'[n] = Found[n]
    BY <1>3, <1>4, FoundKept
<1>6. Found'[n + 1] = IF il'[n + 1].found = Nothing THEN Found'[n + 1 - 1]
                      ELSE Append(Found'[n + 1 - 1], il'[n + 1].found)
    BY <1>4, FoundNext
<1>7. Found'[n + 1] = IF u.found = Nothing THEN Found[n] ELSE Append(Found[n], u.found)
    BY <1>2, <1>4, <1>5, <1>6
<1>8. Uses' = Found'[Len(il')]
    BY UsesNext
<1> QED
    BY <1>1, <1>2, <1>7, <1>8, UsesIs

LEMMA TwoPlain ==
    ASSUME Typed, Typed', NEW u \in Instruction, NEW w \in Instruction,
           il' = il \o << u, w >>, u.found = Nothing, w.found = Nothing
    PROVE  Uses' = Uses
<1>1. PICK n : n = Len(il)
    OBVIOUS
<1>2. /\ n \in Nat /\ Len(il') = n + 2 /\ il'[n + 1] = u /\ il'[n + 2] = w
      /\ \A k \in 1..n : il'[k] = il[k]
    BY <1>1, CodeAppendedTwice, SMTT(30) DEF Typed
<1>3. CodeKept
    BY <1>1, <1>2 DEF CodeKept
<1>4. /\ n \in 0..Len(il) /\ n + 1 \in 1..Len(il') /\ (n + 1) - 1 = n
      /\ n + 2 \in 1..Len(il') /\ (n + 2) - 1 = n + 1
    BY <1>1, <1>2
<1>5. Found'[n] = Found[n]
    BY <1>3, <1>4, FoundKept
<1>6. PICK i, j : i = n + 1 /\ j = n + 2
    OBVIOUS
<1>7. /\ i \in 1..Len(il') /\ j \in 1..Len(il') /\ i - 1 = n /\ j - 1 = i
      /\ il'[i] = u /\ il'[j] = w
    <2>1. il'[i] = u /\ il'[j] = w
        BY <1>2, <1>6
    <2>2. i \in 1..(n + 2) /\ j \in 1..(n + 2) /\ i - 1 = n /\ j - 1 = i
        BY <1>2, <1>6
    <2> QED
        BY <1>2, <2>1, <2>2
<1>8. Found'[i] = Found'[n] /\ Found'[j] = Found'[i]
    <2>1. Found'[i] = Found'[i - 1]
        BY <1>7, FoundNext
    <2>2. Found'[j] = Found'[j - 1]
        BY <1>7, FoundNext
    <2> QED
        BY <1>7, <2>1, <2>2
<1>10. Found'[n + 2] = Found[n]
    BY <1>5, <1>6, <1>8
<1>9. Uses' = Found'[Len(il')]
    BY UsesNext
<1> QED
    BY <1>1, <1>2, <1>9, <1>10, UsesIs

-----------------------------------------------------------------------------
(* The steps are those of Scope.                                           *)

Linked == scopes = Scopes /\ uses = Uses

LEMMA LinkedFacts ==
    ASSUME Places, Linked
    PROVE  /\ scopes = Stack[parent] /\ uses = Uses
           /\ parent \in 0..Len(blocks)
BY ScopesIs DEF Linked, Places, Open

LEMMA LinkedNext ==
    ASSUME Places', Linked'
    PROVE  /\ scopes' = Stack'[parent'] /\ uses' = Uses'
           /\ parent' \in 0..Len(blocks')
<1>1. (Places /\ Linked => /\ scopes = Stack[parent] /\ uses = Uses
                           /\ parent \in 0..Len(blocks))'
    BY LinkedFacts, PTL
<1> QED
    BY <1>1

LEMMA GrowsIs ==
    ASSUME NEW i, GrowsTo(scopes[i], scopes'[i], Abstract!InScope)
    PROVE  Abstract!Grows(i)
BY DEF GrowsTo, Abstract!Grows, Abstract!Added

LEMMA AppendGrown ==
    ASSUME NEW S, NEW s \in Seq(S), NEW x
    PROVE  Grown(s, Append(s, x))
<1>1. PICK T : T = S \cup {x}
    OBVIOUS
<1>2. s \in Seq(T) /\ x \in T
    BY <1>1
<1> QED
    BY <1>2, GrownAppend

LEMMA ConcatGrown ==
    ASSUME NEW S, NEW s \in Seq(S), NEW t \in Seq(S)
    PROVE  Grown(s, s \o t)
BY ConcatTyped DEF Grown

\* The tables of file scope only grow.
FileGrown == \A j \in 1..4 : Grown(FileTables[j], FileTables'[j])

LEMMA TablesGrown ==
    ASSUME Grown(constants, constants'), Grown(globals, globals'),
           Grown(functions, functions'), Grown(types, types')
    PROVE  FileGrown
<1>1. /\ FileTables[1] = constants /\ FileTables[2] = globals
      /\ FileTables[3] = functions /\ FileTables[4] = types
      /\ FileTables'[1] = constants' /\ FileTables'[2] = globals'
      /\ FileTables'[3] = functions' /\ FileTables'[4] = types'
    BY DEF FileTables
<1>2. \A j \in 1..4 : j = 1 \/ j = 2 \/ j = 3 \/ j = 4
    OBVIOUS
<1> QED
    BY <1>1, <1>2 DEF FileGrown

LEMMA ConstantsGrown ==
    ASSUME Places, NEW name, NEW es \in Enumerators, TypedefEnum(name, es)
    PROVE  Grown(constants, constants')
<1> DEFINE new == [k \in 1..Len(es) |-> [name |-> es[k].name, value |-> Values(es)[k]]]
           Enumerator == [name : Names, assigned : BOOLEAN, value : Int]
<1>1. es \in Seq(Enumerator)
    BY ProgramAssumption, Zenon
<1>2. \A e \in Enumerator : e.name \in Names
    OBVIOUS
<1> HIDE DEF Enumerator
<1>3. Len(es) \in Nat /\ \A k \in 1..Len(es) : es[k].name \in Names
    BY <1>1, <1>2, ElementTyped
<1>4. \A k \in 1..Len(es) : [name |-> es[k].name, value |-> Values(es)[k]] \in Constant
    BY <1>3, ValuesTyped DEF Constant
<1>5. new \in [1..Len(es) -> Constant]
    BY <1>4
<1>6. constants' = constants \o new
    BY Zenon DEF TypedefEnum
<1> HIDE DEF new
<1>7. new \in Seq(Constant)
    BY <1>3, <1>5
<1>8. constants \in Seq(Constant)
    BY DEF Places, Typed
<1> QED
    BY <1>6, <1>7, <1>8, ConcatGrown

\* What Scope calls in scope, outside of functions.
LEMMA FileInScope ==
    ASSUME NEW F, scopes = << F >>
    PROVE  /\ Abstract!Innermost = 1 /\ scopes[1] = F
           /\ Abstract!InScope = {F[n] : n \in DOMAIN F}
<1>1. Len(scopes) = 1 /\ scopes[1] = F
    OBVIOUS
<1>2. Abstract!InScope = UNION {{scopes[i][n] : n \in DOMAIN scopes[i]} : i \in 1..1}
    BY <1>1 DEF Abstract!InScope, Abstract!Innermost
<1>3. 1..1 = {1}
    OBVIOUS
<1>4. Abstract!InScope = {scopes[1][n] : n \in DOMAIN scopes[1]}
    BY <1>2, <1>3
<1> QED
    BY <1>1, <1>4 DEF Abstract!Innermost

LEMMA FileDeclares ==
    ASSUME Places, Apart, Linked, Places', Apart', Linked', parent = 0, parent' = 0,
           FileGrown, Uses' = Uses
    PROVE  Abstract!Declare
<1>1. PICK F, H : F = FileScope /\ H = FileScope'
    OBVIOUS
<1>2. Stack[0] = << F >> /\ Stack'[0] = << H >>
    BY <1>1, StackProperties, StackNext DEF Places
<1>3. scopes = << F >> /\ scopes' = << H >> /\ uses' = uses
    BY <1>2, LinkedFacts, LinkedNext
<1>4. /\ Abstract!Innermost = 1 /\ scopes[1] = F
      /\ Abstract!InScope = {F[n] : n \in DOMAIN F}
    BY <1>3, FileInScope
<1>5. Len(scopes') = 1 /\ scopes'[1] = H
    BY <1>3
<1>6. GrowsTo(F, H, {F[n] : n \in DOMAIN F})
    BY <1>1, FileGrows DEF Places, FileGrown
<1>7. Abstract!Grows(1)
    BY <1>4, <1>5, <1>6, GrowsIs
<1>8. Abstract!Extend
    <2>1. \A i \in 1..(1 - 1) : scopes'[i] = scopes[i]
        OBVIOUS
    <2> QED
        BY <1>4, <1>5, <1>7, <2>1 DEF Abstract!Extend
<1> QED
    BY <1>3, <1>8 DEF Abstract!Declare

\* A block without variables.
LEMMA EmptyScope ==
    ASSUME NEW b, blocks[b].locals = << >>
    PROVE  LocalScope(b) = << >>
<1>1. NamesOf(<< >>) = {}
    BY DEF NamesOf
<1> QED
    BY <1>1 DEF LocalScope, ScopeOf

LEMMA ThreeScopes ==
    ASSUME NEW F, NEW P, NEW L
    PROVE  << F, P, L >> = Append(<< F, P >>, L)
<1>1. PICK S, s, t, u : /\ S = {F, P, L} /\ s = << F, P >> /\ t = << F, P, L >>
                        /\ u = Append(s, L)
    OBVIOUS
<1>2. F \in S /\ P \in S /\ L \in S
    BY <1>1
<1>3. s \in Seq(S) /\ t \in Seq(S) /\ Len(s) = 2 /\ Len(t) = 3
    BY <1>1, <1>2
<1>4. u \in Seq(S) /\ Len(u) = 3 /\ u[1] = s[1] /\ u[2] = s[2] /\ u[3] = L
    BY <1>1, <1>2, <1>3, AppendProperties
<1>5. t[1] = F /\ t[2] = P /\ t[3] = L /\ s[1] = F /\ s[2] = P
    BY <1>1
<1>6. \A i \in 1..3 : i = 1 \/ i = 2 \/ i = 3
    OBVIOUS
<1>7. \A i \in 1..Len(t) : t[i] = u[i]
    BY <1>3, <1>4, <1>5, <1>6
<1> QED
    BY <1>1, <1>3, <1>4, <1>7, SeqEqual

LEMMA FirstScope ==
    ASSUME NEW F, NEW P, NEW L
    PROVE  SubSeq(<< F, P, L >>, 1, 1) = << F >> /\ Len(<< F, P, L >>) = 3
<1>1. PICK S, s, t, u : /\ S = {F, P, L} /\ s = << F >> /\ t = << F, P, L >>
                        /\ u = SubSeq(t, 1, 1)
    OBVIOUS
<1>2. s \in Seq(S) /\ t \in Seq(S) /\ Len(s) = 1 /\ Len(t) = 3 /\ s[1] = F /\ t[1] = F
    BY <1>1
<1>3. u \in Seq(S) /\ Len(u) = 1 /\ u[1] = t[1]
    <2>1. \A i \in 1..1 : t[i] \in S
        BY <1>1
    <2> QED
        BY <1>1, <1>2, <2>1, SubSeqProperties
<1>4. \A i \in 1..Len(s) : s[i] = u[i]
    BY <1>2, <1>3
<1> QED
    BY <1>1, <1>2, <1>3, <1>4, SeqEqual

LEMMA EmptyScopeNext ==
    ASSUME NEW b, blocks'[b].locals = << >>
    PROVE  LocalScope(b)' = << >>
<1>1. NamesOf(<< >>) = {}
    BY DEF NamesOf
<1> QED
    BY <1>1 DEF LocalScope, ScopeOf

\* All that a step starts from and leads to.
Simulated ==
    /\ Places /\ Apart /\ Linked /\ Places' /\ Apart' /\ Linked'
    /\ SameParameters /\ TablesKept

LEMMA BlocksKeptIs ==
    ASSUME Simulated, FileScope' = FileScope
    PROVE  BlocksKept
BY ParamScopesKept DEF Simulated, BlocksKept, TablesKept

\* A block is opened in another one or as the body of a function.
LEMMA FunctionEnters ==
    ASSUME Simulated, NEW name \in FunctionNames, NEW ps \in Parameters,
           FunctionDefinition(name, ps)
    PROVE  Abstract!EnterFunction
<1> USE DEF Simulated
<1>1. PICK f, x : x = [parent |-> 0, function |-> f, locals |-> << >>]
                  /\ blocks' = Append(blocks, x)
    BY Zenon DEF FunctionDefinition
<1>2. PICK b : b = Len(blocks')
    OBVIOUS
<1>3. blocks \in Seq(Block) /\ blocks' \in Seq(Block)
    BY DEF Places, Typed
<1>4. b \in 1..Len(blocks') /\ blocks'[b] = x /\ parent' = b
    <2>1. parent' = b
        BY <1>2, Zenon DEF FunctionDefinition
    <2>2. PICK T : T = Block \cup {x}
        OBVIOUS
    <2>3. blocks \in Seq(T) /\ x \in T
        BY <1>3, <2>2
    <2>4. Len(blocks) \in Nat /\ b = Len(blocks) + 1 /\ blocks'[Len(blocks) + 1] = x
        BY <1>1, <1>2, <2>3, AppendTyped
    <2> QED
        BY <1>2, <2>1, <2>4
<1>5. blocks'[b].parent = 0 /\ blocks'[b].locals = << >>
    BY <1>1, <1>4
<1>6. PICK F, H, P : F = FileScope /\ H = FileScope' /\ P = ParamScope(blocks[b].function)'
    OBVIOUS
<1>7. scopes = << F >>
    <2>1. parent = 0
        BY DEF FunctionDefinition, Places, Open
    <2> QED
        BY <1>6, <2>1, LinkedFacts, StackProperties DEF Places
<1>8. scopes' = << H, P, << >> >>
    <2>1. Outside(b)' = << H, P >>
        BY <1>5, <1>6, Zenon DEF Outside
    <2>2. LocalScope(b)' = << >>
        BY <1>5, EmptyScopeNext
    <2>3. Stack'[b] = Append(Outside(b)', LocalScope(b)')
        BY <1>4, StackNext DEF Places
    <2>4. scopes' = Stack'[b]
        BY <1>4, LinkedNext
    <2>5. scopes' = Append(<< H, P >>, << >>)
        BY <2>1, <2>2, <2>3, <2>4, Zenon
    <2>6. PICK e : e = << >>
        OBVIOUS
    <2>7. << H, P, e >> = Append(<< H, P >>, e)
        BY ThreeScopes
    <2> QED
        BY <2>5, <2>6, <2>7
<1>9. UNCHANGED uses
    <2>1. PICK u, w : u = [Plain("op_entry_point") EXCEPT !.name = name]
                      /\ w = Plain("op_block_start")
        OBVIOUS
    <2>2. il' = il \o << u, w >>
        BY <2>1, Zenon DEF FunctionDefinition
    <2>3. u \in Instruction /\ w \in Instruction /\ u.found = Nothing /\ w.found = Nothing
        <3>1. "op_entry_point" \in Ops /\ "op_block_start" \in Ops /\ name \in Names
            BY ProgramAssumption DEF Ops
        <3> QED
            BY <2>1, <3>1, PlainTyped
    <2>4. Uses' = Uses
        BY <2>2, <2>3, TwoPlain DEF Places
    <2> QED
        BY <2>4, LinkedFacts, LinkedNext
<1>10. /\ Abstract!Innermost = 1 /\ scopes[1] = F
       /\ Abstract!InScope = {F[n] : n \in DOMAIN F}
    BY <1>7, FileInScope
<1>11. Len(scopes') = 3 /\ scopes'[1] = H /\ scopes'[3] = << >>
    <2>1. \A e : << H, P, e >>[1] = H /\ << H, P, e >>[3] = e /\ Len(<< H, P, e >>) = 3
        OBVIOUS
    <2> QED
        BY <1>8, <2>1
<1>12. FileGrown
    <2>1. UNCHANGED <<constants, globals, types>>
        BY Zenon DEF FunctionDefinition
    <2>2. Grown(constants, constants') /\ Grown(types, types')
        BY <2>1, GrownSame DEF Places, Typed
    <2> QED
        BY <2>2, TablesGrown DEF TablesKept
<1>13. GrowsTo(F, H, {F[n] : n \in DOMAIN F})
    BY <1>6, <1>12, FileGrows DEF Places, FileGrown
<1>14. Abstract!Grows(1)
    BY <1>10, <1>11, <1>13, GrowsIs
<1> QED
    BY <1>9, <1>10, <1>11, <1>14 DEF Abstract!EnterFunction

LEMMA BlockOpens ==
    ASSUME Simulated, OpenBlock
    PROVE  Abstract!OpenBlock
<1> USE DEF Simulated
<1>1. PICK p, x : p = parent
                  /\ x = [parent |-> p, function |-> blocks[p].function, locals |-> << >>]
    OBVIOUS
<1>2. blocks' = Append(blocks, x) /\ UNCHANGED <<types, constants, functions, globals>>
    BY <1>1, Zenon DEF OpenBlock
<1>3. PICK b : b = Len(blocks')
    OBVIOUS
<1>4. /\ blocks \in Seq(Block) /\ p \in 1..Len(blocks) /\ Len(blocks) \in Nat
    BY <1>1 DEF OpenBlock, Places, Open, Typed
<1>5. /\ b \in 1..Len(blocks') /\ blocks'[b] = x /\ parent' = b
      /\ \A c \in 1..Len(blocks) : blocks'[c] = blocks[c]
    <2>1. parent' = b
        BY <1>3, Zenon DEF OpenBlock
    <2>2. PICK T : T = Block \cup {x}
        OBVIOUS
    <2>3. blocks \in Seq(T) /\ x \in T
        BY <1>4, <2>2
    <2>4. /\ b = Len(blocks) + 1 /\ blocks'[Len(blocks) + 1] = x
          /\ \A c \in 1..Len(blocks) : blocks'[c] = blocks[c]
        BY <1>2, <1>3, <2>3, AppendTyped
    <2> QED
        BY <1>3, <1>4, <2>1, <2>4
<1>6. blocks'[b].parent = p /\ blocks'[b].locals = << >> /\ p # 0
    BY <1>1, <1>4, <1>5
<1>7. FileScope' = FileScope
    BY <1>2, FileScopeKept
<1>8. Stack'[p] = Stack[p]
    <2>1. p \in 0..Len(blocks) /\ \A c \in 1..Len(blocks) : blocks'[c].locals = blocks[c].locals
        BY <1>4, <1>5
    <2> QED
        BY <1>7, <2>1, BlocksKeptIs, StackKept DEF Places
<1>9. scopes = Stack[p]
    BY <1>1, LinkedFacts
<1>10. scopes' = Append(scopes, << >>)
    <2>1. Outside(b)' = Stack'[p]
        BY <1>6, Zenon DEF Outside
    <2>2. LocalScope(b)' = << >>
        BY <1>6, EmptyScopeNext
    <2>3. Stack'[b] = Append(Outside(b)', LocalScope(b)')
        BY <1>5, StackNext DEF Places
    <2>4. scopes' = Stack'[b]
        BY <1>5, LinkedNext
    <2> QED
        BY <1>8, <1>9, <2>1, <2>2, <2>3, <2>4, Zenon
<1>11. Abstract!Innermost > 1
    <2>1. PICK m : m = Len(Outside(p))
        OBVIOUS
    <2>2. m \in Nat /\ Len(Stack[p]) = m + 1 /\ (m = 2 \/ m > 2)
        BY <1>4, <2>1, StackLength DEF Places
    <2> QED
        BY <1>9, <2>2 DEF Abstract!Innermost
<1>12. UNCHANGED uses
    <2>1. PICK u : u = Plain("op_block_start")
        OBVIOUS
    <2>2. il' = Append(il, u)
        BY <2>1, Zenon DEF OpenBlock
    <2>3. u \in Instruction /\ u.found = Nothing
        <3>1. "op_block_start" \in Ops
            BY DEF Ops
        <3> QED
            BY <2>1, <3>1, NamesTyped, PlainTyped
    <2>4. Uses' = Uses
        BY <2>2, <2>3, OneUse DEF Places
    <2> QED
        BY <2>4, LinkedFacts, LinkedNext
<1> QED
    BY <1>10, <1>11, <1>12 DEF Abstract!OpenBlock

LEMMA BlockCloses ==
    ASSUME Simulated, CloseBlock
    PROVE  Abstract!CloseBlock \/ Abstract!LeaveFunction
<1> USE DEF Simulated
<1>1. PICK b, p, s, L : /\ b = parent /\ p = blocks[b].parent
                        /\ s = Outside(b) /\ L = LocalScope(b)
    OBVIOUS
<1>2. b \in 1..Len(blocks) /\ p \in 0..Len(blocks) /\ parent' = p
    <2>1. b \in 1..Len(blocks)
        BY <1>1 DEF CloseBlock, Places, Open, Typed
    <2>2. parent' = p
        BY <1>1, Zenon DEF CloseBlock
    <2> QED
        BY <1>1, <2>1, <2>2, BlockFacts DEF Places
<1>3. PICK u, w : u = Plain("op_block_end") /\ w = Plain("op_exit_point")
    OBVIOUS
<1>4. u \in Instruction /\ w \in Instruction /\ u.found = Nothing /\ w.found = Nothing
    <2>1. "op_block_end" \in Ops /\ "op_exit_point" \in Ops
        BY DEF Ops
    <2> QED
        BY <1>3, <2>1, NamesTyped, PlainTyped
<1>5. UNCHANGED <<constants, globals, types, blocks>>
    BY Zenon DEF CloseBlock
<1>6. UNCHANGED uses /\ FileScope' = FileScope
    <2>1. CASE p # 0
        <3>1. il' = Append(il, u) /\ UNCHANGED functions
            BY <1>2, <1>3, <2>1, Zenon DEF CloseBlock
        <3>2. Uses' = Uses
            BY <1>4, <3>1, OneUse DEF Places
        <3>3. FileScope' = FileScope
            BY <1>5, <3>1, FileScopeKept
        <3> QED
            BY <3>2, <3>3, LinkedFacts, LinkedNext
    <2>2. CASE p = 0
        <3>1. PICK f, new : f = blocks[b].function
                            /\ new = [functions EXCEPT ![f].exit = Len(il) + 1]
            OBVIOUS
        <3>2. il' = il \o << u, w >> /\ functions' = new
            BY <1>1, <1>2, <1>3, <2>2, <3>1, Zenon DEF CloseBlock
        <3>3. f \in 1..Len(functions) /\ functions \in Seq(Function) /\ Len(il) + 1 \in Nat
            BY <1>2, <3>1, BlockFacts, SMTT(30) DEF Places, Typed
        <3>4. /\ Len(new) = Len(functions)
              /\ \A k \in 1..Len(new) : new[k].name = functions[k].name
            BY <3>1, <3>3, ExitTable
        <3>5. FileScope' = FileScope
            BY <1>5, <3>2, <3>4, FileScopeKept
        <3>6. Uses' = Uses
            BY <1>4, <3>2, TwoPlain DEF Places
        <3> QED
            BY <3>5, <3>6, LinkedFacts, LinkedNext
    <2> QED
        BY <2>1, <2>2
<1>7. Stack'[p] = Stack[p]
    BY <1>2, <1>5, <1>6, BlocksKeptIs, StackKept DEF Places
<1>8. scopes' = Stack[p]
    BY <1>2, <1>7, LinkedNext
<1>9. scopes = Append(s, L)
    BY <1>1, <1>2, StackProperties, LinkedFacts DEF Places
<1>10. CASE p # 0
    <2>1. s = Stack[p]
        BY <1>1, <1>10, Zenon DEF Outside
    <2>2. PICK S : S = ScopeSet
        OBVIOUS
    <2>3. s \in Seq(S) /\ L \in S
        BY <1>1, <1>2, <2>2, StackProperties DEF Places, ScopeSet
    <2>4. Len(s) \in Nat /\ Len(s) > 2
        BY <1>1, <1>2, <1>10, StackLength DEF Places
    <2>5. Len(scopes) = Len(s) + 1
        BY <1>9, <2>3, AppendTyped
    <2>6. SubSeq(scopes, 1, Len(scopes) - 1) = s
        BY <1>9, <2>3
    <2>7. Len(scopes) > 3
        BY <2>4, <2>5
    <2> QED
        BY <1>6, <1>8, <2>1, <2>6, <2>7 DEF Abstract!CloseBlock, Abstract!Innermost
<1>11. CASE p = 0
    <2>1. PICK F, P : F = FileScope /\ P = ParamScope(blocks[b].function)
        OBVIOUS
    <2>2. s = << F, P >>
        BY <1>1, <1>11, <2>1, Zenon DEF Outside
    <2>3. << F, P, L >> = Append(<< F, P >>, L)
        BY ThreeScopes
    <2>4. scopes = << F, P, L >>
        BY <1>9, <2>2, <2>3
    <2>5. scopes' = << F >>
        BY <1>8, <1>11, <2>1, StackProperties DEF Places
    <2>6. SubSeq(<< F, P, L >>, 1, 1) = << F >> /\ Len(<< F, P, L >>) = 3
        BY FirstScope
    <2> QED
        BY <1>6, <2>4, <2>5, <2>6 DEF Abstract!LeaveFunction, Abstract!Innermost
<1> QED
    BY <1>10, <1>11

\* A name of file scope is not one of a variable of a function.
LEMMA FileNameVisible ==
    ASSUME Typed, Nested, Apart, NEW j \in 1..4, NEW n, Named(FileTables[j], n) # {},
           NEW b \in 1..Len(blocks)
    PROVE  /\ Look(n, b) = InTable(FileKinds[j], 0, FileTables[j], n)
           /\ Within(n)[b] = Nothing
           /\ InTable("param", blocks[b].function, ParamsOf(blocks[b].function), n) = Nothing
<1>1. ASSUME NEW c \in 1..Len(blocks)
      PROVE  /\ Named(blocks[c].locals, n) = {}
             /\ Named(ParamsOf(blocks[c].function), n) = {}
    <2>1. PICK t, v, q : t = FileTables[j] /\ v = blocks[c].locals
                         /\ q = ParamsOf(blocks[c].function)
        OBVIOUS
    <2>2. NamesOf(t) \cap (NamesOf(v) \cup NamesOf(q)) = {}
        BY <2>1, Zenon DEF Apart
    <2>3. n \in NamesOf(t)
        BY <2>1, NamedIn
    <2>4. n \notin NamesOf(v) /\ n \notin NamesOf(q)
        BY <2>2, <2>3
    <2> QED
        BY <2>1, <2>4, NamedIn
<1>2. \A c \in Enclosing(b) : Named(blocks[c].locals, n) = {}
    BY <1>1, EnclosingClosed
<1>3. Within(n)[b] = Nothing
    BY <1>2, WithinHolding
<1>4. InTable("param", blocks[b].function, ParamsOf(blocks[b].function), n) = Nothing
    BY <1>1, Zenon DEF InTable
<1>5. Look(n, b) = FileEntity(n)
    BY <1>3, <1>4, Zenon DEF Look, Else
<1> QED
    BY <1>3, <1>4, <1>5, FileEntityIs

\* The places where a name is looked for, in any order.
LEMMA PlacesOf ==
    ASSUME Places, pc = "body", NEW n
    PROVE  /\ parent \in 1..Len(blocks)
           /\ find_constant(n) # Nothing => Named(FileTables[1], n) # {}
           /\ find_global_variable(n) # Nothing => Named(FileTables[2], n) # {}
           /\ find_function(n) # Nothing => Named(FileTables[3], n) # {}
           /\ find_constant(n) = InTable(FileKinds[1], 0, FileTables[1], n)
           /\ find_global_variable(n) = InTable(FileKinds[2], 0, FileTables[2], n)
           /\ find_function(n) = InTable(FileKinds[3], 0, FileTables[3], n)
<1>1. parent \in 1..Len(blocks)
    BY DEF Places, Open, Typed
<1>2. /\ FileTables[1] = constants /\ FileTables[2] = globals /\ FileTables[3] = functions
      /\ FileKinds[1] = "constant" /\ FileKinds[2] = "global" /\ FileKinds[3] = "function"
    BY DEF FileTables, FileKinds
<1>3. /\ find_constant(n) = InTable(FileKinds[1], 0, FileTables[1], n)
      /\ find_global_variable(n) = InTable(FileKinds[2], 0, FileTables[2], n)
      /\ find_function(n) = InTable(FileKinds[3], 0, FileTables[3], n)
    BY <1>2, Zenon DEF find_constant, find_global_variable, find_function
<1>4. \A kind, table : InTable(kind, 0, table, n) # Nothing => Named(table, n) # {}
    BY Zenon DEF InTable
<1> QED
    BY <1>1, <1>3, <1>4

\* An operand is what C means by the name, and so is the start of a statement
\* that is not a type.
LEMMA OperandLook ==
    ASSUME Places, Apart, pc = "body", NEW n, Operand(n) # Nothing
    PROVE  Operand(n) = Look(n, parent)
<1> USE DEF Places
<1>1. PICK c, l, g, h : /\ c = find_constant(n) /\ l = find_local_variable(n)
                        /\ g = find_global_variable(n) /\ h = find_function(n)
    OBVIOUS
<1>2. Operand(n) = Else(c, Else(Else(l, g), h))
    BY <1>1, Zenon DEF Operand, find_variable
<1>3. 1 \in 1..4 /\ 2 \in 1..4 /\ 3 \in 1..4
    OBVIOUS
<1>4. PICK w, q : /\ w = Within(n)[parent]
                  /\ q = InTable("param", blocks[parent].function,
                                 ParamsOf(blocks[parent].function), n)
    OBVIOUS
<1>5. l = Else(w, q)
    <2>1. parent # 0
        BY DEF Open
    <2> QED
        BY <1>1, <1>4, <2>1, FindLocalIs
<1>6. c # Nothing => c = Look(n, parent)
    BY <1>1, <1>3, PlacesOf, FileNameVisible
<1>7. g # Nothing => g = Look(n, parent) /\ w = Nothing /\ q = Nothing
    BY <1>1, <1>3, <1>4, PlacesOf, FileNameVisible
<1>8. h # Nothing => h = Look(n, parent) /\ w = Nothing /\ q = Nothing
    BY <1>1, <1>3, <1>4, PlacesOf, FileNameVisible
<1>9. Look(n, parent) = Else(w, Else(q, FileEntity(n)))
    BY <1>4, Zenon DEF Look
<1>10. l # Nothing => l = Look(n, parent)
    BY <1>5, <1>9, Zenon DEF Else
<1> QED
    BY <1>2, <1>6, <1>7, <1>8, <1>10, Zenon DEF Else

LEMMA StatementLook ==
    ASSUME Places, Apart, pc = "body", NEW n, Statement(n) # Nothing,
           Statement(n).kind # "type"
    PROVE  Statement(n) = Look(n, parent)
<1> USE DEF Places
<1>1. PICK t, l, g, h : /\ t = find_type(n) /\ l = find_local_variable(n)
                        /\ g = find_global_variable(n) /\ h = find_function(n)
    OBVIOUS
<1>2. Statement(n) = Else(t, Else(h, Else(l, g)))
    BY <1>1, Zenon DEF Statement, find_variable
<1>3. t # Nothing => t.kind = "type"
    <2>1. "type" \in Kinds /\ "type" # "none" /\ 0 \in Nat /\ Len(types) \in Nat
        BY DEF Kinds, Typed
    <2> QED
        BY <1>1, <2>1, InTableProperties DEF find_type
<1>4. t = Nothing
    BY <1>2, <1>3 DEF Else
<1>5. 1 \in 1..4 /\ 2 \in 1..4 /\ 3 \in 1..4
    OBVIOUS
<1>6. PICK w, q : /\ w = Within(n)[parent]
                  /\ q = InTable("param", blocks[parent].function,
                                 ParamsOf(blocks[parent].function), n)
    OBVIOUS
<1>7. l = Else(w, q)
    <2>1. parent # 0
        BY DEF Open
    <2> QED
        BY <1>1, <1>6, <2>1, FindLocalIs
<1>8. g # Nothing => g = Look(n, parent)
    BY <1>1, <1>5, PlacesOf, FileNameVisible
<1>9. h # Nothing => h = Look(n, parent)
    BY <1>1, <1>5, PlacesOf, FileNameVisible
<1>10. Look(n, parent) = Else(w, Else(q, FileEntity(n)))
    BY <1>6, Zenon DEF Look
<1>11. l # Nothing => l = Look(n, parent)
    BY <1>7, <1>10, Zenon DEF Else
<1> QED
    BY <1>2, <1>4, <1>8, <1>9, <1>11, Zenon DEF Else

\* What a name means in the scopes of the abstract specification.
LEMMA MeaningIs ==
    ASSUME NEW n, Value(scopes, n) # Nothing
    PROVE  n \in Abstract!NamesInScope /\ Abstract!Meaning(n) = Value(scopes, n)
<1>1. DeclaredIn(scopes, n) # {} /\ Value(scopes, n) = MeaningIn(scopes, n)
    BY Zenon DEF Value
<1>2. n \in Abstract!NamesInScope
    BY <1>1 DEF Abstract!NamesInScope, Abstract!Innermost, DeclaredIn
<1>3. Abstract!Meaning(n) = MeaningIn(scopes, n)
    BY Zenon DEF Abstract!Meaning, Abstract!Declaring, Abstract!Innermost, MeaningIn, DeclaredIn
<1> QED
    BY <1>1, <1>2, <1>3

LEMMA MeaningIsNext ==
    ASSUME NEW n, Value(scopes', n) # Nothing
    PROVE  n \in Abstract!NamesInScope' /\ Abstract!Meaning(n)' = Value(scopes', n)
<1>1. DeclaredIn(scopes', n) # {} /\ Value(scopes', n) = MeaningIn(scopes', n)
    BY Zenon DEF Value
<1>2. n \in Abstract!NamesInScope'
    BY <1>1 DEF Abstract!NamesInScope, Abstract!Innermost, DeclaredIn
<1>3. Abstract!Meaning(n)' = MeaningIn(scopes', n)
    BY Zenon DEF Abstract!Meaning, Abstract!Declaring, Abstract!Innermost, MeaningIn, DeclaredIn
<1> QED
    BY <1>1, <1>2, <1>3

\* What a name is used for in the source is what it means, or the parser stops.
LEMMA NameUsed ==
    ASSUME Simulated, pc = "body", NEW name \in Names, NEW found \in Entities,
           NEW called \in BOOLEAN, UseAs(name, found, called),
           found # Nothing => found = Look(name, parent)
    PROVE  Abstract!Use \/ UNCHANGED <<scopes, uses>>
<1> USE DEF Simulated
<1>1. UNCHANGED <<types, constants, functions, globals, blocks, parent>>
    BY Zenon DEF UseAs
<1>2. PICK b : b = parent
    OBVIOUS
<1>3. b \in 1..Len(blocks) /\ b \in 0..Len(blocks)
    BY <1>2 DEF Places, Open, Typed
<1>4. FileScope' = FileScope
    BY <1>1, FileScopeKept
<1>5. Stack'[b] = Stack[b]
    BY <1>1, <1>3, <1>4, BlocksKeptIs, StackKept DEF Places
<1>6. UNCHANGED scopes
    BY <1>1, <1>2, <1>5, LinkedFacts, LinkedNext
<1>7. CASE found = Nothing
    <2>1. UNCHANGED il
        BY <1>7, Zenon DEF UseAs
    <2>2. Uses' = Uses
        BY <2>1, NoUse DEF Places
    <2> QED
        BY <1>6, <2>2, LinkedFacts, LinkedNext
<1>8. CASE found # Nothing
    <2>1. PICK op : op = CASE found.kind = "constant" -> "op_load_numeric_constant"
                           [] found.kind = "function" /\ called -> "op_function_call"
                           [] OTHER -> "op_get_var_addr"
        OBVIOUS
    <2>2. op \in Ops
        <3>1. CASE found.kind = "constant"
            BY <2>1, <3>1 DEF Ops
        <3>2. CASE found.kind # "constant" /\ found.kind = "function" /\ called
            BY <2>1, <3>2 DEF Ops
        <3>3. CASE found.kind # "constant" /\ ~(found.kind = "function" /\ called)
            <4>1. op = "op_get_var_addr"
                BY <2>1, <3>3, Zenon
            <4> QED
                BY <4>1 DEF Ops
        <3> QED
            BY <3>1, <3>2, <3>3
    <2>3. PICK u : u = Instr(op, name, found, 0)
        OBVIOUS
    <2>4. u \in Instruction /\ u.found = found
        BY <2>2, <2>3, InstrTyped DEF Places
    <2>5. il' = Append(il, u)
        BY <1>8, <2>1, <2>3, Zenon DEF UseAs
    <2>6. Uses' = Append(Uses, found)
        BY <1>8, <2>4, <2>5, OneUse DEF Places
    <2>7. uses' = Append(uses, found)
        BY <2>6, LinkedFacts, LinkedNext
    <2>8. Value(scopes, name) = found
        BY <1>2, <1>3, <1>8, LinkedFacts, StackMeaning DEF Places
    <2>9. name \in Abstract!NamesInScope /\ Abstract!Meaning(name) = found
        BY <1>8, <2>8, MeaningIs
    <2> QED
        BY <1>6, <2>7, <2>9 DEF Abstract!Use
<1> QED
    BY <1>7, <1>8

\* What there is in the scopes around a block.
LEMMA ScopeEntities ==
    ASSUME Places, Apart, NEW sc \in ScopeSet, NEW n \in DOMAIN sc,
           NEW b \in 1..Len(blocks), NEW k
    PROVE  sc[n] = Entity("local", b, k) => k \in 1..Len(blocks[b].locals)
<1> USE DEF Places
<1> SUFFICES ASSUME sc[n] = Entity("local", b, k)
             PROVE  k \in 1..Len(blocks[b].locals)
    OBVIOUS
<1>1. PICK e : e = sc[n]
    OBVIOUS
<1>2. e.kind = "local" /\ e.of = b /\ e.k = k
    BY <1>1 DEF Entity
<1>3. CASE sc = FileScope
    <2>1. PICK j \in 1..4 : Named(FileTables[j], n) # {}
        BY <1>3, FileFacts
    <2>2. PICK t, kind : t = FileTables[j] /\ kind = FileKinds[j]
        OBVIOUS
    <2>3. kind \in Kinds /\ kind # "none" /\ Len(t) \in Nat /\ Named(t, n) # {}
        BY <2>1, <2>2, FileFacts
    <2>4. e = InTable(kind, 0, t, n)
        BY <1>1, <1>3, <2>1, <2>2, FileFacts, FileEntityIs
    <2>5. e.kind = kind
        BY <2>3, <2>4, InTableNamed
    <2>6. kind # "local"
        <3>1. j = 1 \/ j = 2 \/ j = 3 \/ j = 4
            OBVIOUS
        <3> QED
            BY <2>2, <3>1 DEF FileKinds
    <2> QED
        BY <1>2, <2>5, <2>6
<1>4. ASSUME NEW f \in 1..Len(functions), sc = ParamScope(f)
      PROVE  FALSE
    <2>1. PICK t : t = ParamsOf(f)
        OBVIOUS
    <2>2. Len(t) \in Nat /\ f \in Nat /\ "param" \in Kinds /\ "param" # "none"
          /\ "param" # "local"
        <3>1. Len(functions) \in Nat /\ MAX_PARAMS \in Nat
            BY MaxParamsAssumption DEF Typed
        <3> QED
            BY <2>1, <3>1, ParamsOfProperties DEF Kinds
    <2>3. e = InTable("param", f, t, n) /\ n \in NamesOf(t)
        BY <1>1, <1>4, <2>1, ScopeOfFacts DEF ParamScope
    <2>4. e # Nothing
        BY <2>2, <2>3, NamedIn, InTableProperties
    <2>5. e.kind = "param"
        BY <2>2, <2>3, <2>4, InTableProperties
    <2> QED
        BY <1>2, <2>2, <2>5
<1>5. ASSUME NEW c \in 1..Len(blocks), sc = LocalScope(c)
      PROVE  k \in 1..Len(blocks[b].locals)
    <2>1. PICK t : t = blocks[c].locals
        OBVIOUS
    <2>2. Len(t) \in Nat /\ c \in Nat /\ "local" \in Kinds /\ "local" # "none"
        BY <2>1, BlockFacts DEF Kinds
    <2>3. e = InTable("local", c, t, n) /\ n \in NamesOf(t)
        BY <1>1, <1>5, <2>1, ScopeOfFacts DEF LocalScope
    <2>4. e # Nothing
        BY <2>2, <2>3, NamedIn, InTableProperties
    <2>5. e.of = c /\ e.k \in 1..Len(t)
        BY <2>2, <2>3, <2>4, InTableProperties
    <2> QED
        BY <1>2, <2>1, <2>5
<1> QED
    BY <1>3, <1>4, <1>5 DEF ScopeSet

\* A local variable is a new entity in the innermost scope, and its initial
\* value is given to it.
LEMMA LocalDeclares ==
    ASSUME Simulated, pc = "body", NEW v \in Variable, NEW size \in Nat,
           NEW initialised \in BOOLEAN, AddLocal(v, size, initialised)
    PROVE  Abstract!Declare \/ Abstract!DeclareAndUse
<1> USE DEF Simulated
<1>1. PICK new, b, n, name, vs, e :
          /\ new = WithLocal(v) /\ b = parent /\ n = Len(blocks[b].locals) /\ name = v.name
          /\ vs = Append(blocks[b].locals, v) /\ e = Entity("local", b, n + 1)
    OBVIOUS
<1>2. /\ blocks' = new /\ UNCHANGED <<types, constants, functions, globals, parent>>
    BY <1>1, Zenon DEF AddLocal, WithLocal
<1>3. /\ b \in 1..Len(blocks) /\ Len(new) = Len(blocks) /\ Len(blocks) \in Nat
      /\ blocks[b].locals \in Seq(Variable) /\ n \in Nat
      /\ \A c \in 1..Len(blocks) : c # b => new[c].locals = blocks[c].locals
      /\ new[b].locals = vs /\ b \in Nat
    <2>1. b \in 1..Len(blocks) /\ Len(blocks) \in Nat
        BY <1>1, LocalAdded
    <2>2. /\ Len(new) = Len(blocks) /\ blocks[b].locals \in Seq(Variable) /\ n \in Nat
          /\ \A c \in 1..Len(blocks) : c # b => new[c].locals = blocks[c].locals
          /\ new[b].locals = vs
        BY <1>1, <2>1, LocalAdded
    <2> QED
        BY <2>1, <2>2
<1>4. /\ Len(vs) = n + 1 /\ vs[n + 1] = v /\ \A k \in 1..n : vs[k] = blocks[b].locals[k]
    BY <1>1, <1>3, AppendTyped
<1>5. Named(vs, name) = {n + 1} /\ Named(blocks[b].locals, name) = {}
    <2>1. n + 1 \in 1..Len(vs) /\ vs[n + 1].name = name
        BY <1>1, <1>3, <1>4
    <2>2. Distinct(vs)
        BY <1>2, <1>3 DEF Apart
    <2>3. \A k \in 1..Len(vs) : vs[k].name = name => k = n + 1
        BY <2>1, <2>2 DEF Distinct
    <2>4. Named(vs, name) = {n + 1}
        BY <2>1, <2>3 DEF Named
    <2>5. \A k \in 1..n : k # n + 1 /\ k \in 1..Len(vs)
        BY <1>3, <1>4
    <2>6. Named(blocks[b].locals, name) = {}
        BY <1>1, <1>4, <2>3, <2>5 DEF Named
    <2> QED
        BY <2>4, <2>6
<1>6. InTable("local", b, vs, name) = e /\ e # Nothing
    <2>1. First(Named(vs, name)) = n + 1
        BY <1>3, <1>5 DEF First
    <2>2. InTable("local", b, vs, name) = e
        BY <1>1, <1>5, <2>1 DEF InTable
    <2>3. e # Nothing
        BY <1>1, <1>3 DEF Entity, Nothing
    <2> QED
        BY <2>2, <2>3
<1>7. PICK s, L, M, m : s = Outside(b) /\ L = LocalScope(b) /\ M = LocalScope(b)' /\ m = Len(s)
    OBVIOUS
<1>8. FileScope' = FileScope
    BY <1>2, FileScopeKept
<1>9. Outside(b)' = s
    <2>1. \A c \in 1..Len(blocks) : c < b => blocks'[c].locals = blocks[c].locals
        BY <1>2, <1>3
    <2> QED
        BY <1>3, <1>7, <1>8, <2>1, BlocksKeptIs, OutsideKept DEF Places
<1>10. scopes = Append(s, L) /\ s \in Seq(ScopeSet) /\ L \in ScopeSet
    BY <1>1, <1>3, <1>7, LinkedFacts, StackProperties DEF Places, ScopeSet
<1>11. scopes' = Append(s, M)
    <2>1. b \in 1..Len(blocks')
        BY <1>2, <1>3
    <2>2. Stack'[b] = Append(Outside(b)', LocalScope(b)')
        BY <2>1, StackNext DEF Places
    <2>3. scopes' = Stack'[b]
        BY <1>1, <1>2, LinkedNext
    <2> QED
        BY <1>7, <1>9, <2>2, <2>3, Zenon
<1>12. /\ m \in Nat /\ Len(scopes) = m + 1 /\ scopes[m + 1] = L
       /\ \A i \in 1..m : scopes[i] = s[i]
    BY <1>7, <1>10, AppendTyped
<1>13. PICK S : S = ScopeSet \cup {M}
    OBVIOUS
<1>14. s \in Seq(S) /\ M \in S
    BY <1>10, <1>13
<1>15. /\ Len(scopes') = m + 1 /\ scopes'[m + 1] = M
       /\ \A i \in 1..m : scopes'[i] = s[i]
    BY <1>7, <1>11, <1>14, AppendTyped
<1>16. M = ScopeOf("local", b, vs) /\ L = ScopeOf("local", b, blocks[b].locals)
    BY <1>2, <1>3, <1>7, Zenon DEF LocalScope, ScopeOf, NamesOf, InTable, Named
<1>17. GrowsTo(L, M, Abstract!InScope)
    <2>1. DOMAIN L = NamesOf(blocks[b].locals) /\ DOMAIN M = NamesOf(vs)
        BY <1>16, ScopeOfFacts
    <2>2. ASSUME NEW x \in DOMAIN L
          PROVE  x \in DOMAIN M /\ M[x] = L[x]
        <3>1. PICK t, a : t = blocks[b].locals /\ a = InTable("local", b, t, x)
            OBVIOUS
        <3>2. /\ "local" \in Kinds /\ "local" # "none" /\ Len(t) \in Nat /\ Len(vs) \in Nat
              /\ Len(t) <= Len(vs) /\ \A k \in 1..Len(t) : vs[k].name = t[k].name
            BY <1>1, <1>3, <1>4, <3>1 DEF Kinds
        <3>3. Named(t, x) # {}
            BY <2>1, <3>1, NamedIn
        <3>4. a # Nothing
            <4>1. PICK kind : kind = "local"
                OBVIOUS
            <4>2. a = InTable(kind, b, t, x) /\ kind \in Kinds /\ kind # "none" /\ b \in Nat
                BY <1>3, <3>1, <3>2, <4>1
            <4> QED
                BY <3>2, <3>3, <4>2, InTableProperties
        <3>5. InTable("local", b, vs, x) = a
            BY <1>3, <3>1, <3>2, <3>4, LocalStable, SMTT(30)
        <3>6. x \in NamesOf(vs)
            BY <3>4, <3>5, NamedIn, Zenon DEF InTable
        <3> QED
            BY <1>16, <2>1, <3>1, <3>5, <3>6, ScopeOfFacts
    <2>3. ASSUME NEW x \in DOMAIN M \ DOMAIN L
          PROVE  x = name /\ M[x] = e
        <3>1. PICK k \in 1..Len(vs) : vs[k].name = x
            BY <2>1 DEF NamesOf
        <3>2. k \notin 1..n
            BY <1>1, <1>4, <2>1, <3>1 DEF NamesOf
        <3>3. k = n + 1
            BY <1>3, <1>4, <3>1, <3>2
        <3>4. x = name
            BY <1>1, <1>4, <3>1, <3>3
        <3> QED
            BY <1>6, <1>16, <2>1, <3>4, ScopeOfFacts
    <2>4. e \notin Abstract!InScope
        <3> SUFFICES ASSUME e \in Abstract!InScope PROVE FALSE
            OBVIOUS
        <3>1. PICK i \in 1..(m + 1) : e \in {scopes[i][x] : x \in DOMAIN scopes[i]}
            BY <1>12 DEF Abstract!InScope, Abstract!Innermost
        <3>2. PICK sc : sc = scopes[i]
            OBVIOUS
        <3>3. PICK x \in DOMAIN sc : sc[x] = e
            BY <3>1, <3>2
        <3>4. sc \in ScopeSet
            <4>1. scopes \in Seq(ScopeSet)
                BY <1>10, AppendTyped
            <4> QED
                BY <1>12, <3>2, <4>1, ElementTyped
        <3>5. n + 1 \in 1..n
            BY <1>1, <1>3, <3>3, <3>4, ScopeEntities
        <3> QED
            BY <1>3, <3>5
    <2> QED
        BY <2>2, <2>3, <2>4 DEF GrowsTo
<1>18. Abstract!Extend
    <2>1. Abstract!Innermost = m + 1
        BY <1>12 DEF Abstract!Innermost
    <2>2. Abstract!Grows(m + 1)
        BY <1>12, <1>15, <1>17, GrowsIs
    <2>3. \A i \in 1..((m + 1) - 1) : scopes'[i] = scopes[i]
        BY <1>12, <1>15
    <2> QED
        BY <1>15, <2>1, <2>2, <2>3 DEF Abstract!Extend
<1>19. CASE ~initialised
    <2>1. UNCHANGED il
        BY <1>19, Zenon DEF AddLocal
    <2>2. Uses' = Uses
        BY <2>1, NoUse DEF Places
    <2>3. UNCHANGED uses
        BY <2>2, LinkedFacts, LinkedNext
    <2> QED
        BY <1>18, <2>3 DEF Abstract!Declare
<1>20. CASE initialised
    <2>1. PICK u : u = Instr("op_get_var_addr", name, e, size)
        OBVIOUS
    <2>2. u \in Instruction /\ u.found = e
        <3>1. "op_get_var_addr" \in Ops /\ name \in Names
            BY <1>1 DEF Ops, Variable
        <3>2. e \in Entities
            BY <1>1, <1>3 DEF Entity, Entities, Kinds
        <3> QED
            BY <2>1, <3>1, <3>2, InstrTyped DEF Places
    <2>3. il' = Append(il, u)
        BY <1>1, <1>20, <2>1, Zenon DEF AddLocal
    <2>4. uses' = Append(uses, e)
        <3>1. Uses' = Append(Uses, e)
            BY <1>6, <2>2, <2>3, OneUse DEF Places
        <3> QED
            BY <3>1, LinkedFacts, LinkedNext
    <2>5. Value(scopes', name) = e
        <3>1. name \in DOMAIN M /\ M[name] = e
            <4>1. name \in NamesOf(vs)
                BY <1>5, NamedIn
            <4> QED
                BY <1>6, <1>16, <4>1, ScopeOfFacts
        <3>2. Value(Append(s, M), name) = M[name]
            BY <1>14, <3>1, ValueAppend
        <3> QED
            BY <1>11, <3>1, <3>2
    <2>6. name \in Abstract!NamesInScope' /\ Abstract!Meaning(name)' = e
        BY <1>6, <2>5, MeaningIsNext
    <2> QED
        BY <1>18, <2>4, <2>6 DEF Abstract!DeclareAndUse
<1> QED
    BY <1>19, <1>20

LEMMA DeclarationSimulated ==
    ASSUME Simulated, NEW d \in Declarators, NEW initialised \in BOOLEAN,
           LocalVariable(d, initialised) \/ LocalContinued(d, initialised)
    PROVE  Abstract!Declare \/ Abstract!DeclareAndUse
<1> USE DEF Simulated, Places
<1>1. d \in Declarator /\ pc = "body"
    BY ProgramAssumption DEF LocalVariable, LocalContinued
<1>2. CASE LocalVariable(d, initialised)
    <2>1. PICK v : v = Full(Zeroed, d)
        OBVIOUS
    <2>2. v \in Variable /\ v.type = d.type
        BY <1>1, <2>1, BlankTyped, FullTyped, FullFields
    <2>3. find_type(v.type) # Nothing
        BY <1>2, <2>2 DEF LocalVariable, Known
    <2>4. PICK size : size = p_get_size(v)
        OBVIOUS
    <2>5. size \in Nat
        BY <2>2, <2>3, <2>4, SizesTyped DEF Typed, SizeKnown
    <2>6. AddLocal(v, size, initialised)
        BY <1>2, <2>1, <2>4, Zenon DEF LocalVariable
    <2> QED
        BY <1>1, <2>2, <2>5, <2>6, LocalDeclares
<1>3. CASE LocalContinued(d, initialised)
    <2>1. PICK var : var = blocks[parent].locals[first]
        OBVIOUS
    <2>2. first # 0 /\ parent \in 1..Len(blocks) /\ first \in 1..Len(blocks[parent].locals)
        BY <1>1, <1>3 DEF LocalContinued, Open, Typed
    <2>3. var \in Variable /\ find_type(var.type) # Nothing
        <3>1. blocks[parent] \in Block
            BY <2>2, ElementTyped DEF Typed
        <3>2. blocks[parent].locals \in Seq(Variable)
            BY <3>1 DEF Block
        <3> QED
            BY <2>1, <2>2, <3>2, ElementTyped DEF TypesKnown
    <2>4. PICK v : v = Partial(Zeroed, var, d)
        OBVIOUS
    <2>5. v \in Variable
        BY <1>1, <2>3, <2>4, BlankTyped, PartialTyped
    <2>6. PICK size : size = p_get_size(var)
        OBVIOUS
    <2>7. size \in Nat
        BY <2>3, <2>6, SizesTyped DEF Typed, SizeKnown
    <2>8. AddLocal(v, size, initialised)
        BY <1>3, <2>1, <2>4, <2>6, Zenon DEF LocalContinued
    <2> QED
        BY <1>1, <2>5, <2>7, <2>8, LocalDeclares
<1> QED
    BY <1>2, <1>3

\* Global declarations only make the tables of file scope grow.
LEMMA GlobalSimulated ==
    ASSUME Simulated, parent = 0, UNCHANGED <<parent, il>>,
           Grown(constants, constants'), Grown(types, types')
    PROVE  Abstract!Declare
<1>1. FileGrown
    BY TablesGrown DEF Simulated, TablesKept
<1>2. Uses' = Uses
    BY NoUse DEF Simulated, Places
<1> QED
    BY <1>1, <1>2, FileDeclares DEF Simulated

LEMMA NextSimulated ==
    ASSUME Simulated, Next
    PROVE  Abstract!Next \/ UNCHANGED <<scopes, uses>>
<1>1. /\ types \in Seq(Type) /\ constants \in Seq(Constant)
      /\ Grown(types, types) /\ Grown(constants, constants)
    BY GrownSame DEF Simulated, Places, Typed
<1>2. pc = "global" => parent = 0
    BY DEF Simulated, Places, Open
<1>3. ASSUME NEW d \in Declarators, NEW semicolon \in BOOLEAN, GlobalVariable(d, semicolon)
      PROVE  Abstract!Declare
    <2>1. pc = "global" /\ UNCHANGED <<types, constants, parent, il>>
        BY <1>3, Zenon DEF GlobalVariable
    <2> QED
        BY <1>1, <1>2, <2>1, GlobalSimulated
<1>4. ASSUME NEW name \in FunctionNames, NEW ps \in Parameters, Prototype(name, ps)
      PROVE  Abstract!Declare
    <2>1. pc = "global" /\ UNCHANGED <<types, constants, parent, il>>
        BY <1>4, Zenon DEF Prototype
    <2> QED
        BY <1>1, <1>2, <2>1, GlobalSimulated
<1>5. ASSUME NEW name \in FunctionNames, NEW ps \in Parameters, FunctionDefinition(name, ps)
      PROVE  Abstract!EnterFunction
    BY <1>5, FunctionEnters
<1>6. ASSUME NEW name \in TypeNames, NEW es \in Enumerators, TypedefEnum(name, es)
      PROVE  Abstract!Declare
    <2>1. pc = "global" /\ UNCHANGED <<parent, il>> /\ types' = Append(types, BuiltIn(name, 4))
        BY <1>6, Zenon DEF TypedefEnum
    <2>2. Grown(types, types')
        BY <1>1, <2>1, AppendGrown
    <2>3. Grown(constants, constants')
        BY <1>6, ConstantsGrown DEF Simulated
    <2> QED
        BY <1>2, <2>1, <2>2, <2>3, GlobalSimulated
<1>7. ASSUME NEW name \in TypeNames, NEW ds \in Fields, TypedefStruct(name, ds)
      PROVE  Abstract!Declare
    <2>1. PICK t : types' = Append(types, t)
        BY <1>7, Zenon DEF TypedefStruct
    <2>2. pc = "global" /\ UNCHANGED <<constants, parent, il>>
        BY <1>7, Zenon DEF TypedefStruct
    <2>3. Grown(types, types')
        BY <1>1, <2>1, AppendGrown
    <2> QED
        BY <1>1, <1>2, <2>2, <2>3, GlobalSimulated
<1>8. ASSUME NEW name \in TypeNames, NEW k \in 1..Len(types),
             TypedefType(name, types[k].name)
      PROVE  Abstract!Declare
    <2>1. PICK t : types' = Append(types, t)
        BY <1>8, Zenon DEF TypedefType
    <2>2. pc = "global" /\ UNCHANGED <<constants, parent, il>>
        BY <1>8, Zenon DEF TypedefType
    <2>3. Grown(types, types')
        BY <1>1, <2>1, AppendGrown
    <2> QED
        BY <1>1, <1>2, <2>2, <2>3, GlobalSimulated
<1>9. CASE Finish
    <2>1. pc = "global" /\ UNCHANGED <<types, constants, parent, il>>
        BY <1>9, Zenon DEF Finish
    <2> QED
        BY <1>1, <1>2, <2>1, GlobalSimulated DEF Abstract!Next
<1>10. ASSUME NEW d \in Declarators, NEW initialised \in BOOLEAN,
              LocalVariable(d, initialised) \/ LocalContinued(d, initialised)
       PROVE  Abstract!Declare \/ Abstract!DeclareAndUse
    BY <1>10, DeclarationSimulated
<1>11. CASE OpenBlock
    BY <1>11, BlockOpens DEF Abstract!Next
<1>12. CASE CloseBlock
    BY <1>12, BlockCloses DEF Abstract!Next
<1>13. ASSUME NEW name \in UsedNames,
              UseStatement(name) \/ \E called \in BOOLEAN : UseOperand(name, called)
       PROVE  Abstract!Use \/ UNCHANGED <<scopes, uses>>
    <2>1. name \in Names
        BY UsedNamesTyped
    <2>2. Operand(name) \in Entities /\ Statement(name) \in Entities
        BY FoundTyped DEF Simulated
    <2>3. CASE UseStatement(name)
        <3>1. PICK found : found = Statement(name)
            OBVIOUS
        <3>2. pc = "body" /\ UseAs(name, found, TRUE) /\ found.kind # "type"
            BY <2>3, <3>1 DEF UseStatement
        <3>3. found # Nothing => found = Look(name, parent)
            BY <3>1, <3>2, StatementLook DEF Simulated
        <3> QED
            BY <2>1, <2>2, <3>1, <3>2, <3>3, NameUsed
    <2>4. ASSUME NEW called \in BOOLEAN, UseOperand(name, called)
          PROVE  Abstract!Use \/ UNCHANGED <<scopes, uses>>
        <3>1. PICK found : found = Operand(name)
            OBVIOUS
        <3>2. pc = "body" /\ UseAs(name, found, called)
            BY <2>4, <3>1 DEF UseOperand
        <3>3. found # Nothing => found = Look(name, parent)
            BY <3>1, <3>2, OperandLook DEF Simulated
        <3> QED
            BY <2>1, <2>2, <3>1, <3>2, <3>3, NameUsed
    <2> QED
        BY <1>13, <2>3, <2>4
<1> QED
    BY <1>3, <1>4, <1>5, <1>6, <1>7, <1>8, <1>9, <1>10, <1>11, <1>12, <1>13, Zenon
       DEF Next, Abstract!Next

-----------------------------------------------------------------------------
(* The theorem.                                                            *)

LEMMA InitSimulated == ASSUME MCInit PROVE Abstract!Init
<1>1. Places
    BY InitPlaces DEF MCInit
<1>2. scopes = Stack[0] /\ uses = Found[Len(il)]
    BY ScopesIs, UsesIs DEF MCInit, Init
<1>3. scopes = << FileScope >>
    BY <1>1, <1>2, StackProperties DEF Places
<1>4. Len(scopes) = 1
    BY <1>3
<1>5. uses = << >>
    <2>1. \A i \in 1..Len(il) : il[i].found = Nothing
        <3>1. PICK a, b, c, d, e, f, g :
                  /\ a = Plain("op_label") /\ b = Plain("op_start")
                  /\ c = [Plain("op_function_call") EXCEPT !.name = "main"]
                  /\ d = Plain("op_exit")
                  /\ e = [Plain("op_entry_point") EXCEPT !.name = "__syscall"]
                  /\ f = Plain("op_syscall") /\ g = Plain("op_exit_point")
            OBVIOUS
        <3>2. /\ a.found = Nothing /\ b.found = Nothing /\ c.found = Nothing
              /\ d.found = Nothing /\ e.found = Nothing /\ f.found = Nothing
              /\ g.found = Nothing
            <4>1. PICK nothing : nothing = Nothing
                OBVIOUS
            <4>2. /\ Plain("op_label").found = nothing /\ Plain("op_start").found = nothing
                  /\ Plain("op_exit").found = nothing /\ Plain("op_syscall").found = nothing
                  /\ Plain("op_exit_point").found = nothing
                BY <4>1 DEF Plain
            <4>3. c.found = nothing /\ e.found = nothing
                BY <3>1, <4>1 DEF Plain
            <4> QED
                BY <3>1, <4>1, <4>2, <4>3
        <3>3. il = << a, b, c, a, d, e, f, g >>
            BY <3>1 DEF MCInit, Init, Prologue
        <3>4. \A i \in 1..Len(il) : il[i] \in {a, b, c, d, e, f, g}
            BY <3>3
        <3> QED
            BY <3>2, <3>4
    <2> DEFINE Bad == {i \in 0..Len(il) : Found[i] # << >>}
    <2>2. Typed /\ Len(il) \in Nat
        BY <1>1 DEF Places, Typed
    <2>3. Bad = {}
        <3> SUFFICES ASSUME Bad # {} PROVE FALSE
            OBVIOUS
        <3>1. PICK x \in Bad : \A y \in Bad : x <= y
            <4>1. Bad \subseteq Nat
                BY <2>2
            <4> QED
                BY <4>1, SmallestMember
        <3>2. x # 0
            BY <2>2, <3>1, FoundProperties
        <3>3. x \in 1..Len(il) /\ x - 1 \in 0..Len(il) /\ ~(x <= x - 1)
            BY <2>2, <3>1, <3>2
        <3>4. Found[x] = Found[x - 1]
            BY <2>1, <2>2, <3>3, FoundProperties
        <3> QED
            BY <3>1, <3>3, <3>4
    <2>4. Len(il) \in 0..Len(il)
        BY <2>2
    <2> QED
        BY <1>2, <2>3, <2>4
<1> QED
    BY <1>4, <1>5 DEF Abstract!Init

\* In a program the compiler supports, every name the parser takes for a
\* constant, a variable or a function is taken for the one C means by it: that
\* of the innermost block that declares it, a parameter, or what file scope
\* has; and every step declares new entities in the innermost scope only, opens
\* or closes one, or uses what is in scope.
THEOREM ImplementsScope == SupportedSpec => FollowsScope
<1> DEFINE Inv == Places /\ AsMeant /\ NamesApart /\ Apart /\ Linked
           Step == /\ Next /\ Bounded' /\ SameParameters /\ DeclaredBeforeUse /\ SameWidth
                   /\ Supported' /\ scopes' = Scopes' /\ uses' = Uses'
<1>1. MCInit => Inv
    BY InitPlaces, InitAsMeant, InitApart, Zenon DEF MCInit, Linked
<1>2. ASSUME Inv, Step
      PROVE  Inv' /\ Simulated
    <2>1. Places'
        BY <1>2, NextPlaces
    <2>2. NamesApart' /\ Apart'
        <3>1. (Supported => NamesApart)' /\ (Supported => Apart)'
            BY SupportedApart, SupportedIsApart, PTL
        <3> QED
            BY <1>2, <3>1
    <2>3. Typed /\ Nested /\ Typed' /\ Nested'
        BY <1>2, <2>1 DEF Places
    <2>4. Stepped
        BY <1>2, <2>2, <2>3, NextStepped
    <2>5. AsMeant'
        BY <1>2, <2>2, <2>3, <2>4, AsMeantKept DEF Stepped
    <2>6. Linked'
        BY <1>2, Zenon DEF Linked
    <2> QED
        BY <1>2, <2>1, <2>2, <2>4, <2>5, <2>6, Zenon DEF Simulated, Stepped
<1>3. ASSUME Inv, UNCHANGED <<vars, scopes, uses>>
      PROVE  Inv'
    <2>1. Places'
        BY <1>3, StutterPlaces
    <2>2. NamesApart'
        BY <1>3, Zenon DEF NamesApart, ParamsOf, vars
    <2>3. UNCHANGED <<constants, types, functions, globals, blocks, il, parent>>
        BY <1>3 DEF vars
    <2>4. /\ Grown(globals, globals') /\ Grown(functions, functions')
          /\ TablesKept /\ CodeKept /\ NewRight /\ SameParameters /\ DeclaredBeforeUse
        <3>1. Grown(globals, globals') /\ Grown(functions, functions')
            BY <1>3, <2>3, GrownSame DEF Places, Typed
        <3>2. TablesKept /\ CodeKept /\ NewRight
            BY <1>3, <2>3, <3>1, SameTables, NoCode DEF Places
        <3> QED
            BY <2>3, <3>1, <3>2, Zenon DEF SameParameters, DeclaredBeforeUse
    <2>5. AsMeant'
        BY <1>3, <2>1, <2>2, <2>4, AsMeantKept DEF Places
    <2>6. Apart'
        <3>1. FileTables' = FileTables
            BY <2>3, Zenon DEF FileTables
        <3>2. \A f : ParamsOf(f)' = ParamsOf(f)
            BY <2>3, Zenon DEF ParamsOf
        <3> QED
            BY <1>3, <2>3, <3>1, <3>2 DEF Apart
    <2>7. Linked'
        <3>1. FileScope' = FileScope
            BY <2>3, FileScopeKept
        <3>2. BlocksKept
            BY <2>4, <3>1, ParamScopesKept DEF BlocksKept, TablesKept
        <3>3. Stack'[parent] = Stack[parent]
            BY <1>3, <2>1, <2>3, <3>2, StackKept, LinkedFacts DEF Places
        <3>4. Scopes' = Scopes
            <4>1. (Scopes = Stack[parent])'
                BY ScopesIs, PTL
            <4> QED
                BY <2>3, <3>3, <4>1, ScopesIs
        <3>5. Uses' = Uses
            BY <1>3, <2>1, <2>3, NoUse DEF Places
        <3> QED
            BY <1>3, <3>4, <3>5 DEF Linked
    <2> QED
        BY <2>1, <2>2, <2>5, <2>6, <2>7
<1>4. MCInit => Abstract!Init
    BY InitSimulated
<1>5. Inv /\ [Step]_<<vars, scopes, uses>> => Inv' /\ [Abstract!Next]_<<scopes, uses>>
    <2>1. ASSUME Inv, Step PROVE Abstract!Next \/ UNCHANGED <<scopes, uses>>
        BY <1>2, <2>1, NextSimulated
    <2> QED
        BY <1>2, <1>3, <2>1
<1> QED
    BY <1>1, <1>4, <1>5, PTL DEF SupportedSpec, FollowsScope, Abstract!Spec, Abstract!vars
=============================================================================
