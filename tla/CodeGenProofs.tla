--------------------------- MODULE CodeGenProofs ---------------------------
(***************************************************************************)
(* Proofs about the code generator, for every well-formed program and both *)
(* architectures: the second pass emits exactly what the first measured;   *)
(* and in the frames it lays out what is alive at the same time does not   *)
(* overlap, and lies in the space that is reserved.                        *)
(***************************************************************************)
EXTENDS CodeGen, SequenceTheorems, WellFoundedInduction, TLAPS

-----------------------------------------------------------------------------
(* Natural numbers and sums.                                               *)

\* A set of natural numbers has a least element.
LEMMA LeastNatural ==
    ASSUME NEW T, T \subseteq Nat, T # {}
    PROVE  \E x \in T : \A y \in T : x <= y
<1> DEFINE R == OpToRel(<, Nat)
<1>1. IsWellFoundedOn(R, Nat)
    BY NatLessThanWellFounded
<1>2. \A x, y \in Nat : <<y, x>> \in R <=> y < x
    BY DEF OpToRel
<1> HIDE DEF R
<1>3. PICK x \in T : \A y \in T : ~(<<y, x>> \in R)
    BY <1>1, WFMin
<1>4. \A y \in T : ~(y < x) /\ x \in Nat /\ y \in Nat
    BY <1>2, <1>3
<1>5. \A y \in T : x <= y
    BY <1>4
<1> QED
    BY <1>3, <1>5

\* Induction over the natural numbers, for a set.
LEMMA Induction ==
    ASSUME NEW T, 0 \in T, \A n \in Nat : n \in T => n + 1 \in T
    PROVE  Nat \subseteq T
<1> DEFINE U == Nat \ T
<1> SUFFICES ASSUME U # {} PROVE FALSE
    OBVIOUS
<1>1. PICK x \in U : \A y \in U : x <= y
    BY LeastNatural
<1>2. x \in Nat /\ x # 0 /\ x - 1 \in Nat /\ x - 1 < x
    BY <1>1
<1>3. x - 1 \in T
    BY <1>1, <1>2
<1>4. (x - 1) + 1 \in T
    BY <1>2, <1>3
<1> QED
    BY <1>1, <1>2, <1>4

\* There is a function that holds the sums.
LEMMA SumsExist ==
    ASSUME NEW n \in Nat, NEW s \in [1..n -> Nat]
    PROVE  \E f \in [0..n -> Nat] :
               f = [i \in 0..n |-> IF i = 0 THEN 0 ELSE f[i - 1] + s[i]]
<1> DEFINE D(f, k) == f[0] = 0 /\ \A i \in 1..k : f[i] = f[i - 1] + s[i]
           Has(k) == \E f \in [0..k -> Nat] : D(f, k)
           T == {k \in Nat : k <= n => Has(k)}
<1>1. Has(0)
    <2>1. [i \in 0..0 |-> 0] \in [0..0 -> Nat] /\ D([i \in 0..0 |-> 0], 0)
        OBVIOUS
    <2> QED
        BY <2>1
<1>2. ASSUME NEW k \in Nat, k + 1 <= n, Has(k)
      PROVE  Has(k + 1)
    <2>1. PICK f \in [0..k -> Nat] : D(f, k)
        BY <1>2
    <2> DEFINE g == [i \in 0..(k + 1) |-> IF i = k + 1 THEN f[k] + s[k + 1] ELSE f[i]]
    <2>2. g \in [0..(k + 1) -> Nat]
        BY <1>2, <2>1
    <2>3. D(g, k + 1)
        BY <1>2, <2>1
    <2> HIDE DEF g, D
    <2> QED
        BY <2>2, <2>3
<1>3. n \in T
    <2> HIDE DEF Has
    <2>1. 0 \in T
        BY <1>1
    <2>2. \A k \in Nat : k \in T => k + 1 \in T
        BY <1>2
    <2> HIDE DEF T
    <2> QED
        BY <2>1, <2>2, Induction
<1>4. PICK f \in [0..n -> Nat] : D(f, n)
    <2> HIDE DEF D
    <2> QED
        BY <1>3
<1>5. f = [i \in 0..n |-> IF i = 0 THEN 0 ELSE f[i - 1] + s[i]]
    BY <1>4
<1> QED
    BY <1>4, <1>5

\* What Sums computes.
LEMMA SumsFacts ==
    ASSUME NEW s \in Seq(Nat)
    PROVE  /\ Sums(s) \in [0..Len(s) -> Nat]
           /\ Sums(s)[0] = 0
           /\ \A i \in 0..(Len(s) - 1) : Sums(s)[i + 1] = Sums(s)[i] + s[i + 1]
<1> DEFINE n == Len(s)
           Recurs(f) == f = [i \in 0..n |-> IF i = 0 THEN 0 ELSE f[i - 1] + s[i]]
<1>0. n \in Nat /\ s \in [1..n -> Nat]
    OBVIOUS
<1> HIDE DEF n
<1>1. PICK f \in [0..n -> Nat] : Recurs(f)
    BY <1>0, SumsExist
<1>2. Sums(s) = CHOOSE g : Recurs(g)
    BY DEF Sums, n
<1>3. Recurs(Sums(s))
    <2> HIDE DEF Recurs
    <2> QED
        BY <1>1, <1>2
<1>4. \A i \in 0..n : f[i] = IF i = 0 THEN 0 ELSE f[i - 1] + s[i]
    BY <1>1
<1>5. \A i \in 0..n : Sums(s)[i] = IF i = 0 THEN 0 ELSE Sums(s)[i - 1] + s[i]
    BY <1>3
<1>6. Sums(s) = [i \in 0..n |-> Sums(s)[i]]
    BY <1>3
<1> DEFINE T == {k \in Nat : k <= n => Sums(s)[k] = f[k]}
<1>7. 0 \in T
    BY <1>4, <1>5
<1>8. ASSUME NEW k \in Nat, k \in T
      PROVE  k + 1 \in T
    <2> SUFFICES ASSUME k + 1 <= n
                 PROVE  Sums(s)[k + 1] = f[k + 1]
        OBVIOUS
    <2>1. k \in 0..n /\ k + 1 \in 0..n /\ k + 1 # 0 /\ (k + 1) - 1 = k
        BY <1>0
    <2>2. Sums(s)[k] = f[k]
        BY <1>8, <2>1
    <2> QED
        BY <1>4, <1>5, <2>1, <2>2
<1>9. Nat \subseteq T
    <2> HIDE DEF T
    <2> QED
        BY <1>7, <1>8, Induction
<1>10. \A i \in 0..n : Sums(s)[i] \in Nat
    BY <1>0, <1>9
<1>11. Sums(s) \in [0..n -> Nat]
    BY <1>6, <1>10
<1>12. \A i \in 0..(n - 1) : Sums(s)[i + 1] = Sums(s)[i] + s[i + 1]
    <2>1. ASSUME NEW i \in 0..(n - 1)
          PROVE  i + 1 \in 0..n /\ i + 1 # 0 /\ (i + 1) - 1 = i
        BY <1>0
    <2> QED
        BY <1>5, <2>1
<1> QED
    BY <1>0, <1>5, <1>11, <1>12 DEF n

-----------------------------------------------------------------------------
(* How many words an operation is.                                         *)

IsSeq(s) == \E S : s \in Seq(S)

\* Sequences of words, of one kind or the other, are appended.
LEMMA Appended ==
    ASSUME NEW s, NEW t, IsSeq(s), IsSeq(t)
    PROVE  IsSeq(s \o t) /\ Len(s \o t) = Len(s) + Len(t)
<1>1. PICK S : s \in Seq(S)
    BY DEF IsSeq
<1>2. PICK T : t \in Seq(T)
    BY DEF IsSeq
<1> DEFINE U == S \cup T
<1>3. s \in Seq(U) /\ t \in Seq(U)
    BY <1>1, <1>2
<1>4. s \o t \in Seq(U) /\ Len(s \o t) = Len(s) + Len(t)
    BY <1>3
<1> QED
    BY <1>4 DEF IsSeq

\* A sequence of n words.
Count(s, n) == IsSeq(s) /\ Len(s) = n

\* Tuples of one to five words.
LEMMA Tuples ==
    ASSUME NEW a, NEW b, NEW c, NEW d, NEW e
    PROVE  /\ Count(<< >>, 0)
           /\ Count(<<a>>, 1)
           /\ Count(<<a, b>>, 2)
           /\ Count(<<a, b, c>>, 3)
           /\ Count(<<a, b, c, d>>, 4)
           /\ Count(<<a, b, c, d, e>>, 5)
<1> DEFINE S == {a, b, c, d, e}
<1>1. /\ << >> \in Seq(S) /\ <<a>> \in Seq(S) /\ <<a, b>> \in Seq(S)
      /\ <<a, b, c>> \in Seq(S) /\ <<a, b, c, d>> \in Seq(S)
      /\ <<a, b, c, d, e>> \in Seq(S)
    OBVIOUS
<1>2. /\ Len(<< >>) = 0 /\ Len(<<a>>) = 1 /\ Len(<<a, b>>) = 2
      /\ Len(<<a, b, c>>) = 3 /\ Len(<<a, b, c, d>>) = 4
      /\ Len(<<a, b, c, d, e>>) = 5
    OBVIOUS
<1> QED
    BY <1>1, <1>2 DEF Count, IsSeq

AddressFns ==
    {"op_load_data_address", "op_get_global_addr", "op_get_function_addr", "op_get_local_addr"}

\* The words of the operations of RISC-V.
LEMMA RiscvWords ==
    ASSUME NEW st, NEW call
    PROVE  /\ call.fn \in AddressFns => Count(RV!Words(st, call), 2)
           /\ call.fn = "op_load_numeric_constant" =>
                  Count(RV!Words(st, call), IF RV!Small(call.val) THEN 1 ELSE 2)
           /\ call.fn \in {"op_read_addr", "op_write_addr", "op_jump", "op_return", "op_alu",
                           "op_log", "op_bit", "op_block", "op_store_param"} =>
                  Count(RV!Words(st, call), 1)
           /\ call.fn \in {"op_function_call", "op_pointer_call"} =>
                  Count(RV!Words(st, call), IF st.dest_reg = 10 THEN 1 ELSE 2)
           /\ call.fn \in {"op_push", "op_pop", "op_jz", "op_start"} =>
                  Count(RV!Words(st, call), 2)
           /\ call.fn \in {"op_cmp", "op_entry_point", "op_exit_point"} =>
                  Count(RV!Words(st, call), 4)
           /\ call.fn = "op_syscall" => Count(RV!Words(st, call), 5)
           /\ call.fn = "op_exit" => Count(RV!Words(st, call), 3)
<1> DEFINE W == RV!Words(st, call)
<1>1. ASSUME call.fn \in AddressFns
      PROVE  Count(W, 2)
    <2>1. W = RV!Address(st, call)
        BY <1>1 DEF RV!Words, AddressFns
    <2>2. Count(RV!Address(st, call), 2)
        BY <1>1, Tuples DEF RV!Address, RV!FromPc, RV!FromZero, AddressFns
    <2> QED
        BY <2>1, <2>2
<1>2. ASSUME call.fn = "op_load_numeric_constant"
      PROVE  Count(W, IF RV!Small(call.val) THEN 1 ELSE 2)
    <2>1. W = RV!LoadConstant(st.dest_reg, call.val)
        BY <1>2 DEF RV!Words
    <2> QED
        BY <2>1, Tuples DEF RV!LoadConstant, RV!FromZero
<1>3. ASSUME call.fn \in {"op_read_addr", "op_write_addr"}
      PROVE  Count(W, 1)
    <2>1. W = RV!Memory(st, call)
        BY <1>3 DEF RV!Words
    <2>2. Count(RV!Memory(st, call), 1)
        BY Tuples DEF RV!Memory
    <2> QED
        BY <2>1, <2>2
<1>4. ASSUME call.fn \in {"op_jump", "op_return", "op_alu", "op_log", "op_bit", "op_block",
                          "op_store_param"}
      PROVE  Count(W, 1)
    BY <1>4, Tuples DEF RV!Words
<1>5. ASSUME call.fn \in {"op_function_call", "op_pointer_call"}
      PROVE  Count(W, IF st.dest_reg = 10 THEN 1 ELSE 2)
    <2>1. PICK w : W = <<w>> \o RV!Result(st)
        BY <1>5 DEF RV!Words
    <2>2. Count(<<w>>, 1)
        BY Tuples
    <2>3. Count(RV!Result(st), IF st.dest_reg = 10 THEN 0 ELSE 1)
        BY Tuples DEF RV!Result, RV!A0
    <2> QED
        BY <2>1, <2>2, <2>3, Appended DEF Count
<1>6. ASSUME call.fn = "op_jz"
      PROVE  Count(W, 2)
    <2>1. W = RV!JumpIf(st.dest_reg, call.op, call.ofs)
        BY <1>6 DEF RV!Words
    <2> QED
        BY <2>1, Tuples DEF RV!JumpIf
<1>7. ASSUME call.fn \in {"op_push", "op_pop", "op_start"}
      PROVE  Count(W, 2)
    BY <1>7, Tuples DEF RV!Words
<1>8. ASSUME call.fn \in {"op_cmp", "op_entry_point", "op_exit_point"}
      PROVE  Count(W, 4)
    BY <1>8, Tuples DEF RV!Words, RV!Cmp, RV!EntryPoint, RV!ExitPoint
<1>9. call.fn = "op_syscall" => Count(W, 5)
    BY Tuples DEF RV!Words, RV!Syscall
<1>10. call.fn = "op_exit" => Count(W, 3)
    BY Tuples DEF RV!Words
<1> HIDE DEF W
<1> QED
    BY <1>1, <1>2, <1>3, <1>4, <1>5, <1>6, <1>7, <1>8, <1>9, <1>10 DEF W

\* The words of the operations of ARM.
LEMMA ArmWords ==
    ASSUME NEW st, NEW call
    PROVE  /\ call.fn \in AddressFns => Count(AR!Words(st, call), 2)
           /\ call.fn = "op_load_numeric_constant" =>
                  Count(AR!Words(st, call), IF AR!Small(call.val) THEN 1 ELSE 2)
           /\ call.fn \in {"op_read_addr", "op_write_addr", "op_jump", "op_return", "op_alu",
                           "op_log", "op_bit", "op_block", "op_store_param"} =>
                  Count(AR!Words(st, call), 1)
           /\ call.fn \in {"op_function_call", "op_pointer_call"} =>
                  Count(AR!Words(st, call), IF st.dest_reg = 0 THEN 1 ELSE 2)
           /\ call.fn \in {"op_push", "op_pop", "op_jz", "op_start"} =>
                  Count(AR!Words(st, call), 2)
           /\ call.fn = "op_cmp" => Count(AR!Words(st, call), 3)
           /\ call.fn \in {"op_entry_point", "op_exit_point"} =>
                  Count(AR!Words(st, call), 4)
           /\ call.fn = "op_syscall" => Count(AR!Words(st, call), 5)
           /\ call.fn = "op_exit" => Count(AR!Words(st, call), 3)
<1> DEFINE W == AR!Words(st, call)
<1>1. ASSUME call.fn \in AddressFns
      PROVE  Count(W, 2)
    <2>1. W = AR!Address(st, call)
        BY <1>1 DEF AR!Words, AddressFns
    <2>2. Count(AR!Address(st, call), 2)
        BY <1>1, Tuples DEF AR!Address, AR!Wide, AddressFns
    <2> QED
        BY <2>1, <2>2
<1>2. ASSUME call.fn = "op_load_numeric_constant"
      PROVE  Count(W, IF AR!Small(call.val) THEN 1 ELSE 2)
    <2>1. W = AR!LoadConstant(st.dest_reg, call.val)
        BY <1>2 DEF AR!Words
    <2> QED
        BY <2>1, Tuples DEF AR!LoadConstant, AR!Wide
<1>3. ASSUME call.fn \in {"op_read_addr", "op_write_addr"}
      PROVE  Count(W, 1)
    <2>1. W = AR!Memory(st, call)
        BY <1>3 DEF AR!Words
    <2>2. Count(AR!Memory(st, call), 1)
        BY Tuples DEF AR!Memory
    <2> QED
        BY <2>1, <2>2
<1>4. ASSUME call.fn \in {"op_jump", "op_return", "op_alu", "op_log", "op_bit", "op_block",
                          "op_store_param"}
      PROVE  Count(W, 1)
    BY <1>4, Tuples DEF AR!Words
<1>5. ASSUME call.fn \in {"op_function_call", "op_pointer_call"}
      PROVE  Count(W, IF st.dest_reg = 0 THEN 1 ELSE 2)
    <2>1. PICK w : W = <<w>> \o AR!Result(st)
        BY <1>5 DEF AR!Words
    <2>2. Count(<<w>>, 1)
        BY Tuples
    <2>3. Count(AR!Result(st), IF st.dest_reg = 0 THEN 0 ELSE 1)
        BY Tuples DEF AR!Result, AR!R0
    <2> QED
        BY <2>1, <2>2, <2>3, Appended DEF Count
<1>6. ASSUME call.fn = "op_jz"
      PROVE  Count(W, 2)
    <2>1. W = AR!JumpIf(st.dest_reg, call.op, call.ofs)
        BY <1>6 DEF AR!Words
    <2> QED
        BY <2>1, Tuples DEF AR!JumpIf
<1>7. ASSUME call.fn \in {"op_push", "op_pop", "op_start"}
      PROVE  Count(W, 2)
    BY <1>7, Tuples DEF AR!Words
<1>8. ASSUME call.fn \in {"op_entry_point", "op_exit_point"}
      PROVE  Count(W, 4)
    BY <1>8, Tuples DEF AR!Words, AR!EntryPoint, AR!ExitPoint
<1>11. call.fn = "op_cmp" => Count(W, 3)
    BY Tuples DEF AR!Words, AR!Cmp
<1>9. call.fn = "op_syscall" => Count(W, 5)
    BY Tuples DEF AR!Words, AR!Syscall
<1>10. call.fn = "op_exit" => Count(W, 3)
    BY Tuples DEF AR!Words
<1> HIDE DEF W
<1> QED
    BY <1>1, <1>2, <1>3, <1>4, <1>5, <1>6, <1>7, <1>8, <1>9, <1>10, <1>11 DEF W

\* How long RISC-V code is for an instruction that calls one operation.
LEMMA RiscvLength ==
    ASSUME NEW i, NEW p, NEW l
    PROVE  /\ i.op \in {"op_load_data_address", "op_jz", "op_jnz", "op_push", "op_pop",
                        "op_get_var_addr", "op_start"} => RV!CodeLength(i, p, l) = 8
           /\ i.op = "op_load_numeric_constant" =>
                  RV!CodeLength(i, p, l) = IF RV!Small(i.int_param1) THEN 4 ELSE 8
           /\ i.op \in {"op_function_call", "op_pointer_call"} =>
                  RV!CodeLength(i, p, l) = IF i.param_no # 0 THEN 8 ELSE 4
           /\ i.op \in RV!Comparisons \cup {"op_exit_point"} => RV!CodeLength(i, p, l) = 16
           /\ i.op = "op_syscall" => RV!CodeLength(i, p, l) = 20
           /\ i.op = "op_exit" => RV!CodeLength(i, p, l) = 12
           /\ i.op = "op_label" => RV!CodeLength(i, p, l) = 0
           /\ i.op = "op_entry_point" => RV!CodeLength(i, p, l) = 16 + 4 * p
           /\ i.op \in {"op_block_start", "op_block_end"} =>
                  RV!CodeLength(i, p, l) = IF l > 0 THEN 4 ELSE 0
           /\ i.op \in {"op_read_addr", "op_write_addr", "op_jump", "op_return", "op_generic"}
                       \cup (Operators \ RV!Comparisons) => RV!CodeLength(i, p, l) = 4
BY DEF RV!CodeLength, RV!Comparisons, Operators

\* How long ARM code is for an instruction that calls one operation.
LEMMA ArmLength ==
    ASSUME NEW i, NEW p, NEW l
    PROVE  /\ i.op \in {"op_load_data_address", "op_jz", "op_jnz", "op_push", "op_pop",
                        "op_get_var_addr", "op_start"} => AR!CodeLength(i, p, l) = 8
           /\ i.op = "op_load_numeric_constant" =>
                  AR!CodeLength(i, p, l) = IF AR!Small(i.int_param1) THEN 4 ELSE 8
           /\ i.op \in {"op_function_call", "op_pointer_call"} =>
                  AR!CodeLength(i, p, l) = IF i.param_no # 0 THEN 8 ELSE 4
           /\ i.op = "op_exit_point" => AR!CodeLength(i, p, l) = 16
           /\ i.op = "op_syscall" => AR!CodeLength(i, p, l) = 20
           /\ i.op \in RV!Comparisons \cup {"op_exit"} => AR!CodeLength(i, p, l) = 12
           /\ i.op = "op_label" => AR!CodeLength(i, p, l) = 0
           /\ i.op = "op_entry_point" => AR!CodeLength(i, p, l) = 16 + 4 * p
           /\ i.op \in {"op_block_start", "op_block_end"} =>
                  AR!CodeLength(i, p, l) = IF l > 0 THEN 4 ELSE 0
           /\ i.op \in {"op_read_addr", "op_write_addr", "op_jump", "op_return", "op_generic"}
                       \cup (Operators \ RV!Comparisons) => AR!CodeLength(i, p, l) = 4
<1>1. DOMAIN AR!Condition = RV!Comparisons
    BY DEF AR!Condition, RV!Comparisons
<1> QED
    BY <1>1 DEF AR!CodeLength, RV!Comparisons, Operators

\* The operation of the backend that c_generate calls for an instruction.
Calls(i, call) ==
    \/ i.op \in {"op_load_data_address", "op_read_addr", "op_write_addr", "op_jump",
                 "op_return", "op_function_call", "op_pointer_call", "op_push", "op_pop",
                 "op_exit_point", "op_start", "op_syscall", "op_exit"} /\ call.fn = i.op
    \/ i.op = "op_load_numeric_constant" /\ call.fn = i.op /\ call.val = i.int_param1
    \/ i.op = "op_get_var_addr" /\ call.fn \in AddressFns
    \/ i.op \in RV!Comparisons /\ call.fn = "op_cmp"
    \/ i.op \in Operators \ RV!Comparisons /\ call.fn \in {"op_alu", "op_log", "op_bit"}
    \/ i.op \in {"op_jz", "op_jnz"} /\ call.fn = "op_jz"

\* An operation emits as many words as the first pass counted.
LEMMA Measured ==
    ASSUME arch \in {"riscv", "arm"}, ii.param_no \in Nat, NEW call, Calls(ii, call)
    PROVE  \E n \in Nat : Count(Words(call), n) /\ CodeLength(ii) = 4 * n
<1>1. CASE arch = "riscv"
    <2>1. PICK p, l : CodeLength(ii) = RV!CodeLength(ii, p, l)
        BY <1>1 DEF CodeLength
    <2>2. PICK st : Words(call) = RV!Words(st, call) /\ st.dest_reg = ii.param_no + 10
        BY <1>1 DEF Words, DestReg, RV!r_dest_reg
    <2>3. st.dest_reg = 10 <=> ii.param_no = 0
        BY <2>2
    <2> QED
        BY <2>1, <2>2, <2>3, RiscvLength, RiscvWords DEF Calls, AddressFns
<1>2. CASE arch = "arm"
    <2>1. PICK p, l : CodeLength(ii) = AR!CodeLength(ii, p, l)
        BY <1>2 DEF CodeLength
    <2>2. PICK st : Words(call) = AR!Words(st, call) /\ st.dest_reg = ii.param_no
        BY <1>2 DEF Words, DestReg, AR!a_dest_reg
    <2> QED
        BY <2>1, <2>2, ArmLength, ArmWords DEF Calls, AddressFns
<1> QED
    BY <1>1, <1>2

-----------------------------------------------------------------------------
(* The inductive invariant.                                                *)

\* What the first pass counts for each instruction.
Lengths == [i \in 1..Len(il) |-> CodeLength(il[i])]

SymbolEntry == [name : STRING, value : Nat]

\* Everything but the place the second pass has come to: what the phases
\* before left is exactly what they compute from the program.
Static ==
    /\ phase \in {"length", "size", "generate", "done", "error"}
    /\ arch \in {"riscv", "arm"}
    /\ program \in Programs
    /\ next \in 0..Len(il)
    /\ bd \in 0..Len(blocks)
    /\ IsSeq(code)
    /\ symbols \in Seq(SymbolEntry)
    /\ phase = "length" => code_offset = << >>
    /\ phase # "length" => code_offset = Sums(Lengths)
    /\ phase \in {"length", "size"} => next = 0 /\ code = << >>
    /\ phase \in {"generate", "done"} =>
           /\ layout = Placed
           /\ \A f \in 1..Len(functions) : ParamsSize(f) <= MaxFrame
           /\ \A b \in 1..Len(blocks) : LocalsSize(b) <= MaxFrame

IInv == Static /\ OffsetsAgree

\* The program is well formed, with what that says of its parts.
LEMMA ProgramFacts ==
    ASSUME program \in Programs
    PROVE  /\ WellFormed(program)
           /\ il \in Seq(Instruction) /\ Len(il) \in Nat
           /\ functions \in Seq(Function) /\ Len(functions) \in Nat
           /\ blocks \in Seq(Block) /\ Len(blocks) \in Nat
           /\ program.globals \in Seq(Variable) /\ program.data \in Nat
           /\ \A i \in 1..Len(il) : il[i] \in Instruction
           /\ \A f \in 1..Len(functions) : functions[f].params \in Seq(Variable)
           /\ \A b \in 1..Len(blocks) :
                  /\ blocks[b].locals \in Seq(Variable)
                  /\ blocks[b].parent \in 0..(b - 1)
                  /\ blocks[b].function \in 1..Len(functions)
<1>1. WellFormed(program)
    BY ProgramsAssumption
<1>2. program \in [il : Seq(Instruction), functions : Seq(Function), blocks : Seq(Block),
                   globals : Seq(Variable), data : Nat]
    BY <1>1 DEF WellFormed
<1>3. /\ il \in Seq(Instruction) /\ functions \in Seq(Function) /\ blocks \in Seq(Block)
      /\ program.globals \in Seq(Variable) /\ program.data \in Nat
    BY <1>2 DEF il, functions, blocks
<1>4. \A i \in 1..Len(il) : il[i] \in Instruction
    BY <1>3
<1>5. \A f \in 1..Len(functions) : functions[f] \in Function
    BY <1>3
<1>6. \A b \in 1..Len(blocks) : blocks[b] \in Block
    BY <1>3
<1>7. \A b \in 1..Len(blocks) : blocks[b].parent < b /\ blocks[b].function \in 1..Len(functions)
    BY <1>1 DEF WellFormed, blocks, functions
<1>8. ASSUME NEW f \in 1..Len(functions)
      PROVE  functions[f].params \in Seq(Variable)
    <2>1. functions[f] \in Function
        BY <1>5
    <2> QED
        BY <2>1 DEF Function
<1>9. ASSUME NEW b \in 1..Len(blocks)
      PROVE  blocks[b].locals \in Seq(Variable) /\ blocks[b].parent \in 0..(b - 1)
    <2>1. blocks[b] \in Block /\ blocks[b].parent < b
        BY <1>6, <1>7
    <2>2. blocks[b].locals \in Seq(Variable) /\ blocks[b].parent \in Nat
        BY <2>1 DEF Block
    <2> QED
        BY <2>1, <2>2
<1>10. Len(il) \in Nat /\ Len(functions) \in Nat /\ Len(blocks) \in Nat
    BY <1>3
<1> QED
    BY <1>1, <1>3, <1>4, <1>7, <1>8, <1>9, <1>10

\* The function an instruction names is found.
LEMMA FunctionFound ==
    ASSUME program \in Programs, NEW name, \E f \in 1..Len(functions) : functions[f].name = name
    PROVE  /\ Least(Named(functions, name)) \in 1..Len(functions)
           /\ find_function(name).params \in Seq(Variable)
<1> DEFINE S == Named(functions, name)
<1>1. S \subseteq Nat /\ S \subseteq 1..Len(functions) /\ S # {}
    BY ProgramFacts DEF Named
<1>2. \E k \in S : \A j \in S : k <= j
    BY <1>1, LeastNatural
<1>3. Least(S) \in S
    <2> HIDE DEF S
    <2> QED
        BY <1>2 DEF Least
<1> QED
    BY <1>1, <1>3, ProgramFacts DEF find_function

\* The first pass counts whole words.
LEMMA WholeWords ==
    ASSUME program \in Programs, arch \in {"riscv", "arm"}
    PROVE  \A i \in 1..Len(il) :
               \E n \in Nat : CodeLength(il[i]) = 4 * n
<1> SUFFICES ASSUME NEW i \in 1..Len(il)
             PROVE  \E n \in Nat : CodeLength(il[i]) = 4 * n
    OBVIOUS
<1>1. il[i] \in Instruction
    BY ProgramFacts
<1>2. il[i].op \in Ops
    BY <1>1 DEF Instruction
<1>3. CASE il[i].op = "op_entry_point"
    <2>1. \E f \in 1..Len(functions) : functions[f].name = il[i].name
        BY <1>3, ProgramFacts DEF WellFormed, il, functions
    <2> DEFINE n == Len(find_function(il[i].name).params)
    <2>2. n \in Nat
        BY <2>1, FunctionFound
    <2>3. CodeLength(il[i]) = 16 + 4 * n
        <3>1. arch = "riscv" => CodeLength(il[i]) = RV!CodeLength(il[i], n, 0)
            BY <1>3 DEF CodeLength
        <3>2. arch = "arm" => CodeLength(il[i]) = AR!CodeLength(il[i], n, 0)
            BY <1>3 DEF CodeLength
        <3> QED
            BY <1>3, <3>1, <3>2, RiscvLength, ArmLength
    <2> HIDE DEF n
    <2>4. 4 + n \in Nat /\ 16 + 4 * n = 4 * (4 + n)
        BY <2>2
    <2> QED
        BY <2>3, <2>4
<1>4. CASE il[i].op # "op_entry_point"
    <2>1. PICK p, l : CodeLength(il[i]) = IF arch = "riscv" THEN RV!CodeLength(il[i], p, l)
                                          ELSE AR!CodeLength(il[i], p, l)
        BY DEF CodeLength
    <2>2. CodeLength(il[i]) \in {0, 4, 8, 12, 16, 20}
        <3>1. RV!CodeLength(il[i], p, l) \in {0, 4, 8, 12, 16, 20}
            BY <1>2, <1>4, RiscvLength DEF Ops
        <3>2. AR!CodeLength(il[i], p, l) \in {0, 4, 8, 12, 16, 20}
            BY <1>2, <1>4, ArmLength DEF Ops
        <3> QED
            BY <2>1, <3>1, <3>2
    <2>3. \A k \in {0, 4, 8, 12, 16, 20} : \E n \in Nat : k = 4 * n
        <3>1. 0 = 4 * 0 /\ 4 = 4 * 1 /\ 8 = 4 * 2 /\ 12 = 4 * 3 /\ 16 = 4 * 4 /\ 20 = 4 * 5
            OBVIOUS
        <3> QED
            BY <3>1
    <2> QED
        BY <2>2, <2>3
<1> QED
    BY <1>3, <1>4

\* The lengths are a sequence of numbers, and the offsets its sums.
LEMMA OffsetFacts ==
    ASSUME program \in Programs, arch \in {"riscv", "arm"}
    PROVE  /\ Sums(Lengths) \in [0..Len(il) -> Nat]
           /\ Sums(Lengths)[0] = 0
           /\ \A i \in 0..(Len(il) - 1) :
                  Sums(Lengths)[i + 1] = Sums(Lengths)[i] + CodeLength(il[i + 1])
<1>1. Len(il) \in Nat
    BY ProgramFacts
<1>2. \A i \in 1..Len(il) : CodeLength(il[i]) \in Nat
    BY WholeWords
<1>3. Lengths \in Seq(Nat) /\ Len(Lengths) = Len(il)
    BY <1>1, <1>2 DEF Lengths
<1>4. \A i \in 0..(Len(il) - 1) : i + 1 \in 1..Len(il)
    BY <1>1
<1>5. \A i \in 0..(Len(il) - 1) : Lengths[i + 1] = CodeLength(il[i + 1])
    BY <1>4 DEF Lengths
<1> QED
    BY <1>3, <1>5, SumsFacts

\* The sizes of variables add up to a number.
LEMMA SizeFacts ==
    ASSUME NEW vs \in Seq(Variable)
    PROVE  \A k \in 0..Len(vs) : SizeOf(vs, k) \in Nat
<1> DEFINE sizes == [v \in 1..Len(vs) |-> vs[v].size]
<1>1. ASSUME NEW v \in 1..Len(vs)
      PROVE  vs[v].size \in Nat
    <2>1. vs[v] \in Variable
        OBVIOUS
    <2> QED
        BY <2>1 DEF Variable
<1>2. sizes \in Seq(Nat) /\ Len(sizes) = Len(vs)
    BY <1>1
<1> HIDE DEF sizes
<1>3. \A k \in 0..Len(vs) : Sums(sizes)[k] \in Nat
    BY <1>2, SumsFacts
<1> QED
    BY <1>3 DEF SizeOf, sizes

\* Align16 rounds up to a multiple of 16.
LEMMA Aligned ==
    ASSUME NEW n \in Nat
    PROVE  Align16(n) \in Nat /\ Align16(n) % 16 = 0 /\ Align16(n) >= n
<1>1. n % 16 \in 0..15 /\ n = 16 * (n \div 16) + (n % 16) /\ n \div 16 \in Nat
    OBVIOUS
<1>2. PICK q \in Nat, r \in 0..15 : n = 16 * q + r /\ n % 16 = r
    BY <1>1
<1>3. \A k \in Nat : (16 * k) % 16 = 0
    OBVIOUS
<1>4. CASE r = 0
    <2>1. Align16(n) = 16 * q
        BY <1>2, <1>4 DEF Align16
    <2> QED
        BY <1>2, <1>3, <1>4, <2>1
<1>5. CASE r > 0
    <2>1. Align16(n) = 16 * (q + 1)
        BY <1>2, <1>5 DEF Align16
    <2> QED
        BY <1>2, <1>3, <1>5, <2>1
<1> QED
    BY <1>2, <1>4, <1>5

\* The space of a function's parameters and of a block's locals.
LEMMA FrameSizes ==
    ASSUME program \in Programs
    PROVE  /\ \A f \in 1..Len(functions) : ParamsSize(f) \in Nat /\ ParamsSize(f) % 16 = 0
           /\ \A b \in 1..Len(blocks) : LocalsSize(b) \in Nat /\ LocalsSize(b) % 16 = 0
<1>1. ASSUME NEW f \in 1..Len(functions)
      PROVE  ParamsSize(f) \in Nat /\ ParamsSize(f) % 16 = 0
    <2>1. functions[f].params \in Seq(Variable)
        BY ProgramFacts
    <2>2. SizeOf(functions[f].params, Len(functions[f].params)) \in Nat
        BY <2>1, SizeFacts
    <2> QED
        BY <2>2, Aligned DEF ParamsSize
<1>2. ASSUME NEW b \in 1..Len(blocks)
      PROVE  LocalsSize(b) \in Nat /\ LocalsSize(b) % 16 = 0
    <2>1. blocks[b].locals \in Seq(Variable)
        BY ProgramFacts
    <2>2. SizeOf(blocks[b].locals, Len(blocks[b].locals)) \in Nat
        BY <2>1, SizeFacts
    <2> QED
        BY <2>2, Aligned DEF LocalsSize
<1> QED
    BY <1>1, <1>2

-----------------------------------------------------------------------------
(* Steps.                                                                  *)

\* Nothing the invariant computes from the program changes with it.
LEMMA Unchanged ==
    ASSUME UNCHANGED <<arch, program>>
    PROVE  /\ il' = il /\ functions' = functions /\ blocks' = blocks
           /\ Lengths' = Lengths /\ Placed' = Placed
           /\ \A f : ParamsSize(f)' = ParamsSize(f)
           /\ \A b : LocalsSize(b)' = LocalsSize(b)
<1>1. il' = il /\ functions' = functions /\ blocks' = blocks
    BY DEF il, functions, blocks
<1>2. /\ \A f : ParamsSize(f)' = ParamsSize(f)
      /\ \A b : LocalsSize(b)' = LocalsSize(b)
    BY <1>1 DEF ParamsSize, LocalsSize
<1>3. \A i : find_function(i)' = find_function(i)
    BY <1>1 DEF find_function
<1>4. \A i : CodeLength(i)' = CodeLength(i)
    BY <1>1, <1>3 DEF CodeLength
<1>5. Lengths' = Lengths
    BY <1>1, <1>4 DEF Lengths
<1>6. \A b : BlockBase(b)' = BlockBase(b)
    <2>1. \A b : c_size_block(b)' = c_size_block(b)
        BY <1>1, <1>2 DEF c_size_block
    <2> QED
        BY <1>1, <1>2, <2>1 DEF BlockBase
<1>7. Placed' = Placed
    BY <1>1, <1>2, <1>6 DEF Placed
<1> QED
    BY <1>1, <1>2, <1>5, <1>7

\* The invariant holds initially.
LEMMA Initially ==
    ASSUME Init
    PROVE  IInv
<1>1. program \in Programs /\ phase = "length" /\ next = 0 /\ bd = 0
    BY DEF Init
<1>2. Len(il) \in Nat /\ Len(blocks) \in Nat
    BY <1>1, ProgramFacts
<1>3. IsSeq(code) /\ symbols \in Seq(SymbolEntry)
    BY DEF Init, IsSeq
<1> QED
    BY <1>1, <1>2, <1>3 DEF Init, IInv, Static, OffsetsAgree

\* The first pass.
LEMMA CalculateCodeLengthStep ==
    ASSUME IInv, CalculateCodeLength
    PROVE  IInv'
<1>1. /\ UNCHANGED <<arch, program, layout, symbols, code, next, bd>>
      /\ phase' = "size" /\ code_offset' = Sums(Lengths)
    BY DEF CalculateCodeLength, Lengths
<1>2. Lengths' = Lengths /\ il' = il /\ blocks' = blocks
    BY <1>1, Unchanged
<1> QED
    BY <1>1, <1>2 DEF IInv, Static, OffsetsAgree, CalculateCodeLength, IsSeq

\* The layout: the second pass begins where the first did.
LEMMA SizeFunctionsStep ==
    ASSUME IInv, SizeFunctions
    PROVE  IInv'
<1>1. UNCHANGED <<arch, program, code_offset, code, next, bd>> /\ phase = "size"
    BY DEF SizeFunctions
<1>2. /\ il' = il /\ blocks' = blocks /\ functions' = functions
      /\ Lengths' = Lengths /\ Placed' = Placed
      /\ \A f : ParamsSize(f)' = ParamsSize(f)
      /\ \A b : LocalsSize(b)' = LocalsSize(b)
    BY <1>1, Unchanged
<1>3. /\ program \in Programs /\ arch \in {"riscv", "arm"} /\ code_offset = Sums(Lengths)
      /\ next = 0 /\ code = << >> /\ symbols \in Seq(SymbolEntry)
    BY <1>1 DEF IInv, Static
<1>4. CASE phase' = "error"
    BY <1>1, <1>2, <1>4 DEF IInv, Static, OffsetsAgree, SizeFunctions, IsSeq
<1>5. CASE phase' # "error"
    <2>1. /\ phase' = "generate" /\ layout' = Placed
          /\ \A f \in 1..Len(functions) : ~(ParamsSize(f) > MaxFrame)
          /\ \A b \in 1..Len(blocks) : ~(LocalsSize(b) > MaxFrame)
        BY <1>5 DEF SizeFunctions
    <2>2. /\ \A f \in 1..Len(functions) : ParamsSize(f) <= MaxFrame
          /\ \A b \in 1..Len(blocks) : LocalsSize(b) <= MaxFrame
        BY <1>3, <2>1, FrameSizes, LimitsAssumption
    <2>3. symbols' \in Seq(SymbolEntry)
        <3> DEFINE gs == program.globals
                   entries == [k \in 1..Len(gs) |->
                       [name |-> gs[k].name,
                        value |-> CodeStart + data_start + Placed.globals[k]]]
        <3>1. symbols' = symbols \o entries
            BY <1>5 DEF SizeFunctions
        <3>2. gs \in Seq(Variable) /\ program.data \in Nat
            BY <1>3, ProgramFacts
        <3>3. data_start \in Nat
            BY <1>3, OffsetFacts, ProgramFacts DEF data_start
        <3>4. ASSUME NEW k \in 1..Len(gs)
              PROVE  entries[k] \in SymbolEntry
            <4>1. Placed.globals[k] = program.data + SizeOf(gs, k - 1)
                BY DEF Placed
            <4>2. k - 1 \in 0..Len(gs)
                BY <3>2
            <4>3. SizeOf(gs, k - 1) \in Nat
                BY <3>2, <4>2, SizeFacts
            <4>4. CodeStart + data_start + Placed.globals[k] \in Nat
                BY <3>2, <3>3, <4>1, <4>3, LimitsAssumption
            <4>5. gs[k] \in Variable
                BY <3>2
            <4> QED
                BY <4>4, <4>5 DEF SymbolEntry, Variable
        <3>5. entries \in Seq(SymbolEntry)
            <4>1. Len(gs) \in Nat
                BY <3>2
            <4> HIDE DEF gs
            <4> QED
                BY <3>4, <4>1
        <3> HIDE DEF entries
        <3> QED
            BY <1>3, <3>1, <3>5
    <2>4. Pc' = 0 /\ code_offset'[next'] = 0
        BY <1>1, <1>3, OffsetFacts DEF Pc
    <2>5. IsSeq(code')
        BY <1>1 DEF IInv, Static, IsSeq
    <2> QED
        BY <1>1, <1>2, <1>3, <2>1, <2>2, <2>3, <2>4, <2>5 DEF IInv, Static, OffsetsAgree
<1> QED
    BY <1>4, <1>5

\* What holds while code is generated.
LEMMA GeneratingFacts ==
    ASSUME IInv, NEW ops, Generating(ops)
    PROVE  /\ phase = "generate" /\ program \in Programs /\ arch \in {"riscv", "arm"}
           /\ next \in Nat /\ next + 1 \in 1..Len(il) /\ next \in 0..(Len(il) - 1)
           /\ ii \in Instruction /\ ii.op \in ops /\ ii.param_no \in Nat
           /\ IsSeq(code) /\ Len(code) \in Nat /\ Pc = code_offset[next] /\ Pc \in Nat
           /\ code_offset = Sums(Lengths)
           /\ bd \in 0..Len(blocks) /\ symbols \in Seq(SymbolEntry)
<1>1. /\ phase = "generate" /\ program \in Programs /\ arch \in {"riscv", "arm"}
      /\ next \in 0..Len(il) /\ next < Len(il) /\ ii.op \in ops
      /\ IsSeq(code) /\ Pc = code_offset[next] /\ code_offset = Sums(Lengths)
      /\ bd \in 0..Len(blocks) /\ symbols \in Seq(SymbolEntry)
    BY DEF IInv, Static, OffsetsAgree, Generating
<1>2. next \in Nat /\ next + 1 \in 1..Len(il) /\ next \in 0..(Len(il) - 1)
    BY <1>1, ProgramFacts
<1>3. ii \in Instruction
    BY <1>1, <1>2, ProgramFacts DEF ii
<1>4. ii.param_no \in Nat
    BY <1>3 DEF Instruction
<1>5. Len(code) \in Nat
    BY <1>1 DEF IsSeq
<1>6. Pc \in Nat
    BY <1>5 DEF Pc
<1> QED
    BY <1>1, <1>2, <1>3, <1>4, <1>5, <1>6

\* An instruction that emits as many words as were counted for it.
LEMMA Emitted ==
    ASSUME IInv, NEW ops, Generating(ops),
           NEW words, NEW n \in Nat, Count(words, n), CodeLength(ii) = 4 * n, Emit(words),
           bd' \in 0..Len(blocks), symbols' \in Seq(SymbolEntry)
    PROVE  IInv'
<1>1. /\ phase = "generate" /\ program \in Programs /\ arch \in {"riscv", "arm"}
      /\ next \in Nat /\ next + 1 \in 1..Len(il) /\ next \in 0..(Len(il) - 1)
      /\ IsSeq(code) /\ Len(code) \in Nat /\ Pc = code_offset[next]
      /\ code_offset = Sums(Lengths)
    BY GeneratingFacts
<1>2. /\ UNCHANGED <<arch, program, code_offset, layout>>
      /\ next' = next + 1 /\ code' = code \o words /\ phase' \in {"error", "generate"}
    BY <1>1 DEF Emit
<1>3. /\ il' = il /\ functions' = functions /\ blocks' = blocks
      /\ Lengths' = Lengths /\ Placed' = Placed
      /\ \A f : ParamsSize(f)' = ParamsSize(f)
      /\ \A b : LocalsSize(b)' = LocalsSize(b)
    BY <1>2, Unchanged
<1>4. IsSeq(code') /\ Len(code') = Len(code) + n
    BY <1>1, <1>2, Appended DEF Count
<1>5. Pc' = Pc + 4 * n
    BY <1>1, <1>4 DEF Pc
<1>6. code_offset[next + 1] = code_offset[next] + CodeLength(ii)
    BY <1>1, OffsetFacts DEF ii
<1>7. Pc' = code_offset'[next']
    BY <1>1, <1>2, <1>5, <1>6
<1>8. next' \in 0..Len(il')
    BY <1>1, <1>2, <1>3
<1>9. bd' \in 0..Len(blocks')
    BY <1>3
<1>10. Static'
    BY <1>1, <1>2, <1>3, <1>4, <1>8, <1>9 DEF IInv, Static
<1> QED
    BY <1>7, <1>10 DEF IInv, OffsetsAgree

\* An instruction that calls one operation and changes no table.
LEMMA CallStep ==
    ASSUME IInv, NEW ops, Generating(ops), NEW call, Calls(ii, call),
           Emit(Words(call)), UNCHANGED <<symbols, bd>>
    PROVE  IInv'
<1>1. PICK n \in Nat : Count(Words(call), n) /\ CodeLength(ii) = 4 * n
    BY GeneratingFacts, Measured
<1>2. bd' \in 0..Len(blocks) /\ symbols' \in Seq(SymbolEntry)
    BY GeneratingFacts
<1> QED
    BY <1>1, <1>2, Emitted

\* The instructions that load a value or an address, or access memory.
LEMMA LoadSteps ==
    ASSUME IInv, LoadDataAddress \/ LoadNumericConstant \/ Access
    PROVE  IInv'
<1>1. CASE LoadDataAddress
    <2> DEFINE call == [fn |-> "op_load_data_address", ofs |-> data_start + ii.int_param1]
    <2>1. Generating({"op_load_data_address"}) /\ Emit(Words(call)) /\ UNCHANGED <<symbols, bd>>
        BY <1>1 DEF LoadDataAddress
    <2>2. Calls(ii, call)
        BY <2>1 DEF Calls, Generating
    <2> QED
        BY <2>1, <2>2, CallStep
<1>2. CASE LoadNumericConstant
    <2> DEFINE call == [fn |-> "op_load_numeric_constant", val |-> ii.int_param1]
    <2>1. /\ Generating({"op_load_numeric_constant"}) /\ Emit(Words(call))
          /\ UNCHANGED <<symbols, bd>>
        BY <1>2 DEF LoadNumericConstant
    <2>2. Calls(ii, call)
        BY <2>1 DEF Calls, Generating
    <2> QED
        BY <2>1, <2>2, CallStep
<1>3. CASE Access
    <2> DEFINE call == [fn |-> ii.op, len |-> ii.int_param2]
    <2>1. /\ Generating({"op_read_addr", "op_write_addr"}) /\ Emit(Words(call))
          /\ UNCHANGED <<symbols, bd>>
        BY <1>3 DEF Access
    <2>2. Calls(ii, call)
        BY <2>1 DEF Calls, Generating
    <2> QED
        BY <2>1, <2>2, CallStep
<1> QED
    BY <1>1, <1>2, <1>3

\* An address of a variable is two words, wherever the variable is; a name
\* that is not found ends the compilation.
LEMMA GetVarAddrStep ==
    ASSUME IInv, GetVarAddr
    PROVE  IInv'
<1> DEFINE v == Find(ii.name, bd)
           ops == {"op_get_var_addr"}
<1>1. Generating(ops) /\ UNCHANGED <<symbols, bd>> /\ ii.op = "op_get_var_addr"
    BY DEF GetVarAddr, Generating
<1>2. ASSUME NEW call, call.fn \in AddressFns, Emit(Words(call))
      PROVE  IInv'
    <2>1. Calls(ii, call)
        BY <1>1, <1>2 DEF Calls
    <2> QED
        BY <1>1, <1>2, <2>1, CallStep
<1>3. v.kind \in {"global", "local", "param", "function", "none"}
    BY DEF Find, FindLocal
<1>4. CASE v.kind = "global"
    <2> DEFINE call == [fn |-> "op_get_global_addr", ofs |-> data_start + layout.globals[v.k]]
    <2>1. Emit(Words(call))
        BY <1>4 DEF GetVarAddr
    <2> QED
        BY <1>2, <2>1 DEF AddressFns
<1>5. CASE v.kind = "local"
    <2> DEFINE call == [fn |-> "op_get_local_addr", ofs |-> -layout.locals[v.of][v.k]]
    <2>1. Emit(Words(call))
        BY <1>5 DEF GetVarAddr
    <2> QED
        BY <1>2, <2>1 DEF AddressFns
<1>6. CASE v.kind = "param"
    <2> DEFINE call == [fn |-> "op_get_local_addr", ofs |-> -layout.params[v.of][v.k]]
    <2>1. Emit(Words(call))
        BY <1>6 DEF GetVarAddr
    <2> QED
        BY <1>2, <2>1 DEF AddressFns
<1>7. CASE v.kind = "function"
    <2> DEFINE call == [fn |-> "op_get_function_addr",
                        ofs |-> CodeStart + code_offset[functions[v.k].entry]]
    <2>1. Emit(Words(call))
        BY <1>7 DEF GetVarAddr
    <2> QED
        BY <1>2, <2>1 DEF AddressFns
<1>8. CASE v.kind = "none"
    <2>1. phase' = "error" /\ UNCHANGED <<arch, program, code_offset, layout, code, next>>
        BY <1>8 DEF GetVarAddr
    <2>2. /\ il' = il /\ blocks' = blocks /\ functions' = functions /\ Lengths' = Lengths
        BY <2>1, Unchanged
    <2> QED
        BY <1>1, <2>1, <2>2, GeneratingFacts DEF IInv, Static, OffsetsAgree, IsSeq
<1> QED
    BY <1>3, <1>4, <1>5, <1>6, <1>7, <1>8

\* The instructions that transfer control.
LEMMA TransferSteps ==
    ASSUME IInv, Jump \/ Return \/ FunctionCall \/ JumpIf
    PROVE  IInv'
<1>1. CASE Jump
    <2> DEFINE call == [fn |-> "op_jump", ofs |-> code_offset[ii.int_param1] - Pc]
    <2>1. Generating({"op_jump"}) /\ Emit(Words(call)) /\ UNCHANGED <<symbols, bd>>
        BY <1>1 DEF Jump
    <2>2. Calls(ii, call)
        BY <2>1 DEF Calls, Generating
    <2> QED
        BY <2>1, <2>2, CallStep
<1>2. CASE Return
    <2> DEFINE call == [fn |-> "op_return", ofs |-> code_offset[find_function(ii.name).exit] - Pc]
    <2>1. Generating({"op_return"}) /\ Emit(Words(call)) /\ UNCHANGED <<symbols, bd>>
        BY <1>2 DEF Return
    <2>2. Calls(ii, call)
        BY <2>1 DEF Calls, Generating
    <2> QED
        BY <2>1, <2>2, CallStep
<1>3. CASE FunctionCall
    <2> DEFINE call == [fn |-> "op_function_call",
                        ofs |-> code_offset[find_function(ii.name).entry] - Pc]
    <2>1. Generating({"op_function_call"}) /\ Emit(Words(call)) /\ UNCHANGED <<symbols, bd>>
        BY <1>3 DEF FunctionCall
    <2>2. Calls(ii, call)
        BY <2>1 DEF Calls, Generating
    <2> QED
        BY <2>1, <2>2, CallStep
<1>4. CASE JumpIf
    <2> DEFINE call == [fn |-> "op_jz", op |-> ii.op,
                        ofs |-> code_offset[ii.int_param1] - Pc - 4]
    <2>1. Generating({"op_jz", "op_jnz"}) /\ Emit(Words(call)) /\ UNCHANGED <<symbols, bd>>
        BY <1>4 DEF JumpIf
    <2>2. Calls(ii, call)
        BY <2>1 DEF Calls, Generating
    <2> QED
        BY <2>1, <2>2, CallStep
<1> QED
    BY <1>1, <1>2, <1>3, <1>4

\* The instructions that work on registers and the stack.
LEMMA PlainSteps ==
    ASSUME IInv, Plain \/ Operator
    PROVE  IInv'
<1>1. CASE Plain
    <2> DEFINE call == [fn |-> ii.op]
               ops == {"op_pointer_call", "op_push", "op_pop", "op_exit_point", "op_start",
                       "op_syscall", "op_exit"}
    <2>1. Generating(ops) /\ Emit(Words(call)) /\ UNCHANGED <<symbols, bd>>
        BY <1>1 DEF Plain
    <2>2. Calls(ii, call)
        BY <2>1 DEF Calls, Generating
    <2> QED
        BY <2>1, <2>2, CallStep
<1>2. CASE Operator
    <2> DEFINE call == [fn |-> Family(ii.op), op |-> ii.op]
    <2>1. Generating(Operators) /\ Emit(Words(call)) /\ UNCHANGED <<symbols, bd>>
        BY <1>2 DEF Operator
    <2>2. ii.op \in Operators
        BY <2>1 DEF Generating
    <2>3. Calls(ii, call)
        <3>1. CASE ii.op \in RV!Comparisons
            <4>1. Family(ii.op) = "op_cmp"
                BY <3>1 DEF Family, RV!Comparisons
            <4> QED
                BY <3>1, <4>1 DEF Calls
        <3>2. CASE ii.op \notin RV!Comparisons
            <4>1. Family(ii.op) \in {"op_alu", "op_log", "op_bit"}
                BY <2>2, <3>2 DEF Family, Operators, RV!Comparisons
            <4> QED
                BY <2>2, <3>2, <4>1 DEF Calls
        <3> QED
            BY <3>1, <3>2
    <2> QED
        BY <2>1, <2>3, CallStep
<1> QED
    BY <1>1, <1>2

\* A symbol at the place the code has come to.
LEMMA SymbolAdded ==
    ASSUME IInv, NEW ops, Generating(ops), Symbol(ii.name)
    PROVE  symbols' \in Seq(SymbolEntry)
<1>1. ii.name \in STRING /\ Pc \in Nat /\ symbols \in Seq(SymbolEntry)
    BY GeneratingFacts DEF Instruction
<1>2. [name |-> ii.name, value |-> CodeStart + Pc] \in SymbolEntry
    BY <1>1, LimitsAssumption DEF SymbolEntry
<1> QED
    BY <1>1, <1>2 DEF Symbol

\* A label is no code, asm() one word.
LEMMA LabelSteps ==
    ASSUME IInv, Label \/ Generic
    PROVE  IInv'
<1>1. CASE Label
    <2>1. Generating({"op_label"}) /\ Emit(<< >>) /\ bd' = bd /\ ii.op = "op_label"
        BY <1>1 DEF Label, Generating
    <2>2. symbols' \in Seq(SymbolEntry)
        <3>1. CASE ii.name # ""
            BY <1>1, <2>1, <3>1, SymbolAdded DEF Label
        <3>2. CASE ii.name = ""
            BY <1>1, <2>1, <3>2, GeneratingFacts DEF Label
        <3> QED
            BY <3>1, <3>2
    <2>3. CodeLength(ii) = 4 * 0
        <3>1. PICK p, l : CodeLength(ii) = IF arch = "riscv" THEN RV!CodeLength(ii, p, l)
                                           ELSE AR!CodeLength(ii, p, l)
            BY DEF CodeLength
        <3> QED
            BY <2>1, <3>1, RiscvLength, ArmLength
    <2> QED
        BY <2>1, <2>2, <2>3, GeneratingFacts, Tuples, Emitted
<1>2. CASE Generic
    <2> DEFINE word == [op |-> "asm", imm |-> ii.int_param1]
    <2>1. /\ Generating({"op_generic"}) /\ Emit(<<word>>) /\ UNCHANGED <<symbols, bd>>
          /\ ii.op = "op_generic"
        BY <1>2 DEF Generic, Generating
    <2>2. CodeLength(ii) = 4 * 1
        <3>1. PICK p, l : CodeLength(ii) = IF arch = "riscv" THEN RV!CodeLength(ii, p, l)
                                           ELSE AR!CodeLength(ii, p, l)
            BY DEF CodeLength
        <3> QED
            BY <2>1, <3>1, RiscvLength, ArmLength
    <2>3. Count(<<word>>, 1)
        BY Tuples
    <2>4. bd' \in 0..Len(blocks) /\ symbols' \in Seq(SymbolEntry)
        BY <2>1, GeneratingFacts
    <2> HIDE DEF word
    <2> QED
        BY <2>1, <2>2, <2>3, <2>4, Emitted
<1> QED
    BY <1>1, <1>2

\* The block that an instruction starts or ends.
LEMMA BlockFacts ==
    ASSUME IInv, NEW ops, ops \subseteq {"op_block_start", "op_block_end"}, Generating(ops)
    PROVE  /\ ii.int_param1 \in 1..Len(blocks)
           /\ blocks[ii.int_param1].parent \in 0..Len(blocks)
           /\ CodeLength(ii) = IF Len(blocks[ii.int_param1].locals) > 0 THEN 4 * 1 ELSE 4 * 0
<1>1. /\ program \in Programs /\ next + 1 \in 1..Len(il) /\ arch \in {"riscv", "arm"}
      /\ ii.op \in {"op_block_start", "op_block_end"}
    BY GeneratingFacts
<1>2. ii.int_param1 \in 1..Len(blocks)
    BY <1>1, ProgramFacts DEF WellFormed, ii, il, blocks
<1>3. blocks[ii.int_param1].parent \in 0..Len(blocks)
    BY <1>1, <1>2, ProgramFacts
<1> DEFINE l == Len(blocks[ii.int_param1].locals)
<1>4. PICK p : CodeLength(ii) = IF arch = "riscv" THEN RV!CodeLength(ii, p, l)
                                ELSE AR!CodeLength(ii, p, l)
    BY <1>1 DEF CodeLength
<1>5. CodeLength(ii) = IF l > 0 THEN 4 ELSE 0
    BY <1>1, <1>4, RiscvLength, ArmLength
<1> QED
    BY <1>2, <1>3, <1>5

\* The space of a block's locals is one word, of a block without locals none.
LEMMA SpaceCount ==
    ASSUME IInv, NEW call, call.fn = "op_block", arch \in {"riscv", "arm"}, NEW l \in Nat
    PROVE  Count(IF l > 0 THEN Words(call) ELSE << >>, IF l > 0 THEN 1 ELSE 0)
<1>1. PICK st : Words(call) = IF arch = "riscv" THEN RV!Words(st, call) ELSE AR!Words(st, call)
    BY DEF Words
<1>2. Count(Words(call), 1)
    BY <1>1, RiscvWords, ArmWords
<1> QED
    BY <1>2, Tuples

\* Both ends of a block.
LEMMA BlockSteps ==
    ASSUME IInv, BlockStart \/ BlockEnd
    PROVE  IInv'
<1> DEFINE b == ii.int_param1
           l == Len(blocks[b].locals)
<1>1. ASSUME NEW ops, ops \subseteq {"op_block_start", "op_block_end"}, Generating(ops),
             NEW call, call.fn = "op_block",
             Emit(IF l > 0 THEN Words(call) ELSE << >>),
             bd' \in 0..Len(blocks), UNCHANGED symbols
      PROVE  IInv'
    <2>1. program \in Programs /\ arch \in {"riscv", "arm"} /\ symbols' \in Seq(SymbolEntry)
        BY <1>1, GeneratingFacts
    <2>2. b \in 1..Len(blocks) /\ CodeLength(ii) = IF l > 0 THEN 4 * 1 ELSE 4 * 0
        BY <1>1, BlockFacts
    <2>3. blocks[b].locals \in Seq(Variable)
        BY <2>1, <2>2, ProgramFacts
    <2>4. l \in Nat
        BY <2>3
    <2> DEFINE words == IF l > 0 THEN Words(call) ELSE << >>
               n == IF l > 0 THEN 1 ELSE 0
    <2> HIDE DEF l
    <2>5. Count(words, n)
        BY <1>1, <2>1, <2>4, SpaceCount
    <2>6. n \in Nat /\ CodeLength(ii) = 4 * n
        BY <2>2
    <2>7. Emit(words)
        BY <1>1
    <2> HIDE DEF words, n
    <2> QED
        BY <1>1, <2>1, <2>5, <2>6, <2>7, Emitted
<1>2. CASE BlockStart
    <2> DEFINE call == [fn |-> "op_block", len |-> -layout.locals_size[b]]
    <2>1. /\ Generating({"op_block_start"}) /\ Emit(IF l > 0 THEN Words(call) ELSE << >>)
          /\ bd' = b /\ UNCHANGED symbols
        BY <1>2 DEF BlockStart
    <2>2. b \in 1..Len(blocks) /\ Len(blocks) \in Nat
        BY <2>1, BlockFacts, GeneratingFacts, ProgramFacts
    <2>3. bd' \in 0..Len(blocks)
        BY <2>1, <2>2
    <2>4. call.fn = "op_block"
        OBVIOUS
    <2> HIDE DEF call, b, l
    <2> QED
        BY <1>1, <2>1, <2>3, <2>4
<1>3. CASE BlockEnd
    <2> DEFINE call == [fn |-> "op_block", len |-> layout.locals_size[b]]
    <2>1. /\ Generating({"op_block_end"}) /\ Emit(IF l > 0 THEN Words(call) ELSE << >>)
          /\ bd' = blocks[b].parent /\ UNCHANGED symbols
        BY <1>3 DEF BlockEnd
    <2>2. bd' \in 0..Len(blocks)
        BY <2>1, BlockFacts
    <2>3. call.fn = "op_block"
        OBVIOUS
    <2> HIDE DEF call, b, l
    <2> QED
        BY <1>1, <2>1, <2>2, <2>3
<1> QED
    BY <1>2, <1>3

\* The entry of a function is four words and one for each parameter.
LEMMA EntryPointStep ==
    ASSUME IInv, EntryPoint
    PROVE  IInv'
<1> DEFINE f == Least(Named(functions, ii.name))
           params == functions[f].params
           ops == {"op_entry_point"}
           frame == [fn |-> "op_entry_point", len |-> layout.params_size[f]]
           Store(p) == Words([fn |-> "op_store_param", pn |-> p - 1,
                              ofs |-> -layout.params[f][p]])
           stores == [p \in 1..Len(params) |-> Store(p)[1]]
<1>1. /\ Generating(ops) /\ Emit(Words(frame) \o stores) /\ Symbol(ii.name) /\ bd' = bd
      /\ ii.op = "op_entry_point"
    BY DEF EntryPoint, Generating
<1>2. /\ program \in Programs /\ next + 1 \in 1..Len(il) /\ arch \in {"riscv", "arm"}
      /\ bd' \in 0..Len(blocks)
    BY <1>1, GeneratingFacts
<1>3. \E g \in 1..Len(functions) : functions[g].name = ii.name
    BY <1>1, <1>2, ProgramFacts DEF WellFormed, ii, il, functions
<1>4. find_function(ii.name) = functions[f] /\ params \in Seq(Variable)
    BY <1>2, <1>3, FunctionFound DEF find_function
<1>5. Len(params) \in Nat
    BY <1>4
<1>6. symbols' \in Seq(SymbolEntry)
    BY <1>1, SymbolAdded
<1>7. CodeLength(ii) = 16 + 4 * Len(params)
    <2>1. PICK l : CodeLength(ii) = IF arch = "riscv" THEN RV!CodeLength(ii, Len(params), l)
                                    ELSE AR!CodeLength(ii, Len(params), l)
        BY <1>1, <1>4 DEF CodeLength
    <2> QED
        BY <1>1, <2>1, RiscvLength, ArmLength
<1>8. Count(Words(frame), 4)
    <2>1. PICK st : Words(frame) = IF arch = "riscv" THEN RV!Words(st, frame)
                                   ELSE AR!Words(st, frame)
        BY DEF Words
    <2> QED
        BY <1>2, <2>1, RiscvWords, ArmWords
<1> HIDE DEF params, Store
<1>9. Count(stores, Len(params))
    <2> DEFINE S == {Store(p)[1] : p \in 1..Len(params)}
    <2>1. stores \in Seq(S) /\ Len(stores) = Len(params)
        BY <1>5
    <2> QED
        BY <2>1 DEF Count, IsSeq
<1> DEFINE words == Words(frame) \o stores
           n == 4 + Len(params)
<1> HIDE DEF stores, frame, f
<1>10. Count(words, n)
    BY <1>8, <1>9, Appended DEF Count
<1>11. n \in Nat /\ CodeLength(ii) = 4 * n
    BY <1>5, <1>7
<1>12. Emit(words)
    BY <1>1
<1> HIDE DEF words, n
<1> QED
    BY <1>1, <1>2, <1>6, <1>10, <1>11, <1>12, Emitted

\* The end, and steps that change nothing.
LEMMA FinishStep ==
    ASSUME IInv, Finish \/ UNCHANGED vars
    PROVE  IInv'
<1>1. /\ UNCHANGED <<arch, program, code_offset, layout, symbols, code, next, bd>>
      /\ phase' = phase \/ (phase = "generate" /\ phase' = "done")
    BY DEF Finish, vars
<1>2. /\ il' = il /\ functions' = functions /\ blocks' = blocks
      /\ Lengths' = Lengths /\ Placed' = Placed
      /\ \A f : ParamsSize(f)' = ParamsSize(f)
      /\ \A b : LocalsSize(b)' = LocalsSize(b)
    BY <1>1, Unchanged
<1>3. IsSeq(code)' = IsSeq(code) /\ Pc' = Pc
    BY <1>1 DEF IsSeq, Pc
<1> QED
    BY <1>1, <1>2, <1>3 DEF IInv, Static, OffsetsAgree

\* Every step keeps the inductive invariant.
LEMMA Inductive ==
    ASSUME IInv, [Next]_vars
    PROVE  IInv'
<1>1. CASE UNCHANGED vars
    BY <1>1, FinishStep
<1>2. CASE Terminating
    BY <1>2, FinishStep DEF Terminating
<1> QED
    BY <1>1, <1>2, CalculateCodeLengthStep, SizeFunctionsStep, LoadSteps, GetVarAddrStep,
       TransferSteps, PlainSteps, LabelSteps, BlockSteps, EntryPointStep, FinishStep
       DEF Next

\* The inductive invariant holds of every reachable state.
LEMMA Invariance == Spec => []IInv
BY Initially, Inductive, PTL DEF Spec

\* The inductive invariant implies the type invariant.
LEMMA Typed ==
    ASSUME IInv
    PROVE  TypeOK
<1>1. program \in Programs /\ arch \in {"riscv", "arm"} /\ symbols \in Seq(SymbolEntry)
    BY DEF IInv, Static
<1>2. ASSUME phase # "length"
      PROVE  /\ DOMAIN code_offset = 0..Len(il)
             /\ \A i \in 0..Len(il) : code_offset[i] \in Nat /\ code_offset[i] % 4 = 0
    <2>1. code_offset = Sums(Lengths) /\ Len(il) \in Nat
        BY <1>1, <1>2, ProgramFacts DEF IInv, Static
    <2>2. code_offset \in [0..Len(il) -> Nat]
        BY <1>1, <2>1, OffsetFacts
    <2> DEFINE T == {k \in Nat : k <= Len(il) => \E n \in Nat : code_offset[k] = 4 * n}
    <2>3. 0 \in T
        <3>1. code_offset[0] = 4 * 0
            BY <1>1, <2>1, OffsetFacts
        <3> QED
            BY <3>1
    <2>4. ASSUME NEW k \in Nat, k \in T
          PROVE  k + 1 \in T
        <3> SUFFICES ASSUME k + 1 <= Len(il)
                     PROVE  \E n \in Nat : code_offset[k + 1] = 4 * n
            OBVIOUS
        <3>1. PICK n \in Nat : code_offset[k] = 4 * n
            BY <2>1, <2>4
        <3>2. k \in 0..(Len(il) - 1) /\ k + 1 \in 1..Len(il)
            BY <2>1
        <3>3. PICK p \in Nat : CodeLength(il[k + 1]) = 4 * p
            BY <1>1, <3>2, WholeWords
        <3>4. code_offset[k + 1] = code_offset[k] + CodeLength(il[k + 1])
            BY <1>1, <2>1, <3>2, OffsetFacts
        <3>5. code_offset[k + 1] = 4 * (n + p) /\ n + p \in Nat
            BY <3>1, <3>3, <3>4
        <3> QED
            BY <3>5
    <2>5. Nat \subseteq T
        <3> HIDE DEF T
        <3> QED
            BY <2>3, <2>4, Induction
    <2>6. ASSUME NEW i \in 0..Len(il)
          PROVE  code_offset[i] % 4 = 0
        <3>1. PICK n \in Nat : code_offset[i] = 4 * n
            BY <2>1, <2>5
        <3>2. (4 * n) % 4 = 0
            OBVIOUS
        <3> QED
            BY <3>1, <3>2
    <2> QED
        BY <2>2, <2>6
<1>3. ASSUME phase \in {"generate", "done"}
      PROVE  /\ \A f \in 1..Len(functions) :
                    layout.params_size[f] \in 0..MaxFrame /\ layout.params_size[f] % 16 = 0
             /\ \A b \in 1..Len(blocks) :
                    layout.locals_size[b] \in 0..MaxFrame /\ layout.locals_size[b] % 16 = 0
    <2>1. /\ layout = Placed
          /\ \A f \in 1..Len(functions) : ParamsSize(f) <= MaxFrame
          /\ \A b \in 1..Len(blocks) : LocalsSize(b) <= MaxFrame
        BY <1>3 DEF IInv, Static
    <2>2. /\ \A f \in 1..Len(functions) : layout.params_size[f] = ParamsSize(f)
          /\ \A b \in 1..Len(blocks) : layout.locals_size[b] = LocalsSize(b)
        BY <2>1 DEF Placed
    <2> QED
        BY <1>1, <2>1, <2>2, FrameSizes, LimitsAssumption
<1>4. ASSUME NEW k \in 1..Len(symbols)
      PROVE  symbols[k].value \in Nat
    <2>1. symbols[k] \in SymbolEntry
        BY <1>1
    <2> QED
        BY <2>1 DEF SymbolEntry
<1> QED
    BY <1>2, <1>3, <1>4 DEF IInv, Static, TypeOK

\* Offsets are multiples of four, frames are aligned and within their limit,
\* and the block c_generate is in is one of the program's.
THEOREM CodeGenTyped == Spec => []TypeOK
BY Invariance, Typed, PTL

\* For every program and both architectures, c_generate emits each instruction
\* where c_calculate_code_length said it would start.
THEOREM PassesAgree == Spec => []OffsetsAgree
<1>1. IInv => OffsetsAgree
    BY DEF IInv
<1> QED
    BY <1>1, Invariance, PTL

-----------------------------------------------------------------------------
(* Recursion along the parents of blocks.                                  *)

\* f holds the values that step computes of the value of the parent, or of
\* start where there is none.
Solves(f, n, parent, start, step) ==
    f = [c \in 1..n |-> step[c][IF parent[c] = 0 THEN start[c] ELSE f[parent[c]]]]

\* A function defined by recursion along parents that come before exists.
LEMMA RecursionExists ==
    ASSUME NEW n \in Nat, NEW parent \in [1..n -> Nat], \A c \in 1..n : parent[c] < c,
           NEW S, NEW start \in [1..n -> S], NEW step \in [1..n -> [S -> S]]
    PROVE  \E f \in [1..n -> S] : Solves(f, n, parent, start, step)
<1> DEFINE D(f, k) == \A c \in 1..k :
                          f[c] = step[c][IF parent[c] = 0 THEN start[c] ELSE f[parent[c]]]
           Has(k) == \E f \in [1..k -> S] : D(f, k)
           T == {k \in Nat : k <= n => Has(k)}
<1>1. Has(0)
    <2> DEFINE e == [c \in 1..0 |-> start[c]]
    <2>1. e \in [1..0 -> S] /\ D(e, 0)
        OBVIOUS
    <2> QED
        BY <2>1
<1>2. ASSUME NEW k \in Nat, k + 1 <= n, Has(k)
      PROVE  Has(k + 1)
    <2>1. PICK f \in [1..k -> S] : D(f, k)
        BY <1>2
    <2>2. k + 1 \in 1..n /\ \A c \in 1..k : c \in 1..n /\ c # k + 1
        BY <1>2
    <2> DEFINE p == parent[k + 1]
               before == IF p = 0 THEN start[k + 1] ELSE f[p]
               g == [c \in 1..(k + 1) |-> IF c = k + 1 THEN step[k + 1][before] ELSE f[c]]
    <2>3. p \in Nat /\ p < k + 1 /\ (p # 0 => p \in 1..k)
        BY <1>2, <2>2
    <2>4. before \in S
        BY <2>1, <2>2, <2>3
    <2>5. step[k + 1][before] \in S
        <3>1. step[k + 1] \in [S -> S]
            BY <2>2
        <3> HIDE DEF before
        <3> QED
            BY <2>4, <3>1
    <2>6. g \in [1..(k + 1) -> S]
        <3> DEFINE last == step[k + 1][before]
        <3>1. last \in S
            BY <2>5
        <3> HIDE DEF last
        <3>2. [c \in 1..(k + 1) |-> IF c = k + 1 THEN last ELSE f[c]] \in [1..(k + 1) -> S]
            BY <1>2, <2>1, <3>1
        <3> QED
            BY <3>2 DEF last
    <2>7. \A c \in 1..k : g[c] = f[c]
        BY <1>2, <2>2
    <2>8. g[k + 1] = step[k + 1][IF p = 0 THEN start[k + 1] ELSE g[p]]
        <3>1. g[k + 1] = step[k + 1][before]
            BY <1>2
        <3>2. p # 0 => g[p] = f[p]
            BY <2>3, <2>7
        <3> HIDE DEF g
        <3> QED
            BY <3>1, <3>2
    <2>9. ASSUME NEW c \in 1..k
          PROVE  g[c] = step[c][IF parent[c] = 0 THEN start[c] ELSE g[parent[c]]]
        <3>1. parent[c] # 0 => parent[c] \in 1..k
            BY <1>2, <2>2, <2>9
        <3>2. f[c] = step[c][IF parent[c] = 0 THEN start[c] ELSE f[parent[c]]]
            BY <2>1
        <3>3. parent[c] # 0 => g[parent[c]] = f[parent[c]]
            BY <2>7, <3>1
        <3>4. g[c] = f[c]
            BY <2>7
        <3> HIDE DEF g
        <3> QED
            BY <3>2, <3>3, <3>4
    <2>10. D(g, k + 1)
        <3> HIDE DEF g
        <3>1. \A c \in 1..(k + 1) : c \in 1..k \/ c = k + 1
            BY <1>2
        <3> QED
            BY <2>8, <2>9, <3>1
    <2> HIDE DEF g, D
    <2> QED
        BY <2>6, <2>10
<1>3. n \in T
    <2> HIDE DEF Has
    <2>1. 0 \in T
        BY <1>1
    <2>2. \A k \in Nat : k \in T => k + 1 \in T
        BY <1>2
    <2> HIDE DEF T
    <2> QED
        BY <2>1, <2>2, Induction
<1>4. PICK f \in [1..n -> S] : D(f, n)
    <2> HIDE DEF D
    <2> QED
        BY <1>3
<1>5. Solves(f, n, parent, start, step)
    BY <1>4 DEF Solves
<1> QED
    BY <1>4, <1>5

\* The blocks as functions of their numbers.
NumBlocks == Len(blocks)
Parent == [c \in 1..NumBlocks |-> blocks[c].parent]

\* Parents come before their blocks and belong to the same function.
LEMMA ParentFacts ==
    ASSUME program \in Programs
    PROVE  /\ NumBlocks \in Nat /\ Parent \in [1..NumBlocks -> Nat]
           /\ \A c \in 1..NumBlocks :
                  /\ Parent[c] = blocks[c].parent /\ Parent[c] < c
                  /\ Parent[c] # 0 => /\ Parent[c] \in 1..NumBlocks
                                      /\ blocks[Parent[c]].function = blocks[c].function
<1>1. NumBlocks \in Nat /\ \A c \in 1..NumBlocks : blocks[c].parent \in 0..(c - 1)
    BY ProgramFacts DEF NumBlocks
<1>2. \A c \in 1..NumBlocks : blocks[c].parent # 0 =>
          blocks[blocks[c].parent].function = blocks[c].function
    BY ProgramFacts DEF WellFormed, blocks, NumBlocks
<1>3. \A c \in 1..NumBlocks : Parent[c] = blocks[c].parent
    BY DEF Parent
<1>4. \A c \in 1..NumBlocks : Parent[c] \in Nat /\ Parent[c] < c /\ (Parent[c] # 0 => Parent[c] \in 1..NumBlocks)
    BY <1>1, <1>3
<1>5. Parent \in [1..NumBlocks -> Nat]
    BY <1>4 DEF Parent
<1> QED
    BY <1>1, <1>2, <1>3, <1>4, <1>5

\* What Enclosing computes: a block and the blocks around it.
LEMMA EnclosingFacts ==
    ASSUME program \in Programs
    PROVE  \A b \in 1..NumBlocks :
               Enclosing(b) = {b} \cup IF Parent[b] = 0 THEN {} ELSE Enclosing(Parent[b])
<1> DEFINE Recurs(f) == f = [c \in 1..Len(blocks) |->
                                 {c} \cup IF blocks[c].parent = 0 THEN {}
                                          ELSE f[blocks[c].parent]]
           S == SUBSET (1..NumBlocks)
           start == [c \in 1..NumBlocks |-> {}]
           step == [c \in 1..NumBlocks |-> [x \in S |-> {c} \cup x]]
<1>1. NumBlocks \in Nat /\ Parent \in [1..NumBlocks -> Nat] /\ \A c \in 1..NumBlocks : Parent[c] < c
    BY ParentFacts
<1>2. start \in [1..NumBlocks -> S] /\ step \in [1..NumBlocks -> [S -> S]]
    OBVIOUS
<1>3. PICK f \in [1..NumBlocks -> S] : Solves(f, NumBlocks, Parent, start, step)
    <2> HIDE DEF S, start, step
    <2> QED
        BY <1>1, <1>2, RecursionExists
<1>4. ASSUME NEW c \in 1..NumBlocks
      PROVE  f[c] = {c} \cup IF blocks[c].parent = 0 THEN {} ELSE f[blocks[c].parent]
    <2> DEFINE x == IF Parent[c] = 0 THEN {} ELSE f[Parent[c]]
    <2>1. x \in S
        BY <1>3, ParentFacts
    <2>2. f[c] = step[c][x]
        BY <1>3 DEF Solves
    <2>3. step[c] = [y \in S |-> {c} \cup y]
        OBVIOUS
    <2> HIDE DEF x, S, step
    <2>4. f[c] = {c} \cup x
        BY <2>1, <2>2, <2>3
    <2> QED
        BY <2>4, ParentFacts DEF x
<1>5. Recurs(f)
    BY <1>3, <1>4 DEF NumBlocks, Solves
<1> DEFINE around == CHOOSE g : Recurs(g)
<1>6. Recurs(around)
    <2> HIDE DEF Recurs
    <2> QED
        BY <1>5
<1>7. \A b : Enclosing(b) = IF b = 0 THEN {} ELSE around[b]
    BY DEF Enclosing
<1> HIDE DEF around
<1>8. ASSUME NEW c \in 1..NumBlocks
      PROVE  around[c] = {c} \cup IF blocks[c].parent = 0 THEN {} ELSE around[blocks[c].parent]
    BY <1>6 DEF NumBlocks
<1>9. \A c \in 1..NumBlocks : c # 0
    BY <1>1
<1> QED
    BY <1>7, <1>8, <1>9, ParentFacts

\* What holds of a block because it holds of the block around it holds of all.
LEMMA TreeInduction ==
    ASSUME program \in Programs, NEW T,
           \A b \in 1..NumBlocks : (Parent[b] = 0 \/ Parent[b] \in T) => b \in T
    PROVE  1..NumBlocks \subseteq T
<1> DEFINE Missing == (1..NumBlocks) \ T
<1>1. NumBlocks \in Nat /\ Missing \subseteq Nat
    BY ParentFacts
<1>2. ASSUME Missing # {}
      PROVE  FALSE
    <2>1. PICK b \in Missing : \A c \in Missing : b <= c
        BY <1>1, <1>2, LeastNatural
    <2>2. b \in 1..NumBlocks /\ b \notin T
        BY <2>1
    <2>3. Parent[b] # 0 /\ Parent[b] \notin T
        BY <2>2
    <2>4. Parent[b] \in Missing /\ Parent[b] < b
        BY <2>2, <2>3, ParentFacts
    <2>5. b \in Nat /\ Parent[b] \in Nat /\ b <= Parent[b]
        BY <1>1, <2>1, <2>4
    <2> QED
        BY <2>4, <2>5
<1> QED
    BY <1>2

-----------------------------------------------------------------------------
(* Sizes and offsets.                                                      *)

\* The sizes of a block's variables add up.
LEMMA SizeAdds ==
    ASSUME NEW vs \in Seq(Variable)
    PROVE  /\ SizeOf(vs, 0) = 0
           /\ \A k \in 1..Len(vs) :
                  /\ vs[k].size \in Nat /\ SizeOf(vs, k) \in Nat /\ SizeOf(vs, k - 1) \in Nat
                  /\ SizeOf(vs, k) = SizeOf(vs, k - 1) + vs[k].size
<1> DEFINE sizes == [v \in 1..Len(vs) |-> vs[v].size]
<1>1. Len(vs) \in Nat /\ \A k \in 1..Len(vs) : vs[k] \in Variable
    OBVIOUS
<1>2. \A k \in 1..Len(vs) : vs[k].size \in Nat
    BY <1>1 DEF Variable
<1>3. sizes \in Seq(Nat) /\ Len(sizes) = Len(vs)
    BY <1>1, <1>2
<1>4. \A k : SizeOf(vs, k) = Sums(sizes)[k]
    BY DEF SizeOf
<1>5. \A k \in 1..Len(vs) : sizes[k] = vs[k].size
    OBVIOUS
<1> HIDE DEF sizes
<1>6. SizeOf(vs, 0) = 0
    BY <1>3, <1>4, SumsFacts
<1>7. ASSUME NEW k \in 1..Len(vs)
      PROVE  SizeOf(vs, k) = SizeOf(vs, k - 1) + vs[k].size
    <2>1. k - 1 \in 0..(Len(sizes) - 1) /\ (k - 1) + 1 = k
        BY <1>1, <1>3
    <2>2. Sums(sizes)[(k - 1) + 1] = Sums(sizes)[k - 1] + sizes[(k - 1) + 1]
        BY <1>3, <2>1, SumsFacts
    <2> QED
        BY <1>4, <1>5, <2>1, <2>2
<1>8. \A k \in 1..Len(vs) : k \in 0..Len(vs) /\ k - 1 \in 0..Len(vs)
    BY <1>1
<1> QED
    BY <1>2, <1>6, <1>7, <1>8, SizeFacts

\* The sum of more variables is not less.
LEMMA SizeGrows ==
    ASSUME NEW vs \in Seq(Variable)
    PROVE  \A j, k \in 0..Len(vs) : j <= k => SizeOf(vs, j) <= SizeOf(vs, k)
<1>1. Len(vs) \in Nat
    OBVIOUS
<1> SUFFICES ASSUME NEW j \in 0..Len(vs)
             PROVE  \A k \in 0..Len(vs) : j <= k => SizeOf(vs, j) <= SizeOf(vs, k)
    OBVIOUS
<1> DEFINE T == {k \in Nat : k \in 0..Len(vs) /\ j <= k => SizeOf(vs, j) <= SizeOf(vs, k)}
<1>2. 0 \in T
    BY <1>1, SizeFacts
<1>3. ASSUME NEW k \in Nat, k \in T
      PROVE  k + 1 \in T
    <2> SUFFICES ASSUME k + 1 \in 0..Len(vs), j <= k + 1
                 PROVE  SizeOf(vs, j) <= SizeOf(vs, k + 1)
        OBVIOUS
    <2>1. SizeOf(vs, j) \in Nat
        BY SizeFacts
    <2>2. CASE j = k + 1
        BY <2>1, <2>2
    <2>3. CASE j # k + 1
        <3>1. k \in 0..Len(vs) /\ j <= k /\ k + 1 \in 1..Len(vs) /\ (k + 1) - 1 = k
            BY <1>1, <2>3
        <3>2. SizeOf(vs, j) <= SizeOf(vs, k)
            BY <1>3, <3>1
        <3>3. /\ SizeOf(vs, k + 1) = SizeOf(vs, (k + 1) - 1) + vs[k + 1].size
              /\ vs[k + 1].size \in Nat /\ SizeOf(vs, (k + 1) - 1) \in Nat
            BY <3>1, SizeAdds
        <3>4. SizeOf(vs, k + 1) = SizeOf(vs, k) + vs[k + 1].size /\ SizeOf(vs, k) \in Nat
            BY <3>1, <3>3
        <3> QED
            BY <2>1, <3>2, <3>3, <3>4
    <2> QED
        BY <2>2, <2>3
<1> HIDE DEF T
<1>4. Nat \subseteq T
    BY <1>2, <1>3, Induction
<1> QED
    BY <1>1, <1>4 DEF T

\* The space of a function's parameters and of a block's locals holds them.
LEMMA Fits ==
    ASSUME NEW vs \in Seq(Variable)
    PROVE  \A k \in 0..Len(vs) : SizeOf(vs, k) <= Align16(SizeOf(vs, Len(vs)))
<1>1. Len(vs) \in Nat
    OBVIOUS
<1>2. SUFFICES ASSUME NEW k \in 0..Len(vs)
               PROVE  SizeOf(vs, k) <= Align16(SizeOf(vs, Len(vs)))
    OBVIOUS
<1>3. Len(vs) \in 0..Len(vs) /\ k <= Len(vs)
    BY <1>1
<1>4. SizeOf(vs, k) \in Nat /\ SizeOf(vs, Len(vs)) \in Nat
    BY <1>3, SizeFacts
<1>5. SizeOf(vs, k) <= SizeOf(vs, Len(vs))
    BY <1>3, SizeGrows
<1> DEFINE n == SizeOf(vs, Len(vs))
           a == Align16(n)
<1>6. a \in Nat /\ a >= n
    BY <1>4, Aligned
<1>7. SizeOf(vs, k) <= n /\ n \in Nat
    BY <1>4, <1>5
<1> HIDE DEF n, a
<1>8. SizeOf(vs, k) <= a
    BY <1>4, <1>6, <1>7
<1> QED
    BY <1>8 DEF a, n

\* What c_size_block computes: a block ends after its own locals, which are
\* below what is around it.
LEMMA BlockEnds ==
    ASSUME program \in Programs
    PROVE  \A b \in 1..NumBlocks :
               /\ BlockBase(b) \in Nat /\ BlockBase(b) % 16 = 0
               /\ c_size_block(b) = LocalsSize(b) + BlockBase(b)
               /\ c_size_block(b) \in Nat /\ c_size_block(b) % 16 = 0
               /\ ParamsSize(blocks[b].function) <= BlockBase(b)
<1> DEFINE Recurs(f) == f = [c \in 1..Len(blocks) |->
                                 LocalsSize(c) + IF blocks[c].parent = 0
                                                 THEN ParamsSize(blocks[c].function)
                                                 ELSE f[blocks[c].parent]]
           own == [c \in 1..NumBlocks |-> LocalsSize(c)]
           start == [c \in 1..NumBlocks |-> ParamsSize(blocks[c].function)]
           step == [c \in 1..NumBlocks |-> [x \in Nat |-> own[c] + x]]
<1>1. NumBlocks \in Nat /\ Parent \in [1..NumBlocks -> Nat] /\ \A c \in 1..NumBlocks : Parent[c] < c
    BY ParentFacts
<1>2. \A c \in 1..NumBlocks :
          /\ LocalsSize(c) \in Nat /\ LocalsSize(c) % 16 = 0
          /\ ParamsSize(blocks[c].function) \in Nat /\ ParamsSize(blocks[c].function) % 16 = 0
    BY FrameSizes, ProgramFacts DEF NumBlocks
<1>3. start \in [1..NumBlocks -> Nat] /\ own \in [1..NumBlocks -> Nat]
    BY <1>2
<1>4. step \in [1..NumBlocks -> [Nat -> Nat]]
    <2> HIDE DEF own
    <2> QED
        BY <1>3
<1>5. PICK f \in [1..NumBlocks -> Nat] : Solves(f, NumBlocks, Parent, start, step)
    <2> HIDE DEF start, step
    <2> QED
        BY <1>1, <1>3, <1>4, RecursionExists
<1>6. ASSUME NEW c \in 1..NumBlocks
      PROVE  f[c] = LocalsSize(c) + IF blocks[c].parent = 0
                                    THEN ParamsSize(blocks[c].function)
                                    ELSE f[blocks[c].parent]
    <2> DEFINE x == IF Parent[c] = 0 THEN start[c] ELSE f[Parent[c]]
    <2>1. x \in Nat
        <3> HIDE DEF start
        <3> QED
            BY <1>3, <1>5, ParentFacts
    <2>2. f[c] = step[c][x]
        <3> HIDE DEF start, step
        <3> QED
            BY <1>5 DEF Solves
    <2>3. step[c] = [y \in Nat |-> own[c] + y]
        OBVIOUS
    <2>4. start[c] = ParamsSize(blocks[c].function) /\ own[c] = LocalsSize(c)
        OBVIOUS
    <2> HIDE DEF x, start, step, own
    <2>5. f[c] = LocalsSize(c) + x
        BY <2>1, <2>2, <2>3, <2>4
    <2> QED
        BY <2>4, <2>5, ParentFacts DEF x
<1>7. Recurs(f)
    <2>1. f = [c \in 1..NumBlocks |-> f[c]]
        BY <1>5
    <2> QED
        BY <1>6, <2>1 DEF NumBlocks
<1> DEFINE end == CHOOSE g : Recurs(g)
<1>8. Recurs(end)
    <2> HIDE DEF Recurs
    <2> QED
        BY <1>7
<1>9. \A b : c_size_block(b) = end[b]
    BY DEF c_size_block
<1> HIDE DEF end
<1>10. ASSUME NEW c \in 1..NumBlocks
       PROVE  end[c] = LocalsSize(c) + IF blocks[c].parent = 0
                                       THEN ParamsSize(blocks[c].function)
                                       ELSE end[blocks[c].parent]
    BY <1>8 DEF NumBlocks
<1>11. \A b \in 1..NumBlocks : c_size_block(b) = LocalsSize(b) + BlockBase(b)
    BY <1>9, <1>10 DEF BlockBase
<1> DEFINE Good(b) == /\ BlockBase(b) \in Nat /\ BlockBase(b) % 16 = 0
                      /\ c_size_block(b) \in Nat /\ c_size_block(b) % 16 = 0
                      /\ ParamsSize(blocks[b].function) <= BlockBase(b)
                      /\ BlockBase(b) <= c_size_block(b)
           T == {b \in 1..NumBlocks : Good(b)}
<1>12. ASSUME NEW b \in 1..NumBlocks, Parent[b] = 0 \/ Parent[b] \in T
       PROVE  Good(b)
    <2> DEFINE params == ParamsSize(blocks[b].function)
               base == BlockBase(b)
               locals == LocalsSize(b)
    <2>1. params \in Nat /\ params % 16 = 0 /\ locals \in Nat /\ locals % 16 = 0
        BY <1>2
    <2>2. base \in Nat /\ base % 16 = 0 /\ params <= base
        <3>1. CASE Parent[b] = 0
            <4>1. base = params
                BY <3>1, ParentFacts DEF BlockBase
            <4> QED
                BY <2>1, <4>1
        <3>2. CASE Parent[b] # 0
            <4> DEFINE p == Parent[b]
            <4>1. Good(p) /\ blocks[p].function = blocks[b].function /\ base = c_size_block(p)
                BY <1>12, <3>2, ParentFacts DEF BlockBase
            <4>2. params <= BlockBase(p) /\ BlockBase(p) <= base /\ BlockBase(p) \in Nat
                  /\ base \in Nat /\ base % 16 = 0
                BY <4>1
            <4> HIDE DEF base, params, p
            <4> QED
                BY <2>1, <4>2
        <3> QED
            BY <3>1, <3>2
    <2>3. c_size_block(b) = locals + base
        BY <1>11
    <2> HIDE DEF params, base, locals
    <2>4. locals + base \in Nat /\ (locals + base) % 16 = 0 /\ base <= locals + base
        BY <2>1, <2>2
    <2> QED
        BY <2>2, <2>3, <2>4 DEF params, base
<1>13. 1..NumBlocks \subseteq T
    <2> HIDE DEF Good
    <2>1. \A b \in 1..NumBlocks : (Parent[b] = 0 \/ Parent[b] \in T) => b \in T
        BY <1>12
    <2> HIDE DEF T
    <2> QED
        BY <2>1, TreeInduction
<1> QED
    BY <1>11, <1>13

\* The blocks around a block belong to its function and end before it starts.
LEMMA Inside ==
    ASSUME program \in Programs
    PROVE  \A b \in 1..NumBlocks : \A c \in Enclosing(b) :
               /\ c \in 1..NumBlocks /\ c <= b
               /\ blocks[c].function = blocks[b].function
               /\ c_size_block(c) <= c_size_block(b)
<1> DEFINE Good(b) == \A c \in Enclosing(b) :
                          /\ c \in 1..NumBlocks /\ c <= b
                          /\ blocks[c].function = blocks[b].function
                          /\ c_size_block(c) <= c_size_block(b)
           T == {b \in 1..NumBlocks : Good(b)}
<1>1. ASSUME NEW b \in 1..NumBlocks, Parent[b] = 0 \/ Parent[b] \in T
      PROVE  Good(b)
    <2> SUFFICES ASSUME NEW c \in Enclosing(b)
                 PROVE  /\ c \in 1..NumBlocks /\ c <= b
                        /\ blocks[c].function = blocks[b].function
                        /\ c_size_block(c) <= c_size_block(b)
        OBVIOUS
    <2>1. NumBlocks \in Nat /\ b \in Nat /\ c_size_block(b) \in Nat
        BY ParentFacts, BlockEnds
    <2>2. CASE c = b
        BY <2>1, <2>2
    <2>3. CASE c # b
        <3> DEFINE p == Parent[b]
        <3>1. p # 0 /\ c \in Enclosing(p)
            BY <2>3, EnclosingFacts
        <3>2. Good(p) /\ p \in 1..NumBlocks /\ p < b /\ blocks[p].function = blocks[b].function
            BY <1>1, <3>1, ParentFacts
        <3>3. c \in 1..NumBlocks /\ c <= p /\ blocks[c].function = blocks[p].function
              /\ c_size_block(c) <= c_size_block(p)
            BY <3>1, <3>2
        <3>4. c_size_block(b) = LocalsSize(b) + c_size_block(p)
            BY <3>1, BlockEnds, ParentFacts DEF BlockBase
        <3>5. c_size_block(c) \in Nat /\ c_size_block(p) \in Nat
            BY <3>2, <3>3, BlockEnds
        <3>6. LocalsSize(b) \in Nat
            BY FrameSizes DEF NumBlocks
        <3>7. c_size_block(c) <= c_size_block(b)
            BY <3>3, <3>4, <3>5, <3>6
        <3>8. c <= b
            BY <2>1, <3>2, <3>3
        <3> QED
            BY <3>2, <3>3, <3>7, <3>8
    <2> QED
        BY <2>2, <2>3
<1>2. 1..NumBlocks \subseteq T
    <2> HIDE DEF Good
    <2>1. \A b \in 1..NumBlocks : (Parent[b] = 0 \/ Parent[b] \in T) => b \in T
        BY <1>1
    <2> HIDE DEF T
    <2> QED
        BY <2>1, TreeInduction
<1> QED
    BY <1>2

\* Of two blocks around a block, the outer one ends before the inner starts.
LEMMA Nested ==
    ASSUME program \in Programs
    PROVE  \A b \in 1..NumBlocks : \A c, d \in Enclosing(b) :
               c < d => c_size_block(c) <= BlockBase(d)
<1> DEFINE Good(b) == \A c, d \in Enclosing(b) : c < d => c_size_block(c) <= BlockBase(d)
           T == {b \in 1..NumBlocks : Good(b)}
<1>1. ASSUME NEW b \in 1..NumBlocks, Parent[b] = 0 \/ Parent[b] \in T
      PROVE  Good(b)
    <2> SUFFICES ASSUME NEW c \in Enclosing(b), NEW d \in Enclosing(b), c < d
                 PROVE  c_size_block(c) <= BlockBase(d)
        OBVIOUS
    <2> DEFINE p == Parent[b]
    <2>1. NumBlocks \in Nat /\ b \in Nat /\ c \in Nat /\ d \in Nat /\ c <= b /\ d <= b
        BY ParentFacts, Inside
    <2>2. c # b
        BY <2>1
    <2>3. p # 0 /\ c \in Enclosing(p)
        BY <2>2, EnclosingFacts
    <2>4. p \in T /\ p \in 1..NumBlocks
        BY <1>1, <2>3, ParentFacts
    <2>5. CASE d = b
        <3>1. BlockBase(d) = c_size_block(p)
            BY <2>3, <2>5, ParentFacts DEF BlockBase
        <3> QED
            BY <2>3, <2>4, <3>1, Inside
    <2>6. CASE d # b
        <3>1. d \in Enclosing(p)
            BY <2>6, EnclosingFacts
        <3> QED
            BY <2>3, <2>4, <3>1
    <2> QED
        BY <2>5, <2>6
<1>2. 1..NumBlocks \subseteq T
    <2> HIDE DEF Good
    <2>1. \A b \in 1..NumBlocks : (Parent[b] = 0 \/ Parent[b] \in T) => b \in T
        BY <1>1
    <2> HIDE DEF T
    <2> QED
        BY <2>1, TreeInduction
<1> QED
    BY <1>2

-----------------------------------------------------------------------------
(* The bytes of variables.                                                 *)

\* The bytes of a variable are those the sums say.
LEMMA Placement ==
    ASSUME NEW vs \in Seq(Variable), NEW base \in Nat, NEW k \in 1..Len(vs)
    PROVE  Bytes(Offsets(vs, base)[k], vs[k].size) =
               (base + SizeOf(vs, k - 1) + 1)..(base + SizeOf(vs, k))
<1>1. Offsets(vs, base)[k] = base + SizeOf(vs, k)
    BY DEF Offsets
<1>2. /\ SizeOf(vs, k) = SizeOf(vs, k - 1) + vs[k].size
      /\ vs[k].size \in Nat /\ SizeOf(vs, k) \in Nat /\ SizeOf(vs, k - 1) \in Nat
    BY SizeAdds
<1> DEFINE end == Offsets(vs, base)[k]
           size == vs[k].size
<1>3. Bytes(end, size) = (end - size + 1)..end
    BY Zenon DEF Bytes
<1>4. end - size + 1 = base + SizeOf(vs, k - 1) + 1
    BY <1>1, <1>2
<1> HIDE DEF end, size
<1>5. Bytes(end, size) = (base + SizeOf(vs, k - 1) + 1)..end
    BY <1>3, <1>4
<1> QED
    BY <1>1, <1>5 DEF end, size

\* The bytes of a parameter and of a local.
ParamBytes(f, k) ==
    (SizeOf(functions[f].params, k - 1) + 1)..SizeOf(functions[f].params, k)

LocalBytes(c, k) ==
    (BlockBase(c) + SizeOf(blocks[c].locals, k - 1) + 1)
        ..(BlockBase(c) + SizeOf(blocks[c].locals, k))

\* The variables of a frame.
LEMMA FrameVariables ==
    ASSUME program \in Programs, layout = Placed, NEW b \in 1..NumBlocks, NEW v \in FrameOf(b)
    PROVE  \/ \E k \in 1..Len(functions[blocks[b].function].params) :
                  v = <<"param", blocks[b].function, k, ParamBytes(blocks[b].function, k)>>
           \/ \E c \in Enclosing(b) : \E k \in 1..Len(blocks[c].locals) :
                  v = <<"local", c, k, LocalBytes(c, k)>>
<1> DEFINE f == blocks[b].function
           params == functions[f].params
<1>1. f \in 1..Len(functions) /\ params \in Seq(Variable)
    BY ProgramFacts DEF NumBlocks
<1>2. layout.params[f] = Offsets(params, 0)
    BY <1>1 DEF Placed
<1>3. CASE \E k \in 1..Len(params) :
               v = <<"param", f, k, Bytes(layout.params[f][k], params[k].size)>>
    <2>1. PICK k \in 1..Len(params) :
               v = <<"param", f, k, Bytes(layout.params[f][k], params[k].size)>>
        BY <1>3
    <2>2. Bytes(layout.params[f][k], params[k].size) =
              (0 + SizeOf(params, k - 1) + 1)..(0 + SizeOf(params, k))
        BY <1>1, <1>2, Placement
    <2>3. SizeOf(params, k - 1) \in Nat /\ SizeOf(params, k) \in Nat
        BY <1>1, SizeAdds
    <2>4. ParamBytes(f, k) = (0 + SizeOf(params, k - 1) + 1)..(0 + SizeOf(params, k))
        BY <2>3 DEF ParamBytes
    <2> QED
        BY <2>1, <2>2, <2>4
<1>4. CASE \E c \in Enclosing(b) : \E k \in 1..Len(blocks[c].locals) :
               v = <<"local", c, k, Bytes(layout.locals[c][k], blocks[c].locals[k].size)>>
    <2>0. PICK c \in Enclosing(b) : \E k \in 1..Len(blocks[c].locals) :
               v = <<"local", c, k, Bytes(layout.locals[c][k], blocks[c].locals[k].size)>>
        BY <1>4
    <2>1. PICK k \in 1..Len(blocks[c].locals) :
               v = <<"local", c, k, Bytes(layout.locals[c][k], blocks[c].locals[k].size)>>
        BY <2>0
    <2>2. c \in 1..Len(blocks) /\ BlockBase(c) \in Nat /\ blocks[c].locals \in Seq(Variable)
        BY Inside, BlockEnds, ProgramFacts DEF NumBlocks
    <2>3. layout.locals[c] = Offsets(blocks[c].locals, BlockBase(c))
        BY <2>2 DEF Placed
    <2>4. Bytes(layout.locals[c][k], blocks[c].locals[k].size) = LocalBytes(c, k)
        BY <2>2, <2>3, Placement DEF LocalBytes
    <2> QED
        BY <2>1, <2>4
<1> QED
    BY <1>3, <1>4 DEF FrameOf

\* Bytes that end where others start do not meet them.
LEMMA Apart ==
    ASSUME NEW a, NEW b \in Nat, NEW c \in Nat, NEW d, b <= c
    PROVE  (a..b) \cap ((c + 1)..d) = {} /\ ((c + 1)..d) \cap (a..b) = {}
OBVIOUS

\* Two variables of one table do not meet.
LEMMA SameTable ==
    ASSUME NEW vs \in Seq(Variable), NEW base \in Nat,
           NEW j \in 1..Len(vs), NEW k \in 1..Len(vs), j < k
    PROVE  base + SizeOf(vs, j) \in Nat /\ base + SizeOf(vs, k - 1) \in Nat
           /\ base + SizeOf(vs, j) <= base + SizeOf(vs, k - 1)
<1>1. Len(vs) \in Nat /\ j \in 0..Len(vs) /\ k - 1 \in 0..Len(vs) /\ j <= k - 1
    OBVIOUS
<1>2. SizeOf(vs, j) \in Nat /\ SizeOf(vs, k - 1) \in Nat
    BY <1>1, SizeFacts
<1>3. SizeOf(vs, j) <= SizeOf(vs, k - 1)
    BY <1>1, SizeGrows
<1> QED
    BY <1>2, <1>3

\* The bounds of the bytes of parameters and of locals.
LEMMA ParamBounds ==
    ASSUME program \in Programs, NEW f \in 1..Len(functions),
           NEW k \in 1..Len(functions[f].params)
    PROVE  LET params == functions[f].params
           IN /\ SizeOf(params, k - 1) \in Nat /\ SizeOf(params, k) \in Nat
              /\ SizeOf(params, k) <= ParamsSize(f)
<1> DEFINE params == functions[f].params
<1>1. params \in Seq(Variable) /\ Len(params) \in Nat /\ k \in 0..Len(params)
    BY ProgramFacts
<1>2. SizeOf(params, k - 1) \in Nat /\ SizeOf(params, k) \in Nat
    BY <1>1, SizeAdds
<1>3. SizeOf(params, k) <= Align16(SizeOf(params, Len(params)))
    BY <1>1, Fits
<1> QED
    BY <1>2, <1>3 DEF ParamsSize

LEMMA LocalBounds ==
    ASSUME program \in Programs, NEW c \in 1..NumBlocks, NEW k \in 1..Len(blocks[c].locals)
    PROVE  LET locals == blocks[c].locals
           IN /\ BlockBase(c) \in Nat
              /\ SizeOf(locals, k - 1) \in Nat /\ SizeOf(locals, k) \in Nat
              /\ BlockBase(c) + SizeOf(locals, k) <= c_size_block(c)
<1> DEFINE locals == blocks[c].locals
<1>1. locals \in Seq(Variable) /\ Len(locals) \in Nat /\ k \in 0..Len(locals)
    BY ProgramFacts DEF NumBlocks
<1>2. SizeOf(locals, k - 1) \in Nat /\ SizeOf(locals, k) \in Nat
    BY <1>1, SizeAdds
<1>3. SizeOf(locals, k) <= LocalsSize(c)
    BY <1>1, Fits DEF LocalsSize
<1>4. BlockBase(c) \in Nat /\ c_size_block(c) = LocalsSize(c) + BlockBase(c)
    BY BlockEnds
<1>5. LocalsSize(c) \in Nat
    BY FrameSizes DEF NumBlocks
<1>6. BlockBase(c) + SizeOf(locals, k) <= c_size_block(c)
    BY <1>2, <1>3, <1>4, <1>5
<1> QED
    BY <1>2, <1>4, <1>6

\* Two parameters.
LEMMA ParamsApart ==
    ASSUME program \in Programs, NEW f \in 1..Len(functions),
           NEW j \in 1..Len(functions[f].params), NEW k \in 1..Len(functions[f].params), j < k
    PROVE  ParamBytes(f, j) \cap ParamBytes(f, k) = {} /\ ParamBytes(f, k) \cap ParamBytes(f, j) = {}
<1> DEFINE params == functions[f].params
           ends == SizeOf(params, j)
           starts == SizeOf(params, k - 1)
<1>1. params \in Seq(Variable)
    BY ProgramFacts
<1>2. ends \in Nat /\ starts \in Nat
    BY ParamBounds
<1>3. 0 + ends <= 0 + starts
    BY <1>1, SameTable
<1>4. ends <= starts
    BY <1>2, <1>3
<1> QED
    BY <1>2, <1>4, Apart DEF ParamBytes

\* A parameter and a local of the same function.
LEMMA ParamLocalApart ==
    ASSUME program \in Programs, NEW c \in 1..NumBlocks,
           NEW j \in 1..Len(functions[blocks[c].function].params),
           NEW k \in 1..Len(blocks[c].locals)
    PROVE  /\ ParamBytes(blocks[c].function, j) \cap LocalBytes(c, k) = {}
           /\ LocalBytes(c, k) \cap ParamBytes(blocks[c].function, j) = {}
<1> DEFINE f == blocks[c].function
           ends == SizeOf(functions[f].params, j)
           starts == BlockBase(c) + SizeOf(blocks[c].locals, k - 1)
<1>1. f \in 1..Len(functions)
    BY ProgramFacts DEF NumBlocks
<1>2. ends \in Nat /\ ends <= ParamsSize(f)
    BY <1>1, ParamBounds
<1>3. BlockBase(c) \in Nat /\ SizeOf(blocks[c].locals, k - 1) \in Nat
    BY LocalBounds
<1>4. ParamsSize(f) <= BlockBase(c) /\ ParamsSize(f) \in Nat
    BY <1>1, BlockEnds, FrameSizes
<1>5. starts \in Nat /\ ends <= starts
    BY <1>2, <1>3, <1>4
<1> QED
    BY <1>2, <1>5, Apart DEF ParamBytes, LocalBytes

\* Two locals of one block.
LEMMA LocalsApart ==
    ASSUME program \in Programs, NEW c \in 1..NumBlocks,
           NEW j \in 1..Len(blocks[c].locals), NEW k \in 1..Len(blocks[c].locals), j < k
    PROVE  LocalBytes(c, j) \cap LocalBytes(c, k) = {} /\ LocalBytes(c, k) \cap LocalBytes(c, j) = {}
<1> DEFINE ends == BlockBase(c) + SizeOf(blocks[c].locals, j)
           starts == BlockBase(c) + SizeOf(blocks[c].locals, k - 1)
<1>1. blocks[c].locals \in Seq(Variable) /\ BlockBase(c) \in Nat
    BY ProgramFacts, BlockEnds DEF NumBlocks
<1>2. ends \in Nat /\ starts \in Nat /\ ends <= starts
    BY <1>1, SameTable
<1> QED
    BY <1>2, Apart DEF LocalBytes

\* Locals of two blocks around a third.
LEMMA BlocksApart ==
    ASSUME program \in Programs, NEW b \in 1..NumBlocks,
           NEW c \in Enclosing(b), NEW d \in Enclosing(b), c < d,
           NEW j \in 1..Len(blocks[c].locals), NEW k \in 1..Len(blocks[d].locals)
    PROVE  LocalBytes(c, j) \cap LocalBytes(d, k) = {} /\ LocalBytes(d, k) \cap LocalBytes(c, j) = {}
<1> DEFINE ends == BlockBase(c) + SizeOf(blocks[c].locals, j)
           starts == BlockBase(d) + SizeOf(blocks[d].locals, k - 1)
<1>1. c \in 1..NumBlocks /\ d \in 1..NumBlocks
    BY Inside
<1>2. /\ BlockBase(c) \in Nat /\ SizeOf(blocks[c].locals, j) \in Nat
      /\ ends <= c_size_block(c)
      /\ BlockBase(d) \in Nat /\ SizeOf(blocks[d].locals, k - 1) \in Nat
    BY <1>1, LocalBounds
<1>3. c_size_block(c) <= BlockBase(d) /\ c_size_block(c) \in Nat
    BY <1>1, Nested, BlockEnds
<1>4. ends \in Nat /\ starts \in Nat /\ ends <= starts
    BY <1>2, <1>3
<1> QED
    BY <1>4, Apart DEF LocalBytes

-----------------------------------------------------------------------------
(* The theorems.                                                           *)

\* Two variables of a frame do not meet.
LEMMA FrameDisjoint ==
    ASSUME program \in Programs, layout = Placed, NEW b \in 1..NumBlocks,
           NEW v \in FrameOf(b), NEW w \in FrameOf(b), v # w
    PROVE  v[4] \cap w[4] = {}
<1> DEFINE f == blocks[b].function
           IsParam(x, k) == x = <<"param", f, k, ParamBytes(f, k)>>
           IsLocal(x, c, k) == x = <<"local", c, k, LocalBytes(c, k)>>
           Params == 1..Len(functions[f].params)
           Locals(c) == 1..Len(blocks[c].locals)
<1>1. f \in 1..Len(functions) /\ Len(functions[f].params) \in Nat
    BY ProgramFacts, SMTT(30) DEF NumBlocks
<1>2. \A c \in Enclosing(b) :
          c \in 1..NumBlocks /\ blocks[c].function = f /\ c \in Nat /\ Len(blocks[c].locals) \in Nat
    BY Inside, ParentFacts, ProgramFacts DEF NumBlocks
<1>3. (\E k \in Params : IsParam(v, k))
      \/ (\E c \in Enclosing(b) : \E k \in Locals(c) : IsLocal(v, c, k))
    BY FrameVariables
<1>4. (\E k \in Params : IsParam(w, k))
      \/ (\E c \in Enclosing(b) : \E k \in Locals(c) : IsLocal(w, c, k))
    BY FrameVariables
<1>5. \A x, k : IsParam(x, k) => x[4] = ParamBytes(f, k)
    OBVIOUS
<1>6. \A x, c, k : IsLocal(x, c, k) => x[4] = LocalBytes(c, k)
    OBVIOUS
<1>7. CASE \E j \in Params : \E k \in Params : IsParam(v, j) /\ IsParam(w, k)
    <2>1. PICK j \in Params, k \in Params : IsParam(v, j) /\ IsParam(w, k)
        BY <1>7
    <2>2. j # k
        BY <2>1
    <2>3. j < k \/ k < j
        BY <1>1, <2>2
    <2>4. v[4] = ParamBytes(f, j) /\ w[4] = ParamBytes(f, k)
        BY <1>5, <2>1
    <2> QED
        BY <1>1, <2>3, <2>4, ParamsApart
<1>8. ASSUME NEW x, NEW y, NEW j \in Params, NEW c \in Enclosing(b), NEW k \in Locals(c),
             IsParam(x, j), IsLocal(y, c, k)
      PROVE  x[4] \cap y[4] = {} /\ y[4] \cap x[4] = {}
    <2>1. c \in 1..NumBlocks /\ blocks[c].function = f
        BY <1>2
    <2>2. /\ ParamBytes(f, j) \cap LocalBytes(c, k) = {}
          /\ LocalBytes(c, k) \cap ParamBytes(f, j) = {}
        BY <2>1, ParamLocalApart
    <2>3. x[4] = ParamBytes(f, j) /\ y[4] = LocalBytes(c, k)
        BY <1>5, <1>6, <1>8
    <2> QED
        BY <2>2, <2>3
<1>9. ASSUME NEW c \in Enclosing(b), NEW j \in Locals(c),
             NEW d \in Enclosing(b), NEW k \in Locals(d),
             IsLocal(v, c, j), IsLocal(w, d, k)
      PROVE  v[4] \cap w[4] = {}
    <2>1. c \in Nat /\ d \in Nat
        BY <1>2
    <2>2. v[4] = LocalBytes(c, j) /\ w[4] = LocalBytes(d, k)
        BY <1>6, <1>9
    <2>3. CASE c = d
        <3>1. j # k
            BY <1>9, <2>3
        <3>2. j < k \/ k < j
            BY <1>2, <2>3, <3>1
        <3>3. c \in 1..NumBlocks
            BY <1>2
        <3> QED
            BY <2>2, <2>3, <3>2, <3>3, LocalsApart
    <2>4. CASE c < d
        BY <2>2, <2>4, BlocksApart
    <2>5. CASE d < c
        BY <2>2, <2>5, BlocksApart
    <2> QED
        BY <2>1, <2>3, <2>4, <2>5
<1> HIDE DEF f, IsParam, IsLocal, Params, Locals
<1> QED
    BY <1>3, <1>4, <1>7, <1>8, <1>9

\* For every program, no two variables share a byte while both exist.
LEMMA Disjoint ==
    ASSUME Static
    PROVE  VariablesDisjoint
<1> SUFFICES ASSUME phase \in {"generate", "done"}
             PROVE  /\ \A b \in 1..Len(blocks) : \A v, w \in FrameOf(b) :
                           v # w => v[4] \cap w[4] = {}
                    /\ \A k \in 1..Len(program.globals) :
                           layout.globals[k] >=
                               IF k = 1 THEN program.data
                               ELSE layout.globals[k - 1] + program.globals[k - 1].size
    BY DEF VariablesDisjoint
<1>1. program \in Programs /\ layout = Placed
    BY DEF Static
<1>2. \A b \in 1..Len(blocks) : \A v, w \in FrameOf(b) : v # w => v[4] \cap w[4] = {}
    BY <1>1, FrameDisjoint DEF NumBlocks
<1> DEFINE vs == program.globals
<1>3. vs \in Seq(Variable) /\ program.data \in Nat /\ Len(vs) \in Nat
    BY <1>1, ProgramFacts
<1>4. \A k \in 1..Len(vs) : layout.globals[k] = program.data + SizeOf(vs, k - 1)
    BY <1>1 DEF Placed
<1>5. ASSUME NEW k \in 1..Len(vs), k = 1
      PROVE  layout.globals[k] >= program.data
    <2>1. SizeOf(vs, k - 1) = 0
        BY <1>3, <1>5, SizeAdds
    <2>2. layout.globals[k] = program.data + 0
        BY <1>4, <2>1
    <2> QED
        BY <1>3, <2>2
<1>6. ASSUME NEW k \in 1..Len(vs), k # 1
      PROVE  layout.globals[k] >= layout.globals[k - 1] + vs[k - 1].size
    <2> DEFINE j == k - 1
    <2>1. j \in 1..Len(vs)
        BY <1>3, <1>6
    <2>2. /\ SizeOf(vs, j) = SizeOf(vs, j - 1) + vs[j].size
          /\ SizeOf(vs, j) \in Nat /\ SizeOf(vs, j - 1) \in Nat /\ vs[j].size \in Nat
        BY <1>3, <2>1, SizeAdds
    <2>3. layout.globals[k] = program.data + SizeOf(vs, j)
          /\ layout.globals[j] = program.data + SizeOf(vs, j - 1)
        BY <1>4, <2>1
    <2> HIDE DEF j
    <2>4. layout.globals[k] >= layout.globals[j] + vs[j].size
        BY <1>3, <2>2, <2>3
    <2> QED
        BY <2>4 DEF j
<1> QED
    BY <1>2, <1>5, <1>6

\* The variables of a frame end before its block does.
LEMMA FrameEnds ==
    ASSUME program \in Programs, layout = Placed, NEW b \in 1..NumBlocks, NEW v \in FrameOf(b)
    PROVE  v[4] \subseteq 1..c_size_block(b)
<1> DEFINE f == blocks[b].function
           n == c_size_block(b)
<1>1. f \in 1..Len(functions) /\ n \in Nat /\ BlockBase(b) \in Nat
      /\ ParamsSize(f) <= BlockBase(b) /\ n = LocalsSize(b) + BlockBase(b)
      /\ LocalsSize(b) \in Nat /\ ParamsSize(f) \in Nat
    BY ProgramFacts, BlockEnds, FrameSizes DEF NumBlocks
<1>2. CASE \E k \in 1..Len(functions[f].params) : v = <<"param", f, k, ParamBytes(f, k)>>
    <2>1. PICK k \in 1..Len(functions[f].params) : v = <<"param", f, k, ParamBytes(f, k)>>
        BY <1>2
    <2> DEFINE lo == SizeOf(functions[f].params, k - 1)
               hi == SizeOf(functions[f].params, k)
    <2>2. lo \in Nat /\ hi \in Nat /\ hi <= ParamsSize(f)
        BY <1>1, ParamBounds
    <2>3. hi <= n
        BY <1>1, <2>2
    <2>4. v[4] = (lo + 1)..hi
        BY <2>1 DEF ParamBytes
    <2> HIDE DEF lo, hi, n
    <2> QED
        BY <1>1, <2>2, <2>3, <2>4, SMTT(30) DEF n
<1>3. CASE \E c \in Enclosing(b) : \E k \in 1..Len(blocks[c].locals) :
               v = <<"local", c, k, LocalBytes(c, k)>>
    <2>1. PICK c \in Enclosing(b) : \E k \in 1..Len(blocks[c].locals) :
               v = <<"local", c, k, LocalBytes(c, k)>>
        BY <1>3
    <2>2. PICK k \in 1..Len(blocks[c].locals) : v = <<"local", c, k, LocalBytes(c, k)>>
        BY <2>1
    <2> DEFINE base == BlockBase(c)
               lo == SizeOf(blocks[c].locals, k - 1)
               hi == SizeOf(blocks[c].locals, k)
               ends == c_size_block(c)
    <2>3. c \in 1..NumBlocks /\ ends <= n
        BY Inside
    <2>4. base \in Nat /\ lo \in Nat /\ hi \in Nat /\ base + hi <= ends /\ ends \in Nat
        BY <2>3, LocalBounds, BlockEnds
    <2>5. v[4] = (base + lo + 1)..(base + hi)
        BY <2>2 DEF LocalBytes
    <2> HIDE DEF base, lo, hi, ends, n
    <2>6. v[4] \subseteq 1..n
        BY <1>1, <2>3, <2>4, <2>5
    <2> QED
        BY <2>6 DEF n
<1> QED
    BY <1>2, <1>3, FrameVariables

\* For every program, a block's space holds the variables of its frame.
LEMMA Reserved ==
    ASSUME Static
    PROVE  FramesReserved
<1> SUFFICES ASSUME phase \in {"generate", "done"}
             PROVE  FramesReserved
    BY DEF FramesReserved
<1>1. program \in Programs /\ layout = Placed
    BY DEF Static
<1> DEFINE Recurs(g) == g = [c \in 1..Len(blocks) |->
                                 layout.locals_size[c] + IF blocks[c].parent = 0
                                                         THEN layout.params_size[blocks[c].function]
                                                         ELSE g[blocks[c].parent]]
           f == [c \in 1..Len(blocks) |-> c_size_block(c)]
<1>2. ASSUME NEW c \in 1..Len(blocks)
      PROVE  /\ layout.locals_size[c] = LocalsSize(c)
             /\ layout.params_size[blocks[c].function] = ParamsSize(blocks[c].function)
             /\ blocks[c].parent # 0 => blocks[c].parent \in 1..Len(blocks)
             /\ c_size_block(c) =
                    LocalsSize(c) + IF blocks[c].parent = 0 THEN ParamsSize(blocks[c].function)
                                    ELSE c_size_block(blocks[c].parent)
    <2>1. blocks[c].function \in 1..Len(functions)
        BY <1>1, ProgramFacts
    <2>2. layout.locals_size[c] = LocalsSize(c)
        BY <1>1 DEF Placed
    <2>3. layout.params_size[blocks[c].function] = ParamsSize(blocks[c].function)
        BY <1>1, <2>1 DEF Placed
    <2>4. blocks[c].parent # 0 => blocks[c].parent \in 1..Len(blocks)
        BY <1>1, ParentFacts DEF NumBlocks
    <2>5. c_size_block(c) = LocalsSize(c) + BlockBase(c)
        BY <1>1, BlockEnds DEF NumBlocks
    <2> QED
        BY <2>2, <2>3, <2>4, <2>5 DEF BlockBase
<1>3. Recurs(f)
    <2>1. ASSUME NEW c \in 1..Len(blocks)
          PROVE  f[c] = layout.locals_size[c] + IF blocks[c].parent = 0
                                                THEN layout.params_size[blocks[c].function]
                                                ELSE f[blocks[c].parent]
        <3>1. f[c] = c_size_block(c)
            OBVIOUS
        <3>2. blocks[c].parent # 0 => f[blocks[c].parent] = c_size_block(blocks[c].parent)
            BY <1>2
        <3> HIDE DEF f
        <3> QED
            BY <1>2, <3>1, <3>2
    <2>2. f = [c \in 1..Len(blocks) |-> f[c]]
        OBVIOUS
    <2> HIDE DEF f
    <2> QED
        BY <2>1, <2>2
<1> DEFINE reserved == CHOOSE g : Recurs(g)
<1>4. Recurs(reserved)
    <2> HIDE DEF Recurs, f
    <2> QED
        BY <1>3
<1> DEFINE Holds == \A b \in 1..Len(blocks) :
                        /\ \A v \in FrameOf(b) : v[4] \subseteq 1..reserved[b]
                        /\ reserved[b] % 16 = 0
<1>5. Holds => FramesReserved
    BY DEF FramesReserved
<1>6. ASSUME NEW c \in 1..Len(blocks)
      PROVE  reserved[c] = layout.locals_size[c] + IF blocks[c].parent = 0
                                                   THEN layout.params_size[blocks[c].function]
                                                   ELSE reserved[blocks[c].parent]
    <2> HIDE DEF reserved
    <2> QED
        BY <1>4
<1> HIDE DEF reserved
<1> DEFINE T == {b \in 1..NumBlocks : reserved[b] = c_size_block(b)}
<1>7. \A b \in 1..NumBlocks : (Parent[b] = 0 \/ Parent[b] \in T) => b \in T
    BY <1>1, <1>2, <1>6, ParentFacts DEF NumBlocks
<1>8. \A b \in 1..NumBlocks : reserved[b] = c_size_block(b)
    <2>1. 1..NumBlocks \subseteq T
        <3> HIDE DEF T
        <3> QED
            BY <1>1, <1>7, TreeInduction
    <2> QED
        BY <2>1
<1>9. Holds
    BY <1>1, <1>8, FrameEnds, BlockEnds DEF NumBlocks
<1> QED
    BY <1>5, <1>9

\* For every program, parameters and locals of nested blocks, and globals and
\* string literals, do not share a byte.
THEOREM LayoutDisjoint == Spec => []VariablesDisjoint
<1>1. IInv => VariablesDisjoint
    BY Disjoint DEF IInv
<1> QED
    BY <1>1, Invariance, PTL

\* For every program, what c_generate reserves on the stack holds the variables
\* of every block, and keeps the stack pointer a multiple of 16.
THEOREM LayoutReserved == Spec => []FramesReserved
<1>1. IInv => FramesReserved
    BY Reserved DEF IInv
<1> QED
    BY <1>1, Invariance, PTL
=============================================================================
