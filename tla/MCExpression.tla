--------------------------- MODULE MCExpression ---------------------------
(***************************************************************************)
(* Instances of Expression for TLC.                                        *)
(***************************************************************************)
EXTENDS Expression, TLC

\* An int, a char **, an int * and a char array.
MCVariables ==
    { [is_pointer |-> 0, is_array |-> FALSE, wide |-> TRUE],
      [is_pointer |-> 2, is_array |-> FALSE, wide |-> FALSE],
      [is_pointer |-> 1, is_array |-> FALSE, wide |-> TRUE],
      [is_pointer |-> 0, is_array |-> TRUE,  wide |-> FALSE] }

MCPointers == {v \in MCVariables : v.is_pointer = 2 \/ v.is_array}

MCScalar == {NoVariable}

CONSTANT NestedTokens   \* bound: tokens of an expression that is not flat

FewOps == {"op_equals", "op_add", "op_mul"}

\* Bound: from register 0 the expressions are flat, constants with any of the
\* operators between; from the others they nest, and are short.
Bounded ==
    IF frames[1].pn = 0
    THEN /\ Len(frames) = 1
         /\ \A t \in 1..Len(m.term) : m.term[t].op \in {"leaf"} \cup BinaryOps
    ELSE /\ tokens <= NestedTokens
         /\ \A f \in 1..Len(frames), k \in 1..MaxTokens :
                k <= Len(frames[f].oprs) => frames[f].oprs[k] \in FewOps

\* An int and a char *.
MCBytes ==
    { [is_pointer |-> 0, is_array |-> FALSE, wide |-> TRUE],
      [is_pointer |-> 1, is_array |-> FALSE, wide |-> FALSE] }

\* Multiplication is "apply first, high priority" (parser.c:418): without
\* brackets, the left operand of a product is no sum, whatever stands before it.
ProductsBeforeSums ==
    \A t \in 1..Len(m.term) :
        m.term[t].op = "op_mul" => m.term[m.term[t].l].op # "op_add"

=============================================================================
