---------------------------- MODULE Characters ----------------------------
(***************************************************************************)
(* The characters of a source text, and their classes in helpers.c.  A run *)
(* of letters that is never taken apart ("define", "if") is one character  *)
(* of the model; a text is a sequence of characters.                       *)
(***************************************************************************)
EXTENDS Naturals, Sequences

NL == "\n"

\* The byte behind the last one of a text.
End == "NUL"

is_whitespace(c) == c \in {" ", NL}

\* Runs of letters that are one character here.  None starts with a
\* hexadecimal digit that could follow a digit in the texts of the runs.
Runs ==
    {"define", "ifdef", "endif", "include", "undef", "if", "return", "void", "__s", "s_clib"}

is_alnum(c) == c \in {"0", "1", "a", "b", "d", "n", "x", "y", "X", "A"} \cup Runs

is_digit(c) == c \in {"0", "1"}

is_hex(c) == c \in {"0", "1", "a", "b", "d", "x", "A"}

\* The character of text t at index i, counted from 0 as in C.
At(t, i) == IF i < Len(t) THEN t[i + 1] ELSE End

\* The first index from i on whose character is not in class P.
After(t, i, P(_)) ==
    CHOOSE j \in i..(Len(t) + 1) :
        /\ \A k \in i..(j - 1) : P(At(t, k))
        /\ ~P(At(t, j))

=============================================================================
