------------------------------- MODULE Embed -------------------------------
(***************************************************************************)
(* The tool lib/embed.c: it turns the library rvclib.c into the C function *)
(* s_clib, which calls __s with a string for every line.  The compiler     *)
(* includes that function and calls it to put the library in front of a    *)
(* program.  A text is one of module Characters.                           *)
(***************************************************************************)
EXTENDS Characters

CONSTANT MAX_LINE_LEN   \* the size of the buffer for a line, more than 1

\* fgets, from place i on: up to a newline, the end of the text, or as much as
\* the buffer holds.
BufferEnd(text, i) ==
    LET j == After(text, i, LAMBDA c : c \notin {NL, End})
        k == IF At(text, j) = NL THEN j + 1 ELSE j
    IN  IF k - i < MAX_LINE_LEN THEN k ELSE i + MAX_LINE_LEN - 1

\* Mutant: quotes are copied like any other character.
QuotesCopied(c) == IF c = NL THEN <<>> ELSE <<c>>

\* A quote is escaped and a newline left out; a backslash stays as it is.
Escaped(c) == IF c = "\"" THEN <<"\\", "\"">> ELSE IF c = NL THEN <<>> ELSE <<c>>

\* A newline is added, whether there was one or not.
s_write_line(line) ==
    LET upto[k \in 0..Len(line)] == IF k = 0 THEN <<>> ELSE upto[k - 1] \o Escaped(line[k])
    IN  <<"__s", "(", "\"">> \o upto[Len(line)] \o <<"\\", "n", "\"", ")", ";", NL>>

s_load(text) ==
    LET from[i \in 0..Len(text)] ==
            IF i = Len(text) THEN <<>>
            ELSE LET j == BufferEnd(text, i) IN
                 s_write_line(SubSeq(text, i + 1, j)) \o from[j]
    IN  from[0]

\* The file that main writes.
embed(text) ==
    <<"void", " ", "s_clib", "(", ")", " ", "{", NL>> \o s_load(text) \o <<"}", NL>>

=============================================================================
