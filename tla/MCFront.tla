------------------------------ MODULE MCFront ------------------------------
(***************************************************************************)
(* Instances of Front for TLC: texts put together from pieces, small sets  *)
(* of files that include each other, and libraries that module Embed has   *)
(* turned into a program; and the refinement.                              *)
(***************************************************************************)
EXTENDS Front, TLC, SequencesExt

VARIABLE program   \* history: what the files of the start hold

Status ==
    IF loading = "crash" THEN "crash" ELSE IF pc \in L!Final THEN pc ELSE "running"

Abstract == INSTANCE Preprocessor WITH status <- Status

\* The files as a compiler of C reads them: the tokens the parser accepts are
\* those of the expanded text, in order and all of them, unless the text has
\* an error or leaves a string or an #ifdef open; the lexer neither loses
\* input behind comments, directives and literals nor reads any twice, for
\* all its look-ahead.
Preprocesses == Abstract!Spec

\* What s_load leaves for the lexer is main's file with every included file in
\* the place of its #include line, found from the directory of the file that
\* names it; it fails only when one of them cannot be opened (source.c:18).
LoadsExpansion ==
    /\ loading = "loaded" /\ pc = "initialize" => source = Abstract!Expand(MainPath, 0)
    /\ loading = "crash" => Abstract!Expand(MainPath, 0) = Abstract!Crash

MCInit == Init /\ program = Abstract!Expected

MCSpec ==
    /\ MCInit
    /\ [][Next /\ UNCHANGED program]_<<vars, program>>
    /\ WF_vars(Load \/ Parse)

-----------------------------------------------------------------------------
(* Texts.                                                                  *)

\* All texts of up to n of the pieces.
Texts(pieces, n) == {FlattenSeq(s) : s \in BoundedSeq(pieces, n)}

Operators == { <<c>> : c \in {"+", "-", "<", "=", "&", "!", ".", "x", " "} }

Literals ==
    { <<"\"">>, <<"'">>, <<"\\">>, <<"n">>, <<"x">>, <<"\\", "\"">>, <<"1">> }

\* A newline within a literal.
Broken == { <<"\"">>, <<"'">>, <<NL>>, <<"x">> }

Comments ==
    { <<"/", "*">>, <<"*", "/">>, <<"*">>, <<"x">>, <<"\"">>, <<NL>>, <<"/">> }

Ifdef(w) == <<"#", "ifdef", " ", w, NL>>
Define(w, v) == <<"#", "define", " ", w, " ", v, NL>>
Endif == <<"#", "endif", NL>>

Directives ==
    { Ifdef("X"), Ifdef("A"), Define("X", "1"), Define("y", "X"), Endif, <<"X", NL>>, <<"y", NL>>,
      <<"#", "include", " ", "<", "b", ">", NL>>, <<"#", "undef", NL>>, <<"if", NL>>,
      <<"/", "*", NL, "*", "/", NL>> }

-----------------------------------------------------------------------------
(* What the compiler supports.                                             *)

C == INSTANCE CTokens

Starts(t, i, p) == i + Len(p) - 1 <= Len(t) /\ SubSeq(t, i, i + Len(p) - 1) = p

IsDirective(l, name) == l.kind = "directive" /\ l.text = <<"#", name>>

\* The text does not start with white space (with the library in front of it
\* no text does); comments do not end in **/; and a backslash in a string does
\* not escape another one.
SupportedText(t) ==
    /\ t /= <<>> => ~is_whitespace(t[1])
    /\ \A i \in 1..Len(t) :
           /\ ~Starts(t, i, <<"\\", "\\">>)
           /\ Starts(t, i, <<"*", "*", "/">>) =>
                  i > 1 /\ t[i - 1] = "/" /\ \A k \in 1..(i - 2) : ~Starts(t, k, <<"/", "*">>)

\* No part that may be skipped has an #ifdef or a literal; and a #define is
\* not followed by the use of its name or by #ifdef or #endif, as the token
\* behind a #define is read before the name is added.
SupportedLexemes(ls) ==
    /\ \A i \in 1..Len(ls) : IsDirective(ls[i], "ifdef") =>
           \A j \in (i + 1)..Len(ls) :
               \/ ls[j].kind \in {"newline", "word", "punctuation", "t_numeric"}
               \/ ls[j].kind = "directive" /\ ~IsDirective(ls[j], "ifdef")
               \/ \E k \in (i + 1)..j : IsDirective(ls[k], "endif")
    /\ \A i \in 1..Len(ls) : IsDirective(ls[i], "define") =>
           \A j \in (i + 3)..Len(ls) :
               \/ ls[j].kind = "newline"
               \/ \E k \in (i + 3)..(j - 1) : ls[k].kind /= "newline"
               \/ ~IsDirective(ls[j], "ifdef") /\ ~IsDirective(ls[j], "endif")
                  /\ ls[j].text /= ls[i + 1].text

Supported(t) == SupportedText(t) /\ SupportedLexemes(C!Lexemes(t))

MCDefine == <<"A">>

MCMain == <<"d", "/", "a">>

Alone(text) == (MCMain :> text)

Include(path) == <<"#", "include", " ", "\"">> \o path \o <<"\"", NL>>

\* Files in two directories, with includes of missing files and of each other.
Trees ==
    { (MCMain :> main) @@ (<<"d", "/", "b">> :> b) @@ (<<"d", "/", "n", "/", "b">> :> c) :
        main \in Texts({<<"x", NL>>, Include(<<"b">>), Include(<<"n", "/", "b">>)}, 2),
        b \in Texts({<<"y", NL>>, Include(<<"n", "/", "b">>), Include(<<"a">>)}, 2),
        c \in Texts({<<"1", NL>>, Include(<<"b">>), Include(<<"x">>)}, 1) }

MCLineLength == 8

E == INSTANCE Embed WITH MAX_LINE_LEN <- MCLineLength

\* The tokens of a library that stands alone.
TokensOf(t) == C!Obey(C!Lexemes(t), <<>>)

FitsLines(t) ==
    \A i \in 1..Len(t) :
        LET end == E!BufferEnd(t, i - 1) IN end = Len(t) \/ t[end] = NL

\* What a library is made of: quotes in strings and characters, and of the
\* escapes, as in rvclib.c (lines 320 and 368), \n, but neither \" nor \\.
Parts ==
    { <<"x">>, <<"\"", "\"">>, <<"\"", "x", "\\", "n", "\"">>, <<"\"", "'", "\"">>, <<"'", "\"", "'">>,
      <<"'", "\\", "n", "'">>, <<"/", "*", "*", "/">>, <<NL>> }

\* Libraries whose lines fit the buffer and end with a newline.
Libraries == {lib \in {Append(t, NL) : t \in Texts(Parts, 3)} : FitsLines(lib)}

Embedded == [lib \in Libraries |-> E!embed(lib)]

Conditional == { Ifdef("X"), Define("X", "1"), Endif, <<"y", NL>> }

MCFileSystems ==
    Trees \cup {Alone(Embedded[lib]) : lib \in DOMAIN Embedded} \cup
    { Alone(Append(t, NL)) :
        t \in { u \in Texts(Operators, 3) \cup Texts(Literals, 4) \cup Texts(Broken, 4)
                      \cup Texts(Comments, 4) \cup Texts(Directives, 3) \cup Texts(Conditional, 5) : Supported(Append(u, NL)) } }

\* Programs that define X first.
MCDefining == { Alone(Define("X", "1") \o t) : t \in Texts(Conditional, 3) }

\* The text that the strings of the embedded library make, one behind the
\* other, which is what s_clib puts in front of a program.
ReadBack == FlattenSeq([k \in 1..Len(out) |-> IF out[k].token = "t_string" THEN out[k].text ELSE <<>>])

\* The compiler reads the embedded library to its end, and what it makes of it
\* is a text with the tokens of the library: quotes that embed.c escapes are
\* quotes again; a \n of a literal, which embed.c does not escape, arrives as
\* the newline itself, of which the lexer (lexer.c:206, 245) makes the same
\* literal.  So must it be for a compiler that has compiled itself to pass on
\* its library.
LibraryReadsBack ==
    pc \in L!Final =>
        \A lib \in Libraries : files[MainPath] = Embedded[lib] =>
            pc = "eof" /\ TokensOf(ReadBack) = TokensOf(lib)

\* An #ifdef finds a name that a #define before it has defined.
IfdefFindsDefine ==
    pc = "ifdef" /\ At(source, source_idx + 1) = NL =>
        LET name == Append(token_string, At(source, source_idx)) IN
        (\E i \in 1..source_idx : Starts(source, i, <<"#", "define", " ">> \o name)) => L!Known(name)

=============================================================================
