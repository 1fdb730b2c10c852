--------------------------- MODULE Preprocessor ---------------------------
(***************************************************************************)
(* What loading and lexing promise: the tokens of the program, one after   *)
(* the other, then how the text ends.  The tokens are defined on the whole *)
(* text, with the includes expanded.                                       *)
(***************************************************************************)
EXTENDS CTokens, TLC

CONSTANTS MainPath, MaxOpen, SourceDefine   \* as in Source and Lexer

VARIABLES
    files,    \* the file system; any, and it stays
    program,  \* what it holds
    out,      \* the tokens delivered so far
    status    \* "running", or how it ended

vars == <<files, program, out, status>>

-----------------------------------------------------------------------------
(* Includes.                                                               *)

Crash == <<"crash">>

\* The lines of a text, each with its newline.
RECURSIVE Lines(_)
Lines(t) ==
    IF t = <<>> THEN <<>>
    ELSE LET n == CHOOSE i \in 1..Len(t) :
                      /\ \A k \in 1..(i - 1) : t[k] /= NL
                      /\ t[i] = NL \/ i = Len(t)
         IN  << SubSeq(t, 1, n) >> \o Lines(SubSeq(t, n + 1, Len(t)))

\* The directory of a path, with its /.
DirectoryOf(path) ==
    LET slashes == {i \in 1..Len(path) : path[i] = "/"} IN
    IF slashes = {} THEN <<>>
    ELSE SubSeq(path, 1, CHOOSE i \in slashes : \A k \in slashes : k <= i)

IncludesFile(line) == Len(line) > 4 /\ SubSeq(line, 1, 4) = <<"#", "include", " ", "\"">>

RECURSIVE Expand(_, _), ExpandLines(_, _, _)
\* The text of a file with what it includes in its place, n files being open.
Expand(path, n) ==
    IF path \notin DOMAIN files \/ n = MaxOpen THEN Crash
    ELSE ExpandLines(path, Lines(files[path]), n + 1)

ExpandLines(path, lines, n) ==
    IF lines = <<>> THEN <<>>
    ELSE LET l == lines[1]
             first == IF IncludesFile(l)
                      THEN Expand(DirectoryOf(path) \o SubSeq(l, 5, Len(l) - 2), n)
                      ELSE l
             rest == ExpandLines(path, Tail(lines), n)
         IN  IF first = Crash \/ rest = Crash THEN Crash ELSE first \o rest

-----------------------------------------------------------------------------

\* What the compiler is to read of the files: its tokens, and how it ends.
Expected ==
    LET text == Expand(MainPath, 0) IN
    IF text = Crash THEN Ended("crash")
    ELSE Obey(Lexemes(text), (SourceDefine :> <<"1">>))

-----------------------------------------------------------------------------

Init == program = Expected /\ out = <<>> /\ status = "running"

Deliver ==
    /\ status = "running"
    /\ Len(out) < Len(program.tokens)
    /\ out' = Append(out, program.tokens[Len(out) + 1])
    /\ UNCHANGED <<files, program, status>>

Finish ==
    /\ status = "running"
    /\ out = program.tokens
    /\ status' = program.end
    /\ UNCHANGED <<files, program, out>>

Next == Deliver \/ Finish

Spec == Init /\ [][Next]_vars /\ WF_vars(Next)

=============================================================================
