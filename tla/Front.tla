------------------------------- MODULE Front -------------------------------
(***************************************************************************)
(* The front of the compiler: main calls s_load, then p_parse, which reads *)
(* the text that was loaded one token at a time.                           *)
(***************************************************************************)
EXTENDS Characters

CONSTANTS FileSystems, MainPath, MaxOpen, SourceDefine

ASSUME MaxOpenAssumption == MaxOpen \in Nat \ {0}

ASSUME TextsAssumption ==
    /\ \A fs \in FileSystems : \A p \in DOMAIN fs : fs[p] \in Seq(STRING \ {End})
    /\ SourceDefine \in Seq(STRING)

\* The characters named here are strings, which no prover knows of a literal.
ASSUME CharactersAssumption ==
    {End, NL, "#", "define", "1", "\r", "\t", "\"", "'", "\\"} \subseteq STRING

VARIABLES
    files, open, source, loading,                              \* Source
    pc, source_idx, token_string, special, next_token, aliases, parsing, out   \* Lexer

S == INSTANCE Source
L == INSTANCE Lexer

lexerVars == <<pc, source_idx, token_string, special, next_token, aliases, parsing, out>>

vars == <<files, open, source, loading, lexerVars>>

Init == S!Init /\ L!Init

Load == S!Next /\ UNCHANGED lexerVars

\* p_parse, once s_load has returned to main.
Parse ==
    /\ loading = "loaded"
    /\ L!Next
    /\ UNCHANGED <<files, open, loading>>

Ended == loading = "crash" \/ pc \in L!Final

Terminating == Ended /\ UNCHANGED vars

Next == Load \/ Parse \/ Terminating

\* The program is one thread that runs whenever it can.
Spec == Init /\ [][Next]_vars /\ WF_vars(Load \/ Parse)

-----------------------------------------------------------------------------

TypeOK ==
    /\ Len(open) <= MaxOpen
    /\ \A i \in 1..Len(open) :
           /\ open[i].path \in DOMAIN files
           /\ open[i].pos \in 0..Len(files[open[i].path])
    /\ loading \in {"running", "loaded", "crash"}
    /\ source \in Seq(STRING)
    /\ source_idx \in 0..Len(source)
    /\ pc \in {"initialize", "token", "include", "ifdef", "skip", "comment", "string", "parser"}
                \cup L!Final
    /\ special \in BOOLEAN
    /\ token_string \in Seq(STRING)
    /\ next_token \in {"t_sof", "t_define", "t_include", "t_numeric", "punctuation", "t_string",
                       "t_char", "t_eof", "keyword", "t_identifier"}
    /\ parsing[1] \in {"statement", "define name", "define value", "add alias"}
    /\ \A i \in 1..Len(out) : out[i].token \notin {"t_sof", "t_define", "t_include", "t_eof"}

\* What an activation of s_load has not read, with the end of its file.
Unread(i) ==
    IF i \in 1..Len(open) THEN Len(files[open[i].path]) - open[i].pos + 1 ELSE 0

\* How much is left to do at one place of the text, at most.
Stage ==
    CASE pc \in L!Final -> 0
      [] pc = "initialize" -> 7
      [] pc = "parser" -> (IF next_token = "t_eof" THEN 1 ELSE 5)
                          + (IF parsing[1] = "add alias" THEN 1 ELSE 0)
      [] pc = "token" -> 4
      [] pc = "string" -> 3
      [] OTHER -> 1

Remaining == 8 * (Len(source) - source_idx) + Stage

\* No loop turns without reading: each step of s_load leaves less to read in
\* some activation, and in those below it as much as there was, and each step
\* of lexer and parser less of the text, or less to do at its place.  This is
\* what Terminates rests on, files that include themselves included.
EveryStepReads ==
    [][/\ Load => \E i \in 1..Len(open) :
                     /\ Unread(i)' < Unread(i)
                     /\ \A j \in 1..(i - 1) : open'[j] = open[j]
       /\ Parse => Remaining' < Remaining /\ Remaining' >= 0]_vars

\* The program that is loaded ends: every include returns or fails, and every
\* loop of the lexer comes to an end or to the end of the text.
Terminates == <>Ended

=============================================================================
