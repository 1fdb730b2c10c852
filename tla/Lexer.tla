------------------------------- MODULE Lexer -------------------------------
(***************************************************************************)
(* l_next_token of lexer.c, one character at a time where it loops, and    *)
(* the part of the parser that acts on it: p_read_global_statement for     *)
(* #define and #include, with one token of look-ahead.  Every other token  *)
(* is accepted by some caller; `out` is what was accepted.                 *)
(*                                                                         *)
(* `return l_next_token()` behind a comment or a directive is a return to  *)
(* the control point "token".  A loop that reads the byte behind the text  *)
(* and does not test for it never comes back: "overrun".                   *)
(***************************************************************************)
EXTENDS Characters

CONSTANT SourceDefine   \* the alias the backend defines before parsing

VARIABLES
    source,        \* _source: read only
    pc,            \* the control point
    source_idx,    \* _source_idx; _l_next_char is the character there
    token_string,  \* _l_token_string
    special,       \* the last character of a string was a backslash
    next_token,    \* _l_next_token
    aliases,       \* _aliases
    parsing,       \* what p_read_global_statement is reading
    out            \* the tokens accepted outside of directives

-----------------------------------------------------------------------------

next_char == At(source, source_idx)

Skip(i) == After(source, i, is_whitespace)

\* l_read_char(1): the index of the next character that is not white.
ReadSkip(n) == Skip(source_idx + n)

Final == {"eof", "error", "overrun"}

\* The characters from source_idx to before j.
Taken(j) == SubSeq(source, source_idx + 1, j)

Return(token, text, idx) ==
    /\ next_token' = token
    /\ token_string' = text
    /\ source_idx' = idx
    /\ pc' = "parser"

Again(idx) ==
    /\ source_idx' = idx
    /\ token_string' = <<>>
    /\ pc' = "token"
    /\ UNCHANGED next_token

Goto(control, idx) ==
    /\ source_idx' = idx
    /\ pc' = control
    /\ UNCHANGED next_token

Stop(result) ==
    /\ pc' = result
    /\ UNCHANGED <<source_idx, token_string, next_token>>

InToken == pc = "token"

UnchangedParser == UNCHANGED <<source, aliases, parsing, out>>

LexerOnly == UnchangedParser /\ UNCHANGED special

\* Between two global statements, or in one that is not a directive.
Statement == <<"statement">>

Init ==
    /\ pc = "initialize"
    /\ source_idx = 0
    /\ token_string = <<>>
    /\ special = FALSE
    /\ next_token = "t_sof"
    /\ aliases = << [alias |-> SourceDefine, value |-> <<"1">>] >>
    /\ parsing = Statement
    /\ out = <<>>

\* l_initialize: the first l_next_token starts at the first character.
Initialize ==
    /\ pc = "initialize"
    /\ Again(0)
    /\ LexerOnly

-----------------------------------------------------------------------------
(* Directives.                                                             *)

WordEnd == After(source, source_idx + 1, is_alnum)

Directive(name) ==
    /\ InToken
    /\ next_char = "#"
    /\ Taken(WordEnd) = <<"#", name>>
    /\ LexerOnly

DirectiveInclude ==
    /\ Directive("include")
    /\ token_string' = <<>>
    /\ Goto("include", Skip(WordEnd))

\* The rest of the line is taken to be the token, whatever it is.
IncludeLine ==
    /\ pc = "include"
    /\ IF next_char = End THEN Stop("overrun")
       ELSE LET j == source_idx + 1 IN
            IF At(source, j) = NL
            THEN Return("t_include", Append(token_string, next_char), Skip(j))
            ELSE /\ token_string' = Append(token_string, next_char)
                 /\ Goto("include", j)
    /\ LexerOnly

DirectiveDefine ==
    /\ Directive("define")
    /\ Return("t_define", <<"#", "define">>, Skip(WordEnd))

DirectiveIfdef ==
    /\ Directive("ifdef")
    /\ token_string' = <<>>
    /\ Goto("ifdef", Skip(WordEnd))

Known(name) == \E i \in 1..Len(aliases) : aliases[i].alias = name

\* The name is the rest of the line.
IfdefName ==
    /\ pc = "ifdef"
    /\ LET j == source_idx + 1
           name == Append(token_string, next_char)
       IN  IF next_char = End THEN Stop("overrun")
           ELSE IF At(source, j) /= NL
           THEN token_string' = name /\ Goto("ifdef", j)
           ELSE IF Known(name) THEN Again(Skip(j))
           ELSE token_string' = <<>> /\ Goto("skip", Skip(j))
    /\ LexerOnly

\* Mutant: any directive ends the lines that are skipped.
EndsSkippingAny(line) == line[1] = "#"

EndsSkipping(line) == line = <<"#", "endif">>

\* Lines are skipped until one is #endif; nothing else ends the loop.
SkipLine ==
    /\ pc = "skip"
    /\ LET j == source_idx + 1
           line == Append(token_string, next_char)
       IN  IF next_char = End THEN Stop("overrun")
           ELSE IF At(source, j) /= NL
           THEN token_string' = line /\ Goto("skip", j)
           ELSE IF EndsSkipping(line) THEN Again(Skip(j))
           ELSE token_string' = <<>> /\ Goto("skip", Skip(j))
    /\ LexerOnly

DirectiveEndif ==
    /\ Directive("endif")
    /\ Again(Skip(WordEnd))

DirectiveUnknown ==
    /\ InToken
    /\ next_char = "#"
    /\ \A name \in {"include", "define", "ifdef", "endif"} :
           Taken(WordEnd) /= <<"#", name>>
    /\ Stop("error")
    /\ LexerOnly

-----------------------------------------------------------------------------
(* Comments.                                                               *)

StartComment ==
    /\ InToken
    /\ next_char = "/"
    /\ IF At(source, source_idx + 1) = "*"
       THEN Goto("comment", source_idx + 1) /\ UNCHANGED token_string
       ELSE Stop("error")
    /\ LexerOnly

\* Mutant: only the character behind the first one is ever looked at.
CommentNextStuck ==
    LET j == source_idx + 1 IN IF At(source, j) = "*" THEN j + 1 ELSE source_idx

\* The index of the character that the test at the end of the loop looks at:
\* the one behind a * is consumed whatever it is.
CommentNext ==
    LET j == source_idx + 1 IN IF At(source, j) = "*" THEN j + 1 ELSE j

Comment ==
    /\ pc = "comment"
    /\ LET k == CommentNext IN
       IF At(source, k) = "/" /\ k > source_idx + 1 THEN Again(Skip(k + 1))
       ELSE IF At(source, k) = End THEN Stop("error")
       ELSE Goto("comment", k) /\ UNCHANGED token_string
    /\ LexerOnly

-----------------------------------------------------------------------------
(* Tokens.                                                                 *)

Numeric ==
    /\ InToken
    /\ is_digit(next_char)
    /\ LET j == After(source, source_idx + 1, is_hex) IN
       Return("t_numeric", Taken(j), Skip(j))
    /\ LexerOnly

\* What a punctuation character may be followed by to make one token of two
\* characters.  "." is in Dots.
Second ==
    [c \in {"(", ")", "{", "}", "[", "]", ",", "*", ";", ":", "&", "|", "<", ">", "!",
            "-", "+", "="} |->
        CASE c \in {"&", "|", "-", "+"} ->
                 {c, "="} \cup (IF c = "-" THEN {">"} ELSE {})
          [] c \in {"<", ">"} -> {c, "="}
          [] c \in {"!", "="} -> {"="}
          [] OTHER -> {}]

Punctuation ==
    /\ InToken
    /\ next_char \in DOMAIN Second
    /\ LET n == IF At(source, source_idx + 1) \in Second[next_char] THEN 2 ELSE 1 IN
       Return("punctuation", Taken(source_idx + n), ReadSkip(n))
    /\ LexerOnly

\* One dot, three dots, or the end of the compilation.
Dots ==
    /\ InToken
    /\ next_char = "."
    /\ IF At(source, source_idx + 1) /= "." THEN Return("punctuation", Taken(source_idx + 1), ReadSkip(1))
       ELSE IF At(source, source_idx + 2) = "." THEN Return("punctuation", Taken(source_idx + 3), ReadSkip(3))
       ELSE Stop("error")
    /\ LexerOnly

\* What stands behind a backslash, and the character meant.
Escapes ==
    [c \in {"n", "\"", "r", "'", "t", "\\"} |->
        CASE c = "n" -> NL [] c = "r" -> "\r" [] c = "t" -> "\t" [] OTHER -> c]

StartString ==
    /\ InToken
    /\ next_char = "\""
    /\ token_string' = <<>>
    /\ special' = FALSE
    /\ Goto("string", source_idx)
    /\ UnchangedParser

Closes(c) == c = "\"" /\ ~special

\* Whether a character is escaped is read from the token built so far.
String ==
    /\ pc = "string"
    /\ LET c == At(source, source_idx + 1)
           n == Len(token_string)
           escaped == n > 0 /\ token_string[n] = "\\"
       IN  IF Closes(c)
           THEN Return("t_string", token_string, ReadSkip(2)) /\ UNCHANGED special
           ELSE IF escaped /\ c \notin DOMAIN Escapes THEN Stop("error") /\ UNCHANGED special
           ELSE IF c = End THEN Stop("overrun") /\ UNCHANGED special
           ELSE /\ token_string' = IF escaped THEN [token_string EXCEPT ![n] = Escapes[c]]
                                   ELSE Append(token_string, c)
                /\ special' = (c = "\\")
                /\ Goto("string", source_idx + 1)
    /\ UnchangedParser

Char ==
    /\ InToken
    /\ next_char = "'"
    /\ LET slash == At(source, source_idx + 1) = "\\"
           at == IF slash THEN source_idx + 2 ELSE source_idx + 1
           c == At(source, at)
       IN  IF \/ slash /\ c \notin DOMAIN Escapes
              \/ c \in Runs
              \/ At(source, at + 1) /= "'"
           THEN Stop("error")
           ELSE Return("t_char", << IF slash THEN Escapes[c] ELSE c >>, Skip(at + 2))
    /\ LexerOnly

\* Mutant: the end of the text is consumed like a character.
EofConsumed ==
    /\ InToken
    /\ next_char = End
    /\ Return("t_eof", <<>>, source_idx + 1)
    /\ LexerOnly

Eof ==
    /\ InToken
    /\ next_char = End
    /\ Return("t_eof", <<>>, source_idx)
    /\ LexerOnly

Keywords == {<<"if">>, <<"return">>}

\* Keywords, then #define names, which become numbers, then identifiers.
Word ==
    /\ InToken
    /\ is_alnum(next_char) /\ ~is_digit(next_char)
    /\ LET text == Taken(WordEnd)
           found == {i \in 1..Len(aliases) : aliases[i].alias = text}
       IN  IF text \in Keywords THEN Return("keyword", text, Skip(WordEnd))
           ELSE IF found /= {}
           THEN LET first == CHOOSE i \in found : \A k \in found : i <= k IN
                Return("t_numeric", aliases[first].value, Skip(WordEnd))
           ELSE Return("t_identifier", text, Skip(WordEnd))
    /\ LexerOnly

Unrecognized ==
    /\ InToken
    /\ next_char \notin DOMAIN Second \cup {"#", "/", ".", "\"", "'", End}
    /\ ~is_alnum(next_char)
    /\ Stop("error")
    /\ LexerOnly

-----------------------------------------------------------------------------
(* The parser: p_read_global_statement, and p_parse at the end of the      *)
(* text.  Accepting a token reads the one behind it first.                 *)

Accept(control) ==
    /\ Again(source_idx)
    /\ parsing' = control
    /\ UNCHANGED <<source, special>>

SyntaxError ==
    /\ Stop("error")
    /\ UNCHANGED <<source, special, parsing>>

Parsing(control) == pc = "parser" /\ parsing[1] = control

AcceptDefine ==
    /\ Parsing("statement")
    /\ next_token = "t_define"
    /\ Accept(<<"define name">>)
    /\ UNCHANGED <<aliases, out>>

\* l_peek copies the name of an identifier, l_expect insists that it is one.
DefineName ==
    /\ Parsing("define name")
    /\ IF next_token = "t_identifier" THEN Accept(<<"define value", token_string>>)
                                      ELSE SyntaxError
    /\ UNCHANGED <<aliases, out>>

\* l_expect(t_numeric) reads the token behind the value before add_alias.
DefineValue ==
    /\ Parsing("define value")
    /\ IF next_token = "t_numeric" THEN Accept(<<"add alias", parsing[2], token_string>>)
                                   ELSE SyntaxError
    /\ UNCHANGED <<aliases, out>>

AddAlias ==
    /\ Parsing("add alias")
    /\ aliases' = Append(aliases, [alias |-> parsing[2], value |-> parsing[3]])
    /\ parsing' = Statement
    /\ UNCHANGED <<source, pc, source_idx, token_string, special, next_token, out>>

AcceptInclude ==
    /\ Parsing("statement")
    /\ next_token = "t_include"
    /\ Accept(Statement)
    /\ UNCHANGED <<aliases, out>>

AcceptToken ==
    /\ Parsing("statement")
    /\ next_token \notin {"t_define", "t_include", "t_eof"}
    /\ out' = Append(out, [token |-> next_token, text |-> token_string])
    /\ Accept(Statement)
    /\ UNCHANGED aliases

\* l_accept(t_eof)
AcceptEof ==
    /\ Parsing("statement")
    /\ next_token = "t_eof"
    /\ Stop("eof")
    /\ UNCHANGED <<source, special, aliases, parsing, out>>

l_next_token ==
    \/ DirectiveInclude \/ IncludeLine \/ DirectiveDefine \/ DirectiveIfdef \/ IfdefName
    \/ SkipLine \/ DirectiveEndif \/ DirectiveUnknown
    \/ StartComment \/ Comment
    \/ Numeric \/ Punctuation \/ Dots \/ StartString \/ String \/ Char
    \/ Eof \/ Word \/ Unrecognized

Parser ==
    \/ AcceptDefine \/ DefineName \/ DefineValue \/ AddAlias
    \/ AcceptInclude \/ AcceptToken \/ AcceptEof

Next == Initialize \/ l_next_token \/ Parser

=============================================================================
