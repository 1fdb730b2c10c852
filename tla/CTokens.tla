------------------------------ MODULE CTokens ------------------------------
(***************************************************************************)
(* The tokens of a text as C defines them: the text is cut into the        *)
(* longest lexemes, and then the directives among them are obeyed.         *)
(***************************************************************************)
EXTENDS Characters

-----------------------------------------------------------------------------
(* Lexemes.                                                                *)

Punctuators ==
    {<<c>> : c \in {"(", ")", "{", "}", "[", "]", ",", "*", ";", ":", "&", "|", "<", ">",
                    "!", ".", "-", "+", "="}}
    \cup { <<"&", "&">>, <<"&", "=">>, <<"|", "|">>, <<"|", "=">>, <<"<", "=">>, <<"<", "<">>,
           <<">", "=">>, <<">", ">">>, <<"!", "=">>, <<"-", ">">>, <<"-", "-">>, <<"-", "=">>,
           <<"+", "+">>, <<"+", "=">>, <<"=", "=">>, <<".", ".", ".">> }

Prefix(p, t) == Len(p) <= Len(t) /\ SubSeq(t, 1, Len(p)) = p

\* The first i from `from` on for which P holds, 0 if there is none.
FirstWith(from, to, P(_)) ==
    IF \E i \in from..to : P(i)
    THEN CHOOSE i \in from..to : P(i) /\ \A k \in from..(i - 1) : ~P(k)
    ELSE 0

\* An odd number of backslashes stands before position i of t.
EscapedAt(t, i) ==
    LET stop == CHOOSE k \in 0..(i - 1) :
                    /\ k = 0 \/ t[k] /= "\\"
                    /\ \A j \in (k + 1)..(i - 1) : t[j] = "\\"
    IN  (i - 1 - stop) % 2 = 1

Meant ==
    [c \in {"n", "\"", "r", "'", "t", "\\"} |->
        CASE c = "n" -> NL [] c = "r" -> "\r" [] c = "t" -> "\t" [] OTHER -> c]

RECURSIVE Unescape(_)
\* The characters a literal stands for, or <<"bad">>.
Unescape(t) ==
    IF t = <<>> THEN <<>>
    ELSE IF t[1] /= "\\" THEN <<t[1]>> \o Unescape(Tail(t))
    ELSE IF t[2] \notin DOMAIN Meant THEN <<"bad">>
    ELSE <<Meant[t[2]]>> \o Unescape(SubSeq(t, 3, Len(t)))

\* One lexeme: its kind, its text, and how many characters it takes.
Lexeme(kind, text, size) == [kind |-> kind, text |-> text, size |-> size]

Run(t, P(_)) ==
    LET n == FirstWith(1, Len(t), LAMBDA i : ~P(t[i])) IN IF n = 0 THEN Len(t) ELSE n - 1

Literal(t) ==
    LET n == FirstWith(2, Len(t), LAMBDA i : t[i] = t[1] /\ ~EscapedAt(t, i))
        text == Unescape(SubSeq(t, 2, n - 1))
        bad == \E i \in 1..Len(text) : text[i] = "bad"
    IN  IF n = 0
        THEN IF \E i \in 2..(Len(t) - 1) :
                    t[i] = "\\" /\ ~EscapedAt(t, i) /\ t[i + 1] \notin DOMAIN Meant
             THEN Lexeme("error", t, Len(t)) ELSE Lexeme("overrun", t, Len(t))
        ELSE Lexeme(IF bad THEN "error" ELSE "t_string", text, n)

CharLiteral(t) ==
    LET lengths == {n \in {3, 4} : n <= Len(t)}
        Is(n) == /\ t[n] = "'"
                 /\ IF n = 3 THEN t[2] \notin {"\\"} \cup Runs
                    ELSE t[2] = "\\" /\ t[3] \in DOMAIN Meant
    IN  IF \E n \in lengths : Is(n)
        THEN LET n == CHOOSE k \in lengths : Is(k) IN
             Lexeme("t_char", << IF n = 3 THEN t[2] ELSE Meant[t[3]] >>, n)
        ELSE Lexeme("error", t, Len(t))

\* The lexeme that the non-empty text t begins with.
Longest(t) ==
    LET fits == {p \in Punctuators : Prefix(p, t)} IN
    CASE t[1] = NL -> Lexeme("newline", <<>>, 1)
      [] t[1] = " " -> Lexeme("space", <<>>, 1)
      [] Prefix(<<"/", "*">>, t) ->
            LET n == FirstWith(4, Len(t), LAMBDA i : t[i - 1] = "*" /\ t[i] = "/") IN
            IF n = 0 THEN Lexeme("error", t, Len(t)) ELSE Lexeme("space", <<>>, n)
      [] t[1] = "\"" -> Literal(t)
      [] t[1] = "'" -> CharLiteral(t)
      [] t[1] = "#" -> LET n == 1 + Run(Tail(t), is_alnum) IN Lexeme("directive", SubSeq(t, 1, n), n)
      [] is_digit(t[1]) -> LET n == Run(t, is_hex) IN Lexeme("t_numeric", SubSeq(t, 1, n), n)
      [] is_alnum(t[1]) -> LET n == Run(t, is_alnum) IN Lexeme("word", SubSeq(t, 1, n), n)
      [] fits /= {} /\ ~(Prefix(<<".", ".">>, t) /\ ~Prefix(<<".", ".", ".">>, t)) ->
            LET p == CHOOSE p \in fits : \A q \in fits : Len(q) <= Len(p) IN
            Lexeme("punctuation", p, Len(p))
      [] OTHER -> Lexeme("error", t, Len(t))

RECURSIVE Lexemes(_)
Lexemes(t) ==
    IF t = <<>> THEN <<>>
    ELSE LET l == Longest(t)
             rest == Lexemes(SubSeq(t, l.size + 1, Len(t)))
         IN  IF l.kind = "space" THEN rest ELSE <<l>> \o rest

-----------------------------------------------------------------------------
(* Directives.                                                             *)

Ended(how) == [tokens |-> <<>>, end |-> how]

Then(token, rest) == [rest EXCEPT !.tokens = <<token>> \o @]

Token(kind, text) == [token |-> kind, text |-> text]

From(ls, i) == SubSeq(ls, i, Len(ls))

\* The line ls[1..] ends at this index.
LineEndOf(ls) == FirstWith(1, Len(ls), LAMBDA i : ls[i].kind = "newline")

Is(l, kind, text) == l.kind = kind /\ l.text = text

Classified(word, defs) ==
    IF word \in {<<"if">>, <<"return">>} THEN Token("keyword", word)
    ELSE IF word \in DOMAIN defs THEN Token("t_numeric", defs[word])
    ELSE Token("t_identifier", word)

RECURSIVE Obey(_, _)
\* The tokens of lexemes ls when defs are the names defined before them.
Obey(ls, defs) ==
    IF ls = <<>> THEN Ended("eof")
    ELSE LET l == ls[1]
             rest == Tail(ls)
             eol == LineEndOf(ls)
         IN
         CASE l.kind = "newline" -> Obey(rest, defs)
           [] l.kind = "word" -> Then(Classified(l.text, defs), Obey(rest, defs))
           [] l.kind \in {"t_numeric", "t_string", "t_char", "punctuation"} ->
                Then(Token(l.kind, l.text), Obey(rest, defs))
           [] l.kind \in {"error", "overrun"} -> Ended(l.kind)
           [] l.kind = "directive" ->
                CASE l.text = <<"#", "define">> ->
                       IF /\ Len(ls) > 2 /\ ls[2].kind = "word" /\ ls[2].text \notin DOMAIN defs
                          /\ \/ ls[3].kind = "t_numeric"
                             \/ ls[3].kind = "word" /\ ls[3].text \in DOMAIN defs
                       THEN LET value == IF ls[3].kind = "word" THEN defs[ls[3].text] ELSE ls[3].text
                                name == ls[2].text
                            IN  Obey(From(ls, 4),
                                     [w \in DOMAIN defs \cup {name} |->
                                         IF w = name THEN value ELSE defs[w]])
                       ELSE Ended("error")
                  [] l.text = <<"#", "ifdef">> ->
                       LET endif == FirstWith(1, Len(ls), LAMBDA i :
                                        Is(ls[i], "directive", <<"#", "endif">>)) IN
                       IF eol = 0 THEN Ended("overrun")
                       ELSE IF ls[2].text \in DOMAIN defs THEN Obey(From(ls, eol), defs)
                       ELSE IF endif = 0 THEN Ended("overrun")
                       ELSE LET n == LineEndOf(From(ls, endif)) IN
                            IF n = 0 THEN Ended("overrun") ELSE Obey(From(ls, endif + n), defs)
                  [] l.text = <<"#", "endif">> -> Obey(rest, defs)
                  [] l.text = <<"#", "include">> ->
                       IF eol = 0 THEN Ended("overrun") ELSE Obey(From(ls, eol), defs)
                  [] OTHER -> Ended("error")

=============================================================================
